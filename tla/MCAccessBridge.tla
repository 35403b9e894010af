--------------------------- MODULE MCAccessBridge ---------------------------
(* Instances of the bridge: tasks t1 (ann) and t2 (bob) ask for the same
   schema, t3 is a description request on an asset outside Trino. *)
EXTENDS AccessBridge, TLC

CONSTANTS t1, t2, t3, ann, bob, r1

MCRequester == [t \in Tasks |-> IF t = t2 THEN bob ELSE ann]
MCAbout == [t \in Tasks |-> IF t = t3 THEN NoRole ELSE r1]

OmSignature == [decodes |-> TRUE, over |-> "body", stamp |-> "none"]
LateSignature == [decodes |-> TRUE, over |-> "stamp.body", stamp |-> "stale"]
MCSignatures == {OmSignature, LateSignature}
MCSigned == {OmSignature}

\* At most two of a fault, a replay and a revocation in one behaviour.
FewDisturbances == faults + replays + revokes <= 2

Symmetric == Permutations(Pods) \union Permutations(Slots)
=============================================================================
