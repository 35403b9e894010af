---------------------------- MODULE GrantLedger ----------------------------
(***************************************************************************)
(* What self-service data access promises (ADR-0008): a user holds a       *)
(* `data_access` role only because a reviewer approved an access request   *)
(* of that user for that schema.  An approval authorises any number of     *)
(* grants; an administrator may take a role away at any time.              *)
(***************************************************************************)
CONSTANTS
  Tasks,       \* access-request tasks
  Requester,   \* Requester[t]: the user who asked
  About        \* About[t]: the role that stands for the requested schema

VARIABLES
  approved,    \* tasks a reviewer approved
  held         \* <<user, role>> pairs in force

ledgerVars == <<approved, held>>

Init ==
  /\ approved = {}
  /\ held = {}

Approve(t) ==
  /\ approved' = approved \union {t}
  /\ UNCHANGED held

Grant(t) ==
  /\ t \in approved
  /\ held' = held \union {<<Requester[t], About[t]>>}
  /\ UNCHANGED approved

Revoke(gone) ==
  /\ held' = held \ gone
  /\ UNCHANGED approved

Next ==
  \/ \E t \in Tasks : Approve(t) \/ Grant(t)
  \/ \E gone \in SUBSET held : Revoke(gone)

Spec == Init /\ [][Next]_ledgerVars
=============================================================================
