---------------------------- MODULE BronzeStream ----------------------------
(***************************************************************************)
(* Events come to bronze in two stages.  The Job of the DAG                *)
(* synthetic_data_load runs data-generation/load_to_s3.py, which puts one  *)
(* file per stream in the raw zone, under the name of its own batch id; a  *)
(* pod that fails is replaced once and the new one writes all streams.     *)
(* spark-jobs/streaming_files_to_lakehouse.py makes rows of the files, one *)
(* Delta table per stream: Spark fixes the files of a micro-batch in the   *)
(* checkpoint, calls process_batch and commits the batch; a driver that    *)
(* dies runs the uncommitted batch again.  For every stream process_batch  *)
(* appends and then registers the table anew, by a DROP and a CREATE.      *)
(***************************************************************************)
EXTENDS Naturals, Sequences, FiniteSets

CONSTANTS
    Loads,       \* bound: Jobs of the generator
    Order,       \* the streams in the order the generator writes them
    Stray,       \* files of others, in a path that gives no table
    MaxFailures  \* bound: drivers that die

Pods == Loads \X {1, 2}  \* of each Job the first pod, and the second of backoff_limit = 1
Streams == {Order[n] : n \in DOMAIN Order}
StrayFiles == (Stray \X {1}) \X {"none"}
Files == (Pods \X Streams) \cup StrayFiles

StreamAssumption == Order \in Seq(Streams) /\ MaxFailures \in Nat

\* The stream in a file's path.
StreamOf(f) == f[2]

VARIABLES
    pod,         \* pod[p] = its phase and how many streams it has written
    raw,         \* files in the raw zone
    batches,     \* the checkpoint: files of each batch
    committed,   \* the checkpoint: how many of them are committed
    driver,      \* the Spark application
    copies,      \* copies[f] = how often f's rows are in their table
    registered,  \* the streams whose table the metastore knows
    failures     \* failures[n] = history: drivers that died in batch n

vars == <<pod, raw, batches, committed, driver, copies, registered, failures>>

Idle == [at |-> "idle", on |-> {}, todo |-> {}]
Down == [Idle EXCEPT !.at = "down"]

Init ==
    /\ pod = [p \in Pods |-> [at |-> "none", done |-> 0]]
    /\ raw = {} /\ batches = <<>> /\ committed = 0
    /\ driver = Down
    /\ copies = [f \in Files |-> 0]
    /\ registered = {} /\ failures = <<>>

-----------------------------------------------------------------------------
(* The generator *)

loader == <<batches, committed, driver, copies, registered, failures>>

\* A Job starts its first pod at any time, the second when that one failed.
StartPod(p) ==
    /\ pod[p].at = "none" /\ (p[2] = 2 => pod[<<p[1], 1>>].at = "failed")
    /\ pod' = [pod EXCEPT ![p].at = "running"]
    /\ UNCHANGED <<raw, loader>>

\* _emit of the next stream ends with flush: one object with all its events.
Emit(p) ==
    /\ pod[p].at = "running" /\ pod[p].done < Len(Order)
    /\ raw' = raw \cup {<<p, Order[pod[p].done + 1]>>}
    /\ pod' = [pod EXCEPT ![p].done = @ + 1]
    /\ UNCHANGED loader

PodEnds(p) ==
    /\ pod[p].at = "running"
    /\ \/ pod' = [pod EXCEPT ![p].at = "failed"]
       \/ pod[p].done = Len(Order) /\ pod' = [pod EXCEPT ![p].at = "succeeded"]
    /\ UNCHANGED <<raw, loader>>

\* Somebody else puts a file in the raw zone.
Land(f) ==
    /\ f \notin raw /\ raw' = raw \cup {f}
    /\ UNCHANGED <<pod, loader>>

-----------------------------------------------------------------------------
(* The Spark application *)

\* main: the session, ensure_bronze_schema, the query.
StartDriver ==
    /\ driver.at = "down" /\ driver' = Idle
    /\ UNCHANGED <<pod, raw, batches, committed, copies, registered, failures>>

Planned == UNION {batches[n] : n \in DOMAIN batches}

\* Every twenty seconds, when the batch before is committed: all new files.
PlanBatch ==
    /\ driver.at = "idle" /\ committed = Len(batches) /\ raw \ Planned # {}
    /\ batches' = Append(batches, raw \ Planned)
    /\ failures' = Append(failures, 0)
    /\ UNCHANGED <<pod, raw, committed, driver, copies, registered>>

CurrentBatch == batches[committed + 1]

\* As StreamsOf, an unknown stream ends the call.
BugStreamsOf(fs) == IF {StreamOf(f) : f \in fs} \subseteq Streams
                    THEN {StreamOf(f) : f \in fs} ELSE {}

\* The streams of the batch; one without a table is skipped.
StreamsOf(fs) == {StreamOf(f) : f \in fs} \cap Streams

\* process_batch begins, for the first time or again.
BeginBatch ==
    /\ driver.at = "idle" /\ committed < Len(batches)
    /\ driver' = [Idle EXCEPT !.at = "append", !.todo = StreamsOf(CurrentBatch)]
    /\ UNCHANGED <<pod, raw, batches, committed, copies, registered, failures>>

\* One Delta commit with the rows of one stream.
AppendRows(s) ==
    /\ driver.at = "append" /\ s \in driver.todo
    /\ copies' = [f \in Files |-> IF f \in CurrentBatch /\ StreamOf(f) = s THEN copies[f] + 1
                                  ELSE copies[f]]
    /\ driver' = [at |-> "drop", on |-> {s}, todo |-> driver.todo \ {s}]
    /\ UNCHANGED <<pod, raw, batches, committed, registered, failures>>

\* DROP TABLE IF EXISTS: the table is external, its rows stay.
DropTable ==
    /\ driver.at = "drop"
    /\ registered' = registered \ driver.on
    /\ driver' = [driver EXCEPT !.at = "create"]
    /\ UNCHANGED <<pod, raw, batches, committed, copies, failures>>

CreateTable ==
    /\ driver.at = "create"
    /\ registered' = registered \cup driver.on
    /\ driver' = [driver EXCEPT !.at = "append", !.on = {}]
    /\ UNCHANGED <<pod, raw, batches, committed, copies, failures>>

\* process_batch returns and Spark commits the batch.
CommitBatch ==
    /\ driver.at = "append" /\ driver.todo = {}
    /\ committed' = committed + 1
    /\ driver' = Idle
    /\ UNCHANGED <<pod, raw, batches, copies, registered, failures>>

\* The pod is lost, or a statement raises and the query ends with it.
DriverDies ==
    /\ driver.at # "down" /\ driver' = Down
    /\ IF driver.at = "idle" THEN UNCHANGED failures
       ELSE /\ failures[committed + 1] < MaxFailures
            /\ failures' = [failures EXCEPT ![committed + 1] = @ + 1]
    /\ UNCHANGED <<pod, raw, batches, committed, copies, registered>>

Next ==
    \/ \E p \in Pods : StartPod(p) \/ Emit(p) \/ PodEnds(p)
    \/ \E f \in StrayFiles : Land(f)
    \/ StartDriver \/ PlanBatch \/ BeginBatch
    \/ \E s \in Streams : AppendRows(s)
    \/ DropTable \/ CreateTable \/ CommitBatch \/ DriverDies

Spec == Init /\ [][Next]_vars

-----------------------------------------------------------------------------
\* Type invariant of the loader: batches are disjoint and only the last one may
\* be uncommitted.
StreamLoaderTypeOK ==
    /\ pod \in [Pods -> [at : {"none", "running", "succeeded", "failed"}, done : 0..Len(Order)]]
    /\ raw \subseteq Files /\ Planned \subseteq raw
    /\ \A m, n \in DOMAIN batches : m # n => batches[m] \cap batches[n] = {}
    /\ committed \in {Len(batches), Len(batches) - 1} \cap Nat
    /\ driver \in [at : {"down", "idle", "append", "drop", "create"},
                   on : SUBSET Streams, todo : SUBSET Streams]
    /\ driver.at \in {"append", "drop", "create"} => committed < Len(batches)
    /\ driver.at \in {"drop", "create"} <=> driver.on # {}
    /\ copies \in [Files -> Nat] /\ registered \subseteq Streams
    /\ failures \in [DOMAIN batches -> 0..MaxFailures]

\* Once the Spark application has committed all there is, the rows of every
\* stream of a Job that succeeded are in their table.  The files of a committed
\* batch are in their tables, once and at most once
\* more for every time the driver died in that batch.  And a table with rows is
\* missing from the metastore only while a batch of its stream is under way or
\* waits to be run again (process_batch, 71-111).
BatchesLand ==
    /\ raw = Planned /\ committed = Len(batches) =>
          \A p \in Pods : pod[p].at = "succeeded" => \A s \in Streams : copies[<<p, s>>] > 0
    /\ \A n \in DOMAIN batches : \A f \in batches[n] : StreamOf(f) \in Streams =>
          /\ copies[f] =< 1 + failures[n]
          /\ n =< committed => copies[f] > 0
    /\ \A f \in Files : copies[f] > 0 /\ StreamOf(f) \notin registered =>
          committed < Len(batches) /\ StreamOf(f) \in StreamsOf(CurrentBatch)
=============================================================================
