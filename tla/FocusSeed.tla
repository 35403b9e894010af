------------------------------ MODULE FocusSeed ------------------------------
(***************************************************************************)
(* fabric-seed-uc12.py: a CSV to OneLake, a notebook that makes the UC-12  *)
(* marts of it, a reframe of the semantic model and a look at the tables.  *)
(* Operators run the script by hand, possibly side by side; a notebook run *)
(* goes on when its script has given up.                                   *)
(***************************************************************************)
EXTENDS Naturals

CONSTANTS
    Seeds,  \* runs of the script, numbered: the version of the files each carries
    Marts   \* EXPECTED_MARTS

VARIABLES
    file,      \* the CSV in OneLake: committed and appended version, 0 if empty
    notebook,  \* version of the notebook uc12_focus_seed, 0 if absent
    pending,   \* runs whose notebook definition Fabric is still taking in
    tables,    \* tables[m] = <<version of notebook, version of CSV>> of mart m
    job,       \* job[s] = the notebook run of seed s
    seed       \* seed[s] = how far seed s is

vars == <<file, notebook, pending, tables, job, seed>>
onelake == <<notebook, pending, tables, job>>

Missing == <<0, 0>>
NoJob == [at |-> "none", code |-> 0, todo |-> {}]
Idle == [at |-> "none", known |-> FALSE, alone |-> TRUE, followed |-> TRUE]

Init ==
    /\ file = [data |-> 0, staged |-> 0]
    /\ notebook = 0 /\ pending = {}
    /\ tables = [m \in Marts |-> Missing]
    /\ job = [s \in Seeds |-> NoJob]
    /\ seed = [s \in Seeds |-> Idle]

-----------------------------------------------------------------------------
(* Fabric *)

\* An updateDefinition or create that was answered with 202.
DefinitionLands(s) ==
    /\ s \in pending /\ pending' = pending \ {s}
    /\ notebook' = s
    /\ UNCHANGED <<file, tables, job, seed>>

\* The notebook looks at the CSV for its columns; an empty file has none.
JobReads(s) ==
    /\ job[s].at = "queued"
    /\ job' = [job EXCEPT ![s].at = IF file.data = 0 THEN "failed" ELSE "running"]
    /\ UNCHANGED <<file, notebook, pending, tables, seed>>

\* One mart after the other is overwritten.  Nothing is cached, so each of them
\* reads the file again, and gets no rows when it is empty by then.
JobWrites(s) ==
    /\ job[s].at = "running"
    /\ \E m \in job[s].todo :
          /\ tables' = [tables EXCEPT ![m] = <<job[s].code, file.data>>]
          /\ job' = [job EXCEPT ![s].todo = @ \ {m},
                                ![s].at = IF job[s].todo = {m} THEN "completed" ELSE "running"]
    /\ UNCHANGED <<file, notebook, pending, seed>>

JobFails(s) ==
    /\ job[s].at \in {"queued", "running"}
    /\ job' = [job EXCEPT ![s].at = "failed"]
    /\ UNCHANGED <<file, notebook, pending, tables, seed>>

-----------------------------------------------------------------------------
(* The script *)

At(s, step) == seed[s].at = step
GoTo(s, step) == seed' = [seed EXCEPT ![s].at = step]

Active(s) == seed[s].at \notin {"none", "done", "failed"}
Working(s) == s \in pending \/ job[s].at \in {"queued", "running"}

\* From now on no other seed is alone.
Start(s) ==
    /\ At(s, "none")
    /\ seed' = [t \in Seeds |->
                  IF t # s THEN [seed[t] EXCEPT !.alone = FALSE]
                  ELSE [Idle EXCEPT !.at = "create",
                                    !.alone = \A t2 \in Seeds \ {s} :
                                                 ~Active(t2) /\ ~Working(t2)]]
    /\ UNCHANGED <<file, onelake>>

\* An exception, a deadline, a mart that does not show up, Ctrl-C.
GiveUp(s) ==
    /\ Active(s) /\ GoTo(s, "failed")
    /\ UNCHANGED <<file, onelake>>

\* PUT ?resource=file empties the file.
CreateFile(s) ==
    /\ At(s, "create")
    /\ file' = [data |-> 0, staged |-> 0]
    /\ GoTo(s, "append")
    /\ UNCHANGED onelake

\* The CSV fits in one chunk.
AppendFile(s) ==
    /\ At(s, "append")
    /\ file' = [file EXCEPT !.staged = s]
    /\ GoTo(s, "flush")
    /\ UNCHANGED onelake

\* Nothing appended, or something of another size: refused.
FlushFile(s) ==
    /\ At(s, "flush") /\ file.staged # 0
    /\ file' = [file EXCEPT !.data = file.staged]
    /\ GoTo(s, "list")
    /\ UNCHANGED onelake

ListNotebooks(s) ==
    /\ At(s, "list")
    /\ seed' = [seed EXCEPT ![s].at = "put", ![s].known = notebook # 0]
    /\ UNCHANGED <<file, onelake>>

\* Updated by its id when it was listed, else created, which Fabric refuses
\* when there is one by then; at once or with a 202.  An update whose 202 names
\* no operation to wait for is not followed to its end.
PutNotebook(s) ==
    /\ At(s, "put") /\ seed[s].known = (notebook # 0)
    /\ \/ notebook' = s /\ UNCHANGED pending /\ GoTo(s, "trigger")
       \/ pending' = pending \cup {s} /\ UNCHANGED notebook /\ GoTo(s, "settle")
       \/ /\ seed[s].known /\ pending' = pending \cup {s} /\ UNCHANGED notebook
          /\ seed' = [seed EXCEPT ![s].at = "trigger", ![s].followed = FALSE]
    /\ UNCHANGED <<file, tables, job>>

AwaitDefinition(s) ==
    /\ At(s, "settle") /\ s \notin pending
    /\ GoTo(s, "trigger")
    /\ UNCHANGED <<file, onelake>>

TriggerNotebook(s) ==
    /\ At(s, "trigger")
    /\ job' = [job EXCEPT ![s] = [NoJob EXCEPT !.at = "queued", !.code = notebook,
                                               !.todo = Marts]]
    /\ GoTo(s, "wait")
    /\ UNCHANGED <<file, notebook, pending, tables>>

\* As AwaitNotebook, going on without an answer.
BugAwaitNotebook(s) ==
    /\ At(s, "wait")
    /\ GoTo(s, "refresh")
    /\ UNCHANGED <<file, onelake>>

\* wait_for_operation raises for every end but Completed, and after 30 minutes.
AwaitNotebook(s) ==
    /\ At(s, "wait") /\ job[s].at = "completed"
    /\ GoTo(s, "refresh")
    /\ UNCHANGED <<file, onelake>>

\* No model, no token, a refused reframe: all of it is fine.
RefreshModel(s) ==
    /\ At(s, "refresh")
    /\ GoTo(s, "verify")
    /\ UNCHANGED <<file, onelake>>

\* All marts are listed, whatever they hold.
Verify(s) ==
    /\ At(s, "verify") /\ \A m \in Marts : tables[m] # Missing
    /\ GoTo(s, "done")
    /\ UNCHANGED <<file, onelake>>

Next == \E s \in Seeds :
    \/ DefinitionLands(s) \/ JobReads(s) \/ JobWrites(s) \/ JobFails(s)
    \/ Start(s) \/ GiveUp(s)
    \/ CreateFile(s) \/ AppendFile(s) \/ FlushFile(s)
    \/ ListNotebooks(s) \/ PutNotebook(s) \/ AwaitDefinition(s)
    \/ TriggerNotebook(s) \/ AwaitNotebook(s) \/ RefreshModel(s) \/ Verify(s)

Spec == Init /\ [][Next]_vars

-----------------------------------------------------------------------------
\* The values of the variables.
FocusTypeOK ==
    /\ file \in [data : Seeds \cup {0}, staged : Seeds \cup {0}]
    /\ notebook \in Seeds \cup {0} /\ pending \subseteq Seeds
    /\ tables \in [Marts -> (Seeds \cup {0}) \X (Seeds \cup {0})]
    /\ \A s \in Seeds :
          /\ job[s].at \in {"none", "queued", "running", "completed", "failed"}
          /\ job[s].code \in Seeds \cup {0}
          /\ job[s].todo \subseteq Marts
          /\ {seed[s].known, seed[s].alone, seed[s].followed} \subseteq BOOLEAN

\* A seed that ended well with no other seed and no notebook run of another
\* beside it left its own CSV in every mart, as its own notebook sees it unless
\* Fabric gave no operation to follow: what an interrupted seed left behind, a
\* file without contents, an old notebook or old marts that satisfy the last
\* check, is gone.
SeedsBuildTheirMarts == \A s \in Seeds :
    seed[s].at = "done" /\ seed[s].alone =>
        \A m \in Marts : /\ tables[m][2] = s
                         /\ seed[s].followed => tables[m][1] = s
=============================================================================
