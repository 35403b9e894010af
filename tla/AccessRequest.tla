--------------------------- MODULE AccessRequest ---------------------------
(***************************************************************************)
(* The request form of the om-access-bridge (POST /api/request in          *)
(* platform/18-om-access-bridge/app/app.py): it makes an account for the   *)
(* requester when there is none and opens a task for the owners of the     *)
(* table.  A step is one HTTP call with what follows it up to the next.    *)
(*                                                                         *)
(* One table, which exists; an account is a member of a set, since the     *)
(* form uses no more of it.  Accounts come and never go.                   *)
(***************************************************************************)
EXTENDS Naturals, FiniteSets

CONSTANTS
    People,
    Steward,      \* data.steward
    Teams,        \* may own the table, beside users
    Forms,        \* bound: submits of the form
    RequestedBy,  \* RequestedBy[r] = the user in r's body
    MaxEdits      \* bound: edits of owners and teams

RequestAssumption ==
    /\ Steward \in People /\ People \cap Teams = {}
    /\ RequestedBy \in [Forms -> People]
    /\ MaxEdits \in Nat

VARIABLES
    account,   \* users with an account in OpenMetadata
    owners,    \* the table's owners
    members,   \* members[t] = the users of team t
    edits,     \* how many edits there were
    known,     \* _user_id_cache: names with an id
    form,      \* form[r] = the handler of request r
    tasks,     \* tasks made: request and assignees
    seen,      \* history: owners and memberships of r's time
    steady     \* history: the ways to own the table that lasted since r came

world == <<owners, members, edits>>
history == <<seen, steady>>
vars == <<account, world, known, form, tasks, history>>

-----------------------------------------------------------------------------
Unsent == [at |-> "unsent", names |-> {}, todo |-> {}, refs |-> {}, failed |-> FALSE]

\* Through which owner a person owns the table.
Ways(os, ms) == {<<o, o>> : o \in os \cap People} \cup
                UNION {{<<t, u>> : u \in ms[t]} : t \in os \cap Teams}

\* At most one owner and one member each to begin with.
Init ==
    /\ account \in SUBSET People
    /\ owners \in SUBSET (People \cup Teams) /\ Cardinality(owners) =< 1
    /\ members \in [Teams -> {us \in SUBSET People : Cardinality(us) =< 1}]
    /\ edits = 0
    /\ known = {} /\ form = [r \in Forms |-> Unsent] /\ tasks = {}
    /\ seen = [r \in Forms |-> {}] /\ steady = [r \in Forms |-> {}]

-----------------------------------------------------------------------------
(* Administrators and logins. *)

EditOwners(os, ms) ==
    /\ edits < MaxEdits /\ edits' = edits + 1
    /\ <<os, ms>> # <<owners, members>>
    /\ owners' = os /\ members' = ms
    /\ seen' = [r \in Forms |-> seen[r] \cup os \cup Ways(Teams, ms)]
    /\ steady' = [r \in Forms |-> steady[r] \cap Ways(os, ms)]
    /\ UNCHANGED <<account, known, form, tasks>>

\* A first login, or the nightly UserSync.
AccountMade(u) ==
    /\ u \notin account /\ account' = account \cup {u}
    /\ UNCHANGED <<world, known, form, tasks, history>>

-----------------------------------------------------------------------------
(* The request form. *)

Goto(r, at) == form' = [form EXCEPT ![r].at = at]
At(r, at) == form[r].at = at

\* lookup_user_id: the id is cached, or the account is found and then cached.
Found(u) == u \in known \cup account

\* create_access_request: the asset's name is good.
Submit(r) ==
    /\ At(r, "unsent") /\ Goto(r, "ensure")
    /\ seen' = [seen EXCEPT ![r] = owners \cup Ways(Teams, members)]
    /\ steady' = [steady EXCEPT ![r] = Ways(owners, members)]
    /\ UNCHANGED <<account, world, known, tasks>>

\* ensure_user looks the requester up ...
Ensure(r) ==
    /\ At(r, "ensure")
    /\ Goto(r, IF Found(RequestedBy[r]) THEN "table" ELSE "create")
    /\ known' = known \cup {u \in {RequestedBy[r]} : Found(u)}
    /\ UNCHANGED <<world, account, tasks, history>>

\* ... makes the account ...
CreateUser(r) ==
    /\ At(r, "create")
    /\ LET u == RequestedBy[r]
       IN  IF u \notin account
           THEN /\ account' = account \cup {u}
                /\ known' = known \cup {u} /\ Goto(r, "table")
           ELSE Goto(r, "again") /\ UNCHANGED <<account, known>>
    /\ UNCHANGED <<world, tasks, history>>

\* ... or looks again when another was faster (409).
LookAgain(r) ==
    /\ At(r, "again")
    /\ Goto(r, "table")
    /\ known' = known \cup {RequestedBy[r]}
    /\ UNCHANGED <<world, account, tasks, history>>

\* get_table: users among the owners are candidates, teams are asked next.
ReadTable(r) ==
    /\ At(r, "table")
    /\ form' = [form EXCEPT ![r].at = "teams", ![r].names = owners \cap People,
                            ![r].todo = owners \cap Teams]
    /\ UNCHANGED <<world, account, known, tasks, history>>

\* lookup_team_users: an answer that is not 200 is a team without members.
ReadTeam(r, t) ==
    /\ At(r, "teams") /\ t \in form[r].todo
    /\ \/ form' = [form EXCEPT ![r].todo = @ \ {t}, ![r].names = @ \cup members[t]]
       \/ form' = [form EXCEPT ![r].todo = @ \ {t}, ![r].failed = TRUE]
    /\ UNCHANGED <<world, account, known, tasks, history>>

\* "val terug op data.steward zodat de Task niet ongeassigned blijft hangen"
Assign(r) ==
    /\ At(r, "teams") /\ form[r].todo = {}
    /\ LET names == IF form[r].names = {} THEN {Steward} ELSE form[r].names
       IN  form' = [form EXCEPT ![r].at = "resolve", ![r].names = names, ![r].todo = names]
    /\ UNCHANGED <<world, account, known, tasks, history>>

\* resolve_assignee_refs: a name without account, or whose lookup fails, is
\* left out.
Resolve(r, u) ==
    /\ At(r, "resolve") /\ u \in form[r].todo
    /\ \/ /\ Found(u) /\ known' = known \cup {u}
          /\ form' = [form EXCEPT ![r].todo = @ \ {u}, ![r].refs = @ \cup {u}]
       \/ /\ u \notin known /\ UNCHANGED known
          /\ form' = [form EXCEPT ![r].todo = @ \ {u},
                                  ![r].failed = @ \/ u \in account]
    /\ UNCHANGED <<world, account, tasks, history>>

\* As Refusal, without the check of what was resolved.
BugRefusal(r) == FALSE

\* No assignee was found: 500.
Refusal(r) == form[r].refs = {}

\* create_request_task; the answer may be lost although the task is there.
PostTask(r) ==
    /\ At(r, "resolve") /\ form[r].todo = {}
    /\ IF Refusal(r)
       THEN Goto(r, "refused") /\ UNCHANGED tasks
       ELSE /\ tasks' = tasks \cup {[of |-> r, to |-> form[r].refs]}
            /\ \E at \in {"created", "refused"} :
                   form' = [form EXCEPT ![r].at = at, ![r].failed = @ \/ at = "refused"]
    /\ UNCHANGED <<world, account, known, history>>

\* A call of ensure_user, get_table or create_request_task fails: 502.
RequestFails(r) ==
    /\ ~At(r, "unsent") /\ ~At(r, "created") /\ ~At(r, "refused")
    /\ form' = [form EXCEPT ![r].at = "refused", ![r].failed = TRUE]
    /\ UNCHANGED <<world, account, known, tasks, history>>

\* The pod is replaced: handlers and the cache are gone.
BridgeRestarts ==
    /\ known # {} /\ known' = {}
    /\ form' = [r \in Forms |->
           IF form[r].at \in {"unsent", "created", "refused"} THEN form[r]
           ELSE [form[r] EXCEPT !.at = "refused", !.failed = TRUE]]
    /\ UNCHANGED <<world, account, tasks, history>>

Next ==
    \/ \E os \in SUBSET (People \cup Teams), ms \in [Teams -> SUBSET People] : EditOwners(os, ms)
    \/ \E u \in People : AccountMade(u)
    \/ \E r \in Forms :
          \/ Submit(r) \/ Ensure(r) \/ CreateUser(r) \/ LookAgain(r) \/ ReadTable(r)
          \/ Assign(r) \/ PostTask(r) \/ RequestFails(r)
          \/ \E t \in Teams : ReadTeam(r, t)
          \/ \E u \in People : Resolve(r, u)
    \/ BridgeRestarts

Spec == Init /\ [][Next]_vars

-----------------------------------------------------------------------------
Handlers ==
    [at : {"unsent", "ensure", "create", "again", "table", "teams", "resolve",
           "created", "refused"},
     names : SUBSET People, todo : SUBSET (People \cup Teams), refs : SUBSET People,
     failed : BOOLEAN]

\* Type invariant of the form: every name with a cached id, and every assignee
\* found so far, has an account.
RequestTypeOK ==
    /\ account \subseteq People /\ edits \in 0..MaxEdits
    /\ owners \subseteq People \cup Teams /\ members \in [Teams -> SUBSET People]
    /\ form \in [Forms -> Handlers]
    /\ known \cup UNION {form[r].refs : r \in Forms} \subseteq account
    /\ tasks \subseteq [of : Forms, to : SUBSET People]

\* Who owned the table, or belonged to an owning team, while r was handled.
Owned(r, u) == u \in seen[r] \/ \E t \in Teams : {t, <<t, u>>} \subseteq seen[r]

\* Every task of the form has an approver, each one an owner of the table while
\* the request was handled, or the data steward; the steward stands in only when
\* nobody owned the table all the while or a lookup failed
\* (create_access_request, 663-702).  And a request is only refused when a call
\* failed or none of the assignees has an account, also when two requests of one
\* new user overlap (ensure_user, 358).
TasksHaveApprover ==
    /\ \A k \in tasks :
          /\ k.to # {}
          /\ \A u \in k.to :
                \/ Owned(k.of, u)
                \/ u = Steward /\ (steady[k.of] = {} \/ form[k.of].failed)
    /\ \A r \in Forms :
          form[r].at = "refused" /\ ~form[r].failed => form[r].refs = {} /\ form[r].names # {}
=============================================================================
