---------------------------- MODULE AccessBridge ----------------------------
(***************************************************************************)
(* The om-access-bridge: OpenMetadata sends a webhook for every decided    *)
(* task, a FastAPI handler turns an approved access request into a         *)
(* Keycloak realm role, and an in-memory set of task ids suppresses        *)
(* duplicates.  Every `await` of a handler is a point where other          *)
(* requests, a restart or a Keycloak administrator may interleave.         *)
(***************************************************************************)
EXTENDS Naturals

CONSTANTS
  Tasks,        \* OpenMetadata task ids
  Users,        \* usernames
  Roles,        \* realm roles data_access:<catalog>.<schema>
  NoRole,       \* stands for an asset FQN that maps to no role
  Requester,    \* Requester[t]: `createdBy` of the task
  About,        \* About[t]: the role of the task's asset, or NoRole
  Marked,       \* tasks whose text holds "request access"
  KcUsers,      \* usernames Keycloak knows
  Pods,         \* bridge pods (two overlap during a rolling update)
  Slots,        \* requests the bridge can be handling at once
  NoReq,        \* a free slot
  Signatures,   \* signatures a delivery may carry (subset of SignatureSpace)
  Flat,         \* tasks whose webhook events have the flat shape
  MaxAttempts,  \* webhook deliveries OpenMetadata makes per event
  MaxFaults,    \* bound: failed calls, lost requests, pod stops
  MaxReplays,   \* bound: operator calls of /replay
  MaxRevokes    \* bound: roles an administrator takes away

Kinds == {"webhook", "replay"}
\* The awaits of grant_role, in order; "record" is the code after the last.
Awaits == {"token", "find", "getrole", "create", "getafter", "map", "record"}
Requests == [pc: Awaits, task: Tasks, pod: Pods, kind: Kinds]

\* What the handler sees of a delivery's signature: whether the header is there
\* and decodes, what the HMAC was computed over, and the timestamp header.
SignatureSpace == [decodes: BOOLEAN, over: {"body", "stamp.body", "other"},
               stamp: {"none", "garbled", "fresh", "stale"}]

ASSUME BridgeAssumption ==
  /\ NoRole \notin Roles
  /\ Requester \in [Tasks -> Users]
  /\ About \in [Tasks -> Roles \union {NoRole}]
  /\ Marked \subseteq Tasks
  /\ KcUsers \subseteq Users
  /\ Flat \subseteq Tasks
  /\ NoReq \notin Requests
  /\ Signatures \subseteq SignatureSpace
  /\ MaxAttempts \in Nat \ {0}
  /\ MaxFaults \in Nat
  /\ MaxReplays \in Nat
  /\ MaxRevokes \in Nat

VARIABLES
  \* OpenMetadata
  task,       \* state of each task
  attempts,   \* deliveries OpenMetadata may still make for the task's event
  acked,      \* tasks whose event was answered with 2xx
  \* the bridge
  up,         \* running pods
  processed,  \* _processed_events of each pod
  req,        \* the request in each slot
  \* Keycloak
  roles,      \* realm roles that exist
  mappings,   \* <<user, role>> realm-role mappings
  \* history and bounds
  mapCalls,   \* role-mapping calls Keycloak carried out, per task
  replayed,   \* tasks an operator called /replay for
  reopened,   \* tasks a pod may take up although another handler mapped them
  faults, replays, revokes

omVars == <<task, attempts, acked>>
podVars == <<up, processed>>
kcVars == <<roles, mappings, mapCalls>>
taleVars == <<replayed, reopened>>
boundVars == <<taleVars, faults, replays, revokes>>
vars == <<omVars, podVars, req, kcVars, boundVars>>

TaskStates == {"none", "open", "approved", "rejected"}

TypeOK ==
  /\ task \in [Tasks -> TaskStates]
  /\ attempts \in [Tasks -> 0..MaxAttempts]
  /\ acked \subseteq Tasks
  /\ up \subseteq Pods
  /\ processed \in [Pods -> SUBSET Tasks]
  /\ req \in [Slots -> Requests \union {NoReq}]
  /\ roles \subseteq Roles
  /\ mappings \subseteq (Users \X Roles)
  /\ mapCalls \in [Tasks -> Nat]
  /\ replayed \subseteq Tasks
  /\ reopened \subseteq Tasks
  /\ faults \in 0..MaxFaults
  /\ replays \in 0..MaxReplays
  /\ revokes \in 0..MaxRevokes

Init ==
  /\ task = [t \in Tasks |-> "none"]
  /\ attempts = [t \in Tasks |-> 0]
  /\ acked = {}
  /\ \E p \in Pods : up = {p}
  /\ processed = [p \in Pods |-> {}]
  /\ req = [s \in Slots |-> NoReq]
  /\ roles = {}
  /\ mappings = {}
  /\ mapCalls = [t \in Tasks |-> 0]
  /\ replayed = {}
  /\ reopened = {}
  /\ faults = 0
  /\ replays = 0
  /\ revokes = 0
-----------------------------------------------------------------------------
(* OpenMetadata *)

OpenTask(t) ==
  /\ task[t] = "none"
  /\ task' = [task EXCEPT ![t] = "open"]
  /\ UNCHANGED <<attempts, acked, podVars, req, kcVars, boundVars>>

\* A reviewer accepts or rejects; OpenMetadata publishes one event.
Decide(t, verdict) ==
  /\ task[t] = "open"
  /\ task' = [task EXCEPT ![t] = verdict]
  /\ attempts' = [attempts EXCEPT ![t] = MaxAttempts]
  /\ UNCHANGED <<acked, podVars, req, kcVars, boundVars>>

\* The event that describes task t.  OpenMetadata 1.12 sends taskResolved for
\* an accepted and taskClosed for a rejected task and has no resolution; in
\* the flat shape both are taskResolved/Closed and the resolution tells.
EventOf(t, flat) ==
  [task       |-> t,
   eventType  |-> IF \/ task[t] = "approved"
                     \/ task[t] = "rejected" /\ flat
                  THEN "taskResolved" ELSE "taskClosed",
   status     |-> IF task[t] \in {"approved", "rejected"} THEN "closed" ELSE "open",
   resolution |-> IF flat /\ task[t] \in {"approved", "rejected"}
                  THEN task[t] ELSE "none"]

WebhookEvent(t) == EventOf(t, t \in Flat)
-----------------------------------------------------------------------------
(* The bridge *)

BugAcceptsClosed(event) ==
  /\ event.status = "closed"
  /\ event.task \in Marked
  /\ About[event.task] # NoRole

\* The event describes an access request that _parse_grant turns into a grant
\* (createdBy and the task id are always present on an OpenMetadata task).
ParseGrant(event) ==
  /\ event.eventType = "taskResolved"
  /\ \/ event.status = "closed"
     \/ event.resolution = "approved"
  /\ event.task \in Marked
  /\ About[event.task] # NoRole

\* The body-only HMAC of OpenMetadata needs no timestamp; the self-signed one
\* needs a timestamp inside the replay window.
VerifySignature(sig) ==
  /\ sig.decodes
  /\ \/ sig.over = "body"
     \/ sig.over = "stamp.body" /\ sig.stamp = "fresh"

\* A request starts awaiting Keycloak in a free slot of pod p.
StartGrant(s, p, t, kind) ==
  /\ req[s] = NoReq
  /\ req' = [req EXCEPT ![s] = [pc |-> "token", task |-> t, pod |-> p, kind |-> kind]]

\* Some handler has task t or some pod remembers it.
Known(t) ==
  \/ \E s \in Slots : req[s] # NoReq /\ req[s].task = t
  \/ \E p \in Pods : t \in processed[p]

\* OpenMetadata delivers (or, after a timeout, redelivers) the event of t to a
\* pod.  The body is read, verified and parsed and the duplicate check made
\* before the first suspension of the handler.
WebhookGrant(s, p, t, sig) ==
  /\ p \in up
  /\ attempts[t] > 0
  /\ VerifySignature(sig)
  /\ ParseGrant(WebhookEvent(t))
  /\ t \notin processed[p]
  /\ StartGrant(s, p, t, "webhook")
  /\ attempts' = [attempts EXCEPT ![t] = @ - 1]
  /\ reopened' = IF Known(t) THEN reopened \union {t} ELSE reopened
  /\ UNCHANGED <<task, acked, podVars, kcVars, replayed, faults, replays, revokes>>

WebhookDuplicate(p, t, sig) ==
  /\ p \in up
  /\ attempts[t] > 0
  /\ VerifySignature(sig)
  /\ ParseGrant(WebhookEvent(t))
  /\ t \in processed[p]
  /\ attempts' = [attempts EXCEPT ![t] = 0]
  /\ acked' = acked \union {t}
  /\ UNCHANGED <<task, podVars, req, kcVars, boundVars>>

\* 400: the event is not an approved access request.
WebhookRefused(p, t, sig) ==
  /\ p \in up
  /\ attempts[t] > 0
  /\ VerifySignature(sig)
  /\ ~ParseGrant(WebhookEvent(t))
  /\ attempts' = [attempts EXCEPT ![t] = @ - 1]
  /\ UNCHANGED <<task, acked, podVars, req, kcVars, boundVars>>

\* The delivery reaches no pod, or its signature does not verify (401).
WebhookLost(t, sig) ==
  /\ attempts[t] > 0
  /\ up = {} \/ ~VerifySignature(sig)
  /\ faults < MaxFaults
  /\ faults' = faults + 1
  /\ attempts' = [attempts EXCEPT ![t] = @ - 1]
  /\ UNCHANGED <<task, acked, podVars, req, kcVars, taleVars, replays, revokes>>

\* POST /replay/{path} with an event.  The id is discarded first; only then is
\* it compared with the event and the event parsed.  One in OpenMetadata's own
\* shape carries no top-level task and never matches, so the operator has to
\* send the flat shape.
Replay(p, path) ==
  /\ p \in up
  /\ replays < MaxReplays
  /\ replays' = replays + 1
  /\ processed' = [processed EXCEPT ![p] = @ \ {path}]
  /\ replayed' = replayed \union {path}
  /\ reopened' = reopened \union {path}

ReplayGrant(s, p, path) ==
  /\ Replay(p, path)
  /\ ParseGrant(EventOf(path, TRUE))
  /\ StartGrant(s, p, path, "replay")
  /\ UNCHANGED <<omVars, up, kcVars, faults, revokes>>

\* Every other body is refused, after the id is gone: one in OpenMetadata's own
\* shape, of another task, or of an event that is no approved request.
ReplayRefused(p, path) ==
  /\ Replay(p, path)
  /\ UNCHANGED <<omVars, up, req, kcVars, faults, revokes>>

\* The request in slot s awaits the call named pc.
At(s, pc) == req[s] # NoReq /\ req[s].pc = pc

\* Its handler goes on to the next await, or ends with an answer.
Goto(s, pc) == req' = [req EXCEPT ![s].pc = pc]
Answer(s) == req' = [req EXCEPT ![s] = NoReq]

Wanted(s) == About[req[s].task]

Token(s) ==
  /\ At(s, "token")
  /\ Goto(s, "find")
  /\ UNCHANGED <<omVars, podVars, kcVars, boundVars>>

FindUser(s) ==
  /\ At(s, "find")
  /\ IF Requester[req[s].task] \in KcUsers THEN Goto(s, "getrole") ELSE Answer(s)
  /\ UNCHANGED <<omVars, podVars, kcVars, boundVars>>

GetRole(s) ==
  /\ At(s, "getrole")
  /\ Goto(s, IF Wanted(s) \in roles THEN "map" ELSE "create")
  /\ UNCHANGED <<omVars, podVars, kcVars, boundVars>>

BugConflictFails(s) ==
  /\ At(s, "create")
  /\ roles' = roles \union {Wanted(s)}
  /\ IF Wanted(s) \in roles THEN Answer(s) ELSE Goto(s, "getafter")
  /\ UNCHANGED <<omVars, podVars, mappings, mapCalls, boundVars>>

\* 201 or 409: either way the role exists now.
CreateRole(s) ==
  /\ At(s, "create")
  /\ roles' = roles \union {Wanted(s)}
  /\ Goto(s, "getafter")
  /\ UNCHANGED <<omVars, podVars, mappings, mapCalls, boundVars>>

GetRoleAfter(s) ==
  /\ At(s, "getafter")
  /\ IF Wanted(s) \in roles THEN Goto(s, "map") ELSE Answer(s)
  /\ UNCHANGED <<omVars, podVars, kcVars, boundVars>>

\* Keycloak carries out the role mapping; the answer is still on its way.
\* A role removed since it was looked up answers 404.
MapRole(s) ==
  LET t == req[s].task IN
  /\ At(s, "map")
  /\ \/ /\ About[t] \in roles
        /\ mappings' = mappings \union {<<Requester[t], About[t]>>}
        /\ mapCalls' = [mapCalls EXCEPT ![t] = @ + 1]
        /\ Goto(s, "record")
     \/ /\ About[t] \notin roles
        /\ Answer(s)
        /\ UNCHANGED <<mappings, mapCalls>>
  /\ UNCHANGED <<omVars, podVars, roles, boundVars>>

BugNotRecorded(s) ==
  LET t == req[s].task IN
  /\ At(s, "record")
  /\ Answer(s)
  /\ UNCHANGED <<omVars, podVars, kcVars, boundVars>>

\* The handler resumes, records the task and answers 200; OpenMetadata may no
\* longer be listening.
Record(s) ==
  LET t == req[s].task IN
  /\ At(s, "record")
  /\ processed' = [processed EXCEPT ![req[s].pod] = @ \union {t}]
  /\ Answer(s)
  /\ \/ /\ req[s].kind = "webhook"
        /\ attempts' = [attempts EXCEPT ![t] = 0]
        /\ acked' = acked \union {t}
     \/ UNCHANGED <<attempts, acked>>
  /\ UNCHANGED <<task, up, kcVars, boundVars>>

BugCallFailsRecorded(s) ==
  /\ req[s] # NoReq
  /\ faults < MaxFaults
  /\ faults' = faults + 1
  /\ processed' = [processed EXCEPT ![req[s].pod] = @ \union {req[s].task}]
  /\ Answer(s)
  /\ UNCHANGED <<omVars, up, kcVars, taleVars, replays, revokes>>

\* A Keycloak call fails or times out, before or after Keycloak acted on it;
\* the handler answers 500 without recording the task.
CallFails(s) ==
  /\ req[s] # NoReq
  /\ faults < MaxFaults
  /\ faults' = faults + 1
  /\ Answer(s)
  /\ reopened' = IF At(s, "record") THEN reopened \union {req[s].task} ELSE reopened
  /\ UNCHANGED <<omVars, podVars, kcVars, replayed, replays, revokes>>

\* A pod stops (crash or end of a rolling update): its memory and the
\* requests it was handling are gone.
PodStops(p) ==
  /\ p \in up
  /\ faults < MaxFaults
  /\ faults' = faults + 1
  /\ up' = up \ {p}
  /\ processed' = [processed EXCEPT ![p] = {}]
  /\ req' = [s \in Slots |-> IF req[s] # NoReq /\ req[s].pod = p THEN NoReq ELSE req[s]]
  /\ reopened' = reopened \union processed[p]
                   \union {t \in Tasks : \E s \in Slots : /\ At(s, "record")
                                                         /\ req[s].pod = p
                                                         /\ req[s].task = t}
  /\ UNCHANGED <<omVars, kcVars, replayed, replays, revokes>>

PodStarts(p) ==
  /\ p \notin up
  /\ up' = up \union {p}
  /\ UNCHANGED <<omVars, processed, req, kcVars, boundVars>>
-----------------------------------------------------------------------------
(* A Keycloak administrator takes one grant away, or deletes a whole role
   with its mappings. *)
Revoke(g) ==
  /\ g \in mappings
  /\ revokes < MaxRevokes
  /\ revokes' = revokes + 1
  /\ mappings' = mappings \ {g}
  /\ UNCHANGED <<omVars, podVars, req, roles, mapCalls, taleVars, faults, replays>>

DeleteRole(r) ==
  /\ r \in roles
  /\ revokes < MaxRevokes
  /\ revokes' = revokes + 1
  /\ roles' = roles \ {r}
  /\ mappings' = {m \in mappings : m[2] # r}
  /\ UNCHANGED <<omVars, podVars, req, mapCalls, taleVars, faults, replays>>
-----------------------------------------------------------------------------
OpenMetadata(t) ==
  \/ OpenTask(t)
  \/ \E verdict \in {"approved", "rejected"} : Decide(t, verdict)

Webhook(p, t) ==
  \E sig \in Signatures :
    \/ \E s \in Slots : WebhookGrant(s, p, t, sig)
    \/ WebhookDuplicate(p, t, sig)
    \/ WebhookRefused(p, t, sig)

OperatorReplays(p, path) ==
  \/ \E s \in Slots : ReplayGrant(s, p, path)
  \/ ReplayRefused(p, path)

Handler(s) ==
  \/ Token(s)
  \/ FindUser(s)
  \/ GetRole(s)
  \/ CreateRole(s)
  \/ GetRoleAfter(s)
  \/ MapRole(s)
  \/ Record(s)

Admin == (\E g \in mappings : Revoke(g)) \/ (\E r \in roles : DeleteRole(r))

Next ==
  \/ \E t \in Tasks : OpenMetadata(t)
  \/ \E p \in Pods, t \in Tasks : Webhook(p, t)
  \/ \E t \in Tasks, sig \in Signatures : WebhookLost(t, sig)
  \/ \E p \in Pods, path \in Tasks : OperatorReplays(p, path)
  \/ \E s \in Slots : Handler(s) \/ CallFails(s)
  \/ \E p \in Pods : PodStops(p) \/ PodStarts(p)
  \/ Admin

\* OpenMetadata makes its deliveries, Kubernetes restarts a stopped pod and
\* every Keycloak call of a handler ends (httpx gives up after ten seconds).
Fairness ==
  /\ \A t \in Tasks : WF_vars(\E p \in Pods : Webhook(p, t))
  /\ \A s \in Slots : WF_vars(Handler(s))
  /\ WF_vars(up = {} /\ \E p \in Pods : PodStarts(p))

Spec == Init /\ [][Next]_vars
FairSpec == Spec /\ Fairness
-----------------------------------------------------------------------------
\* A reviewer approved access request t.
Approved(t) == task[t] = "approved" /\ t \in Marked /\ About[t] # NoRole

\* An event of the rejected access request t may reach the bridge in the flat
\* shape, which _parse_grant cannot tell from an acceptance: the status is
\* Closed and the resolution is not looked at any more.
Misread(t) ==
  /\ task[t] = "rejected" /\ t \in Marked /\ About[t] # NoRole
  /\ t \in Flat \/ t \in replayed

\* What the bridge takes for an approval.
Accepted(t) == Approved(t) \/ Misread(t)

\* A user holds a data_access role only because an access request of that user
\* for that schema was approved or, in the flat shape, is misread for an
\* approved one, whatever webhooks were repeated, replayed or cut off.
GrantsAreExplained ==
  \A m \in mappings :
    \E t \in Tasks : Accepted(t) /\ m = <<Requester[t], About[t]>>

\* A pod that answers "duplicate" for a task does so because Keycloak carried
\* out a role mapping for it: an id is never remembered for a grant that
\* failed half-way ("liever dubbel-applyen dan grants missen").
RememberedMeansGranted ==
  \A p \in Pods : \A t \in processed[p] : mapCalls[t] > 0

\* OpenMetadata stops redelivering an event because of a 2xx only once the
\* grant was made.
AckedMeansGranted == \A t \in acked : mapCalls[t] > 0

\* "Zelfde task-id twee keer is een no-op" (app.py:43): a role is mapped twice
\* for one task, and so comes back after an administrator took it away, only
\* when the bridge had to forget - an operator replayed the task (even a
\* refused replay discards its id), a pod that knew of the mapping stopped, its
\* answer was lost, or a second delivery met a handler that had not finished
\* or the other pod of a rolling update.
RepeatsAreExplained == \A t \in Tasks : mapCalls[t] > 1 => t \in reopened

\* A handler that started a grant gives it up only for an unknown user, a
\* failed call, the stop of its pod, or a role an administrator deleted under
\* it; of two handlers that find the role missing and both create it, the 409
\* of the second fails neither.
HandlersEndInGrant ==
  [][\A s \in Slots :
       req[s] # NoReq /\ req'[s] = NoReq =>
         \/ mapCalls[req[s].task] > 0
         \/ Requester[req[s].task] \notin KcUsers
         \/ faults' # faults
         \/ Wanted(s) \notin roles]_vars

\* The bridge implements the ledger of grants: it takes an approval, or what it
\* misreads for one, as the licence for any number of grants.
Ledger == INSTANCE GrantLedger WITH
            approved <- {t \in Tasks : Accepted(t)},
            held <- mappings
ImplementsLedger == Ledger!Spec

\* An approved access request of a Keycloak user is granted, or OpenMetadata
\* is left with a delivery it knows failed; it is never quietly dropped.
GrantedOrReported ==
  \A t \in Tasks :
    Approved(t) ~> (mapCalls[t] > 0 \/ (attempts[t] = 0 /\ t \notin acked))

\* A rejected access request whose events have the shape of OpenMetadata 1.12
\* and that nobody replayed is never granted ("Bij Reject: motivatie in een
\* comment; geen grant").
RejectedNotGranted ==
  \A t \in Tasks : task[t] = "rejected" /\ ~Misread(t) => mapCalls[t] = 0
=============================================================================
