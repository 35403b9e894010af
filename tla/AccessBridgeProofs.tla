------------------------- MODULE AccessBridgeProofs -------------------------
(***************************************************************************)
(* Theorems about the access bridge, for any number of tasks, users,       *)
(* roles, pods and concurrent requests and any bound on faults.            *)
(***************************************************************************)
EXTENDS AccessBridge, TLAPS

\* A request being handled asks for a role the asset really maps to.
ReqWanted == \A s \in Slots : req[s] # NoReq => About[req[s].task] \in Roles

\* The shape of every step of a handler that has started.
LEMMA ReqShape ==
  ASSUME TypeOK, NEW s \in Slots, req[s] # NoReq
  PROVE  /\ req[s] \in Requests
         /\ req[s].task \in Tasks
         /\ req[s].pod \in Pods
BY DEF TypeOK, Requests

\* Moving a request to its next await keeps it a request.
LEMMA GotoType ==
  ASSUME TypeOK, NEW s \in Slots, req[s] # NoReq, NEW pc \in Awaits, Goto(s, pc)
  PROVE  req' \in [Slots -> Requests \union {NoReq}]
BY ReqShape DEF TypeOK, Goto, Requests

\* Answering a request frees its slot.
LEMMA AnswerType ==
  ASSUME TypeOK, NEW s \in Slots, Answer(s)
  PROVE  req' \in [Slots -> Requests \union {NoReq}]
BY DEF TypeOK, Answer

\* A request is started in a free slot with a well-formed record.
LEMMA StartType ==
  ASSUME TypeOK, NEW s \in Slots, NEW p \in Pods, NEW t \in Tasks,
         NEW kind \in Kinds, StartGrant(s, p, t, kind)
  PROVE  req' \in [Slots -> Requests \union {NoReq}]
BY DEF TypeOK, StartGrant, Requests, Awaits

\* The slots other than s are left alone when s moves on, and s keeps its task.
LEMMA GotoWanted ==
  ASSUME TypeOK, ReqWanted, NEW s \in Slots, req[s] # NoReq,
         (\E pc \in Awaits : Goto(s, pc)) \/ Answer(s)
  PROVE  ReqWanted'
BY ReqShape DEF TypeOK, ReqWanted, Goto, Answer, Requests

\* An event that parses names an asset that maps to a role.
LEMMA ParsedHasRole ==
  ASSUME NEW t \in Tasks, NEW flat, ParseGrant(EventOf(t, flat))
  PROVE  About[t] \in Roles
BY BridgeAssumption DEF ParseGrant, EventOf

\* A request is started only for a task whose asset maps to a role.
LEMMA StartWanted ==
  ASSUME TypeOK, ReqWanted, NEW s \in Slots, NEW p \in Pods, NEW t \in Tasks,
         NEW kind \in Kinds, StartGrant(s, p, t, kind), About[t] \in Roles
  PROVE  ReqWanted'
BY BridgeAssumption DEF TypeOK, ReqWanted, StartGrant

\* One step of the bridge or its environment keeps every variable in its type.
LEMMA TypeStep == TypeOK /\ ReqWanted /\ [Next]_vars => TypeOK' /\ ReqWanted'
<1> SUFFICES ASSUME TypeOK, ReqWanted, [Next]_vars PROVE TypeOK' /\ ReqWanted'
  OBVIOUS
<1> USE BridgeAssumption
<1>1. ASSUME NEW t \in Tasks, OpenMetadata(t) PROVE TypeOK' /\ ReqWanted'
  BY <1>1 DEF TypeOK, ReqWanted, OpenMetadata, OpenTask, Decide, TaskStates, podVars, kcVars, boundVars, taleVars
<1>2. ASSUME NEW p \in Pods, NEW t \in Tasks, Webhook(p, t) PROVE TypeOK' /\ ReqWanted'
  <2>1. ASSUME NEW s \in Slots, NEW sig \in Signatures, WebhookGrant(s, p, t, sig)
        PROVE  TypeOK' /\ ReqWanted'
    <3>1. req' \in [Slots -> Requests \union {NoReq}] /\ ReqWanted'
      BY <2>1, StartType, StartWanted, ParsedHasRole DEF WebhookGrant, WebhookEvent, Kinds
    <3>2. QED
      BY <2>1, <3>1 DEF TypeOK, WebhookGrant, podVars, kcVars, boundVars, taleVars
  <2>2. ASSUME NEW sig \in Signatures, WebhookDuplicate(p, t, sig) PROVE TypeOK' /\ ReqWanted'
    BY <2>2 DEF TypeOK, ReqWanted, WebhookDuplicate, podVars, kcVars, boundVars, taleVars
  <2>3. ASSUME NEW sig \in Signatures, WebhookRefused(p, t, sig) PROVE TypeOK' /\ ReqWanted'
    BY <2>3 DEF TypeOK, ReqWanted, WebhookRefused, podVars, kcVars, boundVars, taleVars
  <2>4. QED
    BY <1>2, <2>1, <2>2, <2>3 DEF Webhook
<1>3. ASSUME NEW t \in Tasks, NEW sig \in Signatures, WebhookLost(t, sig)
      PROVE  TypeOK' /\ ReqWanted'
  BY <1>3 DEF TypeOK, ReqWanted, WebhookLost, podVars, kcVars, taleVars
<1>4. ASSUME NEW p \in Pods, NEW path \in Tasks, OperatorReplays(p, path) PROVE TypeOK' /\ ReqWanted'
  <2>1. ASSUME NEW s \in Slots, ReplayGrant(s, p, path) PROVE TypeOK' /\ ReqWanted'
    <3>1. req' \in [Slots -> Requests \union {NoReq}] /\ ReqWanted'
      BY <2>1, StartType, StartWanted, ParsedHasRole DEF ReplayGrant, Kinds
    <3>2. QED
      BY <2>1, <3>1 DEF TypeOK, ReplayGrant, Replay, omVars, kcVars
  <2>2. ASSUME ReplayRefused(p, path)
        PROVE  TypeOK' /\ ReqWanted'
    BY <2>2 DEF TypeOK, ReqWanted, ReplayRefused, Replay, omVars, kcVars
  <2>3. QED
    BY <1>4, <2>1, <2>2 DEF OperatorReplays
<1>5. ASSUME NEW s \in Slots, Handler(s) \/ CallFails(s) PROVE TypeOK' /\ ReqWanted'
  <2>1. req[s] # NoReq
    BY <1>5 DEF Handler, Token, FindUser, GetRole, CreateRole, GetRoleAfter,
                MapRole, Record, CallFails, At
  <2>2. /\ req[s].task \in Tasks
        /\ req[s].pod \in Pods
        /\ Requester[req[s].task] \in Users
        /\ About[req[s].task] \in Roles
    BY <2>1, ReqShape DEF ReqWanted
  <2>3. (\E pc \in Awaits : Goto(s, pc)) \/ Answer(s)
    BY <1>5 DEF Handler, Token, FindUser, GetRole, CreateRole, GetRoleAfter,
                MapRole, Record, CallFails, Awaits
  <2>4. req' \in [Slots -> Requests \union {NoReq}] /\ ReqWanted'
    BY <2>1, <2>3, GotoType, AnswerType, GotoWanted
  <2>5. CASE Token(s) \/ FindUser(s) \/ GetRole(s) \/ GetRoleAfter(s)
    BY <2>4, <2>5 DEF TypeOK, Token, FindUser, GetRole, GetRoleAfter, omVars, podVars, kcVars, boundVars, taleVars
  <2>6. CASE CreateRole(s)
    BY <2>2, <2>4, <2>6 DEF TypeOK, CreateRole, Wanted, omVars, podVars, boundVars, taleVars
  <2>7. CASE MapRole(s)
    BY <2>2, <2>4, <2>7 DEF TypeOK, MapRole, omVars, podVars, boundVars, taleVars
  <2>8. CASE Record(s)
    BY <2>2, <2>4, <2>8 DEF TypeOK, Record, kcVars, boundVars, taleVars
  <2>9. CASE CallFails(s)
    BY <2>2, <2>4, <2>9 DEF TypeOK, CallFails, omVars, podVars, kcVars, taleVars
  <2>10. QED
    BY <1>5, <2>5, <2>6, <2>7, <2>8, <2>9 DEF Handler
<1>6. ASSUME NEW p \in Pods, PodStops(p) \/ PodStarts(p) PROVE TypeOK' /\ ReqWanted'
  BY <1>6 DEF TypeOK, ReqWanted, PodStops, PodStarts, omVars, kcVars, boundVars, taleVars
<1>7. CASE Admin
  BY <1>7 DEF TypeOK, ReqWanted, Admin, Revoke, DeleteRole, omVars, podVars, taleVars
<1>8. CASE UNCHANGED vars
  BY <1>8 DEF TypeOK, ReqWanted, vars, omVars, podVars, kcVars, boundVars, taleVars
<1>9. QED
  BY <1>1, <1>2, <1>3, <1>4, <1>5, <1>6, <1>7, <1>8 DEF Next

\* Every variable keeps its type: in particular a slot never holds a request
\* for an asset that maps to no role, so Keycloak only ever creates and maps
\* data_access roles.
THEOREM TypeCorrect == Spec => []TypeOK
<1>1. Init => TypeOK /\ ReqWanted
  BY BridgeAssumption DEF Init, TypeOK, ReqWanted, TaskStates
<1>2. QED
  BY <1>1, TypeStep, PTL DEF Spec
-----------------------------------------------------------------------------
(* What is remembered or acknowledged was granted. *)

\* Keycloak has carried out the mapping of a request that is about to record.
RecordMeansGranted ==
  \A s \in Slots : At(s, "record") => mapCalls[req[s].task] > 0

RInv ==
  /\ TypeOK
  /\ ReqWanted
  /\ RememberedMeansGranted
  /\ AckedMeansGranted
  /\ RecordMeansGranted

\* The number of mappings Keycloak carried out for a task never drops.
LEMMA MapCallsGrow ==
  ASSUME TypeOK, [Next]_vars, NEW t \in Tasks
  PROVE  mapCalls'[t] >= mapCalls[t]
<1>1. CASE UNCHANGED mapCalls
  BY <1>1 DEF TypeOK
<1>2. ASSUME NEW s \in Slots, MapRole(s) PROVE mapCalls'[t] >= mapCalls[t]
  <2>1. req[s].task \in Tasks
    BY <1>2, ReqShape DEF MapRole, At
  <2>2. QED
    BY <1>2, <2>1 DEF TypeOK, MapRole
<1>3. UNCHANGED mapCalls \/ \E s \in Slots : MapRole(s)
  BY DEF Next, vars, kcVars, OpenMetadata, OpenTask, Decide, Webhook, WebhookGrant,
         WebhookDuplicate, WebhookRefused, WebhookLost, OperatorReplays, Replay, ReplayGrant, ReplayRefused,
         Handler, Token, FindUser, GetRole, CreateRole, GetRoleAfter, Record, CallFails,
         PodStops, PodStarts, Admin, Revoke, DeleteRole
<1>4. QED
  BY <1>1, <1>2, <1>3

\* A step changes what a pod remembers or what was acknowledged only by
\* forgetting, by recording, or by answering a duplicate.
LEMMA RememberStep == RInv /\ [Next]_vars => RInv'
<1> SUFFICES ASSUME RInv, [Next]_vars PROVE RInv'
  OBVIOUS
<1> USE BridgeAssumption
<1>1. TypeOK' /\ ReqWanted'
  BY TypeStep DEF RInv
<1>2. \A t \in Tasks : mapCalls[t] > 0 => mapCalls'[t] > 0
  BY <1>1, MapCallsGrow DEF RInv, TypeOK
<1>3. SUFFICES RememberedMeansGranted' /\ AckedMeansGranted' /\ RecordMeansGranted'
  BY <1>1 DEF RInv
<1> USE DEF RInv, RememberedMeansGranted, AckedMeansGranted, RecordMeansGranted
<1>4. CASE UNCHANGED <<processed, acked, req>>
  BY <1>1, <1>2, <1>4 DEF TypeOK, At, Requests
<1>5. ASSUME NEW p \in Pods, NEW t \in Tasks, Webhook(p, t)
      PROVE  RememberedMeansGranted' /\ AckedMeansGranted' /\ RecordMeansGranted'
  BY <1>1, <1>2, <1>5
     DEF TypeOK, Webhook, WebhookGrant, WebhookDuplicate, WebhookRefused, StartGrant,
         At, Requests, podVars, kcVars
<1>6. ASSUME NEW p \in Pods, NEW path \in Tasks, OperatorReplays(p, path)
      PROVE  RememberedMeansGranted' /\ AckedMeansGranted' /\ RecordMeansGranted'
  <2>1. UNCHANGED <<acked, mapCalls>>
    BY <1>6 DEF OperatorReplays, ReplayGrant, ReplayRefused, omVars, kcVars
  <2>2. \A x \in Pods : processed'[x] \subseteq processed[x]
    <3>1. processed' = [processed EXCEPT ![p] = @ \ {path}]
      BY <1>6 DEF OperatorReplays, ReplayGrant, ReplayRefused, Replay
    <3>2. QED
      BY <1>1, <3>1 DEF TypeOK
  <2>3. RememberedMeansGranted' /\ AckedMeansGranted'
    BY <2>1, <2>2
  <2>4. UNCHANGED req \/ \E s \in Slots : StartGrant(s, p, path, "replay")
    BY <1>6 DEF OperatorReplays, ReplayGrant, ReplayRefused
  <2>5. RecordMeansGranted'
    BY <1>1, <2>1, <2>4 DEF TypeOK, StartGrant, At, Requests
  <2>6. QED
    BY <2>3, <2>5
<1>7. ASSUME NEW s \in Slots, Handler(s) \/ CallFails(s)
      PROVE  RememberedMeansGranted' /\ AckedMeansGranted' /\ RecordMeansGranted'
  <2>1. CASE Token(s) \/ FindUser(s) \/ GetRole(s) \/ CreateRole(s) \/ GetRoleAfter(s) \/ CallFails(s)
    BY <1>1, <1>2, <2>1
       DEF TypeOK, Token, FindUser, GetRole, CreateRole, GetRoleAfter, CallFails, Goto, Answer,
           At, Requests, omVars, podVars
  <2>2. CASE MapRole(s)
    <3>1. req[s] # NoReq /\ req[s].task \in Tasks
      BY <2>2, ReqShape DEF MapRole, At
    <3>2. RememberedMeansGranted' /\ AckedMeansGranted'
      BY <1>1, <1>2, <2>2 DEF TypeOK, MapRole, omVars, podVars
    <3>3. RecordMeansGranted'
      BY <1>1, <1>2, <2>2, <3>1 DEF TypeOK, MapRole, Goto, Answer, At, Requests
    <3>4. QED
      BY <3>2, <3>3
  <2>3. CASE Record(s)
    <3>1. req[s] # NoReq /\ req[s].task \in Tasks /\ req[s].pod \in Pods /\ mapCalls[req[s].task] > 0
      BY <2>3, ReqShape DEF Record, At
    <3>2. RememberedMeansGranted' /\ AckedMeansGranted'
      BY <1>1, <1>2, <2>3, <3>1 DEF TypeOK, Record
    <3>3. RecordMeansGranted'
      BY <1>1, <1>2, <2>3, <3>1 DEF TypeOK, Record, Answer, At, Requests, kcVars
    <3>4. QED
      BY <3>2, <3>3
  <2>4. QED
    BY <1>7, <2>1, <2>2, <2>3 DEF Handler
<1>8. ASSUME NEW p \in Pods, PodStops(p) \/ PodStarts(p)
      PROVE  RememberedMeansGranted' /\ AckedMeansGranted' /\ RecordMeansGranted'
  BY <1>1, <1>2, <1>8 DEF TypeOK, PodStops, PodStarts, At, Requests, omVars, kcVars
<1>9. QED
  BY <1>4, <1>5, <1>6, <1>7, <1>8
     DEF Next, OpenMetadata, OpenTask, Decide, WebhookLost, Admin, Revoke, DeleteRole,
         vars, omVars, podVars

\* An id in a pod's replay set, and a delivery OpenMetadata saw answered with
\* 2xx, both mean that Keycloak carried out the role mapping at least once: a
\* grant is never missed because a half-finished attempt was remembered.
THEOREM RememberedAreGranted == Spec => [](RememberedMeansGranted /\ AckedMeansGranted)
<1>1. Init => RInv
  BY BridgeAssumption
     DEF Init, RInv, TypeOK, ReqWanted, TaskStates, RememberedMeansGranted,
         AckedMeansGranted, RecordMeansGranted, At
<1>2. RInv => RememberedMeansGranted /\ AckedMeansGranted
  BY DEF RInv
<1>3. QED
  BY <1>1, <1>2, RememberStep, PTL DEF Spec
-----------------------------------------------------------------------------
(* An approved request is dropped only when something failed. *)

\* The bridge is handling a request for task t.
Handled(t) == \E s \in Slots : req[s] # NoReq /\ req[s].task = t

\* Nothing failed and nothing was taken away so far: no call failed, no
\* delivery was lost, no pod stopped and no role or grant was removed.
Smooth == faults = 0 /\ revokes = 0

\* An approved access request of a user Keycloak knows was granted, will be
\* delivered once more or is being handled, as long as nothing failed.
ApprovedAreFollowed ==
  \A t \in Tasks :
    Smooth /\ Approved(t) /\ Requester[t] \in KcUsers =>
      mapCalls[t] > 0 \/ attempts[t] > 0 \/ Handled(t)

\* The role a handler has looked up or created stays until somebody removes it.
RoleIsThere ==
  \A s \in Slots : Smooth /\ (At(s, "getafter") \/ At(s, "map")) => Wanted(s) \in roles

FInv == RInv /\ ApprovedAreFollowed /\ RoleIsThere

\* A request that goes on stays in its slot with its task.
LEMMA GotoHandled ==
  ASSUME TypeOK, NEW s \in Slots, req[s] # NoReq, NEW pc \in Awaits, Goto(s, pc)
  PROVE  \A t \in Tasks : Handled(t) => Handled(t)'
<1> SUFFICES ASSUME NEW t \in Tasks, NEW q \in Slots, req[q] # NoReq, req[q].task = t
             PROVE  Handled(t)'
  BY DEF Handled
<1>1. req'[q].task = t /\ req' \in [Slots -> Requests \union {NoReq}]
  BY GotoType DEF TypeOK, Goto, Requests
<1>2. req'[q] # NoReq
  BY ReqShape, BridgeAssumption DEF TypeOK, Goto, Requests
<1>3. QED
  BY <1>1, <1>2 DEF Handled

\* A request that is answered leaves the others where they are.
LEMMA AnswerHandled ==
  ASSUME TypeOK, NEW s \in Slots, Answer(s)
  PROVE  \A t \in Tasks : Handled(t) => Handled(t)' \/ (req[s] # NoReq /\ req[s].task = t)
<1> SUFFICES ASSUME NEW t \in Tasks, NEW q \in Slots, req[q] # NoReq, req[q].task = t, q # s
             PROVE  Handled(t)'
  BY DEF Handled
<1>1. req'[q] = req[q]
  BY DEF TypeOK, Answer
<1>2. QED
  BY <1>1 DEF Handled

\* A request that starts takes a free slot.
LEMMA StartHandled ==
  ASSUME TypeOK, NEW s \in Slots, NEW p \in Pods, NEW u \in Tasks, NEW kind \in Kinds,
         StartGrant(s, p, u, kind)
  PROVE  Handled(u)' /\ \A t \in Tasks : Handled(t) => Handled(t)'
<1>1. req'[s].task = u /\ req'[s] # NoReq /\ \A q \in Slots : q # s => req'[q] = req[q]
  BY BridgeAssumption DEF StartGrant, TypeOK, Requests, Awaits
<1>2. req[s] = NoReq
  BY DEF StartGrant
<1>3. QED
  BY <1>1, <1>2 DEF Handled

\* The event of an approved access request parses, in either shape.
LEMMA ApprovedParses ==
  ASSUME NEW t \in Tasks, Approved(t)
  PROVE  ParseGrant(WebhookEvent(t))
BY DEF Approved, ParseGrant, WebhookEvent, EventOf

\* What the next state owes to task t.
FollowedNext(t) == mapCalls'[t] > 0 \/ attempts'[t] > 0 \/ Handled(t)'

\* A handler that ends without an error leaves no approved request behind: it
\* made the grant, or Keycloak does not know the user.
LEMMA HandlerFollows ==
  ASSUME FInv, NEW s \in Slots, Handler(s), Smooth, NEW t \in Tasks, Approved(t),
         Requester[t] \in KcUsers, mapCalls[t] > 0 => mapCalls'[t] > 0
  PROVE  FollowedNext(t)
<1>1. mapCalls[t] > 0 \/ attempts[t] > 0 \/ Handled(t)
  BY DEF FInv, ApprovedAreFollowed
<1>2. TypeOK /\ req[s] # NoReq /\ req[s].task \in Tasks
  BY ReqShape DEF FInv, RInv, Handler, Token, FindUser, GetRole, CreateRole, GetRoleAfter,
                  MapRole, Record, At
<1>3. ASSUME NEW pc \in Awaits, Goto(s, pc), attempts' = attempts PROVE FollowedNext(t)
  BY <1>1, <1>2, <1>3, GotoHandled DEF FollowedNext
<1>4. ASSUME Answer(s), attempts' = attempts,
             req[s].task = t => mapCalls[t] > 0
      PROVE  FollowedNext(t)
  BY <1>1, <1>2, <1>4, AnswerHandled DEF FollowedNext
<1>5. CASE Token(s)
  BY <1>3, <1>5 DEF Token, omVars, Awaits
<1>6. CASE FindUser(s)
  <2>1. CASE Requester[req[s].task] \in KcUsers
    BY <1>3, <1>6, <2>1 DEF FindUser, omVars, Awaits
  <2>2. CASE Requester[req[s].task] \notin KcUsers
    BY <1>4, <1>6, <2>2 DEF FindUser, omVars
  <2>3. QED
    BY <2>1, <2>2
<1>7. CASE GetRole(s)
  <2>1. CASE Wanted(s) \in roles
    BY <1>3, <1>7, <2>1 DEF GetRole, omVars, Awaits
  <2>2. CASE Wanted(s) \notin roles
    BY <1>3, <1>7, <2>2 DEF GetRole, omVars, Awaits
  <2>3. QED
    BY <2>1, <2>2
<1>8. CASE CreateRole(s)
  BY <1>3, <1>8 DEF CreateRole, omVars, Awaits
<1>9. CASE GetRoleAfter(s)
  <2>1. Wanted(s) \in roles
    BY <1>9 DEF FInv, RoleIsThere, GetRoleAfter
  <2>2. QED
    BY <1>3, <1>9, <2>1 DEF GetRoleAfter, omVars, Awaits
<1>10. CASE MapRole(s)
  <2>1. Wanted(s) \in roles
    BY <1>10 DEF FInv, RoleIsThere, MapRole
  <2>2. QED
    BY <1>3, <1>10, <2>1 DEF MapRole, Wanted, omVars, Awaits
<1>11. CASE Record(s)
  <2>1. mapCalls[req[s].task] > 0
    BY <1>11 DEF FInv, RInv, RecordMeansGranted, Record
  <2>2. CASE req[s].task = t
    BY <2>1, <2>2 DEF FollowedNext
  <2>3. CASE req[s].task # t
    <3>1. attempts'[t] = attempts[t] /\ Answer(s)
      BY <1>2, <1>11, <2>3 DEF Record, TypeOK
    <3>2. Handled(t) => Handled(t)'
      BY <1>2, <2>3, <3>1, AnswerHandled
    <3>3. QED
      BY <1>1, <3>1, <3>2 DEF FollowedNext
  <2>4. QED
    BY <2>2, <2>3
<1>12. QED
  BY <1>5, <1>6, <1>7, <1>8, <1>9, <1>10, <1>11 DEF Handler

\* A delivery that is used up has started a request, or was answered as a
\* duplicate of a grant.
LEMMA WebhookFollows ==
  ASSUME FInv, NEW p \in Pods, NEW u \in Tasks, Webhook(p, u), Smooth,
         NEW t \in Tasks, Approved(t), Requester[t] \in KcUsers,
         mapCalls[t] > 0 => mapCalls'[t] > 0
  PROVE  FollowedNext(t)
<1>1. mapCalls[t] > 0 \/ attempts[t] > 0 \/ Handled(t)
  BY DEF FInv, ApprovedAreFollowed
<1>2. TypeOK /\ RememberedMeansGranted
  BY DEF FInv, RInv
<1>3. PICK sig \in Signatures : \/ \E s \in Slots : WebhookGrant(s, p, u, sig)
                                \/ WebhookDuplicate(p, u, sig)
                                \/ WebhookRefused(p, u, sig)
  BY DEF Webhook
<1>4. ASSUME NEW s \in Slots, WebhookGrant(s, p, u, sig) PROVE FollowedNext(t)
  <2>1. Handled(u)' /\ (Handled(t) => Handled(t)')
    BY <1>2, <1>4, StartHandled DEF WebhookGrant, Kinds
  <2>2. t # u => attempts'[t] = attempts[t]
    BY <1>2, <1>4 DEF WebhookGrant, TypeOK
  <2>3. QED
    BY <1>1, <2>1, <2>2 DEF FollowedNext
<1>5. t # u /\ ~(\E s \in Slots : WebhookGrant(s, p, u, sig)) => FollowedNext(t)
  BY <1>1, <1>2, <1>3 DEF WebhookDuplicate, WebhookRefused, TypeOK, FollowedNext, Handled
<1>6. ~WebhookRefused(p, t, sig)
  BY ApprovedParses DEF WebhookRefused
<1>7. WebhookDuplicate(p, t, sig) => FollowedNext(t)
  BY <1>2 DEF WebhookDuplicate, RememberedMeansGranted, FollowedNext
<1>8. QED
  BY <1>3, <1>4, <1>5, <1>6, <1>7

\* Every other step keeps the requests and the deliveries that are left, or
\* means that something failed.
LEMMA FollowedStep ==
  ASSUME FInv, [Next]_vars
  PROVE  ApprovedAreFollowed'
<1> USE BridgeAssumption
<1>1. TypeOK /\ TypeOK'
  BY TypeStep DEF FInv, RInv
<1>2. SUFFICES ASSUME NEW t \in Tasks, Smooth', Approved(t)', Requester[t] \in KcUsers
               PROVE  FollowedNext(t)
  BY DEF ApprovedAreFollowed, FollowedNext
<1>3. mapCalls[t] > 0 => mapCalls'[t] > 0
  BY <1>1, MapCallsGrow DEF TypeOK
<1>4. faults \in Nat /\ revokes \in Nat /\ faults' = 0 /\ revokes' = 0
  BY <1>1, <1>2 DEF TypeOK, Smooth
<1>5. ASSUME UNCHANGED <<task, attempts, req, faults, revokes>> PROVE FollowedNext(t)
  BY <1>2, <1>3, <1>5
     DEF FInv, ApprovedAreFollowed, Smooth, Approved, Handled, FollowedNext
<1>6. ASSUME NEW u \in Tasks, OpenMetadata(u) PROVE FollowedNext(t)
  <2>1. UNCHANGED <<req, faults, revokes>>
    BY <1>6 DEF OpenMetadata, OpenTask, Decide, boundVars, taleVars
  <2>2. CASE t = u
    BY <1>1, <1>2, <1>6, <2>2
       DEF OpenMetadata, OpenTask, Decide, Approved, TypeOK, FollowedNext
  <2>3. CASE t # u
    <3>1. task'[t] = task[t] /\ attempts'[t] = attempts[t]
      BY <1>1, <1>6, <2>3 DEF OpenMetadata, OpenTask, Decide, TypeOK
    <3>2. QED
      BY <1>2, <1>3, <2>1, <3>1
         DEF FInv, ApprovedAreFollowed, Smooth, Approved, Handled, FollowedNext
  <2>4. QED
    BY <2>2, <2>3
<1>7. ASSUME NEW p \in Pods, NEW u \in Tasks, Webhook(p, u) PROVE FollowedNext(t)
  <2>1. UNCHANGED <<task, faults, revokes>>
    BY <1>7 DEF Webhook, WebhookGrant, WebhookDuplicate, WebhookRefused, boundVars, taleVars
  <2>2. Smooth /\ Approved(t)
    BY <1>2, <2>1 DEF Smooth, Approved
  <2>3. QED
    BY <1>2, <1>3, <1>7, <2>2, WebhookFollows
<1>8. ASSUME NEW p \in Pods, NEW path \in Tasks, OperatorReplays(p, path) PROVE FollowedNext(t)
  <2>1. UNCHANGED <<task, attempts, faults, revokes>>
    BY <1>8 DEF OperatorReplays, Replay, ReplayGrant, ReplayRefused, omVars
  <2>2. Handled(t) => Handled(t)'
    <3>1. CASE UNCHANGED req
      BY <3>1 DEF Handled
    <3>2. ASSUME NEW s \in Slots, StartGrant(s, p, path, "replay")
          PROVE  Handled(t) => Handled(t)'
      BY <1>1, <3>2, StartHandled DEF Kinds
    <3>3. QED
      BY <1>8, <3>1, <3>2 DEF OperatorReplays, Replay, ReplayGrant, ReplayRefused
  <2>3. QED
    BY <1>2, <1>3, <2>1, <2>2 DEF FInv, ApprovedAreFollowed, Smooth, Approved, FollowedNext
<1>9. ASSUME NEW s \in Slots, Handler(s) PROVE FollowedNext(t)
  <2>1. UNCHANGED <<task, faults, revokes>>
    BY <1>9 DEF Handler, Token, FindUser, GetRole, CreateRole, GetRoleAfter, MapRole, Record,
                omVars, boundVars, taleVars
  <2>2. Smooth /\ Approved(t)
    BY <1>2, <2>1 DEF Smooth, Approved
  <2>3. QED
    BY <1>2, <1>3, <1>9, <2>2, HandlerFollows
<1>10. ASSUME faults' = faults + 1 \/ revokes' = revokes + 1 PROVE FollowedNext(t)
  BY <1>4, <1>10
<1>11. QED
  BY <1>5, <1>6, <1>7, <1>8, <1>9, <1>10
     DEF Next, WebhookLost, CallFails, PodStops, PodStarts, Admin, Revoke, DeleteRole,
         vars, omVars, boundVars, taleVars

\* Only an administrator removes the role that a handler counts on.
LEMMA RoleStep ==
  ASSUME FInv, [Next]_vars
  PROVE  RoleIsThere'
<1> USE BridgeAssumption
<1>1. TypeOK /\ TypeOK' /\ RoleIsThere
  BY TypeStep DEF FInv, RInv
<1>2. SUFFICES ASSUME NEW q \in Slots, Smooth', At(q, "getafter")' \/ At(q, "map")'
               PROVE  Wanted(q)' \in roles'
  BY DEF RoleIsThere
<1>3. faults \in Nat /\ revokes \in Nat /\ faults' = 0 /\ revokes' = 0
  BY <1>1, <1>2 DEF TypeOK, Smooth
<1>4. ASSUME req'[q] = req[q], roles \subseteq roles', UNCHANGED <<faults, revokes>>
      PROVE  Wanted(q)' \in roles'
  BY <1>1, <1>2, <1>4 DEF RoleIsThere, Smooth, At, Wanted
<1>5. CASE UNCHANGED <<req, roles, faults, revokes>>
  BY <1>4, <1>5
<1>6. ASSUME NEW s \in Slots, NEW p \in Pods, NEW t \in Tasks, NEW kind \in Kinds,
             StartGrant(s, p, t, kind), UNCHANGED <<roles, faults, revokes>>
      PROVE  Wanted(q)' \in roles'
  <2>1. q # s
    BY <1>1, <1>2, <1>6 DEF StartGrant, TypeOK, At
  <2>2. QED
    BY <1>1, <1>4, <1>6, <2>1 DEF StartGrant, TypeOK
<1>7. ASSUME NEW s \in Slots, Handler(s) PROVE Wanted(q)' \in roles'
  <2>1. roles \subseteq roles' /\ UNCHANGED <<faults, revokes>>
    BY <1>7 DEF Handler, Token, FindUser, GetRole, CreateRole, GetRoleAfter, MapRole, Record,
                kcVars, boundVars, taleVars
  <2>2. CASE q # s
    <3>1. req'[q] = req[q]
      BY <1>1, <1>7, <2>2
         DEF Handler, Token, FindUser, GetRole, CreateRole, GetRoleAfter, MapRole, Record,
             Goto, Answer, TypeOK
    <3>2. QED
      BY <1>4, <2>1, <3>1
  <2>3. CASE q = s
    <3>1. req[s] # NoReq /\ req[s] \in Requests
      BY <1>1, <1>7, ReqShape
         DEF Handler, Token, FindUser, GetRole, CreateRole, GetRoleAfter, MapRole, Record, At
    <3>2. req'[s] # NoReq
      BY <1>2, <2>3 DEF At
    <3>3. PICK pc \in Awaits : Goto(s, pc)
      BY <1>1, <1>7, <3>2
         DEF Handler, Token, FindUser, GetRole, CreateRole, GetRoleAfter, MapRole, Record,
             Answer, TypeOK, Awaits
    <3>4. req'[s].pc = pc /\ req'[s].task = req[s].task
      BY <1>1, <3>1, <3>3 DEF Goto, TypeOK, Requests
    <3>5. Wanted(s)' = Wanted(s) /\ pc \in {"getafter", "map"}
      BY <1>2, <2>3, <3>4 DEF Wanted, At
    <3>6. CASE CreateRole(s)
      BY <2>3, <3>5, <3>6 DEF CreateRole
    <3>7. CASE GetRole(s) \/ GetRoleAfter(s)
      BY <1>1, <2>1, <2>3, <3>1, <3>2, <3>4, <3>5, <3>7
         DEF GetRole, GetRoleAfter, Goto, Answer, TypeOK, Requests
    <3>8. CASE Token(s) \/ FindUser(s) \/ MapRole(s) \/ Record(s)
      BY <1>1, <3>1, <3>2, <3>4, <3>5, <3>8
         DEF Token, FindUser, MapRole, Record, Goto, Answer, TypeOK, Requests
    <3>9. QED
      BY <1>7, <3>6, <3>7, <3>8 DEF Handler
  <2>4. QED
    BY <2>2, <2>3
<1>8. ASSUME faults' = faults + 1 \/ revokes' = revokes + 1 PROVE Wanted(q)' \in roles'
  BY <1>3, <1>8
<1>9. ASSUME NEW p \in Pods, NEW t \in Tasks, Webhook(p, t) \/ OperatorReplays(p, t)
      PROVE  Wanted(q)' \in roles'
  <2>1. UNCHANGED <<roles, faults, revokes>>
    BY <1>9 DEF Webhook, WebhookGrant, WebhookDuplicate, WebhookRefused, OperatorReplays, Replay, ReplayGrant,
                ReplayRefused, kcVars, boundVars, taleVars
  <2>2. UNCHANGED req \/ \E s \in Slots, kind \in Kinds : StartGrant(s, p, t, kind)
    BY <1>9 DEF Webhook, WebhookGrant, WebhookDuplicate, WebhookRefused, OperatorReplays, Replay, ReplayGrant,
                ReplayRefused, Kinds
  <2>3. QED
    BY <1>5, <1>6, <2>1, <2>2
<1>10. QED
  BY <1>5, <1>7, <1>8, <1>9
     DEF Next, OpenMetadata, OpenTask, Decide, WebhookLost, CallFails, PodStops, PodStarts,
         Admin, Revoke, DeleteRole, vars, kcVars, boundVars, taleVars

\* As long as no call failed, no delivery was lost, no pod stopped and nobody
\* took a role away, an approved access request of a user Keycloak knows was
\* granted, is being handled or will be delivered once more, whatever was
\* answered as a duplicate, replayed or delivered twice (_parse_grant,
\* grant_role and the replay set of app.py).
THEOREM NothingIsDroppedSmoothly == Spec => []ApprovedAreFollowed
<1>1. Init => FInv
  BY BridgeAssumption
     DEF Init, FInv, RInv, TypeOK, ReqWanted, TaskStates, RememberedMeansGranted,
         AckedMeansGranted, RecordMeansGranted, At, ApprovedAreFollowed, RoleIsThere, Approved
<1>2. FInv /\ [Next]_vars => FInv'
  BY RememberStep, FollowedStep, RoleStep DEF FInv
<1>3. FInv => ApprovedAreFollowed
  BY DEF FInv
<1>4. QED
  BY <1>1, <1>2, <1>3, PTL DEF Spec
-----------------------------------------------------------------------------
(* Roles are held because of access requests the bridge accepted. *)

\* A request being handled is for an accepted access request.
ReqAccepted == \A s \in Slots : req[s] # NoReq => Accepted(req[s].task)

\* Keycloak carried out mappings for accepted access requests only.
CallsAccepted == \A t \in Tasks : mapCalls[t] > 0 => Accepted(t)

AInv ==
  /\ TypeOK
  /\ ReqWanted
  /\ ReqAccepted
  /\ CallsAccepted
  /\ GrantsAreExplained

\* A webhook event parses only when the bridge may take it for an approval; an
\* event an operator replays has the flat shape.
LEMMA ParsedIsAccepted ==
  ASSUME TypeOK, NEW t \in Tasks
  PROVE  /\ ParseGrant(WebhookEvent(t)) => Accepted(t)
         /\ ParseGrant(EventOf(t, TRUE)) /\ t \in replayed' /\ task' = task => Accepted(t)'
BY DEF ParseGrant, WebhookEvent, EventOf, Accepted, Approved, Misread, TypeOK

\* A decision is final and a replay is not undone.
LEMMA AcceptedStays ==
  ASSUME TypeOK, [Next]_vars, NEW t \in Tasks, Accepted(t)
  PROVE  Accepted(t)'
<1>1. UNCHANGED task \/ \E u \in Tasks : OpenMetadata(u)
  BY DEF Next, vars, omVars, Webhook, WebhookGrant, WebhookDuplicate, WebhookRefused,
         WebhookLost, OperatorReplays, Replay, ReplayGrant, ReplayRefused, Handler, Token,
         FindUser, GetRole, CreateRole, GetRoleAfter, MapRole, Record, CallFails, PodStops,
         PodStarts, Admin, Revoke, DeleteRole
<1>2. task'[t] = task[t]
  BY <1>1 DEF Accepted, Approved, Misread, TypeOK, OpenMetadata, OpenTask, Decide
<1>3. replayed \subseteq replayed'
  BY DEF Next, vars, boundVars, taleVars, OpenMetadata, OpenTask, Decide, Webhook,
         WebhookGrant, WebhookDuplicate, WebhookRefused, WebhookLost, OperatorReplays, Replay,
         ReplayGrant, ReplayRefused, Handler, Token, FindUser, GetRole, CreateRole,
         GetRoleAfter, MapRole, Record, CallFails, PodStops, PodStarts, Admin, Revoke, DeleteRole
<1>4. QED
  BY <1>2, <1>3 DEF Accepted, Approved, Misread

\* A step adds a mapping only for the task whose request Keycloak answers.
LEMMA MappingStep ==
  ASSUME TypeOK, [Next]_vars
  PROVE  \/ mappings' \subseteq mappings /\ UNCHANGED mapCalls
         \/ \E s \in Slots : /\ MapRole(s)
                             /\ req[s] # NoReq
                             /\ mappings' = mappings \union {<<Requester[req[s].task], About[req[s].task]>>}
                             /\ mapCalls' = [mapCalls EXCEPT ![req[s].task] = @ + 1]
<1>1. CASE \E s \in Slots : MapRole(s)
  BY <1>1 DEF MapRole, At
<1>2. CASE Admin
  BY <1>2 DEF Admin, Revoke, DeleteRole
<1>3. CASE ~Admin /\ ~\E s \in Slots : MapRole(s)
  BY <1>3
     DEF Next, vars, kcVars, OpenMetadata, OpenTask, Decide, Webhook, WebhookGrant,
         WebhookDuplicate, WebhookRefused, WebhookLost, OperatorReplays, Replay, ReplayGrant, ReplayRefused,
         Handler, Token, FindUser, GetRole, CreateRole, GetRoleAfter, Record, CallFails,
         PodStops, PodStarts
<1>4. QED
  BY <1>1, <1>2, <1>3

\* A step keeps every request in flight one for an accepted task.
LEMMA RequestStep ==
  ASSUME TypeOK, ReqAccepted, [Next]_vars
  PROVE  ReqAccepted'
<1>1. SUFFICES ASSUME NEW s \in Slots, req'[s] # NoReq
               PROVE  \E t \in Tasks : t = req'[s].task /\ Accepted(t)'
  BY <1>1 DEF ReqAccepted
<1>2. CASE req'[s] = req[s]
  <2>1. req[s].task \in Tasks /\ Accepted(req[s].task)
    BY <1>1, <1>2, ReqShape DEF ReqAccepted
  <2>2. Accepted(req[s].task)'
    BY <1>2, <2>1, AcceptedStays
  <2>3. QED
    BY <1>2, <2>1, <2>2
<1>start. ASSUME NEW x \in Slots, NEW p \in Pods, NEW t \in Tasks, NEW kind \in Kinds,
             StartGrant(x, p, t, kind), Accepted(t)'
      PROVE  \E u \in Tasks : u = req'[s].task /\ Accepted(u)'
  <2>2. CASE x = s
    BY <1>start, <2>2 DEF StartGrant, TypeOK
  <2>3. CASE x # s
    BY <1>2, <1>start, <2>3 DEF StartGrant, TypeOK
  <2>4. QED
    BY <2>2, <2>3
<1>3. ASSUME NEW p \in Pods, NEW t \in Tasks, Webhook(p, t)
      PROVE  \E u \in Tasks : u = req'[s].task /\ Accepted(u)'
  <2>1. CASE UNCHANGED req
    BY <1>2, <2>1
  <2>2. ASSUME NEW x \in Slots, NEW sig \in Signatures, WebhookGrant(x, p, t, sig)
        PROVE  \E u \in Tasks : u = req'[s].task /\ Accepted(u)'
    <3>1. Accepted(t)
      BY <2>2, ParsedIsAccepted DEF WebhookGrant
    <3>2. QED
      BY <1>start, <2>2, <3>1, AcceptedStays DEF WebhookGrant, Kinds
  <2>3. QED
    BY <1>3, <2>1, <2>2 DEF Webhook, WebhookDuplicate, WebhookRefused
<1>4. ASSUME NEW p \in Pods, NEW path \in Tasks, OperatorReplays(p, path)
      PROVE  \E u \in Tasks : u = req'[s].task /\ Accepted(u)'
  <2>1. CASE UNCHANGED req
    BY <1>2, <2>1
  <2>2. ASSUME NEW x \in Slots, ReplayGrant(x, p, path)
        PROVE  \E u \in Tasks : u = req'[s].task /\ Accepted(u)'
    <3>1. path \in replayed' /\ task' = task
      BY <2>2 DEF ReplayGrant, Replay, omVars
    <3>2. Accepted(path)'
      BY <2>2, <3>1, ParsedIsAccepted DEF ReplayGrant
    <3>3. QED
      BY <1>start, <2>2, <3>2 DEF ReplayGrant, Kinds
  <2>3. QED
    BY <1>4, <2>1, <2>2 DEF OperatorReplays, ReplayRefused
<1>5. ASSUME NEW x \in Slots, Handler(x) \/ CallFails(x)
      PROVE  \E u \in Tasks : u = req'[s].task /\ Accepted(u)'
  <2>1. req[x] # NoReq /\ ((\E pc \in Awaits : Goto(x, pc)) \/ Answer(x))
    BY <1>5 DEF Handler, Token, FindUser, GetRole, CreateRole, GetRoleAfter,
                MapRole, Record, CallFails, Awaits, At
  <2>2. req[s] # NoReq /\ req'[s].task = req[s].task
    BY <1>1, <2>1, ReqShape DEF Goto, Answer, TypeOK, Requests
  <2>3. req[s].task \in Tasks /\ Accepted(req[s].task)'
    BY <2>2, ReqShape, AcceptedStays DEF ReqAccepted
  <2>4. QED
    BY <2>2, <2>3
<1>6. ASSUME NEW p \in Pods, PodStops(p) \/ PodStarts(p)
      PROVE  \E u \in Tasks : u = req'[s].task /\ Accepted(u)'
  BY <1>1, <1>2, <1>6 DEF PodStops, PodStarts, TypeOK
<1>7. CASE UNCHANGED req
  BY <1>2, <1>7
<1>8. QED
  BY <1>3, <1>4, <1>5, <1>6, <1>7
     DEF Next, OpenMetadata, OpenTask, Decide, WebhookLost, Admin, Revoke, DeleteRole, vars

LEMMA AcceptedStep == AInv /\ [Next]_vars => AInv'
<1> SUFFICES ASSUME AInv, [Next]_vars PROVE AInv'
  OBVIOUS
<1>1. TypeOK' /\ ReqWanted' /\ ReqAccepted'
  BY TypeStep, RequestStep DEF AInv
<1>2. \A t \in Tasks : Accepted(t) => Accepted(t)'
  BY AcceptedStays DEF AInv
<1>3. CASE mappings' \subseteq mappings /\ UNCHANGED mapCalls
  <2>1. CallsAccepted'
    BY <1>2, <1>3 DEF AInv, CallsAccepted
  <2>2. GrantsAreExplained'
    BY <1>2, <1>3 DEF AInv, GrantsAreExplained
  <2>3. QED
    BY <1>1, <2>1, <2>2 DEF AInv
<1>4. ASSUME NEW s \in Slots, req[s] # NoReq,
             mappings' = mappings \union {<<Requester[req[s].task], About[req[s].task]>>},
             mapCalls' = [mapCalls EXCEPT ![req[s].task] = @ + 1]
      PROVE  AInv'
  <2>1. req[s].task \in Tasks /\ Accepted(req[s].task)
    BY <1>4, ReqShape DEF AInv, ReqAccepted
  <2>2. CallsAccepted'
    BY <1>2, <1>4, <2>1 DEF AInv, TypeOK, CallsAccepted
  <2>3. GrantsAreExplained'
    BY <1>2, <1>4, <2>1 DEF AInv, GrantsAreExplained
  <2>4. QED
    BY <1>1, <2>2, <2>3 DEF AInv
<1>5. QED
  BY <1>3, <1>4, MappingStep DEF AInv

LEMMA AcceptedInit == Init => AInv
BY BridgeAssumption
   DEF Init, AInv, TypeOK, ReqWanted, ReqAccepted, CallsAccepted, GrantsAreExplained, TaskStates

\* Whoever holds a data_access role asked for it and was approved, or was
\* rejected in an event of the flat shape, which _parse_grant misreads; this
\* holds through any interleaving of redeliveries, replays, failures, restarts
\* and revocations.
THEOREM GrantsGoBackToRequests == Spec => []GrantsAreExplained
<1>1. AInv => GrantsAreExplained
  BY DEF AInv
<1>2. QED
  BY <1>1, AcceptedInit, AcceptedStep, PTL DEF Spec

\* No role mapping is ever made for a rejected request, unless its event came
\* in the flat shape.
THEOREM RejectedAreNotGranted == Spec => []RejectedNotGranted
<1>1. AInv => RejectedNotGranted
  BY DEF AInv, TypeOK, CallsAccepted, Accepted, Approved, RejectedNotGranted
<1>2. QED
  BY <1>1, AcceptedInit, AcceptedStep, PTL DEF Spec

\* Every step of the bridge and its environment is a step of the grant ledger
\* or leaves the ledger alone.
THEOREM BridgeImplementsLedger == Spec => ImplementsLedger
<1> DEFINE abstract == {t \in Tasks : Accepted(t)}
<1>1. Init => Ledger!Init
  BY DEF Init, Ledger!Init, Accepted, Approved, Misread
<1>2. AInv /\ [Next]_vars => [Ledger!Next]_(Ledger!ledgerVars)
  <2> SUFFICES ASSUME AInv, [Next]_vars PROVE [Ledger!Next]_(Ledger!ledgerVars)
    OBVIOUS
  <2>approve. ASSUME NEW t \in Tasks, UNCHANGED mappings,
                     \A u \in Tasks : u # t => (Accepted(u)' <=> Accepted(u)),
                     Accepted(t) => Accepted(t)'
              PROVE  [Ledger!Next]_(Ledger!ledgerVars)
    <3>1. abstract' = abstract \/ abstract' = abstract \union {t}
      BY <2>approve
    <3>2. QED
      BY <2>approve, <3>1 DEF Ledger!Next, Ledger!Approve, Ledger!ledgerVars
  <2>1. CASE \E t \in Tasks : OpenMetadata(t)
    <3>1. PICK t \in Tasks : OpenMetadata(t)
      BY <2>1
    <3>2. UNCHANGED <<mappings, replayed>>
      BY <3>1 DEF OpenMetadata, OpenTask, Decide, kcVars, boundVars, taleVars
    <3>3. \A u \in Tasks : u # t => task'[u] = task[u]
      BY <3>1 DEF OpenMetadata, OpenTask, Decide, AInv, TypeOK
    <3>4. \A u \in Tasks : u # t => (Accepted(u)' <=> Accepted(u))
      BY <3>2, <3>3 DEF Accepted, Approved, Misread
    <3>5. QED
      BY <3>2, <3>4, <2>approve, AcceptedStays DEF AInv
  <2>2. CASE \E p \in Pods, path \in Tasks : OperatorReplays(p, path)
    <3>1. PICK p \in Pods, path \in Tasks : OperatorReplays(p, path)
      BY <2>2
    <3>2. UNCHANGED <<mappings, task>> /\ replayed' = replayed \union {path}
      BY <3>1 DEF OperatorReplays, ReplayGrant, ReplayRefused, Replay, kcVars, omVars
    <3>3. \A u \in Tasks : u # path => (Accepted(u)' <=> Accepted(u))
      BY <3>2 DEF Accepted, Approved, Misread
    <3>4. QED
      BY <3>2, <3>3, <2>approve, AcceptedStays DEF AInv
  <2>3. CASE UNCHANGED <<task, replayed>>
    <3>1. abstract' = abstract
      BY <2>3 DEF Accepted, Approved, Misread
    <3>2. CASE mappings' \subseteq mappings
      <4>1. (mappings \ mappings') \in SUBSET mappings /\ mappings' = mappings \ (mappings \ mappings')
        BY <3>2
      <4>2. QED
        BY <3>1, <4>1 DEF Ledger!Next, Ledger!Revoke
    <3>3. ASSUME NEW s \in Slots, req[s] # NoReq,
                 mappings' = mappings \union {<<Requester[req[s].task], About[req[s].task]>>}
          PROVE  Ledger!Next
      <4>1. req[s].task \in Tasks /\ req[s].task \in abstract
        BY <3>3, ReqShape DEF AInv, ReqAccepted
      <4>2. QED
        BY <3>1, <3>3, <4>1 DEF Ledger!Next, Ledger!Grant
    <3>4. QED
      BY <3>2, <3>3, MappingStep DEF AInv
  <2>4. QED
    BY <2>1, <2>2, <2>3
       DEF Next, vars, omVars, boundVars, taleVars, Webhook, WebhookGrant, WebhookDuplicate,
           WebhookRefused, WebhookLost, Handler, Token, FindUser, GetRole, CreateRole,
           GetRoleAfter, MapRole, Record, CallFails, PodStops, PodStarts, Admin, Revoke,
           DeleteRole
<1>3. QED
  BY <1>1, <1>2, AcceptedStep, AcceptedInit, PTL DEF Spec, ImplementsLedger, Ledger!Spec
-----------------------------------------------------------------------------
(* A task is mapped twice only after the bridge had to forget it. *)

\* Slot s holds a request for task t.
Has(s, t) == req[s] # NoReq /\ req[s].task = t

\* As long as nothing made the bridge forget task t it has at most one carrier:
\* a handler that has not mapped it yet, a handler about to record it, or pods
\* that remember it.
OneCarrier(t) ==
  /\ mapCalls[t] <= 1
  /\ \A s, q \in Slots : Has(s, t) /\ Has(q, t) => s = q
  /\ \A s \in Slots : Has(s, t) => \A p \in Pods : t \notin processed[p]
  /\ \A s \in Slots : Has(s, t) /\ ~At(s, "record") => mapCalls[t] = 0
  /\ mapCalls[t] > 0 => Known(t)

CarrierInv == TypeOK /\ ReqWanted /\ \A t \in Tasks : t \notin reopened => OneCarrier(t)

\* What is forgotten stays so.
LEMMA ReopenedGrows == [Next]_vars => reopened \subseteq reopened'
BY DEF Next, vars, boundVars, taleVars, OpenMetadata, OpenTask, Decide, Webhook,
       WebhookGrant, WebhookDuplicate, WebhookRefused, WebhookLost, OperatorReplays, Replay,
       ReplayGrant, ReplayRefused, Handler, Token, FindUser, GetRole, CreateRole,
       GetRoleAfter, MapRole, Record, CallFails, PodStops, PodStarts, Admin, Revoke, DeleteRole

\* A handler that leaves task t alone leaves its carrier alone.
LEMMA CarrierStep == CarrierInv /\ [Next]_vars => CarrierInv'
<1> SUFFICES ASSUME CarrierInv, [Next]_vars, NEW t \in Tasks, t \notin reopened'
             PROVE  OneCarrier(t)'
  BY TypeStep DEF CarrierInv
<1> USE BridgeAssumption
<1>1. /\ TypeOK
      /\ TypeOK'
      /\ ReqWanted
      /\ t \notin reopened
      /\ OneCarrier(t)
  BY TypeStep, ReopenedGrows DEF CarrierInv
<1>2. mapCalls[t] \in Nat
  BY <1>1 DEF TypeOK
<1>same. ASSUME UNCHANGED <<processed, req, mapCalls>> PROVE OneCarrier(t)'
  BY <1>1, <1>same DEF OneCarrier, Has, At, Known
<1>3. ASSUME NEW s \in Slots, NEW p \in Pods, NEW u \in Tasks, NEW kind \in Kinds,
             StartGrant(s, p, u, kind), UNCHANGED <<processed, mapCalls>>,
             u = t => ~Known(t)
      PROVE  OneCarrier(t)'
  <2>1. /\ req[s] = NoReq
        /\ req'[s] # NoReq
        /\ req'[s].task = u
        /\ \A q \in Slots : q # s => req'[q] = req[q]
    BY <1>1, <1>3 DEF StartGrant, TypeOK, Requests, Awaits
  <2>2. CASE u = t
    <3>1. /\ \A q \in Slots : ~Has(q, t)
          /\ \A x \in Pods : t \notin processed[x]
          /\ mapCalls[t] = 0
      BY <1>1, <1>2, <1>3, <2>2 DEF Known, Has, OneCarrier
    <3>2. \A q \in Slots : Has(q, t)' => q = s
      BY <2>1, <3>1 DEF Has
    <3>3. QED
      BY <1>3, <3>1, <3>2 DEF OneCarrier
  <2>3. CASE u # t
    <3>1. \A q \in Slots : (Has(q, t)' <=> Has(q, t)) /\ (Has(q, t) => (At(q, "record")' <=> At(q, "record")))
      BY <2>1, <2>3 DEF Has, At
    <3>2. Known(t) => Known(t)'
      BY <1>3, <2>1 DEF Known
    <3>3. QED
      BY <1>1, <1>3, <3>1, <3>2 DEF OneCarrier
  <2>4. QED
    BY <2>2, <2>3
<1>4. ASSUME NEW p \in Pods, NEW u \in Tasks, Webhook(p, u) PROVE OneCarrier(t)'
  <2>1. CASE UNCHANGED <<processed, req, mapCalls>>
    BY <1>same, <2>1
  <2>2. ASSUME NEW s \in Slots, NEW sig \in Signatures, WebhookGrant(s, p, u, sig)
        PROVE  OneCarrier(t)'
    <3>1. u = t => ~Known(t)
      BY <2>2 DEF WebhookGrant
    <3>2. QED
      BY <1>3, <2>2, <3>1 DEF WebhookGrant, Kinds, podVars, kcVars
  <2>3. QED
    BY <1>4, <2>1, <2>2 DEF Webhook, WebhookDuplicate, WebhookRefused, podVars, kcVars
<1>5. ASSUME NEW p \in Pods, NEW path \in Tasks, OperatorReplays(p, path) PROVE OneCarrier(t)'
  <2>1. path # t /\ UNCHANGED mapCalls
    BY <1>5 DEF OperatorReplays, ReplayGrant, ReplayRefused, Replay, kcVars
  <2>2. \A x \in Pods : t \in processed'[x] <=> t \in processed[x]
    <3>1. processed' = [processed EXCEPT ![p] = @ \ {path}]
      BY <1>5 DEF OperatorReplays, ReplayGrant, ReplayRefused, Replay
    <3>2. QED
      BY <1>1, <2>1, <3>1 DEF TypeOK
  <2>3. CASE UNCHANGED req
    BY <1>1, <2>1, <2>2, <2>3 DEF OneCarrier, Has, At, Known
  <2>4. ASSUME NEW s \in Slots, StartGrant(s, p, path, "replay") PROVE OneCarrier(t)'
    <3>1. /\ req[s] = NoReq
          /\ req'[s] # NoReq
          /\ req'[s].task = path
          /\ \A q \in Slots : q # s => req'[q] = req[q]
      BY <1>1, <2>4 DEF StartGrant, TypeOK, Requests, Awaits, Kinds
    <3>2. \A q \in Slots : (Has(q, t)' <=> Has(q, t)) /\ (Has(q, t) => (At(q, "record")' <=> At(q, "record")))
      BY <2>1, <3>1 DEF Has, At
    <3>3. Known(t) => Known(t)'
      BY <2>2, <3>1 DEF Known
    <3>4. QED
      BY <1>1, <2>1, <2>2, <3>2, <3>3 DEF OneCarrier
  <2>5. QED
    BY <1>5, <2>3, <2>4 DEF OperatorReplays, ReplayGrant, ReplayRefused
<1>6. ASSUME NEW s \in Slots, Handler(s) \/ CallFails(s) PROVE OneCarrier(t)'
  <2>1. req[s] # NoReq /\ req[s] \in Requests
    BY <1>1, <1>6, ReqShape
       DEF Handler, Token, FindUser, GetRole, CreateRole, GetRoleAfter, MapRole, Record,
           CallFails, At
  <2>2. \A q \in Slots : q # s => req'[q] = req[q]
    BY <1>1, <1>6
       DEF Handler, Token, FindUser, GetRole, CreateRole, GetRoleAfter, MapRole, Record,
           CallFails, Goto, Answer, TypeOK
  <2>3. CASE req[s].task # t
    <3>1. \A q \in Slots : (Has(q, t)' <=> Has(q, t)) /\ (Has(q, t) => (At(q, "record")' <=> At(q, "record")))
      <4>1. req'[s] = NoReq \/ req'[s].task = req[s].task
        BY <1>1, <1>6, <2>1
           DEF Handler, Token, FindUser, GetRole, CreateRole, GetRoleAfter, MapRole, Record,
               CallFails, Goto, Answer, TypeOK, Requests
      <4>2. QED
        BY <2>2, <2>3, <4>1 DEF Has, At
    <3>2. mapCalls'[t] = mapCalls[t]
      BY <1>1, <1>6, <2>1, <2>3
         DEF Handler, Token, FindUser, GetRole, CreateRole, GetRoleAfter, MapRole, Record,
             CallFails, kcVars, TypeOK
    <3>3. \A x \in Pods : t \in processed'[x] <=> t \in processed[x]
      BY <1>1, <1>6, <2>3
         DEF Handler, Token, FindUser, GetRole, CreateRole, GetRoleAfter, MapRole, Record,
             CallFails, podVars, TypeOK
    <3>4. Known(t) => Known(t)'
      BY <3>1, <3>3 DEF Known, Has
    <3>5. QED
      BY <1>1, <3>1, <3>2, <3>3, <3>4 DEF OneCarrier
  <2>4. CASE req[s].task = t
    <3>1. Has(s, t) /\ \A q \in Slots : Has(q, t) => q = s
      BY <1>1, <2>1, <2>4 DEF Has, OneCarrier
    <3>2. \A q \in Slots : Has(q, t)' => q = s
      BY <2>2, <3>1 DEF Has
    <3>3. \A x \in Pods : t \notin processed[x]
      BY <1>1, <3>1 DEF OneCarrier
    <3>4. ~At(s, "record") => mapCalls[t] = 0
      BY <1>1, <3>1 DEF OneCarrier
    <3>5. CASE Token(s) \/ FindUser(s) \/ GetRole(s) \/ CreateRole(s) \/ GetRoleAfter(s) \/ CallFails(s)
      <4>1. ~At(s, "record") /\ UNCHANGED <<processed, mapCalls>>
        BY <1>1, <2>1, <2>4, <3>5
           DEF Token, FindUser, GetRole, CreateRole, GetRoleAfter, CallFails, At, podVars, kcVars
      <4>2. QED
        BY <1>1, <3>2, <3>3, <3>4, <4>1 DEF OneCarrier
    <3>6. CASE MapRole(s)
      <4>1. mapCalls[t] = 0 /\ UNCHANGED processed
        BY <3>4, <3>6 DEF MapRole, At, podVars
      <4>2. CASE About[t] \in roles
        <5>1. mapCalls'[t] = 1
          BY <1>1, <2>4, <3>6, <4>1, <4>2 DEF MapRole, TypeOK
        <5>2. req'[s] = [req[s] EXCEPT !.pc = "record"]
          BY <1>1, <2>4, <3>6, <4>2 DEF MapRole, Goto, TypeOK
        <5>3. At(s, "record")' /\ req'[s].task = t /\ req'[s] # NoReq
          BY <1>1, <2>1, <2>4, <5>2, GotoType DEF At, Requests, Awaits
        <5>4. Known(t)'
          BY <5>3 DEF Known
        <5>5. QED
          BY <3>2, <3>3, <4>1, <5>1, <5>3, <5>4 DEF OneCarrier
      <4>3. CASE About[t] \notin roles
        <5>1. UNCHANGED mapCalls
          BY <2>4, <3>6, <4>3 DEF MapRole
        <5>2. QED
          BY <3>2, <3>3, <4>1, <5>1 DEF OneCarrier
      <4>4. QED
        BY <4>2, <4>3
    <3>7. CASE Record(s)
      <4>1. req'[s] = NoReq /\ UNCHANGED mapCalls /\ req[s].pod \in Pods
        BY <1>1, <2>1, <3>7 DEF Record, Answer, TypeOK, kcVars, Requests
      <4>2. t \in processed'[req[s].pod]
        BY <1>1, <2>4, <3>7, <4>1 DEF Record, TypeOK
      <4>3. \A q \in Slots : ~Has(q, t)'
        BY <3>2, <4>1 DEF Has
      <4>4. Known(t)'
        BY <4>1, <4>2 DEF Known
      <4>5. QED
        BY <1>1, <4>1, <4>3, <4>4 DEF OneCarrier
    <3>8. QED
      BY <1>6, <3>5, <3>6, <3>7 DEF Handler
  <2>5. QED
    BY <2>3, <2>4
<1>7. ASSUME NEW p \in Pods, PodStops(p) PROVE OneCarrier(t)'
  <2>1. /\ t \notin processed[p]
        /\ \A s \in Slots : ~(At(s, "record") /\ req[s].pod = p /\ req[s].task = t)
        /\ UNCHANGED mapCalls
    BY <1>7 DEF PodStops, kcVars
  <2>2. \A x \in Pods : t \in processed'[x] <=> t \in processed[x]
    BY <1>1, <1>7, <2>1 DEF PodStops, TypeOK
  <2>3. \A s \in Slots : req'[s] = NoReq \/ req'[s] = req[s]
    BY <1>7 DEF PodStops
  <2>4. \A s \in Slots : (Has(s, t)' => Has(s, t)) /\ (Has(s, t)' => (At(s, "record")' <=> At(s, "record")))
    BY <2>3 DEF Has, At
  <2>5. mapCalls[t] > 0 => Known(t)'
    <3>1. SUFFICES ASSUME mapCalls[t] > 0 PROVE Known(t)'
      OBVIOUS
    <3>2. CASE \E x \in Pods : t \in processed[x]
      BY <2>2, <3>2 DEF Known
    <3>3. ASSUME NEW s \in Slots, Has(s, t) PROVE Known(t)'
      <4>1. At(s, "record")
        BY <1>1, <1>2, <3>1, <3>3 DEF OneCarrier
      <4>2. req'[s] = req[s]
        BY <1>7, <2>1, <3>3, <4>1 DEF PodStops, Has
      <4>3. QED
        BY <3>3, <4>2 DEF Known, Has
    <3>4. QED
      BY <1>1, <3>1, <3>2, <3>3 DEF OneCarrier, Known, Has
  <2>6. QED
    BY <1>1, <2>1, <2>2, <2>4, <2>5 DEF OneCarrier
<1>8. QED
  BY <1>same, <1>4, <1>5, <1>6, <1>7
     DEF Next, OpenMetadata, OpenTask, Decide, WebhookLost, PodStarts, Admin, Revoke,
         DeleteRole, vars, podVars, kcVars

\* A role is mapped twice for one task only after a replay, the stop of a pod
\* that knew of it, a lost answer, or a delivery that overlapped another handler
\* or went to another pod: otherwise "zelfde task-id twee keer is een no-op".
THEOREM RepeatsNeedForgetting == Spec => []RepeatsAreExplained
<1>1. Init => CarrierInv
  BY BridgeAssumption
     DEF Init, CarrierInv, TypeOK, ReqWanted, TaskStates, OneCarrier, Has
<1>2. CarrierInv => RepeatsAreExplained
  BY DEF CarrierInv, TypeOK, OneCarrier, RepeatsAreExplained
<1>3. QED
  BY <1>1, <1>2, CarrierStep, PTL DEF Spec
=============================================================================
