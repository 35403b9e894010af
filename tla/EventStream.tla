----------------------------- MODULE EventStream -----------------------------
(***************************************************************************)
(* The notification stream of the portal (portal/scripts/portal-backend.py *)
(* from line 574).  One coroutine polls Airflow for failed DAG runs; every *)
(* browser has a coroutine of its own that replays the recent history and  *)
(* then forwards what is put on its queue.  All run on one event loop, so  *)
(* a step is what happens between two awaits, and _events_lock, never held *)
(* over an await, adds nothing.                                            *)
(*                                                                         *)
(* A DAG run is the number of its execution date: a larger number is a     *)
(* later date.  Heartbeats, the text of an event and the e-mail header are *)
(* left out.                                                               *)
(***************************************************************************)
EXTENDS Integers, Sequences, FiniteSets, Functions

CONSTANTS
    Runs,          \* DAG runs, by execution date
    Clients,       \* browser tabs
    HistorySize,   \* EVENT_HISTORY, 50 in the code
    QueueSize,     \* maxsize of a client's queue, 20 in the code
    PageSize,      \* limit of the Airflow query, 20 in the code
    MaxFailures,   \* bound: how often one run fails (it can be cleared)
    MaxConnects,   \* bound: connections of one tab
    MaxRestarts    \* bound: restarts of the backend

ASSUME StreamAssumption ==
    /\ Runs \subseteq Nat /\ IsFiniteSet(Runs)
    /\ {HistorySize, QueueSize, PageSize, MaxFailures} \subseteq Nat \ {0}
    /\ {MaxConnects, MaxRestarts} \subseteq Nat

\* The query's limit and the queue's size are both 20: one page fits a queue.
ASSUME PageFitsQueue == PageSize <= QueueSize

VARIABLES
    failed,     \* Airflow: the runs whose state is failed
    failures,   \* how often each run failed
    since,      \* the poller's execution_date_gte
    seen,       \* _seen_failed_runs
    poll,       \* the poller: sleeping, or waiting with the answer on its way
    events,     \* _events
    conn,       \* the coroutine of each client
    restarts,
    published,  \* history: every event of this process, oldest first
    fresh       \* history: the runs that failed since this process started

vars == <<failed, failures, since, seen, poll, events, conn, restarts,
          published, fresh>>

airflow == <<failed, failures, fresh>>
backend == <<since, seen, events, published>>

-----------------------------------------------------------------------------
\* A client that is not connected, and what is kept of a connection: the
\* history it replays, its queue, what was sent, how many events had been
\* published when it subscribed, whether an event ever met a filled queue.
Away(n) == [phase |-> "away", replay |-> <<>>, queue |-> <<>>, sent |-> <<>>,
            after |-> 0, lagged |-> FALSE, connects |-> n]

Sleeping == [at |-> "sleeping", page |-> {}]

Init ==
    /\ failed \in SUBSET Runs
    /\ failures = [r \in Runs |-> IF r \in failed THEN 1 ELSE 0]
    /\ since \in Runs
    /\ seen = {}
    /\ poll = Sleeping
    /\ events = <<>>
    /\ conn = [c \in Clients |-> Away(0)]
    /\ restarts = 0
    /\ published = <<>>
    /\ fresh = {}

-----------------------------------------------------------------------------
(* Airflow *)

RunFails(r) ==
    /\ r \notin failed /\ failures[r] < MaxFailures
    /\ failed' = failed \cup {r}
    /\ failures' = [failures EXCEPT ![r] = @ + 1]
    /\ fresh' = fresh \cup {r}
    /\ UNCHANGED <<backend, poll, conn, restarts>>

\* An operator clears a failed run, and Airflow runs it again.
ClearRun(r) ==
    /\ r \in failed
    /\ failed' = failed \ {r}
    /\ UNCHANGED <<failures, fresh, backend, poll, conn, restarts>>

-----------------------------------------------------------------------------
(* The poller *)

InWindow == {r \in failed : r >= since}

\* Mutant: the query has no limit.
BugPages == {InWindow}

\* state=failed, execution_date_gte=since, order_by=-execution_date, limit: the
\* newest runs of the window, at most a page of them.
Pages ==
    {P \in SUBSET InWindow :
        /\ Cardinality(P) <= PageSize
        /\ \A r \in InWindow \ P : Cardinality(P) = PageSize /\ \A x \in P : x > r}

OnPage(r) == \E P \in Pages : r \in P

\* client.get: Airflow works out the answer, the poller waits for it.
AskAirflow ==
    /\ poll.at = "sleeping"
    /\ \E P \in Pages : poll' = [at |-> "waiting", page |-> P]
    /\ UNCHANGED <<airflow, backend, conn, restarts>>

\* Mutant: the runs of an answer are marked before it is known to be good.
BugPollFails ==
    /\ poll.at = "waiting"
    /\ poll' = Sleeping
    /\ seen' = seen \cup poll.page
    /\ UNCHANGED <<airflow, since, events, published, conn, restarts>>

\* A timeout, an HTTP error or a bad answer is logged, and the loop goes on.
PollFails ==
    /\ poll.at = "waiting"
    /\ poll' = Sleeping
    /\ UNCHANGED <<airflow, backend, conn, restarts>>

\* deque(maxlen=n)
LastOf(s, n) == IF Len(s) <= n THEN s ELSE SubSeq(s, Len(s) - n + 1, Len(s))

\* put_nowait, event by event: once the queue is full the rest is dropped.
Offer(q, new) ==
    LET room == QueueSize - Len(q)
    IN  q \o SubSeq(new, 1, IF Len(new) < room THEN Len(new) ELSE room)

FanOut(new) ==
    conn' = [c \in Clients |->
        IF conn[c].phase = "live"
        THEN [conn[c] EXCEPT !.queue = Offer(@, new),
                             !.lagged = @ \/ (new # <<>> /\ conn[c].queue # <<>>)]
        ELSE conn[c]]

\* The runs of S in the order of the answer, newest first.
NewestFirst(S) ==
    {s \in [1..Cardinality(S) -> S] : \A i, j \in DOMAIN s : i < j => s[i] > s[j]}

\* The loop over the answer has no await: the runs that were not reported
\* before are published at once.
ReportFailures ==
    /\ poll.at = "waiting"
    /\ \E new \in NewestFirst(poll.page \ seen) :
          /\ events' = LastOf(events \o new, HistorySize)
          /\ published' = published \o new
          /\ FanOut(new)
    /\ seen' = seen \cup poll.page
    /\ poll' = Sleeping
    /\ UNCHANGED <<airflow, since, restarts>>

-----------------------------------------------------------------------------
(* A client's coroutine *)

\* Mutant: the history is queued once more, to close the gap of Subscribe.
BugSubscribed(k) == [k EXCEPT !.phase = "live", !.after = Len(published), !.queue = events]

\* The queue is registered: from now on FanOut reaches it.
Subscribed(k) == [k EXCEPT !.phase = "live", !.after = Len(published)]

\* The snapshot and the first await: the first event of the history, or, when
\* there is no history, the wait for the queue.
Connect(c) ==
    /\ conn[c].phase = "away" /\ conn[c].connects < MaxConnects
    /\ LET k == [Away(conn[c].connects + 1) EXCEPT !.replay = events]
       IN  conn' = [conn EXCEPT ![c] =
               IF events = <<>> THEN Subscribed(k)
               ELSE [k EXCEPT !.phase = "replay", !.sent = <<Head(events)>>]]
    /\ UNCHANGED <<airflow, backend, poll, restarts>>

\* The last event was written: the next one of the history follows.
ReplayNext(c) ==
    /\ conn[c].phase = "replay" /\ Len(conn[c].sent) < Len(conn[c].replay)
    /\ conn' = [conn EXCEPT ![c].sent = Append(@, conn[c].replay[Len(@) + 1])]
    /\ UNCHANGED <<airflow, backend, poll, restarts>>

\* The history is written: only now is the queue registered.
Subscribe(c) ==
    /\ conn[c].phase = "replay" /\ Len(conn[c].sent) = Len(conn[c].replay)
    /\ conn' = [conn EXCEPT ![c] = Subscribed(@)]
    /\ UNCHANGED <<airflow, backend, poll, restarts>>

SendEvent(c) ==
    /\ conn[c].phase = "live" /\ conn[c].queue # <<>>
    /\ conn' = [conn EXCEPT ![c].sent = Append(@, Head(conn[c].queue)),
                            ![c].queue = Tail(@)]
    /\ UNCHANGED <<airflow, backend, poll, restarts>>

\* The browser closes the stream, or a proxy does; finally discards the queue.
Disconnect(c) ==
    /\ conn[c].phase # "away"
    /\ conn' = [conn EXCEPT ![c] = Away(conn[c].connects)]
    /\ UNCHANGED <<airflow, backend, poll, restarts>>

\* The pod is replaced: everything in memory is gone, the window moves on.
Restart ==
    /\ restarts < MaxRestarts
    /\ restarts' = restarts + 1
    /\ since' \in {s \in Runs : s >= since}
    /\ seen' = {} /\ events' = <<>> /\ published' = <<>> /\ fresh' = {}
    /\ poll' = Sleeping
    /\ conn' = [c \in Clients |-> Away(conn[c].connects)]
    /\ UNCHANGED <<failed, failures>>

Next ==
    \/ \E r \in Runs : RunFails(r) \/ ClearRun(r)
    \/ AskAirflow \/ PollFails \/ ReportFailures
    \/ \E c \in Clients :
          Connect(c) \/ ReplayNext(c) \/ Subscribe(c) \/ SendEvent(c) \/ Disconnect(c)
    \/ Restart

\* The poller's loop never ends, Airflow answers again and again, and a client
\* reads what it is sent.
Fairness ==
    /\ WF_vars(AskAirflow) /\ WF_vars(poll.at = "waiting" /\ (PollFails \/ ReportFailures))
    /\ SF_vars(ReportFailures)
    /\ \A c \in Clients : WF_vars(ReplayNext(c) \/ Subscribe(c) \/ SendEvent(c))

Spec == Init /\ [][Next]_vars
FairSpec == Spec /\ Fairness

-----------------------------------------------------------------------------
(* Properties *)

Connections ==
    [phase : {"away", "replay", "live"}, replay : Seq(seen), queue : Seq(seen),
     sent : Seq(seen), after : 0..Len(published), lagged : BOOLEAN, connects : 0..MaxConnects]

\* Type invariant: an event is published once per process, histories and
\* queues keep their sizes (EVENT_HISTORY, asyncio.Queue(maxsize=20)).
StreamTypeOK ==
    /\ failed \subseteq Runs /\ failures \in [Runs -> 0..MaxFailures]
    /\ since \in Runs /\ seen \subseteq Runs /\ fresh \subseteq Runs
    /\ restarts \in 0..MaxRestarts
    /\ published \in Seq(seen) /\ IsInjective(published)
    /\ events \in Seq(seen) /\ Len(events) <= HistorySize
    /\ poll \in [at : {"sleeping", "waiting"}, page : SUBSET Runs]
    /\ conn \in [Clients -> Connections]
    /\ \A c \in Clients : Len(conn[c].queue) <= QueueSize

\* What a connection delivered so far, and what still waits in its queue.
Delivered(c) == conn[c].sent \o conn[c].queue

\* On one connection no event comes twice and none overtakes another, also
\* when the client is slow and events are dropped: the history is taken before
\* the queue is registered, and a run that was reported is not reported again.
StreamsKeepOrder ==
    \A c \in Clients : \A i, j \in DOMAIN Delivered(c) : i < j =>
        \E a, b \in DOMAIN published :
            a < b /\ published[a] = Delivered(c)[i] /\ published[b] = Delivered(c)[j]

\* A subscribed client that read its queue empty before each poll was answered
\* has every event since it subscribed: nothing is dropped for a client that is
\* not slow, although one poll may publish a whole page at once.
PromptClientsMissNothing ==
    \A c \in Clients : conn[c].phase = "live" /\ ~conn[c].lagged =>
        Delivered(c) = conn[c].replay \o SubSeq(published, conn[c].after + 1, Len(published))

\* A failure on the first page of the window reaches a subscribed, prompt
\* client: failing polls do not end the poller.
FailuresReachClients ==
    \A r \in Runs, c \in Clients :
        (OnPage(r) /\ r \notin seen /\ conn[c].phase = "live")
            ~> \/ r \in Range(conn[c].sent) \/ ~OnPage(r)
               \/ conn[c].phase # "live" \/ conn[c].lagged

\* "After that, the deduplication set kicks in and we only see truly new ones"
\* (line 645): a run that fails while the poller runs is reported, unless it is
\* cleared or the backend restarts first.
NewFailuresAreReported ==
    \A r \in Runs : (r \in fresh) ~> (r \in seen \/ r \notin fresh \cap failed)
=============================================================================
