---------------------------- MODULE CommandPalette ----------------------------
(***************************************************************************)
(* The portal's command palette and the search behind it                   *)
(* (portal/src/components/shell/CommandPalette.tsx, portal-backend.py      *)
(* 335-571).  Typing starts a call after a pause and aborts the one before;*)
(* the handler of an aborted call runs on in the backend, where answers    *)
(* are cached by query.  A step is what happens between two awaits, or one *)
(* effect of React.                                                        *)
(*                                                                         *)
(* An answer is the key it was searched by and the sources that replied;   *)
(* a source that fails replies nothing.                                    *)
(***************************************************************************)
EXTENDS Integers, Sequences, SequencesExt

CONSTANTS
    Queries,      \* texts of two letters or more, trimmed
    Key(_),       \* q.lower()
    Sources,      \* OpenMetadata, Airflow, Grafana (Superset's search is empty)
    MaxCached,    \* 200 entries in the code
    Dropped,      \* 50 in the code
    Calls         \* bound: how many calls the palette makes, 1..n

PaletteAssumption ==
    /\ MaxCached \in Nat \ {0} /\ Dropped \in 1..MaxCached

VARIABLES
    open, query,  \* the palette; "" is a text too short to search
    shown,        \* its FetchState
    current,      \* the call of the last effect: 0, or its number
    calls,        \* the calls, by number
    cache         \* _search_cache, in the order of its time stamps

vars == <<open, query, shown, current, calls, cache>>

-----------------------------------------------------------------------------
Idle == [kind |-> "idle"]
Loading == [kind |-> "loading"]
Failed == [kind |-> "error"]

Init ==
    /\ open = FALSE /\ query = "" /\ shown = Idle
    /\ current = 0 /\ calls = <<>> /\ cache = <<>>

-----------------------------------------------------------------------------
(* The palette *)

\* The effect of [query, open]: its cleanup has cleared the timer and aborted
\* the call, so only the new one is current; too short a text shows nothing.
StartEffect(q) ==
    IF q = ""
    THEN shown' = Idle /\ current' = 0 /\ UNCHANGED calls
    ELSE /\ Len(calls) + 1 \in Calls
         /\ shown' = Loading
         /\ current' = Len(calls) + 1
         /\ calls' = Append(calls, [q |-> q, at |-> "pausing"])

TypeQuery(q) ==
    /\ open /\ q # query
    /\ query' = q
    /\ StartEffect(q)
    /\ UNCHANGED <<open, cache>>

OpenPalette ==
    /\ ~open /\ open' = TRUE
    /\ StartEffect(query)
    /\ UNCHANGED <<query, cache>>

\* Escape or the shortcut: the cleanup runs, then the text is emptied.
ClosePalette ==
    /\ open /\ open' = FALSE
    /\ current' = 0 /\ query' = ""
    /\ UNCHANGED <<shown, calls, cache>>

\* 200 ms without a key: the request goes out.  An aborted timer never fires.
PauseEnds ==
    /\ current # 0 /\ calls[current].at = "pausing"
    /\ calls' = [calls EXCEPT ![current].at = "sent"]
    /\ UNCHANGED <<open, query, shown, current, cache>>

\* Mutant: no AbortController, the last answer to arrive is shown.
BugReceive(n) ==
    /\ calls[n].at = "answered"
    /\ calls' = [calls EXCEPT ![n] = [q |-> @.q, at |-> "over"]]
    /\ shown' = [kind |-> "ok", items |-> calls[n].items]
    /\ UNCHANGED <<open, query, current, cache>>

\* The answer of the current call is shown, an aborted one's is dropped.
Receive(n) ==
    /\ calls[n].at = "answered"
    /\ calls' = [calls EXCEPT ![n] = [q |-> @.q, at |-> "over"]]
    /\ shown' = IF n = current THEN [kind |-> "ok", items |-> calls[n].items] ELSE shown
    /\ UNCHANGED <<open, query, current, cache>>

\* No answer, or one that is not ok.
ReceiveError(n) ==
    /\ calls[n].at \in {"sent", "searching"}
    /\ calls' = [calls EXCEPT ![n] = [q |-> @.q, at |-> "over"]]
    /\ shown' = IF n = current THEN Failed ELSE shown
    /\ UNCHANGED <<open, query, current, cache>>

-----------------------------------------------------------------------------
(* The backend *)

Cached(k) == {i \in DOMAIN cache : cache[i].items.key = k /\ cache[i].fresh}

\* _cache_get: an entry younger than thirty seconds is the answer.
Search(n) ==
    /\ calls[n].at = "sent"
    /\ LET hit == Cached(Key(calls[n].q))
       IN  calls' = [calls EXCEPT ![n] =
               IF hit = {} THEN [q |-> @.q, at |-> "searching"]
               ELSE [q |-> @.q, at |-> "answered", items |-> cache[CHOOSE i \in hit : TRUE].items]]
    /\ UNCHANGED <<open, query, shown, current, cache>>

\* The cache without its entry of that key; there is at most one.
Without(key) ==
    LET at == {i \in DOMAIN cache : cache[i].items.key = key}
    IN  IF at = {} THEN cache ELSE RemoveAt(cache, CHOOSE i \in at : TRUE)

\* Mutant: a full cache is not trimmed.
BugCacheSet(items) == Append(Without(items.key), [items |-> items, fresh |-> TRUE])

\* _cache_set: the entry takes a new time stamp; over the limit the oldest go.
CacheSet(items) ==
    LET c == Append(Without(items.key), [items |-> items, fresh |-> TRUE])
    IN  IF Len(c) > MaxCached THEN SubSeq(c, Dropped + 1, Len(c)) ELSE c

\* The sources are asked side by side; one that is not configured, does not
\* answer in time or answers an error contributes no item, and nobody is told.
Replies == SUBSET Sources

\* gather: what the sources replied is merged, cached, also when it is nothing,
\* and returned.
SearchEnds(n) ==
    /\ calls[n].at = "searching"
    /\ \E replied \in Replies :
          LET items == [key |-> Key(calls[n].q), from |-> replied]
          IN  /\ cache' = CacheSet(items)
              /\ calls' = [calls EXCEPT ![n] = [q |-> @.q, at |-> "answered", items |-> items]]
    /\ UNCHANGED <<open, query, shown, current>>

\* The oldest entry that was fresh is thirty seconds old.
CacheAges ==
    /\ \E i \in DOMAIN cache :
          /\ cache[i].fresh /\ \A j \in 1..(i - 1) : ~cache[j].fresh
          /\ cache' = [cache EXCEPT ![i].fresh = FALSE]
    /\ UNCHANGED <<open, query, shown, current, calls>>

\* The pod is replaced: the cache is gone, calls that wait get an error.
BackendRestarts ==
    /\ cache # <<>> /\ cache' = <<>>
    /\ UNCHANGED <<open, query, shown, current, calls>>

Next ==
    \/ \E q \in Queries \cup {""} : TypeQuery(q)
    \/ OpenPalette \/ ClosePalette \/ PauseEnds \/ CacheAges \/ BackendRestarts
    \/ \E n \in DOMAIN calls : Receive(n) \/ ReceiveError(n) \/ Search(n) \/ SearchEnds(n)

Spec == Init /\ [][Next]_vars

-----------------------------------------------------------------------------
(* Properties *)

Answers == [key : {Key(q) : q \in Queries}, from : SUBSET Sources]

\* Type invariant; the cache holds each key once and stays bounded ("keep last
\* 200 queries", line 361).
PaletteTypeOK ==
    /\ open \in BOOLEAN /\ query \in Queries \cup {""}
    /\ shown \in {Idle, Loading, Failed} \cup [kind : {"ok"}, items : Answers]
    /\ Len(calls) \in Calls \cup {0} /\ current \in 0..Len(calls)
    /\ \A n \in DOMAIN calls :
          calls[n] \in [q : Queries, at : {"pausing", "sent", "searching", "over"}]
                       \cup [q : Queries, at : {"answered"}, items : Answers]
    /\ \A i \in DOMAIN cache : cache[i] \in [items : Answers, fresh : BOOLEAN]
    /\ Len(cache) <= MaxCached
    /\ \A i, j \in DOMAIN cache : cache[i].items.key = cache[j].items.key => i = j

\* "An older response can't overwrite a newer one" (CommandPalette.tsx:83): what
\* an open palette lists was searched by the text it shows, whether the answer
\* came late, from another call's search or out of the cache.
ResultsBelongToQuery ==
    open /\ shown.kind = "ok" => query # "" /\ shown.items.key = Key(query)
=============================================================================
