-------------------------- MODULE NotificationBell --------------------------
(***************************************************************************)
(* portal/src/components/shell/NotificationBell.tsx: the dropdown of the   *)
(* portal's topbar.  The browser opens /api/portal/events again whenever   *)
(* it breaks; each time the backend sends its whole history, oldest first, *)
(* and then what is published (EventStream models that side in detail).    *)
(* The bell drops what it already lists and keeps the last few, so that    *)
(* events it has let go of come back in front of newer ones.  How much of  *)
(* the list is right in the end depends on the two sizes (BellAssumption). *)
(*                                                                         *)
(* Whether its panel is open and how many events are unread no other part  *)
(* of the bell reads; both are left out.                                   *)
(*                                                                         *)
(* An event is a number; a larger one was made later.  A backend that      *)
(* restarts forgets what it reported and may publish a run's id again.     *)
(***************************************************************************)
EXTENDS Naturals, Sequences, SequencesExt

CONSTANTS
    Events,       \* bound: ids of failed runs, 1..n
    HistorySize,  \* EVENT_HISTORY, 50 in the code
    MaxEvents,    \* MAX_EVENTS, 10 in the code
    MaxAgain      \* bound: an old id is published again while the history is shorter

\* A replay that is long enough to put a list right, whatever it was: at most
\* MaxEvents of the events replayed count as listed, MaxEvents of the others
\* push out what was there before, and MaxEvents - 1 more follow.  With one
\* event less in the history, connections that break can leave a gap for good.
BellAssumption ==
    /\ MaxEvents \in Nat \ {0} /\ HistorySize \in Nat
    /\ HistorySize >= 3 * MaxEvents - 1

VARIABLES
    history,    \* the backend: _events
    published,  \* the backend: _seen_failed_runs
    stream,     \* the connection: its phase, and what is on its way
    shown,      \* the bell: events, newest first
    ever,       \* history: ids published since the page was loaded or listed then
    missed,     \* history: published while this connection replayed, or dropped from its queue
    uneven      \* history: the page's list may have gaps, as an earlier connection
                \* missed events or an id was published a second time

vars == <<history, published, stream, shown, ever, missed, uneven>>

Away == [at |-> "away", coming |-> <<>>]

Init ==
    /\ history = <<>> /\ published = {}
    /\ stream = Away
    /\ shown = <<>>
    /\ ever = {} /\ missed = FALSE /\ uneven = FALSE

-----------------------------------------------------------------------------
(* The backend *)

LastOf(s, n) == SubSeq(s, IF Len(s) > n THEN Len(s) - n + 1 ELSE 1, Len(s))

\* _publish_event: a connection that is live gets the event, unless its queue
\* is full.
Publish(e) ==
    /\ e \notin published /\ e - 1 \in ever \cup {0}
    /\ e \in ever => Len(history) < MaxAgain
    /\ published' = published \cup {e} /\ ever' = ever \cup {e}
    /\ uneven' = (uneven \/ e \in ever)
    /\ history' = LastOf(Append(history, e), HistorySize)
    /\ \/ /\ stream.at = "live"
          /\ stream' = [stream EXCEPT !.coming = Append(@, e)] /\ UNCHANGED missed
       \/ /\ missed' = (missed \/ stream.at # "away") /\ UNCHANGED stream
    /\ UNCHANGED shown

\* The pod is replaced: history, reported runs and connections are gone.
Restart ==
    /\ published # {}
    /\ history' = <<>> /\ published' = {} /\ stream' = Away
    /\ UNCHANGED <<shown, ever, missed, uneven>>

-----------------------------------------------------------------------------
(* The connection *)

\* EventSource connects, at first or after a break.
Connect ==
    /\ stream.at = "away"
    /\ stream' = [at |-> "replay", coming |-> history]
    /\ missed' = FALSE /\ uneven' = (uneven \/ missed)
    /\ UNCHANGED <<history, published, shown, ever>>

\* The replay is sent; what is on its way may not have arrived.
Subscribe ==
    /\ stream.at = "replay" /\ stream' = [stream EXCEPT !.at = "live"]
    /\ UNCHANGED <<history, published, shown, ever, missed, uneven>>

Break ==
    /\ stream.at # "away" /\ stream' = Away
    /\ UNCHANGED <<history, published, shown, ever, missed, uneven>>

-----------------------------------------------------------------------------
(* The bell *)

FirstOf(s, n) == SubSeq(s, 1, IF Len(s) > n THEN n ELSE Len(s))

\* Mutant: a new event is added behind the others.
BugListed(e) == IF Contains(shown, e) THEN shown ELSE FirstOf(Append(shown, e), MaxEvents)

\* Dedupe on the id, then in front of the others, and no more than MAX_EVENTS.
Listed(e) == IF Contains(shown, e) THEN shown ELSE FirstOf(<<e>> \o shown, MaxEvents)

\* onMessage; the count of unread events it raises is only shown.
OnMessage ==
    /\ stream.coming # <<>>
    /\ shown' = Listed(Head(stream.coming))
    /\ stream' = [stream EXCEPT !.coming = Tail(@)]
    /\ UNCHANGED <<history, published, ever, missed, uneven>>

\* A page of the portal is loaded: a new bell.
LoadPage ==
    /\ stream' = Away /\ shown' = <<>>
    /\ ever' = published /\ missed' = FALSE /\ uneven' = FALSE
    /\ UNCHANGED <<history, published>>

Next ==
    \/ \E e \in Events : Publish(e)
    \/ Restart \/ Connect \/ Subscribe \/ Break
    \/ OnMessage \/ LoadPage

Spec == Init /\ [][Next]_vars

-----------------------------------------------------------------------------
\* Type invariant of the bell; it never lists an event twice.
BellTypeOK ==
    /\ published \subseteq Events /\ ever \subseteq Events
    /\ history \in Seq(published) /\ Len(history) <= HistorySize
    /\ stream.at \in {"away", "replay", "live"} /\ stream.coming \in Seq(Events)
    /\ Len(shown) <= MaxEvents /\ IsInjective(shown)
    /\ {missed, uneven} \subseteq BOOLEAN

\* When a connection has delivered what was sent and missed nothing, the bell
\* lists the last MAX_EVENTS events of the backend's history, however many
\* earlier connections broke in the middle of a replay and left old events in
\* front of new ones.  After a connection that missed events, or
\* when ids are published a second time, only the newest event is sure to be
\* listed: an older one that comes back may push out one that counts as listed
\* (NotificationBell.tsx:98-102).
BellShowsNewest ==
    stream.at = "live" /\ stream.coming = <<>> /\ ~missed =>
        \A k \in 1..Len(history) :
            k > Len(history) - (IF uneven THEN 1 ELSE MaxEvents) => Contains(shown, history[k])
=============================================================================
