---------------------------- MODULE PowerBiEmbed ----------------------------
(***************************************************************************)
(* The Power BI page of the portal                                         *)
(* (portal/src/components/powerbi/PowerBIEmbed.tsx).  A selection is a     *)
(* report with the identity switch; every change of it fetches an embed    *)
(* config, and a timer fetches another shortly before that one expires.    *)
(* The backend (PowerBiToken) answers or fails at any time.                *)
(***************************************************************************)
EXTENDS Integers, Sequences

CONSTANTS
    Reports,       \* the workspace's reports
    Ghost,         \* a report that is gone, but that an address still names
    MaxFetches     \* bound: fetches of one visit

EmbedAssumption == Ghost \notin Reports /\ MaxFetches \in Nat \ {0}

VARIABLES
    selected,    \* selectedReportId and identityMode
    listed,      \* the list of reports has arrived
    cfg,         \* what the config on screen was fetched for; empty without one
    err,
    timer,       \* the refresh timer runs
    fetches,     \* all fetches, in the order they went out
    crossed      \* history: the selection changed while a refresh was under way

vars == <<selected, listed, cfg, err, timer, fetches, crossed>>

Selections == [report : Reports \cup {Ghost}, identity : BOOLEAN]

-----------------------------------------------------------------------------
Fetch(s, by) == [for |-> s, by |-> by, waiting |-> TRUE, cancelled |-> FALSE]

Underway(n, by) == fetches[n].waiting /\ fetches[n].by = by
Refreshing == \E n \in DOMAIN fetches : Underway(n, "timer")
Answered(n) == fetches' = [fetches EXCEPT ![n].waiting = FALSE]

\* The prop, the address, localStorage or the default names the first report.
Init ==
    /\ selected \in Selections
    /\ fetches = <<Fetch(selected, "selection")>>
    /\ cfg = {} /\ err = FALSE /\ timer = FALSE /\ listed = FALSE /\ crossed = FALSE

\* Mutant: the effect has no clean-up.
BugCancel(n) == fetches[n]

\* The clean-up of the effect: the fetch of the old selection is disowned, that
\* of the timer is not.
Cancel(n) ==
    IF fetches[n].by = "selection" THEN [fetches[n] EXCEPT !.cancelled = TRUE] ELSE fetches[n]

\* The effects of [selectedReportId, identityMode]: nothing is on screen and no
\* timer runs until the new config is there.
Select(s) ==
    /\ s # selected /\ Len(fetches) < MaxFetches
    /\ selected' = s
    /\ fetches' = Append([n \in DOMAIN fetches |-> Cancel(n)], Fetch(s, "selection"))
    /\ cfg' = {} /\ err' = FALSE /\ timer' = FALSE
    /\ crossed' = Refreshing

\* The dropdown has the reports of the list only.
ChooseReport(r) ==
    /\ listed /\ UNCHANGED listed
    /\ Select([selected EXCEPT !.report = r])

SwitchIdentity ==
    /\ Select([selected EXCEPT !.identity = ~@])
    /\ UNCHANGED listed

\* A selection that is not on the list gives way to its first.
ListArrives ==
    /\ ~listed /\ listed' = TRUE
    /\ IF selected.report \in Reports
       THEN UNCHANGED <<selected, cfg, err, timer, fetches, crossed>>
       ELSE \E r \in Reports : Select([selected EXCEPT !.report = r])

\* The answer for a selection counts unless it was cancelled.
ConfigArrives(n) ==
    /\ Underway(n, "selection") /\ Answered(n)
    /\ IF fetches[n].cancelled
       THEN UNCHANGED <<cfg, timer>>
       ELSE cfg' = {fetches[n].for} /\ timer' = TRUE
    /\ UNCHANGED <<selected, listed, err, crossed>>

ConfigFails(n) ==
    /\ Underway(n, "selection") /\ Answered(n)
    /\ err' = (err \/ ~fetches[n].cancelled)
    /\ UNCHANGED <<selected, listed, cfg, timer, crossed>>

\* Five minutes before the config expires.
TimerFires ==
    /\ timer /\ timer' = FALSE /\ Len(fetches) < MaxFetches
    /\ fetches' = Append(fetches, Fetch(selected, "timer"))
    /\ UNCHANGED <<selected, listed, cfg, err, crossed>>

\* A refresh is shown whatever is selected by now.
RefreshArrives(n) ==
    /\ Underway(n, "timer") /\ Answered(n)
    /\ cfg' = {fetches[n].for} /\ timer' = TRUE
    /\ UNCHANGED <<selected, listed, err, crossed>>

\* It is logged; no timer is set again.
RefreshFails(n) ==
    /\ Underway(n, "timer") /\ Answered(n)
    /\ UNCHANGED <<selected, listed, cfg, err, timer, crossed>>

Next ==
    \/ \E r \in Reports : ChooseReport(r)
    \/ SwitchIdentity \/ ListArrives \/ TimerFires
    \/ \E n \in DOMAIN fetches :
          ConfigArrives(n) \/ ConfigFails(n) \/ RefreshArrives(n) \/ RefreshFails(n)

Spec == Init /\ [][Next]_vars

-----------------------------------------------------------------------------
(* Properties *)

Fetches == [for : Selections, by : {"selection", "timer"}, waiting : BOOLEAN, cancelled : BOOLEAN]

\* Type invariant; a timer runs only beside a config.
EmbedTypeOK ==
    /\ selected \in Selections /\ {listed, err, timer, crossed} \subseteq BOOLEAN
    /\ cfg \in {{}} \cup {{s} : s \in Selections}
    /\ timer => cfg # {}
    /\ Len(fetches) \in 1..MaxFetches
    /\ \A n \in DOMAIN fetches : fetches[n] \in Fetches

\* The report on screen, and the identity its rows are filtered for, are those
\* the toolbar shows, however late the answers of earlier selections come, when
\* no refresh was under way at the last change (lines 163-191).
EmbedMatchesSelection == crossed \/ cfg \subseteq {selected}
=============================================================================
