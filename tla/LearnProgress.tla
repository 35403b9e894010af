---------------------------- MODULE LearnProgress ----------------------------
(***************************************************************************)
(* Progress of one user in the Academy: portal/src/scripts/               *)
(* learn-progress.ts in the user's browsers, the pages that use it, and    *)
(* portal/scripts/learn-backend.py, which keeps it in an attribute of the  *)
(* user in Keycloak.  A browser has one page open; every page pulls the    *)
(* remote map when it loads, and every change pushes the whole local map.  *)
(* The backend's handlers block its event loop, so one runs at a time;     *)
(* other writers of the user's attributes do not wait for it.              *)
(***************************************************************************)
EXTENDS Integers

CONSTANTS
    Keys,          \* modules, as role/level/order
    Browsers,
    MaxCalls,      \* bound: calls to the backend
    MaxEdits       \* bound: edits of other attributes by an administrator

LearnAssumption ==
    /\ MaxCalls \in Nat /\ MaxEdits \in Nat
    /\ {"none", "overview"} \cap Keys = {}     \* role/level/order

Statuses == {"none", "in-progress", "done"}

VARIABLES
    local,       \* the page's cache and localStorage, which are written together
    page,        \* the open page: "none", "overview" or a module
    sync,        \* syncAvailable of the page
    sent,        \* calls to the backend that are under way
    made,        \* how many were made
    progress,    \* the attribute udp_progress
    other,       \* the user's other attributes: how often they were edited
    held,        \* what a PUT read: empty, or the other attributes
    earned,      \* history: modules whose quiz or checks were passed
    disturbed    \* history: someone did not wait, or something failed

vars == <<local, page, sync, sent, made, progress, other, held, earned, disturbed>>
pages == <<local, page, sync>>
history == <<earned, disturbed>>
backend == <<progress, other, held>>

-----------------------------------------------------------------------------
Nothing == [k \in Keys |-> "none"]

Init ==
    /\ local = [b \in Browsers |-> Nothing]
    /\ page = [b \in Browsers |-> "none"]
    /\ sync = [b \in Browsers |-> "unknown"]
    /\ sent = {} /\ made = 0 /\ progress = Nothing
    /\ other = 0 /\ held = {} /\ earned = {} /\ disturbed = FALSE

Get(b) == [from |-> b, kind |-> "get", map |-> Nothing]
Put(b, m) == [from |-> b, kind |-> "put", map |-> m]

Call(n, c) == [id |-> n, at |-> "sent", heard |-> TRUE,
               from |-> c.from, kind |-> c.kind, map |-> c.map]

Quiet == sent = {}

\* The page is gone or gave up: a PUT that was sent may still be carried out.
Disown(S) == {c \in sent : c \notin S} \cup
    {[c EXCEPT !.heard = FALSE] : c \in {d \in S : d.kind = "put" /\ d.at # "served"}}

Leave(b) == Disown({c \in sent : c.from = b})

\* One call, or the two of a page load.
Send(old, c) ==
    /\ made < MaxCalls /\ made' = made + 1
    /\ sent' = old \cup {Call(made + 1, c)}

SendBoth(old, c, d) ==
    /\ made + 1 < MaxCalls /\ made' = made + 2
    /\ sent' = old \cup {Call(made + 1, c), Call(made + 2, d)}

Replace(c, d) == sent' = (sent \ {c}) \cup {d}

\* The user has two pages open, goes on before the answers are in, or opens a
\* module in a browser that has not pulled what is done.
Disturb(b, k) == disturbed' =
    \/ disturbed \/ ~Quiet \/ \E c \in Browsers \ {b} : page[c] # "none"
    \/ k \in Keys /\ \E d \in Keys : progress[d] = "done" /\ local[b][d] # "done"

-----------------------------------------------------------------------------
(* The pages *)

\* /learn, /learn/<role> and /learn/me: bootstrap.
LoadOverview(b) ==
    /\ page' = [page EXCEPT ![b] = "overview"]
    /\ sync' = [sync EXCEPT ![b] = "unknown"]
    /\ Send(Leave(b), Get(b))
    /\ Disturb(b, "overview")
    /\ UNCHANGED <<local, backend, earned>>

\* A first visit marks the module.
Visited(b, k) == IF local[b][k] = "none" THEN [local[b] EXCEPT ![k] = "in-progress"] ELSE local[b]

\* A module page: bootstrap, and the mark before the pull is answered.
LoadModule(b, k) ==
    /\ page' = [page EXCEPT ![b] = k]
    /\ sync' = [sync EXCEPT ![b] = "unknown"]
    /\ local' = [local EXCEPT ![b] = Visited(b, k)]
    /\ IF Visited(b, k) = local[b]
       THEN Send(Leave(b), Get(b))
       ELSE SendBoth(Leave(b), Get(b), Put(b, Visited(b, k)))
    /\ Disturb(b, k)
    /\ UNCHANGED <<backend, earned>>

\* setProgress and trySync: nothing is sent once the page found no backend.
SetLocal(b, m) ==
    /\ local' = [local EXCEPT ![b] = m]
    /\ IF sync[b] = "no" THEN UNCHANGED <<sent, made>> ELSE Send(sent, Put(b, m))

\* Every answer of the quiz is right, or every check of the module says ok.
Finish(b) ==
    /\ page[b] \in Keys
    /\ SetLocal(b, [local[b] EXCEPT ![page[b]] = "done"])
    /\ earned' = earned \cup {page[b]}
    /\ disturbed' = (disturbed \/ ~Quiet \/ sync[b] = "no")
    /\ UNCHANGED <<page, sync, backend>>

\* "Mijn voortgang wissen" on /learn/me.
Reset(b) ==
    /\ page[b] = "overview"
    /\ SetLocal(b, Nothing)
    /\ disturbed' = TRUE
    /\ UNCHANGED <<page, sync, backend, earned>>

CloseBrowser(b) ==
    /\ page[b] # "none" /\ page' = [page EXCEPT ![b] = "none"]
    /\ sent' = Leave(b)
    /\ disturbed' = (disturbed \/ ~Quiet)
    /\ UNCHANGED <<local, sync, made, backend, earned>>

\* The pull is answered: the remote map takes the place of the local one.
Pulled(c) ==
    /\ c.kind = "get" /\ c.at = "served"
    /\ local' = [local EXCEPT ![c.from] = c.map]
    /\ sync' = [sync EXCEPT ![c.from] = "yes"]
    /\ sent' = sent \ {c}
    /\ UNCHANGED <<page, made, backend, history>>

Pushed(c) ==
    /\ c.kind = "put" /\ c.at = "served"
    /\ sync' = [sync EXCEPT ![c.from] = "yes"]
    /\ sent' = sent \ {c}
    /\ UNCHANGED <<local, page, made, backend, history>>

\* No answer, or an error: the page does not try again.
CallFails(c) ==
    /\ c.heard
    /\ sent' = Disown({c})
    /\ sync' = [sync EXCEPT ![c.from] = "no"]
    /\ disturbed' = TRUE
    /\ UNCHANGED <<local, page, made, backend, earned>>

-----------------------------------------------------------------------------
(* The backend *)

Arrived(c, kind) == c.at = "sent" /\ c.kind = kind /\ held = {}

\* As GetProgress, the stored map is never readable.
BugGetProgress(c) ==
    /\ Arrived(c, "get")
    /\ Replace(c, [c EXCEPT !.at = "served", !.map = Nothing])
    /\ UNCHANGED <<pages, made, backend, history>>

\* get_progress: an attribute that is missing or unreadable is an empty map.
GetProgress(c) ==
    /\ Arrived(c, "get")
    /\ Replace(c, [c EXCEPT !.at = "served", !.map = progress])
    /\ UNCHANGED <<pages, made, backend, history>>

\* put_progress looks up the user with all attributes ...
PutLooksUp(c) ==
    /\ Arrived(c, "put")
    /\ Replace(c, [c EXCEPT !.at = "writing"])
    /\ held' = {other}
    /\ UNCHANGED <<pages, made, progress, other, history>>

\* ... and puts all of them back, its own replaced.  Every key the pages use
\* passes the filter.
PutWrites(c) ==
    /\ c.at = "writing"
    /\ progress' = c.map
    /\ other' \in held /\ held' = {}
    /\ IF c.heard THEN Replace(c, [c EXCEPT !.at = "served"]) ELSE sent' = sent \ {c}
    /\ UNCHANGED <<pages, made, history>>

\* An administrator, or a login, changes another attribute of the user; before
\* a PUT reads them or after it has written, the PUT does not matter to that.
EditOther ==
    /\ held # {} /\ other < MaxEdits /\ other' = other + 1
    /\ UNCHANGED <<pages, sent, made, progress, held, history>>

Next ==
    \/ \E b \in Browsers :
          \/ LoadOverview(b) \/ Finish(b) \/ Reset(b) \/ CloseBrowser(b)
          \/ \E k \in Keys : LoadModule(b, k)
    \/ \E c \in sent :
          Pulled(c) \/ Pushed(c) \/ CallFails(c) \/ GetProgress(c) \/ PutLooksUp(c) \/ PutWrites(c)
    \/ EditOther

Spec == Init /\ [][Next]_vars

-----------------------------------------------------------------------------
(* Properties *)

Maps == [Keys -> Statuses]

\* Type invariant; a PUT that is writing holds the event loop.
LearnTypeOK ==
    /\ local \in [Browsers -> Maps] /\ progress \in Maps
    /\ page \in [Browsers -> {"none", "overview"} \cup Keys]
    /\ sync \in [Browsers -> {"unknown", "yes", "no"}]
    /\ made \in 0..MaxCalls
    /\ sent \subseteq [id : 1..made, from : Browsers, kind : {"get", "put"}, map : Maps,
                       at : {"sent", "writing", "served"}, heard : BOOLEAN]
    /\ \A c, d \in sent : c.id = d.id => c = d
    /\ other \in 0..MaxEdits /\ held \in {{}} \cup {{o} : o \in 0..MaxEdits}
    /\ held # {} <=> \E c \in sent : c.at = "writing"
    /\ earned \subseteq Keys /\ disturbed \in BOOLEAN

\* A user with one page open, whose calls are answered, who waits for them and
\* in a new browser opens the overview first, keeps every finished module at
\* the backend, although each page load races a pull with a push of the whole
\* map (learn-progress.ts:26-102).
FinishedStaysFinished ==
    ~disturbed /\ Quiet => \A k \in earned :
        /\ progress[k] = "done"
        /\ \A b \in Browsers : page[b] # "none" => local[b][k] = "done"
=============================================================================
