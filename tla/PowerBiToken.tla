---------------------------- MODULE PowerBiToken ----------------------------
(***************************************************************************)
(* How the portal backend makes Power BI embed tokens                      *)
(* (portal/scripts/portal-backend.py 739-952).  All requests share one     *)
(* token of the service principal, kept in memory and renewed behind an    *)
(* asyncio.Lock that is held over the call to Entra.  A step is what a     *)
(* handler does between two awaits.                                        *)
(*                                                                         *)
(* Time is in units of fifteen seconds or so; a call to Entra or Power BI  *)
(* takes less than CallTime (httpx gives up on it).                        *)
(***************************************************************************)
EXTENDS Integers, Sequences, SequencesExt

CONSTANTS
    Requests,    \* bound: requests for a report list or an embed token
    Listing,     \* those that list the reports: one call less
    Lifetime,    \* expires_in of the service principal's token
    Margin,      \* the sixty seconds of _pbi_sp_token
    CallTime,
    MaxClock      \* bound

TokenAssumption ==
    /\ Listing \subseteq Requests
    /\ {Lifetime, Margin, CallTime, MaxClock} \subseteq Nat
    /\ CallTime < Margin /\ Margin < Lifetime

VARIABLES
    clock,
    cachedUntil,   \* _pbi_token_cache["sp"]: its expiry, 0 when there is none
    lock,          \* _pbi_token_lock: the requests that hold or await it, in order
    request,       \* the handlers
    issued         \* history: when Entra's tokens arrived

vars == <<clock, cachedUntil, lock, request, issued>>

-----------------------------------------------------------------------------
At(pc, until) == [at |-> pc, until |-> until, since |-> clock]

Init ==
    /\ clock = 0 /\ cachedUntil = 0 /\ lock = <<>> /\ issued = <<>>
    /\ request = [r \in Requests |-> At("unsent", 0)]

\* Mutant: a token counts until the second it expires.
BugUsable == cachedUntil > clock

\* cached and cached[1] > time.time() + 60
Usable == cachedUntil > clock + Margin

Calling(r) == request[r].at \in {"token", "report", "mint"}

Tick ==
    /\ clock < MaxClock
    /\ \A r \in Requests : Calling(r) => clock - request[r].since < CallTime
    /\ clock' = clock + 1
    /\ UNCHANGED <<cachedUntil, lock, request, issued>>

\* The handler starts.  A token in the cache is taken without the lock; a lock
\* nobody has or awaits is taken at once, and the second check fails as the
\* first did, so the token call goes out.
Ask(r) ==
    /\ request[r].at = "unsent"
    /\ IF Usable
       THEN request' = [request EXCEPT ![r] = At("report", cachedUntil)] /\ UNCHANGED lock
       ELSE /\ request' = [request EXCEPT ![r] = At(IF lock = <<>> THEN "token" ELSE "wait", 0)]
            /\ lock' = Append(lock, r)
    /\ UNCHANGED <<clock, cachedUntil, issued>>

\* Mutant: no check inside the lock.
BugGetLock(r) ==
    /\ request[r].at = "wait" /\ Head(lock) = r
    /\ request' = [request EXCEPT ![r] = At("token", 0)]
    /\ UNCHANGED <<clock, lock, cachedUntil, issued>>

\* The lock comes round: the check is made again, and only without a usable
\* token is another call made.
GetLock(r) ==
    /\ request[r].at = "wait" /\ Head(lock) = r
    /\ IF Usable
       THEN request' = [request EXCEPT ![r] = At("report", cachedUntil)] /\ lock' = Tail(lock)
       ELSE request' = [request EXCEPT ![r] = At("token", 0)] /\ UNCHANGED lock
    /\ UNCHANGED <<clock, cachedUntil, issued>>

TokenArrives(r) ==
    /\ request[r].at = "token"
    /\ cachedUntil' = clock + Lifetime
    /\ issued' = Append(issued, clock)
    /\ request' = [request EXCEPT ![r] = At("report", clock + Lifetime)]
    /\ lock' = Tail(lock)
    /\ UNCHANGED clock

\* Missing credentials, an answer other than 200, a timeout: this request ends,
\* the next one in the queue tries again.
TokenFails(r) ==
    /\ request[r].at = "token"
    /\ request' = [request EXCEPT ![r] = At("failed", 0)]
    /\ lock' = Tail(lock)
    /\ UNCHANGED <<clock, cachedUntil, issued>>

\* _pbi_get: the list of reports, or one report; a report then needs the embed
\* token, unless it lacks its dataset or address (CallFails).
ReportArrives(r) ==
    /\ request[r].at = "report"
    /\ request' = [request EXCEPT ![r] =
           At(IF r \in Listing THEN "done" ELSE "mint", request[r].until)]
    /\ UNCHANGED <<clock, cachedUntil, lock, issued>>

\* _pbi_post of /GenerateToken
MintArrives(r) ==
    /\ request[r].at = "mint"
    /\ request' = [request EXCEPT ![r] = At("done", request[r].until)]
    /\ UNCHANGED <<clock, cachedUntil, lock, issued>>

CallFails(r) ==
    /\ request[r].at \in {"report", "mint"}
    /\ request' = [request EXCEPT ![r] = At("failed", request[r].until)]
    /\ UNCHANGED <<clock, cachedUntil, lock, issued>>

Next ==
    \/ Tick
    \/ \E r \in Requests :
          \/ Ask(r) \/ GetLock(r) \/ TokenArrives(r) \/ TokenFails(r)
          \/ ReportArrives(r) \/ MintArrives(r) \/ CallFails(r)

Spec == Init /\ [][Next]_vars

-----------------------------------------------------------------------------
(* Properties *)

Handlers == [at : {"unsent", "wait", "token", "report", "mint", "done", "failed"},
             until : Nat, since : Nat]

\* Type invariant: who is in the queue, and that its head alone makes a call.
TokenTypeOK ==
    /\ clock \in 0..MaxClock /\ cachedUntil \in Nat
    /\ request \in [Requests -> Handlers]
    /\ lock \in Seq(Requests) /\ issued \in Seq(0..clock)
    /\ IsInjective(lock) /\ ToSet(lock) = {r \in Requests : request[r].at \in {"wait", "token"}}
    /\ \A r \in Requests : request[r].at = "token" => r = Head(lock)

\* However many requests come at once, tokens of the service principal are
\* fetched one per lifetime, short of the margin: "Lock voorkomt dat 10
\* parallelle embed-mints tegelijk een SP-token POSTen" (line 761).
TokensAreShared ==
    \A i, j \in DOMAIN issued : i < j => issued[j] - issued[i] >= Lifetime - Margin

\* A call to Power BI goes out with a token that is still good, also the last
\* one of a request that waited for the lock and for the report in between.
TokensOutliveTheirUse ==
    \A r \in Requests : request[r].at \in {"report", "mint"} =>
        request[r].until > request[r].since
=============================================================================
