---------------------------- MODULE PortalProofs --------------------------
(***************************************************************************)
(* The parts of Services that belong to the portal: for each, an inductive *)
(* invariant, a lemma per action, and the theorem that Services keeps the  *)
(* property, for every value of the constants.                             *)
(***************************************************************************)
EXTENDS Services, FiniteSetTheorems, SequenceTheorems, TLAPS

\* The variables of Services by the names they have in the part's own module.
now == v1
recents == v2
favorites == v3
posts == v4
opened == v5

open == v1
query == v2
shown == v3
current == v4
calls == v5
cache == v6

clock == v1
cachedUntil == v2
lock == v3
request == v4
issued == v5

selected == v1
listed == v2
cfg == v3
err == v4
timer == v5
fetches == v6
crossed == v7

history == v1
published == v2
stream == v3
bellShown == v4
ever == v5
missed == v6
uneven == v7

local == v1
page == v2
sync == v3
sent == v4
made == v5
progress == v6
other == v7
held == v8
earned == v9
disturbed == v10

USE DEF now, recents, favorites, posts, opened, open, query, shown, current, calls,
        cache, clock, cachedUntil, lock, request, issued, selected, listed, cfg, err,
        timer, fetches, crossed, history, published, stream, bellShown, ever, missed,
        uneven, local, page, sync, sent, made, progress, other, held, earned, disturbed

-----------------------------------------------------------------------------
\* Services starts as the part it is about starts.
LEMMA PortalStarts ==
    Init => /\ part = "store" => Store!Init
            /\ part = "palette" => Palette!Init
            /\ part = "token" => Token!Init
            /\ part = "embed" => Embed!Init
            /\ part = "bell" => Bell!Init
            /\ part = "learn" => Learn!Init
  BY DEF Init

\* A step of Services is a step of the part it is about, or changes nothing there.
LEMMA PortalSteps ==
    [Next]_vars => /\ part' = part
                   /\ part = "store" => [Store!Next]_(Store!vars)
                   /\ part = "palette" => [Palette!Next]_(Palette!vars)
                   /\ part = "token" => [Token!Next]_(Token!vars)
                   /\ part = "embed" => [Embed!Next]_(Embed!vars)
                   /\ part = "bell" => [Bell!Next]_(Bell!vars)
                   /\ part = "learn" => [Learn!Next]_(Learn!vars)
  <1>0. Next => part' = part
    BY DEF Next
  <1>1. part = "store" /\ [Next]_vars => [Store!Next]_(Store!vars)
    BY DEF Next, vars, Store!vars
  <1>2. part = "palette" /\ [Next]_vars => [Palette!Next]_(Palette!vars)
    BY DEF Next, vars, Palette!vars
  <1>3. part = "token" /\ [Next]_vars => [Token!Next]_(Token!vars)
    BY DEF Next, vars, Token!vars
  <1>4. part = "embed" /\ [Next]_vars => [Embed!Next]_(Embed!vars)
    BY DEF Next, vars, Embed!vars
  <1>5. part = "bell" /\ [Next]_vars => [Bell!Next]_(Bell!vars)
    BY DEF Next, vars, Bell!vars
  <1>6. part = "learn" /\ [Next]_vars => [Learn!Next]_(Learn!vars)
    BY DEF Next, vars, Learn!vars
  <1>. QED
    BY <1>0, <1>1, <1>2, <1>3, <1>4, <1>5, <1>6 DEF vars
\* Types.
TokenTypes ==
    /\ clock \in Nat /\ cachedUntil \in Nat
    /\ request \in [Requests -> Token!Handlers]
    /\ issued \in Seq(Nat)

\* A call that is out is younger than the time httpx gives it.
CallsAreShort ==
    \A r \in Requests :
        /\ request[r].since <= clock
        /\ Token!Calling(r) => clock - request[r].since <= CallTime

\* The token a handler took is good for the margin, and, a call later, still good.
TokensAreGood ==
    \A r \in Requests :
        /\ request[r].at = "report" => request[r].until > request[r].since + Margin
        /\ request[r].at = "mint" => request[r].until > request[r].since

\* Inductive: every token a handler uses is still good.
UseInv == TokenTypes /\ CallsAreShort /\ TokensAreGood

\* Who waits for the lock or has it is in its queue.
InQueue ==
    /\ lock \in Seq(Requests)
    /\ \A r \in Requests : request[r].at \in {"wait", "token"} =>
           \E i \in 1..Len(lock) : lock[i] = r

\* Only the head of the queue calls Entra, and the cached token is as good as over.
HeadCalls ==
    \A r \in Requests : request[r].at = "token" =>
        r = lock[1] /\ cachedUntil <= clock + Margin

\* The cached token is the last one issued.
CacheHoldsLast ==
    \A i \in DOMAIN issued : issued[i] + Lifetime <= cachedUntil

\* Inductive: a token is issued when the one before it is as good as over.
SharedInv == TokenTypes /\ InQueue /\ HeadCalls /\ CacheHoldsLast /\ Token!TokensAreShared

-----------------------------------------------------------------------------
\* Before the first request nobody calls, waits or holds a token.
LEMMA TokenInit == Token!TokenAssumption /\ Token!Init => UseInv /\ SharedInv
  <1>. SUFFICES ASSUME Token!TokenAssumption, Token!Init PROVE UseInv /\ SharedInv
    OBVIOUS
  <1>1. \A r \in Requests : request[r] = [at |-> "unsent", until |-> 0, since |-> 0]
    BY DEF Token!Init, Token!At
  <1>2. <<>> \in Seq(Requests) /\ <<>> \in Seq(Nat) /\ Len(<<>>) = 0
    BY EmptySeq
  <1>3. DOMAIN issued = {}
    BY <1>2, LenProperties DEF Token!Init
  <1>4. TokenTypes
    BY <1>2 DEF TokenTypes, Token!Init, Token!At, Token!Handlers
  <1>5. CallsAreShort /\ TokensAreGood /\ HeadCalls /\ InQueue
    BY <1>1, <1>2 DEF CallsAreShort, TokensAreGood, HeadCalls, InQueue, Token!Calling,
       Token!Init
  <1>6. CacheHoldsLast /\ Token!TokensAreShared
    BY <1>3 DEF CacheHoldsLast, Token!TokensAreShared
  <1>. QED
    BY <1>4, <1>5, <1>6 DEF UseInv, SharedInv

\* One handler moves on.
Moves(r, pc, until) == request' = [request EXCEPT ![r] = Token!At(pc, until)]

\* Where a handler can move to in a step, and with which token.
LEMMA HandlerMoves ==
    ASSUME Token!TokenAssumption, TokenTypes, NEW r \in Requests,
           \/ Token!Ask(r) \/ Token!GetLock(r)
           \/ Token!TokenArrives(r) \/ Token!TokenFails(r)
           \/ Token!ReportArrives(r) \/ Token!MintArrives(r) \/ Token!CallFails(r)
    PROVE  /\ UNCHANGED clock
           /\ \/ Moves(r, "wait", 0) \/ Moves(r, "token", 0) \/ Moves(r, "failed", 0)
              \/ Moves(r, "report", cachedUntil) /\ cachedUntil > clock + Margin
              \/ Moves(r, "report", clock + Lifetime)
              \/ Moves(r, "mint", request[r].until) /\ request[r].at = "report"
              \/ Moves(r, "done", request[r].until) \/ Moves(r, "failed", request[r].until)
  <1>1. CASE Token!Ask(r)
    <2>1. CASE Token!Usable
      BY <1>1, <2>1 DEF Token!Ask, Moves, Token!Usable
    <2>2. CASE ~Token!Usable /\ lock = <<>>
      BY <1>1, <2>2 DEF Token!Ask, Moves
    <2>3. CASE ~Token!Usable /\ lock # <<>>
      BY <1>1, <2>3 DEF Token!Ask, Moves
    <2>. QED
      BY <2>1, <2>2, <2>3
  <1>2. CASE Token!GetLock(r)
    <2>1. CASE Token!Usable
      BY <1>2, <2>1 DEF Token!GetLock, Moves, Token!Usable
    <2>2. CASE ~Token!Usable
      BY <1>2, <2>2 DEF Token!GetLock, Moves
    <2>. QED
      BY <2>1, <2>2
  <1>3. CASE Token!TokenArrives(r) \/ Token!TokenFails(r)
    BY <1>3 DEF Token!TokenArrives, Token!TokenFails, Moves
  <1>4. CASE Token!ReportArrives(r)
    <2>1. CASE r \in Listing
      BY <1>4, <2>1 DEF Token!ReportArrives, Moves
    <2>2. CASE r \notin Listing
      BY <1>4, <2>2 DEF Token!ReportArrives, Moves
    <2>. QED
      BY <2>1, <2>2
  <1>5. CASE Token!MintArrives(r) \/ Token!CallFails(r)
    BY <1>5 DEF Token!MintArrives, Token!CallFails, Moves
  <1>. QED
    BY <1>1, <1>2, <1>3, <1>4, <1>5

\* A move changes one handler and keeps the types.
LEMMA MoveKeepsHandlers ==
    ASSUME TokenTypes, NEW r \in Requests, NEW until \in Nat,
           NEW pc \in {"unsent", "wait", "token", "report", "mint", "done", "failed"},
           Moves(r, pc, until)
    PROVE  /\ request' \in [Requests -> Token!Handlers]
           /\ request'[r] = [at |-> pc, until |-> until, since |-> clock]
           /\ request'[r].at = pc
           /\ \A q \in Requests \ {r} : request'[q] = request[q]
  <1>. DEFINE h == [at |-> pc, until |-> until, since |-> clock]
  <1>1. h \in Token!Handlers
    BY DEF Token!Handlers, TokenTypes
  <1>2. request' = [request EXCEPT ![r] = h] /\ request \in [Requests -> Token!Handlers]
    BY DEF Moves, Token!At, TokenTypes
  <1>. HIDE DEF h
  <1>3. /\ request' \in [Requests -> Token!Handlers] /\ request'[r] = h
        /\ \A q \in Requests \ {r} : request'[q] = request[q]
    BY <1>1, <1>2
  <1>. QED
    BY <1>3 DEF h

\* What the numbers are.
LEMMA TokenNumbers ==
    ASSUME Token!TokenAssumption, TokenTypes
    PROVE  /\ Lifetime \in Nat /\ Margin \in Nat /\ CallTime \in Nat
           /\ CallTime < Margin /\ Margin < Lifetime
           /\ clock \in Nat /\ cachedUntil \in Nat
           /\ \A r \in Requests : request[r].until \in Nat /\ request[r].since \in Nat
  BY DEF Token!TokenAssumption, TokenTypes, Token!Handlers

\* Every step keeps the types.
LEMMA TokenTypesPreserved == ASSUME Token!TokenAssumption, TokenTypes,
   [Token!Next]_(Token!vars) PROVE TokenTypes'
  <1>1. CASE Token!Tick
    BY <1>1 DEF Token!Tick, TokenTypes
  <1>2. ASSUME NEW r \in Requests,
               \/ Token!Ask(r) \/ Token!GetLock(r)
               \/ Token!TokenArrives(r) \/ Token!TokenFails(r)
               \/ Token!ReportArrives(r) \/ Token!MintArrives(r) \/ Token!CallFails(r)
        PROVE  TokenTypes'
    <2>1. request' \in [Requests -> Token!Handlers] /\ clock' \in Nat
      <3>1. clock + Lifetime \in Nat /\ request[r].until \in Nat
        BY TokenNumbers
      <3>2. \E until \in Nat,
               pc \in {"unsent", "wait", "token", "report", "mint", "done", "failed"} :
                Moves(r, pc, until)
        BY <1>2, <3>1, HandlerMoves, TokenNumbers
      <3>3. UNCHANGED clock
        BY <1>2, HandlerMoves
      <3>. QED
        BY <3>2, <3>3, MoveKeepsHandlers, TokenNumbers
    <2>2. cachedUntil' \in Nat
      BY <1>2, TokenNumbers DEF Token!Ask, Token!GetLock, Token!TokenArrives,
         Token!TokenFails, Token!ReportArrives,
                           Token!MintArrives, Token!CallFails
    <2>3. issued' \in Seq(Nat)
      <3>1. issued \in Seq(Nat)
        BY DEF TokenTypes
      <3>2. Append(issued, clock) \in Seq(Nat)
        BY <3>1, TokenNumbers, AppendProperties
      <3>. QED
        BY <1>2, <3>1, <3>2 DEF Token!Ask, Token!GetLock, Token!TokenArrives,
           Token!TokenFails, Token!ReportArrives,
                                Token!MintArrives, Token!CallFails
    <2>. QED
      BY <2>1, <2>2, <2>3 DEF TokenTypes
  <1>3. CASE UNCHANGED Token!vars
    BY <1>3 DEF Token!vars, TokenTypes
  <1>. QED
    BY <1>1, <1>2, <1>3 DEF Token!Next

-----------------------------------------------------------------------------
\* A token good for the margin when it is taken is good when the first call ends.
LEMMA MovePreservesUse ==
    ASSUME Token!TokenAssumption, UseInv, TokenTypes', UNCHANGED clock,
           NEW r \in Requests, NEW until \in Nat,
           NEW pc \in {"unsent", "wait", "token", "report", "mint", "done", "failed"},
           Moves(r, pc, until),
           pc = "report" => until > clock + Margin,
           pc = "mint" => until > clock
    PROVE  UseInv'
  <1>1. TokenTypes
    BY DEF UseInv
  <1>2. request'[r] = [at |-> pc, until |-> until, since |-> clock]
    BY <1>1, MoveKeepsHandlers
  <1>3. \A q \in Requests \ {r} : request'[q] = request[q]
    BY <1>1, MoveKeepsHandlers
  <1>4. CallsAreShort'
    BY <1>1, <1>2, <1>3, TokenNumbers DEF UseInv, CallsAreShort, Token!Calling
  <1>5. TokensAreGood'
    BY <1>1, <1>2, <1>3, TokenNumbers DEF UseInv, TokensAreGood
  <1>. QED
    BY <1>4, <1>5 DEF UseInv

\* Every step keeps the tokens in use good.
LEMMA UsePreserved == ASSUME Token!TokenAssumption, UseInv,
   [Token!Next]_(Token!vars) PROVE UseInv'
  <1>1. TokenTypes /\ TokenTypes'
    BY TokenTypesPreserved DEF UseInv
  <1>2. CASE Token!Tick
    <2>1. clock' = clock + 1 /\ request' = request
      BY <1>2 DEF Token!Tick
    <2>2. CallsAreShort'
      BY <1>1, <1>2, <2>1, TokenNumbers DEF UseInv, CallsAreShort, Token!Calling,
         Token!Tick
    <2>3. TokensAreGood'
      BY <2>1 DEF UseInv, TokensAreGood
    <2>. QED
      BY <1>1, <2>2, <2>3 DEF UseInv
  <1>3. ASSUME NEW r \in Requests,
               \/ Token!Ask(r) \/ Token!GetLock(r)
               \/ Token!TokenArrives(r) \/ Token!TokenFails(r)
               \/ Token!ReportArrives(r) \/ Token!MintArrives(r) \/ Token!CallFails(r)
        PROVE  UseInv'
    <2>1. UNCHANGED clock /\ clock + Lifetime > clock + Margin /\ clock + Lifetime \in Nat
          /\ cachedUntil \in Nat /\ request[r].until \in Nat
      BY <1>1, <1>3, HandlerMoves, TokenNumbers
    <2>2. CASE Moves(r, "wait", 0) \/ Moves(r, "token", 0) \/ Moves(r, "failed", 0)
      BY <1>1, <2>1, <2>2, MovePreservesUse
    <2>3. CASE Moves(r, "report", cachedUntil) /\ cachedUntil > clock + Margin
      BY <1>1, <2>1, <2>3, MovePreservesUse
    <2>4. CASE Moves(r, "report", clock + Lifetime)
      BY <1>1, <2>1, <2>4, MovePreservesUse
    <2>5. CASE Moves(r, "mint", request[r].until) /\ request[r].at = "report"
      <3>1. clock - request[r].since <= CallTime
        BY <2>5 DEF UseInv, CallsAreShort, Token!Calling
      <3>2. request[r].until > request[r].since + Margin
        BY <2>5 DEF UseInv, TokensAreGood
      <3>3. request[r].until > clock
        BY <1>1, <3>1, <3>2, TokenNumbers
      <3>. QED
        BY <1>1, <2>1, <2>5, <3>3, MovePreservesUse
    <2>6. CASE Moves(r, "done", request[r].until) \/ Moves(r, "failed", request[r].until)
      BY <1>1, <2>1, <2>6, MovePreservesUse
    <2>. QED
      BY <1>1, <1>3, <2>2, <2>3, <2>4, <2>5, <2>6, HandlerMoves
  <1>4. CASE UNCHANGED Token!vars
    BY <1>1, <1>4 DEF Token!vars, UseInv, CallsAreShort, TokensAreGood, Token!Calling
  <1>. QED
    BY <1>2, <1>3, <1>4 DEF Token!Next

\* A call to Power BI goes out with a token that is still good: what is left of
\* it when the handler takes it outlasts every call made before that one.
THEOREM TokensAreUsedInTime == Spec => []TokensOutliveTheirUse
  <1>. DEFINE Inv == part = "token" => UseInv
  <1>1. Init => Inv
    BY PortalStarts, TokenInit, ServicesAssumption
  <1>2. Inv /\ [Next]_vars => Inv'
    BY PortalSteps, UsePreserved, ServicesAssumption
  <1>3. Inv => TokensOutliveTheirUse
    <2>. SUFFICES ASSUME UseInv, NEW r \in Requests, request[r].at \in {"report", "mint"}
                  PROVE  request[r].until > request[r].since
      BY DEF TokensOutliveTheirUse, Token!TokensOutliveTheirUse
    <2>1. request[r].until \in Nat /\ request[r].since \in Nat /\ Margin \in Nat
      BY ServicesAssumption DEF UseInv, TokenTypes, Token!Handlers, Token!TokenAssumption
    <2>. QED
      BY <2>1 DEF UseInv, TokensAreGood
  <1>. QED
    BY <1>1, <1>2, <1>3, PTL DEF Spec

-----------------------------------------------------------------------------
\* A request joins the queue at its end.
LEMMA JoinKeepsQueue ==
    ASSUME InQueue, NEW r \in Requests, lock' = Append(lock, r),
           \A q \in Requests \ {r} : request'[q].at = request[q].at
    PROVE  InQueue' /\ (lock # <<>> => lock'[1] = lock[1]) /\ (lock = <<>> => lock'[1] = r)
  <1>1. lock \in Seq(Requests) /\ Len(lock) \in Nat
    BY LenProperties DEF InQueue
  <1>2. /\ lock' \in Seq(Requests) /\ Len(lock') = Len(lock) + 1
        /\ \A i \in 1..Len(lock) : lock'[i] = lock[i]
        /\ lock'[Len(lock) + 1] = r
    BY <1>1, AppendProperties
  <1>3. (lock # <<>> => 1 \in 1..Len(lock)) /\ (lock = <<>> => Len(lock) = 0)
    BY <1>1, EmptySeq
  <1>4. ASSUME NEW q \in Requests, request'[q].at \in {"wait", "token"}
        PROVE  \E i \in 1..Len(lock') : lock'[i] = q
    <2>1. CASE q = r
      <3>1. Len(lock) + 1 \in 1..Len(lock')
        BY <1>1, <1>2
      <3>. QED
        BY <1>2, <2>1, <3>1
    <2>2. CASE q # r
      <3>1. PICK i \in 1..Len(lock) : lock[i] = q
        BY <1>4, <2>2 DEF InQueue
      <3>. QED
        BY <1>1, <1>2, <3>1
    <2>. QED
      BY <2>1, <2>2
  <1>5. InQueue'
    BY <1>2, <1>4 DEF InQueue
  <1>. QED
    BY <1>1, <1>2, <1>3, <1>5

\* The head of the queue leaves it.
LEMMA LeaveKeepsQueue ==
    ASSUME InQueue, NEW r \in Requests, lock # <<>>, r = lock[1], lock' = Tail(lock),
           request'[r].at \notin {"wait", "token"},
           \A q \in Requests \ {r} : request'[q].at = request[q].at
    PROVE  InQueue'
  <1>1. lock \in Seq(Requests) /\ Len(lock) \in Nat
    BY LenProperties DEF InQueue
  <1>2. /\ lock' \in Seq(Requests) /\ Len(lock') = Len(lock) - 1
        /\ \A i \in 1..Len(lock') : lock'[i] = lock[i + 1]
    BY <1>1, HeadTailProperties
  <1>3. ASSUME NEW q \in Requests, request'[q].at \in {"wait", "token"}
        PROVE  \E i \in 1..Len(lock') : lock'[i] = q
    <2>1. q # r /\ request[q].at \in {"wait", "token"}
      BY <1>3
    <2>2. PICK i \in 1..Len(lock) : lock[i] = q
      BY <2>1 DEF InQueue
    <2>3. i # 1
      BY <2>1, <2>2
    <2>4. i - 1 \in 1..Len(lock') /\ lock'[i - 1] = lock[i]
      BY <1>1, <1>2, <2>3
    <2>. QED
      BY <2>2, <2>4
  <1>. QED
    BY <1>2, <1>3 DEF InQueue

\* Who is in the queue finds it non-empty.
LEMMA QueueOfSome ==
    ASSUME InQueue, NEW r \in Requests, request[r].at \in {"wait", "token"}
    PROVE  lock # <<>> /\ Head(lock) = lock[1]
  <1>1. PICK i \in 1..Len(lock) : lock[i] = r
    BY DEF InQueue
  <1>2. lock \in Seq(Requests) /\ Len(lock) \in Nat /\ Len(<<>>) = 0
    BY LenProperties, EmptySeq DEF InQueue
  <1>. QED
    BY <1>1, <1>2

\* A new token comes when the last one is as good as over.
LEMMA ArrivalPreserves ==
    ASSUME Token!TokenAssumption, SharedInv, NEW r \in Requests, Token!TokenArrives(r),
           TokenTypes'
    PROVE  SharedInv'
  <1>1. TokenTypes /\ InQueue /\ HeadCalls /\ CacheHoldsLast /\ Token!TokensAreShared
    BY DEF SharedInv
  <1>2. /\ request[r].at = "token" /\ r = lock[1] /\ cachedUntil <= clock + Margin
        /\ lock # <<>> /\ UNCHANGED clock
        /\ cachedUntil' = clock + Lifetime /\ lock' = Tail(lock)
        /\ issued' = Append(issued, clock) /\ Moves(r, "report", clock + Lifetime)
    BY <1>1, QueueOfSome DEF Token!TokenArrives, HeadCalls, Moves
  <1>3. /\ request'[r].at = "report"
        /\ \A q \in Requests \ {r} : request'[q] = request[q]
    <2>1. clock + Lifetime \in Nat
      BY <1>1, TokenNumbers
    <2>. QED
      BY <1>1, <1>2, <2>1, MoveKeepsHandlers
  <1>4. InQueue'
    BY <1>1, <1>2, <1>3, LeaveKeepsQueue
  <1>5. HeadCalls'
    <2>. SUFFICES ASSUME NEW q \in Requests, request'[q].at = "token" PROVE FALSE
      BY DEF HeadCalls
    <2>1. q # r /\ request[q].at = "token"
      BY <1>3
    <2>. QED
      BY <1>1, <1>2, <2>1 DEF HeadCalls
  <1>6. /\ Len(issued) \in Nat /\ DOMAIN issued = 1..Len(issued)
        /\ DOMAIN issued' = 1..(Len(issued) + 1)
        /\ \A i \in 1..Len(issued) : issued'[i] = issued[i] /\ issued[i] \in Nat
        /\ issued'[Len(issued) + 1] = clock
    <2>1. issued \in Seq(Nat) /\ clock \in Nat
      BY <1>1 DEF TokenTypes
    <2>2. Len(issued) \in Nat /\ DOMAIN issued = 1..Len(issued)
      BY <2>1, LenProperties
    <2>3. /\ issued' \in Seq(Nat) /\ Len(issued') = Len(issued) + 1
          /\ \A i \in 1..Len(issued) : issued'[i] = issued[i]
          /\ issued'[Len(issued) + 1] = clock
      BY <1>2, <2>1, AppendProperties
    <2>4. DOMAIN issued' = 1..Len(issued')
      BY <2>3, LenProperties
    <2>5. \A i \in 1..Len(issued) : issued[i] \in Nat
      BY <2>1, ElementOfSeq
    <2>. QED
      BY <2>2, <2>3, <2>4, <2>5
  <1>7. CacheHoldsLast'
    <2>. SUFFICES ASSUME NEW i \in DOMAIN issued'
                  PROVE issued'[i] + Lifetime <= clock + Lifetime
      BY <1>2 DEF CacheHoldsLast
    <2>1. CASE i = Len(issued) + 1
      BY <1>1, <1>6, <2>1, TokenNumbers
    <2>2. CASE i \in 1..Len(issued)
      <3>1. issued[i] + Lifetime <= cachedUntil /\ issued[i] \in Nat
        BY <1>1, <1>6, <2>2 DEF CacheHoldsLast
      <3>. QED
        BY <1>1, <1>2, <1>6, <2>2, <3>1, TokenNumbers
    <2>. QED
      BY <1>6, <2>1, <2>2
  <1>8. Token!TokensAreShared'
    <2>. SUFFICES ASSUME NEW i \in DOMAIN issued', NEW j \in DOMAIN issued', i < j
                  PROVE  issued'[j] - issued'[i] >= Lifetime - Margin
      BY DEF Token!TokensAreShared
    <2>1. i \in 1..Len(issued)
      BY <1>6
    <2>2. CASE j \in 1..Len(issued)
      BY <1>1, <1>6, <2>1, <2>2 DEF Token!TokensAreShared
    <2>3. CASE j = Len(issued) + 1
      <3>1. issued[i] + Lifetime <= cachedUntil /\ issued[i] \in Nat
        BY <1>1, <1>6, <2>1 DEF CacheHoldsLast
      <3>. QED
        BY <1>1, <1>2, <1>6, <2>1, <2>3, <3>1, TokenNumbers
    <2>. QED
      BY <1>6, <2>2, <2>3
  <1>. QED
    BY <1>4, <1>5, <1>7, <1>8 DEF SharedInv

\* A token call starts only for the head of the queue, and only without a token
\* that is good for the margin.
LEMMA AskPreserves ==
    ASSUME Token!TokenAssumption, SharedInv, NEW r \in Requests, Token!Ask(r), TokenTypes'
    PROVE  SharedInv'
  <1>1. TokenTypes /\ InQueue /\ HeadCalls /\ CacheHoldsLast /\ Token!TokensAreShared
    BY DEF SharedInv
  <1>2. UNCHANGED <<clock, cachedUntil, issued>> /\ request[r].at = "unsent"
    BY DEF Token!Ask
  <1>3. CacheHoldsLast' /\ Token!TokensAreShared'
    BY <1>1, <1>2 DEF CacheHoldsLast, Token!TokensAreShared
  <1>4. CASE Token!Usable
    <2>1. Moves(r, "report", cachedUntil) /\ UNCHANGED lock
      BY <1>4 DEF Token!Ask, Moves
    <2>2. /\ request'[r].at = "report"
          /\ \A q \in Requests \ {r} : request'[q] = request[q]
      BY <1>1, <2>1, MoveKeepsHandlers, TokenNumbers
    <2>3. InQueue' /\ HeadCalls'
      BY <1>1, <1>2, <2>1, <2>2 DEF InQueue, HeadCalls
    <2>. QED
      BY <1>3, <2>3 DEF SharedInv
  <1>5. CASE ~Token!Usable
    <2>1. lock' = Append(lock, r) /\ cachedUntil <= clock + Margin
      BY <1>1, <1>5, TokenNumbers DEF Token!Ask, Token!Usable
    <2>2. PICK pc \in {"wait", "token"} :
              Moves(r, pc, 0) /\ (pc = "token" => lock = <<>>)
      <3>1. CASE lock = <<>>
        BY <1>5, <3>1 DEF Token!Ask, Moves
      <3>2. CASE lock # <<>>
        BY <1>5, <3>2 DEF Token!Ask, Moves
      <3>. QED
        BY <3>1, <3>2
    <2>3. /\ request'[r].at = pc
          /\ \A q \in Requests \ {r} : request'[q] = request[q]
      BY <1>1, <2>2, MoveKeepsHandlers
    <2>4. InQueue' /\ (lock # <<>> => lock'[1] = lock[1]) /\ (lock = <<>> => lock'[1] = r)
      BY <1>1, <2>1, <2>3, JoinKeepsQueue
    <2>5. ASSUME NEW q \in Requests, request'[q].at = "token"
          PROVE  q = lock'[1] /\ cachedUntil' <= clock' + Margin
      <3>1. CASE q = r
        BY <1>2, <2>1, <2>2, <2>3, <2>4, <2>5, <3>1
      <3>2. CASE q # r
        <4>1. request[q].at = "token"
          BY <2>3, <2>5, <3>2
        <4>2. lock # <<>> /\ q = lock[1]
          BY <1>1, <4>1, QueueOfSome DEF HeadCalls
        <4>. QED
          BY <1>2, <2>1, <2>4, <4>2
      <3>. QED
        BY <3>1, <3>2
    <2>. QED
      BY <1>3, <2>4, <2>5 DEF SharedInv, HeadCalls
  <1>. QED
    BY <1>4, <1>5

\* The next in the queue calls Entra only when nobody else does.
LEMMA GetLockPreserves ==
    ASSUME Token!TokenAssumption, SharedInv, NEW r \in Requests, Token!GetLock(r),
           TokenTypes'
    PROVE  SharedInv'
  <1>1. TokenTypes /\ InQueue /\ HeadCalls /\ CacheHoldsLast /\ Token!TokensAreShared
    BY DEF SharedInv
  <1>2. /\ UNCHANGED <<clock, cachedUntil, issued>>
        /\ request[r].at = "wait" /\ lock # <<>> /\ r = lock[1]
    BY <1>1, QueueOfSome DEF Token!GetLock
  <1>3. CacheHoldsLast' /\ Token!TokensAreShared'
    BY <1>1, <1>2 DEF CacheHoldsLast, Token!TokensAreShared
  <1>4. ASSUME NEW q \in Requests, request[q].at = "token" PROVE FALSE
    BY <1>1, <1>2, <1>4 DEF HeadCalls
  <1>5. CASE Token!Usable
    <2>1. Moves(r, "report", cachedUntil) /\ lock' = Tail(lock)
      BY <1>5 DEF Token!GetLock, Moves
    <2>2. /\ request'[r].at = "report"
          /\ \A q \in Requests \ {r} : request'[q] = request[q]
      BY <1>1, <2>1, MoveKeepsHandlers, TokenNumbers
    <2>3. InQueue'
      BY <1>1, <1>2, <2>1, <2>2, LeaveKeepsQueue
    <2>4. HeadCalls'
      BY <1>4, <2>2 DEF HeadCalls
    <2>. QED
      BY <1>3, <2>3, <2>4 DEF SharedInv
  <1>6. CASE ~Token!Usable
    <2>1. Moves(r, "token", 0) /\ UNCHANGED lock /\ cachedUntil <= clock + Margin
      BY <1>1, <1>6, TokenNumbers DEF Token!GetLock, Moves, Token!Usable
    <2>2. /\ request'[r].at = "token"
          /\ \A q \in Requests \ {r} : request'[q] = request[q]
      BY <1>1, <2>1, MoveKeepsHandlers
    <2>3. InQueue' /\ HeadCalls'
      BY <1>1, <1>2, <1>4, <2>1, <2>2 DEF InQueue, HeadCalls
    <2>. QED
      BY <1>3, <2>3 DEF SharedInv
  <1>. QED
    BY <1>5, <1>6

\* A failed token call leaves the queue to the next one.
LEMMA FailurePreserves ==
    ASSUME Token!TokenAssumption, SharedInv, NEW r \in Requests, Token!TokenFails(r),
           TokenTypes'
    PROVE  SharedInv'
  <1>1. TokenTypes /\ InQueue /\ HeadCalls /\ CacheHoldsLast /\ Token!TokensAreShared
    BY DEF SharedInv
  <1>2. /\ UNCHANGED <<clock, cachedUntil, issued>> /\ lock' = Tail(lock)
        /\ request[r].at = "token" /\ lock # <<>> /\ r = lock[1] /\ Moves(r, "failed", 0)
    BY <1>1, QueueOfSome DEF Token!TokenFails, HeadCalls, Moves
  <1>3. /\ request'[r].at = "failed"
        /\ \A q \in Requests \ {r} : request'[q] = request[q]
    BY <1>1, <1>2, MoveKeepsHandlers
  <1>4. InQueue'
    BY <1>1, <1>2, <1>3, LeaveKeepsQueue
  <1>5. HeadCalls'
    BY <1>1, <1>2, <1>3 DEF HeadCalls
  <1>6. CacheHoldsLast' /\ Token!TokensAreShared'
    BY <1>1, <1>2 DEF CacheHoldsLast, Token!TokensAreShared
  <1>. QED
    BY <1>4, <1>5, <1>6 DEF SharedInv

\* Every step keeps tokens a lifetime less the margin apart.
LEMMA SharedPreserved == ASSUME Token!TokenAssumption, SharedInv,
   [Token!Next]_(Token!vars) PROVE SharedInv'
  <1>1. TokenTypes /\ TokenTypes'
    BY TokenTypesPreserved DEF SharedInv
  <1>2. CASE Token!Tick
    BY <1>1, <1>2, TokenNumbers DEF Token!Tick, SharedInv, InQueue, HeadCalls,
       CacheHoldsLast,
                               Token!TokensAreShared
  <1>3. ASSUME NEW r \in Requests,
     Token!Ask(r) \/ Token!GetLock(r) \/ Token!TokenArrives(r) \/ Token!TokenFails(r)
        PROVE  SharedInv'
    BY <1>1, <1>3, AskPreserves, GetLockPreserves, ArrivalPreserves, FailurePreserves
  <1>4. ASSUME NEW r \in Requests,
     Token!ReportArrives(r) \/ Token!MintArrives(r) \/ Token!CallFails(r)
        PROVE  SharedInv'
    <2>1. UNCHANGED <<clock, cachedUntil, lock, issued>>
      BY <1>4 DEF Token!ReportArrives, Token!MintArrives, Token!CallFails
    <2>2. PICK pc \in {"mint", "done", "failed"} : Moves(r, pc, request[r].until)
      <3>1. CASE Token!ReportArrives(r) /\ r \in Listing
        BY <3>1 DEF Token!ReportArrives, Moves
      <3>2. CASE Token!ReportArrives(r) /\ r \notin Listing
        BY <3>2 DEF Token!ReportArrives, Moves
      <3>3. CASE Token!MintArrives(r) \/ Token!CallFails(r)
        BY <3>3 DEF Token!MintArrives, Token!CallFails, Moves
      <3>. QED
        BY <1>4, <3>1, <3>2, <3>3
    <2>3. /\ request'[r].at = pc
          /\ \A q \in Requests \ {r} : request'[q] = request[q]
      BY <1>1, <2>2, MoveKeepsHandlers, TokenNumbers
    <2>. QED
      BY <1>1, <2>1, <2>3 DEF SharedInv, InQueue, HeadCalls, CacheHoldsLast,
         Token!TokensAreShared
  <1>5. CASE UNCHANGED Token!vars
    BY <1>1, <1>5 DEF Token!vars, SharedInv, InQueue, HeadCalls, CacheHoldsLast,
       Token!TokensAreShared
  <1>. QED
    BY <1>2, <1>3, <1>4, <1>5 DEF Token!Next

\* "Lock voorkomt dat 10 parallelle embed-mints tegelijk een SP-token POSTen"
\* (portal-backend.py:761): however many requests come at once and whichever
\* calls fail, two tokens are a lifetime less the margin apart.
THEOREM OneTokenPerLifetime == Spec => []TokensAreShared
  <1>. DEFINE Inv == part = "token" => SharedInv
  <1>1. Init => Inv
    BY PortalStarts, TokenInit, ServicesAssumption
  <1>2. Inv /\ [Next]_vars => Inv'
    BY PortalSteps, SharedPreserved, ServicesAssumption
  <1>3. Inv => TokensAreShared
    BY DEF SharedInv, TokensAreShared
  <1>. QED
    BY <1>1, <1>2, <1>3, PTL DEF Spec

-----------------------------------------------------------------------------
\* Nobody is in the queue twice, and everybody in it waits for the lock or has it.
QueueOfWaiting ==
    /\ \A i, j \in 1..Len(lock) : lock[i] = lock[j] => i = j
    /\ \A i \in 1..Len(lock) : request[lock[i]].at \in {"wait", "token"}

\* Tokens were issued in the past.
IssuedInThePast == clock <= MaxClock /\ issued \in Seq(0..clock)

\* Inductive: the types, and who is in the queue.
TokenTypeInv == SharedInv /\ QueueOfWaiting /\ IssuedInThePast

\* An empty queue at time zero.
LEMMA TokenTypeInit == Token!TokenAssumption /\ Token!Init => TokenTypeInv
  <1>. SUFFICES ASSUME Token!TokenAssumption, Token!Init PROVE TokenTypeInv
    OBVIOUS
  <1>1. lock = <<>> /\ issued = <<>> /\ clock = 0
    BY DEF Token!Init
  <1>2. Len(lock) = 0 /\ <<>> \in Seq(0..clock)
    BY <1>1, EmptySeq
  <1>3. MaxClock \in Nat
    BY DEF Token!TokenAssumption
  <1>. QED
    BY <1>1, <1>2, <1>3, TokenInit DEF TokenTypeInv, QueueOfWaiting, IssuedInThePast

\* A request that was not in the queue joins it.
LEMMA JoinKeepsWaiting ==
    ASSUME InQueue, QueueOfWaiting, NEW r \in Requests, lock' = Append(lock, r),
           request[r].at \notin {"wait", "token"}, request'[r].at \in {"wait", "token"},
           \A q \in Requests \ {r} : request'[q] = request[q]
    PROVE  QueueOfWaiting'
  <1>1. lock \in Seq(Requests) /\ Len(lock) \in Nat
    BY LenProperties DEF InQueue
  <1>2. /\ Len(lock') = Len(lock) + 1
        /\ \A i \in 1..Len(lock) : lock'[i] = lock[i]
        /\ lock'[Len(lock) + 1] = r
    BY <1>1, AppendProperties
  <1>3. \A i \in 1..Len(lock) : lock[i] \in Requests /\ lock[i] # r
    BY <1>1, ElementOfSeq DEF QueueOfWaiting
  <1>4. ASSUME NEW i \in 1..Len(lock'), NEW j \in 1..Len(lock'), lock'[i] = lock'[j]
        PROVE  i = j
    <2>1. CASE i \in 1..Len(lock) /\ j \in 1..Len(lock)
      BY <1>2, <1>4, <2>1 DEF QueueOfWaiting
    <2>2. CASE i = Len(lock) + 1 \/ j = Len(lock) + 1
      BY <1>1, <1>2, <1>3, <1>4, <2>2
    <2>. QED
      BY <1>1, <1>2, <2>1, <2>2
  <1>5. ASSUME NEW i \in 1..Len(lock') PROVE request'[lock'[i]].at \in {"wait", "token"}
    <2>1. CASE i \in 1..Len(lock)
      BY <1>2, <1>3, <2>1 DEF QueueOfWaiting
    <2>2. CASE i = Len(lock) + 1
      BY <1>2, <2>2
    <2>. QED
      BY <1>1, <1>2, <2>1, <2>2
  <1>. QED
    BY <1>4, <1>5 DEF QueueOfWaiting

\* The head of the queue goes; it was in it once.
LEMMA LeaveKeepsWaiting ==
    ASSUME InQueue, QueueOfWaiting, NEW r \in Requests, lock # <<>>, r = lock[1],
           lock' = Tail(lock), \A q \in Requests \ {r} : request'[q] = request[q]
    PROVE  QueueOfWaiting'
  <1>1. lock \in Seq(Requests) /\ Len(lock) \in Nat
    BY LenProperties DEF InQueue
  <1>2. /\ Len(lock') = Len(lock) - 1
        /\ \A i \in 1..Len(lock') : lock'[i] = lock[i + 1]
    BY <1>1, HeadTailProperties
  <1>3. \A i \in 1..Len(lock') : i + 1 \in 1..Len(lock) /\ 1 \in 1..Len(lock) /\ i + 1 # 1
    BY <1>1, <1>2
  <1>4. \A i \in 1..Len(lock') : lock[i + 1] \in Requests \ {r}
    BY <1>1, <1>3, ElementOfSeq DEF QueueOfWaiting
  <1>5. ASSUME NEW i \in 1..Len(lock'), NEW j \in 1..Len(lock'), lock'[i] = lock'[j]
        PROVE  i = j
    <2>1. lock[i + 1] = lock[j + 1]
      BY <1>2, <1>5
    <2>2. i + 1 = j + 1
      BY <1>3, <2>1 DEF QueueOfWaiting
    <2>. QED
      BY <2>2
  <1>6. ASSUME NEW i \in 1..Len(lock') PROVE request'[lock'[i]].at \in {"wait", "token"}
    BY <1>2, <1>3, <1>4 DEF QueueOfWaiting
  <1>. QED
    BY <1>5, <1>6 DEF QueueOfWaiting

\* A handler that is in the queue stays in it, and one that is not does not join.
LEMMA StayKeepsWaiting ==
    ASSUME InQueue, QueueOfWaiting, NEW r \in Requests, lock' = lock,
           request[r].at \in {"wait", "token"} => request'[r].at \in {"wait", "token"},
           \A q \in Requests \ {r} : request'[q] = request[q]
    PROVE  QueueOfWaiting'
  <1>1. \A i \in 1..Len(lock) : lock[i] \in Requests
    BY ElementOfSeq DEF InQueue
  <1>2. ASSUME NEW i \in 1..Len(lock) PROVE request'[lock[i]].at \in {"wait", "token"}
    <2>1. CASE lock[i] = r
      BY <2>1 DEF QueueOfWaiting
    <2>2. CASE lock[i] # r
      BY <1>1, <2>2 DEF QueueOfWaiting
    <2>. QED
      BY <2>1, <2>2
  <1>. QED
    BY <1>2 DEF QueueOfWaiting

\* A handler's step and the queue.
LEMMA HandlerKeepsWaiting ==
    ASSUME Token!TokenAssumption, SharedInv, QueueOfWaiting, NEW r \in Requests,
           \/ Token!Ask(r) \/ Token!GetLock(r)
           \/ Token!TokenArrives(r) \/ Token!TokenFails(r)
           \/ Token!ReportArrives(r) \/ Token!MintArrives(r) \/ Token!CallFails(r)
    PROVE  QueueOfWaiting'
  <1>1. TokenTypes /\ InQueue /\ HeadCalls
    BY DEF SharedInv
  <1>2. PICK until \in Nat,
             pc \in {"unsent", "wait", "token", "report", "mint", "done", "failed"} :
             Moves(r, pc, until)
    <2>1. clock + Lifetime \in Nat /\ request[r].until \in Nat
      BY <1>1, TokenNumbers
    <2>. QED
      BY <1>1, <2>1, HandlerMoves, TokenNumbers
  <1>3. \A q \in Requests \ {r} : request'[q] = request[q]
    BY <1>1, <1>2, MoveKeepsHandlers
  <1>4. request \in [Requests -> Token!Handlers]
    BY <1>1 DEF TokenTypes
  <1>5. CASE Token!Ask(r) /\ ~Token!Usable
    <2>1. request'[r].at \in {"wait", "token"} /\ lock' = Append(lock, r)
      BY <1>4, <1>5 DEF Token!Ask, Token!At
    <2>2. request[r].at \notin {"wait", "token"}
      BY <1>5 DEF Token!Ask
    <2>. QED
      BY <1>1, <1>3, <2>1, <2>2, JoinKeepsWaiting
  <1>6. CASE \/ Token!GetLock(r) /\ Token!Usable
             \/ Token!TokenArrives(r) \/ Token!TokenFails(r)
    <2>1. lock' = Tail(lock) /\ request[r].at \in {"wait", "token"}
      BY <1>6 DEF Token!GetLock, Token!TokenArrives, Token!TokenFails
    <2>2. lock # <<>> /\ Head(lock) = lock[1]
      BY <1>1, <2>1, QueueOfSome
    <2>3. r = lock[1]
      BY <1>1, <1>6, <2>2
      DEF Token!GetLock, Token!TokenArrives, Token!TokenFails, HeadCalls
    <2>. QED
      BY <1>1, <1>3, <2>1, <2>2, <2>3, LeaveKeepsWaiting
  <1>7. CASE Token!GetLock(r) /\ ~Token!Usable
    <2>1. request'[r].at = "token" /\ lock' = lock
      BY <1>4, <1>7 DEF Token!GetLock, Token!At
    <2>. QED
      BY <1>1, <1>3, <2>1, StayKeepsWaiting
  <1>8. CASE \/ Token!Ask(r) /\ Token!Usable
             \/ Token!ReportArrives(r) \/ Token!MintArrives(r) \/ Token!CallFails(r)
    <2>1. request[r].at \notin {"wait", "token"} /\ lock' = lock
      BY <1>8 DEF Token!Ask, Token!ReportArrives, Token!MintArrives, Token!CallFails
    <2>. QED
      BY <1>1, <1>3, <2>1, StayKeepsWaiting
  <1>. QED
    BY <1>5, <1>6, <1>7, <1>8

\* Every step keeps the queue and the dates.
LEMMA TokenTypePreserved ==
    ASSUME Token!TokenAssumption, TokenTypeInv, [Token!Next]_(Token!vars)
    PROVE  TokenTypeInv'
  <1>1. SharedInv /\ QueueOfWaiting /\ IssuedInThePast /\ TokenTypes
    BY DEF TokenTypeInv, SharedInv
  <1>2. SharedInv'
    BY <1>1, SharedPreserved
  <1>3. clock \in Nat /\ MaxClock \in Nat /\ issued \in Seq(0..clock)
    BY <1>1, TokenNumbers DEF Token!TokenAssumption, IssuedInThePast
  <1>4. CASE Token!Tick
    <2>1. /\ clock < MaxClock /\ clock' = clock + 1
          /\ UNCHANGED <<lock, request, issued>>
      BY <1>4 DEF Token!Tick
    <2>2. 0..clock \subseteq 0..(clock + 1) /\ clock + 1 <= MaxClock
      BY <1>3, <2>1
    <2>3. issued \in Seq(0..(clock + 1))
      BY <1>3, <2>2, SeqMonotonic
    <2>. QED
      BY <1>1, <1>2, <2>1, <2>2, <2>3 DEF TokenTypeInv, QueueOfWaiting, IssuedInThePast
  <1>5. ASSUME NEW r \in Requests,
               \/ Token!Ask(r) \/ Token!GetLock(r)
               \/ Token!TokenArrives(r) \/ Token!TokenFails(r)
               \/ Token!ReportArrives(r) \/ Token!MintArrives(r) \/ Token!CallFails(r)
        PROVE  TokenTypeInv'
    <2>1. QueueOfWaiting' /\ UNCHANGED clock
      BY <1>1, <1>5, HandlerKeepsWaiting, HandlerMoves
    <2>2. issued' = issued \/ issued' = Append(issued, clock)
      BY <1>5 DEF Token!Ask, Token!GetLock, Token!TokenArrives, Token!TokenFails,
                  Token!ReportArrives, Token!MintArrives, Token!CallFails
    <2>3. issued' \in Seq(0..clock)
      <3>1. clock \in 0..clock
        BY <1>3
      <3>. QED
        BY <1>3, <2>2, <3>1, AppendProperties
    <2>. QED
      BY <1>1, <1>2, <2>1, <2>3 DEF TokenTypeInv, IssuedInThePast
  <1>6. CASE UNCHANGED Token!vars
    BY <1>1, <1>2, <1>6 DEF Token!vars, TokenTypeInv, QueueOfWaiting, IssuedInThePast
  <1>. QED
    BY <1>4, <1>5, <1>6 DEF Token!Next

\* The type invariant of PowerBiToken follows.
LEMMA TokenTypesOK == TokenTypeInv => Token!TokenTypeOK
  <1>. SUFFICES ASSUME TokenTypeInv PROVE Token!TokenTypeOK
    OBVIOUS
  <1>1. TokenTypes /\ InQueue /\ HeadCalls /\ QueueOfWaiting /\ IssuedInThePast
    BY DEF TokenTypeInv, SharedInv
  <1>2. lock \in Seq(Requests) /\ DOMAIN lock = 1..Len(lock)
    BY <1>1, LenProperties DEF InQueue
  <1>3. \A i \in 1..Len(lock) : lock[i] \in Requests
    BY <1>2, ElementOfSeq
  <1>4. Token!IsInjective(lock)
    BY <1>1, <1>2 DEF Token!IsInjective, QueueOfWaiting
  <1>5. Token!ToSet(lock) = {r \in Requests : request[r].at \in {"wait", "token"}}
    BY <1>1, <1>2, <1>3 DEF Token!ToSet, QueueOfWaiting, InQueue
  <1>6. \A r \in Requests : request[r].at = "token" => r = Head(lock)
    BY <1>1, QueueOfSome DEF HeadCalls
  <1>7. clock \in 0..MaxClock
    BY <1>1 DEF TokenTypes, IssuedInThePast
  <1>. QED
    BY <1>1, <1>2, <1>4, <1>5, <1>6, <1>7 DEF TokenTypes, IssuedInThePast, Token!TokenTypeOK

\* A call as the palette and the backend record it, whatever its answer.
CallRecord(c) ==
    /\ c = [q |-> c.q, at |-> c.at] \/ c = [q |-> c.q, at |-> c.at, items |-> c.items]
    /\ c.at = "answered" => c.items.key = Key(c.q)

\* Every answer is about the text its call was made for.
CallsAnswerTheirQuery ==
    /\ calls \in Seq({calls[n] : n \in DOMAIN calls})
    /\ \A n \in DOMAIN calls : CallRecord(calls[n])

\* Only an open palette has a current call, and it asks for the text shown.
CurrentIsAboutQuery ==
    current # 0 =>
        open /\ query # "" /\ current \in DOMAIN calls /\ calls[current].q = query

\* Inductive: results on screen belong to the text on screen.
PaletteInv == CallsAnswerTheirQuery /\ CurrentIsAboutQuery /\ Palette!ResultsBelongToQuery

-----------------------------------------------------------------------------
\* A closed palette without calls.
LEMMA PaletteInit == Palette!Init => PaletteInv
  <1>. SUFFICES ASSUME Palette!Init PROVE PaletteInv
    OBVIOUS
  <1>1. calls = <<>> /\ current = 0 /\ open = FALSE
    BY DEF Palette!Init
  <1>2. DOMAIN calls = {} /\ calls \in Seq({calls[n] : n \in DOMAIN calls})
    <2>1. <<>> \in Seq({}) /\ Len(<<>>) = 0
      BY EmptySeq
    <2>2. DOMAIN <<>> = {}
      BY <2>1, LenProperties
    <2>3. {calls[n] : n \in DOMAIN calls} = {}
      BY <1>1, <2>2
    <2>. QED
      BY <1>1, <2>1, <2>2, <2>3
  <1>3. CallsAnswerTheirQuery
    BY <1>2 DEF CallsAnswerTheirQuery
  <1>4. CurrentIsAboutQuery /\ Palette!ResultsBelongToQuery
    BY <1>1 DEF CurrentIsAboutQuery, Palette!ResultsBelongToQuery
  <1>. QED
    BY <1>3, <1>4 DEF PaletteInv

\* A step of the backend's cache alone.
LEMMA CacheStepPreserves ==
    ASSUME PaletteInv, UNCHANGED <<open, query, shown, current, calls>> PROVE PaletteInv'
  <1>1. CallsAnswerTheirQuery'
    <2>1. \A n \in DOMAIN calls : CallRecord(calls[n])
      BY DEF PaletteInv, CallsAnswerTheirQuery
    <2>2. \A n \in DOMAIN calls' : CallRecord(calls'[n])
      BY <2>1
    <2>. QED
      BY <2>2 DEF PaletteInv, CallsAnswerTheirQuery
  <1>2. CurrentIsAboutQuery'
    BY DEF PaletteInv, CurrentIsAboutQuery
  <1>3. Palette!ResultsBelongToQuery'
    BY Zenon DEF PaletteInv, Palette!ResultsBelongToQuery
  <1>. QED
    BY <1>1, <1>2, <1>3 DEF PaletteInv

\* A list that is as long as its domain says is a sequence of its elements.
LEMMA FunctionIsSeq ==
    ASSUME NEW f, NEW n \in Nat, f = [i \in 1..n |-> f[i]]
    PROVE  f \in Seq({f[i] : i \in DOMAIN f})
  <1>. DEFINE T == {f[i] : i \in DOMAIN f}
  <1>1. \A i \in 1..n : f[i] \in T
    OBVIOUS
  <1>. HIDE DEF T
  <1>2. f \in [1..n -> T]
    BY <1>1
  <1>3. f \in Seq(T)
    BY <1>2, SeqDef
  <1>. QED
    BY <1>3 DEF T

\* A call that changes in place keeps its query and, once answered, the key.
LEMMA UpdateKeepsCalls ==
    ASSUME NEW n \in DOMAIN calls, NEW c, CallsAnswerTheirQuery,
           CallRecord(c), c.q = calls[n].q, calls' = [calls EXCEPT ![n] = c]
    PROVE  /\ CallsAnswerTheirQuery' /\ DOMAIN calls' = DOMAIN calls
           /\ \A k \in DOMAIN calls : calls'[k].q = calls[k].q
  <1>1. calls \in Seq({calls[k] : k \in DOMAIN calls})
    BY DEF CallsAnswerTheirQuery
  <1>2. /\ DOMAIN calls' = DOMAIN calls
        /\ \A k \in DOMAIN calls : calls'[k] = IF k = n THEN c ELSE calls[k]
    BY <1>1
  <1>3. DOMAIN calls = 1..Len(calls) /\ Len(calls) \in Nat
    BY <1>1, LenProperties
  <1>4. calls' \in Seq({calls'[k] : k \in DOMAIN calls'})
    <2>1. calls' = [k \in 1..Len(calls) |-> calls'[k]]
      <3>. DEFINE S == {calls[k] : k \in DOMAIN calls}
      <3>1. calls \in Seq(S \cup {c}) /\ c \in S \cup {c}
        BY <1>1, SeqMonotonic
      <3>. HIDE DEF S
      <3>2. calls' \in Seq(S \cup {c}) /\ Len(calls') = Len(calls)
        BY <1>3, <3>1, ExceptSeq
      <3>3. calls' \in [1..Len(calls) -> S \cup {c}]
        BY <3>2, LenProperties
      <3>. QED
        BY <3>3
    <2>2. PICK f : f = calls'
      OBVIOUS
    <2>3. f = [k \in 1..Len(calls) |-> f[k]]
      BY <2>1, <2>2, Zenon
    <2>4. f \in Seq({f[k] : k \in DOMAIN f})
      BY ONLY <2>3, <1>3, FunctionIsSeq
    <2>. QED
      BY <2>2, <2>4, Zenon
  <1>5. \A k \in DOMAIN calls' : CallRecord(calls'[k])
    BY <1>2 DEF CallsAnswerTheirQuery
  <1>. QED
    BY <1>2, <1>4, <1>5 DEF CallsAnswerTheirQuery

\* A key stroke or the opening: the answers to come are for the new text.
LEMMA EffectPreserves ==
    ASSUME PaletteInv, NEW q, Palette!StartEffect(q), query' = q, open' = TRUE
    PROVE  PaletteInv'
  <1>1. CASE q = ""
    <2>1. calls' = calls /\ current' = 0 /\ shown' = Palette!Idle
      BY <1>1 DEF Palette!StartEffect
    <2>2. \A n \in DOMAIN calls' : CallRecord(calls'[n])
      BY <2>1 DEF PaletteInv, CallsAnswerTheirQuery
    <2>3. CallsAnswerTheirQuery'
      BY <2>1, <2>2 DEF PaletteInv, CallsAnswerTheirQuery
    <2>4. CurrentIsAboutQuery'
      BY <2>1 DEF CurrentIsAboutQuery
    <2>5. shown'.kind # "ok"
      BY <2>1 DEF Palette!Idle
    <2>6. Palette!ResultsBelongToQuery'
      BY <2>5 DEF Palette!ResultsBelongToQuery
    <2>. QED
      BY <2>3, <2>4, <2>6 DEF PaletteInv
  <1>2. CASE q # ""
    <2>. DEFINE c == [q |-> q, at |-> "pausing"]
    <2>. DEFINE S == {calls[k] : k \in DOMAIN calls}
    <2>1. calls' = Append(calls, c) /\ current' = Len(calls) + 1 /\ shown' = Palette!Loading
      BY <1>2 DEF Palette!StartEffect
    <2>2. calls \in Seq({calls[k] : k \in DOMAIN calls})
      BY DEF PaletteInv, CallsAnswerTheirQuery
    <2>3. /\ Len(calls) \in Nat /\ DOMAIN calls = 1..Len(calls)
          /\ DOMAIN calls' = 1..(Len(calls) + 1)
          /\ \A k \in DOMAIN calls : calls'[k] = calls[k]
          /\ calls'[Len(calls) + 1] = c
      <3>1. /\ Len(calls) \in Nat /\ DOMAIN calls = 1..Len(calls)
            /\ calls \in Seq(S \cup {c}) /\ c \in S \cup {c}
        BY <2>2, LenProperties, SeqMonotonic
      <3>. HIDE DEF c, S
      <3>. QED
        BY <2>1, <3>1, AppendProperties, LenProperties
    <2>4. calls' \in Seq({calls'[k] : k \in DOMAIN calls'})
      <3>1. calls' = [k \in 1..(Len(calls) + 1) |-> calls'[k]]
        BY <2>1, <2>2, <2>3
      <3>2. Len(calls) + 1 \in Nat
        BY <2>3
      <3>. QED
        BY <3>1, <3>2, FunctionIsSeq
    <2>5. ASSUME NEW k \in DOMAIN calls' PROVE CallRecord(calls'[k])
      BY <2>3 DEF CallRecord, PaletteInv, CallsAnswerTheirQuery
    <2>6. CurrentIsAboutQuery'
      <3>1. current' \in DOMAIN calls'
        BY <2>1, <2>3
      <3>2. calls'[current'].q = q
        BY <2>1, <2>3
      <3>. QED
        BY <1>2, <3>1, <3>2 DEF CurrentIsAboutQuery
    <2>7. Palette!ResultsBelongToQuery'
      <3>1. shown'.kind # "ok"
        BY <2>1 DEF Palette!Loading
      <3>. QED
        BY <3>1 DEF Palette!ResultsBelongToQuery
    <2>. QED
      BY <2>4, <2>5, <2>6, <2>7 DEF PaletteInv, CallsAnswerTheirQuery
  <1>. QED
    BY <1>1, <1>2

-----------------------------------------------------------------------------
\* An answer is shown only when its call is the current one.
LEMMA ReceivePreserves ==
    ASSUME PaletteInv, NEW n \in DOMAIN calls,
           Palette!Receive(n) \/ Palette!ReceiveError(n)
    PROVE  PaletteInv'
  <1>. DEFINE c == [q |-> calls[n].q, at |-> "over"]
  <1>1. calls' = [calls EXCEPT ![n] = c] /\ UNCHANGED <<open, query, current, cache>>
    BY DEF Palette!Receive, Palette!ReceiveError
  <1>2. CallRecord(c) /\ c.q = calls[n].q
    BY DEF CallRecord
  <1>3. /\ CallsAnswerTheirQuery' /\ DOMAIN calls' = DOMAIN calls
        /\ \A k \in DOMAIN calls : calls'[k].q = calls[k].q
    BY <1>1, <1>2, UpdateKeepsCalls DEF PaletteInv
  <1>4. CurrentIsAboutQuery'
    BY <1>1, <1>3 DEF PaletteInv, CurrentIsAboutQuery
  <1>5. shown' = shown \/ shown' = Palette!Failed
          \/ (n = current /\ shown' = [kind |-> "ok", items |-> calls[n].items]
                /\ calls[n].at = "answered")
    BY DEF Palette!Receive, Palette!ReceiveError
  <1>6. n = current /\ calls[n].at = "answered"
          => query # "" /\ calls[n].items.key = Key(query)
    <2>1. 0 \notin DOMAIN calls
      BY DEF PaletteInv, CallsAnswerTheirQuery
    <2>. QED
      BY <2>1 DEF PaletteInv, CurrentIsAboutQuery, CallsAnswerTheirQuery, CallRecord
  <1>7. Palette!ResultsBelongToQuery'
    <2>1. CASE shown' = shown
      BY <1>1, <2>1, Zenon DEF PaletteInv, Palette!ResultsBelongToQuery
    <2>2. CASE shown' = Palette!Failed
      <3>1. shown'.kind # "ok"
        BY <2>2 DEF Palette!Failed
      <3>. QED
        BY <3>1 DEF Palette!ResultsBelongToQuery
    <2>3. CASE /\ n = current /\ calls[n].at = "answered"
               /\ shown' = [kind |-> "ok", items |-> calls[n].items]
      <3>1. shown'.items = calls[n].items
        BY <2>3
      <3>. QED
        BY <1>1, <1>6, <2>3, <3>1, Zenon DEF Palette!ResultsBelongToQuery
    <2>. QED
      BY <1>5, <2>1, <2>2, <2>3
  <1>. QED
    BY <1>3, <1>4, <1>7 DEF PaletteInv

\* The backend answers a call with what was searched or cached under its key.
LEMMA BackendPreserves ==
    ASSUME PaletteInv, NEW n \in DOMAIN calls, Palette!Search(n) \/ Palette!SearchEnds(n)
    PROVE  PaletteInv'
  <1>1. UNCHANGED <<open, query, shown, current>>
    BY DEF Palette!Search, Palette!SearchEnds
  <1>2. PICK c : CallRecord(c) /\ c.q = calls[n].q /\ calls' = [calls EXCEPT ![n] = c]
    <2>1. CASE Palette!Search(n)
      <3>. DEFINE hit == Palette!Cached(Key(calls[n].q))
      <3>1. CASE hit = {}
        <4>. DEFINE c == [q |-> calls[n].q, at |-> "searching"]
        <4>1. calls' = [calls EXCEPT ![n] = c]
          BY <2>1, <3>1 DEF Palette!Search
        <4>2. CallRecord(c) /\ c.q = calls[n].q
          BY DEF CallRecord
        <4>. QED
          BY <4>1, <4>2
      <3>2. CASE hit # {}
        <4>. DEFINE i == CHOOSE i \in hit : TRUE
        <4>. DEFINE c == [q |-> calls[n].q, at |-> "answered", items |-> cache[i].items]
        <4>1. calls' = [calls EXCEPT ![n] = c]
          BY <2>1, <3>2 DEF Palette!Search
        <4>2. cache[i].items.key = Key(calls[n].q)
          <5>1. i \in hit
            BY <3>2
          <5>. QED
            BY <5>1 DEF Palette!Cached
        <4>. HIDE DEF i
        <4>3. CallRecord(c) /\ c.q = calls[n].q
          BY <4>2 DEF CallRecord
        <4>. QED
          BY <4>1, <4>3
      <3>. QED
        BY <3>1, <3>2
    <2>2. CASE Palette!SearchEnds(n)
      <3>1. PICK replied \in Palette!Replies :
                calls' = [calls EXCEPT ![n] =
                    [q |-> @.q, at |-> "answered",
                     items |-> [key |-> Key(calls[n].q), from |-> replied]]]
        BY <2>2 DEF Palette!SearchEnds
      <3>. DEFINE c == [q |-> calls[n].q, at |-> "answered",
                        items |-> [key |-> Key(calls[n].q), from |-> replied]]
      <3>2. calls' = [calls EXCEPT ![n] = c]
        BY <3>1
      <3>3. CallRecord(c) /\ c.q = calls[n].q
        BY DEF CallRecord
      <3>. QED
        BY <3>2, <3>3
    <2>. QED
      BY <2>1, <2>2
  <1>3. /\ CallsAnswerTheirQuery' /\ DOMAIN calls' = DOMAIN calls
        /\ \A k \in DOMAIN calls : calls'[k].q = calls[k].q
    BY <1>2, UpdateKeepsCalls DEF PaletteInv
  <1>. QED
    BY <1>1, <1>3 DEF PaletteInv, CurrentIsAboutQuery, Palette!ResultsBelongToQuery

\* The pause after the last key: the call keeps its query.
LEMMA PausePreserves == ASSUME PaletteInv, Palette!PauseEnds PROVE PaletteInv'
  <1>. DEFINE c == [calls[current] EXCEPT !.at = "sent"]
  <1>1. /\ current # 0 /\ calls[current].at = "pausing"
        /\ calls' = [calls EXCEPT ![current] = c]
        /\ UNCHANGED <<open, query, shown, current, cache>>
    BY DEF Palette!PauseEnds
  <1>2. current \in DOMAIN calls
    BY <1>1 DEF PaletteInv, CurrentIsAboutQuery
  <1>3. CallRecord(calls[current])
    BY <1>2 DEF PaletteInv, CallsAnswerTheirQuery
  <1>4. c.q = calls[current].q /\ c.at = "sent"
    BY <1>3 DEF CallRecord
  <1>5. c = [q |-> c.q, at |-> c.at] \/ c = [q |-> c.q, at |-> c.at, items |-> c.items]
    BY <1>3 DEF CallRecord
  <1>6. CallRecord(c)
    BY <1>4, <1>5 DEF CallRecord
  <1>. HIDE DEF c
  <1>7. /\ CallsAnswerTheirQuery' /\ DOMAIN calls' = DOMAIN calls
        /\ \A k \in DOMAIN calls : calls'[k].q = calls[k].q
    BY <1>1, <1>2, <1>4, <1>6, UpdateKeepsCalls DEF PaletteInv
  <1>. QED
    BY <1>1, <1>2, <1>7 DEF PaletteInv, CurrentIsAboutQuery, Palette!ResultsBelongToQuery

-----------------------------------------------------------------------------
\* Every step keeps the invariant.
LEMMA PalettePreserved == ASSUME PaletteInv,
   [Palette!Next]_(Palette!vars) PROVE PaletteInv'
  <1>1. ASSUME NEW q \in Queries \cup {""}, Palette!TypeQuery(q) PROVE PaletteInv'
    BY <1>1, EffectPreserves DEF Palette!TypeQuery
  <1>2. CASE Palette!OpenPalette
    BY <1>2, EffectPreserves DEF Palette!OpenPalette
  <1>3. CASE Palette!ClosePalette
    BY <1>3 DEF Palette!ClosePalette, PaletteInv, CallsAnswerTheirQuery, CallRecord,
       CurrentIsAboutQuery,
                Palette!ResultsBelongToQuery
  <1>4. CASE Palette!PauseEnds
    BY <1>4, PausePreserves
  <1>5. CASE Palette!CacheAges \/ Palette!BackendRestarts
    BY <1>5, CacheStepPreserves DEF Palette!CacheAges, Palette!BackendRestarts
  <1>6. ASSUME NEW n \in DOMAIN calls,
               \/ Palette!Receive(n) \/ Palette!ReceiveError(n)
               \/ Palette!Search(n) \/ Palette!SearchEnds(n)
        PROVE  PaletteInv'
    BY <1>6, ReceivePreserves, BackendPreserves
  <1>7. CASE UNCHANGED Palette!vars
    BY <1>7, CacheStepPreserves DEF Palette!vars
  <1>. QED
    BY <1>1, <1>2, <1>3, <1>4, <1>5, <1>6, <1>7 DEF Palette!Next

\* "An older response can't overwrite a newer one" (CommandPalette.tsx:83): with
\* the effect's cleanup, the cache and late handlers in any interleaving, an
\* open palette never lists what was searched by another text.
THEOREM PaletteShowsItsQuery == Spec => []ResultsBelongToQuery
  <1>. DEFINE Inv == part = "palette" => PaletteInv
  <1>1. Init => Inv
    BY PortalStarts, PaletteInit, ServicesAssumption
  <1>2. Inv /\ [Next]_vars => Inv'
    BY PortalSteps, PalettePreserved, ServicesAssumption
  <1>3. Inv => ResultsBelongToQuery
    BY DEF PaletteInv, ResultsBelongToQuery
  <1>. QED
    BY <1>1, <1>2, <1>3, PTL DEF Spec

-----------------------------------------------------------------------------
\* The states of a call, and an entry of the cache.
CallRecords == [q : Queries, at : {"pausing", "sent", "searching", "over"}]
               \cup [q : Queries, at : {"answered"}, items : Palette!Answers]
CacheEntries == [items : Palette!Answers, fresh : BOOLEAN]

\* What is typed.
Texts == Queries \cup {""}

\* What the palette may show.
Shows == {Palette!Idle, Palette!Loading, Palette!Failed}
         \cup [kind : {"ok"}, items : Palette!Answers]

\* The palette's types.
PaletteTyped ==
    /\ open \in BOOLEAN /\ query \in Texts
    /\ shown \in Shows
    /\ calls \in Seq(CallRecords)
    /\ Len(calls) \in Calls \cup {0} /\ current \in Nat /\ current <= Len(calls)

\* No key twice.
KeysDiffer(c) == \A i, j \in 1..Len(c) : c[i].items.key = c[j].items.key => i = j

\* The cache holds a key once and is trimmed.
CacheKept == cache \in Seq(CacheEntries) /\ Len(cache) <= MaxCached /\ KeysDiffer(cache)

\* Inductive: the types and the cache.
PaletteTypeInv == PaletteInv /\ PaletteTyped /\ CacheKept

\* What RemoveAt leaves.
LEMMA RemoveAtProperties ==
    ASSUME NEW S, NEW s \in Seq(S), NEW i \in 1..Len(s)
    PROVE  /\ Palette!RemoveAt(s, i) \in Seq(S)
           /\ Len(Palette!RemoveAt(s, i)) = Len(s) - 1
           /\ \A k \in 1..(Len(s) - 1) :
                 Palette!RemoveAt(s, i)[k] = IF k < i THEN s[k] ELSE s[k + 1]
  <1>. DEFINE a == SubSeq(s, 1, i - 1)
              b == SubSeq(s, i + 1, Len(s))
  <1>1. Len(s) \in Nat /\ i \in Nat /\ i >= 1 /\ i <= Len(s) /\ \A k \in 1..Len(s) : s[k] \in S
    BY LenProperties, ElementOfSeq
  <1>2. a \in Seq(S) /\ Len(a) = i - 1 /\ \A k \in 1..(i - 1) : a[k] = s[k]
    <2>1. i - 1 \in Int /\ 1 \in Int /\ \A k \in 1..(i - 1) : s[k] \in S
      BY <1>1
    <2>2. /\ a \in Seq(S) /\ Len(a) = IF 1 <= i - 1 THEN (i - 1) - 1 + 1 ELSE 0
          /\ \A k \in 1..((i - 1) - 1 + 1) : a[k] = s[1 + k - 1]
      BY <2>1, SubSeqProperties
    <2>. HIDE DEF a
    <2>3. Len(a) = i - 1
      BY <1>1, <2>2
    <2>4. \A k \in 1..(i - 1) : k \in 1..((i - 1) - 1 + 1) /\ 1 + k - 1 = k
      BY <1>1
    <2>5. \A k \in 1..(i - 1) : a[k] = s[k]
      BY <2>2, <2>4
    <2>. QED
      BY <2>2, <2>3, <2>5
  <1>3. /\ b \in Seq(S) /\ Len(b) = Len(s) - i
        /\ \A k \in 1..(Len(s) - i) : b[k] = s[i + k]
    <2>1. i + 1 \in Int /\ Len(s) \in Int /\ \A k \in (i + 1)..Len(s) : s[k] \in S
      BY <1>1
    <2>2. /\ b \in Seq(S) /\ Len(b) = IF i + 1 <= Len(s) THEN Len(s) - (i + 1) + 1 ELSE 0
          /\ \A k \in 1..(Len(s) - (i + 1) + 1) : b[k] = s[(i + 1) + k - 1]
      BY <2>1, SubSeqProperties
    <2>. HIDE DEF b
    <2>3. Len(b) = Len(s) - i
      BY <1>1, <2>2
    <2>4. \A k \in 1..(Len(s) - i) : k \in 1..(Len(s) - (i + 1) + 1) /\ (i + 1) + k - 1 = i + k
      BY <1>1
    <2>5. \A k \in 1..(Len(s) - i) : b[k] = s[i + k]
      BY <2>2, <2>4
    <2>. QED
      BY <2>2, <2>3, <2>5
  <1>4. Palette!RemoveAt(s, i) = a \o b
    BY DEF Palette!RemoveAt
  <1>. HIDE DEF a, b
  <1>5. /\ a \o b \in Seq(S) /\ Len(a \o b) = Len(a) + Len(b)
        /\ \A k \in 1..Len(a) + Len(b) :
              (a \o b)[k] = IF k <= Len(a) THEN a[k] ELSE b[k - Len(a)]
    BY <1>2, <1>3, ConcatProperties
  <1>6. Len(a) + Len(b) = Len(s) - 1
    BY <1>1, <1>2, <1>3
  <1>7. ASSUME NEW k \in 1..(Len(s) - 1)
        PROVE  (a \o b)[k] = IF k < i THEN s[k] ELSE s[k + 1]
    <2>1. (a \o b)[k] = IF k <= i - 1 THEN a[k] ELSE b[k - (i - 1)]
      BY <1>2, <1>5, <1>6
    <2>2. CASE k < i
      <3>1. k <= i - 1 /\ k \in 1..(i - 1)
        BY <1>1, <2>2
      <3>. QED
        BY <1>2, <2>1, <2>2, <3>1
    <2>3. CASE ~(k < i)
      <3>1. ~(k <= i - 1) /\ k - (i - 1) \in 1..(Len(s) - i) /\ i + (k - (i - 1)) = k + 1
        BY <1>1, <2>3
      <3>2. b[k - (i - 1)] = s[i + (k - (i - 1))]
        BY <1>3, <3>1
      <3>. QED
        BY <2>1, <2>3, <3>1, <3>2
    <2>. QED
      BY <2>2, <2>3
  <1>. QED
    BY <1>4, <1>5, <1>6, <1>7

\* Without an entry, the cache holds the others, once.
LEMMA WithoutKeeps ==
    ASSUME Palette!PaletteAssumption, CacheKept, NEW key
    PROVE  /\ Palette!Without(key) \in Seq(CacheEntries) /\ KeysDiffer(Palette!Without(key))
           /\ Len(Palette!Without(key)) <= MaxCached
           /\ \A k \in 1..Len(Palette!Without(key)) : Palette!Without(key)[k].items.key # key
  <1>. DEFINE at == {i \in DOMAIN cache : cache[i].items.key = key}
              c == Palette!Without(key)
  <1>1. cache \in Seq(CacheEntries) /\ Len(cache) \in Nat /\ DOMAIN cache = 1..Len(cache)
    BY LenProperties DEF CacheKept
  <1>2. CASE at = {}
    <2>1. c = cache
      BY <1>2 DEF Palette!Without
    <2>2. \A k \in 1..Len(cache) : cache[k].items.key # key
      BY <1>1, <1>2
    <2>. QED
      BY <2>1, <2>2 DEF CacheKept
  <1>3. CASE at # {}
    <2>1. PICK i : i \in at /\ c = Palette!RemoveAt(cache, i)
      <3>1. (CHOOSE i \in at : TRUE) \in at
        BY <1>3
      <3>. QED
        BY <1>3, <3>1 DEF Palette!Without
    <2>2. i \in 1..Len(cache) /\ cache[i].items.key = key
      BY <1>1, <2>1
    <2>. HIDE DEF c, at
    <2>3. /\ c \in Seq(CacheEntries) /\ Len(c) = Len(cache) - 1
          /\ \A k \in 1..(Len(cache) - 1) : c[k] = IF k < i THEN cache[k] ELSE cache[k + 1]
      BY <1>1, <2>1, <2>2, RemoveAtProperties
    <2>4. PICK f \in [1..Len(c) -> Nat] : \A k \in 1..Len(c) : f[k] = IF k < i THEN k ELSE k + 1
      <3>1. [k \in 1..Len(c) |-> IF k < i THEN k ELSE k + 1] \in [1..Len(c) -> Nat]
        OBVIOUS
      <3>. QED
        BY <3>1
    <2>5. ASSUME NEW k \in 1..Len(c)
          PROVE  f[k] \in 1..Len(cache) /\ f[k] # i /\ c[k] = cache[f[k]]
      <3>1. k \in 1..(Len(cache) - 1) /\ f[k] = IF k < i THEN k ELSE k + 1
        BY <2>3, <2>4
      <3>2. f[k] \in 1..Len(cache) /\ f[k] # i
        BY <1>1, <2>2, <3>1
      <3>3. c[k] = cache[f[k]]
        BY <2>3, <3>1
      <3>. QED
        BY <3>2, <3>3
    <2>6. ASSUME NEW k \in 1..Len(c), NEW l \in 1..Len(c), c[k].items.key = c[l].items.key
          PROVE  k = l
      <3>1. f[k] = f[l]
        BY <2>5, <2>6 DEF CacheKept, KeysDiffer
      <3>. QED
        BY <2>2, <2>4, <3>1
    <2>7. ASSUME NEW k \in 1..Len(c) PROVE c[k].items.key # key
      BY <2>2, <2>5 DEF CacheKept, KeysDiffer
    <2>8. Len(c) <= MaxCached
      <3>1. Len(c) = Len(cache) - 1 /\ Len(cache) <= MaxCached
        BY <2>3 DEF CacheKept
      <3>. QED
        BY <1>1, <3>1 DEF Palette!PaletteAssumption
    <2>. QED
      BY <2>3, <2>6, <2>7, <2>8 DEF KeysDiffer, c
  <1>. QED
    BY <1>2, <1>3

\* A list in which keys differ keeps them apart at its end.
LEMMA AppendKeepsKeys ==
    ASSUME NEW c \in Seq(CacheEntries), KeysDiffer(c), NEW e \in CacheEntries,
           \A k \in 1..Len(c) : c[k].items.key # e.items.key
    PROVE  /\ Append(c, e) \in Seq(CacheEntries) /\ KeysDiffer(Append(c, e))
           /\ Len(Append(c, e)) = Len(c) + 1
  <1>. DEFINE d == Append(c, e)
  <1>1. /\ d \in Seq(CacheEntries) /\ Len(d) = Len(c) + 1 /\ Len(c) \in Nat
        /\ \A k \in 1..Len(c) : d[k] = c[k]
        /\ d[Len(c) + 1] = e
    BY AppendProperties, LenProperties
  <1>. HIDE DEF d
  <1>2. ASSUME NEW k \in 1..Len(d), NEW l \in 1..Len(d), d[k].items.key = d[l].items.key
        PROVE  k = l
    <2>1. CASE k \in 1..Len(c) /\ l \in 1..Len(c)
      BY <1>1, <1>2, <2>1 DEF KeysDiffer
    <2>2. CASE k = Len(c) + 1 /\ l \in 1..Len(c)
      BY <1>1, <1>2, <2>2
    <2>3. CASE l = Len(c) + 1 /\ k \in 1..Len(c)
      BY <1>1, <1>2, <2>3
    <2>. QED
      BY <1>1, <2>1, <2>2, <2>3
  <1>. QED
    BY <1>1, <1>2 DEF KeysDiffer, d

\* The last of a list in which keys differ.
LEMMA LastKeepKeys ==
    ASSUME NEW c \in Seq(CacheEntries), KeysDiffer(c), NEW n \in 1..Len(c)
    PROVE  /\ SubSeq(c, n + 1, Len(c)) \in Seq(CacheEntries)
           /\ KeysDiffer(SubSeq(c, n + 1, Len(c)))
           /\ Len(SubSeq(c, n + 1, Len(c))) = Len(c) - n
  <1>. DEFINE d == SubSeq(c, n + 1, Len(c))
  <1>1. Len(c) \in Nat /\ n \in Nat /\ n <= Len(c) /\ \A k \in 1..Len(c) : c[k] \in CacheEntries
    BY LenProperties, ElementOfSeq
  <1>2. n + 1 \in Int /\ Len(c) \in Int /\ \A k \in (n + 1)..Len(c) : c[k] \in CacheEntries
    BY <1>1
  <1>3. /\ d \in Seq(CacheEntries)
        /\ Len(d) = IF n + 1 <= Len(c) THEN Len(c) - (n + 1) + 1 ELSE 0
        /\ \A k \in 1..(Len(c) - (n + 1) + 1) : d[k] = c[(n + 1) + k - 1]
    BY <1>2, SubSeqProperties
  <1>. HIDE DEF d
  <1>4. Len(d) = Len(c) - n
    BY <1>1, <1>3
  <1>5. \A k \in 1..Len(d) : /\ k \in 1..(Len(c) - (n + 1) + 1)
                             /\ (n + 1) + k - 1 = n + k /\ n + k \in 1..Len(c)
    BY <1>1, <1>4
  <1>6. ASSUME NEW k \in 1..Len(d), NEW l \in 1..Len(d), d[k].items.key = d[l].items.key
        PROVE  k = l
    <2>1. d[k] = c[n + k] /\ d[l] = c[n + l]
      BY <1>3, <1>5
    <2>2. n + k = n + l
      BY <1>5, <1>6, <2>1 DEF KeysDiffer
    <2>. QED
      BY <1>1, <2>2
  <1>. QED
    BY <1>3, <1>4, <1>6 DEF KeysDiffer, d

\* _cache_set keeps the cache trimmed and its keys apart.
LEMMA CacheSetKeeps ==
    ASSUME Palette!PaletteAssumption, CacheKept, NEW items \in Palette!Answers,
           cache' = Palette!CacheSet(items)
    PROVE  CacheKept'
  <1>. DEFINE w == Palette!Without(items.key)
              e == [items |-> items, fresh |-> TRUE]
              c == Append(w, e)
  <1>1. e \in CacheEntries /\ e.items.key = items.key
    BY DEF CacheEntries
  <1>2. /\ w \in Seq(CacheEntries) /\ KeysDiffer(w) /\ Len(w) <= MaxCached
        /\ \A k \in 1..Len(w) : w[k].items.key # items.key
    BY WithoutKeeps
  <1>3. cache' = IF Len(c) > MaxCached THEN SubSeq(c, Dropped + 1, Len(c)) ELSE c
    BY DEF Palette!CacheSet
  <1>4. MaxCached \in Nat /\ Dropped \in Nat /\ 1 <= Dropped /\ Dropped <= MaxCached
    BY DEF Palette!PaletteAssumption
  <1>. HIDE DEF w, e
  <1>5. c \in Seq(CacheEntries) /\ KeysDiffer(c) /\ Len(c) = Len(w) + 1
    BY <1>1, <1>2, AppendKeepsKeys
  <1>6. Len(w) \in Nat
    BY <1>2, LenProperties
  <1>. HIDE DEF c
  <1>7. CASE Len(c) > MaxCached
    <2>1. Dropped \in 1..Len(c)
      BY <1>4, <1>5, <1>6, <1>7
    <2>2. /\ cache' \in Seq(CacheEntries) /\ KeysDiffer(cache')
          /\ Len(cache') = Len(c) - Dropped
      BY <1>3, <1>5, <1>7, <2>1, LastKeepKeys
    <2>3. Len(cache') <= MaxCached
      BY <1>2, <1>4, <1>5, <1>6, <2>2
    <2>. QED
      BY <2>2, <2>3 DEF CacheKept, KeysDiffer
  <1>8. CASE ~(Len(c) > MaxCached)
    <2>1. cache' = c /\ Len(c) <= MaxCached
      BY <1>3, <1>4, <1>5, <1>6, <1>8
    <2>. QED
      BY <1>5, <2>1 DEF CacheKept, KeysDiffer
  <1>. QED
    BY <1>7, <1>8

\* A call that changes in place.
LEMMA UpdateKeepsTypes ==
    ASSUME PaletteTyped, NEW n \in DOMAIN calls, NEW c \in CallRecords,
           calls' = [calls EXCEPT ![n] = c], shown' \in Shows,
           UNCHANGED <<open, query, current>>
    PROVE  PaletteTyped'
  <1>1. calls \in Seq(CallRecords) /\ n \in 1..Len(calls)
    BY LenProperties DEF PaletteTyped
  <1>2. calls' \in Seq(CallRecords) /\ Len(calls') = Len(calls)
    BY <1>1, ExceptSeq
  <1>. QED
    BY <1>2 DEF PaletteTyped, Shows, Palette!Idle, Palette!Loading, Palette!Failed,
                CallRecords, Palette!Answers

\* The types of a call and of the cache's entries.
LEMMA CallTypes ==
    ASSUME PaletteTyped, NEW n \in DOMAIN calls
    PROVE  /\ calls[n] \in CallRecords /\ calls[n].q \in Queries
           /\ calls[n].at = "answered" => calls[n].items \in Palette!Answers
           /\ calls[n].at = "pausing" =>
                 [calls[n] EXCEPT !.at = "sent"] = [q |-> calls[n].q, at |-> "sent"]
  <1>1. calls[n] \in CallRecords
    BY LenProperties, ElementOfSeq DEF PaletteTyped
  <1>2. CASE calls[n] \in [q : Queries, at : {"pausing", "sent", "searching", "over"}]
    BY <1>1, <1>2
  <1>3. CASE calls[n] \in [q : Queries, at : {"answered"}, items : Palette!Answers]
    BY <1>1, <1>3
  <1>. QED
    BY <1>1, <1>2, <1>3 DEF CallRecords

\* Two ways a call goes on.
LEMMA NextCallRecords ==
    ASSUME NEW q \in Queries
    PROVE  /\ \A at \in {"pausing", "sent", "searching", "over"} :
                 [q |-> q, at |-> at] \in CallRecords
           /\ \A items \in Palette!Answers :
                 [q |-> q, at |-> "answered", items |-> items] \in CallRecords
  BY DEF CallRecords

\* An effect of the palette starts a call or shows nothing.
LEMMA EffectKeepsTypes ==
    ASSUME PaletteTyped, NEW q \in Texts, Palette!StartEffect(q),
           query' = q, open' = TRUE
    PROVE  PaletteTyped'
  <1>0. calls \in Seq(CallRecords)
    BY DEF PaletteTyped
  <1>1. Len(calls) \in Nat /\ Len(calls) + 1 \in Nat
    <2>1. Len(calls) \in Nat
      BY <1>0, LenProperties
    <2>. QED
      BY <2>1
  <1>2. Palette!Idle \in Shows /\ Palette!Loading \in Shows
    BY DEF Shows
  <1>3. shown' \in Shows /\ calls' \in Seq(CallRecords) /\ Len(calls') \in Calls \cup {0}
        /\ current' \in Nat /\ current' <= Len(calls')
    <2>1. CASE q = ""
      <3>1. shown' = Palette!Idle /\ current' = 0 /\ calls' = calls
        BY <2>1 DEF Palette!StartEffect
      <3>. QED
        BY <1>0, <1>1, <1>2, <3>1 DEF PaletteTyped
    <2>2. CASE q # ""
      <3>1. /\ Len(calls) + 1 \in Calls /\ shown' = Palette!Loading
            /\ current' = Len(calls) + 1
            /\ calls' = Append(calls, [q |-> q, at |-> "pausing"])
        BY <2>2 DEF Palette!StartEffect
      <3>2. [q |-> q, at |-> "pausing"] \in CallRecords
        BY <2>2, NextCallRecords DEF Texts
      <3>3. calls' \in Seq(CallRecords) /\ Len(calls') = Len(calls) + 1
        BY <1>0, <3>1, <3>2, AppendProperties
      <3>4. Len(calls) + 1 \in Nat /\ Len(calls) + 1 <= Len(calls) + 1 /\ 0 <= Len(calls)
        BY <1>1
      <3>. QED
        BY <1>2, <3>1, <3>3, <3>4
    <2>. QED
      BY <2>1, <2>2
  <1>. QED
    BY <1>3 DEF PaletteTyped, Shows, Palette!Idle, Palette!Loading, Palette!Failed,
                CallRecords, Palette!Answers

\* A step that touches the cache alone, or nothing of the types.
LEMMA RestKeepsPalette ==
    ASSUME PaletteTyped, UNCHANGED <<calls, shown>>, open' \in BOOLEAN,
           query' \in Texts, current' \in Nat, current' <= Len(calls)
    PROVE  PaletteTyped'
  BY DEF PaletteTyped, Shows, Palette!Idle, Palette!Loading, Palette!Failed, CallRecords,
         Palette!Answers

\* The palette does not change.
LEMMA SameKeepsPalette ==
    ASSUME PaletteTyped, UNCHANGED <<open, query, shown, current, calls>> PROVE PaletteTyped'
  BY DEF PaletteTyped, Texts, Shows, Palette!Idle, Palette!Loading, Palette!Failed, CallRecords,
         Palette!Answers

\* The cache does not change.
LEMMA RestKeepsCache == ASSUME CacheKept, UNCHANGED cache PROVE CacheKept'
  BY DEF CacheKept, KeysDiffer, CacheEntries, Palette!Answers

\* An empty cache.
LEMMA EmptyKeepsCache ==
    ASSUME Palette!PaletteAssumption, cache' = <<>> PROVE CacheKept'
  <1>1. <<>> \in Seq(CacheEntries) /\ Len(<<>>) = 0
    BY EmptySeq
  <1>2. MaxCached \in Nat
    BY DEF Palette!PaletteAssumption
  <1>3. cache' \in Seq(CacheEntries) /\ Len(cache') = 0
    BY <1>1
  <1>4. KeysDiffer(cache')
    BY <1>3 DEF KeysDiffer
  <1>5. Len(cache') <= MaxCached
    BY <1>2, <1>3
  <1>. QED
    BY <1>3, <1>4, <1>5 DEF CacheKept, KeysDiffer

\* The entry that is thirty seconds old keeps its answer.
LEMMA AgeingKeepsCache == ASSUME CacheKept, Palette!CacheAges PROVE CacheKept'
  <1>1. PICK i \in DOMAIN cache : cache' = [cache EXCEPT ![i].fresh = FALSE]
    BY DEF Palette!CacheAges
  <1>. DEFINE e == [cache[i] EXCEPT !.fresh = FALSE]
  <1>2. cache \in Seq(CacheEntries) /\ i \in 1..Len(cache) /\ cache[i] \in CacheEntries
    BY LenProperties, ElementOfSeq DEF CacheKept
  <1>3. e \in CacheEntries /\ e.items = cache[i].items /\ cache' = [cache EXCEPT ![i] = e]
    BY <1>1, <1>2 DEF CacheEntries
  <1>. HIDE DEF e
  <1>4. /\ cache' \in Seq(CacheEntries) /\ Len(cache') = Len(cache)
        /\ \A j \in 1..Len(cache) : cache'[j] = IF j = i THEN e ELSE cache[j]
    BY <1>2, <1>3, ExceptSeq
  <1>5. \A j \in 1..Len(cache) : cache'[j].items = cache[j].items
    BY <1>3, <1>4
  <1>6. KeysDiffer(cache')
    BY <1>4, <1>5 DEF CacheKept, KeysDiffer
  <1>. QED
    BY <1>4, <1>6 DEF CacheKept, KeysDiffer, CacheEntries, Palette!Answers

\* Calls and the answers they get.
LEMMA CallsKeepTypes ==
    ASSUME Palette!PaletteAssumption, PaletteTyped, CacheKept, NEW n \in DOMAIN calls,
           \/ Palette!Receive(n) \/ Palette!ReceiveError(n)
           \/ Palette!Search(n) \/ Palette!SearchEnds(n)
    PROVE  PaletteTyped' /\ CacheKept'
  <1>. DEFINE q == calls[n].q
  <1>1. /\ calls[n] \in CallRecords /\ q \in Queries
        /\ calls[n].at = "answered" => calls[n].items \in Palette!Answers
    BY CallTypes
  <1>2. /\ \A at \in {"pausing", "sent", "searching", "over"} :
              [q |-> q, at |-> at] \in CallRecords
        /\ \A items \in Palette!Answers :
              [q |-> q, at |-> "answered", items |-> items] \in CallRecords
    BY <1>1, NextCallRecords
  <1>3. shown \in Shows /\ Palette!Failed \in Shows
    BY DEF PaletteTyped, Shows
  <1>4. CASE Palette!Receive(n) \/ Palette!ReceiveError(n)
    <2>1. /\ calls' = [calls EXCEPT ![n] = [q |-> q, at |-> "over"]]
          /\ UNCHANGED <<open, query, current, cache>>
      BY <1>4 DEF Palette!Receive, Palette!ReceiveError
    <2>2. \/ shown' = shown \/ shown' = Palette!Failed
          \/ /\ calls[n].at = "answered"
             /\ shown' = [kind |-> "ok", items |-> calls[n].items]
      BY <1>4 DEF Palette!Receive, Palette!ReceiveError
    <2>3. \A items \in Palette!Answers : [kind |-> "ok", items |-> items] \in Shows
      BY DEF Shows
    <2>4. shown' \in Shows
      BY <1>1, <1>3, <2>2, <2>3
    <2>5. [q |-> q, at |-> "over"] \in CallRecords
      BY <1>2
    <2>. QED
      BY <2>1, <2>4, <2>5, UpdateKeepsTypes, RestKeepsCache
  <1>5. CASE Palette!Search(n)
    <2>. DEFINE hit == Palette!Cached(Key(q))
    <2>1. UNCHANGED <<open, query, shown, current, cache>>
      BY <1>5 DEF Palette!Search
    <2>2. \E c \in CallRecords : calls' = [calls EXCEPT ![n] = c]
      <3>1. CASE hit = {}
        <4>1. calls' = [calls EXCEPT ![n] = [q |-> q, at |-> "searching"]]
          BY <1>5, <3>1 DEF Palette!Search
        <4>. QED
          BY <1>2, <4>1
      <3>2. CASE hit # {}
        <4>1. PICK i : /\ i \in hit
                       /\ calls' = [calls EXCEPT ![n] =
                             [q |-> q, at |-> "answered", items |-> cache[i].items]]
          <5>1. (CHOOSE i \in hit : TRUE) \in hit
            BY <3>2
          <5>. QED
            BY <1>5, <3>2, <5>1 DEF Palette!Search
        <4>2. cache[i] \in CacheEntries
          <5>1. i \in DOMAIN cache
            BY <4>1 DEF Palette!Cached
          <5>. QED
            BY <5>1, LenProperties, ElementOfSeq DEF CacheKept
        <4>3. cache[i].items \in Palette!Answers
          BY <4>2 DEF CacheEntries
        <4>4. [q |-> q, at |-> "answered", items |-> cache[i].items] \in CallRecords
          BY <1>2, <4>3
        <4>. QED
          BY <4>1, <4>4
      <3>. QED
        BY <3>1, <3>2
    <2>. QED
      BY <1>3, <2>1, <2>2, UpdateKeepsTypes, RestKeepsCache
  <1>6. CASE Palette!SearchEnds(n)
    <2>1. PICK replied \in SUBSET Sources :
             /\ cache' = Palette!CacheSet([key |-> Key(q), from |-> replied])
             /\ calls' = [calls EXCEPT ![n] = [q |-> q, at |-> "answered",
                             items |-> [key |-> Key(q), from |-> replied]]]
      BY <1>6 DEF Palette!SearchEnds, Palette!Replies
    <2>. DEFINE items == [key |-> Key(q), from |-> replied]
    <2>2. items \in Palette!Answers
      BY <1>1 DEF Palette!Answers
    <2>3. cache' = Palette!CacheSet(items)
      BY <2>1
    <2>4. calls' = [calls EXCEPT ![n] = [q |-> q, at |-> "answered", items |-> items]]
      BY <2>1
    <2>. HIDE DEF items
    <2>5. [q |-> q, at |-> "answered", items |-> items] \in CallRecords
      BY <1>2, <2>2
    <2>6. UNCHANGED <<open, query, shown, current>>
      BY <1>6 DEF Palette!SearchEnds
    <2>7. CacheKept'
      BY <2>2, <2>3, CacheSetKeeps
    <2>. QED
      BY <1>3, <2>4, <2>5, <2>6, <2>7, UpdateKeepsTypes
  <1>. QED
    BY <1>4, <1>5, <1>6

\* Every step keeps the palette's types and its cache.
LEMMA PaletteTypePreserved ==
    ASSUME Palette!PaletteAssumption, PaletteTypeInv, [Palette!Next]_(Palette!vars)
    PROVE  PaletteTypeInv'
  <1>1. PaletteInv /\ PaletteTyped /\ CacheKept
    BY DEF PaletteTypeInv
  <1>2. PaletteInv'
    BY <1>1, PalettePreserved
  <1>3. /\ open \in BOOLEAN /\ query \in Texts
        /\ current \in Nat /\ current <= Len(calls) /\ 0 <= Len(calls)
    BY <1>1, LenProperties DEF PaletteTyped
  <1>4. ASSUME NEW q \in Texts, Palette!TypeQuery(q) PROVE PaletteTyped' /\ CacheKept'
    <2>1. open' = TRUE /\ UNCHANGED cache /\ query' = q /\ Palette!StartEffect(q)
      BY <1>3, <1>4 DEF Palette!TypeQuery
    <2>. QED
      BY <1>1, <2>1, EffectKeepsTypes, RestKeepsCache
  <1>5. CASE Palette!OpenPalette
    <2>1. open' = TRUE /\ UNCHANGED cache /\ query' = query /\ Palette!StartEffect(query)
      BY <1>5 DEF Palette!OpenPalette
    <2>. QED
      BY <1>1, <1>3, <1>2, <2>1, EffectKeepsTypes, RestKeepsCache DEF PaletteTypeInv
  <1>6. CASE Palette!ClosePalette
    <2>1. /\ open' = FALSE /\ query' = "" /\ current' = 0
          /\ UNCHANGED <<shown, calls>> /\ UNCHANGED cache
      BY <1>6 DEF Palette!ClosePalette
    <2>2. open' \in BOOLEAN /\ query' \in Texts
      BY <2>1 DEF Texts
    <2>3. current' \in Nat /\ current' <= Len(calls)
      BY <1>3, <2>1
    <2>4. PaletteTyped'
      BY <1>1, <2>1, <2>2, <2>3, RestKeepsPalette
    <2>. QED
      BY <1>1, <1>2, <2>1, <2>4, RestKeepsCache DEF PaletteTypeInv
  <1>7. CASE Palette!PauseEnds
    <2>. DEFINE c == [q |-> calls[current].q, at |-> "sent"]
    <2>1. /\ calls[current].at = "pausing" /\ current # 0
          /\ calls' = [calls EXCEPT ![current] = [calls[current] EXCEPT !.at = "sent"]]
          /\ UNCHANGED <<open, query, shown, current>> /\ UNCHANGED cache
      BY <1>7 DEF Palette!PauseEnds
    <2>2. current \in DOMAIN calls
      BY <1>1, <2>1 DEF PaletteInv, CurrentIsAboutQuery
    <2>3. calls' = [calls EXCEPT ![current] = c] /\ calls[current].q \in Queries
      BY <1>1, <2>1, <2>2, CallTypes
    <2>4. c \in CallRecords /\ shown' \in Shows
      BY <1>1, <2>1, <2>3, NextCallRecords DEF PaletteTyped
    <2>. HIDE DEF c
    <2>5. PaletteTyped'
      BY <1>1, <2>1, <2>2, <2>3, <2>4, UpdateKeepsTypes
    <2>. QED
      BY <1>1, <1>2, <2>1, <2>5, RestKeepsCache DEF PaletteTypeInv
  <1>8. CASE Palette!CacheAges
    <2>1. UNCHANGED <<open, query, shown, current, calls>>
      BY <1>8 DEF Palette!CacheAges
    <2>. QED
      BY <1>1, <1>8, <2>1, <1>2, SameKeepsPalette, AgeingKeepsCache DEF PaletteTypeInv
  <1>9. CASE Palette!BackendRestarts
    <2>1. cache' = <<>> /\ UNCHANGED <<open, query, shown, current, calls>>
      BY <1>9 DEF Palette!BackendRestarts
    <2>. QED
      BY <1>1, <2>1, <1>2, SameKeepsPalette, EmptyKeepsCache DEF PaletteTypeInv
  <1>10. ASSUME NEW n \in DOMAIN calls,
                \/ Palette!Receive(n) \/ Palette!ReceiveError(n)
                \/ Palette!Search(n) \/ Palette!SearchEnds(n)
         PROVE  PaletteTyped' /\ CacheKept'
    BY <1>1, <1>10, CallsKeepTypes
  <1>11. CASE UNCHANGED Palette!vars
    <2>1. UNCHANGED <<open, query, shown, current, calls>> /\ UNCHANGED cache
      BY <1>11 DEF Palette!vars
    <2>. QED
      BY <1>1, <2>1, <1>2, SameKeepsPalette, RestKeepsCache DEF PaletteTypeInv
  <1>. QED
    BY <1>2, <1>4, <1>5, <1>6, <1>7, <1>8, <1>9, <1>10, <1>11
    DEF Palette!Next, PaletteTypeInv, Texts

\* A closed palette, no calls, an empty cache.
LEMMA PaletteTypeInit == Palette!PaletteAssumption /\ Palette!Init => PaletteTypeInv
  <1>. SUFFICES ASSUME Palette!PaletteAssumption, Palette!Init PROVE PaletteTypeInv
    OBVIOUS
  <1>1. /\ open = FALSE /\ query = "" /\ shown = Palette!Idle /\ current = 0
        /\ calls = <<>> /\ cache = <<>>
    BY DEF Palette!Init
  <1>2. /\ <<>> \in Seq(CallRecords) /\ <<>> \in Seq(CacheEntries) /\ Len(<<>>) = 0
    BY EmptySeq
  <1>3. open \in BOOLEAN /\ query \in Texts /\ shown \in Shows
    BY <1>1 DEF Texts, Shows
  <1>4. calls \in Seq(CallRecords) /\ Len(calls) \in Calls \cup {0}
    BY <1>1, <1>2
  <1>5. current \in Nat /\ current <= Len(calls)
    <2>1. current = 0 /\ Len(calls) = 0
      BY <1>1, <1>2
    <2>. QED
      BY <2>1
  <1>6. cache \in Seq(CacheEntries) /\ Len(cache) = 0 /\ MaxCached \in Nat
    BY <1>1, <1>2 DEF Palette!PaletteAssumption
  <1>7. KeysDiffer(cache) /\ Len(cache) <= MaxCached
    BY <1>6 DEF KeysDiffer
  <1>. QED
    BY <1>3, <1>4, <1>5, <1>6, <1>7, PaletteInit DEF PaletteTypeInv, PaletteTyped, CacheKept

\* The type invariant of CommandPalette follows.
LEMMA PaletteTypes == PaletteTypeInv => Palette!PaletteTypeOK
  <1>. SUFFICES ASSUME PaletteTypeInv PROVE Palette!PaletteTypeOK
    OBVIOUS
  <1>1. PaletteTyped /\ CacheKept
    BY DEF PaletteTypeInv
  <1>2. /\ DOMAIN calls = 1..Len(calls) /\ \A n \in 1..Len(calls) : calls[n] \in CallRecords
        /\ DOMAIN cache = 1..Len(cache) /\ \A n \in 1..Len(cache) : cache[n] \in CacheEntries
    BY <1>1, LenProperties, ElementOfSeq DEF PaletteTyped, CacheKept
  <1>3. /\ open \in BOOLEAN /\ query \in Queries \cup {""}
        /\ shown \in {Palette!Idle, Palette!Loading, Palette!Failed}
                    \cup [kind : {"ok"}, items : Palette!Answers]
    BY <1>1 DEF PaletteTyped, Texts, Shows
  <1>4. Len(calls) \in Calls \cup {0}
    BY <1>1 DEF PaletteTyped
  <1>5. current \in 0..Len(calls)
    <2>1. Len(calls) \in Nat
      BY <1>1, LenProperties DEF PaletteTyped
    <2>. QED
      BY <1>1, <2>1 DEF PaletteTyped
  <1>6. \A n \in DOMAIN calls :
           calls[n] \in [q : Queries, at : {"pausing", "sent", "searching", "over"}]
                       \cup [q : Queries, at : {"answered"}, items : Palette!Answers]
    BY <1>2 DEF CallRecords
  <1>7. /\ \A i \in DOMAIN cache : cache[i] \in [items : Palette!Answers, fresh : BOOLEAN]
        /\ \A i, j \in DOMAIN cache : cache[i].items.key = cache[j].items.key => i = j
        /\ Len(cache) <= MaxCached
    BY <1>1, <1>2 DEF CacheKept, KeysDiffer, CacheEntries
  <1>. QED
    BY <1>3, <1>4, <1>5, <1>6, <1>7, Zenon DEF Palette!PaletteTypeOK

-----------------------------------------------------------------------------
(* PowerBiEmbed: the report on screen *)

\* Types; one fetch after the other, and a timer only with a report on screen.
EmbedTyped ==
    /\ selected \in Embed!Selections
    /\ listed \in BOOLEAN /\ err \in BOOLEAN /\ timer \in BOOLEAN /\ crossed \in BOOLEAN
    /\ cfg = {} \/ \E s \in Embed!Selections : cfg = {s}
    /\ timer => cfg # {}
    /\ fetches \in Seq(Embed!Fetches) /\ Len(fetches) \in 1..MaxFetches

\* What is still to come answers the selection on screen: an answer for another
\* was disowned, or the last change crossed a refresh.
AnswersFit ==
    \A n \in DOMAIN fetches :
       fetches[n].waiting =>
          \/ fetches[n].by = "selection" /\ fetches[n].cancelled
          \/ fetches[n].by = "timer" /\ crossed
          \/ fetches[n].for = selected

\* Inductive: the report on screen is the selected one.
EmbedInv == EmbedTyped /\ AnswersFit /\ Embed!EmbedMatchesSelection

\* The page opens with the fetch of its first selection.
LEMMA EmbedInit == ServicesAssumption /\ Embed!Init => EmbedInv
  <1>. SUFFICES ASSUME ServicesAssumption, Embed!Init PROVE EmbedInv
    OBVIOUS
  <1>0. MaxFetches \in Nat \ {0}
    BY DEF ServicesAssumption, Embed!EmbedAssumption
  <1>. DEFINE new == Embed!Fetch(selected, "selection")
  <1>1. /\ selected \in Embed!Selections /\ fetches = <<new>>
        /\ cfg = {} /\ err = FALSE /\ timer = FALSE /\ listed = FALSE /\ crossed = FALSE
    BY DEF Embed!Init
  <1>2. new \in Embed!Fetches /\ new.for = selected
    BY <1>1 DEF Embed!Fetch, Embed!Fetches
  <1>. HIDE DEF new
  <1>3. fetches \in Seq(Embed!Fetches) /\ Len(fetches) = 1 /\ fetches[1] = new
    BY <1>1, <1>2
  <1>4. Len(fetches) \in 1..MaxFetches
    BY <1>0, <1>3
  <1>5. EmbedTyped
    BY <1>1, <1>3, <1>4 DEF EmbedTyped
  <1>6. Embed!EmbedMatchesSelection
    BY <1>1 DEF Embed!EmbedMatchesSelection
  <1>7. AnswersFit
    BY <1>2, <1>3 DEF AnswersFit
  <1>. QED
    BY <1>5, <1>6, <1>7 DEF EmbedInv

\* A change of the selection disowns the fetches of the old one, and the new one
\* starts without a config.
LEMMA SelectKeeps ==
    ASSUME ServicesAssumption, EmbedInv, NEW s \in Embed!Selections, Embed!Select(s),
           listed' \in BOOLEAN
    PROVE  EmbedInv'
  <1>. USE DEF Embed!Select
  <1>0. MaxFetches \in Nat \ {0}
    BY DEF ServicesAssumption, Embed!EmbedAssumption
  <1>. DEFINE old == [n \in DOMAIN fetches |-> Embed!Cancel(n)]
              new == Embed!Fetch(s, "selection")
  <1>1. \A n \in DOMAIN fetches : /\ fetches[n] \in Embed!Fetches
                                  /\ Embed!Cancel(n) \in Embed!Fetches
    <2>. TAKE n \in DOMAIN fetches
    <2>1. fetches[n] \in Embed!Fetches
      BY DEF EmbedInv, EmbedTyped
    <2>2. [fetches[n] EXCEPT !.cancelled = TRUE] \in Embed!Fetches
      BY <2>1 DEF Embed!Fetches
    <2>. QED
      BY <2>1, <2>2 DEF Embed!Cancel
  <1>2. /\ new \in Embed!Fetches
        /\ new.for = s /\ new.waiting
    BY DEF Embed!Fetch, Embed!Fetches
  <1>3. old \in Seq(Embed!Fetches) /\ Len(old) = Len(fetches)
    BY <1>1 DEF EmbedInv, EmbedTyped
  <1>4. \A n \in DOMAIN old : old[n] = Embed!Cancel(n) /\ n \in DOMAIN fetches
    OBVIOUS
  <1>. HIDE DEF old, new
  <1>5. fetches' = Append(old, new) /\ Len(fetches) < MaxFetches
    BY DEF old, new
  <1>6. fetches' \in Seq(Embed!Fetches) /\ Len(fetches') \in 1..MaxFetches
    BY <1>0, <1>2, <1>3, <1>5 DEF EmbedInv, EmbedTyped
  <1>7. EmbedTyped' /\ Embed!EmbedMatchesSelection'
    BY <1>6 DEF EmbedTyped, Embed!EmbedMatchesSelection, Embed!Refreshing
  <1>8. ASSUME NEW n \in DOMAIN fetches', fetches'[n].waiting
        PROVE  \/ fetches'[n].by = "selection" /\ fetches'[n].cancelled
               \/ fetches'[n].by = "timer" /\ crossed'
               \/ fetches'[n].for = selected'
    <2>1. CASE n = Len(old) + 1
      BY <1>2, <1>3, <1>5, <2>1
    <2>2. CASE n # Len(old) + 1
      <3>1. n \in DOMAIN old /\ fetches'[n] = old[n]
        BY <1>2, <1>3, <1>5, <2>2
      <3>2. n \in DOMAIN fetches /\ fetches'[n] = Embed!Cancel(n)
        BY <1>4, <3>1
      <3>3. CASE fetches[n].by = "selection"
        BY <1>1, <3>2, <3>3 DEF Embed!Cancel, Embed!Fetches
      <3>4. CASE fetches[n].by # "selection"
        <4>1. fetches'[n] = fetches[n] /\ fetches[n].by = "timer"
          BY <1>1, <3>2, <3>4 DEF Embed!Cancel, Embed!Fetches
        <4>2. Embed!Refreshing
          BY <1>8, <3>2, <4>1 DEF Embed!Refreshing, Embed!Underway
        <4>. QED
          BY <4>1, <4>2
      <3>. QED
        BY <3>3, <3>4
    <2>. QED
      BY <2>1, <2>2
  <1>. QED
    BY <1>7, <1>8 DEF EmbedInv, AnswersFit

\* An answer takes one fetch off those to come; it may reach the screen when it
\* is a refresh or was not disowned.
LEMMA AnswerKeeps ==
    ASSUME EmbedInv, NEW n \in DOMAIN fetches, Embed!Answered(n), fetches[n].waiting,
           UNCHANGED <<selected, listed, crossed>>, err' \in BOOLEAN,
           \/ cfg' = cfg /\ timer' = timer
           \/ /\ cfg' = {fetches[n].for} /\ timer' = TRUE
              /\ fetches[n].by = "timer" \/ ~fetches[n].cancelled
    PROVE  EmbedInv'
  <1>1. fetches[n] \in Embed!Fetches
    BY DEF EmbedInv, EmbedTyped
  <1>. DEFINE f == [fetches[n] EXCEPT !.waiting = FALSE]
  <1>2. f \in Embed!Fetches /\ ~f.waiting
    BY <1>1 DEF Embed!Fetches
  <1>3. fetches' = [fetches EXCEPT ![n] = f]
    BY DEF Embed!Answered
  <1>. HIDE DEF f
  <1>4. fetches' \in Seq(Embed!Fetches) /\ Len(fetches') = Len(fetches)
    BY <1>2, <1>3 DEF EmbedInv, EmbedTyped
  <1>5. EmbedTyped'
    <2>1. fetches[n].for \in Embed!Selections
      BY <1>1 DEF Embed!Fetches
    <2>2. CASE cfg' = cfg /\ timer' = timer
      BY <1>4, <2>2 DEF EmbedInv, EmbedTyped
    <2>3. CASE cfg' = {fetches[n].for} /\ timer' = TRUE
      BY <1>4, <2>1, <2>3 DEF EmbedInv, EmbedTyped
    <2>. QED
      BY <2>2, <2>3
  <1>6. AnswersFit'
    <2>. SUFFICES ASSUME NEW m \in DOMAIN fetches', fetches'[m].waiting
                  PROVE  m \in DOMAIN fetches /\ fetches'[m] = fetches[m]
      BY DEF EmbedInv, AnswersFit
    <2>. QED
      BY <1>2, <1>3 DEF EmbedInv, EmbedTyped
  <1>7. Embed!EmbedMatchesSelection'
    BY <1>1 DEF EmbedInv, AnswersFit, Embed!EmbedMatchesSelection, Embed!Fetches
  <1>. QED
    BY <1>5, <1>6, <1>7 DEF EmbedInv

\* The timer asks for what is selected.
LEMMA TimerKeeps ==
    ASSUME ServicesAssumption, EmbedInv, Embed!TimerFires
    PROVE  EmbedInv'
  <1>0. MaxFetches \in Nat \ {0}
    BY DEF ServicesAssumption, Embed!EmbedAssumption
  <1>. DEFINE new == Embed!Fetch(selected, "timer")
  <1>1. new \in Embed!Fetches /\ new.for = selected
    BY DEF EmbedInv, EmbedTyped, Embed!Fetch, Embed!Fetches
  <1>2. /\ fetches' = Append(fetches, new) /\ Len(fetches) < MaxFetches
        /\ UNCHANGED <<selected, listed, cfg, err, crossed>> /\ timer' = FALSE
    BY DEF Embed!TimerFires
  <1>. HIDE DEF new
  <1>3. fetches' \in Seq(Embed!Fetches) /\ Len(fetches') = Len(fetches) + 1
    BY <1>1, <1>2 DEF EmbedInv, EmbedTyped
  <1>4. EmbedTyped' /\ Embed!EmbedMatchesSelection'
    <2>1. Len(fetches') \in 1..MaxFetches
      BY <1>0, <1>2, <1>3 DEF EmbedInv, EmbedTyped
    <2>. QED
      BY <1>2, <1>3, <2>1 DEF EmbedInv, EmbedTyped, Embed!EmbedMatchesSelection
  <1>5. AnswersFit'
    <2>. SUFFICES ASSUME NEW m \in DOMAIN fetches'
                  PROVE  \/ m \in DOMAIN fetches /\ fetches'[m] = fetches[m]
                         \/ fetches'[m] = new
      BY <1>1, <1>2 DEF EmbedInv, AnswersFit
    <2>. QED
      BY <1>1, <1>2 DEF EmbedInv, EmbedTyped
  <1>. QED
    BY <1>4, <1>5 DEF EmbedInv

\* The page keeps it.
LEMMA EmbedPreserved ==
    ServicesAssumption /\ EmbedInv /\ [Embed!Next]_(Embed!vars) => EmbedInv'
  <1>. SUFFICES ASSUME ServicesAssumption, EmbedInv, [Embed!Next]_(Embed!vars)
                PROVE  EmbedInv'
    OBVIOUS
  <1>1. CASE UNCHANGED Embed!vars
    BY <1>1 DEF EmbedInv, EmbedTyped, AnswersFit, Embed!EmbedMatchesSelection, Embed!vars
  <1>2. ASSUME NEW r \in Reports, Embed!ChooseReport(r) PROVE EmbedInv'
    <2>1. [selected EXCEPT !.report = r] \in Embed!Selections
      BY DEF EmbedInv, EmbedTyped, Embed!Selections
    <2>2. listed' \in BOOLEAN
      BY <1>2 DEF EmbedInv, EmbedTyped, Embed!ChooseReport
    <2>. QED
      BY <1>2, <2>1, <2>2, SelectKeeps DEF Embed!ChooseReport
  <1>3. CASE Embed!SwitchIdentity
    <2>1. [selected EXCEPT !.identity = ~@] \in Embed!Selections
      BY DEF EmbedInv, EmbedTyped, Embed!Selections
    <2>2. listed' \in BOOLEAN
      BY <1>3 DEF EmbedInv, EmbedTyped, Embed!SwitchIdentity
    <2>. QED
      BY <1>3, <2>1, <2>2, SelectKeeps DEF Embed!SwitchIdentity
  <1>4. CASE Embed!ListArrives
    <2>1. CASE UNCHANGED <<selected, cfg, err, timer, fetches, crossed>>
      BY <1>4, <2>1 DEF EmbedInv, EmbedTyped, AnswersFit, Embed!EmbedMatchesSelection,
                        Embed!ListArrives
    <2>2. CASE \E r \in Reports : Embed!Select([selected EXCEPT !.report = r])
      <3>1. PICK r \in Reports : Embed!Select([selected EXCEPT !.report = r])
        BY <2>2
      <3>2. [selected EXCEPT !.report = r] \in Embed!Selections
        BY DEF EmbedInv, EmbedTyped, Embed!Selections
      <3>3. listed' \in BOOLEAN
        BY <1>4 DEF Embed!ListArrives
      <3>. QED
        BY <3>1, <3>2, <3>3, SelectKeeps
    <2>. QED
      BY <1>4, <2>1, <2>2 DEF Embed!ListArrives
  <1>5. ASSUME NEW n \in DOMAIN fetches,
               \/ Embed!ConfigArrives(n) \/ Embed!ConfigFails(n)
               \/ Embed!RefreshArrives(n) \/ Embed!RefreshFails(n)
        PROVE  EmbedInv'
    <2>1. /\ Embed!Answered(n) /\ fetches[n].waiting
          /\ UNCHANGED <<selected, listed, crossed>>
      BY <1>5 DEF Embed!ConfigArrives, Embed!ConfigFails, Embed!RefreshArrives,
                  Embed!RefreshFails, Embed!Underway
    <2>2. /\ err' \in BOOLEAN
          /\ \/ cfg' = cfg /\ timer' = timer
             \/ /\ cfg' = {fetches[n].for} /\ timer' = TRUE
                /\ fetches[n].by = "timer" \/ ~fetches[n].cancelled
      BY <1>5 DEF EmbedInv, EmbedTyped, Embed!ConfigArrives, Embed!ConfigFails,
                  Embed!RefreshArrives, Embed!RefreshFails, Embed!Underway
    <2>. QED
      BY <2>1, <2>2, AnswerKeeps
  <1>. QED
    BY <1>1, <1>2, <1>3, <1>4, <1>5, TimerKeeps DEF Embed!Next

\* The type invariant of the module.
LEMMA EmbedTypes == EmbedInv => Embed!EmbedTypeOK
  BY DEF EmbedInv, EmbedTyped, Embed!EmbedTypeOK

\* The report on screen, and the identity its rows are filtered for, are those the
\* toolbar shows, however late the answers of earlier selections come, unless the
\* last change crossed a refresh (PowerBIEmbed.tsx 163-191).
THEOREM ScreenShowsSelection == Spec => []EmbedMatchesSelection
  <1>. DEFINE Inv == part = "embed" => EmbedInv
  <1>1. Init => Inv
    BY ServicesAssumption, PortalStarts, EmbedInit
  <1>2. Inv /\ [Next]_vars => Inv'
    BY ServicesAssumption, PortalSteps, EmbedPreserved
  <1>3. Inv => EmbedMatchesSelection
    BY DEF EmbedInv, EmbedMatchesSelection
  <1>. QED
    BY <1>1, <1>2, <1>3, PTL DEF Spec

-----------------------------------------------------------------------------
(* PortalStore: the recently opened items *)

\* Types; a row has the time of the last opening, or is gone.
StoreTyped ==
    /\ now \in Nat \ {0} /\ now <= MaxTime
    /\ opened \in [Users -> [Items -> 0..now]]
    /\ recents \in [Users -> [Items -> 0..now]]
    /\ \A u \in Users, i \in Items : recents[u][i] \in {0, opened[u][i]}
    /\ favorites \subseteq Users \X Tiles
    /\ posts \in [Opens -> Store!InFlight \cup {Store!Unsent, Store!Over}]

\* Inductive: recents lose the oldest.
StoreInv == StoreTyped /\ Store!RecentsKeepNewest

\* The items of u whose rows in rs are as new as t.
AsNew(rs, u, t) == {k \in Items : rs[u][k] >= t}

\* RecentsKeepNewest, of a table rs and what was written to it.
KeepsNewest(rs, os) ==
    \A u \in Users, i \in Items : os[u][i] # 0 /\ rs[u][i] = 0 =>
        Cardinality(AsNew(rs, u, os[u][i])) >= MaxRecents

\* An instance has copies of the operators of FiniteSets of its own.
LEMMA StoreCounts ==
    /\ \A S : Store!Cardinality(S) = Cardinality(S)
    /\ \A S : Store!IsFiniteSet(S) <=> IsFiniteSet(S)
  BY DEF Store!Cardinality, Cardinality, Store!IsFiniteSet, IsFiniteSet

\* Users have finitely many items, of which some are kept.
LEMMA StoreLimits ==
    ServicesAssumption => /\ IsFiniteSet(Items)
                          /\ MaxRecents \in Nat \ {0} /\ MaxTime \in Nat \ {0}
  BY StoreCounts DEF ServicesAssumption, Store!StoreAssumption

\* What the table promises, in terms of the operators of FiniteSets.
LEMMA RecentsMeans ==
    /\ Store!RecentsKeepNewest <=> KeepsNewest(recents, opened)
    /\ Store!RecentsKeepNewest' <=> KeepsNewest(recents', opened')
  <1>1. ASSUME NEW rs, NEW os
        PROVE  (\A u \in Users, i \in Items : os[u][i] # 0 /\ rs[u][i] = 0 =>
                   Store!Cardinality(AsNew(rs, u, os[u][i])) >= MaxRecents)
               <=> KeepsNewest(rs, os)
    <2>1. \A u \in Users, i \in Items :
             Store!Cardinality(AsNew(rs, u, os[u][i])) = Cardinality(AsNew(rs, u, os[u][i]))
      BY StoreCounts
    <2>. QED
      BY <2>1 DEF KeepsNewest
  <1>2. Store!RecentsKeepNewest <=> KeepsNewest(recents, opened)
    BY <1>1 DEF Store!RecentsKeepNewest, AsNew
  <1>3. Store!RecentsKeepNewest' <=> KeepsNewest(recents', opened')
    BY <1>1 DEF Store!RecentsKeepNewest, AsNew
  <1>. QED
    BY <1>2, <1>3

\* A user has nothing opened to begin with.
LEMMA StoreInit == ServicesAssumption /\ Store!Init => StoreInv
  <1>. SUFFICES ASSUME ServicesAssumption, Store!Init PROVE StoreInv
    OBVIOUS
  <1>. USE DEF Store!Init
  <1>0. MaxTime \in Nat \ {0}
    BY StoreLimits
  <1>1. StoreTyped
    BY <1>0 DEF StoreTyped
  <1>2. Store!RecentsKeepNewest
    BY DEF Store!RecentsKeepNewest
  <1>. QED
    BY <1>1, <1>2 DEF StoreInv

\* What is in flight is a post of a user about an item.
LEMMA PostTyped ==
    ASSUME StoreTyped, NEW p \in Opens, posts[p].at \in {"sent", "upserted"}
    PROVE  posts[p] \in Store!InFlight
  BY DEF StoreTyped, Store!Unsent, Store!Over

\* A row that becomes the newest takes nothing from the others.
LEMMA UpsertKeeps ==
    ASSUME ServicesAssumption, StoreInv, NEW p \in Opens, Store!UpsertRecent(p)
    PROVE  StoreInv'
  <1>1. /\ posts[p].at = "sent" /\ posts[p] \in Store!InFlight
        /\ posts' = [posts EXCEPT ![p].at = "upserted"]
        /\ UNCHANGED <<now, favorites>>
    BY PostTyped DEF Store!UpsertRecent, StoreInv
  <1>. DEFINE u == posts[p].user
              i == posts[p].item
  <1>2. u \in Users /\ i \in Items
    BY <1>1 DEF Store!InFlight
  <1>3. /\ recents' = [recents EXCEPT ![u][i] = now]
        /\ opened' = [opened EXCEPT ![u][i] = now]
    BY DEF Store!UpsertRecent
  <1>. HIDE DEF u, i
  <1>. DEFINE q == [posts[p] EXCEPT !.at = "upserted"]
  <1>4. q \in Store!InFlight
    BY <1>1 DEF Store!InFlight
  <1>5. posts' = [posts EXCEPT ![p] = q]
    BY <1>1
  <1>. HIDE DEF q
  <1>6. posts' \in [Opens -> Store!InFlight \cup {Store!Unsent, Store!Over}]
    BY <1>4, <1>5 DEF StoreInv, StoreTyped
  <1>7. now \in 0..now /\ now # 0
    BY DEF StoreInv, StoreTyped
  <1>8. /\ opened' \in [Users -> [Items -> 0..now]]
        /\ recents' \in [Users -> [Items -> 0..now]]
        /\ recents'[u][i] = now /\ opened'[u][i] = now
        /\ \A v \in Users, k \in Items :
              v # u \/ k # i => recents'[v][k] = recents[v][k] /\ opened'[v][k] = opened[v][k]
    BY <1>2, <1>3, <1>7 DEF StoreInv, StoreTyped
  <1>9. StoreTyped'
    BY <1>1, <1>6, <1>8 DEF StoreInv, StoreTyped
  <1>10. ASSUME NEW v \in Users, NEW k \in Items, opened'[v][k] # 0, recents'[v][k] = 0
         PROVE  Cardinality(AsNew(recents', v, opened'[v][k])) >= MaxRecents
    <2>1. v # u \/ k # i
      BY <1>7, <1>8, <1>10
    <2>2. opened[v][k] # 0 /\ recents[v][k] = 0 /\ opened'[v][k] = opened[v][k]
      BY <1>8, <1>10, <2>1
    <2>. DEFINE old == AsNew(recents, v, opened[v][k])
                new == AsNew(recents', v, opened'[v][k])
    <2>3. Cardinality(old) >= MaxRecents
      BY <2>2, RecentsMeans DEF StoreInv, KeepsNewest
    <2>4. old \subseteq new
      <3>1. ASSUME NEW j \in Items PROVE recents'[v][j] >= recents[v][j]
        <4>1. recents[v][j] \in 0..now /\ now \in Nat
          BY DEF StoreInv, StoreTyped
        <4>2. recents'[v][j] = recents[v][j] \/ recents'[v][j] = now
          BY <1>8
        <4>. QED
          BY <4>1, <4>2
      <3>2. /\ \A j \in Items : recents'[v][j] \in Int /\ recents[v][j] \in Int
            /\ opened[v][k] \in Int
        BY <1>8 DEF StoreInv, StoreTyped
      <3>. QED
        BY <2>2, <3>1, <3>2 DEF AsNew
    <2>5. IsFiniteSet(new) /\ MaxRecents \in Nat
      BY StoreLimits, FS_Subset DEF AsNew
    <2>. HIDE DEF old, new
    <2>6. Cardinality(old) <= Cardinality(new)
      BY <2>4, <2>5, FS_Subset
    <2>7. Cardinality(new) >= MaxRecents
      BY <2>3, <2>4, <2>5, <2>6, FS_CardinalityType, FS_Subset
    <2>. QED
      BY <2>7 DEF new
  <1>11. Store!RecentsKeepNewest'
    BY <1>10, RecentsMeans DEF KeepsNewest
  <1>. QED
    BY <1>9, <1>11 DEF StoreInv

\* What a trim of u leaves holds the newest rows: as many as a trim leaves, when
\* there were as many.
LEMMA NewestAreKept ==
    ASSUME ServicesAssumption, StoreTyped, NEW u \in Users, NEW K \in Store!Newest(u),
           NEW t \in Nat \ {0}, Cardinality(AsNew(recents, u, t)) >= MaxRecents
    PROVE  Cardinality(K \cap AsNew(recents, u, t)) >= MaxRecents
  <1>1. IsFiniteSet(Items) /\ MaxRecents \in Nat
    BY StoreLimits
  <1>2. /\ \A i \in Items : recents[u][i] \in Nat
        /\ AsNew(recents, u, t) \subseteq Store!Rows(u) /\ Store!Rows(u) \subseteq Items
        /\ K \subseteq Store!Rows(u)
        /\ \A i \in Store!Rows(u) \ K :
              Cardinality(K) = MaxRecents /\ \A k \in K : recents[u][k] >= recents[u][i]
    BY StoreCounts DEF StoreTyped, AsNew, Store!Rows, Store!Newest
  <1>3. /\ IsFiniteSet(AsNew(recents, u, t)) /\ IsFiniteSet(K)
        /\ Cardinality(AsNew(recents, u, t)) \in Nat
    BY <1>1, <1>2, FS_Subset, FS_CardinalityType
  <1>4. CASE AsNew(recents, u, t) \subseteq K
    <2>1. K \cap AsNew(recents, u, t) = AsNew(recents, u, t)
      BY <1>4
    <2>. QED
      BY <2>1
  <1>5. CASE ~(AsNew(recents, u, t) \subseteq K)
    <2>1. PICK i \in AsNew(recents, u, t) : i \notin K
      BY <1>5
    <2>2. /\ i \in Store!Rows(u) \ K /\ recents[u][i] >= t
          /\ Cardinality(K) = MaxRecents
      BY <1>2, <2>1 DEF AsNew
    <2>3. \A k \in K : recents[u][k] >= t
      BY <1>2, <2>2
    <2>4. K \cap AsNew(recents, u, t) = K
      BY <1>2, <2>3 DEF AsNew
    <2>5. Cardinality(K \cap AsNew(recents, u, t)) = MaxRecents
      BY <2>2, <2>4
    <2>6. MaxRecents \in Nat
      BY <1>1
    <2>. QED
      BY <2>5, <2>6
  <1>. QED
    BY <1>4, <1>5

\* A trim takes the oldest.
LEMMA PruneKeeps ==
    ASSUME ServicesAssumption, StoreInv, NEW p \in Opens, Store!PruneRecents(p)
    PROVE  StoreInv'
  <1>1. /\ posts[p].at = "upserted" /\ posts[p] \in Store!InFlight
        /\ posts' = [posts EXCEPT ![p] = Store!Over]
        /\ UNCHANGED <<now, favorites, opened>>
    BY PostTyped DEF Store!PruneRecents, StoreInv
  <1>. DEFINE u == posts[p].user
  <1>2. PICK K \in Store!Newest(u) :
           recents' = [recents EXCEPT ![u] =
                          [i \in Items |-> IF i \in K THEN recents[u][i] ELSE 0]]
    BY DEF Store!PruneRecents, StoreInv, StoreTyped
  <1>3. u \in Users
    BY <1>1 DEF Store!InFlight
  <1>. HIDE DEF u
  <1>4. /\ recents' \in [Users -> [Items -> 0..now]]
        /\ \A k \in Items : recents'[u][k] = IF k \in K THEN recents[u][k] ELSE 0
        /\ \A v \in Users \ {u} : recents'[v] = recents[v]
    BY <1>2, <1>3 DEF StoreInv, StoreTyped
  <1>5. StoreTyped'
    BY <1>1, <1>4 DEF StoreInv, StoreTyped
  <1>6. ASSUME NEW v \in Users, NEW i \in Items, opened[v][i] # 0, recents'[v][i] = 0
        PROVE  Cardinality(AsNew(recents', v, opened[v][i])) >= MaxRecents
    <2>1. CASE v # u
      <3>1. recents'[v] = recents[v]
        BY <1>4, <2>1
      <3>2. AsNew(recents', v, opened[v][i]) = AsNew(recents, v, opened[v][i])
        BY <3>1 DEF AsNew
      <3>. QED
        BY <1>6, <3>1, <3>2, RecentsMeans DEF StoreInv, KeepsNewest
    <2>2. CASE v = u
      <3>. DEFINE t == opened[u][i]
                  new == AsNew(recents', u, t)
      <3>1. /\ t \in Nat \ {0} /\ \A k \in Items : recents[u][k] \in Nat
            /\ recents[u][i] \in {0, t}
        BY <1>3, <1>6, <2>2 DEF StoreInv, StoreTyped
      <3>2. \A k \in Items : k \in new <=> k \in K /\ recents[u][k] >= t
        BY <1>4, <3>1 DEF AsNew
      <3>. HIDE DEF t
      <3>3. new = K \cap AsNew(recents, u, t)
        BY <3>2 DEF AsNew
      <3>. HIDE DEF new
      <3>4. CASE recents[u][i] = 0
        <4>1. Cardinality(AsNew(recents, u, t)) >= MaxRecents
          BY <1>3, <1>6, <2>2, <3>4, RecentsMeans DEF StoreInv, KeepsNewest, t
        <4>2. Cardinality(new) >= MaxRecents
          BY <1>3, <3>1, <3>3, <4>1, NewestAreKept DEF StoreInv
        <4>. QED
          BY <2>2, <4>2 DEF new, t
      <3>5. CASE recents[u][i] # 0
        <4>1. i \in Store!Rows(u) \ K /\ recents[u][i] = t
          BY <1>4, <1>6, <2>2, <3>1, <3>5 DEF Store!Rows
        <4>2. /\ Cardinality(K) = MaxRecents /\ K \subseteq Items
              /\ \A k \in K : recents[u][k] >= t
          BY <4>1, StoreCounts DEF Store!Newest, Store!Rows
        <4>3. new = K
          BY <3>3, <4>2 DEF AsNew
        <4>4. Cardinality(new) >= MaxRecents
          BY <4>2, <4>3, StoreLimits
        <4>. QED
          BY <2>2, <4>4 DEF new, t
      <3>. QED
        BY <3>4, <3>5
    <2>. QED
      BY <2>1, <2>2
  <1>7. Store!RecentsKeepNewest'
    BY <1>1, <1>6, RecentsMeans DEF KeepsNewest
  <1>. QED
    BY <1>5, <1>7 DEF StoreInv

\* The table keeps it: posts and stars of others leave the rows alone.
LEMMA StorePreserved ==
    ServicesAssumption /\ StoreInv /\ [Store!Next]_(Store!vars) => StoreInv'
  <1>. SUFFICES ASSUME ServicesAssumption, StoreInv, [Store!Next]_(Store!vars)
                PROVE  StoreInv'
    OBVIOUS
  <1>0. \A n \in Nat : StoreTyped /\ n = now + 1 =>
           /\ opened \in [Users -> [Items -> 0..n]]
           /\ recents \in [Users -> [Items -> 0..n]]
    BY DEF StoreTyped
  <1>1. ASSUME UNCHANGED <<recents, opened>>, StoreTyped' PROVE StoreInv'
    BY <1>1 DEF StoreInv, Store!RecentsKeepNewest
  <1>2. CASE UNCHANGED Store!vars
    BY <1>1, <1>2 DEF StoreInv, StoreTyped, Store!vars
  <1>3. CASE Store!Tick
    <2>1. /\ now' = now + 1 /\ now < MaxTime /\ now \in Nat \ {0}
          /\ UNCHANGED <<recents, favorites, posts, opened>>
      BY <1>3 DEF StoreInv, StoreTyped, Store!Tick
    <2>2. now' \in Nat \ {0} /\ now' <= MaxTime
      BY <2>1 DEF ServicesAssumption, Store!StoreAssumption
    <2>3. StoreTyped'
      BY <1>0, <2>1, <2>2 DEF StoreInv, StoreTyped
    <2>. QED
      BY <1>1, <2>1, <2>3
  <1>4. ASSUME NEW p \in Opens, NEW u \in Users, NEW i \in Items, Store!OpenItem(p, u, i)
        PROVE  StoreInv'
    <2>. DEFINE q == [at |-> "sent", user |-> u, item |-> i]
    <2>1. q \in Store!InFlight
      BY DEF Store!InFlight
    <2>2. posts' = [posts EXCEPT ![p] = q] /\ UNCHANGED <<now, recents, favorites, opened>>
      BY <1>4 DEF Store!OpenItem
    <2>. HIDE DEF q
    <2>3. StoreTyped'
      BY <2>1, <2>2 DEF StoreInv, StoreTyped
    <2>. QED
      BY <1>1, <2>2, <2>3
  <1>5. CASE Store!PodStops \/ \E p \in Opens : Store!PostLost(p)
    <2>1. StoreTyped' /\ UNCHANGED <<recents, opened>>
      BY <1>5 DEF StoreInv, StoreTyped, Store!PodStops, Store!PostLost
    <2>. QED
      BY <1>1, <2>1
  <1>6. ASSUME NEW u \in Users, NEW i \in Tiles, Store!Star(u, i) \/ Store!Unstar(u, i)
        PROVE  StoreInv'
    <2>1. StoreTyped' /\ UNCHANGED <<recents, opened>>
      BY <1>6 DEF StoreInv, StoreTyped, Store!Star, Store!Unstar
    <2>. QED
      BY <1>1, <2>1
  <1>. QED
    BY <1>2, <1>3, <1>4, <1>5, <1>6, UpsertKeeps, PruneKeeps DEF Store!Next

\* The type invariant of the module.
LEMMA StoreTypes == StoreInv => Store!StoreTypeOK
  BY DEF StoreInv, StoreTyped, Store!StoreTypeOK

\* A user's item that was opened and is no longer in the table has MaxRecents items
\* beside it that were opened at the same time or later, whatever statements of
\* other posts, or the end of the pod, come between the two of _db_upsert_recent
\* (portal-backend.py 225-255).
THEOREM RecentsLoseTheOldest == Spec => []RecentsKeepNewest
  <1>. DEFINE Inv == part = "store" => StoreInv
  <1>1. Init => Inv
    BY ServicesAssumption, PortalStarts, StoreInit
  <1>2. Inv /\ [Next]_vars => Inv'
    BY ServicesAssumption, PortalSteps, StorePreserved
  <1>3. Inv => RecentsKeepNewest
    BY DEF StoreInv, RecentsKeepNewest
  <1>. QED
    BY <1>1, <1>2, <1>3, PTL DEF Spec

-----------------------------------------------------------------------------
(* LearnProgress: the progress of a patient user *)

\* The calls, when n have been made.
LearnCalls(n) ==
    [id : 1..n, from : Browsers, kind : {"get", "put"}, map : Learn!Maps,
     at : {"sent", "writing", "served"}, heard : BOOLEAN]

\* Different calls; one that is between its read and its write is a PUT, and the
\* only one there.
CallsFit(S, n) ==
    /\ S \subseteq LearnCalls(n)
    /\ \A c, d \in S : c.id = d.id => c = d
    /\ \A c \in S : c.at = "writing" => c.kind = "put"
    /\ \A c, d \in S : (c.at = "writing" /\ d.at = "writing") => c = d

\* A PUT has read the progress and has not written it.
Writing(S) == \E c \in S : c.at = "writing"

\* Types.
LearnTyped == Learn!LearnTypeOK /\ CallsFit(sent, made)

\* m knows all that the user finished.
Knows(m) == \A k \in earned : m[k] = "done"

\* What holds as long as nothing disturbed the user: one page is open, and all
\* that is under way is its own; what is pushed or answered is complete; the
\* backend is complete or the one call under way will make it so; the page is
\* complete or waits for a pull.
Patient ==
    /\ \A b \in Browsers : sync[b] # "no"
    /\ \A b, d \in Browsers : (page[b] # "none" /\ page[d] # "none") => b = d
    /\ \A c \in sent : /\ c.heard /\ page[c.from] # "none"
                       /\ c.kind = "put" \/ c.at = "served" => Knows(c.map)
    /\ \/ Knows(progress)
       \/ \E c \in sent : sent = {c} /\ c.kind = "put" /\ c.at # "served"
    /\ \A b \in Browsers : page[b] # "none" =>
          Knows(local[b]) \/ \E c \in sent : c.kind = "get" /\ c.from = b

\* Inductive invariant.
LearnInv == LearnTyped /\ (disturbed \/ Patient)

\* The values of the other attributes that a PUT can have read.
HeldValues == {{}} \cup {{o} : o \in 0..MaxEdits}

\* LearnTyped, conjunct by conjunct.
LEMMA LearnTypedIs ==
    LearnTyped <=>
    /\ local \in [Browsers -> Learn!Maps] /\ progress \in Learn!Maps
    /\ page \in [Browsers -> {"none", "overview"} \cup Keys]
    /\ sync \in [Browsers -> {"unknown", "yes", "no"}]
    /\ made \in 0..MaxCalls /\ CallsFit(sent, made)
    /\ other \in 0..MaxEdits /\ held \in HeldValues /\ (held # {} <=> Writing(sent))
    /\ earned \subseteq Keys /\ disturbed \in BOOLEAN
  BY DEF LearnTyped, Learn!LearnTypeOK, LearnCalls, HeldValues, CallsFit, Writing

\* The same of the next state.
LEMMA LearnTypedNext ==
    ASSUME local' \in [Browsers -> Learn!Maps], progress' \in Learn!Maps,
           page' \in [Browsers -> {"none", "overview"} \cup Keys],
           sync' \in [Browsers -> {"unknown", "yes", "no"}],
           made' \in 0..MaxCalls, CallsFit(sent', made'),
           other' \in 0..MaxEdits, held' \in HeldValues, held' # {} <=> Writing(sent'),
           earned' \subseteq Keys, disturbed' \in BOOLEAN
    PROVE  LearnTyped'
  BY DEF LearnTyped, Learn!LearnTypeOK, LearnCalls, HeldValues, CallsFit, Writing, Learn!Maps,
         Learn!Statuses

\* An empty map, and bounds that are numbers.
LEMMA LearnFacts ==
    ServicesAssumption => /\ MaxCalls \in Nat /\ MaxEdits \in Nat
                          /\ "none" \notin Keys /\ Learn!Nothing \in Learn!Maps
  BY DEF ServicesAssumption, Learn!LearnAssumption, Learn!Nothing, Learn!Maps, Learn!Statuses

\* Nothing is finished or under way to begin with.
LEMMA LearnInit == ServicesAssumption /\ Learn!Init => LearnInv
  <1>. SUFFICES ASSUME ServicesAssumption, Learn!Init PROVE LearnInv
    OBVIOUS
  <1>. USE DEF Learn!Init
  <1>1. LearnTyped
    <2>1. /\ made \in 0..MaxCalls /\ other \in 0..MaxEdits /\ held \in HeldValues
          /\ CallsFit(sent, made) /\ ~Writing(sent)
      BY LearnFacts DEF HeldValues, CallsFit, Writing
    <2>2. local \in [Browsers -> Learn!Maps] /\ progress \in Learn!Maps
      BY LearnFacts
    <2>3. disturbed \in BOOLEAN
      OBVIOUS
    <2>. QED
      BY <2>1, <2>2, <2>3, LearnTypedIs
  <1>2. Patient
    BY DEF Patient, Knows
  <1>. QED
    BY <1>1, <1>2 DEF LearnInv

\* A page that is gone, or gave up, changes no call but whether it is heard, and
\* drops only calls that do not hold the event loop.
LEMMA DisownDoes ==
    ASSUME NEW n, CallsFit(sent, n), NEW S \in SUBSET sent
    PROVE  /\ CallsFit(Learn!Disown(S), n)
           /\ Writing(Learn!Disown(S)) <=> Writing(sent)
           /\ S = {} => Learn!Disown(S) = sent
  <1>. DEFINE left == Learn!Disown(S)
              Deaf(c) == [c EXCEPT !.heard = FALSE]
              gone == {d \in S : d.kind = "put" /\ d.at # "served"}
  <1>1. left = {c \in sent : c \notin S} \cup {Deaf(c) : c \in gone}
    BY DEF Learn!Disown
  <1>2. ASSUME NEW c \in sent
        PROVE  /\ Deaf(c) \in LearnCalls(n) /\ Deaf(c).id = c.id /\ Deaf(c).at = c.at
               /\ Deaf(c).kind = c.kind
    BY DEF CallsFit, LearnCalls
  <1>. HIDE DEF left, Deaf
  <1>3. ASSUME NEW c \in left
        PROVE  /\ c \in LearnCalls(n)
               /\ \E d \in sent : /\ d.id = c.id /\ d.at = c.at /\ d.kind = c.kind
                                  /\ c = IF d \in S THEN Deaf(d) ELSE d
    BY <1>1, <1>2 DEF CallsFit
  <1>4. CallsFit(left, n)
    <2>1. \A c, d \in left : c.id = d.id => c = d
      BY <1>3 DEF CallsFit
    <2>2. \A c, d \in left : (c.at = "writing" /\ d.at = "writing") => c = d
      BY <1>3 DEF CallsFit
    <2>3. \A c \in left : c.at = "writing" => c.kind = "put"
      BY <1>3 DEF CallsFit
    <2>. QED
      BY <1>3, <2>1, <2>2, <2>3 DEF CallsFit
  <1>5. ASSUME NEW c \in sent, c.at = "writing" PROVE \E d \in left : d.at = "writing"
    <2>1. CASE c \notin S
      BY <1>1, <1>5, <2>1
    <2>2. CASE c \in S
      <3>1. c.kind = "put" /\ c.at # "served"
        BY <1>5 DEF CallsFit
      <3>. QED
        BY <1>1, <1>2, <1>5, <2>2, <3>1
    <2>. QED
      BY <2>1, <2>2
  <1>6. S = {} => left = sent
    BY <1>1
  <1>. QED
    BY <1>3, <1>4, <1>5, <1>6 DEF left, Writing

\* What a page calls for.
Wanted == [from : Browsers, kind : {"get", "put"}, map : Learn!Maps]

\* A call more fits, under the next number.
LEMMA OneMoreFits ==
    ASSUME NEW old, NEW n \in Nat, CallsFit(old, n), NEW c \in Wanted
    PROVE  /\ CallsFit(old \cup {Learn!Call(n + 1, c)}, n + 1)
           /\ Writing(old \cup {Learn!Call(n + 1, c)}) <=> Writing(old)
           /\ Learn!Call(n + 1, c).heard /\ Learn!Call(n + 1, c).at = "sent"
           /\ Learn!Call(n + 1, c).from = c.from /\ Learn!Call(n + 1, c).kind = c.kind
           /\ Learn!Call(n + 1, c).map = c.map
  <1>. DEFINE d == Learn!Call(n + 1, c)
  <1>1. /\ d \in LearnCalls(n + 1) /\ d.id = n + 1 /\ d.at = "sent" /\ d.heard
        /\ d.from = c.from /\ d.kind = c.kind /\ d.map = c.map
    BY DEF Learn!Call, LearnCalls, Wanted
  <1>2. ASSUME NEW e \in old PROVE e \in LearnCalls(n + 1) /\ e.id # n + 1
    <2>1. e \in LearnCalls(n)
      BY DEF CallsFit
    <2>. QED
      BY <2>1 DEF LearnCalls
  <1>. HIDE DEF d
  <1>3. CallsFit(old \cup {d}, n + 1) /\ (Writing(old \cup {d}) <=> Writing(old))
    BY <1>1, <1>2 DEF CallsFit, Writing
  <1>. QED
    BY <1>1, <1>3 DEF d

\* The calls of a page load or of a change.
LEMMA SendFits ==
    ASSUME ServicesAssumption, made \in 0..MaxCalls, NEW old, CallsFit(old, made),
           NEW c \in Wanted, NEW d \in Wanted,
           Learn!Send(old, c) \/ Learn!SendBoth(old, c, d)
    PROVE  /\ made' \in 0..MaxCalls /\ CallsFit(sent', made') /\ (Writing(sent') <=> Writing(old))
           /\ Learn!Send(old, c) => sent' = old \cup {Learn!Call(made + 1, c)}
           /\ Learn!SendBoth(old, c, d) =>
                 sent' = old \cup {Learn!Call(made + 1, c), Learn!Call(made + 2, d)}
  <1>0. MaxCalls \in Nat /\ made \in Nat
    BY LearnFacts
  <1>. DEFINE one == old \cup {Learn!Call(made + 1, c)}
              two == one \cup {Learn!Call((made + 1) + 1, d)}
  <1>1. CallsFit(one, made + 1) /\ (Writing(one) <=> Writing(old))
    BY <1>0, OneMoreFits
  <1>2. CallsFit(two, (made + 1) + 1) /\ (Writing(two) <=> Writing(one))
    <2>. HIDE DEF one
    <2>1. made + 1 \in Nat
      BY <1>0
    <2>. QED
      BY <1>1, <2>1, OneMoreFits
  <1>3. CASE Learn!Send(old, c)
    <2>1. made < MaxCalls /\ made' = made + 1 /\ sent' = one
      BY <1>3 DEF Learn!Send
    <2>2. ~Learn!SendBoth(old, c, d)
      BY <1>0, <2>1 DEF Learn!SendBoth
    <2>3. made' \in 0..MaxCalls
      BY <1>0, <2>1
    <2>. QED
      BY <1>1, <2>1, <2>2, <2>3
  <1>4. CASE Learn!SendBoth(old, c, d)
    <2>1. /\ made + 1 < MaxCalls /\ made' = made + 2
          /\ sent' = old \cup {Learn!Call(made + 1, c), Learn!Call(made + 2, d)}
      BY <1>4 DEF Learn!SendBoth
    <2>2. (made + 1) + 1 = made + 2
      BY <1>0
    <2>3. sent' = two /\ made' = (made + 1) + 1
      BY <2>1, <2>2
    <2>4. ~Learn!Send(old, c)
      BY <1>0, <2>1 DEF Learn!Send
    <2>5. made' \in 0..MaxCalls
      BY <1>0, <2>1
    <2>. HIDE DEF one, two
    <2>. QED
      BY <1>1, <1>2, <2>1, <2>3, <2>4, <2>5
  <1>. QED
    BY <1>3, <1>4

\* The calls of the pages are wanted.
LEMMA PagesWant ==
    ASSUME ServicesAssumption, NEW b \in Browsers, NEW m \in Learn!Maps
    PROVE  /\ Learn!Get(b) \in Wanted /\ Learn!Get(b).kind = "get" /\ Learn!Get(b).from = b
           /\ Learn!Put(b, m) \in Wanted /\ Learn!Put(b, m).kind = "put"
           /\ Learn!Put(b, m).from = b /\ Learn!Put(b, m).map = m
  BY LearnFacts DEF Learn!Get, Learn!Put, Wanted

\* The calls of a browser that leaves its page fit as before.
LEMMA LeaveDoes ==
    ASSUME LearnTyped, NEW b \in Browsers
    PROVE  /\ CallsFit(Learn!Leave(b), made)
           /\ Writing(Learn!Leave(b)) <=> Writing(sent)
           /\ Learn!Quiet => Learn!Leave(b) = {}
  <1>. DEFINE S == {c \in sent : c.from = b}
  <1>1. Learn!Leave(b) = Learn!Disown(S) /\ S \in SUBSET sent /\ CallsFit(sent, made)
    BY DEF Learn!Leave, LearnTyped
  <1>. HIDE DEF S
  <1>2. Learn!Quiet => S = {} /\ sent = {}
    BY <1>1 DEF Learn!Quiet
  <1>. QED
    BY <1>1, <1>2, DisownDoes

\* A patient user who has no call under way has all there is, where a page is open.
LEMMA QuietUser ==
    ASSUME Patient, Learn!Quiet
    PROVE  Knows(progress) /\ \A b \in Browsers : page[b] # "none" => Knows(local[b])
  BY DEF Patient, Learn!Quiet

\* A page is loaded, in the only browser that has one open; what is pushed, if
\* anything is, is what was known before.
LEMMA PageLoadPatient ==
    ASSUME ServicesAssumption, LearnTyped, ~disturbed => Patient, ~disturbed',
           disturbed \in BOOLEAN, NEW b \in Browsers, NEW k, k # "none", Learn!Disturb(b, k),
           page' = [page EXCEPT ![b] = k], sync' = [sync EXCEPT ![b] = "unknown"],
           NEW c \in sent', sent' \subseteq {c} \cup {d \in sent' : d.kind = "put" /\ Knows(d.map)},
           c.kind = "get", c.at # "served",
           \A d \in sent' : d.heard /\ d.from = b /\ d.at # "served",
           UNCHANGED <<progress, earned>>
    PROVE  Patient'
  <1>1. /\ ~disturbed /\ Learn!Quiet /\ Patient
        /\ \A d \in Browsers \ {b} : page[d] = "none"
    BY DEF Learn!Disturb
  <1>2. /\ page \in [Browsers -> {"none", "overview"} \cup Keys]
        /\ sync \in [Browsers -> {"unknown", "yes", "no"}]
    BY LearnTypedIs
  <1>3. page'[b] = k /\ \A d \in Browsers \ {b} : page'[d] = "none"
    BY <1>1, <1>2
  <1>4. \A d \in Browsers : sync'[d] # "no"
    BY <1>1, <1>2 DEF Patient
  <1>5. Knows(progress)
    BY <1>1, QuietUser
  <1>6. \A d \in sent' : /\ d.heard /\ page'[d.from] # "none"
                         /\ d.kind = "put" \/ d.at = "served" => Knows(d.map)
    BY <1>3
  <1>. QED
    BY <1>3, <1>4, <1>5, <1>6 DEF Patient, Knows

\* The overview is opened.
LEMMA LoadOverviewKeeps ==
    ASSUME ServicesAssumption, LearnInv, NEW b \in Browsers, Learn!LoadOverview(b)
    PROVE  LearnInv'
  <1>1. /\ page' = [page EXCEPT ![b] = "overview"] /\ sync' = [sync EXCEPT ![b] = "unknown"]
        /\ Learn!Send(Learn!Leave(b), Learn!Get(b)) /\ Learn!Disturb(b, "overview")
        /\ UNCHANGED <<local, progress, other, held, earned>>
    BY DEF Learn!LoadOverview, Learn!backend
  <1>2. LearnTyped /\ disturbed \in BOOLEAN /\ disturbed' \in BOOLEAN
    BY <1>1, LearnTypedIs DEF LearnInv, Learn!Disturb
  <1>3. /\ CallsFit(Learn!Leave(b), made) /\ (Writing(Learn!Leave(b)) <=> Writing(sent))
        /\ Learn!Quiet => Learn!Leave(b) = {}
    BY <1>2, LeaveDoes
  <1>4. Learn!Get(b) \in Wanted /\ Learn!Get(b).kind = "get" /\ Learn!Get(b).from = b
    BY LearnFacts, PagesWant
  <1>5. made \in 0..MaxCalls /\ MaxCalls \in Nat /\ made \in Nat
    BY <1>2, LearnTypedIs, LearnFacts
  <1>6. /\ made' \in 0..MaxCalls /\ CallsFit(sent', made') /\ (Writing(sent') <=> Writing(sent))
        /\ sent' = Learn!Leave(b) \cup {Learn!Call(made + 1, Learn!Get(b))}
    BY <1>1, <1>3, <1>4, <1>5, SendFits
  <1>7. LearnTyped'
    <2>1. /\ page' \in [Browsers -> {"none", "overview"} \cup Keys]
          /\ sync' \in [Browsers -> {"unknown", "yes", "no"}]
      BY <1>1, <1>2, LearnTypedIs
    <2>. QED
      BY <1>1, <1>2, <1>6, <2>1, LearnTypedIs, LearnTypedNext
  <1>8. ASSUME ~disturbed' PROVE Patient'
    <2>. DEFINE c == Learn!Call(made + 1, Learn!Get(b))
    <2>1. c.kind = "get" /\ c.at = "sent" /\ c.heard /\ c.from = b
      BY <1>3, <1>4, <1>5, OneMoreFits
    <2>2. Learn!Quiet /\ sent' = {c}
      BY <1>1, <1>3, <1>6, <1>8 DEF Learn!Disturb
    <2>3. ~disturbed => Patient
      BY DEF LearnInv
    <2>. HIDE DEF c
    <2>. QED
      BY <1>1, <1>2, <1>8, <2>1, <2>2, <2>3, PageLoadPatient
  <1>. QED
    BY <1>2, <1>7, <1>8 DEF LearnInv

\* A module is opened; its first visit is marked and pushed.
LEMMA LoadModuleKeeps ==
    ASSUME ServicesAssumption, LearnInv, NEW b \in Browsers, NEW k \in Keys,
           Learn!LoadModule(b, k)
    PROVE  LearnInv'
  <1>. DEFINE m == Learn!Visited(b, k)
  <1>1. /\ page' = [page EXCEPT ![b] = k] /\ sync' = [sync EXCEPT ![b] = "unknown"]
        /\ local' = [local EXCEPT ![b] = m]
        /\ IF m = local[b] THEN Learn!Send(Learn!Leave(b), Learn!Get(b))
           ELSE Learn!SendBoth(Learn!Leave(b), Learn!Get(b), Learn!Put(b, m))
        /\ Learn!Disturb(b, k) /\ UNCHANGED <<progress, other, held, earned>>
    BY DEF Learn!LoadModule, Learn!backend
  <1>2. LearnTyped /\ disturbed \in BOOLEAN /\ disturbed' \in BOOLEAN
    BY <1>1, LearnTypedIs DEF LearnInv, Learn!Disturb
  <1>3. /\ CallsFit(Learn!Leave(b), made) /\ (Writing(Learn!Leave(b)) <=> Writing(sent))
        /\ Learn!Quiet => Learn!Leave(b) = {}
    BY <1>2, LeaveDoes
  <1>4. m \in Learn!Maps /\ \A d \in Keys : local[b][d] = "done" => m[d] = "done"
    BY <1>2, LearnTypedIs DEF Learn!Visited, Learn!Maps, Learn!Statuses
  <1>. HIDE DEF m
  <1>5. /\ Learn!Get(b) \in Wanted /\ Learn!Get(b).kind = "get" /\ Learn!Get(b).from = b
        /\ Learn!Put(b, m) \in Wanted /\ Learn!Put(b, m).kind = "put"
        /\ Learn!Put(b, m).from = b /\ Learn!Put(b, m).map = m
    BY <1>4, PagesWant
  <1>6. made \in 0..MaxCalls /\ MaxCalls \in Nat /\ made \in Nat /\ k # "none"
    BY <1>2, LearnTypedIs, LearnFacts
  <1>. DEFINE c == Learn!Call(made + 1, Learn!Get(b))
              d == Learn!Call(made + 2, Learn!Put(b, m))
  <1>7. /\ made' \in 0..MaxCalls /\ CallsFit(sent', made') /\ (Writing(sent') <=> Writing(sent))
        /\ sent' \in {Learn!Leave(b) \cup {c}, Learn!Leave(b) \cup {c, d}}
    BY <1>1, <1>3, <1>5, <1>6, SendFits
  <1>8. LearnTyped'
    <2>1. /\ page' \in [Browsers -> {"none", "overview"} \cup Keys]
          /\ sync' \in [Browsers -> {"unknown", "yes", "no"}]
          /\ local' \in [Browsers -> Learn!Maps]
      BY <1>1, <1>2, <1>4, LearnTypedIs
    <2>. QED
      BY <1>1, <1>2, <1>7, <2>1, LearnTypedIs, LearnTypedNext
  <1>9. ASSUME ~disturbed' PROVE Patient'
    <2>1. /\ c.kind = "get" /\ c.at = "sent" /\ c.heard /\ c.from = b
          /\ d.kind = "put" /\ d.at = "sent" /\ d.heard /\ d.from = b /\ d.map = m
      BY <1>5 DEF Learn!Call
    <2>2. /\ Learn!Quiet /\ Learn!Leave(b) = {} /\ ~disturbed
          /\ \A e \in Keys : progress[e] = "done" => local[b][e] = "done"
      BY <1>1, <1>3, <1>9 DEF Learn!Disturb
    <2>3. Patient
      BY <2>2 DEF LearnInv
    <2>4. Knows(m)
      <3>1. Knows(progress) /\ earned \subseteq Keys
        BY <1>2, <2>2, <2>3, QuietUser, LearnTypedIs
      <3>. QED
        BY <1>4, <2>2, <3>1 DEF Knows
    <2>. HIDE DEF c, d
    <2>5. /\ c \in sent' /\ \A e \in sent' : e.heard /\ e.from = b /\ e.at # "served"
          /\ sent' \subseteq {c} \cup {e \in sent' : e.kind = "put" /\ Knows(e.map)}
      BY <1>7, <2>1, <2>2, <2>4
    <2>. QED
      BY <1>1, <1>2, <1>6, <1>9, <2>1, <2>3, <2>5, PageLoadPatient
  <1>. QED
    BY <1>2, <1>8, <1>9 DEF LearnInv

\* The local map is replaced and, unless the page found no backend, pushed.
LEMMA SetLocalDoes ==
    ASSUME ServicesAssumption, LearnTyped, NEW b \in Browsers, NEW m \in Learn!Maps,
           Learn!SetLocal(b, m)
    PROVE  /\ local' \in [Browsers -> Learn!Maps] /\ local'[b] = m
           /\ \A d \in Browsers \ {b} : local'[d] = local[d]
           /\ made' \in 0..MaxCalls /\ CallsFit(sent', made')
           /\ Writing(sent') <=> Writing(sent)
           /\ sync[b] # "no" => \E c : /\ sent' = sent \cup {c} /\ c.heard /\ c.at = "sent"
                                       /\ c.kind = "put" /\ c.from = b /\ c.map = m
  <1>1. /\ local' = [local EXCEPT ![b] = m]
        /\ \/ UNCHANGED <<sent, made>> /\ sync[b] = "no"
           \/ Learn!Send(sent, Learn!Put(b, m))
    BY DEF Learn!SetLocal
  <1>2. /\ local \in [Browsers -> Learn!Maps] /\ made \in 0..MaxCalls /\ CallsFit(sent, made)
        /\ made \in Nat
    BY LearnTypedIs, LearnFacts
  <1>3. /\ local' \in [Browsers -> Learn!Maps] /\ local'[b] = m
        /\ \A d \in Browsers \ {b} : local'[d] = local[d]
    BY <1>1, <1>2
  <1>4. /\ Learn!Put(b, m) \in Wanted /\ Learn!Put(b, m).kind = "put"
        /\ Learn!Put(b, m).from = b /\ Learn!Put(b, m).map = m
    BY PagesWant
  <1>5. CASE Learn!Send(sent, Learn!Put(b, m))
    <2>. DEFINE c == Learn!Call(made + 1, Learn!Put(b, m))
    <2>1. /\ made' \in 0..MaxCalls /\ CallsFit(sent', made') /\ (Writing(sent') <=> Writing(sent))
          /\ sent' = sent \cup {c}
      BY <1>2, <1>4, <1>5, SendFits
    <2>2. c.heard /\ c.at = "sent" /\ c.kind = "put" /\ c.from = b /\ c.map = m
      BY <1>2, <1>4, OneMoreFits
    <2>. HIDE DEF c
    <2>. QED
      BY <1>3, <2>1, <2>2
  <1>6. CASE UNCHANGED <<sent, made>> /\ sync[b] = "no"
    BY <1>2, <1>3, <1>6
  <1>. QED
    BY <1>1, <1>5, <1>6

\* A module is finished: its push is the one call that the backend lacks.
LEMMA FinishKeeps ==
    ASSUME ServicesAssumption, LearnInv, NEW b \in Browsers, Learn!Finish(b)
    PROVE  LearnInv'
  <1>. DEFINE m == [local[b] EXCEPT ![page[b]] = "done"]
  <1>1. /\ page[b] \in Keys /\ Learn!SetLocal(b, m) /\ earned' = earned \cup {page[b]}
        /\ disturbed' = (disturbed \/ ~Learn!Quiet \/ sync[b] = "no")
        /\ UNCHANGED <<page, sync, progress, other, held>>
    BY DEF Learn!Finish, Learn!backend
  <1>2. LearnTyped /\ disturbed \in BOOLEAN /\ local[b] \in Learn!Maps
    BY LearnTypedIs DEF LearnInv
  <1>3. /\ m \in Learn!Maps /\ m[page[b]] = "done"
        /\ \A k \in Keys : local[b][k] = "done" => m[k] = "done"
    BY <1>1, <1>2 DEF Learn!Maps, Learn!Statuses
  <1>. HIDE DEF m
  <1>4. /\ local' \in [Browsers -> Learn!Maps] /\ local'[b] = m
        /\ \A d \in Browsers \ {b} : local'[d] = local[d]
        /\ made' \in 0..MaxCalls /\ CallsFit(sent', made')
        /\ Writing(sent') <=> Writing(sent)
        /\ sync[b] # "no" => \E c : /\ sent' = sent \cup {c} /\ c.heard /\ c.at = "sent"
                                    /\ c.kind = "put" /\ c.from = b /\ c.map = m
    BY <1>1, <1>2, <1>3, SetLocalDoes
  <1>5. disturbed' \in BOOLEAN
    BY <1>1
  <1>6. LearnTyped'
    <2>1. earned' \subseteq Keys
      BY <1>1, <1>2, LearnTypedIs
    <2>. QED
      BY <1>1, <1>2, <1>4, <1>5, <2>1, LearnTypedIs, LearnTypedNext
  <1>7. ASSUME ~disturbed' PROVE Patient'
    <2>1. ~disturbed /\ Learn!Quiet /\ sync[b] # "no" /\ Patient /\ sent = {}
      BY <1>1, <1>7 DEF LearnInv, Learn!Quiet
    <2>2. PICK c : /\ sent' = {c} /\ c.heard /\ c.at = "sent"
                   /\ c.kind = "put" /\ c.from = b /\ c.map = m
      BY <1>4, <2>1
    <2>3. page[b] # "none" /\ \A d \in Browsers : page[d] # "none" => d = b
      BY <1>1, <2>1, LearnFacts DEF Patient
    <2>4. \A k \in earned' : m[k] = "done"
      <3>1. Knows(local[b]) /\ earned \subseteq Keys
        BY <1>2, <2>1, <2>3, QuietUser, LearnTypedIs
      <3>. QED
        BY <1>1, <1>3, <3>1 DEF Knows
    <2>5. \A k \in earned' : c.map[k] = "done" /\ local'[b][k] = "done"
      BY <1>4, <2>2, <2>4
    <2>. QED
      BY <1>1, <1>4, <2>1, <2>2, <2>3, <2>5 DEF Patient, Knows
  <1>. QED
    BY <1>5, <1>6, <1>7 DEF LearnInv

\* The progress is reset, or the browser is closed.
LEMMA ResetOrCloseKeeps ==
    ASSUME ServicesAssumption, LearnInv, NEW b \in Browsers,
           Learn!Reset(b) \/ Learn!CloseBrowser(b)
    PROVE  LearnInv'
  <1>1. LearnTyped /\ disturbed \in BOOLEAN
    BY LearnTypedIs DEF LearnInv
  <1>2. CASE Learn!Reset(b)
    <2>1. /\ Learn!SetLocal(b, Learn!Nothing) /\ disturbed' = TRUE
          /\ UNCHANGED <<page, sync, progress, other, held, earned>>
      BY <1>2 DEF Learn!Reset, Learn!backend
    <2>2. /\ local' \in [Browsers -> Learn!Maps] /\ made' \in 0..MaxCalls
          /\ CallsFit(sent', made') /\ (Writing(sent') <=> Writing(sent))
      BY <1>1, <2>1, LearnFacts, SetLocalDoes
    <2>3. LearnTyped'
      BY <1>1, <2>1, <2>2, LearnTypedIs, LearnTypedNext
    <2>. QED
      BY <2>1, <2>3 DEF LearnInv
  <1>3. CASE Learn!CloseBrowser(b)
    <2>1. /\ page' = [page EXCEPT ![b] = "none"] /\ sent' = Learn!Leave(b)
          /\ disturbed' = (disturbed \/ ~Learn!Quiet)
          /\ UNCHANGED <<local, sync, made, progress, other, held, earned>>
      BY <1>3 DEF Learn!CloseBrowser, Learn!backend
    <2>2. /\ CallsFit(sent', made) /\ (Writing(sent') <=> Writing(sent))
          /\ Learn!Quiet => sent' = {}
      BY <1>1, <2>1, LeaveDoes
    <2>3. disturbed' \in BOOLEAN
      BY <2>1
    <2>4. /\ page' \in [Browsers -> {"none", "overview"} \cup Keys] /\ page'[b] = "none"
          /\ \A d \in Browsers \ {b} : page'[d] = page[d]
      BY <1>1, <2>1, LearnTypedIs
    <2>5. LearnTyped'
      BY <1>1, <2>1, <2>2, <2>3, <2>4, LearnTypedIs, LearnTypedNext
    <2>6. ASSUME ~disturbed' PROVE Patient'
      <3>1. ~disturbed /\ Learn!Quiet /\ Patient /\ sent' = {}
        BY <2>1, <2>2, <2>6 DEF LearnInv
      <3>2. Knows(progress) /\ \A d \in Browsers : page[d] # "none" => Knows(local[d])
        BY <3>1, QuietUser
      <3>3. \A d \in Browsers : page'[d] # "none" => page[d] # "none"
        BY <2>4
      <3>. QED
        BY <2>1, <3>1, <3>2, <3>3 DEF Patient, Knows
    <2>. QED
      BY <2>3, <2>5, <2>6 DEF LearnInv
  <1>. QED
    BY <1>2, <1>3

\* An answer arrives: a pull replaces the local map, a push changes nothing.
LEMMA AnsweredKeeps ==
    ASSUME ServicesAssumption, LearnInv, NEW c \in sent, Learn!Pulled(c) \/ Learn!Pushed(c)
    PROVE  LearnInv'
  <1>1. /\ c.at = "served" /\ sent' = sent \ {c} /\ sync' = [sync EXCEPT ![c.from] = "yes"]
        /\ c.kind = "get" => local' = [local EXCEPT ![c.from] = c.map]
        /\ c.kind # "get" => local' = local
        /\ UNCHANGED <<page, made, progress, other, held, earned, disturbed>>
    BY DEF Learn!Pulled, Learn!Pushed, Learn!backend, Learn!history
  <1>2. LearnTyped /\ disturbed \in BOOLEAN /\ CallsFit(sent, made)
    BY LearnTypedIs DEF LearnInv
  <1>3. c.from \in Browsers /\ c.map \in Learn!Maps
    BY <1>2 DEF CallsFit, LearnCalls
  <1>4. /\ local' \in [Browsers -> Learn!Maps]
        /\ c.kind = "get" => local'[c.from] = c.map
        /\ \A d \in Browsers : d # c.from \/ c.kind # "get" => local'[d] = local[d]
        /\ sync' \in [Browsers -> {"unknown", "yes", "no"}] /\ sync'[c.from] = "yes"
        /\ \A d \in Browsers \ {c.from} : sync'[d] = sync[d]
    BY <1>1, <1>2, <1>3, LearnTypedIs
  <1>5. CallsFit(sent', made) /\ (Writing(sent') <=> Writing(sent))
    BY <1>1, <1>2 DEF CallsFit, Writing
  <1>6. LearnTyped'
    BY <1>1, <1>2, <1>4, <1>5, LearnTypedIs, LearnTypedNext
  <1>7. ASSUME ~disturbed' PROVE Patient'
    <2>1. Patient
      BY <1>1, <1>7 DEF LearnInv
    <2>2. Knows(c.map) /\ page[c.from] # "none" /\ Knows(progress)
      BY <1>1, <2>1 DEF Patient
    <2>3. ASSUME NEW b \in Browsers, page[b] # "none"
          PROVE  Knows(local'[b]) \/ \E d \in sent' : d.kind = "get" /\ d.from = b
      <3>1. b = c.from
        BY <1>3, <2>1, <2>2, <2>3 DEF Patient
      <3>2. CASE c.kind = "get"
        BY <1>4, <2>2, <3>1, <3>2
      <3>3. CASE c.kind # "get"
        BY <1>1, <1>4, <2>1, <2>3, <3>3 DEF Patient
      <3>. QED
        BY <3>2, <3>3
    <2>. QED
      BY <1>1, <1>4, <2>1, <2>2, <2>3 DEF Patient, Knows
  <1>. QED
    BY <1>1, <1>2, <1>6, <1>7 DEF LearnInv

\* A call fails: the page has given up, and the user may be behind.
LEMMA CallFailsKeeps ==
    ASSUME ServicesAssumption, LearnInv, NEW c \in sent, Learn!CallFails(c)
    PROVE  LearnInv'
  <1>1. /\ sent' = Learn!Disown({c}) /\ sync' = [sync EXCEPT ![c.from] = "no"]
        /\ disturbed' = TRUE /\ UNCHANGED <<local, page, made, progress, other, held, earned>>
    BY DEF Learn!CallFails, Learn!backend
  <1>2. LearnTyped /\ CallsFit(sent, made) /\ {c} \in SUBSET sent
    BY LearnTypedIs DEF LearnInv
  <1>3. CallsFit(sent', made) /\ (Writing(sent') <=> Writing(sent))
    BY <1>1, <1>2, DisownDoes
  <1>4. sync' \in [Browsers -> {"unknown", "yes", "no"}]
    BY <1>1, <1>2, LearnTypedIs
  <1>5. LearnTyped'
    BY <1>1, <1>2, <1>3, <1>4, LearnTypedIs, LearnTypedNext
  <1>. QED
    BY <1>1, <1>5 DEF LearnInv

\* A call goes on at the backend: its record is replaced.
LEMMA ReplaceFits ==
    ASSUME LearnTyped, NEW c \in sent, NEW d \in LearnCalls(made), d.id = c.id, d.kind = c.kind,
           Learn!Replace(c, d), d.at = "writing" => d.kind = "put" /\ ~Writing(sent)
    PROVE  CallsFit(sent', made) /\ (d.at = "writing" => Writing(sent'))
           /\ (d.at # "writing" /\ c.at # "writing" => (Writing(sent') <=> Writing(sent)))
           /\ (d.at # "writing" /\ c.at = "writing" => ~Writing(sent'))
  <1>1. sent' = (sent \ {c}) \cup {d} /\ CallsFit(sent, made)
    BY DEF Learn!Replace, LearnTyped
  <1>2. \A e, f \in sent' : e.id = f.id => e = f
    BY <1>1 DEF CallsFit
  <1>. QED
    BY <1>1, <1>2 DEF CallsFit, Writing

\* A pull is answered with what the backend has.
LEMMA GetProgressKeeps ==
    ASSUME ServicesAssumption, LearnInv, NEW c \in sent, Learn!GetProgress(c)
    PROVE  LearnInv'
  <1>. DEFINE d == [c EXCEPT !.at = "served", !.map = progress]
  <1>1. /\ c.at = "sent" /\ c.kind = "get" /\ Learn!Replace(c, d)
        /\ UNCHANGED <<local, page, sync, made, progress, other, held, earned, disturbed>>
    BY DEF Learn!GetProgress, Learn!Arrived, Learn!pages, Learn!backend, Learn!history
  <1>2. LearnTyped /\ disturbed \in BOOLEAN /\ progress \in Learn!Maps /\ c \in LearnCalls(made)
    BY LearnTypedIs DEF LearnInv, CallsFit
  <1>3. /\ d \in LearnCalls(made) /\ d.id = c.id /\ d.kind = "get" /\ d.at = "served"
        /\ d.map = progress /\ d.from = c.from /\ d.heard = c.heard
    BY <1>1, <1>2 DEF LearnCalls
  <1>. HIDE DEF d
  <1>4. CallsFit(sent', made) /\ (Writing(sent') <=> Writing(sent))
    BY <1>1, <1>2, <1>3, ReplaceFits
  <1>5. LearnTyped'
    BY <1>1, <1>2, <1>4, LearnTypedIs, LearnTypedNext
  <1>6. ASSUME ~disturbed' PROVE Patient'
    <2>1. Patient
      BY <1>1, <1>6 DEF LearnInv
    <2>2. PICK e : e = d
      OBVIOUS
    <2>3. sent' = (sent \ {c}) \cup {e} /\ Knows(progress) /\ Knows(e.map)
      BY <1>1, <1>3, <2>1, <2>2 DEF Learn!Replace, Patient
    <2>4. /\ e.heard /\ page[e.from] # "none" /\ e.kind = "get" /\ e.from = c.from
      BY <1>3, <2>1, <2>2 DEF Patient
    <2>5. ASSUME NEW b \in Browsers, page[b] # "none"
          PROVE  Knows(local[b]) \/ \E f \in sent' : f.kind = "get" /\ f.from = b
      BY <2>1, <2>3, <2>4, <2>5 DEF Patient
    <2>. QED
      BY <1>1, <2>1, <2>3, <2>4, <2>5 DEF Patient, Knows
  <1>. QED
    BY <1>1, <1>2, <1>5, <1>6 DEF LearnInv

\* A PUT reads the user's attributes.
LEMMA PutLooksUpKeeps ==
    ASSUME ServicesAssumption, LearnInv, NEW c \in sent, Learn!PutLooksUp(c)
    PROVE  LearnInv'
  <1>. DEFINE d == [c EXCEPT !.at = "writing"]
  <1>1. /\ c.at = "sent" /\ c.kind = "put" /\ Learn!Replace(c, d) /\ held = {} /\ held' = {other}
        /\ UNCHANGED <<local, page, sync, made, progress, other, earned, disturbed>>
    BY DEF Learn!PutLooksUp, Learn!Arrived, Learn!pages, Learn!history
  <1>2. /\ LearnTyped /\ disturbed \in BOOLEAN /\ c \in LearnCalls(made)
        /\ ~Writing(sent) /\ other \in 0..MaxEdits
    BY <1>1, LearnTypedIs DEF LearnInv, CallsFit
  <1>3. /\ d \in LearnCalls(made) /\ d.id = c.id /\ d.kind = "put" /\ d.at = "writing"
        /\ d.map = c.map /\ d.from = c.from /\ d.heard = c.heard
    BY <1>1, <1>2 DEF LearnCalls
  <1>. HIDE DEF d
  <1>4. CallsFit(sent', made) /\ Writing(sent')
    BY <1>1, <1>2, <1>3, ReplaceFits
  <1>5. LearnTyped'
    <2>1. held' \in HeldValues /\ held' # {}
      BY <1>1, <1>2 DEF HeldValues
    <2>. QED
      BY <1>1, <1>2, <1>4, <2>1, LearnTypedIs, LearnTypedNext
  <1>6. ASSUME ~disturbed' PROVE Patient'
    <2>1. Patient
      BY <1>1, <1>6 DEF LearnInv
    <2>2. PICK e : e = d
      OBVIOUS
    <2>3. /\ sent' = (sent \ {c}) \cup {e} /\ e.kind = "put" /\ e.at # "served"
          /\ e.heard /\ page[e.from] # "none" /\ Knows(e.map)
      BY <1>1, <1>3, <2>1, <2>2 DEF Learn!Replace, Patient
    <2>4. Knows(progress) \/ sent' = {e}
      BY <1>1, <2>1, <2>3 DEF Patient
    <2>5. ASSUME NEW b \in Browsers, page[b] # "none"
          PROVE  Knows(local[b]) \/ \E f \in sent' : f.kind = "get" /\ f.from = b
      BY <1>1, <2>1, <2>3, <2>5 DEF Patient
    <2>. QED
      BY <1>1, <2>1, <2>3, <2>4, <2>5 DEF Patient, Knows
  <1>. QED
    BY <1>1, <1>2, <1>5, <1>6 DEF LearnInv

\* A PUT replaces the map, and is answered when its page still listens.
LEMMA PutWritesKeeps ==
    ASSUME ServicesAssumption, LearnInv, NEW c \in sent, Learn!PutWrites(c)
    PROVE  LearnInv'
  <1>. DEFINE d == [c EXCEPT !.at = "served"]
  <1>1. /\ c.at = "writing" /\ progress' = c.map /\ other' \in held /\ held' = {}
        /\ IF c.heard THEN Learn!Replace(c, d) ELSE sent' = sent \ {c}
        /\ UNCHANGED <<local, page, sync, made, earned, disturbed>>
    BY DEF Learn!PutWrites, Learn!pages, Learn!history
  <1>2. /\ LearnTyped /\ disturbed \in BOOLEAN /\ c \in LearnCalls(made) /\ c.kind = "put"
        /\ c.map \in Learn!Maps /\ CallsFit(sent, made)
    BY <1>1, LearnTypedIs DEF LearnInv, CallsFit, LearnCalls
  <1>3. /\ d \in LearnCalls(made) /\ d.id = c.id /\ d.kind = "put" /\ d.at = "served"
        /\ d.map = c.map /\ d.from = c.from /\ d.heard = c.heard
    BY <1>2 DEF LearnCalls
  <1>. HIDE DEF d
  <1>4. CallsFit(sent', made) /\ ~Writing(sent')
    <2>1. CASE c.heard
      BY <1>1, <1>2, <1>3, <2>1, ReplaceFits
    <2>2. CASE ~c.heard
      BY <1>1, <1>2, <2>2 DEF CallsFit, Writing
    <2>. QED
      BY <2>1, <2>2
  <1>5. LearnTyped'
    <2>1. held' \in HeldValues
      BY <1>1 DEF HeldValues
    <2>2. other' \in 0..MaxEdits
      BY <1>1, <1>2, LearnTypedIs DEF HeldValues
    <2>. QED
      BY <1>1, <1>2, <1>4, <2>1, <2>2, LearnTypedIs, LearnTypedNext
  <1>6. ASSUME ~disturbed' PROVE Patient'
    <2>1. Patient
      BY <1>1, <1>6 DEF LearnInv
    <2>2. PICK e : e = d
      OBVIOUS
    <2>3. /\ sent' = (sent \ {c}) \cup {e} /\ e.kind = "put"
          /\ e.heard /\ page[e.from] # "none" /\ Knows(e.map) /\ Knows(c.map)
      BY <1>1, <1>2, <1>3, <2>1, <2>2 DEF Learn!Replace, Patient
    <2>4. ASSUME NEW b \in Browsers, page[b] # "none"
          PROVE  Knows(local[b]) \/ \E f \in sent' : f.kind = "get" /\ f.from = b
      BY <1>2, <2>1, <2>3, <2>4 DEF Patient
    <2>. QED
      BY <1>1, <2>1, <2>3, <2>4 DEF Patient, Knows
  <1>. QED
    BY <1>1, <1>2, <1>5, <1>6 DEF LearnInv

\* Every step of the Academy keeps LearnInv.
LEMMA LearnPreserved == ServicesAssumption /\ LearnInv /\ [Learn!Next]_(Learn!vars) => LearnInv'
  <1>. SUFFICES ASSUME ServicesAssumption, LearnInv, [Learn!Next]_(Learn!vars)
                PROVE  LearnInv'
    OBVIOUS
  <1>1. LearnTyped /\ disturbed \in BOOLEAN
    BY LearnTypedIs DEF LearnInv
  <1>2. CASE UNCHANGED Learn!vars
    <2>1. UNCHANGED <<local, page, sync, sent, made, progress, other, held, earned, disturbed>>
      BY <1>2 DEF Learn!vars
    <2>2. LearnTyped'
      BY <1>1, <2>1, LearnTypedIs, LearnTypedNext
    <2>. QED
      BY <2>1, <2>2 DEF LearnInv, Patient, Knows
  <1>3. ASSUME NEW b \in Browsers,
               \/ Learn!LoadOverview(b) \/ Learn!Finish(b)
               \/ Learn!Reset(b) \/ Learn!CloseBrowser(b)
        PROVE  LearnInv'
    BY <1>3, LoadOverviewKeeps, FinishKeeps, ResetOrCloseKeeps
  <1>4. ASSUME NEW b \in Browsers, NEW k \in Keys, Learn!LoadModule(b, k)
        PROVE  LearnInv'
    BY <1>4, LoadModuleKeeps
  <1>5. ASSUME NEW c \in sent,
               \/ Learn!Pulled(c) \/ Learn!Pushed(c) \/ Learn!CallFails(c)
               \/ Learn!GetProgress(c) \/ Learn!PutLooksUp(c) \/ Learn!PutWrites(c)
        PROVE  LearnInv'
    BY <1>5, AnsweredKeeps, CallFailsKeeps, GetProgressKeeps, PutLooksUpKeeps, PutWritesKeeps
  <1>6. CASE Learn!EditOther
    <2>1. /\ other < MaxEdits /\ other' = other + 1
          /\ UNCHANGED <<local, page, sync, sent, made, progress, held, earned, disturbed>>
      BY <1>6 DEF Learn!EditOther, Learn!pages, Learn!history
    <2>2. other' \in 0..MaxEdits
      BY <1>1, <2>1, LearnTypedIs, LearnFacts
    <2>3. LearnTyped'
      BY <1>1, <2>1, <2>2, LearnTypedIs, LearnTypedNext
    <2>. QED
      BY <2>1, <2>3 DEF LearnInv, Patient, Knows
  <1>. QED
    BY <1>2, <1>3, <1>4, <1>5, <1>6 DEF Learn!Next

\* The types of LearnProgress.
LEMMA LearnTypes == LearnInv => Learn!LearnTypeOK
  BY DEF LearnInv, LearnTyped

\* A user with one page open, whose calls are answered, who waits for them and
\* opens the overview first in a new browser, keeps every finished module at the
\* backend, although each page load races a pull with a push of the whole map
\* (learn-progress.ts, bootstrap and trySync; learn-backend.py, put_progress).
THEOREM PatientUsersKeepTheirModules == Spec => []FinishedStaysFinished
  <1>. DEFINE Inv == part = "learn" => LearnInv
  <1>1. Init => Inv
    BY ServicesAssumption, PortalStarts, LearnInit
  <1>2. Inv /\ [Next]_vars => Inv'
    BY ServicesAssumption, PortalSteps, LearnPreserved
  <1>3. Inv => FinishedStaysFinished
    BY QuietUser DEF LearnInv, FinishedStaysFinished, Learn!FinishedStaysFinished, Knows
  <1>. QED
    BY <1>1, <1>2, <1>3, PTL DEF Spec

-----------------------------------------------------------------------------
(* NotificationBell: the list of events *)

\* x is in the sequence s.
Among(s, x) == \E i \in 1..Len(s) : s[i] = x

\* s has nothing twice.
Distinct(s) == \A i, j \in 1..Len(s) : s[i] = s[j] => i = j

\* Types; nothing is twice in the history, on its way or in the list.
BellTyped ==
    /\ published \subseteq ever /\ ever \subseteq Events
    /\ history \in Seq(published) /\ Len(history) <= HistorySize /\ Distinct(history)
    /\ stream \in [at : {"away", "replay", "live"}, coming : Seq(published)]
    /\ Distinct(stream.coming) /\ (stream.at = "away" => stream.coming = <<>>)
    /\ bellShown \in Seq(ever) /\ Len(bellShown) <= MaxEvents /\ Distinct(bellShown)
    /\ missed \in BOOLEAN /\ uneven \in BOOLEAN

\* A connection that missed nothing, and a page that has missed nothing so far.
Following == stream.at # "away" /\ ~missed
Even == ~uneven /\ ~missed

\* How many events of the history a connection has delivered; negative when
\* events that are on their way have left the history already.
Arrived(c, h) == Len(h) - Len(c)

\* What is on its way are the last events, as the history has them.
IsEndOf(c, h) ==
    /\ \A i \in 1..Len(c), j \in 1..Len(h) : j - i = Arrived(c, h) => c[i] = h[j]
    /\ Len(c) > Len(h) => Len(h) = HistorySize

\* The newest event is listed as soon as it is delivered.
NewestListed(c, h, l) == c = <<>> /\ h # <<>> => Among(l, h[Len(h)])

\* The events that are listed and will come once more.
Again(c, l) == {x \in Events : Among(l, x) /\ Among(c, x)}

\* After n events that were new to the list, no more than 2 * MaxEvents - 1 of
\* them counted: the first n listed do not come again; all but the first
\* MaxEvents - 1 of the n are listed in the order of the history; and the others
\* that were delivered had been listed before.
Renewed(n, c, h, l) ==
    /\ \A i \in 1..Len(l) : i <= n => ~Among(c, l[i])
    /\ \A i \in 1..MaxEvents : i <= n + 1 - MaxEvents /\ i <= Arrived(c, h) =>
          i <= Len(l) /\ l[i] = h[Arrived(c, h) + 1 - i]
    /\ n = 2 * MaxEvents - 1 \/ Arrived(c, h) + Cardinality(Again(c, l)) <= MaxEvents + n

\* While nothing has left the history, the list is two runs of it: the events
\* up to the k-th, which a replay has put in front, and those up to the m-th,
\* of which it has pushed some out.  What is behind them is of an earlier backend.
TwoRuns(k, m, h, l) ==
    /\ k = 0 \/ m > MaxEvents
    /\ \A i \in 1..MaxEvents : i <= k => i <= Len(l) /\ l[i] = h[k + 1 - i]
    /\ \A i \in 1..MaxEvents : i > k /\ i - k <= m => i <= Len(l) /\ l[i] = h[m + 1 - (i - k)]
    /\ \A i \in 1..Len(l) : i - k > m => ~Among(h, l[i])

\* A connection that has delivered a events: either it repeats what is in front,
\* or it is about to start over, or it has delivered all that the list knows.
Repeats(k, m, a) ==
    \/ k > 0 /\ a <= k
    \/ k = 0 /\ m <= MaxEvents /\ a <= m
    \/ k = 0 /\ m > MaxEvents /\ a \in {0, m}

\* Inductive, of a connection that missed nothing.
BellFollows ==
    Following => IsEndOf(stream.coming, history)
                 /\ NewestListed(stream.coming, history, bellShown)

\* Inductive, of an even list at a connection.
BellRenews ==
    Even /\ stream.at # "away" =>
        \E n \in 0..(2 * MaxEvents - 1) : Renewed(n, stream.coming, history, bellShown)

\* Inductive, of an even list while nothing has left the history.
BellRuns ==
    Even /\ Len(history) < HistorySize =>
        \E k \in 0..(MaxEvents - 1), m \in 0..Len(history) :
            /\ TwoRuns(k, m, history, bellShown)
            /\ stream.at # "away" => Repeats(k, m, Arrived(stream.coming, history))

\* Inductive: a connection that is complete has listed the newest events.
BellInv == BellTyped /\ BellFollows /\ BellRenews /\ BellRuns

\* The constants of the bell.
LEMMA BellLimits ==
    ServicesAssumption => /\ MaxEvents \in Nat \ {0} /\ HistorySize \in Nat \ {0}
                          /\ HistorySize >= 3 * MaxEvents - 1
  BY DEF ServicesAssumption, Bell!BellAssumption

\* h2 is the history h after x.
Grown(h, h2, x) ==
    IF Len(h) < HistorySize
    THEN Len(h2) = Len(h) + 1 /\ h2[Len(h) + 1] = x /\ (\A i \in 1..Len(h) : h2[i] = h[i])
    ELSE Len(h2) = Len(h) /\ h2[Len(h)] = x /\ (\A i \in 1..(Len(h) - 1) : h2[i] = h[i + 1])

\* c2 is what is on its way once the first of c is delivered.
Delivered(c, c2) == Len(c2) = Len(c) - 1 /\ \A i \in 1..Len(c2) : c2[i] = c[i + 1]

\* c2 is what is on its way once x is sent after c.
Sent(c, c2, x) ==
    Len(c2) = Len(c) + 1 /\ c2[Len(c) + 1] = x /\ \A i \in 1..Len(c) : c2[i] = c[i]

\* l2 is the list l with x in front.
InFront(l, l2, x) ==
    /\ Len(l2) = IF Len(l) < MaxEvents THEN Len(l) + 1 ELSE MaxEvents
    /\ l2[1] = x /\ \A i \in 2..Len(l2) : l2[i] = l[i - 1]

\* A history that gets one event longer, or loses its oldest one.
LEMMA HistoryGrows ==
    ASSUME ServicesAssumption, NEW S, NEW h \in Seq(S), NEW x \in S, Len(h) <= HistorySize
    PROVE  /\ Bell!LastOf(Append(h, x), HistorySize) \in Seq(S)
           /\ Grown(h, Bell!LastOf(Append(h, x), HistorySize), x)
  <1>. DEFINE a == Append(h, x)
              b == IF Len(a) > HistorySize THEN Len(a) - HistorySize + 1 ELSE 1
              t == SubSeq(a, b, Len(a))
  <1>1. /\ a \in Seq(S) /\ Len(a) = Len(h) + 1 /\ a[Len(h) + 1] = x
        /\ \A i \in 1..Len(h) : a[i] = h[i]
    BY AppendProperties
  <1>2. HistorySize \in Nat \ {0} /\ Len(h) \in Nat
    BY BellLimits
  <1>3. Bell!LastOf(Append(h, x), HistorySize) = t
    BY DEF Bell!LastOf
  <1>. HIDE DEF a
  <1>4. b = IF Len(h) < HistorySize THEN 1 ELSE 2
    BY <1>1, <1>2
  <1>. HIDE DEF b
  <1>5. /\ t \in Seq(S) /\ Len(t) = Len(a) - b + 1
        /\ \A i \in 1..(Len(a) - b + 1) : t[i] = a[b + i - 1]
    <2>1. b \in 1..(Len(a) + 1) /\ Len(a) \in 0..Len(a) /\ Len(a) \in Nat /\ b <= Len(a)
      BY <1>1, <1>2, <1>4
    <2>. QED
      BY <2>1, <1>1, SubSeqProperties
  <1>. HIDE DEF t
  <1>6. Grown(h, t, x)
    <2>1. CASE Len(h) < HistorySize
      BY <2>1, <1>1, <1>2, <1>4, <1>5 DEF Grown
    <2>2. CASE ~(Len(h) < HistorySize)
      <3>1. Len(h) = HistorySize /\ b = 2
        BY <2>2, <1>2, <1>4
      <3>. QED
        BY <2>2, <3>1, <1>1, <1>2, <1>5 DEF Grown
    <2>. QED
      BY <2>1, <2>2
  <1>. QED
    BY <1>3, <1>5, <1>6

\* What is listed already stays where it is, and what is new comes first.
LEMMA ListGrows ==
    ASSUME ServicesAssumption, NEW S, bellShown \in Seq(S), NEW x \in S,
           Len(bellShown) <= MaxEvents
    PROVE  /\ Bell!Listed(x) \in Seq(S)
           /\ Among(bellShown, x) => Bell!Listed(x) = bellShown
           /\ ~Among(bellShown, x) => InFront(bellShown, Bell!Listed(x), x)
  <1>. DEFINE a == <<x>> \o bellShown
              b == IF Len(a) > MaxEvents THEN MaxEvents ELSE Len(a)
              t == SubSeq(a, 1, b)
  <1>1. Bell!Listed(x) = IF Among(bellShown, x) THEN bellShown ELSE t
    BY DEF Bell!Listed, Bell!Contains, Bell!FirstOf, Among
  <1>2. /\ a \in Seq(S) /\ Len(a) = Len(bellShown) + 1 /\ a[1] = x
        /\ \A i \in 2..(Len(bellShown) + 1) : a[i] = bellShown[i - 1]
    <2>1. <<x>> \in Seq(S) /\ Len(<<x>>) = 1 /\ <<x>>[1] = x
      OBVIOUS
    <2>. QED
      BY <2>1, ConcatProperties
  <1>3. MaxEvents \in Nat \ {0} /\ Len(bellShown) \in Nat
    BY BellLimits
  <1>. HIDE DEF a
  <1>4. b = IF Len(bellShown) < MaxEvents THEN Len(bellShown) + 1 ELSE MaxEvents
    BY <1>2, <1>3
  <1>. HIDE DEF b
  <1>5. t \in Seq(S) /\ Len(t) = b /\ \A i \in 1..b : t[i] = a[i]
    <2>1. 1 \in 1..(Len(a) + 1) /\ b \in 0..Len(a) /\ 1 <= b /\ b \in Nat
      BY <1>2, <1>3, <1>4
    <2>2. /\ t \in Seq(S) /\ Len(t) = IF 1 <= b THEN b - 1 + 1 ELSE 0
          /\ \A i \in 1..(b - 1 + 1) : t[i] = a[1 + i - 1]
      BY <2>1, <1>2, SubSeqProperties
    <2>. QED
      BY <2>1, <2>2
  <1>. HIDE DEF t
  <1>6. InFront(bellShown, t, x)
    <2>1. b \in Nat /\ 1 <= b /\ b <= Len(bellShown) + 1
      BY <1>3, <1>4
    <2>2. t[1] = x
      BY <1>2, <1>5, <2>1
    <2>3. ASSUME NEW i \in 2..b PROVE t[i] = bellShown[i - 1]
      <3>1. i \in 1..b /\ i \in 2..(Len(bellShown) + 1)
        BY <1>3, <2>1, <2>3
      <3>. QED
        BY <1>2, <1>5, <3>1
    <2>. QED
      BY <1>4, <1>5, <2>2, <2>3 DEF InFront
  <1>. QED
    BY <1>1, <1>5, <1>6

\* Events that will come once more are no more than the list is long.
LEMMA AgainIsShort ==
    ASSUME NEW c, NEW l \in Seq(Events)
    PROVE  /\ IsFiniteSet(Again(c, l)) /\ Cardinality(Again(c, l)) \in Nat
           /\ Cardinality(Again(c, l)) <= Len(l)
  <1>. DEFINE T == {x \in Events : Among(l, x)}
              f == [i \in 1..Len(l) |-> l[i]]
  <1>0. Len(l) \in Nat /\ \A i \in 1..Len(l) : l[i] \in Events
    BY ElementOfSeq
  <1>1. f \in Surjection(1..Len(l), T)
    <2>1. f \in [1..Len(l) -> T]
      BY <1>0 DEF Among
    <2>2. ASSUME NEW x \in T PROVE \E i \in 1..Len(l) : f[i] = x
      BY <2>2 DEF Among
    <2>. QED
      BY <2>1, <2>2 DEF Surjection
  <1>2. IsFiniteSet(1..Len(l)) /\ Cardinality(1..Len(l)) = Len(l)
    <2>1. /\ IsFiniteSet(1..Len(l))
          /\ Cardinality(1..Len(l)) = IF 1 > Len(l) THEN 0 ELSE Len(l) - 1 + 1
      BY <1>0, FS_Interval, SMT
    <2>. QED
      BY <1>0, <2>1
  <1>3. IsFiniteSet(T) /\ Cardinality(T) <= Len(l)
    BY <1>1, <1>2, FS_Surjection
  <1>4. Again(c, l) \subseteq T
    BY DEF Again
  <1>. HIDE DEF T, f
  <1>5. IsFiniteSet(Again(c, l)) /\ Cardinality(Again(c, l)) <= Cardinality(T)
    BY <1>3, <1>4, FS_Subset
  <1>6. Cardinality(Again(c, l)) \in Nat /\ Cardinality(T) \in Nat
    BY <1>3, <1>5, FS_CardinalityType
  <1>. QED
    BY <1>0, <1>3, <1>5, <1>6

\* What is on its way stays the end of the history when its first is delivered,
LEMMA EndDelivered ==
    ASSUME NEW c, NEW c2, NEW h, Len(c) \in Nat \ {0}, Len(h) \in Nat,
           IsEndOf(c, h), Delivered(c, c2)
    PROVE  IsEndOf(c2, h)
  <1>1. Len(c) \in Nat /\ Len(h) \in Nat /\ Len(c2) = Len(c) - 1
    BY DEF Delivered
  <1>2. ASSUME NEW i \in 1..Len(c2), NEW j \in 1..Len(h), j - i = Arrived(c2, h)
        PROVE  c2[i] = h[j]
    <2>1. i + 1 \in 1..Len(c) /\ j - (i + 1) = Arrived(c, h)
      BY <1>1, <1>2 DEF Arrived
    <2>2. c[i + 1] = h[j]
      BY <2>1 DEF IsEndOf
    <2>. QED
      BY <2>2 DEF Delivered
  <1>. QED
    BY <1>1, <1>2 DEF IsEndOf

\* and when an event is published and sent.
LEMMA EndSent ==
    ASSUME ServicesAssumption, NEW c, NEW c2, NEW h, NEW h2, NEW x, Len(c) \in Nat,
           Len(h) \in Nat, Len(h) <= HistorySize,
           IsEndOf(c, h), Sent(c, c2, x), Grown(h, h2, x)
    PROVE  IsEndOf(c2, h2)
  <1>1. /\ Len(c) \in Nat /\ Len(h) \in Nat /\ Len(c2) = Len(c) + 1
        /\ HistorySize \in Nat \ {0}
    BY BellLimits DEF Sent
  <1>2. Len(c) > Len(h) => Len(h) = HistorySize
    BY DEF IsEndOf
  <1>3. Len(c2) > Len(h2) => Len(h2) = HistorySize
    BY <1>1, <1>2 DEF Grown
  <1>4. ASSUME NEW i \in 1..Len(c2), NEW j \in 1..Len(h2), j - i = Arrived(c2, h2)
        PROVE  c2[i] = h2[j]
    <2>1. CASE i = Len(c) + 1
      <3>1. j = Len(h2)
        BY <1>1, <1>4, <2>1 DEF Arrived
      <3>2. h2[Len(h2)] = x
        BY <1>1 DEF Grown
      <3>. QED
        BY <2>1, <3>1, <3>2 DEF Sent
    <2>2. CASE i # Len(c) + 1
      <3>1. i \in 1..Len(c) /\ c2[i] = c[i]
        BY <1>1, <2>2 DEF Sent
      <3>2. CASE Len(h) < HistorySize
        <4>1. Len(h2) = Len(h) + 1 /\ \A g \in 1..Len(h) : h2[g] = h[g]
          BY <3>2 DEF Grown
        <4>2. Len(h2) = Len(h) + 1 /\ j - i = Len(h2) - Len(c2)
          BY <1>4, <4>1 DEF Arrived
        <4>3. j \in Nat /\ i \in Nat /\ i <= Len(c) /\ j <= Len(h) + 1 /\ j >= 1
          BY <1>1, <3>1, <4>2
        <4>4. j \in 1..Len(h) /\ j - i = Len(h) - Len(c)
          BY <1>1, <4>2, <4>3
        <4>. QED
          BY <3>1, <4>1, <4>4 DEF IsEndOf, Arrived
      <3>3. CASE ~(Len(h) < HistorySize)
        <4>1. Len(h2) = Len(h) /\ \A g \in 1..(Len(h) - 1) : h2[g] = h[g + 1]
          BY <3>3 DEF Grown
        <4>2. j \in 1..(Len(h) - 1) /\ j + 1 \in 1..Len(h) /\ (j + 1) - i = Arrived(c, h)
          BY <1>1, <1>4, <3>1, <4>1 DEF Arrived
        <4>3. c[i] = h[j + 1]
          BY <3>1, <4>2 DEF IsEndOf
        <4>. QED
          BY <3>1, <4>1, <4>2, <4>3
      <3>. QED
        BY <3>2, <3>3
    <2>. QED
      BY <2>1, <2>2
  <1>. QED
    BY <1>3, <1>4 DEF IsEndOf

\* A connection starts with nothing renewed.
LEMMA StartsRenewed ==
    ASSUME ServicesAssumption, NEW h, NEW l \in Seq(Events), Len(h) \in Nat,
           Len(l) <= MaxEvents
    PROVE  Renewed(0, h, h, l)
  <1>1. MaxEvents \in Nat \ {0}
    BY BellLimits
  <1>2. Arrived(h, h) = 0
    BY DEF Arrived
  <1>3. /\ Cardinality(Again(h, l)) \in Nat /\ Cardinality(Again(h, l)) <= MaxEvents
    BY <1>1, AgainIsShort
  <1>4. \A i \in 1..Len(l) : ~(i <= 0)
    OBVIOUS
  <1>5. \A i \in 1..MaxEvents : ~(i <= 0 + 1 - MaxEvents)
    BY <1>1
  <1>6. Arrived(h, h) + Cardinality(Again(h, l)) <= MaxEvents + 0
    BY <1>1, <1>2, <1>3
  <1>. QED
    BY <1>4, <1>5, <1>6 DEF Renewed

\* An event that is listed and is delivered will not come again.
LEMMA HitRenews ==
    ASSUME ServicesAssumption, NEW c, NEW c2, NEW h, NEW l \in Seq(Events),
           Len(c) \in Nat \ {0}, Len(h) \in Nat, Len(l) <= MaxEvents, Distinct(c),
           c[1] \in Events, Delivered(c, c2), Among(l, c[1]), NEW n \in 0..(2 * MaxEvents - 1),
           Renewed(n, c, h, l)
    PROVE  Renewed(n, c2, h, l)
  <1>1. MaxEvents \in Nat \ {0} /\ Len(l) \in Nat /\ Len(c2) = Len(c) - 1
    BY BellLimits DEF Delivered
  <1>2. \A x : Among(c2, x) => Among(c, x)
    <2>1. \A i \in 1..Len(c2) : i + 1 \in 1..Len(c)
      BY <1>1
    <2>. QED
      BY <2>1 DEF Among, Delivered
  <1>3. ~Among(c2, c[1]) /\ Among(c, c[1])
    <2>1. 1 \in 1..Len(c) /\ \A i \in 1..Len(c2) : i + 1 \in 1..Len(c) /\ i + 1 # 1
      BY <1>1
    <2>. QED
      BY <2>1 DEF Among, Delivered, Distinct
  <1>4. n < MaxEvents
    <2>1. PICK i \in 1..Len(l) : l[i] = c[1]
      BY DEF Among
    <2>2. ~(i <= n)
      BY <1>3, <2>1 DEF Renewed
    <2>. QED
      BY <1>1, <2>2
  <1>5. Arrived(c, h) + Cardinality(Again(c, l)) <= MaxEvents + n
    BY <1>1, <1>4 DEF Renewed
  <1>6. Again(c2, l) \subseteq Again(c, l) \ {c[1]} /\ c[1] \in Again(c, l)
    BY <1>2, <1>3 DEF Again
  <1>7. /\ IsFiniteSet(Again(c, l)) /\ Cardinality(Again(c, l)) \in Nat
        /\ Cardinality(Again(c2, l)) \in Nat
    BY AgainIsShort
  <1>8. Cardinality(Again(c2, l)) <= Cardinality(Again(c, l)) - 1
    <2>1. /\ IsFiniteSet(Again(c, l) \ {c[1]})
          /\ Cardinality(Again(c, l) \ {c[1]}) = Cardinality(Again(c, l)) - 1
      BY <1>6, <1>7, FS_RemoveElement
    <2>2. Cardinality(Again(c2, l)) <= Cardinality(Again(c, l) \ {c[1]})
      BY <1>6, <2>1, FS_Subset
    <2>. QED
      BY <2>1, <2>2
  <1>9. Arrived(c2, h) = Arrived(c, h) + 1 /\ Arrived(c, h) \in Int
    BY <1>1 DEF Arrived
  <1>10. Arrived(c2, h) + Cardinality(Again(c2, l)) <= MaxEvents + n
    BY <1>1, <1>5, <1>7, <1>8, <1>9
  <1>11. \A i \in 1..Len(l) : i <= n => ~Among(c2, l[i])
    BY <1>2 DEF Renewed
  <1>12. \A i \in 1..MaxEvents : ~(i <= n + 1 - MaxEvents)
    BY <1>1, <1>4
  <1>. QED
    BY <1>10, <1>11, <1>12 DEF Renewed

\* An event that is new to the list is one more that is renewed.
LEMMA PushRenews ==
    ASSUME ServicesAssumption, NEW c, NEW c2, NEW h, NEW l \in Seq(Events),
           NEW l2 \in Seq(Events), Len(c) \in Nat \ {0}, Len(h) \in Nat,
           Len(l) <= MaxEvents, Distinct(c), IsEndOf(c, h),
           Delivered(c, c2), InFront(l, l2, c[1]), NEW n \in 0..(2 * MaxEvents - 1),
           Renewed(n, c, h, l)
    PROVE  \E k \in 0..(2 * MaxEvents - 1) : Renewed(k, c2, h, l2)
  <1>. DEFINE k == IF n = 2 * MaxEvents - 1 THEN n ELSE n + 1
  <1>1. MaxEvents \in Nat \ {0} /\ Len(l) \in Nat /\ Len(c2) = Len(c) - 1
    BY BellLimits DEF Delivered
  <1>2. /\ k \in 0..(2 * MaxEvents - 1) /\ k <= n + 1
        /\ k = 2 * MaxEvents - 1 \/ (k = n + 1 /\ n # 2 * MaxEvents - 1)
    BY <1>1
  <1>. HIDE DEF k
  <1>3. \A x : Among(c2, x) => Among(c, x)
    <2>1. \A i \in 1..Len(c2) : i + 1 \in 1..Len(c)
      BY <1>1
    <2>. QED
      BY <2>1 DEF Among, Delivered
  <1>4. ~Among(c2, c[1])
    <2>1. 1 \in 1..Len(c) /\ \A i \in 1..Len(c2) : i + 1 \in 1..Len(c) /\ i + 1 # 1
      BY <1>1
    <2>. QED
      BY <2>1 DEF Among, Delivered, Distinct
  <1>5. /\ Len(l2) \in Nat /\ Len(l2) <= Len(l) + 1 /\ Len(l2) <= MaxEvents
        /\ Len(l2) = Len(l) + 1 \/ Len(l2) = MaxEvents
        /\ l2[1] = c[1] /\ \A i \in 2..Len(l2) : l2[i] = l[i - 1]
    BY <1>1 DEF InFront
  <1>6. Arrived(c2, h) = Arrived(c, h) + 1 /\ Arrived(c, h) \in Int
    BY <1>1 DEF Arrived
  <1>7. ASSUME NEW i \in 1..Len(l2), i <= k PROVE ~Among(c2, l2[i])
    <2>1. CASE i = 1
      BY <1>4, <1>5, <2>1
    <2>2. CASE i # 1
      <3>1. i \in 2..Len(l2) /\ i - 1 \in 1..Len(l) /\ i - 1 <= n
        BY <1>1, <1>2, <1>5, <1>7, <2>2
      <3>2. l2[i] = l[i - 1] /\ ~Among(c, l[i - 1])
        BY <1>5, <3>1 DEF Renewed
      <3>. QED
        BY <1>3, <3>2
    <2>. QED
      BY <2>1, <2>2
  <1>8. ASSUME NEW i \in 1..MaxEvents, i <= k + 1 - MaxEvents, i <= Arrived(c2, h)
        PROVE  i <= Len(l2) /\ l2[i] = h[Arrived(c2, h) + 1 - i]
    <2>1. CASE i = 1
      <3>1. /\ 1 \in 1..Len(c) /\ Arrived(c2, h) \in 1..Len(h)
            /\ Arrived(c2, h) - 1 = Arrived(c, h)
        BY <1>1, <1>6, <1>8, <2>1 DEF Arrived
      <3>2. c[1] = h[Arrived(c2, h)]
        BY <3>1 DEF IsEndOf
      <3>3. 1 <= Len(l2) /\ Arrived(c2, h) + 1 - i = Arrived(c2, h)
        BY <1>1, <1>5, <2>1, <3>1
      <3>. QED
        BY <1>5, <2>1, <3>2, <3>3
    <2>2. CASE i # 1
      <3>1. /\ i - 1 \in 1..MaxEvents /\ i - 1 <= n + 1 - MaxEvents /\ i - 1 <= Arrived(c, h)
            /\ Arrived(c, h) + 1 - (i - 1) = Arrived(c2, h) + 1 - i
        BY <1>1, <1>2, <1>6, <1>8, <2>2
      <3>2. i - 1 <= Len(l) /\ l[i - 1] = h[Arrived(c, h) + 1 - (i - 1)]
        BY <3>1 DEF Renewed
      <3>3. i \in 2..Len(l2)
        BY <1>1, <1>5, <2>2, <3>2
      <3>. QED
        BY <1>1, <1>5, <3>1, <3>2, <3>3
    <2>. QED
      BY <2>1, <2>2
  <1>9. Cardinality(Again(c2, l2)) <= Cardinality(Again(c, l))
    <2>1. Again(c2, l2) \subseteq Again(c, l)
      <3>. SUFFICES ASSUME NEW x \in Again(c2, l2) PROVE x \in Again(c, l)
        OBVIOUS
      <3>1. PICK i \in 1..Len(l2) : l2[i] = x
        BY DEF Again, Among
      <3>2. i # 1
        BY <1>4, <1>5, <3>1 DEF Again
      <3>3. i \in 2..Len(l2) /\ i - 1 \in 1..Len(l)
        BY <1>1, <1>5, <3>2
      <3>4. Among(l, x)
        BY <1>5, <3>1, <3>3 DEF Among
      <3>. QED
        BY <1>3, <3>4 DEF Again
    <2>. QED
      BY <2>1, AgainIsShort, FS_Subset
  <1>10. k = 2 * MaxEvents - 1 \/ Arrived(c2, h) + Cardinality(Again(c2, l2)) <= MaxEvents + k
    <2>1. /\ Cardinality(Again(c, l)) \in Nat /\ Cardinality(Again(c2, l2)) \in Nat
      BY AgainIsShort
    <2>2. CASE n = 2 * MaxEvents - 1
      BY <1>1, <1>2, <2>2
    <2>3. CASE n # 2 * MaxEvents - 1
      <3>1. Arrived(c, h) + Cardinality(Again(c, l)) <= MaxEvents + n
        BY <2>3 DEF Renewed
      <3>. QED
        BY <1>1, <1>2, <1>6, <1>9, <2>1, <3>1
    <2>. QED
      BY <2>2, <2>3
  <1>. QED
    BY <1>2, <1>7, <1>8, <1>10 DEF Renewed

\* An event that nobody has had is published and sent.
LEMMA SentRenews ==
    ASSUME ServicesAssumption, NEW c, NEW c2, NEW h, NEW h2, NEW l \in Seq(Events), NEW x,
           Len(c) \in Nat, Len(h) \in Nat, Len(h) <= HistorySize,
           Len(l) <= MaxEvents, ~Among(l, x), Sent(c, c2, x), Grown(h, h2, x),
           NEW n \in 0..(2 * MaxEvents - 1), Renewed(n, c, h, l)
    PROVE  Renewed(n, c2, h2, l)
  <1>1. /\ MaxEvents \in Nat \ {0} /\ HistorySize \in Nat \ {0} /\ Len(l) \in Nat
        /\ Len(c2) = Len(c) + 1
    BY BellLimits DEF Sent
  <1>2. \A y : Among(c2, y) /\ y # x => Among(c, y)
    <2>. SUFFICES ASSUME NEW y, NEW i \in 1..Len(c2), c2[i] = y, y # x PROVE Among(c, y)
      BY DEF Among
    <2>1. i # Len(c) + 1
      BY DEF Sent
    <2>2. i \in 1..Len(c)
      BY <1>1, <2>1
    <2>. QED
      BY <2>2 DEF Sent, Among
  <1>3. \A y : Among(c2, y) /\ Among(l, y) => Among(c, y)
    BY <1>2
  <1>4. \A i \in 1..Len(l) : Among(l, l[i])
    BY DEF Among
  <1>5. \A i \in 1..Len(l) : i <= n => ~Among(c2, l[i])
    BY <1>3, <1>4 DEF Renewed
  <1>6. Cardinality(Again(c2, l)) <= Cardinality(Again(c, l))
    <2>1. Again(c2, l) \subseteq Again(c, l)
      BY <1>3 DEF Again
    <2>. QED
      BY <2>1, AgainIsShort, FS_Subset
  <1>7. Arrived(c, h) \in Int /\ Arrived(c2, h2) \in Int
    BY <1>1 DEF Arrived, Grown
  <1>8. CASE Len(h) < HistorySize
    <2>1. Len(h2) = Len(h) + 1 /\ \A i \in 1..Len(h) : h2[i] = h[i]
      BY <1>8 DEF Grown
    <2>2. Arrived(c2, h2) = Arrived(c, h) /\ Arrived(c, h) <= Len(h)
      BY <1>1, <2>1 DEF Arrived
    <2>3. ASSUME NEW i \in 1..MaxEvents, i <= n + 1 - MaxEvents, i <= Arrived(c2, h2)
          PROVE  i <= Len(l) /\ l[i] = h2[Arrived(c2, h2) + 1 - i]
      <3>1. i <= Len(l) /\ l[i] = h[Arrived(c, h) + 1 - i]
        BY <2>2, <2>3 DEF Renewed
      <3>2. Arrived(c, h) + 1 - i \in 1..Len(h)
        BY <1>7, <2>2, <2>3
      <3>. QED
        BY <2>1, <2>2, <3>1, <3>2
    <2>4. n = 2 * MaxEvents - 1 \/ Arrived(c2, h2) + Cardinality(Again(c2, l)) <= MaxEvents + n
      <3>1. Cardinality(Again(c2, l)) \in Nat /\ Cardinality(Again(c, l)) \in Nat
        BY AgainIsShort
      <3>2. n = 2 * MaxEvents - 1 \/ Arrived(c, h) + Cardinality(Again(c, l)) <= MaxEvents + n
        BY DEF Renewed
      <3>. QED
        BY <1>1, <1>6, <1>7, <2>2, <3>1, <3>2
    <2>. QED
      BY <1>5, <2>3, <2>4 DEF Renewed
  <1>9. CASE ~(Len(h) < HistorySize)
    <2>1. Len(h2) = Len(h) /\ \A i \in 1..(Len(h) - 1) : h2[i] = h[i + 1]
      BY <1>9 DEF Grown
    <2>2. Arrived(c2, h2) = Arrived(c, h) - 1 /\ Arrived(c, h) <= Len(h)
      BY <1>1, <2>1 DEF Arrived
    <2>3. ASSUME NEW i \in 1..MaxEvents, i <= n + 1 - MaxEvents, i <= Arrived(c2, h2)
          PROVE  i <= Len(l) /\ l[i] = h2[Arrived(c2, h2) + 1 - i]
      <3>1. i <= Arrived(c, h)
        BY <1>7, <2>2, <2>3
      <3>2. i <= Len(l) /\ l[i] = h[Arrived(c, h) + 1 - i]
        BY <2>3, <3>1 DEF Renewed
      <3>3. /\ Arrived(c, h) - i \in 1..(Len(h) - 1)
            /\ (Arrived(c, h) - i) + 1 = Arrived(c, h) + 1 - i
            /\ Arrived(c2, h2) + 1 - i = Arrived(c, h) - i
        BY <1>7, <2>2, <2>3
      <3>. QED
        BY <2>1, <3>2, <3>3
    <2>4. n = 2 * MaxEvents - 1 \/ Arrived(c2, h2) + Cardinality(Again(c2, l)) <= MaxEvents + n
      <3>1. Cardinality(Again(c2, l)) \in Nat /\ Cardinality(Again(c, l)) \in Nat
        BY AgainIsShort
      <3>2. n = 2 * MaxEvents - 1 \/ Arrived(c, h) + Cardinality(Again(c, l)) <= MaxEvents + n
        BY DEF Renewed
      <3>. QED
        BY <1>1, <1>6, <1>7, <2>2, <3>1, <3>2
    <2>. QED
      BY <1>5, <2>3, <2>4 DEF Renewed
  <1>. QED
    BY <1>8, <1>9

\* A history that has lost nothing keeps what the list is made of when it grows.
LEMMA GrownRuns ==
    ASSUME ServicesAssumption, NEW h, NEW h2, NEW l, NEW x,
           Len(h) \in Nat, Len(l) \in Nat, Len(h) < HistorySize, ~Among(l, x), Grown(h, h2, x),
           NEW k \in 0..(MaxEvents - 1), NEW m \in 0..Len(h), TwoRuns(k, m, h, l)
    PROVE  TwoRuns(k, m, h2, l)
  <1>1. MaxEvents \in Nat \ {0}
    BY BellLimits
  <1>2. Len(h2) = Len(h) + 1 /\ h2[Len(h) + 1] = x /\ \A i \in 1..Len(h) : h2[i] = h[i]
    BY DEF Grown
  <1>3. ASSUME NEW i \in 1..MaxEvents, i <= k
        PROVE  i <= Len(l) /\ l[i] = h2[k + 1 - i]
    <2>1. i <= Len(l) /\ l[i] = h[k + 1 - i]
      BY <1>3 DEF TwoRuns
    <2>2. k = 0 \/ m > MaxEvents
      BY DEF TwoRuns
    <2>3. k + 1 - i \in 1..Len(h)
      BY <1>1, <1>3, <2>2
    <2>. QED
      BY <1>2, <2>1, <2>3
  <1>4. ASSUME NEW i \in 1..MaxEvents, i > k, i - k <= m
        PROVE  i <= Len(l) /\ l[i] = h2[m + 1 - (i - k)]
    <2>1. i <= Len(l) /\ l[i] = h[m + 1 - (i - k)]
      BY <1>4 DEF TwoRuns
    <2>2. m + 1 - (i - k) \in 1..Len(h)
      BY <1>1, <1>4
    <2>. QED
      BY <1>2, <2>1, <2>2
  <1>5. ASSUME NEW i \in 1..Len(l), i - k > m PROVE ~Among(h2, l[i])
    <2>1. ~Among(h, l[i]) /\ l[i] # x
      BY <1>5 DEF TwoRuns, Among
    <2>2. \A j \in 1..Len(h2) : j \in 1..Len(h) \/ j = Len(h) + 1
      BY <1>2
    <2>. QED
      BY <1>2, <2>1, <2>2 DEF Among
  <1>6. k = 0 \/ m > MaxEvents
    BY DEF TwoRuns
  <1>. QED
    BY <1>3, <1>4, <1>5, <1>6 DEF TwoRuns

\* Where an event of the history is listed.
LEMMA RunsPlace ==
    ASSUME ServicesAssumption, NEW h, NEW l, Len(h) \in Nat, Len(l) \in Nat,
           Len(l) <= MaxEvents, Distinct(h),
           NEW k \in 0..(MaxEvents - 1), NEW m \in 0..Len(h), TwoRuns(k, m, h, l),
           NEW j \in 1..Len(h), NEW i \in 1..Len(l), l[i] = h[j]
    PROVE  \/ i <= k /\ j = k + 1 - i
           \/ i > k /\ i - k <= m /\ j = m + 1 - (i - k)
  <1>1. MaxEvents \in Nat \ {0} /\ i \in 1..MaxEvents
    BY BellLimits
  <1>2. k = 0 \/ m > MaxEvents
    BY DEF TwoRuns
  <1>3. CASE i <= k
    <2>1. l[i] = h[k + 1 - i]
      BY <1>1, <1>3 DEF TwoRuns
    <2>2. k + 1 - i \in 1..Len(h)
      BY <1>1, <1>2, <1>3
    <2>. QED
      BY <1>3, <2>1, <2>2 DEF Distinct
  <1>4. CASE i > k /\ i - k <= m
    <2>1. l[i] = h[m + 1 - (i - k)]
      BY <1>1, <1>4 DEF TwoRuns
    <2>2. m + 1 - (i - k) \in 1..Len(h)
      BY <1>1, <1>4
    <2>. QED
      BY <1>4, <2>1, <2>2 DEF Distinct
  <1>5. CASE i - k > m
    <2>1. ~Among(h, h[j])
      BY <1>5 DEF TwoRuns
    <2>. QED
      BY <2>1 DEF Among
  <1>. QED
    BY <1>1, <1>3, <1>4, <1>5

\* A replay that goes on where the run in front ends makes it one longer.
LEMMA FrontGrows ==
    ASSUME ServicesAssumption, NEW h, NEW l, NEW l2, Len(h) \in Nat, Len(l) \in Nat,
           Len(l) <= MaxEvents,
           NEW k \in 0..(MaxEvents - 1), NEW m \in 0..Len(h), m > MaxEvents,
           TwoRuns(k, m, h, l), InFront(l, l2, h[k + 1])
    PROVE  \E k2 \in 0..(MaxEvents - 1), m2 \in 0..Len(h) :
              TwoRuns(k2, m2, h, l2) /\ Repeats(k2, m2, k + 1)
  <1>1. MaxEvents \in Nat \ {0}
    BY BellLimits
  <1>2. Len(l) = MaxEvents
    <2>1. MaxEvents \in 1..MaxEvents /\ MaxEvents > k /\ MaxEvents - k <= m
      BY <1>1
    <2>2. MaxEvents <= Len(l)
      BY <2>1 DEF TwoRuns
    <2>. QED
      BY <1>1, <2>2
  <1>3. Len(l2) = MaxEvents /\ l2[1] = h[k + 1] /\ \A i \in 2..MaxEvents : l2[i] = l[i - 1]
    <2>1. Len(l2) = MaxEvents
      BY <1>1, <1>2 DEF InFront
    <2>. QED
      BY <2>1 DEF InFront
  <1>4. ASSUME NEW i \in 1..MaxEvents, i <= k + 1 PROVE l2[i] = h[k + 2 - i]
    <2>1. CASE i = 1
      BY <1>3, <2>1
    <2>2. CASE i # 1
      <3>1. /\ i \in 2..MaxEvents /\ i - 1 \in 1..MaxEvents /\ i - 1 <= k
            /\ k + 1 - (i - 1) = k + 2 - i
        BY <1>1, <1>4, <2>2
      <3>2. l[i - 1] = h[k + 1 - (i - 1)]
        BY <3>1 DEF TwoRuns
      <3>. QED
        BY <1>3, <3>1, <3>2
    <2>. QED
      BY <2>1, <2>2
  <1>5. ASSUME NEW i \in 1..MaxEvents, i > k + 1
        PROVE  l2[i] = h[m + 1 - (i - (k + 1))]
    <2>1. /\ i \in 2..MaxEvents /\ i - 1 \in 1..MaxEvents /\ i - 1 > k /\ (i - 1) - k <= m
          /\ m + 1 - ((i - 1) - k) = m + 1 - (i - (k + 1))
      BY <1>1, <1>5
    <2>2. l[i - 1] = h[m + 1 - ((i - 1) - k)]
      BY <2>1 DEF TwoRuns
    <2>. QED
      BY <1>3, <2>1, <2>2
  <1>6. CASE k + 1 < MaxEvents
    <2>1. \A i \in 1..MaxEvents : i <= k + 1 => i <= Len(l2) /\ l2[i] = h[(k + 1) + 1 - i]
      <3>1. \A i \in 1..MaxEvents : (k + 1) + 1 - i = k + 2 - i /\ i <= MaxEvents
        BY <1>1
      <3>. QED
        BY <1>3, <1>4, <3>1
    <2>2. \A i \in 1..MaxEvents : i > k + 1 /\ i - (k + 1) <= m =>
              i <= Len(l2) /\ l2[i] = h[m + 1 - (i - (k + 1))]
      BY <1>1, <1>3, <1>5
    <2>3. \A i \in 1..Len(l2) : ~(i - (k + 1) > m)
      BY <1>1, <1>3
    <2>4. TwoRuns(k + 1, m, h, l2)
      BY <2>1, <2>2, <2>3 DEF TwoRuns
    <2>5. Repeats(k + 1, m, k + 1) /\ k + 1 \in 0..(MaxEvents - 1)
      BY <1>1, <1>6 DEF Repeats
    <2>. QED
      BY <2>4, <2>5
  <1>7. CASE k + 1 = MaxEvents
    <2>1. \A i \in 1..MaxEvents : ~(i <= 0)
      BY <1>1
    <2>2. \A i \in 1..MaxEvents : i > 0 /\ i - 0 <= MaxEvents =>
              i <= Len(l2) /\ l2[i] = h[MaxEvents + 1 - (i - 0)]
      <3>1. \A i \in 1..MaxEvents :
                i <= k + 1 /\ k + 2 - i = MaxEvents + 1 - (i - 0) /\ i <= MaxEvents
        BY <1>1, <1>7
      <3>. QED
        BY <1>3, <1>4, <3>1
    <2>3. \A i \in 1..Len(l2) : ~(i - 0 > MaxEvents)
      BY <1>1, <1>3
    <2>4. TwoRuns(0, MaxEvents, h, l2)
      BY <2>1, <2>2, <2>3 DEF TwoRuns
    <2>5. Repeats(0, MaxEvents, k + 1) /\ 0 \in 0..(MaxEvents - 1) /\ MaxEvents \in 0..Len(h)
      BY <1>1, <1>7 DEF Repeats
    <2>. QED
      BY <2>4, <2>5
  <1>. QED
    BY <1>1, <1>6, <1>7

\* An event after all those that the list knows is the newest of its one run.
LEMMA RunGrows ==
    ASSUME ServicesAssumption, NEW h, NEW l, NEW l2, Len(h) \in Nat, Len(l) \in Nat,
           Len(l) <= MaxEvents, Distinct(h),
           NEW m \in 0..Len(h), m + 1 <= Len(h),
           TwoRuns(0, m, h, l), InFront(l, l2, h[m + 1])
    PROVE  TwoRuns(0, m + 1, h, l2) /\ Repeats(0, m + 1, m + 1)
  <1>1. MaxEvents \in Nat \ {0}
    BY BellLimits
  <1>2. /\ Len(l2) \in Nat /\ (Len(l2) = Len(l) + 1 \/ Len(l2) = MaxEvents)
        /\ Len(l2) <= Len(l) + 1 /\ l2[1] = h[m + 1] /\ \A i \in 2..Len(l2) : l2[i] = l[i - 1]
    BY <1>1 DEF InFront
  <1>3. \A i \in 1..MaxEvents : ~(i <= 0)
    BY <1>1
  <1>4. ASSUME NEW i \in 1..MaxEvents, i > 0, i - 0 <= m + 1
        PROVE  i <= Len(l2) /\ l2[i] = h[(m + 1) + 1 - (i - 0)]
    <2>1. CASE i = 1
      <3>1. (m + 1) + 1 - (i - 0) = m + 1 /\ 1 <= Len(l2)
        BY <1>1, <1>2, <2>1
      <3>. QED
        BY <1>2, <2>1, <3>1
    <2>2. CASE i # 1
      <3>1. /\ i - 1 \in 1..MaxEvents /\ i - 1 > 0 /\ (i - 1) - 0 <= m
            /\ m + 1 - ((i - 1) - 0) = (m + 1) + 1 - (i - 0)
        BY <1>1, <1>4, <2>2
      <3>2. i - 1 <= Len(l) /\ l[i - 1] = h[m + 1 - ((i - 1) - 0)]
        BY <3>1 DEF TwoRuns
      <3>3. i \in 2..Len(l2)
        BY <1>1, <1>2, <2>2, <3>2
      <3>. QED
        BY <1>1, <1>2, <3>1, <3>2, <3>3
    <2>. QED
      BY <2>1, <2>2
  <1>5. ASSUME NEW i \in 1..Len(l2), i - 0 > m + 1 PROVE ~Among(h, l2[i])
    <2>1. i \in 2..Len(l2) /\ i - 1 \in 1..Len(l) /\ (i - 1) - 0 > m
      BY <1>2, <1>5
    <2>. QED
      BY <1>2, <2>1 DEF TwoRuns
  <1>6. TwoRuns(0, m + 1, h, l2)
    BY <1>3, <1>4, <1>5 DEF TwoRuns
  <1>7. Repeats(0, m + 1, m + 1)
    BY <1>1 DEF Repeats
  <1>. QED
    BY <1>6, <1>7

\* Every delivery keeps the list made of two runs while nothing has left the history.
LEMMA DeliveryRuns ==
    ASSUME ServicesAssumption, NEW c, NEW h, NEW l, NEW l2, Len(c) \in Nat \ {0},
           Len(h) \in Nat, Len(c) <= Len(h), Len(l) \in Nat, Len(l) <= MaxEvents,
           Distinct(h), IsEndOf(c, h),
           Among(l, c[1]) => l2 = l, ~Among(l, c[1]) => InFront(l, l2, c[1]),
           NEW k \in 0..(MaxEvents - 1), NEW m \in 0..Len(h), TwoRuns(k, m, h, l),
           Repeats(k, m, Arrived(c, h))
    PROVE  \E k2 \in 0..(MaxEvents - 1), m2 \in 0..Len(h) :
              TwoRuns(k2, m2, h, l2) /\ Repeats(k2, m2, Arrived(c, h) + 1)
  <1>. DEFINE a == Arrived(c, h)
  <1>1. MaxEvents \in Nat \ {0}
    BY BellLimits
  <1>2. a \in Nat /\ a + 1 \in 1..Len(h)
    BY DEF Arrived
  <1>3. c[1] = h[a + 1]
    <2>1. 1 \in 1..Len(c) /\ (a + 1) - 1 = a
      BY <1>2
    <2>. QED
      BY <1>2, <2>1 DEF IsEndOf
  <1>4. k = 0 \/ m > MaxEvents
    BY DEF TwoRuns
  <1>. HIDE DEF a
  <1>5. Repeats(k, m, a)
    BY DEF a
  <1>6. ASSUME NEW i \in 1..MaxEvents, i <= Len(l), l[i] = h[a + 1] PROVE l2 = l
    <2>1. i \in 1..Len(l)
      BY <1>1, <1>6
    <2>. QED
      BY <1>3, <1>6, <2>1 DEF Among
  <1>7. ASSUME a = k, m > MaxEvents PROVE InFront(l, l2, h[k + 1])
    <2>1. ~Among(l, h[a + 1])
      <3>. SUFFICES ASSUME NEW i \in 1..Len(l), l[i] = h[a + 1] PROVE FALSE
        BY DEF Among
      <3>1. \/ i <= k /\ a + 1 = k + 1 - i
            \/ i > k /\ i - k <= m /\ a + 1 = m + 1 - (i - k)
        BY <1>2, RunsPlace
      <3>. QED
        BY <1>1, <1>7, <3>1
    <2>. QED
      BY <1>3, <1>7, <2>1
  <1>8. ASSUME a = m, k = 0 PROVE InFront(l, l2, h[m + 1])
    <2>1. ~Among(l, h[a + 1])
      <3>. SUFFICES ASSUME NEW i \in 1..Len(l), l[i] = h[a + 1] PROVE FALSE
        BY DEF Among
      <3>1. \/ i <= k /\ a + 1 = k + 1 - i
            \/ i > k /\ i - k <= m /\ a + 1 = m + 1 - (i - k)
        BY <1>2, RunsPlace
      <3>. QED
        BY <1>1, <1>8, <3>1
    <2>. QED
      BY <1>3, <1>8, <2>1
  <1>9. CASE a = k /\ m > MaxEvents
    BY <1>7, <1>9, FrontGrows DEF a
  <1>10. CASE k > 0 /\ a < k
    <2>1. k - a \in 1..MaxEvents /\ k - a <= k /\ k + 1 - (k - a) = a + 1
      BY <1>1, <1>2, <1>10
    <2>2. k - a <= Len(l) /\ l[k - a] = h[a + 1]
      BY <2>1 DEF TwoRuns
    <2>3. l2 = l
      BY <1>6, <2>1, <2>2
    <2>4. Repeats(k, m, a + 1)
      BY <1>2, <1>10 DEF Repeats
    <2>. QED
      BY <2>3, <2>4 DEF a
  <1>11. CASE a = m /\ k = 0
    <2>1. m + 1 <= Len(h) /\ TwoRuns(0, m, h, l) /\ InFront(l, l2, h[m + 1])
      BY <1>2, <1>8, <1>11
    <2>2. TwoRuns(0, m + 1, h, l2) /\ Repeats(0, m + 1, m + 1)
      BY <2>1, RunGrows
    <2>3. 0 \in 0..(MaxEvents - 1) /\ m + 1 \in 0..Len(h)
      BY <1>1, <2>1
    <2>. QED
      BY <1>11, <2>2, <2>3 DEF a
  <1>12. CASE k = 0 /\ m <= MaxEvents /\ a < m
    <2>1. /\ m - a \in 1..MaxEvents /\ m - a > k /\ (m - a) - k <= m
          /\ m + 1 - ((m - a) - k) = a + 1
      BY <1>1, <1>2, <1>12
    <2>2. m - a <= Len(l) /\ l[m - a] = h[a + 1]
      BY <2>1 DEF TwoRuns
    <2>3. l2 = l
      BY <1>6, <2>1, <2>2
    <2>4. Repeats(k, m, a + 1)
      BY <1>2, <1>12 DEF Repeats
    <2>. QED
      BY <2>3, <2>4 DEF a
  <1>13. \/ a = k /\ m > MaxEvents
         \/ k > 0 /\ a < k
         \/ a = m /\ k = 0
         \/ k = 0 /\ m <= MaxEvents /\ a < m
    BY <1>1, <1>2, <1>4, <1>5 DEF Repeats
  <1>. QED
    BY <1>9, <1>10, <1>11, <1>12, <1>13

\* Nothing is twice in a sequence that gets something new or loses its first.
LEMMA StaysDistinct ==
    ASSUME ServicesAssumption, NEW s, NEW t, NEW x, Len(s) \in Nat, Distinct(s)
    PROVE  /\ ~Among(s, x) /\ Sent(s, t, x) => Distinct(t)
           /\ ~Among(s, x) /\ InFront(s, t, x) => Distinct(t)
           /\ ~Among(s, x) /\ Grown(s, t, x) => Distinct(t)
           /\ Delivered(s, t) => Distinct(t)
  <1>. MaxEvents \in Nat \ {0} /\ HistorySize \in Nat \ {0}
    BY BellLimits
  <1>0. \A i, j \in 1..Len(s) : s[i] = s[j] => i = j
    BY DEF Distinct
  <1>1. ASSUME ~Among(s, x), Sent(s, t, x) PROVE Distinct(t)
    <2>1. Len(t) = Len(s) + 1 /\ t[Len(s) + 1] = x /\ \A i \in 1..Len(s) : t[i] = s[i] /\ s[i] # x
      BY <1>1 DEF Sent, Among
    <2>2. \A i \in 1..Len(t) : i \in 1..Len(s) \/ i = Len(s) + 1
      BY <2>1
    <2>. QED
      BY <1>0, <2>1, <2>2 DEF Distinct
  <1>2. ASSUME ~Among(s, x), InFront(s, t, x) PROVE Distinct(t)
    <2>1. /\ t[1] = x /\ (\A i \in 2..Len(t) : t[i] = s[i - 1]) /\ (\A i \in 1..Len(s) : s[i] # x)
          /\ Len(t) \in Nat /\ Len(t) <= Len(s) + 1
      BY <1>2 DEF InFront, Among
    <2>2. \A i \in 1..Len(t) : i = 1 \/ (i \in 2..Len(t) /\ i - 1 \in 1..Len(s))
      BY <2>1
    <2>3. ASSUME NEW i \in 1..Len(t), NEW j \in 1..Len(t), t[i] = t[j] PROVE i = j
      <3>1. CASE i = 1 \/ j = 1
        BY <2>1, <2>2, <2>3, <3>1
      <3>2. CASE i # 1 /\ j # 1
        <4>1. i - 1 \in 1..Len(s) /\ j - 1 \in 1..Len(s) /\ s[i - 1] = s[j - 1]
          BY <2>1, <2>2, <2>3, <3>2
        <4>2. i - 1 = j - 1
          BY <1>0, <4>1
        <4>. QED
          BY <2>1, <4>2
      <3>. QED
        BY <3>1, <3>2
    <2>. QED
      BY <2>3 DEF Distinct
  <1>3. ASSUME ~Among(s, x), Grown(s, t, x) PROVE Distinct(t)
    <2>1. CASE Len(s) < HistorySize
      BY <1>1, <1>3, <2>1 DEF Grown, Sent
    <2>2. CASE ~(Len(s) < HistorySize)
      <3>1. /\ Len(t) = Len(s) /\ t[Len(s)] = x /\ (\A i \in 1..(Len(s) - 1) : t[i] = s[i + 1])
            /\ \A i \in 1..Len(s) : s[i] # x
        BY <1>3, <2>2 DEF Grown, Among
      <3>2. \A i \in 1..Len(t) : i = Len(s) \/ (i \in 1..(Len(s) - 1) /\ i + 1 \in 1..Len(s))
        BY <3>1
      <3>3. \A i, j \in 1..Len(t) : i + 1 = j + 1 => i = j
        BY <3>1
      <3>. QED
        BY <1>0, <3>1, <3>2, <3>3 DEF Distinct
    <2>. QED
      BY <2>1, <2>2
  <1>4. ASSUME Delivered(s, t) PROVE Distinct(t)
    <2>1. Len(t) = Len(s) - 1 /\ \A i \in 1..Len(t) : t[i] = s[i + 1]
      BY <1>4 DEF Delivered
    <2>2. \A i \in 1..Len(t) : i + 1 \in 1..Len(s)
      BY <2>1
    <2>3. \A i, j \in 1..Len(t) : i + 1 = j + 1 => i = j
      BY <2>1
    <2>. QED
      BY <1>0, <2>1, <2>2, <2>3 DEF Distinct
  <1>. QED
    BY <1>1, <1>2, <1>3, <1>4

\* What the types say of the sequences.
LEMMA BellFacts ==
    ASSUME BellTyped
    PROVE  /\ history \in Seq(Events) /\ Len(history) \in Nat
           /\ stream.coming \in Seq(Events) /\ Len(stream.coming) \in Nat
           /\ bellShown \in Seq(Events) /\ Len(bellShown) \in Nat
           /\ stream.coming \in Seq(published) /\ stream.at \in {"away", "replay", "live"}
           /\ \A i \in 1..Len(history) : history[i] \in published
           /\ \A i \in 1..Len(stream.coming) : stream.coming[i] \in published
           /\ \A i \in 1..Len(bellShown) : bellShown[i] \in ever
  <1>1. history \in Seq(published) /\ stream.coming \in Seq(published) /\ bellShown \in Seq(ever)
    BY DEF BellTyped
  <1>2. published \subseteq Events /\ ever \subseteq Events
    BY DEF BellTyped
  <1>3. history \in Seq(Events) /\ stream.coming \in Seq(Events) /\ bellShown \in Seq(Events)
    BY <1>1, <1>2, SeqMonotonic
  <1>4. stream.at \in {"away", "replay", "live"}
    BY DEF BellTyped
  <1>. QED
    BY <1>1, <1>3, <1>4, ElementOfSeq, LenProperties

\* A list without a history is of an earlier backend.
LEMMA NothingRuns ==
    ASSUME ServicesAssumption, NEW l
    PROVE  TwoRuns(0, 0, <<>>, l)
  <1>1. MaxEvents \in Nat \ {0} /\ \A x : ~Among(<<>>, x)
    BY BellLimits DEF Among
  <1>2. \A i \in 1..MaxEvents : ~(i <= 0) /\ ~(i - 0 <= 0)
    BY <1>1
  <1>. QED
    BY <1>1, <1>2 DEF TwoRuns

\* An empty list is made of nothing.
LEMMA EmptyRuns ==
    ASSUME ServicesAssumption, NEW h
    PROVE  TwoRuns(0, 0, h, <<>>)
  <1>1. MaxEvents \in Nat \ {0} /\ Len(<<>>) = 0
    BY BellLimits
  <1>2. \A i \in 1..MaxEvents : ~(i <= 0) /\ ~(i - 0 <= 0)
    BY <1>1
  <1>3. \A i \in 1..Len(<<>>) : FALSE
    BY <1>1
  <1>. QED
    BY <1>2, <1>3 DEF TwoRuns

\* The bell starts empty, at a backend that has published nothing.
LEMMA BellInit == ServicesAssumption /\ Bell!Init => BellInv
  <1>. SUFFICES ASSUME ServicesAssumption, Bell!Init PROVE BellInv
    OBVIOUS
  <1>. USE DEF Bell!Init, Bell!Away
  <1>1. MaxEvents \in Nat \ {0} /\ HistorySize \in Nat \ {0}
    BY BellLimits
  <1>2. BellTyped
    <2>1. \A S : <<>> \in Seq(S)
      OBVIOUS
    <2>2. Distinct(<<>>) /\ Len(<<>>) = 0
      BY DEF Distinct
    <2>3. stream \in [at : {"away", "replay", "live"}, coming : Seq(published)]
      BY <2>1
    <2>4. published \subseteq ever /\ ever \subseteq Events
      OBVIOUS
    <2>5. missed \in BOOLEAN /\ uneven \in BOOLEAN
      OBVIOUS
    <2>6. 0 <= HistorySize /\ 0 <= MaxEvents
      BY <1>1
    <2>7. history = <<>> /\ bellShown = <<>> /\ stream.coming = <<>>
      OBVIOUS
    <2>. QED
      BY <2>1, <2>2, <2>3, <2>4, <2>5, <2>6, <2>7 DEF BellTyped
  <1>3. stream.at = "away" /\ history = <<>> /\ Len(history) = 0
    OBVIOUS
  <1>4. BellRuns
    BY <1>1, <1>3, NothingRuns DEF BellRuns
  <1>. QED
    BY <1>2, <1>3, <1>4 DEF BellInv, BellFollows, BellRenews, Following

\* The list, the history and what is on its way stay, or the connection breaks.
LEMMA QuietBell ==
    ASSUME ServicesAssumption, BellInv,
           UNCHANGED <<history, published, bellShown, ever, missed, uneven>>,
           \/ stream' = Bell!Away
           \/ stream' = [stream EXCEPT !.at = "live"] /\ stream.at # "away"
           \/ stream' = stream
    PROVE  BellInv'
  <1>1. /\ stream' \in [at : {"away", "replay", "live"}, coming : Seq(published')]
        /\ Distinct(stream.coming)' /\ (stream'.at = "away" => stream'.coming = <<>>)
    <2>1. /\ stream \in [at : {"away", "replay", "live"}, coming : Seq(published)]
          /\ Distinct(stream.coming) /\ (stream.at = "away" => stream.coming = <<>>)
      BY DEF BellInv, BellTyped
    <2>2. <<>> \in Seq(published) /\ Distinct(<<>>)
      BY DEF Distinct
    <2>3. CASE stream' = Bell!Away
      BY <2>2, <2>3 DEF Bell!Away, Distinct
    <2>4. CASE stream' = [stream EXCEPT !.at = "live"] /\ stream.at # "away"
      BY <2>1, <2>4 DEF Distinct
    <2>5. CASE stream' = stream
      BY <2>1, <2>5 DEF Distinct
    <2>. QED
      BY <2>3, <2>4, <2>5
  <1>2. BellTyped'
    BY <1>1 DEF BellInv, BellTyped, Distinct
  <1>3. \/ stream'.at = "away"
        \/ stream'.coming = stream.coming /\ stream.at # "away"
        \/ stream' = stream
    BY DEF Bell!Away, BellInv, BellTyped
  <1>4. BellFollows'
    BY <1>3 DEF BellInv, BellFollows, Following
  <1>5. BellRenews'
    BY <1>3 DEF BellInv, BellRenews, Even
  <1>6. BellRuns'
    BY <1>3 DEF BellInv, BellRuns, Even
  <1>. QED
    BY <1>2, <1>4, <1>5, <1>6 DEF BellInv

\* A replay has the whole history to come.
LEMMA ConnectKeeps ==
    ASSUME ServicesAssumption, BellInv, Bell!Connect
    PROVE  BellInv'
  <1>. USE DEF Bell!Connect
  <1>1. /\ stream' = [at |-> "replay", coming |-> history]
        /\ missed' = FALSE /\ uneven' = (uneven \/ missed) /\ stream.at = "away"
        /\ UNCHANGED <<history, published, bellShown, ever>>
    OBVIOUS
  <1>2. BellTyped'
    <2>1. stream' \in [at : {"away", "replay", "live"}, coming : Seq(published)]
      BY <1>1 DEF BellInv, BellTyped
    <2>2. Distinct(stream'.coming) /\ stream'.at # "away"
      BY <1>1 DEF BellInv, BellTyped
    <2>3. uneven' \in BOOLEAN
      BY <1>1 DEF BellInv, BellTyped
    <2>. QED
      BY <1>1, <2>1, <2>2, <2>3 DEF BellInv, BellTyped, Distinct
  <1>3. stream'.coming = history /\ Arrived(history, history) = 0 /\ Len(history) \in Nat
    BY <1>1, BellFacts DEF Arrived, BellInv
  <1>4. BellFollows'
    <2>1. IsEndOf(history, history)
      <3>1. \A i, j \in 1..Len(history) : j - i = 0 => i = j
        BY <1>3
      <3>. QED
        BY <1>3, <3>1 DEF IsEndOf
    <2>2. NewestListed(history, history, bellShown)
      BY DEF NewestListed
    <2>. QED
      BY <1>1, <1>3, <2>1, <2>2 DEF BellFollows
  <1>5. BellRenews'
    <2>1. bellShown \in Seq(Events) /\ Len(bellShown) <= MaxEvents
      BY BellFacts DEF BellInv, BellTyped
    <2>2. Renewed(0, history, history, bellShown)
      BY <1>3, <2>1, StartsRenewed
    <2>3. 0 \in 0..(2 * MaxEvents - 1)
      BY BellLimits
    <2>. QED
      BY <1>1, <1>3, <2>2, <2>3 DEF BellRenews
  <1>6. BellRuns'
    <2>. SUFFICES ASSUME ~(uneven \/ missed), Len(history) < HistorySize
         PROVE  \E k \in 0..(MaxEvents - 1), m \in 0..Len(history) :
                   TwoRuns(k, m, history, bellShown) /\ Repeats(k, m, 0)
      BY <1>1, <1>3 DEF BellRuns, Even
    <2>1. PICK k \in 0..(MaxEvents - 1), m \in 0..Len(history) :
              TwoRuns(k, m, history, bellShown)
      BY DEF BellInv, BellRuns, Even
    <2>2. Repeats(k, m, 0)
      BY <1>3, BellLimits DEF Repeats
    <2>. QED
      BY <2>1, <2>2
  <1>. QED
    BY <1>2, <1>4, <1>5, <1>6 DEF BellInv

\* What a new backend publishes has nothing to do with what is listed.
LEMMA BackendRestartKeeps ==
    ASSUME ServicesAssumption, BellInv, Bell!Restart
    PROVE  BellInv'
  <1>1. /\ history' = <<>> /\ published' = {} /\ stream' = [at |-> "away", coming |-> <<>>]
        /\ UNCHANGED <<bellShown, ever, missed, uneven>>
    BY DEF Bell!Restart, Bell!Away
  <1>2. MaxEvents \in Nat \ {0} /\ HistorySize \in Nat \ {0} /\ Len(<<>>) = 0
    BY BellLimits
  <1>3. BellTyped'
    <2>1. Distinct(<<>>) /\ <<>> \in Seq({}) /\ Len(<<>>) <= HistorySize
      BY <1>2 DEF Distinct
    <2>2. stream' \in [at : {"away", "replay", "live"}, coming : Seq(published')]
      BY <1>1, <2>1
    <2>3. Distinct(stream'.coming) /\ stream'.coming = <<>>
      BY <1>1, <2>1
    <2>. QED
      BY <1>1, <2>1, <2>2, <2>3 DEF BellInv, BellTyped, Distinct
  <1>4. stream'.at = "away"
    BY <1>1
  <1>5. BellRuns'
    BY <1>1, <1>2, <1>4, NothingRuns DEF BellRuns
  <1>. QED
    BY <1>3, <1>4, <1>5 DEF BellInv, BellFollows, BellRenews, Following

\* A new page lists nothing.
LEMMA LoadPageKeeps ==
    ASSUME ServicesAssumption, BellInv, Bell!LoadPage
    PROVE  BellInv'
  <1>1. /\ bellShown' = <<>> /\ stream' = [at |-> "away", coming |-> <<>>]
        /\ ever' = published
        /\ missed' = FALSE /\ uneven' = FALSE /\ UNCHANGED <<history, published>>
    BY DEF Bell!LoadPage, Bell!Away
  <1>2. MaxEvents \in Nat \ {0} /\ Len(<<>>) = 0
    BY BellLimits
  <1>3. BellTyped'
    <2>1. Distinct(<<>>) /\ <<>> \in Seq(published) /\ Len(<<>>) <= MaxEvents
      BY <1>2 DEF Distinct
    <2>2. stream' \in [at : {"away", "replay", "live"}, coming : Seq(published)]
      BY <1>1, <2>1
    <2>3. Distinct(stream'.coming) /\ stream'.coming = <<>>
      BY <1>1, <2>1
    <2>. QED
      BY <1>1, <2>1, <2>2, <2>3 DEF BellInv, BellTyped, Distinct
  <1>4. stream'.at = "away"
    BY <1>1
  <1>5. BellRuns'
    <2>1. 0 \in 0..(MaxEvents - 1) /\ 0 \in 0..Len(history)
      BY <1>2, BellFacts DEF BellInv
    <2>. QED
      BY <1>1, <1>4, <2>1, EmptyRuns DEF BellRuns
  <1>. QED
    BY <1>3, <1>4, <1>5 DEF BellInv, BellFollows, BellRenews, Following

\* Of what is published, the list is as right as of what was before.
LEMMA PublishKeeps ==
    ASSUME ServicesAssumption, BellInv, NEW e \in Events, Bell!Publish(e)
    PROVE  BellInv'
  <1>1. /\ e \notin published /\ published' = published \cup {e} /\ ever' = ever \cup {e}
        /\ uneven' = (uneven \/ e \in ever)
        /\ history' = Bell!LastOf(Append(history, e), HistorySize)
        /\ UNCHANGED bellShown
        /\ \/ /\ stream.at = "live" /\ UNCHANGED missed
              /\ stream' = [stream EXCEPT !.coming = Append(@, e)]
           \/ missed' = (missed \/ stream.at # "away") /\ UNCHANGED stream
    BY DEF Bell!Publish
  <1>. DEFINE c == stream.coming
  <1>2. BellTyped /\ Len(history) <= HistorySize /\ Len(bellShown) <= MaxEvents
    BY DEF BellInv, BellTyped
  <1>3. /\ history \in Seq(published) /\ c \in Seq(published) /\ Distinct(history) /\ Distinct(c)
        /\ Len(history) \in Nat /\ Len(c) \in Nat
        /\ ~Among(history, e) /\ ~Among(c, e) /\ (e \notin ever => ~Among(bellShown, e))
    BY <1>1, <1>2, BellFacts DEF BellTyped, Among
  <1>4. history' \in Seq(published') /\ Grown(history, history', e) /\ Distinct(history')
    <2>1. history \in Seq(published')
      BY <1>1, <1>3, SeqMonotonic
    <2>2. history' \in Seq(published') /\ Grown(history, history', e)
      BY <1>1, <1>2, <2>1, HistoryGrows
    <2>. QED
      BY <1>3, <2>2, StaysDistinct
  <1>. DEFINE c2 == Append(c, e)
  <1>5. c2 \in Seq(published') /\ Sent(c, c2, e) /\ Distinct(c2)
    <2>1. c \in Seq(published')
      BY <1>1, <1>3, SeqMonotonic
    <2>2. c2 \in Seq(published') /\ Sent(c, c2, e)
      BY <1>1, <2>1, AppendProperties DEF Sent
    <2>. QED
      BY <1>3, <2>2, StaysDistinct
  <1>. HIDE DEF c2
  <1>6. \/ stream.at = "live" /\ stream'.at = "live" /\ stream'.coming = c2 /\ missed' = missed
        \/ stream' = stream /\ missed' = (missed \/ stream.at # "away")
    BY <1>1, <1>2 DEF BellTyped, c2
  <1>7. ASSUME stream'.at # "away", ~missed'
         PROVE  stream.at # "away" /\ ~missed /\ stream'.coming = c2
    <2>1. CASE stream' = stream /\ missed' = (missed \/ stream.at # "away")
      <3>1. stream.at # "away"
        BY <1>7, <2>1
      <3>2. missed'
        BY <2>1, <3>1
      <3>. QED
        BY <1>7, <3>2
    <2>2. CASE /\ stream.at = "live" /\ stream'.at = "live" /\ stream'.coming = c2
               /\ missed' = missed
      <3>1. ~missed
        BY <1>7, <2>2
      <3>. QED
        BY <2>2, <3>1
    <2>. QED
      BY <1>6, <2>1, <2>2
  <1>8. BellTyped'
    <2>1. stream' \in [at : {"away", "replay", "live"}, coming : Seq(published')]
      <3>1. CASE stream' = [stream EXCEPT !.coming = Append(@, e)]
        BY <1>2, <1>5, <3>1 DEF BellTyped, c2
      <3>2. CASE stream' = stream
        <4>1. c \in Seq(published')
          BY <1>1, <1>3, SeqMonotonic
        <4>. QED
          BY <1>2, <3>2, <4>1 DEF BellTyped
      <3>. QED
        BY <1>1, <3>1, <3>2
    <2>2. Distinct(stream'.coming) /\ (stream'.at = "away" => stream'.coming = <<>>)
      BY <1>2, <1>3, <1>5, <1>6 DEF BellTyped
    <2>3. Len(history') <= HistorySize
      BY <1>2, <1>3, <1>4, BellLimits DEF Grown
    <2>4. published' \subseteq ever' /\ ever' \subseteq Events
      BY <1>1, <1>2 DEF BellTyped
    <2>5. bellShown \in Seq(ever')
      BY <1>1, <1>2, SeqMonotonic DEF BellTyped
    <2>6. missed' \in BOOLEAN /\ uneven' \in BOOLEAN
      BY <1>1, <1>6, <1>2 DEF BellTyped
    <2>. QED
      BY <1>1, <1>2, <1>4, <2>1, <2>2, <2>3, <2>4, <2>5, <2>6 DEF BellTyped, Distinct
  <1>9. BellFollows'
    <2>. SUFFICES ASSUME stream'.at # "away", ~missed'
         PROVE  /\ IsEndOf(stream'.coming, history')
                /\ NewestListed(stream'.coming, history', bellShown)
      BY <1>1 DEF BellFollows, Following
    <2>1. stream.at # "away" /\ ~missed /\ stream'.coming = c2
      BY <1>7
    <2>2. IsEndOf(c, history)
      BY <2>1 DEF BellInv, BellFollows, Following
    <2>3. IsEndOf(c2, history')
      BY <1>2, <1>3, <1>4, <1>5, <2>2, EndSent
    <2>4. c2 # <<>>
      BY <1>3, <1>5 DEF Sent
    <2>. QED
      BY <2>1, <2>3, <2>4 DEF NewestListed
  <1>10. BellRenews'
    <2>. SUFFICES ASSUME stream'.at # "away", ~missed', ~uneven'
         PROVE  \E n \in 0..(2 * MaxEvents - 1) :
                    Renewed(n, stream'.coming, history', bellShown)
      BY <1>1 DEF BellRenews, Even
    <2>1. stream.at # "away" /\ ~missed /\ stream'.coming = c2 /\ ~uneven /\ e \notin ever
      BY <1>1, <1>7
    <2>2. PICK n \in 0..(2 * MaxEvents - 1) : Renewed(n, c, history, bellShown)
      BY <2>1 DEF BellInv, BellRenews, Even
    <2>3. bellShown \in Seq(Events)
      BY <1>2, BellFacts
    <2>4. Renewed(n, c2, history', bellShown)
      BY <1>2, <1>3, <1>4, <1>5, <2>1, <2>2, <2>3, SentRenews
    <2>. QED
      BY <2>1, <2>4
  <1>11. BellRuns'
    <2>. SUFFICES ASSUME ~missed', ~uneven', Len(history') < HistorySize
         PROVE  \E k \in 0..(MaxEvents - 1), m \in 0..Len(history') :
                   /\ TwoRuns(k, m, history', bellShown)
                   /\ stream'.at # "away" => Repeats(k, m, Arrived(stream'.coming, history'))
      BY <1>1 DEF BellRuns, Even
    <2>1. ~missed /\ ~uneven /\ e \notin ever
      BY <1>1, <1>2, <1>6 DEF BellTyped
    <2>2. Len(history) < HistorySize /\ Len(history') = Len(history) + 1
      BY <1>2, <1>3, <1>4, BellLimits DEF Grown
    <2>3. PICK k \in 0..(MaxEvents - 1), m \in 0..Len(history) :
              /\ TwoRuns(k, m, history, bellShown)
              /\ stream.at # "away" => Repeats(k, m, Arrived(c, history))
      BY <2>1, <2>2 DEF BellInv, BellRuns, Even
    <2>4. m \in 0..Len(history')
      BY <1>3, <2>2
    <2>5. TwoRuns(k, m, history', bellShown)
      BY <1>2, <1>3, <1>4, <2>1, <2>2, <2>3, BellFacts, GrownRuns
    <2>6. stream'.at # "away" => Repeats(k, m, Arrived(stream'.coming, history'))
      <3>. SUFFICES ASSUME stream'.at # "away"
           PROVE  Repeats(k, m, Arrived(stream'.coming, history'))
        OBVIOUS
      <3>1. stream.at # "away" /\ stream'.coming = c2
        BY <1>6
      <3>2. Arrived(c2, history') = Arrived(c, history)
        BY <1>3, <1>5, <2>2 DEF Arrived, Sent
      <3>. QED
        BY <2>3, <3>1, <3>2
    <2>. QED
      BY <2>4, <2>5, <2>6
  <1>. QED
    BY <1>8, <1>9, <1>10, <1>11 DEF BellInv

\* What is delivered is listed: where it was before, or in front.
LEMMA OnMessageKeeps ==
    ASSUME ServicesAssumption, BellInv, Bell!OnMessage
    PROVE  BellInv'
  <1>. DEFINE c == stream.coming
              c2 == Tail(c)
              x == c[1]
  <1>1. /\ c # <<>> /\ bellShown' = Bell!Listed(Head(c))
        /\ stream' = [stream EXCEPT !.coming = c2]
        /\ UNCHANGED <<history, published, ever, missed, uneven>>
    BY DEF Bell!OnMessage
  <1>2. /\ BellTyped /\ Len(history) <= HistorySize /\ Len(bellShown) <= MaxEvents
        /\ Distinct(history) /\ Distinct(c) /\ Distinct(bellShown) /\ stream.at # "away"
    BY <1>1 DEF BellInv, BellTyped
  <1>3. /\ c \in Seq(published) /\ Len(c) \in Nat /\ Len(history) \in Nat
        /\ bellShown \in Seq(Events) /\ bellShown \in Seq(ever) /\ Len(bellShown) \in Nat
        /\ \A i \in 1..Len(c) : c[i] \in published
    BY <1>2, BellFacts DEF BellTyped
  <1>4. Len(c) \in Nat \ {0}
    BY <1>1, <1>3, EmptySeq
  <1>5. Head(c) = x /\ x \in published
    BY <1>1, <1>3, <1>4
  <1>6. /\ c2 \in Seq(published) /\ Delivered(c, c2) /\ Distinct(c2)
    <2>1. c2 \in Seq(published) /\ Len(c2) = Len(c) - 1 /\ \A i \in 1..Len(c2) : c2[i] = c[i + 1]
      BY <1>1, <1>3, <1>4, HeadTailProperties
    <2>2. Delivered(c, c2)
      BY <2>1 DEF Delivered
    <2>. QED
      BY <1>2, <1>3, <2>1, <2>2, StaysDistinct
  <1>7. stream'.coming = c2 /\ stream'.at = stream.at
    BY <1>1, <1>2 DEF BellTyped
  <1>8. x \in ever /\ x \in Events
    BY <1>2, <1>5 DEF BellTyped
  <1>. HIDE DEF x, c2
  <1>9. /\ bellShown' \in Seq(ever)
        /\ Among(bellShown, x) => bellShown' = bellShown
        /\ ~Among(bellShown, x) => InFront(bellShown, bellShown', x)
    BY <1>1, <1>2, <1>3, <1>5, <1>8, ListGrows
  <1>10. MaxEvents \in Nat \ {0}
    BY BellLimits
  <1>11. Len(bellShown') <= MaxEvents /\ Distinct(bellShown') /\ Among(bellShown', x)
    <2>1. CASE Among(bellShown, x)
      BY <1>2, <1>9, <2>1
    <2>2. CASE ~Among(bellShown, x)
      <3>1. InFront(bellShown, bellShown', x)
        BY <1>9, <2>2
      <3>2. Len(bellShown') \in Nat /\ Len(bellShown') <= MaxEvents /\ 1 <= Len(bellShown')
        BY <1>3, <1>10, <3>1 DEF InFront
      <3>3. Among(bellShown', x)
        BY <3>1, <3>2 DEF InFront, Among
      <3>. QED
        BY <1>2, <1>3, <2>2, <3>1, <3>2, <3>3, StaysDistinct
    <2>. QED
      BY <2>1, <2>2
  <1>12. BellTyped'
    <2>1. stream' \in [at : {"away", "replay", "live"}, coming : Seq(published)]
      BY <1>1, <1>2, <1>6 DEF BellTyped
    <2>2. Distinct(stream'.coming) /\ stream'.at # "away"
      BY <1>2, <1>6, <1>7
    <2>. QED
      BY <1>1, <1>2, <1>9, <1>11, <2>1, <2>2 DEF BellTyped, Distinct
  <1>13. Arrived(c2, history) = Arrived(c, history) + 1
    BY <1>3, <1>4, <1>6 DEF Arrived, Delivered
  <1>14. BellFollows'
    <2>. SUFFICES ASSUME ~missed
         PROVE  IsEndOf(c2, history) /\ NewestListed(c2, history, bellShown')
      BY <1>1, <1>7 DEF BellFollows, Following
    <2>1. IsEndOf(c, history)
      BY <1>2 DEF BellInv, BellFollows, Following
    <2>2. IsEndOf(c2, history)
      BY <1>3, <1>4, <1>6, <2>1, EndDelivered
    <2>3. NewestListed(c2, history, bellShown')
      <3>. SUFFICES ASSUME c2 = <<>>, history # <<>> PROVE Among(bellShown', history[Len(history)])
        BY DEF NewestListed
      <3>1. Len(c) = 1
        BY <1>3, <1>4, <1>6 DEF Delivered
      <3>2. Len(history) # 0
        BY <1>2, EmptySeq DEF BellTyped
      <3>3. 1 \in 1..Len(c) /\ Len(history) \in 1..Len(history)
            /\ Len(history) - 1 = Arrived(c, history)
        BY <1>3, <3>1, <3>2 DEF Arrived
      <3>4. x = history[Len(history)]
        BY <2>1, <3>3 DEF IsEndOf, x
      <3>. QED
        BY <1>11, <3>4
    <2>. QED
      BY <2>2, <2>3
  <1>15. BellRenews'
    <2>. SUFFICES ASSUME ~missed, ~uneven
         PROVE  \E n \in 0..(2 * MaxEvents - 1) : Renewed(n, c2, history, bellShown')
      BY <1>1, <1>7 DEF BellRenews, Even
    <2>1. PICK n \in 0..(2 * MaxEvents - 1) : Renewed(n, c, history, bellShown)
      BY <1>2 DEF BellInv, BellRenews, Even
    <2>2. IsEndOf(c, history)
      BY <1>2 DEF BellInv, BellFollows, Following
    <2>3. CASE Among(bellShown, x)
      <3>1. Renewed(n, c2, history, bellShown)
        BY <1>2, <1>3, <1>4, <1>6, <1>8, <2>1, <2>3, HitRenews DEF x
      <3>. QED
        BY <1>9, <2>3, <3>1
    <2>4. CASE ~Among(bellShown, x)
      <3>1. bellShown' \in Seq(Events)
        BY <1>2, <1>9, SeqMonotonic DEF BellTyped
      <3>2. InFront(bellShown, bellShown', c[1])
        BY <1>9, <2>4 DEF x
      <3>. QED
        BY <1>2, <1>3, <1>4, <1>6, <2>1, <2>2, <3>1, <3>2, PushRenews
    <2>. QED
      BY <2>3, <2>4
  <1>16. BellRuns'
    <2>. SUFFICES ASSUME ~missed, ~uneven, Len(history) < HistorySize
         PROVE  \E k \in 0..(MaxEvents - 1), m \in 0..Len(history) :
                   /\ TwoRuns(k, m, history, bellShown')
                   /\ Repeats(k, m, Arrived(c2, history))
      BY <1>1, <1>7 DEF BellRuns, Even
    <2>1. PICK k \in 0..(MaxEvents - 1), m \in 0..Len(history) :
              /\ TwoRuns(k, m, history, bellShown)
              /\ Repeats(k, m, Arrived(c, history))
      BY <1>2 DEF BellInv, BellRuns, Even
    <2>2. IsEndOf(c, history)
      BY <1>2 DEF BellInv, BellFollows, Following
    <2>3. Len(c) <= Len(history)
      BY <1>3, <2>2, BellLimits DEF IsEndOf
    <2>4. /\ Among(bellShown, c[1]) => bellShown' = bellShown
          /\ ~Among(bellShown, c[1]) => InFront(bellShown, bellShown', c[1])
      BY <1>9 DEF x
    <2>5. \E k2 \in 0..(MaxEvents - 1), m2 \in 0..Len(history) :
              TwoRuns(k2, m2, history, bellShown') /\ Repeats(k2, m2, Arrived(c, history) + 1)
      BY <1>2, <1>3, <1>4, <2>1, <2>2, <2>3, <2>4, DeliveryRuns
    <2>. QED
      BY <1>13, <2>5
  <1>. QED
    BY <1>12, <1>14, <1>15, <1>16 DEF BellInv

\* Every step of the bell keeps the invariant.
LEMMA BellPreserved == ServicesAssumption /\ BellInv /\ [Bell!Next]_(Bell!vars) => BellInv'
  <1>. SUFFICES ASSUME ServicesAssumption, BellInv, [Bell!Next]_(Bell!vars) PROVE BellInv'
    OBVIOUS
  <1>1. CASE \E e \in Events : Bell!Publish(e)
    BY <1>1, PublishKeeps
  <1>2. CASE Bell!Restart
    BY <1>2, BackendRestartKeeps
  <1>3. CASE Bell!Connect
    BY <1>3, ConnectKeeps
  <1>4. CASE Bell!Subscribe
    BY <1>4, QuietBell DEF Bell!Subscribe
  <1>5. CASE Bell!Break
    BY <1>5, QuietBell DEF Bell!Break
  <1>6. CASE Bell!OnMessage
    BY <1>6, OnMessageKeeps
  <1>7. CASE Bell!LoadPage
    BY <1>7, LoadPageKeeps
  <1>8. CASE UNCHANGED Bell!vars
    BY <1>8, QuietBell DEF Bell!vars
  <1>. QED
    BY <1>1, <1>2, <1>3, <1>4, <1>5, <1>6, <1>7, <1>8 DEF Bell!Next

\* A complete connection has listed what is newest: a long history has renewed
\* the whole list, and a short one is a run of it.
LEMMA CompleteListsNewest == ServicesAssumption /\ BellInv => Bell!BellShowsNewest
  <1>. SUFFICES ASSUME ServicesAssumption, BellInv,
                       stream.at = "live", stream.coming = <<>>, ~missed,
                       NEW k \in 1..Len(history),
                       k > Len(history) - (IF uneven THEN 1 ELSE MaxEvents)
                PROVE  Among(bellShown, history[k])
    BY DEF Bell!BellShowsNewest, Bell!Contains, Among
  <1>1. /\ MaxEvents \in Nat \ {0} /\ HistorySize \in Nat \ {0} /\ Len(history) \in Nat
        /\ HistorySize >= 3 * MaxEvents - 1 /\ Len(history) <= HistorySize /\ Len(<<>>) = 0
    BY BellLimits, BellFacts DEF BellInv, BellTyped
  <1>2. Arrived(<<>>, history) = Len(history)
    BY <1>1 DEF Arrived
  <1>3. CASE uneven
    <2>1. k = Len(history) /\ history # <<>>
      BY <1>1, <1>3
    <2>2. NewestListed(<<>>, history, bellShown)
      BY DEF BellInv, BellFollows, Following
    <2>. QED
      BY <2>1, <2>2 DEF NewestListed
  <1>. DEFINE i == Len(history) + 1 - k
  <1>4. ASSUME ~uneven
        PROVE  /\ i \in 1..MaxEvents /\ i <= Len(history) /\ Len(history) + 1 - i = k
    BY <1>1, <1>4
  <1>5. CASE ~uneven /\ Len(history) >= 3 * MaxEvents - 1
    <2>1. PICK n \in 0..(2 * MaxEvents - 1) : Renewed(n, <<>>, history, bellShown)
      BY <1>5 DEF BellInv, BellRenews, Even
    <2>2. Cardinality(Again(<<>>, bellShown)) \in Nat
      BY BellFacts, AgainIsShort DEF BellInv
    <2>3. n = 2 * MaxEvents - 1
      BY <1>1, <1>2, <1>5, <2>1, <2>2 DEF Renewed
    <2>4. i <= n + 1 - MaxEvents
      BY <1>1, <1>4, <1>5, <2>3
    <2>5. i <= Len(bellShown) /\ bellShown[i] = history[k]
      BY <1>2, <1>4, <1>5, <2>1, <2>4 DEF Renewed
    <2>. QED
      BY <1>1, <1>4, <1>5, <2>5, BellFacts DEF Among, BellInv
  <1>6. CASE ~uneven /\ Len(history) < 3 * MaxEvents - 1
    <2>1. Len(history) < HistorySize
      BY <1>1, <1>6
    <2>2. PICK f \in 0..(MaxEvents - 1), m \in 0..Len(history) :
              TwoRuns(f, m, history, bellShown) /\ Repeats(f, m, Len(history))
      BY <1>2, <1>6, <2>1 DEF BellInv, BellRuns, Even
    <2>3. f = 0 \/ m > MaxEvents
      BY <2>2 DEF TwoRuns
    <2>4. f = 0 /\ m = Len(history)
      BY <1>1, <2>2, <2>3 DEF Repeats
    <2>5. i <= Len(bellShown) /\ bellShown[i] = history[k]
      <3>1. i > f /\ i - f <= m /\ m + 1 - (i - f) = k
        BY <1>1, <1>4, <1>6, <2>4
      <3>. QED
        BY <1>4, <1>6, <2>2, <3>1 DEF TwoRuns
    <2>. QED
      BY <1>1, <1>4, <1>6, <2>5, BellFacts DEF Among, BellInv
  <1>. QED
    BY <1>1, <1>3, <1>5, <1>6

\* The types of NotificationBell.
LEMMA BellTypes == BellInv => Bell!BellTypeOK
  <1>. SUFFICES ASSUME BellInv PROVE Bell!BellTypeOK
    OBVIOUS
  <1>1. BellTyped
    BY DEF BellInv
  <1>2. Bell!IsInjective(bellShown)
    BY <1>1 DEF Bell!IsInjective, BellTyped, Distinct
  <1>. QED
    BY <1>1, <1>2, BellFacts DEF Bell!BellTypeOK, BellTyped

\* Whatever connections broke on the way, one that is complete has listed the
\* newest events (portal/src/components/shell/NotificationBell.tsx:98-102).
THEOREM CompleteReplayListsNewest == Spec => []BellShowsNewest
  <1>. DEFINE Inv == part = "bell" => BellInv
  <1>. USE ServicesAssumption
  <1>1. Init => Inv
    BY PortalStarts, BellInit
  <1>2. Inv /\ [Next]_vars => Inv'
    BY PortalSteps, BellPreserved
  <1>3. Inv => BellShowsNewest
    BY CompleteListsNewest DEF BellShowsNewest
  <1>. QED
    BY <1>1, <1>2, <1>3, PTL DEF Spec

-----------------------------------------------------------------------------
\* The types of the portal's parts.
PortalTypesOK ==
    /\ part = "store" => Store!StoreTypeOK
    /\ part = "palette" => Palette!PaletteTypeOK
    /\ part = "token" => Token!TokenTypeOK
    /\ part = "embed" => Embed!EmbedTypeOK
    /\ part = "bell" => Bell!BellTypeOK
    /\ part = "learn" => Learn!LearnTypeOK

\* The parts of the portal keep their type invariants: the cache of the palette is
\* trimmed and holds a key once, the queue of the token lock is who waits for it,
\* a connection's counters fit the history.
THEOREM PortalKeepsTypes == Spec => []PortalTypesOK
  <1>. DEFINE Inv ==
         /\ part = "store" => StoreInv
         /\ part = "palette" => PaletteTypeInv
         /\ part = "token" => TokenTypeInv
         /\ part = "embed" => EmbedInv
         /\ part = "bell" => BellInv
         /\ part = "learn" => LearnInv
  <1>1. Init => Inv
    BY ServicesAssumption, PortalStarts, StoreInit, PaletteTypeInit, TokenTypeInit, EmbedInit,
       BellInit, LearnInit
  <1>2. Inv /\ [Next]_vars => Inv'
    BY ServicesAssumption, PortalSteps, StorePreserved, PaletteTypePreserved,
       TokenTypePreserved, EmbedPreserved, BellPreserved, LearnPreserved
  <1>3. Inv => PortalTypesOK
    BY StoreTypes, PaletteTypes, TokenTypesOK, EmbedTypes, BellTypes, LearnTypes
    DEF PortalTypesOK
  <1>. QED
    BY <1>1, <1>2, <1>3, PTL DEF Spec
=============================================================================
