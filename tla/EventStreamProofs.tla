-------------------------- MODULE EventStreamProofs --------------------------
(***************************************************************************)
(* Theorems about the portal's event stream, for any number of DAG runs,   *)
(* clients, failures, connections and restarts, and any sizes of history,  *)
(* queue and page with PageSize <= QueueSize.                              *)
(***************************************************************************)
EXTENDS EventStream, SequenceTheorems, FiniteSetTheorems, TLAPS

-----------------------------------------------------------------------------
(* Lemmas about sequences *)

\* What a client gets, against what was published: s takes events of pub in
\* their order, and each of them at most as often as pub does.
Embeds(s, pub) ==
    /\ \A i \in DOMAIN s : \E a \in DOMAIN pub : pub[a] = s[i]
    /\ \A i, j \in DOMAIN s : i < j =>
          \E a, b \in DOMAIN pub : a < b /\ pub[a] = s[i] /\ pub[b] = s[j]

LEMMA EmptyEmbeds == ASSUME NEW pub PROVE Embeds(<<>>, pub)
  BY DEF Embeds

\* Publishing more, and delivering a first part of it, keeps the order.
LEMMA DeliveryEmbeds ==
  ASSUME NEW S, NEW pub \in Seq(S), NEW new \in Seq(S), NEW s \in Seq(S),
         NEW n \in 0..Len(new), Embeds(s, pub)
  PROVE  Embeds(s \o SubSeq(new, 1, n), pub \o new)
<1> DEFINE t == SubSeq(new, 1, n)
           st == s \o t
           pn == pub \o new
<1>1. /\ Len(s) \in Nat /\ DOMAIN s = 1..Len(s)
      /\ Len(pub) \in Nat /\ DOMAIN pub = 1..Len(pub)
      /\ Len(new) \in Nat /\ DOMAIN new = 1..Len(new)
  BY LenProperties
<1>2. \A i \in 1..n : new[i] \in S
  BY <1>1, ElementOfSeq
<1>3. t \in Seq(S) /\ Len(t) = n /\ \A i \in 1..n : t[i] = new[i]
  BY <1>1, <1>2, SubSeqProperties
<1>4. /\ st \in Seq(S) /\ DOMAIN st = 1..(Len(s) + n)
      /\ \A i \in 1..(Len(s) + n) : st[i] = IF i <= Len(s) THEN s[i] ELSE new[i - Len(s)]
  <2>1. st \in Seq(S) /\ Len(st) = Len(s) + n
    BY <1>3, ConcatProperties
  <2>2. \A i \in 1..(Len(s) + n) : st[i] = IF i <= Len(s) THEN s[i] ELSE t[i - Len(s)]
    BY <1>3, ConcatProperties
  <2> QED
    BY <1>1, <1>3, <2>1, <2>2, LenProperties
<1>5. /\ DOMAIN pn = 1..(Len(pub) + Len(new))
      /\ \A i \in 1..(Len(pub) + Len(new)) :
            pn[i] = IF i <= Len(pub) THEN pub[i] ELSE new[i - Len(pub)]
  <2>1. pn \in Seq(S) /\ Len(pn) = Len(pub) + Len(new)
    BY ConcatProperties
  <2> QED
    BY <2>1, ConcatProperties, LenProperties
<1> HIDE DEF t, st, pn
<1>6. ASSUME NEW i \in DOMAIN st, i <= Len(s)
      PROVE  \E a \in DOMAIN pub : pub[a] = st[i] /\ pn[a] = st[i] /\ a \in DOMAIN pn
  <2>1. i \in DOMAIN s /\ st[i] = s[i]
    BY <1>1, <1>4, <1>6
  <2>2. PICK a \in DOMAIN pub : pub[a] = s[i]
    BY <2>1 DEF Embeds
  <2>3. a \in DOMAIN pn /\ pn[a] = pub[a]
    BY <1>1, <1>5
  <2> QED
    BY <2>1, <2>2, <2>3
<1>7. ASSUME NEW i \in DOMAIN st, i > Len(s)
      PROVE  /\ i - Len(s) \in 1..n
             /\ Len(pub) + (i - Len(s)) \in DOMAIN pn
             /\ pn[Len(pub) + (i - Len(s))] = st[i]
  <2>1. i \in 1..(Len(s) + n) /\ i - Len(s) \in 1..n /\ st[i] = new[i - Len(s)]
    BY <1>1, <1>4, <1>7
  <2> DEFINE k == Len(pub) + (i - Len(s))
  <2>2. k \in 1..(Len(pub) + Len(new)) /\ ~(k <= Len(pub)) /\ k - Len(pub) = i - Len(s)
    BY <1>1, <2>1
  <2>3. k \in DOMAIN pn /\ pn[k] = new[k - Len(pub)]
    BY <1>5, <2>2
  <2> QED
    BY <2>1, <2>2, <2>3
<1>8. \A i \in DOMAIN st : \E a \in DOMAIN pn : pn[a] = st[i]
  <2> TAKE i \in DOMAIN st
  <2>1. CASE i <= Len(s)
    BY <1>6, <2>1
  <2>2. CASE i > Len(s)
    BY <1>7, <2>2
  <2> QED
    BY <1>1, <1>4, <2>1, <2>2
<1>9. ASSUME NEW i \in DOMAIN st, NEW j \in DOMAIN st, i < j
      PROVE  \E a, b \in DOMAIN pn : a < b /\ pn[a] = st[i] /\ pn[b] = st[j]
  <2>1. CASE j <= Len(s)
    <3>1. i \in DOMAIN s /\ j \in DOMAIN s /\ st[i] = s[i] /\ st[j] = s[j]
      BY <1>1, <1>4, <1>9, <2>1
    <3>2. PICK a \in DOMAIN pub, b \in DOMAIN pub : a < b /\ pub[a] = s[i] /\ pub[b] = s[j]
      BY <1>9, <3>1 DEF Embeds
    <3> QED
      BY <1>1, <1>5, <3>1, <3>2
  <2>2. CASE i <= Len(s) /\ j > Len(s)
    <3>1. PICK a \in DOMAIN pub : pub[a] = st[i] /\ pn[a] = st[i] /\ a \in DOMAIN pn
      BY <1>6, <2>2
    <3> QED
      BY <1>1, <1>4, <1>7, <2>2, <3>1
  <2>3. CASE i > Len(s)
    BY <1>1, <1>4, <1>7, <1>9, <2>3
  <2> QED
    BY <1>1, <1>4, <2>1, <2>2, <2>3
<1> QED
  BY <1>8, <1>9 DEF Embeds, st, t, pn

\* Publishing more keeps what was delivered in order.
LEMMA PublishingEmbeds ==
  ASSUME NEW S, NEW pub \in Seq(S), NEW new \in Seq(S), NEW s \in Seq(S), Embeds(s, pub)
  PROVE  Embeds(s, pub \o new)
<1>1. SubSeq(new, 1, 0) = <<>>
  BY SubSeqEmpty
<1>2. s \o <<>> = s
  BY ConcatEmptySeq
<1>3. Embeds(s \o SubSeq(new, 1, 0), pub \o new)
  BY LenProperties, DeliveryEmbeds
<1> QED
  BY <1>1, <1>2, <1>3

\* A part of what was in order is in order.
LEMMA PartEmbeds ==
  ASSUME NEW S, NEW pub, NEW s \in Seq(S), Embeds(s, pub),
         NEW m \in Nat \ {0}, NEW n \in Nat, n <= Len(s)
  PROVE  SubSeq(s, m, n) \in Seq(S) /\ Embeds(SubSeq(s, m, n), pub)
<1> DEFINE t == SubSeq(s, m, n)
<1>1. Len(s) \in Nat /\ DOMAIN s = 1..Len(s) /\ \A i \in m..n : s[i] \in S
  BY LenProperties, ElementOfSeq
<1>2. /\ t \in Seq(S) /\ Len(t) = IF m <= n THEN n - m + 1 ELSE 0
      /\ \A i \in 1..(n - m + 1) : t[i] = s[m + i - 1]
  BY <1>1, SubSeqProperties
<1>3. DOMAIN t = 1..Len(t)
  BY <1>2, LenProperties
<1> HIDE DEF t
<1>4. \A i \in DOMAIN t : m + i - 1 \in DOMAIN s /\ t[i] = s[m + i - 1]
  BY <1>1, <1>2, <1>3
<1>5. \A i, j \in DOMAIN t : i < j => m + i - 1 < m + j - 1
  BY <1>3, <1>2, <1>1
<1> QED
  BY <1>2, <1>4, <1>5 DEF Embeds, t

\* What is sent and queued, with what is added to the queue.
Associates(a, b, c) == (a \o b) \o c = a \o (b \o c)

LEMMA Joined ==
  ASSUME NEW S, NEW a \in Seq(S), NEW b \in Seq(S), NEW c \in Seq(S)
  PROVE  Associates(a, b, c)
  BY ConcatAssociative DEF Associates

\* The end of a sequence to which another is added.
LEMMA SuffixOfConcat ==
  ASSUME NEW S, NEW p \in Seq(S), NEW new \in Seq(S), NEW a \in 0..Len(p)
  PROVE  SubSeq(p, a + 1, Len(p)) \o new = SubSeq(p \o new, a + 1, Len(p \o new))
<1> DEFINE pn == p \o new
           x == SubSeq(p, a + 1, Len(p))
           y == SubSeq(pn, a + 1, Len(pn))
<1>1. Len(p) \in Nat /\ Len(new) \in Nat /\ a \in Nat /\ a <= Len(p)
  BY LenProperties
<1>2. /\ pn \in Seq(S) /\ Len(pn) = Len(p) + Len(new)
      /\ \A i \in 1..(Len(p) + Len(new)) : pn[i] = IF i <= Len(p) THEN p[i] ELSE new[i - Len(p)]
  BY ConcatProperties
<1>3. /\ \A i \in (a + 1)..Len(p) : p[i] \in S
      /\ \A i \in (a + 1)..Len(pn) : pn[i] \in S
  BY <1>1, <1>2, ElementOfSeq
<1>4. /\ x \in Seq(S) /\ Len(x) = Len(p) - a
      /\ \A i \in 1..(Len(p) - a) : x[i] = p[a + i]
  <2>1. /\ x \in Seq(S) /\ Len(x) = IF a + 1 <= Len(p) THEN Len(p) - (a + 1) + 1 ELSE 0
        /\ \A i \in 1..(Len(p) - (a + 1) + 1) : x[i] = p[(a + 1) + i - 1]
    BY <1>1, <1>3, SubSeqProperties
  <2> HIDE DEF x
  <2> QED
    BY <1>1, <2>1
<1>5. /\ y \in Seq(S) /\ Len(y) = Len(p) + Len(new) - a
      /\ \A i \in 1..(Len(p) + Len(new) - a) : y[i] = pn[a + i]
  <2>1. /\ y \in Seq(S) /\ Len(y) = IF a + 1 <= Len(pn) THEN Len(pn) - (a + 1) + 1 ELSE 0
        /\ \A i \in 1..(Len(pn) - (a + 1) + 1) : y[i] = pn[(a + 1) + i - 1]
    BY <1>1, <1>2, <1>3, SubSeqProperties
  <2> HIDE DEF y, pn
  <2> QED
    BY <1>1, <1>2, <2>1
<1>6. /\ x \o new \in Seq(S) /\ Len(x \o new) = Len(p) - a + Len(new)
      /\ \A i \in 1..(Len(p) - a + Len(new)) :
            (x \o new)[i] = IF i <= Len(p) - a THEN x[i] ELSE new[i - (Len(p) - a)]
  <2>1. x \in Seq(S) /\ Len(x) = Len(p) - a
    BY <1>4
  <2> HIDE DEF x, pn, y
  <2>2. /\ x \o new \in Seq(S) /\ Len(x \o new) = Len(x) + Len(new)
        /\ \A i \in 1..(Len(x) + Len(new)) :
              (x \o new)[i] = IF i <= Len(x) THEN x[i] ELSE new[i - Len(x)]
    BY <2>1, ConcatProperties
  <2> QED
    BY <2>1, <2>2
<1> DEFINE z == x \o new
<1> HIDE DEF x, y, z, pn
<1>7. ASSUME NEW i \in 1..Len(z) PROVE z[i] = y[i]
  <2>1. i \in 1..(Len(p) + Len(new) - a) /\ y[i] = pn[a + i]
    BY <1>1, <1>5, <1>6, <1>7 DEF z
  <2>2. a + i \in 1..(Len(p) + Len(new))
    BY <1>1, <2>1
  <2>3. CASE i <= Len(p) - a
    <3>1. z[i] = x[i] /\ x[i] = p[a + i]
      BY <1>1, <1>4, <1>6, <2>1, <2>3 DEF z
    <3>2. pn[a + i] = p[a + i]
      BY <1>1, <1>2, <2>2, <2>3
    <3> QED
      BY <2>1, <3>1, <3>2
  <2>4. CASE i > Len(p) - a
    <3>1. z[i] = new[i - (Len(p) - a)]
      BY <1>1, <1>6, <2>1, <2>4 DEF z
    <3>2. pn[a + i] = new[(a + i) - Len(p)] /\ (a + i) - Len(p) = i - (Len(p) - a)
      BY <1>1, <1>2, <2>1, <2>2, <2>4
    <3> QED
      BY <2>1, <3>1, <3>2
  <2> QED
    BY <1>1, <2>1, <2>3, <2>4
<1>8. Len(z) = Len(y) /\ z \in Seq(S) /\ y \in Seq(S)
  BY <1>1, <1>5, <1>6 DEF z
<1>9. z = y
  BY <1>7, <1>8, SeqEqual
<1> QED
  BY <1>9 DEF z, y, x, pn

-----------------------------------------------------------------------------
(* The inductive invariant *)

\* The history is in the order of publication, and an answer fits a queue.
HistoryInOrder == Embeds(events, published)
AnswerFits == Cardinality(poll.page) <= PageSize

\* A connection: what it replays and what it delivered are in order; while it
\* replays it has sent a first part of the history and no queue is registered;
\* once it is subscribed and prompt it lacks nothing published since.
InOrder(k, pub) ==
    /\ Embeds(k.replay, pub)
    /\ Embeds(k.sent \o k.queue, pub)
    /\ k.phase = "replay" =>
          k.queue = <<>> /\ Len(k.sent) <= Len(k.replay) /\ k.sent = SubSeq(k.replay, 1, Len(k.sent))
    /\ k.phase = "live" /\ ~k.lagged =>
          k.sent \o k.queue = k.replay \o SubSeq(pub, k.after + 1, Len(pub))

IInv ==
    /\ StreamTypeOK
    /\ HistoryInOrder
    /\ AnswerFits
    /\ \A c \in Clients : InOrder(conn[c], published)

\* A client that is not connected is in order whatever was published.
LEMMA AwayInOrder ==
  ASSUME NEW n, NEW S, NEW pub \in Seq(S)
  PROVE  InOrder(Away(n), pub)
<1>1. <<>> \o <<>> = <<>>
  BY EmptySeq, ConcatEmptySeq
<1> QED
  BY <1>1, EmptyEmbeds DEF Away, InOrder

\* And it is a connection.
LEMMA AwayType ==
  ASSUME NEW n \in 0..MaxConnects, published \in Seq(seen)
  PROVE  Away(n) \in Connections /\ Len(Away(n).queue) <= QueueSize
<1>1. <<>> \in Seq(seen) /\ Len(<<>>) = 0
  BY EmptySeq
<1>2. Len(published) \in Nat
  BY LenProperties
<1> QED
  BY <1>1, <1>2, StreamAssumption DEF Away, Connections

\* A step that changes the connection of one client only.
LEMMA ClientStep ==
  ASSUME IInv, NEW c \in Clients, NEW k \in Connections,
         conn' = [conn EXCEPT ![c] = k], Len(k.queue) <= QueueSize, InOrder(k, published),
         UNCHANGED <<airflow, backend, poll, restarts>>
  PROVE  IInv'
<1>1. UNCHANGED <<failed, failures, fresh, since, seen, events, published, poll, restarts>>
  BY DEF airflow, backend
<1>2. conn' \in [Clients -> Connections] /\ Connections' = Connections
  BY <1>1 DEF IInv, StreamTypeOK, Connections
<1>3. \A d \in Clients : conn'[d] = IF d = c THEN k ELSE conn[d]
  BY DEF IInv, StreamTypeOK
<1>4. StreamTypeOK'
  BY <1>1, <1>2, <1>3 DEF IInv, StreamTypeOK
<1>5. ASSUME NEW d \in Clients PROVE InOrder(conn[d], published)'
  BY <1>1, <1>3 DEF IInv, InOrder
<1> QED
  BY <1>1, <1>4, <1>5 DEF IInv, HistoryInOrder, AnswerFits

\* A step of Airflow, or of the poller before it reports.
LEMMA QuietStep ==
  ASSUME IInv, UNCHANGED <<backend, conn, restarts>>,
         failed' \subseteq Runs, failures' \in [Runs -> 0..MaxFailures], fresh' \subseteq Runs,
         poll' \in [at : {"sleeping", "waiting"}, page : SUBSET Runs],
         Cardinality(poll'.page) <= PageSize
  PROVE  IInv'
<1>1. UNCHANGED <<since, seen, events, published, conn, restarts>>
  BY DEF backend
<1>2. StreamTypeOK'
  BY <1>1 DEF IInv, StreamTypeOK, Connections
<1>3. ASSUME NEW d \in Clients PROVE InOrder(conn[d], published)'
  BY <1>1 DEF IInv, InOrder
<1> QED
  BY <1>1, <1>2, <1>3 DEF IInv, HistoryInOrder, AnswerFits
\* A report's events: distinct, none of them published before, at most a page.
LEMMA NewEvents ==
  ASSUME IInv, NEW new \in NewestFirst(poll.page \ seen)
  PROVE  /\ new \in Seq(poll.page \ seen) /\ IsInjective(new)
         /\ Len(new) <= PageSize
<1> DEFINE D == poll.page \ seen
<1>1. poll.page \subseteq Runs /\ IsFiniteSet(poll.page)
  BY StreamAssumption, FS_Subset DEF IInv, StreamTypeOK
<1>2. /\ IsFiniteSet(D) /\ Cardinality(D) \in Nat
      /\ Cardinality(D) <= Cardinality(poll.page) /\ Cardinality(poll.page) \in Nat
  BY <1>1, FS_Subset, FS_CardinalityType
<1>3. /\ new \in [1..Cardinality(D) -> D]
      /\ \A i, j \in DOMAIN new : i < j => new[i] > new[j]
  BY DEF NewestFirst
<1>4. new \in Seq(D) /\ Len(new) = Cardinality(D)
  BY <1>2, <1>3
<1>5. \A i \in DOMAIN new : new[i] \in Nat
  BY <1>1, <1>3, StreamAssumption
<1>6. IsInjective(new)
  <2>1. SUFFICES ASSUME NEW i \in DOMAIN new, NEW j \in DOMAIN new, new[i] = new[j]
                 PROVE  i = j
    BY DEF IsInjective
  <2>2. new[i] \in Nat /\ new[j] \in Nat /\ ~(new[i] > new[j]) /\ ~(new[j] > new[i])
    BY <1>5, <2>1
  <2>3. ~(i < j) /\ ~(j < i)
    BY <1>3, <2>2
  <2>4. i \in Int /\ j \in Int
    BY <1>2, <1>3
  <2> QED
    BY <2>3, <2>4
<1>7. Len(new) <= PageSize
  BY <1>2, <1>4, StreamAssumption DEF IInv, AnswerFits
<1> QED
  BY <1>4, <1>6, <1>7

\* Distinct events after distinct others are distinct.
LEMMA PublishedOnce ==
  ASSUME NEW S, NEW T, S \cap T = {}, NEW p \in Seq(S), NEW new \in Seq(T),
         IsInjective(p), IsInjective(new)
  PROVE  p \o new \in Seq(S \cup T) /\ IsInjective(p \o new)
<1> DEFINE pn == p \o new
<1>1. p \in Seq(S \cup T) /\ new \in Seq(S \cup T)
  BY SeqMonotonic
<1>2. pn \in Seq(S \cup T) /\ Len(pn) = Len(p) + Len(new)
  BY <1>1, ConcatProperties
<1>3. \A i \in 1..(Len(p) + Len(new)) : pn[i] = IF i <= Len(p) THEN p[i] ELSE new[i - Len(p)]
  BY <1>1, ConcatProperties
<1>4. /\ Len(p) \in Nat /\ DOMAIN p = 1..Len(p)
      /\ Len(new) \in Nat /\ DOMAIN new = 1..Len(new)
      /\ DOMAIN pn = 1..(Len(p) + Len(new))
  BY <1>2, LenProperties
<1>5. /\ \A i \in 1..Len(p) : p[i] \in S
      /\ \A i \in 1..Len(new) : new[i] \in T
  BY ElementOfSeq
<1> HIDE DEF pn
<1>6. ASSUME NEW a \in DOMAIN pn, NEW b \in DOMAIN pn, pn[a] = pn[b] PROVE a = b
  <2>1. CASE a <= Len(p) /\ b <= Len(p)
    BY <1>3, <1>4, <1>6, <2>1 DEF IsInjective
  <2>2. CASE a <= Len(p) /\ b > Len(p)
    <3>1. pn[a] \in S
      BY <1>3, <1>4, <1>5, <2>2
    <3>2. b - Len(p) \in 1..Len(new) /\ pn[b] = new[b - Len(p)]
      BY <1>3, <1>4, <2>2
    <3> QED
      BY <1>5, <1>6, <3>1, <3>2
  <2>3. CASE a > Len(p) /\ b <= Len(p)
    <3>1. pn[b] \in S
      BY <1>3, <1>4, <1>5, <2>3
    <3>2. a - Len(p) \in 1..Len(new) /\ pn[a] = new[a - Len(p)]
      BY <1>3, <1>4, <2>3
    <3> QED
      BY <1>5, <1>6, <3>1, <3>2
  <2>4. CASE a > Len(p) /\ b > Len(p)
    <3>1. a - Len(p) \in DOMAIN new /\ pn[a] = new[a - Len(p)]
      BY <1>3, <1>4, <2>4
    <3>2. b - Len(p) \in DOMAIN new /\ pn[b] = new[b - Len(p)]
      BY <1>3, <1>4, <2>4
    <3>3. a - Len(p) = b - Len(p)
      BY <1>6, <3>1, <3>2 DEF IsInjective
    <3> QED
      BY <1>4, <3>3
  <2> QED
    BY <1>4, <2>1, <2>2, <2>3, <2>4
<1> QED
  BY <1>2, <1>6 DEF IsInjective, pn

\* The connections over events of S, of which n were published.
ConnectionsOf(S, n) ==
    [phase : {"away", "replay", "live"}, replay : Seq(S), queue : Seq(S),
     sent : Seq(S), after : 0..n, lagged : BOOLEAN, connects : 0..MaxConnects]

\* A report's effect on one connection.
Offered(k, new) ==
    IF k.phase = "live"
    THEN [k EXCEPT !.queue = Offer(@, new), !.lagged = @ \/ (new # <<>> /\ k.queue # <<>>)]
    ELSE k

\* What a queue takes of new events is a first part of them.
LEMMA OfferTakes ==
  ASSUME NEW S, NEW q \in Seq(S), NEW new \in Seq(S), Len(q) <= QueueSize, Len(new) <= PageSize
  PROVE  \E n \in 0..Len(new) :
            /\ Offer(q, new) = q \o SubSeq(new, 1, n)
            /\ Offer(q, new) \in Seq(S) /\ Len(Offer(q, new)) <= QueueSize
<1> DEFINE n == IF Len(new) < QueueSize - Len(q) THEN Len(new) ELSE QueueSize - Len(q)
<1>1. /\ Len(q) \in Nat /\ Len(new) \in Nat
      /\ QueueSize \in Nat /\ PageSize \in Nat /\ PageSize <= QueueSize
  BY LenProperties, StreamAssumption, PageFitsQueue
<1>2. n \in 0..Len(new) /\ Len(q) + n <= QueueSize /\ n \in Int
  BY <1>1
<1>3. \A i \in 1..n : new[i] \in S
  BY <1>1, <1>2, ElementOfSeq
<1>4. Offer(q, new) = q \o SubSeq(new, 1, n)
  BY DEF Offer
<1> HIDE DEF n
<1>5. SubSeq(new, 1, n) \in Seq(S) /\ Len(SubSeq(new, 1, n)) = n
  BY <1>1, <1>2, <1>3, SubSeqProperties
<1>6. Offer(q, new) \in Seq(S) /\ Len(Offer(q, new)) = Len(q) + n
  BY <1>4, <1>5, ConcatProperties
<1> QED
  BY <1>2, <1>4, <1>6

\* An empty queue takes all of an answer: one page fits a queue.
LEMMA OfferTakesAll ==
  ASSUME NEW S, NEW q \in Seq(S), NEW new \in Seq(S), Len(q) <= QueueSize, Len(new) <= PageSize,
         new = <<>> \/ q = <<>>
  PROVE  Offer(q, new) = q \o new
<1>1. Len(q) \in Nat /\ Len(new) \in Nat /\ QueueSize \in Nat /\ PageSize \in Nat
  BY LenProperties, StreamAssumption
<1>2. (new = <<>> => Len(new) = 0) /\ (q = <<>> => Len(q) = 0)
  BY EmptySeq
<1>3. Len(new) <= QueueSize - Len(q)
  BY <1>1, <1>2, PageFitsQueue
<1>4. (IF Len(new) < QueueSize - Len(q) THEN Len(new) ELSE QueueSize - Len(q)) = Len(new)
  BY <1>1, <1>3
<1>5. SubSeq(new, 1, Len(new)) = new
  BY SubSeqFull
<1> QED
  BY <1>4, <1>5, Zenon DEF Offer

\* The events offered to a connection come after all it delivered.
LEMMA OfferedLate ==
  ASSUME NEW S, NEW pub \in Seq(S), NEW new \in Seq(S), Len(new) <= PageSize,
         NEW sent \in Seq(S), NEW queue \in Seq(S), Len(queue) <= QueueSize,
         Embeds(sent \o queue, pub)
  PROVE  Embeds(sent \o Offer(queue, new), pub \o new)
<1>1. PICK n \in 0..Len(new) : Offer(queue, new) = queue \o SubSeq(new, 1, n)
  BY OfferTakes
<1>2. Embeds((sent \o queue) \o SubSeq(new, 1, n), pub \o new)
  <2>1. sent \o queue \in Seq(S)
    BY ConcatProperties
  <2> QED
    BY <2>1, DeliveryEmbeds
<1>3. SubSeq(new, 1, n) \in Seq(S)
  <2>1. Len(new) \in Nat /\ \A i \in 1..n : new[i] \in S
    BY LenProperties, ElementOfSeq
  <2> QED
    BY <2>1, SubSeqProperties
<1>4. Associates(sent, queue, SubSeq(new, 1, n))
  BY <1>3, Joined
<1> QED
  BY <1>1, <1>2, <1>4, Zenon DEF Associates

\* And the empty queue of a prompt client takes all of them.
Catches(sent, queue, replay, after, pub, new) ==
    sent \o queue = replay \o SubSeq(pub, after + 1, Len(pub))
        => sent \o Offer(queue, new) = replay \o SubSeq(pub \o new, after + 1, Len(pub \o new))

LEMMA OfferedWhole ==
  ASSUME NEW S, NEW pub \in Seq(S), NEW new \in Seq(S), Len(new) <= PageSize,
         NEW sent \in Seq(S), NEW queue \in Seq(S), Len(queue) <= QueueSize,
         NEW replay \in Seq(S), NEW after \in 0..Len(pub),
         new = <<>> \/ queue = <<>>
  PROVE  Catches(sent, queue, replay, after, pub, new)
<1> DEFINE later == SubSeq(pub, after + 1, Len(pub))
           all == SubSeq(pub \o new, after + 1, Len(pub \o new))
<1>1. Offer(queue, new) = queue \o new
  BY OfferTakesAll
<1>2. later \in Seq(S)
  <2>1. Len(pub) \in Nat /\ \A i \in (after + 1)..Len(pub) : pub[i] \in S
    BY LenProperties, ElementOfSeq
  <2> QED
    BY <2>1, SubSeqProperties
<1>3. later \o new = all
  BY SuffixOfConcat
<1> HIDE DEF later, all
<1>4. Associates(sent, queue, new) /\ Associates(replay, later, new)
  BY <1>2, Joined
<1>5. sent \o queue = replay \o later => sent \o Offer(queue, new) = replay \o all
  BY <1>1, <1>3, <1>4, Zenon DEF Associates
<1> QED
  BY <1>5 DEF later, all, Catches

\* A report keeps every connection in order.
LEMMA OfferedInOrder ==
  ASSUME NEW S, NEW pub \in Seq(S), NEW new \in Seq(S), Len(new) <= PageSize,
         NEW k \in ConnectionsOf(S, Len(pub)), Len(k.queue) <= QueueSize, InOrder(k, pub)
  PROVE  InOrder(Offered(k, new), pub \o new)
<1>0. /\ k.replay \in Seq(S) /\ k.sent \in Seq(S) /\ k.queue \in Seq(S)
      /\ k.after \in 0..Len(pub)
  BY DEF ConnectionsOf
<1>1. Embeds(k.replay, pub \o new)
  BY <1>0, PublishingEmbeds DEF InOrder
<1>2. k.sent \o k.queue \in Seq(S)
  BY <1>0, ConcatProperties
<1>3. CASE k.phase # "live"
  <2>1. Embeds(k.sent \o k.queue, pub \o new)
    BY <1>2, PublishingEmbeds DEF InOrder
  <2> QED
    BY <1>1, <1>3, <2>1 DEF InOrder, Offered
<1>4. CASE k.phase = "live"
  <2> DEFINE o == Offered(k, new)
             late == k.lagged \/ (new # <<>> /\ k.queue # <<>>)
  <2>1. /\ o = [k EXCEPT !.queue = Offer(@, new), !.lagged = late]
        /\ late \in BOOLEAN
    BY <1>4 DEF Offered
  <2>2. (~late) => ~k.lagged /\ (new = <<>> \/ k.queue = <<>>)
    BY Zenon
  <2> HIDE DEF o, late
  <2>3. /\ o.replay = k.replay /\ o.sent = k.sent /\ o.after = k.after /\ o.phase = "live"
        /\ o.queue = Offer(k.queue, new)
        /\ o.lagged = late
    BY <1>4, <2>1 DEF ConnectionsOf
  <2>4. Embeds(k.sent \o Offer(k.queue, new), pub \o new)
    BY <1>0, OfferedLate DEF InOrder
  <2>5. ASSUME ~late
        PROVE  k.sent \o Offer(k.queue, new)
                 = k.replay \o SubSeq(pub \o new, k.after + 1, Len(pub \o new))
    <3>1. new = <<>> \/ k.queue = <<>>
      BY <2>2, <2>5
    <3>2. Catches(k.sent, k.queue, k.replay, k.after, pub, new)
      BY <1>0, <3>1, OfferedWhole
    <3> QED
      BY <1>4, <2>2, <2>5, <3>2, Zenon DEF InOrder, Catches
  <2>6. o.phase = "live" /\ ~o.lagged =>
          o.sent \o o.queue = o.replay \o SubSeq(pub \o new, o.after + 1, Len(pub \o new))
    BY <2>3, <2>5
  <2>7. Embeds(o.replay, pub \o new) /\ Embeds(o.sent \o o.queue, pub \o new)
    BY <1>1, <2>3, <2>4
  <2>8. InOrder(o, pub \o new)
    BY <2>3, <2>6, <2>7 DEF InOrder
  <2> QED
    BY <2>8 DEF o
<1> QED
  BY <1>3, <1>4

\* A report leaves a connection a connection, of the larger set of runs.
LEMMA OfferedType ==
  ASSUME NEW S, NEW T, S \subseteq T, NEW m \in Nat, NEW n \in Nat, m <= n,
         NEW new \in Seq(T), Len(new) <= PageSize,
         NEW k \in ConnectionsOf(S, m), Len(k.queue) <= QueueSize
  PROVE  Offered(k, new) \in ConnectionsOf(T, n) /\ Len(Offered(k, new).queue) <= QueueSize
<1>1. /\ k.replay \in Seq(S) /\ k.sent \in Seq(S) /\ k.queue \in Seq(S)
      /\ k.phase \in {"away", "replay", "live"} /\ k.after \in 0..m
      /\ k.lagged \in BOOLEAN /\ k.connects \in 0..MaxConnects
      /\ k = [phase |-> k.phase, replay |-> k.replay, queue |-> k.queue, sent |-> k.sent,
              after |-> k.after, lagged |-> k.lagged, connects |-> k.connects]
  BY DEF ConnectionsOf
<1>2. k.replay \in Seq(T) /\ k.sent \in Seq(T) /\ k.queue \in Seq(T) /\ k.after \in 0..n
  BY <1>1, SeqMonotonic
<1>3. k \in ConnectionsOf(T, n)
  BY <1>1, <1>2 DEF ConnectionsOf
<1>4. Offer(k.queue, new) \in Seq(T) /\ Len(Offer(k.queue, new)) <= QueueSize
  BY <1>2, OfferTakes
<1> DEFINE late == k.lagged \/ (new # <<>> /\ k.queue # <<>>)
           q == Offer(k.queue, new)
<1>5. late \in BOOLEAN
  OBVIOUS
<1>6. Offered(k, new) = IF k.phase = "live" THEN [k EXCEPT !.queue = q, !.lagged = late] ELSE k
  BY DEF Offered
<1>7. q \in Seq(T) /\ Len(q) <= QueueSize
  BY <1>4
<1> HIDE DEF late, q
<1> QED
  BY <1>3, <1>5, <1>6, <1>7 DEF ConnectionsOf

\* The report of an answer.
LEMMA ReportStep ==
  ASSUME IInv, ReportFailures
  PROVE  IInv'
<1> DEFINE D == poll.page \ seen
<1>1. PICK new \in NewestFirst(D) :
        /\ events' = LastOf(events \o new, HistorySize)
        /\ published' = published \o new
        /\ FanOut(new)
  BY DEF ReportFailures
<1>2. /\ seen' = seen \cup poll.page /\ poll' = Sleeping
      /\ UNCHANGED <<failed, failures, fresh, since, restarts>>
  BY DEF ReportFailures, airflow
<1>3. new \in Seq(D) /\ IsInjective(new) /\ Len(new) <= PageSize
  BY NewEvents
<1>4. /\ published \in Seq(seen) /\ IsInjective(published)
      /\ events \in Seq(seen) /\ Embeds(events, published)
      /\ conn \in [Clients -> Connections]
      /\ seen \subseteq Runs /\ poll.page \subseteq Runs
      /\ HistorySize \in Nat \ {0} /\ PageSize \in Nat \ {0}
  BY StreamAssumption DEF IInv, StreamTypeOK, HistoryInOrder
<1>5. seen \cup D = seen' /\ seen \cap D = {} /\ seen \subseteq seen' /\ D \subseteq seen'
  BY <1>2
<1> HIDE DEF D
<1>6. published' \in Seq(seen') /\ IsInjective(published')
  BY <1>1, <1>3, <1>4, <1>5, PublishedOnce
<1>7. published \in Seq(seen') /\ events \in Seq(seen') /\ new \in Seq(seen')
  BY <1>3, <1>4, <1>5, SeqMonotonic
<1>8. Len(published) \in Nat /\ Len(published') \in Nat /\ Len(published) <= Len(published')
  <2>1. Len(published \o new) = Len(published) + Len(new)
    BY <1>7, ConcatProperties
  <2> QED
    BY <1>1, <1>7, <2>1, LenProperties
<1>9. events' \in Seq(seen') /\ Len(events') <= HistorySize /\ Embeds(events', published')
  <2> DEFINE e == events \o new
  <2>1. e \in Seq(seen')
    BY <1>7, ConcatProperties
  <2>2. Embeds(e, published')
    <3>1. Len(new) \in Nat /\ SubSeq(new, 1, Len(new)) = new
      BY <1>7, LenProperties, SubSeqFull
    <3>2. Embeds(events \o SubSeq(new, 1, Len(new)), published \o new)
      BY <1>4, <1>7, <3>1, DeliveryEmbeds
    <3> QED
      BY <1>1, <3>1, <3>2
  <2>3. events' = LastOf(e, HistorySize)
    BY <1>1
  <2>4. Len(e) \in Nat
    BY <2>1, LenProperties
  <2> HIDE DEF e
  <2>5. CASE Len(e) <= HistorySize
    BY <2>1, <2>2, <2>3, <2>5 DEF LastOf
  <2>6. CASE ~(Len(e) <= HistorySize)
    <3> DEFINE from == Len(e) - HistorySize + 1
    <3>1. from \in Nat \ {0} /\ events' = SubSeq(e, from, Len(e))
      BY <1>4, <2>3, <2>4, <2>6 DEF LastOf
    <3>2. SubSeq(e, from, Len(e)) \in Seq(seen') /\ Embeds(SubSeq(e, from, Len(e)), published')
      BY <2>1, <2>2, <2>4, <3>1, PartEmbeds
    <3>3. Len(SubSeq(e, from, Len(e))) = HistorySize
      <4>1. \A i \in from..Len(e) : e[i] \in seen'
        BY <2>1, <2>4, <3>1, ElementOfSeq
      <4>2. Len(SubSeq(e, from, Len(e))) = IF from <= Len(e) THEN Len(e) - from + 1 ELSE 0
        BY <2>4, <3>1, <4>1, SubSeqProperties
      <4> QED
        BY <1>4, <2>4, <2>6, <4>2
    <3> QED
      BY <1>4, <3>1, <3>2, <3>3
  <2> QED
    BY <2>5, <2>6
<1>10. \A c \in Clients : conn'[c] = Offered(conn[c], new)
  BY <1>1, <1>4 DEF FanOut, Offered
<1>11. DOMAIN conn' = Clients
  BY <1>1 DEF FanOut
<1>12. ASSUME NEW c \in Clients
       PROVE  /\ conn'[c] \in Connections' /\ Len(conn'[c].queue) <= QueueSize
              /\ InOrder(conn'[c], published')
  <2>1. /\ conn[c] \in ConnectionsOf(seen, Len(published))
        /\ Len(conn[c].queue) <= QueueSize /\ InOrder(conn[c], published)
    BY DEF IInv, StreamTypeOK, Connections, ConnectionsOf
  <2>2. /\ Offered(conn[c], new) \in ConnectionsOf(seen', Len(published'))
        /\ Len(Offered(conn[c], new).queue) <= QueueSize
    BY <1>3, <1>5, <1>7, <1>8, <2>1, OfferedType
  <2>3. conn[c] \in ConnectionsOf(seen', Len(published))
    <3>1. Seq(seen) \subseteq Seq(seen')
      BY <1>5, SeqMonotonic
    <3> QED
      BY <2>1, <3>1 DEF ConnectionsOf
  <2>4. InOrder(Offered(conn[c], new), published \o new)
    BY <1>3, <1>7, <2>1, <2>3, OfferedInOrder
  <2> QED
    BY <1>1, <1>10, <2>2, <2>4 DEF Connections, ConnectionsOf
<1>13. conn' \in [Clients -> Connections']
  <2>1. conn' = [c \in Clients |-> conn'[c]]
    BY <1>1 DEF FanOut
  <2> QED
    BY <1>12, <2>1
<1>14. /\ poll' \in [at : {"sleeping", "waiting"}, page : SUBSET Runs]
       /\ Cardinality(poll'.page) <= PageSize
  BY <1>2, <1>4, FS_EmptySet DEF Sleeping
<1>15. StreamTypeOK'
  BY <1>2, <1>4, <1>6, <1>9, <1>12, <1>13, <1>14 DEF IInv, StreamTypeOK
<1> QED
  BY <1>9, <1>12, <1>14, <1>15 DEF IInv, HistoryInOrder, AnswerFits

-----------------------------------------------------------------------------
(* A client's coroutine *)

\* The next event of the history, sent after a first part of it.
LEMMA NextOfHistory ==
  ASSUME NEW S, NEW r \in Seq(S), NEW n \in Nat, n < Len(r)
  PROVE  Append(SubSeq(r, 1, n), r[n + 1]) = SubSeq(r, 1, n + 1)
<1> DEFINE x == SubSeq(r, 1, n)
           y == SubSeq(r, 1, n + 1)
<1>1. Len(r) \in Nat /\ \A i \in 1..(n + 1) : r[i] \in S
  BY LenProperties, ElementOfSeq
<1>2. x \in Seq(S) /\ Len(x) = n /\ \A i \in 1..n : x[i] = r[i]
  BY <1>1, SubSeqProperties
<1>3. y \in Seq(S) /\ Len(y) = n + 1 /\ \A i \in 1..(n + 1) : y[i] = r[i]
  BY <1>1, SubSeqProperties
<1> HIDE DEF x, y
<1> DEFINE z == Append(x, r[n + 1])
<1>4. z \in Seq(S) /\ Len(z) = n + 1
      /\ \A i \in 1..(n + 1) : z[i] = IF i = n + 1 THEN r[n + 1] ELSE x[i]
  BY <1>1, <1>2, AppendProperties
<1> HIDE DEF z
<1>5. \A i \in 1..(n + 1) : z[i] = y[i]
  BY <1>2, <1>3, <1>4
<1>6. z = y
  BY <1>3, <1>4, <1>5, SeqEqual
<1> QED
  BY <1>6 DEF x, y, z

\* Sending the first event of the queue changes nothing of what is delivered.
LEMMA SentFromQueue ==
  ASSUME NEW S, NEW s \in Seq(S), NEW q \in Seq(S), q # <<>>
  PROVE  /\ Append(s, Head(q)) \in Seq(S) /\ Tail(q) \in Seq(S) /\ Len(Tail(q)) = Len(q) - 1
         /\ Append(s, Head(q)) \o Tail(q) = s \o q
<1> DEFINE h == Append(s, Head(q))
           t == Tail(q)
           z == h \o t
           w == s \o q
<1>1. Len(s) \in Nat /\ Len(q) \in Nat \ {0}
  BY LenProperties, EmptySeq
<1>2. /\ Head(q) \in S /\ t \in Seq(S) /\ Len(t) = Len(q) - 1
      /\ \A i \in 1..(Len(q) - 1) : t[i] = q[i + 1]
  BY HeadTailProperties
<1>3. Head(q) = q[1]
  OBVIOUS
<1>4. /\ h \in Seq(S) /\ Len(h) = Len(s) + 1
      /\ \A i \in 1..(Len(s) + 1) : h[i] = IF i = Len(s) + 1 THEN Head(q) ELSE s[i]
  BY <1>2, AppendProperties
<1>5. /\ w \in Seq(S) /\ Len(w) = Len(s) + Len(q)
      /\ \A i \in 1..(Len(s) + Len(q)) : w[i] = IF i <= Len(s) THEN s[i] ELSE q[i - Len(s)]
  BY ConcatProperties
<1> HIDE DEF h, t, w
<1>6. /\ z \in Seq(S) /\ Len(z) = Len(h) + Len(t)
      /\ \A i \in 1..(Len(h) + Len(t)) : z[i] = IF i <= Len(h) THEN h[i] ELSE t[i - Len(h)]
  BY <1>2, <1>4, ConcatProperties
<1> HIDE DEF z
<1>7. ASSUME NEW i \in 1..(Len(s) + Len(q)) PROVE z[i] = w[i]
  <2>1. z[i] = IF i <= Len(s) + 1 THEN h[i] ELSE t[i - (Len(s) + 1)]
    BY <1>1, <1>2, <1>4, <1>6
  <2>2. CASE i <= Len(s)
    BY <1>1, <1>4, <1>5, <2>1, <2>2
  <2>3. CASE i = Len(s) + 1
    BY <1>1, <1>3, <1>4, <1>5, <2>1, <2>3
  <2>4. CASE i > Len(s) + 1
    <3>1. i - (Len(s) + 1) \in 1..(Len(q) - 1) /\ (i - (Len(s) + 1)) + 1 = i - Len(s)
      BY <1>1, <2>4
    <3>2. t[i - (Len(s) + 1)] = q[i - Len(s)]
      BY <1>2, <3>1
    <3> QED
      BY <1>1, <1>5, <2>1, <2>4, <3>2
  <2> QED
    BY <1>1, <2>2, <2>3, <2>4
<1>8. z = w
  BY <1>1, <1>2, <1>4, <1>5, <1>6, <1>7, SeqEqual
<1> QED
  BY <1>2, <1>4, <1>8 DEF h, t, z, w

\* Nothing was published since the last event.
LEMMA NothingSince ==
  ASSUME NEW S, NEW p \in Seq(S)
  PROVE  SubSeq(p, Len(p) + 1, Len(p)) = <<>>
  BY LenProperties, SubSeqEmpty

\* The parts of a connection.
LEMMA Parts ==
  ASSUME IInv, NEW c \in Clients
  PROVE  /\ conn[c] \in Connections /\ InOrder(conn[c], published)
         /\ conn[c] = [phase |-> conn[c].phase, replay |-> conn[c].replay,
                       queue |-> conn[c].queue, sent |-> conn[c].sent, after |-> conn[c].after,
                       lagged |-> conn[c].lagged, connects |-> conn[c].connects]
         /\ conn[c].replay \in Seq(seen) /\ conn[c].queue \in Seq(seen)
         /\ conn[c].sent \in Seq(seen) /\ conn[c].after \in 0..Len(published)
         /\ conn[c].lagged \in BOOLEAN /\ conn[c].connects \in 0..MaxConnects
         /\ Len(conn[c].queue) <= QueueSize /\ Len(conn[c].queue) \in Nat
         /\ Len(conn[c].sent) \in Nat /\ Len(conn[c].replay) \in Nat
         /\ published \in Seq(seen) /\ Len(published) \in Nat
         /\ events \in Seq(seen) /\ Embeds(events, published)
         /\ QueueSize \in Nat \ {0} /\ MaxConnects \in Nat
<1>1. conn[c] \in Connections /\ published \in Seq(seen)
  BY DEF IInv, StreamTypeOK
<1>2. /\ conn[c].replay \in Seq(seen) /\ conn[c].queue \in Seq(seen) /\ conn[c].sent \in Seq(seen)
  BY <1>1 DEF Connections
<1> QED
  BY <1>1, <1>2, LenProperties, StreamAssumption
  DEF IInv, StreamTypeOK, HistoryInOrder, Connections

\* What the history's next event does to a connection that replays it.
LEMMA ReplayedOne ==
  ASSUME NEW S, NEW pub, NEW r \in Seq(S), NEW n \in Nat, n < Len(r), Embeds(r, pub)
  PROVE  /\ SubSeq(r, 1, n + 1) \in Seq(S) /\ Len(SubSeq(r, 1, n + 1)) = n + 1
         /\ Append(SubSeq(r, 1, n), r[n + 1]) = SubSeq(r, 1, n + 1)
         /\ Embeds(SubSeq(r, 1, n + 1) \o <<>>, pub)
<1>1. Len(r) \in Nat /\ n + 1 \in Nat /\ n + 1 <= Len(r) /\ \A i \in 1..(n + 1) : r[i] \in S
  BY LenProperties, ElementOfSeq
<1>2. SubSeq(r, 1, n + 1) \in Seq(S) /\ Len(SubSeq(r, 1, n + 1)) = n + 1
  BY <1>1, SubSeqProperties
<1>3. Embeds(SubSeq(r, 1, n + 1), pub)
  BY <1>1, PartEmbeds
<1>4. SubSeq(r, 1, n + 1) \o <<>> = SubSeq(r, 1, n + 1)
  BY <1>2, ConcatEmptySeq
<1> QED
  BY <1>2, <1>3, <1>4, NextOfHistory

LEMMA ConnectStep ==
  ASSUME IInv, NEW c \in Clients, Connect(c)
  PROVE  IInv'
<1> DEFINE n == conn[c].connects + 1
           away == Away(n)
           k == [away EXCEPT !.replay = events]
<1>0. conn[c].connects \in 0..MaxConnects /\ MaxConnects \in Nat
  BY Parts
<1>1. n \in 0..MaxConnects /\ UNCHANGED <<airflow, backend, poll, restarts>>
  BY <1>0 DEF Connect
<1>2. /\ events \in Seq(seen) /\ Embeds(events, published) /\ published \in Seq(seen)
      /\ Len(published) \in Nat /\ QueueSize \in Nat \ {0}
  BY Parts
<1>3. <<>> \in Seq(seen) /\ Len(<<>>) = 0 /\ <<>> \o <<>> = <<>>
  BY EmptySeq, ConcatEmptySeq
<1>4. /\ away \in Connections /\ away.queue = <<>> /\ away.sent = <<>>
      /\ away.after = 0 /\ away.lagged = FALSE
  BY <1>1, <1>2, AwayType DEF Away
<1>5. conn' = [conn EXCEPT ![c] =
                  IF events = <<>> THEN Subscribed(k)
                  ELSE [k EXCEPT !.phase = "replay", !.sent = <<Head(events)>>]]
  BY Zenon DEF Connect
<1> HIDE DEF n, away
<1>6. /\ k \in Connections /\ k.replay = events /\ k.queue = <<>> /\ k.sent = <<>>
      /\ k.after = 0 /\ k.lagged = FALSE
  BY <1>2, <1>4 DEF Connections
<1> HIDE DEF k
<1>7. CASE events = <<>>
  <2> DEFINE live == [k EXCEPT !.phase = "live"]
             l == [live EXCEPT !.after = Len(published)]
  <2>1. /\ live \in Connections /\ live.phase = "live" /\ live.replay = events
        /\ live.queue = <<>> /\ live.sent = <<>> /\ live.lagged = FALSE
    BY <1>6 DEF Connections
  <2>2. Subscribed(k) = l
    BY DEF Subscribed
  <2> HIDE DEF live
  <2>3. Len(published) \in 0..Len(published)
    BY <1>2
  <2>4. /\ l \in Connections /\ l.phase = "live" /\ l.replay = events /\ l.queue = <<>>
        /\ l.sent = <<>> /\ l.after = Len(published)
    BY <2>1, <2>3 DEF Connections
  <2> HIDE DEF l
  <2>5. Len(l.queue) <= QueueSize
    BY <1>2, <1>3, <2>4
  <2>6. SubSeq(published, Len(published) + 1, Len(published)) = <<>>
    BY <1>2, NothingSince
  <2>7. InOrder(l, published)
    BY <1>3, <1>7, <2>4, <2>6, EmptyEmbeds DEF InOrder
  <2>8. conn' = [conn EXCEPT ![c] = l]
    BY <1>5, <1>7, <2>2
  <2> QED
    BY <1>1, <2>4, <2>5, <2>7, <2>8, ClientStep
<1>8. CASE events # <<>>
  <2> DEFINE one == <<Head(events)>>
             l == [k EXCEPT !.phase = "replay", !.sent = one]
  <2>1. conn' = [conn EXCEPT ![c] = l]
    BY <1>5, <1>8
  <2>2. Len(events) \in Nat \ {0} /\ Head(events) = events[1]
    BY <1>2, <1>8, LenProperties, EmptySeq
  <2>3. SubSeq(events, 1, 0) = <<>>
    BY SubSeqEmpty
  <2>4. Append(<<>>, Head(events)) = one
    OBVIOUS
  <2>5. /\ SubSeq(events, 1, 0 + 1) \in Seq(seen) /\ Len(SubSeq(events, 1, 0 + 1)) = 0 + 1
        /\ Append(SubSeq(events, 1, 0), events[0 + 1]) = SubSeq(events, 1, 0 + 1)
        /\ Embeds(SubSeq(events, 1, 0 + 1) \o <<>>, published)
    BY <1>2, <2>2, ReplayedOne
  <2>6. one = SubSeq(events, 1, 1)
    BY <2>2, <2>3, <2>4, <2>5
  <2> HIDE DEF one
  <2>7. /\ one \in Seq(seen) /\ Len(one) = 1 /\ one = SubSeq(events, 1, Len(one))
        /\ Embeds(one \o <<>>, published) /\ Len(one) <= Len(events)
    BY <2>2, <2>5, <2>6
  <2>8. /\ l \in Connections /\ l.phase = "replay" /\ l.replay = events /\ l.queue = <<>>
        /\ l.sent = one
    BY <1>6, <2>7 DEF Connections
  <2> HIDE DEF l
  <2>9. l.sent \o l.queue = one \o <<>> /\ Len(l.queue) <= QueueSize
    BY <1>2, <1>3, <2>8
  <2>10. InOrder(l, published)
    BY <1>2, <2>7, <2>8, <2>9 DEF InOrder
  <2> QED
    BY <1>1, <2>1, <2>8, <2>9, <2>10, ClientStep
<1> QED
  BY <1>7, <1>8

LEMMA ReplayStep ==
  ASSUME IInv, NEW c \in Clients, ReplayNext(c)
  PROVE  IInv'
<1> DEFINE r == conn[c].replay
           n == Len(conn[c].sent)
           s == SubSeq(r, 1, n + 1)
           k == [conn[c] EXCEPT !.sent = s]
<1>1. conn[c].phase = "replay" /\ n < Len(r) /\ UNCHANGED <<airflow, backend, poll, restarts>>
  BY DEF ReplayNext
<1>2. /\ conn[c] \in Connections /\ r \in Seq(seen) /\ n \in Nat /\ Len(r) \in Nat
      /\ QueueSize \in Nat \ {0}
  BY Parts
<1>3. conn[c].queue = <<>> /\ conn[c].sent = SubSeq(r, 1, n) /\ Embeds(r, published)
  BY <1>1, Parts, Zenon DEF InOrder
<1>4. conn' = [conn EXCEPT ![c] = [conn[c] EXCEPT !.sent = Append(conn[c].sent, r[n + 1])]]
  BY DEF ReplayNext
<1>5. /\ s \in Seq(seen) /\ Len(s) = n + 1 /\ Embeds(s \o <<>>, published)
      /\ Append(SubSeq(r, 1, n), r[n + 1]) = s
  BY <1>1, <1>2, <1>3, ReplayedOne
<1>6. conn' = [conn EXCEPT ![c] = k]
  BY <1>3, <1>4, <1>5
<1>7. Len(s) <= Len(r) /\ s = SubSeq(r, 1, Len(s))
  BY <1>1, <1>2, <1>5
<1>8. Len(<<>>) <= QueueSize
  BY <1>2
<1> HIDE DEF s
<1>9. /\ k \in Connections /\ k.phase = "replay" /\ k.replay = r /\ k.sent = s
      /\ k.queue = <<>>
  BY <1>1, <1>2, <1>3, <1>5 DEF Connections
<1> HIDE DEF k, r, n
<1>10. InOrder(k, published)
  BY <1>3, <1>5, <1>7, <1>9 DEF InOrder
<1> QED
  BY <1>1, <1>6, <1>8, <1>9, <1>10, ClientStep

LEMMA SubscribeStep ==
  ASSUME IInv, NEW c \in Clients, Subscribe(c)
  PROVE  IInv'
<1> DEFINE r == conn[c].replay
           live == [conn[c] EXCEPT !.phase = "live"]
           k == [live EXCEPT !.after = Len(published)]
<1>1. /\ conn[c].phase = "replay" /\ Len(conn[c].sent) = Len(r)
      /\ conn' = [conn EXCEPT ![c] = k]
      /\ UNCHANGED <<airflow, backend, poll, restarts>>
  BY DEF Subscribe, Subscribed
<1>2. /\ conn[c] \in Connections /\ r \in Seq(seen) /\ published \in Seq(seen)
      /\ Len(published) \in Nat /\ QueueSize \in Nat \ {0}
  BY Parts
<1>3. /\ conn[c].queue = <<>> /\ conn[c].sent = SubSeq(r, 1, Len(conn[c].sent))
      /\ Embeds(r, published)
  BY <1>1, Parts, Zenon DEF InOrder
<1>4. conn[c].sent = r
  <2>1. SubSeq(r, 1, Len(r)) = r
    BY <1>2, SubSeqFull
  <2> QED
    BY <1>1, <1>3, <2>1
<1>5. SubSeq(published, Len(published) + 1, Len(published)) = <<>>
  BY <1>2, NothingSince
<1>6. r \o <<>> = r /\ Len(<<>>) <= QueueSize
  BY <1>2, ConcatEmptySeq
<1>7. /\ live \in Connections /\ live.phase = "live" /\ live.replay = r /\ live.sent = r
       /\ live.queue = <<>> /\ Len(published) \in 0..Len(published)
  BY <1>2, <1>3, <1>4 DEF Connections
<1> HIDE DEF live
<1>8. /\ k \in Connections /\ k.phase = "live" /\ k.replay = r /\ k.sent = r
      /\ k.queue = <<>> /\ k.after = Len(published)
  BY <1>7 DEF Connections
<1> HIDE DEF k, r
<1>9. InOrder(k, published)
  BY <1>3, <1>5, <1>6, <1>8 DEF InOrder
<1> QED
  BY <1>1, <1>6, <1>8, <1>9, ClientStep

LEMMA SendStep ==
  ASSUME IInv, NEW c \in Clients, SendEvent(c)
  PROVE  IInv'
<1> DEFINE s == Append(conn[c].sent, Head(conn[c].queue))
           q == Tail(conn[c].queue)
           k == [conn[c] EXCEPT !.sent = s, !.queue = q]
<1>1. /\ conn[c].phase = "live" /\ conn[c].queue # <<>>
      /\ conn' = [conn EXCEPT ![c] = k]
      /\ UNCHANGED <<airflow, backend, poll, restarts>>
  BY DEF SendEvent
<1>2. /\ conn[c] \in Connections /\ conn[c].sent \in Seq(seen) /\ conn[c].queue \in Seq(seen)
      /\ Len(conn[c].queue) \in Nat /\ Len(conn[c].queue) <= QueueSize
      /\ QueueSize \in Nat \ {0}
  BY Parts
<1>3. InOrder(conn[c], published)
  BY Parts
<1>4. /\ s \in Seq(seen) /\ q \in Seq(seen) /\ Len(q) = Len(conn[c].queue) - 1
      /\ s \o q = conn[c].sent \o conn[c].queue
  BY <1>1, <1>2, SentFromQueue
<1>5. Len(q) <= QueueSize
  BY <1>2, <1>4
<1> HIDE DEF s, q
<1>6. /\ k \in Connections /\ k.phase = "live" /\ k.replay = conn[c].replay
      /\ k.sent = s /\ k.queue = q /\ k.after = conn[c].after /\ k.lagged = conn[c].lagged
  BY <1>1, <1>2, <1>4 DEF Connections
<1> HIDE DEF k
<1>7. k.sent \o k.queue = conn[c].sent \o conn[c].queue
  BY <1>4, <1>6
<1>8. k.phase # "replay" /\ Len(k.queue) <= QueueSize
  BY <1>5, <1>6
<1>9. InOrder(k, published)
  BY <1>1, <1>3, <1>6, <1>7, <1>8, Zenon DEF InOrder
<1> QED
  BY <1>1, <1>6, <1>8, <1>9, ClientStep

LEMMA DisconnectStep ==
  ASSUME IInv, NEW c \in Clients, Disconnect(c)
  PROVE  IInv'
<1> DEFINE k == Away(conn[c].connects)
<1>1. /\ conn' = [conn EXCEPT ![c] = k] /\ UNCHANGED <<airflow, backend, poll, restarts>>
  BY DEF Disconnect
<1>2. k \in Connections /\ Len(k.queue) <= QueueSize /\ InOrder(k, published)
  BY Parts, AwayType, AwayInOrder
<1> HIDE DEF k
<1> QED
  BY <1>1, <1>2, ClientStep

-----------------------------------------------------------------------------
(* Airflow, the poller, restarts *)

LEMMA AirflowStep ==
  ASSUME IInv, NEW r \in Runs, RunFails(r) \/ ClearRun(r)
  PROVE  IInv'
<1>1. /\ failed \subseteq Runs /\ fresh \subseteq Runs /\ failures \in [Runs -> 0..MaxFailures]
      /\ poll \in [at : {"sleeping", "waiting"}, page : SUBSET Runs]
      /\ Cardinality(poll.page) <= PageSize /\ MaxFailures \in Nat
  BY StreamAssumption DEF IInv, StreamTypeOK, AnswerFits
<1>2. CASE RunFails(r)
  <2>1. /\ failed' \subseteq Runs /\ fresh' \subseteq Runs
        /\ failures' \in [Runs -> 0..MaxFailures]
    BY <1>1, <1>2 DEF RunFails
  <2>2. UNCHANGED <<backend, poll, conn, restarts>>
    BY <1>2 DEF RunFails
  <2> QED
    BY <1>1, <2>1, <2>2, QuietStep
<1>3. CASE ClearRun(r)
  <2>1. /\ failed' \subseteq Runs /\ UNCHANGED <<failures, fresh, backend, poll, conn, restarts>>
    BY <1>1, <1>3 DEF ClearRun
  <2> QED
    BY <1>1, <2>1, QuietStep
<1> QED
  BY <1>2, <1>3

LEMMA PollStep ==
  ASSUME IInv, AskAirflow \/ PollFails
  PROVE  IInv'
<1>1. /\ failed \subseteq Runs /\ fresh \subseteq Runs /\ failures \in [Runs -> 0..MaxFailures]
      /\ UNCHANGED <<airflow, backend, conn, restarts>>
  BY DEF IInv, StreamTypeOK, AskAirflow, PollFails
<1>2. UNCHANGED <<failed, failures, fresh>>
  BY <1>1 DEF airflow
<1>3. /\ poll' \in [at : {"sleeping", "waiting"}, page : SUBSET Runs]
      /\ Cardinality(poll'.page) <= PageSize
  <2>1. CASE AskAirflow
    <3>1. PICK P \in Pages : poll' = [at |-> "waiting", page |-> P]
      BY <2>1 DEF AskAirflow
    <3>2. P \subseteq Runs /\ Cardinality(P) <= PageSize
      BY <1>1, <3>1 DEF Pages, InWindow
    <3> QED
      BY <3>1, <3>2
  <2>2. CASE PollFails
    <3>1. poll' = Sleeping
      BY <2>2 DEF PollFails
    <3>2. Cardinality({}) = 0
      BY FS_EmptySet
    <3> QED
      BY <3>1, <3>2, StreamAssumption DEF Sleeping
  <2> QED
    BY <2>1, <2>2
<1> QED
  BY <1>1, <1>2, <1>3, QuietStep

LEMMA InitStarted == ASSUME Init PROVE IInv
<1>1. /\ MaxConnects \in Nat /\ MaxRestarts \in Nat /\ MaxFailures \in Nat \ {0}
      /\ HistorySize \in Nat /\ PageSize \in Nat
  BY StreamAssumption
<1>2. /\ failed \subseteq Runs /\ since \in Runs /\ seen = {} /\ fresh = {} /\ restarts = 0
      /\ poll = Sleeping /\ events = <<>> /\ published = <<>>
      /\ conn = [c \in Clients |-> Away(0)] /\ failures \in [Runs -> 0..MaxFailures]
  BY <1>1 DEF Init
<1>3. published \in Seq(seen) /\ events \in Seq(seen) /\ Len(events) = 0 /\ IsInjective(published)
  BY <1>2, EmptySeq DEF IsInjective
<1>4. /\ Away(0) \in Connections /\ Len(Away(0).queue) <= QueueSize
      /\ InOrder(Away(0), published)
  BY <1>1, <1>3, AwayType, AwayInOrder
<1>5. /\ conn \in [Clients -> Connections]
      /\ \A c \in Clients : Len(conn[c].queue) <= QueueSize /\ InOrder(conn[c], published)
  BY <1>2, <1>4
<1>6. /\ poll \in [at : {"sleeping", "waiting"}, page : SUBSET Runs]
      /\ Cardinality(poll.page) <= PageSize
  BY <1>1, <1>2, FS_EmptySet DEF Sleeping
<1>7. Embeds(events, published)
  BY <1>2, EmptyEmbeds
<1>8. StreamTypeOK
  BY <1>1, <1>2, <1>3, <1>5, <1>6 DEF StreamTypeOK
<1> QED
  BY <1>5, <1>6, <1>7, <1>8 DEF IInv, HistoryInOrder, AnswerFits

\* A pod that has just started: nothing published, nobody connected.
LEMMA RestartStep ==
  ASSUME IInv, Restart
  PROVE  IInv'
<1>1. /\ MaxRestarts \in Nat /\ HistorySize \in Nat /\ PageSize \in Nat /\ QueueSize \in Nat
  BY StreamAssumption
<1>2. /\ failed' \subseteq Runs /\ failures' \in [Runs -> 0..MaxFailures] /\ since' \in Runs
      /\ restarts' \in 0..MaxRestarts
      /\ seen' = {} /\ fresh' = {} /\ poll' = Sleeping /\ events' = <<>> /\ published' = <<>>
      /\ conn' = [c \in Clients |-> Away(conn[c].connects)]
  BY <1>1 DEF IInv, StreamTypeOK, Restart
<1>3. /\ <<>> \in Seq(seen') /\ Len(<<>>) = 0 /\ IsInjective(<<>>)
  BY EmptySeq DEF IsInjective
<1>4. ASSUME NEW c \in Clients
      PROVE  /\ conn'[c] \in Connections' /\ Len(conn'[c].queue) <= QueueSize
             /\ InOrder(conn'[c], published')
  <2>1. conn[c].connects \in 0..MaxConnects /\ conn'[c] = Away(conn[c].connects)
    BY <1>2, Parts
  <2>2. Away(conn[c].connects) \in Connections'
    BY <1>2, <1>3, <2>1 DEF Away, Connections
  <2>3. InOrder(Away(conn[c].connects), published')
    BY <1>2, <1>3, AwayInOrder
  <2>4. Len(Away(conn[c].connects).queue) <= QueueSize
    BY <1>1, <1>3 DEF Away
  <2> QED
    BY <2>1, <2>2, <2>3, <2>4
<1>5. conn' \in [Clients -> Connections']
  BY <1>2, <1>4
<1>6. /\ poll' \in [at : {"sleeping", "waiting"}, page : SUBSET Runs]
      /\ Cardinality(poll'.page) <= PageSize
  BY <1>1, <1>2, FS_EmptySet DEF Sleeping
<1>7. Embeds(events', published')
  BY <1>2, EmptyEmbeds
<1>8. StreamTypeOK'
  BY <1>1, <1>2, <1>3, <1>4, <1>5, <1>6 DEF StreamTypeOK
<1> QED
  BY <1>4, <1>6, <1>7, <1>8 DEF IInv, HistoryInOrder, AnswerFits

-----------------------------------------------------------------------------
(* Theorems *)

LEMMA Stutter == ASSUME IInv, UNCHANGED vars PROVE IInv'
<1>1. failures' \in [Runs -> 0..MaxFailures] /\ UNCHANGED <<backend, conn, restarts, failed, fresh, poll>>
  BY DEF IInv, StreamTypeOK, vars, backend
<1> QED
  BY <1>1, QuietStep DEF IInv, StreamTypeOK, AnswerFits

LEMMA Inductive == Spec => []IInv
<1>1. Init => IInv
  BY InitStarted
<1>2. IInv /\ [Next]_vars => IInv'
  <2>1. SUFFICES ASSUME IInv, [Next]_vars PROVE IInv'
    OBVIOUS
  <2>2. ASSUME NEW r \in Runs, RunFails(r) \/ ClearRun(r) PROVE IInv'
    BY <2>1, <2>2, AirflowStep
  <2>3. CASE AskAirflow \/ PollFails
    BY <2>1, <2>3, PollStep
  <2>4. CASE ReportFailures
    BY <2>1, <2>4, ReportStep
  <2>5. ASSUME NEW c \in Clients,
               Connect(c) \/ ReplayNext(c) \/ Subscribe(c) \/ SendEvent(c) \/ Disconnect(c)
        PROVE  IInv'
    BY <2>1, <2>5, ConnectStep, ReplayStep, SubscribeStep, SendStep, DisconnectStep
  <2>6. CASE Restart
    BY <2>1, <2>6, RestartStep
  <2>7. CASE UNCHANGED vars
    BY <2>1, <2>7, Stutter
  <2> QED
    BY <2>1, <2>2, <2>3, <2>4, <2>5, <2>6, <2>7, Zenon DEF Next
<1> QED
  BY <1>1, <1>2, PTL DEF Spec

\* The bounds of the stream: a run is published at most once by a process, and
\* neither the history nor a client's queue outgrows its size.
THEOREM TypeCorrect == Spec => []StreamTypeOK
<1>1. IInv => StreamTypeOK
  BY DEF IInv
<1> QED
  BY <1>1, Inductive, PTL

\* On one connection no event comes twice and none overtakes another, whatever
\* the sizes and however slow the client.
THEOREM StreamsInOrder == Spec => []StreamsKeepOrder
<1>1. IInv => StreamsKeepOrder
  BY DEF IInv, StreamsKeepOrder, Delivered, InOrder, Embeds
<1> QED
  BY <1>1, Inductive, PTL

\* A client that read its queue empty before each answer lacks nothing that was
\* published since it subscribed, if a page of the query fits the queue.
THEOREM PromptClientsComplete == Spec => []PromptClientsMissNothing
<1>1. IInv => PromptClientsMissNothing
  BY DEF IInv, PromptClientsMissNothing, Delivered, InOrder
<1> QED
  BY <1>1, Inductive, PTL
=============================================================================
