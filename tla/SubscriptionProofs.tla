------------------------- MODULE SubscriptionProofs -------------------------
(***************************************************************************)
(* The guarantees of Subscription, for every set of streams and clients,   *)
(* every batch size, channel capacity and bound: an append keeps the index *)
(* consistent, every step keeps SubInv, and Gapless, BeginsAtFrom,         *)
(* CaughtUpIsTrue and NothingLost follow from it.                          *)
(***************************************************************************)
EXTENDS SubscriptionInvariant, TLAPS

-----------------------------------------------------------------------------
(* One stream at a time: it does not move while index and channel grow; it *)
(* registers, reads, yields, catches up, skips, sends or ends.             *)

(***************************************************************************)
(* f's positions grow by ones that are not published yet.                  *)
(***************************************************************************)
Grows(f) ==
  /\ Len(Positions(f)) <= Len(Positions(f)')
  /\ \A i \in 1..Len(Positions(f)) : Positions(f)'[i] = Positions(f)[i]
  /\ \A i \in (Len(Positions(f)) + 1)..Len(Positions(f)') :
        tail <= Positions(f)'[i]

IndexGrows ==
  /\ \A f \in Filters : Grows(f)
  /\ \A p \in 1..Len(events) : events'[p] = events[p]

(* Where the index does not change, it grows by nothing.                   *)
LEMMA SameIndex ==
  ASSUME TypeOK, UNCHANGED <<events, streams>>
  PROVE  IndexGrows
<1> SUFFICES ASSUME NEW f \in Filters PROVE Grows(f)
  BY Zenon DEF IndexGrows
<1>1. Positions(f)' = Positions(f)
  BY Zenon DEF Positions
<1>2. Len(Positions(f)) \in Nat
  BY DEF Positions, TypeOK, Filters
<1> QED
  BY <1>1, <1>2 DEF Grows

LEMMA SameIndexInv ==
  ASSUME IndexInv, UNCHANGED <<events, streams>>
  PROVE  IndexInv'
BY ZenonT(30) DEF IndexInv, Indexes, Positions

(* Positions are sequences of naturals, and events events.                 *)
LEMMA PositionsType ==
  ASSUME TypeOK, NEW f \in Filters
  PROVE  /\ Positions(f) \in Seq(Nat)
         /\ Len(Positions(f)) \in Nat
         /\ \A i \in 1..Len(Positions(f)) : Positions(f)[i] \in Nat
<1>1. CASE f = AllStreams
  <2>1. Positions(f) = [i \in 1..Len(events) |-> i - 1]
    BY <1>1, Zenon DEF Positions
  <2>2. Len(events) \in Nat
    BY DEF TypeOK
  <2> QED
    BY <2>1, <2>2
<1>2. CASE f \in StreamIds
  <2>1. Positions(f) = streams[f]
    BY <1>2, StreamsAssumption, Zenon DEF Positions
  <2> QED
    BY <1>2, <2>1 DEF TypeOK
<1> QED
  BY <1>1, <1>2, Zenon DEF Filters

(* So they are after a step.                                               *)
LEMMA PositionsTypeNext ==
  ASSUME TypeOK', NEW f \in Filters
  PROVE  /\ Len(Positions(f)') \in Nat
         /\ \A i \in 1..Len(Positions(f)') : Positions(f)'[i] \in Nat
<1>1. CASE f = AllStreams
  <2>1. Positions(f)' = [i \in 1..Len(events') |-> i - 1]
    BY <1>1, Zenon DEF Positions
  <2>2. Len(events') \in Nat
    BY DEF TypeOK
  <2> QED
    BY <2>1, <2>2
<1>2. CASE f \in StreamIds
  <2>1. Positions(f)' = streams'[f]
    BY <1>2, StreamsAssumption, Zenon DEF Positions
  <2> QED
    BY <1>2, <2>1 DEF TypeOK
<1> QED
  BY <1>1, <1>2, Zenon DEF Filters

(* An event has a key under every filter.                                  *)
LEMMA KeyType ==
  ASSUME NEW f, NEW seq \in Seq(Event), NEW i \in 1..Len(seq)
  PROVE  seq[i] \in Event /\ Key(f, seq[i]) \in Nat
<1>1. seq[i] \in Event
  OBVIOUS
<1>2. seq[i].global_position \in Nat /\ seq[i].stream_version \in Nat
  BY <1>1, Zenon DEF Event
<1> QED
  BY <1>1, <1>2, Zenon DEF Key

(* What a stream has sent ends within the history of its filter.           *)
LEMMA SentType ==
  ASSUME NEW x \in SubscriptionState, x.sent # <<>>
  PROVE  /\ First(x) \in Nat /\ NextKey(x) \in Nat /\ Len(x.sent) \in Nat \ {0}
         /\ NextKey(x) = First(x) + Len(x.sent)
         /\ SentInv(x) => NextKey(x) <= Len(Positions(x.filter))
<1>1. x.sent \in Seq(Event)
  BY Zenon DEF SubscriptionState
<1>2. Len(x.sent) \in Nat /\ 1 \in 1..Len(x.sent) /\ Len(x.sent) \in 1..Len(x.sent)
  BY <1>1
<1>3. Key(x.filter, x.sent[1]) \in Nat
  BY <1>1, <1>2, KeyType, Zenon
<1>4. First(x) \in Nat /\ NextKey(x) = First(x) + Len(x.sent)
  BY <1>3, Zenon DEF First, NextKey
<1>5. SentInv(x) => First(x) + Len(x.sent) <= Len(Positions(x.filter))
  BY <1>2, Zenon DEF SentInv, Follows
<1> QED
  BY <1>2, <1>4, <1>5

(* Arithmetic.                                                             *)

LEMMA LeqTrans ==
  ASSUME NEW a \in Nat, NEW b \in Nat, NEW c \in Nat, a <= b, b <= c
  PROVE  a <= c
OBVIOUS

LEMMA InRange ==
  ASSUME NEW n \in Nat, NEW m \in Nat, n # 0, n <= m
  PROVE  n \in 1..m
OBVIOUS

LEMMA AfterHead ==
  ASSUME NEW m \in Nat, NEW n \in Nat, NEW i \in 1..(m - 1)
  PROVE  i + 1 \in 1..m /\ n + (i + 1) = (n + 1) + i
OBVIOUS

LEMMA BehindLast ==
  ASSUME NEW l \in Nat \cup {-1}, NEW n \in Nat, NEW m \in Nat, n <= m,
         NEW i \in (l + 2)..n
  PROVE  i \in 1..m
OBVIOUS

(***************************************************************************)
(* A stream that takes no step stays where it is, while the index and the  *)
(* channel grow.                                                           *)
(***************************************************************************)
LEMMA StreamStays ==
  ASSUME TypeOK, TypeOK', IndexInv, IndexGrows, tail <= tail',
         NEW x \in SubscriptionState, NEW seq \in Seq(Nat), StreamInv(x, seq)
  PROVE  StreamInv(x, seq)'
<1>1. /\ x.filter \in Filters /\ x.rx \in Nat /\ tail \in Nat
      /\ x.from \in Nat /\ x.cursor \in Nat /\ x.sent \in Seq(Event)
      /\ x.batch \in Seq(Event) /\ x.last \in Nat \cup {None}
      /\ Len(events) \in Nat /\ tail' \in Nat /\ x.indexed \in Nat
  BY DEF TypeOK, SubscriptionState
<1>2. PICK f \in Filters : f = x.filter
  BY <1>1, Zenon
<1>3. Grows(f) /\ Len(Positions(f)) \in Nat
  BY PositionsType, Zenon DEF IndexGrows
<1>4. ASSUME NEW l \in Seq(Event), NEW n \in Nat, Follows(l, f, n)
      PROVE  Follows(l, f, n)'
  <2> SUFFICES ASSUME NEW i \in 1..Len(l)
               PROVE  n + i <= Len(Positions(f)')
                        /\ l[i] = events'[Positions(f)'[n + i] + 1]
    BY Zenon DEF Follows
  <2>1. n + i <= Len(Positions(f)) /\ l[i] = events[Positions(f)[n + i] + 1]
    BY <1>4, Zenon DEF Follows
  <2>2. n + i \in 1..Len(Positions(f))
    BY <1>3, <2>1
  <2>3. PICK p \in 0..(Len(events) - 1) : p = Positions(f)[n + i]
    BY <2>2, Zenon DEF IndexInv, Indexes
  <2>4. events'[p + 1] = events[p + 1]
    <3>1. PICK q \in 1..Len(events) : q = p + 1
      BY <1>1
    <3> QED
      BY <3>1, Zenon DEF IndexGrows
  <2>5. Positions(f)'[n + i] = Positions(f)[n + i]
            /\ Len(Positions(f)) <= Len(Positions(f)')
    BY <1>3, <2>2, Zenon DEF Grows
  <2>6. n + i <= Len(Positions(f)')
    BY <1>3, <2>1, <2>5 DEF Grows
  <2> QED
    BY <2>1, <2>3, <2>4, <2>5, <2>6, Zenon
<1>5. ASSUME NEW n \in Nat, Ahead(x, n)
      PROVE  Ahead(x, n)'
  <2> SUFFICES ASSUME NEW i \in 1..Len(Positions(f)'), n < i
               PROVE  x.rx <= Positions(f)'[i]
    BY <1>2, Zenon DEF Ahead
  <2>1. CASE i <= Len(Positions(f))
    BY <1>2, <1>3, <1>5, <2>1 DEF Ahead, Grows
  <2>2. CASE i > Len(Positions(f))
    <3>1. i \in (Len(Positions(f)) + 1)..Len(Positions(f)') /\ i \in Nat
      BY <1>3, <2>2 DEF Grows
    <3>2. tail <= Positions(f)'[i]
      BY <1>3, <3>1, Zenon DEF Grows
    <3>3. Positions(f)'[i] \in Nat
      BY <3>1, PositionsTypeNext, Zenon
    <3>4. x.rx <= tail
      BY Zenon DEF StreamInv
    <3> QED
      BY <1>1, <3>2, <3>3, <3>4, LeqTrans, Zenon
  <2> QED
    BY <1>3, <2>1, <2>2
<1>6. x.sent # <<>> => First(x) \in Nat /\ NextKey(x) \in Nat
  BY SentType, Zenon
<1>7. SentInv(x)'
  BY <1>1, <1>2, <1>4, <1>6, Zenon DEF StreamInv, SentInv, First
<1>8. HeardInv(x)'
  <2> SUFFICES ASSUME x.phase \in Active, x.heard, x.from # 0
               PROVE  x.from <= Len(Positions(f)') /\ Positions(f)'[x.from] < x.rx
    BY <1>2, Zenon DEF HeardInv
  <2>1. x.from <= Len(Positions(f)) /\ Positions(f)[x.from] < x.rx
    BY <1>2, Zenon DEF StreamInv, HeardInv
  <2>2. x.from \in 1..Len(Positions(f))
    BY <1>1, <1>3, <2>1, InRange, Zenon
  <2>3. Len(Positions(f)') \in Nat /\ Len(Positions(f)) <= Len(Positions(f)')
    BY <1>3, PositionsTypeNext, Zenon DEF Grows
  <2>4. x.from <= Len(Positions(f)')
    BY <1>1, <1>3, <2>1, <2>3, LeqTrans, Zenon
  <2> QED
    BY <1>3, <2>1, <2>2, <2>4, Zenon DEF Grows
<1>9. ReplayInv(x)'
  BY Zenon DEF StreamInv, ReplayInv, First
<1>10. BatchInv(x)'
  <2>1. x.cursor + Len(x.batch) \in Nat
    BY <1>1
  <2>2. BatchInv(x)
    BY Zenon DEF StreamInv
  <2> QED
    BY <1>1, <1>2, <1>4, <1>5, <2>1, <2>2, Zenon DEF BatchInv
<1>11. LiveInv(x)'
  <2> SUFFICES ASSUME x.phase = "live" PROVE LiveInv(x)'
    BY Zenon DEF LiveInv
  <2>1. LiveInv(x)
    BY Zenon DEF StreamInv
  <2>2. CASE x.sent = <<>>
    BY <1>1, <1>5, <2>1, <2>2, Zenon DEF LiveInv
  <2>3. CASE x.sent # <<>>
    <3>1. Ahead(x, NextKey(x))'
      BY <1>5, <1>6, <2>1, <2>3, Zenon DEF LiveInv, NextKey, First
    <3>2. ASSUME NEW i \in (x.last + 2)..NextKey(x)
          PROVE  Positions(x.filter)'[i] < x.rx
      <4>1. Positions(f)[i] < x.rx
        BY <1>2, <2>1, <2>3, <3>2, Zenon DEF LiveInv
      <4>2. NextKey(x) <= Len(Positions(f))
        BY <1>2, <2>3, SentType, Zenon DEF StreamInv
      <4>3. x.last \in Nat \cup {-1} /\ NextKey(x) \in Nat
        BY <1>1, <1>6, <2>3, Zenon DEF None
      <4>4. i \in 1..Len(Positions(f))
        BY <1>3, <3>2, <4>2, <4>3, BehindLast, Zenon
      <4> QED
        BY <1>2, <1>3, <4>1, <4>4, Zenon DEF Grows
    <3> QED
      BY <2>1, <2>3, <3>1, <3>2, Zenon DEF LiveInv, NextKey, First
  <2> QED
    BY <2>2, <2>3, Zenon
<1>12. CheckpointInv(x, seq)'
  BY Zenon DEF StreamInv, CheckpointInv, NextKey, First
<1>13. x.rx <= tail'
  <2>1. x.rx <= tail
    BY Zenon DEF StreamInv
  <2> QED
    BY <1>1, <2>1, LeqTrans, Zenon
<1>14. x.indexed <= Len(Positions(x.filter)')
  <2>1. x.indexed <= Len(Positions(f)) /\ Len(Positions(f)) <= Len(Positions(f)')
    BY <1>2, <1>3, Zenon DEF StreamInv, Grows
  <2>2. Len(Positions(f)') \in Nat
    BY PositionsTypeNext, Zenon
  <2> QED
    BY <1>1, <1>2, <1>3, <2>1, <2>2, LeqTrans, Zenon
<1> QED
  BY <1>7, <1>8, <1>9, <1>10, <1>11, <1>12, <1>13, <1>14, Zenon DEF StreamInv

-----------------------------------------------------------------------------
(* What the steps of one stream do to it.                                  *)

(* A piece of a sequence of events.                                        *)
LEMMA Piece ==
  ASSUME NEW l \in Seq(Event), NEW a \in Int, NEW b \in Int,
         1 <= a, a <= b + 1, b <= Len(l)
  PROVE  /\ SubSeq(l, a, b) \in Seq(Event)
         /\ Len(SubSeq(l, a, b)) = b - a + 1
         /\ \A i \in 1..(b - a + 1) : SubSeq(l, a, b)[i] = l[a + i - 1]
<1>1. ASSUME NEW i \in a..b PROVE l[i] \in Event
  <2>1. i \in 1..Len(l)
    OBVIOUS
  <2> QED
    BY <2>1
<1>2. \A i \in a..b : l[i] \in Event
  BY <1>1, Zenon
<1>3. SubSeq(l, a, b) \in Seq(Event)
  BY <1>2
<1>4. Len(SubSeq(l, a, b)) = b - a + 1
  OBVIOUS
<1>5. \A i \in 1..(b - a + 1) : SubSeq(l, a, b)[i] = l[a + i - 1]
  OBVIOUS
<1> QED
  BY <1>3, <1>4, <1>5, Zenon

(* The batch that a read from n on finds in l.                             *)
LEMMA Batch ==
  ASSUME NEW l \in Seq(Event), NEW n \in Nat
  PROVE  LET found == SubSeq(l, Lesser(n, Len(l)) + 1,
                             Lesser(n + CatchupBatchSize, Len(l)))
         IN /\ found \in Seq(Event) /\ Len(found) \in Nat
            /\ \A i \in 1..Len(found) : n + i <= Len(l) /\ found[i] = l[n + i]
            /\ Len(found) < CatchupBatchSize => Len(l) <= n + Len(found)
<1>1. PICK len \in Nat : len = Len(l)
  OBVIOUS
<1>2. CatchupBatchSize \in Nat /\ CatchupBatchSize > 0
  BY CapacityAssumption
<1>3. PICK a \in Int : a = Lesser(n, len) + 1
  BY DEF Lesser
<1>4. PICK b \in Int : b = Lesser(n + CatchupBatchSize, len)
  BY <1>2 DEF Lesser
<1>5. /\ 1 <= a /\ b <= len /\ a <= b + 1
      /\ n <= len => a = n + 1
      /\ n > len => b - a + 1 = 0
      /\ b - a + 1 < CatchupBatchSize => len <= n + (b - a + 1)
  BY <1>2, <1>3, <1>4 DEF Lesser
<1>6. PICK found : found = SubSeq(l, a, b)
  BY Zenon
<1>7. PICK k \in Nat : k = b - a + 1
  BY <1>5
<1>8. /\ found \in Seq(Event) /\ Len(found) = k
      /\ \A i \in 1..k : found[i] = l[a + i - 1]
  BY <1>1, <1>5, <1>6, <1>7, Piece, Zenon
<1>9. ASSUME NEW i \in 1..k
      PROVE  n + i <= len /\ found[i] = l[n + i]
  <2>1. n <= len /\ a + i - 1 = n + i /\ n + i <= len
    BY <1>5, <1>7
  <2> QED
    BY <1>8, <2>1, Zenon
<1>10. k < CatchupBatchSize => len <= n + k
  BY <1>5, <1>7, Zenon
<1> QED
  BY <1>1, <1>3, <1>4, <1>6, <1>8, <1>9, <1>10, ZenonT(30)

(* read_all and read_stream find what follows, and all of it if the batch  *)
(* is not full.                                                            *)
LEMMA ReadAll ==
  ASSUME TypeOK, NEW n \in Nat
  PROVE  LET found == read_all(n)
         IN /\ found \in Seq(Event) /\ Len(found) \in Nat
            /\ Follows(found, AllStreams, n)
            /\ Len(found) < CatchupBatchSize =>
                  Len(Positions(AllStreams)) <= n + Len(found)
<1>1. events \in Seq(Event) /\ Len(events) \in Nat
  BY DEF TypeOK
<1>2. PICK found : found = read_all(n)
  BY Zenon
<1>3. /\ found \in Seq(Event) /\ Len(found) \in Nat
      /\ \A i \in 1..Len(found) :
            n + i <= Len(events) /\ found[i] = events[n + i]
      /\ Len(found) < CatchupBatchSize => Len(events) <= n + Len(found)
  BY <1>1, <1>2, Batch, Zenon DEF read_all
<1>4. Positions(AllStreams) = [i \in 1..Len(events) |-> i - 1]
  BY Zenon DEF Positions
<1>5. Len(Positions(AllStreams)) = Len(events)
  BY <1>1, <1>4
<1>6. Follows(found, AllStreams, n)
  <2> SUFFICES ASSUME NEW i \in 1..Len(found)
               PROVE  /\ n + i <= Len(Positions(AllStreams))
                      /\ found[i] = events[Positions(AllStreams)[n + i] + 1]
    BY Zenon DEF Follows
  <2>1. n + i \in 1..Len(events) /\ found[i] = events[n + i]
    BY <1>1, <1>3
  <2>2. Positions(AllStreams)[n + i] + 1 = n + i
    BY <1>1, <1>4, <2>1
  <2> QED
    BY <1>3, <1>5, <2>1, <2>2, Zenon
<1> QED
  BY <1>2, <1>3, <1>5, <1>6, Zenon

LEMMA ReadStream ==
  ASSUME TypeOK, IndexInv, NEW s \in StreamIds, NEW n \in Nat
  PROVE  LET found == read_stream(s, n)
         IN /\ found \in Seq(Event) /\ Len(found) \in Nat
            /\ Follows(found, s, n)
            /\ Len(found) < CatchupBatchSize =>
                  Len(Positions(s)) <= n + Len(found)
<1>1. s \in Filters /\ Positions(s) = streams[s]
  BY StreamsAssumption, Zenon DEF Filters, Positions
<1>2. Positions(s) \in Seq(Nat) /\ Len(Positions(s)) \in Nat
  BY <1>1, PositionsType, Zenon
<1>3. \A i \in 1..Len(Positions(s)) : events[Positions(s)[i] + 1] \in Event
  <2> SUFFICES ASSUME NEW i \in 1..Len(Positions(s))
               PROVE  events[Positions(s)[i] + 1] \in Event
    BY Zenon
  <2>1. PICK p \in 0..(Len(events) - 1) : p = Positions(s)[i]
    BY <1>1, Zenon DEF IndexInv, Indexes
  <2>2. events \in Seq(Event) /\ p + 1 \in 1..Len(events)
    BY DEF TypeOK
  <2> QED
    BY <2>1, <2>2
<1>4. PICK l : l = History(s)
  BY Zenon
<1>5. /\ l \in Seq(Event) /\ Len(l) = Len(Positions(s))
      /\ \A i \in 1..Len(Positions(s)) : l[i] = events[Positions(s)[i] + 1]
  BY <1>2, <1>3, <1>4 DEF History
<1>6. PICK found : found = read_stream(s, n)
  BY Zenon
<1>7. /\ found \in Seq(Event) /\ Len(found) \in Nat
      /\ \A i \in 1..Len(found) : n + i <= Len(l) /\ found[i] = l[n + i]
      /\ Len(found) < CatchupBatchSize => Len(l) <= n + Len(found)
  <2>1. found = SubSeq(l, Lesser(n, Len(l)) + 1,
                       Lesser(n + CatchupBatchSize, Len(l)))
    BY <1>1, <1>4, <1>5, <1>6, Zenon DEF read_stream
  <2> QED
    BY <1>5, <2>1, Batch, Zenon
<1>8. Follows(found, s, n)
  <2> SUFFICES ASSUME NEW i \in 1..Len(found)
               PROVE  /\ n + i <= Len(Positions(s))
                      /\ found[i] = events[Positions(s)[n + i] + 1]
    BY Zenon DEF Follows
  <2>1. n + i \in 1..Len(Positions(s)) /\ found[i] = l[n + i]
    BY <1>2, <1>5, <1>7
  <2> QED
    BY <1>2, <1>5, <2>1
<1> QED
  BY <1>5, <1>6, <1>7, <1>8, Zenon

(* The fields of a subscription.                                           *)
LEMMA Fields ==
  ASSUME NEW x \in SubscriptionState
  PROVE  /\ x.phase \in Active \cup {"idle", "ended"} /\ x.filter \in Filters
         /\ x.from \in Nat /\ x.cursor \in Nat /\ x.last \in Nat \cup {None}
         /\ x.batch \in Seq(Event) /\ x.batch_len \in Nat /\ x.rx \in Nat
         /\ x.sent \in Seq(Event) /\ x.indexed \in Nat /\ x.heard \in BOOLEAN
BY Zenon DEF SubscriptionState

(* The updates that the steps of a stream make.                            *)
LEMMA FetchType ==
  ASSUME NEW x \in SubscriptionState, NEW l \in Seq(Event), NEW n \in Nat
  PROVE  [x EXCEPT !.phase = "yield", !.batch = l, !.batch_len = n]
            \in SubscriptionState
BY Zenon DEF SubscriptionState, Active

LEMMA YieldType ==
  ASSUME NEW x \in SubscriptionState, NEW l \in Seq(Event), NEW key \in Nat,
         NEW n \in Nat, NEW sent \in Seq(Event)
  PROVE  [x EXCEPT !.batch = l, !.last = key, !.cursor = n, !.sent = sent]
            \in SubscriptionState
BY Zenon DEF SubscriptionState

LEMMA ReceiveType ==
  ASSUME NEW x \in SubscriptionState, NEW n \in Nat, NEW sent \in Seq(Event)
  PROVE  [x EXCEPT !.rx = n, !.sent = sent] \in SubscriptionState
BY Zenon DEF SubscriptionState

LEMMA EndType ==
  ASSUME NEW x \in SubscriptionState, NEW l \in Seq(Event)
  PROVE  [x EXCEPT !.phase = "ended", !.batch = l] \in SubscriptionState
BY Zenon DEF SubscriptionState

(* Register: a new stream, from the client's checkpoint if it has one.     *)
LEMMA RegisterKeeps ==
  ASSUME TypeOK, NEW f \in Filters, NEW from \in Nat, NEW seq \in Seq(Nat),
         seq # <<>> => seq[Len(seq)] + 1 = from
  PROVE  /\ Registered(f, from) \in SubscriptionState
         /\ StreamInv(Registered(f, from), seq)
<1>1. PICK y : y = Registered(f, from)
  BY Zenon
<1>2. /\ y.phase = "fetch" /\ y.filter = f /\ y.from = from /\ y.cursor = from
      /\ y.last = None /\ y.batch = <<>> /\ y.batch_len = 0 /\ y.rx = tail
      /\ y.sent = <<>> /\ y.indexed = Len(Positions(f)) /\ y.heard = Heard(f, from)
  BY <1>1, Zenon DEF Registered, Idle
<1>3. tail \in Nat /\ Len(Positions(f)) \in Nat
  BY PositionsType DEF TypeOK
<1>4. Heard(f, from) \in BOOLEAN
  BY Zenon DEF Heard
<1>5. y \in SubscriptionState
  <2>1. y = [phase |-> "fetch", filter |-> f, from |-> from, cursor |-> from,
             last |-> None, batch |-> <<>>, batch_len |-> 0, rx |-> tail,
             sent |-> <<>>, indexed |-> Len(Positions(f)),
             heard |-> Heard(f, from)]
    BY <1>1, Zenon DEF Registered, Idle
  <2> QED
    BY <1>3, <1>4, <2>1 DEF SubscriptionState, Active
<1>6. SentInv(y) /\ ReplayInv(y) /\ BatchInv(y) /\ LiveInv(y)
  BY <1>2 DEF SentInv, ReplayInv, BatchInv, LiveInv
<1>7. HeardInv(y)
  BY <1>2, Zenon DEF HeardInv, Heard
<1>8. CheckpointInv(y, seq)
  BY <1>2, Zenon DEF CheckpointInv
<1> QED
  BY <1>1, <1>2, <1>3, <1>5, <1>6, <1>7, <1>8 DEF StreamInv

(* FetchAll and FetchStream.                                               *)
LEMMA FetchKeeps ==
  ASSUME TypeOK, NEW x \in SubscriptionState, NEW seq \in Seq(Nat),
         StreamInv(x, seq), x.phase = "fetch",
         NEW found \in Seq(Event), Len(found) \in Nat,
         Follows(found, x.filter, x.cursor),
         Len(found) < CatchupBatchSize =>
            Len(Positions(x.filter)) <= x.cursor + Len(found),
         NEW y, y = [x EXCEPT !.phase = "yield", !.batch = found,
                              !.batch_len = Len(found)]
  PROVE  y \in SubscriptionState /\ StreamInv(y, seq)
<1>1. /\ y.phase = "yield" /\ y.filter = x.filter /\ y.from = x.from
      /\ y.cursor = x.cursor /\ y.last = x.last /\ y.batch = found
      /\ y.batch_len = Len(found) /\ y.rx = x.rx
      /\ y.sent = x.sent /\ y.indexed = x.indexed /\ y.heard = x.heard
  BY Zenon DEF SubscriptionState
<1>2. y \in SubscriptionState
  BY FetchType, Zenon
<1>3. PICK len \in Nat : len = Len(Positions(x.filter))
  BY Fields, PositionsType, Zenon
<1>4. SentInv(y) /\ ReplayInv(y) /\ LiveInv(y)
  <2>1. First(y) = First(x)
    BY <1>1, Zenon DEF First
  <2>2. SentInv(y)
    BY <1>1, <2>1, Zenon DEF StreamInv, SentInv
  <2>3. ReplayInv(y)
    BY <1>1, <2>1, Zenon DEF StreamInv, ReplayInv
  <2>4. LiveInv(y)
    BY <1>1, Zenon DEF LiveInv
  <2> QED
    BY <2>2, <2>3, <2>4, Zenon
<1>5. HeardInv(y)
  BY <1>1, Zenon DEF StreamInv, HeardInv, Active
<1>6. CheckpointInv(y, seq)
  BY <1>1, Zenon DEF StreamInv, CheckpointInv, NextKey, First, Active
<1>7. BatchInv(y)
  <2>1. CASE ~(Len(found) < CatchupBatchSize)
    BY <1>1, <2>1, Zenon DEF BatchInv
  <2>2. CASE Len(found) < CatchupBatchSize
    <3>1. len <= x.cursor + Len(found)
      BY <1>3, <2>2, Zenon
    <3>2. x.indexed <= x.cursor + Len(found)
      BY <1>3, <3>1, Fields DEF StreamInv
    <3>3. Ahead(y, x.cursor + Len(found))
      BY <1>1, <1>3, <3>1, Fields DEF Ahead
    <3> QED
      BY <1>1, <3>2, <3>3, Zenon DEF BatchInv
  <2> QED
    BY <2>1, <2>2, Zenon
<1> QED
  BY <1>1, <1>2, <1>4, <1>5, <1>6, <1>7, Zenon DEF StreamInv

(* The end of a stream, by lag, disconnect or restart.                     *)
LEMMA EndKeeps ==
  ASSUME NEW x \in SubscriptionState, NEW seq \in Seq(Nat), StreamInv(x, seq),
         x.phase \in Active,
         NEW y, y = [x EXCEPT !.phase = "ended", !.batch = <<>>]
  PROVE  y \in SubscriptionState /\ StreamInv(y, seq)
<1>1. /\ y.phase = "ended" /\ y.filter = x.filter /\ y.from = x.from
      /\ y.rx = x.rx /\ y.sent = x.sent /\ y.indexed = x.indexed
      /\ y.heard = x.heard
  BY Zenon DEF SubscriptionState
<1>2. y \in SubscriptionState
  <2>1. <<>> \in Seq(Event)
    OBVIOUS
  <2> QED
    BY <2>1, EndType, Zenon
<1>3. SentInv(y) /\ HeardInv(y) /\ ReplayInv(y) /\ BatchInv(y) /\ LiveInv(y)
  <2>1. First(y) = First(x)
    BY <1>1, Zenon DEF First
  <2>2. SentInv(y)
    BY <1>1, <2>1, Zenon DEF StreamInv, SentInv
  <2> QED
    BY <1>1, <2>2, Zenon DEF HeardInv, ReplayInv, BatchInv, LiveInv, Active
<1>4. CheckpointInv(y, seq)
  BY <1>1, Zenon DEF StreamInv, CheckpointInv, NextKey, First, Active
<1> QED
  BY <1>1, <1>2, <1>3, <1>4, Zenon DEF StreamInv

(* An event within the history of a filter has its place there for key.    *)
LEMMA PlaceIsKey ==
  ASSUME TypeOK, IndexInv, NEW f \in Filters, NEW n \in Nat,
         n + 1 <= Len(Positions(f))
  PROVE  Key(f, events[Positions(f)[n + 1] + 1]) = n
<1>1. n + 1 \in 1..Len(Positions(f))
  BY PositionsType
<1>2. Key(f, events[Positions(f)[n + 1] + 1]) = (n + 1) - 1
  BY <1>1, Zenon DEF IndexInv, Indexes
<1> QED
  BY <1>2

(* With the event of this key, sent is what x has sent and one event more. *)
OneMore(x, sent, key) ==
  /\ sent \in Seq(Event) /\ sent # <<>> /\ Len(sent) = Len(x.sent) + 1
  /\ Key(x.filter, sent[1]) = IF x.sent = <<>> THEN key ELSE First(x)
  /\ Key(x.filter, sent[1]) + Len(sent) = key + 1
  /\ Follows(sent, x.filter, Key(x.filter, sent[1]))

(* One more event of the history is sent.                                  *)
LEMMA SendsNext ==
  ASSUME TypeOK, IndexInv, NEW x \in SubscriptionState, SentInv(x),
         NEW e \in Event, NEW key \in Nat, NEW sent, sent = Append(x.sent, e),
         key + 1 <= Len(Positions(x.filter)),
         e = events[Positions(x.filter)[key + 1] + 1],
         x.sent # <<>> => key = NextKey(x)
  PROVE  OneMore(x, sent, key)
<1>1. x.sent \in Seq(Event) /\ x.filter \in Filters /\ Len(x.sent) \in Nat
  BY Fields
<1>2. /\ sent \in Seq(Event) /\ sent # <<>> /\ Len(sent) = Len(x.sent) + 1
      /\ \A i \in 1..Len(x.sent) : sent[i] = x.sent[i]
      /\ sent[Len(x.sent) + 1] = e
  BY <1>1
<1>3. Key(x.filter, e) = key
  BY <1>1, PlaceIsKey, Zenon
<1>4. CASE x.sent = <<>>
  <2>1. Len(x.sent) = 0 /\ Len(sent) = 1 /\ sent[1] = e
    BY <1>2, <1>4
  <2>2. Follows(sent, x.filter, key)
    BY <2>1 DEF Follows
  <2> QED
    BY <1>2, <1>3, <1>4, <2>1, <2>2, Zenon DEF OneMore
<1>5. CASE x.sent # <<>>
  <2>1. PICK n \in Nat : n = First(x)
    BY <1>5, SentType, Zenon
  <2>2. Len(x.sent) \in Nat \ {0} /\ key = n + Len(x.sent)
    BY <1>5, <2>1, SentType, Zenon
  <2>3. sent[1] = x.sent[1] /\ Key(x.filter, sent[1]) = n
    BY <1>2, <2>1, <2>2 DEF First
  <2>4. Follows(sent, x.filter, n)
    <3> SUFFICES ASSUME NEW i \in 1..Len(sent)
                 PROVE  /\ n + i <= Len(Positions(x.filter))
                        /\ sent[i] = events[Positions(x.filter)[n + i] + 1]
      BY Zenon DEF Follows
    <3>1. CASE i \in 1..Len(x.sent)
      <4>1. Follows(x.sent, x.filter, n)
        BY <1>5, <2>1, Zenon DEF SentInv
      <4> QED
        BY <1>2, <3>1, <4>1, Zenon DEF Follows
    <3>2. CASE i = Len(x.sent) + 1
      <4>1. n + i = key + 1
        BY <2>2, <3>2
      <4> QED
        BY <1>2, <3>2, <4>1, Zenon
    <3> QED
      BY <1>1, <1>2, <3>1, <3>2
  <2>5. n + Len(sent) = key + 1
    BY <1>1, <1>2, <2>2
  <2> QED
    BY <1>2, <1>5, <2>1, <2>3, <2>4, <2>5, Zenon DEF OneMore
<1> QED
  BY <1>4, <1>5, Zenon

(* A key that does not go beyond the next one leaves no gap.               *)
LEMMA TakesNext ==
  ASSUME NEW seq \in Seq(Nat), NoGap(seq), NEW key \in Nat,
         seq # <<>> => key <= seq[Len(seq)] + 1,
         NEW longer, longer = Append(seq, key)
  PROVE  /\ longer \in Seq(Nat) /\ longer # <<>> /\ NoGap(longer)
         /\ longer[Len(longer)] = key
<1>1. /\ longer \in Seq(Nat) /\ longer # <<>> /\ Len(longer) = Len(seq) + 1
      /\ \A i \in 1..Len(seq) : longer[i] = seq[i]
      /\ longer[Len(seq) + 1] = key /\ Len(seq) \in Nat
  OBVIOUS
<1>2. ASSUME NEW i \in 2..Len(longer)
      PROVE  longer[i] <= longer[i-1] + 1
  <2>1. CASE i <= Len(seq)
    <3>1. i \in 2..Len(seq) /\ i \in 1..Len(seq) /\ i - 1 \in 1..Len(seq)
      BY <1>1, <2>1
    <3>2. seq[i] <= seq[i-1] + 1
      BY <3>1, Zenon DEF NoGap
    <3> QED
      BY <1>1, <3>1, <3>2, Zenon
  <2>2. CASE i = Len(seq) + 1
    <3>1. i - 1 = Len(seq) /\ Len(seq) \in 1..Len(seq) /\ seq # <<>>
      BY <1>1, <2>2
    <3> QED
      BY <1>1, <2>2, <3>1, Zenon
  <2> QED
    BY <1>1, <2>1, <2>2
<1> QED
  BY <1>1, <1>2, Zenon DEF NoGap

(* A stream and the keys its client was sent, as SubInv wants them.        *)
Stands(x, seq) ==
  /\ x \in SubscriptionState /\ seq \in Seq(Nat)
  /\ StreamInv(x, seq) /\ NoGap(seq)

(* Yield: an event of the batch is sent.                                   *)
LEMMA YieldKeeps ==
  ASSUME TypeOK, IndexInv, NEW x \in SubscriptionState, NEW seq \in Seq(Nat),
         StreamInv(x, seq), NoGap(seq), x.phase = "yield", x.batch # <<>>,
         NEW e, e = Head(x.batch), NEW key, key = Key(x.filter, e),
         NEW y, y = [x EXCEPT !.batch = Tail(x.batch), !.last = key,
                              !.cursor = key + 1, !.sent = Append(x.sent, e)],
         NEW longer, longer = Append(seq, key)
  PROVE  Stands(y, longer)
<1>1. PICK f \in Filters : f = x.filter
  BY Fields, Zenon
<1>2. PICK n \in Nat : n = x.cursor
  BY Fields, Zenon
<1>3. /\ x.batch \in Seq(Event) /\ Len(x.batch) \in Nat \ {0} /\ e \in Event
      /\ e = x.batch[1] /\ Tail(x.batch) \in Seq(Event)
      /\ Len(Tail(x.batch)) = Len(x.batch) - 1
      /\ \A i \in 1..(Len(x.batch) - 1) : Tail(x.batch)[i] = x.batch[i + 1]
  BY Fields
<1>4. Follows(x.batch, f, n)
  BY <1>1, <1>2, Zenon DEF StreamInv, BatchInv
<1>5. n + 1 <= Len(Positions(f)) /\ e = events[Positions(f)[n + 1] + 1]
  BY <1>3, <1>4 DEF Follows
<1>6. key = n
  BY <1>1, <1>5, PlaceIsKey, Zenon
<1>7. /\ x.from \in Nat /\ x.sent \in Seq(Event) /\ Len(x.sent) \in Nat
      /\ n = x.from + Len(x.sent)
      /\ x.sent # <<>> => First(x) = x.from /\ NextKey(x) = n
  BY <1>2, Fields DEF StreamInv, ReplayInv, NextKey
<1>8. PICK sent : sent = Append(x.sent, e)
  BY Zenon
<1>9. /\ sent \in Seq(Event) /\ sent # <<>> /\ Len(sent) = Len(x.sent) + 1
      /\ Key(f, sent[1]) = IF x.sent = <<>> THEN n ELSE First(x)
      /\ Key(f, sent[1]) + Len(sent) = n + 1
      /\ Follows(sent, f, Key(f, sent[1]))
  <2>1. /\ SentInv(x) /\ e \in Event
        /\ n + 1 <= Len(Positions(x.filter))
        /\ e = events[Positions(x.filter)[n + 1] + 1]
    BY <1>1, <1>3, <1>5, Zenon DEF StreamInv
  <2>2. x.sent # <<>> => n = NextKey(x)
    BY <1>7, Zenon
  <2>3. OneMore(x, sent, n)
    BY <1>8, <2>1, <2>2, SendsNext, Zenon
  <2> QED
    BY <1>1, <2>3, Zenon DEF OneMore
<1>10. Key(f, sent[1]) = x.from
  BY <1>7, <1>9
<1>11. y = [x EXCEPT !.batch = Tail(x.batch), !.last = n, !.cursor = n + 1,
                     !.sent = sent]
  BY <1>6, <1>8, Zenon DEF SubscriptionState
<1>12. y \in SubscriptionState
  <2>1. PICK l \in Seq(Event) : l = Tail(x.batch)
    BY <1>3, Zenon
  <2>2. [x EXCEPT !.batch = l, !.last = n, !.cursor = n + 1, !.sent = sent]
            \in SubscriptionState
    <3>1. n + 1 \in Nat
      OBVIOUS
    <3> QED
      BY <1>9, <3>1, YieldType, Zenon
  <2> QED
    BY <1>11, <2>1, <2>2, Zenon
<1>13. /\ y.phase = "yield" /\ y.filter = f /\ y.from = x.from
       /\ y.cursor = n + 1 /\ y.last = n /\ y.batch = Tail(x.batch)
       /\ y.batch_len = x.batch_len /\ y.rx = x.rx /\ y.sent = sent
       /\ y.indexed = x.indexed /\ y.heard = x.heard
  BY <1>1, <1>11, Zenon DEF SubscriptionState
<1>14. First(y) = x.from /\ NextKey(y) = n + 1
  BY <1>9, <1>10, <1>13, Zenon DEF First, NextKey
<1>15. SentInv(y)
  BY <1>9, <1>10, <1>13, <1>14, Zenon DEF SentInv
<1>16. HeardInv(y)
  BY <1>1, <1>13, Zenon DEF StreamInv, HeardInv, Active
<1>17. ReplayInv(y)
  <2>1. n + 1 = y.from + Len(sent) /\ (n + 1) - 1 = n
    BY <1>7, <1>9, <1>13
  <2> QED
    BY <1>9, <1>13, <1>14, <2>1, Zenon DEF ReplayInv
<1>18. BatchInv(y)
  <2>1. Follows(Tail(x.batch), f, n + 1)
    <3> SUFFICES ASSUME NEW i \in 1..Len(Tail(x.batch))
                 PROVE  /\ (n + 1) + i <= Len(Positions(f))
                        /\ Tail(x.batch)[i] = events[Positions(f)[(n + 1) + i] + 1]
      BY Zenon DEF Follows
    <3>1. i + 1 \in 1..Len(x.batch) /\ n + (i + 1) = (n + 1) + i
            /\ i \in 1..(Len(x.batch) - 1)
      <4>1. PICK m \in Nat : m = Len(x.batch)
        BY <1>3, Zenon
      <4>2. Len(Tail(x.batch)) = m - 1
        BY <1>3, <4>1, Zenon
      <4>3. i \in 1..(m - 1) /\ n \in Nat
        BY <4>2, Zenon
      <4> QED
        BY <4>1, <4>3, AfterHead, Zenon
    <3>2. /\ n + (i + 1) <= Len(Positions(f))
          /\ x.batch[i + 1] = events[Positions(f)[n + (i + 1)] + 1]
      BY <1>4, <3>1, Zenon DEF Follows
    <3> QED
      BY <1>3, <3>1, <3>2, Zenon
  <2>2. (n + 1) + Len(Tail(x.batch)) = n + Len(x.batch)
    BY <1>3
  <2>3. x.batch_len < CatchupBatchSize =>
           x.indexed <= n + Len(x.batch) /\ Ahead(x, n + Len(x.batch))
    BY <1>2, Zenon DEF StreamInv, BatchInv
  <2>4. \A k : Ahead(x, k) => Ahead(y, k)
    BY <1>1, <1>13, Zenon DEF Ahead
  <2> QED
    BY <1>13, <2>1, <2>2, <2>3, <2>4, Zenon DEF BatchInv
<1>19. LiveInv(y)
  BY <1>13, Zenon DEF LiveInv
<1>20. seq # <<>> => n <= seq[Len(seq)] + 1
  <2> SUFFICES ASSUME seq # <<>> PROVE n <= seq[Len(seq)] + 1
    BY Zenon
  <2>1. seq[Len(seq)] + 1 = n
    <3>1. CASE x.sent = <<>>
      BY <1>7, <3>1 DEF StreamInv, CheckpointInv, Active
    <3>2. CASE x.sent # <<>>
      BY <1>7, <3>2, Zenon DEF StreamInv, CheckpointInv
    <3> QED
      BY <3>1, <3>2, Zenon
  <2> QED
    BY <2>1
<1>21. longer \in Seq(Nat) /\ longer # <<>> /\ NoGap(longer)
         /\ longer[Len(longer)] = n
  BY <1>6, <1>20, TakesNext, Zenon
<1>22. CheckpointInv(y, longer)
  BY <1>9, <1>13, <1>14, <1>21, ZenonT(30) DEF CheckpointInv
<1>23. y.rx <= tail /\ y.indexed <= Len(Positions(y.filter))
  BY <1>1, <1>13, Zenon DEF StreamInv
<1> QED
  BY <1>12, <1>15, <1>16, <1>17, <1>18, <1>19, <1>21, <1>22, <1>23, Zenon
  DEF StreamInv, Stands

(* EndBatch after a full batch.                                            *)
LEMMA MoreKeeps ==
  ASSUME NEW x \in SubscriptionState, NEW seq \in Seq(Nat), StreamInv(x, seq),
         x.phase = "yield", NEW y, y = [x EXCEPT !.phase = "fetch"]
  PROVE  y \in SubscriptionState /\ StreamInv(y, seq)
<1>1. /\ y.phase = "fetch" /\ y.filter = x.filter /\ y.from = x.from
      /\ y.cursor = x.cursor /\ y.last = x.last /\ y.rx = x.rx
      /\ y.sent = x.sent /\ y.indexed = x.indexed /\ y.heard = x.heard
  BY Zenon DEF SubscriptionState
<1>2. y \in SubscriptionState
  BY Zenon DEF SubscriptionState, Active
<1>3. First(y) = First(x)
  BY <1>1, Zenon DEF First
<1>4. SentInv(y)
  BY <1>1, <1>3, Zenon DEF StreamInv, SentInv
<1>5. HeardInv(y)
  BY <1>1, Zenon DEF StreamInv, HeardInv, Active
<1>6. ReplayInv(y)
  BY <1>1, <1>3, Zenon DEF StreamInv, ReplayInv
<1>7. BatchInv(y) /\ LiveInv(y)
  BY <1>1, Zenon DEF BatchInv, LiveInv
<1>8. CheckpointInv(y, seq)
  BY <1>1, <1>3, Zenon DEF StreamInv, CheckpointInv, NextKey, Active
<1> QED
  BY <1>1, <1>2, <1>4, <1>5, <1>6, <1>7, <1>8, Zenon DEF StreamInv

(* EndBatch after a batch that was not full: CaughtUp.                     *)
LEMMA CaughtUpKeeps ==
  ASSUME NEW x \in SubscriptionState, NEW seq \in Seq(Nat), StreamInv(x, seq),
         x.phase = "yield", x.batch = <<>>,
         x.batch_len < CatchupBatchSize,
         NEW y, y = [x EXCEPT !.phase = "live"]
  PROVE  y \in SubscriptionState /\ StreamInv(y, seq)
<1>1. /\ y.phase = "live" /\ y.filter = x.filter /\ y.from = x.from
      /\ y.cursor = x.cursor /\ y.last = x.last /\ y.rx = x.rx
      /\ y.sent = x.sent /\ y.indexed = x.indexed /\ y.heard = x.heard
  BY Zenon DEF SubscriptionState
<1>2. y \in SubscriptionState
  BY Zenon DEF SubscriptionState, Active
<1>3. First(y) = First(x) /\ NextKey(y) = NextKey(x)
  BY <1>1, Zenon DEF First, NextKey
<1>4. SentInv(y)
  BY <1>1, <1>3, Zenon DEF StreamInv, SentInv
<1>5. HeardInv(y)
  BY <1>1, Zenon DEF StreamInv, HeardInv, Active
<1>6. ReplayInv(y) /\ BatchInv(y)
  BY <1>1, Zenon DEF ReplayInv, BatchInv
<1>7. /\ x.from \in Nat /\ Len(x.sent) \in Nat /\ x.cursor = x.from + Len(x.sent)
      /\ x.sent # <<>> => First(x) = x.from /\ NextKey(x) = x.cursor
      /\ x.last = IF x.sent = <<>> THEN None ELSE x.cursor - 1
  BY Fields DEF StreamInv, ReplayInv, NextKey
<1>8. x.indexed <= x.cursor /\ Ahead(x, x.cursor)
  <2>1. Len(x.batch) = 0 /\ x.cursor + 0 = x.cursor
    BY Fields
  <2> QED
    BY <2>1, Zenon DEF StreamInv, BatchInv
<1>9. Ahead(y, x.cursor)
  BY <1>1, <1>8, Zenon DEF Ahead
<1>10. LiveInv(y)
  <2>1. CASE x.sent = <<>>
    <3>1. x.cursor = x.from
      BY <1>7, <2>1
    <3> QED
      BY <1>1, <1>7, <1>8, <1>9, <2>1, <3>1, Zenon DEF LiveInv
  <2>2. CASE x.sent # <<>>
    <3>1. PICK n \in Nat : n = x.cursor
      BY Fields, Zenon
    <3>2. y.last = n - 1 /\ NextKey(y) = n /\ First(y) = y.from
      BY <1>1, <1>3, <1>7, <2>2, <3>1, Zenon
    <3>3. (n - 1) + 2 = n + 1 /\ (n + 1)..n = {} /\ n - 1 < n
      OBVIOUS
    <3> QED
      BY <1>1, <1>8, <1>9, <2>2, <3>1, <3>2, <3>3, Zenon DEF LiveInv
  <2> QED
    BY <2>1, <2>2, Zenon
<1>11. CheckpointInv(y, seq)
  BY <1>1, <1>3, Zenon DEF StreamInv, CheckpointInv, Active
<1> QED
  BY <1>1, <1>2, <1>4, <1>5, <1>6, <1>10, <1>11, Zenon DEF StreamInv

(* The event at the receiver and its place in the history of a filter.     *)
LEMMA AtReceiver ==
  ASSUME TypeOK, IndexInv, NEW f \in Filters, NEW r \in 0..(Len(events) - 1),
         NEW e, e = events[r + 1]
  PROVE  /\ e \in Event /\ Key(f, e) \in Nat
         /\ \A i \in 1..Len(Positions(f)) :
               Positions(f)[i] = r => Matches(f, e) /\ Key(f, e) = i - 1
         /\ Matches(f, e) => /\ Key(f, e) + 1 <= Len(Positions(f))
                             /\ Positions(f)[Key(f, e) + 1] = r
<1>1. Len(events) \in Nat /\ events \in Seq(Event)
  BY DEF TypeOK
<1>2. PICK p \in 1..Len(events) : p = r + 1
  BY <1>1
<1>3. e \in Event /\ Key(f, e) \in Nat
  BY <1>1, <1>2, KeyType, Zenon
<1>4. \A i \in 1..Len(Positions(f)) :
         Positions(f)[i] = r => Matches(f, e) /\ Key(f, e) = i - 1
  BY Zenon DEF IndexInv, Indexes
<1>5. Matches(f, events[p]) =>
         /\ Key(f, events[p]) + 1 <= Len(Positions(f))
         /\ Positions(f)[Key(f, events[p]) + 1] = p - 1
  BY Zenon DEF IndexInv, Indexes
<1>6. p - 1 = r /\ events[p] = e
  BY <1>2
<1> QED
  BY <1>3, <1>4, <1>5, <1>6, Zenon

(* Receive of an event that is not for this stream, or was replayed.       *)
LEMMA SkipKeeps ==
  ASSUME TypeOK, IndexInv, NEW x \in SubscriptionState, NEW seq \in Seq(Nat),
         StreamInv(x, seq), x.phase = "live", x.rx < tail,
         NEW e, e = events[x.rx + 1],
         ~Matches(x.filter, e) \/ (x.last # None /\ Key(x.filter, e) <= x.last),
         NEW y, y = [x EXCEPT !.rx = x.rx + 1]
  PROVE  y \in SubscriptionState /\ StreamInv(y, seq)
<1>1. PICK f \in Filters : f = x.filter
  BY Fields, Zenon
<1>2. PICK r \in Nat : r = x.rx
  BY Fields, Zenon
<1>3. /\ y.phase = "live" /\ y.filter = f /\ y.from = x.from
      /\ y.cursor = x.cursor /\ y.last = x.last /\ y.rx = r + 1
      /\ y.sent = x.sent /\ y.indexed = x.indexed /\ y.heard = x.heard
  BY <1>1, <1>2, Zenon DEF SubscriptionState
<1>4. y \in SubscriptionState
  <2>1. x.rx + 1 \in Nat
    BY Fields
  <2> QED
    BY <2>1, Zenon DEF SubscriptionState
<1>5. First(y) = First(x) /\ NextKey(y) = NextKey(x)
  BY <1>1, <1>3, Zenon DEF First, NextKey
<1>6. tail \in Nat /\ tail <= Len(events) /\ Len(events) \in Nat
        /\ Len(Positions(f)) \in Nat
        /\ \A i \in 1..Len(Positions(f)) : Positions(f)[i] \in Nat
  BY PositionsType DEF TypeOK
<1>7. /\ \A i \in 1..Len(Positions(f)) :
            Positions(f)[i] = r => Matches(f, e) /\ Key(f, e) = i - 1
      /\ Key(f, e) \in Nat
  <2>1. r \in 0..(Len(events) - 1)
    BY <1>2, <1>6
  <2> QED
    BY <1>2, <2>1, AtReceiver
<1>8. ASSUME NEW n \in Nat, Ahead(x, n), x.last < n \/ x.last = None
      PROVE  Ahead(y, n)
  <2> SUFFICES ASSUME NEW i \in 1..Len(Positions(f)), n < i
               PROVE  r + 1 <= Positions(f)[i]
    BY <1>3, Zenon DEF Ahead
  <2>1. r <= Positions(f)[i]
    BY <1>1, <1>2, <1>8, Zenon DEF Ahead
  <2>2. Positions(f)[i] # r
    <3> SUFFICES ASSUME Positions(f)[i] = r PROVE FALSE
      BY Zenon
    <3>1. Matches(f, e) /\ Key(f, e) = i - 1
      BY <1>7, Zenon
    <3>2. x.last # None /\ i - 1 <= x.last
      BY <1>1, <3>1, Zenon
    <3> QED
      BY <1>6, <1>8, <3>2, Fields
  <2> QED
    BY <1>6, <2>1, <2>2
<1>9. SentInv(y)
  BY <1>1, <1>3, <1>5, Zenon DEF StreamInv, SentInv
<1>10. HeardInv(y)
  <2> SUFFICES ASSUME x.heard, x.from # 0
               PROVE  x.from <= Len(Positions(f)) /\ Positions(f)[x.from] < r + 1
    BY <1>3, Zenon DEF HeardInv
  <2>1. x.from <= Len(Positions(f)) /\ Positions(f)[x.from] < r
    BY <1>1, <1>2, Zenon DEF StreamInv, HeardInv, Active
  <2>2. x.from \in 1..Len(Positions(f))
    BY <1>6, <2>1, Fields
  <2> QED
    BY <1>6, <2>1, <2>2
<1>11. ReplayInv(y) /\ BatchInv(y)
  BY <1>3, Zenon DEF ReplayInv, BatchInv
<1>12. LiveInv(x)
  BY Zenon DEF StreamInv
<1>13. LiveInv(y)
  <2>1. CASE x.sent = <<>>
    <3>1. x.last = None /\ x.indexed <= x.from /\ Ahead(x, x.from)
      BY <1>12, <2>1, Zenon DEF LiveInv
    <3>2. Ahead(y, x.from)
      BY <1>8, <3>1, Fields, Zenon
    <3> QED
      BY <1>3, <2>1, <3>1, <3>2, Zenon DEF LiveInv
  <2>2. CASE x.sent # <<>>
    <3>1. PICK n \in Nat : n = NextKey(x)
      BY <2>2, SentType, Zenon
    <3>2. /\ x.last < n /\ Ahead(x, n)
          /\ \A i \in (x.last + 2)..n : Positions(f)[i] < r
          /\ x.from < x.indexed => First(x) = x.from /\ x.indexed <= n
      BY <1>1, <1>2, <1>12, <2>2, <3>1, Zenon DEF LiveInv
    <3>3. Ahead(y, n)
      BY <1>8, <3>2, Zenon
    <3>4. n <= Len(Positions(f))
      BY <1>1, <2>2, <3>1, SentType, Zenon DEF StreamInv
    <3>5. ASSUME NEW i \in (x.last + 2)..n
          PROVE  Positions(f)[i] < r + 1
      <4>1. i \in 1..Len(Positions(f))
        <5>1. x.last \in Nat \cup {-1} /\ Len(Positions(f)) \in Nat
          BY <1>6, Fields, Zenon DEF None
        <5> QED
          BY <3>4, <5>1, BehindLast, Zenon
      <4> QED
        BY <1>6, <3>2, <4>1
    <3> QED
      BY <1>3, <1>5, <2>2, <3>1, <3>2, <3>3, <3>5, Zenon DEF LiveInv
  <2> QED
    BY <2>1, <2>2, Zenon
<1>14. CheckpointInv(y, seq)
  BY <1>3, <1>5, Zenon DEF StreamInv, CheckpointInv, Active
<1>15. y.rx <= tail
  BY <1>2, <1>3, <1>6
<1>16. y.indexed <= Len(Positions(y.filter))
  BY <1>1, <1>3, Zenon DEF StreamInv
<1> QED
  BY <1>4, <1>9, <1>10, <1>11, <1>13, <1>14, <1>15, <1>16, Zenon DEF StreamInv

(* The event that the receiver lets through is the next one of the run;    *)
(* the first one is at from, or before it if from was ahead of the channel. *)
LEMMA ReceivesNext ==
  ASSUME TypeOK, IndexInv, NEW x \in SubscriptionState, NEW seq \in Seq(Nat),
         StreamInv(x, seq), x.phase = "live",
         NEW k \in Nat, k + 1 <= Len(Positions(x.filter)),
         Positions(x.filter)[k + 1] = x.rx, x.last = None \/ k > x.last
  PROVE  /\ x.sent # <<>> => k = NextKey(x)
         /\ x.sent = <<>> => k <= x.from /\ (x.heard => k = x.from)
<1>1. PICK f \in Filters : f = x.filter
  BY Fields, Zenon
<1>2. PICK r \in Nat : r = x.rx
  BY Fields, Zenon
<1>3. PICK len \in Nat : len = Len(Positions(f))
  BY PositionsType, Zenon
<1>4. /\ \A i \in 1..len : Positions(f)[i] \in Nat
      /\ \A i, j \in 1..len : i < j => Positions(f)[i] < Positions(f)[j]
  BY <1>3, PositionsType, Zenon DEF IndexInv, Indexes
<1>5. k + 1 \in 1..len /\ Positions(f)[k + 1] = r
  BY <1>1, <1>2, <1>3
<1>6. ASSUME NEW n \in Nat, Ahead(x, n) PROVE k <= n
  <2> SUFFICES ASSUME n < k PROVE FALSE
    OBVIOUS
  <2>1. n + 1 \in 1..len /\ n < n + 1 /\ n + 1 < k + 1
    BY <1>5
  <2>2. r <= Positions(f)[n + 1]
    BY <1>1, <1>2, <1>3, <1>6, <2>1, Zenon DEF Ahead
  <2>3. Positions(f)[n + 1] < r
    BY <1>4, <1>5, <2>1, Zenon
  <2> QED
    BY <1>4, <2>1, <2>2, <2>3
<1>7. LiveInv(x)
  BY Zenon DEF StreamInv
<1>8. CASE x.sent # <<>>
  <2>1. PICK n \in Nat : n = NextKey(x)
    BY <1>8, SentType, Zenon
  <2>2. Ahead(x, n) /\ \A i \in (x.last + 2)..n : Positions(f)[i] < r
    BY <1>1, <1>2, <1>7, <1>8, <2>1, Zenon DEF LiveInv
  <2>3. k <= n
    BY <1>6, <2>2, Zenon
  <2>4. ~(k < n)
    <3> SUFFICES ASSUME k < n PROVE FALSE
      BY Zenon
    <3>1. k + 1 \in (x.last + 2)..n
      BY Fields DEF None
    <3> QED
      BY <1>5, <2>2, <3>1
  <2> QED
    BY <1>8, <2>1, <2>3, <2>4
<1>9. CASE x.sent = <<>>
  <2>1. PICK from \in Nat : from = x.from
    BY Fields, Zenon
  <2>2. k <= from
    BY <1>6, <1>7, <1>9, <2>1, Zenon DEF LiveInv
  <2>3. x.heard => from <= k
    <3> SUFFICES ASSUME x.heard, k < from PROVE FALSE
      BY <2>1
    <3>1. from <= len /\ Positions(f)[from] < r
      BY <1>1, <1>2, <1>3, <2>1 DEF StreamInv, HeardInv, Active
    <3>2. from \in 1..len /\ (k + 1 < from \/ k + 1 = from)
      BY <3>1
    <3> QED
      BY <1>4, <1>5, <3>1, <3>2
  <2> QED
    BY <1>9, <2>1, <2>2, <2>3
<1> QED
  BY <1>8, <1>9, Zenon

(* Receive of an event that is sent.                                       *)
LEMMA SendKeeps ==
  ASSUME TypeOK, IndexInv, NEW x \in SubscriptionState, NEW seq \in Seq(Nat),
         StreamInv(x, seq), NoGap(seq), x.phase = "live", x.rx < tail,
         NEW e, e = events[x.rx + 1], Matches(x.filter, e),
         NEW k, k = Key(x.filter, e), x.last = None \/ k > x.last,
         NEW y, y = [x EXCEPT !.rx = x.rx + 1, !.sent = Append(x.sent, e)],
         NEW longer, longer = Append(seq, k)
  PROVE  Stands(y, longer)
<1>1. PICK f \in Filters : f = x.filter
  BY Fields, Zenon
<1>2. PICK r \in Nat : r = x.rx
  BY Fields, Zenon
<1>3. PICK len \in Nat : len = Len(Positions(f))
  BY PositionsType, Zenon
<1>4. /\ \A i \in 1..len : Positions(f)[i] \in Nat
      /\ \A i, j \in 1..len : i < j => Positions(f)[i] < Positions(f)[j]
  BY <1>3, PositionsType, Zenon DEF IndexInv, Indexes
<1>5. /\ e \in Event /\ k \in Nat /\ k + 1 <= len /\ Positions(f)[k + 1] = r
  <2>1. r \in 0..(Len(events) - 1)
    BY <1>2 DEF TypeOK
  <2> QED
    BY <1>1, <1>2, <1>3, <2>1, AtReceiver
<1>6. /\ x.sent # <<>> => k = NextKey(x)
      /\ x.sent = <<>> => k <= x.from /\ (x.heard => k = x.from)
  BY <1>1, <1>2, <1>3, <1>5, ReceivesNext, Zenon
<1>7. PICK sent : sent = Append(x.sent, e)
  BY Zenon
<1>8. OneMore(x, sent, k)
  <2>1. SentInv(x)
    BY Zenon DEF StreamInv
  <2>2. e = events[Positions(x.filter)[k + 1] + 1]
    BY <1>1, <1>2, <1>5, Zenon
  <2>3. k + 1 <= Len(Positions(x.filter))
    BY <1>1, <1>3, <1>5, Zenon
  <2> QED
    BY <1>5, <1>6, <1>7, <2>1, <2>2, <2>3, SendsNext, Zenon
<1>9. y = [x EXCEPT !.rx = r + 1, !.sent = sent]
  BY <1>2, <1>7, Zenon
<1>10. y \in SubscriptionState
  <2>1. r + 1 \in Nat /\ sent \in Seq(Event)
    BY <1>8 DEF OneMore
  <2>2. [x EXCEPT !.rx = r + 1, !.sent = sent] \in SubscriptionState
    BY <2>1, ReceiveType, Zenon
  <2> QED
    BY <1>9, <2>2, Zenon
<1>11. /\ y.phase = "live" /\ y.filter = f /\ y.from = x.from
       /\ y.cursor = x.cursor /\ y.last = x.last /\ y.rx = r + 1
       /\ y.sent = sent /\ y.indexed = x.indexed /\ y.heard = x.heard
  BY <1>1, <1>9, Zenon DEF SubscriptionState
<1>12. /\ First(y) = IF x.sent = <<>> THEN k ELSE First(x)
       /\ NextKey(y) = k + 1 /\ sent # <<>>
       /\ Follows(sent, f, First(y))
  BY <1>1, <1>8, <1>11, Zenon DEF OneMore, First, NextKey
<1>13. SentInv(y)
  <2>1. x.heard => First(y) = x.from
    BY <1>6, <1>12, Zenon DEF StreamInv, SentInv
  <2> QED
    BY <1>11, <1>12, <2>1, Zenon DEF SentInv
<1>14. HeardInv(y)
  <2> SUFFICES ASSUME x.heard, x.from # 0
               PROVE  x.from <= Len(Positions(f)) /\ Positions(f)[x.from] < r + 1
    BY <1>11, Zenon DEF HeardInv
  <2>1. x.from <= len /\ Positions(f)[x.from] < r
    BY <1>1, <1>2, <1>3, Zenon DEF StreamInv, HeardInv, Active
  <2>2. x.from \in 1..len
    BY <2>1, Fields
  <2> QED
    BY <1>3, <1>4, <2>1, <2>2
<1>15. ReplayInv(y) /\ BatchInv(y)
  BY <1>11, Zenon DEF ReplayInv, BatchInv
<1>16. LiveInv(y)
  <2>1. x.last < k + 1
    BY <1>5, Fields DEF None
  <2>2. Ahead(y, k + 1)
    <3> SUFFICES ASSUME NEW i \in 1..len, k + 1 < i
                 PROVE  r + 1 <= Positions(f)[i]
      BY <1>3, <1>11, Zenon DEF Ahead
    <3>1. k + 1 \in 1..len /\ Positions(f)[k + 1] < Positions(f)[i]
      BY <1>4, <1>5
    <3> QED
      BY <1>4, <1>5, <3>1
  <2>3. ASSUME NEW i \in (x.last + 2)..(k + 1)
        PROVE  Positions(f)[i] < r + 1
    <3>1. i \in 1..len /\ k + 1 \in 1..len /\ (i < k + 1 \/ i = k + 1)
      <4>1. PICK last \in Nat \cup {-1} : last = x.last
        BY Fields, Zenon DEF None
      <4> QED
        BY <1>5, <4>1, SMTT(30)
    <3>2. Positions(f)[i] <= r
      BY <1>4, <1>5, <3>1
    <3> QED
      BY <1>4, <3>1, <3>2
  <2>4. x.from < x.indexed => First(y) = x.from /\ x.indexed <= k + 1
    <3>1. LiveInv(x) /\ x.from \in Nat /\ x.indexed \in Nat
      BY Fields, Zenon DEF StreamInv
    <3>2. CASE x.sent = <<>>
      BY <3>1, <3>2 DEF LiveInv
    <3>3. CASE x.sent # <<>>
      BY <1>5, <1>6, <1>12, <3>1, <3>3 DEF LiveInv
    <3> QED
      BY <3>2, <3>3, Zenon
  <2> QED
    BY <1>11, <1>12, <2>1, <2>2, <2>3, <2>4, Zenon DEF LiveInv
<1>17. seq # <<>> => k <= seq[Len(seq)] + 1
  <2>1. CASE x.sent = <<>>
    BY <1>6, <2>1, Zenon DEF StreamInv, CheckpointInv, Active
  <2>2. CASE x.sent # <<>>
    BY <1>5, <1>6, <2>2 DEF StreamInv, CheckpointInv
  <2> QED
    BY <2>1, <2>2, Zenon
<1>18. longer \in Seq(Nat) /\ longer # <<>> /\ NoGap(longer)
         /\ longer[Len(longer)] = k
  BY <1>5, <1>17, TakesNext, Zenon
<1>19. CheckpointInv(y, longer)
  BY <1>11, <1>12, <1>18, Zenon DEF CheckpointInv
<1>20. y.rx <= tail
  BY <1>2, <1>11 DEF TypeOK
<1>21. y.indexed <= Len(Positions(y.filter))
  BY <1>1, <1>11, Zenon DEF StreamInv
<1> QED
  BY <1>10, <1>13, <1>14, <1>15, <1>16, <1>18, <1>19, <1>20, <1>21, Zenon
  DEF StreamInv, Stands

-----------------------------------------------------------------------------
(* The steps of the specification, and what follows.                       *)

(* n events are added to log, and all or none of them to pos.              *)
Extended(f, log, pos, n, gains, log2, pos2) ==
  LET m == Len(log)
      k == Len(pos)
  IN /\ Len(log2) = m + n
     /\ \A p \in 1..m : log2[p] = log[p]
     /\ Len(pos2) = k + (IF gains THEN n ELSE 0)
     /\ \A i \in 1..k : pos2[i] = pos[i]
     /\ \A j \in 1..n : Matches(f, log2[m + j]) => gains
     /\ gains => \A j \in 1..n : /\ Matches(f, log2[m + j])
                                 /\ pos2[k + j] = m + j - 1
                                 /\ Key(f, log2[m + j]) = k + j - 1

(* Then an index stays one.                                                *)
LEMMA IndexExtends ==
  ASSUME NEW f, NEW log \in Seq(Event), NEW pos \in Seq(Nat), NEW n \in Nat,
         NEW gains \in BOOLEAN, NEW log2 \in Seq(Event), NEW pos2 \in Seq(Nat),
         Indexes(pos, log, f), Extended(f, log, pos, n, gains, log2, pos2)
  PROVE  /\ Indexes(pos2, log2, f)
         /\ \A i \in (Len(pos) + 1)..Len(pos2) : Len(log) <= pos2[i]
<1>1. PICK m \in Nat : m = Len(log)
  OBVIOUS
<1>2. PICK k \in Nat : k = Len(pos)
  OBVIOUS
<1>3. PICK k2 \in Nat : k2 = Len(pos2)
  OBVIOUS
<1>4. /\ Len(log2) = m + n
      /\ \A p \in 1..m : log2[p] = log[p]
      /\ \A i \in 1..k : pos2[i] = pos[i]
  BY <1>1, <1>2, Zenon DEF Extended
<1>5. /\ k2 = IF gains THEN k + n ELSE k
      /\ \A j \in 1..n : Matches(f, log2[m + j]) => gains
      /\ gains => \A j \in 1..n : /\ Matches(f, log2[m + j])
                                  /\ pos2[k + j] = m + j - 1
                                  /\ Key(f, log2[m + j]) = k + j - 1
  BY <1>1, <1>2, <1>3 DEF Extended
<1>6. /\ \A i \in 1..k : /\ pos[i] \in 0..(m - 1) /\ Matches(f, log[pos[i] + 1])
                         /\ Key(f, log[pos[i] + 1]) = i - 1
                         /\ \A j \in 1..k : i < j => pos[i] < pos[j]
      /\ \A p \in 1..m : Matches(f, log[p]) =>
            Key(f, log[p]) + 1 <= k /\ pos[Key(f, log[p]) + 1] = p - 1
  BY <1>1, <1>2, Zenon DEF Indexes
<1>7. k <= k2 /\ (~gains => k2 = k) /\ (gains => k2 = k + n)
  BY <1>5
<1>8. ASSUME NEW i \in (k + 1)..k2
      PROVE  /\ pos2[i] = m + (i - k) - 1 /\ Matches(f, log2[pos2[i] + 1])
             /\ Key(f, log2[pos2[i] + 1]) = i - 1
  <2>1. gains
    BY <1>7
  <2>2. PICK j \in 1..n : j = i - k
    BY <1>7, <2>1
  <2>3. /\ Matches(f, log2[m + j]) /\ pos2[k + j] = m + j - 1
        /\ Key(f, log2[m + j]) = k + j - 1
    BY <1>5, <2>1, Zenon
  <2>4. k + j = i /\ (m + j - 1) + 1 = m + j /\ k + j - 1 = i - 1
    BY <2>2
  <2> QED
    BY <2>2, <2>3, <2>4, Zenon
<1>9. ASSUME NEW i \in 1..k
      PROVE  /\ pos2[i] = pos[i] /\ pos2[i] \in 0..(m - 1)
             /\ log2[pos2[i] + 1] = log[pos[i] + 1]
  <2>1. PICK q \in 0..(m - 1) : q = pos[i]
    BY <1>6, Zenon
  <2>2. PICK p \in 1..m : p = q + 1
    OBVIOUS
  <2>3. log2[p] = log[p] /\ pos2[i] = pos[i]
    BY <1>4, ZenonT(30)
  <2> QED
    BY <2>1, <2>2, <2>3, Zenon
<1>10. ASSUME NEW i \in 1..k2
      PROVE  /\ pos2[i] \in 0..(Len(log2) - 1)
             /\ Matches(f, log2[pos2[i] + 1])
             /\ Key(f, log2[pos2[i] + 1]) = i - 1
             /\ \A j \in 1..k2 : i < j => pos2[i] < pos2[j]
  <2>1. CASE i \in 1..k
    <3>1. ASSUME NEW j \in 1..k2, i < j PROVE pos2[i] < pos2[j]
      <4>1. CASE j \in 1..k
        BY <1>6, <1>9, <2>1, <3>1, <4>1, Zenon
      <4>2. CASE j \in (k + 1)..k2
        <5>1. pos2[j] = m + (j - k) - 1
          BY <1>8, <4>2, Zenon
        <5>2. pos2[i] \in 0..(m - 1)
          BY <1>9, <2>1, Zenon
        <5> QED
          BY <4>2, <5>1, <5>2
      <4> QED
        BY <4>1, <4>2
    <3>2. pos2[i] \in 0..(Len(log2) - 1)
      <4>1. pos2[i] \in 0..(m - 1)
        BY <1>9, <2>1, Zenon
      <4> QED
        BY <1>4, <4>1
    <3>3. Matches(f, log2[pos2[i] + 1]) /\ Key(f, log2[pos2[i] + 1]) = i - 1
      <4>1. log2[pos2[i] + 1] = log[pos[i] + 1]
        BY <1>9, <2>1, Zenon
      <4>2. Matches(f, log[pos[i] + 1]) /\ Key(f, log[pos[i] + 1]) = i - 1
        BY <1>6, <2>1, Zenon
      <4> QED
        BY <4>1, <4>2, Zenon
    <3> QED
      BY <3>1, <3>2, <3>3, Zenon
  <2>2. CASE i \in (k + 1)..k2
    <3>1. ASSUME NEW j \in 1..k2, i < j PROVE pos2[i] < pos2[j]
      <4>1. j \in (k + 1)..k2
        BY <2>2, <3>1
      <4> QED
        BY <1>8, <2>2, <3>1, <4>1
    <3>2. pos2[i] \in 0..(Len(log2) - 1)
      BY <1>7, <1>8, <1>4, <2>2
    <3> QED
      BY <1>8, <2>2, <3>1, <3>2, Zenon
  <2> QED
    BY <2>1, <2>2
<1>11. ASSUME NEW p \in 1..Len(log2), Matches(f, log2[p])
      PROVE  Key(f, log2[p]) + 1 <= k2 /\ pos2[Key(f, log2[p]) + 1] = p - 1
  <2>1. CASE p \in 1..m
    <3>1. log2[p] = log[p]
      BY <1>4, <2>1, Zenon
    <3>2. Key(f, log[p]) + 1 <= k /\ pos[Key(f, log[p]) + 1] = p - 1
      BY <1>6, <1>11, <2>1, <3>1, Zenon
    <3>3. PICK key \in Nat : key = Key(f, log[p])
      BY <1>1, <2>1, KeyType, Zenon
    <3>4. PICK i \in 1..k : i = key + 1
      BY <3>2, <3>3
    <3>5. pos2[i] = pos[i]
      BY <1>9, Zenon
    <3>6. pos2[key + 1] = p - 1
      BY <3>2, <3>3, <3>4, <3>5, Zenon
    <3>7. key + 1 <= k2
      BY <1>7, <3>4
    <3> QED
      BY <3>1, <3>3, <3>6, <3>7, Zenon
  <2>2. CASE p \in (m + 1)..(m + n)
    <3>1. PICK j \in 1..n : j = p - m /\ m + j = p
      BY <2>2
    <3>2. gains
      BY <1>11, <1>5, <3>1, Zenon
    <3>3. pos2[k + j] = m + j - 1 /\ Key(f, log2[p]) = k + j - 1
      BY <1>5, <3>1, <3>2, Zenon
    <3>4. Key(f, log2[p]) + 1 = k + j /\ k + j <= k2
      BY <1>7, <3>2, <3>3
    <3> QED
      BY <3>1, <3>3, <3>4
  <2> QED
    BY <1>4, <2>1, <2>2
<1> QED
  BY <1>1, <1>2, <1>3, <1>8, <1>10, <1>11 DEF Indexes

(* c is a, of length m, followed by b, of length n.                        *)
Joins(c, a, m, b, n) ==
  /\ Len(c) = m + n
  /\ \A i \in 1..m : c[i] = a[i]
  /\ \A j \in 1..n : c[m + j] = b[j]

LEMMA Joined ==
  ASSUME NEW S, NEW a \in Seq(S), NEW b \in Seq(S), NEW m \in Nat, m = Len(a),
         NEW n \in Nat, Len(b) = n, NEW c, c = a \o b
  PROVE  c \in Seq(S) /\ Joins(c, a, m, b, n)
<1>1. /\ c \in Seq(S) /\ Len(c) = m + n
      /\ \A i \in 1..(m + n) : c[i] = IF i <= m THEN a[i] ELSE b[i - m]
  <2>1. /\ a \o b \in Seq(S) /\ Len(a \o b) = Len(a) + Len(b)
    OBVIOUS
  <2>2. ASSUME NEW i \in 1..(m + n)
        PROVE  c[i] = IF i <= m THEN a[i] ELSE b[i - m]
    OBVIOUS
  <2> QED
    BY <2>1, <2>2, Zenon
<1>2. ASSUME NEW j \in 1..n PROVE c[m + j] = b[j]
  <2>1. m + j \in 1..(m + n) /\ ~(m + j <= m) /\ (m + j) - m = j
    OBVIOUS
  <2> QED
    BY <1>1, <2>1, Zenon
<1>3. ASSUME NEW i \in 1..m PROVE c[i] = a[i]
  <2>1. i \in 1..(m + n) /\ i <= m
    OBVIOUS
  <2> QED
    BY <1>1, <2>1, Zenon
<1> QED
  BY <1>1, <1>2, <1>3, Zenon DEF Joins

(* AppendBatch: the index grows by events that are not published yet.      *)
LEMMA AppendKeepsIndex ==
  ASSUME TypeOK, IndexInv, NEW s \in StreamIds, NEW n \in 1..MaxBatch,
         AppendBatch(s, n)
  PROVE  TypeOK' /\ IndexInv' /\ IndexGrows
<1>1. /\ events \in Seq(Event) /\ streams \in [StreamIds -> Seq(Nat)]
      /\ tail = Len(events) /\ n \in Nat
  BY BoundsAssumption DEF TypeOK, AppendBatch
<1>2. PICK log \in Seq(Event) : log = events
  BY <1>1, Zenon
<1>3. PICK m \in Nat : m = Len(log)
  OBVIOUS
<1>4. PICK old \in Seq(Nat) : old = streams[s]
  BY <1>1, Zenon
<1>5. PICK k \in Nat : k = Len(old)
  OBVIOUS
<1>6. PICK new : new = [i \in 1..n |-> [stream_id |-> s,
                                        stream_version |-> k + i - 1,
                                        global_position |-> m + i - 1]]
  BY Zenon
<1>7. PICK more : more = [i \in 1..n |-> m + i - 1]
  BY Zenon
<1>8. new \in Seq(Event) /\ Len(new) = n
  <2>1. \A i \in 1..n : k + i - 1 \in Nat /\ m + i - 1 \in Nat
    OBVIOUS
  <2> QED
    BY <1>1, <1>6, <2>1 DEF Event
<1>9. more \in Seq(Nat) /\ Len(more) = n
  <2>1. \A i \in 1..n : m + i - 1 \in Nat
    OBVIOUS
  <2> QED
    BY <1>1, <1>7, <2>1
<1>10. events' = log \o new /\ streams' = [streams EXCEPT ![s] = old \o more]
  BY <1>1, <1>2, <1>3, <1>4, <1>5, <1>6, <1>7, Zenon DEF AppendBatch
<1>11. UNCHANGED <<tail, sub, taken, subscribes, restarts>>
  BY Zenon DEF AppendBatch
<1>12. PICK log2 : log2 = log \o new
  BY Zenon
<1>13. /\ log2 \in Seq(Event)
       /\ Len(log2) = m + n /\ \A p \in 1..m : log2[p] = log[p]
       /\ \A j \in 1..n : log2[m + j] = new[j]
  <2>1. log2 \in Seq(Event) /\ Joins(log2, log, m, new, n)
    BY <1>1, <1>3, <1>8, <1>12, Joined, Zenon
  <2> QED
    BY <2>1, Zenon DEF Joins
<1>14. PICK pos2 : pos2 = old \o more
  BY Zenon
<1>15. /\ pos2 \in Seq(Nat)
       /\ Len(pos2) = k + n /\ \A i \in 1..k : pos2[i] = old[i]
       /\ \A j \in 1..n : pos2[k + j] = m + j - 1
  <2>1. pos2 \in Seq(Nat) /\ Joins(pos2, old, k, more, n)
    BY <1>1, <1>5, <1>9, <1>14, Joined, Zenon
  <2> QED
    BY <1>7, <2>1, Zenon DEF Joins
<1>16. \A j \in 1..n : /\ log2[m + j].stream_id = s
                       /\ log2[m + j].stream_version = k + j - 1
                       /\ log2[m + j].global_position = m + j - 1
  <2>1. \A j \in 1..n : /\ new[j].stream_id = s
                        /\ new[j].stream_version = k + j - 1
                        /\ new[j].global_position = m + j - 1
    BY <1>6, Zenon
  <2> QED
    BY <1>13, <2>1, Zenon
<1>17. TypeOK'
  <2>1. events' \in Seq(Event) /\ Len(events') = m + n
    BY <1>10, <1>12, <1>13, Zenon
  <2>2. streams' \in [StreamIds -> Seq(Nat)]
    BY <1>1, <1>10, <1>14, <1>15, Zenon
  <2>3. tail' \in 0..Len(events')
    BY <1>1, <1>2, <1>3, <1>11, <2>1
  <2> QED
    BY <1>11, <2>1, <2>2, <2>3, Zenon DEF TypeOK
<1>18. ASSUME NEW f \in Filters
       PROVE  Indexes(Positions(f), events, f)' /\ Grows(f)
  <2>1. PICK pos \in Seq(Nat) : pos = Positions(f)
    BY PositionsType, Zenon
  <2>2. Indexes(pos, log, f)
    BY <1>2, <2>1, Zenon DEF IndexInv
  <2>3. CASE f = AllStreams
    <3>1. pos = [i \in 1..m |-> i - 1]
      BY <1>2, <1>3, <2>1, <2>3, Zenon DEF Positions
    <3>2. PICK all : all = [i \in 1..(m + n) |-> i - 1]
      BY Zenon
    <3>3. Positions(f)' = all
      BY <1>10, <1>12, <1>13, <2>3, <3>2, Zenon DEF Positions
    <3>4. all \in Seq(Nat) /\ Len(all) = m + n /\ Len(pos) = m
      BY <1>1, <3>1, <3>2
    <3>5. \A j \in 1..n : all[m + j] = m + j - 1
      BY <1>1, <3>2
    <3>6. \A i \in 1..m : all[i] = pos[i]
      BY <1>1, <3>1, <3>2
    <3>7. \A j \in 1..n : /\ Matches(f, log2[m + j])
                          /\ Key(f, log2[m + j]) = m + j - 1
      BY <1>16, <2>3, Zenon DEF Matches, Key
    <3>8. Extended(f, log, pos, n, TRUE, log2, all)
      BY <1>3, <1>13, <3>4, <3>5, <3>6, <3>7, Zenon DEF Extended
    <3>9. Indexes(all, log2, f) /\ \A i \in (Len(pos) + 1)..Len(all) : m <= all[i]
      <4>1. all \in Seq(Nat) /\ TRUE \in BOOLEAN
        BY <3>4, Zenon
      <4> QED
        BY <1>1, <1>3, <1>13, <2>2, <3>8, <4>1, IndexExtends, Zenon
    <3>10. Indexes(Positions(f), events, f)'
      BY <1>10, <1>12, <3>3, <3>9, <2>3, Zenon DEF Indexes
    <3>11. Grows(f)
      BY <1>1, <1>2, <1>3, <2>1, <3>3, <3>4, <3>6, <3>9 DEF Grows
    <3> QED
      BY <3>10, <3>11, Zenon
  <2>4. CASE f = s
    <3>1. f # AllStreams /\ pos = old /\ Positions(f)' = pos2
      BY <1>1, <1>4, <1>10, <1>14, <2>1, <2>4, StreamsAssumption, Zenon
         DEF Positions
    <3>2. \A j \in 1..n : /\ Matches(f, log2[m + j])
                          /\ Key(f, log2[m + j]) = k + j - 1
      BY <1>16, <2>4, <3>1, Zenon DEF Matches, Key
    <3>3. Extended(f, log, pos, n, TRUE, log2, pos2)
      BY <1>3, <1>5, <1>13, <1>15, <3>1, <3>2, Zenon DEF Extended
    <3>4. Indexes(pos2, log2, f)
            /\ \A i \in (Len(pos) + 1)..Len(pos2) : m <= pos2[i]
      BY <1>1, <1>3, <1>13, <1>15, <2>2, <3>3, IndexExtends, Zenon
    <3>5. Indexes(Positions(f), events, f)'
      BY <1>10, <1>12, <3>1, <3>4, <2>4, Zenon DEF Indexes
    <3>6. Grows(f)
      BY <1>1, <1>2, <1>3, <1>5, <1>15, <2>1, <3>1, <3>4 DEF Grows
    <3> QED
      BY <3>5, <3>6
  <2>5. CASE f \in StreamIds /\ f # s
    <3>1. f # AllStreams /\ Positions(f)' = pos
      BY <1>1, <1>10, <2>1, <2>5, StreamsAssumption, Zenon DEF Positions
    <3>2. \A j \in 1..n : ~Matches(f, log2[m + j])
      BY <1>16, <2>5, <3>1, Zenon DEF Matches
    <3>3. Extended(f, log, pos, n, FALSE, log2, pos)
      BY <1>3, <1>13, <3>2 DEF Extended
    <3>4. Indexes(pos, log2, f)
      BY <1>1, <1>13, <2>2, <3>3, IndexExtends, Zenon
    <3>5. Indexes(Positions(f), events, f)'
      BY <1>10, <1>12, <3>1, <3>4, Zenon DEF Indexes
    <3>6. Grows(f)
      BY <2>1, <3>1 DEF Grows
    <3> QED
      BY <3>5, <3>6
  <2> QED
    BY <2>3, <2>4, <2>5, Zenon DEF Filters
<1>19. IndexInv'
  BY <1>18, Zenon DEF IndexInv
<1>20. IndexGrows
  BY <1>2, <1>3, <1>10, <1>12, <1>13, <1>18, Zenon DEF IndexGrows
<1> QED
  BY <1>17, <1>19, <1>20, Zenon

(* A step of one client's stream that leaves index and channel alone.      *)
LEMMA OneMoves ==
  ASSUME SubInv, NEW c \in Clients, NEW y \in SubscriptionState,
         NEW seq \in Seq(Nat), StreamInv(y, seq), NoGap(seq),
         sub' = [sub EXCEPT ![c] = y], taken' = [taken EXCEPT ![c] = seq],
         UNCHANGED <<events, streams, tail, restarts>>,
         subscribes' \in [Clients -> Nat]
  PROVE  SubInv'
<1>1. TypeOK /\ IndexInv
  BY Zenon DEF SubInv
<1>2. TypeOK'
  BY <1>1, Zenon DEF TypeOK
<1>3. IndexInv'
  BY <1>1, SameIndexInv, Zenon
<1>4. IndexGrows /\ tail <= tail'
  BY <1>1, SameIndex DEF TypeOK
<1>5. ASSUME NEW d \in Clients
      PROVE  StreamInv(sub[d], taken[d])' /\ NoGap(taken'[d])
  <2>1. PICK x \in SubscriptionState, l \in Seq(Nat) :
             x = sub'[d] /\ l = taken'[d]
    BY <1>2, Zenon DEF TypeOK
  <2>2. StreamInv(x, l) /\ NoGap(l)
    <3>1. CASE d = c
      <4>1. x = y /\ l = seq
        BY <1>1, <2>1, <3>1, Zenon DEF TypeOK
      <4> QED
        BY <4>1, Zenon
    <3>2. CASE d # c
      <4>1. x = sub[d] /\ l = taken[d]
        BY <1>1, <2>1, <3>2, Zenon DEF TypeOK
      <4> QED
        BY <4>1, Zenon DEF SubInv
    <3> QED
      BY <3>1, <3>2, Zenon
  <2>3. StreamInv(x, l)'
    BY <1>1, <1>2, <1>4, <2>2, StreamStays, Zenon
  <2> QED
    BY <2>1, <2>2, <2>3, Zenon
<1> QED
  BY <1>2, <1>3, <1>5, Zenon DEF SubInv

(* Subscribe and Resume.                                                   *)
LEMMA RegisterStep ==
  ASSUME SubInv, NEW c \in Clients, NEW f \in Filters, NEW from \in Nat,
         taken[c] # <<>> => taken[c][Len(taken[c])] + 1 = from,
         Register(c, f, from)
  PROVE  SubInv'
<1>1. TypeOK
  BY Zenon DEF SubInv
<1>2. PICK seq \in Seq(Nat) : seq = taken[c]
  BY <1>1, Zenon DEF TypeOK
<1>3. PICK y \in SubscriptionState : y = Registered(f, from) /\ StreamInv(y, seq)
  BY <1>1, <1>2, RegisterKeeps, Zenon
<1>4. sub' = [sub EXCEPT ![c] = y] /\ UNCHANGED <<events, streams, tail, restarts>>
  BY <1>3, Zenon DEF Register
<1>5. taken' = [taken EXCEPT ![c] = seq] /\ subscribes' \in [Clients -> Nat]
  BY <1>1, <1>2 DEF Register, TypeOK
<1>6. NoGap(seq)
  BY <1>2, Zenon DEF SubInv
<1> QED
  BY <1>3, <1>4, <1>5, <1>6, OneMoves, Zenon

(* The steps in which the client takes nothing.                            *)
LEMMA QuietStep ==
  ASSUME SubInv, NEW c \in Clients, NEW y \in SubscriptionState,
         StreamInv(y, taken[c]), sub' = [sub EXCEPT ![c] = y],
         UNCHANGED <<events, streams, tail, taken, subscribes, restarts>>
  PROVE  SubInv'
<1>1. TypeOK
  BY Zenon DEF SubInv
<1>2. PICK seq \in Seq(Nat) : seq = taken[c]
  BY <1>1, Zenon DEF TypeOK
<1>3. taken' = [taken EXCEPT ![c] = seq] /\ subscribes' \in [Clients -> Nat]
  BY <1>1, <1>2, Zenon DEF TypeOK
<1>4. NoGap(seq)
  BY <1>2, Zenon DEF SubInv
<1> QED
  BY <1>2, <1>3, <1>4, OneMoves, Zenon

LEMMA FetchStep ==
  ASSUME SubInv, NEW c \in Clients, FetchAll(c) \/ FetchStream(c)
  PROVE  SubInv'
<1>1. TypeOK /\ IndexInv
  BY Zenon DEF SubInv
<1>2. PICK x \in SubscriptionState : x = sub[c]
  BY <1>1, Zenon DEF TypeOK
<1>3. PICK seq \in Seq(Nat) : seq = taken[c]
  BY <1>1, Zenon DEF TypeOK
<1>4. StreamInv(x, seq) /\ x.phase = "fetch" /\ x.cursor \in Nat /\ x.filter \in Filters
  BY <1>2, <1>3, Fields, Zenon DEF SubInv, FetchAll, FetchStream
<1>5. PICK found \in Seq(Event) :
           /\ Len(found) \in Nat /\ Follows(found, x.filter, x.cursor)
           /\ Len(found) < CatchupBatchSize =>
                 Len(Positions(x.filter)) <= x.cursor + Len(found)
           /\ Fetched(c, found)
  <2>1. CASE FetchAll(c)
    <3>1. x.filter = AllStreams /\ Fetched(c, read_all(x.cursor))
      BY <1>2, <2>1, Zenon DEF FetchAll
    <3> QED
      BY <1>1, <1>4, <3>1, ReadAll, Zenon
  <2>2. CASE FetchStream(c)
    <3>1. x.filter \in StreamIds /\ Fetched(c, read_stream(x.filter, x.cursor))
      BY <1>2, <1>4, <2>2, Zenon DEF FetchStream, Filters
    <3> QED
      BY <1>1, <1>4, <3>1, ReadStream, Zenon
  <2> QED
    BY <2>1, <2>2, Zenon
<1>8. PICK y : y = [x EXCEPT !.phase = "yield", !.batch = found,
                             !.batch_len = Len(found)]
  BY Zenon
<1>9. y \in SubscriptionState /\ StreamInv(y, seq)
  BY <1>1, <1>4, <1>5, <1>8, FetchKeeps, Zenon
<1>10. /\ sub' = [sub EXCEPT ![c] = y]
       /\ UNCHANGED <<events, streams, tail, taken, subscribes, restarts>>
  BY <1>1, <1>2, <1>5, <1>8, Zenon DEF Fetched, TypeOK
<1> QED
  BY <1>3, <1>9, <1>10, QuietStep, Zenon

LEMMA YieldStep ==
  ASSUME SubInv, NEW c \in Clients, Yield(c)
  PROVE  SubInv'
<1>1. TypeOK /\ IndexInv
  BY Zenon DEF SubInv
<1>2. PICK x \in SubscriptionState : x = sub[c]
  BY <1>1, Zenon DEF TypeOK
<1>3. PICK seq \in Seq(Nat) : seq = taken[c]
  BY <1>1, Zenon DEF TypeOK
<1>4. /\ StreamInv(x, seq) /\ NoGap(seq) /\ x.phase = "yield" /\ x.batch # <<>>
  BY <1>2, <1>3, Zenon DEF SubInv, Yield
<1>5. PICK e : e = Head(x.batch)
  BY Zenon
<1>6. PICK key : key = Key(x.filter, e)
  BY Zenon
<1>7. PICK y : y = [x EXCEPT !.batch = Tail(x.batch), !.last = key,
                             !.cursor = key + 1, !.sent = Append(x.sent, e)]
  BY Zenon
<1>8. PICK longer : longer = Append(seq, key)
  BY Zenon
<1>9. Stands(y, longer)
  BY <1>1, <1>4, <1>5, <1>6, <1>7, <1>8, YieldKeeps, Zenon
<1>10. sub' = [sub EXCEPT ![c] = y]
  BY <1>1, <1>2, <1>5, <1>6, <1>7, Zenon DEF Yield, TypeOK
<1>11. /\ taken' = [taken EXCEPT ![c] = longer]
       /\ UNCHANGED <<events, streams, tail, restarts, subscribes>>
  BY <1>1, <1>2, <1>3, <1>5, <1>6, <1>8, Zenon DEF Yield, Taken, TypeOK
<1>12. subscribes' \in [Clients -> Nat]
  BY <1>1, <1>11, Zenon DEF TypeOK
<1> QED
  BY <1>9, <1>10, <1>11, <1>12, OneMoves, Zenon DEF Stands

LEMMA EndBatchStep ==
  ASSUME SubInv, NEW c \in Clients, EndBatch(c)
  PROVE  SubInv'
<1>1. TypeOK
  BY Zenon DEF SubInv
<1>2. PICK x \in SubscriptionState : x = sub[c]
  BY <1>1, Zenon DEF TypeOK
<1>3. PICK seq \in Seq(Nat) : seq = taken[c]
  BY <1>1, Zenon DEF TypeOK
<1>4. /\ StreamInv(x, seq) /\ x.phase = "yield" /\ x.batch = <<>>
      /\ UNCHANGED <<events, streams, tail, taken, subscribes, restarts>>
  BY <1>2, <1>3, Zenon DEF SubInv, EndBatch
<1>5. CASE ~(x.batch_len < CatchupBatchSize)
  <2>1. PICK y : y = [x EXCEPT !.phase = "fetch"]
    BY Zenon
  <2>2. sub' = [sub EXCEPT ![c] = y]
    BY <1>1, <1>2, <1>5, <2>1, Zenon DEF EndBatch, AfterBatch, TypeOK
  <2>3. y \in SubscriptionState /\ StreamInv(y, seq)
    BY <1>4, <2>1, MoreKeeps, Zenon
  <2> QED
    BY <1>3, <1>4, <2>2, <2>3, QuietStep, Zenon
<1>6. CASE x.batch_len < CatchupBatchSize
  <2>1. PICK y : y = [x EXCEPT !.phase = "live"]
    BY Zenon
  <2>2. sub' = [sub EXCEPT ![c] = y]
    BY <1>1, <1>2, <1>6, <2>1, Zenon DEF EndBatch, AfterBatch, TypeOK
  <2>3. y \in SubscriptionState /\ StreamInv(y, seq)
    BY <1>4, <1>6, <2>1, CaughtUpKeeps, Zenon
  <2> QED
    BY <1>3, <1>4, <2>2, <2>3, QuietStep
<1> QED
  BY <1>5, <1>6, Zenon

LEMMA ReceiveStep ==
  ASSUME SubInv, NEW c \in Clients, Receive(c)
  PROVE  SubInv'
<1>1. TypeOK /\ IndexInv
  BY DEF SubInv
<1>2. PICK x \in SubscriptionState : x = sub[c]
  BY <1>1 DEF TypeOK
<1>3. PICK seq \in Seq(Nat) : seq = taken[c]
  BY <1>1 DEF TypeOK
<1>4. StreamInv(x, seq) /\ NoGap(seq) /\ x.phase = "live" /\ x.rx < tail
  BY <1>2, <1>3, Zenon DEF SubInv, Receive
<1>5. PICK e : e = events[x.rx + 1]
  BY Zenon
<1>6. PICK k : k = Key(x.filter, e)
  OBVIOUS
<1>7. UNCHANGED <<events, streams, tail, subscribes, restarts>>
  BY Zenon DEF Receive
<1>8. CASE Skips(c, e)
  <2>1. PICK y : y = [x EXCEPT !.rx = x.rx + 1]
    BY Zenon
  <2>2. sub' = [sub EXCEPT ![c] = y] /\ UNCHANGED taken
    BY <1>1, <1>2, <1>5, <1>8, <2>1, Zenon DEF Receive, TypeOK
  <2>3. ~Matches(x.filter, e) \/ (x.last # None /\ Key(x.filter, e) <= x.last)
    BY <1>2, <1>8, Zenon DEF Skips, Matches
  <2>4. y \in SubscriptionState /\ StreamInv(y, seq)
    BY <1>1, <1>4, <1>5, <2>1, <2>3, SkipKeeps, Zenon
  <2> QED
    BY <1>3, <1>7, <2>2, <2>4, QuietStep, Zenon
<1>9. CASE ~Skips(c, e)
  <2>1. PICK y : y = [x EXCEPT !.rx = x.rx + 1, !.sent = Append(x.sent, e)]
    BY Zenon
  <2>2. PICK longer : longer = Append(seq, k)
    OBVIOUS
  <2>3. sub' = [sub EXCEPT ![c] = y]
    BY <1>1, <1>2, <1>5, <1>9, <2>1, Zenon DEF Receive, TypeOK
  <2>4. taken' = [taken EXCEPT ![c] = longer] /\ subscribes' \in [Clients -> Nat]
    BY <1>1, <1>2, <1>3, <1>5, <1>6, <1>7, <1>9, <2>2, Zenon
       DEF Receive, Taken, TypeOK
  <2>5. Matches(x.filter, e) /\ ~(x.last # None /\ k <= x.last)
    BY <1>2, <1>6, <1>9, Zenon DEF Skips, Matches
  <2>6. x.last = None \/ k > x.last
    <3>1. x.rx \in 0..(Len(events) - 1)
      BY <1>1, <1>4, Fields DEF TypeOK
    <3>2. k \in Nat /\ x.last \in Nat \cup {None}
      BY <1>1, <1>5, <1>6, <3>1, AtReceiver, Fields, Zenon
    <3> QED
      BY <2>5, <3>2
  <2>7. Stands(y, longer)
    BY <1>1, <1>4, <1>5, <1>6, <2>1, <2>2, <2>5, <2>6, SendKeeps, Zenon
  <2> QED
    BY <1>7, <2>3, <2>4, <2>7, OneMoves, Zenon DEF Stands
<1> QED
  BY <1>8, <1>9, Zenon

(* Lag and Disconnect.                                                     *)
LEMMA EndStep ==
  ASSUME SubInv, NEW c \in Clients, Lag(c) \/ Disconnect(c)
  PROVE  SubInv'
<1>1. TypeOK
  BY Zenon DEF SubInv
<1>2. PICK x \in SubscriptionState : x = sub[c]
  BY <1>1, Zenon DEF TypeOK
<1>3. PICK seq \in Seq(Nat) : seq = taken[c]
  BY <1>1, Zenon DEF TypeOK
<1>4. /\ StreamInv(x, seq) /\ x.phase \in Active /\ Ended(c)
      /\ UNCHANGED <<events, streams, tail, taken, subscribes, restarts>>
  BY <1>2, <1>3, Zenon DEF SubInv, Lag, Disconnect, Active
<1>5. PICK y : y = [x EXCEPT !.phase = "ended", !.batch = <<>>]
  BY Zenon
<1>6. y \in SubscriptionState /\ StreamInv(y, seq)
  BY <1>4, <1>5, EndKeeps, Zenon
<1>7. sub' = [sub EXCEPT ![c] = y]
  BY <1>1, <1>2, <1>4, <1>5, Zenon DEF Ended, TypeOK
<1> QED
  BY <1>3, <1>4, <1>6, <1>7, QuietStep, Zenon

(* The steps of the writer, of its channel and of the process: what a      *)
(* stream knows of index and channel stays true.                           *)
LEMMA AllStay ==
  ASSUME SubInv, TypeOK', IndexInv', IndexGrows, tail <= tail', taken' = taken,
         \A c \in Clients : StreamInv(sub'[c], taken[c])
  PROVE  SubInv'
<1>1. TypeOK /\ IndexInv
  BY Zenon DEF SubInv
<1>2. ASSUME NEW c \in Clients
      PROVE  StreamInv(sub[c], taken[c])' /\ NoGap(taken'[c])
  <2>1. PICK x \in SubscriptionState, l \in Seq(Nat) :
             x = sub'[c] /\ l = taken'[c]
    BY Zenon DEF TypeOK
  <2>2. StreamInv(x, l) /\ NoGap(l)
    BY <2>1, Zenon DEF SubInv
  <2>3. StreamInv(x, l)'
    BY <1>1, <2>2, StreamStays, Zenon
  <2> QED
    BY <2>1, <2>2, <2>3, Zenon
<1> QED
  BY <1>2, Zenon DEF SubInv

LEMMA AppendStep ==
  ASSUME SubInv, NEW s \in StreamIds, NEW n \in 1..MaxBatch, AppendBatch(s, n)
  PROVE  SubInv'
<1>1. TypeOK' /\ IndexInv' /\ IndexGrows
  BY AppendKeepsIndex, Zenon DEF SubInv
<1>2. tail <= tail' /\ taken' = taken /\ sub' = sub
  BY DEF SubInv, TypeOK, AppendBatch
<1>3. \A c \in Clients : StreamInv(sub'[c], taken[c])
  BY <1>2, Zenon DEF SubInv
<1> QED
  BY <1>1, <1>2, <1>3, AllStay, Zenon

LEMMA PublishStep ==
  ASSUME SubInv, Publish
  PROVE  SubInv'
<1>1. TypeOK /\ IndexInv
  BY Zenon DEF SubInv
<1>2. /\ tail' = tail + 1 /\ tail < Len(events)
      /\ UNCHANGED <<events, streams, sub, taken, subscribes, restarts>>
  BY Zenon DEF Publish
<1>3. TypeOK' /\ tail <= tail'
  BY <1>1, <1>2 DEF TypeOK
<1>4. IndexInv'
  BY <1>1, <1>2, SameIndexInv, Zenon
<1>5. IndexGrows
  BY <1>1, <1>2, SameIndex, Zenon
<1>6. \A c \in Clients : StreamInv(sub'[c], taken[c])
  BY <1>2, Zenon DEF SubInv
<1> QED
  BY <1>2, <1>3, <1>4, <1>5, <1>6, AllStay, Zenon

LEMMA RestartStep ==
  ASSUME SubInv, Restart
  PROVE  SubInv'
<1>1. TypeOK /\ IndexInv
  BY DEF SubInv
<1>2. /\ tail' = Len(events) /\ restarts' = restarts + 1
      /\ UNCHANGED <<events, streams, taken, subscribes>>
  BY Zenon DEF Restart
<1>3. ASSUME NEW c \in Clients
      PROVE  sub'[c] \in SubscriptionState /\ StreamInv(sub'[c], taken[c])
  <2>1. PICK x \in SubscriptionState, l \in Seq(Nat) : x = sub[c] /\ l = taken[c]
    BY <1>1, Zenon DEF TypeOK
  <2>2. StreamInv(x, l)
    BY <2>1, Zenon DEF SubInv
  <2>3. CASE x.phase \in Active
    <3>1. PICK y : y = [x EXCEPT !.phase = "ended", !.batch = <<>>]
      BY Zenon
    <3>2. sub'[c] = y
      BY <2>1, <2>3, <3>1, Zenon DEF Restart
    <3>3. y \in SubscriptionState /\ StreamInv(y, l)
      BY <2>2, <2>3, <3>1, EndKeeps, Zenon
    <3> QED
      BY <2>1, <3>2, <3>3, Zenon
  <2>4. CASE x.phase \notin Active
    <3>1. sub'[c] = x
      BY <2>1, <2>4, Zenon DEF Restart
    <3> QED
      BY <2>1, <2>2, <3>1, Zenon
  <2> QED
    BY <2>3, <2>4, Zenon
<1>4. sub' = [c \in Clients |-> sub'[c]]
  BY Zenon DEF Restart
<1>5. sub' \in [Clients -> SubscriptionState]
  BY <1>3, <1>4, Zenon
<1>6. TypeOK' /\ tail <= tail'
  BY <1>1, <1>2, <1>5 DEF TypeOK
<1>7. IndexInv'
  BY <1>1, <1>2, SameIndexInv, Zenon
<1>8. IndexGrows
  BY <1>1, <1>2, SameIndex, Zenon
<1> QED
  BY <1>2, <1>3, <1>6, <1>7, <1>8, AllStay, Zenon

LEMMA InitOK == Init => SubInv
<1> SUFFICES ASSUME Init
             PROVE  SubInv
  BY Zenon
<1>1. /\ events = <<>> /\ streams = [s \in StreamIds |-> <<>>] /\ tail = 0
      /\ sub = [c \in Clients |-> Idle] /\ taken = [c \in Clients |-> <<>>]
      /\ subscribes = [c \in Clients |-> 0] /\ restarts = 0
  BY Zenon DEF Init
<1>2. /\ Idle.phase = "idle" /\ Idle.rx = 0 /\ Idle.sent = <<>>
      /\ Idle.indexed = 0 /\ Idle.filter = AllStreams
  BY Zenon DEF Idle
<1>3. Idle \in SubscriptionState
  BY DEF Idle, SubscriptionState, Active, Filters
<1>4. TypeOK
  BY <1>1, <1>3 DEF TypeOK
<1>5. ASSUME NEW f \in Filters
      PROVE  Positions(f) = <<>>
  BY <1>1 DEF Positions, Filters
<1>6. IndexInv
  BY <1>1, <1>5 DEF IndexInv, Indexes
<1>7. StreamInv(Idle, <<>>)
  <2>1. Idle.rx <= tail /\ Idle.indexed <= Len(Positions(Idle.filter))
    BY <1>1, <1>2, <1>5 DEF Filters
  <2>2. SentInv(Idle) /\ HeardInv(Idle) /\ ReplayInv(Idle)
    BY <1>2, Zenon DEF SentInv, HeardInv, ReplayInv, Active
  <2>3. BatchInv(Idle) /\ LiveInv(Idle)
    BY <1>2, Zenon DEF BatchInv, LiveInv
  <2>4. CheckpointInv(Idle, <<>>)
    BY <1>2, Zenon DEF CheckpointInv, Active
  <2> QED
    BY <2>1, <2>2, <2>3, <2>4, Zenon DEF StreamInv
<1>8. NoGap(<<>>)
  BY DEF NoGap
<1> QED
  BY <1>1, <1>4, <1>6, <1>7, <1>8, Zenon DEF SubInv

LEMMA SubscribeStep ==
  ASSUME SubInv, NEW c \in Clients, NEW f \in Filters, NEW from \in 0..MaxFrom,
         Subscribe(c, f, from)
  PROVE  SubInv'
<1>1. from \in Nat /\ Register(c, f, from) /\ sub[c].phase = "idle"
  BY BoundsAssumption DEF Subscribe
<1>2. CheckpointInv(sub[c], taken[c])
  BY Zenon DEF SubInv, StreamInv
<1>3. taken[c] = <<>>
  BY <1>1, <1>2, Zenon DEF CheckpointInv
<1> QED
  BY <1>1, <1>3, RegisterStep, Zenon

LEMMA ResumeStep ==
  ASSUME SubInv, NEW c \in Clients, Resume(c)
  PROVE  SubInv'
<1>1. sub[c] \in SubscriptionState /\ taken[c] \in Seq(Nat)
  BY Zenon DEF SubInv, TypeOK
<1>2. PICK from : from = IF taken[c] = <<>> THEN sub[c].from
                                           ELSE taken[c][Len(taken[c])] + 1
  BY Zenon
<1>3. Register(c, sub[c].filter, from)
  BY <1>2, Zenon DEF Resume
<1>4. from \in Nat /\ sub[c].filter \in Filters
  <2>1. taken[c] # <<>> => taken[c][Len(taken[c])] \in Nat
    BY <1>1
  <2> QED
    BY <1>1, <1>2, <2>1, Fields
<1> QED
  BY <1>2, <1>3, <1>4, RegisterStep, Zenon

LEMMA NextKeeps == SubInv /\ [Next]_vars => SubInv'
<1> SUFFICES ASSUME SubInv, [Next]_vars
             PROVE  SubInv'
  BY Zenon
<1>1. ASSUME NEW s \in StreamIds, NEW n \in 1..MaxBatch, AppendBatch(s, n)
      PROVE  SubInv'
  BY <1>1, AppendStep, Zenon
<1>2. CASE Publish
  BY <1>2, PublishStep, Zenon
<1>3. ASSUME NEW c \in Clients, NEW f \in Filters, NEW from \in 0..MaxFrom,
             Subscribe(c, f, from)
      PROVE  SubInv'
  BY <1>3, SubscribeStep, Zenon
<1>4. ASSUME NEW c \in Clients, Resume(c)
      PROVE  SubInv'
  BY <1>4, ResumeStep, Zenon
<1>5. ASSUME NEW c \in Clients, Stream(c)
      PROVE  SubInv'
  BY <1>5, FetchStep, YieldStep, EndBatchStep, ReceiveStep, EndStep, Zenon
     DEF Stream
<1>6. ASSUME NEW c \in Clients, Disconnect(c)
      PROVE  SubInv'
  BY <1>6, EndStep, Zenon
<1>7. CASE Restart
  BY <1>7, RestartStep
<1>8. CASE UNCHANGED vars
  <2>1. /\ UNCHANGED <<events, streams, tail, sub, taken, subscribes, restarts>>
        /\ TypeOK /\ IndexInv
    BY <1>8, Zenon DEF vars, SubInv
  <2>2. TypeOK' /\ tail <= tail'
    BY <2>1 DEF TypeOK
  <2>3. IndexInv'
    BY <2>1, SameIndexInv, Zenon
  <2>4. IndexGrows
    BY <2>1, SameIndex, Zenon
  <2>5. \A c \in Clients : StreamInv(sub'[c], taken[c])
    BY <2>1, Zenon DEF SubInv
  <2> QED
    BY <2>1, <2>2, <2>3, <2>4, <2>5, AllStay, Zenon
<1> QED
  BY <1>1, <1>2, <1>3, <1>4, <1>5, <1>6, <1>7, <1>8, Zenon DEF Next

(* The invariant holds for every number of clients, streams and events,    *)
(* any batch size and any channel capacity.                                *)
THEOREM SubscriptionsStand == Spec => []SubInv
<1>1. Init => SubInv
  BY InitOK, Zenon
<1>2. SubInv /\ [Next]_vars => SubInv'
  BY NextKeeps, Zenon
<1> QED
  BY <1>1, <1>2, PTL DEF Spec

(* No event is missed and none is sent twice in the change from replay to  *)
(* live: subscribe_all and subscribe_stream send a run of the events that  *)
(* their filter lets through.                                              *)
THEOREM SentWithoutGap == Spec => []Gapless
<1>1. SubInv => Gapless
  <2> SUFFICES ASSUME SubInv, NEW c \in Clients, sub[c].sent # <<>>,
                      NEW i \in 1..Len(sub[c].sent)
               PROVE  LET first == Key(sub[c].filter, sub[c].sent[1])
                          log == History(sub[c].filter)
                      IN first + i <= Len(log) /\ sub[c].sent[i] = log[first + i]
    BY Zenon DEF Gapless
  <2>1. PICK x \in SubscriptionState : x = sub[c]
    BY Zenon DEF SubInv, TypeOK
  <2>2. PICK first \in Nat : first = First(x) /\ first = Key(x.filter, x.sent[1])
    BY <2>1, SentType, ZenonT(30) DEF First
  <2>3. Follows(x.sent, x.filter, first)
    BY <2>1, <2>2, Zenon DEF SubInv, StreamInv, SentInv
  <2>4. PICK len \in Nat : len = Len(Positions(x.filter))
    BY PositionsType, Fields, Zenon DEF SubInv
  <2>5. PICK k \in Nat \ {0} : k = i
    BY <2>1, Fields
  <2>6. first + k <= len /\ x.sent[k] = events[Positions(x.filter)[first + k] + 1]
    BY <2>1, <2>3, <2>4, <2>5, Zenon DEF Follows
  <2>7. /\ History(x.filter) = [j \in 1..len |-> events[Positions(x.filter)[j] + 1]]
        /\ Len(History(x.filter)) = len
    BY <2>4 DEF History
  <2>8. first + k \in 1..len
    BY <2>6
  <2>9. History(x.filter)[first + k] = x.sent[k]
    BY <2>6, <2>7, <2>8, ZenonT(30)
  <2> QED
    BY <2>1, <2>2, <2>5, <2>6, <2>7, <2>9, Zenon
<1> QED
  BY <1>1, SubscriptionsStand, PTL

(* The run begins where the client asked for if the event before that had  *)
(* gone through the channel.                                               *)
THEOREM SentFromThere == Spec => []BeginsAtFrom
<1>1. SubInv => BeginsAtFrom
  BY Zenon DEF SubInv, StreamInv, SentInv, First, BeginsAtFrom
<1> QED
  BY <1>1, SubscriptionsStand, PTL

(* CaughtUp is sent when everything that was in the index has been.        *)
THEOREM CaughtUpHolds == Spec => []CaughtUpIsTrue
<1>1. SubInv => CaughtUpIsTrue
  <2> SUFFICES ASSUME SubInv, NEW c \in Clients, sub[c].phase = "live",
                      NEW p \in sub[c].from..(sub[c].indexed - 1)
               PROVE  \E i \in 1..Len(sub[c].sent) :
                         Key(sub[c].filter, sub[c].sent[i]) = p
    BY Zenon DEF CaughtUpIsTrue
  <2>1. PICK x \in SubscriptionState : x = sub[c]
    BY Zenon DEF SubInv, TypeOK
  <2>2. TypeOK /\ IndexInv /\ SentInv(x) /\ LiveInv(x) /\ x.phase = "live"
    BY <2>1, Zenon DEF SubInv, StreamInv
  <2>3. PICK from \in Nat, indexed \in Nat : from = x.from /\ indexed = x.indexed
    BY Fields, Zenon
  <2>4. PICK n \in Nat : n = p /\ from <= n /\ n < indexed
    BY <2>1, <2>3
  <2>5. x.sent # <<>>
    BY <2>2, <2>3, <2>4 DEF LiveInv
  <2>6. First(x) = from /\ indexed <= NextKey(x)
    BY <2>2, <2>3, <2>4, <2>5 DEF LiveInv
  <2>7. PICK len \in Nat : len = Len(x.sent) /\ NextKey(x) = from + len
    BY <2>5, <2>6, SentType, Zenon
  <2>8. PICK i \in 1..len : i = n - from + 1
    BY <2>4, <2>6, <2>7
  <2>9. Follows(x.sent, x.filter, from)
    BY <2>2, <2>5, <2>6, Zenon DEF SentInv
  <2>10. /\ from + i <= Len(Positions(x.filter))
         /\ x.sent[i] = events[Positions(x.filter)[from + i] + 1]
    BY <2>7, <2>8, <2>9, Zenon DEF Follows
  <2>11. from + i = n + 1
    BY <2>8
  <2>12. Key(x.filter, x.sent[i]) = n
    BY <2>2, <2>10, <2>11, PlaceIsKey, Fields
  <2> QED
    BY <2>1, <2>4, <2>7, <2>8, <2>12, Zenon
<1> QED
  BY <1>1, SubscriptionsStand, PTL

(* A client that goes on from its checkpoint after each lag, disconnect    *)
(* and restart of the server has been sent every event.                    *)
THEOREM NothingIsLost == Spec => []NothingLost
<1>1. SubInv => NothingLost
  BY Zenon DEF SubInv, NoGap, NothingLost
<1> QED
  BY <1>1, SubscriptionsStand, PTL
====
