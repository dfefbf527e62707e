---------------------------- MODULE WriterProofs ----------------------------
(***************************************************************************)
(* Theorems about module Writer, for every set of requests, every capacity *)
(* and every number of calls and starts: the steps of the callers, of the  *)
(* writer task and of the process keep WriterInv, and what it says of      *)
(* retries, rivals, errors and the broker.                                 *)
(***************************************************************************)
EXTENDS WriterInvariant, TLAPS

(* What counting events and IDs needs of Cardinality (CountingHolds).      *)
Counting ==
  /\ Cardinality({}) = 0
  /\ \A S : IsFiniteSet(S) => Cardinality(S) \in Nat
  /\ \A S : IsFiniteSet(S) =>
        \A T \in SUBSET S : /\ IsFiniteSet(T) /\ Cardinality(T) <= Cardinality(S)
                            /\ Cardinality(S) = Cardinality(T) => S = T
  /\ \A S, T : IsFiniteSet(S) /\ IsFiniteSet(T) =>
        Cardinality(S \cup T) =
          Cardinality(S) + Cardinality(T) - Cardinality(S \cap T)
  /\ \A a, b \in Int :
        /\ IsFiniteSet(a..b)
        /\ Cardinality(a..b) = IF a > b THEN 0 ELSE b - a + 1

(* A function on an initial segment of the naturals is a sequence.         *)
LEMMA SeqOf ==
  ASSUME NEW S, NEW n \in Nat, NEW f \in [1..n -> S]
  PROVE  f \in Seq(S) /\ Len(f) = n
OBVIOUS

(* The elements of a sequence with one more.                               *)
LEMMA AppendElements ==
  ASSUME NEW S, NEW a \in Seq(S), NEW x \in S
  PROVE  /\ Append(a, x) \in Seq(S) /\ Append(a, x) # <<>>
         /\ Len(Append(a, x)) = Len(a) + 1
         /\ \A j \in 1..Len(a) : Append(a, x)[j] = a[j]
         /\ Append(a, x)[Len(a) + 1] = x
OBVIOUS

(* The fields of a request.                                                *)
LEMMA RequestFields ==
  ASSUME NEW r \in Requests
  PROVE  /\ r.stream_id \in StreamIds
         /\ r.expected_version \in {Any, NoStream} \cup Nat
         /\ r.events \in Seq(EventIds) /\ Len(r.events) \in Nat \ {0}
         /\ r.events[1] \in EventIds
         /\ r.validity \in Validity
<1>1. r \in Request /\ r.events # <<>>
  BY RequestsAssumption, Zenon
<1>2. QED
  BY <1>1 DEF Request

(* The fields of a call.                                                   *)
LEMMA CallFields ==
  ASSUME TypeOK, NEW i \in DOMAIN call
  PROVE  /\ call[i] \in Call
         /\ i \in 1..Len(call) /\ i \in Nat
         /\ call[i].req \in Requests
         /\ call[i].status \in Statuses /\ call[i].result \in Results
         /\ call[i].answer \in Seq(RecordedEvent) /\ call[i].during \in Nat
<1>1. call \in Seq(Call)
  BY Zenon DEF TypeOK
<1>2. call[i] \in Call /\ i \in 1..Len(call)
  BY <1>1
<1>3. QED
  BY <1>1, <1>2 DEF Call

(* The fields of an event of a sequence of recorded events.                *)
LEMMA EventFields ==
  ASSUME NEW s \in Seq(RecordedEvent), NEW i \in 1..Len(s)
  PROVE  /\ s[i] \in RecordedEvent
         /\ s[i].event_id \in EventIds /\ s[i].stream_id \in StreamIds
         /\ s[i].stream_version \in Nat /\ s[i].global_position \in Nat
         /\ s[i].by \in Nat
<1>1. s[i] \in RecordedEvent
  OBVIOUS
<1>2. QED
  BY <1>1, Zenon DEF RecordedEvent

(* The request whose turn it is.                                           *)
LEMMA CurrentFields ==
  ASSUME TypeOK, ShapeInv, pc \in {"drain", "serve"} \cup Logged
  PROVE  /\ batch # <<>> /\ Head(batch) \in DOMAIN call
         /\ Head(batch) \in Nat
         /\ current \in Requests
         /\ current.stream_id \in StreamIds
         /\ current.expected_version \in {Any, NoStream} \cup Nat
         /\ current.events \in Seq(EventIds) /\ Len(current.events) \in Nat \ {0}
         /\ current.events[1] \in EventIds
         /\ current.validity \in Validity
<1>1. batch # <<>> /\ batch \in Seq(Nat)
  BY Zenon DEF ShapeInv, TypeOK
<1>2. Head(batch) = batch[1] /\ 1 \in 1..Len(batch)
  BY <1>1
<1>3. Head(batch) \in DOMAIN call
  BY <1>2, Zenon DEF ShapeInv
<1>4. current \in Requests /\ Head(batch) \in Nat
  BY <1>3, CallFields, Zenon DEF current
<1>5. QED
  BY <1>1, <1>3, <1>4, RequestFields, Zenon

(* The call whose turn it is has no answer yet.                            *)
LEMMA HeadUnanswered ==
  ASSUME TypeOK, ShapeInv, QueueInv, pc \in {"drain", "serve"} \cup Logged
  PROVE  call[Head(batch)].result = "none"
<1>1. batch # <<>> /\ batch \in Seq(Nat)
  BY Zenon DEF ShapeInv, TypeOK
<1>2. Head(batch) = batch[1] /\ 1 \in 1..Len(batch)
  BY <1>1
<1>3. batch[1] \in DOMAIN call /\ call[batch[1]].status # "answered"
  BY <1>2, Zenon DEF ShapeInv, QueueInv
<1>4. QED
  BY <1>2, <1>3, Zenon DEF QueueInv

(* A stream has a natural number of events.                                *)
LEMMA StreamLenType ==
  ASSUME Counting, TypeOK, NEW s
  PROVE  StreamLen(s) \in Nat
<1>1. Len(events) \in Nat
  BY DEF TypeOK
<1>2. IsFiniteSet(1..Len(events))
  BY <1>1 DEF Counting
<1>3. IsFiniteSet({i \in 1..Len(events) : events[i].stream_id = s})
  BY <1>2, Zenon DEF Counting
<1>4. QED
  BY <1>3, Zenon DEF StreamLen, Counting

(* What append records of the request whose turn it is.                    *)
LEMMA RecordFields ==
  ASSUME Counting, TypeOK, ShapeInv, pc \in {"serve"}
  PROVE  /\ Record \in Seq(RecordedEvent)
         /\ Len(Record) = Len(current.events)
         /\ \A j \in 1..Len(current.events) :
              /\ Record[j].event_id = current.events[j]
              /\ Record[j].stream_id = current.stream_id
              /\ Record[j].stream_version = StreamLen(current.stream_id) + j - 1
              /\ Record[j].global_position = Len(events) + j - 1
              /\ Record[j].by = Head(batch)
<1>1. /\ current.events \in Seq(EventIds) /\ Len(current.events) \in Nat \ {0}
      /\ current.stream_id \in StreamIds /\ Head(batch) \in Nat
  BY CurrentFields, Zenon
<1>2. StreamLen(current.stream_id) \in Nat /\ Len(events) \in Nat
  BY StreamLenType DEF TypeOK
<1>3. PICK n \in Nat \ {0} : n = Len(current.events)
  BY <1>1, Zenon
<1>4. PICK v \in Nat : v = StreamLen(current.stream_id)
  BY <1>2, Zenon
<1>5. PICK m \in Nat : m = Len(events)
  BY <1>2, Zenon
<1>6. Record = [j \in 1..n |->
         [event_id |-> current.events[j], stream_id |-> current.stream_id,
          stream_version |-> v + j - 1,
          global_position |-> m + j - 1, by |-> Head(batch)]]
  BY <1>3, <1>4, <1>5, Zenon DEF Record
<1>7. ASSUME NEW j \in 1..n
      PROVE  /\ current.events[j] \in EventIds
             /\ v + j - 1 \in Nat /\ m + j - 1 \in Nat
  BY <1>1, <1>3
<1>8. Record \in [1..n -> RecordedEvent]
  BY <1>1, <1>6, <1>7, Zenon DEF RecordedEvent
<1>9. Record \in Seq(RecordedEvent) /\ Len(Record) = n
  BY <1>8, SeqOf, Zenon
<1>10. QED
  BY <1>3, <1>4, <1>5, <1>6, <1>9, Zenon

-----------------------------------------------------------------------------
(* The log and pieces of it.                                               *)

(* The log only grows at its end.                                          *)
Grows(old, new) ==
  Len(old) <= Len(new) /\ \A i \in 1..Len(old) : new[i] = old[i]

(* Adding a batch is growing, and what is new is the batch.                *)
LEMMA ConcatGrows ==
  ASSUME NEW s \in Seq(RecordedEvent), NEW t \in Seq(RecordedEvent)
  PROVE  /\ s \o t \in Seq(RecordedEvent)
         /\ Grows(s, s \o t)
         /\ Len(s \o t) = Len(s) + Len(t)
         /\ \A j \in 1..Len(t) :
              /\ Len(s) + j \in 1..Len(s \o t)
              /\ (s \o t)[Len(s) + j] = t[j]
         /\ \A i \in 1..Len(s \o t) :
              i \in 1..Len(s) \/ \E j \in 1..Len(t) : i = Len(s) + j
<1>1. Len(s \o t) = Len(s) + Len(t) /\ s \o t \in Seq(RecordedEvent)
  OBVIOUS
<1>2. PICK m \in Nat : m = Len(s)
  OBVIOUS
<1>3. PICK n \in Nat : n = Len(t)
  OBVIOUS
<1>4. Grows(s, s \o t)
  BY <1>1, <1>2, <1>3 DEF Grows
<1>5. ASSUME NEW j \in 1..Len(t)
      PROVE  /\ Len(s) + j \in 1..Len(s \o t)
             /\ (s \o t)[Len(s) + j] = t[j]
  BY <1>1, <1>2, <1>3
<1>6. ASSUME NEW i \in 1..Len(s \o t), i \notin 1..Len(s)
      PROVE  \E j \in 1..Len(t) : i = Len(s) + j
  <2>1. i - m \in 1..n /\ i = m + (i - m)
    BY <1>1, <1>2, <1>3, <1>6
  <2>2. QED
    BY <2>1, <1>2, <1>3, Zenon
<1>7. QED
  BY <1>1, <1>4, <1>5, <1>6, Zenon

(* A piece of the log stays one when the log grows.                        *)
LEMMA PieceGrows ==
  ASSUME NEW old \in Seq(RecordedEvent), NEW new \in Seq(RecordedEvent),
         Grows(old, new), NEW evs \in Seq(RecordedEvent), Piece(evs, old)
  PROVE  Piece(evs, new)
<1>1. evs # <<>> /\ 1 \in 1..Len(evs)
  BY DEF Piece
<1>2. PICK p \in Nat : p = evs[1].global_position
  BY <1>1, EventFields, Zenon
<1>3. PICK m \in Nat : m = Len(old)
  OBVIOUS
<1>4. PICK n \in Nat : n = Len(new)
  OBVIOUS
<1>5. ASSUME NEW j \in 1..Len(evs)
      PROVE  p + j <= n /\ new[p + j] = evs[j]
  <2>1. p + j <= m /\ old[p + j] = evs[j]
    BY <1>2, <1>3, Zenon DEF Piece
  <2>2. p + j \in 1..m
    BY <2>1, <1>2, <1>3
  <2>3. m <= n /\ new[p + j] = old[p + j]
    BY <2>2, <1>3, <1>4, Zenon DEF Grows
  <2>4. QED
    BY <2>1, <2>2, <2>3
<1>6. QED
  BY <1>1, <1>2, <1>4, <1>5, Zenon DEF Piece

(* Every ID an event of a piece has is in the log.                         *)
LEMMA PieceIds ==
  ASSUME NEW log \in Seq(RecordedEvent), NEW evs \in Seq(RecordedEvent),
         Piece(evs, log), NEW id, Has(evs, id)
  PROVE  \E i \in 1..Len(log) : log[i].event_id = id
<1>1. PICK j \in 1..Len(evs) : evs[j].event_id = id
  BY Zenon DEF Has
<1>2. evs # <<>> /\ 1 \in 1..Len(evs)
  BY DEF Piece
<1>3. PICK p \in Nat : p = evs[1].global_position
  BY <1>2, EventFields, Zenon
<1>4. p + j <= Len(log) /\ log[p + j] = evs[j]
  BY <1>3, Zenon DEF Piece
<1>5. p + j \in 1..Len(log)
  BY <1>3, <1>4, SMTT(30)
<1>6. QED
  BY <1>1, <1>4, <1>5, Zenon

(* One event of the log is a piece of it.                                  *)
LEMMA SinglePiece ==
  ASSUME NEW log \in Seq(RecordedEvent), NEW i \in 1..Len(log),
         log[i].global_position = i - 1
  PROVE  /\ <<log[i]>> \in Seq(RecordedEvent)
         /\ Piece(<<log[i]>>, log) /\ Has(<<log[i]>>, log[i].event_id)
<1>1. PICK e \in RecordedEvent : e = log[i]
  BY EventFields, Zenon
<1>2. <<e>> \in Seq(RecordedEvent) /\ Len(<<e>>) = 1 /\ <<e>>[1] = e
  BY <1>1
<1>3. PICK s \in Seq(RecordedEvent) : s = <<e>>
  BY <1>2, Zenon
<1>4. Len(s) = 1 /\ s[1] = e /\ s # <<>>
  BY <1>2, <1>3, Zenon
<1>5. s[1].global_position + 1 = i /\ i <= Len(log)
  BY <1>1, <1>4
<1>6. Piece(s, log)
  BY <1>1, <1>4, <1>5 DEF Piece
<1>7. Has(s, e.event_id)
  BY <1>4 DEF Has
<1>8. QED
  BY <1>1, <1>3, <1>6, <1>7, Zenon

-----------------------------------------------------------------------------
(* IDs and streams, counted.                                               *)

Ids(log) == {log[i].event_id : i \in 1..Len(log)}

(* A log has finitely many IDs, fewer when it was shorter.                 *)
LEMMA IdsGrow ==
  ASSUME Counting,
         NEW old \in Seq(RecordedEvent), NEW new \in Seq(RecordedEvent),
         Grows(old, new)
  PROVE  /\ IsFiniteSet(Ids(new)) /\ IsFiniteSet(Ids(old))
         /\ Ids(old) \subseteq Ids(new)
         /\ Cardinality(Ids(old)) <= Cardinality(Ids(new))
<1>1. Ids(new) \subseteq EventIds
  BY EventFields, Zenon DEF Ids
<1>2. IsFiniteSet(Ids(new))
  BY <1>1, IdsAssumption, Zenon DEF Counting
<1>3. PICK m \in Nat : m = Len(old)
  OBVIOUS
<1>4. PICK n \in Nat : n = Len(new)
  OBVIOUS
<1>5. ASSUME NEW i \in 1..m
      PROVE  old[i].event_id \in Ids(new)
  <2>1. i \in 1..n /\ new[i] = old[i]
    BY <1>3, <1>4 DEF Grows
  <2>2. QED
    BY <2>1, <1>4, Zenon DEF Ids
<1>6. Ids(old) \subseteq Ids(new)
  BY <1>3, <1>5, Zenon DEF Ids
<1>7. QED
  BY <1>2, <1>6, Zenon DEF Counting

(* What the cache has room for now, it had room for before.                *)
LEMMA ForgottenGrows ==
  ASSUME Counting, TypeOK, TypeOK', Grows(events, events'), mishap => mishap',
         NothingForgotten'
  PROVE  NothingForgotten
<1>1. events \in Seq(RecordedEvent) /\ events' \in Seq(RecordedEvent)
  BY Zenon DEF TypeOK
<1>2. Cardinality(Ids(events')) <= DedupCapacity
  BY Zenon DEF NothingForgotten, Ids
<1>3. /\ Cardinality(Ids(events)) <= Cardinality(Ids(events'))
      /\ IsFiniteSet(Ids(events)) /\ IsFiniteSet(Ids(events'))
  BY <1>1, IdsGrow, Zenon
<1>4. Cardinality(Ids(events)) \in Nat /\ Cardinality(Ids(events')) \in Nat
  BY <1>3, Zenon DEF Counting
<1>5. Cardinality(Ids(events)) <= DedupCapacity
  BY <1>2, <1>3, <1>4, CapacityAssumption
<1>6. QED
  BY <1>5, Zenon DEF NothingForgotten, Ids

(* A batch adds its length to its stream and nothing to the others.        *)
LEMMA StreamGrows ==
  ASSUME Counting, TypeOK, NEW t \in Seq(RecordedEvent), NEW s,
         \A j \in 1..Len(t) : t[j].stream_id = s,
         events' = events \o t, NEW q
  PROVE  StreamLen(q)' = IF q = s THEN StreamLen(q) + Len(t) ELSE StreamLen(q)
<1>1. events \in Seq(RecordedEvent) /\ Len(events) \in Nat /\ Len(t) \in Nat
  BY DEF TypeOK
<1>2. PICK m \in Nat : m = Len(events)
  BY <1>1, Zenon
<1>3. PICK n \in Nat : n = Len(t)
  BY <1>1, Zenon
<1>4. PICK A : A = {i \in 1..m : events[i].stream_id = q}
  BY Zenon
<1>5. PICK B : B = {i \in 1..(m + n) : events'[i].stream_id = q}
  BY Zenon
<1>6. StreamLen(q) = Cardinality(A) /\ StreamLen(q)' = Cardinality(B)
  <2>1. Len(events') = m + n
    BY <1>1, <1>2, <1>3, ConcatGrows, Zenon
  <2>2. QED
    BY <2>1, <1>2, <1>4, <1>5, Zenon DEF StreamLen
<1>7. /\ \A i \in 1..m : events'[i] = events[i]
      /\ \A i \in (m + 1)..(m + n) : events'[i].stream_id = s
  <2>1. \A i \in 1..m : events'[i] = events[i]
    BY <1>1, <1>2, ConcatGrows, Zenon DEF Grows
  <2>2. ASSUME NEW i \in (m + 1)..(m + n)
        PROVE  events'[i].stream_id = s
    <3>1. i - m \in 1..n /\ i = m + (i - m)
      OBVIOUS
    <3>2. events'[m + (i - m)] = t[i - m]
      BY <3>1, <1>1, <1>2, <1>3, ConcatGrows, Zenon
    <3>3. QED
      BY <3>1, <3>2, <1>3, Zenon
  <2>3. QED
    BY <2>1, <2>2, Zenon
<1>8. IsFiniteSet((m + 1)..(m + n)) /\ IsFiniteSet(A)
  <2>1. IsFiniteSet(1..m)
    BY DEF Counting
  <2>2. A \in SUBSET (1..m)
    BY <1>4, Zenon
  <2>3. IsFiniteSet(A)
    BY <2>1, <2>2, Zenon DEF Counting
  <2>4. m + 1 \in Int /\ m + n \in Int
    OBVIOUS
  <2>5. QED
    BY <2>3, <2>4, Zenon DEF Counting
<1>9. Cardinality((m + 1)..(m + n)) = n
  <2>1. m + 1 \in Int /\ m + n \in Int
    OBVIOUS
  <2>2. Cardinality((m + 1)..(m + n)) =
           IF m + 1 > m + n THEN 0 ELSE (m + n) - (m + 1) + 1
    BY <2>1, Zenon DEF Counting
  <2>3. QED
    BY <2>2
<1>10. CASE q = s
  <2>1. B = A \cup ((m + 1)..(m + n)) /\ A \cap ((m + 1)..(m + n)) = {}
    <3>1. \A i : i \in A <=> i \in 1..m /\ events[i].stream_id = q
      BY <1>4, Zenon
    <3>2. \A i : i \in B <=> i \in 1..(m + n) /\ events'[i].stream_id = q
      BY <1>5, Zenon
    <3>3. \A i : i \in 1..(m + n) <=> i \in 1..m \/ i \in (m + 1)..(m + n)
      OBVIOUS
    <3>4. \A i : ~(i \in 1..m /\ i \in (m + 1)..(m + n))
      OBVIOUS
    <3>5. QED
      BY <3>1, <3>2, <3>3, <3>4, <1>7, <1>10, ZenonT(30)
  <2>2. Cardinality(B) = Cardinality(A) + n
    <3>1. PICK D : D = (m + 1)..(m + n)
      BY Zenon
    <3>2. IsFiniteSet(A) /\ IsFiniteSet(D) /\ A \cap D = {} /\ B = A \cup D
      BY <2>1, <1>8, <3>1, Zenon
    <3>3. Cardinality(A \cup D) =
            Cardinality(A) + Cardinality(D) - Cardinality(A \cap D)
      BY <3>2, Zenon DEF Counting
    <3>4. Cardinality({}) = 0 /\ Cardinality(A) \in Nat
      BY <3>2, Zenon DEF Counting
    <3>5. Cardinality(B) = Cardinality(A) + n - 0
      BY <1>9, <3>1, <3>2, <3>3, <3>4, Zenon
    <3>6. QED
      BY <3>4, <3>5
  <2>3. QED
    BY <2>2, <1>3, <1>6, <1>10, Zenon
<1>11. CASE q # s
  <2>1. B = A
    <3>1. \A i : i \in A <=> i \in 1..m /\ events[i].stream_id = q
      BY <1>4
    <3>2. \A i : i \in B <=> i \in 1..(m + n) /\ events'[i].stream_id = q
      BY <1>5
    <3>3. \A i : i \in 1..(m + n) <=> i \in 1..m \/ i \in (m + 1)..(m + n)
      OBVIOUS
    <3>4. QED
      BY <3>1, <3>2, <3>3, <1>7, <1>11, ZenonT(30)
  <2>2. QED
    BY <2>1, <1>6, <1>11, Zenon
<1>12. QED
  BY <1>10, <1>11, Zenon

-----------------------------------------------------------------------------
(* The calls.                                                              *)

(* A call is changed in place.                                             *)
LEMMA CallChanged ==
  ASSUME TypeOK, NEW i \in DOMAIN call, NEW x \in Call, x.req = call[i].req,
         NEW c, c = [call EXCEPT ![i] = x]
  PROVE  /\ c \in Seq(Call) /\ Len(c) = Len(call) /\ DOMAIN c = DOMAIN call
         /\ \A j \in DOMAIN call : c[j].req = call[j].req
         /\ \A j \in DOMAIN call : j # i => c[j] = call[j]
         /\ c[i] = x
<1>1. call \in Seq(Call) /\ Len(call) \in Nat /\ DOMAIN call = 1..Len(call)
  BY DEF TypeOK
<1>2. call \in [1..Len(call) -> Call]
  BY <1>1
<1>3. c \in [1..Len(call) -> Call]
  BY <1>2, Zenon
<1>4. c \in Seq(Call) /\ Len(c) = Len(call)
  BY <1>1, <1>3, SeqOf, Zenon
<1>5. QED
  BY <1>1, <1>3, <1>4, Zenon

(* What an answer does to the calls.                                       *)
LEMMA AnsweredCalls ==
  ASSUME TypeOK, NEW i \in DOMAIN call, NEW result \in Results,
         NEW evs \in Seq(RecordedEvent), NEW c, c = Answered(i, result, evs)
  PROVE  /\ c \in Seq(Call) /\ Len(c) = Len(call) /\ DOMAIN c = DOMAIN call
         /\ \A j \in DOMAIN call : c[j].req = call[j].req
         /\ \A j \in DOMAIN call : j # i => c[j] = call[j]
         /\ call[i].status \notin Pending => c[i] = call[i]
         /\ call[i].status \in Pending =>
              /\ c[i].status = "answered" /\ c[i].result = result
              /\ c[i].answer = evs /\ c[i].during = starts
<1>1. CASE call[i].status \in Pending
  <2>1. PICK x : x = [call[i] EXCEPT !.status = "answered", !.result = result,
                                     !.answer = evs, !.during = starts]
    BY Zenon
  <2>2. call[i] \in Call /\ starts \in Nat /\ "answered" \in Statuses
    BY CallFields, Zenon DEF TypeOK, Statuses
  <2>3. /\ x \in Call /\ x.req = call[i].req
        /\ x.status = "answered" /\ x.result = result
        /\ x.answer = evs /\ x.during = starts
    BY <2>1, <2>2, Zenon DEF Call
  <2>4. c = [call EXCEPT ![i] = x]
    BY <1>1, <2>1, Zenon DEF Answered
  <2>5. QED
    BY <1>1, <2>3, <2>4, CallChanged, Zenon
<1>2. CASE call[i].status \notin Pending
  <2>1. c = call
    BY <1>2, Zenon DEF Answered
  <2>2. QED
    BY <1>2, <2>1, Zenon DEF TypeOK
<1>3. QED
  BY <1>1, <1>2, Zenon

(* What a new status does to the calls.                                    *)
WithStatus(i, st) == [call EXCEPT ![i].status = st]

LEMMA StatusCalls ==
  ASSUME TypeOK, NEW i \in DOMAIN call, NEW st \in Statuses,
         NEW c, c = WithStatus(i, st)
  PROVE  /\ c \in Seq(Call) /\ Len(c) = Len(call) /\ DOMAIN c = DOMAIN call
         /\ \A j \in DOMAIN call : c[j].req = call[j].req
         /\ \A j \in DOMAIN call : j # i => c[j] = call[j]
         /\ c[i].status = st /\ c[i].result = call[i].result
         /\ c[i].answer = call[i].answer /\ c[i].during = call[i].during
<1>1. PICK x : x = [call[i] EXCEPT !.status = st]
  BY Zenon
<1>2. call[i] \in Call
  BY CallFields, Zenon
<1>3. /\ x \in Call /\ x.req = call[i].req
      /\ x.status = st /\ x.result = call[i].result
      /\ x.answer = call[i].answer /\ x.during = call[i].during
  BY <1>1, <1>2, ZenonT(30) DEF Call
<1>4. c = [call EXCEPT ![i] = x]
  BY <1>1, Zenon DEF WithStatus
<1>5. /\ c \in Seq(Call) /\ Len(c) = Len(call) /\ DOMAIN c = DOMAIN call
      /\ \A j \in DOMAIN call : c[j].req = call[j].req
      /\ \A j \in DOMAIN call : j # i => c[j] = call[j]
      /\ c[i] = x
  <2>1. x \in Call /\ x.req = call[i].req
    BY <1>3, Zenon
  <2>2. QED
    BY <1>4, <2>1, CallChanged, Zenon
<1>6. QED
  BY <1>3, <1>5, Zenon

(* A step drops no call and changes the request of none.                   *)
CallsKept ==
  /\ \A i \in DOMAIN call : i \in DOMAIN call' /\ call'[i].req = call[i].req

(* Calls with an Ok answer had it before the step.                         *)
OkKept ==
  \A i \in DOMAIN call' : call'[i].result = "ok" =>
     /\ i \in DOMAIN call /\ call'[i].req = call[i].req
     /\ call[i].result = "ok"
     /\ call'[i].answer = call[i].answer /\ call'[i].during = call[i].during

(* Or the step has given it to the call whose turn it was.                 *)
OkNew(evs) ==
  \A i \in DOMAIN call' : call'[i].result = "ok" =>
     /\ i \in DOMAIN call /\ call'[i].req = call[i].req
     /\ \/ /\ call[i].result = "ok" /\ call'[i].answer = call[i].answer
           /\ call'[i].during = call[i].during
        \/ i = Head(batch) /\ call'[i].answer = evs /\ call'[i].during = starts

(* A call whose result changes was under way and has nothing in the log.   *)
ErrorsOnly ==
  \A i \in DOMAIN call :
     \/ /\ call'[i].result = call[i].result
        /\ call'[i].during = call[i].during
        /\ call'[i].status \in Pending => call[i].status \in Pending
     \/ call[i].status \in Pending /\ ~(pc \in Logged /\ i = Head(batch))

(* An answer to the request whose turn it is.                              *)
LEMMA AnswerEffect ==
  ASSUME TypeOK, Head(batch) \in DOMAIN call, NEW result \in Results,
         NEW evs \in Seq(RecordedEvent),
         call' = Answered(Head(batch), result, evs)
  PROVE  /\ call' \in Seq(Call) /\ Len(call') = Len(call)
         /\ DOMAIN call' = DOMAIN call
         /\ CallsKept /\ OkNew(evs)
         /\ result # "ok" => OkKept
         /\ pc \notin Logged => ErrorsOnly
         /\ call'[Head(batch)].status \notin Pending
         /\ \A i \in DOMAIN call : i # Head(batch) => call'[i] = call[i]
         /\ \A i \in DOMAIN call :
              call'[i].during = call[i].during \/ call'[i].during = starts
         /\ \/ call'[Head(batch)].result = result
            \/ call'[Head(batch)] = call[Head(batch)]
<1>1. PICK h \in DOMAIN call : h = Head(batch)
  BY Zenon
<1>2. /\ call' \in Seq(Call) /\ Len(call') = Len(call)
      /\ DOMAIN call' = DOMAIN call
      /\ \A j \in DOMAIN call : call'[j].req = call[j].req
      /\ \A j \in DOMAIN call : j # h => call'[j] = call[j]
      /\ call[h].status \notin Pending => call'[h] = call[h]
      /\ call[h].status \in Pending =>
           /\ call'[h].status = "answered" /\ call'[h].result = result
           /\ call'[h].answer = evs /\ call'[h].during = starts
  BY <1>1, AnsweredCalls
<1>3. CallsKept /\ OkNew(evs)
  BY <1>1, <1>2 DEF CallsKept, OkNew
<1>4. ASSUME result # "ok" PROVE OkKept
  BY <1>1, <1>2, <1>4, Zenon DEF OkKept
<1>5. ASSUME pc \notin Logged PROVE ErrorsOnly
  BY <1>1, <1>2, <1>5, Zenon DEF ErrorsOnly
<1>6. "answered" \notin Pending
  BY Zenon DEF Pending
<1>7. /\ call'[h].status \notin Pending
      /\ \A i \in DOMAIN call : i # h => call'[i] = call[i]
      /\ call'[h].result = result \/ call'[h] = call[h]
  BY <1>2, <1>6, Zenon
<1>8. \A i \in DOMAIN call :
        call'[i].during = call[i].during \/ call'[i].during = starts
  BY <1>2, Zenon
<1>9. QED
  BY <1>1, <1>2, <1>3, <1>4, <1>5, <1>7, <1>8, Zenon

-----------------------------------------------------------------------------
(* The log and the requests its events are of.                             *)

(* A step that adds nothing keeps what is known of the log.                *)
LEMMA LogQuiet ==
  ASSUME TypeOK, LogInv, VersionsInv, NoEventTwice, OutcomeInv, CallsKept,
         events' = events, mishap' = mishap
  PROVE  LogInv' /\ VersionsInv' /\ NoEventTwice'
<1>1. ASSUME NEW i \in 1..Len(events)
      PROVE  /\ events[i].by \in DOMAIN call /\ events[i].by \in DOMAIN call'
             /\ call'[events[i].by].req = call[events[i].by].req
  BY Zenon DEF OutcomeInv, Settled, CallsKept
<1>2. \A i \in 1..Len(events) : Written(i)' = Written(i)
  BY <1>1, Zenon DEF Written
<1>3. LogInv'
  <2>1. SUFFICES
          ASSUME ~mishap, NEW i \in 1..Len(events)
          PROVE  /\ events[i].global_position = i - 1
                 /\ events[i].by \in DOMAIN call'
                 /\ events[i].stream_id = Written(i)'.stream_id
                 /\ \E j \in 1..Len(events) :
                      events[j].event_id = Written(i)'.events[1]
    BY Zenon DEF LogInv
  <2>2. QED
    BY <1>1, <1>2, <2>1, Zenon DEF LogInv
<1>4. \A s : StreamLen(s)' = StreamLen(s)
  BY Zenon DEF StreamLen
<1>5. VersionsInv'
  BY <1>2, <1>4, Zenon DEF VersionsInv
<1>6. NothingForgotten' = NothingForgotten
  BY Zenon DEF NothingForgotten
<1>7. NoEventTwice'
  BY <1>1, <1>6 DEF NoEventTwice
<1>8. QED
  BY <1>3, <1>5, <1>7, Zenon

(* The batch of the request whose turn it is goes into the log.            *)
Appends ==
  Appending /\ Accepted /\ events' = events \o Record /\ CallsKept

OldEvent(i) ==
  /\ i \in 1..Len(events) /\ events'[i] = events[i]
  /\ events[i].by \in DOMAIN call' /\ Written(i)' = Written(i)

NewEvent(i, j) ==
  /\ i = Len(events) + j
  /\ events'[i].event_id = current.events[j]
  /\ events'[i].stream_id = current.stream_id
  /\ events'[i].stream_version = StreamLen(current.stream_id) + j - 1
  /\ events'[i].global_position = i - 1
  /\ events'[i].by = Head(batch) /\ Head(batch) \in DOMAIN call'
  /\ Written(i)' = current

(* After it, an event of the log was there before or is of that batch.     *)
LEMMA AppendsEvents ==
  ASSUME Counting, TypeOK, ShapeInv, OutcomeInv, Appends
  PROVE  /\ pc = "serve" /\ Head(batch) \in DOMAIN call /\ current \in Requests
         /\ Len(events) \in Nat /\ Len(current.events) \in Nat \ {0}
         /\ events' \in Seq(RecordedEvent)
         /\ Len(events') = Len(events) + Len(current.events)
         /\ Grows(events, events')
         /\ \A i \in 1..Len(events') :
              OldEvent(i) \/ \E j \in 1..Len(current.events) : NewEvent(i, j)
         /\ \A i \in 1..Len(events) : OldEvent(i)
         /\ \A j \in 1..Len(current.events) :
              Len(events) + j \in 1..Len(events') /\ NewEvent(Len(events) + j, j)
<1>1. /\ pc = "serve" /\ events' = events \o Record
      /\ \A i \in DOMAIN call : i \in DOMAIN call' /\ call'[i].req = call[i].req
  BY Zenon DEF Appends, Appending, CallsKept
<1>2. /\ Head(batch) \in DOMAIN call /\ current \in Requests
      /\ Len(current.events) \in Nat \ {0}
  BY <1>1, CurrentFields, Zenon
<1>3. events \in Seq(RecordedEvent) /\ Len(events) \in Nat
  BY DEF TypeOK
<1>4. PICK m \in Nat : m = Len(events)
  BY <1>3, Zenon
<1>5. PICK n \in Nat : n = Len(current.events)
  BY <1>2, Zenon
<1>6. /\ Record \in Seq(RecordedEvent) /\ Len(Record) = n
      /\ \A j \in 1..n :
           /\ Record[j].event_id = current.events[j]
           /\ Record[j].stream_id = current.stream_id
           /\ Record[j].stream_version = StreamLen(current.stream_id) + j - 1
           /\ Record[j].global_position = m + j - 1
           /\ Record[j].by = Head(batch)
  BY <1>1, <1>4, <1>5, RecordFields, Zenon
<1>7. PICK t \in Seq(RecordedEvent) : t = Record
  BY <1>6, Zenon
<1>8. /\ events' \in Seq(RecordedEvent) /\ Len(events') = m + n
      /\ Grows(events, events')
      /\ \A j \in 1..n : m + j \in 1..Len(events') /\ events'[m + j] = t[j]
      /\ \A i \in 1..Len(events') :
           i \in 1..m \/ \E j \in 1..n : i = m + j
  <2>1. events' = events \o t /\ Len(t) = n
    BY <1>1, <1>6, <1>7, Zenon
  <2>2. /\ events \o t \in Seq(RecordedEvent) /\ Grows(events, events \o t)
        /\ Len(events \o t) = Len(events) + Len(t)
        /\ \A j \in 1..Len(t) :
             /\ Len(events) + j \in 1..Len(events \o t)
             /\ (events \o t)[Len(events) + j] = t[j]
        /\ \A i \in 1..Len(events \o t) :
             i \in 1..Len(events) \/ \E j \in 1..Len(t) : i = Len(events) + j
    BY <1>3, ConcatGrows, Zenon
  <2>3. QED
    BY <2>1, <2>2, <1>4, Zenon
<1>9. ASSUME NEW i \in 1..m
      PROVE  OldEvent(i)
  <2>1. events'[i] = events[i] /\ events[i].by \in DOMAIN call
    BY <1>4, <1>8, Zenon DEF Grows, OutcomeInv, Settled
  <2>2. QED
    BY <2>1, <1>1, <1>4, Zenon DEF OldEvent, Written
<1>10. ASSUME NEW j \in 1..n
       PROVE  m + j \in 1..Len(events') /\ NewEvent(m + j, j)
  <2>1. /\ events'[m + j] = Record[j]
        /\ m + j \in 1..Len(events')
    BY <1>7, <1>8, Zenon
  <2>2. PICK i \in Nat : i = m + j
    OBVIOUS
  <2>3. /\ events'[i].event_id = current.events[j]
        /\ events'[i].stream_id = current.stream_id
        /\ events'[i].stream_version = StreamLen(current.stream_id) + j - 1
        /\ events'[i].by = Head(batch)
    BY <2>1, <2>2, <1>6, Zenon
  <2>4. events'[i].global_position = i - 1
    BY <2>1, <2>2, <1>6
  <2>5. Head(batch) \in DOMAIN call' /\ Written(i)' = current
    BY <2>3, <1>1, <1>2, Zenon DEF Written, current
  <2>6. NewEvent(i, j)
    BY <2>2, <2>3, <2>4, <2>5, <1>4, Zenon DEF NewEvent
  <2>7. QED
    BY <2>1, <2>2, <2>6, Zenon
<1>11. QED
  <2>1. \A i \in 1..Len(events') :
          OldEvent(i) \/ \E j \in 1..n : NewEvent(i, j)
    BY <1>8, <1>9, <1>10, Zenon
  <2>2. QED
    BY <1>1, <1>2, <1>3, <1>4, <1>5, <1>8, <1>9, <1>10, <2>1, Zenon

(* Every event of the new log is where it says, of the call it names.      *)
LEMMA LogGrows ==
  ASSUME Counting, TypeOK, ShapeInv, LogInv, OutcomeInv, Appends,
         mishap' = mishap
  PROVE  LogInv'
<1>1. SUFFICES ASSUME ~mishap, NEW i \in 1..Len(events')
               PROVE  /\ events'[i].global_position = i - 1
                      /\ events'[i].by \in DOMAIN call'
                      /\ events'[i].stream_id = (Written(i)').stream_id
                      /\ \E j \in 1..Len(events') :
                           events'[j].event_id = (Written(i)').events[1]
  BY Zenon DEF LogInv
<1>2. /\ OldEvent(i) \/ \E j \in 1..Len(current.events) : NewEvent(i, j)
      /\ \A j \in 1..Len(events) : OldEvent(j)
      /\ 1 \in 1..Len(current.events)
      /\ Len(events) + 1 \in 1..Len(events') /\ NewEvent(Len(events) + 1, 1)
      /\ Len(events) \in Nat /\ Len(events) <= Len(events')
  BY AppendsEvents DEF Grows
<1>3. CASE OldEvent(i)
  <2>1. i \in 1..Len(events) /\ events'[i] = events[i] /\ Written(i)' = Written(i)
    BY <1>3, Zenon DEF OldEvent
  <2>2. PICK j \in 1..Len(events) : events[j].event_id = Written(i).events[1]
    BY <1>1, <2>1, Zenon DEF LogInv
  <2>3. events'[j] = events[j] /\ j \in 1..Len(events')
    BY <2>2, <1>2 DEF OldEvent
  <2>4. QED
    BY <1>1, <2>1, <2>2, <2>3, <1>3, Zenon DEF OldEvent, LogInv
<1>4. CASE \E j \in 1..Len(current.events) : NewEvent(i, j)
  BY <1>2, <1>4, Zenon DEF NewEvent
<1>5. QED
  BY <1>2, <1>3, <1>4, Zenon

(* What an accepted version says of the stream.                            *)
LEMMA AcceptedVersion ==
  ASSUME Counting, TypeOK, ShapeInv, Appending, Accepted,
         current.expected_version # Any
  PROVE  current.expected_version + 1 = StreamLen(current.stream_id)
<1>1. StreamLen(current.stream_id) \in Nat
  BY StreamLenType, Zenon
<1>2. VersionAccepted(current.stream_id, current.expected_version)
  BY Zenon DEF Accepted
<1>3. QED
  BY <1>1, <1>2 DEF VersionAccepted, NoStream

(* Two events of a stream have two versions, and a batch that was accepted *)
(* for a version has the event with the next one.                          *)
LEMMA VersionsGrow ==
  ASSUME Counting, TypeOK, ShapeInv, OutcomeInv, VersionsInv, Appends,
         mishap' = mishap
  PROVE  VersionsInv'
<1> SUFFICES ASSUME ~mishap
             PROVE  VersionsInv'
  BY Zenon DEF VersionsInv
<1>1. /\ pc = "serve" /\ Len(events) \in Nat
      /\ Len(current.events) \in Nat \ {0}
      /\ \A i \in 1..Len(events') :
           OldEvent(i) \/ \E j \in 1..Len(current.events) : NewEvent(i, j)
      /\ \A j \in 1..Len(events) : OldEvent(j)
      /\ \A j \in 1..Len(current.events) :
           Len(events) + j \in 1..Len(events') /\ NewEvent(Len(events) + j, j)
  BY AppendsEvents, Zenon
<1>2. PICK n \in Nat \ {0} : n = Len(current.events)
  BY <1>1, Zenon
<1>3. PICK v \in Nat : v = StreamLen(current.stream_id)
  BY StreamLenType, Zenon
<1>4. ASSUME NEW q
      PROVE  /\ StreamLen(q) \in Nat
             /\ StreamLen(q)' = IF q = current.stream_id
                                THEN StreamLen(q) + n ELSE StreamLen(q)
  <2>1. PICK t \in Seq(RecordedEvent) : t = Record
    BY <1>1, RecordFields, Zenon
  <2>2. Len(t) = n /\ \A j \in 1..Len(t) : t[j].stream_id = current.stream_id
    BY <1>1, <1>2, <2>1, RecordFields, Zenon
  <2>3. events' = events \o t
    BY <2>1, Zenon DEF Appends
  <2>4. PICK s : s = current.stream_id
    BY Zenon
  <2>5. \A j \in 1..Len(t) : t[j].stream_id = s
    BY <2>2, <2>4, Zenon
  <2>6. StreamLen(q)' = IF q = s THEN StreamLen(q) + Len(t) ELSE StreamLen(q)
    BY <2>3, <2>5, StreamGrows, Zenon
  <2>7. QED
    BY <2>2, <2>4, <2>6, StreamLenType, Zenon
<1>5. ASSUME NEW i \in 1..Len(events'), OldEvent(i)
      PROVE  /\ events'[i].stream_version < StreamLen(events'[i].stream_id)
             /\ events'[i].stream_version < (StreamLen(events[i].stream_id))'
             /\ events'[i].stream_version \in Nat
  <2>1. i \in 1..Len(events) /\ events'[i] = events[i]
    BY <1>5, Zenon DEF OldEvent
  <2>2. /\ events[i].stream_version < StreamLen(events[i].stream_id)
        /\ events[i].stream_version \in Nat
    BY <2>1, EventFields, Zenon DEF VersionsInv, TypeOK
  <2>3. PICK q : q = events[i].stream_id
    BY Zenon
  <2>4. q = (events[i].stream_id)'
    BY <2>1, <2>3, Zenon
  <2>5. StreamLen(q) <= StreamLen(q)' /\ StreamLen(q) \in Nat /\ StreamLen(q)' \in Nat
    BY <1>4
  <2>6. events[i].stream_version < StreamLen(q)'
    BY <2>2, <2>3, <2>5
  <2>7. QED
    BY <2>1, <2>2, <2>3, <2>4, <2>6, Zenon
<1>6. ASSUME NEW i \in 1..Len(events'), NEW j \in 1..n, NewEvent(i, j)
      PROVE  /\ events'[i].stream_version = v + j - 1
             /\ events'[i].stream_id = current.stream_id
             /\ events'[i].stream_version < (StreamLen(events[i].stream_id))'
  <2>1. /\ events'[i].stream_version = v + j - 1
        /\ events'[i].stream_id = current.stream_id
    BY <1>3, <1>6, Zenon DEF NewEvent
  <2>2. PICK q : q = current.stream_id
    BY Zenon
  <2>3. q = (events[i].stream_id)'
    BY <2>1, <2>2, Zenon
  <2>4. StreamLen(q)' = v + n
    BY <1>3, <1>4, <2>2, Zenon
  <2>5. v + j - 1 < StreamLen(q)'
    BY <2>4
  <2>6. QED
    BY <2>1, <2>3, <2>5, Zenon
<1>7. ASSUME NEW i \in 1..Len(events')
      PROVE  events'[i].stream_version < (StreamLen(events[i].stream_id))'
  BY <1>1, <1>2, <1>5, <1>6, Zenon
<1>8. ASSUME NEW i \in 1..Len(events'), (Written(i)').expected_version # Any
      PROVE  \E j \in 1..Len(events') :
                /\ events'[j].by = events'[i].by
                /\ events'[j].stream_version = (Written(i)').expected_version + 1
  <2>1. CASE OldEvent(i)
    <3>1. i \in 1..Len(events) /\ events'[i] = events[i] /\ Written(i)' = Written(i)
      BY <2>1, Zenon DEF OldEvent
    <3>2. PICK j \in 1..Len(events) :
             /\ events[j].by = events[i].by
             /\ events[j].stream_version = Written(i).expected_version + 1
      BY <3>1, <1>8, Zenon DEF VersionsInv
    <3>3. events'[j] = events[j] /\ j \in 1..Len(events')
      BY <1>1, <3>2, AppendsEvents DEF OldEvent, Grows
    <3>4. QED
      BY <3>1, <3>2, <3>3, Zenon
  <2>2. ASSUME NEW j \in 1..n, NewEvent(i, j)
        PROVE  \E l \in 1..Len(events') :
                  /\ events'[l].by = events'[i].by
                  /\ events'[l].stream_version = (Written(i)').expected_version + 1
    <3>1. Written(i)' = current /\ events'[i].by = Head(batch)
      BY <2>2, Zenon DEF NewEvent
    <3>2. current.expected_version + 1 = v
      BY <1>3, <1>8, <3>1, AcceptedVersion, Zenon DEF Appends
    <3>3. PICK l \in 1..Len(events') : l = Len(events) + 1
      BY <1>1, <1>2
    <3>4. NewEvent(l, 1)
      BY <1>1, <1>2, <3>3
    <3>5. events'[l].by = Head(batch) /\ events'[l].stream_version = v
      BY <1>3, <3>4 DEF NewEvent
    <3>6. QED
      BY <3>1, <3>2, <3>5, Zenon
  <2>3. QED
    BY <1>1, <1>2, <2>1, <2>2, Zenon
<1>9. ASSUME NEW i \in 1..Len(events'), NEW j \in 1..Len(events'),
             events'[i].stream_id = events'[j].stream_id,
             events'[i].stream_version = events'[j].stream_version
      PROVE  i = j
  <2>1. CASE OldEvent(i) /\ OldEvent(j)
    BY <1>9, <2>1, Zenon DEF OldEvent, VersionsInv
  <2>2. ASSUME NEW a \in 1..Len(events'), NEW b \in 1..Len(events'),
               OldEvent(a), NEW l \in 1..n, NewEvent(b, l),
               events'[a].stream_id = events'[b].stream_id,
               events'[a].stream_version = events'[b].stream_version
        PROVE  FALSE
    <3>1. /\ events'[a].stream_version < StreamLen(events'[a].stream_id)
          /\ events'[a].stream_version \in Nat
      BY <1>5, <2>2, Zenon
    <3>2. /\ events'[b].stream_version = v + l - 1
          /\ events'[b].stream_id = current.stream_id
      BY <1>6, <2>2, Zenon
    <3>3. events'[a].stream_version < v
      BY <1>3, <2>2, <3>1, <3>2, Zenon
    <3>4. QED
      BY <2>2, <3>2, <3>3
  <2>3. ASSUME NEW a \in 1..n, NEW b \in 1..n, NewEvent(i, a), NewEvent(j, b)
        PROVE  i = j
    <3>1. v + a - 1 = v + b - 1
      BY <1>6, <1>9, <2>3, Zenon
    <3>2. a = b
      BY <3>1
    <3>3. QED
      BY <2>3, <3>2, Zenon DEF NewEvent
  <2>4. QED
    BY <1>1, <1>2, <1>9, <2>1, <2>2, <2>3, Zenon
<1>10. QED
  BY <1>7, <1>8, <1>9, Zenon DEF VersionsInv

(* A request of which nothing was forgotten does not get in a second time. *)
LEMMA TwiceGrows ==
  ASSUME Counting, TypeOK, TypeOK', ShapeInv, LogInv, OutcomeInv, NoEventTwice,
         IndexedInv, Appends, mishap' = mishap
  PROVE  NoEventTwice'
<1>1. /\ pc = "serve" /\ Grows(events, events')
      /\ \A i \in 1..Len(events') :
           OldEvent(i) \/ \E j \in 1..Len(current.events) : NewEvent(i, j)
  BY AppendsEvents, Zenon
<1>2. SUFFICES ASSUME NothingForgotten', NEW i \in 1..Len(events'),
                      NEW j \in 1..Len(events'),
                      events'[i].event_id = events'[j].event_id,
                      Written(i)' = Written(j)'
               PROVE  i = j
  BY Zenon DEF NoEventTwice, Written
<1>3. NothingForgotten
  BY <1>1, <1>2, ForgottenGrows, Zenon
<1>4. \A a \in 1..Len(events) : events[a].event_id \in DOMAIN cache
  BY <1>1, <1>3, Zenon DEF IndexedInv, Indexed
<1>5. /\ current.events[1] \notin DOMAIN cache
      /\ validate_batch_unique_ids(current.events)
  BY Zenon DEF Appends, Appending, Known
<1>6. CASE OldEvent(i) /\ OldEvent(j)
  BY <1>2, <1>3, <1>6, Zenon DEF OldEvent, NoEventTwice, Written
<1>7. ASSUME NEW a \in 1..Len(events'), NEW b \in 1..Len(events'),
             NEW l \in 1..Len(current.events), OldEvent(a), NewEvent(b, l),
             Written(a)' = Written(b)'
      PROVE  FALSE
  <2>1. a \in 1..Len(events) /\ Written(a) = current
    BY <1>7, Zenon DEF OldEvent, NewEvent
  <2>2. \E c \in 1..Len(events) : events[c].event_id = current.events[1]
    BY <2>1, <1>3, Zenon DEF LogInv, NothingForgotten
  <2>3. QED
    BY <2>2, <1>4, <1>5, Zenon
<1>8. ASSUME NEW a \in 1..Len(current.events), NEW b \in 1..Len(current.events),
             NewEvent(i, a), NewEvent(j, b)
      PROVE  i = j
  <2>1. current.events[a] = current.events[b]
    BY <1>2, <1>8, Zenon DEF NewEvent
  <2>2. a = b
    BY <2>1, <1>5, Zenon DEF validate_batch_unique_ids
  <2>3. QED
    BY <2>2, <1>8, Zenon DEF NewEvent
<1>9. QED
  BY <1>1, <1>2, <1>6, <1>7, <1>8, Zenon

-----------------------------------------------------------------------------
(* The steps of the callers, and those that receive and answer.            *)

(* The task moves on from a request that it had put into the log only with *)
(* an answer.                                                              *)
MovesOn ==
  \/ pc \notin Logged
  \/ pc' \in Logged /\ Head(batch') = Head(batch)
  \/ \A i \in DOMAIN call : call'[i].status \notin Pending

(* Nobody learns of an error who has something in the log.                 *)
LEMMA SettledQuiet ==
  ASSUME NEW log, Settled(log), CallsKept, ErrorsOnly, MovesOn
  PROVE  \A i \in 1..Len(log) :
            /\ log[i].by \in DOMAIN call /\ log[i].by \in DOMAIN call'
            /\ call'[log[i].by].result = call[log[i].by].result
            /\ call'[log[i].by].during = call[log[i].by].during
            /\ call'[log[i].by].result \in {"none", "ok", "Io"}
            /\ call'[log[i].by].status \in Pending =>
                 pc' \in Logged /\ log[i].by = Head(batch')
<1>1. TAKE i \in 1..Len(log)
<1>2. PICK c \in DOMAIN call : c = log[i].by
  BY Zenon DEF Settled
<1>3. /\ call[c].result \in {"none", "ok", "Io"}
      /\ call[c].status \in Pending => pc \in Logged /\ c = Head(batch)
  BY <1>2, Zenon DEF Settled
<1>4. /\ c \in DOMAIN call' /\ call'[c].result = call[c].result
      /\ call'[c].during = call[c].during
      /\ call'[c].status \in Pending => call[c].status \in Pending
  BY <1>3, Zenon DEF ErrorsOnly, CallsKept
<1>5. call'[c].status \in Pending => pc' \in Logged /\ c = Head(batch')
  BY <1>3, <1>4, Zenon DEF MovesOn
<1>6. QED
  BY <1>2, <1>3, <1>4, <1>5, Zenon

(* What is in the log stays there, and so does who wrote it.               *)
LEMMA EventsQuiet ==
  ASSUME OutcomeInv, CallsKept, ErrorsOnly, MovesOn, UNCHANGED <<events, starts>>,
         pc \in Stopped => pc' \in Stopped
  PROVE  Settled(events)' /\ ErrorsLeaveNothing'
<1>1. Settled(events) /\ ErrorsLeaveNothing
  BY Zenon DEF OutcomeInv
<1>2. Settled(events)'
  BY <1>1, SettledQuiet, Zenon DEF Settled
<1>3. ASSUME NEW i \in 1..Len(events)
      PROVE  \/ call'[events[i].by].result \in {"none", "ok"}
             \/ /\ call'[events[i].by].result = "Io"
                /\ call'[events[i].by].during < starts \/ pc' \in Stopped
  <2>1. /\ call'[events[i].by].result = call[events[i].by].result
        /\ call'[events[i].by].during = call[events[i].by].during
    BY <1>1, SettledQuiet, Zenon
  <2>2. \/ call[events[i].by].result \in {"none", "ok"}
        \/ /\ call[events[i].by].result = "Io"
           /\ call[events[i].by].during < starts \/ pc \in Stopped
    BY <1>1, Zenon DEF ErrorsLeaveNothing
  <2>3. QED
    BY <2>1, <2>2, Zenon
<1>4. ErrorsLeaveNothing'
  BY <1>3, Zenon DEF ErrorsLeaveNothing
<1>5. QED
  BY <1>2, <1>4, Zenon

LEMMA OutcomeQuiet ==
  ASSUME OutcomeInv, CallsKept, ErrorsOnly, MovesOn,
         UNCHANGED <<events, file, starts>>, pc \in Stopped => pc' \in Stopped
  PROVE  OutcomeInv'
<1>1. Settled(file)'
  BY SettledQuiet, Zenon DEF OutcomeInv, Settled
<1>2. QED
  BY <1>1, EventsQuiet, Zenon DEF OutcomeInv

(* The file and the places of the events are left alone.                   *)
LEMMA FileQuiet ==
  ASSUME FileInv, PlaceInv, UNCHANGED <<events, file, torn, mishap>>,
         cache' = cache \/ DOMAIN cache' = {}
  PROVE  FileInv' /\ PlaceInv'
<1>1. FileInv'
  BY Zenon DEF FileInv
<1>2. \A id \in DOMAIN cache' : Within(cache'[id], Len(events))
  BY Zenon DEF PlaceInv
<1>3. QED
  BY <1>1, <1>2, Zenon DEF PlaceInv, Within

(* Pieces of the log that were answered stay pieces of it.                 *)
LEMMA AnswersKept ==
  ASSUME TypeOK, TypeOK', AnswersInv, Grows(events, events'), OkKept,
         mishap => mishap'
  PROVE  AnswersInv'
<1>1. SUFFICES ASSUME ~mishap, NEW i \in DOMAIN call', call'[i].result = "ok"
               PROVE  /\ Piece(call'[i].answer, events')
                      /\ Has(call'[i].answer, call'[i].req.events[1])
  BY Zenon DEF AnswersInv
<1>2. /\ i \in DOMAIN call /\ call[i].result = "ok"
      /\ call'[i].answer = call[i].answer /\ call'[i].req = call[i].req
  BY <1>1, Zenon DEF OkKept
<1>3. /\ Piece(call[i].answer, events)
      /\ Has(call[i].answer, call[i].req.events[1])
  BY <1>1, <1>2, Zenon DEF AnswersInv
<1>4. /\ call[i].answer \in Seq(RecordedEvent)
      /\ events \in Seq(RecordedEvent) /\ events' \in Seq(RecordedEvent)
  BY <1>2, CallFields, Zenon DEF TypeOK
<1>5. Piece(call[i].answer, events')
  BY <1>3, <1>4, PieceGrows, Zenon
<1>6. QED
  BY <1>2, <1>3, <1>5, Zenon

(* So does what the cache holds.                                           *)
LEMMA CacheKept ==
  ASSUME TypeOK, TypeOK', CacheInv, Grows(events, events'),
         cache' = cache \/ DOMAIN cache' = {}, mishap => mishap'
  PROVE  CacheInv'
<1>1. SUFFICES ASSUME ~mishap, NEW id \in DOMAIN cache'
               PROVE  Piece(cache'[id], events') /\ Has(cache'[id], id)
  BY Zenon DEF CacheInv
<1>2. id \in DOMAIN cache /\ cache'[id] = cache[id]
  BY <1>1, Zenon
<1>3. /\ cache[id] \in Seq(RecordedEvent)
      /\ events \in Seq(RecordedEvent) /\ events' \in Seq(RecordedEvent)
  BY <1>2, Zenon DEF TypeOK
<1>4. Piece(cache[id], events) /\ Has(cache[id], id)
  BY <1>1, <1>2, Zenon DEF CacheInv
<1>5. Piece(cache[id], events')
  BY <1>3, <1>4, PieceGrows, Zenon
<1>6. QED
  BY <1>2, <1>4, <1>5, Zenon

(* What the broker was given and what was answered from it.                *)
LEMMA AnsweredKept ==
  ASSUME AnsweredArePublished, OkKept, pc \in Stopped => pc' \in Stopped,
         UNCHANGED <<starts, base, published>>
  PROVE  AnsweredArePublished'
BY Zenon DEF AnsweredArePublished, OkKept

(* What the broker was given stays where it is in the log.                 *)
LEMMA OrderKept ==
  ASSUME TypeOK, TypeOK', PublishedInOrder, Grows(events, events'),
         UNCHANGED <<base, published>>, pc \in Stopped => pc' \in Stopped
  PROVE  PublishedInOrder'
<1> SUFFICES ASSUME pc \notin Stopped
             PROVE  PublishedInOrder'
  BY Zenon DEF PublishedInOrder
<1>1. PICK b \in Nat : b = base
  BY Zenon DEF TypeOK
<1>2. PICK n \in Nat : n = Len(published)
  <2>1. published \in Seq(RecordedEvent)
    BY Zenon DEF TypeOK
  <2>2. QED
    BY <2>1
<1>3. PICK m \in Nat : m = Len(events)
  <2>1. events \in Seq(RecordedEvent)
    BY Zenon DEF TypeOK
  <2>2. QED
    BY <2>1
<1>4. b + n <= m /\ \A i \in 1..n : published[i] = events[b + i]
  BY <1>1, <1>2, <1>3, Zenon DEF PublishedInOrder
<1>5. /\ m <= Len(events') /\ Len(events') \in Nat
      /\ \A i \in 1..m : events'[i] = events[i]
  BY <1>3 DEF Grows, TypeOK
<1>6. ASSUME NEW i \in 1..n
      PROVE  published[i] = events'[b + i]
  <2>1. b + i \in 1..m
    BY <1>4
  <2>2. QED
    BY <1>4, <1>5, <2>1, Zenon
<1>7. b + n <= Len(events')
  BY <1>4, <1>5
<1>8. QED
  BY <1>1, <1>2, <1>6, <1>7, Zenon DEF PublishedInOrder

(* No answer is new, so no two differ that did not.                        *)
LEMMA SameKept ==
  ASSUME Counting, TypeOK, TypeOK', SameAnswer, OkKept, Grows(events, events'),
         mishap => mishap'
  PROVE  SameAnswer'
<1>1. SUFFICES ASSUME NothingForgotten', IdsNotShared,
                      NEW i \in DOMAIN call', NEW j \in DOMAIN call',
                      call'[i].result = "ok", call'[j].result = "ok",
                      call'[i].req = call'[j].req,
                      call'[i].during = call'[j].during
               PROVE  call'[i].answer = call'[j].answer
  BY Zenon DEF SameAnswer
<1>2. NothingForgotten
  BY <1>1, ForgottenGrows, Zenon
<1>3. /\ i \in DOMAIN call /\ call'[i].req = call[i].req
      /\ call[i].result = "ok"
      /\ call'[i].answer = call[i].answer /\ call'[i].during = call[i].during
  BY <1>1, Zenon DEF OkKept
<1>4. /\ j \in DOMAIN call /\ call'[j].req = call[j].req
      /\ call[j].result = "ok"
      /\ call'[j].answer = call[j].answer /\ call'[j].during = call[j].during
  BY <1>1, Zenon DEF OkKept
<1>5. QED
  BY <1>1, <1>2, <1>3, <1>4, Zenon DEF SameAnswer

(***************************************************************************)
(* A step that leaves the log, the index and the broker alone, gives no Ok *)
(* answer, and stays in the same phase or between two phases in which the  *)
(* index is complete.                                                      *)
(***************************************************************************)
Calm ==
  /\ UNCHANGED <<events, file, torn, mishap, recorded, k, cache, starts, base,
                 published>>
  /\ CallsKept /\ OkKept /\ ErrorsOnly
  /\ \/ pc' = pc /\ (pc \in Logged => batch # <<>> /\ Head(batch') = Head(batch))
     \/ pc \in {"recv", "drain", "serve"} /\ pc' \in {"recv", "drain", "serve"}

LEMMA CalmSafe ==
  ASSUME Counting, WriterInv, TypeOK', ShapeInv', QueueInv', Calm
  PROVE  WriterInv'
<1>1. /\ TypeOK /\ ShapeInv /\ FileInv /\ PlaceInv
      /\ LogInv /\ VersionsInv /\ OutcomeInv /\ CacheInv
      /\ AnswersInv /\ RecordedInv /\ PublishInv /\ AnsweredArePublished
      /\ IndexedInv /\ NoEventTwice /\ RetryInv /\ SameAnswer
  BY Zenon DEF WriterInv
<1>2. /\ events' = events /\ file' = file /\ torn' = torn /\ mishap' = mishap
      /\ recorded' = recorded /\ k' = k /\ cache' = cache
      /\ starts' = starts /\ base' = base /\ published' = published
      /\ CallsKept /\ OkKept /\ ErrorsOnly
  BY Zenon DEF Calm
<1>3. \/ pc' = pc /\ (pc \in Logged => Head(batch') = Head(batch))
      \/ pc \in {"recv", "drain", "serve"} /\ pc' \in {"recv", "drain", "serve"}
  BY Zenon DEF Calm
<1>4. Grows(events, events')
  BY <1>1, <1>2 DEF Grows, TypeOK
<1>5. LogInv' /\ VersionsInv' /\ NoEventTwice'
  BY <1>1, <1>2, LogQuiet, Zenon
<1>6. OutcomeInv'
  <2>1. MovesOn /\ (pc \in Stopped => pc' \in Stopped)
    BY <1>3, Zenon DEF Logged, Stopped, MovesOn
  <2>2. QED
    BY <2>1, <1>1, <1>2, OutcomeQuiet, Zenon
<1>7. AnswersInv' /\ CacheInv' /\ AnsweredArePublished' /\ SameAnswer'
  <2>1. pc \in Stopped => pc' \in Stopped
    BY <1>3, Zenon DEF Stopped
  <2>2. QED
    BY <2>1, <1>1, <1>2, <1>4, AnswersKept, CacheKept, AnsweredKept, SameKept,
       Zenon
<1>8. ASSUME pc' \in Logged
      PROVE  pc' = pc /\ pc \in Logged /\ current' = current
  <2>1. pc' = pc /\ pc \in Logged /\ Head(batch') = Head(batch)
    BY <1>3, <1>8, Zenon DEF Logged
  <2>2. Head(batch) \in DOMAIN call
    BY <2>1, <1>1, CurrentFields, Zenon
  <2>3. QED
    BY <2>1, <2>2, <1>2, Zenon DEF current, CallsKept
<1>9. RecordedInv'
  BY <1>1, <1>2, <1>8, Zenon DEF RecordedInv
<1>10. PublishInv'
  <2>1. PublishedInOrder'
    BY <1>1, <1>2, <1>3, Zenon DEF PublishInv, PublishedInOrder, Stopped
  <2>2. QED
    BY <1>1, <1>2, <1>3, <2>1, Zenon DEF PublishInv
<1>11. NothingForgotten' = NothingForgotten
  BY <1>2, Zenon DEF NothingForgotten
<1>12. IndexedInv'
  <2>1. Indexed' = Indexed
    BY <1>2, <1>3, Zenon DEF Indexed
  <2>2. QED
    BY <2>1, <1>1, <1>2, <1>11, Zenon DEF IndexedInv
<1>13. RetryInv'
  <2>1. SUFFICES ASSUME NothingForgotten, IdsNotShared
                 PROVE  (/\ pc \notin Stopped \cup {"dead"} =>
                              \A i \in DOMAIN call : AnsweredNow(i) =>
                                 /\ call[i].req.events[1] \in DOMAIN cache
                                 /\ cache[call[i].req.events[1]] = call[i].answer
                         /\ pc \in Logged =>
                              /\ \A i \in DOMAIN call : AnsweredNow(i) =>
                                    call[i].req # current
                              /\ \A j \in 1..Len(recorded) :
                                   pc # "record" \/ j < k =>
                                   /\ recorded[j].event_id \in DOMAIN cache
                                   /\ cache[recorded[j].event_id] = recorded)'
    BY <1>11, Zenon DEF RetryInv
  <2>2. ASSUME NEW i \in DOMAIN call', AnsweredNow(i)'
        PROVE  /\ i \in DOMAIN call /\ AnsweredNow(i)
               /\ call'[i].req = call[i].req /\ call'[i].answer = call[i].answer
    BY <1>2, <2>2, Zenon DEF AnsweredNow, OkKept
  <2>3. pc' \notin Stopped \cup {"dead"} => pc \notin Stopped \cup {"dead"}
    BY <1>3, Zenon DEF Stopped
  <2>4. (pc \notin Stopped \cup {"dead"} =>
           \A i \in DOMAIN call : AnsweredNow(i) =>
              /\ call[i].req.events[1] \in DOMAIN cache
              /\ cache[call[i].req.events[1]] = call[i].answer)'
    BY <1>1, <1>2, <2>1, <2>2, <2>3, Zenon DEF RetryInv
  <2>5. ASSUME pc' \in Logged
        PROVE  (\A i \in DOMAIN call : AnsweredNow(i) => call[i].req # current)'
    BY <1>1, <1>8, <2>1, <2>2, <2>5, Zenon DEF RetryInv
  <2>6. ASSUME pc' \in Logged
        PROVE  (\A j \in 1..Len(recorded) : pc # "record" \/ j < k =>
                  /\ recorded[j].event_id \in DOMAIN cache
                  /\ cache[recorded[j].event_id] = recorded)'
    BY <1>1, <1>2, <1>8, <2>1, <2>6 DEF RetryInv
  <2>7. QED
    BY <2>4, <2>5, <2>6, Zenon
<1>14. FileInv' /\ PlaceInv'
  BY <1>1, <1>2, FileQuiet, Zenon
<1>15. QED
  BY <1>5, <1>6, <1>7, <1>9, <1>10, <1>12, <1>13, <1>14, Zenon DEF WriterInv

-----------------------------------------------------------------------------
(* The callers.                                                            *)

LEMMA SubmitSafe ==
  ASSUME Counting, WriterInv, NEW r \in Requests, Submit(r)
  PROVE  WriterInv'
<1>1. TypeOK /\ ShapeInv /\ QueueInv
  BY Zenon DEF WriterInv
<1>2. /\ UNCHANGED <<pc, events, file, torn, mishap, channel, batch, recorded,
                     k, cache, starts, base, published>>
      /\ pc \notin Stopped \cup {"seed"}
  BY Zenon DEF Submit, disk, loop, dedup, run
<1>3. PICK x : x = [req |-> r, status |-> "sending", result |-> "none",
                    answer |-> <<>>, during |-> 0]
  BY Zenon
<1>4. /\ x \in Call /\ x.status = "sending" /\ x.result = "none" /\ x.during = 0
      /\ x.req = r
  BY <1>3 DEF Call, Statuses, Pending, Results
<1>5. call' = Append(call, x)
  BY <1>3, Zenon DEF Submit
<1>6. call \in Seq(Call) /\ DOMAIN call = 1..Len(call) /\ Len(call) \in Nat
  BY <1>1 DEF TypeOK
<1>7. /\ call' \in Seq(Call) /\ Len(call') = Len(call) + 1
      /\ DOMAIN call' = 1..(Len(call) + 1)
      /\ \A i \in 1..Len(call) : call'[i] = call[i]
      /\ call'[Len(call) + 1] = x
  BY <1>4, <1>5, <1>6
<1>8. /\ \A i \in DOMAIN call : i \in DOMAIN call' /\ call'[i] = call[i]
      /\ \A i \in DOMAIN call' : i \in DOMAIN call \/ call'[i] = x
  BY <1>6, <1>7
<1>9. TypeOK'
  BY <1>1, <1>2, <1>7, Zenon DEF TypeOK
<1>10. ShapeInv'
  <2>1. pc # "seed" /\ 0 <= starts
    BY <1>1, <1>2 DEF TypeOK
  <2>2. ASSUME NEW i \in DOMAIN call' PROVE call'[i].during <= starts
    <3>1. CASE i \in DOMAIN call
      BY <1>1, <1>8, <3>1, Zenon DEF ShapeInv
    <3>2. CASE call'[i] = x
      BY <1>4, <2>1, <3>2, Zenon
    <3>3. QED
      BY <1>8, <3>1, <3>2, Zenon
  <2>3. QED
    BY <1>1, <1>2, <1>8, <2>1, <2>2, Zenon DEF ShapeInv
<1>11. QueueInv'
  BY <1>1, <1>2, <1>4, <1>8 DEF QueueInv, ShapeInv
<1>12. Calm
  <2>1. CallsKept /\ ErrorsOnly
    BY <1>8, Zenon DEF CallsKept, ErrorsOnly
  <2>2. OkKept
    BY <1>4, <1>8, Zenon DEF OkKept
  <2>3. pc \in Logged => batch # <<>>
    BY <1>1, Zenon DEF ShapeInv
  <2>4. QED
    BY <1>2, <2>1, <2>2, <2>3, Zenon DEF Calm
<1>13. QED
  BY <1>9, <1>10, <1>11, <1>12, CalmSafe, Zenon

LEMMA SendSafe ==
  ASSUME Counting, WriterInv, NEW i \in DOMAIN call, Send(i)
  PROVE  WriterInv'
<1>1. TypeOK /\ ShapeInv /\ QueueInv
  BY Zenon DEF WriterInv
<1>2. /\ UNCHANGED <<pc, events, file, torn, mishap, batch, recorded, k, cache,
                     starts, base, published>>
      /\ call[i].status = "sending" /\ channel' = Append(channel, i)
      /\ call' = [call EXCEPT ![i].status = "waiting"]
  BY Zenon DEF Send, disk, loop, dedup, run
<1>3. /\ call' \in Seq(Call) /\ DOMAIN call' = DOMAIN call
      /\ \A j \in DOMAIN call : call'[j].req = call[j].req
      /\ \A j \in DOMAIN call : j # i => call'[j] = call[j]
      /\ call'[i].status = "waiting" /\ call'[i].result = call[i].result
      /\ call'[i].answer = call[i].answer /\ call'[i].during = call[i].during
  <2>1. PICK st \in Statuses : st = "waiting"
    BY Zenon DEF Statuses, Pending
  <2>2. PICK c : c = call'
    BY Zenon
  <2>3. c = WithStatus(i, st)
    BY <1>2, <2>1, <2>2, Zenon DEF WithStatus
  <2>4. /\ c \in Seq(Call) /\ DOMAIN c = DOMAIN call
        /\ \A j \in DOMAIN call : c[j].req = call[j].req
        /\ \A j \in DOMAIN call : j # i => c[j] = call[j]
        /\ c[i].status = st /\ c[i].result = call[i].result
        /\ c[i].answer = call[i].answer /\ c[i].during = call[i].during
    BY <1>1, <2>3, StatusCalls
  <2>5. QED
    BY <2>1, <2>2, <2>4, Zenon
<1>4. /\ channel \in Seq(Nat) /\ i \in Nat
      /\ channel' \in Seq(Nat) /\ Len(channel') = Len(channel) + 1
      /\ \A a \in 1..Len(channel) : channel'[a] = channel[a]
      /\ channel'[Len(channel) + 1] = i
      /\ Len(channel) \in Nat
  BY <1>1, <1>2, CallFields DEF TypeOK
<1>5. TypeOK'
  BY <1>1, <1>2, <1>3, <1>4, Zenon DEF TypeOK
<1>6. \A a \in 1..Len(channel') :
         \/ a \in 1..Len(channel) /\ channel'[a] = channel[a]
         \/ a = Len(channel) + 1 /\ channel'[a] = i
  BY <1>4
<1>7. \A j \in DOMAIN call : call'[j].during = call[j].during
  BY <1>3, Zenon
<1>8. ShapeInv'
  BY <1>1, <1>2, <1>3, <1>6, <1>7 DEF ShapeInv
<1>9. QueueInv'
  <2>1. \A j \in DOMAIN call' :
          call'[j].status # "answered" => call'[j].result = "none"
    BY <1>1, <1>2, <1>3, Zenon DEF QueueInv
  <2>2. /\ \A a \in 1..Len(channel) : channel[a] \in DOMAIN call /\ channel[a] # i
        /\ \A a \in 1..Len(batch) : batch[a] \in DOMAIN call /\ batch[a] # i
    BY <1>1, <1>2, Zenon DEF QueueInv, ShapeInv
  <2>3. \A a \in 1..Len(channel') :
          call'[channel'[a]].status \notin {"sending", "answered"}
    BY <1>1, <1>3, <1>6, <2>2 DEF QueueInv
  <2>4. \A a \in 1..Len(batch') :
          call'[batch'[a]].status \notin {"sending", "answered"}
    BY <1>1, <1>2, <1>3, <2>2, Zenon DEF QueueInv
  <2>5. \A a, b \in 1..Len(channel') : channel'[a] = channel'[b] => a = b
    BY <1>1, <1>6, <2>2, Zenon DEF QueueInv
  <2>6. \A a \in 1..Len(batch'), b \in 1..Len(channel') : batch'[a] # channel'[b]
    BY <1>1, <1>2, <1>6, <2>2 DEF QueueInv
  <2>7. QED
    BY <1>1, <1>2, <2>1, <2>3, <2>4, <2>5, <2>6 DEF QueueInv
<1>10. Calm
  <2>1. CallsKept /\ ErrorsOnly
    BY <1>2, <1>3, Zenon DEF CallsKept, ErrorsOnly, Pending
  <2>2. OkKept
    BY <1>3, Zenon DEF OkKept
  <2>3. pc \in Logged => batch # <<>>
    BY <1>1, Zenon DEF ShapeInv
  <2>4. QED
    BY <1>2, <2>1, <2>2, <2>3, Zenon DEF Calm
<1>11. QED
  BY <1>5, <1>8, <1>9, <1>10, CalmSafe, Zenon

(* The caller learns that the task is gone: nothing of it was written.     *)
LEMMA SendClosedSafe ==
  ASSUME Counting, WriterInv, NEW i \in DOMAIN call, SendClosed(i)
  PROVE  WriterInv'
<1>1. TypeOK /\ ShapeInv /\ QueueInv
  BY DEF WriterInv
<1>2. /\ UNCHANGED <<pc, events, file, torn, mishap, channel, batch, recorded,
                     k, cache, starts, base, published>>
      /\ call[i].status = "sending" /\ pc = "dead"
      /\ call' = Answered(i, "closed", <<>>)
  BY Zenon DEF SendClosed, disk, loop, dedup, run
<1>3. /\ call' \in Seq(Call) /\ DOMAIN call' = DOMAIN call
      /\ \A j \in DOMAIN call : call'[j].req = call[j].req
      /\ \A j \in DOMAIN call : j # i => call'[j] = call[j]
      /\ call'[i].status = "answered" /\ call'[i].result = "closed"
      /\ call'[i].during = starts
  <2>1. call[i].status \in Pending /\ "closed" \in Results
    BY <1>2, Zenon DEF Pending, Results
  <2>2. PICK evs \in Seq(RecordedEvent) : evs = <<>>
    <3>1. <<>> \in Seq(RecordedEvent)
      OBVIOUS
    <3>2. QED
      BY <3>1, Zenon
  <2>3. PICK c : c = call'
    BY Zenon
  <2>4. c = Answered(i, "closed", evs)
    BY <1>2, <2>2, <2>3, Zenon
  <2>5. /\ c \in Seq(Call) /\ DOMAIN c = DOMAIN call
        /\ \A j \in DOMAIN call : c[j].req = call[j].req
        /\ \A j \in DOMAIN call : j # i => c[j] = call[j]
        /\ c[i].status = "answered" /\ c[i].result = "closed"
        /\ c[i].during = starts
    BY <1>1, <2>1, <2>4, AnsweredCalls
  <2>6. QED
    BY <2>3, <2>5, Zenon
<1>4. TypeOK'
  BY <1>1, <1>2, <1>3, Zenon DEF TypeOK
<1>5. ShapeInv'
  <2>1. \A j \in DOMAIN call' : call'[j].during <= starts
    <3>1. starts <= starts
      BY <1>1 DEF TypeOK
    <3>2. QED
      BY <1>1, <1>3, <3>1, Zenon DEF ShapeInv
  <2>2. QED
    BY <1>1, <1>2, <1>3, <2>1, Zenon DEF ShapeInv
<1>6. QueueInv'
  <2>1. /\ \A a \in 1..Len(channel) : channel[a] \in DOMAIN call /\ channel[a] # i
        /\ \A a \in 1..Len(batch) : batch[a] \in DOMAIN call /\ batch[a] # i
    BY <1>1, <1>2, Zenon DEF QueueInv, ShapeInv
  <2>2. \A j \in DOMAIN call' :
          call'[j].status # "answered" => call'[j].result = "none"
    <3>1. ASSUME NEW j \in DOMAIN call, call'[j].status # "answered"
          PROVE  call'[j].result = "none"
      <4>1. call'[j] = call[j]
        BY <1>3, <3>1, Zenon
      <4>2. QED
        BY <1>1, <3>1, <4>1, Zenon DEF QueueInv
    <3>2. QED
      BY <1>3, <3>1, Zenon
  <2>3. \A a \in 1..Len(channel) :
          call'[channel[a]].status \notin {"sending", "answered"}
    BY <1>1, <1>3, <2>1, Zenon DEF QueueInv
  <2>4. \A a \in 1..Len(batch) :
          call'[batch[a]].status \notin {"sending", "answered"}
    BY <1>1, <1>3, <2>1, Zenon DEF QueueInv
  <2>5. QED
    BY <1>1, <1>2, <2>2, <2>3, <2>4, Zenon DEF QueueInv
<1>7. Calm
  <2>1. pc \notin Logged /\ call[i].status \in Pending
    BY <1>2, Zenon DEF Pending, Logged
  <2>2. CallsKept /\ ErrorsOnly
    BY <1>3, <2>1, Zenon DEF CallsKept, ErrorsOnly
  <2>3. OkKept
    BY <1>3, Zenon DEF OkKept
  <2>4. QED
    BY <1>2, <2>1, <2>2, <2>3, Zenon DEF Calm
<1>8. QED
  BY <1>4, <1>5, <1>6, <1>7, CalmSafe

(* The caller gives up; its request stays where it is.                     *)
LEMMA GiveUpSafe ==
  ASSUME Counting, WriterInv, NEW i \in DOMAIN call, GiveUp(i)
  PROVE  WriterInv'
<1>1. TypeOK /\ ShapeInv /\ QueueInv
  BY DEF WriterInv
<1>2. /\ UNCHANGED <<pc, events, file, torn, mishap, channel, batch, recorded,
                     k, cache, starts, base, published>>
      /\ call[i].status \in Pending
      /\ call' = [call EXCEPT ![i].status = "gone"]
  BY Zenon DEF GiveUp, disk, loop, dedup, run
<1>3. /\ call' \in Seq(Call) /\ DOMAIN call' = DOMAIN call
      /\ \A j \in DOMAIN call : call'[j].req = call[j].req
      /\ \A j \in DOMAIN call : j # i => call'[j] = call[j]
      /\ call'[i].status = "gone" /\ call'[i].result = call[i].result
      /\ call'[i].answer = call[i].answer /\ call'[i].during = call[i].during
  <2>1. PICK st \in Statuses : st = "gone"
    BY Zenon DEF Statuses
  <2>2. PICK c : c = call'
    OBVIOUS
  <2>3. c = WithStatus(i, st)
    BY <1>2, <2>1, <2>2, Zenon DEF WithStatus
  <2>4. /\ c \in Seq(Call) /\ DOMAIN c = DOMAIN call
        /\ \A j \in DOMAIN call : c[j].req = call[j].req
        /\ \A j \in DOMAIN call : j # i => c[j] = call[j]
        /\ c[i].status = st /\ c[i].result = call[i].result
        /\ c[i].answer = call[i].answer /\ c[i].during = call[i].during
    BY <1>1, <2>3, StatusCalls
  <2>5. QED
    BY <2>1, <2>2, <2>4, Zenon
<1>4. TypeOK'
  BY <1>1, <1>2, <1>3, Zenon DEF TypeOK
<1>5. \A j \in DOMAIN call : call'[j].during = call[j].during
  BY <1>3, Zenon
<1>6. ShapeInv'
  BY <1>1, <1>2, <1>3, <1>5 DEF ShapeInv
<1>7. QueueInv'
  <2>1. \A j \in DOMAIN call' :
          call'[j].status # "answered" => call'[j].result = "none"
    BY <1>1, <1>2, <1>3, Zenon DEF QueueInv, Pending
  <2>2. \A j \in DOMAIN call : call[j].status \notin {"sending", "answered"}
                            => call'[j].status \notin {"sending", "answered"}
    BY <1>3, Zenon
  <2>3. QED
    BY <1>1, <1>2, <2>1, <2>2 DEF QueueInv, ShapeInv
<1>8. Calm
  <2>1. CallsKept /\ ErrorsOnly
    BY <1>2, <1>3, Zenon DEF CallsKept, ErrorsOnly
  <2>2. OkKept
    BY <1>3, Zenon DEF OkKept
  <2>3. pc \in Logged => batch # <<>>
    BY <1>1 DEF ShapeInv
  <2>4. QED
    BY <1>2, <2>1, <2>2, <2>3, Zenon DEF Calm
<1>9. QED
  BY <1>4, <1>6, <1>7, <1>8, CalmSafe

-----------------------------------------------------------------------------
(* The task receives, drains, and turns requests down.                     *)

(* A request moves from the channel to the batch.                          *)
LEMMA TakeSafe ==
  ASSUME Counting, WriterInv, channel # <<>>,
         pc \in {"recv", "drain"}, pc' = "drain",
         batch' = <<Head(channel)>> \/ batch' = Append(batch, Head(channel)),
         channel' = Tail(channel),
         UNCHANGED <<events, file, torn, mishap, recorded, k, cache, call, starts,
                     base, published>>
  PROVE  WriterInv'
<1>1. TypeOK /\ ShapeInv /\ QueueInv
  BY Zenon DEF WriterInv
<1>2. channel \in Seq(Nat) /\ batch \in Seq(Nat) /\ Len(channel) \in Nat \ {0}
  BY <1>1 DEF TypeOK
<1>3. PICK n \in Nat \ {0} : n = Len(channel)
  BY <1>2, Zenon
<1>4. PICK h \in Nat : h = Head(channel)
  BY <1>2
<1>5. /\ h = channel[1] /\ 1 \in 1..n
      /\ channel' \in Seq(Nat) /\ Len(channel') = n - 1
      /\ \A a \in 1..(n - 1) : channel'[a] = channel[a + 1] /\ a + 1 \in 1..n
  BY <1>2, <1>3, <1>4
<1>6. PICK m \in Nat : m = Len(batch)
  BY <1>2
<1>7. /\ batch' \in Seq(Nat) /\ batch' # <<>>
      /\ \A a \in 1..Len(batch') :
           \/ a = Len(batch') /\ batch'[a] = h
           \/ a \in 1..m /\ batch'[a] = batch[a]
  <2>1. CASE batch' = <<Head(channel)>>
    BY <1>4, <2>1
  <2>2. CASE batch' = Append(batch, Head(channel))
    <3>1. batch' = Append(batch, h)
      BY <1>4, <2>2, Zenon
    <3>2. /\ batch' \in Seq(Nat) /\ batch' # <<>> /\ Len(batch') = m + 1
          /\ \A a \in 1..m : batch'[a] = batch[a]
          /\ batch'[m + 1] = h
      <4>1. PICK c : c = Append(batch, h)
        BY Zenon
      <4>2. /\ c \in Seq(Nat) /\ c # <<>> /\ Len(c) = m + 1
            /\ \A a \in 1..m : c[a] = batch[a]
            /\ c[m + 1] = h
        BY <1>2, <1>6, <4>1, AppendElements, SMTT(30)
      <4>3. QED
        BY <3>1, <4>1, <4>2, Zenon
    <3>3. \A a \in 1..(m + 1) : a = m + 1 \/ a \in 1..m
      OBVIOUS
    <3>4. QED
      BY <3>2, <3>3, Zenon
  <2>3. QED
    BY <2>1, <2>2, Zenon
<1>8. TypeOK'
  BY <1>1, <1>5, <1>7, Zenon DEF TypeOK, Locations
<1>9. /\ \A a \in 1..n : channel[a] \in DOMAIN call
      /\ \A a \in 1..m : batch[a] \in DOMAIN call
      /\ h \in DOMAIN call
  BY <1>1, <1>3, <1>5, <1>6, Zenon DEF ShapeInv
<1>10. ShapeInv'
  <2>1. \A a \in 1..Len(channel') : channel'[a] \in DOMAIN call'
    BY <1>5, <1>9, Zenon
  <2>2. \A a \in 1..Len(batch') : batch'[a] \in DOMAIN call'
    BY <1>7, <1>9, Zenon
  <2>3. \A i \in DOMAIN call' : call'[i].during <= starts'
    BY <1>1, Zenon DEF ShapeInv
  <2>4. QED
    BY <1>7, <2>1, <2>2, <2>3, Zenon DEF ShapeInv, Stopped
<1>11. QueueInv'
  <2>1. \A a \in 1..n : h = channel[a] => a = 1
    BY <1>1, <1>3, <1>5, Zenon DEF QueueInv
  <2>2. \A a \in 1..m : batch[a] # h
    BY <1>1, <1>3, <1>5, <1>6, ZenonT(30) DEF QueueInv
  <2>3. /\ call[h].status \notin {"sending", "answered"}
        /\ \A a \in 1..m : call[batch[a]].status \notin {"sending", "answered"}
        /\ \A a \in 1..n : call[channel[a]].status \notin {"sending", "answered"}
    BY <1>1, <1>3, <1>5, <1>6, Zenon DEF QueueInv
  <2>4. \A a \in 1..Len(channel') :
          call'[channel'[a]].status \notin {"sending", "answered"}
    BY <1>5, <2>3, Zenon
  <2>5. \A a \in 1..Len(batch') :
          call'[batch'[a]].status \notin {"sending", "answered"}
    BY <1>7, <2>3, Zenon
  <2>6. \A a, b \in 1..Len(channel') : channel'[a] = channel'[b] => a = b
    BY <1>1, <1>3, <1>5 DEF QueueInv
  <2>7. \A a, b \in 1..Len(batch') : batch'[a] = batch'[b] => a = b
    BY <1>1, <1>6, <1>7, <2>2, Zenon DEF QueueInv
  <2>8. \A a \in 1..Len(batch'), b \in 1..Len(channel') : batch'[a] # channel'[b]
    <3>1. \A b \in 1..Len(channel') :
            \E c \in 1..n : channel'[b] = channel[c] /\ c # 1
      BY <1>5
    <3>2. \A a \in 1..m, c \in 1..n : batch[a] # channel[c]
      BY <1>1, <1>3, <1>6, Zenon DEF QueueInv
    <3>3. QED
      BY <1>7, <2>1, <3>1, <3>2, SMTT(30)
  <2>9. \A i \in DOMAIN call' :
          call'[i].status # "answered" => call'[i].result = "none"
    BY <1>1, Zenon DEF QueueInv
  <2>10. QED
    BY <2>4, <2>5, <2>6, <2>7, <2>8, <2>9, Zenon DEF QueueInv
<1>12. Calm
  BY Zenon DEF Calm, CallsKept, OkKept, ErrorsOnly
<1>13. QED
  BY <1>8, <1>10, <1>11, <1>12, CalmSafe, Zenon

LEMMA RecvSafe == ASSUME Counting, WriterInv, Recv PROVE WriterInv'
BY TakeSafe, Zenon DEF Recv, disk, dedup, run

LEMMA DrainSafe == ASSUME Counting, WriterInv, Drain PROVE WriterInv'
BY TakeSafe, Zenon DEF Drain, disk, dedup, run

(* A step that changes at most the phase, from draining to serving.        *)
LEMMA IdleSafe ==
  ASSUME Counting, WriterInv, pc' = pc \/ (pc = "drain" /\ pc' = "serve"),
         UNCHANGED <<events, file, torn, mishap, channel, batch, recorded, k,
                     cache, call, starts, base, published>>
  PROVE  WriterInv'
<1>1. TypeOK /\ ShapeInv /\ QueueInv
  BY Zenon DEF WriterInv
<1>2. TypeOK'
  BY <1>1, Zenon DEF TypeOK, Locations
<1>3. ShapeInv'
  BY <1>1, Zenon DEF ShapeInv, Stopped
<1>4. QueueInv'
  BY <1>1, Zenon DEF QueueInv
<1>5. Calm
  <2>1. pc \in Logged => batch # <<>>
    BY <1>1, Zenon DEF ShapeInv
  <2>2. CallsKept /\ OkKept /\ ErrorsOnly
    BY Zenon DEF CallsKept, OkKept, ErrorsOnly
  <2>3. QED
    BY <2>1, <2>2, Zenon DEF Calm
<1>6. QED
  BY <1>2, <1>3, <1>4, <1>5, CalmSafe, Zenon

LEMMA StampSafe == ASSUME Counting, WriterInv, Stamp PROVE WriterInv'
BY IdleSafe, Zenon DEF Stamp, disk, loop, dedup, run

LEMMA ShutdownSafe == ASSUME Counting, WriterInv, Shutdown PROVE WriterInv'
BY IdleSafe, Zenon DEF Shutdown, disk, loop, dedup

(* The request whose turn it is gets its answer: types and queues.         *)
LEMMA FinishShape ==
  ASSUME WriterInv, pc \in {"serve", "respond"}, NEW result \in Results,
         NEW evs \in Seq(RecordedEvent), Finish(result, evs),
         UNCHANGED <<events, channel, recorded, k, starts, base, published>>,
         cache' = cache, file' \in Seq(RecordedEvent),
         torn' \in BOOLEAN, mishap' \in BOOLEAN
  PROVE  /\ TypeOK' /\ ShapeInv' /\ QueueInv' /\ TypeOK /\ ShapeInv
         /\ Head(batch) \in DOMAIN call
         /\ call' = Answered(Head(batch), result, evs)
         /\ pc' \in {"recv", "serve"}
<1>1. TypeOK /\ ShapeInv /\ QueueInv
  BY Zenon DEF WriterInv
<1>2. Head(batch) \in DOMAIN call /\ batch # <<>> /\ batch \in Seq(Nat)
  <2>1. pc \in {"drain", "serve"} \cup Logged
    BY Zenon DEF Logged
  <2>2. QED
    BY <1>1, <2>1, CurrentFields, Zenon DEF TypeOK
<1>3. /\ call' = Answered(Head(batch), result, evs) /\ batch' = Tail(batch)
      /\ pc' = IF Tail(batch) = <<>> THEN "recv" ELSE "serve"
  BY Zenon DEF Finish
<1>4. PICK n \in Nat \ {0} : n = Len(batch)
  BY <1>2
<1>5. PICK h \in DOMAIN call : h = Head(batch)
  BY <1>2, Zenon
<1>6. /\ h = batch[1] /\ 1 \in 1..n
      /\ batch' \in Seq(Nat) /\ Len(batch') = n - 1
      /\ \A a \in 1..(n - 1) : batch'[a] = batch[a + 1] /\ a + 1 \in 1..n
  BY <1>2, <1>3, <1>4, <1>5
<1>7. /\ call' \in Seq(Call) /\ DOMAIN call' = DOMAIN call
      /\ \A i \in DOMAIN call : i # h => call'[i] = call[i]
      /\ \A i \in DOMAIN call :
           call'[i].during = call[i].during \/ call'[i].during = starts
      /\ call'[h].status \notin Pending
  BY <1>1, <1>2, <1>3, <1>5, AnswerEffect, Zenon
<1>8. TypeOK'
  BY <1>1, <1>3, <1>6, <1>7, Zenon DEF TypeOK, Locations
<1>9. \A a \in 1..n : batch[a] \in DOMAIN call
  BY <1>1, <1>4, Zenon DEF ShapeInv
<1>10. ShapeInv'
  <2>1. \A i \in DOMAIN call' : call'[i].during <= starts
    <3>1. starts <= starts /\ \A i \in DOMAIN call : call[i].during <= starts
      BY <1>1, SMTT(30) DEF ShapeInv, TypeOK
    <3>2. QED
      BY <1>7, <3>1, Zenon
  <2>2. \A a \in 1..Len(batch') : batch'[a] \in DOMAIN call'
    BY <1>6, <1>7, <1>9, Zenon
  <2>3. pc' \in {"recv", "serve"} /\ (pc' = "serve" => batch' # <<>>)
    BY <1>3, Zenon
  <2>4. \A a \in 1..Len(channel) : channel[a] \in DOMAIN call'
    BY <1>1, <1>7, Zenon DEF ShapeInv
  <2>5. QED
    BY <2>1, <2>2, <2>3, <2>4, Zenon DEF ShapeInv, Stopped, Logged
<1>11. QueueInv'
  <2>1. \A a \in 1..n : h = batch[a] => a = 1
    BY <1>1, <1>4, <1>6, Zenon DEF QueueInv
  <2>2. \A a \in 1..Len(channel) : channel[a] # h /\ channel[a] \in DOMAIN call
    BY <1>1, <1>4, <1>6, Zenon DEF QueueInv, ShapeInv
  <2>3. /\ \A a \in 1..n : call[batch[a]].status \notin {"sending", "answered"}
        /\ \A a \in 1..Len(channel) :
             call[channel[a]].status \notin {"sending", "answered"}
    BY <1>1, <1>4, Zenon DEF QueueInv
  <2>4. \A a \in 1..Len(channel') :
          call'[channel'[a]].status \notin {"sending", "answered"}
    BY <1>7, <2>2, <2>3, Zenon
  <2>5. \A a \in 1..(n - 1) :
           batch'[a] # h /\ batch'[a] \in DOMAIN call
           /\ call[batch'[a]].status \notin {"sending", "answered"}
    <3>1. \A a \in 1..(n - 1) : \E b \in 1..n : b # 1 /\ batch'[a] = batch[b]
      BY <1>6
    <3>2. QED
      BY <1>9, <2>1, <2>3, <3>1, Zenon
  <2>6. \A a \in 1..Len(batch') :
          call'[batch'[a]].status \notin {"sending", "answered"}
    BY <1>6, <1>7, <2>5, Zenon
  <2>7. \A a, b \in 1..Len(batch') : batch'[a] = batch'[b] => a = b
    <3>1. ASSUME NEW a \in 1..(n - 1), NEW b \in 1..(n - 1), batch'[a] = batch'[b]
          PROVE  a = b
      <4>1. /\ a + 1 \in 1..n /\ b + 1 \in 1..n
            /\ batch[a + 1] = batch[b + 1]
        BY <1>6, <3>1, Zenon
      <4>2. \A i, j \in 1..n : batch[i] = batch[j] => i = j
        BY <1>1, <1>4, Zenon DEF QueueInv
      <4>3. a + 1 = b + 1
        BY <4>1, <4>2, Zenon
      <4>4. QED
        BY <4>3
    <3>2. QED
      BY <1>6, <3>1, Zenon
  <2>8. \A a \in 1..Len(batch'), b \in 1..Len(channel') : batch'[a] # channel'[b]
    <3>1. \A i \in 1..n, b \in 1..Len(channel) : batch[i] # channel[b]
      BY <1>1, <1>4, Zenon DEF QueueInv
    <3>2. QED
      BY <1>6, <3>1
  <2>9. \A i \in DOMAIN call' :
          call'[i].status # "answered" => call'[i].result = "none"
    <3>1. call[h].status \in Pending =>
             call'[h].status = "answered"
      BY <1>1, <1>3, <1>5, AnsweredCalls
    <3>2. call[h].status \notin Pending => call'[h] = call[h]
      BY <1>1, <1>3, <1>5, AnsweredCalls
    <3>3. QED
      BY <1>1, <1>7, <3>1, <3>2, Zenon DEF QueueInv
  <2>10. QED
    BY <1>1, <2>4, <2>6, <2>7, <2>8, <2>9, Zenon DEF QueueInv
<1>12. QED
  BY <1>1, <1>2, <1>3, <1>8, <1>10, <1>11, Zenon

(* The request whose turn it is gets an error.                             *)
LEMMA ErrorSafe ==
  ASSUME Counting, WriterInv, pc = "serve", NEW result \in Results, result # "ok",
         Finish(result, <<>>),
         UNCHANGED <<events, file, torn, mishap, channel, recorded, k, cache,
                     starts, base, published>>
  PROVE  WriterInv'
<1>1. PICK evs \in Seq(RecordedEvent) : evs = <<>>
  <2>1. <<>> \in Seq(RecordedEvent)
    OBVIOUS
  <2>2. QED
    BY <2>1, Zenon
<1>2. Finish(result, evs)
  BY <1>1, Zenon
<1>3. /\ TypeOK' /\ ShapeInv' /\ QueueInv' /\ TypeOK /\ ShapeInv
      /\ Head(batch) \in DOMAIN call
      /\ call' = Answered(Head(batch), result, evs)
      /\ pc' \in {"recv", "serve"}
  <2>1. /\ file' \in Seq(RecordedEvent)
        /\ torn' \in BOOLEAN /\ mishap' \in BOOLEAN
    BY Zenon DEF WriterInv, TypeOK
  <2>2. QED
    BY <1>2, <2>1, FinishShape, Zenon
<1>4. CallsKept /\ OkKept /\ ErrorsOnly
  <2>1. pc \notin Logged
    BY Zenon DEF Logged
  <2>2. QED
    BY <1>3, <2>1, AnswerEffect, Zenon
<1>5. Calm
  BY <1>3, <1>4, Zenon DEF Calm
<1>6. QED
  BY <1>3, <1>5, CalmSafe, Zenon

LEMMA RejectSafe == ASSUME Counting, WriterInv, Reject PROVE WriterInv'
<1>1. "InvalidArgument" \in Results
  BY Zenon DEF Results
<1>2. QED
  BY <1>1, ErrorSafe, Zenon DEF Reject, disk, dedup, run

LEMMA AppendRejectedSafe == ASSUME Counting, WriterInv, AppendRejected PROVE WriterInv'
<1>1. PICK result :
         result = IF VersionAccepted(current.stream_id, current.expected_version)
                  THEN current.validity ELSE "WrongExpectedVersion"
  BY Zenon
<1>2. /\ pc = "serve" /\ Finish(result, <<>>) /\ ~Accepted
      /\ UNCHANGED <<events, file, torn, mishap, channel, recorded, k, cache,
                     starts, base, published>>
  BY <1>1, Zenon DEF AppendRejected, Appending, disk, dedup, run
<1>3. current.validity \in Validity
  BY <1>2, CurrentFields, Zenon DEF WriterInv
<1>4. result \in Results /\ result # "ok"
  BY <1>1, <1>2, <1>3, Zenon DEF Accepted, Validity, Results
<1>5. QED
  BY <1>2, <1>4, ErrorSafe, Zenon

(* What the file is read as once the batch is in it: the batch at the end, *)
(* each event below the new length, or nothing more than before.           *)
LEMMA StoredFields ==
  ASSUME Counting, TypeOK, ShapeInv, PlaceInv, pc = "serve"
  PROVE  /\ Stored \in Seq(RecordedEvent) /\ Len(file) <= Len(Stored)
         /\ Within(Stored, Len(Stored))
         /\ torn \/ Len(events) + Len(Record) <= Len(Stored)
         /\ \A i \in 1..Len(Stored) :
              \/ i \in 1..Len(file) /\ Stored[i] = file[i]
              \/ Stored[i].by = Head(batch)
<1>1. file \in Seq(RecordedEvent) /\ Len(file) \in Nat /\ Len(events) \in Nat
  BY DEF TypeOK
<1>2. Within(file, Len(file)) /\ (torn \/ Len(events) <= Len(file))
  BY Zenon DEF PlaceInv
<1>3. CASE torn
  <2>1. Stored = file
    BY <1>3, Zenon DEF Stored
  <2>2. Len(file) <= Len(file)
    BY <1>1
  <2>3. QED
    BY <1>1, <1>2, <1>3, <2>1, <2>2, Zenon
<1>4. CASE ~torn
  <2>1. PICK t \in Seq(RecordedEvent) : t = Record
    BY RecordFields, Zenon
  <2>2. PICK m \in Nat : m = Len(file)
    BY <1>1, Zenon
  <2>3. PICK n \in Nat : n = Len(t)
    <3>1. Len(t) \in Nat
      OBVIOUS
    <3>2. QED
      BY <3>1, Zenon
  <2>4. /\ Len(events) <= m
        /\ \A j \in 1..n : /\ t[j].global_position = Len(events) + j - 1
                           /\ t[j].by = Head(batch)
    BY <1>2, <1>4, <2>1, <2>2, <2>3, RecordFields, Zenon
  <2>5. Stored = file \o t
    BY <1>4, <2>1, Zenon DEF Stored
  <2>6. /\ Stored \in Seq(RecordedEvent) /\ Len(Stored) = m + n
        /\ \A i \in 1..m : Stored[i] = file[i]
        /\ \A j \in 1..n : Stored[m + j] = t[j]
        /\ \A i \in 1..(m + n) : i \in 1..m \/ \E j \in 1..n : i = m + j
    <3>1. /\ file \o t \in Seq(RecordedEvent) /\ Grows(file, file \o t)
          /\ Len(file \o t) = Len(file) + Len(t)
          /\ \A j \in 1..Len(t) : (file \o t)[Len(file) + j] = t[j]
          /\ \A i \in 1..Len(file \o t) :
               i \in 1..Len(file) \/ \E j \in 1..Len(t) : i = Len(file) + j
      BY <1>1, ConcatGrows, Zenon
    <3>2. QED
      BY <2>2, <2>3, <2>5, <3>1, Zenon DEF Grows
  <2>7. ASSUME NEW i \in 1..(m + n)
        PROVE  Stored[i].global_position < m + n
    <3>1. ASSUME i \in 1..m
          PROVE  Stored[i].global_position < m + n
      <4>1. file[i].global_position \in Nat /\ file[i].global_position < m
        BY <1>1, <1>2, <2>2, <3>1, EventFields, Zenon DEF Within
      <4>2. PICK p \in Nat : p = file[i].global_position
        BY <4>1, Zenon
      <4>3. p < m + n
        BY <4>1, <4>2
      <4>4. QED
        BY <2>6, <3>1, <4>2, <4>3, Zenon
    <3>2. ASSUME NEW j \in 1..n, i = m + j
          PROVE  Stored[i].global_position < m + n
      <4>1. Stored[i].global_position = Len(events) + j - 1
        BY <2>4, <2>6, <3>2, Zenon
      <4>2. Len(events) + j - 1 < m + n
        BY <1>1, <2>4
      <4>3. QED
        BY <4>1, <4>2, Zenon
    <3>3. QED
      BY <2>6, <3>1, <3>2, Zenon
  <2>8. \A i \in 1..(m + n) :
          \/ i \in 1..m /\ Stored[i] = file[i]
          \/ Stored[i].by = Head(batch)
    BY <2>4, <2>6, Zenon
  <2>9. m <= m + n /\ Len(events) + n <= m + n
    BY <1>1, <2>4
  <2>10. QED
    BY <2>1, <2>2, <2>3, <2>6, <2>7, <2>8, <2>9, Zenon DEF Within
<1>5. QED
  BY <1>3, <1>4, Zenon

(* The write fails and leaves bytes in the file.                           *)
LEMMA LeftBehindSafe ==
  ASSUME Counting, WriterInv, pc = "serve", Finish("Io", <<>>),
         file' = file \/ file' = Stored, torn' = torn \/ torn' = TRUE,
         mishap' = TRUE,
         UNCHANGED <<events, channel, recorded, k, cache, starts, base,
                     published>>
  PROVE  WriterInv'
<1>1. /\ TypeOK /\ ShapeInv /\ QueueInv /\ PlaceInv /\ OutcomeInv
      /\ PublishInv /\ AnsweredArePublished
  BY Zenon DEF WriterInv
<1>2. /\ Stored \in Seq(RecordedEvent) /\ Len(file) <= Len(Stored)
      /\ Within(Stored, Len(Stored))
      /\ torn \/ Len(events) + Len(Record) <= Len(Stored)
      /\ \A i \in 1..Len(Stored) :
           (i \in 1..Len(file) /\ Stored[i] = file[i]) \/ Stored[i].by = Head(batch)
  BY <1>1, StoredFields, Zenon
<1>3. "Io" \in Results /\ "Io" # "ok" /\ pc \notin Logged /\ pc \notin Stopped
  BY Zenon DEF Results, Logged, Stopped
<1>4. PICK evs \in Seq(RecordedEvent) : evs = <<>>
  <2>1. <<>> \in Seq(RecordedEvent)
    OBVIOUS
  <2>2. QED
    BY <2>1, Zenon
<1>5. Finish("Io", evs)
  BY <1>4, Zenon
<1>6. /\ TypeOK' /\ ShapeInv' /\ QueueInv'
      /\ Head(batch) \in DOMAIN call
      /\ call' = Answered(Head(batch), "Io", evs)
      /\ pc' \in {"recv", "serve"}
  <2>1. /\ file' \in Seq(RecordedEvent)
        /\ torn' \in BOOLEAN /\ mishap' \in BOOLEAN
    BY <1>1, <1>2, Zenon DEF TypeOK
  <2>2. QED
    BY <1>3, <1>5, <2>1, FinishShape, Zenon
<1>7. /\ CallsKept /\ OkKept /\ ErrorsOnly
      /\ call'[Head(batch)].status \notin Pending
      /\ \/ call'[Head(batch)].result = "Io"
         \/ call'[Head(batch)] = call[Head(batch)]
  BY <1>1, <1>3, <1>6, AnswerEffect, Zenon
<1>8. MovesOn
  BY <1>3, Zenon DEF MovesOn
<1>9. Settled(file)'
  <2>1. call'[Head(batch)].result \in {"none", "ok", "Io"}
    <3>1. call[Head(batch)].result = "none"
      BY <1>1, <1>6, HeadUnanswered, Zenon
    <3>2. QED
      BY <1>7, <3>1, Zenon
  <2>2. ASSUME NEW i \in 1..Len(file)
        PROVE  /\ file[i].by \in DOMAIN call'
               /\ call'[file[i].by].result \in {"none", "ok", "Io"}
               /\ call'[file[i].by].status \in Pending =>
                    pc' \in Logged /\ file[i].by = Head(batch')
    BY <1>1, <1>7, <1>8, SettledQuiet, Zenon DEF OutcomeInv
  <2>3. Head(batch) \in DOMAIN call'
    BY <1>6, <1>7, Zenon DEF CallsKept
  <2>4. ASSUME NEW i \in 1..Len(Stored)
        PROVE  /\ Stored[i].by \in DOMAIN call'
               /\ call'[Stored[i].by].result \in {"none", "ok", "Io"}
               /\ call'[Stored[i].by].status \in Pending =>
                    pc' \in Logged /\ Stored[i].by = Head(batch')
    BY <1>2, <1>7, <2>1, <2>2, <2>3, Zenon
  <2>5. QED
    BY <2>2, <2>4, Zenon DEF Settled
<1>10. OutcomeInv'
  BY <1>1, <1>3, <1>7, <1>8, <1>9, EventsQuiet, Zenon DEF OutcomeInv
<1>11. PlaceInv'
  <2>1. Within(events, Len(events)) /\ Within(file, Len(file))
        /\ (torn \/ Len(events) <= Len(file))
        /\ \A id \in DOMAIN cache : Within(cache[id], Len(events))
    BY <1>1, Zenon DEF PlaceInv
  <2>2. torn \/ Len(events) <= Len(Stored)
    BY <1>1, <1>2, <2>1 DEF TypeOK
  <2>3. Within(file, Len(file))' /\ (torn \/ Len(events) <= Len(file))'
    <3>1. torn => torn'
      BY Zenon
    <3>2. CASE file' = file
      BY <2>1, <3>1, <3>2, Zenon DEF Within
    <3>3. CASE file' = Stored
      BY <1>2, <2>2, <3>1, <3>3, Zenon DEF Within
    <3>4. QED
      BY <3>2, <3>3, Zenon
  <2>4. QED
    BY <2>1, <2>3, Zenon DEF PlaceInv, Within
<1>12. /\ ~NothingForgotten' /\ FileInv' /\ LogInv' /\ VersionsInv'
       /\ CacheInv' /\ AnswersInv'
  BY Zenon DEF NothingForgotten, FileInv, LogInv, VersionsInv, CacheInv,
               AnswersInv
<1>13. NoEventTwice' /\ IndexedInv' /\ RetryInv' /\ SameAnswer'
  BY <1>12, Zenon DEF NoEventTwice, IndexedInv, RetryInv, SameAnswer
<1>14. RecordedInv'
  BY <1>6, Zenon DEF RecordedInv, Logged
<1>15. PublishInv' /\ AnsweredArePublished'
  <2>1. PublishInv'
    BY <1>1, <1>3, <1>6, Zenon DEF PublishInv, PublishedInOrder
  <2>2. QED
    BY <1>1, <1>3, <1>7, <2>1, AnsweredKept, Zenon
<1>16. QED
  BY <1>6, <1>10, <1>11, <1>12, <1>13, <1>14, <1>15, Zenon DEF WriterInv

LEMMA AppendFailsSafe == ASSUME Counting, WriterInv, AppendFails PROVE WriterInv'
<1>1. "Io" \in Results /\ "Io" # "ok"
  BY Zenon DEF Results
<1>2. /\ pc = "serve" /\ Finish("Io", <<>>) /\ FailedWrite
      /\ UNCHANGED <<events, channel, recorded, k, cache, starts, base,
                     published>>
  BY Zenon DEF AppendFails, Appending, dedup, run
<1>3. CASE UNCHANGED disk
  BY <1>1, <1>2, <1>3, ErrorSafe, Zenon DEF disk
<1>4. CASE /\ file' = file \/ file' = Stored
           /\ torn' = torn \/ torn' = TRUE
           /\ mishap' = TRUE
  BY <1>2, <1>4, LeftBehindSafe, Zenon
<1>5. QED
  BY <1>2, <1>3, <1>4, Zenon DEF FailedWrite

-----------------------------------------------------------------------------
(* Ok answers: from the index, or after append.                            *)

(* The events of a piece of the log are before its end.                    *)
LEMMA PieceWithin ==
  ASSUME TypeOK, PlaceInv, NEW evs \in Seq(RecordedEvent), Piece(evs, events)
  PROVE  Within(evs, Len(events))
<1>1. SUFFICES ASSUME NEW j \in 1..Len(evs)
               PROVE  evs[j].global_position < Len(events)
  BY Zenon DEF Within
<1>2. evs # <<>> /\ 1 \in 1..Len(evs)
  BY DEF Piece
<1>3. PICK p \in Nat : p = evs[1].global_position
  BY <1>2, EventFields, Zenon
<1>4. p + j <= Len(events) /\ events[p + j] = evs[j]
  BY <1>3, Zenon DEF Piece
<1>5. Len(events) \in Nat
  BY DEF TypeOK
<1>6. p + j \in 1..Len(events)
  BY <1>4, <1>5
<1>7. QED
  BY <1>4, <1>6, Zenon DEF PlaceInv, Within

(* It is a piece of the log with the first event of the request, unless a  *)
(* failed append has left bytes in the file.                               *)
Answers(evs) ==
  ~mishap => Piece(evs, events) /\ Has(evs, current.events[1])

(* What the index holds for the request, or would, goes to the caller; it  *)
(* is a piece of the log if no failed append has left bytes in the file.   *)
LEMMA OkSafe ==
  ASSUME WriterInv, pc \in {"serve", "respond"},
         NEW evs \in Seq(RecordedEvent), Finish("ok", evs),
         UNCHANGED <<events, file, torn, mishap, channel, recorded, k, cache,
                     starts, base, published>>,
         Within(evs, Len(events)),
         Answers(evs),
         NothingForgotten /\ IdsNotShared =>
           /\ current.events[1] \in DOMAIN cache
           /\ cache[current.events[1]] = evs
           /\ \A j \in DOMAIN call :
                AnsweredNow(j) /\ call[j].req = current => call[j].answer = evs
  PROVE  WriterInv'
<1>1. /\ FileInv /\ PlaceInv /\ LogInv /\ VersionsInv /\ OutcomeInv /\ CacheInv
      /\ AnswersInv /\ RecordedInv /\ PublishInv /\ AnsweredArePublished
      /\ IndexedInv /\ NoEventTwice /\ RetryInv /\ SameAnswer
  BY Zenon DEF WriterInv
<1>2. "ok" \in Results
  BY Zenon DEF Results
<1>3. /\ TypeOK' /\ ShapeInv' /\ QueueInv' /\ TypeOK /\ ShapeInv
      /\ Head(batch) \in DOMAIN call
      /\ call' = Answered(Head(batch), "ok", evs)
      /\ pc' \in {"recv", "serve"}
  <2>1. /\ file' \in Seq(RecordedEvent)
        /\ torn' \in BOOLEAN /\ mishap' \in BOOLEAN
    BY Zenon DEF WriterInv, TypeOK
  <2>2. QED
    BY <1>2, <2>1, FinishShape, Zenon
<1>4. PICK h \in DOMAIN call : h = Head(batch)
  BY <1>3, Zenon
<1>5. /\ DOMAIN call' = DOMAIN call /\ CallsKept /\ OkNew(evs)
      /\ call'[h].status \notin Pending
      /\ \A i \in DOMAIN call : i # h => call'[i] = call[i]
      /\ call'[h].result = "ok" \/ call'[h] = call[h]
  BY <1>2, <1>3, <1>4, AnswerEffect, Zenon
<1>6. /\ events' = events /\ file' = file /\ torn' = torn /\ mishap' = mishap
      /\ cache' = cache /\ starts' = starts /\ (mishap => mishap')
      /\ base' = base /\ published' = published
  BY Zenon
<1>7. LogInv' /\ VersionsInv' /\ NoEventTwice'
  BY <1>1, <1>3, <1>5, <1>6, LogQuiet, Zenon
<1>8. OutcomeInv'
  <2>1. ASSUME NEW log, Settled(log), NEW i \in 1..Len(log)
        PROVE  /\ log[i].by \in DOMAIN call'
               /\ call'[log[i].by].result \in {"none", "ok", "Io"}
               /\ call'[log[i].by].status \notin Pending
    <3>1. PICK c \in DOMAIN call : c = log[i].by
      BY <2>1, Zenon DEF Settled
    <3>2. /\ call[c].result \in {"none", "ok", "Io"}
          /\ call[c].status \in Pending => c = h
      BY <1>4, <2>1, <3>1, Zenon DEF Settled
    <3>3. QED
      BY <1>5, <3>1, <3>2, Zenon
  <2>2. Settled(events)' /\ Settled(file)'
    BY <1>1, <1>6, <2>1, Zenon DEF OutcomeInv, Settled
  <2>3. ASSUME NEW i \in 1..Len(events)
        PROVE  \/ call'[events[i].by].result \in {"none", "ok"}
               \/ /\ call'[events[i].by].result = "Io"
                  /\ call'[events[i].by].during < starts
    <3>1. PICK c \in DOMAIN call : c = events[i].by
      BY <1>1, Zenon DEF OutcomeInv, Settled
    <3>2. pc \notin Stopped
      BY Zenon DEF Stopped
    <3>3. \/ call[c].result \in {"none", "ok"}
          \/ call[c].result = "Io" /\ call[c].during < starts
      BY <1>1, <3>1, <3>2, Zenon DEF OutcomeInv, ErrorsLeaveNothing
    <3>4. QED
      BY <1>5, <3>1, <3>3, Zenon
  <2>4. ErrorsLeaveNothing'
    BY <1>6, <2>3, Zenon DEF ErrorsLeaveNothing
  <2>5. QED
    BY <2>2, <2>4, Zenon DEF OutcomeInv
<1>9. Grows(events, events') /\ CacheInv'
  <2>1. Grows(events, events')
    BY <1>3, <1>6 DEF Grows, TypeOK
  <2>2. QED
    BY <1>1, <1>3, <1>6, <2>1, CacheKept, Zenon
<1>10. ASSUME NEW i \in DOMAIN call', call'[i].result = "ok"
       PROVE  /\ i \in DOMAIN call /\ call'[i].req = call[i].req
              /\ \/ /\ call[i].result = "ok" /\ call'[i].answer = call[i].answer
                    /\ call'[i].during = call[i].during
                 \/ /\ call[i].req = current
                    /\ call'[i].answer = evs /\ call'[i].during = starts
  BY <1>5, <1>10, Zenon DEF OkNew, current
<1>11. AnswersInv'
  <2>1. SUFFICES ASSUME ~mishap, NEW i \in DOMAIN call', call'[i].result = "ok"
                 PROVE  /\ Piece(call'[i].answer, events)
                        /\ Has(call'[i].answer, call'[i].req.events[1])
    BY <1>6, Zenon DEF AnswersInv
  <2>2. /\ i \in DOMAIN call /\ call'[i].req = call[i].req
        /\ \/ call[i].result = "ok" /\ call'[i].answer = call[i].answer
           \/ call[i].req = current /\ call'[i].answer = evs
    BY <1>10, <2>1, Zenon
  <2>3. CASE call[i].result = "ok" /\ call'[i].answer = call[i].answer
    BY <1>1, <2>1, <2>2, <2>3, Zenon DEF AnswersInv
  <2>4. CASE call[i].req = current /\ call'[i].answer = evs
    BY <2>1, <2>2, <2>4, Zenon DEF Answers
  <2>5. QED
    BY <2>2, <2>3, <2>4, Zenon
<1>12. base + Len(published) = Len(events)
  BY <1>1, Zenon DEF PublishInv
<1>13. PublishInv' /\ RecordedInv'
  <2>1. PublishedInOrder'
    BY <1>1, <1>3, <1>6, Zenon DEF PublishInv, PublishedInOrder, Stopped
  <2>2. QED
    BY <1>3, <1>6, <1>12, <2>1, Zenon DEF PublishInv, RecordedInv, Logged
<1>14. AnsweredArePublished'
  <2>1. SUFFICES ASSUME NEW i \in DOMAIN call', call'[i].result = "ok",
                        call'[i].during = starts, NEW j \in 1..Len(call'[i].answer)
                 PROVE  call'[i].answer[j].global_position < base + Len(published)
    BY <1>6, Zenon DEF AnsweredArePublished
  <2>2. CASE /\ i \in DOMAIN call /\ call[i].result = "ok"
             /\ call'[i].answer = call[i].answer /\ call'[i].during = call[i].during
    BY <1>1, <2>1, <2>2, Zenon DEF AnsweredArePublished, Stopped
  <2>3. CASE call'[i].answer = evs
    BY <1>12, <2>1, <2>3, Zenon DEF Within
  <2>4. QED
    BY <1>10, <2>1, <2>2, <2>3, Zenon
<1>15. IndexedInv' /\ NothingForgotten' = NothingForgotten
  <2>1. NothingForgotten' = NothingForgotten
    BY <1>6 DEF NothingForgotten
  <2>2. Indexed' = Len(events) /\ Indexed = Len(events)
    BY <1>3, <1>6, Zenon DEF Indexed
  <2>3. QED
    BY <1>1, <1>6, <2>1, <2>2, Zenon DEF IndexedInv
<1>16. RetryInv'
  <2>1. pc' \notin Logged /\ pc \notin Stopped \cup {"dead"}
    BY <1>3, Zenon DEF Logged, Stopped
  <2>2. SUFFICES ASSUME NothingForgotten, IdsNotShared,
                        NEW i \in DOMAIN call', AnsweredNow(i)'
                 PROVE  /\ call'[i].req.events[1] \in DOMAIN cache
                        /\ cache[call'[i].req.events[1]] = call'[i].answer
    BY <1>6, <1>15, <2>1, Zenon DEF RetryInv
  <2>3. call'[i].result = "ok" /\ call'[i].during = starts
    BY <1>6, <2>2, Zenon DEF AnsweredNow
  <2>4. CASE /\ call[i].result = "ok" /\ call'[i].answer = call[i].answer
             /\ call'[i].during = call[i].during
    <3>1. AnsweredNow(i) /\ i \in DOMAIN call /\ call'[i].req = call[i].req
      BY <1>10, <2>2, <2>3, <2>4, Zenon DEF AnsweredNow
    <3>2. QED
      BY <1>1, <2>1, <2>2, <2>4, <3>1, Zenon DEF RetryInv
  <2>5. CASE call[i].req = current /\ call'[i].answer = evs
    BY <1>10, <2>2, <2>3, <2>5, Zenon
  <2>6. QED
    BY <1>10, <2>2, <2>3, <2>4, <2>5, Zenon
<1>17. SameAnswer'
  <2>1. SUFFICES ASSUME NothingForgotten, IdsNotShared,
                        NEW i \in DOMAIN call', NEW j \in DOMAIN call',
                        call'[i].result = "ok", call'[j].result = "ok",
                        call'[i].req = call'[j].req,
                        call'[i].during = call'[j].during
                 PROVE  call'[i].answer = call'[j].answer
    BY <1>15, Zenon DEF SameAnswer
  <2>2. ASSUME NEW x \in DOMAIN call', call'[x].result = "ok",
               call'[x].req = current, call'[x].during = starts
        PROVE  call'[x].answer = evs
    <3>1. CASE /\ call[x].result = "ok" /\ call'[x].answer = call[x].answer
               /\ call'[x].during = call[x].during
      <4>1. AnsweredNow(x) /\ x \in DOMAIN call /\ call[x].req = current
        BY <1>10, <2>2, <3>1, Zenon DEF AnsweredNow
      <4>2. QED
        BY <2>1, <3>1, <4>1, Zenon
    <3>2. QED
      BY <1>10, <2>2, <3>1, Zenon
  <2>3. CASE /\ call[i].result = "ok" /\ call'[i].answer = call[i].answer
             /\ call'[i].during = call[i].during
             /\ call[j].result = "ok" /\ call'[j].answer = call[j].answer
             /\ call'[j].during = call[j].during
    <3>1. /\ i \in DOMAIN call /\ j \in DOMAIN call
          /\ call'[i].req = call[i].req /\ call'[j].req = call[j].req
      BY <1>10, <2>1, Zenon
    <3>2. QED
      BY <1>1, <2>1, <2>3, <3>1, Zenon DEF SameAnswer
  <2>4. CASE call[i].req = current /\ call'[i].during = starts
    <3>1. call'[i].req = current
      BY <1>10, <2>1, <2>4, Zenon
    <3>2. QED
      BY <2>1, <2>2, <2>4, <3>1, Zenon
  <2>5. CASE call[j].req = current /\ call'[j].during = starts
    <3>1. call'[j].req = current
      BY <1>10, <2>1, <2>5, Zenon
    <3>2. QED
      BY <2>1, <2>2, <2>5, <3>1, Zenon
  <2>6. QED
    BY <1>10, <2>1, <2>3, <2>4, <2>5, Zenon
<1>18. FileInv' /\ PlaceInv'
  BY <1>1, <1>6, FileQuiet, Zenon
<1>19. QED
  BY <1>3, <1>7, <1>8, <1>9, <1>11, <1>13, <1>14, <1>15, <1>16, <1>17, <1>18,
     Zenon DEF WriterInv

LEMMA DedupHitSafe == ASSUME WriterInv, DedupHit PROVE WriterInv'
<1>1. /\ TypeOK /\ ShapeInv /\ PlaceInv /\ CacheInv /\ RetryInv
      /\ pc = "serve" /\ current.events[1] \in DOMAIN cache
      /\ Finish("ok", cache[current.events[1]])
      /\ UNCHANGED <<events, file, torn, mishap, channel, recorded, k, cache,
                     starts, base, published>>
  BY Zenon DEF WriterInv, DedupHit, Known, Touch, disk, run
<1>2. PICK evs \in Seq(RecordedEvent) : evs = cache[current.events[1]]
  BY <1>1, Zenon DEF TypeOK
<1>3. Answers(evs) /\ Within(evs, Len(events))
  BY <1>1, <1>2, Zenon DEF CacheInv, PlaceInv, Answers
<1>4. ASSUME NothingForgotten /\ IdsNotShared, NEW j \in DOMAIN call,
             AnsweredNow(j) /\ call[j].req = current
      PROVE  call[j].answer = evs
  <2>1. pc \notin Stopped \cup {"dead"}
    BY <1>1, Zenon DEF Stopped
  <2>2. QED
    BY <1>1, <1>2, <1>4, <2>1, Zenon DEF RetryInv
<1>5. Finish("ok", evs)
  BY <1>1, <1>2, Zenon
<1>6. QED
  BY <1>1, <1>2, <1>3, <1>4, <1>5, OkSafe, Zenon

LEMMA RespondSafe == ASSUME WriterInv, Respond PROVE WriterInv'
<1>1. /\ TypeOK /\ ShapeInv /\ PlaceInv /\ RecordedInv /\ RetryInv
      /\ pc = "respond" /\ Finish("ok", recorded)
      /\ UNCHANGED <<events, file, torn, mishap, channel, recorded, k, cache,
                     starts, base, published>>
  BY Zenon DEF WriterInv, Respond, disk, dedup, run
<1>2. PICK evs \in Seq(RecordedEvent) : evs = recorded
  BY <1>1, Zenon DEF TypeOK
<1>3. pc \in Logged
  BY <1>1, Zenon DEF Logged
<1>4. /\ Piece(evs, events) /\ Len(evs) = Len(current.events)
      /\ \A j \in 1..Len(evs) : evs[j].event_id = current.events[j]
  BY <1>1, <1>2, <1>3, Zenon DEF RecordedInv
<1>5. 1 \in 1..Len(evs) /\ evs[1].event_id = current.events[1]
  BY <1>2, <1>4 DEF Piece
<1>6. Answers(evs) /\ Within(evs, Len(events))
  BY <1>1, <1>4, <1>5, PieceWithin, Zenon DEF Has, Answers
<1>7. ASSUME NothingForgotten /\ IdsNotShared
      PROVE  /\ current.events[1] \in DOMAIN cache
             /\ cache[current.events[1]] = evs
             /\ \A j \in DOMAIN call :
                  AnsweredNow(j) /\ call[j].req = current => call[j].answer = evs
  <2>1. /\ \A i \in DOMAIN call : AnsweredNow(i) => call[i].req # current
        /\ \A j \in 1..Len(recorded) :
             /\ recorded[j].event_id \in DOMAIN cache
             /\ cache[recorded[j].event_id] = recorded
    BY <1>1, <1>3, <1>7, Zenon DEF RetryInv
  <2>2. QED
    BY <1>2, <1>5, <2>1, Zenon
<1>8. Finish("ok", evs)
  BY <1>1, <1>2, Zenon
<1>9. QED
  BY <1>1, <1>4, <1>6, <1>7, <1>8, OkSafe, Zenon

-----------------------------------------------------------------------------
(* A fresh batch: append, dedup.record, broker.publish.                    *)

(* What append recorded is the end of the log that it leaves.              *)
LEMMA RecordIsEnd ==
  ASSUME Counting, TypeOK, ShapeInv, OutcomeInv, Appends
  PROVE  /\ Record \in Seq(RecordedEvent) /\ Len(Record) = Len(current.events)
         /\ Len(Record) \in Nat \ {0}
         /\ Piece(Record, events') /\ Record[1].global_position = Len(events)
         /\ Len(events) + Len(Record) = Len(events')
<1>1. /\ pc = "serve" /\ Len(events) \in Nat
      /\ Len(current.events) \in Nat \ {0}
      /\ Len(events') = Len(events) + Len(current.events)
  BY AppendsEvents, Zenon
<1>2. PICK t \in Seq(RecordedEvent) : t = Record
  BY <1>1, RecordFields, Zenon
<1>3. PICK n \in Nat \ {0} : n = Len(current.events)
  BY <1>1, Zenon
<1>4. PICK m \in Nat : m = Len(events)
  BY <1>1, Zenon
<1>5. Len(t) = n /\ t[1].global_position = m
  BY <1>1, <1>2, <1>3, <1>4, RecordFields
<1>6. ASSUME NEW j \in 1..n
      PROVE  m + j <= Len(events') /\ events'[m + j] = t[j]
  <2>1. events' = events \o t /\ events \in Seq(RecordedEvent)
    BY <1>2, Zenon DEF Appends, TypeOK
  <2>2. (events \o t)[Len(events) + j] = t[j]
    BY <1>5, <2>1, ConcatGrows, Zenon
  <2>3. QED
    BY <1>1, <1>3, <1>4, <2>1, <2>2
<1>7. Piece(t, events')
  BY <1>5, <1>6, Zenon DEF Piece
<1>8. QED
  BY <1>1, <1>2, <1>3, <1>4, <1>5, <1>7, Zenon

(* The log has grown by the batch; the index and the broker are behind.    *)
LEMMA AppendSucceedsSafe == ASSUME Counting, WriterInv, AppendSucceeds PROVE WriterInv'
<1>1. /\ TypeOK /\ ShapeInv /\ QueueInv /\ FileInv /\ PlaceInv
      /\ LogInv /\ VersionsInv /\ OutcomeInv
      /\ CacheInv /\ AnswersInv /\ PublishInv /\ AnsweredArePublished
      /\ IndexedInv /\ NoEventTwice /\ RetryInv /\ SameAnswer
  BY Zenon DEF WriterInv
<1>2. /\ Appending /\ Accepted /\ pc = "serve"
      /\ recorded' = Record /\ events' = events \o Record
      /\ pc' = "record" /\ k' = 1 /\ file' = Stored
      /\ UNCHANGED <<torn, mishap, channel, batch, cache, call, starts, base, published>>
  BY Zenon DEF AppendSucceeds, Appending, dedup, run
<1>3. CallsKept /\ OkKept /\ current' = current
  BY <1>2, Zenon DEF CallsKept, OkKept, current
<1>4. Appends
  BY <1>2, <1>3, Zenon DEF Appends
<1>5. /\ Head(batch) \in DOMAIN call
      /\ events' \in Seq(RecordedEvent) /\ Grows(events, events')
      /\ Len(events) \in Nat
      /\ \A i \in 1..Len(events') :
           OldEvent(i) \/ \E j \in 1..Len(current.events) : NewEvent(i, j)
      /\ \A i \in 1..Len(events) : OldEvent(i)
  BY <1>1, <1>4, AppendsEvents, Zenon
<1>6. /\ recorded' \in Seq(RecordedEvent)
      /\ Len(recorded') = Len(current.events) /\ Len(recorded') \in Nat \ {0}
      /\ Piece(recorded', events')
      /\ recorded'[1].global_position = Len(events)
      /\ Len(events) + Len(recorded') = Len(events')
  BY <1>1, <1>2, <1>4, RecordIsEnd, Zenon
<1>7. TypeOK'
  <2>1. file' \in Seq(RecordedEvent)
    BY <1>1, <1>2, StoredFields, Zenon
  <2>2. k' \in Nat \ {0}
    BY <1>2
  <2>3. QED
    BY <1>1, <1>2, <1>5, <1>6, <2>1, <2>2, Zenon DEF TypeOK, Locations
<1>8. ShapeInv' /\ QueueInv'
  <2>1. QueueInv'
    BY <1>1, <1>2, Zenon DEF QueueInv
  <2>2. batch # <<>> /\ k' <= Len(recorded')
    BY <1>1, <1>2, <1>6 DEF ShapeInv
  <2>3. \A i \in DOMAIN call : call[i].during <= starts
    BY <1>1, Zenon DEF ShapeInv
  <2>4. ShapeInv'
    BY <1>1, <1>2, <2>2, <2>3, Zenon DEF ShapeInv, Stopped
  <2>5. QED
    BY <2>1, <2>4, Zenon
<1>9. LogInv' /\ VersionsInv' /\ NoEventTwice'
  BY <1>1, <1>2, <1>4, <1>7, LogGrows, VersionsGrow, TwiceGrows, Zenon
<1>10. OutcomeInv'
  <2>1. call[Head(batch)].result = "none" /\ pc' \in Logged
        /\ pc \notin Stopped /\ pc \notin Logged
    BY <1>1, <1>2, HeadUnanswered, Zenon DEF Logged, Stopped
  <2>2. ASSUME NEW i \in 1..Len(events')
        PROVE  \/ i \in 1..Len(events) /\ events'[i] = events[i]
               \/ events'[i].by = Head(batch)
    BY <1>5, Zenon DEF OldEvent, NewEvent
  <2>3. ASSUME NEW i \in 1..Len(file')
        PROVE  \/ i \in 1..Len(file) /\ file'[i] = file[i]
               \/ file'[i].by = Head(batch)
    BY <1>1, <1>2, StoredFields, Zenon
  <2>4. ASSUME NEW log, Settled(log), NEW i \in 1..Len(log)
        PROVE  /\ log[i].by \in DOMAIN call
               /\ call[log[i].by].result \in {"none", "ok", "Io"}
               /\ call[log[i].by].status \notin Pending
    BY <2>1, <2>4, Zenon DEF Settled
  <2>5. Settled(events)'
    BY <1>1, <1>2, <1>5, <2>1, <2>2, <2>4, Zenon DEF OutcomeInv, Settled
  <2>6. Settled(file)'
    BY <1>1, <1>2, <1>5, <2>1, <2>3, <2>4, Zenon DEF OutcomeInv, Settled
  <2>7. ErrorsLeaveNothing'
    BY <1>1, <1>2, <2>1, <2>2, Zenon DEF OutcomeInv, ErrorsLeaveNothing
  <2>8. QED
    BY <2>5, <2>6, <2>7, Zenon DEF OutcomeInv
<1>11. CacheInv' /\ AnswersInv' /\ AnsweredArePublished' /\ SameAnswer'
  <2>1. pc \in Stopped => pc' \in Stopped
    BY <1>2, Zenon DEF Stopped
  <2>2. QED
    BY <2>1, <1>1, <1>2, <1>3, <1>5, <1>7, CacheKept, AnswersKept, AnsweredKept,
       SameKept, Zenon
<1>12. RecordedInv'
  <2>1. \A j \in 1..Len(recorded') : recorded'[j].event_id = current.events[j]
    BY <1>1, <1>2, <1>6, RecordFields, Zenon
  <2>2. QED
    BY <1>3, <1>6, <2>1, Zenon DEF RecordedInv
<1>13. PublishInv'
  <2>1. base + Len(published) = Len(events) /\ PublishedInOrder
    BY <1>1, <1>2, Zenon DEF PublishInv
  <2>2. PublishedInOrder'
    BY <1>1, <1>2, <1>5, <1>7, <2>1, OrderKept, Zenon DEF Stopped
  <2>3. QED
    BY <1>2, <1>6, <2>1, <2>2, Zenon DEF PublishInv
<1>14. NothingForgotten' => NothingForgotten
  BY <1>1, <1>2, <1>5, <1>7, ForgottenGrows, Zenon
<1>15. IndexedInv'
  <2>1. Indexed' = Len(events) /\ Indexed = Len(events)
    BY <1>2, <1>5, <1>6 DEF Indexed
  <2>2. \A i \in 1..Len(events) : events'[i] = events[i]
    BY <1>5, Zenon DEF Grows
  <2>3. QED
    BY <1>1, <1>2, <1>14, <2>1, <2>2, Zenon DEF IndexedInv
<1>16. RetryInv'
  <2>1. pc \notin Stopped \cup {"dead"} /\ \A i : AnsweredNow(i)' = AnsweredNow(i)
    BY <1>2, Zenon DEF Stopped, AnsweredNow
  <2>2. ASSUME NothingForgotten', IdsNotShared
        PROVE  \A i \in DOMAIN call : AnsweredNow(i) =>
                  /\ call[i].req.events[1] \in DOMAIN cache
                  /\ cache[call[i].req.events[1]] = call[i].answer
    BY <1>1, <1>14, <2>1, <2>2, Zenon DEF RetryInv
  <2>3. current.events[1] \notin DOMAIN cache
    BY <1>2, Zenon DEF Appending, Known
  <2>4. ASSUME NothingForgotten', IdsNotShared
        PROVE  \A i \in DOMAIN call : AnsweredNow(i) => call[i].req # current
    BY <2>2, <2>3, <2>4, Zenon
  <2>5. ~ \E j \in 1..Len(recorded') : pc' # "record" \/ j < k'
    BY <1>2, <1>6
  <2>6. QED
    BY <1>2, <1>3, <2>1, <2>2, <2>4, <2>5, Zenon DEF RetryInv
<1>17. FileInv'
  <2>1. SUFFICES ASSUME ~mishap PROVE file' = events' /\ ~torn'
    BY <1>2, Zenon DEF FileInv
  <2>2. file = events /\ ~torn
    BY <1>1, <2>1, Zenon DEF FileInv
  <2>3. QED
    BY <1>2, <2>2, Zenon DEF Stored
<1>18. PlaceInv'
  <2>1. /\ Within(Stored, Len(Stored))
        /\ torn \/ Len(events) + Len(Record) <= Len(Stored)
    BY <1>1, <1>2, StoredFields, Zenon
  <2>2. torn' \/ Len(events') <= Len(file')
    BY <1>2, <1>6, <2>1, Zenon
  <2>3. Within(file, Len(file))'
    BY <1>2, <2>1, Zenon DEF Within
  <2>4. ASSUME NEW evs \in Seq(RecordedEvent), Within(evs, Len(events)),
               NEW i \in 1..Len(evs)
        PROVE  evs[i].global_position < Len(events')
    <3>1. /\ evs[i].global_position < Len(events)
          /\ evs[i].global_position \in Nat
      BY <2>4, EventFields, Zenon DEF Within
    <3>2. QED
      BY <1>5, <1>6, <3>1
  <2>5. Within(events, Len(events))'
    <3>1. SUFFICES ASSUME NEW i \in 1..Len(events')
                   PROVE  events'[i].global_position < Len(events')
      BY Zenon DEF Within
    <3>2. CASE OldEvent(i)
      BY <1>1, <2>4, <3>2, Zenon DEF OldEvent, PlaceInv, TypeOK
    <3>3. CASE \E j \in 1..Len(current.events) : NewEvent(i, j)
      <4>1. events'[i].global_position = i - 1
        BY <3>3, Zenon DEF NewEvent
      <4>2. i - 1 < Len(events')
        BY <1>5, <1>6
      <4>3. QED
        BY <4>1, <4>2, Zenon
    <3>4. QED
      BY <1>5, <3>2, <3>3, Zenon
  <2>6. \A id \in DOMAIN cache' : Within(cache[id], Len(events))'
    BY <1>1, <1>2, <2>4, Zenon DEF PlaceInv, TypeOK, Within
  <2>7. QED
    BY <2>2, <2>3, <2>5, <2>6, Zenon DEF PlaceInv, Within
<1>19. QED
  BY <1>7, <1>8, <1>9, <1>10, <1>11, <1>12, <1>13, <1>15, <1>16, <1>17, <1>18,
     Zenon DEF WriterInv

(* What LruCache::put leaves in the index.                                 *)
LEMMA PutCache ==
  ASSUME TypeOK, NEW id, NEW evs \in Seq(RecordedEvent), Put(id, evs)
  PROVE  /\ cache' \in [DOMAIN cache' -> Seq(RecordedEvent)]
         /\ id \in DOMAIN cache' /\ cache'[id] = evs
         /\ \A x \in DOMAIN cache' :
              x # id => x \in DOMAIN cache /\ cache'[x] = cache[x]
         /\ \A x \in DOMAIN cache : x \notin Evicted(id) => x \in DOMAIN cache'
<1>1. PICK S : S = (DOMAIN cache \ Evicted(id)) \cup {id}
  BY Zenon
<1>2. cache' = [x \in S |-> IF x = id THEN evs ELSE cache[x]]
  BY <1>1, Zenon DEF Put
<1>3. cache \in [DOMAIN cache -> Seq(RecordedEvent)]
  BY Zenon DEF TypeOK
<1>4. DOMAIN cache' = S
  BY <1>2, Zenon
<1>5. \A x \in S : x # id => x \in DOMAIN cache
  BY <1>1, Zenon
<1>6. \A x \in S : cache'[x] = IF x = id THEN evs ELSE cache[x]
  BY <1>2, Zenon
<1>7. \A x \in S : (IF x = id THEN evs ELSE cache[x]) \in Seq(RecordedEvent)
  BY <1>3, <1>5, Zenon
<1>8. cache' \in [DOMAIN cache' -> Seq(RecordedEvent)]
  BY <1>2, <1>4, <1>7, Zenon
<1>9. id \in S /\ \A x \in DOMAIN cache : x \notin Evicted(id) => x \in S
  BY <1>1, Zenon
<1>10. QED
  BY <1>4, <1>5, <1>6, <1>8, <1>9, Zenon

(* It evicts nothing for an ID of the log while there is room for them all.*)
LEMMA NothingEvicted ==
  ASSUME Counting, TypeOK, CacheInv, NothingForgotten,
         NEW i \in 1..Len(events), NEW id, id = events[i].event_id
  PROVE  Evicted(id) = {}
<1>1. PICK I : I = Ids(events)
  BY Zenon
<1>2. PICK C : C = DOMAIN cache
  BY Zenon
<1>3. events \in Seq(RecordedEvent) /\ Grows(events, events)
  BY DEF TypeOK, Grows
<1>4. IsFiniteSet(I) /\ Cardinality(I) \in Nat
  BY <1>1, <1>3, IdsGrow, Zenon DEF Counting
<1>5. Cardinality(I) <= DedupCapacity
  BY <1>1, Zenon DEF NothingForgotten, Ids
<1>6. id \in I
  BY <1>1, Zenon DEF Ids
<1>7. ASSUME NEW x \in C PROVE x \in I
  <2>1. cache[x] \in Seq(RecordedEvent) /\ Piece(cache[x], events) /\ Has(cache[x], x)
    BY <1>2, Zenon DEF TypeOK, CacheInv, NothingForgotten
  <2>2. \E j \in 1..Len(events) : events[j].event_id = x
    BY <1>3, <2>1, PieceIds, Zenon
  <2>3. QED
    BY <1>1, <2>2, Zenon DEF Ids
<1>8. C \in SUBSET I
  BY <1>7, Zenon
<1>9. /\ IsFiniteSet(C) /\ Cardinality(C) <= Cardinality(I)
      /\ Cardinality(I) = Cardinality(C) => I = C
  BY <1>4, <1>8, Zenon DEF Counting
<1>10. Cardinality(C) \in Nat
  BY <1>9, Zenon DEF Counting
<1>11. ASSUME id \notin C PROVE ~(Cardinality(C) >= DedupCapacity)
  <2>1. Cardinality(I) # Cardinality(C)
    BY <1>6, <1>9, <1>11, Zenon
  <2>2. QED
    BY <1>4, <1>5, <1>9, <1>10, <2>1, CapacityAssumption
<1>12. QED
  BY <1>2, <1>11, Zenon DEF Evicted

(* One event after the other, the index gets the batch.                    *)
LEMMA DedupRecordSafe == ASSUME Counting, WriterInv, DedupRecord PROVE WriterInv'
<1>1. /\ TypeOK /\ ShapeInv /\ QueueInv /\ FileInv /\ PlaceInv
      /\ LogInv /\ VersionsInv /\ OutcomeInv
      /\ CacheInv /\ AnswersInv /\ RecordedInv /\ PublishInv
      /\ AnsweredArePublished /\ IndexedInv /\ NoEventTwice /\ RetryInv
      /\ SameAnswer
  BY Zenon DEF WriterInv
<1>2. /\ pc = "record" /\ Put(recorded[k].event_id, recorded)
      /\ IF k < Len(recorded) THEN k' = k + 1 /\ pc' = pc
         ELSE k' = 1 /\ pc' = "publish"
      /\ UNCHANGED <<events, file, torn, mishap, channel, batch, recorded, call,
                     starts, base, published>>
  BY Zenon DEF DedupRecord, Entry, Turn, AfterRecord, disk, run
<1>3. /\ recorded \in Seq(RecordedEvent) /\ k \in Nat \ {0} /\ k <= Len(recorded)
      /\ pc \in Logged
  BY <1>1, <1>2, Zenon DEF TypeOK, ShapeInv, Logged
<1>4. PICK n \in Nat \ {0} : n = Len(recorded)
  BY <1>3
<1>5. k \in 1..n /\ 1 \in 1..n
  BY <1>3, <1>4
<1>6. PICK g \in Nat : g = recorded[1].global_position
  BY <1>3, <1>4, <1>5, EventFields, Zenon
<1>7. PICK id : id = recorded[k].event_id
  BY Zenon
<1>8. /\ Piece(recorded, events) /\ g + n = Len(events)
      /\ n = Len(current.events)
      /\ \A j \in 1..n : recorded[j].event_id = current.events[j]
  BY <1>1, <1>3, <1>4, <1>6, Zenon DEF RecordedInv
<1>9. ASSUME NEW j \in 1..n PROVE g + j \in 1..Len(events) /\ events[g + j] = recorded[j]
  BY <1>4, <1>6, <1>8 DEF Piece
<1>10. /\ cache' \in [DOMAIN cache' -> Seq(RecordedEvent)]
       /\ id \in DOMAIN cache' /\ cache'[id] = recorded
       /\ \A x \in DOMAIN cache' :
            x # id => x \in DOMAIN cache /\ cache'[x] = cache[x]
       /\ \A x \in DOMAIN cache : x \notin Evicted(id) => x \in DOMAIN cache'
  BY <1>1, <1>2, <1>3, <1>7, PutCache
<1>11. ASSUME NothingForgotten
       PROVE  \A x \in DOMAIN cache : x \in DOMAIN cache'
  <2>1. PICK i \in 1..Len(events) : i = g + k
    BY <1>5, <1>9, Zenon
  <2>2. id = events[i].event_id
    BY <1>5, <1>7, <1>9, <2>1, Zenon
  <2>3. Evicted(id) = {}
    BY <1>1, <1>11, <2>2, NothingEvicted, Zenon
  <2>4. QED
    BY <1>10, <2>3, Zenon
<1>12. /\ pc' \in {"record", "publish"} /\ pc' \in Logged /\ k' \in 1..n
       /\ k' \in Nat \ {0}
  BY <1>2, <1>4, <1>5 DEF Logged
<1>13. TypeOK'
  BY <1>1, <1>2, <1>10, <1>12, Zenon DEF TypeOK, Locations
<1>14. ShapeInv' /\ QueueInv'
  <2>1. QueueInv'
    BY <1>1, <1>2 DEF QueueInv
  <2>2. batch # <<>> /\ \A i \in DOMAIN call : call[i].during <= starts
    BY <1>1, <1>3, Zenon DEF ShapeInv
  <2>3. ShapeInv'
    BY <1>1, <1>2, <1>4, <1>12, <2>2 DEF ShapeInv, Stopped
  <2>4. QED
    BY <2>1, <2>3, Zenon
<1>15. /\ CallsKept /\ OkKept /\ ErrorsOnly /\ current' = current
       /\ MovesOn /\ pc \notin Stopped
  BY <1>2, <1>12, Zenon DEF CallsKept, OkKept, ErrorsOnly, current, MovesOn, Stopped
<1>16. LogInv' /\ VersionsInv' /\ NoEventTwice'
  BY <1>1, <1>2, <1>15, LogQuiet, Zenon
<1>17. OutcomeInv'
  BY <1>1, <1>2, <1>12, <1>15, OutcomeQuiet, Zenon
<1>18. Grows(events, events') /\ (NothingForgotten' = NothingForgotten)
  BY <1>1, <1>2 DEF Grows, TypeOK, NothingForgotten
<1>19. AnswersInv' /\ AnsweredArePublished' /\ SameAnswer'
  BY <1>1, <1>2, <1>13, <1>15, <1>18, AnswersKept, AnsweredKept, SameKept, Zenon
<1>20. CacheInv'
  <2>1. SUFFICES ASSUME ~mishap, NEW x \in DOMAIN cache'
                 PROVE  Piece(cache'[x], events) /\ Has(cache'[x], x)
    BY <1>2, Zenon DEF CacheInv
  <2>2. CASE x = id
    <3>1. Has(recorded, id)
      BY <1>4, <1>5, <1>7, Zenon DEF Has
    <3>2. QED
      BY <1>8, <1>10, <2>2, <3>1, Zenon
  <2>3. CASE x # id
    BY <1>1, <1>10, <2>1, <2>3, Zenon DEF CacheInv
  <2>4. QED
    BY <2>2, <2>3, Zenon
<1>21. RecordedInv'
  BY <1>1, <1>2, <1>3, <1>15, Zenon DEF RecordedInv
<1>22. PublishInv'
  <2>1. PublishedInOrder' /\ base + Len(published) = g
    BY <1>1, <1>2, <1>6, <1>15, Zenon DEF PublishInv, PublishedInOrder
  <2>2. QED
    BY <1>2, <1>6, <1>12, <2>1 DEF PublishInv
<1>23. IndexedInv'
  <2>1. Indexed = g + k - 1 /\ Indexed' = g + k
    <3>1. Indexed = g + k - 1
      BY <1>2, <1>6, Zenon DEF Indexed
    <3>2. CASE k < n
      BY <1>2, <1>3, <1>4, <1>6, <3>2 DEF Indexed
    <3>3. CASE ~(k < n)
      <4>1. pc' = "publish" /\ k = n
        BY <1>2, <1>4, <1>5, <3>3
      <4>2. Indexed' = Len(events)
        BY <1>2, <4>1, Zenon DEF Indexed
      <4>3. QED
        BY <1>8, <3>1, <4>1, <4>2, Zenon
    <3>4. QED
      BY <3>1, <3>2, <3>3, Zenon
  <2>2. SUFFICES ASSUME NothingForgotten, NEW i \in 1..(g + k)
                 PROVE  events[i].event_id \in DOMAIN cache'
    BY <1>2, <1>18, <2>1, Zenon DEF IndexedInv
  <2>3. CASE i = g + k
    BY <1>5, <1>7, <1>9, <1>10, <2>3, Zenon
  <2>4. CASE i # g + k
    <3>1. i \in 1..(g + k - 1)
      BY <1>3, <2>4
    <3>2. events[i].event_id \in DOMAIN cache
      BY <1>1, <2>1, <2>2, <3>1, Zenon DEF IndexedInv
    <3>3. QED
      BY <1>11, <2>2, <3>2, Zenon
  <2>5. QED
    BY <2>3, <2>4, Zenon
<1>24. RetryInv'
  <2>1. /\ pc \notin Stopped \cup {"dead"}
        /\ \A i : AnsweredNow(i)' = AnsweredNow(i)
    BY <1>2, Zenon DEF Stopped, AnsweredNow
  <2>2. ASSUME NothingForgotten, IdsNotShared
        PROVE  /\ \A i \in DOMAIN call : AnsweredNow(i) =>
                    /\ call[i].req.events[1] \in DOMAIN cache
                    /\ cache[call[i].req.events[1]] = call[i].answer
                    /\ call[i].req # current
               /\ \A j \in 1..n : j < k =>
                    /\ recorded[j].event_id \in DOMAIN cache
                    /\ cache[recorded[j].event_id] = recorded
    BY <1>1, <1>2, <1>3, <1>4, <2>1, <2>2, Zenon DEF RetryInv
  <2>3. ASSUME NothingForgotten, IdsNotShared, NEW i \in DOMAIN call, AnsweredNow(i)
        PROVE  call[i].req.events[1] # id
    <3>1. call[i].req \in Requests /\ Len(call[i].req.events) \in Nat \ {0}
      BY <1>1, CallFields, RequestFields, Zenon
    <3>2. current \in Requests /\ 1 \in 1..Len(call[i].req.events)
      BY <1>1, <1>3, <3>1, CurrentFields
    <3>3. id = current.events[k] /\ k \in 1..Len(current.events)
      BY <1>5, <1>7, <1>8, Zenon
    <3>4. call[i].req # current
      BY <2>2, <2>3, Zenon
    <3>5. QED
      BY <2>3, <3>1, <3>2, <3>3, <3>4, Zenon DEF IdsNotShared
  <2>4. ASSUME NothingForgotten, IdsNotShared
        PROVE  \A i \in DOMAIN call : AnsweredNow(i) =>
                  /\ call[i].req.events[1] \in DOMAIN cache'
                  /\ cache'[call[i].req.events[1]] = call[i].answer
                  /\ call[i].req # current
    BY <1>10, <1>11, <2>2, <2>3, <2>4, Zenon
  <2>5. ASSUME NothingForgotten, IdsNotShared, NEW j \in 1..n,
               pc' # "record" \/ j < k'
        PROVE  /\ recorded[j].event_id \in DOMAIN cache'
               /\ cache'[recorded[j].event_id] = recorded
    <3>1. j < k \/ j = k
      BY <1>2, <1>4, <1>5, <2>5
    <3>2. CASE recorded[j].event_id = id
      BY <1>10, <3>2, Zenon
    <3>3. CASE recorded[j].event_id # id
      <4>1. j < k
        BY <1>7, <3>1, <3>3, Zenon
      <4>2. QED
        BY <1>10, <1>11, <2>2, <2>5, <3>3, <4>1, Zenon
    <3>4. QED
      BY <3>2, <3>3, Zenon
  <2>6. QED
    BY <1>2, <1>4, <1>15, <1>18, <2>1, <2>4, <2>5, Zenon DEF RetryInv
<1>25. FileInv' /\ PlaceInv'
  <2>1. Within(recorded, Len(events))
    BY <1>1, <1>3, <1>8, PieceWithin, Zenon
  <2>2. \A x \in DOMAIN cache' : Within(cache'[x], Len(events))
    BY <1>1, <1>10, <2>1, Zenon DEF PlaceInv
  <2>3. PlaceInv'
    BY <1>1, <1>2, <2>2, Zenon DEF PlaceInv, Within
  <2>4. FileInv'
    BY <1>1, <1>2, Zenon DEF FileInv
  <2>5. QED
    BY <2>3, <2>4, Zenon
<1>26. QED
  BY <1>13, <1>14, <1>16, <1>17, <1>19, <1>20, <1>21, <1>22, <1>23, <1>24, <1>25,
     Zenon DEF WriterInv

(* One event after the other, the broker gets the batch.                   *)
LEMMA PublishSafe == ASSUME Counting, WriterInv, Publish PROVE WriterInv'
<1>1. /\ TypeOK /\ ShapeInv /\ QueueInv /\ FileInv /\ PlaceInv
      /\ LogInv /\ VersionsInv /\ OutcomeInv
      /\ CacheInv /\ AnswersInv /\ RecordedInv /\ PublishInv
      /\ AnsweredArePublished /\ IndexedInv /\ NoEventTwice /\ RetryInv
      /\ SameAnswer
  BY DEF WriterInv
<1>2. /\ pc = "publish" /\ published' = Append(published, recorded[k])
      /\ IF k < Len(recorded) THEN k' = k + 1 /\ pc' = pc
         ELSE k' = 1 /\ pc' = "respond"
      /\ UNCHANGED <<events, file, torn, mishap, channel, batch, recorded, cache,
                     call, starts, base>>
  BY Zenon DEF Publish, Turn, disk, dedup, run
<1>3. /\ recorded \in Seq(RecordedEvent) /\ k \in Nat \ {0} /\ k <= Len(recorded)
      /\ pc \in Logged /\ published \in Seq(RecordedEvent)
  BY <1>1, <1>2, Zenon DEF TypeOK, ShapeInv, Logged
<1>4. PICK n \in Nat \ {0} : n = Len(recorded)
  BY <1>3
<1>5. k \in 1..n /\ 1 \in 1..n
  BY <1>3, <1>4
<1>6. PICK g \in Nat : g = recorded[1].global_position
  BY <1>3, <1>4, <1>5, EventFields, Zenon
<1>7. /\ g + n = Len(events) /\ g + k \in 1..Len(events)
      /\ events[g + k] = recorded[k]
  <2>1. Piece(recorded, events) /\ g + n = Len(events)
    BY <1>1, <1>3, <1>4, <1>6, Zenon DEF RecordedInv
  <2>2. g + k <= Len(events) /\ events[g + k] = recorded[k]
    BY <1>4, <1>5, <1>6, <2>1, Zenon DEF Piece
  <2>3. g + k \in 1..(g + n)
    BY <1>5
  <2>4. QED
    BY <2>1, <2>2, <2>3, Zenon
<1>8. PICK m \in Nat : m = Len(published)
  BY <1>3
<1>9. /\ published' \in Seq(RecordedEvent) /\ Len(published') = m + 1
      /\ \A i \in 1..m : published'[i] = published[i]
      /\ published'[m + 1] = recorded[k]
  BY <1>2, <1>3, <1>4, <1>5, <1>8
<1>10. PICK b \in Nat : b = base
  BY <1>1, Zenon DEF TypeOK
<1>11. b + m = g + k - 1
  BY <1>1, <1>2, <1>6, <1>8, <1>10, Zenon DEF PublishInv
<1>12. /\ pc' \in {"publish", "respond"} /\ pc' \in Logged /\ k' \in 1..n
       /\ k' \in Nat \ {0}
  BY <1>2, <1>4, <1>5 DEF Logged
<1>13. TypeOK'
  BY <1>1, <1>2, <1>9, <1>12, Zenon DEF TypeOK, Locations
<1>14. ShapeInv' /\ QueueInv'
  <2>1. QueueInv'
    BY <1>1, <1>2, Zenon DEF QueueInv
  <2>2. batch # <<>> /\ \A i \in DOMAIN call : call[i].during <= starts
    BY <1>1, <1>3, Zenon DEF ShapeInv
  <2>3. ShapeInv'
    BY <1>1, <1>2, <1>4, <1>12, <2>2 DEF ShapeInv, Stopped
  <2>4. QED
    BY <2>1, <2>3, Zenon
<1>15. /\ CallsKept /\ OkKept /\ ErrorsOnly /\ current' = current
       /\ MovesOn /\ pc \notin Stopped
  BY <1>2, <1>12, Zenon DEF CallsKept, OkKept, ErrorsOnly, current, MovesOn, Stopped
<1>16. LogInv' /\ VersionsInv' /\ NoEventTwice'
  BY <1>1, <1>2, <1>15, LogQuiet, Zenon
<1>17. OutcomeInv'
  BY <1>1, <1>2, <1>12, <1>15, OutcomeQuiet, Zenon
<1>18. Grows(events, events') /\ (NothingForgotten' = NothingForgotten)
  BY <1>1, <1>2 DEF Grows, TypeOK, NothingForgotten
<1>19. AnswersInv' /\ CacheInv' /\ SameAnswer'
  BY <1>1, <1>2, <1>13, <1>15, <1>18, AnswersKept, CacheKept, SameKept, Zenon
<1>20. RecordedInv'
  BY <1>1, <1>2, <1>3, <1>15, Zenon DEF RecordedInv
<1>21. PublishInv'
  <2>1. PublishedInOrder'
    <3>1. b + (m + 1) <= Len(events)
      BY <1>3, <1>7, <1>11
    <3>2. ASSUME NEW i \in 1..(m + 1) PROVE published'[i] = events[b + i]
      <4>1. CASE i \in 1..m
        BY <1>1, <1>8, <1>9, <1>10, <1>15, <4>1, Zenon
           DEF PublishInv, PublishedInOrder
      <4>2. CASE i = m + 1
        <5>1. b + i = g + k
          BY <1>3, <1>11, <4>2
        <5>2. QED
          BY <1>7, <1>9, <4>2, <5>1, Zenon
      <4>3. QED
        BY <4>1, <4>2
    <3>3. QED
      BY <1>2, <1>9, <1>10, <3>1, <3>2, Zenon DEF PublishedInOrder
  <2>2. pc' = "publish" => b + (m + 1) = g + k' - 1
    <3>1. pc' = "publish" => k' = k + 1
      BY <1>2, Zenon
    <3>2. QED
      BY <1>3, <1>11, <3>1
  <2>3. pc' = "respond" => b + (m + 1) = Len(events)
    <3>1. pc' = "respond" => ~(k < n)
      BY <1>2, <1>4, Zenon
    <3>2. ~(k < n) => b + (m + 1) = g + n
      BY <1>5, <1>11
    <3>3. QED
      BY <1>7, <3>1, <3>2, Zenon
  <2>4. QED
    BY <1>2, <1>6, <1>9, <1>10, <1>12, <2>1, <2>2, <2>3, Zenon DEF PublishInv
<1>22. AnsweredArePublished'
  <2>1. SUFFICES ASSUME NEW i \in DOMAIN call, call[i].result = "ok",
                        call[i].during = starts, NEW j \in 1..Len(call[i].answer)
                 PROVE  call[i].answer[j].global_position < b + (m + 1)
    BY <1>2, <1>9, <1>10, Zenon DEF AnsweredArePublished
  <2>2. call[i].answer[j].global_position < b + m
    BY <1>1, <1>8, <1>10, <1>15, <2>1, Zenon DEF AnsweredArePublished
  <2>3. call[i].answer[j].global_position \in Nat
    BY <1>1, <2>1, CallFields, EventFields, Zenon
  <2>4. QED
    BY <2>2, <2>3
<1>23. IndexedInv'
  <2>1. Indexed' = Len(events) /\ Indexed = Len(events)
    BY <1>2, <1>12, Zenon DEF Indexed
  <2>2. QED
    BY <1>1, <1>2, <1>18, <2>1, Zenon DEF IndexedInv
<1>24. RetryInv'
  <2>1. /\ pc \notin Stopped \cup {"dead"} /\ pc # "record"
        /\ \A i : AnsweredNow(i)' = AnsweredNow(i)
    BY <1>2, Zenon DEF Stopped, AnsweredNow
  <2>2. ASSUME NothingForgotten, IdsNotShared
        PROVE  /\ \A i \in DOMAIN call : AnsweredNow(i) =>
                    /\ call[i].req.events[1] \in DOMAIN cache
                    /\ cache[call[i].req.events[1]] = call[i].answer
                    /\ call[i].req # current
               /\ \A j \in 1..Len(recorded) :
                    /\ recorded[j].event_id \in DOMAIN cache
                    /\ cache[recorded[j].event_id] = recorded
    BY <1>1, <1>3, <2>1, <2>2, Zenon DEF RetryInv
  <2>3. QED
    BY <1>2, <1>15, <1>18, <2>1, <2>2, Zenon DEF RetryInv
<1>25. FileInv' /\ PlaceInv'
  BY <1>1, <1>2, FileQuiet, Zenon
<1>26. QED
  BY <1>13, <1>14, <1>16, <1>17, <1>19, <1>20, <1>21, <1>22, <1>23, <1>24, <1>25,
     Zenon DEF WriterInv

-----------------------------------------------------------------------------
(* The process starts, and ends one way or another.                        *)

(* A new process has answered nobody and published nothing.                *)
LEMMA StartSafe == ASSUME Counting, WriterInv, Start PROVE WriterInv'
<1>1. /\ TypeOK /\ ShapeInv /\ QueueInv /\ FileInv /\ PlaceInv
      /\ LogInv /\ VersionsInv /\ OutcomeInv
      /\ CacheInv /\ AnswersInv /\ NoEventTwice /\ SameAnswer
  BY Zenon DEF WriterInv
<1>2. /\ pc \in Stopped /\ pc' = "seed" /\ starts' = starts + 1
      /\ base' = Len(events) /\ published' = <<>>
      /\ UNCHANGED <<events, file, torn, mishap, channel, batch, recorded, k,
                     cache, call>>
  BY Zenon DEF Start, disk, loop, dedup
<1>3. k = 1 /\ pc \notin Logged /\ pc' \notin Logged
  BY <1>1, <1>2, Zenon DEF ShapeInv, Stopped, Logged
<1>4. TypeOK'
  BY <1>1, <1>2 DEF TypeOK, Locations
<1>5. \A i \in DOMAIN call : call[i].during < starts' /\ call[i].during <= starts'
  BY <1>1, <1>2, CallFields DEF ShapeInv, TypeOK
<1>6. ShapeInv' /\ QueueInv'
  <2>1. QueueInv'
    BY <1>1, <1>2, Zenon DEF QueueInv
  <2>2. ShapeInv'
    BY <1>1, <1>2, <1>3, <1>5, Zenon DEF ShapeInv, Stopped
  <2>3. QED
    BY <2>1, <2>2
<1>7. CallsKept /\ OkKept /\ ErrorsOnly /\ MovesOn
  BY <1>2, <1>3, Zenon DEF CallsKept, OkKept, ErrorsOnly, MovesOn
<1>8. LogInv' /\ VersionsInv' /\ NoEventTwice'
  BY <1>1, <1>2, <1>7, LogQuiet, Zenon
<1>9. OutcomeInv'
  <2>1. Settled(events)' /\ Settled(file)'
    BY <1>1, <1>2, <1>7, SettledQuiet, Zenon DEF OutcomeInv, Settled
  <2>2. ErrorsLeaveNothing'
    BY <1>1, <1>2, <1>5, Zenon DEF OutcomeInv, Settled, ErrorsLeaveNothing
  <2>3. QED
    BY <2>1, <2>2, Zenon DEF OutcomeInv
<1>10. Grows(events, events')
  BY <1>1, <1>2 DEF Grows, TypeOK
<1>11. AnswersInv' /\ CacheInv' /\ SameAnswer'
  BY <1>1, <1>2, <1>4, <1>7, <1>10, AnswersKept, CacheKept, SameKept, Zenon
<1>12. RecordedInv' /\ PublishInv'
  <2>1. Len(published') = 0 /\ Len(events) \in Nat
    BY <1>1, <1>2 DEF TypeOK
  <2>2. PublishedInOrder' /\ base' + Len(published') = Len(events')
    BY <1>2, <2>1 DEF PublishedInOrder
  <2>3. QED
    BY <1>2, <1>3, <2>2, Zenon DEF RecordedInv, PublishInv
<1>13. \A i \in DOMAIN call : call[i].during # starts'
  BY <1>1, <1>2, <1>5, CallFields DEF TypeOK
<1>14. AnsweredArePublished'
  BY <1>2, <1>13, Zenon DEF AnsweredArePublished
<1>15. IndexedInv'
  <2>1. Indexed' = 0
    BY <1>2, <1>3 DEF Indexed
  <2>2. QED
    BY <2>1 DEF IndexedInv
<1>16. RetryInv'
  BY <1>2, <1>3, <1>13, Zenon DEF RetryInv, AnsweredNow
<1>17. FileInv' /\ PlaceInv'
  BY <1>1, <1>2, FileQuiet, Zenon
<1>18. QED
  BY <1>4, <1>6, <1>8, <1>9, <1>11, <1>12, <1>14, <1>15, <1>16, <1>17, Zenon
     DEF WriterInv

(* seed_from_log gives the index one event of the log after the other.     *)
LEMMA SeedSafe == ASSUME Counting, WriterInv, Seed PROVE WriterInv'
<1>1. /\ TypeOK /\ ShapeInv /\ QueueInv /\ FileInv /\ PlaceInv
      /\ LogInv /\ VersionsInv /\ OutcomeInv
      /\ CacheInv /\ AnswersInv /\ PublishInv /\ AnsweredArePublished
      /\ IndexedInv /\ NoEventTwice /\ SameAnswer
  BY Zenon DEF WriterInv
<1>2. /\ pc = "seed"
      /\ IF events = <<>> THEN cache' = cache
         ELSE Put(events[k].event_id, <<events[k]>>)
      /\ IF k < Len(events) THEN k' = k + 1 /\ pc' = pc
         ELSE k' = 1 /\ pc' = "recv"
      /\ UNCHANGED <<events, file, torn, mishap, channel, batch, recorded, call,
                     starts, base, published>>
  BY Zenon DEF Seed, Seeds, Turn, disk, dedup, run
<1>3. /\ events \in Seq(RecordedEvent) /\ k \in Nat \ {0}
      /\ k = 1 \/ k <= Len(events)
  BY <1>1, <1>2, Zenon DEF TypeOK, ShapeInv
<1>4. PICK n \in Nat : n = Len(events)
  BY <1>3
<1>5. /\ pc \notin Logged /\ pc' \notin Logged /\ pc' \in {"seed", "recv"}
      /\ k' \in Nat \ {0} /\ (pc' = "seed" => k' <= n)
  BY <1>2, <1>3, <1>4 DEF Logged
<1>6. ASSUME events # <<>>
      PROVE  /\ k \in 1..n
             /\ cache' \in [DOMAIN cache' -> Seq(RecordedEvent)]
             /\ events[k].event_id \in DOMAIN cache'
             /\ \A x \in DOMAIN cache' :
                  \/ x \in DOMAIN cache /\ cache'[x] = cache[x]
                  \/ /\ Within(cache'[x], Len(events))
                     /\ ~mishap => Piece(cache'[x], events) /\ Has(cache'[x], x)
             /\ NothingForgotten =>
                  \A x \in DOMAIN cache : x \in DOMAIN cache'
  <2>1. k \in 1..n /\ k \in 1..Len(events)
    BY <1>3, <1>4, <1>6
  <2>2. PICK evs \in Seq(RecordedEvent) :
           /\ evs = <<events[k]>> /\ Within(evs, Len(events))
           /\ ~mishap => Piece(evs, events) /\ Has(evs, events[k].event_id)
    <3>1. PICK x \in RecordedEvent : x = events[k]
      BY <1>3, <2>1, EventFields, Zenon
    <3>2. PICK evs \in Seq(RecordedEvent) :
             evs = <<x>> /\ evs[1] = x /\ \A i \in 1..Len(evs) : i = 1
      <4>1. /\ <<x>> \in Seq(RecordedEvent) /\ <<x>>[1] = x
            /\ \A i \in 1..Len(<<x>>) : i = 1
        OBVIOUS
      <4>2. QED
        BY <4>1, Zenon
    <3>3. Within(evs, Len(events))
      BY <1>1, <2>1, <3>1, <3>2, Zenon DEF PlaceInv, Within
    <3>4. ~mishap => Piece(evs, events) /\ Has(evs, events[k].event_id)
      BY <1>1, <1>3, <2>1, <3>1, <3>2, SinglePiece, Zenon DEF LogInv
    <3>5. QED
      BY <3>1, <3>2, <3>3, <3>4, Zenon
  <2>3. PICK id : id = events[k].event_id
    BY Zenon
  <2>4. Put(id, evs)
    BY <1>2, <1>6, <2>2, <2>3, Zenon
  <2>5. /\ cache' \in [DOMAIN cache' -> Seq(RecordedEvent)]
        /\ id \in DOMAIN cache' /\ cache'[id] = evs
        /\ \A x \in DOMAIN cache' :
             x # id => x \in DOMAIN cache /\ cache'[x] = cache[x]
        /\ \A x \in DOMAIN cache : x \notin Evicted(id) => x \in DOMAIN cache'
    BY <1>1, <2>4, PutCache, Zenon
  <2>6. NothingForgotten => Evicted(id) = {}
    BY <1>1, <2>1, <2>3, NothingEvicted, Zenon
  <2>7. QED
    BY <2>1, <2>2, <2>3, <2>5, <2>6, Zenon
<1>7. TypeOK'
  <2>1. cache' \in [DOMAIN cache' -> Seq(RecordedEvent)]
    BY <1>1, <1>2, <1>6, Zenon DEF TypeOK
  <2>2. QED
    BY <1>1, <1>2, <1>5, <2>1, Zenon DEF TypeOK, Locations
<1>8. ShapeInv' /\ QueueInv'
  <2>1. QueueInv'
    BY <1>1, <1>2 DEF QueueInv
  <2>2. \A i \in DOMAIN call : call[i].during <= starts /\ call[i].during < starts
    BY <1>1, <1>2, Zenon DEF ShapeInv
  <2>3. ShapeInv'
    BY <1>1, <1>2, <1>4, <1>5, <2>2, Zenon DEF ShapeInv, Stopped
  <2>4. QED
    BY <2>1, <2>3, Zenon
<1>9. CallsKept /\ OkKept /\ ErrorsOnly /\ MovesOn /\ pc \notin Stopped
  BY <1>2, <1>5, Zenon DEF CallsKept, OkKept, ErrorsOnly, MovesOn, Stopped
<1>10. LogInv' /\ VersionsInv' /\ NoEventTwice'
  BY <1>1, <1>2, <1>9, LogQuiet, Zenon
<1>11. OutcomeInv'
  BY <1>1, <1>2, <1>5, <1>9, OutcomeQuiet, Zenon
<1>12. Grows(events, events') /\ (NothingForgotten' = NothingForgotten)
  BY <1>1, <1>2 DEF Grows, TypeOK, NothingForgotten
<1>13. AnswersInv' /\ AnsweredArePublished' /\ SameAnswer'
  BY <1>1, <1>2, <1>7, <1>9, <1>12, AnswersKept, AnsweredKept, SameKept, Zenon
<1>14. CacheInv'
  <2>1. CASE events = <<>>
    BY <1>1, <1>2, <1>7, <1>12, <2>1, CacheKept, Zenon
  <2>2. CASE events # <<>>
    BY <1>1, <1>2, <1>6, <2>2, Zenon DEF CacheInv
  <2>3. QED
    BY <2>1, <2>2, Zenon
<1>15. RecordedInv' /\ PublishInv'
  <2>1. PublishedInOrder' /\ base + Len(published) = Len(events)
    BY <1>1, <1>2, <1>9, Zenon DEF PublishInv, PublishedInOrder
  <2>2. QED
    BY <1>2, <1>5, <2>1, Zenon DEF RecordedInv, PublishInv
<1>16. IndexedInv'
  <2>1. Indexed = k - 1
    BY <1>2, Zenon DEF Indexed
  <2>2. Indexed' = IF events = <<>> THEN 0 ELSE k
    <3>1. CASE k < n
      <4>1. pc' = "seed" /\ k' = k + 1 /\ events # <<>>
        BY <1>2, <1>3, <1>4, <3>1
      <4>2. Indexed' = k' - 1
        BY <4>1, Zenon DEF Indexed
      <4>3. QED
        BY <1>3, <4>1, <4>2
    <3>2. CASE ~(k < n)
      <4>1. pc' = "recv"
        BY <1>2, <1>4, <3>2, Zenon
      <4>2. Indexed' = n
        BY <1>2, <1>4, <4>1, Zenon DEF Indexed
      <4>3. events # <<>> => n = k
        BY <1>3, <1>4, <3>2
      <4>4. events = <<>> => n = 0
        BY <1>4, Zenon
      <4>5. QED
        BY <4>2, <4>3, <4>4, Zenon
    <3>3. QED
      BY <3>1, <3>2, Zenon
  <2>3. SUFFICES ASSUME NothingForgotten, events # <<>>, NEW i \in 1..k
                 PROVE  events[i].event_id \in DOMAIN cache'
    BY <1>2, <1>12, <2>2 DEF IndexedInv
  <2>4. CASE i = k
    BY <1>6, <2>3, <2>4, Zenon
  <2>5. CASE i # k
    <3>1. i \in 1..(k - 1)
      BY <1>3, <2>5
    <3>2. events[i].event_id \in DOMAIN cache
      BY <1>1, <2>1, <2>3, <3>1, Zenon DEF IndexedInv
    <3>3. QED
      BY <1>6, <2>3, <3>2, Zenon
  <2>6. QED
    BY <2>4, <2>5, Zenon
<1>17. RetryInv'
  <2>1. \A i \in DOMAIN call : call[i].during # starts
    <3>1. SUFFICES ASSUME NEW i \in DOMAIN call PROVE call[i].during # starts
      BY Zenon
    <3>2. call[i].during < starts
      BY <1>1, <1>2, Zenon DEF ShapeInv
    <3>3. call[i].during \in Nat /\ starts \in Nat
      BY <1>1, CallFields, Zenon DEF TypeOK
    <3>4. QED
      BY <3>2, <3>3
  <2>2. QED
    BY <1>2, <1>5, <2>1, Zenon DEF RetryInv, AnsweredNow
<1>18. FileInv' /\ PlaceInv'
  <2>1. CASE events = <<>>
    BY <1>1, <1>2, <2>1, FileQuiet, Zenon
  <2>2. CASE events # <<>>
    <3>1. \A x \in DOMAIN cache' : Within(cache'[x], Len(events))
      BY <1>1, <1>6, <2>2, Zenon DEF PlaceInv
    <3>2. PlaceInv'
      BY <1>1, <1>2, <3>1, Zenon DEF PlaceInv, Within
    <3>3. FileInv'
      BY <1>1, <1>2, Zenon DEF FileInv
    <3>4. QED
      BY <3>2, <3>3, Zenon
  <2>3. QED
    BY <2>1, <2>2, Zenon
<1>19. QED
  BY <1>7, <1>8, <1>10, <1>11, <1>13, <1>14, <1>15, <1>16, <1>17, <1>18,
     ZenonT(30) DEF WriterInv

(* The calls, changed one by one.                                          *)
LEMMA CallsMapped ==
  ASSUME TypeOK, NEW c, c = [i \in DOMAIN call |-> c[i]],
         \A i \in DOMAIN call : c[i] \in Call
  PROVE  c \in Seq(Call) /\ Len(c) = Len(call) /\ DOMAIN c = DOMAIN call
<1>1. call \in Seq(Call) /\ Len(call) \in Nat /\ DOMAIN call = 1..Len(call)
  BY DEF TypeOK
<1>2. c \in [1..Len(call) -> Call]
  BY <1>1, Zenon
<1>3. c \in Seq(Call) /\ Len(c) = Len(call)
  BY <1>1, <1>2, SeqOf, Zenon
<1>4. QED
  BY <1>1, <1>2, <1>3, Zenon

(* Nothing is left of the task but what it put into the log.               *)
Halts ==
  /\ pc' \in Stopped \cup {"dead"}
  /\ channel' = <<>> /\ batch' = <<>> /\ DOMAIN cache' = {}
  /\ (pc' \in Stopped => k' = 1)
  /\ UNCHANGED <<starts, base, published, mishap>>
  /\ DOMAIN call' = DOMAIN call /\ CallsKept /\ OkKept
  /\ \A i \in DOMAIN call :
       /\ call'[i].during <= starts
       /\ call'[i].status # "answered" => call'[i].result = "none"

LEMMA HaltSafe ==
  ASSUME Counting, WriterInv, pc \notin Stopped, TypeOK', Halts,
         pc' = "dead" \/ ~mishap => Grows(events, events'),
         FileInv', PlaceInv', LogInv', VersionsInv', NoEventTwice', OutcomeInv',
         pc' = "dead" => base' + Len(published') = Len(events')
  PROVE  WriterInv'
<1>1. /\ TypeOK /\ ShapeInv /\ AnswersInv /\ PublishInv
      /\ AnsweredArePublished /\ SameAnswer
  BY Zenon DEF WriterInv
<1>2. /\ pc' \in {"down", "exited", "dead"} /\ pc' \notin Logged
      /\ channel' = <<>> /\ batch' = <<>> /\ DOMAIN cache' = {}
      /\ starts' = starts /\ base' = base /\ published' = published
      /\ DOMAIN call' = DOMAIN call /\ CallsKept /\ OkKept
      /\ (mishap => mishap') /\ (mishap' => mishap)
  BY Zenon DEF Halts, Stopped, Logged
<1>3. Len(channel') = 0 /\ Len(batch') = 0
  BY <1>2, Zenon
<1>4. ShapeInv'
  BY <1>2, <1>3 DEF Halts, ShapeInv, Stopped
<1>5. QueueInv'
  BY <1>2, <1>3 DEF Halts, QueueInv
<1>6. CacheInv'
  BY <1>2, Zenon DEF CacheInv
<1>7. AnswersInv' /\ SameAnswer'
  <2>1. CASE mishap
    BY <1>2, <2>1, Zenon DEF AnswersInv, SameAnswer, NothingForgotten
  <2>2. CASE ~mishap
    BY <1>1, <1>2, <2>2, AnswersKept, SameKept, Zenon
  <2>3. QED
    BY <2>1, <2>2, Zenon
<1>8. AnsweredArePublished' /\ PublishedInOrder'
  <2>1. CASE pc' \in Stopped
    BY <2>1, Zenon DEF AnsweredArePublished, PublishedInOrder
  <2>2. CASE pc' = "dead"
    BY <1>1, <1>2, <2>2, AnsweredKept, OrderKept, Zenon DEF PublishInv
  <2>3. QED
    BY <1>2, <2>1, <2>2, Zenon DEF Stopped
<1>9. RecordedInv'
  BY <1>2, Zenon DEF RecordedInv
<1>10. PublishInv'
  BY <1>2, <1>8, Zenon DEF PublishInv
<1>11. IndexedInv'
  <2>1. Indexed' = 0
    BY <1>2, Zenon DEF Indexed
  <2>2. QED
    BY <2>1 DEF IndexedInv
<1>12. RetryInv'
  BY <1>2, Zenon DEF RetryInv, Stopped
<1>13. QED
  BY <1>4, <1>5, <1>6, <1>7, <1>8, <1>9, <1>10, <1>11, <1>12, Zenon DEF WriterInv

(* The task panics: who waits learns that it is gone.                      *)
LEMMA StampPanicsSafe == ASSUME Counting, WriterInv, StampPanics PROVE WriterInv'
<1>1. /\ TypeOK /\ ShapeInv /\ QueueInv /\ FileInv /\ PlaceInv
      /\ LogInv /\ VersionsInv /\ OutcomeInv
      /\ PublishInv /\ NoEventTwice
  BY Zenon DEF WriterInv
<1>2. /\ pc = "drain" /\ pc' = "dead" /\ channel = <<>> /\ batch' = <<>>
      /\ cache' = Empty
      /\ call' = [i \in DOMAIN call |->
                    IF call[i].status = "waiting"
                    THEN Answered(i, "closed", <<>>)[i] ELSE call[i]]
      /\ UNCHANGED <<events, file, torn, mishap, channel, recorded, k, starts,
                     base, published>>
  BY Zenon DEF StampPanics, disk, run
<1>3. PICK c : c = call'
  BY Zenon
<1>4. ASSUME NEW i \in DOMAIN call
      PROVE  /\ c[i] \in Call /\ c[i].req = call[i].req
             /\ \/ c[i] = call[i]
                \/ /\ call[i].status = "waiting"
                   /\ c[i].status = "answered" /\ c[i].result = "closed"
                   /\ c[i].during = starts
  <2>1. PICK evs \in Seq(RecordedEvent) : evs = <<>>
    <3>1. <<>> \in Seq(RecordedEvent)
      OBVIOUS
    <3>2. QED
      BY <3>1, Zenon
  <2>2. PICK r \in Results : r = "closed"
    BY Zenon DEF Results
  <2>3. PICK a : a = Answered(i, r, evs)
    BY Zenon
  <2>4. /\ a \in Seq(Call) /\ DOMAIN a = DOMAIN call
        /\ \A j \in DOMAIN call : a[j].req = call[j].req
        /\ call[i].status \in Pending =>
             /\ a[i].status = "answered" /\ a[i].result = r
             /\ a[i].during = starts
    BY <1>1, <2>3, AnsweredCalls
  <2>5. a[i] \in Call /\ call[i] \in Call
    BY <1>1, <2>4, CallFields
  <2>6. c[i] = IF call[i].status = "waiting" THEN a[i] ELSE call[i]
    BY <1>2, <1>3, <2>1, <2>2, <2>3, Zenon
  <2>7. QED
    BY <2>2, <2>4, <2>5, <2>6, Zenon DEF Pending
<1>5. c \in Seq(Call) /\ Len(c) = Len(call) /\ DOMAIN c = DOMAIN call
  <2>1. c = [i \in DOMAIN call |-> c[i]]
    BY <1>2, <1>3, Zenon
  <2>2. QED
    BY <1>1, <1>4, <2>1, CallsMapped, Zenon
<1>6. CallsKept /\ OkKept /\ ErrorsOnly /\ MovesOn /\ pc \notin Stopped
  <2>1. pc \notin Logged
    BY <1>2, Zenon DEF Logged
  <2>2. CallsKept
    BY <1>3, <1>4, <1>5, Zenon DEF CallsKept
  <2>3. OkKept
    BY <1>3, <1>4, <1>5, Zenon DEF OkKept
  <2>4. ErrorsOnly
    BY <1>3, <1>4, <1>5, <2>1, Zenon DEF ErrorsOnly, Pending
  <2>5. MovesOn /\ pc \notin Stopped
    BY <1>2, <2>1, Zenon DEF MovesOn, Stopped
  <2>6. QED
    BY <2>2, <2>3, <2>4, <2>5, Zenon
<1>7. DOMAIN cache' = {} /\ cache' \in [DOMAIN cache' -> Seq(RecordedEvent)]
  BY <1>2, Zenon DEF Empty
<1>8. TypeOK'
  BY <1>1, <1>2, <1>3, <1>5, <1>7, Zenon DEF TypeOK, Locations
<1>9. \A i \in DOMAIN call :
        /\ call'[i].during <= starts
        /\ call'[i].status # "answered" => call'[i].result = "none"
  BY <1>1, <1>3, <1>4 DEF ShapeInv, QueueInv, TypeOK
<1>10. Halts
  BY <1>2, <1>3, <1>5, <1>6, <1>7, <1>9, Zenon DEF Halts, Stopped
<1>11. LogInv' /\ VersionsInv' /\ NoEventTwice'
  BY <1>1, <1>2, <1>6, LogQuiet, Zenon
<1>12. OutcomeInv'
  BY <1>1, <1>2, <1>6, OutcomeQuiet, Zenon
<1>13. Grows(events, events')
  BY <1>1, <1>2 DEF Grows, TypeOK
<1>14. base' + Len(published') = Len(events')
  BY <1>1, <1>2, Zenon DEF PublishInv
<1>15. FileInv' /\ PlaceInv'
  BY <1>1, <1>2, <1>7, FileQuiet, Zenon
<1>16. QED
  BY <1>6, <1>8, <1>10, <1>11, <1>12, <1>13, <1>14, <1>15, HaltSafe, Zenon

(* The process is gone: the next one will have what the file has.          *)
LEMMA StopOutcome ==
  ASSUME pc' \in Stopped, events' = file',
         \A i \in 1..Len(file') :
            /\ file'[i].by \in DOMAIN call'
            /\ call'[file'[i].by].result \in {"none", "ok", "Io"}
            /\ call'[file'[i].by].status \notin Pending
  PROVE  OutcomeInv'
<1>1. Settled(events)' /\ Settled(file)'
  BY Zenon DEF Settled
<1>2. ErrorsLeaveNothing'
  BY Zenon DEF ErrorsLeaveNothing
<1>3. QED
  BY <1>1, <1>2, Zenon DEF OutcomeInv

LEMMA StopPlace ==
  ASSUME events' = file', torn' = FALSE, DOMAIN cache' = {}, TypeOK',
         Within(file', Len(file'))
  PROVE  FileInv' /\ PlaceInv'
<1>1. Len(events') <= Len(file')
  BY DEF TypeOK
<1>2. QED
  BY <1>1, Zenon DEF FileInv, PlaceInv, Within

(* The task ends, and the process with it.                                 *)
LEMMA ExitSafe == ASSUME Counting, WriterInv, Exit PROVE WriterInv'
<1>1. /\ TypeOK /\ ShapeInv /\ QueueInv /\ FileInv /\ PlaceInv
      /\ LogInv /\ VersionsInv /\ OutcomeInv /\ NoEventTwice
  BY Zenon DEF WriterInv
<1>2. /\ pc \in {"recv", "dead"} /\ pc' = "exited"
      /\ channel' = <<>> /\ batch' = <<>> /\ recorded' = <<>> /\ k' = 1
      /\ cache' = Empty /\ file' = file /\ events' = file /\ torn' = FALSE
      /\ UNCHANGED <<mishap, call, starts, base, published>>
  BY Zenon DEF Exit, Stop
<1>3. DOMAIN cache' = {} /\ cache' \in [DOMAIN cache' -> Seq(RecordedEvent)]
  BY <1>2, Zenon DEF Empty
<1>4. TypeOK'
  <2>1. /\ pc' \in Locations /\ k' \in Nat \ {0}
        /\ recorded' \in Seq(RecordedEvent)
        /\ channel' \in Seq(Nat) /\ batch' \in Seq(Nat)
    BY <1>2 DEF Locations, Stopped
  <2>2. QED
    BY <1>1, <1>2, <1>3, <2>1, Zenon DEF TypeOK
<1>5. /\ CallsKept /\ OkKept /\ pc \notin Stopped /\ pc \notin Logged
      /\ pc' \in Stopped /\ pc' # "dead"
  BY <1>2, Zenon DEF CallsKept, OkKept, Stopped, Logged
<1>6. \A i \in DOMAIN call :
        /\ call'[i].during <= starts
        /\ call'[i].status # "answered" => call'[i].result = "none"
  BY <1>1, <1>2, Zenon DEF ShapeInv, QueueInv
<1>7. Halts
  BY <1>2, <1>3, <1>5, <1>6, Zenon DEF Halts, Stopped
<1>8. LogInv' /\ VersionsInv' /\ NoEventTwice' /\ (~mishap => Grows(events, events'))
  <2>1. CASE mishap
    <3>1. mishap'
      BY <1>2, <2>1
    <3>2. QED
      BY <2>1, <3>1, Zenon
      DEF LogInv, VersionsInv, NoEventTwice, NothingForgotten
  <2>2. CASE ~mishap
    <3>1. events' = events
      BY <1>1, <1>2, <2>2, Zenon DEF FileInv
    <3>2. Grows(events, events')
      BY <1>1, <3>1 DEF Grows, TypeOK
    <3>3. QED
      BY <1>1, <1>2, <1>5, <3>1, <3>2, LogQuiet, Zenon
  <2>3. QED
    BY <2>1, <2>2, Zenon
<1>9. OutcomeInv'
  <2>1. \A i \in 1..Len(file) :
           /\ file[i].by \in DOMAIN call
           /\ call[file[i].by].result \in {"none", "ok", "Io"}
           /\ call[file[i].by].status \notin Pending
    BY <1>1, <1>5, Zenon DEF OutcomeInv, Settled
  <2>2. QED
    BY <1>2, <1>5, <2>1, StopOutcome, Zenon
<1>10. FileInv' /\ PlaceInv'
  <2>1. Within(file', Len(file'))
    BY <1>1, <1>2, Zenon DEF PlaceInv, Within
  <2>2. QED
    BY <1>2, <1>3, <1>4, <2>1, StopPlace, Zenon
<1>11. QED
  BY <1>4, <1>5, <1>7, <1>8, <1>9, <1>10, HaltSafe, Zenon

(* The process dies, before or after the batch on its way is in the file.  *)
LEMMA CrashSafe == ASSUME Counting, WriterInv, Crash PROVE WriterInv'
<1>1. /\ TypeOK /\ ShapeInv /\ QueueInv /\ FileInv /\ PlaceInv
      /\ LogInv /\ VersionsInv /\ OutcomeInv /\ IndexedInv /\ NoEventTwice
  BY Zenon DEF WriterInv
<1>2. /\ pc' = "down" /\ pc \notin Stopped
      /\ channel' = <<>> /\ batch' = <<>> /\ recorded' = <<>> /\ k' = 1
      /\ cache' = Empty /\ events' = file' /\ torn' = FALSE
      /\ UNCHANGED <<mishap, starts, base, published>>
      /\ call' = [i \in DOMAIN call |->
                    IF call[i].status \in Pending
                    THEN [call[i] EXCEPT !.status = "lost"] ELSE call[i]]
      /\ \/ file' = file
         \/ Appending /\ Accepted /\ file' = Stored
  BY Zenon DEF Crash, Stop
<1>3. PICK c : c = call'
  OBVIOUS
<1>4. ASSUME NEW i \in DOMAIN call
      PROVE  /\ c[i] \in Call /\ c[i].req = call[i].req
             /\ c[i].result = call[i].result /\ c[i].answer = call[i].answer
             /\ c[i].during = call[i].during /\ c[i].status \notin Pending
             /\ c[i].status = call[i].status \/ call[i].status \in Pending
  <2>1. call[i] \in Call /\ "lost" \in Statuses
    BY <1>1, CallFields, Zenon DEF Statuses
  <2>2. PICK x : x = [call[i] EXCEPT !.status = "lost"]
    BY Zenon
  <2>3. /\ x \in Call /\ x.req = call[i].req /\ x.status = "lost"
        /\ x.result = call[i].result /\ x.answer = call[i].answer
        /\ x.during = call[i].during
    BY <2>1, <2>2, Zenon DEF Call
  <2>4. c[i] = IF call[i].status \in Pending THEN x ELSE call[i]
    BY <1>2, <1>3, <2>2, Zenon
  <2>5. QED
    BY <2>1, <2>3, <2>4, Zenon DEF Pending
<1>5. c \in Seq(Call) /\ Len(c) = Len(call) /\ DOMAIN c = DOMAIN call
  <2>1. c = [i \in DOMAIN call |-> c[i]]
    BY <1>2, <1>3, Zenon
  <2>2. QED
    BY <1>1, <1>4, <2>1, CallsMapped, Zenon
<1>6. CallsKept /\ OkKept /\ pc' \in Stopped /\ pc' # "dead"
  BY <1>2, <1>3, <1>4, <1>5, Zenon DEF CallsKept, OkKept, Stopped
<1>7. DOMAIN cache' = {} /\ cache' \in [DOMAIN cache' -> Seq(RecordedEvent)]
  BY <1>2, Zenon DEF Empty
<1>8. \A i \in DOMAIN call :
        /\ call'[i].during <= starts
        /\ call'[i].status # "answered" => call'[i].result = "none"
  BY <1>1, <1>3, <1>4 DEF ShapeInv, QueueInv, Pending
<1>9. Halts
  BY <1>2, <1>3, <1>5, <1>6, <1>7, <1>8, Zenon DEF Halts, Stopped
<1>10. /\ file' \in Seq(RecordedEvent) /\ Within(file', Len(file'))
       /\ \A i \in 1..Len(file') :
            \/ i \in 1..Len(file) /\ file'[i] = file[i]
            \/ /\ file'[i].by = Head(batch) /\ Head(batch) \in DOMAIN call
               /\ call[Head(batch)].result = "none"
  <2>1. CASE file' = file
    BY <1>1, <2>1, Zenon DEF TypeOK, PlaceInv, Within
  <2>2. CASE Appending /\ file' = Stored
    <3>1. pc = "serve" /\ pc \in {"drain", "serve"} \cup Logged
      BY <2>2, Zenon DEF Appending
    <3>2. Head(batch) \in DOMAIN call /\ call[Head(batch)].result = "none"
      BY <1>1, <3>1, CurrentFields, HeadUnanswered, Zenon
    <3>3. /\ Stored \in Seq(RecordedEvent) /\ Within(Stored, Len(Stored))
          /\ \A i \in 1..Len(Stored) :
               \/ i \in 1..Len(file) /\ Stored[i] = file[i]
               \/ Stored[i].by = Head(batch)
      BY <1>1, <3>1, StoredFields, Zenon
    <3>4. QED
      BY <2>2, <3>2, <3>3, Zenon
  <2>3. QED
    BY <1>2, <2>1, <2>2, Zenon
<1>11. TypeOK'
  <2>1. /\ pc' \in Locations /\ k' \in Nat \ {0}
        /\ recorded' \in Seq(RecordedEvent)
        /\ channel' \in Seq(Nat) /\ batch' \in Seq(Nat)
    BY <1>2 DEF Locations, Stopped
  <2>2. QED
    BY <1>1, <1>2, <1>3, <1>5, <1>7, <1>10, <2>1, Zenon DEF TypeOK
<1>12. OutcomeInv'
  <2>1. ASSUME NEW i \in 1..Len(file')
        PROVE  /\ file'[i].by \in DOMAIN call
               /\ call[file'[i].by].result \in {"none", "ok", "Io"}
    BY <1>1, <1>10, Zenon DEF OutcomeInv, Settled
  <2>2. ASSUME NEW i \in 1..Len(file')
        PROVE  /\ file'[i].by \in DOMAIN call'
               /\ call'[file'[i].by].result \in {"none", "ok", "Io"}
               /\ call'[file'[i].by].status \notin Pending
    BY <1>3, <1>4, <1>5, <2>1, Zenon
  <2>3. QED
    BY <1>2, <1>6, <2>2, StopOutcome, Zenon
<1>13. FileInv' /\ PlaceInv'
  BY <1>2, <1>7, <1>10, <1>11, StopPlace, Zenon
<1>14. LogInv' /\ VersionsInv' /\ NoEventTwice' /\ (~mishap => Grows(events, events'))
  <2>1. CASE mishap
    <3>1. mishap'
      BY <1>2, <2>1
    <3>2. QED
      BY <2>1, <3>1, Zenon
      DEF LogInv, VersionsInv, NoEventTwice, NothingForgotten
  <2>2. CASE ~mishap /\ file' = file
    <3>1. events' = events
      BY <1>1, <1>2, <2>2, Zenon DEF FileInv
    <3>2. Grows(events, events')
      BY <1>1, <3>1 DEF Grows, TypeOK
    <3>3. QED
      BY <1>1, <1>2, <1>6, <3>1, <3>2, LogQuiet, Zenon
  <2>3. CASE ~mishap /\ Appending /\ Accepted /\ file' = Stored
    <3>1. events' = events \o Record
      BY <1>1, <1>2, <2>3, Zenon DEF FileInv, Stored
    <3>2. Appends
      BY <1>6, <2>3, <3>1, Zenon DEF Appends
    <3>3. Grows(events, events')
      BY <1>1, <3>2, AppendsEvents, Zenon
    <3>4. QED
      BY <1>1, <1>2, <1>11, <3>2, <3>3, LogGrows, VersionsGrow, TwiceGrows, Zenon
  <2>4. QED
    BY <1>2, <2>1, <2>2, <2>3, Zenon
<1>15. QED
  BY <1>2, <1>6, <1>9, <1>11, <1>12, <1>13, <1>14, HaltSafe, Zenon

-----------------------------------------------------------------------------
(* The invariant, and what it is for.                                      *)

(* A new installation: an empty log, no process, no call.                  *)
LEMMA WriterInit == ASSUME Init PROVE WriterInv
<1>1. /\ pc = "down" /\ events = <<>> /\ file = <<>> /\ torn = FALSE
      /\ mishap = FALSE /\ channel = <<>> /\ batch = <<>>
      /\ recorded = <<>> /\ k = 1 /\ call = <<>> /\ starts = 0 /\ base = 0
      /\ published = <<>> /\ pc \notin Logged
      /\ DOMAIN cache = {} /\ cache \in [DOMAIN cache -> Seq(RecordedEvent)]
  BY Zenon DEF Init, Empty, Logged
<1>2. /\ Len(events) = 0 /\ Len(file) = 0 /\ Len(channel) = 0 /\ Len(batch) = 0
      /\ Len(published) = 0 /\ DOMAIN call = {}
  BY <1>1
<1>3. TypeOK
  <2>1. /\ <<>> \in Seq(RecordedEvent) /\ <<>> \in Seq(Nat) /\ <<>> \in Seq(Call)
        /\ 1 \in Nat \ {0} /\ 0 \in Nat
    OBVIOUS
  <2>2. QED
    BY <1>1, <2>1, Zenon DEF TypeOK, Locations, Stopped
<1>4. ShapeInv /\ QueueInv
  BY <1>1, <1>2 DEF ShapeInv, QueueInv, Logged
<1>5. LogInv /\ VersionsInv /\ OutcomeInv /\ NoEventTwice
  <2>1. OutcomeInv
    BY <1>2 DEF OutcomeInv, Settled, ErrorsLeaveNothing
  <2>2. QED
    BY <1>2, <2>1 DEF LogInv, VersionsInv, NoEventTwice
<1>6. CacheInv /\ AnswersInv /\ RecordedInv
  BY <1>1, <1>2, Zenon DEF CacheInv, AnswersInv, RecordedInv
<1>7. PublishInv /\ AnsweredArePublished
  BY <1>1, <1>2 DEF PublishInv, PublishedInOrder, AnsweredArePublished
<1>8. Indexed = 0
  BY <1>1, Zenon DEF Indexed
<1>9. IndexedInv /\ RetryInv /\ SameAnswer
  BY <1>1, <1>2, <1>8 DEF IndexedInv, RetryInv, SameAnswer
<1>10. FileInv /\ PlaceInv
  BY <1>1, <1>2 DEF FileInv, PlaceInv, Within
<1>11. QED
  BY <1>3, <1>4, <1>5, <1>6, <1>7, <1>9, <1>10, Zenon DEF WriterInv

LEMMA WriterStep == ASSUME Counting, WriterInv, [Next]_vars PROVE WriterInv'
<1>1. ASSUME NEW r \in Requests, Submit(r) PROVE WriterInv'
  BY <1>1, SubmitSafe, Zenon
<1>2. ASSUME NEW i \in DOMAIN call, Send(i) PROVE WriterInv'
  BY <1>2, SendSafe, Zenon
<1>3. ASSUME NEW i \in DOMAIN call, SendClosed(i) PROVE WriterInv'
  BY <1>3, SendClosedSafe, Zenon
<1>4. ASSUME NEW i \in DOMAIN call, GiveUp(i) PROVE WriterInv'
  BY <1>4, GiveUpSafe
<1>5. ASSUME Task PROVE WriterInv'
  BY <1>5, SeedSafe, RecvSafe, DrainSafe, StampSafe, RejectSafe, DedupHitSafe,
     AppendRejectedSafe, AppendFailsSafe, AppendSucceedsSafe, DedupRecordSafe,
     PublishSafe, RespondSafe, ExitSafe, Zenon DEF Task
<1>6. ASSUME StampPanics \/ Start \/ Shutdown \/ Crash PROVE WriterInv'
  BY <1>6, StampPanicsSafe, StartSafe, ShutdownSafe, CrashSafe, Zenon
<1>7. CASE UNCHANGED vars
  BY <1>7, IdleSafe, Zenon DEF vars, disk, loop, dedup, run
<1>8. QED
  BY <1>1, <1>2, <1>3, <1>4, <1>5, <1>6, <1>7, Zenon DEF Next

-----------------------------------------------------------------------------
(* Finite sets.                                                            *)

F == INSTANCE FiniteSetTheorems

LEMMA SameSets ==
  \A S : /\ IsFiniteSet(S) <=> F!IsFiniteSet(S)
         /\ Cardinality(S) = F!Cardinality(S)
BY Zenon DEF IsFiniteSet, F!IsFiniteSet, Cardinality, F!Cardinality

LEMMA CountingHolds == Counting
<1>1. \A S : IsFiniteSet(S) => Cardinality(S) \in Nat
  BY F!FS_CardinalityType, SameSets, Zenon
<1>2. ASSUME NEW S, IsFiniteSet(S), NEW T \in SUBSET S
      PROVE  /\ IsFiniteSet(T) /\ Cardinality(T) <= Cardinality(S)
             /\ Cardinality(S) = Cardinality(T) => S = T
  BY <1>2, F!FS_Subset, SameSets, Zenon
<1>3. ASSUME NEW S, NEW T, IsFiniteSet(S), IsFiniteSet(T)
      PROVE  Cardinality(S \cup T) =
               Cardinality(S) + Cardinality(T) - Cardinality(S \cap T)
  BY <1>3, F!FS_Union, SameSets, Zenon
<1>4. ASSUME NEW a \in Int, NEW b \in Int
      PROVE  /\ IsFiniteSet(a..b)
             /\ Cardinality(a..b) = IF a > b THEN 0 ELSE b - a + 1
  BY F!FS_Interval, SameSets, Zenon
<1>5. Cardinality({}) = 0
  BY F!FS_EmptySet, SameSets, Zenon
<1>6. QED
  BY <1>1, <1>2, <1>3, <1>4, <1>5, Zenon DEF Counting

-----------------------------------------------------------------------------
(* The theorems.                                                           *)

(***************************************************************************)
(* run_writer, its callers and the life of the process keep the invariant, *)
(* for any requests, any number of calls and starts, and any capacities.   *)
(***************************************************************************)
THEOREM WriterInvariance == Spec => []WriterInv
<1>1. Init => WriterInv
  BY WriterInit, Zenon
<1>2. WriterInv /\ [Next]_vars => WriterInv'
  BY WriterStep, CountingHolds, Zenon
<1>3. QED
  BY <1>1, <1>2, PTL DEF Spec

(* A retried append is not written twice, over crashes and restarts, as    *)
(* long as the index has room for the IDs of the log and no failed append  *)
(* has left bytes in the file: DedupIndex::check, record, seed_from_log.   *)
THEOREM RetriesWriteOnce == Spec => []NoEventTwice
<1>1. WriterInv => NoEventTwice
  BY Zenon DEF WriterInv
<1>2. QED
  BY <1>1, WriterInvariance, PTL

(* Two calls that expect the same version of a stream do not both write to *)
(* it: the version check of Store::append under the one writer task.  This *)
(* is said of a file without bytes of a failed append.                     *)
THEOREM RivalsHaveOneWinner == Spec => []OneWinner
<1>1. ASSUME WriterInv PROVE OneWinner
  <2>1. TypeOK /\ LogInv /\ VersionsInv
    BY <1>1, Zenon DEF WriterInv
  <2>2. SUFFICES ASSUME ~mishap, NEW i \in 1..Len(events), NEW j \in 1..Len(events),
                        events[i].by # events[j].by,
                        Written(i).stream_id = Written(j).stream_id,
                        Written(i).expected_version = Written(j).expected_version,
                        Written(i).expected_version # Any
                 PROVE  FALSE
    BY Zenon DEF OneWinner, Written
  <2>3. PICK a \in 1..Len(events) :
           /\ events[a].by = events[i].by
           /\ events[a].stream_version = Written(i).expected_version + 1
    BY <2>1, <2>2, Zenon DEF VersionsInv
  <2>4. PICK b \in 1..Len(events) :
           /\ events[b].by = events[j].by
           /\ events[b].stream_version = Written(j).expected_version + 1
    BY <2>1, <2>2, Zenon DEF VersionsInv
  <2>5. Written(a) = Written(i) /\ Written(b) = Written(j)
    BY <2>3, <2>4, Zenon DEF Written
  <2>6. events[a].stream_id = events[b].stream_id
    <3>1. /\ events[a].stream_id = Written(a).stream_id
          /\ events[b].stream_id = Written(b).stream_id
      BY <2>1, <2>2, Zenon DEF LogInv
    <3>2. QED
      BY <2>2, <2>5, <3>1, Zenon
  <2>7. events[a].stream_version = events[b].stream_version
    BY <2>2, <2>3, <2>4, Zenon
  <2>8. a = b
    BY <2>1, <2>2, <2>6, <2>7, Zenon DEF VersionsInv
  <2>9. QED
    BY <2>2, <2>3, <2>4, <2>8, Zenon
<1>2. WriterInv => OneWinner
  BY <1>1, Zenon
<1>3. QED
  BY <1>2, WriterInvariance, PTL

(* An Ok answer is a piece of the log that holds the first event of the    *)
(* request, whether append returned it or the index had it, in a file      *)
(* without bytes of a failed append.                                       *)
THEOREM AnswersComeFromTheLog == Spec => []AnswersAreLogged
<1>1. WriterInv => AnswersAreLogged
  BY Zenon DEF WriterInv, AnswersInv, Piece, Has, AnswersAreLogged
<1>2. QED
  BY <1>1, WriterInvariance, PTL

(* A retry that the same process answers gets the answer of the original:  *)
(* DedupIndex::record keeps the whole batch under each of its IDs.  The    *)
(* index has room for all, no two requests share an ID, and no failed      *)
(* append has left bytes in the file.                                      *)
THEOREM RetriesGetTheSameAnswer == Spec => []SameAnswer
<1>1. WriterInv => SameAnswer
  BY Zenon DEF WriterInv
<1>2. QED
  BY <1>1, WriterInvariance, PTL

(* An append that was turned down has nothing in the log, ever; one that   *)
(* got an I/O error has nothing in the index of the process that said so,  *)
(* whatever seek, write_all and sync_all left in the file.                 *)
THEOREM ErrorsWriteNothing == Spec => []ErrorsLeaveNothing
<1>1. WriterInv => ErrorsLeaveNothing
  BY Zenon DEF WriterInv, OutcomeInv
<1>2. QED
  BY <1>1, WriterInvariance, PTL

(* The broker gets what goes into the log, in its order, without a gap and *)
(* no sooner than readers can see it: run_writer publishes after append.   *)
THEOREM PublishedAsLogged == Spec => []PublishedInOrder
<1>1. WriterInv => PublishedInOrder
  BY Zenon DEF WriterInv, PublishInv
<1>2. QED
  BY <1>1, WriterInvariance, PTL

(* By the time a caller has its Ok answer from run_writer, the broker has  *)
(* the events it names.                                                    *)
THEOREM PublishedBeforeAnswered == Spec => []AnsweredArePublished
<1>1. WriterInv => AnsweredArePublished
  BY Zenon DEF WriterInv
<1>2. QED
  BY <1>1, WriterInvariance, PTL
====
