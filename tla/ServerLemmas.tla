---------------------------- MODULE ServerLemmas ----------------------------
(***************************************************************************)
(* What the proofs about module Server share: facts about sequences, the   *)
(* channel and the calls, and what the reads of the index return.          *)
(***************************************************************************)
EXTENDS ServerInvariant, TLAPS

-----------------------------------------------------------------------------
(* Sequences.                                                              *)

LEMMA SeqIn ==
  ASSUME NEW S, NEW s \in Seq(S)
  PROVE  /\ Len(s) \in Nat /\ DOMAIN s = 1..Len(s)
         /\ \A i \in 1..Len(s) : s[i] \in S
         /\ s # <<>> => Len(s) >= 1 /\ 1 \in 1..Len(s)
OBVIOUS

LEMMA AppendElements ==
  ASSUME NEW S, NEW s \in Seq(S), NEW x \in S
  PROVE  /\ Append(s, x) \in Seq(S)
         /\ Len(Append(s, x)) = Len(s) + 1
         /\ \A i \in 1..Len(s) : Append(s, x)[i] = s[i]
         /\ Append(s, x)[Len(s) + 1] = x
OBVIOUS

LEMMA TailElements ==
  ASSUME NEW S, NEW s \in Seq(S), s # <<>>
  PROVE  /\ Tail(s) \in Seq(S)
         /\ Len(Tail(s)) = Len(s) - 1
         /\ \A i \in 1..Len(Tail(s)) : i + 1 \in 1..Len(s) /\ Tail(s)[i] = s[i + 1]
         /\ Head(s) = s[1] /\ 1 \in 1..Len(s)
OBVIOUS

LEMMA ConcatElements ==
  ASSUME NEW S, NEW s \in Seq(S), NEW t \in Seq(S)
  PROVE  /\ s \o t \in Seq(S)
         /\ Len(s \o t) = Len(s) + Len(t)
         /\ \A i \in 1..Len(s) : (s \o t)[i] = s[i]
         /\ \A i \in 1..Len(t) : (s \o t)[Len(s) + i] = t[i]
OBVIOUS

LEMMA EmptySeq ==
  ASSUME NEW S
  PROVE  <<>> \in Seq(S) /\ Len(<<>>) = 0
OBVIOUS

LEMMA NoElement == \A i \in 1..Len(<<>>) : FALSE
OBVIOUS

-----------------------------------------------------------------------------
(* Records.                                                                *)

LEMMA IdleIs ==
  /\ Idle.state = "idle" /\ Idle.id = 0 /\ Idle.req.rpc = "none"
  /\ Idle.resp = Status("none") /\ Idle.state \notin Undecided \cup {"answered"}
BY DEF Idle, Undecided

LEMMA ResponseIs ==
  ASSUME NEW b
  PROVE  Response(b).status = "OK" /\ Response(b).body = b /\ Status(b).status = b
BY DEF Response, Status

-----------------------------------------------------------------------------
(* What counting clients needs of Cardinality (CountingHolds in            *)
(* ServerProofs).                                                          *)

Counting ==
  /\ Cardinality({}) = 0
  /\ \A S \in SUBSET Clients : Cardinality(S) \in Nat
  /\ \A S \in SUBSET Clients : \A c \in Clients \ S :
        Cardinality(S \cup {c}) = Cardinality(S) + 1
  /\ \A S \in SUBSET Clients : \A c \in S :
        Cardinality(S \ {c}) = Cardinality(S) - 1

-----------------------------------------------------------------------------
(* The channel.                                                            *)

Message == [client : Clients, id : Nat, req : Requests]

LEMMA InQueue ==
  ASSUME QueueInv, NEW i \in 1..Len(queue)
  PROVE  /\ queue[i].id \in 1..calls
         /\ queue[i].req.rpc = "append" /\ append_valid(queue[i].req)
BY Zenon DEF QueueInv

LEMMA OfQueue ==
  ASSUME QueueInv, NEW i \in 1..Len(queue), NEW d \in Clients,
         call[d].id = queue[i].id
  PROVE  /\ d = queue[i].client
         /\ call[d].state = "queued" /\ call[d].req = queue[i].req
BY DEF QueueInv

LEMMA QueuedIs ==
  ASSUME QueueInv, NEW d \in Clients, call[d].state = "queued"
  PROVE  \E i \in 1..Len(queue) : queue[i].id = call[d].id
BY Zenon DEF QueueInv

LEMMA QueueNext ==
  ASSUME \A i \in 1..Len(queue') : queue'[i].id \in 1..calls',
         \A i \in 1..Len(queue') :
            queue'[i].req.rpc = "append" /\ append_valid(queue'[i].req),
         \A i \in 1..Len(queue'), d \in Clients :
            call'[d].id = queue'[i].id =>
              /\ d = queue'[i].client
              /\ call'[d].state = "queued" /\ call'[d].req = queue'[i].req,
         \A i, j \in 1..Len(queue') : queue'[i].id = queue'[j].id => i = j,
         \A d \in Clients : call'[d].state = "queued" =>
            \E i \in 1..Len(queue') : queue'[i].id = call'[d].id
  PROVE  QueueInv'
BY DEF QueueInv

LEMMA QueueSame ==
  ASSUME QueueInv, queue' = queue, call' = call, calls' = calls
  PROVE  QueueInv'
BY ZenonT(30) DEF QueueInv

-----------------------------------------------------------------------------
(* A call, and what it becomes.                                            *)

Becomes(c, x) ==
  /\ DOMAIN call' = Clients /\ call'[c] = x
  /\ \A d \in Clients : d # c => call'[d] = call[d]

LEMMA CallFacts ==
  ASSUME ServerInv, NEW c \in Clients, InFlight(c)
  PROVE  /\ phase \in Accepting \cup {"draining"} /\ phase \notin Starting
         /\ metrics.installed
         /\ CallOK(call[c], calls, config.jwt_secret) /\ call[c].state \in Undecided
         /\ call[c].id # 0 /\ call[c].resp = Status("none")
         /\ DOMAIN call = Clients /\ DOMAIN metrics = DOMAIN NoMetrics
<1>1. PhaseInv /\ CallInv /\ TypeOK
  BY Zenon DEF ServerInv
<1>2. phase \in Accepting \cup {"draining"}
  BY <1>1, Zenon DEF PhaseInv
<1>3. phase \notin Starting /\ phase \in Accepting \cup Ending
  BY <1>2 DEF Accepting, Starting, Ending
<1>4. CallOK(call[c], calls, config.jwt_secret)
  BY <1>1, Zenon DEF CallInv
<1>5. call[c].state \in Undecided /\ call[c].state # "idle"
  BY <1>4, Zenon DEF CallOK, InFlight
<1>6. call[c].id # 0 /\ call[c].resp = Status("none")
  BY <1>4, <1>5, Zenon DEF CallOK
<1>7. metrics.installed
  BY <1>1, <1>3, Zenon DEF PhaseInv
<1>8. QED
  BY <1>1, <1>2, <1>3, <1>4, <1>5, <1>6, <1>7, Zenon DEF TypeOK

LEMMA AnsweredIs ==
  ASSUME ServerInv, NEW c \in Clients, InFlight(c), NEW resp
  PROVE  /\ Answered(c, resp).state = "answered" /\ Answered(c, resp).resp = resp
         /\ Answered(c, resp).req = call[c].req /\ Answered(c, resp).id = call[c].id
         /\ DOMAIN Answered(c, resp) = DOMAIN Idle
<1>1. DOMAIN call[c] = DOMAIN Idle
  BY CallFacts, Zenon DEF CallOK
<1>2. DOMAIN call[c] = {"state", "req", "resp", "id", "at"}
  BY <1>1 DEF Idle
<1>3. QED
  BY <1>1, <1>2 DEF Answered

LEMMA BecomesIs ==
  ASSUME ServerInv, NEW c \in Clients, NEW x, call' = [call EXCEPT ![c] = x]
  PROVE  Becomes(c, x)
<1>1. DOMAIN call = Clients
  BY Zenon DEF ServerInv, TypeOK
<1>2. QED
  BY <1>1 DEF Becomes

-----------------------------------------------------------------------------
(* Slices, and the events that a read shows.                               *)

(* The m elements of a sequence after the first a.                         *)
Part(seq, a, m, found) ==
  /\ a + m <= Len(seq) /\ Len(found) = m
  /\ \A i \in 1..m : a + i \in 1..Len(seq) /\ found[i] = seq[a + i]

LEMMA SubSeqIs ==
  ASSUME NEW S, NEW seq \in Seq(S), NEW a \in Nat, NEW m \in Nat,
         a + m <= Len(seq)
  PROVE  Part(seq, a, m, SubSeq(seq, a + 1, a + m))
<1>1. PICK n \in Nat : n = Len(seq)
  OBVIOUS
<1>2. PICK b \in Nat : b = a + m
  OBVIOUS
<1>3. Len(SubSeq(seq, a + 1, b)) = m
  BY <1>1, <1>2
<1>4. \A i \in 1..(b - (a + 1) + 1) : SubSeq(seq, a + 1, b)[i] = seq[(a + 1) + i - 1]
  BY <1>1, <1>2, SMTT(30)
<1>5. ASSUME NEW i \in 1..m
      PROVE  a + i \in 1..Len(seq) /\ SubSeq(seq, a + 1, b)[i] = seq[a + i]
  <2>1. i \in 1..(b - (a + 1) + 1) /\ (a + 1) + i - 1 = a + i /\ a + i \in 1..n
    BY <1>1, <1>2
  <2>2. QED
    BY <1>1, <1>4, <2>1, Zenon
<1>6. QED
  BY <1>2, <1>3, <1>5, Zenon DEF Part

(* A slice is the part that the range selects.                             *)
Selects(r, n, a, m) ==
  \A p \in 0..(n - 1) : (a <= p /\ p < a + m) <=> Within(r, p)

LEMMA SliceIs ==
  ASSUME NEW S, NEW seq \in Seq(S), NEW r, r.from \in 0..MaxU64, r.max \in 0..MaxU64,
         Len(seq) <= MaxU64
  PROVE  \E a, m \in Nat : \E found :
           /\ Slice(seq, r.from, r.max) = Response(found)
           /\ Part(seq, a, m, found) /\ Selects(r, Len(seq), a, m)
<1> DEFINE a == Smaller(r.from, Len(seq))
           b == Smaller(saturating_add(r.from, r.max), Len(seq))
<1>1. MaxU64 \in Nat /\ Len(seq) \in Nat /\ r.from \in Nat /\ r.max \in Nat
  BY MaxU64Assumption, SeqIn
<1>2. PICK n \in Nat : n = Len(seq)
  BY <1>1
<1>3. PICK f, x \in Nat : f = r.from /\ x = r.max
  BY <1>1
<1>4. PICK t \in Nat : t = saturating_add(f, x)
  BY <1>1 DEF saturating_add
<1>5. f <= t /\ (t = f + x \/ (t = MaxU64 /\ f + x > MaxU64))
  BY <1>1, <1>3, <1>4 DEF saturating_add
<1>6. a \in Nat /\ b \in Nat /\ a <= b /\ b <= n
  BY <1>1, <1>2, <1>3, <1>4, <1>5 DEF Smaller
<1>7. \A p \in 0..(n - 1) : (a <= p /\ p < b) <=> (f <= p /\ p < f + x)
  BY <1>1, <1>2, <1>3, <1>4, <1>5 DEF Smaller
<1>8. Slice(seq, r.from, r.max) =
        IF a > b THEN Panics ELSE Response(SubSeq(seq, a + 1, b))
  BY Zenon DEF Slice
<1> HIDE DEF a, b
<1>9. PICK m \in Nat : b = a + m
  <2>1. b - a \in Nat /\ b = a + (b - a)
    BY <1>6
  <2>2. QED
    BY <2>1, Zenon
<1>10. ~(a > b) /\ a + m <= Len(seq)
  BY <1>2, <1>6, <1>9
<1>11. Slice(seq, r.from, r.max) = Response(SubSeq(seq, a + 1, a + m))
  BY <1>8, <1>9, <1>10, Zenon
<1>12. Part(seq, a, m, SubSeq(seq, a + 1, a + m))
  BY <1>6, <1>10, SubSeqIs, Zenon
<1>13. Selects(r, Len(seq), a, m)
  BY <1>2, <1>3, <1>7, <1>9, Zenon DEF Selects, Within
<1>14. QED
  BY <1>6, <1>11, <1>12, <1>13, Zenon

(* The events at the places Q, one after the other.                        *)
Increasing(Q, m) == \A i, j \in 1..m : i < j => Q[i] < Q[j]

Numbered(l, n) == \A k \in 1..n : l.events[k].global_position = k - 1

Covers(Q, m, K) ==
  /\ \A i \in 1..m : Q[i] \in K
  /\ \A k \in K : \E i \in 1..m : k = Q[i]

Picked(l, m, Q, body) ==
  Len(body) = m /\ \A i \in 1..m : body[i] = recorded_to_proto(l.events[Q[i]])

LEMMA ShowsIs ==
  ASSUME NEW l, NEW n \in Nat, NEW m \in Nat, NEW Q \in [1..m -> 1..n],
         Numbered(l, n), Increasing(Q, m), NEW body, Picked(l, m, Q, body),
         NEW K, Covers(Q, m, K)
  PROVE  Shows(l, body, K)
<1>0. Len(body) = m /\ \A i \in 1..m : body[i] = recorded_to_proto(l.events[Q[i]])
  BY Zenon DEF Picked
<1>1. {body[i] : i \in 1..Len(body)} = {recorded_to_proto(l.events[k]) : k \in K}
  <2>1. \A i \in 1..m : Q[i] \in K
    BY Zenon DEF Covers
  <2>2. \A k \in K : \E i \in 1..m : k = Q[i]
    BY Zenon DEF Covers
  <2>3. \A i \in 1..m : body[i] \in {recorded_to_proto(l.events[k]) : k \in K}
    BY <1>0, <2>1, Zenon
  <2>4. \A k \in K : recorded_to_proto(l.events[k]) \in {body[i] : i \in 1..m}
    <3>1. ASSUME NEW k \in K PROVE recorded_to_proto(l.events[k]) \in {body[i] : i \in 1..m}
      <4>1. PICK i \in 1..m : k = Q[i]
        BY <2>2, Zenon
      <4>2. body[i] = recorded_to_proto(l.events[k])
        BY <1>0, <4>1, Zenon
      <4>3. QED
        BY <4>2, Zenon
    <3>2. QED
      BY <3>1, Zenon
  <2>5. QED
    BY <1>0, <2>3, <2>4, Zenon
<1>2. ASSUME NEW i \in 1..m PROVE body[i].global_position = Q[i] - 1
  <2>1. \A e : recorded_to_proto(e).global_position = e.global_position
    BY DEF recorded_to_proto
  <2>2. Q[i] \in 1..n
    OBVIOUS
  <2>3. l.events[Q[i]].global_position = Q[i] - 1
    BY <2>2, Zenon DEF Numbered
  <2>4. body[i] = recorded_to_proto(l.events[Q[i]])
    BY <1>0, Zenon
  <2>5. QED
    BY <2>1, <2>3, <2>4, Zenon
<1>3. ASSUME NEW i \in 1..m, NEW j \in 1..m, i < j
      PROVE  body[i].global_position < body[j].global_position
  <2>1. PICK p \in Nat, q \in Nat : p = Q[i] /\ q = Q[j]
    OBVIOUS
  <2>2. p < q
    BY <1>3, <2>1, Zenon DEF Increasing
  <2>3. p - 1 < q - 1
    BY <2>2
  <2>4. QED
    BY <1>2, <2>1, <2>3, Zenon
<1>4. QED
  BY <1>0, <1>1, <1>3, Zenon DEF Shows

(* What was shown is what it was when more is appended.                    *)
LEMMA ShowsKept ==
  ASSUME NEW l, NEW m, NEW body, NEW K,
         \A k \in K : m.events[k] = l.events[k], Shows(l, body, K)
  PROVE  Shows(m, body, K)
<1>1. {recorded_to_proto(l.events[k]) : k \in K} = {recorded_to_proto(m.events[k]) : k \in K}
  BY Zenon
<1>2. QED
  BY <1>1, Zenon DEF Shows

LEMMA ReadKept ==
  ASSUME NEW l, NEW m, NEW x, NEW n \in Nat, x.at \in 0..n,
         \A k \in 1..n : m.events[k] = l.events[k], ReadExact(l, x)
  PROVE  ReadExact(m, x)
<1>1. x.at \in Nat /\ \A k \in 1..x.at : m.events[k] = l.events[k]
  OBVIOUS
<1>2. \A s : Of(m, s, x.at) = Of(l, s, x.at)
  BY <1>1, Zenon DEF Of
<1>3. \A s : \A k \in Of(l, s, x.at) : m.events[k] = l.events[k]
  BY <1>1, Zenon DEF Of
<1>4. AllExact(l, x) => AllExact(m, x)
  <2>1. PICK K : K = {k \in 1..x.at : Within(x.req, l.events[k].global_position)}
    OBVIOUS
  <2>2. K = {k \in 1..x.at : Within(x.req, m.events[k].global_position)}
    BY <1>1, <2>1, Zenon
  <2>3. \A k \in K : m.events[k] = l.events[k]
    BY <1>1, <2>1, Zenon
  <2>4. QED
    <3>1. AllExact(l, x) => x.resp.status = "OK" /\ Shows(l, x.resp.body, K)
      BY <2>1 DEF AllExact
    <3>2. x.resp.status = "OK" /\ Shows(m, x.resp.body, K) => AllExact(m, x)
      BY <2>2 DEF AllExact
    <3>3. QED
      BY <2>3, <3>1, <3>2, ShowsKept, Zenon
<1>5. StreamExact(l, x) => StreamExact(m, x)
  <2>1. PICK of : of = Of(l, parse_uuid(x.req.stream_id), x.at)
    OBVIOUS
  <2>2. of = Of(m, parse_uuid(x.req.stream_id), x.at) /\ \A k \in of : m.events[k] = l.events[k]
    BY <1>2, <1>3, <2>1, Zenon
  <2>3. PICK K : K = {k \in of : Within(x.req, l.events[k].stream_version)}
    OBVIOUS
  <2>4. K = {k \in of : Within(x.req, m.events[k].stream_version)}
    BY <2>2, <2>3, Zenon
  <2>5. \A k \in K : m.events[k] = l.events[k]
    BY <2>2, <2>3, Zenon
  <2>6. QED
    <3>1. Shows(l, x.resp.body, K) => Shows(m, x.resp.body, K)
      BY <2>5, ShowsKept, Zenon
    <3>2. QED
      BY <2>1, <2>2, <2>3, <2>4, <3>1 DEF StreamExact
<1>6. ListingExact(l, x) => ListingExact(m, x)
  <2>1. {l.events[k].stream_id : k \in 1..x.at} = {m.events[k].stream_id : k \in 1..x.at}
    BY <1>1, Zenon
  <2>2. \A i : InfoExact(l, i, x.at) => InfoExact(m, i, x.at)
    <3>1. ASSUME NEW i, InfoExact(l, i, x.at) PROVE InfoExact(m, i, x.at)
      <4>1. PICK of : of = Of(l, i.stream_id.uuid, x.at)
        OBVIOUS
      <4>2. of = Of(m, i.stream_id.uuid, x.at) /\ \A k \in of : m.events[k] = l.events[k]
        BY <1>2, <1>3, <4>1, Zenon
      <4>3. PICK k \in of : /\ i.event_count = Cardinality(of)
                            /\ \A j \in of : j <= k
                            /\ i.latest_version = l.events[k].stream_version
        BY <3>1, <4>1, Zenon DEF InfoExact
      <4>4. i.latest_version = m.events[k].stream_version
        BY <4>2, <4>3, Zenon
      <4>5. QED
        BY <4>2, <4>3, <4>4, Zenon DEF InfoExact
    <3>2. QED
      BY <3>1, Zenon
  <2>3. QED
    BY <2>1, <2>2, Zenon DEF ListingExact
<1>7. QED
  BY <1>4, <1>5, <1>6, Zenon DEF ReadExact

-----------------------------------------------------------------------------
(* Reads.                                                                  *)

(* The index, as the writer keeps it.                                      *)
Index(l) ==
  /\ l.events \in Seq(RecordedEvent)
  /\ l.streams \in [DOMAIN l.streams -> Seq(Nat)]
  /\ DOMAIN l.streams = {l.events[k].stream_id : k \in 1..Len(l.events)}
  /\ \A k \in 1..Len(l.events) : l.events[k].global_position = k - 1
  /\ Ordered(l)

(* What reads need of Cardinality and of sort_by (ListingHolds below).     *)
Ranked(S, n, q) == n \in Nat /\ Len(q) = n /\ Increasing(q, n) /\ Covers(q, n, S)

Listing ==
  /\ \A m, n \in Nat : \A Q \in [1..m -> 1..n] : Increasing(Q, m) => m <= n
  /\ \A m, n \in Nat : \A Q \in [1..m -> 1..n] : \A K :
       Increasing(Q, m) /\ Covers(Q, m, K) => Cardinality(K) = m
  /\ \A S \in SUBSET Int : IsFiniteSet(S) => Ranked(S, Cardinality(S), sort_by(S))
  /\ \A l : \A n \in Nat : IsFiniteSet({l.events[k].stream_id : k \in 1..n})

(* The events that were found, as they are sent.                           *)
Sent(found, m, body) ==
  Len(body) = m /\ \A i \in 1..m : body[i] = recorded_to_proto(found[i])

LEMMA SentIs ==
  ASSUME NEW found, NEW m \in Nat, Len(found) = m
  PROVE  Sent(found, m, Mapped(recorded_to_proto, found))
BY DEF Mapped, Sent

LEMMA BodyIs ==
  ASSUME NEW found, NEW resp, resp = Response(found), NEW y,
         y = [resp EXCEPT !.body = Mapped(recorded_to_proto, @)]
  PROVE  y = Response(Mapped(recorded_to_proto, found))
BY DEF Response

(* The answer to a range, as it is sent.                                   *)
Replies(l, x, resp) ==
  /\ x.req.from \in 0..MaxU64 /\ x.req.max \in 0..MaxU64 /\ x.at = Len(l.events)
  /\ x.resp = [resp EXCEPT !.body = Mapped(recorded_to_proto, @)]

LEMMA read_allIs ==
  ASSUME NEW l, Index(l), Len(l.events) <= MaxU64, NEW x,
         NEW resp, resp = read_all(l, x.req.from, x.req.max), Replies(l, x, resp)
  PROVE  AllExact(l, x)
<1>0. /\ x.req.from \in 0..MaxU64 /\ x.req.max \in 0..MaxU64 /\ x.at = Len(l.events)
      /\ x.resp = [resp EXCEPT !.body = Mapped(recorded_to_proto, @)]
  BY Zenon DEF Replies
<1>1. PICK n \in Nat : n = Len(l.events)
  BY SeqIn, Zenon DEF Index
<1>2. /\ l.events \in Seq(RecordedEvent)
      /\ \A k \in 1..Len(l.events) : l.events[k].global_position = k - 1
  BY Zenon DEF Index
<1>3. PICK a, m \in Nat : \E found :
        /\ resp = Response(found)
        /\ Part(l.events, a, m, found) /\ Selects(x.req, Len(l.events), a, m)
  BY <1>0, <1>2, SliceIs, Zenon DEF read_all
<1>4. PICK found :
        /\ resp = Response(found)
        /\ Part(l.events, a, m, found) /\ Selects(x.req, Len(l.events), a, m)
  BY <1>3, Zenon
<1>5. /\ Len(found) = m /\ a + m <= n
      /\ \A i \in 1..m : a + i \in 1..n /\ found[i] = l.events[a + i]
  BY <1>1, <1>4, Zenon DEF Part
<1>6. PICK body : body = Mapped(recorded_to_proto, found)
  OBVIOUS
<1>7. x.resp = Response(body)
  <2>1. PICK y : y = x.resp
    OBVIOUS
  <2>2. y = Response(Mapped(recorded_to_proto, found))
    BY <1>0, <1>4, <2>1, BodyIs, Zenon
  <2>3. QED
    BY <1>6, <2>1, <2>2, Zenon
<1>8. Len(body) = m /\ \A i \in 1..m : body[i] = recorded_to_proto(found[i])
  <2>1. Len(found) = m
    BY <1>5, Zenon
  <2>2. Sent(found, m, body)
    BY <1>6, <2>1, SentIs, Zenon
  <2>3. QED
    BY <2>2, Zenon DEF Sent
<1>9. PICK Q : Q = [i \in 1..m |-> a + i]
  OBVIOUS
<1>10. /\ Q \in [1..m -> 1..n] /\ \A i \in 1..m : Q[i] = a + i
       /\ Increasing(Q, m)
  BY <1>5, <1>9 DEF Increasing
<1>11. PICK K : K = {k \in 1..x.at : Within(x.req, l.events[k].global_position)}
  OBVIOUS
<1>12. K = {k \in 1..n : a < k /\ k <= a + m}
  <2>1. ASSUME NEW k \in 1..n
        PROVE  Within(x.req, l.events[k].global_position) <=> (a < k /\ k <= a + m)
    <3>1. /\ k - 1 \in 0..(n - 1)
          /\ (a < k /\ k <= a + m) <=> (a <= k - 1 /\ k - 1 < a + m)
      OBVIOUS
    <3>2. l.events[k].global_position = k - 1
      BY <1>1, <1>2, Zenon
    <3>3. Within(x.req, k - 1) <=> (a <= k - 1 /\ k - 1 < a + m)
      BY <1>1, <1>4, <3>1, Zenon DEF Selects
    <3>4. QED
      BY <3>1, <3>2, <3>3, Zenon
  <2>2. QED
    BY <1>0, <1>1, <1>11, <2>1, Zenon
<1>13. Covers(Q, m, K)
  <2>1. ASSUME NEW k \in K PROVE \E i \in 1..m : k = Q[i]
    <3>1. k - a \in 1..m /\ a + (k - a) = k
      BY <1>12
    <3>2. QED
      BY <1>10, <3>1, Zenon
  <2>2. ASSUME NEW i \in 1..m PROVE Q[i] \in K
    <3>1. a + i \in K
      BY <1>5, <1>12
    <3>2. QED
      BY <1>10, <3>1, Zenon
  <2>3. QED
    BY <2>1, <2>2, Zenon DEF Covers
<1>14. ASSUME NEW i \in 1..m PROVE body[i] = recorded_to_proto(l.events[Q[i]])
  <2>1. found[i] = l.events[a + i] /\ Q[i] = a + i
    BY <1>5, <1>10, Zenon
  <2>2. QED
    BY <1>8, <2>1, Zenon
<1>15. Shows(l, body, K)
  <2>1. Numbered(l, n)
    BY <1>1, <1>2, Zenon DEF Numbered
  <2>2. Picked(l, m, Q, body)
    BY <1>8, <1>14, Zenon DEF Picked
  <2>3. QED
    BY <1>10, <1>13, <2>1, <2>2, ShowsIs, Zenon
<1>16. x.resp.status = "OK" /\ x.resp.body = body
  BY <1>7, ResponseIs, Zenon
<1>17. QED
  BY <1>11, <1>15, <1>16 DEF AllExact

(* The events of a stream, by version.                                     *)
Lane(l, s, n, c, R) ==
  /\ R \in [1..c -> 1..n] /\ Increasing(R, c) /\ Covers(R, c, Of(l, s, n))
  /\ \A i \in 1..c : /\ R[i] = l.streams[s][i] + 1
                     /\ l.events[R[i]].stream_version = i - 1

LEMMA LaneIs ==
  ASSUME NEW l, Index(l), NEW s \in DOMAIN l.streams, NEW n \in Nat, n = Len(l.events),
         NEW c \in Nat, c = Len(l.streams[s])
  PROVE  c >= 1 /\ \E R : Lane(l, s, n, c, R)
<1>1. /\ l.streams[s] \in Seq(Nat) /\ Ordered(l)
      /\ l.events \in Seq(RecordedEvent)
      /\ DOMAIN l.streams = {l.events[k].stream_id : k \in 1..Len(l.events)}
  BY Zenon DEF Index
<1>2. PICK P : P = l.streams[s]
  OBVIOUS
<1>3. \A i \in 1..c : P[i] \in Nat
  BY <1>1, <1>2, SeqIn, Zenon
<1>4. ASSUME NEW i \in 1..c
      PROVE  /\ P[i] + 1 \in 1..n
             /\ l.events[P[i] + 1].stream_id = s
             /\ l.events[P[i] + 1].stream_version = i - 1
             /\ \A j \in 1..(i - 1) : P[j] < P[i]
  BY <1>1, <1>2, Zenon DEF Ordered
<1>5. ASSUME NEW k \in 1..n, l.events[k].stream_id = s
      PROVE  \E i \in 1..c : P[i] = k - 1
  BY <1>1, <1>2, <1>5, Zenon DEF Ordered
<1>6. PICK R : R = [i \in 1..c |-> P[i] + 1]
  OBVIOUS
<1>7. \A i \in 1..c : R[i] = P[i] + 1
  BY <1>6, Zenon
<1>8. R \in [1..c -> 1..n]
  BY <1>4, <1>6, Zenon
<1>9. Increasing(R, c)
  <2>1. ASSUME NEW i \in 1..c, NEW j \in 1..c, i < j PROVE R[i] < R[j]
    <3>1. PICK p, q \in Nat : p = P[i] /\ q = P[j]
      BY <1>3, Zenon
    <3>2. i \in 1..(j - 1)
      BY <2>1
    <3>3. p < q
      BY <1>4, <3>1, <3>2, Zenon
    <3>4. p + 1 < q + 1
      BY <3>3
    <3>5. QED
      BY <1>7, <3>1, <3>4, Zenon
  <2>2. QED
    BY <2>1, Zenon DEF Increasing
<1>10. Covers(R, c, Of(l, s, n))
  <2>1. ASSUME NEW i \in 1..c PROVE R[i] \in Of(l, s, n)
    BY <1>4, <1>7, Zenon DEF Of
  <2>2. ASSUME NEW k \in Of(l, s, n) PROVE \E i \in 1..c : k = R[i]
    <3>1. k \in 1..n /\ l.events[k].stream_id = s
      BY <2>2, Zenon DEF Of
    <3>2. PICK i \in 1..c : P[i] = k - 1
      BY <1>5, <3>1, Zenon
    <3>3. (k - 1) + 1 = k
      BY <3>1
    <3>4. QED
      BY <1>7, <3>2, <3>3, Zenon
  <2>3. QED
    BY <2>1, <2>2, Zenon DEF Covers
<1>11. Lane(l, s, n, c, R)
  BY <1>2, <1>4, <1>7, <1>8, <1>9, <1>10, Zenon DEF Lane
<1>12. c >= 1
  <2>1. PICK k \in 1..n : l.events[k].stream_id = s
    BY <1>1, Zenon
  <2>2. PICK i \in 1..c : P[i] = k - 1
    BY <1>5, <2>1, Zenon
  <2>3. QED
    BY <2>2
<1>13. QED
  BY <1>11, <1>12, Zenon

(* An error is sent as it is.                                              *)
LEMMA StatusSent ==
  ASSUME NEW e, NEW resp, resp = Status(e), NEW y,
         y = [resp EXCEPT !.body = Mapped(recorded_to_proto, @)]
  PROVE  y = Status(e)
<1>1. Mapped(recorded_to_proto, <<>>) = <<>>
  BY DEF Mapped
<1>2. QED
  BY <1>1 DEF Status

(* The events at the positions that were found.                            *)
Fetched(l, found, m, g) ==
  Len(g) = m /\ \A i \in 1..m : g[i] = l.events[found[i] + 1]

LEMMA FetchedIs ==
  ASSUME NEW l, NEW s \in DOMAIN l.streams, NEW r, NEW found, NEW m \in Nat, Len(found) = m,
         Slice(l.streams[s], r.from, r.max) = Response(found)
  PROVE  \E g : read_stream(l, s, r.from, r.max) = Response(g) /\ Fetched(l, found, m, g)
<1>1. PICK g : g = [i \in 1..m |-> l.events[found[i] + 1]]
  OBVIOUS
<1>2. Len(g) = m /\ \A i \in 1..m : g[i] = l.events[found[i] + 1]
  BY <1>1
<1>3. PICK f : f = Slice(l.streams[s], r.from, r.max)
  OBVIOUS
<1>4. f = Response(found) /\ f.body = found
  BY <1>3, ResponseIs, Zenon
<1>5. read_stream(l, s, r.from, r.max) =
        [f EXCEPT !.body = [i \in 1..Len(f.body) |-> l.events[f.body[i] + 1]]]
  BY <1>3 DEF read_stream, Mapped
<1>6. [i \in 1..Len(f.body) |-> l.events[f.body[i] + 1]] = g
  BY <1>1, <1>4, Zenon
<1>7. [f EXCEPT !.body = g] = Response(g)
  BY <1>4 DEF Response
<1>8. QED
  BY <1>2, <1>5, <1>6, <1>7, Zenon DEF Fetched

LEMMA read_streamIs ==
  ASSUME Listing, NEW l, Index(l), Len(l.events) <= MaxU64, NEW x, NEW s, s # Invalid,
         s = parse_uuid(x.req.stream_id),
         NEW resp, resp = read_stream(l, s, x.req.from, x.req.max), Replies(l, x, resp)
  PROVE  StreamExact(l, x)
<1>0. /\ x.req.from \in 0..MaxU64 /\ x.req.max \in 0..MaxU64 /\ x.at = Len(l.events)
      /\ x.resp = [resp EXCEPT !.body = Mapped(recorded_to_proto, @)]
  BY Zenon DEF Replies
<1>1. PICK n \in Nat : n = Len(l.events)
  BY SeqIn, Zenon DEF Index
<1>2. PICK of : of = Of(l, s, n)
  OBVIOUS
<1>3. /\ DOMAIN l.streams = {l.events[k].stream_id : k \in 1..n}
      /\ Numbered(l, n)
  BY <1>1, Zenon DEF Index, Numbered
<1>4. s \in DOMAIN l.streams <=> of # {}
  BY <1>2, <1>3 DEF Of
<1>5. CASE s \notin DOMAIN l.streams
  <2>1. resp = Status("NOT_FOUND")
    BY <1>5 DEF read_stream, error_to_status
  <2>2. PICK y : y = x.resp
    OBVIOUS
  <2>3. y = Status("NOT_FOUND")
    BY <1>0, <2>1, <2>2, StatusSent, Zenon
  <2>4. QED
    BY <1>0, <1>1, <1>2, <1>4, <1>5, <2>2, <2>3, Zenon DEF StreamExact
<1>6. CASE s \in DOMAIN l.streams
  <2>1. l.streams[s] \in Seq(Nat)
    BY <1>6, Zenon DEF Index
  <2>2. PICK c \in Nat : c = Len(l.streams[s])
    BY <2>1, SeqIn, Zenon
  <2>3. PICK R : Lane(l, s, n, c, R)
    BY <1>1, <1>6, <2>2, LaneIs, Zenon
  <2>4. c <= n
    BY <2>3, Zenon DEF Lane, Listing
  <2>5. Len(l.streams[s]) <= MaxU64
    BY <1>1, <2>2, <2>4, MaxU64Assumption
  <2>6. PICK a, m \in Nat : \E found :
          /\ Slice(l.streams[s], x.req.from, x.req.max) = Response(found)
          /\ Part(l.streams[s], a, m, found) /\ Selects(x.req, Len(l.streams[s]), a, m)
    BY <1>0, <2>1, <2>5, SliceIs, Zenon
  <2>7. PICK found :
          /\ Slice(l.streams[s], x.req.from, x.req.max) = Response(found)
          /\ Part(l.streams[s], a, m, found) /\ Selects(x.req, c, a, m)
    BY <2>2, <2>6, Zenon
  <2>8. /\ Len(found) = m /\ a + m <= c
        /\ \A i \in 1..m : a + i \in 1..c /\ found[i] = l.streams[s][a + i]
    BY <2>2, <2>7, Zenon DEF Part
  <2>9. PICK g : resp = Response(g) /\ Fetched(l, found, m, g)
    <3>1. Len(found) = m
      BY <2>8, Zenon
    <3>2. QED
      BY <1>6, <2>7, <3>1, FetchedIs, Zenon
  <2>10. PICK body : body = Mapped(recorded_to_proto, g)
    OBVIOUS
  <2>11. x.resp = Response(body)
    <3>1. PICK y : y = x.resp
      OBVIOUS
    <3>2. y = Response(Mapped(recorded_to_proto, g))
      BY <1>0, <2>9, <3>1, BodyIs, Zenon
    <3>3. QED
      BY <2>10, <3>1, <3>2, Zenon
  <2>12. Sent(g, m, body)
    <3>1. Len(g) = m
      BY <2>9, Zenon DEF Fetched
    <3>2. QED
      BY <2>10, <3>1, SentIs, Zenon
  <2>13. PICK Q : Q = [i \in 1..m |-> R[a + i]]
    OBVIOUS
  <2>14. \A i \in 1..m : Q[i] = R[a + i]
    BY <2>13, Zenon
  <2>15. Q \in [1..m -> 1..n]
    <3>1. \A i \in 1..m : R[a + i] \in 1..n
      BY <2>3, <2>8, Zenon DEF Lane
    <3>2. QED
      BY <2>13, <3>1, Zenon
  <2>16. Increasing(Q, m)
    <3>1. ASSUME NEW i \in 1..m, NEW j \in 1..m, i < j PROVE Q[i] < Q[j]
      <4>1. a + i < a + j
        BY <3>1
      <4>2. a + i \in 1..c /\ a + j \in 1..c
        BY <2>8, Zenon
      <4>3. R[a + i] < R[a + j]
        BY <2>3, <4>1, <4>2, Zenon DEF Lane, Increasing
      <4>4. QED
        BY <2>14, <4>3, Zenon
    <3>2. QED
      BY <3>1, Zenon DEF Increasing
  <2>17. PICK K : K = {k \in of : Within(x.req, l.events[k].stream_version)}
    OBVIOUS
  <2>18. ASSUME NEW v \in 1..c
         PROVE  /\ R[v] \in of
                /\ R[v] \in K <=> (a < v /\ v <= a + m)
    <3>1. /\ v - 1 \in 0..(c - 1)
          /\ (a < v /\ v <= a + m) <=> (a <= v - 1 /\ v - 1 < a + m)
      OBVIOUS
    <3>2. Within(x.req, v - 1) <=> (a <= v - 1 /\ v - 1 < a + m)
      BY <2>7, <3>1, Zenon DEF Selects
    <3>3. l.events[R[v]].stream_version = v - 1
      BY <2>3, Zenon DEF Lane
    <3>4. R[v] \in of
      BY <1>2, <2>3, Zenon DEF Lane, Covers
    <3>5. R[v] \in K <=> Within(x.req, v - 1)
      BY <2>17, <3>3, <3>4, Zenon
    <3>6. QED
      BY <3>1, <3>2, <3>4, <3>5, Zenon
  <2>19. Covers(Q, m, K)
    <3>1. ASSUME NEW k \in K PROVE \E i \in 1..m : k = Q[i]
      <4>1. k \in of
        BY <2>17, <3>1, Zenon
      <4>2. PICK v \in 1..c : k = R[v]
        BY <1>2, <2>3, <4>1, Zenon DEF Lane, Covers
      <4>3. a < v /\ v <= a + m
        BY <2>18, <3>1, <4>2, Zenon
      <4>4. v - a \in 1..m /\ a + (v - a) = v
        BY <4>3
      <4>5. QED
        BY <2>14, <4>2, <4>4, Zenon
    <3>2. ASSUME NEW i \in 1..m PROVE Q[i] \in K
      <4>1. a + i \in 1..c
        BY <2>8, Zenon
      <4>2. a < a + i /\ a + i <= a + m
        OBVIOUS
      <4>3. R[a + i] \in K
        BY <2>18, <4>1, <4>2, Zenon
      <4>4. QED
        BY <2>14, <4>3, Zenon
    <3>3. QED
      BY <3>1, <3>2, Zenon DEF Covers
  <2>20. Picked(l, m, Q, body)
    <3>1. ASSUME NEW i \in 1..m PROVE body[i] = recorded_to_proto(l.events[Q[i]])
      <4>1. found[i] = l.streams[s][a + i] /\ a + i \in 1..c
        BY <2>8, Zenon
      <4>2. R[a + i] = l.streams[s][a + i] + 1
        BY <2>3, <4>1, Zenon DEF Lane
      <4>3. g[i] = l.events[found[i] + 1]
        BY <2>9, Zenon DEF Fetched
      <4>4. found[i] + 1 = Q[i]
        BY <2>14, <4>1, <4>2, Zenon
      <4>5. g[i] = l.events[Q[i]]
        BY <4>3, <4>4, Zenon
      <4>6. QED
        BY <2>12, <4>5, Zenon DEF Sent
    <3>2. QED
      BY <2>12, <3>1, Zenon DEF Picked, Sent
  <2>21. Shows(l, body, K)
    BY <1>3, <2>15, <2>16, <2>19, <2>20, ShowsIs, Zenon
  <2>22. x.resp.status = "OK" /\ x.resp.body = body
    BY <2>11, ResponseIs, Zenon
  <2>23. QED
    BY <1>0, <1>1, <1>2, <1>4, <1>6, <2>17, <2>21, <2>22 DEF StreamExact
<1>7. QED
  BY <1>5, <1>6, Zenon

-----------------------------------------------------------------------------
(* Listings.                                                               *)

info_of(l, s) ==
  [stream_id |-> to_string(s), event_count |-> Len(l.streams[s]),
   latest_version |-> stream_version(l, s)]

LEMMA InfoIs ==
  ASSUME Listing, NEW l, Index(l), Len(l.events) <= MaxU64, NEW s \in DOMAIN l.streams
  PROVE  InfoExact(l, info_of(l, s), Len(l.events)) /\ info_of(l, s).stream_id.uuid = s
<1>1. PICK n \in Nat : n = Len(l.events)
  BY SeqIn, Zenon DEF Index
<1>2. l.streams[s] \in Seq(Nat)
  BY Zenon DEF Index
<1>3. PICK c \in Nat : c = Len(l.streams[s])
  BY <1>2, SeqIn, Zenon
<1>4. c >= 1 /\ \E R : Lane(l, s, n, c, R)
  BY <1>1, <1>3, LaneIs, Zenon
<1>5. PICK R : Lane(l, s, n, c, R)
  BY <1>4, Zenon
<1>6. PICK of : of = Of(l, s, n)
  OBVIOUS
<1>7. R \in [1..c -> 1..n] /\ Increasing(R, c) /\ Covers(R, c, of)
  BY <1>5, <1>6, Zenon DEF Lane
<1>8. Cardinality(of) = c /\ c <= n
  BY <1>7, Zenon DEF Listing
<1>9. stream_version(l, s) = c - 1
  <2>1. c - 1 \in 0..MaxU64
    BY <1>1, <1>4, <1>8, MaxU64Assumption
  <2>2. \A i \in 0..MaxU64 : i % (MaxU64 + 1) = i
    BY MaxU64Assumption
  <2>3. QED
    BY <1>3, <2>1, <2>2, Zenon DEF stream_version, Wrapped
<1>10. PICK info : info = info_of(l, s)
  OBVIOUS
<1>11. info.stream_id.uuid = s /\ info.event_count = c /\ info.latest_version = c - 1
  BY <1>3, <1>9, <1>10 DEF info_of, to_string
<1>12. PICK k : k = R[c]
  OBVIOUS
<1>13. c \in 1..c
  BY <1>4
<1>14. k \in of /\ l.events[k].stream_version = c - 1
  BY <1>5, <1>7, <1>12, <1>13, Zenon DEF Lane, Covers
<1>15. ASSUME NEW j \in of PROVE j <= k
  <2>1. PICK i \in 1..c : j = R[i]
    BY <1>7, Zenon DEF Covers
  <2>2. R[i] \in 1..n /\ R[c] \in 1..n
    BY <1>7, <1>13, Zenon
  <2>3. CASE i = c
    BY <1>12, <2>1, <2>2, <2>3
  <2>4. CASE i # c
    <3>1. i < c
      BY <2>4
    <3>2. R[i] < R[c]
      BY <1>7, <1>13, <3>1, Zenon DEF Increasing
    <3>3. QED
      BY <1>12, <2>1, <2>2, <3>2
  <2>5. QED
    BY <2>3, <2>4, Zenon
<1>16. InfoExact(l, info, n)
  <2>1. of = Of(l, info.stream_id.uuid, n)
    BY <1>6, <1>11, Zenon
  <2>2. info.event_count = Cardinality(of) /\ info.latest_version = l.events[k].stream_version
    BY <1>8, <1>11, <1>14, Zenon
  <2>3. QED
    BY <1>14, <1>15, <2>1, <2>2, Zenon DEF InfoExact
<1>17. QED
  BY <1>1, <1>10, <1>11, <1>16, Zenon

LEMMA list_streamsIs ==
  ASSUME Listing, NEW l, Index(l), Len(l.events) <= MaxU64, NEW x, x.at = Len(l.events),
         x.resp = Response(Mapped(stream_info_to_proto, list_streams(l)))
  PROVE  ListingExact(l, x)
<1>1. PICK n \in Nat : n = Len(l.events)
  BY SeqIn, Zenon DEF Index
<1>2. PICK S : S = DOMAIN l.streams
  OBVIOUS
<1>3. S = {l.events[k].stream_id : k \in 1..n} /\ l.events \in Seq(RecordedEvent)
  BY <1>1, <1>2, Zenon DEF Index
<1>4. S \in SUBSET Int
  <2>1. \A e \in RecordedEvent : e.stream_id \in Int
    BY DEF RecordedEvent
  <2>2. \A k \in 1..n : l.events[k] \in RecordedEvent
    BY <1>1, <1>3, SeqIn, Zenon
  <2>3. QED
    BY <1>3, <2>1, <2>2, Zenon
<1>5. IsFiniteSet(S)
  BY <1>3, Zenon DEF Listing
<1>6. PICK q : q = sort_by(S)
  OBVIOUS
<1>7. PICK c \in Nat : Ranked(S, c, q)
  BY <1>4, <1>5, <1>6, Zenon DEF Listing, Ranked
<1>8. Len(q) = c /\ Increasing(q, c) /\ Covers(q, c, S)
  BY <1>7, Zenon DEF Ranked
<1>9. PICK body : body = Mapped(stream_info_to_proto, list_streams(l))
  OBVIOUS
<1>10. Len(body) = c /\ \A i \in 1..c : body[i] = info_of(l, q[i])
  <2>1. PICK t : t = [i \in 1..c |-> [stream_id |-> q[i], event_count |-> Len(l.streams[q[i]]),
                                      latest_version |-> stream_version(l, q[i])]]
    OBVIOUS
  <2>2. t = list_streams(l)
    BY <1>2, <1>6, <1>8, <2>1, Zenon DEF list_streams, Mapped
  <2>3. Len(t) = c
    BY <2>1
  <2>4. body = [i \in 1..c |-> stream_info_to_proto(t[i])]
    BY <1>9, <2>2, <2>3, Zenon DEF Mapped
  <2>5. Len(body) = c /\ \A i \in 1..c : body[i] = stream_info_to_proto(t[i])
    BY <2>4
  <2>6. ASSUME NEW i \in 1..c PROVE stream_info_to_proto(t[i]) = info_of(l, q[i])
    <3>1. t[i] = [stream_id |-> q[i], event_count |-> Len(l.streams[q[i]]),
                  latest_version |-> stream_version(l, q[i])]
      BY <2>1, Zenon
    <3>2. QED
      BY <3>1 DEF stream_info_to_proto, info_of
  <2>7. QED
    BY <2>5, <2>6, Zenon
<1>11. ASSUME NEW i \in 1..c
       PROVE  q[i] \in S /\ body[i].stream_id.uuid = q[i] /\ InfoExact(l, body[i], n)
  <2>1. q[i] \in S
    BY <1>8, Zenon DEF Covers
  <2>2. QED
    BY <1>1, <1>2, <1>10, <2>1, InfoIs, Zenon
<1>12. x.resp.body = body
  BY <1>9, ResponseIs, Zenon
<1>13. {body[i].stream_id.uuid : i \in 1..c} = S
  <2>1. ASSUME NEW s \in S PROVE s \in {body[i].stream_id.uuid : i \in 1..c}
    <3>1. PICK i \in 1..c : s = q[i]
      BY <1>8, Zenon DEF Covers
    <3>2. body[i].stream_id.uuid = s
      BY <1>11, <3>1, Zenon
    <3>3. QED
      BY <3>2, Zenon
  <2>2. \A i \in 1..c : body[i].stream_id.uuid \in S
    BY <1>11, Zenon
  <2>3. QED
    BY <2>1, <2>2, Zenon
<1>14. ASSUME NEW i \in 1..c, NEW j \in 1..c, i < j
       PROVE  body[i].stream_id.uuid < body[j].stream_id.uuid
  <2>1. q[i] < q[j]
    BY <1>8, <1>14, Zenon DEF Increasing
  <2>2. QED
    BY <1>11, <2>1, Zenon
<1>15. QED
  <2>1. PICK b : b = x.resp.body
    OBVIOUS
  <2>2. /\ b = body /\ Len(b) = c
        /\ \A i \in 1..c : InfoExact(l, b[i], x.at)
        /\ \A i, j \in 1..c : i < j => b[i].stream_id.uuid < b[j].stream_id.uuid
    BY <1>1, <1>10, <1>11, <1>12, <1>14, <2>1, Zenon
  <2>3. {b[i].stream_id.uuid : i \in 1..Len(b)} = {l.events[k].stream_id : k \in 1..x.at}
    <3>1. {b[i].stream_id.uuid : i \in 1..c} = S
      BY <1>13, <2>2, Zenon
    <3>2. S = {l.events[k].stream_id : k \in 1..x.at}
      BY <1>1, <1>3, Zenon
    <3>3. QED
      BY <2>2, <3>1, <3>2
  <2>4. QED
    BY <2>1, <2>2, <2>3 DEF ListingExact

-----------------------------------------------------------------------------
(* Appends.                                                                *)

(* f events are appended to stream s, which had c of them, and the log n.  *)
Extends(l, m, s, n, c, f) ==
  /\ Len(m.events) = n + f
  /\ \A k \in 1..n : m.events[k] = l.events[k]
  /\ \A k \in 1..f : /\ m.events[n + k].stream_id = s
                     /\ m.events[n + k].stream_version = c + k - 1
  /\ DOMAIN m.streams = DOMAIN l.streams \cup {s}
  /\ \A t \in DOMAIN l.streams : t # s => m.streams[t] = l.streams[t]
  /\ Len(m.streams[s]) = c + f
  /\ \A i \in 1..c : m.streams[s][i] = l.streams[s][i]
  /\ \A i \in 1..f : m.streams[s][c + i] = n + i - 1

(* One position of one list.                                               *)
Placed(l, t, i) ==
  LET p == l.streams[t][i]
  IN /\ p + 1 \in 1..Len(l.events)
     /\ l.events[p + 1].stream_id = t
     /\ l.events[p + 1].stream_version = i - 1
     /\ \A j \in 1..(i - 1) : l.streams[t][j] < p

(* One event.                                                              *)
Found(l, k) ==
  LET t == l.events[k].stream_id
      v == l.events[k].stream_version
  IN v + 1 \in 1..Len(l.streams[t]) /\ l.streams[t][v + 1] = k - 1

LEMMA OrderedIs ==
  ASSUME NEW l
  PROVE  Ordered(l) <=>
           /\ \A t \in DOMAIN l.streams : \A i \in 1..Len(l.streams[t]) : Placed(l, t, i)
           /\ \A k \in 1..Len(l.events) : Found(l, k)
BY Zenon DEF Ordered, Placed, Found

LEMMA Split ==
  ASSUME NEW a \in Nat, NEW b \in Nat, NEW i \in 1..(a + b)
  PROVE  i \in 1..a \/ \E j \in 1..b : i = a + j
<1>1. CASE i <= a
  BY <1>1
<1>2. CASE ~(i <= a)
  <2>1. i - a \in 1..b /\ i = a + (i - a)
    BY <1>2
  <2>2. QED
    BY <2>1, Zenon
<1>3. QED
  BY <1>1, <1>2, Zenon

LEMMA PlacedKept ==
  ASSUME NEW l, NEW m, NEW t, NEW i \in Nat, NEW n \in Nat, NEW f \in Nat,
         n = Len(l.events), Len(m.events) = n + f,
         \A k \in 1..n : m.events[k] = l.events[k],
         \A j \in 1..i : m.streams[t][j] = l.streams[t][j],
         i >= 1, Placed(l, t, i)
  PROVE  Placed(m, t, i)
<1>1. i \in 1..i /\ \A j \in 1..(i - 1) : j \in 1..i
  OBVIOUS
<1>2. PICK p : p = l.streams[t][i]
  OBVIOUS
<1>3. /\ p + 1 \in 1..n
      /\ l.events[p + 1].stream_id = t
      /\ l.events[p + 1].stream_version = i - 1
      /\ \A j \in 1..(i - 1) : l.streams[t][j] < p
  BY <1>2, Zenon DEF Placed
<1>4. p + 1 \in 1..(n + f)
  BY <1>3
<1>5. p = m.streams[t][i] /\ m.events[p + 1] = l.events[p + 1]
  BY <1>1, <1>2, <1>3, Zenon
<1>6. \A j \in 1..(i - 1) : m.streams[t][j] < p
  BY <1>1, <1>3, Zenon
<1>7. QED
  BY <1>3, <1>4, <1>5, <1>6, Zenon DEF Placed

LEMMA OrderedGrows ==
  ASSUME NEW l, Index(l), NEW m, NEW s, NEW n \in Nat, Len(l.events) = n,
         NEW c \in Nat, NEW f \in Nat, Extends(l, m, s, n, c, f),
         s \in DOMAIN l.streams => c = Len(l.streams[s]),
         s \notin DOMAIN l.streams => c = 0
  PROVE  Ordered(m)
<1>1. /\ \A t \in DOMAIN l.streams : \A i \in 1..Len(l.streams[t]) : Placed(l, t, i)
      /\ \A k \in 1..n : Found(l, k)
  BY OrderedIs, Zenon DEF Index
<1>2. /\ \A t \in DOMAIN l.streams : l.streams[t] \in Seq(Nat)
      /\ \A k \in 1..n : l.events[k].stream_id \in DOMAIN l.streams
  BY Zenon DEF Index
<1>3. /\ Len(m.events) = n + f
      /\ \A k \in 1..n : m.events[k] = l.events[k]
      /\ DOMAIN m.streams = DOMAIN l.streams \cup {s}
      /\ \A t \in DOMAIN l.streams : t # s => m.streams[t] = l.streams[t]
      /\ Len(m.streams[s]) = c + f
      /\ \A i \in 1..c : m.streams[s][i] = l.streams[s][i]
      /\ \A i \in 1..f : m.streams[s][c + i] = n + i - 1
  BY Zenon DEF Extends
<1>4. \A k \in 1..f : /\ m.events[n + k].stream_id = s
                       /\ m.events[n + k].stream_version = c + k - 1
  BY Zenon DEF Extends
<1>5. \A i \in 1..c : s \in DOMAIN l.streams /\ c = Len(l.streams[s])
  <2>1. c = 0 => \A i \in 1..c : FALSE
    OBVIOUS
  <2>2. QED
    BY <2>1, Zenon
<1>6. ASSUME NEW t \in DOMAIN l.streams, t # s, NEW i \in 1..Len(m.streams[t])
      PROVE  Placed(m, t, i)
  <2>1. m.streams[t] = l.streams[t] /\ i \in 1..Len(l.streams[t])
    BY <1>3, <1>6, Zenon
  <2>2. Len(l.streams[t]) \in Nat
    BY <1>2, SeqIn, Zenon
  <2>3. i \in Nat /\ i >= 1
    BY <2>1, <2>2
  <2>4. Placed(l, t, i)
    BY <1>1, <2>1, Zenon
  <2>5. \A j \in 1..i : m.streams[t][j] = l.streams[t][j]
    BY <2>1, Zenon
  <2>6. QED
    BY <1>3, <2>3, <2>4, <2>5, PlacedKept, Zenon
<1>7. ASSUME NEW i \in 1..c PROVE Placed(m, s, i)
  <2>1. i \in Nat /\ i >= 1 /\ \A j \in 1..i : j \in 1..c
    OBVIOUS
  <2>2. Placed(l, s, i)
    BY <1>1, <1>5, Zenon
  <2>3. \A j \in 1..i : m.streams[s][j] = l.streams[s][j]
    BY <1>3, <2>1, Zenon
  <2>4. QED
    BY <1>3, <2>1, <2>2, <2>3, PlacedKept, Zenon
<1>8. ASSUME NEW j \in 1..c PROVE m.streams[s][j] \in Nat /\ m.streams[s][j] + 1 <= n
  <2>1. PICK p : p = l.streams[s][j]
    OBVIOUS
  <2>2. p + 1 \in 1..n
    BY <1>1, <1>5, <2>1, Zenon DEF Placed
  <2>3. p \in Nat
    BY <1>2, <1>5, <2>1, SeqIn, Zenon
  <2>4. p + 1 <= n
    BY <2>2, <2>3
  <2>5. QED
    BY <1>3, <2>1, <2>3, <2>4, Zenon
<1>9. ASSUME NEW j \in 1..f PROVE Placed(m, s, c + j)
  <2>1. PICK p \in Nat : p = n + j - 1
    <3>1. n + j - 1 \in Nat
      OBVIOUS
    <3>2. QED
      BY <3>1, Zenon
  <2>2. m.streams[s][c + j] = p
    BY <1>3, <2>1, Zenon
  <2>3. p + 1 = n + j /\ p + 1 \in 1..(n + f) /\ c + j - 1 = (c + j) - 1
    BY <2>1
  <2>4. m.events[p + 1].stream_id = s /\ m.events[p + 1].stream_version = (c + j) - 1
    BY <1>4, <2>3, Zenon
  <2>5. ASSUME NEW i \in 1..((c + j) - 1) PROVE m.streams[s][i] < p
    <3>1. PICK d \in Nat : j = d + 1 /\ d \in 0..(f - 1)
      <4>1. j - 1 \in Nat /\ j = (j - 1) + 1 /\ j - 1 \in 0..(f - 1)
        OBVIOUS
      <4>2. QED
        BY <4>1, Zenon
    <3>2. i \in 1..(c + d)
      BY <3>1
    <3>3. CASE i \in 1..c
      <4>1. PICK o \in Nat : o = m.streams[s][i] /\ o + 1 <= n
        BY <1>8, <3>3, Zenon
      <4>2. o < p
        BY <2>1, <4>1
      <4>3. QED
        BY <4>1, <4>2, Zenon
    <3>4. ASSUME NEW h \in 1..d, i = c + h PROVE m.streams[s][i] < p
      <4>1. h \in 1..f /\ n + h - 1 < p
        BY <2>1, <3>1
      <4>2. m.streams[s][i] = n + h - 1
        BY <1>3, <3>4, <4>1, Zenon
      <4>3. QED
        BY <4>1, <4>2, Zenon
    <3>5. i \in 1..c \/ \E h \in 1..d : i = c + h
      BY <3>2, Split, Zenon
    <3>6. QED
      BY <3>3, <3>4, <3>5, Zenon
  <2>6. QED
    BY <1>3, <2>2, <2>3, <2>4, <2>5, Zenon DEF Placed
<1>10. ASSUME NEW t \in DOMAIN m.streams, NEW i \in 1..Len(m.streams[t]) PROVE Placed(m, t, i)
  <2>1. CASE t # s
    BY <1>3, <1>6, <1>10, <2>1, Zenon
  <2>2. CASE t = s
    <3>1. i \in 1..(c + f)
      BY <1>3, <1>10, <2>2, Zenon
    <3>2. i \in 1..c \/ \E j \in 1..f : i = c + j
      BY <3>1, Split, Zenon
    <3>3. QED
      BY <1>7, <1>9, <2>2, <3>2, Zenon
  <2>3. QED
    BY <2>1, <2>2, Zenon
<1>11. ASSUME NEW k \in 1..n PROVE Found(m, k)
  <2>1. PICK t, v : t = l.events[k].stream_id /\ v = l.events[k].stream_version
    OBVIOUS
  <2>2. /\ t \in DOMAIN l.streams /\ m.events[k] = l.events[k]
        /\ v + 1 \in 1..Len(l.streams[t]) /\ l.streams[t][v + 1] = k - 1
    BY <1>1, <1>2, <1>3, <2>1, Zenon DEF Found
  <2>3. CASE t # s
    <3>1. m.streams[t] = l.streams[t]
      BY <1>3, <2>2, <2>3, Zenon
    <3>2. QED
      BY <2>1, <2>2, <3>1, Zenon DEF Found
  <2>4. CASE t = s
    <3>1. v + 1 \in 1..c
      BY <2>2, <2>4, Zenon
    <3>2. v + 1 \in 1..(c + f)
      BY <3>1
    <3>3. m.streams[s][v + 1] = k - 1
      BY <1>3, <2>2, <2>4, <3>1, Zenon
    <3>4. QED
      BY <1>3, <2>1, <2>2, <2>4, <3>2, <3>3, Zenon DEF Found
  <2>5. QED
    BY <2>3, <2>4, Zenon
<1>12. ASSUME NEW j \in 1..f PROVE Found(m, n + j)
  <2>1. (c + j - 1) + 1 = c + j /\ c + j \in 1..(c + f) /\ n + j - 1 = (n + j) - 1
    OBVIOUS
  <2>2. m.streams[s][c + j] = (n + j) - 1
    BY <1>3, <2>1, Zenon
  <2>3. QED
    BY <1>3, <1>4, <2>1, <2>2, Zenon DEF Found
<1>13. \A k \in 1..Len(m.events) : Found(m, k)
  <2>1. ASSUME NEW k \in 1..(n + f) PROVE Found(m, k)
    <3>1. k \in 1..n \/ \E j \in 1..f : k = n + j
      BY Split, Zenon
    <3>2. QED
      BY <1>11, <1>12, <3>1, Zenon
  <2>2. QED
    BY <1>3, <2>1, Zenon
<1>14. QED
  BY <1>10, <1>13, OrderedIs, Zenon
====
