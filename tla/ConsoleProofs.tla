--------------------------- MODULE ConsoleProofs ---------------------------
(***************************************************************************)
(* Proofs about Console: every step keeps ConsoleInv, and what follows.    *)
(***************************************************************************)
EXTENDS ConsoleInvariant, TLAPS

-----------------------------------------------------------------------------
(* Lists, and the beginnings of lists.                                     *)

LEMMA ListLen ==
  ASSUME NEW s, IsList(s)
  PROVE  /\ Len(s) \in Nat /\ DOMAIN s = 1..Len(s)
         /\ s = <<>> <=> Len(s) = 0
<1>1. s \in Seq({s[k] : k \in DOMAIN s})
  BY Zenon DEF IsList
<1>2. QED
  BY <1>1

LEMMA FunctionIsList ==
  ASSUME NEW n \in Nat, NEW f, f = [k \in 1..n |-> f[k]]
  PROVE  IsList(f) /\ Len(f) = n
<1>1. DOMAIN f = 1..n
  BY Zenon
<1>2. f \in [1..n -> {f[k] : k \in DOMAIN f}]
  BY <1>1, Zenon
<1>3. f \in Seq({f[k] : k \in DOMAIN f})
  BY <1>2
<1>4. Len(f) = n
  BY <1>1, <1>3
<1>5. QED
  BY <1>3, <1>4, Zenon DEF IsList

LEMMA SequenceIsList ==
  ASSUME NEW S, NEW s \in Seq(S)
  PROVE  IsList(s)
<1>1. Len(s) \in Nat /\ s = [k \in 1..Len(s) |-> s[k]]
  OBVIOUS
<1>2. QED
  BY <1>1, FunctionIsList, Zenon

LEMMA SequenceIs ==
  ASSUME NEW S, NEW s \in Seq(S), NEW n, Len(s) = n,
         NEW f \in [1..n -> S], \A k \in 1..n : s[k] = f[k]
  PROVE  s = f
<1>1. s \in [1..n -> S]
  OBVIOUS
<1>2. QED
  BY <1>1

LEMMA EmptyIsList == IsList(<<>>) /\ Len(<<>>) = 0
<1>1. <<>> \in Seq(Nat) /\ Len(<<>>) = 0
  OBVIOUS
<1>2. QED
  BY <1>1, SequenceIsList, Zenon

LEMMA BeginsTrans ==
  ASSUME NEW r, NEW s, NEW t, IsList(r), IsList(s), IsList(t),
         Begins(r, s), Begins(s, t)
  PROVE  Begins(r, t)
<1>1. Len(r) \in Nat /\ Len(s) \in Nat /\ Len(t) \in Nat
  BY ListLen, Zenon
<1>2. QED
  BY <1>1 DEF Begins

(* A page of a list.                                                       *)
LEMMA PageOf ==
  ASSUME NEW s, IsList(s)
  PROVE  /\ IsList(Page(s))
         /\ Len(Page(s)) = Smaller(READ_PAGE_SIZE, Len(s))
         /\ Begins(Page(s), s)
<1> DEFINE n == Smaller(READ_PAGE_SIZE, Len(s))
<1>1. Len(s) \in Nat /\ s \in Seq({s[k] : k \in DOMAIN s})
  BY ListLen, Zenon DEF IsList
<1>2. n \in 0..Len(s)
  BY <1>1, CapacitiesAssumption DEF Smaller
<1>3. /\ SubSeq(s, 1, n) \in Seq({s[k] : k \in DOMAIN s})
      /\ Len(SubSeq(s, 1, n)) = n
      /\ \A k \in 1..n : SubSeq(s, 1, n)[k] = s[k]
  <2> HIDE DEF n
  <2>1. QED
    BY <1>1, <1>2
<1>4. Page(s) = SubSeq(s, 1, n)
  BY Zenon DEF Page
<1>5. QED
  <2> HIDE DEF n
  <2>1. IsList(Page(s))
    BY <1>3, <1>4, SequenceIsList, Zenon
  <2>2. Len(Page(s)) = n /\ n <= Len(s)
    BY <1>1, <1>2, <1>3, <1>4
  <2>3. Begins(Page(s), s)
    BY <1>3, <1>4, <2>2, Zenon DEF Begins
  <2>4. QED
    BY <2>1, <2>2, <2>3, Zenon DEF n

(* The pages of a list that grows.                                         *)
LEMMA PagesGrow ==
  ASSUME NEW s, NEW t, IsList(s), IsList(t), Begins(s, t)
  PROVE  Begins(Page(s), Page(t))
<1>1. Len(s) \in Nat /\ Len(t) \in Nat /\ Len(s) <= Len(t)
  BY ListLen, Zenon DEF Begins
<1>2. Len(Page(s)) \in Nat /\ Len(Page(t)) \in Nat
  BY PageOf, ListLen, Zenon
<1>3. Len(Page(s)) <= Len(Page(t)) /\ Len(Page(s)) <= Len(s)
  <2>1. /\ Len(Page(s)) = Smaller(READ_PAGE_SIZE, Len(s))
        /\ Len(Page(t)) = Smaller(READ_PAGE_SIZE, Len(t))
    BY PageOf, Zenon
  <2>2. QED
    BY <1>1, <2>1, CapacitiesAssumption DEF Smaller
<1>4. ASSUME NEW k \in 1..Len(Page(s)) PROVE Page(s)[k] = Page(t)[k]
  <2>1. k \in 1..Len(Page(t)) /\ k \in 1..Len(s)
    BY <1>1, <1>2, <1>3
  <2>2. Page(s)[k] = s[k] /\ Page(t)[k] = t[k]
    BY <2>1, PageOf, Zenon DEF Begins
  <2>3. QED
    BY <2>1, <2>2, Zenon DEF Begins
<1>5. QED
  BY <1>3, <1>4, Zenon DEF Begins

-----------------------------------------------------------------------------
(***************************************************************************)
(* What is used of finite sets.  It is proved from the library's theorems  *)
(* in CountingHolds below.                                                 *)
(***************************************************************************)
Counting ==
  /\ \A S : IsFiniteSet(S) => Cardinality(S) \in Nat
  /\ \A S : IsFiniteSet(S) =>
        \A T \in SUBSET S : IsFiniteSet(T) /\ Cardinality(T) <= Cardinality(S)
  /\ \A S, x : IsFiniteSet(S) =>
        /\ IsFiniteSet(S \cup {x})
        /\ x \notin S => Cardinality(S \cup {x}) = Cardinality(S) + 1
  /\ \A a, b \in Int : IsFiniteSet(a..b)
  /\ \A n \in Nat : Cardinality(0..(n - 1)) = n
  /\ \A S, T : IsFiniteSet(S) /\ IsFiniteSet(T) /\ Cardinality(T) < Cardinality(S) =>
        \A f \in [S -> T] : \E x, y \in S : x # y /\ f[x] = f[y]
  /\ IsFiniteSet({}) /\ Cardinality({}) = 0

Below(S, p) == {m \in S : m < p}

LEMMA AscendingIsList ==
  ASSUME Counting, NEW S, IsFiniteSet(S)
  PROVE  IsList(Ascending(S)) /\ Len(Ascending(S)) = Cardinality(S)
<1>1. Cardinality(S) \in Nat
  BY Zenon DEF Counting
<1>2. Ascending(S) = [k \in 1..Cardinality(S) |-> Ascending(S)[k]]
  BY SMTT(30) DEF Ascending
<1>3. QED
  BY <1>1, <1>2, FunctionIsList, Zenon

(* A number above the others comes last, and the others stay.              *)
LEMMA AscendingGrows ==
  ASSUME Counting, NEW S \in SUBSET Nat, IsFiniteSet(S), NEW n \in Nat,
         \A m \in S : m < n
  PROVE  Begins(Ascending(S), Ascending(S \cup {n}))
<1> DEFINE T == S \cup {n}
<1>0. n \in Nat /\ \A m \in S : m \in Nat /\ m < n
  OBVIOUS
<1>1. n \notin S
  BY <1>0
<1>2. /\ IsFiniteSet(T) /\ Cardinality(S) \in Nat
      /\ Cardinality(T) = Cardinality(S) + 1
  BY <1>1, Zenon DEF Counting
<1>3. /\ Len(Ascending(S)) = Cardinality(S)
      /\ Len(Ascending(T)) = Cardinality(T)
  BY <1>2, AscendingIsList, Zenon
<1>4. Below(T, n) = S
  <2>1. ~ (n < n)
    BY <1>0
  <2>2. QED
    BY <1>0, <2>1, Zenon DEF Below
<1>5. ASSUME NEW p \in S PROVE Below(T, p) = Below(S, p)
  <2>1. ~ (n < p)
    BY <1>0
  <2>2. QED
    BY <2>1, Zenon DEF Below
<1>6. ASSUME NEW k \in 1..Cardinality(S)
      PROVE  Ascending(S)[k] = Ascending(T)[k]
  <2>1. k \in 1..Cardinality(T) /\ Cardinality(S) # k - 1
    BY <1>2
  <2>2. \A p : p \in S /\ Cardinality(Below(S, p)) = k - 1
                 <=> p \in T /\ Cardinality(Below(T, p)) = k - 1
    BY <1>4, <1>5, <2>1, Zenon
  <2>3. (CHOOSE p \in S : Cardinality(Below(S, p)) = k - 1)
          = (CHOOSE p \in T : Cardinality(Below(T, p)) = k - 1)
    <3> DEFINE P(p) == p \in S /\ Cardinality(Below(S, p)) = k - 1
               Q(p) == p \in T /\ Cardinality(Below(T, p)) = k - 1
    <3>1. \A p : P(p) <=> Q(p)
      BY <2>2, Zenon
    <3> HIDE DEF P, Q
    <3>2. (CHOOSE p : P(p)) = (CHOOSE p : Q(p))
      BY <3>1
    <3>3. QED
      BY <3>2, SMTT(30) DEF P, Q
  <2>4. /\ Ascending(S)[k] = CHOOSE p \in S : Cardinality(Below(S, p)) = k - 1
        /\ Ascending(T)[k] = CHOOSE p \in T : Cardinality(Below(T, p)) = k - 1
    BY <2>1, Zenon DEF Ascending, Below
  <2>5. QED
    BY <2>3, <2>4, Zenon
<1>7. Len(Ascending(S)) <= Len(Ascending(T))
  <2> HIDE DEF T
  <2>1. QED
    BY <1>2, <1>3
<1>8. QED
  BY <1>3, <1>6, <1>7, Zenon DEF Begins

(* A number of a set has more below it than a smaller one.                 *)
LEMMA RanksDiffer ==
  ASSUME Counting, NEW S \in SUBSET Nat, IsFiniteSet(S), NEW p \in S, NEW q \in S
  PROVE  /\ Cardinality(Below(S, p)) \in 0..(Cardinality(S) - 1)
         /\ p < q => Cardinality(Below(S, p)) < Cardinality(Below(S, q))
<1> DEFINE b == Below(S, p)
<1>1. p \in Nat /\ q \in Nat /\ ~(p < p)
  OBVIOUS
<1>2. b \in SUBSET S /\ p \notin b
  BY <1>1, Zenon DEF Below
<1>3. /\ IsFiniteSet(b) /\ Cardinality(b) \in Nat /\ Cardinality(S) \in Nat
      /\ Cardinality(b \cup {p}) = Cardinality(b) + 1
  BY <1>2, Zenon DEF Counting
<1>4. Cardinality(b \cup {p}) <= Cardinality(S)
  <2>1. b \cup {p} \in SUBSET S
    BY <1>2, Zenon
  <2>2. QED
    BY <2>1, Zenon DEF Counting
<1>5. ASSUME p < q PROVE Cardinality(b \cup {p}) <= Cardinality(Below(S, q))
  <2>1. \A m \in S : m < p => m < q
    BY <1>1, <1>5
  <2>2. b \cup {p} \in SUBSET Below(S, q)
    BY <1>5, <2>1, Zenon DEF Below
  <2>3. IsFiniteSet(Below(S, q))
    <3>1. Below(S, q) \in SUBSET S
      BY Zenon DEF Below
    <3>2. QED
      BY <3>1, Zenon DEF Counting
  <2>4. QED
    BY <2>2, <2>3, Zenon DEF Counting
<1>6. Cardinality(Below(S, q)) \in Nat
  <2>1. Below(S, q) \in SUBSET S
    BY Zenon DEF Below
  <2>2. QED
    BY <2>1, Zenon DEF Counting
<1> HIDE DEF b
<1>7. Cardinality(b) \in 0..(Cardinality(S) - 1)
  BY <1>3, <1>4
<1>8. p < q => Cardinality(b) < Cardinality(Below(S, q))
  BY <1>3, <1>5, <1>6
<1>9. QED
  BY <1>7, <1>8, Zenon DEF b

LEMMA RankIsOnes ==
  ASSUME Counting, NEW S \in SUBSET Nat, IsFiniteSet(S), NEW p \in S, NEW q \in S,
         Cardinality(Below(S, p)) = Cardinality(Below(S, q))
  PROVE  p = q
<1>1. /\ p \in Nat /\ q \in Nat
      /\ Cardinality(Below(S, p)) \in 0..(Cardinality(S) - 1)
      /\ p < q => Cardinality(Below(S, p)) < Cardinality(Below(S, q))
      /\ q < p => Cardinality(Below(S, q)) < Cardinality(Below(S, p))
      /\ Cardinality(S) \in Nat
  BY RanksDiffer, Zenon DEF Counting
<1>2. PICK n : n = Cardinality(Below(S, p))
  BY Zenon
<1>3. ~(n < n)
  BY <1>1, <1>2
<1>4. ~(p < q) /\ ~(q < p)
  BY <1>1, <1>2, <1>3, Zenon
<1>5. QED
  BY <1>1, <1>4

(* Every place is somebody's.                                              *)
LEMMA RankIsTaken ==
  ASSUME Counting, NEW S \in SUBSET Nat, IsFiniteSet(S),
         NEW r \in 0..(Cardinality(S) - 1)
  PROVE  \E p \in S : Cardinality(Below(S, p)) = r
<1> DEFINE all == 0..(Cardinality(S) - 1)
           others == all \ {r}
           f == [p \in S |-> Cardinality(Below(S, p))]
<1>1. SUFFICES ASSUME \A p \in S : Cardinality(Below(S, p)) # r PROVE FALSE
  BY Zenon
<1>2. Cardinality(S) \in Nat /\ 0 \in Int /\ Cardinality(S) - 1 \in Int
  <2>1. Cardinality(S) \in Nat
    BY Zenon DEF Counting
  <2>2. QED
    BY <2>1
<1>3. IsFiniteSet(all) /\ Cardinality(all) = Cardinality(S)
  BY <1>2, Zenon DEF Counting
<1>4. IsFiniteSet(others) /\ Cardinality(others) < Cardinality(S)
  <2> HIDE DEF all
  <2>1. others \in SUBSET all /\ r \notin others /\ others \cup {r} = all
    BY Zenon DEF all
  <2>2. IsFiniteSet(others)
    BY <1>3, <2>1, Zenon DEF Counting
  <2> HIDE DEF others
  <2>3. /\ Cardinality(others) \in Nat
        /\ Cardinality(others \cup {r}) = Cardinality(others) + 1
    BY <2>1, <2>2, Zenon DEF Counting
  <2>4. Cardinality(S) = Cardinality(others) + 1
    BY <1>3, <2>1, <2>3, Zenon
  <2>5. QED
    BY <2>2, <2>3, <2>4
<1>5. f \in [S -> others]
  <2>1. \A p \in S : Cardinality(Below(S, p)) \in all
    BY RanksDiffer, Zenon
  <2> HIDE DEF all
  <2>2. QED
    BY <1>1, <2>1, Zenon
<1>6. PICK x \in S, y \in S : x # y /\ f[x] = f[y]
  <2> HIDE DEF f, others
  <2>1. QED
    BY <1>4, <1>5, Zenon DEF Counting
<1>7. Cardinality(Below(S, x)) = Cardinality(Below(S, y))
  BY <1>6, Zenon
<1>8. QED
  BY <1>6, <1>7, RankIsOnes, Zenon

(* The k-th number is the one with k - 1 below it.                         *)
LEMMA AscendingAt ==
  ASSUME Counting, NEW S \in SUBSET Nat, IsFiniteSet(S)
  PROVE  /\ \A k \in 1..Cardinality(S) :
              /\ Ascending(S)[k] \in S
              /\ Cardinality(Below(S, Ascending(S)[k])) = k - 1
         /\ \A k \in 1..Cardinality(S) : \A p \in S :
              Cardinality(Below(S, p)) = k - 1 => Ascending(S)[k] = p
<1>1. Cardinality(S) \in Nat
  BY Zenon DEF Counting
<1>2. ASSUME NEW k \in 1..Cardinality(S)
      PROVE  /\ Ascending(S)[k] \in S
             /\ Cardinality(Below(S, Ascending(S)[k])) = k - 1
  <2>1. k - 1 \in 0..(Cardinality(S) - 1)
    BY <1>1
  <2>2. \E p \in S : Cardinality(Below(S, p)) = k - 1
    BY <2>1, RankIsTaken, Zenon
  <2>3. Ascending(S)[k] = CHOOSE p \in S : Cardinality(Below(S, p)) = k - 1
    BY Zenon DEF Ascending, Below
  <2>4. QED
    BY <2>2, <2>3, Zenon
<1>3. ASSUME NEW k \in 1..Cardinality(S), NEW p \in S,
             Cardinality(Below(S, p)) = k - 1
      PROVE  Ascending(S)[k] = p
  <2>1. PICK q : q = Ascending(S)[k]
    BY Zenon
  <2>2. q \in S /\ Cardinality(Below(S, q)) = k - 1
    BY <1>2, <2>1, Zenon
  <2>3. Cardinality(Below(S, q)) = Cardinality(Below(S, p))
    BY <1>3, <2>2, Zenon
  <2>4. q = p
    BY <2>2, <2>3, RankIsOnes, Zenon
  <2>5. QED
    BY <2>1, <2>4, Zenon
<1>4. QED
  BY <1>2, <1>3, Zenon

(* A number keeps its place when none comes in below it.                   *)
LEMMA AscendingKept ==
  ASSUME Counting, NEW S \in SUBSET Nat, IsFiniteSet(S),
         NEW T \in SUBSET Nat, IsFiniteSet(T), S \subseteq T,
         NEW k \in 1..Cardinality(S),
         \A m \in T \ S : ~(m < Ascending(S)[k])
  PROVE  Ascending(T)[k] = Ascending(S)[k] /\ k \in 1..Cardinality(T)
<1>1. PICK p : p = Ascending(S)[k]
  BY Zenon
<1>2. p \in S /\ p \in T /\ Cardinality(Below(S, p)) = k - 1
  BY <1>1, AscendingAt, Zenon
<1>3. Below(T, p) = Below(S, p)
  BY <1>1, Zenon DEF Below
<1>4. k \in 1..Cardinality(T)
  <2>1. /\ Cardinality(S) \in Nat /\ Cardinality(T) \in Nat
        /\ Cardinality(S) <= Cardinality(T)
    BY Zenon DEF Counting
  <2>2. QED
    BY <2>1
<1>5. Cardinality(Below(T, p)) = k - 1
  BY <1>2, <1>3, Zenon
<1>6. Ascending(T)[k] = p
  BY <1>2, <1>4, <1>5, AscendingAt, Zenon
<1>7. QED
  BY <1>1, <1>4, <1>6, Zenon

-----------------------------------------------------------------------------
(* What the server answers, and what it answers when it has one event      *)
(* more.                                                                   *)

Places(s) == {p \in 0..(Len(log) - 1) : log[p + 1] = s}

LEMMA PlacesFinite ==
  ASSUME Counting, log \in Seq(Nat), NEW s
  PROVE  /\ IsFiniteSet(Places(s)) /\ Places(s) \in SUBSET Nat
         /\ \A p \in Places(s) : p < Len(log)
<1>1. Len(log) \in Nat
  OBVIOUS
<1>2. 0 \in Int /\ Len(log) - 1 \in Int
  BY <1>1
<1>3. IsFiniteSet(0..(Len(log) - 1))
  BY <1>2, Zenon DEF Counting
<1>4. Places(s) \in SUBSET (0..(Len(log) - 1))
  BY Zenon DEF Places
<1>5. IsFiniteSet(Places(s))
  BY <1>3, <1>4, Zenon DEF Counting
<1>6. \A p \in 0..(Len(log) - 1) : p \in Nat /\ p < Len(log)
  BY <1>1
<1>7. QED
  BY <1>4, <1>5, <1>6, Zenon

LEMMA StreamIdsFinite ==
  ASSUME Counting, log \in Seq(Nat)
  PROVE  IsFiniteSet(StreamIds)
<1>1. log \in Seq(StreamIds)
  BY DEF StreamIds
<1>2. \A x \in StreamIds : \E k \in 1..Len(log) : log[k] = x
  BY Zenon DEF StreamIds
<1>3. QED
  BY <1>1, <1>2, Zenon DEF IsFiniteSet

LEMMA PositionsAreList ==
  ASSUME Counting, log \in Seq(Nat), NEW s
  PROVE  IsList(Positions(s)) /\ IsList(read_stream(s))
<1>1. Positions(s) = Ascending(Places(s))
  BY Zenon DEF Positions, Places
<1>2. IsList(Positions(s))
  BY <1>1, PlacesFinite, AscendingIsList, Zenon
<1>3. QED
  BY <1>2, PageOf, Zenon DEF read_stream

LEMMA ListStreams ==
  ASSUME Counting, log \in Seq(Nat)
  PROVE  /\ IsList(list_streams) /\ Len(list_streams) = Cardinality(StreamIds)
         /\ Listed(list_streams) /\ Ids(list_streams) = StreamIds
<1> DEFINE ids == Ascending(StreamIds)
<1>1. IsList(ids) /\ Len(ids) = Cardinality(StreamIds)
  BY StreamIdsFinite, AscendingIsList, Zenon
<1>2. Len(ids) \in Nat
  BY <1>1, ListLen, Zenon
<1>3. /\ list_streams = [k \in 1..Len(ids) |-> list_streams[k]]
      /\ \A k \in 1..Len(ids) : list_streams[k].stream_id = ids[k]
  <2> HIDE DEF ids
  <2>1. list_streams = [k \in 1..Len(ids) |->
                          [stream_id |-> ids[k],
                           event_count |-> Len(Positions(ids[k])),
                           latest_version |-> Len(Positions(ids[k])) - 1]]
    BY Zenon DEF list_streams, ids, StreamIds
  <2>2. QED
    BY <2>1
<1>4. IsList(list_streams) /\ Len(list_streams) = Len(ids)
  <2> HIDE DEF ids
  <2>1. QED
    BY <1>2, <1>3, FunctionIsList, Zenon
<1>5. IsFiniteSet(StreamIds) /\ StreamIds \in SUBSET Nat
  <2>1. \A k \in 1..Len(log) : log[k] \in Nat
    OBVIOUS
  <2>2. QED
    BY <2>1, StreamIdsFinite, Zenon DEF StreamIds
<1>6. Ids(list_streams) = StreamIds
  <2>1. Ids(list_streams) = {ids[k] : k \in 1..Len(ids)}
    BY <1>3, <1>4, Zenon DEF Ids
  <2>2. \A k \in 1..Len(ids) : ids[k] \in StreamIds
    BY <1>1, <1>5, AscendingAt, Zenon
  <2>3. ASSUME NEW p \in StreamIds PROVE \E k \in 1..Len(ids) : ids[k] = p
    <3>1. PICK r \in 0..(Cardinality(StreamIds) - 1) :
            r = Cardinality(Below(StreamIds, p))
      BY <1>5, RanksDiffer, Zenon
    <3>2. r + 1 \in 1..Cardinality(StreamIds) /\ r = (r + 1) - 1
      BY <1>1, <1>2
    <3>3. PICK k \in 1..Cardinality(StreamIds) : r = k - 1
      BY <3>2, Zenon
    <3>4. Cardinality(Below(StreamIds, p)) = k - 1
      BY <3>1, <3>3, Zenon
    <3>5. Ascending(StreamIds)[k] = p
      BY <1>5, <3>4, AscendingAt, Zenon
    <3>6. QED
      BY <1>1, <3>5, Zenon
  <2> HIDE DEF ids
  <2>4. QED
    BY <2>1, <2>2, <2>3, Zenon
<1>7. Listed(list_streams)
  BY <1>1, <1>3, <1>4, <1>5, <1>6, Zenon DEF Listed, InOrder
<1>8. QED
  BY <1>1, <1>4, <1>6, <1>7, Zenon

LEMMA EmptyIsListed == Counting => Listed(<<>>) /\ InOrder(<<>>) /\ Ids(<<>>) = {}
<1>1. SUFFICES ASSUME Counting PROVE Listed(<<>>) /\ InOrder(<<>>) /\ Ids(<<>>) = {}
  BY Zenon
<1>2. Len(<<>>) = 0 /\ 1..0 = {}
  OBVIOUS
<1>3. Ids(<<>>) = {}
  BY <1>2, Zenon DEF Ids
<1>4. InOrder(<<>>)
  BY <1>1, <1>2, <1>3, Zenon DEF InOrder, Counting
<1>5. QED
  BY <1>3, <1>4, Zenon DEF Listed

LEMMA ReadAll ==
  ASSUME log \in Seq(Nat)
  PROVE  /\ read_all \in Seq(Nat)
         /\ Len(read_all) = Smaller(READ_PAGE_SIZE, Len(log))
<1> DEFINE all == [k \in 1..Len(log) |-> k - 1]
<1>1. Len(log) \in Nat
  OBVIOUS
<1>2. \A k \in 1..Len(log) : k - 1 \in Nat
  BY <1>1
<1>3. all \in Seq(Nat) /\ Len(all) = Len(log)
  BY <1>1, <1>2
<1>4. read_all = Page(all)
  BY Zenon DEF read_all
<1>5. Len(read_all) = Smaller(READ_PAGE_SIZE, Len(log))
  <2> HIDE DEF all
  <2>1. QED
    BY <1>3, <1>4, SequenceIsList, PageOf, Zenon
<1>6. read_all \in Seq(Nat)
  <2> HIDE DEF all
  <2>1. Smaller(READ_PAGE_SIZE, Len(all)) \in 0..Len(all)
    BY <1>3, CapacitiesAssumption DEF Smaller
  <2>2. SubSeq(all, 1, Smaller(READ_PAGE_SIZE, Len(all))) \in Seq(Nat)
    BY <1>3, <2>1
  <2>3. QED
    BY <1>4, <2>2, Zenon DEF Page
<1>7. QED
  BY <1>5, <1>6, Zenon

LEMMA DetailIsList ==
  ASSUME Counting, log \in Seq(Nat), NEW a
  PROVE  IsList(Detail(a))
BY PositionsAreList, EmptyIsList, Zenon DEF Detail

Grows == \E x \in Nat : log' = Append(log, x)

LEMMA LogGrows ==
  ASSUME log \in Seq(Nat), Grows
  PROVE  /\ log' \in Seq(Nat) /\ Len(log') = Len(log) + 1
         /\ \A k \in 1..Len(log) : log'[k] = log[k]
         /\ Len(log) \in Nat
BY DEF Grows

LEMMA BeginsItself ==
  ASSUME NEW s, IsList(s)
  PROVE  Begins(s, s)
<1>1. Len(s) <= Len(s)
  BY ListLen
<1>2. QED
  BY <1>1, Zenon DEF Begins

LEMMA PositionsGrow ==
  ASSUME Counting, log \in Seq(Nat), Grows, NEW s
  PROVE  /\ Begins(Positions(s), Positions(s)')
         /\ IsList(Positions(s)) /\ IsList(Positions(s)')
<1> DEFINE n == Len(log)
<1>1. /\ n \in Nat /\ Len(log') = n + 1 /\ log' \in Seq(Nat)
      /\ \A k \in 1..n : log'[k] = log[k]
  BY LogGrows, Zenon
<1> HIDE DEF n
<1>2. Places(s) = {p \in 0..(n - 1) : log[p + 1] = s}
  BY Zenon DEF Places, n
<1>3. Places(s)' = {p \in 0..n : log'[p + 1] = s}
  <2>1. Places(s)' = {p \in 0..(Len(log') - 1) : log'[p + 1] = s}
    BY Zenon DEF Places
  <2>2. Len(log') - 1 = n
    BY <1>1
  <2>3. QED
    BY <2>1, <2>2, Zenon
<1>4. \A p : p \in 0..n <=> p \in 0..(n - 1) \/ p = n
  BY <1>1
<1>5. \A p \in 0..(n - 1) : log'[p + 1] = log[p + 1]
  <2>1. \A p \in 0..(n - 1) : p + 1 \in 1..n
    BY <1>1
  <2>2. QED
    BY <1>1, <2>1, Zenon
<1>6. Places(s)' = Places(s) \/ Places(s)' = Places(s) \cup {n}
  <2>1. CASE log'[n + 1] = s
    BY <1>2, <1>3, <1>4, <1>5, <2>1, Zenon
  <2>2. CASE log'[n + 1] # s
    BY <1>2, <1>3, <1>4, <1>5, <2>2, Zenon
  <2>3. QED
    BY <2>1, <2>2, Zenon
<1>7. Positions(s) = Ascending(Places(s)) /\ Positions(s)' = Ascending(Places(s)')
  BY Zenon DEF Positions, Places
<1>8. IsList(Ascending(Places(s)))
  BY PlacesFinite, AscendingIsList, Zenon
<1>9. Begins(Ascending(Places(s)), Ascending(Places(s) \cup {n}))
  <2>1. /\ IsFiniteSet(Places(s)) /\ Places(s) \in SUBSET Nat
        /\ \A p \in Places(s) : p < n
    BY PlacesFinite, Zenon DEF n
  <2>2. QED
    BY <1>1, <2>1, AscendingGrows, Zenon
<1>10. Begins(Ascending(Places(s)), Ascending(Places(s)'))
  BY <1>6, <1>8, <1>9, BeginsItself, Zenon
<1>11. IsList(Ascending(Places(s)'))
  <2>1. IsFiniteSet(Places(s)')
    <3>1. IsFiniteSet(Places(s))
      BY PlacesFinite, Zenon
    <3>2. QED
      BY <1>6, <3>1, Zenon DEF Counting
  <2>2. QED
    BY <2>1, AscendingIsList, Zenon
<1>12. QED
  BY <1>7, <1>8, <1>10, <1>11, Zenon

LEMMA DetailGrows ==
  ASSUME Counting, log \in Seq(Nat), Grows, UNCHANGED app
  PROVE  Begins(Detail(app), Detail(app)') /\ IsList(Detail(app)')
<1>1. CASE app.detail_stream_id = None
  <2>1. Detail(app) = <<>> /\ Detail(app)' = <<>>
    BY <1>1, Zenon DEF Detail
  <2>2. QED
    BY <2>1, EmptyIsList, BeginsItself, Zenon
<1>2. CASE app.detail_stream_id # None
  <2>1. PICK s : s = app.detail_stream_id
    BY Zenon
  <2>2. Detail(app) = Page(Positions(s)) /\ Detail(app)' = Page(Positions(s)')
    BY <1>2, <2>1, Zenon DEF Detail, read_stream
  <2>3. /\ Begins(Positions(s), Positions(s)')
        /\ IsList(Positions(s)) /\ IsList(Positions(s)')
    BY PositionsGrow, Zenon
  <2>4. Begins(Page(Positions(s)), Page(Positions(s)'))
    BY <2>3, PagesGrow, Zenon
  <2>5. IsList(Page(Positions(s)'))
    BY <2>3, PageOf, Zenon
  <2>6. QED
    BY <2>2, <2>4, <2>5, Zenon
<1>3. QED
  BY <1>1, <1>2, Zenon

LEMMA StreamsGrow ==
  ASSUME Counting, log \in Seq(Nat), Grows
  PROVE  /\ Len(list_streams) \in Nat /\ Len(list_streams') \in Nat
         /\ Len(list_streams) <= Len(list_streams')
         /\ StreamIds \subseteq StreamIds'
<1>1. PICK x \in Nat : log' = Append(log, x)
  BY Zenon DEF Grows
<1>2. StreamIds' = StreamIds \cup {x}
  <2>1. StreamIds' = {log'[k] : k \in 1..Len(log')}
    BY Zenon DEF StreamIds
  <2>2. /\ Len(log) \in Nat /\ Len(log') = Len(log) + 1 /\ log'[Len(log) + 1] = x
        /\ \A k \in 1..Len(log) : log'[k] = log[k]
    BY <1>1
  <2>3. \A k : k \in 1..Len(log') <=> k \in 1..Len(log) \/ k = Len(log) + 1
    BY <2>2
  <2>4. QED
    BY <2>1, <2>2, <2>3, Zenon DEF StreamIds
<1>3. IsFiniteSet(StreamIds) /\ IsFiniteSet(StreamIds \cup {x})
  BY StreamIdsFinite, Zenon DEF Counting
<1>4. StreamIds \in SUBSET (StreamIds \cup {x})
  BY Zenon
<1>5. /\ Cardinality(StreamIds) \in Nat /\ Cardinality(StreamIds \cup {x}) \in Nat
      /\ Cardinality(StreamIds) <= Cardinality(StreamIds \cup {x})
  BY <1>3, <1>4, Zenon DEF Counting
<1>6. Len(list_streams) = Cardinality(StreamIds)
  BY ListStreams, Zenon
<1>7. Len(list_streams') = Cardinality(StreamIds')
  <2>1. log' \in Seq(Nat)
    BY LogGrows, Zenon
  <2> DEFINE ids == Ascending(StreamIds')
  <2>2. IsFiniteSet(StreamIds')
    BY <1>2, <1>3, Zenon
  <2>3. IsList(ids) /\ Len(ids) = Cardinality(StreamIds')
    BY <2>2, AscendingIsList, Zenon
  <2>4. Len(ids) \in Nat
    BY <2>3, ListLen, Zenon
  <2>5. list_streams' = [k \in 1..Len(ids) |-> list_streams'[k]]
    <3> DEFINE of(id) == Ascending({p \in 0..(Len(log') - 1) : log'[p + 1] = id})
    <3>1. list_streams' = [k \in 1..Len(ids) |->
                            [stream_id |-> ids[k],
                             event_count |-> Len(of(ids[k])),
                             latest_version |-> Len(of(ids[k])) - 1]]
      BY Zenon DEF list_streams, ids, StreamIds, Positions
    <3> HIDE DEF ids, of
    <3>2. QED
      BY <3>1
  <2>6. QED
    <3> HIDE DEF ids
    <3>1. QED
      BY <2>3, <2>4, <2>5, FunctionIsList, Zenon
<1>8. QED
  BY <1>2, <1>4, <1>5, <1>6, <1>7, Zenon

-----------------------------------------------------------------------------
(* The operations on AppState.                                             *)

LEMMA NewOK ==
  /\ AppOK(AppState_new)
  /\ AppOK([AppState_new EXCEPT !.loading["Streams"] = TRUE])
<1>1. /\ AppState_new.cursor \in [Tabs -> Nat]
      /\ AppState_new.loading \in [Tabs -> BOOLEAN]
      /\ AppState_new.active_tab \in Tabs
      /\ \A t \in Tabs : AppState_new.cursor[t] = 0 /\ ~AppState_new.loading[t]
  BY DEF AppState_new, Tabs
<1>2. /\ AppState_new.streams = <<>> /\ AppState_new.detail_events = <<>>
      /\ AppState_new.global_events = <<>> /\ AppState_new.live_events = <<>>
  BY Zenon DEF AppState_new
<1>3. <<>> \in Seq(Nat)
  OBVIOUS
<1>4. AppOK(AppState_new)
  BY <1>1, <1>2, <1>3, EmptyIsList, Zenon DEF AppOK, At, Tabs
<1> DEFINE b == [AppState_new EXCEPT !.loading["Streams"] = TRUE]
<1>5. /\ DOMAIN b = DOMAIN AppState_new
      /\ b.loading = [AppState_new.loading EXCEPT !["Streams"] = TRUE]
      /\ b.active_tab = AppState_new.active_tab /\ b.cursor = AppState_new.cursor
      /\ b.streams = AppState_new.streams
      /\ b.detail_events = AppState_new.detail_events
      /\ b.global_events = AppState_new.global_events
      /\ b.live_events = AppState_new.live_events
  BY DEF AppState_new
<1>6. b.loading \in [Tabs -> BOOLEAN] /\ ~b.loading["LiveTail"]
  BY <1>1, <1>5 DEF Tabs
<1>7. AppOK(b)
  <2> HIDE DEF b
  <2>1. QED
    BY <1>4, <1>5, <1>6, Zenon DEF AppOK
<1>8. QED
  BY <1>4, <1>7, Zenon

(* The lists of one state are those of another, and its loads and cursors  *)
(* are good.                                                               *)
SameLists(a, b) ==
  /\ b.streams = a.streams /\ b.global_events = a.global_events
  /\ b.live_events = a.live_events

SameDetail(a, b) ==
  b.detail_stream_id = a.detail_stream_id /\ b.detail_events = a.detail_events

(* What a key may do to the lists, and when it opens a stream.             *)
Calm(a, b) ==
  /\ AppOK(b) /\ SameLists(a, b)
  /\ SameDetail(a, b) \/ b.detail_events = <<>>
  /\ b.should_quit = a.should_quit

Opens(a, b) ==
  /\ b.active_tab = "StreamDetail" /\ a.active_tab = "Streams"
  /\ b.loading["StreamDetail"] /\ ~a.loading["StreamDetail"]

LEMMA SwitchTabCalm ==
  ASSUME NEW a, AppOK(a), NEW tab \in Tabs
  PROVE  Calm(a, SwitchTab(a, tab)) /\ ~Opens(a, SwitchTab(a, tab))
<1> DEFINE b == SwitchTab(a, tab)
<1>1. DOMAIN a = DOMAIN AppState_new
  BY Zenon DEF AppOK
<1>2. /\ DOMAIN b = DOMAIN a /\ b.active_tab = tab
      /\ SameLists(a, b) /\ SameDetail(a, b)
      /\ b.cursor = a.cursor /\ b.should_quit = a.should_quit
      /\ b.loading = [a.loading EXCEPT ![tab] =
                        @ \/ (tab = "Streams" /\ a.streams = <<>>)
                          \/ (tab = "GlobalLog" /\ a.global_events = <<>>)]
  BY <1>1 DEF SwitchTab, SameLists, SameDetail, AppState_new
<1> HIDE DEF b
<1>3. a.loading \in [Tabs -> BOOLEAN] /\ ~a.loading["LiveTail"]
  BY Zenon DEF AppOK
<1>4. /\ b.loading \in [Tabs -> BOOLEAN]
      /\ ~b.loading["LiveTail"]
      /\ b.loading["StreamDetail"] = a.loading["StreamDetail"]
  BY <1>2, <1>3 DEF Tabs
<1>5. AppOK(b)
  BY <1>1, <1>2, <1>4, Zenon DEF AppOK, SameLists, SameDetail
<1>6. QED
  BY <1>2, <1>4, <1>5, Zenon DEF Calm, Opens, b

LEMMA TabAfterIsTab ==
  ASSUME NEW tab \in Tabs, NEW n \in {1, 3}
  PROVE  TabAfter(tab, n) \in Tabs
<1>1. \A i \in 0..3 : TAB_ORDER[i + 1] \in Tabs
  BY DEF TAB_ORDER, Tabs
<1>2. \E i \in 0..3 : TAB_ORDER[i + 1] = tab
  BY DEF TAB_ORDER, Tabs
<1>3. PICK idx \in 0..3 : TabAfter(tab, n) = TAB_ORDER[((idx + n) % 4) + 1]
  BY <1>2, Zenon DEF TabAfter
<1>4. (idx + n) % 4 \in 0..3
  OBVIOUS
<1>5. QED
  BY <1>1, <1>3, <1>4, Zenon

(* Moving the cursor, to a place in the list.                              *)
LEMMA CursorCalm ==
  ASSUME NEW a, AppOK(a), NEW n \in Nat, n = 0 \/ n < current_list_len(a),
         NEW b, b = [a EXCEPT !.cursor[a.active_tab] = n]
  PROVE  Calm(a, b) /\ ~Opens(a, b)
<1>1. /\ DOMAIN a = DOMAIN AppState_new /\ a.active_tab \in Tabs
      /\ a.cursor \in [Tabs -> Nat]
  BY Zenon DEF AppOK
<1>2. /\ DOMAIN b = DOMAIN a /\ b.active_tab = a.active_tab
      /\ SameLists(a, b) /\ SameDetail(a, b)
      /\ b.loading = a.loading /\ b.should_quit = a.should_quit
      /\ b.cursor = [a.cursor EXCEPT ![a.active_tab] = n]
  BY <1>1 DEF SameLists, SameDetail, AppState_new
<1>3. b.cursor \in [Tabs -> Nat]
  BY <1>1, <1>2, SMT
<1>4. /\ At(b.cursor["Streams"], a.streams)
      /\ At(b.cursor["StreamDetail"], a.detail_events)
      /\ At(b.cursor["GlobalLog"], a.global_events)
      /\ At(b.cursor["LiveTail"], a.live_events)
  <2>1. \A t \in Tabs : b.cursor[t] = IF t = a.active_tab THEN n ELSE a.cursor[t]
    BY <1>1, <1>2, SMT
  <2>2. /\ At(a.cursor["Streams"], a.streams)
        /\ At(a.cursor["StreamDetail"], a.detail_events)
        /\ At(a.cursor["GlobalLog"], a.global_events)
        /\ At(a.cursor["LiveTail"], a.live_events)
    BY Zenon DEF AppOK
  <2>3. CASE a.active_tab = "Streams"
    BY <2>1, <2>2, <2>3 DEF At, Tabs, current_list_len
  <2>4. CASE a.active_tab = "StreamDetail"
    BY <2>1, <2>2, <2>4 DEF At, Tabs, current_list_len
  <2>5. CASE a.active_tab = "GlobalLog"
    BY <2>1, <2>2, <2>5 DEF At, Tabs, current_list_len
  <2>6. CASE a.active_tab = "LiveTail"
    BY <2>1, <2>2, <2>6 DEF At, Tabs, current_list_len
  <2>7. QED
    BY <1>1, <2>3, <2>4, <2>5, <2>6, Zenon DEF Tabs
<1>5. AppOK(b)
  BY <1>1, <1>2, <1>3, <1>4, Zenon DEF AppOK, SameLists, SameDetail
<1>6. QED
  BY <1>2, <1>5, Zenon DEF Calm, Opens

LEMMA ListsHaveLengths ==
  ASSUME NEW a, AppOK(a)
  PROVE  /\ Len(a.streams) \in Nat /\ Len(a.detail_events) \in Nat
         /\ Len(a.global_events) \in Nat /\ Len(a.live_events) \in Nat
<1>1. /\ a.global_events \in Seq(Nat) /\ a.live_events \in Seq(Nat)
      /\ IsList(a.streams) /\ IsList(a.detail_events)
  BY Zenon DEF AppOK
<1>2. QED
  BY <1>1, SequenceIsList, ListLen, Zenon

LEMMA CursorInList ==
  ASSUME NEW a, AppOK(a)
  PROVE  /\ a.cursor[a.active_tab] \in Nat /\ current_list_len(a) \in Nat
         /\ a.cursor[a.active_tab] = 0 \/ a.cursor[a.active_tab] < current_list_len(a)
<1>1. a.active_tab \in Tabs /\ a.cursor \in [Tabs -> Nat]
  BY Zenon DEF AppOK
<1>2. a.cursor[a.active_tab] \in Nat
  BY <1>1, Zenon
<1>3. /\ At(a.cursor["Streams"], a.streams)
      /\ At(a.cursor["StreamDetail"], a.detail_events)
      /\ At(a.cursor["GlobalLog"], a.global_events)
      /\ At(a.cursor["LiveTail"], a.live_events)
  BY Zenon DEF AppOK
<1>4. CASE a.active_tab = "Streams"
  BY <1>2, <1>3, <1>4, ListsHaveLengths DEF At, current_list_len
<1>5. CASE a.active_tab = "StreamDetail"
  BY <1>2, <1>3, <1>5, ListsHaveLengths DEF At, current_list_len
<1>6. CASE a.active_tab = "GlobalLog"
  BY <1>2, <1>3, <1>6, ListsHaveLengths DEF At, current_list_len
<1>7. CASE a.active_tab = "LiveTail"
  BY <1>2, <1>3, <1>7, ListsHaveLengths DEF At, current_list_len
<1>8. QED
  BY <1>1, <1>4, <1>5, <1>6, <1>7, Zenon DEF Tabs

LEMMA CursorUpCalm ==
  ASSUME NEW a, AppOK(a)
  PROVE  Calm(a, CursorUp(a)) /\ ~Opens(a, CursorUp(a))
<1>1. PICK c, l : c = a.cursor[a.active_tab] /\ l = current_list_len(a)
  BY Zenon
<1>2. c \in Nat /\ l \in Nat /\ (c = 0 \/ c < l)
  BY <1>1, CursorInList, Zenon
<1>3. PICK n \in Nat : n = saturating_sub(c, 1) /\ (n = 0 \/ n < l)
  BY <1>2 DEF saturating_sub
<1>4. CursorUp(a) = [a EXCEPT !.cursor[a.active_tab] = n]
  BY <1>1, <1>3, Zenon DEF CursorUp
<1>5. QED
  BY <1>1, <1>3, <1>4, CursorCalm, Zenon

LEMMA StayCalm ==
  ASSUME NEW a, AppOK(a)
  PROVE  Calm(a, a) /\ ~Opens(a, a)
BY Zenon DEF Calm, Opens, SameLists, SameDetail

LEMMA CursorDownCalm ==
  ASSUME NEW a, AppOK(a)
  PROVE  Calm(a, CursorDown(a)) /\ ~Opens(a, CursorDown(a))
<1>1. CASE current_list_len(a) = 0
  BY <1>1, StayCalm, Zenon DEF CursorDown
<1>2. CASE current_list_len(a) # 0
  <2>1. PICK c, l : c = a.cursor[a.active_tab] /\ l = current_list_len(a)
    BY Zenon
  <2>2. c \in Nat /\ l \in Nat /\ l # 0
    BY <1>2, <2>1, CursorInList, Zenon
  <2>3. PICK n \in Nat : n = Smaller(c + 1, l - 1) /\ n < l
    BY <2>2 DEF Smaller
  <2>4. CursorDown(a) = [a EXCEPT !.cursor[a.active_tab] = n]
    BY <1>2, <2>1, <2>3, Zenon DEF CursorDown
  <2>5. QED
    BY <2>1, <2>3, <2>4, CursorCalm, Zenon
<1>3. QED
  BY <1>1, <1>2, Zenon

(* Select is the only one that opens a stream, the one under the cursor.   *)
LEMMA SelectCalm ==
  ASSUME NEW a, AppOK(a)
  PROVE  /\ Calm(a, Select(a))
         /\ Opens(a, Select(a)) =>
              /\ a.cursor["Streams"] < Len(a.streams)
              /\ Select(a).detail_stream_id =
                   a.streams[a.cursor["Streams"] + 1].stream_id
<1>1. CASE a.active_tab # "Streams" \/ a.cursor["Streams"] >= Len(a.streams)
  BY <1>1, StayCalm, Zenon DEF Select
<1>2. CASE ~(a.active_tab # "Streams" \/ a.cursor["Streams"] >= Len(a.streams))
  <2> DEFINE b == Select(a)
             id == a.streams[a.cursor["Streams"] + 1].stream_id
  <2>1. b = [a EXCEPT !.detail_stream_id = id,
                      !.detail_events = <<>>,
                      !.cursor["StreamDetail"] = 0,
                      !.loading["StreamDetail"] = TRUE,
                      !.active_tab = "StreamDetail"]
    BY <1>2, Zenon DEF Select
  <2>2. /\ DOMAIN a = DOMAIN AppState_new
        /\ a.cursor \in [Tabs -> Nat] /\ a.loading \in [Tabs -> BOOLEAN]
        /\ ~a.loading["LiveTail"]
    BY Zenon DEF AppOK
  <2> HIDE DEF b, id
  <2>3. /\ DOMAIN b = DOMAIN a /\ b.active_tab = "StreamDetail"
        /\ SameLists(a, b) /\ b.detail_stream_id = id /\ b.detail_events = <<>>
        /\ b.should_quit = a.should_quit
        /\ b.cursor = [a.cursor EXCEPT !["StreamDetail"] = 0]
        /\ b.loading = [a.loading EXCEPT !["StreamDetail"] = TRUE]
    BY <2>1, <2>2 DEF SameLists, AppState_new
  <2>4. /\ b.loading \in [Tabs -> BOOLEAN] /\ ~b.loading["LiveTail"]
        /\ b.cursor \in [Tabs -> Nat] /\ b.cursor["StreamDetail"] = 0
        /\ b.cursor["Streams"] = a.cursor["Streams"]
        /\ b.cursor["GlobalLog"] = a.cursor["GlobalLog"]
        /\ b.cursor["LiveTail"] = a.cursor["LiveTail"]
    BY <2>2, <2>3 DEF Tabs
  <2>5. AppOK(b)
    BY <2>2, <2>3, <2>4, EmptyIsList, Zenon DEF AppOK, SameLists, At, Tabs
  <2>6. a.cursor["Streams"] < Len(a.streams)
    <3>1. a.cursor["Streams"] \in Nat
      BY <2>2, Zenon DEF Tabs
    <3>2. QED
      BY <1>2, <3>1, ListsHaveLengths
  <2>7. QED
    BY <2>3, <2>5, <2>6, Zenon DEF Calm, b, id
<1>3. QED
  BY <1>1, <1>2, Zenon

LEMMA RefreshCalm ==
  ASSUME NEW a, AppOK(a)
  PROVE  Calm(a, Refresh(a)) /\ ~Opens(a, Refresh(a))
<1> DEFINE b == Refresh(a)
<1>1. /\ DOMAIN a = DOMAIN AppState_new /\ a.active_tab \in Tabs
      /\ a.loading \in [Tabs -> BOOLEAN] /\ ~a.loading["LiveTail"]
  BY Zenon DEF AppOK
<1>2. /\ DOMAIN b = DOMAIN a /\ b.active_tab = a.active_tab
      /\ SameLists(a, b) /\ SameDetail(a, b)
      /\ b.cursor = a.cursor /\ b.should_quit = a.should_quit
      /\ b.loading = [a.loading EXCEPT ![a.active_tab] =
                        @ \/ a.active_tab # "LiveTail"]
  BY <1>1 DEF Refresh, SameLists, SameDetail, AppState_new
<1> HIDE DEF b
<1>3. b.loading \in [Tabs -> BOOLEAN] /\ ~b.loading["LiveTail"]
  BY <1>1, <1>2 DEF Tabs
<1>4. AppOK(b)
  BY <1>1, <1>2, <1>3, Zenon DEF AppOK, SameLists, SameDetail
<1>5. QED
  BY <1>2, <1>4, Zenon DEF Calm, Opens, b

LEMMA TogglePauseCalm ==
  ASSUME NEW a, AppOK(a)
  PROVE  Calm(a, TogglePause(a)) /\ ~Opens(a, TogglePause(a))
<1> DEFINE b == TogglePause(a)
<1>1. DOMAIN a = DOMAIN AppState_new
  BY Zenon DEF AppOK
<1>2. /\ DOMAIN b = DOMAIN a /\ b.active_tab = a.active_tab
      /\ SameLists(a, b) /\ SameDetail(a, b)
      /\ b.cursor = a.cursor /\ b.should_quit = a.should_quit
      /\ b.loading = a.loading
  BY <1>1 DEF TogglePause, SameLists, SameDetail, AppState_new
<1> HIDE DEF b
<1>3. AppOK(b)
  BY <1>1, <1>2, Zenon DEF AppOK, SameLists, SameDetail
<1>4. QED
  BY <1>2, <1>3, Zenon DEF Calm, Opens, b

LEMMA KeyCalm ==
  ASSUME NEW a, AppOK(a), NEW key \in Keys, ~handle_key_event(a, key).should_quit
  PROVE  /\ Calm(a, handle_key_event(a, key))
         /\ Opens(a, handle_key_event(a, key)) =>
              /\ a.cursor["Streams"] < Len(a.streams)
              /\ handle_key_event(a, key).detail_stream_id =
                   a.streams[a.cursor["Streams"] + 1].stream_id
<1> DEFINE b == handle_key_event(a, key)
<1>1. DOMAIN a = DOMAIN AppState_new /\ a.active_tab \in Tabs
  BY Zenon DEF AppOK
<1>2. \A n \in {1, 3} : TabAfter(a.active_tab, n) \in Tabs
  BY <1>1, TabAfterIsTab, Zenon
<1>3. CASE key = "q"
  <2>1. b = [a EXCEPT !.should_quit = TRUE]
    BY <1>3 DEF handle_key_event
  <2>2. b.should_quit
    BY <1>1, <2>1 DEF AppState_new
  <2>3. QED
    BY <2>2, Zenon
<1>4. CASE key \in {"1", "2", "3", "4", "Tab", "BackTab"}
  <2>1. \E tab \in Tabs : b = SwitchTab(a, tab)
    <3>1. CASE key \in {"1", "2", "3", "4"}
      BY <3>1, Zenon DEF handle_key_event, Tabs
    <3>2. CASE key = "Tab"
      <4>1. b = SwitchTab(a, TabAfter(a.active_tab, 1))
        BY <3>2 DEF handle_key_event
      <4>2. QED
        BY <1>2, <4>1, Zenon
    <3>3. CASE key = "BackTab"
      <4>1. b = SwitchTab(a, TabAfter(a.active_tab, 3))
        BY <3>3 DEF handle_key_event
      <4>2. QED
        BY <1>2, <4>1, Zenon
    <3>4. QED
      BY <1>4, <3>1, <3>2, <3>3, Zenon
  <2>2. QED
    BY <2>1, SwitchTabCalm, Zenon
<1>5. CASE key = "j"
  <2>1. b = CursorDown(a)
    BY <1>5 DEF handle_key_event
  <2>2. QED
    BY <2>1, CursorDownCalm, Zenon
<1>6. CASE key = "k"
  <2>1. b = CursorUp(a)
    BY <1>6 DEF handle_key_event
  <2>2. QED
    BY <2>1, CursorUpCalm, Zenon
<1>7. CASE key = "Enter"
  <2>1. b = Select(a)
    BY <1>7 DEF handle_key_event
  <2>2. QED
    BY <2>1, SelectCalm, Zenon
<1>8. CASE key = "r"
  <2>1. b = Refresh(a)
    BY <1>8 DEF handle_key_event
  <2>2. QED
    BY <2>1, RefreshCalm, Zenon
<1>9. CASE key = "p"
  <2>1. b = TogglePause(a)
    BY <1>9 DEF handle_key_event
  <2>2. QED
    BY <2>1, TogglePauseCalm, Zenon
<1>10. CASE key = "f"
  <2>1. b = a
    BY <1>10 DEF handle_key_event
  <2>2. QED
    BY <2>1, StayCalm, Zenon
<1>11. QED
  BY <1>3, <1>4, <1>5, <1>6, <1>7, <1>8, <1>9, <1>10, Zenon DEF Keys

(* An event that is taken from the channel.                                *)
LEMMA PushOK ==
  ASSUME NEW a, AppOK(a), NEW e \in Nat
  PROVE  LET b == push_live_event(a, e)
         IN  /\ AppOK(b)
             /\ b.streams = a.streams /\ b.global_events = a.global_events
             /\ SameDetail(a, b)
             /\ b.active_tab = a.active_tab
             /\ b.cursor = a.cursor /\ b.loading = a.loading
             /\ b.live_events =
                  Append(IF Len(a.live_events) >= LIVE_TAIL_CAPACITY
                         THEN Tail(a.live_events) ELSE a.live_events, e)
<1> DEFINE b == push_live_event(a, e)
           kept == IF Len(a.live_events) >= LIVE_TAIL_CAPACITY
                   THEN Tail(a.live_events) ELSE a.live_events
<1>1. /\ DOMAIN a = DOMAIN AppState_new /\ a.live_events \in Seq(Nat)
      /\ a.cursor \in [Tabs -> Nat] /\ At(a.cursor["LiveTail"], a.live_events)
  BY Zenon DEF AppOK
<1>2. b = [a EXCEPT !.live_events = Append(kept, e)]
  BY Zenon DEF push_live_event
<1>3. /\ kept \in Seq(Nat)
      /\ Len(a.live_events) <= Len(kept) + 1
  BY <1>1, CapacitiesAssumption
<1> HIDE DEF b, kept
<1>4. Append(kept, e) \in Seq(Nat) /\ Len(a.live_events) <= Len(Append(kept, e))
  BY <1>1, <1>3
<1>5. /\ DOMAIN b = DOMAIN a /\ b.live_events = Append(kept, e)
      /\ b.streams = a.streams /\ b.global_events = a.global_events
      /\ SameDetail(a, b)
      /\ b.active_tab = a.active_tab
      /\ b.cursor = a.cursor /\ b.loading = a.loading
  BY <1>1, <1>2 DEF SameDetail, AppState_new
<1>6. At(b.cursor["LiveTail"], b.live_events)
  <2>1. a.cursor["LiveTail"] \in Nat
    BY <1>1, Zenon DEF Tabs
  <2>2. QED
    BY <1>1, <1>4, <1>5, <2>1 DEF At
<1>7. AppOK(b)
  BY <1>1, <1>4, <1>5, <1>6, Zenon DEF AppOK, SameDetail
<1>8. QED
  BY <1>5, <1>7, Zenon DEF b, kept

(* An answer has been dealt with.                                          *)
Settled(a, b, t) ==
  /\ AppOK(b) /\ SameLists(a, b) /\ SameDetail(a, b)
  /\ b.active_tab = a.active_tab /\ b.cursor = a.cursor
  /\ \A u \in Tabs : b.loading[u] <=> u # t /\ a.loading[u]

LEMMA LoadedOK ==
  ASSUME NEW a, AppOK(a), NEW t \in Tabs,
         NEW b, b = [a EXCEPT !.loading[t] = FALSE]
  PROVE  Settled(a, b, t)
<1>1. /\ DOMAIN a = DOMAIN AppState_new
      /\ a.loading \in [Tabs -> BOOLEAN] /\ ~a.loading["LiveTail"]
  BY Zenon DEF AppOK
<1>2. /\ DOMAIN b = DOMAIN a /\ b.active_tab = a.active_tab
      /\ SameLists(a, b) /\ SameDetail(a, b)
      /\ b.cursor = a.cursor
      /\ b.loading = [a.loading EXCEPT ![t] = FALSE]
  BY <1>1 DEF SameLists, SameDetail, AppState_new
<1>3. /\ b.loading \in [Tabs -> BOOLEAN] /\ ~b.loading["LiveTail"]
      /\ \A u \in Tabs : b.loading[u] <=> u # t /\ a.loading[u]
  BY <1>1, <1>2 DEF Tabs
<1>4. AppOK(b)
  BY <1>1, <1>2, <1>3, Zenon DEF AppOK, SameLists, SameDetail
<1>5. QED
  BY <1>2, <1>3, <1>4, Zenon DEF Settled

(* A list that has not become shorter.                                     *)
LEMMA AtLonger ==
  ASSUME NEW c \in Nat, NEW s, NEW t, IsList(s), IsList(t), At(c, s),
         Len(s) <= Len(t)
  PROVE  At(c, t)
<1>1. Len(s) \in Nat /\ Len(t) \in Nat
  BY ListLen, Zenon
<1>2. QED
  BY <1>1 DEF At

LEMMA StreamsOK ==
  ASSUME NEW a, AppOK(a), NEW s, IsList(s), Len(a.streams) <= Len(s),
         NEW b, b = [a EXCEPT !.streams = s]
  PROVE  /\ AppOK(b) /\ b.streams = s /\ b.global_events = a.global_events
         /\ b.live_events = a.live_events /\ SameDetail(a, b)
         /\ b.active_tab = a.active_tab /\ b.cursor = a.cursor
         /\ b.loading = a.loading
<1>1. /\ DOMAIN a = DOMAIN AppState_new /\ IsList(a.streams)
      /\ a.cursor \in [Tabs -> Nat] /\ At(a.cursor["Streams"], a.streams)
  BY Zenon DEF AppOK
<1>2. /\ DOMAIN b = DOMAIN a /\ b.streams = s
      /\ b.global_events = a.global_events /\ b.live_events = a.live_events
      /\ SameDetail(a, b) /\ b.active_tab = a.active_tab
      /\ b.cursor = a.cursor /\ b.loading = a.loading
  BY <1>1 DEF SameDetail, AppState_new
<1>3. At(a.cursor["Streams"], s)
  <2>1. a.cursor["Streams"] \in Nat
    BY <1>1, Zenon DEF Tabs
  <2>2. QED
    BY <1>1, <2>1, AtLonger, Zenon
<1>4. AppOK(b)
  BY <1>1, <1>2, <1>3, Zenon DEF AppOK, SameDetail
<1>5. QED
  BY <1>2, <1>4, Zenon

LEMMA DetailOK ==
  ASSUME NEW a, AppOK(a), NEW s, IsList(s), Len(a.detail_events) <= Len(s),
         NEW b, b = [a EXCEPT !.detail_events = s]
  PROVE  /\ AppOK(b) /\ SameLists(a, b)
         /\ b.detail_events = s /\ b.detail_stream_id = a.detail_stream_id
         /\ b.active_tab = a.active_tab /\ b.cursor = a.cursor
         /\ b.loading = a.loading
<1>1. /\ DOMAIN a = DOMAIN AppState_new /\ IsList(a.detail_events)
      /\ a.cursor \in [Tabs -> Nat] /\ At(a.cursor["StreamDetail"], a.detail_events)
  BY Zenon DEF AppOK
<1>2. /\ DOMAIN b = DOMAIN a /\ b.detail_events = s /\ SameLists(a, b)
      /\ b.detail_stream_id = a.detail_stream_id /\ b.active_tab = a.active_tab
      /\ b.cursor = a.cursor /\ b.loading = a.loading
  BY <1>1 DEF SameLists, AppState_new
<1>3. At(a.cursor["StreamDetail"], s)
  <2>1. a.cursor["StreamDetail"] \in Nat
    BY <1>1, Zenon DEF Tabs
  <2>2. QED
    BY <1>1, <2>1, AtLonger, Zenon
<1>4. AppOK(b)
  BY <1>1, <1>2, <1>3, Zenon DEF AppOK, SameLists
<1>5. QED
  BY <1>2, <1>4, Zenon

LEMMA GlobalOK ==
  ASSUME NEW a, AppOK(a), NEW s \in Seq(Nat), Len(a.global_events) <= Len(s),
         NEW b, b = [a EXCEPT !.global_events = s]
  PROVE  /\ AppOK(b) /\ b.global_events = s /\ b.streams = a.streams
         /\ b.live_events = a.live_events /\ SameDetail(a, b)
         /\ b.active_tab = a.active_tab /\ b.cursor = a.cursor
         /\ b.loading = a.loading
<1>1. /\ DOMAIN a = DOMAIN AppState_new /\ a.global_events \in Seq(Nat)
      /\ a.cursor \in [Tabs -> Nat] /\ At(a.cursor["GlobalLog"], a.global_events)
  BY Zenon DEF AppOK
<1>2. /\ DOMAIN b = DOMAIN a /\ b.global_events = s
      /\ b.streams = a.streams /\ b.live_events = a.live_events
      /\ SameDetail(a, b) /\ b.active_tab = a.active_tab
      /\ b.cursor = a.cursor /\ b.loading = a.loading
  BY <1>1 DEF SameDetail, AppState_new
<1>3. At(a.cursor["GlobalLog"], s)
  <2>1. a.cursor["GlobalLog"] \in Nat
    BY <1>1, Zenon DEF Tabs
  <2>2. IsList(s) /\ IsList(a.global_events)
    BY <1>1, SequenceIsList, Zenon
  <2>3. QED
    BY <1>1, <2>1, <2>2, AtLonger, Zenon
<1>4. AppOK(b)
  BY <1>1, <1>2, <1>3, Zenon DEF AppOK, SameDetail
<1>5. QED
  BY <1>2, <1>4, Zenon

-----------------------------------------------------------------------------
(* What a step keeps by leaving variables alone.                           *)

LEMMA ServerSame ==
  ASSUME UNCHANGED log
  PROVE  /\ list_streams' = list_streams /\ read_all' = read_all
         /\ \A s : read_stream(s)' = read_stream(s)
<1>1. \A s : Positions(s)' = Positions(s)
  BY Zenon DEF Positions
<1>2. read_all' = read_all /\ \A s : read_stream(s)' = read_stream(s)
  BY <1>1, Zenon DEF read_all, read_stream
<1>3. list_streams' = list_streams
  BY DEF list_streams, Positions
<1>4. QED
  BY <1>2, <1>3, Zenon

LEMMA LoadedFrame ==
  ASSUME Counting, TypeOK, LoadedInv, UNCHANGED log,
         app'.streams = app.streams, app'.global_events = app.global_events,
         SameDetail(app, app') \/ app'.detail_events = <<>>
  PROVE  LoadedInv'
<1>1. Len(app'.streams) <= Len(list_streams') /\ Len(app'.global_events) <= Len(read_all')
  BY ServerSame, Zenon DEF LoadedInv
<1>2. Begins(app'.detail_events, Detail(app)')
  <2>1. CASE SameDetail(app, app')
    <3>1. Detail(app)' = Detail(app)
      BY <2>1, ServerSame, Zenon DEF Detail, SameDetail
    <3>2. QED
      BY <2>1, <3>1, Zenon DEF LoadedInv, SameDetail
  <2>2. CASE app'.detail_events = <<>>
    <3>1. log' \in Seq(Nat) /\ log \in Seq(Nat)
      BY Zenon DEF TypeOK
    <3>2. IsList(Detail(app)')
      <4>1. PICK a : a = app'
        BY Zenon
      <4>2. Detail(app)' = Detail(a)
        BY <4>1, ServerSame, Zenon DEF Detail
      <4>3. QED
        BY <3>1, <4>2, DetailIsList, Zenon
    <3>3. Len(Detail(app)') \in Nat
      BY <3>2, ListLen, Zenon
    <3>4. QED
      BY <2>2, <3>3 DEF Begins
  <2>3. QED
    BY <2>1, <2>2, Zenon
<1>3. Listed(app.streams)'
  BY Zenon DEF LoadedInv, Listed, StreamIds
<1>4. QED
  BY <1>1, <1>2, <1>3, Zenon DEF LoadedInv

LEMMA LiveFrame ==
  ASSUME LiveTailFaithful, UNCHANGED <<chan, next>>,
         phase' \in InLoop => phase \in InLoop /\ app'.live_events = app.live_events
  PROVE  LiveTailFaithful'
<1>1. PICK taken \in 0..next :
        /\ phase \in InLoop => app.live_events = Newest(taken)
        /\ Holds(chan, taken, next)
  BY Zenon DEF LiveTailFaithful
<1>2. taken \in 0..next' /\ Holds(chan', taken, next')
  BY <1>1, Zenon
<1>3. phase' \in InLoop => app'.live_events = Newest(taken)
  BY <1>1, Zenon
<1>4. QED
  BY <1>2, <1>3, Zenon DEF LiveTailFaithful

LEMMA FetchNext ==
  ASSUME NEW i \in 1..4, AppOK(app)
  PROVE  /\ FetchFrom(i) \in Tabs \cup {"drain"}
         /\ FetchFrom(i) \in Tabs =>
              /\ app.loading[FetchFrom(i)]
              /\ \A j \in 1..(i - 1) : FetchFrom(i) # TAB_ORDER[j]
<1> DEFINE wanted == {j \in i..4 : app.loading[TAB_ORDER[j]]}
<1>1. Len(TAB_ORDER) = 4
  BY DEF TAB_ORDER
<1>2. FetchFrom(i) = IF wanted = {} THEN "drain"
                     ELSE TAB_ORDER[CHOOSE j \in wanted : \A k \in wanted : j <= k]
  BY <1>1 DEF FetchFrom
<1>3. CASE wanted = {}
  <2>1. FetchFrom(i) = "drain"
    BY <1>2, <1>3, Zenon
  <2>2. "drain" \notin Tabs
    BY DEF Tabs
  <2>3. QED
    BY <2>1, <2>2, Zenon
<1>4. CASE wanted # {}
  <2>1. wanted \subseteq 1..4
    OBVIOUS
  <2>2. \E j \in wanted : \A k \in wanted : j <= k
    <3> HIDE DEF wanted
    <3>1. CASE 1 \in wanted
      BY <2>1, <3>1
    <3>2. CASE 1 \notin wanted /\ 2 \in wanted
      BY <2>1, <3>2
    <3>3. CASE 1 \notin wanted /\ 2 \notin wanted /\ 3 \in wanted
      BY <2>1, <3>3
    <3>4. CASE 1 \notin wanted /\ 2 \notin wanted /\ 3 \notin wanted
      <4>1. \A k \in wanted : k = 4
        BY <2>1, <3>4
      <4>2. QED
        BY <1>4, <4>1
    <3>5. QED
      BY <3>1, <3>2, <3>3, <3>4, Zenon
  <2>3. PICK j \in wanted : FetchFrom(i) = TAB_ORDER[j]
    <3> HIDE DEF wanted
    <3>1. QED
      BY <1>2, <1>4, <2>2, Zenon
  <2>4. j \in i..4 /\ j \in 1..4 /\ app.loading[TAB_ORDER[j]]
    BY <2>1, Zenon
  <2>5. TAB_ORDER[j] \in Tabs
    BY <2>4 DEF TAB_ORDER, Tabs
  <2>6. \A k \in 1..(i - 1) : TAB_ORDER[j] # TAB_ORDER[k]
    BY <2>4 DEF TAB_ORDER
  <2>7. QED
    BY <2>3, <2>4, <2>5, <2>6, Zenon
<1>5. QED
  BY <1>3, <1>4, Zenon

(* A step outside the loop that leaves the state, the channel and the log. *)
LEMMA OutsideStep ==
  ASSUME Counting, ConsoleInv, UNCHANGED <<app, chan, next, log>>,
         phase' \in Starting \cup {"exited"},
         phase' \in Starting => phase \in Starting /\ UNCHANGED task,
         outcome' # "none" => phase' = "exited",
         phase' \in Starting => UNCHANGED term,
         phase' = "exited" /\ term' # Restored => outcome' \in {"init", "restore"}
  PROVE  ConsoleInv'
<1>1. Starting \subseteq Phases /\ "exited" \in Phases
  BY Zenon DEF Phases
<1>2. phase' \notin InLoop /\ phase' \notin Tabs \cup {"drain", "key"}
  BY DEF Starting, InLoop, Tabs
<1>3. TypeOK'
  BY <1>1, Zenon DEF ConsoleInv, TypeOK
<1>4. AppOK(app)'
  BY Zenon DEF ConsoleInv, AppOK
<1>5. LoadedInv'
  BY LoadedFrame, Zenon DEF ConsoleInv, SameDetail
<1>6. StartInv' /\ ScreenInv' /\ OutcomeInv' /\ TerminalRestored'
  BY <1>2, Zenon DEF ConsoleInv, StartInv, ScreenInv, OutcomeInv, TerminalRestored
<1>7. LiveTailFaithful'
  BY <1>2, LiveFrame, Zenon DEF ConsoleInv
<1>8. QED
  BY <1>3, <1>4, <1>5, <1>6, <1>7, Zenon DEF ConsoleInv

LEMMA NewestNone == Newest(0) = <<>>
BY CapacitiesAssumption DEF Newest, Smaller

LEMMA LaunchStep ==
  ASSUME Counting, ConsoleInv, phase = "init", phase' = "render", Launch,
         term' = [raw |-> TRUE, alternate |-> TRUE],
         UNCHANGED <<outcome, chan, next, log>>
  PROVE  ConsoleInv'
<1> DEFINE new == [AppState_new EXCEPT !.loading["Streams"] = TRUE]
<1>1. phase \in Starting /\ phase' \in InLoop /\ phase' \in Phases
      /\ phase' \notin Starting /\ phase' \notin Tabs \cup {"drain", "key"}
      /\ phase # "exited" /\ phase' # "exited"
  BY DEF Starting, InLoop, Tabs, Phases
<1>2. /\ new.streams = <<>> /\ new.detail_events = <<>>
      /\ new.global_events = <<>> /\ new.live_events = <<>>
  BY DEF AppState_new
<1>3. app' = new /\ AppOK(new)
  BY NewOK, Zenon DEF Launch
<1> HIDE DEF new
<1>4. TypeOK' /\ AppOK(app)'
  BY <1>1, <1>3, Zenon DEF ConsoleInv, TypeOK, AppOK
<1>5. log \in Seq(Nat) /\ log' = log
  BY Zenon DEF ConsoleInv, TypeOK
<1>6. Len(<<>>) <= Len(list_streams') /\ Len(<<>>) <= Len(read_all')
  <2>1. IsList(list_streams') /\ IsList(read_all')
    BY <1>5, ServerSame, ListStreams, ReadAll, SequenceIsList, Zenon
  <2>2. Len(list_streams') \in Nat /\ Len(read_all') \in Nat
    BY <2>1, ListLen, Zenon
  <2>3. QED
    BY <2>2, EmptyIsList
<1>7. Begins(<<>>, Detail(app)')
  <2>1. Detail(app)' = Detail(new)
    BY <1>3, <1>5, ServerSame, Zenon DEF Detail
  <2>2. Len(Detail(new)) \in Nat
    BY <1>5, DetailIsList, ListLen, Zenon
  <2>3. QED
    BY <2>1, <2>2 DEF Begins
<1>8. LoadedInv'
  <2>1. Listed(<<>>)'
    BY <1>5, EmptyIsListed, Zenon DEF Listed
  <2>2. QED
    BY <1>2, <1>3, <1>6, <1>7, <2>1, Zenon DEF LoadedInv
<1>9. LiveTailFaithful'
  <2>1. chan' = <<>> /\ next' = 0
    BY <1>1, Zenon DEF ConsoleInv, StartInv
  <2>2. app'.live_events = Newest(0)
    BY <1>2, <1>3, NewestNone, Zenon
  <2>3. Holds(chan', 0, next')
    BY <2>1 DEF Holds
  <2>4. 0 \in 0..next'
    BY <2>1
  <2>5. QED
    BY <2>2, <2>3, <2>4, Zenon DEF LiveTailFaithful
<1>10. StartInv' /\ ScreenInv' /\ OutcomeInv' /\ TerminalRestored'
  <2>1. outcome' = "none"
    BY <1>1, Zenon DEF ConsoleInv, OutcomeInv
  <2>2. QED
    BY <1>1, <2>1, Zenon DEF StartInv, ScreenInv, OutcomeInv, TerminalRestored
<1>11. QED
  BY <1>4, <1>8, <1>9, <1>10, Zenon DEF ConsoleInv

LEMMA StartStep ==
  ASSUME Counting, ConsoleInv, Start
  PROVE  ConsoleInv'
<1>1. outcome # "none" => phase = "exited"
  BY Zenon DEF ConsoleInv, OutcomeInv
<1>2. /\ "exited" \notin Starting /\ {"tls", "connect", "init"} \subseteq Starting
      /\ {"tls", "connect", "init"} \cap {"exited"} = {}
      /\ phase \in Starting => term = Restored
  BY Zenon DEF Starting, ConsoleInv, StartInv
<1>3. CASE validate_tls_flags
  <2>1. /\ phase = "flags"
        /\ \/ phase' = "exited" /\ outcome' = "flags"
           \/ phase' = "tls" /\ outcome' = outcome
        /\ UNCHANGED <<term, app, task, chan, next, log>>
    BY <1>3, Zenon DEF validate_tls_flags, Exit, subscription
  <2>2. QED
    BY <1>1, <1>2, <2>1, OutsideStep, Zenon DEF Starting
<1>4. CASE build_tls_options
  <2>1. /\ phase = "tls"
        /\ \/ phase' = "exited" /\ outcome' = "tls"
           \/ phase' = "connect" /\ outcome' = outcome
        /\ UNCHANGED <<term, app, task, chan, next, log>>
    BY <1>4, Zenon DEF build_tls_options, Exit, subscription
  <2>2. QED
    BY <1>1, <1>2, <2>1, OutsideStep, Zenon DEF Starting
<1>5. CASE Client_connect
  <2>1. /\ phase = "connect"
        /\ \/ phase' = "exited" /\ outcome' = "connect"
           \/ phase' = "init" /\ outcome' = outcome
        /\ UNCHANGED <<term, app, task, chan, next, log>>
    BY <1>5, Zenon DEF Client_connect, Exit, subscription
  <2>2. QED
    BY <1>1, <1>2, <2>1, OutsideStep, Zenon DEF Starting
<1>6. CASE init_terminal
  <2>1. phase = "init" /\ UNCHANGED <<chan, next, log>>
    BY <1>6, Zenon DEF init_terminal
  <2>2. \/ /\ term' = [raw |-> TRUE, alternate |-> TRUE]
           /\ phase' = "render" /\ Launch /\ UNCHANGED outcome
        \/ phase' = "exited" /\ outcome' = "init" /\ UNCHANGED app
    BY <1>6, Zenon DEF init_terminal, Exit
  <2>3. QED
    BY <1>1, <1>2, <2>1, <2>2, OutsideStep, LaunchStep, Zenon DEF Starting
<1>7. QED
  BY <1>3, <1>4, <1>5, <1>6, Zenon DEF Start

(* The loop is left.                                                       *)
LEMMA ReturnStep ==
  ASSUME Counting, ConsoleInv, phase \in InLoop,
         NEW to \in {"restore_ok", "restore_error"}, Return(to),
         UNCHANGED <<outcome, term, task, chan, next, log>>
  PROVE  ConsoleInv'
<1>1. phase' = to /\ app' = AppState_new
  BY Zenon DEF Return
<1>2. phase # "exited" /\ phase' # "exited"
  BY <1>1 DEF InLoop, Tabs
<1>3. /\ phase' \notin InLoop /\ phase' \in Phases /\ phase' \notin Starting
      /\ phase' \notin Tabs \cup {"drain", "key"}
  BY <1>1 DEF InLoop, Tabs, Phases, Starting
<1>4. /\ AppState_new.streams = <<>> /\ AppState_new.detail_events = <<>>
      /\ AppState_new.global_events = <<>>
  BY Zenon DEF AppState_new
<1>5. TypeOK' /\ AppOK(app)'
  BY <1>1, <1>3, NewOK, Zenon DEF ConsoleInv, TypeOK, AppOK
<1>6. LoadedInv'
  <2>1. log \in Seq(Nat) /\ log' = log
    BY Zenon DEF ConsoleInv, TypeOK
  <2>2. Len(<<>>) <= Len(list_streams') /\ Len(<<>>) <= Len(read_all')
    <3>1. IsList(list_streams') /\ IsList(read_all')
      BY <2>1, ServerSame, ListStreams, ReadAll, SequenceIsList, Zenon
    <3>2. Len(list_streams') \in Nat /\ Len(read_all') \in Nat
      BY <3>1, ListLen, Zenon
    <3>3. QED
      BY <3>2, EmptyIsList
  <2>3. Begins(<<>>, Detail(app)')
    <3>1. Detail(app)' = Detail(AppState_new)
      BY <1>1, <2>1, ServerSame, Zenon DEF Detail
    <3>2. Len(Detail(AppState_new)) \in Nat
      BY <2>1, DetailIsList, ListLen, Zenon
    <3>3. QED
      BY <3>1, <3>2 DEF Begins
  <2>4. QED
    <3>1. Listed(<<>>)'
      BY <2>1, EmptyIsListed, Zenon DEF Listed
    <3>2. QED
      BY <1>1, <1>4, <2>2, <2>3, <3>1, Zenon DEF LoadedInv
<1>7. LiveTailFaithful'
  BY <1>3, LiveFrame, Zenon DEF ConsoleInv
<1>8. outcome = "none"
  BY <1>2, Zenon DEF ConsoleInv, OutcomeInv
<1>9. StartInv' /\ ScreenInv' /\ OutcomeInv' /\ TerminalRestored'
  BY <1>2, <1>3, <1>8, Zenon DEF StartInv, ScreenInv, OutcomeInv, TerminalRestored
<1>10. QED
  BY <1>5, <1>6, <1>7, <1>9, Zenon DEF ConsoleInv

(* A step within the loop that leaves the terminal, the channel, the log   *)
(* and the live tail.                                                      *)
LEMMA InsideStep ==
  ASSUME ConsoleInv, phase \in InLoop, phase' \in InLoop, AppOK(app)', LoadedInv',
         ScreenInv', app'.live_events = app.live_events,
         UNCHANGED <<outcome, term, task, chan, next, log>>
  PROVE  ConsoleInv'
<1>1. phase # "exited" /\ phase' # "exited" /\ phase' \notin Starting /\ phase' \in Phases
  BY DEF InLoop, Tabs, Phases, Starting
<1>2. TypeOK'
  BY <1>1, Zenon DEF ConsoleInv, TypeOK
<1>3. LiveTailFaithful'
  BY LiveFrame, Zenon DEF ConsoleInv
<1>4. outcome = "none"
  BY <1>1, Zenon DEF ConsoleInv, OutcomeInv
<1>5. StartInv' /\ OutcomeInv' /\ TerminalRestored'
  BY <1>1, <1>4, Zenon DEF ConsoleInv, StartInv, OutcomeInv, TerminalRestored
<1>6. QED
  BY <1>2, <1>3, <1>5, Zenon DEF ConsoleInv

(* What the first tab shows.                                               *)
LEMMA DrawnIs ==
  ASSUME NEW t, NEW h
  PROVE  /\ Drawn(t, h).selected = (IF t.selected <= h THEN t.selected ELSE 0)
         /\ Drawn(t, h).rows = SubSeq(t.rows, 1, Smaller(h, Len(t.rows)))
BY DEF Drawn

LEMMA ShownStreams ==
  ASSUME NEW a, AppOK(a), NEW h \in Nat, Shown(a, h).stream # None
  PROVE  /\ ~a.loading["Streams"]
         /\ Shown(a, h).stream = a.streams[a.cursor["Streams"] + 1].stream_id
<1> DEFINE table == streams_render(a)
           drawn == render_content(a, h)
           c == a.cursor["Streams"]
<1>1. /\ a.active_tab = "Streams" /\ drawn.selected > 0
      /\ Shown(a, h).stream = drawn.rows[drawn.selected].stream_id
  BY Zenon DEF Shown
<1>2. drawn = Drawn(table, h)
  BY <1>1 DEF render_content
<1>3. /\ c \in Nat /\ Len(a.streams) \in Nat /\ a.loading["Streams"] \in BOOLEAN
      /\ IsList(a.streams)
  BY ListsHaveLengths, Zenon DEF AppOK, Tabs
<1>4. /\ drawn.selected = (IF table.selected <= h THEN table.selected ELSE 0)
      /\ drawn.rows = SubSeq(table.rows, 1, Smaller(h, Len(table.rows)))
  <2> HIDE DEF table, drawn
  <2>1. QED
    BY <1>2, DrawnIs, Zenon
<1>5. /\ ~a.loading["Streams"] /\ c < Len(a.streams)
      /\ table.rows = a.streams /\ table.selected = c + 1
  <2>1. CASE a.loading["Streams"] \/ a.streams = <<>>
    <3>1. table.selected = 0
      BY <2>1 DEF streams_render, Table
    <3>2. QED
      BY <1>1, <1>4, <3>1
  <2>2. CASE ~(a.loading["Streams"] \/ a.streams = <<>>)
    <3>1. table = [rows |-> a.streams, selected |-> IF c < Len(a.streams) THEN c + 1 ELSE 0]
      BY <2>2, Zenon DEF streams_render, Table
    <3>2. /\ table.rows = a.streams
          /\ table.selected = IF c < Len(a.streams) THEN c + 1 ELSE 0
      BY <3>1
    <3> HIDE DEF table, drawn
    <3>3. QED
      BY <1>1, <1>3, <1>4, <2>2, <3>2
  <2>3. QED
    BY <2>1, <2>2, Zenon
<1> HIDE DEF table, drawn
<1>6. /\ drawn.selected = c + 1 /\ c + 1 <= h
      /\ drawn.rows = SubSeq(a.streams, 1, Smaller(h, Len(a.streams)))
  BY <1>1, <1>3, <1>4, <1>5
<1>7. drawn.rows[c + 1] = a.streams[c + 1]
  <2>1. a.streams \in Seq({a.streams[k] : k \in DOMAIN a.streams})
    BY <1>3, Zenon DEF IsList
  <2>2. /\ Smaller(h, Len(a.streams)) \in 0..Len(a.streams)
        /\ c + 1 \in 1..Smaller(h, Len(a.streams))
    BY <1>3, <1>5, <1>6 DEF Smaller
  <2>3. QED
    BY <1>6, <2>1, <2>2
<1>8. QED
  BY <1>1, <1>5, <1>6, <1>7, Zenon

LEMMA RenderStep ==
  ASSUME Counting, ConsoleInv, render
  PROVE  ConsoleInv'
<1>1. /\ phase = "render"
      /\ UNCHANGED <<outcome, term, task, chan, next, log>>
  BY Zenon DEF render, subscription
<1>2. phase \in InLoop
  BY <1>1, Zenon DEF InLoop
<1>3. CASE Return("restore_error")
  BY <1>1, <1>2, <1>3, ReturnStep, Zenon
<1>4. ASSUME NEW h \in Heights, screen' = Shown(app, h),
             phase' = FetchFrom(1), UNCHANGED app
      PROVE  ConsoleInv'
  <2>0. 1 \in 1..4
    OBVIOUS
  <2>1. AppOK(app)
    BY Zenon DEF ConsoleInv
  <2>2. /\ phase' \in Tabs \cup {"drain"}
        /\ phase' \in Tabs => app.loading[phase']
    BY <1>4, <2>0, <2>1, FetchNext, Zenon
  <2>3. phase' \in InLoop
    BY <2>2, Zenon DEF InLoop
  <2>4. AppOK(app)'
    BY <1>4, <2>1, Zenon DEF AppOK
  <2>5. LoadedInv'
    BY <1>1, <1>4, LoadedFrame, Zenon DEF ConsoleInv, SameDetail
  <2>6. ScreenInv'
    <3>1. h \in Nat
      BY HeightsAssumption, Zenon
    <3>2. screen'.stream # None =>
            /\ ~app.loading["Streams"]
            /\ screen'.stream = app.streams[app.cursor["Streams"] + 1].stream_id
      BY <1>4, <2>1, <3>1, ShownStreams, Zenon
    <3>3. screen'.list = app.streams /\ InOrder(app.streams)
      BY <1>4, Zenon DEF Shown, ConsoleInv, LoadedInv, Listed
    <3>4. Highlighted(app)' /\ DrawnFrom(app)'
      BY <1>4, <3>2, <3>3, Zenon DEF Highlighted, DrawnFrom
    <3>5. QED
      BY <1>4, <2>2, <3>4, Zenon DEF ScreenInv
  <2>7. QED
    BY <1>1, <1>2, <1>4, <2>3, <2>4, <2>5, <2>6, InsideStep, Zenon
<1>5. QED
  BY <1>3, <1>4, Zenon DEF render

(* An answer, or the state as it was, and the fetch that comes next.  Only *)
(* the fetch of the streams changes what Enter works on.                   *)
LEMMA LoadedStep ==
  ASSUME Counting, ConsoleInv, NEW i \in {1, 2, 3}, phase = TAB_ORDER[i],
         phase' = FetchFrom(i + 1), NEW a, AppOK(a),
         app' = [a EXCEPT !.loading[phase] = FALSE],
         a.active_tab = app.active_tab, a.cursor = app.cursor,
         a.loading = app.loading, a.live_events = app.live_events,
         i = 1 \/ a.streams = app.streams,
         Listed(a.streams), Ids(app.streams) \subseteq Ids(a.streams),
         Len(a.streams) <= Len(list_streams),
         Len(a.global_events) <= Len(read_all),
         Begins(a.detail_events, Detail(a)),
         UNCHANGED <<outcome, term, screen, task, chan, next, log>>
  PROVE  ConsoleInv'
<1>1. phase \in Tabs /\ (i = 1 <=> phase = "Streams")
  BY DEF TAB_ORDER, Tabs
<1>2. phase \in InLoop /\ i + 1 \in 1..4 /\ i \in 1..((i + 1) - 1)
  BY <1>1 DEF InLoop
<1>3. /\ AppOK(app') /\ SameLists(a, app') /\ SameDetail(a, app')
      /\ app'.active_tab = a.active_tab /\ app'.cursor = a.cursor
      /\ \A u \in Tabs : app'.loading[u] <=> u # phase /\ a.loading[u]
  <2>1. Settled(a, app', phase)
    BY <1>1, LoadedOK, Zenon
  <2>2. QED
    BY <2>1, Zenon DEF Settled
<1>4. AppOK(app)
  BY Zenon DEF ConsoleInv
<1>5. /\ phase' \in Tabs \cup {"drain"}
      /\ phase' \in Tabs => app.loading[phase'] /\ phase' # TAB_ORDER[i]
  BY <1>2, <1>4, FetchNext, Zenon
<1>6. phase' \in InLoop
  BY <1>5, Zenon DEF InLoop
<1>7. LoadedInv'
  <2>1. Detail(app)' = Detail(a)
    BY <1>3, ServerSame, Zenon DEF Detail, SameDetail
  <2>2. Listed(app.streams)'
    BY <1>3, ZenonT(30) DEF Listed, StreamIds, SameLists
  <2>3. QED
    BY <1>3, <2>1, <2>2, ServerSame, Zenon DEF LoadedInv, SameLists, SameDetail
<1>8. ScreenInv'
  <2>1. phase' \in Tabs => app'.loading[phase']
    BY <1>3, <1>5, Zenon
  <2>2. ASSUME app'.active_tab = "Streams"
        PROVE  Highlighted(app)' /\ DrawnFrom(app)'
    <3>1. Highlighted(app) /\ DrawnFrom(app) /\ app.loading[phase]
      BY <1>1, <1>3, <2>2, Zenon DEF ConsoleInv, ScreenInv
    <3>2. DrawnFrom(app)'
      BY <1>3, <3>1, Zenon DEF DrawnFrom, SameLists
    <3>3. ASSUME screen'.stream # None
          PROVE  /\ ~app'.loading["Streams"]
                 /\ screen'.stream = app'.streams[app'.cursor["Streams"] + 1].stream_id
      <4>1. /\ ~app.loading["Streams"] /\ phase # "Streams"
            /\ screen.stream = app.streams[app.cursor["Streams"] + 1].stream_id
        BY <3>1, <3>3, Zenon DEF Highlighted
      <4>2. app'.streams = app.streams /\ app'.cursor = app.cursor
        BY <1>1, <1>3, <4>1, Zenon DEF SameLists
      <4>3. ~app'.loading["Streams"]
        BY <1>3, <4>1, Zenon DEF Tabs
      <4>4. QED
        BY <4>1, <4>2, <4>3, Zenon
    <3>4. QED
      BY <3>2, <3>3, Zenon DEF Highlighted
  <2>3. QED
    BY <2>1, <2>2, Zenon DEF ScreenInv
<1>9. AppOK(app)'
  BY <1>3, Zenon DEF AppOK
<1>10. app'.live_events = app.live_events
  BY <1>3, Zenon DEF SameLists
<1>11. QED
  BY <1>2, <1>6, <1>7, <1>8, <1>9, <1>10, InsideStep, Zenon

(* A fetch that fails, in which nothing is loaded.                         *)
LEMMA NothingLoaded ==
  ASSUME Counting, ConsoleInv, NEW i \in {1, 2, 3}, phase = TAB_ORDER[i],
         phase' = FetchFrom(i + 1), app' = [app EXCEPT !.loading[phase] = FALSE],
         UNCHANGED <<outcome, term, screen, task, chan, next, log>>
  PROVE  ConsoleInv'
<1>1. AppOK(app) /\ LoadedInv
  BY Zenon DEF ConsoleInv
<1>2. PICK a : a = app
  BY Zenon
<1>3. /\ Len(a.streams) <= Len(list_streams) /\ Len(a.global_events) <= Len(read_all)
      /\ Begins(a.detail_events, Detail(a)) /\ Listed(a.streams)
  BY <1>1, <1>2, Zenon DEF LoadedInv
<1>4. QED
  BY <1>1, <1>2, <1>3, LoadedStep, Zenon

LEMMA FetchStreamsStep ==
  ASSUME Counting, ConsoleInv, FetchStreams
  PROVE  ConsoleInv'
<1> DEFINE a == [app EXCEPT !.streams = list_streams]
<1>0. 1 \in {1, 2, 3}
  OBVIOUS
<1>1. /\ phase = TAB_ORDER[1] /\ phase' = FetchFrom(1 + 1)
      /\ \/ app' = [a EXCEPT !.loading[phase] = FALSE]
         \/ app' = [app EXCEPT !.loading[phase] = FALSE]
      /\ UNCHANGED <<outcome, term, screen, task, chan, next, log>>
  BY Zenon DEF FetchStreams, Loaded, subscription
<1>2. AppOK(app) /\ LoadedInv /\ log \in Seq(Nat)
  BY Zenon DEF ConsoleInv, TypeOK
<1>3. IsList(list_streams) /\ Len(app.streams) <= Len(list_streams)
  BY <1>2, ListStreams, Zenon DEF LoadedInv
<1>4. /\ AppOK(a) /\ a.streams = list_streams
      /\ a.global_events = app.global_events
      /\ a.live_events = app.live_events /\ SameDetail(app, a)
      /\ a.active_tab = app.active_tab /\ a.cursor = app.cursor
      /\ a.loading = app.loading
  <2>1. PICK s : s = list_streams
    BY Zenon
  <2>2. IsList(s) /\ Len(app.streams) <= Len(s) /\ a = [app EXCEPT !.streams = s]
    BY <1>3, <2>1, Zenon
  <2> HIDE DEF a
  <2>3. QED
    BY <1>2, <2>1, <2>2, StreamsOK
<1> HIDE DEF a
<1>5. /\ Len(list_streams) <= Len(list_streams) /\ Listed(a.streams)
      /\ Ids(app.streams) \subseteq Ids(a.streams)
  <2>1. Len(list_streams) <= Len(list_streams)
    BY <1>3, ListLen
  <2>2. QED
    BY <1>2, <1>4, <2>1, ListStreams, Zenon DEF LoadedInv, Listed
<1>6. Begins(a.detail_events, Detail(a))
  BY <1>2, <1>4, Zenon DEF LoadedInv, SameDetail, Detail
<1>7. Len(a.global_events) <= Len(read_all)
  BY <1>2, <1>4, Zenon DEF LoadedInv
<1>8. CASE app' = [app EXCEPT !.loading[phase] = FALSE]
  BY <1>0, <1>1, <1>8, NothingLoaded, Zenon
<1>9. CASE app' = [a EXCEPT !.loading[phase] = FALSE]
  BY <1>0, <1>1, <1>4, <1>5, <1>6, <1>7, <1>9, LoadedStep, Zenon
<1>10. QED
  BY <1>1, <1>8, <1>9, Zenon

LEMMA FetchDetailStep ==
  ASSUME Counting, ConsoleInv, FetchDetail
  PROVE  ConsoleInv'
<1> DEFINE a == [app EXCEPT !.detail_events = read_stream(app.detail_stream_id)]
<1>0. 2 \in {1, 2, 3}
  OBVIOUS
<1>1. /\ phase = TAB_ORDER[2] /\ phase' = FetchFrom(2 + 1)
      /\ \/ app.detail_stream_id # None /\ app' = [a EXCEPT !.loading[phase] = FALSE]
         \/ app' = [app EXCEPT !.loading[phase] = FALSE]
      /\ UNCHANGED <<outcome, term, screen, task, chan, next, log>>
  BY Zenon DEF FetchDetail, Loaded, subscription
<1>2. AppOK(app) /\ LoadedInv /\ log \in Seq(Nat)
  BY Zenon DEF ConsoleInv, TypeOK
<1>3. CASE app' = [app EXCEPT !.loading[phase] = FALSE]
  BY <1>0, <1>1, <1>3, NothingLoaded, Zenon
<1>4. CASE app.detail_stream_id # None /\ app' = [a EXCEPT !.loading[phase] = FALSE]
  <2>1. Detail(app) = read_stream(app.detail_stream_id)
    BY <1>4, Zenon DEF Detail
  <2>2. IsList(Detail(app)) /\ Len(app.detail_events) <= Len(Detail(app))
    BY <1>2, DetailIsList, Zenon DEF LoadedInv, Begins
  <2>3. /\ AppOK(a) /\ SameLists(app, a)
        /\ a.detail_events = Detail(app) /\ a.detail_stream_id = app.detail_stream_id
        /\ a.active_tab = app.active_tab /\ a.cursor = app.cursor
        /\ a.loading = app.loading
    <3>1. PICK s : s = Detail(app)
      BY Zenon
    <3>2. /\ IsList(s) /\ Len(app.detail_events) <= Len(s)
          /\ a = [app EXCEPT !.detail_events = s]
      BY <2>1, <2>2, <3>1, Zenon
    <3> HIDE DEF a
    <3>3. QED
      BY <1>2, <3>1, <3>2, DetailOK
  <2> HIDE DEF a
  <2>4. Detail(a) = Detail(app)
    BY <2>3, Zenon DEF Detail
  <2>5. Begins(a.detail_events, Detail(a))
    BY <2>2, <2>3, <2>4, BeginsItself, Zenon
  <2>6. Len(a.streams) <= Len(list_streams) /\ Len(a.global_events) <= Len(read_all)
    BY <1>2, <2>3, Zenon DEF LoadedInv, SameLists
  <2>7. /\ a.streams = app.streams /\ a.live_events = app.live_events
        /\ Listed(a.streams)
    BY <1>2, <2>3, Zenon DEF LoadedInv, SameLists
  <2>8. QED
    BY <1>0, <1>1, <1>4, <2>3, <2>5, <2>6, <2>7, LoadedStep, Zenon
<1>5. QED
  BY <1>1, <1>3, <1>4, Zenon

LEMMA FetchGlobalStep ==
  ASSUME Counting, ConsoleInv, FetchGlobal
  PROVE  ConsoleInv'
<1> DEFINE a == [app EXCEPT !.global_events = read_all]
<1>0. 3 \in {1, 2, 3}
  OBVIOUS
<1>1. /\ phase = TAB_ORDER[3] /\ phase' = FetchFrom(3 + 1)
      /\ \/ app' = [a EXCEPT !.loading[phase] = FALSE]
         \/ app' = [app EXCEPT !.loading[phase] = FALSE]
      /\ UNCHANGED <<outcome, term, screen, task, chan, next, log>>
  BY Zenon DEF FetchGlobal, Loaded, subscription
<1>2. AppOK(app) /\ LoadedInv /\ log \in Seq(Nat)
  BY Zenon DEF ConsoleInv, TypeOK
<1>3. read_all \in Seq(Nat) /\ Len(app.global_events) <= Len(read_all)
  BY <1>2, ReadAll, Zenon DEF LoadedInv
<1>4. /\ AppOK(a) /\ a.global_events = read_all /\ a.streams = app.streams
      /\ a.live_events = app.live_events /\ SameDetail(app, a)
      /\ a.active_tab = app.active_tab /\ a.cursor = app.cursor
      /\ a.loading = app.loading
  BY <1>2, <1>3, GlobalOK
<1> HIDE DEF a
<1>5. Len(read_all) <= Len(read_all)
  BY <1>3
<1>6. Begins(a.detail_events, Detail(a))
  BY <1>2, <1>4, Zenon DEF LoadedInv, SameDetail, Detail
<1>7. Len(a.streams) <= Len(list_streams) /\ Listed(a.streams)
  BY <1>2, <1>4, Zenon DEF LoadedInv
<1>8. CASE app' = [app EXCEPT !.loading[phase] = FALSE]
  BY <1>0, <1>1, <1>8, NothingLoaded, Zenon
<1>9. CASE app' = [a EXCEPT !.loading[phase] = FALSE]
  BY <1>0, <1>1, <1>4, <1>5, <1>6, <1>7, <1>9, LoadedStep, Zenon
<1>10. QED
  BY <1>1, <1>8, <1>9, Zenon

-----------------------------------------------------------------------------
(* The channel and the live tail.                                          *)

Messages == [kind : {"Event", "CaughtUp", "Error"}, position : Int]

LEMMA HoldsMeans ==
  ASSUME NEW ch, NEW from, NEW to
  PROVE  Holds(ch, from, to) <=>
           /\ \A i \in 1..Len(ch) :
                ch[i].kind = "Event" => ch[i].position \in from..(to - 1)
           /\ \A p \in from..(to - 1) :
                \E i \in 1..Len(ch) : ch[i].kind = "Event" /\ ch[i].position = p
           /\ \A i, j \in 1..Len(ch) :
                ch[i].kind = "Event" /\ ch[j].kind = "Event" /\ i < j =>
                  ch[i].position < ch[j].position
<1> DEFINE held == {i \in 1..Len(ch) : ch[i].kind = "Event"}
           set == {ch[i].position : i \in held}
<1>1. Holds(ch, from, to) <=>
        /\ set = from..(to - 1)
        /\ \A i, j \in held : i < j => ch[i].position < ch[j].position
  BY Zenon DEF Holds
<1>2. \A p : p \in set <=>
        \E i \in 1..Len(ch) : ch[i].kind = "Event" /\ ch[i].position = p
  BY Zenon
<1>3. set = from..(to - 1) <=>
        /\ \A i \in 1..Len(ch) :
              ch[i].kind = "Event" => ch[i].position \in from..(to - 1)
        /\ \A p \in from..(to - 1) :
              \E i \in 1..Len(ch) : ch[i].kind = "Event" /\ ch[i].position = p
  <2>1. ASSUME set = from..(to - 1)
        PROVE  /\ \A i \in 1..Len(ch) :
                    ch[i].kind = "Event" => ch[i].position \in from..(to - 1)
               /\ \A p \in from..(to - 1) :
                    \E i \in 1..Len(ch) : ch[i].kind = "Event" /\ ch[i].position = p
    <3>1. \A p : p \in set <=> p \in from..(to - 1)
      BY <2>1, Zenon
    <3> HIDE DEF set
    <3>2. QED
      BY <1>2, <3>1, Zenon
  <2>2. ASSUME /\ \A i \in 1..Len(ch) :
                    ch[i].kind = "Event" => ch[i].position \in from..(to - 1)
               /\ \A p \in from..(to - 1) :
                    \E i \in 1..Len(ch) : ch[i].kind = "Event" /\ ch[i].position = p
        PROVE  set = from..(to - 1)
    <3>1. \A p : p \in set <=> p \in from..(to - 1)
      <4> HIDE DEF set
      <4>1. QED
        BY <1>2, <2>2, Zenon
    <3> HIDE DEF set
    <3>2. QED
      BY <3>1, Zenon
  <2>3. QED
    BY <2>1, <2>2, Zenon
<1>4. (\A i, j \in held : i < j => ch[i].position < ch[j].position) <=>
        \A i, j \in 1..Len(ch) :
          ch[i].kind = "Event" /\ ch[j].kind = "Event" /\ i < j =>
            ch[i].position < ch[j].position
  BY Zenon
<1> HIDE DEF held, set
<1>5. QED
  BY <1>1, <1>3, <1>4, Zenon

LEMMA Behind ==
  ASSUME NEW ch \in Seq(Messages), ch # <<>>
  PROVE  /\ Len(ch) \in Nat /\ Len(Tail(ch)) = Len(ch) - 1 /\ Len(ch) > 0
         /\ Tail(ch) \in Seq(Messages) /\ Head(ch) = ch[1] /\ Head(ch) \in Messages
         /\ \A i \in 1..Len(Tail(ch)) : i + 1 \in 1..Len(ch) /\ Tail(ch)[i] = ch[i + 1]
         /\ \A i \in 1..Len(ch) :
              i # 1 => i - 1 \in 1..Len(Tail(ch)) /\ Tail(ch)[i - 1] = ch[i]
OBVIOUS

LEMMA TakeOther ==
  ASSUME NEW ch \in Seq(Messages), ch # <<>>, NEW t \in Nat, NEW n \in Nat,
         Holds(ch, t, n), Head(ch).kind # "Event"
  PROVE  Holds(Tail(ch), t, n)
<1>a. \A i \in 1..Len(ch) :
        ch[i].kind = "Event" => ch[i].position \in t..(n - 1)
  BY HoldsMeans, Zenon
<1>b. \A p \in t..(n - 1) :
        \E i \in 1..Len(ch) : ch[i].kind = "Event" /\ ch[i].position = p
  BY HoldsMeans, Zenon
<1>c. \A i, j \in 1..Len(ch) :
        ch[i].kind = "Event" /\ ch[j].kind = "Event" /\ i < j =>
          ch[i].position < ch[j].position
  BY HoldsMeans, Zenon
<1> DEFINE T == Tail(ch)
<1>1. \A i \in 1..Len(T) : i + 1 \in 1..Len(ch) /\ T[i] = ch[i + 1]
  BY Behind, Zenon
<1>2. \A i \in 1..Len(ch) : i # 1 => i - 1 \in 1..Len(T) /\ T[i - 1] = ch[i]
  BY Behind, Zenon
<1>3. ch[1].kind # "Event"
  BY Behind, Zenon
<1>4. Len(T) \in Nat
  BY Behind
<1> HIDE DEF T
<1>5. \A i \in 1..Len(T) : T[i].kind = "Event" => T[i].position \in t..(n - 1)
  BY <1>1, <1>a, Zenon
<1>6. ASSUME NEW p \in t..(n - 1)
      PROVE  \E i \in 1..Len(T) : T[i].kind = "Event" /\ T[i].position = p
  <2>1. PICK i \in 1..Len(ch) : ch[i].kind = "Event" /\ ch[i].position = p
    BY <1>b, Zenon
  <2>2. i # 1
    BY <1>3, <2>1, Zenon
  <2>3. QED
    BY <1>2, <2>1, <2>2, Zenon
<1>7. \A i, j \in 1..Len(T) : i < j => i + 1 < j + 1
  BY <1>4
<1>8. \A i, j \in 1..Len(T) :
        T[i].kind = "Event" /\ T[j].kind = "Event" /\ i < j =>
          T[i].position < T[j].position
  BY <1>1, <1>7, <1>c, Zenon
<1>9. Holds(T, t, n)
  BY <1>5, <1>6, <1>8, HoldsMeans, Zenon
<1>10. QED
  BY <1>9, Zenon DEF T

(* The first event in the channel is the next one.                         *)
LEMMA TakeEvent ==
  ASSUME NEW ch \in Seq(Messages), ch # <<>>, NEW n \in Nat, NEW t \in 0..n,
         Holds(ch, t, n), Head(ch).kind = "Event"
  PROVE  /\ Head(ch).position = t /\ t + 1 \in 0..n
         /\ Holds(Tail(ch), t + 1, n)
<1>a. \A i \in 1..Len(ch) :
        ch[i].kind = "Event" => ch[i].position \in t..(n - 1)
  BY HoldsMeans, Zenon
<1>b. \A p \in t..(n - 1) :
        \E i \in 1..Len(ch) : ch[i].kind = "Event" /\ ch[i].position = p
  BY HoldsMeans, Zenon
<1>c. \A i, j \in 1..Len(ch) :
        ch[i].kind = "Event" /\ ch[j].kind = "Event" /\ i < j =>
          ch[i].position < ch[j].position
  BY HoldsMeans, Zenon
<1> DEFINE T == Tail(ch)
<1>1. \A i \in 1..Len(T) : i + 1 \in 1..Len(ch) /\ T[i] = ch[i + 1]
  BY Behind, Zenon
<1>2. \A i \in 1..Len(ch) : i # 1 => i - 1 \in 1..Len(T) /\ T[i - 1] = ch[i]
  BY Behind, Zenon
<1>3. ch[1].kind = "Event" /\ Head(ch) = ch[1]
  BY Behind, Zenon
<1>4. Len(T) \in Nat /\ 1 \in 1..Len(ch) /\ Len(ch) \in Nat
  BY Behind
<1> HIDE DEF T
<1>5. ch[1].position \in t..(n - 1)
  BY <1>3, <1>4, <1>a, Zenon
<1>6. t \in t..(n - 1) /\ t + 1 \in 0..n
  BY <1>5
<1>7. ch[1].position = t
  <2>1. PICK i \in 1..Len(ch) : ch[i].kind = "Event" /\ ch[i].position = t
    BY <1>6, <1>b, Zenon
  <2>2. CASE i = 1
    BY <2>1, <2>2, Zenon
  <2>3. CASE i # 1
    <3>1. 1 < i
      BY <1>4, <2>3
    <3>2. ch[1].position < t
      BY <1>3, <1>4, <2>1, <3>1, <1>c, Zenon
    <3>3. QED
      BY <1>5, <3>2
  <2>4. QED
    BY <2>2, <2>3, Zenon
<1>8. ASSUME NEW i \in 1..Len(T), T[i].kind = "Event"
      PROVE  T[i].position \in (t + 1)..(n - 1)
  <2>1. i + 1 \in 1..Len(ch) /\ T[i] = ch[i + 1] /\ 1 < i + 1
    <3>1. 1 < i + 1
      BY <1>4
    <3>2. QED
      BY <1>1, <3>1, Zenon
  <2>2. T[i].position \in t..(n - 1)
    BY <1>8, <2>1, <1>a, Zenon
  <2>3. t < T[i].position
    BY <1>3, <1>4, <1>7, <1>8, <2>1, <1>c, Zenon
  <2>4. QED
    BY <2>2, <2>3
<1>9. ASSUME NEW p \in (t + 1)..(n - 1)
      PROVE  \E i \in 1..Len(T) : T[i].kind = "Event" /\ T[i].position = p
  <2>1. p \in t..(n - 1) /\ p # t
    OBVIOUS
  <2>2. PICK i \in 1..Len(ch) : ch[i].kind = "Event" /\ ch[i].position = p
    BY <2>1, <1>b, Zenon
  <2>3. i # 1
    BY <1>7, <2>1, <2>2, Zenon
  <2>4. QED
    BY <1>2, <2>2, <2>3, Zenon
<1>10. \A i, j \in 1..Len(T) : i < j => i + 1 < j + 1
  BY <1>4
<1>11. \A i, j \in 1..Len(T) :
         T[i].kind = "Event" /\ T[j].kind = "Event" /\ i < j =>
           T[i].position < T[j].position
  BY <1>1, <1>10, <1>c, Zenon
<1>12. Holds(T, t + 1, n)
  BY <1>8, <1>9, <1>11, HoldsMeans, Zenon
<1>13. QED
  BY <1>3, <1>6, <1>7, <1>12, Zenon DEF T

LEMMA OneMore ==
  ASSUME NEW t \in Nat, NEW n \in Nat, t <= n
  PROVE  /\ \A p \in t..(n - 1) : p \in t..((n + 1) - 1) /\ p < n
         /\ \A p \in t..((n + 1) - 1) : p \in t..(n - 1) \/ p = n
         /\ n \in t..((n + 1) - 1)
OBVIOUS

LEMMA SendEvent ==
  ASSUME NEW ch \in Seq(Messages), NEW t \in Nat, NEW n \in Nat, t <= n,
         Holds(ch, t, n)
  PROVE  Holds(Append(ch, Message("Event", n)), t, n + 1)
<1>a. \A i \in 1..Len(ch) :
        ch[i].kind = "Event" => ch[i].position \in t..(n - 1)
  BY HoldsMeans, Zenon
<1>b. \A p \in t..(n - 1) :
        \E i \in 1..Len(ch) : ch[i].kind = "Event" /\ ch[i].position = p
  BY HoldsMeans, Zenon
<1>c. \A i, j \in 1..Len(ch) :
        ch[i].kind = "Event" /\ ch[j].kind = "Event" /\ i < j =>
          ch[i].position < ch[j].position
  BY HoldsMeans, Zenon
<1> DEFINE A == Append(ch, Message("Event", n))
           last == Len(ch) + 1
<1>1. /\ Len(A) = last /\ A[last] = Message("Event", n) /\ last \in 1..last
      /\ \A i \in 1..Len(ch) : A[i] = ch[i]
      /\ Len(ch) \in Nat
  OBVIOUS
<1> HIDE DEF A, last
<1>2. A[last].kind = "Event" /\ A[last].position = n
  <2>1. Message("Event", n).kind = "Event" /\ Message("Event", n).position = n
    BY DEF Message
  <2>2. QED
    BY <1>1, <2>1, Zenon
<1>3. \A i \in 1..last : i \in 1..Len(ch) \/ i = last
  BY <1>1 DEF last
<1>4. /\ \A p \in t..(n - 1) : p \in t..((n + 1) - 1) /\ p < n
      /\ \A p \in t..((n + 1) - 1) : p \in t..(n - 1) \/ p = n
      /\ n \in t..((n + 1) - 1)
  BY OneMore, Zenon
<1>5. \A i \in 1..last :
        A[i].kind = "Event" => A[i].position \in t..((n + 1) - 1)
  BY <1>1, <1>2, <1>3, <1>4, <1>a, Zenon
<1>6. ASSUME NEW p \in t..((n + 1) - 1)
      PROVE  \E i \in 1..last : A[i].kind = "Event" /\ A[i].position = p
  <2>1. CASE p = n
    BY <1>1, <1>2, <2>1, Zenon
  <2>2. CASE p \in t..(n - 1)
    <3>1. PICK i \in 1..Len(ch) : ch[i].kind = "Event" /\ ch[i].position = p
      BY <1>b, <2>2, Zenon
    <3>2. i \in 1..last
      BY <1>1 DEF last
    <3>3. QED
      BY <1>1, <3>1, <3>2, Zenon
  <2>3. QED
    BY <1>4, <2>1, <2>2, Zenon
<1>7. ASSUME NEW i \in 1..last, NEW j \in 1..last, i < j,
             A[i].kind = "Event", A[j].kind = "Event"
      PROVE  A[i].position < A[j].position
  <2>1. i \in 1..Len(ch)
    BY <1>1, <1>7 DEF last
  <2>2. CASE j = last
    BY <1>1, <1>2, <1>4, <1>7, <1>a, <2>1, <2>2, Zenon
  <2>3. CASE j \in 1..Len(ch)
    BY <1>1, <1>7, <1>c, <2>1, <2>3, Zenon
  <2>4. QED
    BY <1>3, <2>2, <2>3, Zenon
<1>8. Holds(A, t, n + 1)
  BY <1>1, <1>5, <1>6, <1>7, HoldsMeans, Zenon
<1>9. QED
  BY <1>8, Zenon DEF A

LEMMA SendOther ==
  ASSUME NEW ch \in Seq(Messages), NEW t \in Nat, NEW n \in Nat,
         Holds(ch, t, n), NEW m, m.kind # "Event"
  PROVE  Holds(Append(ch, m), t, n)
<1>a. \A i \in 1..Len(ch) :
        ch[i].kind = "Event" => ch[i].position \in t..(n - 1)
  BY HoldsMeans, Zenon
<1>b. \A p \in t..(n - 1) :
        \E i \in 1..Len(ch) : ch[i].kind = "Event" /\ ch[i].position = p
  BY HoldsMeans, Zenon
<1>c. \A i, j \in 1..Len(ch) :
        ch[i].kind = "Event" /\ ch[j].kind = "Event" /\ i < j =>
          ch[i].position < ch[j].position
  BY HoldsMeans, Zenon
<1> DEFINE A == Append(ch, m)
           last == Len(ch) + 1
<1>1. /\ Len(A) = last /\ A[last] = m
      /\ \A i \in 1..Len(ch) : A[i] = ch[i] /\ i \in 1..last
      /\ Len(ch) \in Nat
  OBVIOUS
<1> HIDE DEF A, last
<1>2. \A i \in 1..last : A[i].kind = "Event" => i \in 1..Len(ch)
  <2>1. \A i \in 1..last : i \in 1..Len(ch) \/ i = last
    BY <1>1 DEF last
  <2>2. QED
    BY <1>1, <2>1, Zenon
<1>3. \A i \in 1..last : A[i].kind = "Event" => A[i].position \in t..(n - 1)
  BY <1>1, <1>2, <1>a, Zenon
<1>4. \A p \in t..(n - 1) :
        \E i \in 1..last : A[i].kind = "Event" /\ A[i].position = p
  BY <1>1, <1>b, Zenon
<1>5. \A i, j \in 1..last :
        A[i].kind = "Event" /\ A[j].kind = "Event" /\ i < j =>
          A[i].position < A[j].position
  BY <1>1, <1>2, <1>c, Zenon
<1>6. Holds(A, t, n)
  BY <1>1, <1>3, <1>4, <1>5, HoldsMeans, Zenon
<1>7. QED
  BY <1>6, Zenon DEF A

(* One event more, and the oldest goes if there is no room for it.         *)
LEMMA NewestPushed ==
  ASSUME NEW t \in Nat
  PROVE  LET live == Newest(t)
         IN  Append(IF Len(live) >= LIVE_TAIL_CAPACITY THEN Tail(live) ELSE live, t)
               = Newest(t + 1)
<1> DEFINE live == Newest(t)
           cap == LIVE_TAIL_CAPACITY
<1>1. cap \in Nat \ {0}
  BY CapacitiesAssumption, Zenon
<1>2. CASE t < cap
  <2>1. live = [k \in 1..t |-> k - 1]
    BY <1>1, <1>2 DEF Newest, Smaller, saturating_sub
  <2>2. Newest(t + 1) = [k \in 1..(t + 1) |-> k - 1]
    <3>1. Smaller(t + 1, cap) = t + 1 /\ saturating_sub(t + 1, cap) = 0
      BY <1>1, <1>2 DEF Smaller, saturating_sub
    <3>2. QED
      BY <3>1 DEF Newest
  <2>3. live \in Seq(Nat) /\ Len(live) = t
    <3> HIDE DEF live
    <3>1. \A k \in 1..t : k - 1 \in Nat
      OBVIOUS
    <3>2. QED
      BY <2>1, <3>1
  <2>4. Append(live, t) = [k \in 1..(t + 1) |-> k - 1]
    <3> HIDE DEF live
    <3>1. /\ Append(live, t) \in Seq(Nat) /\ Len(Append(live, t)) = t + 1
          /\ \A k \in 1..(t + 1) :
               Append(live, t)[k] = IF k = t + 1 THEN t ELSE live[k]
      BY <2>3
    <3>2. \A k \in 1..(t + 1) : Append(live, t)[k] = k - 1
      BY <2>1, <3>1
    <3> DEFINE f == [k \in 1..(t + 1) |-> k - 1]
    <3>3. f \in [1..(t + 1) -> Nat] /\ \A k \in 1..(t + 1) : f[k] = k - 1
      OBVIOUS
    <3> HIDE DEF f
    <3>4. PICK s : s = Append(live, t)
      BY Zenon
    <3>5. /\ s \in Seq(Nat) /\ Len(s) = t + 1
          /\ \A k \in 1..(t + 1) : s[k] = f[k]
      BY <3>1, <3>2, <3>3, <3>4, Zenon
    <3>6. s = f
      BY <3>3, <3>5, SequenceIs
    <3>7. QED
      BY <3>4, <3>6, Zenon DEF f
  <2>5. ~ (Len(live) >= cap)
    <3> HIDE DEF live
    <3>1. QED
      BY <1>1, <1>2, <2>3
  <2>6. QED
    BY <2>2, <2>4, <2>5, Zenon
<1>3. CASE t >= cap
  <2>1. live = [k \in 1..cap |-> t - cap + k - 1]
    <3>1. Smaller(t, cap) = cap /\ saturating_sub(t, cap) = t - cap
      BY <1>1, <1>3 DEF Smaller, saturating_sub
    <3>2. QED
      BY <3>1 DEF Newest
  <2>2. Newest(t + 1) = [k \in 1..cap |-> (t + 1) - cap + k - 1]
    <3>1. Smaller(t + 1, cap) = cap /\ saturating_sub(t + 1, cap) = (t + 1) - cap
      BY <1>1, <1>3 DEF Smaller, saturating_sub
    <3>2. QED
      BY <3>1 DEF Newest
  <2> HIDE DEF live, cap
  <2>3. live \in Seq(Int) /\ Len(live) = cap /\ live # <<>>
    <3>1. \A k \in 1..cap : t - cap + k - 1 \in Int
      BY <1>1
    <3>2. live \in Seq(Int) /\ Len(live) = cap
      BY <1>1, <2>1, <3>1
    <3>3. QED
      BY <1>1, <3>2
  <2>4. /\ Tail(live) \in Seq(Int) /\ Len(Tail(live)) = cap - 1
        /\ \A k \in 1..(cap - 1) : Tail(live)[k] = live[k + 1]
    BY <2>3
  <2>5. /\ Append(Tail(live), t) \in Seq(Int) /\ Len(Append(Tail(live), t)) = cap
        /\ Append(Tail(live), t)[cap] = t
        /\ \A k \in 1..(cap - 1) : Append(Tail(live), t)[k] = Tail(live)[k]
    BY <1>1, <2>4
  <2>6. ASSUME NEW k \in 1..cap
        PROVE  Append(Tail(live), t)[k] = (t + 1) - cap + k - 1
    <3>1. CASE k = cap
      BY <1>1, <2>5, <3>1
    <3>2. CASE k # cap
      <4>1. k \in 1..(cap - 1) /\ k + 1 \in 1..cap
        BY <1>1, <3>2
      <4>2. Append(Tail(live), t)[k] = live[k + 1]
        BY <2>4, <2>5, <4>1, Zenon
      <4>3. live[k + 1] = t - cap + (k + 1) - 1
        BY <2>1, <4>1, Zenon
      <4>4. t - cap + (k + 1) - 1 = (t + 1) - cap + k - 1
        BY <1>1
      <4>5. QED
        BY <4>2, <4>3, <4>4, Zenon
    <3>3. QED
      BY <3>1, <3>2, Zenon
  <2>7. Append(Tail(live), t) = [k \in 1..cap |-> (t + 1) - cap + k - 1]
    <3> DEFINE f == [k \in 1..cap |-> (t + 1) - cap + k - 1]
    <3>1. /\ f \in [1..cap -> Int]
          /\ \A k \in 1..cap : f[k] = (t + 1) - cap + k - 1
      BY <1>1
    <3> HIDE DEF f
    <3>2. PICK s : s = Append(Tail(live), t)
      BY Zenon
    <3>3. /\ s \in Seq(Int) /\ Len(s) = cap
          /\ \A k \in 1..cap : s[k] = f[k]
      BY <2>5, <2>6, <3>1, <3>2, Zenon
    <3>4. s = f
      BY <3>1, <3>3, SequenceIs
    <3>5. QED
      BY <3>2, <3>4, Zenon DEF f
  <2>8. Len(live) >= cap
    BY <1>1, <2>3
  <2>9. QED
    BY <2>2, <2>7, <2>8, Zenon DEF live, cap
<1>4. t < cap \/ t >= cap
  BY <1>1
<1>5. QED
  BY <1>2, <1>3, <1>4, Zenon

-----------------------------------------------------------------------------
(* The rest of the loop.                                                   *)

(* A message that leaves the rest of the channel holding the rest.         *)
LEMMA TakeStep ==
  ASSUME Counting, ConsoleInv, phase = "drain", phase' = "drain", AppOK(app'),
         app'.streams = app.streams, app'.global_events = app.global_events,
         SameDetail(app, app'), app'.active_tab = app.active_tab,
         app'.cursor = app.cursor, app'.loading = app.loading,
         chan' \in Seq(Messages),
         NEW t \in 0..next, app'.live_events = Newest(t), Holds(chan', t, next),
         UNCHANGED <<outcome, term, screen, task, next, log>>
  PROVE  ConsoleInv'
<1>1. phase' # "exited" /\ phase' \in InLoop /\ phase \in InLoop /\ phase' \notin Starting
      /\ phase \notin Tabs /\ phase # "exited"
  BY DEF InLoop, Starting, Tabs
<1>2. TypeOK' /\ AppOK(app)'
  BY Zenon DEF ConsoleInv, TypeOK, Messages, AppOK
<1>3. LoadedInv'
  BY LoadedFrame, Zenon DEF ConsoleInv
<1>4. LiveTailFaithful'
  BY Zenon DEF LiveTailFaithful
<1>5. ScreenInv'
  BY <1>1, Zenon DEF ConsoleInv, ScreenInv, Highlighted, DrawnFrom
<1>6. outcome = "none"
  BY <1>1, Zenon DEF ConsoleInv, OutcomeInv
<1>7. StartInv' /\ OutcomeInv' /\ TerminalRestored'
  BY <1>1, <1>6, Zenon DEF ConsoleInv, StartInv, OutcomeInv, TerminalRestored
<1>8. QED
  BY <1>2, <1>3, <1>4, <1>5, <1>7, Zenon DEF ConsoleInv

LEMMA CaughtUpOK ==
  ASSUME NEW a, AppOK(a), NEW b, b = [a EXCEPT !.live_caught_up = TRUE]
  PROVE  /\ AppOK(b) /\ SameLists(a, b) /\ SameDetail(a, b)
         /\ b.active_tab = a.active_tab /\ b.cursor = a.cursor
         /\ b.loading = a.loading
<1>1. DOMAIN a = DOMAIN AppState_new
  BY Zenon DEF AppOK
<1>2. /\ DOMAIN b = DOMAIN a /\ SameLists(a, b) /\ SameDetail(a, b)
      /\ b.active_tab = a.active_tab /\ b.cursor = a.cursor
      /\ b.loading = a.loading
  BY <1>1 DEF SameLists, SameDetail, AppState_new
<1>3. AppOK(b)
  BY <1>1, <1>2, Zenon DEF AppOK, SameLists, SameDetail
<1>4. QED
  BY <1>2, <1>3, Zenon

LEMMA DrainStep ==
  ASSUME Counting, ConsoleInv, Drain
  PROVE  ConsoleInv'
<1>1. phase = "drain" /\ UNCHANGED <<outcome, term, screen, task, next, log>>
  BY Zenon DEF Drain
<1>2. phase \in InLoop /\ "key" \in InLoop /\ phase \notin Tabs /\ "key" \notin Tabs
  BY <1>1 DEF InLoop, Tabs
<1>3. CASE chan = <<>>
  <2>1. phase' = "key" /\ UNCHANGED <<app, chan>>
    BY <1>3, Zenon DEF Drain
  <2>2. AppOK(app)' /\ ScreenInv'
    BY <1>1, <1>2, <2>1, Zenon DEF ConsoleInv, AppOK, ScreenInv, Highlighted, DrawnFrom
  <2>3. LoadedInv'
    BY <1>1, <2>1, LoadedFrame, Zenon DEF ConsoleInv, SameDetail
  <2>4. QED
    BY <1>1, <1>2, <2>1, <2>2, <2>3, InsideStep, Zenon
<1>4. CASE chan # <<>>
  <2>1. phase' = phase /\ chan' = Tail(chan)
    BY <1>4, Zenon DEF Drain
  <2>2. AppOK(app) /\ chan \in Seq(Messages) /\ next \in Nat
    BY Zenon DEF ConsoleInv, TypeOK, Messages
  <2>3. chan' \in Seq(Messages) /\ Head(chan) \in Messages
    BY <1>4, <2>1, <2>2, Behind, Zenon
  <2>4. PICK t \in 0..next : app.live_events = Newest(t) /\ Holds(chan, t, next)
    BY <1>2, Zenon DEF ConsoleInv, LiveTailFaithful
  <2>5. t \in Nat
    BY <2>2
  <2>6. CASE Head(chan).kind = "Event"
    <3>1. app' = push_live_event(app, Head(chan).position)
      BY <1>4, <2>6, Zenon DEF Drain
    <3>2. /\ Head(chan).position = t /\ t + 1 \in 0..next
          /\ Holds(Tail(chan), t + 1, next)
      BY <1>4, <2>2, <2>4, <2>6, TakeEvent, Zenon
    <3>3. app' = push_live_event(app, t)
      BY <3>1, <3>2, Zenon
    <3>4. /\ AppOK(app')
          /\ app'.streams = app.streams /\ app'.global_events = app.global_events
          /\ SameDetail(app, app') /\ app'.active_tab = app.active_tab
          /\ app'.cursor = app.cursor /\ app'.loading = app.loading
          /\ app'.live_events =
               Append(IF Len(app.live_events) >= LIVE_TAIL_CAPACITY
                      THEN Tail(app.live_events) ELSE app.live_events, t)
      BY <2>2, <2>5, <3>3, PushOK, Zenon
    <3>5. app'.live_events = Newest(t + 1)
      BY <2>4, <2>5, <3>4, NewestPushed, Zenon
    <3>6. QED
      BY <1>1, <2>1, <2>3, <3>2, <3>4, <3>5, TakeStep, Zenon
  <2>7. CASE Head(chan).kind # "Event"
    <3>1. app' = app \/ app' = [app EXCEPT !.live_caught_up = TRUE]
      BY <1>4, <2>7 DEF Drain
    <3>2. /\ AppOK(app') /\ SameLists(app, app') /\ SameDetail(app, app')
          /\ app'.active_tab = app.active_tab
          /\ app'.cursor = app.cursor /\ app'.loading = app.loading
      <4>1. CASE app' = app
        BY <2>2, <4>1, Zenon DEF SameLists, SameDetail
      <4>2. CASE app' = [app EXCEPT !.live_caught_up = TRUE]
        BY <2>2, <4>2, CaughtUpOK, Zenon
      <4>3. QED
        BY <3>1, <4>1, <4>2, Zenon
    <3>3. Holds(Tail(chan), t, next)
      BY <1>4, <2>2, <2>4, <2>5, <2>7, TakeOther, Zenon
    <3>4. app'.streams = app.streams /\ app'.global_events = app.global_events
          /\ app'.live_events = Newest(t)
      BY <2>4, <3>2, Zenon DEF SameLists
    <3>5. QED
      BY <1>1, <2>1, <2>3, <3>2, <3>3, <3>4, TakeStep, Zenon
  <2>8. QED
    BY <2>6, <2>7, Zenon
<1>5. QED
  BY <1>3, <1>4, Zenon

LEMMA PollKeyStep ==
  ASSUME Counting, ConsoleInv, PollKey
  PROVE  ConsoleInv'
<1>1. phase = "key" /\ UNCHANGED <<outcome, term, task, chan, next, log>>
  BY Zenon DEF PollKey, subscription
<1>2. /\ phase \in InLoop /\ "render" \in InLoop
      /\ "render" \notin Tabs \cup {"drain", "key"}
  BY <1>1 DEF InLoop, Tabs
<1>3. \/ Return("restore_ok") \/ Return("restore_error")
      \/ phase' = "render" /\ app' = app
      \/ \E k \in Keys : /\ ~handle_key_event(app, k).should_quit
                         /\ app' = handle_key_event(app, k) /\ phase' = "render"
  BY Zenon DEF PollKey
<1>4. ASSUME phase' = "render", Calm(app, app')
      PROVE  ConsoleInv'
  <2>1. ScreenInv'
    BY <1>2, <1>4, Zenon DEF ScreenInv
  <2>2. AppOK(app)' /\ app'.live_events = app.live_events
    BY <1>4, Zenon DEF Calm, SameLists, AppOK
  <2>3. LoadedInv'
    BY <1>1, <1>4, LoadedFrame, Zenon DEF ConsoleInv, Calm, SameLists
  <2>4. QED
    BY <1>1, <1>2, <1>4, <2>1, <2>2, <2>3, InsideStep, Zenon
<1>5. AppOK(app)
  BY Zenon DEF ConsoleInv
<1>6. CASE \E k \in Keys : /\ ~handle_key_event(app, k).should_quit
                          /\ app' = handle_key_event(app, k) /\ phase' = "render"
  BY <1>4, <1>5, <1>6, KeyCalm, Zenon
<1>7. CASE phase' = "render" /\ app' = app
  BY <1>4, <1>5, <1>7, StayCalm, Zenon
<1>8. CASE Return("restore_ok") \/ Return("restore_error")
  BY <1>1, <1>2, <1>8, ReturnStep, Zenon
<1>9. QED
  BY <1>3, <1>6, <1>7, <1>8, Zenon

LEMMA RestoreStep ==
  ASSUME Counting, ConsoleInv, Restore
  PROVE  ConsoleInv'
<1>1. phase' = "exited" /\ UNCHANGED <<app, chan, next, log>>
  BY Zenon DEF Restore, Exit, subscription
<1>2. term' # Restored => outcome' \in {"init", "restore"}
  BY Zenon DEF Restore, Exit, restore_terminal
<1>3. "exited" \notin Starting
  BY DEF Starting
<1>4. QED
  BY <1>1, <1>2, <1>3, OutsideStep, Zenon

-----------------------------------------------------------------------------
(* The subscription task and the server.                                   *)

LEMMA TaskStep ==
  ASSUME Counting, ConsoleInv, phase # "exited", task \in {"subscribing", "reading"},
         UNCHANGED <<phase, outcome, app, screen, log>>,
         task' = "panicked" \/ (UNCHANGED term /\ task' # "panicked"),
         chan' \in Seq(Messages), next' \in Nat, next <= next',
         \A t \in 0..next : Holds(chan, t, next) => Holds(chan', t, next')
  PROVE  ConsoleInv'
<1>1. "none" \notin {"subscribing", "reading"} /\ task # "panicked"
  OBVIOUS
<1>2. phase \notin Starting /\ outcome = "none"
  BY <1>1, Zenon DEF ConsoleInv, StartInv, OutcomeInv
<1>3. TypeOK' /\ AppOK(app)'
  BY Zenon DEF ConsoleInv, TypeOK, Messages, AppOK
<1>4. LoadedInv'
  BY LoadedFrame, Zenon DEF ConsoleInv, SameDetail
<1>5. ScreenInv'
  BY Zenon DEF ConsoleInv, ScreenInv, Highlighted, DrawnFrom
<1>6. LiveTailFaithful'
  <2>1. PICK t \in 0..next :
          /\ phase \in InLoop => app.live_events = Newest(t)
          /\ Holds(chan, t, next)
    BY Zenon DEF ConsoleInv, LiveTailFaithful
  <2>2. next \in Nat
    BY Zenon DEF ConsoleInv, TypeOK
  <2>3. t \in 0..next'
    BY <2>2
  <2>4. QED
    BY <2>1, <2>3, Zenon DEF LiveTailFaithful
<1>7. StartInv' /\ OutcomeInv' /\ TerminalRestored'
  BY <1>1, <1>2, Zenon DEF ConsoleInv, StartInv, OutcomeInv, TerminalRestored
<1>8. QED
  BY <1>3, <1>4, <1>5, <1>6, <1>7, Zenon DEF ConsoleInv

LEMMA SendOtherStep ==
  ASSUME Counting, ConsoleInv, phase # "exited", task \in {"subscribing", "reading"},
         NEW kind \in {"CaughtUp", "Error"}, chan' = Append(chan, Message(kind, None)),
         UNCHANGED <<phase, outcome, app, screen, log, term, next>>,
         task' # "panicked"
  PROVE  ConsoleInv'
<1>1. chan \in Seq(Messages) /\ next \in Nat
  BY Zenon DEF ConsoleInv, TypeOK, Messages
<1>2. Message(kind, None) \in Messages /\ Message(kind, None).kind # "Event"
  BY DEF Message, Messages, None
<1>3. chan' \in Seq(Messages)
  BY <1>1, <1>2
<1>4. next' \in Nat /\ next <= next'
  BY <1>1
<1>5. \A t \in 0..next : t \in Nat
  BY <1>1
<1>6. \A t \in 0..next : Holds(chan, t, next) => Holds(chan', t, next')
  BY <1>1, <1>2, <1>5, SendOther, Zenon
<1>7. QED
  BY <1>3, <1>4, <1>6, TaskStep, Zenon

LEMMA SubscribeStep ==
  ASSUME Counting, ConsoleInv, subscribe_all
  PROVE  ConsoleInv'
<1>1. /\ phase # "exited" /\ task = "subscribing"
      /\ UNCHANGED <<phase, outcome, term, app, screen, next, log>>
  BY Zenon DEF subscribe_all, Task
<1>2. chan \in Seq(Messages) /\ next \in Nat
  BY Zenon DEF ConsoleInv, TypeOK, Messages
<1>3. task' # "panicked"
  BY Zenon DEF subscribe_all, Task
<1>4. CASE UNCHANGED chan
  <2>1. next <= next'
    BY <1>1, <1>2
  <2>2. QED
    BY <1>1, <1>2, <1>3, <1>4, <2>1, TaskStep, Zenon
<1>5. CASE send("Error", None)
  BY <1>1, <1>3, <1>5, SendOtherStep, Zenon DEF send
<1>6. QED
  BY <1>4, <1>5, Zenon DEF subscribe_all

LEMMA ReceiveStep ==
  ASSUME Counting, ConsoleInv, Receive
  PROVE  ConsoleInv'
<1>1. /\ phase # "exited" /\ task = "reading" /\ task' # "panicked"
      /\ UNCHANGED <<phase, outcome, term, app, screen, log>>
  BY Zenon DEF Receive, Task
<1>2. chan \in Seq(Messages) /\ next \in Nat
  BY Zenon DEF ConsoleInv, TypeOK, Messages
<1>3. CASE send("CaughtUp", None) /\ UNCHANGED next
  BY <1>1, <1>3, SendOtherStep, Zenon DEF send
<1>4. CASE send("Event", next) /\ next' = next + 1
  <2>1. chan' = Append(chan, Message("Event", next))
    BY <1>4, Zenon DEF send
  <2>2. Message("Event", next) \in Messages
    BY <1>2 DEF Message, Messages
  <2>3. chan' \in Seq(Messages)
    BY <1>2, <2>1, <2>2
  <2>4. next' \in Nat /\ next <= next' /\ \A t \in 0..next : t \in Nat /\ t <= next
    BY <1>2, <1>4
  <2>5. \A t \in 0..next : Holds(chan, t, next) => Holds(chan', t, next')
    BY <1>2, <1>4, <2>1, <2>4, SendEvent, Zenon
  <2>6. QED
    BY <1>1, <2>3, <2>4, <2>5, TaskStep, Zenon
<1>5. QED
  BY <1>3, <1>4, Zenon DEF Receive

LEMMA StreamEndsStep ==
  ASSUME Counting, ConsoleInv, StreamEnds \/ StreamFails
  PROVE  ConsoleInv'
<1>1. /\ phase # "exited" /\ task = "reading"
      /\ task' = "panicked" \/ (UNCHANGED term /\ task' # "panicked")
      /\ UNCHANGED <<phase, outcome, app, screen, chan, next, log>>
  BY Zenon DEF StreamEnds, StreamFails, Task
<1>2. chan \in Seq(Messages) /\ next \in Nat
  BY Zenon DEF ConsoleInv, TypeOK, Messages
<1>3. next <= next'
  BY <1>1, <1>2
<1>4. QED
  BY <1>1, <1>2, <1>3, TaskStep, Zenon

LEMMA ServerStep ==
  ASSUME Counting, ConsoleInv, ServerAppends
  PROVE  ConsoleInv'
<1>1. /\ UNCHANGED <<phase, outcome, term, app, screen, task, chan, next>>
      /\ \E l \in Logs : Len(log) < Len(l) /\ log' = Append(log, l[Len(log) + 1])
  BY Zenon DEF ServerAppends, subscription
<1>2. log \in Seq(Nat) /\ AppOK(app) /\ LoadedInv
  BY Zenon DEF ConsoleInv, TypeOK
<1>3. Grows
  <2>1. PICK l \in Logs : Len(log) < Len(l) /\ log' = Append(log, l[Len(log) + 1])
    BY <1>1, Zenon
  <2>2. l \in Seq(Nat)
    BY LogsAssumption, Zenon
  <2>3. l[Len(log) + 1] \in Nat
    BY <1>2, <2>1, <2>2
  <2>4. QED
    BY <2>1, <2>3, Zenon DEF Grows
<1>4. log' \in Seq(Nat)
  BY <1>2, <1>3, LogGrows, Zenon
<1>5. TypeOK' /\ AppOK(app)'
  BY <1>1, <1>4, Zenon DEF ConsoleInv, TypeOK, AppOK
<1>6. LoadedInv'
  <2>1. Len(app'.streams) <= Len(list_streams')
    <3>1. /\ Len(app.streams) \in Nat /\ Len(list_streams) \in Nat
          /\ Len(list_streams') \in Nat /\ Len(app.streams) <= Len(list_streams)
          /\ Len(list_streams) <= Len(list_streams')
      BY <1>2, <1>3, ListsHaveLengths, StreamsGrow, Zenon DEF LoadedInv
    <3>2. app'.streams = app.streams
      BY <1>1, Zenon
    <3>3. QED
      BY <3>1, <3>2
  <2>2. Len(app'.global_events) <= Len(read_all')
    <3>1. Len(app.global_events) <= Smaller(READ_PAGE_SIZE, Len(log))
      BY <1>2, ReadAll, Zenon DEF LoadedInv
    <3>2. Len(read_all') = Smaller(READ_PAGE_SIZE, Len(log'))
      <4> DEFINE all == [k \in 1..Len(log') |-> k - 1]
      <4>1. Len(log') \in Nat
        BY <1>4
      <4>2. all = [k \in 1..Len(log') |-> all[k]]
        BY Zenon
      <4>3. read_all' = Page(all)
        BY Zenon DEF read_all, Page
      <4> HIDE DEF all
      <4>4. IsList(all) /\ Len(all) = Len(log')
        BY <4>1, <4>2, FunctionIsList, Zenon
      <4>5. QED
        BY <4>3, <4>4, PageOf, Zenon
    <3>3. /\ Len(log) \in Nat /\ Len(log') = Len(log) + 1
          /\ Len(app.global_events) \in Nat
      BY <1>2, <1>3, LogGrows, ListsHaveLengths, Zenon
    <3>4. Smaller(READ_PAGE_SIZE, Len(log)) <= Smaller(READ_PAGE_SIZE, Len(log'))
          /\ Smaller(READ_PAGE_SIZE, Len(log)) \in Nat
          /\ Smaller(READ_PAGE_SIZE, Len(log')) \in Nat
      BY <3>3, CapacitiesAssumption DEF Smaller
    <3>5. QED
      BY <1>1, <3>1, <3>2, <3>3, <3>4
  <2>3. Begins(app'.detail_events, Detail(app)')
    <3>1. Begins(Detail(app), Detail(app)') /\ IsList(Detail(app)')
      BY <1>1, <1>2, <1>3, DetailGrows, Zenon
    <3>2. IsList(Detail(app)) /\ IsList(app.detail_events)
      BY <1>2, DetailIsList, Zenon DEF AppOK
    <3>3. Begins(app.detail_events, Detail(app))
      BY <1>2, Zenon DEF LoadedInv
    <3>4. Begins(app.detail_events, Detail(app)')
      BY <3>1, <3>2, <3>3, BeginsTrans, Zenon
    <3>5. QED
      BY <1>1, <3>4, Zenon
  <2>4. Listed(app.streams)'
    BY <1>1, <1>2, <1>3, StreamsGrow, Zenon DEF LoadedInv, Listed
  <2>5. QED
    BY <2>1, <2>2, <2>3, <2>4, Zenon DEF LoadedInv
<1>7. LiveTailFaithful'
  BY <1>1, LiveFrame, Zenon DEF ConsoleInv
<1>8. StartInv' /\ ScreenInv' /\ OutcomeInv' /\ TerminalRestored'
  BY <1>1, Zenon DEF ConsoleInv, StartInv, ScreenInv, Highlighted, DrawnFrom, OutcomeInv,
                     TerminalRestored
<1>9. QED
  BY <1>5, <1>6, <1>7, <1>8, Zenon DEF ConsoleInv

-----------------------------------------------------------------------------
(* The views.                                                              *)

(* The panel shows the row that is highlighted.                            *)
Agree(table, panel) ==
  table.rows # <<>> => table.selected > 0 /\ table.rows[table.selected] = panel

LEMMA TableAgrees ==
  ASSUME NEW rows, IsList(rows), NEW cursor \in Nat, At(cursor, rows),
         NEW loading \in BOOLEAN
  PROVE  Agree(Table(loading, rows, cursor), Item(rows, cursor))
<1>0. PICK t : t = Table(loading, rows, cursor)
  BY Zenon
<1>1. CASE loading \/ rows = <<>>
  <2>1. t.rows = <<>>
    BY <1>0, <1>1 DEF Table
  <2>2. QED
    BY <1>0, <2>1, Zenon DEF Agree
<1>2. CASE ~(loading \/ rows = <<>>)
  <2>1. Len(rows) \in Nat /\ Len(rows) # 0
    BY <1>2, ListLen, Zenon
  <2>2. cursor < Len(rows) /\ cursor + 1 > 0
    BY <2>1 DEF At
  <2>3. t.rows = rows /\ t.selected = cursor + 1
    BY <1>0, <1>2, <2>2 DEF Table
  <2>4. Item(rows, cursor) = rows[cursor + 1]
    BY <2>2, Zenon DEF Item
  <2>5. QED
    BY <1>0, <2>2, <2>3, <2>4, Zenon DEF Agree
<1>3. QED
  BY <1>1, <1>2, Zenon

(* With n events and h rows, the d-th event is among those shown.          *)
InWindow(n, d, h, start, end) ==
  /\ start \in Nat /\ end \in Nat /\ end <= n
  /\ n # 0 => start <= end
  /\ n # 0 /\ h > 0 => /\ d - start \in Nat /\ d - start < end - start
                      /\ d < n
  /\ n = 0 \/ ~(h > 0) => end <= start

LEMMA WindowHolds ==
  ASSUME NEW n \in Nat, NEW d \in Nat, NEW h \in Nat, d = 0 \/ d < n,
         NEW start, start = saturating_sub(d, saturating_sub(h, 1)),
         NEW end, end = Smaller(n, start + h)
  PROVE  InWindow(n, d, h, start, end)
BY DEF saturating_sub, Smaller, InWindow

LEMMA DisplayCursor ==
  ASSUME NEW a, AppOK(a)
  PROVE  /\ Len(a.live_events) \in Nat /\ display_cursor(a) \in Nat
         /\ display_cursor(a) = 0 \/ display_cursor(a) < Len(a.live_events)
<1>1. /\ Len(a.live_events) \in Nat /\ a.cursor["LiveTail"] \in Nat
      /\ a.cursor["LiveTail"] = 0 \/ a.cursor["LiveTail"] < Len(a.live_events)
  BY ListsHaveLengths, Zenon DEF AppOK, At, Tabs
<1>2. QED
  BY <1>1 DEF display_cursor, saturating_sub

LEMMA Slice ==
  ASSUME NEW s \in Seq(Nat), NEW start \in Nat, NEW end \in Nat, end <= Len(s),
         NEW rows, rows = SubSeq(s, start + 1, end)
  PROVE  /\ rows \in Seq(Nat)
         /\ end <= start => rows = <<>>
         /\ start <= end => Len(rows) = end - start
OBVIOUS

LEMMA LiveTable ==
  ASSUME NEW a, AppOK(a), NEW h \in Nat, NEW t, t = live_tail_table(a, h)
  PROVE  /\ a.live_events # <<>> => Window(a, h).start <= Window(a, h).end
         /\ a.live_events # <<>> /\ h > 0 => t.rows # <<>>
         /\ Agree(t, live_tail_panel(a))
<1>1. PICK s, d : s = a.live_events /\ d = display_cursor(a)
  BY Zenon
<1>2. PICK start, end : /\ start = saturating_sub(d, saturating_sub(h, 1))
                        /\ end = Smaller(Len(s), start + h)
  BY Zenon
<1>3. /\ s \in Seq(Nat) /\ Len(s) \in Nat /\ d \in Nat
      /\ d = 0 \/ d < Len(s)
  BY <1>1, DisplayCursor, Zenon DEF AppOK
<1>4. Window(a, h).start = start /\ Window(a, h).end = end
  BY <1>1, <1>2 DEF Window
<1>5. PICK rows : rows = SubSeq(s, start + 1, end)
  BY Zenon
<1>6. t = Table(FALSE, rows, d - start) /\ live_tail_panel(a) = Item(s, d)
  BY <1>1, <1>4, <1>5, Zenon DEF live_tail_table, live_tail_panel
<1>7. InWindow(Len(s), d, h, start, end)
  BY <1>2, <1>3, WindowHolds, Zenon
<1>8. start \in Nat /\ end \in Nat /\ end <= Len(s) /\ (s = <<>> <=> Len(s) = 0)
  BY <1>3, <1>7, ListLen, SequenceIsList, Zenon DEF InWindow
<1>9. s # <<>> => start <= end
  BY <1>7, <1>8, Zenon DEF InWindow
<1>10. CASE s # <<>> /\ h > 0
  <2>1. d - start \in Nat /\ d - start < end - start
    BY <1>7, <1>8, <1>10, Zenon DEF InWindow
  <2>2. rows \in Seq(Nat) /\ Len(rows) = end - start
    BY <1>3, <1>5, <1>8, <1>9, <1>10, Slice, SMT
  <2>3. IsList(rows) /\ At(d - start, rows)
    BY <2>1, <2>2, SequenceIsList, Zenon DEF At
  <2>4. rows # <<>>
    BY <2>1, <2>2
  <2>5. Item(rows, d - start) = Item(s, d)
    <3>1. /\ rows[(d - start) + 1] = s[d + 1]
          /\ d - start < Len(rows) /\ d < Len(s)
      BY <1>3, <1>5, <1>8, <2>1, <2>2
    <3>2. QED
      BY <3>1, Zenon DEF Item
  <2>6. Agree(t, live_tail_panel(a))
    BY <1>6, <2>1, <2>3, <2>5, TableAgrees, Zenon
  <2>7. t.rows # <<>>
    BY <1>6, <2>4 DEF Table
  <2>8. QED
    BY <1>1, <1>4, <1>9, <2>6, <2>7, Zenon
<1>11. CASE ~(s # <<>> /\ h > 0)
  <2>1. end <= start
    BY <1>7, <1>8, <1>11, Zenon DEF InWindow
  <2>2. rows = <<>>
    BY <1>3, <1>5, <1>8, <2>1, Slice, SMT
  <2>3. t.rows = <<>>
    BY <1>6, <2>2 DEF Table
  <2>4. QED
    BY <1>1, <1>4, <1>9, <1>11, <2>3, Zenon DEF Agree
<1>12. QED
  BY <1>10, <1>11, Zenon

LEMMA DetailShown ==
  ASSUME Counting, ConsoleInv
  PROVE  Begins(app.detail_events, IF app.detail_stream_id = None THEN <<>>
                                   ELSE Positions(app.detail_stream_id))
<1>1. /\ log \in Seq(Nat) /\ IsList(app.detail_events)
      /\ Begins(app.detail_events, Detail(app))
  BY Zenon DEF ConsoleInv, TypeOK, AppOK, LoadedInv
<1>2. CASE app.detail_stream_id = None
  BY <1>1, <1>2, Zenon DEF Detail
<1>3. CASE app.detail_stream_id # None
  <2>1. PICK whole : whole = Positions(app.detail_stream_id)
    BY Zenon
  <2>2. IsList(whole) /\ Detail(app) = Page(whole)
    BY <1>1, <1>3, <2>1, PositionsAreList, Zenon DEF Detail, read_stream
  <2>3. Begins(app.detail_events, whole)
    BY <1>1, <2>2, PageOf, BeginsTrans, Zenon
  <2>4. QED
    BY <1>3, <2>1, <2>3, Zenon
<1>4. QED
  BY <1>2, <1>3, Zenon

LEMMA Draws ==
  ASSUME Counting, ConsoleInv
  PROVE  ViewsSound
<1>1. AppOK(app)
  BY Zenon DEF ConsoleInv
<1>2. /\ IsList(app.streams) /\ IsList(app.detail_events) /\ IsList(app.global_events)
      /\ \A tab \in Tabs : app.cursor[tab] \in Nat /\ app.loading[tab] \in BOOLEAN
      /\ At(app.cursor["Streams"], app.streams)
      /\ At(app.cursor["StreamDetail"], app.detail_events)
      /\ At(app.cursor["GlobalLog"], app.global_events)
  BY <1>1, SequenceIsList, Zenon DEF AppOK
<1>3. "Streams" \in Tabs /\ "StreamDetail" \in Tabs /\ "GlobalLog" \in Tabs
  BY Zenon DEF Tabs
<1>4. streams_render(app).rows # <<>> => streams_render(app).selected > 0
  BY <1>2, <1>3, TableAgrees, Zenon DEF streams_render, Agree
<1>5. Agree(stream_detail_table(app), stream_detail_panel(app))
  BY <1>2, <1>3, TableAgrees, Zenon DEF stream_detail_table, stream_detail_panel
<1>6. Agree(global_log_table(app), global_log_panel(app))
  BY <1>2, <1>3, TableAgrees, Zenon DEF global_log_table, global_log_panel
<1>7. ASSUME NEW h \in Heights
      PROVE  /\ app.live_events # <<>> => Window(app, h).start <= Window(app, h).end
             /\ app.live_events # <<>> /\ h > 0 => live_tail_table(app, h).rows # <<>>
             /\ Agree(live_tail_table(app, h), live_tail_panel(app))
  <2>1. h \in Nat
    BY HeightsAssumption, Zenon
  <2>2. QED
    BY <1>1, <2>1, LiveTable, Zenon
<1>8. QED
  BY <1>4, <1>5, <1>6, <1>7, DetailShown, Zenon DEF ViewsSound, Agree

-----------------------------------------------------------------------------
(* Only a key opens a stream.                                              *)

(* What Enter opens, against what the last drawing had.                    *)
OpensShown ==
  LET opened == app'.detail_stream_id
      k == app.cursor["Streams"] + 1
  IN /\ screen.stream # None => opened = screen.stream
     /\ k <= Len(screen.list) /\ opened # screen.list[k].stream_id =>
          \E id \in Ids(app.streams) \ Ids(screen.list) :
            id < screen.list[k].stream_id

LEMMA KeyOpens ==
  ASSUME Counting, ConsoleInv, PollKey, Opens(app, app')
  PROVE  OpensShown
<1>1. /\ phase = "key" /\ AppOK(app) /\ ScreenInv /\ app.active_tab = "Streams"
      /\ InOrder(app.streams)
  BY Zenon DEF PollKey, ConsoleInv, LoadedInv, Listed, Opens
<1>2. AppState_new.active_tab # "StreamDetail" /\ "Streams" # "StreamDetail"
  BY DEF AppState_new
<1>3. PICK key \in Keys : /\ ~handle_key_event(app, key).should_quit
                          /\ app' = handle_key_event(app, key)
  BY <1>1, <1>2, Zenon DEF PollKey, Return, Opens
<1>4. PICK k : k = app.cursor["Streams"] + 1
  BY Zenon
<1>5. /\ app.cursor["Streams"] < Len(app.streams)
      /\ app'.detail_stream_id = app.streams[k].stream_id
  BY <1>1, <1>3, <1>4, KeyCalm, Zenon
<1>6. /\ app.cursor["Streams"] \in Nat /\ Len(app.streams) \in Nat
      /\ Highlighted(app) /\ DrawnFrom(app)
  BY <1>1, ListsHaveLengths, Zenon DEF ScreenInv, AppOK, Tabs
<1>7. k \in 1..Len(app.streams) /\ k \in Nat /\ 1 <= k
  BY <1>4, <1>5, <1>6
<1>8. screen.stream # None => app'.detail_stream_id = screen.stream
  BY <1>4, <1>5, <1>6, Zenon DEF Highlighted
<1>9. ASSUME k <= Len(screen.list),
             \A id \in Ids(app.streams) \ Ids(screen.list) :
               ~(id < screen.list[k].stream_id)
      PROVE  app'.detail_stream_id = screen.list[k].stream_id
  <2>1. PICK S, T : S = Ids(screen.list) /\ T = Ids(app.streams)
    BY Zenon
  <2>2. /\ S \in SUBSET Nat /\ IsFiniteSet(S) /\ Len(screen.list) = Cardinality(S)
        /\ \A n \in 1..Len(screen.list) : screen.list[n].stream_id = Ascending(S)[n]
    BY <1>6, <2>1, Zenon DEF DrawnFrom, InOrder
  <2>3. /\ T \in SUBSET Nat /\ IsFiniteSet(T) /\ S \subseteq T
        /\ \A n \in 1..Len(app.streams) : app.streams[n].stream_id = Ascending(T)[n]
    BY <1>1, <1>6, <2>1, Zenon DEF DrawnFrom, InOrder
  <2>4. Cardinality(S) \in Nat
    BY <2>2, Zenon DEF Counting
  <2>5. k \in 1..Cardinality(S) /\ k \in 1..Len(screen.list)
    BY <1>7, <1>9, <2>2, <2>4
  <2>6. screen.list[k].stream_id = Ascending(S)[k]
    BY <2>2, <2>5, Zenon
  <2>7. Ascending(T)[k] = Ascending(S)[k]
    BY <1>9, <2>1, <2>2, <2>3, <2>5, <2>6, AscendingKept, Zenon
  <2>8. QED
    BY <1>5, <1>7, <2>3, <2>6, <2>7, Zenon
<1>10. QED
  BY <1>4, <1>8, <1>9, Zenon DEF OpensShown

LEMMA LoadedKeepsTab ==
  ASSUME AppOK(app), NEW i, NEW answer, Loaded(i, answer),
         DOMAIN answer = DOMAIN app, answer.active_tab = app.active_tab
  PROVE  app'.active_tab = app.active_tab
<1>1. DOMAIN app = DOMAIN AppState_new
  BY Zenon DEF AppOK
<1>2. PICK a \in {answer, app} : app' = [a EXCEPT !.loading[phase] = FALSE]
  BY Zenon DEF Loaded
<1>3. DOMAIN a = DOMAIN AppState_new /\ a.active_tab = app.active_tab
  BY <1>1, <1>2, Zenon
<1>4. QED
  BY <1>2, <1>3 DEF AppState_new

LEMMA OthersKeepTab ==
  ASSUME AppOK(app), [Next]_vars, ~PollKey
  PROVE  app'.active_tab \in {app.active_tab, "Streams"}
<1>1. DOMAIN app = DOMAIN AppState_new
  BY Zenon DEF AppOK
<1>2. CASE Start
  <2>1. app' = app \/ Launch
    BY <1>2, Zenon DEF Start, validate_tls_flags, build_tls_options, Client_connect,
                       init_terminal
  <2>2. Launch => app'.active_tab = "Streams"
    BY DEF Launch, AppState_new
  <2>3. QED
    BY <2>1, <2>2, Zenon
<1>3. CASE render \/ Restore
  <2>1. app' = app \/ app' = AppState_new
    BY <1>3, Zenon DEF render, Restore, Return
  <2>2. AppState_new.active_tab = "Streams"
    BY DEF AppState_new
  <2>3. QED
    BY <2>1, <2>2, Zenon
<1>4. CASE Drain
  <2>1. \/ app' = app \/ app' = [app EXCEPT !.live_caught_up = TRUE]
        \/ app' = push_live_event(app, Head(chan).position)
    BY <1>4 DEF Drain
  <2>2. QED
    BY <1>1, <2>1 DEF push_live_event, AppState_new
<1>5. CASE FetchStreams
  <2>1. PICK a : a = [app EXCEPT !.streams = list_streams]
    BY Zenon
  <2>2. DOMAIN a = DOMAIN app /\ a.active_tab = app.active_tab
    BY <1>1, <2>1 DEF AppState_new
  <2>3. QED
    BY <1>5, <2>1, <2>2, LoadedKeepsTab, Zenon DEF FetchStreams
<1>6. CASE FetchDetail
  <2>1. PICK a : a = IF app.detail_stream_id = None THEN app
                     ELSE [app EXCEPT !.detail_events = read_stream(app.detail_stream_id)]
    BY Zenon
  <2>2. DOMAIN a = DOMAIN app /\ a.active_tab = app.active_tab
    BY <1>1, <2>1 DEF AppState_new
  <2>3. QED
    BY <1>6, <2>1, <2>2, LoadedKeepsTab, Zenon DEF FetchDetail
<1>7. CASE FetchGlobal
  <2>1. PICK a : a = [app EXCEPT !.global_events = read_all]
    BY Zenon
  <2>2. DOMAIN a = DOMAIN app /\ a.active_tab = app.active_tab
    BY <1>1, <2>1 DEF AppState_new
  <2>3. QED
    BY <1>7, <2>1, <2>2, LoadedKeepsTab, Zenon DEF FetchGlobal
<1>8. CASE \/ subscribe_all \/ Receive \/ StreamEnds \/ StreamFails \/ ServerAppends
           \/ UNCHANGED vars
  BY <1>8, Zenon DEF subscribe_all, Receive, StreamEnds, StreamFails, ServerAppends, vars
<1>9. QED
  BY <1>2, <1>3, <1>4, <1>5, <1>6, <1>7, <1>8, Zenon DEF Next, Loop, Fetch, Done

-----------------------------------------------------------------------------
(* The invariant.                                                          *)

LEMMA InitInv ==
  ASSUME Counting, Init
  PROVE  ConsoleInv
<1>1. /\ phase = "flags" /\ outcome = "none" /\ task = "none" /\ chan = <<>>
      /\ next = 0 /\ app = AppState_new /\ term = Restored
      /\ log = <<>> \/ \E l \in Logs : log = SubSeq(l, 1, 1)
  BY Zenon DEF Init
<1>2. /\ phase \in Phases /\ phase \notin InLoop /\ phase # "exited"
      /\ phase \notin Tabs \cup {"drain", "key"}
  BY <1>1 DEF Phases, Starting, InLoop, Tabs
<1>3. log \in Seq(Nat)
  <2>1. CASE log = <<>>
    BY <2>1
  <2>2. ASSUME NEW l \in Logs, log = SubSeq(l, 1, 1) PROVE log \in Seq(Nat)
    <3>1. l \in Seq(Nat) /\ l # <<>>
      BY LogsAssumption, Zenon
    <3>2. QED
      BY <2>2, <3>1
  <2>3. QED
    BY <1>1, <2>1, <2>2, Zenon
<1>4. TypeOK /\ AppOK(app)
  <2>1. next \in Nat /\ chan \in Seq([kind : {"Event", "CaughtUp", "Error"}, position : Int])
    BY <1>1
  <2>2. QED
    BY <1>1, <1>2, <1>3, <2>1, NewOK, Zenon DEF TypeOK
<1>5. LoadedInv
  <2>1. /\ app.streams = <<>> /\ app.global_events = <<>> /\ app.detail_events = <<>>
    BY <1>1, Zenon DEF AppState_new
  <2>2. IsList(list_streams) /\ IsList(read_all) /\ IsList(Detail(app))
    BY <1>3, ListStreams, ReadAll, DetailIsList, SequenceIsList, Zenon
  <2>3. /\ Len(list_streams) \in Nat /\ Len(read_all) \in Nat /\ Len(Detail(app)) \in Nat
        /\ Len(<<>>) = 0
    BY <2>2, ListLen, EmptyIsList, Zenon
  <2>4. Begins(<<>>, Detail(app))
    BY <2>3 DEF Begins
  <2>5. Len(<<>>) <= Len(list_streams) /\ Len(<<>>) <= Len(read_all)
    BY <2>3
  <2>6. QED
    BY <2>1, <2>4, <2>5, EmptyIsListed, Zenon DEF LoadedInv
<1>6. LiveTailFaithful
  <2>1. Holds(chan, 0, next) /\ 0 \in 0..next
    BY <1>1 DEF Holds
  <2>2. QED
    BY <1>2, <2>1, Zenon DEF LiveTailFaithful
<1>7. StartInv /\ ScreenInv /\ OutcomeInv /\ TerminalRestored
  BY <1>1, <1>2, Zenon DEF StartInv, ScreenInv, OutcomeInv, TerminalRestored
<1>8. QED
  BY <1>4, <1>5, <1>6, <1>7, Zenon DEF ConsoleInv

LEMMA StutterStep ==
  ASSUME Counting, ConsoleInv, UNCHANGED vars
  PROVE  ConsoleInv'
<1>1. UNCHANGED <<phase, outcome, term, app, screen, task, chan, next, log>>
  BY Zenon DEF vars, subscription
<1>2. TypeOK' /\ AppOK(app)'
  BY <1>1, Zenon DEF ConsoleInv, TypeOK, AppOK
<1>3. LoadedInv' /\ LiveTailFaithful'
  BY <1>1, LoadedFrame, LiveFrame, Zenon DEF ConsoleInv, SameDetail
<1>4. StartInv' /\ ScreenInv' /\ OutcomeInv' /\ TerminalRestored'
  BY <1>1, Zenon DEF ConsoleInv, StartInv, ScreenInv, Highlighted, DrawnFrom, OutcomeInv,
                     TerminalRestored
<1>5. QED
  BY <1>2, <1>3, <1>4, Zenon DEF ConsoleInv

LEMMA StepInv ==
  ASSUME Counting, ConsoleInv, [Next]_vars
  PROVE  ConsoleInv'
<1>1. CASE Start
  BY <1>1, StartStep, Zenon
<1>2. CASE Loop
  BY <1>2, RenderStep, DrainStep, PollKeyStep, RestoreStep, Zenon DEF Loop
<1>3. CASE Fetch
  BY <1>3, FetchStreamsStep, FetchDetailStep, FetchGlobalStep, Zenon DEF Fetch
<1>4. CASE subscribe_all \/ Receive
  BY <1>4, SubscribeStep, ReceiveStep, Zenon
<1>5. CASE StreamEnds \/ StreamFails
  BY <1>5, StreamEndsStep, Zenon
<1>6. CASE ServerAppends
  BY <1>6, ServerStep, Zenon
<1>7. CASE UNCHANGED vars
  BY <1>7, StutterStep, Zenon
<1>8. QED
  BY <1>1, <1>2, <1>3, <1>4, <1>5, <1>6, <1>7, Zenon DEF Next, Done

-----------------------------------------------------------------------------
(* Finite sets.                                                            *)

F == INSTANCE FiniteSetTheorems

LEMMA SameSets ==
  \A S : /\ IsFiniteSet(S) <=> F!IsFiniteSet(S)
         /\ Cardinality(S) = F!Cardinality(S)
BY Zenon DEF IsFiniteSet, F!IsFiniteSet, Cardinality, F!Cardinality

LEMMA CountingHolds == Counting
<1>1. \A S : IsFiniteSet(S) => Cardinality(S) \in Nat
  BY F!FS_CardinalityType, SameSets, Zenon
<1>2. ASSUME NEW S, IsFiniteSet(S), NEW T \in SUBSET S
      PROVE  IsFiniteSet(T) /\ Cardinality(T) <= Cardinality(S)
  BY <1>2, F!FS_Subset, SameSets, Zenon
<1>3. ASSUME NEW S, NEW x, IsFiniteSet(S)
      PROVE  /\ IsFiniteSet(S \cup {x})
             /\ x \notin S => Cardinality(S \cup {x}) = Cardinality(S) + 1
  BY <1>3, F!FS_AddElement, SameSets, Zenon
<1>4. ASSUME NEW a \in Int, NEW b \in Int PROVE IsFiniteSet(a..b)
  BY F!FS_Interval, SameSets, Zenon
<1>5. ASSUME NEW n \in Nat PROVE Cardinality(0..(n - 1)) = n
  <2>1. 0 \in Int /\ n - 1 \in Int
    OBVIOUS
  <2>2. F!Cardinality(0..(n - 1)) = IF 0 > n - 1 THEN 0 ELSE (n - 1) - 0 + 1
    BY <2>1, F!FS_Interval, Zenon
  <2>3. (IF 0 > n - 1 THEN 0 ELSE (n - 1) - 0 + 1) = n
    OBVIOUS
  <2>4. F!Cardinality(0..(n - 1)) = n
    BY <2>2, <2>3
  <2>5. QED
    BY <2>4, SameSets, Zenon
<1>6. ASSUME NEW S, NEW T, IsFiniteSet(S), IsFiniteSet(T),
             Cardinality(T) < Cardinality(S), NEW f \in [S -> T]
      PROVE  \E x, y \in S : x # y /\ f[x] = f[y]
  BY <1>6, F!FS_PigeonHole, SameSets, Zenon
<1>7. IsFiniteSet({}) /\ Cardinality({}) = 0
  BY F!FS_EmptySet, SameSets, Zenon
<1>8. QED
  BY <1>1, <1>2, <1>3, <1>4, <1>5, <1>6, <1>7, Zenon DEF Counting

-----------------------------------------------------------------------------
(* The theorems.                                                           *)

(* The strengthening the other theorems rest on: main, its event loop, the *)
(* subscription task and the server it talks to keep it at every step.     *)
THEOREM ConsoleInvariance == Spec => []ConsoleInv
<1>1. Init => ConsoleInv
  BY InitInv, CountingHolds
<1>2. ConsoleInv /\ [Next]_vars => ConsoleInv'
  BY StepInv, CountingHolds
<1>3. QED
  BY <1>1, <1>2, PTL DEF Spec

(* Whatever keys are pressed, however the fetches end and whatever size    *)
(* the terminal has, every view can be drawn: its slices are in range, the *)
(* item under the cursor is highlighted among the rows given to the widget *)
(* and is the one the panel shows, and the events listed are the first of  *)
(* the stream in the title (app.rs, views/*.rs, handle_data_fetches).      *)
THEOREM ViewsAlwaysDrawn == Spec => []ViewsSound
<1>1. ConsoleInv => ViewsSound
  BY Draws, CountingHolds
<1>2. QED
  BY <1>1, ConsoleInvariance, PTL

(* No event between the server and the live tail is lost, repeated or out  *)
(* of order, for any capacity of the tail and of the channel               *)
(* (push_live_event, spawn_subscription, run_event_loop).                  *)
THEOREM LiveTailLosesNothing == Spec => []LiveTailFaithful
<1>1. ConsoleInv => LiveTailFaithful
  BY Zenon DEF ConsoleInv
<1>2. QED
  BY <1>1, ConsoleInvariance, PTL

(* However the console ends, in whatever step the terminal or the          *)
(* subscription fails, raw mode or the alternate screen are left on only   *)
(* if the error main returns is that of init_terminal or restore_terminal; *)
(* the loop runs in both until the task panics (main.rs, tui.rs).          *)
THEOREM TerminalLeftClean == Spec => []TerminalRestored
<1>1. ConsoleInv => TerminalRestored
  BY Zenon DEF ConsoleInv
<1>2. QED
  BY <1>1, ConsoleInvariance, PTL

(* Enter opens the stream that the last drawing showed highlighted; where  *)
(* it showed none, the one the cursor was at in the list then drawn from,  *)
(* unless the fetch since has brought a stream that sorts before it, for   *)
(* all logs and heights (Action::Select, handle_data_fetches).             *)
THEOREM EnterOpensShown == Spec => SelectsShown
<1>1. ASSUME ConsoleInv, [Next]_vars
      PROVE  [(app'.active_tab = "StreamDetail" /\ app.active_tab = "Streams"
                 /\ app'.loading["StreamDetail"] /\ ~app.loading["StreamDetail"]) =>
                OpensShown]_vars
  <2>1. CASE PollKey
    BY <1>1, <2>1, KeyOpens, CountingHolds, Zenon DEF Opens
  <2>2. CASE ~PollKey
    <3>1. app'.active_tab \in {app.active_tab, "Streams"}
      BY <1>1, <2>2, OthersKeepTab, Zenon DEF ConsoleInv
    <3>2. "Streams" # "StreamDetail"
      BY Zenon
    <3>3. QED
      BY <3>1, <3>2, Zenon
  <2>3. QED
    BY <2>1, <2>2, Zenon
<1>2. QED
  BY <1>1, ConsoleInvariance, PTL DEF Spec, SelectsShown, OpensShown
====
