---------------------------- MODULE StoreProofs -----------------------------
(***************************************************************************)
(* What holds of the storage engine for every number of streams, events,   *)
(* appends, crashes and faults: IndInv, whatever steps happen, and with it *)
(* the safety properties of Store; and the storage engine implements       *)
(* DurableLog.                                                             *)
(***************************************************************************)
EXTENDS StoreRefinement, TLAPS

-----------------------------------------------------------------------------
(* Types, and facts about segments, about the events they spell out and    *)
(* about the index.                                                        *)

(* Types of the operators the actions are built from.                      *)

(* Overwriting one element keeps a sequence a sequence.                    *)
LEMMA Overwrite ==
  ASSUME NEW S, NEW f \in Seq(S), NEW i, NEW e \in S
  PROVE  /\ [f EXCEPT ![i] = e] \in Seq(S)
         /\ Len([f EXCEPT ![i] = e]) = Len(f)
<1>1. Len(f) \in Nat /\ f \in [1..Len(f) -> S]
  OBVIOUS
<1>2. [f EXCEPT ![i] = e] \in [1..Len(f) -> S]
  BY <1>1, Zenon
<1>3. QED
  BY <1>1, <1>2

(* The state without an append under way has a well-typed batch.           *)
LEMMA NoBatchType ==
  NoBatch \in [stream : StreamIds, first : Nat, events : Seq(RecordedEvent),
               extent : Extents \cup {Nothing}, rot : Rots]
BY StreamsAssumption DEF NoBatch, Extents, Nothing, TornMagic, Whole, Rots

(* Every event append records has a stream version and a global position.  *)
LEMMA RecordedType ==
  ASSUME TypeOK, NEW s \in StreamIds, NEW p \in Proposals
  PROVE  /\ Recorded(s, p) \in Seq(RecordedEvent)
         /\ Len(Recorded(s, p)) = Len(p)
         /\ NextVersion(s) \in Nat
<1>1. p \in Seq(ProposedEvent)
  BY ProposalsAssumption, Zenon
<1>2. NextVersion(s) \in Nat
  BY DEF TypeOK, NextVersion
<1>3. Len(events) \in Nat
  BY DEF TypeOK
<1>4. \A k \in 1..Len(p) :
        [event_id |-> p[k].event_id, stream_id |-> s,
         stream_version |-> NextVersion(s) + k - 1,
         global_position |-> Len(events) + k - 1] \in RecordedEvent
  <2>1. \A k \in 1..Len(p) : p[k] \in ProposedEvent
    BY <1>1
  <2>2. QED
    BY <1>2, <1>3, <2>1 DEF ProposedEvent, RecordedEvent
<1>5. QED
  BY <1>1, <1>2, <1>4 DEF Recorded, Numbered

(* Pushing positions keeps the stream index a function to sequences.       *)
LEMMA PushedType ==
  ASSUME TypeOK, NEW s \in StreamIds, NEW evs \in Seq(RecordedEvent)
  PROVE  /\ DOMAIN Pushed(s, evs) = DOMAIN streams \cup {s}
         /\ DOMAIN Pushed(s, evs) \subseteq StreamIds
         /\ Pushed(s, evs) \in [DOMAIN Pushed(s, evs) -> Seq(Nat)]
<1>1. [k \in 1..Len(evs) |-> evs[k].global_position] \in Seq(Nat)
  <2>1. \A k \in 1..Len(evs) : evs[k] \in RecordedEvent
    OBVIOUS
  <2>2. \A k \in 1..Len(evs) : evs[k].global_position \in Nat
    BY <2>1, Zenon DEF RecordedEvent
  <2>3. QED
    BY <2>2
<1>2. \A t \in DOMAIN streams : streams[t] \in Seq(Nat)
  BY Zenon DEF TypeOK
<1>3. <<>> \in Seq(Nat)
  OBVIOUS
<1>4. DOMAIN Pushed(s, evs) = DOMAIN streams \cup {s}
  BY Zenon DEF Pushed
<1>5. \A t \in DOMAIN streams \cup {s} : Pushed(s, evs)[t] \in Seq(Nat)
  <2>1. SUFFICES ASSUME NEW t \in DOMAIN streams \cup {s}
                 PROVE  Pushed(s, evs)[t] \in Seq(Nat)
    BY Zenon
  <2>2. (IF t \in DOMAIN streams THEN streams[t] ELSE <<>>) \in Seq(Nat)
    BY <1>2, <1>3, Zenon
  <2>3. (IF t = s THEN [k \in 1..Len(evs) |-> evs[k].global_position]
                  ELSE <<>>) \in Seq(Nat)
    BY <1>1, <1>3, Zenon
  <2>4. QED
    BY <2>2, <2>3 DEF Pushed
<1>6. QED
  BY <1>4, <1>5, Zenon DEF TypeOK, Pushed
-----------------------------------------------------------------------------
USE DEF Absent, Short, Complete, Nothing, TornMagic, TornHeader, TornBody, Whole

BatchType == [stream : StreamIds, first : Nat, events : Seq(RecordedEvent),
              extent : Extents \cup {Nothing}, rot : Rots]

(* A new batch, with no byte written, has the type of a batch.             *)
LEMMA AppendStartType ==
  ASSUME TypeOK, NEW s \in StreamIds, NEW v, NEW p \in Proposals,
         AppendStart(s, v, p)
  PROVE  TypeOK'
<1>1. Recorded(s, p) \in Seq(RecordedEvent)
  BY RecordedType, Zenon
<1>2. batch' \in BatchType /\ batch'.events = Recorded(s, p)
  BY <1>1 DEF AppendStart, BatchType, TypeOK, Extents, Rots
<1>3. QED
  BY <1>1, <1>2 DEF AppendStart, BatchType, TypeOK, media, header, index,
     answers, Running

(* Writing more of the batch grows or replaces the last segment.           *)
LEMMA WriteType ==
  ASSUME TypeOK, NEW extent \in Extents, Write(extent)
  PROVE  TypeOK'
<1>1. batch' \in BatchType /\ batch'.extent = extent /\ batch' \in Segment
  BY Zenon DEF Write, BatchType, TypeOK, Segment, Extents
<1>2. file' \in Seq(Segment)
  <2>1. CASE batch.extent = Nothing
    BY <1>1, <2>1 DEF Write, TypeOK
  <2>2. CASE batch.extent # Nothing
    BY <1>1, <2>2, Overwrite, Zenon DEF Write, TypeOK
  <2>3. QED
    BY <2>1, <2>2, Zenon
<1>3. pc' \in Running
  BY Zenon DEF Write, AfterWrite, Running
<1>4. QED
  BY <1>1, <1>2, <1>3, Zenon
     DEF Write, BatchType, TypeOK, header, index, answers,
     bounds, history

(* The index update appends the batch to both parts of the index.          *)
LEMMA UpdateIndexType == ASSUME TypeOK, UpdateIndex PROVE TypeOK'
<1>1. batch.stream \in StreamIds /\ batch.events \in Seq(RecordedEvent)
  BY Zenon DEF TypeOK
<1>2. /\ DOMAIN streams' \subseteq StreamIds
      /\ streams' \in [DOMAIN streams' -> Seq(Nat)]
  BY <1>1, PushedType, Zenon DEF UpdateIndex
<1>3. events' \in Seq(RecordedEvent)
  BY <1>1 DEF UpdateIndex, TypeOK
<1>4. acked' \subseteq RecordedEvent
  BY <1>1, SMTT(30) DEF UpdateIndex, TypeOK
<1>5. QED
  BY <1>2, <1>3, <1>4, NoBatchType, Zenon
     DEF UpdateIndex, TypeOK, media, header,
     bounds, Running, Results

(* One turn of the recovery loop that accepts a batch.                     *)
LEMMA ScanCommitType == ASSUME TypeOK, ScanCommit PROVE TypeOK'
<1>1. file[offset + 1] \in Segment
  BY SMTT(30) DEF ScanCommit, TypeOK
<1>2. /\ file[offset + 1].stream \in StreamIds
      /\ file[offset + 1].events \in Seq(RecordedEvent)
  BY <1>1, Zenon DEF Segment
<1>3. /\ DOMAIN streams' \subseteq StreamIds
      /\ streams' \in [DOMAIN streams' -> Seq(Nat)]
  BY <1>2, PushedType, Zenon DEF ScanCommit, TypeOK
<1>4. events' \in Seq(RecordedEvent) /\ offset' \in Nat
  BY <1>2, SMTT(30) DEF ScanCommit, TypeOK
<1>5. QED
  BY <1>3, <1>4, Zenon
     DEF ScanCommit, TypeOK, media, header, answers, bounds, history

(* A power loss leaves a sequence of segments, the last one perhaps torn.  *)
LEMMA PowerLossType == ASSUME TypeOK, PowerLoss PROVE TypeOK'
<1>1. hdr' \in {Absent, Short, Complete} /\ linked' \in BOOLEAN
  BY Zenon DEF PowerLoss, TypeOK
<1>2. file' \in Seq(Segment)
  <2>1. CASE file' = <<>> \/ file' = disk
    <3>1. <<>> \in Seq(Segment) /\ disk \in Seq(Segment)
      BY DEF TypeOK
    <3>2. QED
      BY <2>1, <3>1, Zenon
  <2>2. CASE \E k \in 0..Len(file) : file' = SubSeq(file, 1, k)
    <3>1. PICK k \in 0..Len(file) : file' = SubSeq(file, 1, k)
      BY <2>2, Zenon
    <3>2. SubSeq(file, 1, k) \in Seq(Segment)
      BY <3>1, SMTT(30) DEF TypeOK
    <3>3. QED
      BY <3>1, <3>2, Zenon
  <2>3. CASE \E k \in 0..Len(file) : k < Len(file) /\ TornAfter(k)
    <3>1. PICK k \in 0..Len(file) : k < Len(file) /\ TornAfter(k)
      BY <2>3, Zenon
    <3>2. PICK e \in Extents :
            file' = Append(SubSeq(file, 1, k), [file[k+1] EXCEPT !.extent = e])
      BY <3>1, Zenon DEF TornAfter
    <3>3. file[k+1] \in Segment
      BY <3>1 DEF TypeOK
    <3>4. [file[k+1] EXCEPT !.extent = e] \in Segment
      BY <3>3, Zenon DEF Segment
    <3>5. SubSeq(file, 1, k) \in Seq(Segment)
      BY <3>1 DEF TypeOK
    <3>6. QED
      BY <3>2, <3>4, <3>5
  <2>4. QED
    <3>1. Len(file) \in Nat
      BY DEF TypeOK
    <3>2. QED
      BY <2>1, <2>2, <2>3, <3>1 DEF PowerLoss
<1>3. /\ pc' = "down" /\ offset' = 0 /\ events' = <<>> /\ batch' = NoBatch
      /\ streams' = NoStreams /\ crashes' = crashes + 1
      /\ seen' = events \/ seen' = seen
  BY Zenon DEF PowerLoss, Stop
<1>4. /\ DOMAIN NoStreams = {} /\ NoStreams \in [DOMAIN NoStreams -> Seq(Nat)]
  BY DEF NoStreams
<1>5. seen' \in Seq(RecordedEvent) /\ crashes' \in Nat
  BY <1>3 DEF TypeOK
<1>6. 0 \in Nat /\ <<>> \in Seq(RecordedEvent)
  OBVIOUS
<1>7. QED
  BY <1>1, <1>2, <1>3, <1>4, <1>5, <1>6, NoBatchType, ZenonT(30)
     DEF PowerLoss, Stop, TypeOK, answers

(* Rot changes the bytes of one segment.                                   *)
LEMMA RotType ==
  ASSUME TypeOK, NEW i \in 1..Len(file), NEW rot \in Rots, Rot(i, rot)
  PROVE  TypeOK'
<1>1. file[i] \in Segment
  BY DEF TypeOK
<1>2. [file[i] EXCEPT !.rot = rot] \in Segment
  BY <1>1, Zenon DEF Segment
<1>3. file' = [file EXCEPT ![i] = [file[i] EXCEPT !.rot = rot]]
  BY Zenon DEF Rot
<1>4. file' \in Seq(Segment)
  BY <1>2, <1>3, Overwrite, Zenon DEF TypeOK
<1>5. QED
  BY <1>4, Zenon DEF Rot, TypeOK, header, index, answers, bounds, Mishaps

(* A store that was never opened is well typed.                            *)
LEMMA TypeInit == ASSUME Init PROVE TypeOK
<1>1. <<>> \in Seq(Segment) /\ <<>> \in Seq(RecordedEvent)
  OBVIOUS
<1>2. file \in Seq(Segment) /\ disk \in Seq(Segment)
  BY <1>1, Zenon DEF Init
<1>3. events \in Seq(RecordedEvent) /\ seen \in Seq(RecordedEvent)
  BY <1>1, Zenon DEF Init
<1>4. DOMAIN streams = {} /\ streams \in [DOMAIN streams -> Seq(Nat)]
  BY Zenon DEF Init, NoStreams
<1>5. QED
  BY <1>2, <1>3, <1>4, NoBatchType, Zenon DEF Init, TypeOK, Results, OpenResults

(* Every step keeps the types; recovery cuts the file within its length.   *)
LEMMA TypeStep == ASSUME TypeOK, ScanInv, [Next]_vars PROVE TypeOK'
<1> USE DEF media, header, index, answers, bounds, history, Running, Opening,
        Results, OpenResults, Mishaps
<1>1. CASE \E s \in StreamIds, v \in ExpectedVersions, p \in Proposals :
              AppendRejected(s, v, p)
  BY <1>1 DEF AppendRejected, Validation, TypeOK
<1>2. CASE \E s \in StreamIds, v \in ExpectedVersions, p \in Proposals :
              AppendStart(s, v, p)
  BY <1>2, AppendStartType, Zenon
<1>3. CASE OpenCreate
  BY <1>3, Zenon DEF OpenCreate, TypeOK
<1>4. CASE OpenRefusesHeader
  BY <1>4, Zenon DEF OpenRefusesHeader, TypeOK
<1>5. CASE OpenExisting
  BY <1>5 DEF OpenExisting, TypeOK
<1>6. CASE \E extent \in Extents : Write(extent)
  BY <1>6, WriteType, Zenon
<1>7. CASE Sync
  BY <1>7, Zenon DEF Sync, TypeOK
<1>8. CASE UpdateIndex
  BY <1>8, UpdateIndexType, Zenon
<1>9. CASE Create
  BY <1>9 DEF Create, CreateNext, TypeOK
<1>10. CASE ScanCommit
  BY <1>10, ScanCommitType
<1>11. CASE ScanRefuse
  BY <1>11 DEF ScanRefuse, NoStreams, TypeOK
<1>12. CASE ScanCut
  BY <1>12 DEF ScanCut, TypeOK
<1>13. CASE ScanEnd
  BY <1>13, Zenon DEF ScanEnd, TypeOK
<1>14. CASE Truncate
  <2>1. SubSeq(file, 1, offset) \in Seq(Segment)
    BY <1>14 DEF TypeOK, ScanInv, Scanning, Truncate
  <2>2. QED
    BY <1>14, <2>1 DEF Truncate, TruncateTo, TypeOK
<1>15. CASE TruncateSync
  BY <1>15, Zenon DEF TruncateSync, TypeOK
<1>16. CASE WriteFails \/ SyncFails
  BY <1>16, NoBatchType, Zenon DEF WriteFails, SyncFails, AppendFails, TypeOK
<1>17. CASE ProcessCrash
  BY <1>17, NoBatchType DEF ProcessCrash, Stop, NoStreams, TypeOK
<1>18. CASE PowerLoss
  BY <1>18, PowerLossType
<1>19. CASE \E i \in 1..Len(file), rot \in Rots \ {"none"} : Rot(i, rot)
  BY <1>19, RotType, Zenon
<1>20. CASE UNCHANGED vars
  BY <1>20 DEF vars, TypeOK
<1>21. QED
  BY <1>1, <1>2, <1>3, <1>4, <1>5, <1>6, <1>7, <1>8, <1>9, <1>10,
     <1>11, <1>12, <1>13, <1>14, <1>15, <1>16, <1>17, <1>18, <1>19, <1>20, Zenon
     DEF Next, Process

-----------------------------------------------------------------------------
Agree(f, g, n) == \A i \in 1..n : f[i] = g[i]

(* The fields of a segment of the log.                                     *)
LEMMA SegmentFields ==
  ASSUME NEW f \in Seq(Segment), NEW i \in 1..Len(f)
  PROVE  /\ f[i] \in Segment
         /\ f[i].stream \in StreamIds /\ f[i].first \in Nat
         /\ f[i].events \in Seq(RecordedEvent) /\ Len(f[i].events) \in Nat
         /\ f[i].extent \in Extents /\ f[i].rot \in Rots
<1>1. f[i] \in Segment
  OBVIOUS
<1>2. QED
  BY <1>1 DEF Segment

(* The fields of an event.                                                 *)
LEMMA EventFields ==
  ASSUME NEW E \in Seq(RecordedEvent), NEW k \in 1..Len(E)
  PROVE  /\ E[k] \in RecordedEvent
         /\ E[k].stream_id \in StreamIds
         /\ E[k].stream_version \in Nat /\ E[k].global_position \in Nat
<1>1. E[k] \in RecordedEvent
  OBVIOUS
<1>2. QED
  BY <1>1, Zenon DEF RecordedEvent

-----------------------------------------------------------------------------
(* Facts about segments that depend on the first n segments only.          *)

(* Whether a prefix is committed depends on that prefix.                   *)
LEMMA GoodToAgree ==
  ASSUME NEW f, NEW g, NEW n \in Nat, Agree(f, g, n), NEW m \in 0..n
  PROVE  GoodTo(f, m) <=> GoodTo(g, m)
BY DEF Agree, GoodTo

(* A prefix of a committed prefix is committed.                            *)
LEMMA GoodToLess ==
  ASSUME NEW f, NEW n \in Nat, GoodTo(f, n), NEW m \in 0..n
  PROVE  GoodTo(f, m)
BY DEF GoodTo

(* Where the first n segments end depends on them alone.                   *)
LEMMA EndAgree ==
  ASSUME NEW f, NEW g, NEW n \in Nat, Agree(f, g, n)
  PROVE  /\ FileEnd(f, n) = FileEnd(g, n)
         /\ \A s, v : StreamEnd(f, n, s, v) => StreamEnd(g, n, s, v)
<1>1. FileEnd(f, n) = FileEnd(g, n)
  BY DEF Agree, FileEnd
<1>2. \A s, v : StreamEnd(f, n, s, v) => StreamEnd(g, n, s, v)
  <2>1. SUFFICES ASSUME NEW s, NEW v, StreamEnd(f, n, s, v)
                 PROVE  StreamEnd(g, n, s, v)
    BY Zenon
  <2>2. \A j \in 1..n : HasStream(f[j], s) <=> HasStream(g[j], s)
    BY Zenon DEF Agree
  <2>3. CASE v = 0 /\ \A j \in 1..n : ~HasStream(f[j], s)
    BY <2>2, <2>3, Zenon DEF StreamEnd
  <2>4. CASE \E j \in 1..n :
               /\ HasStream(f[j], s)
               /\ \A i \in (j+1)..n : ~HasStream(f[i], s)
               /\ v = f[j].events[1].stream_version + Len(f[j].events)
    <3>1. PICK j \in 1..n :
               /\ HasStream(f[j], s)
               /\ \A i \in (j+1)..n : ~HasStream(f[i], s)
               /\ v = f[j].events[1].stream_version + Len(f[j].events)
      BY <2>4, Zenon
    <3>2. \A i \in (j+1)..n : ~HasStream(g[i], s)
      BY <2>2, <3>1
    <3>3. HasStream(g[j], s) /\ g[j] = f[j]
      BY <2>2, <3>1, Zenon DEF Agree
    <3>4. QED
      BY <3>1, <3>2, <3>3, Zenon DEF StreamEnd
  <2>5. QED
    BY <2>1, <2>3, <2>4, Zenon DEF StreamEnd
<1>3. QED
  BY <1>1, <1>2, Zenon

(* So does whether a segment continues the ones before it.                 *)
LEMMA FollowsAgree ==
  ASSUME NEW f, NEW g, NEW i \in Nat \ {0}, Agree(f, g, i), Follows(f, i)
  PROVE  Follows(g, i)
<1>1. f[i] = g[i] /\ Agree(f, g, i - 1) /\ i - 1 \in Nat
  BY DEF Agree
<1>2. QED
  BY <1>1, EndAgree, Zenon DEF Follows

(* And what events they hold.                                              *)
LEMMA SpellsAgree ==
  ASSUME NEW f, NEW g, NEW n \in Nat, Agree(f, g, n), NEW E, Spells(E, f, n)
  PROVE  Spells(E, g, n)
<1>1. FileEnd(f, n) = FileEnd(g, n)
  BY EndAgree, Zenon
<1>2. QED
  BY <1>1, Zenon DEF Agree, Spells

(* An earlier reading of a log is a prefix of a later one.                 *)
LEMMA SpellsPrefix ==
  ASSUME NEW f \in Seq(Segment), NEW n \in 0..Len(f), NEW m \in 0..n,
         NEW E \in Seq(RecordedEvent), NEW D \in Seq(RecordedEvent),
         Spells(D, f, m), Spells(E, f, n)
  PROVE  Len(D) <= Len(E) /\ \A p \in 1..Len(D) : D[p] = E[p]
<1>1. \A i \in 1..n : f[i].first \in Nat /\ f[i].events \in Seq(RecordedEvent)
  BY SegmentFields
<1>2. \A p \in 1..Len(D) : p <= Len(E) /\ D[p] = E[p]
  <2>1. SUFFICES ASSUME NEW p \in 1..Len(D) PROVE p <= Len(E) /\ D[p] = E[p]
    BY Zenon
  <2>2. PICK i \in 1..m : f[i].first < p /\ p <= EndOf(f[i])
    BY Zenon DEF Spells
  <2>3. PICK k \in 1..Len(f[i].events) : p = f[i].first + k
    <3>1. p - f[i].first \in 1..Len(f[i].events)
      BY <1>1, <2>2, SMTT(30) DEF EndOf
    <3>2. p = f[i].first + (p - f[i].first)
      BY <1>1, <2>2
    <3>3. QED
      BY <3>1, <3>2, Zenon
  <2>4. D[p] = f[i].events[k] /\ E[p] = f[i].events[k] /\ p <= Len(E)
    <3>1. i \in 1..n
      OBVIOUS
    <3>2. D[f[i].first + k] = f[i].events[k]
      BY Zenon DEF Spells
    <3>3. E[f[i].first + k] = f[i].events[k] /\ f[i].first + k <= Len(E)
      BY <3>1, Zenon DEF Spells
    <3>4. QED
      BY <2>3, <3>2, <3>3, Zenon
  <2>5. QED
    BY <2>4, Zenon
<1>3. Len(D) <= Len(E)
  <2>1. CASE Len(D) = 0
    BY <2>1
  <2>2. CASE Len(D) # 0
    BY <1>2, <2>2
  <2>3. QED
    BY <2>1, <2>2, Zenon
<1>4. QED
  BY <1>2, <1>3, Zenon

(* Reading one more segment that starts where the others end.              *)
LEMMA SpellsExtend ==
  ASSUME NEW f \in Seq(Segment), NEW n \in 0..(Len(f) - 1),
         NEW E \in Seq(RecordedEvent), Spells(E, f, n),
         f[n+1].first = Len(E),
         NEW D, D = E \o f[n+1].events
  PROVE  Spells(D, f, n + 1)
<1>1. \A i \in 1..(n+1) : /\ f[i].first \in Nat
                          /\ f[i].events \in Seq(RecordedEvent)
                          /\ Len(f[i].events) \in Nat
  BY SegmentFields
<1>2. n + 1 \in 1..Len(f)
  OBVIOUS
<1>3. /\ D \in Seq(RecordedEvent)
      /\ Len(D) = Len(E) + Len(f[n+1].events)
      /\ \A p \in 1..Len(E) : D[p] = E[p]
      /\ \A k \in 1..Len(f[n+1].events) : D[Len(E) + k] = f[n+1].events[k]
  BY <1>1, <1>2
<1>4. Len(D) = FileEnd(f, n + 1)
  BY <1>1, <1>2, <1>3 DEF FileEnd, EndOf
<1>5. \A i \in 1..(n+1) : \A k \in 1..Len(f[i].events) :
        f[i].first + k <= Len(D) /\ D[f[i].first + k] = f[i].events[k]
  <2>1. SUFFICES ASSUME NEW i \in 1..(n+1), NEW k \in 1..Len(f[i].events)
                 PROVE  /\ f[i].first + k <= Len(D)
                        /\ D[f[i].first + k] = f[i].events[k]
    BY Zenon
  <2>2. CASE i = n + 1
    <3>1. D[Len(E) + k] = f[i].events[k] /\ Len(E) + k <= Len(D)
      BY <1>1, <1>3, <2>2
    <3>2. QED
      BY <2>2, <3>1, Zenon
  <2>3. CASE i # n + 1
    <3>1. i \in 1..n
      BY <2>3
    <3>2. f[i].first + k <= Len(E) /\ E[f[i].first + k] = f[i].events[k]
      BY <3>1, Zenon DEF Spells
    <3>3. f[i].first + k \in 1..Len(E)
      <4>1. f[i].first \in Nat /\ k \in Nat /\ k >= 1
        BY <1>1
      <4>2. QED
        BY <3>2, <4>1, SMTT(30)
    <3>4. D[f[i].first + k] = E[f[i].first + k]
      BY <1>3, <3>3, Zenon
    <3>5. PICK e \in Nat, d \in Nat : e = Len(E) /\ d = Len(D)
      <4>1. Len(E) \in Nat /\ Len(D) \in Nat
        BY <1>3
      <4>2. QED
        BY <4>1, Zenon
    <3>6. PICK l \in Nat : l = Len(f[n+1].events)
      <4>1. n + 1 \in 1..(n+1)
        OBVIOUS
      <4>2. QED
        BY <1>1, <4>1, Zenon
    <3>7. e <= d
      BY <1>3, <3>5, <3>6
    <3>8. PICK q : q = f[i].first + k
      BY Zenon
    <3>9. q \in 1..e /\ q <= d
      BY <3>3, <3>5, <3>7, <3>8
    <3>10. QED
      BY <3>2, <3>4, <3>5, <3>8, <3>9, Zenon
  <2>4. QED
    BY <2>2, <2>3, Zenon
<1>6. \A p \in 1..Len(D) : \E i \in 1..(n+1) :
        f[i].first < p /\ p <= EndOf(f[i])
  <2>1. SUFFICES ASSUME NEW p \in 1..Len(D)
                 PROVE  \E i \in 1..(n+1) : f[i].first < p /\ p <= EndOf(f[i])
    BY Zenon
  <2>2. CASE p \in 1..Len(E)
    BY <2>2, SMTT(30) DEF Spells
  <2>3. CASE p \notin 1..Len(E)
    <3>1. f[n+1].first < p /\ p <= EndOf(f[n+1])
      BY <1>1, <1>2, <1>3, <2>3 DEF EndOf
    <3>2. QED
      BY <1>2, <3>1
  <2>4. QED
    BY <2>2, <2>3, Zenon
<1>7. QED
  BY <1>4, <1>5, <1>6, Zenon DEF Spells

(* Reading one more segment moves its stream on and no other.              *)
LEMMA StreamEndExtend ==
  ASSUME TypeOK, NEW f \in Seq(Segment), NEW n \in 0..(Len(f) - 1),
         \A s \in StreamIds : StreamEnd(f, n, s, NextVersion(s)),
         Len(f[n+1].events) > 0 =>
           f[n+1].events[1].stream_version = NextVersion(f[n+1].stream)
  PROVE  \A s \in StreamIds :
            StreamEnd(f, n + 1, s, NextVersion(s) +
                        IF s = f[n+1].stream THEN Len(f[n+1].events) ELSE 0)
<1>1. SUFFICES ASSUME NEW s \in StreamIds
               PROVE  StreamEnd(f, n + 1, s, NextVersion(s) +
                        IF s = f[n+1].stream THEN Len(f[n+1].events) ELSE 0)
  BY Zenon
<1>2. n + 1 \in 1..Len(f) /\ NextVersion(s) \in Nat
  <2>1. NextVersion(s) \in Nat
    BY DEF TypeOK, NextVersion
  <2>2. QED
    BY <2>1
<1>3. Len(f[n+1].events) \in Nat
  BY <1>2, SegmentFields, Zenon
<1>4. CASE HasStream(f[n+1], s)
  BY <1>2, <1>3, <1>4, SMTT(30) DEF StreamEnd, HasStream
<1>5. CASE ~HasStream(f[n+1], s)
  <2>1. NextVersion(s) + (IF s = f[n+1].stream THEN Len(f[n+1].events) ELSE 0)
          = NextVersion(s)
    BY <1>2, <1>3, <1>5 DEF HasStream
  <2>2. StreamEnd(f, n, s, NextVersion(s))
    BY Zenon
  <2>3. CASE NextVersion(s) = 0 /\ \A j \in 1..n : ~HasStream(f[j], s)
    <3>1. \A j \in 1..(n+1) : ~HasStream(f[j], s)
      BY <1>5, <2>3
    <3>2. QED
      BY <2>1, <2>3, <3>1, Zenon DEF StreamEnd
  <2>4. CASE \E j \in 1..n :
               /\ HasStream(f[j], s)
               /\ \A i \in (j+1)..n : ~HasStream(f[i], s)
               /\ NextVersion(s) =
                    f[j].events[1].stream_version + Len(f[j].events)
    <3>1. PICK j \in 1..n :
               /\ HasStream(f[j], s)
               /\ \A i \in (j+1)..n : ~HasStream(f[i], s)
               /\ NextVersion(s) =
                    f[j].events[1].stream_version + Len(f[j].events)
      BY <2>4, Zenon
    <3>2. j \in 1..(n+1) /\ \A i \in (j+1)..(n+1) : ~HasStream(f[i], s)
      BY <1>5, <3>1
    <3>3. QED
      BY <2>1, <3>1, <3>2, Zenon DEF StreamEnd
  <2>5. QED
    BY <2>2, <2>3, <2>4, Zenon DEF StreamEnd
<1>6. QED
  BY <1>4, <1>5, Zenon

(* The version a stream has reached is determined by the segments.         *)
LEMMA StreamEndUnique ==
  ASSUME NEW f, NEW n \in Nat, NEW s, NEW v, NEW w,
         StreamEnd(f, n, s, v), StreamEnd(f, n, s, w)
  PROVE  v = w
<1>1. CASE \A j \in 1..n : ~HasStream(f[j], s)
  BY <1>1, Zenon DEF StreamEnd
<1>2. CASE \E j \in 1..n : HasStream(f[j], s)
  <2>1. PICK j \in 1..n : /\ HasStream(f[j], s)
                          /\ \A i \in (j+1)..n : ~HasStream(f[i], s)
                          /\ v = f[j].events[1].stream_version + Len(f[j].events)
    BY <1>2, Zenon DEF StreamEnd
  <2>2. PICK k \in 1..n : /\ HasStream(f[k], s)
                          /\ \A i \in (k+1)..n : ~HasStream(f[i], s)
                          /\ w = f[k].events[1].stream_version + Len(f[k].events)
    BY <1>2, Zenon DEF StreamEnd
  <2>3. j = k
    <3>1. ~(j < k)
      BY <2>1, <2>2
    <3>2. ~(k < j)
      BY <2>1, <2>2
    <3>3. QED
      BY <3>1, <3>2
  <2>4. QED
    BY <2>1, <2>2, <2>3, Zenon
<1>3. QED
  BY <1>1, <1>2, Zenon

(* The elements of a concatenation.                                        *)
LEMMA ConcatElements ==
  ASSUME NEW S, NEW a \in Seq(S), NEW b \in Seq(S)
  PROVE  /\ a \o b \in Seq(S)
         /\ Len(a \o b) = Len(a) + Len(b)
         /\ \A j \in 1..Len(a) : (a \o b)[j] = a[j]
         /\ \A k \in 1..Len(b) : (a \o b)[Len(a) + k] = b[k]
OBVIOUS

(* What pushing a batch does to the position lists.                        *)
LEMMA PushedLists ==
  ASSUME TypeOK, NEW s \in StreamIds, NEW evs \in Seq(RecordedEvent),
         streams' = Pushed(s, evs)
  PROVE  /\ DOMAIN streams' = DOMAIN streams \cup {s}
         /\ \A t \in DOMAIN streams \ {s} : streams'[t] = streams[t]
         /\ Len(streams'[s]) = NextVersion(s) + Len(evs)
         /\ \A j \in 1..NextVersion(s) : streams'[s][j] = streams[s][j]
         /\ \A k \in 1..Len(evs) :
               streams'[s][NextVersion(s) + k] = evs[k].global_position
<1> DEFINE old == IF s \in DOMAIN streams THEN streams[s] ELSE <<>>
           new == [k \in 1..Len(evs) |-> evs[k].global_position]
<1>1. DOMAIN streams' = DOMAIN streams \cup {s}
  BY Zenon DEF Pushed
<1>2. \A t \in DOMAIN streams \ {s} : streams'[t] = streams[t]
  <2>1. SUFFICES ASSUME NEW t \in DOMAIN streams \ {s} PROVE streams'[t] = streams[t]
    BY Zenon
  <2>2. streams'[t] = streams[t] \o <<>> /\ streams[t] \in Seq(Nat)
    BY Zenon DEF Pushed, TypeOK
  <2>3. QED
    BY <2>2
<1>3. streams'[s] = old \o new
  BY Zenon DEF Pushed
<1>4. old \in Seq(Nat) /\ Len(old) = NextVersion(s)
  <2>1. CASE s \in DOMAIN streams
    BY <2>1, Zenon DEF TypeOK, NextVersion
  <2>2. CASE s \notin DOMAIN streams
    <3>1. old = <<>> /\ NextVersion(s) = 0
      BY <2>2, Zenon DEF NextVersion
    <3>2. <<>> \in Seq(Nat) /\ Len(<<>>) = 0
      OBVIOUS
    <3>3. QED
      BY <3>1, <3>2, Zenon
  <2>3. QED
    BY <2>1, <2>2, Zenon
<1>5. /\ new \in Seq(Nat) /\ Len(new) = Len(evs)
      /\ \A k \in 1..Len(evs) : new[k] = evs[k].global_position
  <2>1. \A k \in 1..Len(evs) : evs[k].global_position \in Nat
    BY EventFields, Zenon
  <2>2. QED
    BY <2>1
<1>6. \A j \in 1..NextVersion(s) : old[j] = streams[s][j]
  BY DEF NextVersion
<1> HIDE DEF old, new
<1>7. /\ Len(streams'[s]) = Len(old) + Len(new)
      /\ \A j \in 1..Len(old) : streams'[s][j] = old[j]
      /\ \A k \in 1..Len(new) : streams'[s][Len(old) + k] = new[k]
  <2>1. \A a, b \in Seq(Nat) :
          /\ Len(a \o b) = Len(a) + Len(b)
          /\ \A j \in 1..Len(a) : (a \o b)[j] = a[j]
          /\ \A k \in 1..Len(b) : (a \o b)[Len(a) + k] = b[k]
    BY ConcatElements
  <2>2. old \in Seq(Nat) /\ new \in Seq(Nat)
    BY <1>4, <1>5, Zenon
  <2>3. /\ Len(old \o new) = Len(old) + Len(new)
        /\ \A j \in 1..Len(old) : (old \o new)[j] = old[j]
        /\ \A k \in 1..Len(new) : (old \o new)[Len(old) + k] = new[k]
    BY <2>1, <2>2, Zenon
  <2>4. QED
    BY <1>3, <2>3, Zenon
<1>8. QED
  BY <1>1, <1>2, <1>4, <1>5, <1>6, <1>7, Zenon

(* So its stream's next version grows by the number of events.             *)
LEMMA NextVersionPushed ==
  ASSUME TypeOK, NEW s \in StreamIds, NEW evs \in Seq(RecordedEvent),
         \/ streams' = Pushed(s, evs)
         \/ evs = <<>> /\ streams' = streams
  PROVE  \A t \in StreamIds :
            NextVersion(t)' = NextVersion(t) + IF t = s THEN Len(evs) ELSE 0
<1>0. \A t \in StreamIds : NextVersion(t) \in Nat
  BY DEF NextVersion, TypeOK
<1>1. CASE streams' = Pushed(s, evs)
  <2>1. /\ DOMAIN streams' = DOMAIN streams \cup {s}
        /\ \A t \in DOMAIN streams \ {s} : streams'[t] = streams[t]
        /\ Len(streams'[s]) = NextVersion(s) + Len(evs)
    BY <1>1, PushedLists, Zenon
  <2>2. QED
    <3>1. NextVersion(s)' = NextVersion(s) + Len(evs)
      BY <2>1, Zenon DEF NextVersion
    <3>2. \A t \in StreamIds \ {s} : NextVersion(t)' = NextVersion(t)
      BY <2>1, Zenon DEF NextVersion
    <3>3. QED
      BY <1>0, <3>1, <3>2
<1>2. CASE evs = <<>> /\ streams' = streams
  <2>1. Len(evs) = 0
    BY <1>2, Zenon
  <2>2. streams' = streams
    BY <1>2, Zenon
  <2>3. \A t \in StreamIds : NextVersion(t)' = NextVersion(t)
    BY <2>2, Zenon DEF NextVersion
  <2>4. QED
    BY <1>0, <2>1, <2>3
<1>3. QED
  BY <1>1, <1>2, Zenon

(* Appending a batch that continues the index keeps the index dense.       *)
LEMMA DenseExtend ==
  ASSUME TypeOK, "unsynced" \notin mishaps, GlobalDense, StreamsDense,
         NEW s \in StreamIds, NEW evs \in Seq(RecordedEvent),
         \A k \in 1..Len(evs) :
            /\ evs[k].stream_id = s
            /\ evs[k].global_position = Len(events) + k - 1
            /\ evs[k].stream_version = NextVersion(s) + k - 1,
         events' = events \o evs,
         \/ streams' = Pushed(s, evs)
         \/ evs = <<>> /\ streams' = streams
  PROVE  GlobalDense' /\ StreamsDense'
<1>1. /\ events \in Seq(RecordedEvent) /\ Len(events) \in Nat
      /\ Len(evs) \in Nat /\ NextVersion(s) \in Nat
  BY DEF TypeOK, NextVersion
<1>2. /\ Len(events') = Len(events) + Len(evs)
      /\ \A i \in 1..Len(events) : events'[i] = events[i]
      /\ \A k \in 1..Len(evs) : events'[Len(events) + k] = evs[k]
  <2>1. PICK c : c = events \o evs
    BY Zenon
  <2>2. /\ Len(c) = Len(events) + Len(evs)
        /\ \A i \in 1..Len(events) : c[i] = events[i]
        /\ \A k \in 1..Len(evs) : c[Len(events) + k] = evs[k]
    BY <1>1, <2>1, ConcatElements
  <2>3. events' = c
    BY <2>1, Zenon
  <2>4. QED
    BY <2>2, <2>3, Zenon
<1>3. \A i \in 1..Len(events') :
        \/ i \in 1..Len(events)
        \/ \E k \in 1..Len(evs) : i = Len(events) + k
  <2>1. \A i \in 1..Len(events') :
          i \in 1..Len(events) \/ i - Len(events) \in 1..Len(evs)
    BY <1>1, <1>2
  <2>2. \A i \in 1..Len(events') : i = Len(events) + (i - Len(events))
    BY <1>1, <1>2
  <2>3. QED
    BY <2>1, <2>2, Zenon
<1>4. GlobalDense'
  BY <1>1, <1>2, <1>3, SMTT(30) DEF GlobalDense
<1>5. CASE evs = <<>> /\ streams' = streams
  <2>1. events' = events
    BY <1>1, <1>5
  <2>2. QED
    BY <1>4, <1>5, <2>1 DEF StreamsDense
<1>6. CASE streams' = Pushed(s, evs)
  <2>1. /\ DOMAIN streams' = DOMAIN streams \cup {s}
        /\ \A t \in DOMAIN streams \ {s} : streams'[t] = streams[t]
        /\ Len(streams'[s]) = NextVersion(s) + Len(evs)
        /\ \A j \in 1..NextVersion(s) : streams'[s][j] = streams[s][j]
        /\ \A k \in 1..Len(evs) :
               streams'[s][NextVersion(s) + k] = evs[k].global_position
    BY <1>6, PushedLists, Zenon
  <2>2. ASSUME NEW t \in DOMAIN streams', NEW j \in 1..Len(streams'[t])
        PROVE  /\ streams'[t][j] < Len(events')
               /\ events'[streams'[t][j] + 1].stream_id = t
               /\ events'[streams'[t][j] + 1].stream_version = j - 1
    <3>1. CASE t \in DOMAIN streams /\ j \in 1..Len(streams[t])
      <4>1. streams'[t][j] = streams[t][j]
        <5>1. CASE t = s
          <6>1. NextVersion(s) = Len(streams[s])
            BY <3>1, <5>1, Zenon DEF NextVersion
          <6>2. j \in 1..NextVersion(s)
            BY <3>1, <5>1, <6>1, Zenon
          <6>3. streams'[s][j] = streams[s][j]
            BY <2>1, <6>2, Zenon
          <6>4. QED
            BY <5>1, <6>3, Zenon
        <5>2. CASE t # s
          <6>1. t \in DOMAIN streams \ {s}
            BY <3>1, <5>2, Zenon
          <6>2. streams'[t] = streams[t]
            BY <2>1, <6>1, Zenon
          <6>3. QED
            BY <6>2, Zenon
        <5>3. QED
          BY <5>1, <5>2, Zenon
      <4>2. streams[t][j] \in Nat
        <5>1. streams[t] \in Seq(Nat)
          BY <3>1, Zenon DEF TypeOK
        <5>2. QED
          BY <3>1, <5>1
      <4>3. /\ streams[t][j] < Len(events)
            /\ events[streams[t][j] + 1].stream_id = t
            /\ events[streams[t][j] + 1].stream_version = j - 1
        BY <3>1, Zenon DEF StreamsDense
      <4>4. PICK q \in Nat, n \in Nat, l \in Nat :
              q = streams[t][j] /\ n = Len(events) /\ l = Len(evs)
        BY <1>1, <4>2, Zenon
      <4>5. q + 1 \in 1..n /\ q < n + l
        BY <4>3, <4>4
      <4>6. events'[q + 1] = events[q + 1] /\ q < Len(events')
        BY <1>2, <4>4, <4>5, Zenon
      <4>7. QED
        BY <4>1, <4>3, <4>4, <4>6, Zenon
    <3>2. CASE ~(t \in DOMAIN streams /\ j \in 1..Len(streams[t]))
      <4>1. t = s /\ ~(j \in 1..NextVersion(s))
        BY <2>1, <3>2 DEF NextVersion
      <4>2. PICK k \in 1..Len(evs) : j = NextVersion(s) + k
        <5>1. j - NextVersion(s) \in 1..Len(evs)
          BY <1>1, <2>1, <4>1
        <5>2. j = NextVersion(s) + (j - NextVersion(s))
          BY <1>1
        <5>3. QED
          BY <5>1, <5>2, Zenon
      <4>3. streams'[t][j] = Len(events) + k - 1
        BY <2>1, <4>1, <4>2, Zenon
      <4>4. events'[streams'[t][j] + 1] = evs[k]
        <5>1. (Len(events) + k - 1) + 1 = Len(events) + k
          BY <1>1
        <5>2. events'[Len(events) + k] = evs[k]
          BY <1>2, Zenon
        <5>3. QED
          BY <4>3, <5>1, <5>2, Zenon
      <4>5. PICK n \in Nat, v \in Nat, l \in Nat :
              n = Len(events) /\ v = NextVersion(s) /\ l = Len(evs)
        BY <1>1, Zenon
      <4>6. n + k - 1 \in Nat /\ n + k - 1 < n + l /\ v + k - 1 = (v + k) - 1
        BY <4>5
      <4>7. /\ streams'[t][j] \in Nat /\ streams'[t][j] < Len(events')
            /\ NextVersion(s) + k - 1 = j - 1
        BY <1>2, <4>2, <4>3, <4>5, <4>6, Zenon
      <4>8. QED
        BY <4>1, <4>4, <4>7, Zenon
    <3>3. QED
      BY <3>1, <3>2, Zenon
  <2>3. ASSUME NEW i \in 1..Len(events')
        PROVE  /\ events'[i].stream_id \in DOMAIN streams'
               /\ events'[i].stream_version + 1
                    <= Len(streams'[events'[i].stream_id])
               /\ streams'[events'[i].stream_id][events'[i].stream_version + 1]
                    = i - 1
    <3>1. CASE i \in 1..Len(events)
      <4> DEFINE t == events[i].stream_id
                 j == events[i].stream_version + 1
      <4>1. events'[i] = events[i] /\ t \in StreamIds /\ j \in Nat /\ j >= 1
        BY <1>1, <1>2, <3>1, EventFields
      <4>2. t \in DOMAIN streams /\ j <= Len(streams[t])
            /\ streams[t][j] = i - 1
        BY <3>1, Zenon DEF StreamsDense
      <4>3. Len(streams[t]) \in Nat
        <5>1. streams[t] \in Seq(Nat)
          BY <4>2, Zenon DEF TypeOK
        <5>2. QED
          BY <5>1
      <4> HIDE DEF t, j
      <4>4. CASE t = s
        <5>1. NextVersion(s) = Len(streams[t])
          BY <4>2, <4>4, Zenon DEF NextVersion
        <5>2. j \in 1..NextVersion(s)
          BY <4>1, <4>2, <4>3, <5>1
        <5>3. streams'[t][j] = streams[t][j] /\ j <= Len(streams'[t])
          BY <1>1, <2>1, <4>4, <5>2
        <5>4. QED
          BY <2>1, <4>1, <4>2, <5>3, Zenon DEF t, j
      <4>5. CASE t # s
        <5>1. streams'[t] = streams[t]
          BY <2>1, <4>2, <4>5, Zenon
        <5>2. QED
          BY <2>1, <4>1, <4>2, <5>1, Zenon DEF t, j
      <4>6. QED
        BY <4>4, <4>5, Zenon
    <3>2. CASE \E k \in 1..Len(evs) : i = Len(events) + k
      <4>1. PICK k \in 1..Len(evs) : i = Len(events) + k
        BY <3>2, Zenon
      <4>2. events'[i] = evs[k] /\ evs[k].stream_id = s
        BY <1>2, <4>1, Zenon
      <4>3. evs[k].stream_version + 1 = NextVersion(s) + k
        <5>1. evs[k].stream_version = NextVersion(s) + k - 1
          BY Zenon
        <5>2. PICK v \in Nat : v = NextVersion(s)
          BY <1>1, Zenon
        <5>3. (v + k - 1) + 1 = v + k
          OBVIOUS
        <5>4. QED
          BY <5>1, <5>2, <5>3, Zenon
      <4>4. streams'[s][NextVersion(s) + k] = i - 1
        BY <1>1, <2>1, <4>1
      <4>5. NextVersion(s) + k <= Len(streams'[s]) /\ s \in DOMAIN streams'
        BY <1>1, <2>1
      <4>6. QED
        BY <4>2, <4>3, <4>4, <4>5, Zenon
    <3>3. QED
      BY <1>3, <3>1, <3>2, Zenon
  <2>4. StreamsDense'
    BY <2>2, <2>3, Zenon DEF StreamsDense
  <2>5. QED
    BY <1>4, <2>4, Zenon
<1>7. QED
  BY <1>5, <1>6, Zenon

-----------------------------------------------------------------------------
(* An index of no events is what no segments hold.                         *)
LEMMA NothingRead ==
  ASSUME NEW f, NEW E, E = <<>>
  PROVE  Spells(E, f, 0) /\ \A s : StreamEnd(f, 0, s, 0)
<1>1. Len(E) = 0
  BY Zenon
<1>2. QED
  BY <1>1 DEF Spells, FileEnd, StreamEnd

(* What is committed on the device is the start of the file.               *)
LEMMA DiskAgree ==
  ASSUME TypeOK, DiskInv, NEW n \in 0..Len(disk), GoodTo(disk, n)
  PROVE  n <= Len(file) /\ Agree(disk, file, n) /\ GoodTo(file, n)
<1>1. Len(disk) \in Nat /\ Len(file) \in Nat
  BY DEF TypeOK
<1>2. \A i \in 1..n : i <= Len(file) /\ file[i] = disk[i]
  <2>1. \A i \in 1..n : i \in 1..Len(disk) /\ GoodTo(disk, i)
    BY <1>1 DEF GoodTo
  <2>2. QED
    BY <2>1, Zenon DEF DiskInv
<1>3. Agree(disk, file, n)
  BY <1>2, Zenon DEF Agree
<1>4. n <= Len(file)
  BY <1>1, <1>2
<1>5. QED
  BY <1>3, <1>4, GoodToAgree

(* The types that most steps need.                                         *)
LEMMA LogTypes ==
  ASSUME IndInv
  PROVE  /\ TypeOK
         /\ file \in Seq(Segment) /\ Len(file) \in Nat
         /\ \A i \in 1..Len(file) : file[i] \in Segment
         /\ disk \in Seq(Segment) /\ Len(disk) \in Nat
         /\ offset \in Nat
         /\ events \in Seq(RecordedEvent) /\ Len(events) \in Nat
         /\ seen \in Seq(RecordedEvent)
         /\ batch.stream \in StreamIds /\ batch.events \in Seq(RecordedEvent)
         /\ batch.extent \in Extents \cup {Nothing}
<1>1. TypeOK
  BY Zenon DEF IndInv
<1>2. /\ file \in Seq(Segment) /\ disk \in Seq(Segment) /\ offset \in Nat
      /\ events \in Seq(RecordedEvent) /\ seen \in Seq(RecordedEvent)
  BY <1>1, Zenon DEF TypeOK
<1>3. /\ batch.stream \in StreamIds /\ batch.events \in Seq(RecordedEvent)
      /\ batch.extent \in Extents \cup {Nothing}
  BY <1>1, Zenon DEF TypeOK
<1>4. Len(file) \in Nat /\ Len(disk) \in Nat /\ Len(events) \in Nat
  BY <1>2
<1>5. \A i \in 1..Len(file) : file[i] \in Segment
  BY <1>2
<1>6. QED
  BY <1>1, <1>2, <1>3, <1>4, <1>5, Zenon

-----------------------------------------------------------------------------
(* What a step keeps that leaves a part of the state alone.  A mishap is   *)
(* never taken back.                                                       *)
LEMMA FileFrame ==
  ASSUME IndInv, UNCHANGED <<file, disk>>, mishaps \subseteq mishaps'
  PROVE  ShapeInv' /\ DiskInv' /\ FollowInv'
<1>1. ShapeInv /\ DiskInv /\ FollowInv
  BY Zenon DEF IndInv
<1>2. QED
  BY <1>1, Zenon DEF ShapeInv, DiskInv, FollowInv

LEMMA AckedFrame ==
  ASSUME IndInv, UNCHANGED <<disk, acked>>, mishaps \subseteq mishaps'
  PROVE  AckedInv'
<1>1. AckedInv
  BY Zenon DEF IndInv
<1>2. QED
  BY <1>1, Zenon DEF AckedInv

LEMMA IndexFrame ==
  ASSUME IndInv, UNCHANGED <<events, streams>>, mishaps \subseteq mishaps'
  PROVE  GlobalDense' /\ StreamsDense'
<1>1. GlobalDense /\ StreamsDense
  BY Zenon DEF IndInv
<1>2. QED
  BY <1>1 DEF GlobalDense, StreamsDense

LEMMA ReadersFrame ==
  ASSUME IndInv, pc' \in Running => pc \in Running,
         UNCHANGED <<events, seen, acked>>, mishaps \subseteq mishaps'
  PROVE  ReadsSurvive' /\ AckedSurvive'
<1>1. ReadsSurvive /\ AckedSurvive
  BY Zenon DEF IndInv
<1>2. QED
  BY <1>1, Zenon DEF ReadsSurvive, AckedSurvive

LEMMA OpenedFrame ==
  ASSUME IndInv, opened' = opened \/ opened' # "CorruptRecord",
         mishaps \subseteq mishaps'
  PROVE  CrashNeverCorrupts'
<1>1. CrashNeverCorrupts
  BY Zenon DEF IndInv
<1>2. QED
  BY <1>1, Zenon DEF CrashNeverCorrupts

(* A step of open that leaves the files alone and is not its last.         *)
LEMMA OpeningFrame ==
  ASSUME IndInv, pc \notin Running, pc' \notin Running,
         UNCHANGED <<file, disk, seen, acked>>, mishaps \subseteq mishaps'
  PROVE  /\ ShapeInv' /\ DiskInv' /\ FollowInv' /\ AckedInv'
         /\ BatchInv' /\ TailInv' /\ RunInv' /\ SeenInv'
         /\ ReadsSurvive' /\ AckedSurvive'
<1>1. TailInv /\ SeenInv
  BY Zenon DEF IndInv
<1>2. ShapeInv' /\ DiskInv' /\ FollowInv' /\ AckedInv'
  BY FileFrame, AckedFrame, Zenon
<1>3. BatchInv' /\ RunInv' /\ ReadsSurvive' /\ AckedSurvive'
  BY Zenon DEF BatchInv, InFlight, RunInv, ReadsSurvive, AckedSurvive, Running
<1>4. TailInv'
  BY <1>1, Zenon DEF TailInv
<1>5. SeenInv'
  BY <1>1, Zenon DEF SeenInv
<1>6. QED
  BY <1>2, <1>3, <1>4, <1>5, Zenon

(* The process stops: its index is gone, and readers remember what they    *)
(* could see, all of which is on the device.                               *)
LEMMA StopSafe ==
  ASSUME IndInv, Stop
  PROVE  /\ pc' = "down" /\ UNCHANGED <<opened, acked, mishaps>>
         /\ IdleInv' /\ BatchInv' /\ ScanInv' /\ RunInv'
         /\ GlobalDense' /\ StreamsDense' /\ ReadsSurvive' /\ AckedSurvive'
         /\ CrashNeverCorrupts'
         /\ mishaps = {} =>
              \E m \in 0..Len(disk) : GoodTo(disk, m) /\ Spells(seen', disk, m)
<1>1. /\ pc' = "down" /\ UNCHANGED <<opened, acked, mishaps>>
      /\ offset' = 0 /\ events' = <<>> /\ streams' = NoStreams
      /\ seen' = IF pc \in Running THEN events ELSE seen
  BY Zenon DEF Stop, answers
<1>2. Len(events') = 0 /\ DOMAIN streams' = {}
  BY <1>1, Zenon DEF NoStreams
<1>3. IdleInv' /\ BatchInv' /\ ScanInv' /\ RunInv' /\ CrashNeverCorrupts'
  BY <1>1, ZenonT(60)
     DEF IndInv, IdleInv, BatchInv, ScanInv, RunInv, CrashNeverCorrupts,
     Scanning, Running, InFlight
<1>4. GlobalDense' /\ StreamsDense' /\ ReadsSurvive' /\ AckedSurvive'
  BY <1>1, <1>2
     DEF GlobalDense, StreamsDense, ReadsSurvive, AckedSurvive, Running
<1>5. ASSUME mishaps = {}
      PROVE  \E m \in 0..Len(disk) : GoodTo(disk, m) /\ Spells(seen', disk, m)
  <2>1. CASE pc \in Running
    <3>1. Settled <= Len(disk) /\ \A i \in 1..Settled : disk[i] = file[i]
      BY <1>5, <2>1, Zenon DEF IndInv, SeenInv
    <3>2. GoodTo(file, Settled)
      BY <1>5, <2>1, Zenon DEF IndInv, TailInv
    <3>3. Spells(events, file, Settled)
      BY <1>5, <2>1, <3>2, Zenon DEF IndInv, RunInv
    <3>4. Settled \in Nat /\ Len(disk) \in Nat
      <4>1. Len(file) \in Nat /\ Len(disk) \in Nat
        BY LogTypes, Zenon
      <4>2. InFlight /\ batch.extent # Nothing => Len(file) > 0
        BY Zenon DEF IndInv, BatchInv
      <4>3. QED
        BY <4>1, <4>2 DEF Settled
    <3>5. Agree(file, disk, Settled) /\ Settled \in 0..Len(disk)
      BY <3>1, <3>4 DEF Agree
    <3>6. GoodTo(disk, Settled)
      BY <3>2, <3>4, <3>5, GoodToAgree
    <3>7. Spells(seen', disk, Settled)
      BY <1>1, <2>1, <3>3, <3>4, <3>5, SpellsAgree, Zenon
    <3>8. QED
      BY <3>5, <3>6, <3>7, Zenon
  <2>2. CASE pc \notin Running
    BY <1>1, <1>5, <2>2, Zenon DEF IndInv, SeenInv
  <2>3. QED
    BY <2>1, <2>2, Zenon
<1>6. QED
  BY <1>1, <1>3, <1>4, <1>5, Zenon

(* The process is gone and the page cache is not.                          *)
LEMMA ProcessCrashSafe == ASSUME IndInv, TypeOK', ProcessCrash PROVE IndInv'
<1> USE DEF media, header
<1>1. Stop /\ UNCHANGED <<hdr, hdrSynced, linked, file, disk>>
  BY Zenon DEF ProcessCrash
<1>2. /\ pc' = "down" /\ UNCHANGED <<opened, acked, mishaps>>
      /\ IdleInv' /\ BatchInv' /\ ScanInv' /\ RunInv'
      /\ GlobalDense' /\ StreamsDense' /\ ReadsSurvive' /\ AckedSurvive'
      /\ CrashNeverCorrupts'
      /\ mishaps = {} =>
           \E m \in 0..Len(disk) : GoodTo(disk, m) /\ Spells(seen', disk, m)
  BY <1>1, StopSafe, Zenon
<1>3. HeaderInv' /\ ShapeInv' /\ DiskInv' /\ TailInv' /\ FollowInv' /\ AckedInv'
  BY <1>1, <1>2 DEF IndInv, HeaderInv, ShapeInv, DiskInv, TailInv, FollowInv,
     AckedInv, Creating, Scanning, Running
<1>4. SeenInv'
  BY <1>1, <1>2, ZenonT(60) DEF SeenInv, Running
<1>5. QED
  BY <1>2, <1>3, <1>4, Zenon DEF IndInv

(* What a power loss may leave of a log: its first k segments, and perhaps *)
(* some bytes of the next one.                                             *)
CutAt(g, f, k) ==
  /\ k <= Len(g) /\ Len(g) <= k + 1 /\ Agree(f, g, k)
  /\ Len(g) = k + 1 =>
       /\ k < Len(f)
       /\ g[k+1].extent # Whole
       /\ g[k+1].stream = f[k+1].stream /\ g[k+1].first = f[k+1].first
       /\ g[k+1].events = f[k+1].events /\ g[k+1].rot = f[k+1].rot

(* The log after a power loss is that of the last fsync or is cut.         *)
LEMMA PowerLossFile ==
  ASSUME TypeOK, PowerLoss
  PROVE  file' = disk \/ \E k \in 0..Len(file) : CutAt(file', file, k)
<1>1. file \in Seq(Segment) /\ Len(file) \in Nat
  BY DEF TypeOK
<1>2. CASE file' = <<>>
  <2>1. Len(file') = 0
    BY <1>2, Zenon
  <2>2. CutAt(file', file, 0)
    BY <2>1 DEF CutAt, Agree
  <2>3. QED
    BY <1>1, <2>2
<1>3. CASE \E k \in 0..Len(file) : file' = SubSeq(file, 1, k)
  <2>1. PICK k \in 0..Len(file) : file' = SubSeq(file, 1, k)
    BY <1>3
  <2>2. Len(file') = k /\ Agree(file, file', k)
    BY <1>1, <2>1 DEF Agree
  <2>3. CutAt(file', file, k)
    BY <2>2 DEF CutAt
  <2>4. QED
    BY <2>3, Zenon
<1>4. CASE \E k \in 0..Len(file) : k < Len(file) /\ TornAfter(k)
  <2>1. PICK k \in 0..Len(file) : k < Len(file) /\ TornAfter(k)
    BY <1>4
  <2>2. PICK e \in Extents :
          /\ e < file[k+1].extent
          /\ file' = Append(SubSeq(file, 1, k), [file[k+1] EXCEPT !.extent = e])
    BY <2>1, Zenon DEF TornAfter
  <2> DEFINE t == [file[k+1] EXCEPT !.extent = e]
  <2>3. k + 1 \in 1..Len(file) /\ file[k+1] \in Segment
    BY <1>1, <2>1
  <2>4. /\ t \in Segment /\ t.extent = e
        /\ t.stream = file[k+1].stream /\ t.first = file[k+1].first
        /\ t.events = file[k+1].events /\ t.rot = file[k+1].rot
    BY <2>3, Zenon DEF Segment
  <2>5. e # Whole
    BY <2>2, <2>3 DEF Segment, Extents
  <2>6. /\ SubSeq(file, 1, k) \in Seq(Segment) /\ Len(SubSeq(file, 1, k)) = k
        /\ \A i \in 1..k : SubSeq(file, 1, k)[i] = file[i]
    BY <1>1, <2>1
  <2> HIDE DEF t
  <2>7. /\ Len(file') = k + 1 /\ file'[k+1] = t
        /\ \A i \in 1..k : file'[i] = file[i]
    BY <2>2, <2>4, <2>6 DEF t
  <2>8. CutAt(file', file, k)
    BY <2>1, <2>4, <2>5, <2>7 DEF CutAt, Agree
  <2>9. QED
    BY <2>8, Zenon
<1>5. QED
  BY <1>1, <1>2, <1>3, <1>4 DEF PowerLoss

(* A power loss takes no committed batch off the device, unless the        *)
(* directory entry was never written.                                      *)
LEMMA PowerLossKeeps ==
  ASSUME TypeOK, HeaderInv, DiskInv, PowerLoss, linked \/ disk = <<>>,
         NEW n \in 0..Len(disk), GoodTo(disk, n)
  PROVE  n <= Len(disk') /\ Agree(disk, disk', n) /\ GoodTo(disk', n)
<1>1. /\ file \in Seq(Segment) /\ Len(file) \in Nat
      /\ disk \in Seq(Segment) /\ Len(disk) \in Nat /\ disk' = file'
  BY SMTT(30) DEF TypeOK, PowerLoss
<1>2. CASE n = 0
  <2>1. file' = disk \/ \E k \in 0..Len(file) : CutAt(file', file, k)
    BY PowerLossFile, Zenon
  <2>2. 0 <= Len(file')
    BY <1>1, <2>1 DEF CutAt
  <2>3. QED
    BY <1>1, <1>2, <2>2 DEF Agree, GoodTo
<1>3. CASE n # 0
  <2>1. disk # <<>> /\ linked
    <3>1. Len(disk) # 0
      BY <1>1, <1>3
    <3>2. disk # <<>>
      BY <3>1
    <3>3. QED
      BY <3>2, Zenon
  <2>2. hdr = Complete /\ hdrSynced
    BY <2>1, Zenon DEF HeaderInv
  <2>3. hdr' = Complete
    BY <2>1, <2>2, Zenon DEF PowerLoss
  <2>4. n <= Len(file) /\ Agree(disk, file, n)
    BY DiskAgree, Zenon
  <2>5. CASE file' = disk
    BY <1>1, <2>5 DEF Agree
  <2>6. CASE \E m \in 0..Len(file) : \E k \in m..Len(file) :
               /\ Shared(m)
               /\ \/ file' = SubSeq(file, 1, k)
                  \/ k < Len(file) /\ TornAfter(k)
    <3>0. PICK m \in 0..Len(file) : \E k \in m..Len(file) :
               /\ Shared(m)
               /\ \/ file' = SubSeq(file, 1, k)
                  \/ k < Len(file) /\ TornAfter(k)
      BY <2>6, Zenon
    <3>1. PICK k \in m..Len(file) :
               /\ Shared(m)
               /\ \/ file' = SubSeq(file, 1, k)
                  \/ k < Len(file) /\ TornAfter(k)
      BY <3>0, Zenon
    <3>2. n <= m
      <4>1. SUFFICES ASSUME m < n PROVE FALSE
        BY <1>1
      <4>2. m + 1 \in 1..n /\ m < Len(file) /\ m < Len(disk)
        BY <1>1, <2>4, <4>1
      <4>3. file[m+1] # disk[m+1]
        BY <3>1, <4>2, Zenon DEF Shared
      <4>4. QED
        BY <2>4, <4>2, <4>3, Zenon DEF Agree
    <3>3. n <= k /\ k \in 0..Len(file)
      BY <1>1, <3>1, <3>2
    <3>4. k <= Len(file') /\ \A i \in 1..k : file'[i] = file[i]
      <4>1. CASE file' = SubSeq(file, 1, k)
        BY <1>1, <3>3, <4>1
      <4>2. CASE k < Len(file) /\ TornAfter(k)
        <5>1. PICK e \in Extents :
                file' = Append(SubSeq(file, 1, k), [file[k+1] EXCEPT !.extent = e])
          BY <4>2, ZenonT(60) DEF TornAfter
        <5>2. file[k+1] \in Segment
          BY <1>1, <3>3, <4>2
        <5>3. [file[k+1] EXCEPT !.extent = e] \in Segment
          BY <5>2, Zenon DEF Segment
        <5>4. /\ SubSeq(file, 1, k) \in Seq(Segment) /\ Len(SubSeq(file, 1, k)) = k
              /\ \A i \in 1..k : SubSeq(file, 1, k)[i] = file[i]
          BY <1>1, <3>3
        <5>5. QED
          BY <5>1, <5>3, <5>4
      <4>3. QED
        BY <3>1, <4>1, <4>2, Zenon
    <3>5. n <= Len(file') /\ Agree(disk, file', n)
      <4>1. file' \in Seq(Segment)
        BY PowerLossType, Zenon DEF TypeOK
      <4>2. QED
        BY <1>1, <2>4, <3>3, <3>4, <4>1 DEF Agree
    <3>6. QED
      BY <1>1, <3>5, GoodToAgree
  <2>7. QED
    BY <1>1, <2>1, <2>3, <2>5, <2>6 DEF PowerLoss
<1>4. QED
  BY <1>2, <1>3, Zenon

-----------------------------------------------------------------------------
(* The steps of append and of open preserve IndInv: the write and its      *)
(* rollback; the two ways in, the scan of the log and the cut of its torn  *)
(* tail.                                                                   *)

(* A step that leaves the store as it is, apart from an answer.            *)
LEMMA QuietSafe ==
  ASSUME IndInv, TypeOK',
         UNCHANGED <<pc, media, offset, index, batch, history>>,
         opened' = opened \/ opened' = "InvalidHeader"
  PROVE  IndInv'
<1> USE DEF media, header, index, history
<1>1. HeaderInv' /\ IdleInv'
  BY Zenon DEF IndInv, HeaderInv, IdleInv, Creating, Scanning
<1>2. BatchInv'
  BY Zenon DEF IndInv, BatchInv, InFlight, NextVersion
<1>3. TailInv' /\ SeenInv'
  BY Zenon DEF IndInv, TailInv, SeenInv, Settled, InFlight
<1>4. ScanInv' /\ RunInv'
  BY ZenonT(30) DEF IndInv, ScanInv, RunInv, Settled, InFlight, Scanning, NextVersion
<1>5. /\ ShapeInv' /\ DiskInv' /\ FollowInv' /\ AckedInv'
      /\ GlobalDense' /\ StreamsDense' /\ ReadsSurvive' /\ AckedSurvive'
      /\ CrashNeverCorrupts'
  BY FileFrame, AckedFrame, IndexFrame, ReadersFrame, OpenedFrame, Zenon
<1>6. QED
  BY <1>1, <1>2, <1>3, <1>4, <1>5, Zenon DEF IndInv

(* A new batch continues the index.                                        *)
LEMMA AppendStartSafe ==
  ASSUME IndInv, TypeOK', NEW s \in StreamIds, NEW v, NEW p \in Proposals,
         AppendStart(s, v, p)
  PROVE  IndInv'
<1> USE DEF media, header, index, answers
<1>1. /\ pc = "ready" /\ pc' = "write"
      /\ UNCHANGED <<hdr, hdrSynced, linked, file, disk, offset, events, streams,
                     opened, seen, acked, mishaps>>
  BY Zenon DEF AppendStart
<1>2. Settled' = Settled
  BY <1>1, Zenon DEF AppendStart, Settled, InFlight
<1>3. HeaderInv' /\ IdleInv' /\ ShapeInv' /\ DiskInv' /\ AckedInv' /\ FollowInv'
  <2>1. HeaderInv' /\ IdleInv'
    BY <1>1, Zenon DEF IndInv, HeaderInv, IdleInv, Creating, Scanning, Running
  <2>2. QED
    BY <1>1, <2>1, FileFrame, AckedFrame, Zenon
<1>4. BatchInv'
  <2>1. /\ Len(Recorded(s, p)) = Len(p) /\ NextVersion(s) \in Nat
        /\ Len(events) \in Nat /\ Len(p) \in Nat
        /\ Recorded(s, p) \in Seq(RecordedEvent)
    <3>1. TypeOK
      BY Zenon DEF IndInv
    <3>2. Len(events) \in Nat
      BY <3>1 DEF TypeOK
    <3>3. p \in Seq(ProposedEvent)
      BY ProposalsAssumption, Zenon
    <3>4. QED
      BY <3>1, <3>2, <3>3, RecordedType
  <2>2. \A k \in 1..Len(p) :
          /\ Recorded(s, p)[k].stream_id = s
          /\ Recorded(s, p)[k].global_position = Len(events) + k - 1
          /\ Recorded(s, p)[k].stream_version = NextVersion(s) + k - 1
    BY Zenon DEF Recorded, Numbered
  <2>3. /\ batch'.stream = s /\ batch'.first = Len(events)
        /\ batch'.events = Recorded(s, p) /\ batch'.extent = Nothing
        /\ batch'.rot = "none"
    BY Zenon DEF AppendStart
  <2>4. Len(p) > 0 => Recorded(s, p)[1].stream_version = NextVersion(s)
    BY <2>1, <2>2, SMTT(30)
  <2>5. Shaped(batch')
    BY <2>1, <2>2, <2>3, <2>4 DEF Shaped
  <2>6. NextVersion(s)' = NextVersion(s)
    BY <1>1, Zenon DEF NextVersion
  <2>7. QED
    BY <1>1, <2>1, <2>3, <2>4, <2>5, <2>6 DEF BatchInv, InFlight, NextVersion
<1>5. TailInv' /\ SeenInv'
  BY <1>1, <1>2, Zenon DEF IndInv, TailInv, SeenInv, Running
<1>6. ScanInv' /\ RunInv'
  BY <1>1, <1>2, Zenon
     DEF IndInv, ScanInv, RunInv, Scanning, NextVersion, Running
<1>7. GlobalDense' /\ StreamsDense' /\ ReadsSurvive' /\ AckedSurvive'
      /\ CrashNeverCorrupts'
  BY <1>1, IndexFrame, ReadersFrame, OpenedFrame, Zenon DEF Running
<1>8. QED
  BY <1>3, <1>4, <1>5, <1>6, <1>7, Zenon DEF IndInv

(* A piece of the batch reaches the file, behind everything else in it.    *)
LEMMA WriteSafe ==
  ASSUME IndInv, TypeOK', NEW extent \in Extents, Write(extent)
  PROVE  IndInv'
<1> USE DEF header, index, answers, history
<1>1. /\ pc = "write" /\ pc' \in {"write", "sync"}
      /\ pc' = "write" <=> extent < Whole
      /\ UNCHANGED <<hdr, hdrSynced, linked, disk, offset, events, streams,
                     opened, seen, acked, mishaps>>
  BY DEF Write, AfterWrite, Extents
<1>2. /\ batch'.stream = batch.stream /\ batch'.first = batch.first
      /\ batch'.events = batch.events /\ batch'.extent = extent
      /\ batch'.rot = batch.rot
  BY Zenon DEF Write, IndInv, TypeOK
<1>3. /\ file \in Seq(Segment) /\ Len(file) \in Nat /\ Len(disk) \in Nat
      /\ file' \in Seq(Segment) /\ Len(file') \in Nat
      /\ batch.extent \in Nat /\ batch.extent < extent
  <2>1. file \in Seq(Segment) /\ disk \in Seq(Segment) /\ file' \in Seq(Segment)
    BY Zenon DEF IndInv, TypeOK
  <2>2. batch.extent \in Extents \cup {Nothing} /\ batch.extent < extent
    BY Zenon DEF IndInv, TypeOK, Write
  <2>3. QED
    BY <2>1, <2>2 DEF Extents
<1>4. /\ Len(file') = Settled + 1 /\ Settled \in Nat
      /\ Agree(file, file', Settled)
      /\ file'[Len(file')] = batch'
      /\ Settled <= Len(file)
  <2>1. CASE batch.extent = Nothing
    <3>1. file' = Append(file, batch') /\ Settled = Len(file)
      BY <2>1, Zenon DEF Write, Settled
    <3>2. QED
      BY <1>3, <3>1 DEF Agree
  <2>2. CASE batch.extent # Nothing
    <3>1. file' = [file EXCEPT ![Len(file)] = batch']
      BY <2>2, Zenon DEF Write
    <3>2. Settled = Len(file) - 1 /\ Len(file) > 0
      BY <1>1, <2>2, Zenon DEF Settled, InFlight, IndInv, BatchInv
    <3>3. Len(file') = Len(file)
      BY <1>3, <3>1
    <3>4. QED
      BY <1>3, <3>1, <3>2, <3>3 DEF Agree
  <2>3. QED
    BY <2>1, <2>2, Zenon
<1>5. Settled' = Settled
  BY <1>1, <1>2, <1>3, <1>4 DEF Settled, InFlight, Extents
<1>7. HeaderInv' /\ IdleInv' /\ AckedInv'
  BY <1>1 DEF IndInv, HeaderInv, IdleInv, AckedInv, Creating, Scanning, Running
<1>8. BatchInv /\ InFlight
  BY <1>1, Zenon DEF IndInv, InFlight
<1>9. Shaped(batch')
  BY <1>2, <1>8, Zenon DEF BatchInv, Shaped
<1>10. ShapeInv'
  <2>1. \A i \in 1..Len(file') : Shaped(file'[i])
    <3>1. \A i \in 1..Settled : Shaped(file'[i])
      BY <1>3, <1>4, SMTT(30) DEF Agree, IndInv, ShapeInv
    <3>2. QED
      BY <1>3, <1>4, <1>9, <3>1
  <2>2. QED
    BY <1>1, <2>1, Zenon DEF IndInv, ShapeInv
<1>11. BatchInv'
  BY <1>1, <1>2, <1>3, <1>4, <1>8, <1>9
     DEF BatchInv, InFlight, NextVersion, Extents
<1>12. DiskInv'
  <2>1. SUFFICES ASSUME NEW n \in 1..Len(disk), GoodTo(disk, n)
                 PROVE  n <= Len(file') /\ file'[n] = disk[n]
    BY <1>1, Zenon DEF DiskInv
  <2>2. n <= Len(file) /\ file[n] = disk[n] /\ Good(file[n])
    BY <2>1 DEF IndInv, DiskInv, GoodTo
  <2>3. n <= Settled
    BY <1>3, <1>4, <1>8, <2>2 DEF Good, Settled, BatchInv, Extents
  <2>4. QED
    BY <1>3, <1>4, <2>2, <2>3 DEF Agree
<1>13. TailInv'
  <2>1. SUFFICES ASSUME mishaps \cap {"torn", "rot"} = {} PROVE TailInv'
    BY <1>1, Zenon DEF TailInv
  <2>2. GoodTo(file, Settled) /\ \A i \in 1..Len(file) : file[i].rot = "none"
    BY <1>1, <2>1, Zenon DEF IndInv, TailInv, Running
  <2>3. GoodTo(file', Settled)
    BY <1>4, <2>2, GoodToAgree
  <2>4. \A i \in 1..(Len(file') - 1) : Good(file'[i])
    BY <1>4, <2>3 DEF GoodTo
  <2>5. \A i \in 1..Len(file') : file'[i].rot = "none"
    <3>1. batch'.rot = "none"
      BY <1>2, <1>8, Zenon DEF BatchInv
    <3>2. \A i \in 1..Settled : file'[i].rot = "none"
      BY <1>3, <1>4, <2>2 DEF Agree
    <3>3. QED
      BY <1>3, <1>4, <3>1, <3>2
  <2>6. QED
    BY <1>1, <1>5, <2>1, <2>3, <2>4, <2>5, Zenon DEF IndInv, TailInv
<1>14. FollowInv'
  <2>1. SUFFICES ASSUME "unsynced" \notin mishaps,
                        NEW i \in 1..Len(file'), GoodTo(file', i)
                 PROVE  Follows(file', i)
    BY <1>1, Zenon DEF FollowInv
  <2>2. CASE i <= Settled
    <3>1. Agree(file, file', i) /\ Agree(file', file, i) /\ i \in 1..Len(file)
      BY <1>3, <1>4, <2>2 DEF Agree
    <3>2. GoodTo(file, i)
      BY <2>1, <3>1, GoodToAgree
    <3>3. Follows(file, i)
      BY <2>1, <3>1, <3>2, Zenon DEF IndInv, FollowInv
    <3>4. QED
      BY <3>1, <3>3, FollowsAgree
  <2>3. CASE i = Settled + 1
    <3>1. GoodTo(file, Settled)
      <4>1. GoodTo(file', Settled)
        BY <1>4, <2>1, <2>3, GoodToLess
      <4>2. QED
        BY <1>4, <4>1, GoodToAgree
    <3>2. /\ Spells(events, file, Settled)
          /\ \A s \in StreamIds : StreamEnd(file, Settled, s, NextVersion(s))
      BY <1>1, <2>1, <3>1, Zenon DEF IndInv, RunInv, Running
    <3>3. /\ Len(events) = FileEnd(file', Settled)
          /\ \A s \in StreamIds : StreamEnd(file', Settled, s, NextVersion(s))
      BY <1>4, <3>2, EndAgree, Zenon DEF Spells
    <3>4. batch.stream \in StreamIds
      BY LogTypes, Zenon
    <3>5. i - 1 = Settled /\ file'[i] = batch'
      BY <1>4, <2>3
    <3>6. QED
      BY <1>2, <1>8, <3>3, <3>4, <3>5, Zenon DEF Follows, BatchInv
  <2>4. QED
    BY <1>3, <1>4, <2>2, <2>3
<1>15. ScanInv'
  BY <1>1, Zenon DEF ScanInv, Scanning
<1>16. RunInv'
  <2>1. SUFFICES ASSUME "unsynced" \notin mishaps, GoodTo(file', Settled)
                 PROVE  /\ Spells(events, file', Settled)
                        /\ \A s \in StreamIds :
                              StreamEnd(file', Settled, s, NextVersion(s))
    BY <1>1, <1>5, Zenon DEF RunInv, NextVersion
  <2>2. GoodTo(file, Settled)
    BY <1>4, <2>1, GoodToAgree
  <2>3. /\ Spells(events, file, Settled)
        /\ \A s \in StreamIds : StreamEnd(file, Settled, s, NextVersion(s))
    BY <1>1, <2>1, <2>2, Zenon DEF IndInv, RunInv, Running
  <2>4. QED
    BY <1>4, <2>3, SpellsAgree, EndAgree, Zenon
<1>17. SeenInv'
  BY <1>1, <1>4, <1>5, Zenon DEF IndInv, SeenInv, Running, Agree
<1>18. GlobalDense' /\ StreamsDense' /\ ReadsSurvive' /\ AckedSurvive'
       /\ CrashNeverCorrupts'
  BY <1>1, IndexFrame, ReadersFrame, OpenedFrame, Zenon DEF Running
<1>19. QED
  BY <1>7, <1>10, <1>11, <1>12, <1>13, <1>14, <1>15, <1>16, <1>17, <1>18, Zenon
     DEF IndInv

(* A write or an fsync fails.  What is in the file stays there: bytes that *)
(* are no batch, or a batch that the index does not know.                  *)
LEMMA AppendFailsSafe ==
  ASSUME IndInv, TypeOK', WriteFails \/ SyncFails
  PROVE  IndInv'
<1> USE DEF media, header, index
<1>1. /\ pc \in {"write", "sync"} /\ pc' = "ready"
      /\ UNCHANGED <<hdr, hdrSynced, linked, file, disk, offset, events, streams,
                     opened, seen, acked>>
      /\ mishaps \subseteq mishaps'
  BY Zenon DEF WriteFails, SyncFails, AppendFails
<1>2. BatchInv /\ InFlight
  BY <1>1, Zenon DEF IndInv, InFlight
<1>3. file \in Seq(Segment) /\ Len(file) \in Nat
  BY LogTypes, Zenon
<1>4. Settled' = Len(file)
  BY <1>1, Zenon DEF Settled, InFlight
<1>5. \/ mishaps' = mishaps /\ batch.extent = Nothing
      \/ /\ mishaps' = mishaps \cup {"torn"} /\ pc = "write"
         /\ batch.extent # Nothing
      \/ mishaps' = mishaps \cup {"unsynced"} /\ pc = "sync"
  <2>1. pc = "write" <=> batch.extent < Whole
    BY <1>2, Zenon DEF BatchInv
  <2>2. QED
    BY <1>1, <2>1, Zenon DEF WriteFails, SyncFails, AppendFails
<1>6. HeaderInv' /\ IdleInv' /\ BatchInv' /\ ScanInv'
  BY <1>1, Zenon
     DEF IndInv, HeaderInv, IdleInv, BatchInv, ScanInv, Creating, Scanning,
     Running, InFlight
<1>7. AckedInv' /\ AckedSurvive' /\ CrashNeverCorrupts'
  BY <1>1, AckedFrame, ReadersFrame, OpenedFrame, Zenon DEF Running
<1>8. ShapeInv' /\ DiskInv' /\ FollowInv' /\ GlobalDense' /\ StreamsDense'
  BY <1>1, FileFrame, IndexFrame, Zenon
<1>9. CASE mishaps' = mishaps /\ batch.extent = Nothing
  <2>1. Settled' = Settled
    BY <1>4, <1>9, Zenon DEF Settled
  <2>2. TailInv' /\ RunInv' /\ SeenInv' /\ ReadsSurvive'
    BY <1>1, <1>9, <2>1, Zenon
       DEF IndInv, TailInv, RunInv, SeenInv, ReadsSurvive,
       Running, NextVersion
  <2>3. QED
    BY <1>6, <1>7, <1>8, <2>2, Zenon DEF IndInv
<1>10. CASE /\ mishaps' = mishaps \cup {"torn"} /\ pc = "write"
            /\ batch.extent # Nothing
  <2>1. TailInv' /\ SeenInv' /\ ReadsSurvive'
    BY <1>10, Zenon DEF TailInv, SeenInv, ReadsSurvive
  <2>2. ~GoodTo(file, Len(file))
    BY <1>2, <1>3, <1>10 DEF BatchInv, GoodTo, Good
  <2>3. RunInv'
    BY <1>1, <1>4, <2>2, Zenon DEF RunInv
  <2>4. QED
    BY <1>6, <1>7, <1>8, <2>1, <2>3, Zenon DEF IndInv
<1>11. CASE mishaps' = mishaps \cup {"unsynced"} /\ pc = "sync"
  <2>1. RunInv' /\ SeenInv' /\ ReadsSurvive'
    BY <1>11, Zenon DEF RunInv, SeenInv, ReadsSurvive
  <2>2. Good(batch) /\ batch.extent # Nothing
    <3>1. batch.extent \in Extents \cup {Nothing}
      BY LogTypes, Zenon
    <3>2. QED
      BY <1>2, <1>11, <3>1 DEF BatchInv, Good, Extents
  <2>3. Settled = Len(file) - 1 /\ file[Len(file)] = batch /\ Len(file) > 0
    BY <1>2, <1>3, <2>2, Zenon DEF BatchInv, Settled
  <2>4. TailInv'
    <3>1. SUFFICES ASSUME mishaps' \cap {"torn", "rot"} = {} PROVE TailInv'
      BY Zenon DEF TailInv
    <3>2. mishaps \cap {"torn", "rot"} = {}
      BY <1>1, <3>1, Zenon
    <3>3. GoodTo(file, Len(file) - 1)
      BY <1>1, <2>3, <3>2, Zenon DEF IndInv, TailInv, Running
    <3>4. GoodTo(file, Len(file))
      BY <1>3, <2>2, <2>3, <3>3 DEF GoodTo
    <3>5. QED
      BY <1>1, <1>4, <3>2, <3>4, Zenon DEF IndInv, TailInv
  <2>5. QED
    BY <1>6, <1>7, <1>8, <2>1, <2>4, Zenon DEF IndInv
<1>12. QED
  BY <1>5, <1>9, <1>10, <1>11, Zenon

(* fsync: the device has what the page cache has.                          *)
LEMMA SyncSafe == ASSUME IndInv, TypeOK', Sync PROVE IndInv'
<1> USE DEF index, answers, history
<1>1. /\ pc = "sync" /\ pc' = "index" /\ disk' = file /\ hdrSynced'
      /\ UNCHANGED <<hdr, linked, file, offset, events, streams, batch,
                     opened, seen, acked, mishaps>>
  BY Zenon DEF Sync
<1>2. file \in Seq(Segment) /\ Len(file) \in Nat /\ Len(disk) \in Nat
  BY LogTypes, Zenon
<1>3. Settled' = Settled
  BY <1>1, Zenon DEF Settled, InFlight
<1>4. HeaderInv' /\ IdleInv' /\ ShapeInv' /\ DiskInv' /\ ScanInv'
  BY <1>1 DEF IndInv, HeaderInv, IdleInv, ShapeInv, DiskInv, ScanInv,
     Creating, Scanning, Running
<1>5. BatchInv'
  BY <1>1, Zenon DEF IndInv, BatchInv, InFlight, NextVersion
<1>6. TailInv' /\ FollowInv' /\ RunInv'
  BY <1>1, <1>3, Zenon
     DEF IndInv, TailInv, FollowInv, RunInv, Running, NextVersion
<1>7. SeenInv'
  <2>1. Settled <= Len(file)
    BY <1>2 DEF Settled
  <2>2. QED
    BY <1>1, <1>3, <2>1, Zenon DEF SeenInv, Running
<1>8. AckedInv'
  <2>1. SUFFICES ASSUME mishaps \cap {"torn", "rot", "unlinked"} = {},
                        NEW e \in acked
                 PROVE  \E i \in 1..Len(file) :
                          /\ GoodTo(file, i)
                          /\ \E k \in 1..Len(file[i].events) : file[i].events[k] = e
    BY <1>1, Zenon DEF AckedInv
  <2>2. PICK i \in 1..Len(disk) :
          /\ GoodTo(disk, i)
          /\ \E k \in 1..Len(disk[i].events) : disk[i].events[k] = e
    BY <2>1, Zenon DEF IndInv, AckedInv
  <2>3. i <= Len(file) /\ Agree(disk, file, i) /\ GoodTo(file, i)
    BY <1>2, <2>2, DiskAgree DEF IndInv
  <2>4. i \in 1..Len(file) /\ file[i] = disk[i]
    BY <1>2, <2>3 DEF Agree
  <2>5. QED
    BY <2>2, <2>3, <2>4, Zenon
<1>9. GlobalDense' /\ StreamsDense' /\ ReadsSurvive' /\ AckedSurvive'
      /\ CrashNeverCorrupts'
  BY <1>1, IndexFrame, ReadersFrame, OpenedFrame, Zenon DEF Running
<1>10. QED
  BY <1>4, <1>5, <1>6, <1>7, <1>8, <1>9, Zenon DEF IndInv

(* What the index spells out after one more batch.                         *)
LEMMA TakenSpells ==
  ASSUME TypeOK, NEW n \in 0..(Len(file) - 1), NEW seg, seg = file[n + 1],
         Spells(events, file, n),
         \A s \in StreamIds : StreamEnd(file, n, s, NextVersion(s)),
         seg.first = Len(events),
         Len(seg.events) > 0 =>
           seg.events[1].stream_version = NextVersion(seg.stream),
         events' = events \o seg.events,
         \/ streams' = Pushed(seg.stream, seg.events)
         \/ seg.events = <<>> /\ streams' = streams
  PROVE  /\ Spells(events', file, n + 1)
         /\ \A s \in StreamIds : StreamEnd(file, n + 1, s, NextVersion(s)')
<1>1. /\ file \in Seq(Segment) /\ Len(file) \in Nat /\ n + 1 \in 1..Len(file)
      /\ events \in Seq(RecordedEvent)
  <2>1. file \in Seq(Segment) /\ events \in Seq(RecordedEvent)
    BY Zenon DEF TypeOK
  <2>2. PICK l \in Nat : l = Len(file)
    BY <2>1
  <2>3. n + 1 \in 1..l
    BY <2>2
  <2>4. QED
    BY <2>1, <2>2, <2>3, Zenon
<1>2. seg.stream \in StreamIds /\ seg.events \in Seq(RecordedEvent)
  BY <1>1, SegmentFields, Zenon
<1>3. Spells(events', file, n + 1)
  BY <1>1, SpellsExtend, Zenon
<1>4. \A s \in StreamIds : StreamEnd(file, n + 1, s, NextVersion(s) +
                               IF s = seg.stream THEN Len(seg.events) ELSE 0)
  BY <1>1, StreamEndExtend, Zenon
<1>5. \A s \in StreamIds : NextVersion(s)' = NextVersion(s) +
                               IF s = seg.stream THEN Len(seg.events) ELSE 0
  BY <1>2, NextVersionPushed, Zenon
<1>6. QED
  BY <1>3, <1>4, <1>5, Zenon

(* A batch that goes on where the index ends leaves it dense.              *)
LEMMA TakenDense ==
  ASSUME TypeOK, GlobalDense, StreamsDense, "unsynced" \notin mishaps,
         UNCHANGED mishaps, NEW seg \in Segment, Shaped(seg),
         seg.first = Len(events),
         Len(seg.events) > 0 =>
           seg.events[1].stream_version = NextVersion(seg.stream),
         events' = events \o seg.events,
         \/ streams' = Pushed(seg.stream, seg.events)
         \/ seg.events = <<>> /\ streams' = streams
  PROVE  GlobalDense' /\ StreamsDense'
<1>1. seg.stream \in StreamIds /\ seg.events \in Seq(RecordedEvent)
  BY Zenon DEF Segment
<1>2. \A k \in 1..Len(seg.events) :
        /\ seg.events[k].stream_id = seg.stream
        /\ seg.events[k].global_position = Len(events) + k - 1
        /\ seg.events[k].stream_version = NextVersion(seg.stream) + k - 1
  <2>1. SUFFICES ASSUME NEW k \in 1..Len(seg.events)
                 PROVE  /\ seg.events[k].stream_id = seg.stream
                        /\ seg.events[k].global_position = Len(events) + k - 1
                        /\ seg.events[k].stream_version
                             = NextVersion(seg.stream) + k - 1
    BY Zenon
  <2>2. Len(seg.events) > 0
    BY <1>1
  <2>3. /\ seg.events[k].stream_id = seg.stream
        /\ seg.events[k].global_position = seg.first + k - 1
        /\ seg.events[k].stream_version = seg.events[1].stream_version + k - 1
    BY Zenon DEF Shaped
  <2>4. QED
    BY <2>2, <2>3, Zenon
<1>3. QED
  BY <1>1, <1>2, DenseExtend, ZenonT(60)

(* The index grows by the batch that is now on the device.                 *)
LEMMA UpdateIndexSafe == ASSUME IndInv, TypeOK', UpdateIndex PROVE IndInv'
<1> USE DEF media, header, bounds
<1>1. /\ pc = "index" /\ pc' = "ready" /\ events' = events \o batch.events
      /\ streams' = Pushed(batch.stream, batch.events)
      /\ acked' = acked \cup {batch.events[k] : k \in 1..Len(batch.events)}
      /\ UNCHANGED <<hdr, hdrSynced, linked, file, disk, offset, opened, seen,
                     mishaps>>
  BY Zenon DEF UpdateIndex
<1>2. /\ TypeOK /\ file \in Seq(Segment) /\ Len(file) \in Nat
      /\ events \in Seq(RecordedEvent) /\ batch.events \in Seq(RecordedEvent)
      /\ batch.stream \in StreamIds /\ seen \in Seq(RecordedEvent)
  BY LogTypes, Zenon
<1>3. /\ BatchInv /\ InFlight /\ disk = file
      /\ batch.extent = Whole /\ Good(batch)
  <2>1. BatchInv /\ InFlight
    BY <1>1, Zenon DEF IndInv, InFlight
  <2>2. batch.extent \in Extents \cup {Nothing}
    BY LogTypes, Zenon
  <2>3. QED
    BY <1>1, <2>1, <2>2 DEF BatchInv, Good, Extents
<1>4. /\ Len(file) > 0 /\ file[Len(file)] = batch
      /\ Settled = Len(file) - 1 /\ Settled' = Len(file)
  BY <1>1, <1>3 DEF BatchInv, Settled, InFlight
<1>5. /\ Len(events') = Len(events) + Len(batch.events)
      /\ \A i \in 1..Len(events) : events'[i] = events[i]
      /\ \A k \in 1..Len(batch.events) : events'[Len(events) + k] = batch.events[k]
  BY <1>1, <1>2, ConcatElements
<1>6. HeaderInv' /\ IdleInv' /\ ShapeInv' /\ BatchInv' /\ DiskInv' /\ ScanInv'
      /\ FollowInv' /\ CrashNeverCorrupts'
  <2>1. HeaderInv'
    BY <1>1, Zenon DEF IndInv, HeaderInv, Creating, Scanning, Running
  <2>2. IdleInv' /\ BatchInv' /\ ScanInv'
    BY <1>1, Zenon DEF IdleInv, BatchInv, ScanInv, Creating, Scanning, InFlight
  <2>3. QED
    BY <1>1, <2>1, <2>2, FileFrame, OpenedFrame, Zenon
<1>7. TailInv'
  <2>1. SUFFICES ASSUME mishaps \cap {"torn", "rot"} = {} PROVE TailInv'
    BY <1>1, Zenon DEF TailInv
  <2>2. GoodTo(file, Len(file) - 1)
    BY <1>1, <1>4, <2>1, Zenon DEF IndInv, TailInv, Running
  <2>3. GoodTo(file, Len(file))
    BY <1>2, <1>3, <1>4, <2>2 DEF GoodTo
  <2>4. QED
    BY <1>1, <1>4, <2>1, <2>3, Zenon DEF IndInv, TailInv
<1>8. RunInv'
  <2>1. SUFFICES ASSUME "unsynced" \notin mishaps, GoodTo(file, Len(file))
                 PROVE  /\ Spells(events', file, Len(file))
                        /\ \A s \in StreamIds :
                              StreamEnd(file, Len(file), s, NextVersion(s)')
    BY <1>1, <1>4, Zenon DEF RunInv
  <2>2. PICK n \in 0..(Len(file) - 1) : n = Settled /\ n + 1 = Len(file)
    BY <1>2, <1>4
  <2>3. GoodTo(file, n)
    BY <1>2, <2>1, <2>2, GoodToLess
  <2>4. /\ Spells(events, file, n)
        /\ \A s \in StreamIds : StreamEnd(file, n, s, NextVersion(s))
    BY <1>1, <2>1, <2>2, <2>3, Zenon DEF IndInv, RunInv, Running
  <2>5. /\ batch = file[n + 1] /\ batch.first = Len(events)
        /\ Len(batch.events) > 0 =>
             batch.events[1].stream_version = NextVersion(batch.stream)
    BY <1>3, <1>4, <2>2, ZenonT(60) DEF BatchInv
  <2>6. QED
    BY <1>1, <1>2, <2>2, <2>4, <2>5, TakenSpells, Zenon
<1>9. SeenInv'
  BY <1>1, <1>3, <1>4 DEF SeenInv, Running
<1>10. AckedInv'
  <2>1. SUFFICES ASSUME mishaps \cap {"torn", "rot", "unlinked"} = {},
                        NEW e \in acked'
                 PROVE  \E i \in 1..Len(disk) :
                          /\ GoodTo(disk, i)
                          /\ \E k \in 1..Len(disk[i].events) : disk[i].events[k] = e
    BY <1>1, ZenonT(60) DEF AckedInv
  <2>2. CASE e \in acked
    BY <2>1, <2>2, Zenon DEF IndInv, AckedInv
  <2>3. CASE \E k \in 1..Len(batch.events) : e = batch.events[k]
    <3>1. mishaps \cap {"torn", "rot"} = {}
      BY <2>1, Zenon
    <3>2. GoodTo(file, Len(file))
      BY <1>1, <1>4, <1>7, <3>1, Zenon DEF TailInv, Running
    <3>3. QED
      BY <1>2, <1>3, <1>4, <2>3, <3>2
  <2>4. QED
    BY <1>1, <2>1, <2>2, <2>3, Zenon
<1>11. GlobalDense' /\ StreamsDense'
  <2>1. CASE "unsynced" \in mishaps
    BY <1>1, <2>1, ZenonT(60) DEF GlobalDense, StreamsDense
  <2>2. CASE "unsynced" \notin mishaps
    <3>1. /\ Shaped(batch) /\ batch.first = Len(events)
          /\ Len(batch.events) > 0 =>
               batch.events[1].stream_version = NextVersion(batch.stream)
      BY <1>3, ZenonT(60) DEF BatchInv
    <3>2. GlobalDense /\ StreamsDense
      BY Zenon DEF IndInv
    <3>3. batch \in Segment
      BY <1>2, <1>4
    <3>4. QED
      BY <1>1, <1>2, <2>2, <3>1, <3>2, <3>3, TakenDense, Zenon
  <2>3. QED
    BY <2>1, <2>2, Zenon
<1>12. ReadsSurvive'
  <2>1. ReadsSurvive /\ Len(events) \in Nat /\ Len(batch.events) \in Nat
    BY <1>2 DEF IndInv
  <2>2. QED
    BY <1>1, <1>5, <2>1 DEF ReadsSurvive, Running
<1>13. AckedSurvive'
  <2>1. SUFFICES ASSUME mishaps \cap {"torn", "rot", "unlinked"} = {},
                        NEW e \in acked'
                 PROVE  \E i \in 1..Len(events') : events'[i] = e
    BY <1>1, ZenonT(60) DEF AckedSurvive
  <2>2. Len(events) \in Nat /\ Len(batch.events) \in Nat
    BY <1>2
  <2>3. CASE e \in acked
    <3>1. PICK i \in 1..Len(events) : events[i] = e
      BY <1>1, <2>1, <2>3, Zenon DEF IndInv, AckedSurvive, Running
    <3>2. i \in 1..Len(events') /\ events'[i] = e
      BY <1>5, <2>2, <3>1
    <3>3. QED
      BY <3>2, Zenon
  <2>4. CASE \E k \in 1..Len(batch.events) : e = batch.events[k]
    <3>1. PICK k \in 1..Len(batch.events) : e = batch.events[k]
      BY <2>4, Zenon
    <3>2. Len(events) + k \in 1..Len(events') /\ events'[Len(events) + k] = e
      BY <1>5, <2>2, <3>1
    <3>3. QED
      BY <3>2, Zenon
  <2>5. QED
    BY <1>1, <2>1, <2>3, <2>4, ZenonT(60)
<1>14. QED
  BY <1>6, <1>7, <1>8, <1>9, <1>10, <1>11, <1>12, <1>13, Zenon DEF IndInv

-----------------------------------------------------------------------------
(* The file is there, with no header yet.                                  *)
LEMMA OpenCreateSafe == ASSUME IndInv, TypeOK', OpenCreate PROVE IndInv'
<1> USE DEF index, answers, history
<1>1. /\ pc = "down" /\ pc' = "create" /\ hdr = Absent /\ hdr' = Short
      /\ UNCHANGED <<hdrSynced, linked, file, disk, offset, events, streams,
                     batch, opened, seen, acked, mishaps>>
  BY Zenon DEF OpenCreate
<1>2. HeaderInv'
  BY <1>1 DEF IndInv, HeaderInv, Creating, Scanning, Running
<1>3. IdleInv' /\ ScanInv'
  BY <1>1, Zenon DEF IndInv, IdleInv, ScanInv, Creating, Scanning
<1>4. pc \notin Running /\ pc' \notin Running /\ mishaps \subseteq mishaps'
  BY <1>1, Zenon DEF Running
<1>5. QED
  BY <1>1, <1>2, <1>3, <1>4, OpeningFrame, IndexFrame, OpenedFrame, Zenon
     DEF IndInv

(* The header, its fsync and the fsync of the directory, on an empty log.  *)
LEMMA CreateSafe == ASSUME IndInv, TypeOK', Create PROVE IndInv'
<1> USE DEF index, bounds, history
<1>1. /\ Creating /\ hdr' = Complete
      /\ pc' \in {"create_sync", "create_dir", "ready"}
      /\ pc' = "create_dir" => hdrSynced'
      /\ pc' = "ready" <=> pc = "create_dir"
      /\ linked' <=> pc = "create_dir"
      /\ hdrSynced => hdrSynced'
      /\ opened' = IF pc' = "ready" THEN "ok" ELSE opened
      /\ UNCHANGED <<file, disk, offset, events, streams, batch, seen, acked,
                     mishaps>>
  <2>1. pc \in {"create", "create_sync", "create_dir"} /\ pc' = CreateNext[pc]
    BY Zenon DEF Create, CreateNext
  <2>2. /\ pc = "create" => pc' = "create_sync"
        /\ pc = "create_sync" => pc' = "create_dir"
        /\ pc = "create_dir" => pc' = "ready"
    BY <2>1 DEF CreateNext
  <2>3. (linked' <=> pc = "create_dir")
        /\ (hdrSynced' <=> hdrSynced \/ pc = "create_sync")
    BY ZenonT(60) DEF Create, IndInv, TypeOK
  <2>4. /\ hdr' = Complete
        /\ opened' = IF pc' = "ready" THEN "ok" ELSE opened
        /\ UNCHANGED <<file, disk, offset, events, streams, batch, seen, acked,
                       mishaps>>
    BY Zenon DEF Create
  <2>5. QED
    BY <2>1, <2>2, <2>3, <2>4, Zenon DEF Creating
<1>2. /\ file = <<>> /\ disk = <<>> /\ offset = 0 /\ events = <<>>
      /\ streams = NoStreams
  BY <1>1, Zenon DEF IndInv, HeaderInv, IdleInv
<1>3. Len(file) = 0 /\ Len(disk) = 0 /\ Len(events) = 0
  BY <1>2, Zenon
<1>4. HeaderInv'
  BY <1>1, <1>2 DEF IndInv, HeaderInv, Creating, Scanning, Running
<1>5. IdleInv' /\ ScanInv' /\ BatchInv'
  BY <1>1, <1>2, Zenon
     DEF IdleInv, ScanInv, BatchInv, Creating, Scanning, InFlight
<1>6. ShapeInv' /\ DiskInv' /\ FollowInv'
  BY <1>1, FileFrame, Zenon
<1>7. Settled' = 0 \/ pc' \notin Running
  BY <1>1, <1>3, Zenon DEF Settled, InFlight, Running
<1>8. TailInv'
  <2>1. \A i \in 1..0 : FALSE
    OBVIOUS
  <2>2. GoodTo(file, 0)
    BY <2>1, Zenon DEF GoodTo
  <2>3. QED
    BY <1>1, <1>7, <2>2, Zenon DEF IndInv, TailInv
<1>9. RunInv'
  <2>1. SUFFICES ASSUME Settled' = 0
                 PROVE  /\ Spells(events, file, 0)
                        /\ \A s \in StreamIds : StreamEnd(file, 0, s, NextVersion(s)')
    BY <1>1, <1>7, Zenon DEF RunInv
  <2>2. \A s \in StreamIds : NextVersion(s)' = 0
    BY <1>1, <1>2, Zenon DEF NextVersion, NoStreams
  <2>3. QED
    BY <1>2, <2>2, NothingRead, Zenon
<1>10. mishaps = {} => Len(seen) = 0
  <2>1. SUFFICES ASSUME mishaps = {} PROVE Len(seen) = 0
    BY Zenon
  <2>2. PICK m \in 0..Len(disk) : Spells(seen, disk, m)
    BY <1>1, <2>1, Zenon DEF IndInv, SeenInv, Creating, Running
  <2>3. QED
    BY <1>3, <2>2 DEF Spells, FileEnd
<1>11. SeenInv'
  <2>1. CASE pc' \in Running
    BY <1>1, <1>3, <1>7, <2>1 DEF SeenInv
  <2>2. CASE pc' \notin Running
    BY <1>1, <2>2, Zenon DEF IndInv, SeenInv, Creating, Running
  <2>3. QED
    BY <2>1, <2>2, Zenon
<1>12. AckedInv' /\ CrashNeverCorrupts'
  BY <1>1, AckedFrame, OpenedFrame, Zenon
<1>13. GlobalDense' /\ StreamsDense'
  BY <1>1, IndexFrame, Zenon
<1>14. ReadsSurvive'
  BY <1>1, <1>3, <1>10 DEF ReadsSurvive
<1>15. AckedSurvive'
  BY <1>1, <1>3, <1>12 DEF AckedSurvive, AckedInv
<1>16. QED
  BY <1>4, <1>5, <1>6, <1>8, <1>9, <1>11, <1>12, <1>13, <1>14, <1>15, Zenon
     DEF IndInv

(* Recovery starts at the first segment with an empty index.               *)
LEMMA OpenExistingSafe == ASSUME IndInv, TypeOK', OpenExisting PROVE IndInv'
<1> USE DEF media, header, index, answers
<1>1. /\ pc = "down" /\ pc' = "scan" /\ hdr = Complete
      /\ UNCHANGED <<hdr, hdrSynced, linked, file, disk, offset, events, streams,
                     batch, opened, seen, acked>>
      /\ mishaps' = IF linked THEN mishaps ELSE mishaps \cup {"unlinked"}
  BY Zenon DEF OpenExisting
<1>2. mishaps \subseteq mishaps'
  BY <1>1, Zenon
<1>3. HeaderInv' /\ IdleInv'
  BY <1>1, Zenon DEF IndInv, HeaderInv, IdleInv, Creating, Scanning, Running
<1>4. pc \notin Running /\ pc' \notin Running
  BY <1>1, Zenon DEF Running
<1>5. ScanInv'
  <2>1. offset = 0 /\ events = <<>> /\ streams = NoStreams
    BY <1>1, Zenon DEF IndInv, IdleInv
  <2>2. \A s \in StreamIds : NextVersion(s)' = 0
    BY <1>1, <2>1, Zenon DEF NextVersion, NoStreams
  <2>3. Spells(events, file, 0) /\ \A s : StreamEnd(file, 0, s, 0)
    BY <2>1, NothingRead, ZenonT(60)
  <2>4. Len(file) \in Nat /\ GoodTo(file, 0)
    BY DEF IndInv, TypeOK, GoodTo
  <2>5. QED
    BY <1>1, <2>1, <2>2, <2>3, <2>4 DEF ScanInv
<1>6. QED
  BY <1>1, <1>2, <1>3, <1>4, <1>5, OpeningFrame, IndexFrame, OpenedFrame, Zenon
     DEF IndInv

(* Every event of the batches read so far is in the index.                 *)
LEMMA TakenFound ==
  ASSUME ScanInv, Scanning, NEW n \in Nat, n = offset, n < Len(file),
         Len(file) \in Nat, NEW seg, seg = file[n + 1],
         events \in Seq(RecordedEvent), seg.events \in Seq(RecordedEvent),
         events' = events \o seg.events
  PROVE  \A i \in 1..(n + 1) : \A k \in 1..Len(file[i].events) :
            \E p \in 1..Len(events') : events'[p] = file[i].events[k]
<1>1. SUFFICES ASSUME NEW i \in 1..(n + 1), NEW k \in 1..Len(file[i].events)
               PROVE  \E p \in 1..Len(events') : events'[p] = file[i].events[k]
  BY Zenon
<1>2. /\ Len(events) \in Nat /\ Len(seg.events) \in Nat
      /\ Len(events') = Len(events) + Len(seg.events)
      /\ \A q \in 1..Len(events) : events'[q] = events[q]
      /\ \A q \in 1..Len(seg.events) : events'[Len(events) + q] = seg.events[q]
  BY ConcatElements
<1>3. CASE i = n + 1
  <2>1. k \in 1..Len(seg.events) /\ file[i].events[k] = seg.events[k]
    BY <1>3, Zenon
  <2>2. Len(events) + k \in 1..Len(events')
    BY <1>2, <2>1
  <2>3. QED
    BY <1>2, <2>1, <2>2, Zenon
<1>4. CASE i \in 1..n
  <2>1. PICK p \in 1..Len(events) : events[p] = file[i].events[k]
    BY <1>4, Zenon DEF ScanInv
  <2>2. p \in 1..Len(events') /\ events'[p] = events[p]
    BY <1>2
  <2>3. QED
    BY <2>1, <2>2, Zenon
<1>5. i = n + 1 \/ i \in 1..n
  OBVIOUS
<1>6. QED
  BY <1>3, <1>4, <1>5, Zenon

(* The batch that recovery reads next goes on where the index ends.        *)
LEMMA NextFits ==
  ASSUME IndInv, pc = "scan", offset \in 0..(Len(file) - 1),
         GoodTo(file, offset + 1), "unsynced" \notin mishaps
  PROVE  /\ Spells(events, file, offset)
         /\ \A s \in StreamIds : StreamEnd(file, offset, s, NextVersion(s))
         /\ file[offset + 1].first = Len(events)
         /\ Len(file[offset + 1].events) > 0 =>
              file[offset + 1].events[1].stream_version
                = NextVersion(file[offset + 1].stream)
<1>1. TypeOK /\ file \in Seq(Segment) /\ Len(file) \in Nat
  BY LogTypes, Zenon
<1>2. PICK seg \in Segment : seg = file[offset + 1]
  BY <1>1
<1>3. ScanInv /\ Scanning /\ FollowInv
  BY Zenon DEF IndInv, Scanning
<1>4. /\ Spells(events, file, offset)
      /\ \A s \in StreamIds : StreamEnd(file, offset, s, NextVersion(s))
  BY <1>3, Zenon DEF ScanInv
<1>5. offset + 1 \in 1..Len(file) /\ (offset + 1) - 1 = offset
  BY <1>1
<1>6. Follows(file, offset + 1)
  BY <1>3, <1>5, Zenon DEF FollowInv
<1>7. /\ seg.first = FileEnd(file, offset)
      /\ Len(seg.events) > 0 =>
           StreamEnd(file, offset, seg.stream, seg.events[1].stream_version)
  BY <1>2, <1>5, <1>6, Zenon DEF Follows
<1>8. Len(seg.events) > 0 => seg.events[1].stream_version = NextVersion(seg.stream)
  BY <1>1, <1>2, <1>4, <1>5, <1>7, SegmentFields, StreamEndUnique
<1>9. seg.first = Len(events)
  BY <1>4, <1>7, Zenon DEF Spells
<1>10. QED
  BY <1>2, <1>4, <1>8, <1>9, Zenon

(* Recovery takes one more batch into the index.                           *)
LEMMA ScanCommitSafe == ASSUME IndInv, TypeOK', ScanCommit PROVE IndInv'
<1> USE DEF media, header, answers, bounds, history
<1>1. PICK seg : seg = file[offset + 1]
  BY Zenon
<1>2. /\ pc = "scan" /\ pc' = "scan" /\ offset < Len(file) /\ Good(seg)
      /\ events' = events \o seg.events /\ offset' = offset + 1
      /\ \/ streams' = Pushed(seg.stream, seg.events)
         \/ seg.events = <<>> /\ streams' = streams
      /\ UNCHANGED <<hdr, hdrSynced, linked, file, disk, batch, opened, seen,
                     acked, mishaps>>
  BY <1>1, Zenon DEF ScanCommit, Decodes, Good
<1>3. /\ TypeOK /\ file \in Seq(Segment) /\ Len(file) \in Nat /\ offset \in Nat
      /\ events \in Seq(RecordedEvent) /\ Len(events) \in Nat
  BY LogTypes, Zenon
<1>4. /\ offset + 1 \in 1..Len(file) /\ offset \in 0..(Len(file) - 1)
      /\ seg \in Segment /\ seg.stream \in StreamIds
      /\ seg.events \in Seq(RecordedEvent) /\ Len(seg.events) \in Nat
  BY <1>1, <1>2, <1>3, SegmentFields
<1>5. ScanInv /\ Scanning /\ GoodTo(file, offset)
  BY <1>2, Zenon DEF IndInv, ScanInv, Scanning
<1>6. GoodTo(file, offset + 1)
  BY <1>1, <1>2, <1>3, <1>5 DEF GoodTo
<1>7. HeaderInv' /\ IdleInv'
  BY <1>2, Zenon DEF IndInv, HeaderInv, IdleInv, Creating, Scanning, Running
<1>8. pc \notin Running /\ pc' \notin Running /\ mishaps \subseteq mishaps'
  BY <1>2, Zenon DEF Running
<1>9. GlobalDense' /\ StreamsDense'
  <2>1. CASE "unsynced" \in mishaps
    BY <1>2, <2>1, ZenonT(60) DEF GlobalDense, StreamsDense
  <2>2. CASE "unsynced" \notin mishaps
    <3>1. Shaped(seg)
      BY <1>1, <1>4, Zenon DEF IndInv, ShapeInv
    <3>2. GlobalDense /\ StreamsDense
      BY DEF IndInv
    <3>3. QED
      BY <1>1, <1>2, <1>3, <1>4, <1>6, <2>2, <3>1, <3>2, NextFits, TakenDense, Zenon
  <2>3. QED
    BY <2>1, <2>2
<1>10. ScanInv'
  <2>1. \A i \in 1..(offset + 1) : \A k \in 1..Len(file[i].events) :
          \E p \in 1..Len(events') : events'[p] = file[i].events[k]
    BY <1>1, <1>2, <1>3, <1>4, <1>5, TakenFound, Zenon
  <2>2. "unsynced" \notin mishaps =>
          /\ Spells(events', file, offset + 1)
          /\ \A s \in StreamIds : StreamEnd(file, offset + 1, s, NextVersion(s)')
    <3>1. HAVE "unsynced" \notin mishaps
    <3>2. /\ Spells(events, file, offset)
          /\ \A s \in StreamIds : StreamEnd(file, offset, s, NextVersion(s))
          /\ seg.first = Len(events)
          /\ Len(seg.events) > 0 =>
               seg.events[1].stream_version = NextVersion(seg.stream)
      BY <1>1, <1>2, <1>4, <1>6, <3>1, NextFits, Zenon
    <3>3. QED
      BY <1>1, <1>2, <1>3, <1>4, <3>2, TakenSpells, Zenon
  <2>3. Scanning' => offset' <= Len(file') /\ GoodTo(file', offset')
    BY <1>2, <1>4, <1>6
  <2>4. pc' # "truncate_sync" /\ pc' # "truncate"
    BY <1>2, Zenon
  <2>5. QED
    BY <1>2, <2>1, <2>2, <2>3, <2>4, Zenon DEF ScanInv
<1>11. QED
  BY <1>2, <1>7, <1>8, <1>9, <1>10, OpeningFrame, OpenedFrame, Zenon DEF IndInv

(* Recovery refuses the file; a crash alone does not make it.              *)
LEMMA ScanRefuseSafe == ASSUME IndInv, TypeOK', ScanRefuse PROVE IndInv'
<1> USE DEF media, header, bounds, history
<1>1. /\ pc = "scan" /\ pc' = "down" /\ offset < Len(file)
      /\ ~Good(file[offset + 1])
      /\ HeaderAfter(offset + 1) \/ PerhapsHeaderAfter(offset + 1)
      /\ offset' = 0 /\ events' = <<>> /\ streams' = NoStreams
      /\ opened' = "CorruptRecord"
      /\ UNCHANGED <<hdr, hdrSynced, linked, file, disk, batch, seen, acked,
                     mishaps>>
  BY Zenon DEF ScanRefuse, Decodes, Good
<1>2. HeaderInv' /\ IdleInv' /\ ScanInv'
  BY <1>1, Zenon
     DEF IndInv, HeaderInv, IdleInv, ScanInv, Creating, Scanning, Running
<1>3. pc \notin Running /\ pc' \notin Running /\ mishaps \subseteq mishaps'
  BY <1>1, Zenon DEF Running
<1>4. Len(events') = 0 /\ DOMAIN streams' = {}
  BY <1>1, Zenon DEF NoStreams
<1>5. GlobalDense' /\ StreamsDense'
  BY <1>1, <1>4 DEF GlobalDense, StreamsDense
<1>6. CrashNeverCorrupts'
  <2>1. SUFFICES ASSUME mishaps \cap {"torn", "rot"} = {} PROVE FALSE
    BY <1>1, Zenon DEF CrashNeverCorrupts
  <2>2. \A i \in 1..(Len(file) - 1) : Good(file[i])
    BY <2>1, Zenon DEF IndInv, TailInv
  <2>3. Len(file) \in Nat /\ offset \in Nat
    BY LogTypes, Zenon
  <2>4. offset + 1 = Len(file)
    BY <1>1, <2>2, <2>3
  <2>5. QED
    BY <1>1, <2>3, <2>4 DEF HeaderAfter, PerhapsHeaderAfter
<1>7. QED
  BY <1>1, <1>2, <1>3, <1>5, <1>6, OpeningFrame, Zenon DEF IndInv

(* Recovery decides to cut the file before a bad segment.                  *)
LEMMA ScanCutSafe == ASSUME IndInv, TypeOK', ScanCut PROVE IndInv'
<1> USE DEF media, header, index, answers, bounds, history
<1>1. /\ pc = "scan" /\ pc' = "truncate" /\ offset < Len(file)
      /\ ~Good(file[offset + 1])
      /\ UNCHANGED <<hdr, hdrSynced, linked, file, disk, offset, events, streams,
                     batch, opened, seen, acked, mishaps>>
  BY Zenon DEF ScanCut, Decodes, Good
<1>2. HeaderInv' /\ IdleInv'
  BY <1>1, Zenon DEF IndInv, HeaderInv, IdleInv, Creating, Scanning, Running
<1>3. pc \notin Running /\ pc' \notin Running /\ mishaps \subseteq mishaps'
  BY <1>1, Zenon DEF Running
<1>4. ScanInv'
  <2>1. ScanInv /\ Scanning /\ \A s : NextVersion(s)' = NextVersion(s)
    BY <1>1, Zenon DEF IndInv, Scanning, NextVersion
  <2>2. QED
    BY <1>1, <2>1, Zenon DEF ScanInv
<1>5. QED
  BY <1>1, <1>2, <1>3, <1>4, OpeningFrame, IndexFrame, OpenedFrame, Zenon
     DEF IndInv

(* When recovery has consumed the whole file, readers find what they and   *)
(* the writers knew.                                                       *)
LEMMA Recovered ==
  ASSUME TypeOK, ScanInv, DiskInv, SeenInv, AckedInv, Scanning,
         offset = Len(file)
  PROVE  /\ mishaps = {} => /\ Len(seen) <= Len(events)
                            /\ \A i \in 1..Len(seen) : seen[i] = events[i]
         /\ mishaps \cap {"torn", "rot", "unlinked"} = {} =>
              \A e \in acked : \E i \in 1..Len(events) : events[i] = e
<1>1. /\ file \in Seq(Segment) /\ Len(file) \in Nat /\ Len(disk) \in Nat
      /\ events \in Seq(RecordedEvent) /\ seen \in Seq(RecordedEvent)
  BY DEF TypeOK
<1>2. ASSUME mishaps = {}
      PROVE  /\ Len(seen) <= Len(events)
             /\ \A i \in 1..Len(seen) : seen[i] = events[i]
  <2>1. PICK m \in 0..Len(disk) : GoodTo(disk, m) /\ Spells(seen, disk, m)
    BY <1>2, Zenon DEF SeenInv, Scanning, Running
  <2>2. m <= Len(file) /\ Agree(disk, file, m)
    BY <2>1, DiskAgree, Zenon
  <2>3. Spells(seen, file, m)
    BY <1>1, <2>1, <2>2, SpellsAgree
  <2>4. Spells(events, file, Len(file))
    BY <1>2, Zenon DEF ScanInv
  <2>5. m \in 0..Len(file)
    BY <1>1, <2>2
  <2>6. QED
    BY <1>1, <2>3, <2>4, <2>5, SpellsPrefix
<1>3. ASSUME mishaps \cap {"torn", "rot", "unlinked"} = {}, NEW e \in acked
      PROVE  \E i \in 1..Len(events) : events[i] = e
  <2>1. PICK i \in 1..Len(disk) :
          GoodTo(disk, i) /\ \E k \in 1..Len(disk[i].events) : disk[i].events[k] = e
    BY <1>3, Zenon DEF AckedInv
  <2>2. i <= Len(file) /\ Agree(disk, file, i)
    BY <1>1, <2>1, DiskAgree
  <2>3. i \in 1..offset /\ file[i] = disk[i]
    BY <1>1, <2>2 DEF Agree
  <2>4. PICK k \in 1..Len(file[i].events) : file[i].events[k] = e
    BY <2>1, <2>3, Zenon
  <2>5. QED
    BY <1>2, <2>3, <2>4, Zenon DEF ScanInv
<1>4. QED
  BY <1>2, <1>3, Zenon

(* Recovery ends at the end of the file.                                   *)
LEMMA ScanEndSafe == ASSUME IndInv, TypeOK', ScanEnd PROVE IndInv'
<1> USE DEF media, header, index, bounds
<1>1. /\ pc = "scan" /\ pc' = "ready" /\ offset = Len(file) /\ offset' = 0
      /\ opened' = "ok"
      /\ mishaps' = IF Flushed THEN mishaps ELSE mishaps \cup {"unflushed"}
      /\ UNCHANGED <<hdr, hdrSynced, linked, file, disk, events, streams, batch,
                     seen, acked>>
  BY Zenon DEF ScanEnd
<1>2. mishaps \subseteq mishaps' /\ (mishaps' = {} => Flushed)
  BY <1>1, Zenon
<1>3. Settled' = Len(file) /\ Scanning /\ ScanInv
  BY <1>1, Zenon DEF Settled, InFlight, Scanning, IndInv
<1>4. GoodTo(file, Len(file))
  BY <1>1, <1>3, Zenon DEF ScanInv
<1>5. HeaderInv' /\ IdleInv' /\ BatchInv' /\ ScanInv'
  BY <1>1, Zenon
     DEF IndInv, HeaderInv, IdleInv, BatchInv, ScanInv, Creating, Scanning,
     Running, InFlight
<1>6. TailInv'
  BY <1>1, <1>2, <1>3, <1>4, ZenonT(60) DEF IndInv, TailInv
<1>7. RunInv'
  BY <1>1, <1>2, <1>3, Zenon DEF ScanInv, RunInv, NextVersion
<1>8. SeenInv'
  BY <1>1, <1>2, <1>3, Zenon DEF SeenInv, Flushed, Running
<1>9. /\ ShapeInv' /\ DiskInv' /\ FollowInv' /\ AckedInv'
      /\ GlobalDense' /\ StreamsDense' /\ CrashNeverCorrupts'
  BY <1>1, <1>2, FileFrame, AckedFrame, IndexFrame, OpenedFrame, Zenon
<1>10. ReadsSurvive' /\ AckedSurvive'
  BY <1>1, <1>2, <1>3, Recovered, ZenonT(60)
     DEF IndInv, ReadsSurvive, AckedSurvive
<1>11. QED
  BY <1>5, <1>6, <1>7, <1>8, <1>9, <1>10, Zenon DEF IndInv

-----------------------------------------------------------------------------
(* The other steps, what follows from IndInv, and the refinement.          *)

(* The file is cut behind the last batch of the index.                     *)
LEMMA TruncateSafe == ASSUME IndInv, TypeOK', Truncate PROVE IndInv'
<1> USE DEF header, index, answers, bounds, history
<1>1. /\ pc = "truncate" /\ pc' = "truncate_sync"
      /\ file' = SubSeq(file, 1, offset)
      /\ UNCHANGED <<hdr, hdrSynced, linked, disk, offset, events, streams, batch,
                     opened, seen, acked, mishaps>>
  BY Zenon DEF Truncate, TruncateTo
<1>2. /\ TypeOK /\ file \in Seq(Segment) /\ Len(file) \in Nat /\ offset \in Nat
      /\ Len(disk) \in Nat
  BY LogTypes, Zenon
<1>3. /\ ScanInv /\ Scanning /\ offset < Len(file) /\ ~Good(file[offset + 1])
      /\ GoodTo(file, offset)
  <2>1. ScanInv /\ Scanning
    BY <1>1, Zenon DEF IndInv, Scanning
  <2>2. QED
    BY <1>1, <2>1, Zenon DEF ScanInv
<1>4. Len(file') = offset /\ Agree(file, file', offset)
  BY <1>1, <1>2, <1>3 DEF Agree
<1>5. GoodTo(file', offset)
  BY <1>2, <1>3, <1>4, GoodToAgree
<1>6. HeaderInv'
  BY <1>1, Zenon DEF IndInv, HeaderInv, Creating, Scanning, Running
<1>7. IdleInv' /\ BatchInv' /\ AckedInv' /\ SeenInv'
  <2>1. IdleInv' /\ BatchInv' /\ AckedInv'
    BY <1>1, AckedFrame, Zenon DEF IdleInv, BatchInv, Creating, InFlight
  <2>2. SeenInv'
    BY <1>1, Zenon DEF IndInv, SeenInv, Running
  <2>3. QED
    BY <2>1, <2>2, Zenon
<1>8. ShapeInv'
  <2>1. /\ \A i \in 1..Len(file) : Shaped(file[i])
        /\ \A i \in 1..Len(disk) : Shaped(disk[i])
    BY Zenon DEF IndInv, ShapeInv
  <2>2. \A i \in 1..Len(file') : i \in 1..Len(file) /\ file'[i] = file[i]
    BY <1>2, <1>3, <1>4 DEF Agree
  <2>3. \A i \in 1..Len(file') : Shaped(file'[i])
    BY <2>1, <2>2, Zenon
  <2>4. QED
    BY <1>1, <2>1, <2>3, ZenonT(60) DEF ShapeInv
<1>9. DiskInv'
  <2>1. SUFFICES ASSUME NEW n \in 1..Len(disk), GoodTo(disk, n)
                 PROVE  n <= Len(file') /\ file'[n] = disk[n]
    BY <1>1, ZenonT(60) DEF DiskInv
  <2>2. n <= Len(file) /\ Agree(disk, file, n) /\ GoodTo(file, n)
    BY <1>2, <2>1, DiskAgree DEF IndInv
  <2>3. n <= offset
    BY <1>2, <1>3, <2>2 DEF GoodTo
  <2>4. QED
    BY <1>2, <1>4, <2>2, <2>3 DEF Agree
<1>10. TailInv'
  <2>1. \A i \in 1..Len(file') : Good(file'[i])
    BY <1>4, <1>5, Zenon DEF GoodTo
  <2>2. \A i \in 1..(Len(file') - 1) : Good(file'[i])
    BY <1>2, <1>4, <2>1
  <2>3. QED
    BY <1>1, <2>1, <2>2, ZenonT(60) DEF IndInv, TailInv, Good, Running
<1>11. FollowInv'
  <2>1. SUFFICES ASSUME "unsynced" \notin mishaps, NEW i \in 1..offset
                 PROVE  Follows(file', i)
    BY <1>1, <1>4, ZenonT(60) DEF FollowInv
  <2>2. i \in 1..Len(file) /\ GoodTo(file, i) /\ Agree(file, file', i)
    BY <1>2, <1>3, <1>4 DEF GoodTo, Agree
  <2>3. Follows(file, i)
    BY <2>1, <2>2, Zenon DEF IndInv, FollowInv
  <2>4. QED
    BY <2>2, <2>3, FollowsAgree
<1>12. ScanInv'
  <2>1. \A i \in 1..offset : \A k \in 1..Len(file'[i].events) :
           \E p \in 1..Len(events) : events[p] = file'[i].events[k]
    <3>1. \A i \in 1..offset : file'[i] = file[i]
      BY <1>4, Zenon DEF Agree
    <3>2. \A i \in 1..offset : \A k \in 1..Len(file[i].events) :
             \E p \in 1..Len(events) : events[p] = file[i].events[k]
      BY <1>3, Zenon DEF ScanInv
    <3>3. QED
      BY <3>1, <3>2
  <2>2. "unsynced" \notin mishaps =>
          /\ Spells(events, file', offset)
          /\ \A s \in StreamIds : StreamEnd(file', offset, s, NextVersion(s))
    BY <1>2, <1>3, <1>4, SpellsAgree, EndAgree, ZenonT(60) DEF ScanInv
  <2>3. \A s \in StreamIds : NextVersion(s)' = NextVersion(s)
    BY <1>1, Zenon DEF NextVersion
  <2>4. offset' = offset /\ offset <= Len(file') /\ pc' # "truncate"
    BY <1>1, <1>2, <1>4
  <2>5. QED
    BY <1>1, <1>4, <1>5, <2>1, <2>2, <2>3, <2>4, ZenonT(60) DEF ScanInv
<1>13. RunInv' /\ ReadsSurvive' /\ AckedSurvive'
  BY <1>1, Zenon DEF RunInv, ReadsSurvive, AckedSurvive, Running
<1>14. GlobalDense' /\ StreamsDense' /\ CrashNeverCorrupts'
  BY <1>1, IndexFrame, OpenedFrame, Zenon
<1>15. QED
  BY <1>6, <1>7, <1>8, <1>9, <1>10, <1>11, <1>12, <1>13, <1>14, Zenon DEF IndInv

(* The cut is on the device, and the store is open.                        *)
LEMMA TruncateSyncSafe == ASSUME IndInv, TypeOK', TruncateSync PROVE IndInv'
<1> USE DEF index, bounds, history
<1>1. /\ pc = "truncate_sync" /\ pc' = "ready" /\ disk' = file /\ hdrSynced'
      /\ opened' = "ok" /\ offset' = 0
      /\ UNCHANGED <<hdr, linked, file, events, streams, batch, seen, acked,
                     mishaps>>
  BY Zenon DEF TruncateSync
<1>2. Settled' = Len(file) /\ Scanning /\ ScanInv /\ offset = Len(file)
  <2>1. Settled' = Len(file) /\ Scanning /\ ScanInv
    BY <1>1, Zenon DEF Settled, InFlight, Scanning, IndInv
  <2>2. QED
    BY <1>1, <2>1, Zenon DEF ScanInv
<1>3. GoodTo(file, Len(file)) /\ Len(file) \in Nat /\ Len(disk) \in Nat
  BY <1>2 DEF ScanInv, IndInv, TypeOK
<1>4. /\ HeaderInv' /\ IdleInv' /\ BatchInv' /\ ScanInv'
      /\ ShapeInv' /\ DiskInv' /\ FollowInv'
  <2>1. HeaderInv' /\ IdleInv' /\ BatchInv' /\ ScanInv'
    BY <1>1, Zenon
       DEF IndInv, HeaderInv, IdleInv, BatchInv, ScanInv, Creating, Scanning,
       Running, InFlight
  <2>2. ShapeInv' /\ DiskInv' /\ FollowInv'
    BY <1>1 DEF IndInv, ShapeInv, DiskInv, FollowInv
  <2>3. QED
    BY <2>1, <2>2, Zenon
<1>5. TailInv'
  BY <1>1, <1>2, <1>3, Zenon DEF IndInv, TailInv
<1>6. RunInv'
  BY <1>1, <1>2, Zenon DEF ScanInv, RunInv, NextVersion
<1>7. SeenInv'
  BY <1>1, <1>2, <1>3 DEF SeenInv, Running
<1>8. AckedInv'
  <2>1. SUFFICES ASSUME mishaps \cap {"torn", "rot", "unlinked"} = {},
                        NEW e \in acked
                 PROVE  \E i \in 1..Len(file) :
                          /\ GoodTo(file, i)
                          /\ \E k \in 1..Len(file[i].events) : file[i].events[k] = e
    BY <1>1, Zenon DEF AckedInv
  <2>2. PICK i \in 1..Len(disk) :
          /\ GoodTo(disk, i)
          /\ \E k \in 1..Len(disk[i].events) : disk[i].events[k] = e
    BY <2>1, Zenon DEF IndInv, AckedInv
  <2>3. i <= Len(file) /\ Agree(disk, file, i) /\ GoodTo(file, i)
    BY <1>3, <2>2, DiskAgree DEF IndInv
  <2>4. i \in 1..Len(file) /\ file[i] = disk[i]
    BY <1>3, <2>3 DEF Agree
  <2>5. QED
    BY <2>2, <2>3, <2>4, Zenon
<1>9. GlobalDense' /\ StreamsDense' /\ CrashNeverCorrupts'
  BY <1>1, IndexFrame, OpenedFrame, Zenon
<1>10. ReadsSurvive' /\ AckedSurvive'
  BY <1>1, <1>2, Recovered, Zenon DEF IndInv, ReadsSurvive, AckedSurvive
<1>11. QED
  BY <1>4, <1>5, <1>6, <1>7, <1>8, <1>9, <1>10, Zenon DEF IndInv

(* Power is lost.                                                          *)
LEMMA PowerLossSafe == ASSUME IndInv, TypeOK', PowerLoss PROVE IndInv'
<1>1. /\ pc' = "down" /\ UNCHANGED <<opened, acked, mishaps>>
      /\ IdleInv' /\ BatchInv' /\ ScanInv' /\ RunInv'
      /\ GlobalDense' /\ StreamsDense' /\ ReadsSurvive' /\ AckedSurvive'
      /\ CrashNeverCorrupts'
      /\ mishaps = {} =>
           \E m \in 0..Len(disk) : GoodTo(disk, m) /\ Spells(seen', disk, m)
  BY StopSafe, Zenon DEF PowerLoss
<1>2. /\ TypeOK /\ file \in Seq(Segment) /\ Len(file) \in Nat
      /\ disk \in Seq(Segment) /\ Len(disk) \in Nat
      /\ Len(file') \in Nat /\ disk' = file'
  <2>1. file \in Seq(Segment) /\ disk \in Seq(Segment) /\ file' \in Seq(Segment)
    BY Zenon DEF IndInv, TypeOK
  <2>2. QED
    BY <2>1 DEF IndInv, PowerLoss
<1>3. HeaderInv'
  <2>1. ASSUME linked PROVE hdr = Complete => hdr' = Complete
    BY <2>1, Zenon DEF PowerLoss, IndInv, HeaderInv
  <2>2. \/ ~linked /\ ~linked' /\ hdr' = Absent /\ file' = <<>>
        \/ linked' /\ hdr' = Short /\ file' = <<>>
        \/ linked' /\ hdr' = Complete /\ hdrSynced'
    BY Zenon DEF PowerLoss, IndInv, TypeOK
  <2>3. QED
    BY <1>1, <1>2, <2>1, <2>2 DEF IndInv, HeaderInv, Creating, Scanning, Running
<1>4. DiskInv'
  BY <1>2 DEF DiskInv
<1>5. file' = disk \/ \E k \in 0..Len(file) : CutAt(file', file, k)
  BY <1>2, PowerLossFile, Zenon
<1>6. ShapeInv' /\ TailInv' /\ FollowInv'
  <2>1. CASE file' = disk
    <3>1. ShapeInv' /\ TailInv'
      BY <1>1, <1>2, <2>1, ZenonT(60) DEF IndInv, ShapeInv, TailInv, Running
    <3>2. FollowInv'
      <4>1. SUFFICES ASSUME "unsynced" \notin mishaps,
                            NEW i \in 1..Len(disk), GoodTo(disk, i)
                     PROVE  Follows(disk, i)
        BY <1>1, <2>1, Zenon DEF FollowInv
      <4>2. i <= Len(file) /\ Agree(disk, file, i) /\ GoodTo(file, i)
        BY <1>2, <4>1, DiskAgree DEF IndInv
      <4>3. i \in 1..Len(file) /\ Agree(file, disk, i)
        BY <1>2, <4>2 DEF Agree
      <4>4. Follows(file, i)
        BY <4>1, <4>2, <4>3, Zenon DEF IndInv, FollowInv
      <4>5. QED
        BY <4>3, <4>4, FollowsAgree
    <3>3. QED
      BY <3>1, <3>2, Zenon
  <2>2. CASE \E k \in 0..Len(file) : CutAt(file', file, k)
    <3>1. PICK k \in 0..Len(file) : CutAt(file', file, k)
      BY <2>2, Zenon
    <3>2. \A i \in 1..Len(file') :
            /\ i \in 1..Len(file)
            /\ file'[i].stream = file[i].stream /\ file'[i].first = file[i].first
            /\ file'[i].events = file[i].events /\ file'[i].rot = file[i].rot
      BY <1>2, <3>1 DEF CutAt, Agree
    <3>3. \A i \in 1..k : file'[i] = file[i]
      BY <3>1, Zenon DEF CutAt, Agree
    <3>4. ShapeInv'
      <4>1. \A i \in 1..Len(file) : Shaped(file[i])
        BY Zenon DEF IndInv, ShapeInv
      <4>2. \A i \in 1..Len(file') : Shaped(file'[i])
        BY <3>2, <4>1, SMTT(30) DEF Shaped
      <4>3. QED
        BY <1>2, <4>2, Zenon DEF ShapeInv
    <3>5. TailInv'
      <4>1. SUFFICES ASSUME mishaps \cap {"torn", "rot"} = {} PROVE TailInv'
        BY <1>1, ZenonT(60) DEF TailInv
      <4>2. /\ \A i \in 1..(Len(file) - 1) : Good(file[i])
            /\ \A i \in 1..Len(file) : file[i].rot = "none"
        BY <4>1, ZenonT(60) DEF IndInv, TailInv
      <4>3. \A i \in 1..(Len(file') - 1) :
               i \in 1..k /\ i \in 1..(Len(file) - 1)
        BY <1>2, <3>1 DEF CutAt
      <4>4. \A i \in 1..(Len(file') - 1) : Good(file'[i])
        BY <3>3, <4>2, <4>3, Zenon
      <4>5. \A i \in 1..Len(file') : file'[i].rot = "none"
        BY <3>2, <4>2, Zenon
      <4>6. QED
        BY <1>1, <1>2, <4>4, <4>5, ZenonT(60) DEF TailInv, Running
    <3>6. FollowInv'
      <4>1. SUFFICES ASSUME "unsynced" \notin mishaps,
                            NEW i \in 1..Len(file'), GoodTo(file', i)
                     PROVE  Follows(file', i)
        BY <1>1, Zenon DEF FollowInv
      <4>2. i <= k
        BY <1>2, <3>1, <4>1 DEF CutAt, GoodTo, Good
      <4>3. /\ Agree(file, file', i) /\ Agree(file', file, i)
            /\ i \in 1..Len(file)
        BY <1>2, <3>3, <4>2 DEF Agree
      <4>4. GoodTo(file, i)
        BY <4>1, <4>3, GoodToAgree
      <4>5. Follows(file, i)
        BY <4>1, <4>3, <4>4, Zenon DEF IndInv, FollowInv
      <4>6. QED
        BY <4>3, <4>5, FollowsAgree
    <3>7. QED
      BY <3>4, <3>5, <3>6, Zenon
  <2>3. QED
    BY <1>5, <2>1, <2>2, Zenon
<1>7. "unlinked" \notin mishaps => linked \/ disk = <<>>
  BY Zenon DEF IndInv, HeaderInv
<1>8. SeenInv'
  <2>1. SUFFICES ASSUME mishaps = {}
                 PROVE  \E m \in 0..Len(disk') :
                           GoodTo(disk', m) /\ Spells(seen', disk', m)
    BY <1>1, ZenonT(60) DEF SeenInv, Running
  <2>2. PICK m \in 0..Len(disk) : GoodTo(disk, m) /\ Spells(seen', disk, m)
    BY <1>1, <2>1, Zenon
  <2>3. linked \/ disk = <<>>
    BY <1>7, <2>1, Zenon
  <2>4. m <= Len(disk') /\ Agree(disk, disk', m) /\ GoodTo(disk', m)
    BY <1>2, <2>2, <2>3, PowerLossKeeps, Zenon DEF IndInv
  <2>5. Spells(seen', disk', m)
    BY <1>2, <2>2, <2>4, SpellsAgree
  <2>6. m \in 0..Len(disk')
    BY <1>2, <2>4
  <2>7. QED
    BY <2>4, <2>5, <2>6, Zenon
<1>9. AckedInv'
  <2>1. SUFFICES ASSUME mishaps \cap {"torn", "rot", "unlinked"} = {},
                        NEW e \in acked
                 PROVE  \E i \in 1..Len(disk') :
                          /\ GoodTo(disk', i)
                          /\ \E k \in 1..Len(disk'[i].events) :
                                disk'[i].events[k] = e
    BY <1>1, Zenon DEF AckedInv
  <2>2. PICK i \in 1..Len(disk) :
          GoodTo(disk, i) /\ \E k \in 1..Len(disk[i].events) : disk[i].events[k] = e
    BY <2>1, Zenon DEF IndInv, AckedInv
  <2>3. linked \/ disk = <<>>
    BY <1>7, <2>1, Zenon
  <2>4. i <= Len(disk') /\ Agree(disk, disk', i) /\ GoodTo(disk', i)
    BY <1>2, <2>2, <2>3, PowerLossKeeps DEF IndInv
  <2>5. i \in 1..Len(disk') /\ disk'[i] = disk[i]
    BY <1>2, <2>4 DEF Agree
  <2>6. QED
    BY <2>2, <2>4, <2>5, Zenon
<1>10. QED
  BY <1>1, <1>3, <1>4, <1>6, <1>8, <1>9, Zenon DEF IndInv

(* Bytes of one stored batch change.                                       *)
LEMMA RotSafe ==
  ASSUME IndInv, TypeOK', NEW i \in 1..Len(file), NEW rot \in Rots \ {"none"},
         Rot(i, rot)
  PROVE  IndInv'
<1> USE DEF header, index, answers
<1>1. /\ pc = "down" /\ pc' = "down" /\ disk' = file'
      /\ file' = [file EXCEPT ![i] = [file[i] EXCEPT !.rot = rot]]
      /\ mishaps' = mishaps \cup {"rot"}
      /\ UNCHANGED <<hdr, hdrSynced, linked, offset, events, streams, batch,
                     opened, seen, acked>>
  BY Zenon DEF Rot
<1>2. file \in Seq(Segment) /\ Len(file) \in Nat /\ file[i] \in Segment
  BY LogTypes, Zenon
<1>3. Len(file') = Len(file)
  BY <1>1, <1>2
<1>4. /\ file'[i].stream = file[i].stream /\ file'[i].first = file[i].first
      /\ file'[i].events = file[i].events /\ file'[i].rot # "none"
  BY <1>1, <1>2 DEF Segment
<1>5. \A j \in 1..Len(file) : j # i => file'[j] = file[j]
  BY <1>1, <1>2
<1>6. HeaderInv'
  <2>1. file # <<>>
    BY <1>2
  <2>2. QED
    BY <1>1, <2>1, Zenon DEF IndInv, HeaderInv, Creating, Scanning, Running
<1>7. IdleInv' /\ BatchInv' /\ ScanInv' /\ DiskInv' /\ RunInv'
  BY <1>1 DEF IndInv, IdleInv, BatchInv, ScanInv, DiskInv, RunInv, Creating,
     Scanning, Running, InFlight
<1>8. ShapeInv'
  <2>1. \A j \in 1..Len(file) : Shaped(file'[j])
    <3>1. Shaped(file'[i])
      BY <1>2, <1>4 DEF IndInv, ShapeInv, Shaped
    <3>2. QED
      BY <1>5, <3>1, Zenon DEF IndInv, ShapeInv
  <2>2. QED
    BY <1>1, <1>3, <2>1, Zenon DEF ShapeInv
<1>9. FollowInv'
  <2>1. SUFFICES ASSUME "unsynced" \notin mishaps,
                        NEW j \in 1..Len(file), GoodTo(file', j)
                 PROVE  Follows(file', j)
    BY <1>1, <1>3, ZenonT(60) DEF FollowInv
  <2>2. j < i
    BY <1>2, <1>4, <2>1 DEF GoodTo, Good
  <2>3. Agree(file, file', j) /\ Agree(file', file, j)
    BY <1>2, <1>5, <2>2 DEF Agree
  <2>4. GoodTo(file, j)
    BY <2>1, <2>3, GoodToAgree
  <2>5. Follows(file, j)
    BY <2>1, <2>4, Zenon DEF IndInv, FollowInv
  <2>6. QED
    BY <2>3, <2>5, FollowsAgree
<1>10. TailInv' /\ SeenInv' /\ AckedInv' /\ ReadsSurvive' /\ AckedSurvive'
       /\ CrashNeverCorrupts'
  BY <1>1, ZenonT(60)
     DEF TailInv, SeenInv, AckedInv, ReadsSurvive, AckedSurvive,
     CrashNeverCorrupts, Running
<1>11. GlobalDense' /\ StreamsDense'
  BY <1>1 DEF IndInv, GlobalDense, StreamsDense
<1>12. QED
  BY <1>6, <1>7, <1>8, <1>9, <1>10, <1>11, Zenon DEF IndInv

-----------------------------------------------------------------------------
(* A store that was never opened satisfies the invariant.                  *)
LEMMA InvInit == ASSUME Init PROVE IndInv
<1>1. TypeOK
  BY TypeInit, Zenon
<1>2. Len(file) = 0 /\ Len(disk) = 0 /\ Len(events) = 0 /\ DOMAIN streams = {}
  BY Zenon DEF Init, NoStreams
<1>3. /\ pc = "down" /\ hdr = Absent /\ ~linked /\ file = <<>> /\ disk = <<>>
      /\ offset = 0 /\ events = <<>> /\ streams = NoStreams /\ opened = "none"
      /\ seen = <<>> /\ acked = {}
  BY Zenon DEF Init
<1>4. HeaderInv /\ IdleInv /\ ScanInv /\ BatchInv /\ RunInv
  BY <1>3, Zenon DEF HeaderInv, IdleInv, ScanInv, BatchInv, RunInv, Creating,
     Scanning, Running, InFlight
<1>5. ShapeInv /\ DiskInv /\ FollowInv /\ AckedInv
  BY <1>2, <1>3 DEF ShapeInv, DiskInv, FollowInv, AckedInv
<1>6. TailInv
  BY <1>2, <1>3 DEF TailInv, Running
<1>7. SeenInv
  <2>1. Spells(seen, disk, 0) /\ GoodTo(disk, 0)
    BY <1>3, NothingRead DEF GoodTo
  <2>2. 0 \in 0..Len(disk)
    BY <1>2
  <2>3. QED
    BY <1>3, <2>1, <2>2, Zenon DEF SeenInv, Running
<1>8. GlobalDense /\ StreamsDense /\ ReadsSurvive /\ AckedSurvive
      /\ CrashNeverCorrupts
  BY <1>2, <1>3 DEF GlobalDense, StreamsDense, ReadsSurvive, AckedSurvive,
     CrashNeverCorrupts, Running
<1>9. QED
  BY <1>1, <1>4, <1>5, <1>6, <1>7, <1>8, Zenon DEF IndInv

(* Every step of append, of open and of the environment preserves it.      *)
LEMMA InvStep == ASSUME IndInv, [Next]_vars PROVE IndInv'
<1> USE DEF media, header, index, answers, bounds, history
<1>1. TypeOK'
  BY TypeStep, Zenon DEF IndInv
<1>2. CASE \E s \in StreamIds, v \in ExpectedVersions, p \in Proposals :
              AppendRejected(s, v, p)
  BY <1>1, <1>2, QuietSafe, Zenon DEF AppendRejected
<1>3. CASE \E s \in StreamIds, v \in ExpectedVersions, p \in Proposals :
              AppendStart(s, v, p)
  BY <1>1, <1>3, AppendStartSafe, Zenon
<1>4. CASE OpenCreate
  BY <1>1, <1>4, OpenCreateSafe, Zenon
<1>5. CASE OpenRefusesHeader
  BY <1>1, <1>5, QuietSafe, Zenon DEF OpenRefusesHeader
<1>6. CASE OpenExisting
  BY <1>1, <1>6, OpenExistingSafe, Zenon
<1>7. CASE \E extent \in Extents : Write(extent)
  BY <1>1, <1>7, WriteSafe, Zenon
<1>8. CASE Sync
  BY <1>1, <1>8, SyncSafe, Zenon
<1>9. CASE UpdateIndex
  BY <1>1, <1>9, UpdateIndexSafe, Zenon
<1>10. CASE Create
  BY <1>1, <1>10, CreateSafe, Zenon
<1>11. CASE ScanCommit
  BY <1>1, <1>11, ScanCommitSafe
<1>12. CASE ScanRefuse
  BY <1>1, <1>12, ScanRefuseSafe
<1>13. CASE ScanCut
  BY <1>1, <1>13, ScanCutSafe
<1>14. CASE ScanEnd
  BY <1>1, <1>14, ScanEndSafe
<1>15. CASE Truncate
  BY <1>1, <1>15, TruncateSafe
<1>16. CASE TruncateSync
  BY <1>1, <1>16, TruncateSyncSafe
<1>17. CASE WriteFails \/ SyncFails
  BY <1>1, <1>17, AppendFailsSafe, Zenon
<1>18. CASE ProcessCrash
  BY <1>1, <1>18, ProcessCrashSafe
<1>19. CASE PowerLoss
  BY <1>1, <1>19, PowerLossSafe
<1>20. CASE \E i \in 1..Len(file), rot \in Rots \ {"none"} : Rot(i, rot)
  BY <1>1, <1>20, RotSafe, Zenon
<1>21. CASE UNCHANGED vars
  BY <1>1, <1>21, QuietSafe, Zenon DEF vars
<1>22. QED
  BY <1>2, <1>3, <1>4, <1>5, <1>6, <1>7, <1>8, <1>9, <1>10, <1>11, <1>12,
     <1>13, <1>14, <1>15, <1>16, <1>17, <1>18, <1>19, <1>20, <1>21, Zenon
     DEF Next, Process

(* The state of the store always satisfies the inductive invariant.        *)
THEOREM StoreInvariance == Spec => []IndInv
<1>1. Init => IndInv
  BY InvInit, Zenon
<1>2. IndInv /\ [Next]_vars => IndInv'
  BY InvStep, Zenon
<1>3. QED
  BY <1>1, <1>2, PTL DEF Spec

(* The types of the structs are kept by every append, open and crash.      *)
THEOREM TypeCorrect == Spec => []TypeOK
<1>1. IndInv => TypeOK
  BY Zenon DEF IndInv
<1>2. QED
  BY <1>1, StoreInvariance, PTL

(***************************************************************************)
(* Global positions are dense and are the indices of EventLog.events,      *)
(* through appends, torn writes, crashes and recoveries.                   *)
(***************************************************************************)
THEOREM PositionsDense == Spec => []GlobalDense
<1>1. IndInv => GlobalDense
  BY Zenon DEF IndInv
<1>2. QED
  BY <1>1, StoreInvariance, PTL

(***************************************************************************)
(* A stream's position list is exactly the events of the stream, in the    *)
(* order of their versions, whether append or recovery built it.           *)
(***************************************************************************)
THEOREM VersionsDense == Spec => []StreamsDense
<1>1. IndInv => StreamsDense
  BY Zenon DEF IndInv
<1>2. QED
  BY <1>1, StoreInvariance, PTL

(***************************************************************************)
(* What readers saw before a crash or a power loss, they see after the     *)
(* restart: append updates the index only behind the fsync.                *)
(***************************************************************************)
THEOREM ReadsDurable == Spec => []ReadsSurvive
<1>1. IndInv => ReadsSurvive
  BY Zenon DEF IndInv
<1>2. QED
  BY <1>1, StoreInvariance, PTL

(***************************************************************************)
(* What append acknowledged is in the index of every later process, even   *)
(* if fsyncs failed or a restart found batches that were never fsynced.    *)
(***************************************************************************)
THEOREM AcksDurable == Spec => []AckedSurvive
<1>1. IndInv => AckedSurvive
  BY Zenon DEF IndInv
<1>2. QED
  BY <1>1, StoreInvariance, PTL

(***************************************************************************)
(* open never answers CorruptRecord because of crashes and failed fsyncs.  *)
(***************************************************************************)
THEOREM CrashesNeverCorrupt == Spec => []CrashNeverCorrupts
<1>1. IndInv => CrashNeverCorrupts
  BY Zenon DEF IndInv
<1>2. QED
  BY <1>1, StoreInvariance, PTL

(***************************************************************************)
(* A log that open created with its directory fsync never disappears.      *)
(***************************************************************************)
THEOREM CreatedStays == Spec => []CreatedLogStays
<1>1. IndInv => CreatedLogStays
  BY Zenon DEF IndInv, HeaderInv, CreatedLogStays
<1>2. QED
  BY <1>1, StoreInvariance, PTL

(* No step but rot takes a committed batch off the device.                 *)
LEMMA CommittedStep ==
  ASSUME IndInv, [Next]_vars, NEW n \in 1..Len(disk), GoodTo(disk, n)
  PROVE  \/ n <= Len(disk') /\ disk'[n] = disk[n]
         \/ ~linked
         \/ "rot" \in mishaps' /\ pc = "down"
<1>1. TypeOK /\ DiskInv /\ HeaderInv /\ Len(disk) \in Nat
  BY LogTypes, Zenon DEF IndInv
<1>2. CASE disk' = disk
  BY <1>1, <1>2
<1>3. CASE disk' = file
  BY <1>3, Zenon DEF IndInv, DiskInv
<1>4. CASE PowerLoss /\ linked
  <2>1. n \in 0..Len(disk)
    BY <1>1
  <2>2. n <= Len(disk') /\ Agree(disk, disk', n)
    BY <1>1, <1>4, <2>1, PowerLossKeeps, Zenon
  <2>3. QED
    BY <2>2 DEF Agree
<1>5. CASE \E i \in 1..Len(file), rot \in Rots \ {"none"} : Rot(i, rot)
  <2>1. "rot" \in mishaps' /\ pc = "down"
    BY <1>5, ZenonT(60) DEF Rot
  <2>2. QED
    BY <2>1, Zenon
<1>6. disk' = disk \/ disk' = file \/ PowerLoss
      \/ \E i \in 1..Len(file), rot \in Rots \ {"none"} : Rot(i, rot)
  BY Zenon
     DEF Next, Process, vars, media, AppendRejected, AppendStart, OpenCreate,
     OpenRefusesHeader, OpenExisting, Write, Sync, UpdateIndex, Create,
     ScanCommit, ScanRefuse, ScanCut, ScanEnd, Truncate, TruncateSync,
     WriteFails, SyncFails, AppendFails, ProcessCrash
<1>7. QED
  BY <1>2, <1>3, <1>4, <1>5, <1>6, Zenon

(***************************************************************************)
(* Recovery and crashes leave every committed batch where it is: open cuts *)
(* the file only behind the batches that decode.  Exceptions are bytes     *)
(* that go bad, and the loss of a file whose directory entry was never     *)
(* fsynced.                                                                *)
(***************************************************************************)
THEOREM CommittedStays == Spec => CommittedKept
<1> DEFINE Kept == \A n \in 1..Len(disk) :
             (\A i \in 1..n : disk[i].extent = Whole /\ disk[i].rot = "none") =>
                \/ n <= Len(disk') /\ disk'[n] = disk[n]
                \/ ~linked
                \/ "rot" \in mishaps' /\ pc = "down"
<1>1. IndInv /\ [Next]_vars => [Kept]_vars
  <2>1. SUFFICES ASSUME IndInv, [Next]_vars PROVE Kept
    BY Zenon
  <2>2. QED
    BY <2>1, CommittedStep, Zenon DEF GoodTo, Good
<1>2. QED
  BY <1>1, StoreInvariance, PTL DEF Spec, CommittedKept

-----------------------------------------------------------------------------
LEMMA SeqEqual ==
  ASSUME NEW S, NEW a \in Seq(S), NEW b \in Seq(S), Len(a) = Len(b),
         \A i \in 1..Len(a) : a[i] = b[i]
  PROVE  a = b
OBVIOUS

(* What is in doubt is the one segment that readers did not see.           *)
LEMMA LeftIsUnseen ==
  ASSUME NEW f \in Seq(Segment), NEW s, OneUnseen(f, s)
  PROVE  /\ \A i \in 1..Len(f) : Unseen(f[i], s) => LeftIn(f, s) = f[i].events
         /\ (\A i \in 1..Len(f) : ~Unseen(f[i], s)) => LeftIn(f, s) = <<>>
<1>1. ASSUME NEW i \in 1..Len(f), Unseen(f[i], s)
      PROVE  LeftIn(f, s) = f[i].events
  <2> DEFINE c == CHOOSE k \in 1..Len(f) : Unseen(f[k], s)
  <2>1. c \in 1..Len(f) /\ Unseen(f[c], s)
    BY <1>1, Zenon
  <2>2. c = i
    BY <1>1, <2>1, Zenon DEF OneUnseen
  <2>3. LeftIn(f, s) = f[c].events
    BY <1>1, Zenon DEF LeftIn
  <2>4. QED
    BY <2>2, <2>3, Zenon
<1>2. QED
  BY <1>1, Zenon DEF LeftIn

(* The committed segments of the file after a step were there before.      *)
Kept(g, f) ==
  \A i \in 1..Len(g) : Good(g[i]) => i \in 1..Len(f) /\ g[i] = f[i]

(* A step that adds no committed segment leaves at most the batch in doubt *)
(* that was.                                                               *)
LEMMA LeftStays ==
  ASSUME NEW f \in Seq(Segment), NEW g \in Seq(Segment), NEW s,
         OneUnseen(f, s), Kept(g, f)
  PROVE  OneUnseen(g, s) /\ LeftIn(g, s) \in {LeftIn(f, s), <<>>}
<1>1. \A i \in 1..Len(g) :
         Unseen(g[i], s) => i \in 1..Len(f) /\ Unseen(f[i], s) /\ g[i] = f[i]
  BY Zenon DEF Kept, Unseen
<1>2. OneUnseen(g, s)
  BY <1>1, Zenon DEF OneUnseen
<1>3. CASE \E i \in 1..Len(g) : Unseen(g[i], s)
  <2>1. PICK i \in 1..Len(g) : Unseen(g[i], s)
    BY <1>3, Zenon
  <2>2. LeftIn(g, s) = g[i].events
    BY <1>2, <2>1, LeftIsUnseen, Zenon
  <2>3. LeftIn(f, s) = f[i].events
    BY <1>1, <2>1, LeftIsUnseen, Zenon
  <2>4. QED
    BY <1>1, <1>2, <2>1, <2>2, <2>3, Zenon
<1>4. CASE \A i \in 1..Len(g) : ~Unseen(g[i], s)
  BY <1>2, <1>4, LeftIsUnseen, Zenon
<1>5. QED
  BY <1>3, <1>4, Zenon

(* Such a step keeps the order too, when only its last segment may be bad. *)
LEMMA OrderStays ==
  ASSUME NEW f \in Seq(Segment), NEW g \in Seq(Segment), Ordered(f),
         Kept(g, f), \A i \in 1..(Len(g) - 1) : Good(g[i])
  PROVE  Ordered(g)
<1>1. SUFFICES ASSUME NEW i \in 1..Len(g), NEW j \in 1..Len(g), i < j,
                      Good(g[j]), Len(g[i].events) > 0
               PROVE  EndOf(g[i]) <= g[j].first
  BY Zenon DEF Ordered
<1>2. Good(g[i])
  BY <1>1
<1>3. i \in 1..Len(f) /\ j \in 1..Len(f) /\ g[i] = f[i] /\ g[j] = f[j]
  BY <1>1, <1>2, Zenon DEF Kept
<1>4. QED
  BY <1>1, <1>3, Zenon DEF Ordered

(* A power loss commits nothing.                                           *)
LEMMA PowerLossCommitsNothing ==
  ASSUME IndInv, PowerLoss, mishaps = {}
  PROVE  Kept(file', file)
<1>1. TypeOK /\ TailInv /\ DiskInv
  BY Zenon DEF IndInv
<1>2. file \in Seq(Segment) /\ Len(file) \in Nat /\ Len(disk) \in Nat
  BY LogTypes, Zenon
<1>3. CASE file' = disk
  <2>1. SUFFICES ASSUME NEW i \in 1..Len(disk), Good(disk[i])
                 PROVE  i \in 1..Len(file) /\ disk[i] = file[i]
    BY <1>3, Zenon DEF Kept
  <2>2. \A j \in 1..(Len(disk) - 1) : Good(disk[j])
    BY <1>1, Zenon DEF TailInv
  <2>3. GoodTo(disk, i)
    BY <1>2, <2>1, <2>2 DEF GoodTo
  <2>4. QED
    BY <1>1, <1>2, <2>1, <2>3 DEF DiskInv
<1>4. CASE \E k \in 0..Len(file) : CutAt(file', file, k)
  <2>1. PICK k \in 0..Len(file) : CutAt(file', file, k)
    BY <1>4, Zenon
  <2>2. QED
    BY <1>2, <2>1 DEF CutAt, Agree, Kept, Good
<1>5. QED
  BY <1>1, <1>3, <1>4, PowerLossFile, Zenon

(* A running store has indexed every settled segment.                      *)
LEMMA SettledIsSeen ==
  ASSUME IndInv, mishaps = {}, pc \in Running, NEW i \in 1..Settled
  PROVE  /\ i \in 1..Len(file)
         /\ Len(file[i].events) > 0 =>
              EndOf(file[i]) <= Len(events) /\ file[i].first < Len(events)
<1>1. /\ file \in Seq(Segment) /\ Len(file) \in Nat /\ Len(events) \in Nat
  BY LogTypes, Zenon
<1>2. Settled \in {Len(file), Len(file) - 1} /\ i \in 1..Len(file)
  BY <1>1 DEF Settled
<1>3. Spells(events, file, Settled)
  BY Zenon DEF IndInv, TailInv, RunInv
<1>4. ASSUME Len(file[i].events) > 0
      PROVE  EndOf(file[i]) <= Len(events) /\ file[i].first < Len(events)
  <2>1. file[i].first \in Nat /\ Len(file[i].events) \in Nat
    BY <1>1, <1>2, SegmentFields, Zenon
  <2>2. Len(file[i].events) \in 1..Len(file[i].events)
    BY <1>4, <2>1
  <2>3. file[i].first + Len(file[i].events) <= Len(events)
    BY <1>3, <2>2, Zenon DEF Spells
  <2>4. QED
    BY <1>1, <1>4, <2>1, <2>3 DEF EndOf
<1>5. QED
  BY <1>2, <1>4, Zenon

(* A running store that stops has the batch of its append in doubt.        *)
LEMMA StopLeaves ==
  ASSUME IndInv, mishaps = {}, pc \in Running,
         NEW g \in Seq(Segment), Kept(g, file)
  PROVE  OneUnseen(g, events) /\ LeftIn(g, events) \in {InDoubt, <<>>}
<1>1. /\ file \in Seq(Segment) /\ Len(file) \in Nat /\ Len(events) \in Nat
  BY LogTypes, Zenon
<1>2. ASSUME NEW i \in 1..Len(g), Unseen(g[i], events)
      PROVE  i = Len(file) /\ InFlight /\ g[i] = batch
  <2>1. i \in 1..Len(file) /\ g[i] = file[i] /\ Unseen(file[i], events)
    BY <1>2, Zenon DEF Kept, Unseen
  <2>2. file[i].first \in Nat
    BY <1>1, <2>1, SegmentFields, Zenon
  <2>3. i \notin 1..Settled
    BY <1>1, <2>1, <2>2, SettledIsSeen DEF Unseen
  <2>4. InFlight /\ batch.extent # Nothing /\ i = Len(file)
    BY <1>1, <2>1, <2>3 DEF Settled
  <2>5. QED
    BY <2>1, <2>4, Zenon DEF IndInv, BatchInv
<1>3. OneUnseen(g, events)
  BY <1>2, Zenon DEF OneUnseen
<1>4. CASE \E i \in 1..Len(g) : Unseen(g[i], events)
  <2>1. PICK i \in 1..Len(g) : Unseen(g[i], events)
    BY <1>4, Zenon
  <2>2. LeftIn(g, events) = g[i].events
    BY <1>3, <2>1, LeftIsUnseen, Zenon
  <2>3. InDoubt = batch.events
    BY <1>2, <2>1, Zenon DEF InDoubt, InFlight
  <2>4. QED
    BY <1>2, <1>3, <2>1, <2>2, <2>3, Zenon
<1>5. CASE \A i \in 1..Len(g) : ~Unseen(g[i], events)
  BY <1>3, <1>5, LeftIsUnseen, Zenon
<1>6. QED
  BY <1>4, <1>5, Zenon

(* Recovery that has read the whole file has what readers saw, then the    *)
(* batch that was in doubt.                                                *)
LEMMA RecoverySettles ==
  ASSUME IndInv, DoubtInv, mishaps = {}, Scanning, offset = Len(file)
  PROVE  events = seen \o LeftIn(file, seen)
<1>1. /\ file \in Seq(Segment) /\ Len(file) \in Nat /\ Len(disk) \in Nat
      /\ events \in Seq(RecordedEvent) /\ seen \in Seq(RecordedEvent)
      /\ Len(events) \in Nat /\ Len(seen) \in Nat
  BY LogTypes
<1>2. /\ TypeOK /\ ScanInv /\ DiskInv /\ SeenInv /\ AckedInv
      /\ Ordered(file) /\ OneUnseen(file, seen)
  BY Zenon DEF IndInv, DoubtInv, Scanning, Running
<1>3. Len(seen) <= Len(events) /\ \A p \in 1..Len(seen) : seen[p] = events[p]
  BY <1>2, Recovered, Zenon
<1>4. Spells(events, file, Len(file)) /\ GoodTo(file, Len(file))
  BY <1>2, Zenon DEF ScanInv
<1>5. PICK m \in 0..Len(disk) : GoodTo(disk, m) /\ Spells(seen, disk, m)
  BY <1>2, Zenon DEF SeenInv, Scanning, Running
<1>6. m \in 0..Len(file) /\ Spells(seen, file, m)
  <2>1. m <= Len(file) /\ Agree(disk, file, m)
    BY <1>2, <1>5, DiskAgree, Zenon
  <2>2. QED
    BY <1>1, <1>5, <2>1, SpellsAgree
<1>7. \A i \in 1..Len(file) :
         /\ file[i].first \in Nat /\ Len(file[i].events) \in Nat /\ Good(file[i])
         /\ file[i].events \in Seq(RecordedEvent)
  BY <1>1, <1>4, SegmentFields, Zenon DEF GoodTo
<1>8. ASSUME NEW p \in (Len(seen) + 1)..Len(events)
      PROVE  \E i \in 1..Len(file) :
               Unseen(file[i], seen) /\ file[i].first < p /\ p <= EndOf(file[i])
  <2>1. PICK i \in 1..Len(file) : file[i].first < p /\ p <= EndOf(file[i])
    BY <1>1, <1>4, <1>8 DEF Spells
  <2>2. Len(file[i].events) > 0
    <3>1. PICK a \in Nat, l \in Nat :
            a = file[i].first /\ l = Len(file[i].events)
      BY <1>7, Zenon
    <3>2. a < p /\ p <= a + l
      BY <2>1, <3>1, Zenon DEF EndOf
    <3>3. l > 0
      BY <1>1, <3>2
    <3>4. QED
      BY <3>1, <3>3, Zenon
  <2>3. m < i
    <3>1. SUFFICES ASSUME i \in 1..m PROVE FALSE
      BY <1>1, <1>6
    <3>2. Len(file[i].events) \in 1..Len(file[i].events)
      BY <1>7, <2>2
    <3>3. file[i].first + Len(file[i].events) <= Len(seen)
      BY <1>6, <3>1, <3>2, Zenon DEF Spells
    <3>4. QED
      BY <1>1, <1>7, <1>8, <2>1, <3>3 DEF EndOf
  <2>4. Len(seen) <= file[i].first
    <3>1. CASE Len(seen) = 0
      BY <1>7, <3>1
    <3>2. CASE Len(seen) # 0
      <4>1. PICK j \in 1..m :
              file[j].first < Len(seen) /\ Len(seen) <= EndOf(file[j])
        <5>1. Len(seen) \in 1..Len(seen)
          BY <1>1, <3>2
        <5>2. QED
          BY <1>6, <5>1, Zenon DEF Spells
      <4>2. j \in 1..Len(file) /\ Len(file[j].events) > 0
        <5>1. j \in 1..Len(file)
          BY <1>1, <1>6
        <5>2. PICK a \in Nat, l \in Nat :
                a = file[j].first /\ l = Len(file[j].events)
          BY <1>7, <5>1, Zenon
        <5>3. a < Len(seen) /\ Len(seen) <= a + l
          BY <4>1, <5>2, Zenon DEF EndOf
        <5>4. l > 0
          BY <1>1, <5>3
        <5>5. QED
          BY <5>1, <5>2, <5>4, Zenon
      <4>3. EndOf(file[j]) <= file[i].first
        BY <1>2, <1>6, <1>7, <2>3, <4>1, <4>2 DEF Ordered
      <4>4. QED
        BY <1>1, <1>7, <4>1, <4>2, <4>3 DEF EndOf
    <3>3. QED
      BY <3>1, <3>2, Zenon
  <2>5. QED
    BY <1>7, <2>1, <2>2, <2>4, Zenon DEF Unseen
<1>9. CASE \E i \in 1..Len(file) : Unseen(file[i], seen)
  <2>1. PICK i \in 1..Len(file) : Unseen(file[i], seen)
    BY <1>9, Zenon
  <2> DEFINE evs == file[i].events
  <2>2. LeftIn(file, seen) = evs /\ Len(evs) \in Nat \ {0} /\ evs \in Seq(RecordedEvent)
    <3>1. LeftIn(file, seen) = evs
      BY <1>1, <1>2, <2>1, LeftIsUnseen, Zenon
    <3>2. Len(evs) > 0
      BY <2>1, Zenon DEF Unseen
    <3>3. QED
      BY <1>7, <3>1, <3>2
  <2>3. \A k \in 1..Len(evs) :
           file[i].first + k <= Len(events) /\ events[file[i].first + k] = evs[k]
    BY <1>4, Zenon DEF Spells
  <2>4. file[i].first + Len(evs) <= Len(events) /\ Len(seen) <= file[i].first
    BY <2>1, <2>2, <2>3 DEF Unseen
  <2>5. \A p \in (Len(seen) + 1)..Len(events) :
           file[i].first < p /\ p <= file[i].first + Len(evs)
    BY <1>2, <1>8, <2>1, Zenon DEF OneUnseen, EndOf
  <2> HIDE DEF evs
  <2>6. file[i].first = Len(seen) /\ Len(events) = Len(seen) + Len(evs)
    <3>1. file[i].first \in Nat
      BY <1>7, Zenon
    <3>2. Len(seen) + 1 \in (Len(seen) + 1)..Len(events)
      BY <1>1, <2>2, <2>4, <3>1
    <3>3. Len(events) \in (Len(seen) + 1)..Len(events)
      BY <1>1, <3>2
    <3>4. file[i].first < Len(seen) + 1
      BY <2>5, <3>2, Zenon
    <3>5. Len(events) <= file[i].first + Len(evs)
      BY <2>5, <3>3, Zenon
    <3>6. QED
      BY <1>1, <2>2, <2>4, <3>1, <3>4, <3>5
  <2>7. Len(seen \o evs) = Len(events) /\ seen \o evs \in Seq(RecordedEvent)
    BY <1>1, <2>2, <2>6
  <2>8. \A p \in 1..Len(events) : (seen \o evs)[p] = events[p]
    <3>1. SUFFICES ASSUME NEW p \in 1..Len(events)
                   PROVE  (seen \o evs)[p] = events[p]
      BY Zenon
    <3>2. CASE p <= Len(seen)
      BY <1>1, <1>3, <2>2, <3>2
    <3>3. CASE p > Len(seen)
      <4>1. p - Len(seen) \in 1..Len(evs)
        BY <1>1, <2>2, <2>6, <3>3
      <4>2. (seen \o evs)[p] = evs[p - Len(seen)]
        BY <1>1, <2>2, <2>6, <3>3
      <4>3. events[Len(seen) + (p - Len(seen))] = evs[p - Len(seen)]
        BY <2>3, <2>6, <4>1, Zenon
      <4>4. Len(seen) + (p - Len(seen)) = p
        BY <1>1
      <4>5. QED
        BY <4>2, <4>3, <4>4, Zenon
    <3>4. p <= Len(seen) \/ p > Len(seen)
      BY <1>1, <3>1
    <3>5. QED
      BY <3>2, <3>3, <3>4, Zenon
  <2>9. QED
    BY <1>1, <2>2, <2>7, <2>8, SeqEqual, Zenon
<1>10. CASE \A i \in 1..Len(file) : ~Unseen(file[i], seen)
  <2>1. LeftIn(file, seen) = <<>>
    BY <1>1, <1>2, <1>10, LeftIsUnseen, Zenon
  <2>2. Len(events) = Len(seen)
    <3>1. Len(seen) + 1 \notin (Len(seen) + 1)..Len(events)
      BY <1>8, <1>10, Zenon
    <3>2. QED
      BY <1>1, <1>3, <3>1
  <2>3. events = seen
    BY <1>1, <1>3, <2>2, SeqEqual, Zenon
  <2>4. QED
    BY <1>1, <2>1, <2>3
<1>11. QED
  BY <1>9, <1>10, Zenon

-----------------------------------------------------------------------------
(* Steps of the file and of the process, as far as the batch in doubt is   *)
(* concerned.  The first kind leaves the file alone.                       *)
FileStays ==
  /\ UNCHANGED <<file, seen>>
  /\ pc \in Running => pc' \in Running

(* An append puts its batch behind all that is indexed.                    *)
LEMMA WriteOrdered ==
  ASSUME IndInv, DoubtInv, mishaps = {}, NEW extent \in Extents, Write(extent)
  PROVE  Ordered(file')
<1>1. /\ file \in Seq(Segment) /\ Len(file) \in Nat /\ Len(events) \in Nat
      /\ batch.extent \in Extents \cup {Nothing} /\ TypeOK
  BY LogTypes, Zenon
<1>2. /\ pc = "write" /\ pc \in Running /\ InFlight
      /\ batch.first = Len(events)
      /\ batch' = [batch EXCEPT !.extent = extent]
      /\ file' = IF batch.extent = Nothing THEN Append(file, batch')
                 ELSE [file EXCEPT ![Len(file)] = batch']
      /\ batch.extent # Nothing => Len(file) > 0
  BY Zenon DEF Write, Running, InFlight, IndInv, BatchInv
<1>3. batch'.first = Len(events) /\ batch' \in Segment
  BY <1>1, <1>2, Zenon DEF TypeOK, Segment
<1>4. /\ Len(file') = Settled + 1 /\ Settled \in 0..Len(file)
      /\ \A i \in 1..Settled : file'[i] = file[i]
      /\ file'[Settled + 1] = batch'
  <2>1. CASE batch.extent = Nothing
    BY <1>1, <1>2, <1>3, <2>1 DEF Settled
  <2>2. CASE batch.extent # Nothing
    BY <1>1, <1>2, <2>2 DEF Settled
  <2>3. QED
    BY <2>1, <2>2, Zenon
<1>5. Ordered(file) /\ \A i \in 1..Settled : i \in 1..Len(file)
  BY <1>1, <1>4 DEF DoubtInv
<1>6. SUFFICES ASSUME NEW i \in 1..Len(file'), NEW j \in 1..Len(file'), i < j,
                      Good(file'[j]), Len(file'[i].events) > 0
               PROVE  EndOf(file'[i]) <= file'[j].first
  BY Zenon DEF Ordered
<1>7. i \in 1..Settled /\ file'[i] = file[i] /\ (j \in 1..Settled \/ j = Settled + 1)
  BY <1>1, <1>4, <1>6
<1>8. CASE j \in 1..Settled
  BY <1>4, <1>5, <1>6, <1>7, <1>8, Zenon DEF Ordered
<1>9. CASE j = Settled + 1
  <2>1. EndOf(file[i]) <= Len(events)
    BY <1>2, <1>6, <1>7, SettledIsSeen, Zenon
  <2>2. QED
    BY <1>3, <1>4, <1>7, <1>9, <2>1, Zenon
<1>10. QED
  BY <1>7, <1>8, <1>9, Zenon

(* Recovery cuts no committed segment off.                                 *)
LEMMA TruncateKeeps ==
  ASSUME IndInv, Truncate, mishaps = {}
  PROVE  /\ Kept(file', file) /\ Kept(file, file')
         /\ \A i \in 1..(Len(file') - 1) : Good(file'[i])
<1>1. file \in Seq(Segment) /\ Len(file) \in Nat /\ offset \in Nat
  BY LogTypes, Zenon
<1>2. /\ offset < Len(file) /\ ~Good(file[offset + 1]) /\ GoodTo(file, offset)
      /\ file' = SubSeq(file, 1, offset)
      /\ \A i \in 1..(Len(file) - 1) : Good(file[i])
  BY Zenon DEF Truncate, TruncateTo, Scanning, IndInv, ScanInv, TailInv
<1>3. offset + 1 = Len(file)
  BY <1>1, <1>2
<1>4. Len(file') = offset /\ \A i \in 1..offset : file'[i] = file[i]
  BY <1>1, <1>2
<1>5. QED
  BY <1>1, <1>2, <1>3, <1>4 DEF Kept, GoodTo

(* What a stop leaves, with a process that served or one that was opening. *)
LEMMA StopDoubt ==
  ASSUME IndInv, DoubtInv, mishaps = {}, Stop, file' \in Seq(Segment),
         Kept(file', file)
  PROVE  OneUnseen(file', seen') /\ LeftIn(file', seen') \in {InDoubt, <<>>}
<1>1. file \in Seq(Segment)
  BY LogTypes, Zenon
<1>2. CASE pc \in Running
  <2>1. seen' = events
    BY <1>2, Zenon DEF Stop
  <2>2. QED
    BY <1>2, <2>1, StopLeaves, Zenon
<1>3. CASE pc \notin Running
  <2>1. seen' = seen /\ OneUnseen(file, seen) /\ InDoubt = LeftIn(file, seen)
    BY <1>3, Zenon DEF Stop, DoubtInv, InDoubt, InFlight, Running
  <2>2. QED
    BY <1>1, <2>1, LeftStays, Zenon
<1>4. QED
  BY <1>2, <1>3, Zenon

(* Every step keeps at most one batch in doubt.                            *)
LEMMA DoubtStep ==
  ASSUME IndInv, DoubtInv, IndInv', [Next]_vars
  PROVE  DoubtInv'
<1> USE DEF media, header, index, answers, bounds, history
<1>1. SUFFICES ASSUME mishaps' = {}
               PROVE  /\ Ordered(file')
                      /\ pc' \notin Running => OneUnseen(file', seen')
  BY Zenon DEF DoubtInv
<1>2. /\ file \in Seq(Segment) /\ file' \in Seq(Segment)
      /\ \A i \in 1..(Len(file') - 1) : Good(file'[i])
  <2>1. file' \in Seq(Segment)
    BY Zenon DEF IndInv, TypeOK
  <2>2. \A i \in 1..(Len(file') - 1) : Good(file'[i])
    BY <1>1, Zenon DEF IndInv, TailInv
  <2>3. QED
    BY <2>1, <2>2, LogTypes, Zenon
<1>3. ASSUME FileStays, mishaps = {}
      PROVE  /\ Ordered(file')
             /\ pc' \notin Running => OneUnseen(file', seen')
  BY <1>3, Zenon DEF FileStays, DoubtInv
<1>4. ASSUME Stop, Kept(file', file), mishaps = {}
      PROVE  Ordered(file') /\ OneUnseen(file', seen')
  BY <1>2, <1>4, StopDoubt, OrderStays, Zenon DEF DoubtInv
<1>5. CASE \E s \in StreamIds, v \in ExpectedVersions, p \in Proposals :
              AppendRejected(s, v, p) \/ AppendStart(s, v, p)
  BY <1>1, <1>3, <1>5, Zenon DEF AppendRejected, AppendStart, FileStays, Running
<1>6. CASE OpenCreate \/ OpenRefusesHeader \/ OpenExisting \/ Create
  BY <1>1, <1>3, <1>6, ZenonT(60)
     DEF OpenCreate, OpenRefusesHeader, OpenExisting, Create,
     FileStays, Running, CreateNext
<1>7. CASE \E extent \in Extents : Write(extent)
  <2>1. PICK extent \in Extents : Write(extent)
    BY <1>7, Zenon
  <2>2. pc' \in Running /\ mishaps = {}
    BY <1>1, <2>1, Zenon DEF Write, AfterWrite, Running
  <2>3. QED
    BY <2>1, <2>2, WriteOrdered, Zenon
<1>8. CASE Sync \/ UpdateIndex
  BY <1>1, <1>3, <1>8, Zenon DEF Sync, UpdateIndex, FileStays, Running
<1>9. CASE ScanCommit \/ ScanRefuse \/ ScanCut \/ ScanEnd \/ TruncateSync
  BY <1>1, <1>3, <1>9, Zenon
     DEF ScanCommit, ScanRefuse, ScanCut, ScanEnd, TruncateSync,
     FileStays, Running
<1>10. CASE Truncate
  <2>1. mishaps = {} /\ seen' = seen /\ pc \notin Running /\ pc' \notin Running
    BY <1>1, <1>10, Zenon DEF Truncate, Running
  <2>2. Kept(file', file)
    BY <1>10, <2>1, TruncateKeeps, Zenon
  <2>3. QED
    BY <1>2, <2>1, <2>2, OrderStays, LeftStays, Zenon DEF DoubtInv
<1>11. CASE WriteFails \/ SyncFails
  BY <1>1, <1>3, <1>11, Zenon
     DEF WriteFails, SyncFails, AppendFails, FileStays, Running
<1>12. CASE ProcessCrash
  <2>1. Stop /\ file' = file /\ mishaps = {}
    BY <1>1, <1>12, Zenon DEF ProcessCrash, Stop
  <2>2. QED
    BY <1>4, <2>1, Zenon DEF Kept
<1>13. CASE PowerLoss
  <2>1. Stop /\ mishaps = {}
    BY <1>1, <1>13, Zenon DEF PowerLoss, Stop
  <2>2. QED
    BY <1>4, <1>13, <2>1, PowerLossCommitsNothing, Zenon
<1>14. CASE \E i \in 1..Len(file), rot \in Rots \ {"none"} : Rot(i, rot)
  BY <1>1, <1>14, Zenon DEF Rot
<1>15. CASE UNCHANGED vars
  BY <1>1, <1>3, <1>15, Zenon DEF vars, FileStays
<1>16. QED
  BY <1>5, <1>6, <1>7, <1>8, <1>9, <1>10, <1>11, <1>12, <1>13, <1>14, <1>15, Zenon
     DEF Next, Process

-----------------------------------------------------------------------------
(* A process that opens the log leaves the promise's state alone.          *)
LEMMA OpeningHidden ==
  ASSUME UNCHANGED <<file, seen, mishaps>>, pc \notin Running, pc' \notin Running
  PROVE  UNCHANGED Log!vars
BY DEF Log!vars, Visible, InDoubt, InFlight, Running

(* An open that succeeds settles the batch in doubt.                       *)
LEMMA OpenRecovers ==
  ASSUME UNCHANGED <<seen, mishaps>>, pc \notin Running, pc' = "ready",
         events' = seen \o LeftIn(file, seen)
  PROVE  Log!Recover
BY Zenon DEF Log!Recover, Visible, InDoubt, InFlight, Running

(* A stop is a crash of the promise, or nothing new while no one serves.   *)
LEMMA StopHidden ==
  ASSUME IndInv, DoubtInv, mishaps = {}, Stop, file' \in Seq(Segment),
         Kept(file', file)
  PROVE  [Log!Next]_(Log!vars)
<1>1. /\ LeftIn(file', seen') \in {InDoubt, <<>>}
      /\ pc' = "down" /\ mishaps' = mishaps
      /\ seen' = IF pc \in Running THEN events ELSE seen
  BY StopDoubt, Zenon DEF Stop
<1>2. InDoubt' \in {InDoubt, <<>>} /\ Visible' = Visible /\ pc' \notin Running
  BY <1>1, Zenon DEF InDoubt, InFlight, Visible, Running
<1>3. CASE pc \in Running
  BY <1>1, <1>2, <1>3 DEF Log!Next, Log!Crash
<1>4. CASE pc \notin Running
  BY <1>1, <1>2, <1>4 DEF Log!Next, Log!Lose, Log!vars
<1>5. QED
  BY <1>3, <1>4, Zenon

(* append begins a batch at the end of the log.                            *)
LEMMA AppendBegins ==
  ASSUME IndInv, IndInv', NEW s \in StreamIds, NEW v \in ExpectedVersions,
         NEW p \in Proposals, AppendStart(s, v, p)
  PROVE  Log!Begin
<1>1. /\ pc = "ready" /\ pc' = "write" /\ UNCHANGED <<events, seen, mishaps>>
  BY Zenon DEF AppendStart, index
<1>2. /\ Visible = events /\ Visible' = events /\ InDoubt = <<>>
      /\ InDoubt' = batch'.events
  BY <1>1, Zenon DEF Visible, InDoubt, InFlight, Running
<1>3. batch'.events \in Seq(RecordedEvent)
  BY Zenon DEF IndInv, TypeOK
<1>4. \A k \in 1..Len(batch'.events) :
         batch'.events[k].global_position = Len(events) + k - 1
  BY <1>1, Zenon DEF IndInv, BatchInv, InFlight, Shaped
<1>5. (pc \in Running) /\ (pc \in Running)' = (pc \in Running)
  BY <1>1 DEF Running
<1>6. (mishaps # {})' = (mishaps # {})
  BY <1>1, Zenon
<1>7. QED
  BY <1>2, <1>3, <1>4, <1>5, <1>6, Zenon DEF Log!Begin

(* Every step of the store is a step of the durable log, or none.          *)
LEMMA LogStep ==
  ASSUME IndInv, DoubtInv, IndInv', [Next]_vars
  PROVE  [Log!Next]_(Log!vars)
<1> USE DEF media, header, index, answers, bounds, history
<1>1. SUFFICES ASSUME mishaps' = {} PROVE [Log!Next]_(Log!vars)
  BY Zenon DEF Log!Next, Log!Excuse
<1>2. file' \in Seq(Segment)
  BY DEF IndInv, TypeOK
<1>3. CASE \E s \in StreamIds, v \in ExpectedVersions, p \in Proposals :
              AppendRejected(s, v, p)
  BY <1>3, Zenon DEF AppendRejected, Log!vars, Visible, InDoubt, InFlight
<1>4. CASE \E s \in StreamIds, v \in ExpectedVersions, p \in Proposals :
              AppendStart(s, v, p)
  BY <1>4, AppendBegins, Zenon DEF Log!Next
<1>5. CASE OpenCreate \/ OpenRefusesHeader
  BY <1>5, OpeningHidden, Zenon DEF OpenCreate, OpenRefusesHeader, Running
<1>6. CASE OpenExisting
  <2>1. mishaps' = mishaps
    BY <1>1, <1>6, Zenon DEF OpenExisting
  <2>2. QED
    BY <1>6, <2>1, OpeningHidden, Zenon DEF OpenExisting, Running
<1>7. CASE Create
  <2>1. CASE pc = "create_dir"
    <3>1. /\ file = <<>> /\ disk = <<>> /\ events = <<>> /\ mishaps = {}
          /\ pc' = "ready" /\ UNCHANGED <<file, seen, mishaps, events>>
      BY <1>1, <1>7, <2>1, Zenon
         DEF Create, CreateNext, IndInv, HeaderInv, IdleInv, Creating
    <3>2. seen = <<>>
      <4>1. PICK m \in 0..Len(disk) : Spells(seen, disk, m)
        BY <2>1, <3>1, Zenon DEF IndInv, SeenInv, Running
      <4>2. Len(seen) = 0
        BY <3>1, <4>1 DEF Spells, FileEnd
      <4>3. QED
        BY <4>2, LogTypes
    <3>3. LeftIn(file, seen) = <<>>
      BY <3>1 DEF LeftIn
    <3>4. events' = seen \o LeftIn(file, seen) /\ pc \notin Running
      BY <2>1, <3>1, <3>2, <3>3 DEF Running
    <3>5. Log!Recover
      BY <3>1, <3>4, OpenRecovers, Zenon
    <3>6. QED
      BY <3>5, Zenon DEF Log!Next
  <2>2. CASE pc # "create_dir"
    BY <1>7, <2>2, OpeningHidden DEF Create, CreateNext, Running
  <2>3. QED
    BY <2>1, <2>2, Zenon
<1>8. CASE \E extent \in Extents : Write(extent)
  <2>1. PICK extent \in Extents : Write(extent)
    BY <1>8
  <2>2. /\ batch'.events = batch.events /\ pc = "write" /\ pc' \in {"write", "sync"}
        /\ UNCHANGED <<events, mishaps>>
    <3>1. batch' = [batch EXCEPT !.extent = extent]
      BY <2>1, Zenon DEF Write
    <3>2. batch'.events = batch.events
      BY <3>1, Zenon DEF IndInv, TypeOK
    <3>3. QED
      BY <2>1, <3>2, Zenon DEF Write, AfterWrite
  <2>3. QED
    BY <2>2 DEF Log!vars, Visible, InDoubt, InFlight, Running
<1>9. CASE Sync
  BY <1>9 DEF Sync, Log!vars, Visible, InDoubt, InFlight, Running
<1>10. CASE UpdateIndex
  <2>1. /\ pc = "index" /\ pc' = "ready" /\ events' = events \o batch.events
        /\ UNCHANGED mishaps
    BY <1>10, Zenon DEF UpdateIndex
  <2>2. QED
    BY <2>1 DEF Log!Next, Log!Commit, Visible, InDoubt, InFlight, Running
<1>11. CASE ScanCommit \/ ScanRefuse \/ ScanCut
  BY <1>11, OpeningHidden, Zenon DEF ScanCommit, ScanRefuse, ScanCut, Running
<1>12. CASE ScanEnd \/ TruncateSync
  <2>1. /\ Scanning /\ pc \notin Running /\ pc' = "ready" /\ mishaps = {}
        /\ UNCHANGED <<seen, mishaps, events>>
    BY <1>1, <1>12, Zenon DEF ScanEnd, TruncateSync, Scanning, Running
  <2>2. offset = Len(file)
    BY <1>12, ZenonT(60) DEF ScanEnd, TruncateSync, IndInv, ScanInv, Scanning
  <2>3. QED
    BY <2>1, <2>2, RecoverySettles, OpenRecovers, Zenon DEF Log!Next
<1>13. CASE Truncate
  <2>1. /\ pc \notin Running /\ pc' \notin Running /\ mishaps = {}
        /\ UNCHANGED <<seen, mishaps>>
    BY <1>1, <1>13, Zenon DEF Truncate, Running
  <2>2. Kept(file', file) /\ Kept(file, file') /\ OneUnseen(file, seen)
    BY <1>13, <2>1, TruncateKeeps, Zenon DEF DoubtInv
  <2>3. file \in Seq(Segment)
    BY LogTypes, Zenon
  <2>4. /\ LeftIn(file', seen) \in {LeftIn(file, seen), <<>>}
        /\ OneUnseen(file', seen)
    BY <1>2, <2>2, <2>3, LeftStays, Zenon
  <2>5. LeftIn(file, seen) \in {LeftIn(file', seen), <<>>}
    BY <1>2, <2>2, <2>3, <2>4, LeftStays, Zenon
  <2>6. LeftIn(file', seen') = LeftIn(file, seen)
    BY <2>1, <2>4, <2>5, Zenon
  <2>7. QED
    BY <2>1, <2>6 DEF Log!vars, Visible, InDoubt, InFlight, Running
<1>14. CASE WriteFails \/ SyncFails
  <2>1. /\ pc \in {"write", "sync"} /\ pc' = "ready" /\ UNCHANGED <<events, mishaps>>
    BY <1>1, <1>14, Zenon DEF WriteFails, SyncFails, AppendFails
  <2>2. QED
    BY <2>1 DEF Log!Next, Log!Abort, Visible, InDoubt, InFlight, Running
<1>15. CASE ProcessCrash
  <2>1. Stop /\ file' = file /\ mishaps = {} /\ Kept(file', file)
    BY <1>1, <1>15, Zenon DEF ProcessCrash, Stop, Kept
  <2>2. QED
    BY <1>2, <2>1, StopHidden, Zenon
<1>16. CASE PowerLoss
  <2>1. Stop /\ mishaps = {}
    BY <1>1, <1>16 DEF PowerLoss, Stop
  <2>2. QED
    BY <1>2, <1>16, <2>1, StopHidden, PowerLossCommitsNothing, Zenon
<1>17. CASE \E i \in 1..Len(file), rot \in Rots \ {"none"} : Rot(i, rot)
  BY <1>1, <1>17, Zenon DEF Rot
<1>18. CASE UNCHANGED vars
  BY <1>18, Zenon DEF vars, Log!vars, Visible, InDoubt, InFlight, Running
<1>19. QED
  BY <1>3, <1>4, <1>5, <1>6, <1>7, <1>8, <1>9, <1>10, <1>11, <1>12, <1>13,
     <1>14, <1>15, <1>16, <1>17, <1>18, Zenon DEF Next, Process

(* At most one batch is ever in doubt between two processes.               *)
THEOREM OneInDoubt == Spec => []DoubtInv
<1>1. Init => DoubtInv
  BY DEF Init, DoubtInv, Ordered, OneUnseen, Running
<1>2. IndInv /\ IndInv' /\ DoubtInv /\ [Next]_vars => DoubtInv'
  BY DoubtStep, Zenon
<1>3. QED
  BY <1>1, <1>2, StoreInvariance, PTL DEF Spec

(***************************************************************************)
(* Store::append and Store::open implement the durable log, whatever the   *)
(* streams, batches, crashes, power losses and faults: readers and writers *)
(* cannot tell the file, its fsyncs and its recovery from a sequence that  *)
(* grows by whole batches, until a mishap the engine does not withstand.   *)
(***************************************************************************)
THEOREM StoreImplementsLog == Spec => ImplementsLog
<1>1. Init => Log!Init
  <2>1. SUFFICES ASSUME Init PROVE Log!Init
    OBVIOUS
  <2>2. LeftIn(file, seen) = <<>>
    BY <2>1 DEF Init, LeftIn
  <2>3. QED
    BY <2>1, <2>2 DEF Init, Log!Init, Visible, InDoubt, InFlight, Running
<1>2. IndInv /\ IndInv' /\ DoubtInv /\ [Next]_vars => [Log!Next]_(Log!vars)
  BY LogStep, Zenon
<1>3. QED
  BY <1>1, <1>2, StoreInvariance, OneInDoubt, PTL
     DEF Spec, ImplementsLog, Log!Spec
====
