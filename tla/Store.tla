------------------------------- MODULE Store -------------------------------
(***************************************************************************)
(* The storage engine, store.rs: one append-only log file and the index    *)
(* (EventLog) that readers share.  Store::append and Store::open are cut   *)
(* at every system call, so that a crash or an I/O error can fall between  *)
(* any two of them.                                                        *)
(*                                                                         *)
(* The file is its header and a sequence of segments, one per batch        *)
(* envelope that some append began to write.  How many of a segment's      *)
(* bytes are there is its extent; what the bytes say is its events.        *)
(***************************************************************************)
EXTENDS Integers, Sequences

CONSTANTS
  StreamIds,        \* stream UUIDs
  EventIds,         \* event UUIDs
  Proposals,        \* the Vec<ProposedEvent> arguments append may be given
  MaxExact,         \* bound: Exact(n) is tried for n in 0..MaxExact
  MaxAppends,       \* bound: appends that get past validation
  MaxCrashes,       \* bound: process crashes and power losses
  Faults            \* the mishaps the environment may cause: see Mishaps

(***************************************************************************)
(* What can go wrong apart from a crash.  The environment causes the first *)
(* three; the others are how a restart meets a crash at a bad moment.      *)
(*                                                                         *)
(* "torn":     a write fails after some bytes of the batch reached the     *)
(*             file; the process goes on                                   *)
(* "unsynced": fsync fails after a complete write; the process goes on     *)
(* "rot":      bytes of a stored batch change while the store is closed    *)
(* "unlinked":  open accepts a log whose directory entry was not fsynced,  *)
(*              because the process died while it created the log          *)
(* "unflushed": open accepts a batch that was not fsynced, because the     *)
(*              process died between write and fsync                       *)
(***************************************************************************)
Mishaps == {"torn", "unsynced", "rot", "unlinked", "unflushed"}

(* How a proposed event fares in append's validation and in encode_record. *)
Kinds == {"ok", "bad_type", "too_large"}
ProposedEvent == [event_id : EventIds, kind : Kinds]

ASSUME ProposalsAssumption == Proposals \subseteq Seq(ProposedEvent)
ASSUME StreamsAssumption == StreamIds # {}
ASSUME BoundsAssumption ==
  MaxExact \in Nat /\ MaxAppends \in Nat /\ MaxCrashes \in Nat
ASSUME FaultsAssumption == Faults \subseteq {"torn", "unsynced", "rot"}

RecordedEvent == [event_id : EventIds, stream_id : StreamIds,
                  stream_version : Nat, global_position : Nat]

(* ExpectedVersion: Any, NoStream, or Exact(n) written as n itself.        *)
Any == -2
NoStream == -1
ExpectedVersions == {Any, NoStream} \cup 0..MaxExact

(***************************************************************************)
(* Extents of a segment.  decode_batch_header wants 16 bytes, of which 4   *)
(* are the magic; everything up to the last byte of the footer is needed   *)
(* for the batch to be accepted.                                           *)
(***************************************************************************)
Nothing == 0       \* no byte written
TornMagic == 1     \* 1..3 bytes
TornHeader == 2    \* 4..15 bytes: the magic, not the whole header
TornBody == 3      \* the header, not all the records and the footer
Whole == 4
Extents == TornMagic..Whole

(* Which bytes of a stored batch have gone bad: its magic, or any others.  *)
Rots == {"none", "magic", "body"}

(* A batch envelope: header (first), records (all of one stream), footer.  *)
Segment == [stream : StreamIds, first : Nat, events : Seq(RecordedEvent),
            extent : Extents, rot : Rots]

(* The file header: no file, fewer than 8 bytes, or complete.              *)
Absent == 0
Short == 1
Complete == 2

VARIABLES
  pc,          \* the system call that comes next; "down" without a process
  hdr,         \* file header as the page cache has it
  hdrSynced,   \* the header bytes are on the device
  linked,      \* the directory entry is on the device
  file,        \* segments as the page cache has them
  disk,        \* segments as of the last fsync
  offset,      \* recovery: segments consumed so far
  events,      \* EventLog.events
  streams,     \* EventLog.streams, a function on the known streams
  batch,       \* append: the envelope being written
  result,      \* what the last append answered
  opened,      \* what the last open answered
  appends, crashes,  \* counters for the bounds
  seen,        \* history: the index readers had when the store last stopped
  tried,       \* history: every batch an append set out to write
  acked,       \* history: the events of appends that answered Ok
  mishaps      \* history: the mishaps that happened

header == <<hdr, hdrSynced, linked>>
media == <<header, file, disk>>
index == <<events, streams>>
answers == <<result, opened>>
bounds == <<appends, crashes>>
history == <<seen, tried, acked, mishaps>>
vars == <<pc, media, offset, index, batch, answers, bounds, history>>

Running == {"ready", "write", "sync", "index"}
Opening == {"create", "create_sync", "create_dir", "scan", "truncate",
            "truncate_sync"}
Results == {"none", "ok", "WrongExpectedVersion", "InvalidArgument",
            "EventTooLarge", "Io"}
OpenResults == {"none", "ok", "InvalidHeader", "CorruptRecord"}

NoStreams == [s \in {} |-> <<>>]

(* No append is under way; the stream is of no consequence.                *)
NoBatch == [stream |-> CHOOSE s \in StreamIds : TRUE, first |-> 0,
            events |-> <<>>, extent |-> Nothing, rot |-> "none"]

Init ==
  /\ pc = "down"
  /\ hdr = Absent /\ hdrSynced = FALSE /\ linked = FALSE
  /\ file = <<>> /\ disk = <<>>
  /\ offset = 0 /\ events = <<>> /\ streams = NoStreams
  /\ batch = NoBatch
  /\ result = "none" /\ opened = "none"
  /\ appends = 0 /\ crashes = 0
  /\ seen = <<>> /\ tried = {} /\ acked = {} /\ mishaps = {}

-----------------------------------------------------------------------------
(***************************************************************************)
(* append, step 1: the version check and the next positions.  Of a stream  *)
(* that is known but empty the code takes 0u64 - 1, which is no version a  *)
(* client sends; here it is -1, with the same outcome.                     *)
(***************************************************************************)
VersionAccepted(s, expected) ==
  \/ expected = Any
  \/ expected = NoStream /\ s \notin DOMAIN streams
  \/ expected \in Nat /\ s \in DOMAIN streams /\ Len(streams[s]) - 1 = expected

NextVersion(s) == IF s \in DOMAIN streams THEN Len(streams[s]) ELSE 0

(* append, step 2: positions and versions are assigned in order.           *)
Numbered(s, proposed, version, position) ==
  [k \in 1..Len(proposed) |->
     [event_id |-> proposed[k].event_id, stream_id |-> s,
      stream_version |-> version + k - 1, global_position |-> position + k - 1]]

Recorded(s, proposed) == Numbered(s, proposed, NextVersion(s), Len(events))

(* The first event that fails validation decides which error is returned.  *)
Validation(proposed) ==
  IF \A k \in 1..Len(proposed) : proposed[k].kind = "ok" THEN "ok"
  ELSE LET k == CHOOSE k \in 1..Len(proposed) :
                  /\ proposed[k].kind # "ok"
                  /\ \A j \in 1..(k-1) : proposed[j].kind = "ok"
       IN IF proposed[k].kind = "bad_type" THEN "InvalidArgument"
                                           ELSE "EventTooLarge"

AppendRejected(s, expected, proposed) ==
  /\ pc = "ready"
  /\ \/ /\ ~VersionAccepted(s, expected)
        /\ result' = "WrongExpectedVersion"
     \/ /\ VersionAccepted(s, expected)
        /\ Validation(proposed) # "ok"
        /\ result' = Validation(proposed)
  /\ UNCHANGED <<pc, media, offset, index, batch, opened, bounds, history>>

AppendStart(s, expected, proposed) ==
  /\ pc = "ready"
  /\ appends < MaxAppends
  /\ VersionAccepted(s, expected)
  /\ Validation(proposed) = "ok"
  /\ pc' = "write"
  /\ batch' = [stream |-> s, first |-> Len(events),
               events |-> Recorded(s, proposed),
               extent |-> Nothing, rot |-> "none"]
  /\ appends' = appends + 1
  /\ tried' = tried \cup {batch'.events}
  /\ UNCHANGED <<media, offset, index, answers, crashes, seen, acked, mishaps>>

(* Variant: write_all without sync_all.                                    *)
AfterWriteUnsynced(extent) == IF extent = Whole THEN "index" ELSE "write"

AfterWrite(extent) == IF extent = Whole THEN "sync" ELSE "write"

(***************************************************************************)
(* append, step 4: write_all writes in one or more pieces.  The handle is  *)
(* at the end of the file, whatever an earlier failed append left there.   *)
(***************************************************************************)
Write(extent) ==
  /\ pc = "write"
  /\ batch.extent < extent
  /\ batch' = [batch EXCEPT !.extent = extent]
  /\ file' = IF batch.extent = Nothing
             THEN Append(file, batch')
             ELSE [file EXCEPT ![Len(file)] = batch']
  /\ pc' = AfterWrite(extent)
  /\ UNCHANGED <<header, disk, offset, index, answers, bounds, history>>

(* The error is returned; what was written stays in the file.              *)
AppendFails(mishap) ==
  /\ pc' = "ready"
  /\ result' = "Io"
  /\ batch' = NoBatch
  /\ mishaps' = IF batch.extent = Nothing THEN mishaps
                                          ELSE mishaps \cup {mishap}
  /\ UNCHANGED <<media, offset, index, opened, bounds, seen, tried, acked>>

WriteFails == pc = "write" /\ "torn" \in Faults /\ AppendFails("torn")

(* Variant: the error of sync_all is dropped.                              *)
SyncErrorIgnored ==
  /\ pc = "sync" /\ "unsynced" \in Faults
  /\ pc' = "index"
  /\ mishaps' = mishaps \cup {"unsynced"}
  /\ UNCHANGED <<media, offset, index, batch, answers, bounds, seen, tried,
                 acked>>

SyncFails == pc = "sync" /\ "unsynced" \in Faults /\ AppendFails("unsynced")

Sync ==
  /\ pc = "sync"
  /\ pc' = "index"
  /\ disk' = file
  /\ hdrSynced' = TRUE
  /\ UNCHANGED <<hdr, linked, file, offset, index, batch, answers, bounds,
                 history>>

(* streams.entry(s).or_default(), then one push per event.                 *)
Pushed(s, evs) ==
  [t \in DOMAIN streams \cup {s} |->
     (IF t \in DOMAIN streams THEN streams[t] ELSE <<>>)
       \o (IF t = s THEN [k \in 1..Len(evs) |-> evs[k].global_position]
                    ELSE <<>>)]

(* append, step 5: the index changes under one write lock; Ok is returned. *)
UpdateIndex ==
  /\ pc = "index"
  /\ pc' = "ready"
  /\ streams' = Pushed(batch.stream, batch.events)
  /\ events' = events \o batch.events
  /\ result' = "ok"
  /\ batch' = NoBatch
  /\ acked' = acked \cup {batch.events[k] : k \in 1..Len(batch.events)}
  /\ UNCHANGED <<media, offset, opened, bounds, seen, tried, mishaps>>

-----------------------------------------------------------------------------
(* open, on a path that does not exist.                                    *)

OpenCreate ==
  /\ pc = "down"
  /\ hdr = Absent
  /\ pc' = "create"
  /\ hdr' = Short
  /\ UNCHANGED <<hdrSynced, linked, file, disk, offset, index, batch, answers,
                 bounds, history>>

(* write_all the header, sync_all the file, sync_all the directory.        *)
CreateNext == [create |-> "create_sync", create_sync |-> "create_dir",
               create_dir |-> "ready"]

Create ==
  /\ pc \in DOMAIN CreateNext
  /\ pc' = CreateNext[pc]
  /\ hdr' = Complete
  /\ hdrSynced' = (hdrSynced \/ pc = "create_sync")
  /\ linked' = (pc = "create_dir")
  /\ opened' = IF pc' = "ready" THEN "ok" ELSE opened
  /\ UNCHANGED <<file, disk, offset, index, batch, result, bounds, history>>

-----------------------------------------------------------------------------
(* open, on an existing file.                                              *)

OpenRefusesHeader ==
  /\ pc = "down"
  /\ hdr = Short
  /\ opened' = "InvalidHeader"
  /\ UNCHANGED <<pc, media, offset, index, batch, result, bounds, history>>

OpenExisting ==
  /\ pc = "down"
  /\ hdr = Complete
  /\ pc' = "scan"
  /\ mishaps' = IF linked THEN mishaps ELSE mishaps \cup {"unlinked"}
  /\ UNCHANGED <<media, offset, index, batch, answers, bounds, seen, tried,
                 acked>>

(* Variant: a batch is accepted without looking at its footer.             *)
DecodesWithoutFooter(i) ==
  file[i].extent \in {TornBody, Whole} /\ file[i].rot = "none"

(***************************************************************************)
(* One turn of the recovery loop looks at segment i.  It decodes, or its   *)
(* magic is bad and a batch header follows (the file is refused), or the   *)
(* file is cut before it.  A torn magic reads as bad once enough bytes     *)
(* follow it.                                                              *)
(***************************************************************************)
Decodes(i) == file[i].extent = Whole /\ file[i].rot = "none"

BadMagic(i) == file[i].extent = TornMagic \/ file[i].rot = "magic"

(* Variant: any bytes behind the bad magic count as a batch.               *)
HeaderAfterAlways(i) == TRUE

(* has_valid_batch_after looks for a header only, not for a whole batch.   *)
HeaderAfter(i) ==
  \E j \in (i+1)..Len(file) :
     file[j].extent \in {TornBody, Whole} /\ file[j].rot # "magic"

(* 4..15 bytes of a header read as a header if later bytes make up 16.     *)
PerhapsHeaderAfter(i) ==
  \E j \in (i+1)..(Len(file) - 1) : file[j].extent = TornHeader

(* Variant: no batch envelope, the first record of a torn batch is kept.   *)
ScanCommitRecords ==
  /\ pc = "scan"
  /\ offset < Len(file)
  /\ Decodes(offset + 1) \/ file[offset + 1].extent = TornBody
  /\ LET seg == file[offset + 1]
         evs == IF Decodes(offset + 1) \/ seg.events = <<>> THEN seg.events
                                       ELSE SubSeq(seg.events, 1, 1)
     IN events' = events \o evs /\ streams' = Pushed(seg.stream, evs)
  /\ offset' = offset + 1
  /\ UNCHANGED <<pc, media, batch, answers, bounds, history>>

ScanCommit ==
  /\ pc = "scan"
  /\ offset < Len(file)
  /\ Decodes(offset + 1)
  /\ events' = events \o file[offset + 1].events
  /\ streams' = IF file[offset + 1].events = <<>> THEN streams
                ELSE Pushed(file[offset + 1].stream, file[offset + 1].events)
  /\ offset' = offset + 1
  /\ UNCHANGED <<pc, media, batch, answers, bounds, history>>

ScanRefuse ==
  /\ pc = "scan"
  /\ offset < Len(file)
  /\ ~Decodes(offset + 1)
  /\ BadMagic(offset + 1)
  /\ HeaderAfter(offset + 1) \/ PerhapsHeaderAfter(offset + 1)
  /\ pc' = "down"
  /\ opened' = "CorruptRecord"
  /\ offset' = 0 /\ events' = <<>> /\ streams' = NoStreams
  /\ UNCHANGED <<media, batch, result, bounds, history>>

(* Variant: the loop turns again instead of cutting the file.              *)
ScanCutNever == pc = "scan" /\ offset < Len(file) /\ UNCHANGED vars

ScanCut ==
  /\ pc = "scan"
  /\ offset < Len(file)
  /\ ~Decodes(offset + 1)
  /\ ~(BadMagic(offset + 1) /\ HeaderAfter(offset + 1))
  /\ pc' = "truncate"
  /\ UNCHANGED <<media, offset, index, batch, answers, bounds, history>>

(* Every segment of the page cache is on the device.                       *)
Flushed ==
  Len(file) <= Len(disk) /\ \A i \in 1..Len(file) : file[i] = disk[i]

ScanEnd ==
  /\ pc = "scan"
  /\ offset = Len(file)
  /\ pc' = "ready"
  /\ opened' = "ok"
  /\ offset' = 0
  /\ mishaps' = IF Flushed THEN mishaps ELSE mishaps \cup {"unflushed"}
  /\ UNCHANGED <<media, index, batch, result, bounds, seen, tried, acked>>

(* Variant: the file is cut one batch too early.                           *)
TruncateToEarly == offset - 1

TruncateTo == offset

(* truncate_and_return: set_len, then sync_all.                            *)
Truncate ==
  /\ pc = "truncate"
  /\ pc' = "truncate_sync"
  /\ file' = SubSeq(file, 1, TruncateTo)
  /\ UNCHANGED <<header, disk, offset, index, batch, answers, bounds, history>>

TruncateSync ==
  /\ pc = "truncate_sync"
  /\ pc' = "ready"
  /\ disk' = file
  /\ hdrSynced' = TRUE
  /\ opened' = "ok"
  /\ offset' = 0
  /\ UNCHANGED <<hdr, linked, file, index, batch, result, bounds, history>>

-----------------------------------------------------------------------------
(* The environment.                                                        *)

(* The process is gone; what readers could see of its index is remembered. *)
Stop ==
  /\ crashes < MaxCrashes
  /\ crashes' = crashes + 1
  /\ pc' = "down"
  /\ offset' = 0 /\ events' = <<>> /\ streams' = NoStreams
  /\ batch' = NoBatch
  /\ seen' = IF pc \in Running THEN events ELSE seen
  /\ UNCHANGED <<answers, appends, tried, acked, mishaps>>

(***************************************************************************)
(* The process is killed, shut down, or gives up on an I/O error in open.  *)
(* The page cache survives it.                                             *)
(***************************************************************************)
ProcessCrash == pc # "down" /\ Stop /\ UNCHANGED media

(* The first n segments are the same in the page cache and on the device.  *)
Shared(n) ==
  /\ n <= Len(disk)
  /\ \A i \in 1..n : file[i] = disk[i]
  /\ n < Len(file) /\ n < Len(disk) => file[n+1] # disk[n+1]

(* The device got the first k segments and some bytes of the next one.     *)
TornAfter(k) ==
  \E e \in Extents :
     /\ e < file[k+1].extent
     /\ file' = Append(SubSeq(file, 1, k), [file[k+1] EXCEPT !.extent = e])

(***************************************************************************)
(* Power is lost.  Under the documented filesystem assumptions the device  *)
(* has either what the last fsync left, or that with a prefix of what was  *)
(* written since, cut at any byte; a file whose directory entry was not    *)
(* fsynced may be gone.                                                    *)
(***************************************************************************)
PowerLoss ==
  /\ Stop
  /\ \/ ~linked /\ hdr' = Absent /\ file' = <<>> /\ UNCHANGED linked
     \/ /\ hdr # Absent
        /\ linked' = TRUE
        /\ hdr' \in IF hdrSynced THEN {hdr} ELSE Short..hdr
        /\ \/ hdr' = Short /\ file' = <<>>
           \/ hdr' = Complete /\ file' = disk
           \/ /\ hdr' = Complete
              /\ \E n \in 0..Len(file) : \E k \in n..Len(file) :
                   /\ Shared(n)
                   /\ \/ file' = SubSeq(file, 1, k)
                      \/ k < Len(file) /\ TornAfter(k)
  /\ disk' = file'
  /\ hdrSynced' = (hdr' = Complete)

(* Bytes of a stored batch change while the store is closed.               *)
Rot(i, rot) ==
  /\ pc = "down"
  /\ "rot" \in Faults
  /\ file = disk
  /\ Decodes(i)
  /\ file' = [file EXCEPT ![i].rot = rot]
  /\ disk' = file'
  /\ mishaps' = mishaps \cup {"rot"}
  /\ UNCHANGED <<pc, header, offset, index, batch, answers, bounds, seen,
                 tried, acked>>

-----------------------------------------------------------------------------
(* A step of a system call that the process has under way.                 *)
Process ==
  \/ \E extent \in Extents : Write(extent)
  \/ Sync \/ UpdateIndex
  \/ Create
  \/ ScanCommit \/ ScanRefuse \/ ScanCut \/ ScanEnd
  \/ Truncate \/ TruncateSync

Next ==
  \/ \E s \in StreamIds, v \in ExpectedVersions, p \in Proposals :
        AppendRejected(s, v, p) \/ AppendStart(s, v, p)
  \/ OpenCreate \/ OpenRefusesHeader \/ OpenExisting
  \/ Process
  \/ WriteFails \/ SyncFails
  \/ ProcessCrash \/ PowerLoss
  \/ \E i \in 1..Len(file), rot \in Rots \ {"none"} : Rot(i, rot)

(***************************************************************************)
(* A system call that has begun is carried on with: the code between two   *)
(* of them is straight-line Rust.  Nothing is assumed of clients, of the   *)
(* operator who restarts the server, or of the environment.                *)
(***************************************************************************)
Spec == Init /\ [][Next]_vars /\ WF_vars(Process)

-----------------------------------------------------------------------------
(* The variables have the types of the structs they stand for.             *)
TypeOK ==
  /\ pc \in {"down"} \cup Running \cup Opening
  /\ hdr \in {Absent, Short, Complete}
  /\ hdrSynced \in BOOLEAN /\ linked \in BOOLEAN
  /\ file \in Seq(Segment) /\ disk \in Seq(Segment)
  /\ offset \in Nat
  /\ events \in Seq(RecordedEvent)
  /\ DOMAIN streams \subseteq StreamIds
  /\ streams \in [DOMAIN streams -> Seq(Nat)]
  /\ batch \in [stream : StreamIds, first : Nat, events : Seq(RecordedEvent),
                extent : Extents \cup {Nothing}, rot : Rots]
  /\ result \in Results /\ opened \in OpenResults
  /\ appends \in Nat /\ crashes \in Nat
  /\ seen \in Seq(RecordedEvent)
  /\ tried \subseteq Seq(RecordedEvent)
  /\ acked \subseteq RecordedEvent
  /\ mishaps \subseteq Mishaps

(***************************************************************************)
(* Index i of EventLog.events is the event at global position i: the       *)
(* positions clients store as checkpoints have no gap and no double, after *)
(* any sequence of appends, crashes, torn writes and recoveries.  An fsync *)
(* that failed after a complete write is the exception: the next append    *)
(* takes the same positions again.                                         *)
(***************************************************************************)
GlobalDense ==
  "unsynced" \notin mishaps =>
     \A i \in 1..Len(events) : events[i].global_position = i - 1

(***************************************************************************)
(* Index j of a stream's position list is that stream's event at version   *)
(* j, and every event is in the list of its stream: what read_stream, the  *)
(* version check and subscribe_stream rest on, recovered or not.           *)
(***************************************************************************)
StreamsDense ==
  "unsynced" \notin mishaps =>
     /\ \A s \in DOMAIN streams : \A j \in 1..Len(streams[s]) :
           LET p == streams[s][j]
           IN /\ p < Len(events)
              /\ events[p+1].stream_id = s
              /\ events[p+1].stream_version = j - 1
     /\ \A i \in 1..Len(events) :
           LET s == events[i].stream_id
               j == events[i].stream_version + 1
           IN /\ s \in DOMAIN streams
              /\ j <= Len(streams[s])
              /\ streams[s][j] = i - 1

(***************************************************************************)
(* Readers of a restarted store see everything they saw before it stopped, *)
(* in the same order.  This is what fsync before the index update is for.  *)
(***************************************************************************)
ReadsSurvive ==
  pc \in Running /\ mishaps = {} =>
     /\ Len(seen) <= Len(events)
     /\ \A i \in 1..Len(seen) : seen[i] = events[i]

(***************************************************************************)
(* An event that append acknowledged is in the index of every later        *)
(* process: a torn write, bad bytes, or a log created without its          *)
(* directory fsync are what it takes to lose one.                          *)
(***************************************************************************)
AckedSurvive ==
  pc \in Running /\ mishaps \cap {"torn", "rot", "unlinked"} = {} =>
     \A e \in acked : \E i \in 1..Len(events) : events[i] = e

(***************************************************************************)
(* A batch is in the index as a whole or not at all, whatever was cut off  *)
(* where: the batch envelope at work.                                      *)
(***************************************************************************)
BatchAtomic ==
  \A b \in tried :
     LET shown == {k \in 1..Len(b) : \E i \in 1..Len(events) : events[i] = b[k]}
     IN shown = {} \/ shown = 1..Len(b)

(***************************************************************************)
(* Crashes and failed fsyncs alone never make open refuse the log with     *)
(* CorruptRecord.                                                          *)
(***************************************************************************)
CrashNeverCorrupts ==
  opened = "CorruptRecord" => mishaps \cap {"torn", "rot"} # {}

(***************************************************************************)
(* A log that open has created stays there, with its header, through any   *)
(* crash: the file and directory fsyncs of the creation path.              *)
(***************************************************************************)
CreatedLogStays ==
  opened = "ok" => hdr = Complete \/ "unlinked" \in mishaps

(***************************************************************************)
(* No step takes a committed batch off the device or changes it, but for   *)
(* bytes that go bad and the loss of a file whose directory entry was      *)
(* never fsynced: recovery cuts the file only behind the last batch that   *)
(* decodes.                                                                *)
(***************************************************************************)
CommittedKept ==
  [][\A n \in 1..Len(disk) :
       (\A i \in 1..n : disk[i].extent = Whole /\ disk[i].rot = "none") =>
          \/ n <= Len(disk') /\ disk'[n] = disk[n]
          \/ ~linked
          \/ "rot" \in mishaps' /\ pc = "down"]_vars

(***************************************************************************)
(* An open or an append that has begun ends: the store gets ready again,   *)
(* or the process is gone.                                                 *)
(***************************************************************************)
CallsEnd == pc \notin {"down", "ready"} ~> pc \in {"down", "ready"}
====
