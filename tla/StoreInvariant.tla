--------------------------- MODULE StoreInvariant ---------------------------
(***************************************************************************)
(* The inductive invariant of Store: how the log file, its copy on the     *)
(* device, the index and what readers remember hang together at every      *)
(* system call.                                                            *)
(***************************************************************************)
EXTENDS Store

Good(seg) == seg.extent = Whole /\ seg.rot = "none"
GoodTo(f, n) == \A i \in 1..n : Good(f[i])
EndOf(seg) == seg.first + Len(seg.events)

(* The position after the first n segments of f.                           *)
FileEnd(f, n) == IF n = 0 THEN 0 ELSE EndOf(f[n])

(* In the first n segments of f, stream s has reached version v.           *)
HasStream(seg, s) == seg.stream = s /\ Len(seg.events) > 0
StreamEnd(f, n, s, v) ==
  \/ v = 0 /\ \A j \in 1..n : ~HasStream(f[j], s)
  \/ \E j \in 1..n :
       /\ HasStream(f[j], s)
       /\ \A i \in (j+1)..n : ~HasStream(f[i], s)
       /\ v = f[j].events[1].stream_version + Len(f[j].events)

(* A segment's events belong to its stream and are numbered from its start. *)
Shaped(seg) ==
  \A k \in 1..Len(seg.events) :
     /\ seg.events[k].stream_id = seg.stream
     /\ seg.events[k].global_position = seg.first + k - 1
     /\ seg.events[k].stream_version = seg.events[1].stream_version + k - 1

(* Segment i of f starts where the segments before it end.                 *)
Follows(f, i) ==
  /\ f[i].first = FileEnd(f, i - 1)
  /\ Len(f[i].events) > 0 =>
       StreamEnd(f, i - 1, f[i].stream, f[i].events[1].stream_version)

(* E is the events of the first n segments of f, in order.                 *)
Spells(E, f, n) ==
  /\ Len(E) = FileEnd(f, n)
  /\ \A i \in 1..n : \A k \in 1..Len(f[i].events) :
        f[i].first + k <= Len(E) /\ E[f[i].first + k] = f[i].events[k]
  /\ \A p \in 1..Len(E) : \E i \in 1..n :
        f[i].first < p /\ p <= EndOf(f[i])

(* The segments of the file that the index accounts for.                   *)
InFlight == pc \in {"write", "sync", "index"}
Settled ==
  IF InFlight /\ batch.extent # Nothing THEN Len(file) - 1 ELSE Len(file)

Scanning == pc \in {"scan", "truncate", "truncate_sync"}
Creating == pc \in {"create", "create_sync", "create_dir"}

-----------------------------------------------------------------------------
(* The log is created before it is used, and its directory entry with it.  *)
HeaderInv ==
  /\ linked => hdr # Absent
  /\ linked /\ hdr = Complete => hdrSynced
  /\ hdr # Complete \/ Creating => file = <<>> /\ disk = <<>>
  /\ pc = "create" => hdr = Short
  /\ Creating => ~linked
  /\ pc \in {"create_sync", "create_dir"} => hdr = Complete
  /\ pc = "create_dir" => hdrSynced
  /\ Scanning \/ pc \in Running => hdr = Complete
  /\ "unlinked" \notin mishaps =>
       /\ Scanning \/ pc \in Running \/ opened = "ok" => linked /\ hdr = Complete
       /\ ~linked => file = <<>> /\ disk = <<>>

(* Without a process, or before it scans, there is no index.               *)
IdleInv ==
  pc = "down" \/ Creating =>
     offset = 0 /\ events = <<>> /\ streams = NoStreams

ShapeInv ==
  /\ \A i \in 1..Len(file) : Shaped(file[i])
  /\ \A i \in 1..Len(disk) : Shaped(disk[i])

(* The append under way continues the index, and is the end of the file.   *)
BatchInv ==
  InFlight =>
     /\ Shaped(batch)
     /\ batch.first = Len(events)
     /\ Len(batch.events) > 0 =>
          batch.events[1].stream_version = NextVersion(batch.stream)
     /\ batch.rot = "none"
     /\ batch.extent # Nothing => Len(file) > 0 /\ file[Len(file)] = batch
     /\ pc = "write" <=> batch.extent < Whole
     /\ pc = "index" => disk = file

(* What is committed on the device is committed in the page cache.         *)
DiskInv ==
  \A n \in 1..Len(disk) :
     GoodTo(disk, n) => n <= Len(file) /\ file[n] = disk[n]

(* A crash damages the last segment only, and recovery removes it.         *)
TailInv ==
  mishaps \cap {"torn", "rot"} = {} =>
     /\ \A i \in 1..(Len(file) - 1) : Good(file[i])
     /\ \A i \in 1..(Len(disk) - 1) : Good(disk[i])
     /\ pc \in Running => GoodTo(file, Settled)
     /\ \A i \in 1..Len(file) : file[i].rot = "none"
     /\ \A i \in 1..Len(disk) : disk[i].rot = "none"

(* Committed segments are numbered without a gap.                          *)
FollowInv ==
  "unsynced" \notin mishaps =>
     \A i \in 1..Len(file) : GoodTo(file, i) => Follows(file, i)

(* Recovery: the index so far is the segments consumed so far.             *)
ScanInv ==
  Scanning =>
     /\ offset <= Len(file)
     /\ GoodTo(file, offset)
     /\ pc = "truncate" => offset < Len(file) /\ ~Good(file[offset + 1])
     /\ pc = "truncate_sync" => offset = Len(file)
     /\ \A i \in 1..offset : \A k \in 1..Len(file[i].events) :
           \E p \in 1..Len(events) : events[p] = file[i].events[k]
     /\ "unsynced" \notin mishaps =>
          /\ Spells(events, file, offset)
          /\ \A s \in StreamIds : StreamEnd(file, offset, s, NextVersion(s))

(* A running store's index is the file, unless a bad segment is in it.     *)
RunInv ==
  pc \in Running /\ "unsynced" \notin mishaps /\ GoodTo(file, Settled) =>
     /\ Spells(events, file, Settled)
     /\ \A s \in StreamIds : StreamEnd(file, Settled, s, NextVersion(s))

(* What readers can see, or saw, is on the device.                         *)
SeenInv ==
  mishaps = {} =>
     /\ pc \in Running =>
          Settled <= Len(disk) /\ \A i \in 1..Settled : disk[i] = file[i]
     /\ pc \notin Running =>
          \E m \in 0..Len(disk) : GoodTo(disk, m) /\ Spells(seen, disk, m)

(* What was acknowledged is committed on the device.                       *)
AckedInv ==
  mishaps \cap {"torn", "rot", "unlinked"} = {} =>
     \A e \in acked : \E i \in 1..Len(disk) :
        GoodTo(disk, i) /\ \E k \in 1..Len(disk[i].events) : disk[i].events[k] = e

(***************************************************************************)
(* The store's state at every system call, the crash points included: the  *)
(* invariant the theorems are proved from.                                 *)
(***************************************************************************)
IndInv ==
  /\ TypeOK
  /\ HeaderInv /\ IdleInv /\ ShapeInv /\ BatchInv /\ DiskInv /\ TailInv
  /\ FollowInv /\ ScanInv /\ RunInv /\ SeenInv /\ AckedInv
  /\ GlobalDense /\ StreamsDense /\ ReadsSurvive /\ AckedSurvive
  /\ CrashNeverCorrupts
====
