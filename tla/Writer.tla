------------------------------- MODULE Writer -------------------------------
(***************************************************************************)
(* The writer task, writer.rs, with its deduplication index, dedup.rs.     *)
(*                                                                         *)
(* Callers hand requests to the task over a bounded mpsc channel and wait  *)
(* on a oneshot channel for the answer.  A caller may give up at any time  *)
(* (its handler future is dropped), and repeat the request in a new call.  *)
(* The process may die between any two steps and be started again on the   *)
(* same log.                                                               *)
(*                                                                         *)
(* The file is what module Store makes of it: a batch that append reports  *)
(* is in it, a crash leaves the batch under way in it or not, and an I/O   *)
(* error leaves none, some or all of its bytes there, while the index goes *)
(* on without it.                                                          *)
(***************************************************************************)
EXTENDS Integers, Sequences, FiniteSets

CONSTANTS
  StreamIds,        \* stream UUIDs
  EventIds,         \* event UUIDs
  Requests,         \* what callers ask for
  Capacity,         \* of the mpsc channel
  DedupCapacity,    \* of the LRU cache
  MaxCalls,         \* bound: calls of WriterHandle::append
  MaxStarts         \* bound: starts of the process

(* ExpectedVersion: Any, NoStream, or Exact(n) written as n itself.        *)
Any == -2
NoStream == -1

(* How the events fare in Store::append once the version is accepted.      *)
Validity == {"ok", "InvalidArgument", "EventTooLarge"}

Request == [stream_id : StreamIds, expected_version : {Any, NoStream} \cup Nat,
            events : Seq(EventIds), validity : Validity]

(* EventfoldService::append turns a request without events away.           *)
ASSUME RequestsAssumption ==
  Requests \subseteq Request /\ \A r \in Requests : r.events # <<>>
ASSUME CapacityAssumption ==
  Capacity \in Nat \ {0} /\ DedupCapacity \in Nat \ {0}
ASSUME BoundsAssumption == MaxCalls \in Nat /\ MaxStarts \in Nat
ASSUME IdsAssumption == IsFiniteSet(EventIds)

Calls == 1..MaxCalls

VARIABLES
  pc,          \* where the task is; "down" and "exited" without a process
  events,      \* EventLog.events; without a process, what open will read
  file,        \* the events that open would read if the process died now
  torn,        \* a half-written batch ends what open can read
  channel,     \* requests sent and not received, as the calls they are of
  batch,       \* requests drained and not yet answered
  recorded,    \* what store.append returned for the first of them
  k,           \* loop counter of record, publish and seed_from_log
  cache, lru,  \* DedupIndex: event ID to batch, and IDs from the oldest use
  call,        \* every call so far, its request, status and answer
  closing,     \* the server has stopped taking requests
  starts,      \* starts of the process
  base,        \* history: length of the log at the last start
  published,   \* history: what this process gave to the broker
  mishap       \* history: an I/O error has left bytes of a batch behind

dedup == <<cache, lru>>
loop == <<batch, recorded, k>>
disk == <<file, torn, mishap>>
run == <<closing, starts, base>>
vars == <<pc, events, disk, channel, loop, dedup, call, run, published>>

Empty == [id \in {} |-> <<>>]
Stopped == {"down", "exited"}

(* A call is under way, answered, given up by its caller, or lost with the *)
(* process.                                                                *)
Pending == {"sending", "waiting"}

Init ==
  /\ pc = "down" /\ events = <<>>
  /\ file = <<>> /\ torn = FALSE /\ mishap = FALSE
  /\ channel = <<>> /\ batch = <<>> /\ recorded = <<>> /\ k = 1
  /\ cache = Empty /\ lru = <<>>
  /\ call = <<>>
  /\ closing = FALSE /\ starts = 0 /\ base = 0
  /\ published = <<>>

-----------------------------------------------------------------------------
(* The callers.                                                            *)

(* The server is up, not shutting down, and an Append request arrives.     *)
Submit(r) ==
  /\ pc \notin Stopped \cup {"seed"}
  /\ ~closing
  /\ Len(call) < MaxCalls
  /\ call' = Append(call, [req |-> r, status |-> "sending", result |-> "none",
                           answer |-> <<>>, during |-> 0])
  /\ UNCHANGED <<pc, events, disk, channel, loop, dedup, run, published>>

(* tx.send(request).await gets a slot.                                     *)
Send(i) ==
  /\ call[i].status = "sending"
  /\ pc # "dead"
  /\ Len(channel) < Capacity
  /\ channel' = Append(channel, i)
  /\ call' = [call EXCEPT ![i].status = "waiting"]
  /\ UNCHANGED <<pc, events, disk, loop, dedup, run, published>>

(* response_tx.send finds the caller waiting, or it has given up.          *)
Answered(i, result, evs) ==
  IF call[i].status \in Pending
  THEN [call EXCEPT ![i] = [@ EXCEPT !.status = "answered", !.result = result,
                                     !.answer = evs, !.during = starts]]
  ELSE call

(* The receiving half is gone: "writer task closed".                       *)
SendClosed(i) ==
  /\ call[i].status = "sending"
  /\ pc = "dead"
  /\ call' = Answered(i, "closed", <<>>)
  /\ UNCHANGED <<pc, events, disk, channel, loop, dedup, run, published>>

(***************************************************************************)
(* The handler future is dropped: the client hung up or its deadline       *)
(* passed.  A request that was sent stays where it is.                     *)
(***************************************************************************)
GiveUp(i) ==
  /\ call[i].status \in Pending
  /\ call' = [call EXCEPT ![i].status = "gone"]
  /\ UNCHANGED <<pc, events, disk, channel, loop, dedup, run, published>>

-----------------------------------------------------------------------------
(* The LRU cache.                                                          *)

(* LruCache::put makes room for a new key.                                 *)
Evicted(id) ==
  IF id \notin DOMAIN cache /\ Cardinality(DOMAIN cache) >= DedupCapacity
  THEN {Head(lru)} ELSE {}

(* The order of use without the given IDs.                                 *)
OrderWithout(ids) == SelectSeq(lru, LAMBDA x : x \notin ids)

Put(id, evs) ==
  /\ cache' = [x \in (DOMAIN cache \ Evicted(id)) \cup {id} |->
                 IF x = id THEN evs ELSE cache[x]]
  /\ lru' = Append(OrderWithout({id} \cup Evicted(id)), id)

(* LruCache::get makes the key the most recent one.                        *)
Touch(id) ==
  /\ lru' = Append(OrderWithout({id}), id)
  /\ UNCHANGED cache

-----------------------------------------------------------------------------
(* run_writer: receive one request, drain the others, stamp the time.      *)

Recv ==
  /\ pc = "recv"
  /\ channel # <<>>
  /\ pc' = "drain"
  /\ batch' = <<Head(channel)>>
  /\ channel' = Tail(channel)
  /\ UNCHANGED <<events, disk, recorded, k, dedup, call, run, published>>

Drain ==
  /\ pc = "drain"
  /\ channel # <<>>
  /\ batch' = Append(batch, Head(channel))
  /\ channel' = Tail(channel)
  /\ UNCHANGED <<pc, events, disk, recorded, k, dedup, call, run, published>>

(* Variant: the drain uses recv().await, which ends when no handle is left. *)
StampClosed ==
  /\ pc = "drain"
  /\ channel = <<>>
  /\ closing /\ \A i \in DOMAIN call : call[i].status \notin Pending
  /\ pc' = "serve"
  /\ UNCHANGED <<events, disk, channel, loop, dedup, call, run, published>>

Stamp ==
  /\ pc = "drain"
  /\ channel = <<>>
  /\ pc' = "serve"
  /\ UNCHANGED <<events, disk, channel, loop, dedup, call, run, published>>

(* "system clock before Unix epoch": the task panics, the server goes on.  *)
StampPanics ==
  /\ pc = "drain"
  /\ channel = <<>>
  /\ pc' = "dead"
  /\ call' = [i \in DOMAIN call |->
                IF call[i].status = "waiting"
                THEN Answered(i, "closed", <<>>)[i] ELSE call[i]]
  /\ batch' = <<>> /\ cache' = Empty /\ lru' = <<>>
  /\ UNCHANGED <<events, disk, channel, recorded, k, run, published>>

-----------------------------------------------------------------------------
(* run_writer: the loop over the drained requests.                         *)

(* The request whose turn it is has been dealt with.                       *)
Finish(result, evs) ==
  /\ call' = Answered(Head(batch), result, evs)
  /\ batch' = Tail(batch)
  /\ pc' = IF Tail(batch) = <<>> THEN "recv" ELSE "serve"

current == call[Head(batch)].req

validate_batch_unique_ids(ids) ==
  \A i, j \in 1..Len(ids) : ids[i] = ids[j] => i = j

(* DedupIndex::check looks at the first event only.                        *)
Known(ids) == ids[1] \in DOMAIN cache

Reject ==
  /\ pc = "serve"
  /\ ~validate_batch_unique_ids(current.events)
  /\ Finish("InvalidArgument", <<>>)
  /\ UNCHANGED <<events, disk, channel, recorded, k, dedup, run, published>>

(* Variant: a hit is published like a fresh append.                        *)
DedupHitPublishes ==
  /\ pc = "serve"
  /\ validate_batch_unique_ids(current.events)
  /\ Known(current.events)
  /\ Finish("ok", cache[current.events[1]])
  /\ Touch(current.events[1])
  /\ published' = published \o cache[current.events[1]]
  /\ UNCHANGED <<events, disk, channel, recorded, k, run>>

DedupHit ==
  /\ pc = "serve"
  /\ validate_batch_unique_ids(current.events)
  /\ Known(current.events)
  /\ Finish("ok", cache[current.events[1]])
  /\ Touch(current.events[1])
  /\ UNCHANGED <<events, disk, channel, recorded, k, run, published>>

(* The request gets as far as store.append.                                *)
Appending ==
  /\ pc = "serve"
  /\ validate_batch_unique_ids(current.events)
  /\ ~Known(current.events)

(* The events of a stream are its versions from 0 on.                      *)
StreamLen(s) == Cardinality({i \in 1..Len(events) : events[i].stream_id = s})

(* Variant: Exact(n) is let through when the stream has moved on.          *)
VersionAcceptedLate(s, expected) ==
  \/ expected = Any
  \/ expected = NoStream /\ StreamLen(s) = 0
  \/ expected \in Nat /\ expected < StreamLen(s)

VersionAccepted(s, expected) ==
  \/ expected = Any
  \/ expected = NoStream /\ StreamLen(s) = 0
  \/ expected \in Nat /\ expected = StreamLen(s) - 1

Accepted ==
  /\ VersionAccepted(current.stream_id, current.expected_version)
  /\ current.validity = "ok"

AppendRejected ==
  /\ Appending
  /\ ~Accepted
  /\ Finish(IF VersionAccepted(current.stream_id, current.expected_version)
            THEN current.validity ELSE "WrongExpectedVersion", <<>>)
  /\ UNCHANGED <<events, disk, channel, recorded, k, dedup, run, published>>

(* What append makes of the request: consecutive versions and positions.   *)
(* by is history: the call that wrote the event.                           *)
Record ==
  [j \in 1..Len(current.events) |->
     [event_id |-> current.events[j], stream_id |-> current.stream_id,
      stream_version |-> StreamLen(current.stream_id) + j - 1,
      global_position |-> Len(events) + j - 1, by |-> Head(batch)]]

(* What open would read with the whole batch at the end of the file: at a  *)
(* half-written one it stops, or it refuses and no process starts.         *)
Stored == IF torn THEN file ELSE file \o Record

(***************************************************************************)
(* No byte got into the file, or some did and the next append goes behind  *)
(* them, or all did and then sync_all failed.                              *)
(***************************************************************************)
FailedWrite ==
  \/ UNCHANGED disk
  \/ torn' = TRUE /\ mishap' = TRUE /\ UNCHANGED file
  \/ file' = Stored /\ mishap' = TRUE /\ UNCHANGED torn

(* Variant: the result is cached before it is known to be an error.        *)
AppendFailsCached ==
  /\ Appending
  /\ Accepted
  /\ Put(current.events[1], Record)
  /\ Finish("Io", <<>>)
  /\ UNCHANGED <<events, disk, channel, recorded, k, run, published>>

(* Variant: the index is updated ahead of the write.                       *)
AppendFailsIndexed ==
  /\ Appending
  /\ Accepted
  /\ events' = events \o Record
  /\ Finish("Io", <<>>)
  /\ UNCHANGED <<disk, channel, recorded, k, dedup, run, published>>

(* seek, write_all or sync_all fails.                                      *)
AppendFails ==
  /\ Appending
  /\ Accepted
  /\ FailedWrite
  /\ Finish("Io", <<>>)
  /\ UNCHANGED <<events, channel, recorded, k, dedup, run, published>>

AppendSucceeds ==
  /\ Appending
  /\ Accepted
  /\ recorded' = Record
  /\ events' = events \o Record
  /\ file' = Stored
  /\ pc' = "record" /\ k' = 1
  /\ UNCHANGED <<torn, mishap, channel, batch, dedup, call, run, published>>

(* The next turn of a loop over the n events, or what comes after it.      *)
Turn(n, after) ==
  IF k < n THEN k' = k + 1 /\ UNCHANGED pc ELSE k' = 1 /\ pc' = after

(* Variant: every event is cached on its own, not with its batch.          *)
EntryAlone == <<recorded[k]>>

(* One entry for each event, all with the whole batch.                     *)
Entry == recorded

(* Variant: the caller is answered before the broker has the events.       *)
AfterRecordAnswer == "respond"

AfterRecord == "publish"

(* dedup.record *)
DedupRecord ==
  /\ pc = "record"
  /\ Put(recorded[k].event_id, Entry)
  /\ Turn(Len(recorded), AfterRecord)
  /\ UNCHANGED <<events, disk, channel, batch, recorded, call, run, published>>

(* broker.publish sends the events one by one.                             *)
Publish ==
  /\ pc = "publish"
  /\ published' = Append(published, recorded[k])
  /\ Turn(Len(recorded), "respond")
  /\ UNCHANGED <<events, disk, channel, batch, recorded, dedup, call, run>>

Respond ==
  /\ pc = "respond"
  /\ Finish("ok", recorded)
  /\ UNCHANGED <<events, disk, channel, recorded, k, dedup, run, published>>

-----------------------------------------------------------------------------
(* spawn_writer and the end of the task.                                   *)

Start ==
  /\ pc \in Stopped
  /\ starts < MaxStarts
  /\ pc' = "seed"
  /\ starts' = starts + 1
  /\ base' = Len(events)
  /\ published' = <<>>
  /\ UNCHANGED <<events, disk, channel, loop, dedup, call, closing>>

(* Variant: the index of a new process starts out empty.                   *)
SeedsNone == <<>>

Seeds == events

(* seed_from_log: every event on its own, the oldest first.                *)
Seed ==
  /\ pc = "seed"
  /\ IF Seeds = <<>> THEN UNCHANGED dedup
                     ELSE Put(Seeds[k].event_id, <<Seeds[k]>>)
  /\ Turn(Len(Seeds), "recv")
  /\ UNCHANGED <<events, disk, channel, batch, recorded, call, run, published>>

(* The shutdown signal: no new requests, those under way are finished.     *)
Shutdown ==
  /\ pc \notin Stopped \cup {"seed"}
  /\ ~closing
  /\ closing' = TRUE
  /\ UNCHANGED <<pc, events, disk, channel, loop, dedup, call, starts, base,
                 published>>

(* The process is gone, and its memory with it; recovery will cut the file *)
(* where it cannot read on.                                                *)
Stop(how) ==
  /\ pc' = how
  /\ events' = file' /\ torn' = FALSE
  /\ channel' = <<>> /\ batch' = <<>> /\ recorded' = <<>> /\ k' = 1
  /\ cache' = Empty /\ lru' = <<>>
  /\ closing' = FALSE
  /\ UNCHANGED <<starts, base, published, mishap>>

(* Variant: main keeps its WriterHandle while it waits for the task.       *)
HandlesKept == FALSE

(* The server has finished its requests, and main drops its own handle.    *)
HandlesDropped ==
  closing /\ \A i \in DOMAIN call : call[i].status \notin Pending

(***************************************************************************)
(* recv() returns None once there is no handle left and the channel is     *)
(* empty; join_handle.await lets main end, by a panic if the task has died.*)
(***************************************************************************)
Exit ==
  /\ pc \in {"recv", "dead"}
  /\ HandlesDropped
  /\ channel = <<>>
  /\ UNCHANGED <<file, call>>
  /\ Stop("exited")

(* The process dies.  A batch on its way into the file is in it or not.    *)
Crash ==
  /\ pc \notin Stopped
  /\ \/ UNCHANGED file
     \/ Appending /\ Accepted /\ file' = Stored
  /\ call' = [i \in DOMAIN call |->
                IF call[i].status \in Pending
                THEN [call[i] EXCEPT !.status = "lost"] ELSE call[i]]
  /\ Stop("down")

-----------------------------------------------------------------------------
Task ==
  \/ Seed \/ Recv \/ Drain \/ Stamp
  \/ Reject \/ DedupHit \/ AppendRejected \/ AppendFails \/ AppendSucceeds
  \/ DedupRecord \/ Publish \/ Respond
  \/ Exit

Next ==
  \/ \E r \in Requests : Submit(r)
  \/ \E i \in DOMAIN call : Send(i) \/ SendClosed(i) \/ GiveUp(i)
  \/ Task
  \/ StampPanics
  \/ Start \/ Shutdown \/ Crash

(***************************************************************************)
(* The runtime polls the writer task and every handler future that can     *)
(* make progress; the channel grants its slots in the order they were      *)
(* asked for.  No caller has to call, no operator has to start the server. *)
(***************************************************************************)
Spec ==
  /\ Init /\ [][Next]_vars
  /\ WF_vars(Task)
  /\ \A i \in Calls :
       WF_vars(i \in DOMAIN call /\ (Send(i) \/ SendClosed(i)))

-----------------------------------------------------------------------------
(* The cache has room for every ID in the log, and none got into the file  *)
(* behind its back: it has missed and forgotten none.                      *)
NothingForgotten ==
  /\ Cardinality({events[i].event_id : i \in 1..Len(events)}) <= DedupCapacity
  /\ ~mishap

(***************************************************************************)
(* A retried append is not written twice: no event of a request is in the  *)
(* log twice, whether the caller gave up, the answer was lost in a crash,  *)
(* or the same request waits in the channel a second time, as long as the  *)
(* cache has not had to forget an ID and no failed append has left bytes   *)
(* of a batch in the file.                                                 *)
(***************************************************************************)
NoEventTwice ==
  NothingForgotten =>
     \A i, j \in 1..Len(events) :
        /\ events[i].event_id = events[j].event_id
        /\ call[events[i].by].req = call[events[j].by].req
        => i = j

(***************************************************************************)
(* Optimistic concurrency: of all calls that expect the same version of a  *)
(* stream, one at most writes to it, be it in another process, and whether *)
(* or not its caller ever learns of it; without bytes of a failed append.  *)
(***************************************************************************)
OneWinner ==
  ~mishap =>
     \A i, j \in 1..Len(events) :
        LET a == call[events[i].by].req
            b == call[events[j].by].req
        IN /\ events[i].by # events[j].by
           /\ a.stream_id = b.stream_id
           => a.expected_version # b.expected_version \/ a.expected_version = Any

(***************************************************************************)
(* An Ok answer, fresh or cached, holds events of the log, in their order  *)
(* and without a gap, and among them the first event of the request, as    *)
(* long as no failed append has left bytes in the file; after a crash too. *)
(***************************************************************************)
AnswersAreLogged ==
  \A i \in DOMAIN call : call[i].result = "ok" /\ ~mishap =>
     LET evs == call[i].answer
     IN /\ \A j \in 1..Len(evs) :
             LET p == evs[1].global_position + j
             IN p <= Len(events) /\ events[p] = evs[j]
        /\ \E j \in 1..Len(evs) : evs[j].event_id = call[i].req.events[1]

(* No two requests have an event ID in common.                             *)
IdsNotShared ==
  \A r, q \in Requests :
     (\E i \in 1..Len(r.events), j \in 1..Len(q.events) :
         r.events[i] = q.events[j]) => r = q

(***************************************************************************)
(* A retry that the same process answers gets the answer of the original,  *)
(* unless the cache had to forget it, another request has written one of   *)
(* the same event IDs, or a failed append has left bytes in the file.      *)
(***************************************************************************)
SameAnswer ==
  NothingForgotten /\ IdsNotShared =>
     \A i, j \in DOMAIN call :
        /\ call[i].result = "ok" /\ call[j].result = "ok"
        /\ call[i].req = call[j].req /\ call[i].during = call[j].during
        => call[i].answer = call[j].answer

(***************************************************************************)
(* A request that was turned down has no event in the log, ever, be it     *)
(* after restarts: WrongExpectedVersion, the limits, a dead task.  One     *)
(* that got an I/O error has none in the index of the process that said    *)
(* so; a later process may find what its write left in the file.           *)
(***************************************************************************)
ErrorsLeaveNothing ==
  \A i \in 1..Len(events) :
     LET c == call[events[i].by]
     IN \/ c.result \in {"none", "ok"}
        \/ c.result = "Io" /\ (c.during < starts \/ pc \in Stopped)

(***************************************************************************)
(* What a process gives to the broker is what it adds to the log, event    *)
(* for event: nothing twice, nothing left out, nothing before readers of   *)
(* the index can see it, and nothing of an append that failed.             *)
(***************************************************************************)
PublishedInOrder ==
  pc \notin Stopped =>
     /\ base + Len(published) <= Len(events)
     /\ \A i \in 1..Len(published) : published[i] = events[base + i]

(***************************************************************************)
(* By the time a caller has its Ok answer, the broker has the events.      *)
(***************************************************************************)
AnsweredArePublished ==
  pc \notin Stopped =>
     \A i \in DOMAIN call :
        call[i].result = "ok" /\ call[i].during = starts =>
           \A j \in 1..Len(call[i].answer) :
              call[i].answer[j].global_position < base + Len(published)

(***************************************************************************)
(* Every call ends: with an answer, or because its caller gave up, or the  *)
(* process died.  A full channel, a rejected neighbour in the same drained *)
(* batch and a dead writer task do not leave it hanging.                   *)
(***************************************************************************)
CallsEnd ==
  \A i \in Calls :
     (i \in DOMAIN call /\ call[i].status \in Pending)
        ~> (i \in DOMAIN call /\ call[i].status \notin Pending)

(***************************************************************************)
(* A graceful shutdown ends as far as appends are concerned: every request *)
(* under way is answered, the task sees its channel closed, main joins it. *)
(* Open subscriptions, for which the server also waits, are not in it.     *)
(***************************************************************************)
ShutdownEnds == closing ~> ~closing
====
