-------------------------- MODULE WriterInvariant --------------------------
(***************************************************************************)
(* What the writer task keeps true at every step: between the log, the     *)
(* deduplication index, the calls and what the broker was given.           *)
(***************************************************************************)
EXTENDS Writer

Locations ==
  Stopped \cup {"dead", "seed", "recv", "drain", "serve", "record", "publish",
                "respond"}
Statuses == Pending \cup {"answered", "gone", "lost"}
Results ==
  {"none", "ok", "closed", "InvalidArgument", "EventTooLarge",
   "WrongExpectedVersion", "Io"}

RecordedEvent ==
  [event_id : EventIds, stream_id : StreamIds, stream_version : Nat,
   global_position : Nat, by : Nat]
Call ==
  [req : Requests, status : Statuses, result : Results,
   answer : Seq(RecordedEvent), during : Nat]

(* The order of use of the cache, lru, matters to none of what follows.    *)
TypeOK ==
  /\ pc \in Locations
  /\ events \in Seq(RecordedEvent) /\ file \in Seq(RecordedEvent)
  /\ torn \in BOOLEAN /\ mishap \in BOOLEAN
  /\ recorded \in Seq(RecordedEvent)
  /\ published \in Seq(RecordedEvent)
  /\ channel \in Seq(Nat) /\ batch \in Seq(Nat)
  /\ k \in Nat \ {0} /\ starts \in Nat /\ base \in Nat
  /\ cache \in [DOMAIN cache -> Seq(RecordedEvent)]
  /\ call \in Seq(Call)

(* The task has the first request of its batch in the log.                 *)
Logged == {"record", "publish", "respond"}

(* The requests in the channel and in the batch are those of calls, and a  *)
(* loop is over something.                                                 *)
ShapeInv ==
  /\ \A j \in 1..Len(channel) : channel[j] \in DOMAIN call
  /\ \A j \in 1..Len(batch) : batch[j] \in DOMAIN call
  /\ pc \in {"drain", "serve"} \cup Logged => batch # <<>>
  /\ pc \in {"record", "publish"} => k <= Len(recorded)
  /\ pc = "seed" => k = 1 \/ k <= Len(events)
  /\ pc \in Stopped => k = 1
  /\ pc \in Stopped \cup {"dead"} => DOMAIN cache = {}
  /\ \A i \in DOMAIN call :
       call[i].during <= starts /\ (pc = "seed" => call[i].during < starts)

(* A call without an answer has no result; the requests in the channel and *)
(* in the batch are of calls that were sent and not answered, each once.   *)
QueueInv ==
  /\ \A i \in DOMAIN call :
       call[i].status # "answered" => call[i].result = "none"
  /\ \A a \in 1..Len(channel) :
       call[channel[a]].status \notin {"sending", "answered"}
  /\ \A a \in 1..Len(batch) :
       call[batch[a]].status \notin {"sending", "answered"}
  /\ \A a, b \in 1..Len(channel) : channel[a] = channel[b] => a = b
  /\ \A a, b \in 1..Len(batch) : batch[a] = batch[b] => a = b
  /\ \A a \in 1..Len(batch), b \in 1..Len(channel) : batch[a] # channel[b]

(* Until a failed append has left bytes in the file:                       *)
(* the events of the log are where they say they are, and of the call that *)
(* wrote them; with an event, the first one of its request is in the log,  *)
(* and the one that has the version the request asked for.                 *)
Written(i) == call[events[i].by].req

LogInv ==
  ~mishap => \A i \in 1..Len(events) :
     /\ events[i].global_position = i - 1
     /\ events[i].by \in DOMAIN call
     /\ events[i].stream_id = Written(i).stream_id
     /\ \E j \in 1..Len(events) : events[j].event_id = Written(i).events[1]

VersionsInv ==
  ~mishap =>
  /\ \A i \in 1..Len(events) :
       /\ events[i].stream_version < StreamLen(events[i].stream_id)
       /\ Written(i).expected_version # Any =>
            \E j \in 1..Len(events) :
               /\ events[j].by = events[i].by
               /\ events[j].stream_version = Written(i).expected_version + 1
  /\ \A i, j \in 1..Len(events) :
       /\ events[i].stream_id = events[j].stream_id
       /\ events[i].stream_version = events[j].stream_version
       => i = j

(* Nobody who was turned down has an event in the log, and nobody who has  *)
(* one will be: that call is answered, given up, lost, or about to be      *)
(* answered with Ok.                                                       *)
Settled(log) ==
  \A i \in 1..Len(log) :
     /\ log[i].by \in DOMAIN call
     /\ call[log[i].by].result \in {"none", "ok", "Io"}
     /\ call[log[i].by].status \in Pending =>
          pc \in Logged /\ log[i].by = Head(batch)

OutcomeInv == Settled(events) /\ Settled(file) /\ ErrorsLeaveNothing

(* No event is further up than the end of the log it is in, nor one that   *)
(* the cache holds.  What the file has more than the index, failed appends *)
(* have left there; it has less only behind a half-written batch.          *)
Within(evs, n) == \A i \in 1..Len(evs) : evs[i].global_position < n

PlaceInv ==
  /\ Within(events, Len(events)) /\ Within(file, Len(file))
  /\ \A id \in DOMAIN cache : Within(cache[id], Len(events))
  /\ torn \/ Len(events) <= Len(file)

(* Without bytes of a failed append the file has what the index has.       *)
FileInv == ~mishap => file = events /\ ~torn

(* A nonempty piece of the log, in its order and without a gap.            *)
Piece(evs, log) ==
  /\ evs # <<>>
  /\ \A j \in 1..Len(evs) :
       /\ evs[1].global_position + j <= Len(log)
       /\ log[evs[1].global_position + j] = evs[j]

Has(evs, id) == \E j \in 1..Len(evs) : evs[j].event_id = id

CacheInv ==
  ~mishap =>
     \A id \in DOMAIN cache : Piece(cache[id], events) /\ Has(cache[id], id)

AnswersInv ==
  ~mishap => \A i \in DOMAIN call : call[i].result = "ok" =>
     /\ Piece(call[i].answer, events)
     /\ Has(call[i].answer, call[i].req.events[1])

(* What append returned is the end of the log, of the first request.       *)
RecordedInv ==
  pc \in Logged =>
     /\ Piece(recorded, events)
     /\ recorded[1].global_position + Len(recorded) = Len(events)
     /\ Len(recorded) = Len(current.events)
     /\ \A j \in 1..Len(recorded) : recorded[j].event_id = current.events[j]

(* The broker has all of the log but what the task is about to publish.    *)
PublishInv ==
  /\ PublishedInOrder
  /\ pc \in {"seed", "recv", "drain", "serve", "respond", "dead"} =>
       base + Len(published) = Len(events)
  /\ pc = "record" => base + Len(published) = recorded[1].global_position
  /\ pc = "publish" =>
       base + Len(published) = recorded[1].global_position + k - 1

(* Up to here the IDs of the log have been put into the cache.             *)
Indexed ==
  CASE pc = "seed" -> k - 1
    [] pc = "record" -> recorded[1].global_position + k - 1
    [] pc \in {"recv", "drain", "serve", "publish", "respond"} -> Len(events)
    [] OTHER -> 0

IndexedInv ==
  NothingForgotten =>
     \A i \in 1..Indexed : events[i].event_id \in DOMAIN cache

(* This process has answered the call.                                     *)
AnsweredNow(i) == call[i].result = "ok" /\ call[i].during = starts

(* The cache still holds what this process has answered, and the request   *)
(* that it has just written is none of those.                              *)
RetryInv ==
  NothingForgotten /\ IdsNotShared =>
     /\ pc \notin Stopped \cup {"dead"} =>
          \A i \in DOMAIN call : AnsweredNow(i) =>
             /\ call[i].req.events[1] \in DOMAIN cache
             /\ cache[call[i].req.events[1]] = call[i].answer
     /\ pc \in Logged =>
          /\ \A i \in DOMAIN call : AnsweredNow(i) => call[i].req # current
          /\ \A j \in 1..Len(recorded) : pc # "record" \/ j < k =>
               /\ recorded[j].event_id \in DOMAIN cache
               /\ cache[recorded[j].event_id] = recorded

(***************************************************************************)
(* The inductive invariant.  LogInv and VersionsInv are why retries and    *)
(* rivals find out what is in the log; QueueInv and OutcomeInv are why an  *)
(* error leaves nothing; CacheInv and RecordedInv are why an answer is a   *)
(* piece of the log; PublishInv and IndexedInv say how far the broker and  *)
(* the index have come in each phase of the task; RetryInv is why a retry  *)
(* gets the same answer.  FileInv is why a restart changes none of this,   *)
(* until a failed append leaves bytes behind; PlaceInv is what remains.    *)
(***************************************************************************)
WriterInv ==
  /\ TypeOK /\ ShapeInv /\ QueueInv
  /\ FileInv /\ PlaceInv
  /\ LogInv /\ VersionsInv /\ OutcomeInv
  /\ CacheInv /\ AnswersInv /\ RecordedInv
  /\ PublishInv /\ AnsweredArePublished
  /\ IndexedInv /\ NoEventTwice
  /\ RetryInv /\ SameAnswer
====
