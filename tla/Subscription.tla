---------------------------- MODULE Subscription ----------------------------
(***************************************************************************)
(* Catch-up-then-live subscriptions, broker.rs, over the read index,       *)
(* reader.rs.                                                              *)
(*                                                                         *)
(* The writer adds a batch to the index in one step and then sends its     *)
(* events to the broadcast channel one by one.  A subscription registers   *)
(* with the channel, replays the index in batches, sends CaughtUp and goes *)
(* over to the channel; its client takes one message at a time and may     *)
(* leave at any point.  A client comes back as the documents tell it to:   *)
(* from the position after the last one it has processed.                  *)
(*                                                                         *)
(* An event is identified by its global position for subscribe_all and by  *)
(* its stream version for subscribe_stream: its key.                       *)
(***************************************************************************)
EXTENDS Integers, Sequences, FiniteSets

CONSTANTS
  StreamIds,        \* stream UUIDs
  AllStreams,       \* the filter of subscribe_all, not a stream
  Clients,          \* clients, one subscription each at a time
  CatchupBatchSize, \* CATCHUP_BATCH_SIZE
  RingCapacity,     \* slots of the broadcast channel
  MaxBatch,         \* bound: events of one append
  MaxEvents,        \* bound: events in the log
  MaxFrom,          \* bound: the position a client first asks for
  MaxSubscribes,    \* bound: subscriptions of one client
  MaxRestarts       \* bound: restarts of the server

ASSUME StreamsAssumption == AllStreams \notin StreamIds
ASSUME CapacityAssumption ==
  CatchupBatchSize \in Nat \ {0} /\ RingCapacity \in Nat \ {0}
ASSUME BoundsAssumption ==
  /\ MaxBatch \in Nat /\ MaxEvents \in Nat /\ MaxFrom \in Nat
  /\ MaxSubscribes \in Nat /\ MaxRestarts \in Nat

Event == [stream_id : StreamIds, stream_version : Nat, global_position : Nat]
Filters == StreamIds \cup {AllStreams}
None == -1

VARIABLES
  events,      \* EventLog.events
  streams,     \* EventLog.streams: the positions of each stream's events
  tail,        \* how many of them have been sent to the channel, or recovered
  sub,         \* the subscription of each client
  taken,       \* history: the keys each client was sent, over all of them
  subscribes,  \* subscriptions of each client so far
  restarts     \* restarts so far

vars == <<events, streams, tail, sub, taken, subscribes, restarts>>

Active == {"fetch", "yield", "live"}

(***************************************************************************)
(* cursor, last, batch and batch_len are the locals of the stream: where   *)
(* to read on, last_catchup_position, the events read and not yet yielded, *)
(* and how many were read.  rx is the receiver.  sent, indexed and heard   *)
(* are history: what was yielded; how many events of the filter were in    *)
(* the index at the start; whether the one before from had gone through    *)
(* the channel by then.                                                    *)
(***************************************************************************)
Idle == [phase |-> "idle", filter |-> AllStreams, from |-> 0, cursor |-> 0,
         last |-> None, batch |-> <<>>, batch_len |-> 0, rx |-> 0,
         sent |-> <<>>, indexed |-> 0, heard |-> FALSE]

Init ==
  /\ events = <<>> /\ tail = 0
  /\ streams = [s \in StreamIds |-> <<>>]
  /\ sub = [c \in Clients |-> Idle]
  /\ taken = [c \in Clients |-> <<>>]
  /\ subscribes = [c \in Clients |-> 0]
  /\ restarts = 0

Key(f, e) == IF f = AllStreams THEN e.global_position ELSE e.stream_version

(* The positions of the events that the filter lets through, and these     *)
(* events.  A stream without any is not in the map of the code.            *)
Positions(f) ==
  IF f = AllStreams THEN [i \in 1..Len(events) |-> i - 1] ELSE streams[f]
History(f) == [i \in 1..Len(Positions(f)) |-> events[Positions(f)[i] + 1]]

Lesser(m, n) == IF m < n THEN m ELSE n

-----------------------------------------------------------------------------
(* The writer and the channel.                                             *)

(* Store::append: n events of stream s, visible to readers all at once.    *)
AppendBatch(s, n) ==
  /\ tail = Len(events)
  /\ Len(events) + n <= MaxEvents
  /\ events' = events \o
       [i \in 1..n |->
          [stream_id |-> s,
           stream_version |-> Len(streams[s]) + i - 1,
           global_position |-> Len(events) + i - 1]]
  /\ streams' = [streams EXCEPT ![s] = @ \o [i \in 1..n |-> Len(events) + i - 1]]
  /\ UNCHANGED <<tail, sub, taken, subscribes, restarts>>

(* Broker::publish, one turn of its loop.                                  *)
Publish ==
  /\ tail < Len(events)
  /\ tail' = tail + 1
  /\ UNCHANGED <<events, streams, sub, taken, subscribes, restarts>>

-----------------------------------------------------------------------------
(* ReadIndex::read_all and read_stream, max_count = CATCHUP_BATCH_SIZE.    *)

read_all(from) ==
  LET len == Len(events)
  IN SubSeq(events, Lesser(from, len) + 1, Lesser(from + CatchupBatchSize, len))

read_stream(s, from) ==
  LET len == Len(streams[s])
  IN SubSeq(History(s), Lesser(from, len) + 1, Lesser(from + CatchupBatchSize, len))

-----------------------------------------------------------------------------
(* A subscription.                                                         *)

(* The event before from, if there is one to be, is past the channel.      *)
Heard(f, from) ==
  from = 0 \/ (from <= Len(Positions(f)) /\ Positions(f)[from] < tail)

(* Step 1: broker.subscribe() before anything is read.                     *)
Registered(f, from) ==
  [Idle EXCEPT !.phase = "fetch", !.filter = f, !.from = from,
               !.cursor = from, !.rx = tail,
               !.indexed = Len(Positions(f)),
               !.heard = Heard(f, from)]

Register(c, f, from) ==
  /\ subscribes[c] < MaxSubscribes
  /\ sub' = [sub EXCEPT ![c] = Registered(f, from)]
  /\ subscribes' = [subscribes EXCEPT ![c] = @ + 1]
  /\ UNCHANGED <<events, streams, tail, taken, restarts>>

Subscribe(c, f, from) == sub[c].phase = "idle" /\ Register(c, f, from)

(* External: the client goes on from its checkpoint.                       *)
Resume(c) ==
  /\ sub[c].phase = "ended"
  /\ Register(c, sub[c].filter,
              IF taken[c] = <<>> THEN sub[c].from
                                 ELSE taken[c][Len(taken[c])] + 1)

(* Step 2: the next batch of history.                                      *)
Fetched(c, found) ==
  /\ sub' = [sub EXCEPT ![c].phase = "yield", ![c].batch = found,
                        ![c].batch_len = Len(found)]
  /\ UNCHANGED <<events, streams, tail, taken, subscribes, restarts>>

FetchAll(c) ==
  /\ sub[c].phase = "fetch"
  /\ sub[c].filter = AllStreams
  /\ Fetched(c, read_all(sub[c].cursor))

(* A stream that does not exist (StreamNotFound) has no history.           *)
FetchStream(c) ==
  /\ sub[c].phase = "fetch"
  /\ sub[c].filter # AllStreams
  /\ Fetched(c, read_stream(sub[c].filter, sub[c].cursor))

(* The client has taken the message with this key.                         *)
Taken(c, key) == taken' = [taken EXCEPT ![c] = Append(@, key)]

Yield(c) ==
  LET e == Head(sub[c].batch)
      key == Key(sub[c].filter, e)
  IN /\ sub[c].phase = "yield"
     /\ sub[c].batch # <<>>
     /\ sub' = [sub EXCEPT ![c].batch = Tail(@), ![c].last = key,
                           ![c].cursor = key + 1, ![c].sent = Append(@, e)]
     /\ Taken(c, key)
     /\ UNCHANGED <<events, streams, tail, subscribes, restarts>>

(* Variant: the replay is over after one batch.                            *)
AfterBatchOnce(batch_len) == "live"

AfterBatch(batch_len) ==
  IF batch_len < CatchupBatchSize THEN "live" ELSE "fetch"

(* Variant: the receiver is registered when the replay is over.            *)
EndBatchRegisters(c) ==
  /\ sub[c].phase = "yield"
  /\ sub[c].batch = <<>>
  /\ sub' = [sub EXCEPT ![c].phase = AfterBatch(sub[c].batch_len), ![c].rx = tail]
  /\ UNCHANGED <<events, streams, tail, taken, subscribes, restarts>>

(* Back for more, or step 3: CaughtUp.                                     *)
EndBatch(c) ==
  /\ sub[c].phase = "yield"
  /\ sub[c].batch = <<>>
  /\ sub' = [sub EXCEPT ![c].phase = AfterBatch(sub[c].batch_len)]
  /\ UNCHANGED <<events, streams, tail, taken, subscribes, restarts>>

(* Variant: an event that was replayed is let through.                     *)
SkipsLess(c, e) ==
  LET f == sub[c].filter
  IN \/ f \notin {AllStreams, e.stream_id}
     \/ sub[c].last # None /\ Key(f, e) < sub[c].last

(* Variant: no replay counts as a replay up to 0.                          *)
SkipsZero(c, e) ==
  LET f == sub[c].filter
  IN \/ f \notin {AllStreams, e.stream_id}
     \/ Key(f, e) <= (IF sub[c].last = None THEN 0 ELSE sub[c].last)

(* Step 4: other streams' events, and those that were replayed already.    *)
Skips(c, e) ==
  LET f == sub[c].filter
  IN \/ f \notin {AllStreams, e.stream_id}
     \/ sub[c].last # None /\ Key(f, e) <= sub[c].last

(* The slot the receiver wants next has been written over.                 *)
Lagged(c) == tail - sub[c].rx > RingCapacity

Receive(c) ==
  LET e == events[sub[c].rx + 1]
  IN /\ sub[c].phase = "live"
     /\ sub[c].rx < tail
     /\ ~Lagged(c)
     /\ IF Skips(c, e)
        THEN sub' = [sub EXCEPT ![c].rx = @ + 1] /\ UNCHANGED taken
        ELSE /\ sub' = [sub EXCEPT ![c].rx = @ + 1, ![c].sent = Append(@, e)]
             /\ Taken(c, Key(sub[c].filter, e))
     /\ UNCHANGED <<events, streams, tail, subscribes, restarts>>

Ended(c) == sub' = [sub EXCEPT ![c].phase = "ended", ![c].batch = <<>>]

(* Variant: the receiver goes on with the oldest event the channel has.    *)
LagGoesOn(c) ==
  /\ sub[c].phase = "live"
  /\ Lagged(c)
  /\ sub' = [sub EXCEPT ![c].rx = tail - RingCapacity]
  /\ UNCHANGED <<events, streams, tail, taken, subscribes, restarts>>

(* Step 5: the error is the last message.                                  *)
Lag(c) ==
  /\ sub[c].phase = "live"
  /\ Lagged(c)
  /\ Ended(c)
  /\ UNCHANGED <<events, streams, tail, taken, subscribes, restarts>>

(* The client hangs up, and the stream is dropped wherever it is.          *)
Disconnect(c) ==
  /\ sub[c].phase \in Active
  /\ Ended(c)
  /\ UNCHANGED <<events, streams, tail, taken, subscribes, restarts>>

(* The process dies and recovers its log; nothing of it is published.      *)
Restart ==
  /\ restarts < MaxRestarts
  /\ restarts' = restarts + 1
  /\ tail' = Len(events)
  /\ sub' = [c \in Clients |->
               IF sub[c].phase \in Active
               THEN [sub[c] EXCEPT !.phase = "ended", !.batch = <<>>]
               ELSE sub[c]]
  /\ UNCHANGED <<events, streams, taken, subscribes>>

-----------------------------------------------------------------------------
Stream(c) ==
  FetchAll(c) \/ FetchStream(c) \/ Yield(c) \/ EndBatch(c) \/ Receive(c) \/ Lag(c)

Next ==
  \/ \E s \in StreamIds, n \in 1..MaxBatch : AppendBatch(s, n)
  \/ Publish
  \/ \E c \in Clients :
       \/ \E f \in Filters, from \in 0..MaxFrom : Subscribe(c, f, from)
       \/ Resume(c) \/ Stream(c) \/ Disconnect(c)
  \/ Restart

(***************************************************************************)
(* The writer's publish loop does not wait for anyone.  A stream makes     *)
(* progress as long as its client takes messages; a client that stops      *)
(* doing so is one that disconnects, or is still connected when nothing    *)
(* is promised to it.                                                      *)
(***************************************************************************)
Spec ==
  /\ Init /\ [][Next]_vars
  /\ WF_vars(Publish)
  /\ \A c \in Clients : WF_vars(Stream(c))

-----------------------------------------------------------------------------
(* The variables have the types of the structs they stand for.             *)
SubscriptionState ==
  [phase : Active \cup {"idle", "ended"}, filter : Filters, from : Nat,
   cursor : Nat, last : Nat \cup {None}, batch : Seq(Event), batch_len : Nat,
   rx : Nat, sent : Seq(Event), indexed : Nat, heard : BOOLEAN]

TypeOK ==
  /\ events \in Seq(Event) /\ streams \in [StreamIds -> Seq(Nat)]
  /\ tail \in 0..Len(events)
  /\ sub \in [Clients -> SubscriptionState]
  /\ taken \in [Clients -> Seq(Nat)]
  /\ subscribes \in [Clients -> Nat] /\ restarts \in Nat

(***************************************************************************)
(* No event is missed and none is sent twice in the change from replay to  *)
(* live, or when the channel overruns the subscription: what a stream has  *)
(* sent is a run of the events its filter lets through, in order, without  *)
(* a gap, wherever it begins.                                              *)
(***************************************************************************)
Gapless ==
  \A c \in Clients :
     LET sent == sub[c].sent
         log == History(sub[c].filter)
     IN sent # <<>> =>
          LET first == Key(sub[c].filter, sent[1])
          IN \A i \in 1..Len(sent) :
                first + i <= Len(log) /\ sent[i] = log[first + i]

(***************************************************************************)
(* The run begins where the client asked for, if the event before that had *)
(* gone through the channel when the subscription began.                   *)
(***************************************************************************)
BeginsAtFrom ==
  \A c \in Clients :
     sub[c].sent # <<>> /\ sub[c].heard =>
        Key(sub[c].filter, sub[c].sent[1]) = sub[c].from

(***************************************************************************)
(* CaughtUp is true: when it is sent, the client has everything from its   *)
(* position on that was in the index when it subscribed.                   *)
(***************************************************************************)
CaughtUpIsTrue ==
  \A c \in Clients : sub[c].phase = "live" =>
     \A p \in sub[c].from..(sub[c].indexed - 1) :
        \E i \in 1..Len(sub[c].sent) : Key(sub[c].filter, sub[c].sent[i]) = p

(***************************************************************************)
(* A client that goes on from its checkpoint after each lag, disconnect    *)
(* and restart has been sent every event from its first one on.            *)
(***************************************************************************)
NothingLost ==
  \A c \in Clients : \A i \in 2..Len(taken[c]) :
     taken[c][i] <= taken[c][i-1] + 1

(***************************************************************************)
(* A client that keeps taking messages is sent every event of its filter   *)
(* from its position on, or its stream ends and it knows.                  *)
(***************************************************************************)
EventuallySent ==
  \A c \in Clients : \A p \in 0..(MaxEvents - 1) :
     (/\ sub[c].phase \in Active /\ sub[c].from <= p
      /\ p < Len(Positions(sub[c].filter)))
     ~> \/ sub[c].phase = "ended"
        \/ \E i \in 1..Len(sub[c].sent) : Key(sub[c].filter, sub[c].sent[i]) = p
====
