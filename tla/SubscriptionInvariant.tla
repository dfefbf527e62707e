----------------------- MODULE SubscriptionInvariant -----------------------
(***************************************************************************)
(* What holds between the steps of a subscription, and makes its           *)
(* guarantees inductive.                                                   *)
(***************************************************************************)
EXTENDS Subscription

Matches(f, e) == f \in {AllStreams, e.stream_id}

(***************************************************************************)
(* pos are the positions in log of the events that f lets through, all of  *)
(* them, in order; an event's key is its place there.                      *)
(***************************************************************************)
Indexes(pos, log, f) ==
  /\ \A i \in 1..Len(pos) :
        /\ pos[i] \in 0..(Len(log) - 1)
        /\ Matches(f, log[pos[i] + 1])
        /\ Key(f, log[pos[i] + 1]) = i - 1
        /\ \A j \in 1..Len(pos) : i < j => pos[i] < pos[j]
  /\ \A p \in 1..Len(log) :
        Matches(f, log[p]) =>
          /\ Key(f, log[p]) + 1 <= Len(pos)
          /\ pos[Key(f, log[p]) + 1] = p - 1

IndexInv == \A f \in Filters : Indexes(Positions(f), events, f)

(* The key of the first event a stream has sent, and that of the next.     *)
First(x) == Key(x.filter, x.sent[1])
NextKey(x) == First(x) + Len(x.sent)

(* seq is what follows the first n events that the filter lets through.    *)
Follows(seq, f, n) ==
  \A i \in 1..Len(seq) :
     n + i <= Len(Positions(f)) /\ seq[i] = events[Positions(f)[n + i] + 1]

(* Beyond the first n events, the receiver has gone past none.             *)
Ahead(x, n) ==
  \A i \in 1..Len(Positions(x.filter)) : n < i => x.rx <= Positions(x.filter)[i]

SentInv(x) ==
  x.sent # <<>> =>
     Follows(x.sent, x.filter, First(x)) /\ (x.heard => First(x) = x.from)

(* The event before from, if it had gone through the channel, is behind    *)
(* the receiver.                                                           *)
HeardInv(x) ==
  x.phase \in Active /\ x.heard =>
     \/ x.from = 0
     \/ /\ x.from <= Len(Positions(x.filter))
        /\ Positions(x.filter)[x.from] < x.rx

ReplayInv(x) ==
  x.phase \in {"fetch", "yield"} =>
     /\ x.cursor = x.from + Len(x.sent)
     /\ x.sent # <<>> => First(x) = x.from
     /\ x.last = IF x.sent = <<>> THEN None ELSE x.cursor - 1

(* A batch that was not full had all there was.                            *)
BatchInv(x) ==
  x.phase = "yield" =>
     /\ Follows(x.batch, x.filter, x.cursor)
     /\ x.batch_len < CatchupBatchSize =>
          /\ x.indexed <= x.cursor + Len(x.batch)
          /\ Ahead(x, x.cursor + Len(x.batch))

(* Of what replay has not sent, the receiver has gone past what was sent.  *)
LiveInv(x) ==
  x.phase = "live" =>
     /\ x.sent = <<>> => x.last = None /\ x.indexed <= x.from /\ Ahead(x, x.from)
     /\ x.sent # <<>> =>
          /\ x.last < NextKey(x)
          /\ Ahead(x, NextKey(x))
          /\ \A i \in (x.last + 2)..NextKey(x) : Positions(x.filter)[i] < x.rx
          /\ x.from < x.indexed => First(x) = x.from /\ x.indexed <= NextKey(x)

(* The client's checkpoint is where its stream stands.                     *)
CheckpointInv(x, seq) ==
  /\ x.phase = "idle" => seq = <<>>
  /\ x.sent # <<>> => seq # <<>> /\ seq[Len(seq)] + 1 = NextKey(x)
  /\ x.phase \in Active /\ x.sent = <<>> /\ seq # <<>> =>
       seq[Len(seq)] + 1 = x.from

StreamInv(x, seq) ==
  /\ x.rx <= tail
  /\ x.indexed <= Len(Positions(x.filter))
  /\ SentInv(x) /\ HeardInv(x) /\ ReplayInv(x) /\ BatchInv(x) /\ LiveInv(x)
  /\ CheckpointInv(x, seq)

(* No key is skipped.                                                      *)
NoGap(seq) == \A i \in 2..Len(seq) : seq[i] <= seq[i-1] + 1

(* The inductive invariant of the proofs: the index is consistent, and     *)
(* each stream of subscribe_all and subscribe_stream stands, in it and in  *)
(* the channel, where what it has sent says.                               *)
SubInv ==
  /\ TypeOK /\ IndexInv
  /\ \A c \in Clients : StreamInv(sub[c], taken[c]) /\ NoGap(taken[c])
====
