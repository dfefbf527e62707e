-------------------------- MODULE StoreRefinement --------------------------
(***************************************************************************)
(* The storage engine as an implementation of DurableLog: which of its     *)
(* states are which states of the promise.                                 *)
(***************************************************************************)
EXTENDS StoreInvariant

Visible == IF pc \in Running THEN events ELSE seen

(* A segment with events beyond those that readers saw, s.                 *)
Unseen(seg, s) == Good(seg) /\ Len(seg.events) > 0 /\ seg.first >= Len(s)

(* What file f holds, in full, of the append that was under way.           *)
LeftIn(f, s) ==
  IF \E i \in 1..Len(f) : Unseen(f[i], s)
  THEN f[CHOOSE i \in 1..Len(f) : Unseen(f[i], s)].events
  ELSE <<>>

InDoubt ==
  CASE InFlight -> batch.events
    [] pc = "ready" -> <<>>
    [] OTHER -> LeftIn(file, seen)

Log == INSTANCE DurableLog WITH
         Event <- RecordedEvent,
         visible <- Visible,
         doubt <- InDoubt,
         up <- (pc \in Running),
         excused <- (mishaps # {})

(***************************************************************************)
(* append and open, cut at every system call, with crashes and power       *)
(* losses between any two, show their clients nothing but the steps of a   *)
(* durable log: a batch appears at the end, whole, once; the batch under   *)
(* way when the process died is settled by the next open; nothing that was *)
(* read goes away.  A mishap voids the promise from then on.               *)
(***************************************************************************)
ImplementsLog == Log!Spec

Ordered(f) ==
  \A i, j \in 1..Len(f) :
     i < j /\ Good(f[j]) /\ Len(f[i].events) > 0 => EndOf(f[i]) <= f[j].first

OneUnseen(f, s) ==
  \A i, j \in 1..Len(f) : Unseen(f[i], s) /\ Unseen(f[j], s) => i = j

(* At most one batch is in doubt when the process is gone, and it lies     *)
(* behind all that readers saw.                                            *)
DoubtInv ==
  mishaps = {} =>
     Ordered(file) /\ (pc \notin Running => OneUnseen(file, seen))
====
