----------------------------- MODULE DurableLog -----------------------------
(***************************************************************************)
(* What the storage engine promises those who read and append: one         *)
(* sequence of events that only grows, a batch at a time, across crashes.  *)
(* No file, no fsync and no recovery scan: a batch that was being appended *)
(* when the process died is in doubt until the next start settles it, as a *)
(* whole, one way or the other.                                            *)
(*                                                                         *)
(* The promise is void, for good, once excused holds: something happened   *)
(* that the engine does not claim to withstand.                            *)
(***************************************************************************)
EXTENDS Integers, Sequences

CONSTANT Event    \* records with a field global_position

VARIABLES
  visible,   \* what readers see, or saw before the process stopped
  doubt,     \* the batch under way, or in doubt; <<>> when there is none
  up,        \* a process serves the log
  excused

vars == <<visible, doubt, up, excused>>

Init == visible = <<>> /\ doubt = <<>> /\ up = FALSE /\ excused = FALSE

(* The batch takes the positions that follow the log's last one.           *)
Begin ==
  /\ up /\ doubt = <<>>
  /\ doubt' \in Seq(Event)
  /\ \A k \in 1..Len(doubt') :
        doubt'[k].global_position = Len(visible) + k - 1
  /\ UNCHANGED <<visible, up, excused>>

Commit ==
  /\ up
  /\ visible' = visible \o doubt
  /\ doubt' = <<>>
  /\ UNCHANGED <<up, excused>>

Abort == up /\ doubt' = <<>> /\ UNCHANGED <<visible, up, excused>>

Crash ==
  /\ up /\ up' = FALSE
  /\ doubt' \in {doubt, <<>>}
  /\ UNCHANGED <<visible, excused>>

(* A power loss while no process serves the log.                           *)
Lose == ~up /\ doubt' = <<>> /\ UNCHANGED <<visible, up, excused>>

Recover ==
  /\ ~up /\ up' = TRUE
  /\ visible' = visible \o doubt
  /\ doubt' = <<>>
  /\ UNCHANGED excused

Excuse == excused' = TRUE

Next == Begin \/ Commit \/ Abort \/ Crash \/ Lose \/ Recover \/ Excuse

Spec == Init /\ [][Next]_vars
====
