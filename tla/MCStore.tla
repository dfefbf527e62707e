------------------------------ MODULE MCStore ------------------------------
(***************************************************************************)
(* Small instances of Store for TLC, and what the repository's documents   *)
(* and comments say of the store without the conditions that Store's own   *)
(* properties put on it.                                                   *)
(***************************************************************************)
EXTENDS StoreRefinement

CONSTANTS s1, s2, e1, e2, e3

Ok(id) == [event_id |-> id, kind |-> "ok"]

(* Batches of one and of two events; no two share an event ID.             *)
MCProposals == {<<Ok(e1)>>, <<Ok(e2), Ok(e3)>>}

(* As above, with batches that validation turns down.                      *)
MCMixedProposals ==
  MCProposals \cup
    {<<>>, <<[event_id |-> e1, kind |-> "bad_type"]>>,
     <<Ok(e2), [event_id |-> e3, kind |-> "too_large"]>>}

(***************************************************************************)
(* store.rs:84 and design.md:104: "Index i is the event at global position *)
(* i", an fsync error notwithstanding.                                     *)
(***************************************************************************)
PositionIsIndex ==
  pc \in Running =>
     \A i \in 1..Len(events) : events[i].global_position = i - 1

(***************************************************************************)
(* lib.rs:5: all writes go through a writer that "fsyncs every batch       *)
(* before acknowledging, ensuring durability": an acknowledged event is    *)
(* still there after a restart, even if an append between failed half way. *)
(***************************************************************************)
AcknowledgedIsDurable ==
  pc \in Running => \A e \in acked : \E i \in 1..Len(events) : events[i] = e

(***************************************************************************)
(* store.rs:121: a corrupt record followed by valid records makes open     *)
(* return CorruptRecord; it does not cut the valid records off.            *)
(***************************************************************************)
MidFileCorruptionRefused ==
  pc = "truncate" => \A i \in (offset+2)..Len(file) : ~Decodes(i)
====
