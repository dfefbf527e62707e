------------------------------ MODULE MCWriter ------------------------------
(***************************************************************************)
(* Small instances of Writer for TLC, and what the repository's documents  *)
(* say of retries.                                                         *)
(***************************************************************************)
EXTENDS WriterInvariant

CONSTANTS s1, e1, e2, e3, e4, e5

Req(s, expected, ids, validity) ==
  [stream_id |-> s, expected_version |-> expected, events |-> ids,
   validity |-> validity]

(***************************************************************************)
(* Two callers race to write after the first event of s1, with one event   *)
(* and with two; two others create s1, one of them only if it is not there.*)
(* No event ID is in two requests.                                         *)
(***************************************************************************)
MCRequests ==
  {Req(s1, Any, <<e3>>, "ok"), Req(s1, NoStream, <<e5>>, "ok"),
   Req(s1, 0, <<e1, e2>>, "ok"), Req(s1, 0, <<e4>>, "ok")}

(* Requests that fail on the way, and two whose IDs overlap.               *)
MCFaultyRequests ==
  {Req(s1, NoStream, <<e2, e3>>, "ok"), Req(s1, Any, <<e1, e2>>, "ok"),
   Req(s1, 1, <<e4>>, "EventTooLarge"), Req(s1, Any, <<e3, e3>>, "ok")}

(***************************************************************************)
(* prd/010, acceptance criterion 6: a batch that is sent again after a     *)
(* restart "returns Ok with the original positions".  It is stated of a    *)
(* cache with room for every ID and of a log without failed appends.       *)
(***************************************************************************)
RetryGetsOriginal ==
  \A i, j \in DOMAIN call :
     /\ call[i].result = "ok" /\ call[j].result = "ok"
     /\ call[i].req = call[j].req /\ NothingForgotten
     => call[i].answer = call[j].answer
====
