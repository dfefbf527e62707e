------------------------------ MODULE MCCodec ------------------------------
(***************************************************************************)
(* A small instance of Codec.  The payloads include the bytes of a batch   *)
(* header's magic; one event is as large as is accepted, one larger.       *)
(***************************************************************************)
EXTENDS Codec

MCWidth == [f \in Fields |->
              IF f \in {"magic", "position", "len"} THEN 2 ELSE 1]

Small == [event_id |-> 1, event_type |-> <<<<1>>>>, metadata |-> <<>>,
          payload |-> <<>>]
Lookalike == [event_id |-> 2, event_type |-> <<<<2>>>>, metadata |-> <<<<1>>, <<4>>>>,
              payload |-> BATCH_HEADER_MAGIC]

Large == [Lookalike EXCEPT !.event_type = <<<<2>>, <<1>>>>]

MCProposals == {[stream_id |-> 1, events |-> <<Large>>],
                [stream_id |-> 0, events |-> <<Small>>],
                [stream_id |-> 1, events |-> <<Lookalike, Small>>]}
====
