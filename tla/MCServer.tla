------------------------------ MODULE MCServer ------------------------------
(***************************************************************************)
(* Model checking of Server: two clients, and environments and requests    *)
(* that differ from a plain one in one respect each.                       *)
(***************************************************************************)
EXTENDS ServerInvariant

Plain == [data |-> "set", listen |-> "unset", broker |-> "unset",
          dedup |-> "unset", metrics |-> "unset", cert |-> FALSE,
          key |-> FALSE, ca |-> FALSE, jwt |-> "empty"]

MCEnvs ==
  {Plain, [Plain EXCEPT !.data = "unset"], [Plain EXCEPT !.listen = "bad"],
   [Plain EXCEPT !.broker = "bad"], [Plain EXCEPT !.broker = "zero"],
   [Plain EXCEPT !.dedup = "zero"], [Plain EXCEPT !.metrics = "bad"],
   [Plain EXCEPT !.cert = TRUE], [Plain EXCEPT !.ca = TRUE],
   [Plain EXCEPT !.cert = TRUE, !.key = TRUE, !.ca = TRUE, !.metrics = "empty",
                 !.jwt = "secret"]}

Text(n, how) == [uuid |-> n, spelled |-> how]
Token == [signed |-> TRUE, claims |-> {"exp", "sub"}, expired |-> FALSE]
Bearer == [form |-> "bearer", token |-> Token]
Version0 == [kind |-> "exact", version |-> 0]

AppendTo(s, ev, texts) ==
  [rpc |-> "append", auth |-> Bearer, stream_id |-> Text(s, "simple"),
   expected_version |-> ev, events |-> texts]
ReadAll(from, max) ==
  [rpc |-> "read_all", auth |-> Bearer, stream_id |-> Text(0, "garbage"),
   from |-> from, max |-> max]
ReadStream(text, from, max) ==
  [ReadAll(from, max) EXCEPT !.rpc = "read_stream", !.stream_id = text]

Health(name) == [rpc |-> "check", service |-> name]

One == <<Text(1, "hyphenated")>>
Two == <<Text(1, "hyphenated"), Text(2, "simple")>>
Twice == <<Text(1, "hyphenated"), Text(1, "simple")>>

MCRequests ==
  {AppendTo(1, [kind |-> "any"], Two), AppendTo(2, [kind |-> "no_stream"], One),
   AppendTo(1, Version0, One), AppendTo(1, [kind |-> "any"], Twice),
   AppendTo(2, [kind |-> "any"], <<>>),
   [AppendTo(1, [kind |-> "any"], One) EXCEPT !.auth.token.expired = TRUE],
   ReadAll(0, 2), ReadAll(1, MaxU64),
   ReadStream(Text(1, "hyphenated"), 1, MaxU64),
   ReadStream(Text(2, "simple"), 0, 1), ReadStream(Text(0, "garbage"), 0, 1),
   [rpc |-> "list_streams", auth |-> Bearer], Health(""),
   Health("eventfold.EventStore"), Health("eventfold.Unknown"),
   [rpc |-> "subscribe", auth |-> Bearer, stream_id |-> Text(1, "simple")],
   [rpc |-> "subscribe", auth |-> Bearer, stream_id |-> Text(0, "garbage")],
   [rpc |-> "list_streams", auth |-> [form |-> "none"]]}

OneEvent ==
  [events |-> <<[event_id |-> [call |-> 0, uuid |-> 1], stream_id |-> 1,
                 stream_version |-> 0, global_position |-> 0]>>,
   streams |-> [s \in {1} |-> <<0>>]]
MCRecovered == {OneEvent}

MCStreamIds == {1, 2}
====
