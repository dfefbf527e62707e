------------------------------- MODULE Server -------------------------------
(***************************************************************************)
(* The server process, main.rs: how it starts, serves, and shuts down, and *)
(* the calls of its clients, which service.rs handles.  It composes the    *)
(* parts the other modules are about.  The writer task is here as its      *)
(* callers see it (module Writer has its steps), a subscription is open or *)
(* not (module Subscription has what it sends), Store::open succeeds or    *)
(* fails (module Store).                                                   *)
(*                                                                         *)
(* Event IDs are never repeated here; module Writer is about retries.      *)
(***************************************************************************)
EXTENDS Service

CONSTANTS
  Clients,
  Requests,     \* what clients ask for
  Envs,         \* the environment variables the process may be started with
  Recovered,    \* the indexes Store::open may recover
  MaxCalls      \* bound: calls of all the clients

ASSUME ClientsAssumption == IsFiniteSet(Clients)
ASSUME BoundsAssumption == MaxCalls \in Nat

Texts == [uuid : Nat, spelled : {"hyphenated", "simple", "garbage"}]

(* What protobuf guarantees of a request: it is one of the service's, an   *)
(* append has a list of events, a range is of two u64, and a health check  *)
(* names a service.                                                        *)
ASSUME RequestsAssumption ==
  \A r \in Requests :
     /\ r.rpc \in {"append", "read_all", "read_stream", "list_streams",
                   "subscribe", "check"}
     /\ r.rpc = "append" => r.stream_id \in Texts /\ r.events \in Seq(Texts)
     /\ r.rpc = "read_stream" => r.stream_id \in Texts
     /\ r.rpc \in {"read_all", "read_stream"} =>
          r.from \in 0..MaxU64 /\ r.max \in 0..MaxU64
     /\ r.rpc = "check" => r.service \in STRING

(* An event ID is that of the call that brought it, 0 for recovered ones,  *)
(* and one of its own.                                                     *)
RecordedEvent ==
  [event_id : [call : Nat, uuid : Int], stream_id : Int, stream_version : Nat,
   global_position : Nat]

(* The position lists have the events of their streams, all of them and in *)
(* their order, and an event's version is its place in its list.           *)
Ordered(l) ==
  /\ \A s \in DOMAIN l.streams : \A i \in 1..Len(l.streams[s]) :
       LET p == l.streams[s][i]
       IN /\ p + 1 \in 1..Len(l.events)
          /\ l.events[p + 1].stream_id = s
          /\ l.events[p + 1].stream_version = i - 1
          /\ \A j \in 1..(i - 1) : l.streams[s][j] < p
  /\ \A k \in 1..Len(l.events) :
       LET s == l.events[k].stream_id
           v == l.events[k].stream_version
       IN v + 1 \in 1..Len(l.streams[s]) /\ l.streams[s][v + 1] = k - 1

(* What module Store proves of the index, as long as no fsync fails:       *)
(* positions and versions are dense, and the lists are those of the        *)
(* streams that have events.                                               *)
ASSUME RecoveredAssumption ==
  \A l \in Recovered :
     /\ l.events \in Seq(RecordedEvent)
     /\ l.streams \in [DOMAIN l.streams -> Seq(Nat)]
     /\ DOMAIN l.streams = {l.events[k].stream_id : k \in 1..Len(l.events)}
     /\ \A k \in 1..Len(l.events) :
          l.events[k].global_position = k - 1 /\ l.events[k].event_id.call = 0
     /\ Ordered(l)

VARIABLES
  phase,        \* what main does next
  env,          \* the environment variables
  code,         \* the exit code, or -1
  health,       \* the health service: the status by service name
  writer,       \* the writer task, and how far it is with a call
  handle,       \* main holds its WriterHandle
  queue,        \* the calls in the channel and in the task, oldest first
  log,          \* the index
  call,         \* the call of each client
  calls,        \* how many calls there have been
  metrics,      \* the recorder and its values
  scraper,      \* the task of the metrics endpoint
  base          \* history: events recovered at the start

process == <<phase, code>>
wiring == <<writer, handle, queue>>
telemetry == <<metrics, scraper>>
vars == <<process, env, health, wiring, log, call, calls, telemetry, base>>

(* The server as a whole, and EventStoreServer by its name.                *)
Names == {"", "eventfold.EventStore"}

(* The task at its loop; with the events indexed; with them counted.       *)
Alive == {"up", "indexed", "counted"}

(* While main serves: new calls come in, or only old ones go on.           *)
Accepting == {"serving", "unset_server", "unset_service"}
Ending == {"draining", "abort", "join"}

(***************************************************************************)
(* Config::from_env.  A variable is "unset", or "bad" if it does not parse.*)
(***************************************************************************)
Number(v, default) == IF v = "unset" THEN default ELSE v

(* The rows of the match on (cert, key, ca) that return an error.          *)
tls_unsound(e) == e.cert # e.key \/ (e.ca /\ ~e.cert)

from_env(e) ==
  [ok |-> /\ e.data # "unset"
          /\ e.listen # "bad"
          /\ e.broker # "bad"
          /\ e.dedup \notin {"bad", "zero"}
          /\ e.metrics # "bad"
          /\ ~tls_unsound(e),
   broker_capacity |-> Number(e.broker, "default"),
   metrics_listen |-> e.metrics # "empty",
   tls |-> e.cert /\ e.key,
   mtls |-> e.cert /\ e.key /\ e.ca,
   jwt_secret |-> e.jwt \notin {"unset", "empty"}]

config == from_env(env)

NoMetrics == [installed |-> FALSE, appends |-> 0, events |-> 0, reads |-> 0,
              subscriptions |-> 0, global_position |-> 0, streams |-> 0]

Idle == [state |-> "idle", req |-> [rpc |-> "none"], resp |-> Status("none"),
         id |-> 0, at |-> 0]

(* tonic_health starts out with the server-wide status SERVING.            *)
Init ==
  /\ phase = "config" /\ code = -1
  /\ env \in Envs
  /\ health = [n \in Names |-> IF n = "" THEN "Serving" ELSE "Unknown"]
  /\ writer = "none" /\ handle = FALSE /\ queue = <<>>
  /\ log = [events |-> <<>>, streams |-> [s \in {} |-> <<>>]] /\ base = 0
  /\ call = [c \in Clients |-> Idle] /\ calls = 0
  /\ metrics = NoMetrics /\ scraper = "none"

-----------------------------------------------------------------------------
(* main, up to the point where it serves.                                  *)

(* exit(1), a panic (101) or a return from main ends every task.           *)
Exits(c) ==
  /\ phase' = "exited" /\ code' = c
  /\ writer' = IF writer \in Alive THEN "none" ELSE writer
  /\ handle' = FALSE /\ queue' = <<>>
  /\ call' = [x \in Clients |-> IF call[x].state \in {"idle", "answered"}
                                THEN call[x] ELSE Idle]
  /\ metrics' = [metrics EXCEPT !.subscriptions = 0]
  /\ scraper' = "none"
  /\ UNCHANGED <<env, health, log, calls, base>>

Advance(from, to) == phase = from /\ phase' = to /\ UNCHANGED code

LoadConfig ==
  \/ /\ config.ok
     /\ Advance("config", "open")
     /\ UNCHANGED <<env, health, wiring, log, call, calls, telemetry, base>>
  \/ phase = "config" /\ ~config.ok /\ Exits(1)

OpenStore ==
  \/ /\ Advance("open", "broker")
     /\ log' \in Recovered
     /\ base' = Len(log'.events)
     /\ UNCHANGED <<env, health, wiring, call, calls, telemetry>>
  \/ phase = "open" /\ Exits(1)

(* broadcast::channel panics on a capacity of 0.                           *)
NewBroker ==
  \/ /\ config.broker_capacity # "zero"
     /\ Advance("broker", "writer")
     /\ UNCHANGED <<env, health, wiring, log, call, calls, telemetry, base>>
  \/ phase = "broker" /\ config.broker_capacity = "zero" /\ Exits(101)

SpawnWriter ==
  /\ Advance("writer", "recorder")
  /\ writer' = "up" /\ handle' = TRUE
  /\ UNCHANGED <<env, health, queue, log, call, calls, telemetry, base>>

(* The first call in a process installs it.                                *)
install_recorder ==
  /\ Advance("recorder", "metrics")
  /\ metrics' = [metrics EXCEPT !.installed = TRUE]
  /\ UNCHANGED <<env, health, wiring, log, call, calls, scraper, base>>

serve_metrics ==
  /\ Advance("metrics", "tls")
  /\ scraper' = IF config.metrics_listen THEN "binding" ELSE "none"
  /\ UNCHANGED <<env, health, wiring, log, call, calls, metrics, base>>

(* Its address may be taken; the server goes on without it.                *)
ScraperBinds ==
  /\ scraper = "binding"
  /\ scraper' \in {"up", "failed"}
  /\ UNCHANGED <<process, env, health, wiring, log, call, calls, metrics, base>>

(* GET /metrics renders the values as they are.                            *)
Scrape == scraper = "up" /\ UNCHANGED vars

(* The files of the certificates are read, if they are wanted.             *)
BuildServer ==
  \/ /\ Advance("tls", "bind")
     /\ UNCHANGED <<env, health, wiring, log, call, calls, telemetry, base>>
  \/ phase = "tls" /\ config.tls /\ Exits(1)

Bind ==
  \/ /\ Advance("bind", "set_service")
     /\ UNCHANGED <<env, health, wiring, log, call, calls, telemetry, base>>
  \/ phase = "bind" /\ Exits(1)

SetHealth(name, status) ==
  /\ health' = [health EXCEPT ![name] = status]
  /\ UNCHANGED <<env, wiring, log, call, calls, telemetry, base>>

SetServing ==
  \/ Advance("set_service", "set_server")
     /\ SetHealth("eventfold.EventStore", "Serving")
  \/ Advance("set_server", "serving") /\ SetHealth("", "Serving")

-----------------------------------------------------------------------------
(* Calls.                                                                  *)

InFlight(c) == call[c].state \notin {"idle", "answered"}

(* A client has one call at a time.  at is history: events at its answer.  *)
Answered(c, resp) ==
  [call[c] EXCEPT !.state = "answered", !.resp = resp, !.at = Len(log.events)]

Arrive(c, r) ==
  /\ phase \in Accepting
  /\ ~InFlight(c)
  /\ calls < MaxCalls
  /\ calls' = calls + 1
  /\ call' = [call EXCEPT ![c] = [state |-> "arrived", req |-> r,
                                  resp |-> Status("none"), id |-> calls + 1,
                                  at |-> 0]]
  /\ UNCHANGED <<process, env, health, wiring, log, telemetry, base>>

(* Variant: the service is added without the interceptor.                  *)
AdmittedAll(r) == TRUE

(* The interceptor wraps the event store, not the health service.          *)
Admitted(r) == (r.rpc # "check" /\ config.jwt_secret) => intercept(r.auth)

Handling(c, rpcs) ==
  /\ phase \in Accepting \cup Ending
  /\ call[c].state = "arrived"
  /\ Admitted(call[c].req)
  /\ call[c].req.rpc \in rpcs

Deny(c) ==
  /\ phase \in Accepting \cup Ending
  /\ call[c].state = "arrived"
  /\ ~Admitted(call[c].req)
  /\ call' = [call EXCEPT ![c] = Answered(c, Status("UNAUTHENTICATED"))]
  /\ UNCHANGED <<process, env, health, wiring, log, calls, telemetry, base>>

(* The health service is asked by name.                                    *)
ServingStatus(name) ==
  IF name \in Names THEN Response(health[name]) ELSE Status("NOT_FOUND")

Check(c) ==
  /\ Handling(c, {"check"})
  /\ call' = [call EXCEPT ![c] = Answered(c, ServingStatus(call[c].req.service))]
  /\ UNCHANGED <<process, env, health, wiring, log, calls, telemetry, base>>

(* tx.send finds the receiver there, or gone with the writer task.         *)
append(c) ==
  /\ Handling(c, {"append"})
  /\ IF append_valid(call[c].req) /\ writer \in Alive
     THEN /\ queue' = Append(queue, [client |-> c, id |-> call[c].id,
                                     req |-> call[c].req])
          /\ call' = [call EXCEPT ![c].state = "queued"]
     ELSE /\ call' = [call EXCEPT ![c] = Answered(c, Status("INVALID_ARGUMENT"))]
          /\ UNCHANGED queue
  /\ UNCHANGED <<process, env, health, writer, handle, log, calls, telemetry,
                 base>>

(* The counter counts every read, refused or not.                          *)
Reads(c, resp) ==
  /\ metrics' = [metrics EXCEPT !.reads = @ + (IF metrics.installed THEN 1 ELSE 0)]
  /\ call' = [call EXCEPT ![c] =
       Answered(c, [resp EXCEPT !.body = Mapped(recorded_to_proto, @)])]
  /\ UNCHANGED <<process, env, health, wiring, log, calls, scraper, base>>

read(c) ==
  LET r == call[c].req
      s == parse_uuid(r.stream_id)
  IN \/ Handling(c, {"read_all"}) /\ Reads(c, read_all(log, r.from, r.max))
     \/ /\ Handling(c, {"read_stream"})
        /\ Reads(c, IF s = Invalid THEN Status("INVALID_ARGUMENT")
                    ELSE read_stream(log, s, r.from, r.max))

list(c) ==
  /\ Handling(c, {"list_streams"})
  /\ call' = [call EXCEPT ![c] =
       Answered(c, Response(Mapped(stream_info_to_proto, list_streams(log))))]
  /\ UNCHANGED <<process, env, health, wiring, log, calls, telemetry, base>>

(* The response is a stream; nothing of it has run yet.                    *)
subscribe(c) ==
  /\ Handling(c, {"subscribe"})
  /\ call' = [call EXCEPT ![c] =
       IF parse_uuid(call[c].req.stream_id) = Invalid
       THEN Answered(c, Status("INVALID_ARGUMENT"))
       ELSE [@ EXCEPT !.state = "created"]]
  /\ UNCHANGED <<process, env, health, wiring, log, calls, telemetry, base>>

-----------------------------------------------------------------------------
(* The stream of a subscription, and the gauge that counts it.             *)

Count(n) ==
  metrics' = [metrics EXCEPT !.subscriptions =
                 @ + (IF metrics.installed THEN n ELSE 0)]

(* SubscriptionGauge::new runs when the stream is polled first.            *)
FirstPoll(c) ==
  /\ call[c].state = "created"
  /\ call' = [call EXCEPT ![c].state = "streaming"]
  /\ Count(1)
  /\ UNCHANGED <<process, env, health, wiring, log, calls, scraper, base>>

(***************************************************************************)
(* A subscriber that lags behind what is published is sent an error.  The  *)
(* stream holds a sender of the broker itself, so it never sees the        *)
(* channel closed.                                                         *)
(***************************************************************************)
Lag(c) ==
  /\ call[c].state = "streaming"
  /\ metrics.appends > 0
  /\ call' = [call EXCEPT ![c] =
                Answered(c, Status(error_to_status.InvalidArgument))]
  /\ Count(-1)
  /\ UNCHANGED <<process, env, health, wiring, log, calls, scraper, base>>

(* Drop of SubscriptionGauge, if there is one.                             *)
Dropped(c) == IF call[c].state = "streaming" THEN -1 ELSE 0

(* The client hangs up: its handler or its stream is dropped.              *)
Disconnect(c) ==
  /\ InFlight(c)
  /\ call' = [call EXCEPT ![c] = Idle]
  /\ Count(Dropped(c))
  /\ UNCHANGED <<process, env, health, wiring, log, calls, scraper, base>>

-----------------------------------------------------------------------------
(* The writer task.                                                        *)

EventId(id, text) == [call |-> id, uuid |-> proto_to_proposed_event(text)]

validate_batch_unique_ids(q) ==
  \A i, j \in 1..Len(q.req.events) :
    EventId(q.id, q.req.events[i]) = EventId(q.id, q.req.events[j]) => i = j

Version(s) == IF s \in DOMAIN log.streams THEN stream_version(log, s) ELSE NoStream

version_matches(q) ==
  LET expected == proto_to_expected_version(q.req.expected_version)
  IN expected = AnyVersion \/ expected = Version(parse_uuid(q.req.stream_id))

Positions(s) == IF s \in DOMAIN log.streams THEN log.streams[s] ELSE <<>>

Recorded(q) ==
  LET s == parse_uuid(q.req.stream_id)
  IN [k \in 1..Len(q.req.events) |->
       [event_id |-> EventId(q.id, q.req.events[k]), stream_id |-> s,
        stream_version |-> Len(Positions(s)) + k - 1,
        global_position |-> Len(log.events) + k - 1]]

Indexed(q) ==
  LET s == parse_uuid(q.req.stream_id)
      positions == Mapped(LAMBDA e : e.global_position, Recorded(q))
  IN [events |-> log.events \o Recorded(q),
      streams |-> [t \in DOMAIN log.streams \cup {s} |->
                     IF t = s THEN Positions(s) \o positions ELSE log.streams[t]]]

(* The receiver of the response may be gone.                               *)
Respond(q, resp) ==
  /\ queue' = Tail(queue)
  /\ call' = IF call[q.client].id = q.id
             THEN [call EXCEPT ![q.client] = Answered(q.client, resp)]
             ELSE call

(* The call at hand: the oldest.                                           *)
Working(at) == writer = at /\ queue # <<>>
Current == Head(queue)

(* Step 0, or an error of Store::append, which is then without effect on   *)
(* the index; modules Writer and Codec have what it may leave in the file. *)
WriterRefuses ==
  /\ Working("up")
  /\ \E error \in {"InvalidArgument", "WrongExpectedVersion", "EventTooLarge", "Io"} :
       /\ error = "WrongExpectedVersion" =>
            validate_batch_unique_ids(Current) /\ ~version_matches(Current)
       /\ error \in {"EventTooLarge", "Io"} =>
            validate_batch_unique_ids(Current) /\ version_matches(Current)
       /\ error = "InvalidArgument" =>
            ~validate_batch_unique_ids(Current) \/ version_matches(Current)
       /\ Respond(Current, Status(error_to_status[error]))
  /\ UNCHANGED <<process, env, health, writer, handle, log, calls, telemetry, base>>

WriterAppends ==
  /\ Working("up")
  /\ validate_batch_unique_ids(Current)
  /\ version_matches(Current)
  /\ log' = Indexed(Current)
  /\ writer' = "indexed"
  /\ UNCHANGED <<process, env, health, handle, queue, call, calls, telemetry, base>>

(* Variant: the events end one before the last.                            *)
LastRecordedStale ==
  SubSeq(log.events, Len(log.events) - Len(Current.req.events),
         Len(log.events) - 1)

LastRecorded == SubSeq(log.events, Len(log.events) - Len(Current.req.events) + 1,
                       Len(log.events))

(* Variant: a batch counts as one event.                                   *)
CountedOne(m) ==
  [m EXCEPT !.appends = @ + 1, !.events = @ + 1,
            !.streams = Cardinality(DOMAIN log.streams),
            !.global_position = IF LastRecorded = <<>> THEN @
                                ELSE LastRecorded[Len(LastRecorded)].global_position + 1]

Counted(m) ==
  [m EXCEPT !.appends = @ + 1, !.events = @ + Len(LastRecorded),
            !.streams = Cardinality(DOMAIN log.streams),
            !.global_position = IF LastRecorded = <<>> THEN @
                                ELSE LastRecorded[Len(LastRecorded)].global_position + 1]

(* Then dedup.record and broker.publish, which modules Writer and          *)
(* Subscription are about.                                                 *)
WriterCounts ==
  /\ Working("indexed")
  /\ metrics' = IF metrics.installed THEN Counted(metrics) ELSE metrics
  /\ writer' = "counted"
  /\ UNCHANGED <<process, env, health, handle, queue, log, call, calls, scraper, base>>

WriterResponds ==
  /\ Working("counted")
  /\ Respond(Current, append_response(LastRecorded))
  /\ writer' = "up"
  /\ UNCHANGED <<process, env, health, handle, log, calls, telemetry, base>>

(* The clock is before 1970 as a batch begins.  Every sender is dropped.   *)
WriterPanics ==
  /\ Working("up")
  /\ writer' = "dead" /\ queue' = <<>>
  /\ call' = [c \in Clients |->
                IF call[c].state = "queued"
                THEN Answered(c, Status(error_to_status.InvalidArgument))
                ELSE call[c]]
  /\ UNCHANGED <<process, env, health, handle, log, calls, telemetry, base>>

(* Variant: the task stops as soon as the handles are dropped.             *)
recv_returns_noneEarly == phase = "join" /\ ~handle

(* recv returns None once every handle is dropped and the channel empty.   *)
(* The handle of the service goes with the server.                         *)
recv_returns_none == phase = "join" /\ ~handle /\ queue = <<>>

WriterExits ==
  /\ writer = "up"
  /\ recv_returns_none
  /\ writer' = "exited"
  /\ UNCHANGED <<process, env, health, handle, queue, log, call, calls, telemetry, base>>

-----------------------------------------------------------------------------
(* The end.                                                                *)

shutdown_signal ==
  /\ Advance("serving", "unset_server")
  /\ UNCHANGED <<env, health, wiring, log, call, calls, telemetry, base>>

ServeFails == phase = "serving" /\ Exits(1)

(* Variant: the two updates in the order of the start.                     *)
SetNotServingSwapped ==
  \/ Advance("unset_server", "unset_service")
     /\ SetHealth("eventfold.EventStore", "NotServing")
  \/ Advance("unset_service", "draining") /\ SetHealth("", "NotServing")

(* The future that serve_with_incoming_shutdown waits for goes on.         *)
SetNotServing ==
  \/ Advance("unset_server", "unset_service") /\ SetHealth("", "NotServing")
  \/ Advance("unset_service", "draining")
     /\ SetHealth("eventfold.EventStore", "NotServing")

(* tonic closes a connection when the calls on it have ended.              *)
Drain ==
  /\ \A c \in Clients : ~InFlight(c)
  /\ Advance("draining", "abort")
  /\ UNCHANGED <<env, health, wiring, log, call, calls, telemetry, base>>

(* Variant: main waits for the endpoint to end by itself.                  *)
AbortMetricsWaits ==
  /\ Advance("abort", "join")
  /\ scraper \in {"none", "failed"}
  /\ handle' = FALSE
  /\ UNCHANGED <<env, health, writer, queue, log, call, calls, metrics, scraper, base>>

(* And main drops its WriterHandle.                                        *)
AbortMetrics ==
  /\ Advance("abort", "join")
  /\ scraper' = "none"
  /\ handle' = FALSE
  /\ UNCHANGED <<env, health, writer, queue, log, call, calls, metrics, base>>

(* expect panics if the task did.                                          *)
Join ==
  \/ phase = "join" /\ writer = "exited" /\ Exits(0)
  \/ phase = "join" /\ writer = "dead" /\ Exits(101)

Main == \/ LoadConfig \/ OpenStore \/ NewBroker \/ SpawnWriter
        \/ install_recorder \/ serve_metrics \/ BuildServer \/ Bind
        \/ SetServing \/ SetNotServing \/ Drain \/ AbortMetrics \/ Join

Handler(c) == Deny(c) \/ Check(c) \/ append(c) \/ read(c) \/ list(c)
                \/ subscribe(c) \/ FirstPoll(c)

WriterTask == WriterRefuses \/ WriterAppends \/ WriterCounts \/ WriterResponds
                \/ WriterExits

(* The process has exited.                                                 *)
Done == phase = "exited" /\ UNCHANGED vars

Next ==
  \/ Main \/ WriterTask \/ WriterPanics \/ ScraperBinds \/ Scrape
  \/ shutdown_signal \/ ServeFails \/ Done
  \/ \E c \in Clients : \/ Handler(c) \/ Lag(c) \/ Disconnect(c)
                        \/ \E r \in Requests : Arrive(c, r)

Spec == Init /\ [][Next]_vars

(***************************************************************************)
(* The runtime polls every task that can go on.  No client has to hang up, *)
(* and nobody has to send a signal.                                        *)
(***************************************************************************)
Fairness ==
  /\ WF_vars(Main)
  /\ WF_vars(WriterTask)
  /\ \A c \in Clients : WF_vars(Handler(c))

FairSpec == Spec /\ Fairness

-----------------------------------------------------------------------------
(* Properties.                                                             *)

Answers(rpc) == {c \in Clients : call[c].state = "answered" /\ call[c].req.rpc = rpc}
Mine(l, id) == {k \in 1..Len(l.events) : l.events[k].event_id.call = id}

(* The events of a request, all of them and in their order, are in the log *)
(* from position p on and in consecutive versions, and nowhere else.       *)
Lies(l, id, req, p) ==
  /\ Mine(l, id) = (p + 1)..(p + Len(req.events))
  /\ \A k \in 1..Len(req.events) :
       /\ l.events[p + k].event_id = EventId(id, req.events[k])
       /\ l.events[p + k].stream_id = parse_uuid(req.stream_id)
       /\ l.events[p + k].stream_version = l.events[p + 1].stream_version + k - 1

AnswerExact(l, x) ==
  LET body == x.resp.body
      n == Len(x.req.events)
      first == l.events[body.first_global_position + 1]
  IN IF x.resp.status # "OK" THEN Mine(l, x.id) = {}
     ELSE /\ Lies(l, x.id, x.req, body.first_global_position)
          /\ body.last_global_position = body.first_global_position + n - 1
          /\ body.first_stream_version = first.stream_version
          /\ body.last_stream_version = first.stream_version + n - 1

(* An append that is answered with OK names the positions and versions at  *)
(* which its own events are; one that is answered with an error has left   *)
(* no event in the index (service.rs, append).                             *)
AppendAnswers == \A c \in Answers("append") : AnswerExact(log, call[c])

(* A range, taken without overflow.                                        *)
Within(r, n) == r.from <= n /\ n < r.from + r.max

(* A body has the events at K, each once and in their order.               *)
Shows(l, body, K) ==
  /\ {body[i] : i \in 1..Len(body)} = {recorded_to_proto(l.events[k]) : k \in K}
  /\ \A i, j \in 1..Len(body) :
       i < j => body[i].global_position < body[j].global_position

(* Where the events of a stream are, of the first n.                       *)
Of(l, s, n) == {k \in 1..n : l.events[k].stream_id = s}

AllExact(l, x) ==
  /\ x.resp.status = "OK"
  /\ Shows(l, x.resp.body,
           {k \in 1..x.at : Within(x.req, l.events[k].global_position)})

(* A stream is not found exactly if it had no event.                       *)
StreamExact(l, x) ==
  LET s == parse_uuid(x.req.stream_id)
      of == Of(l, s, x.at)
  IN IF s = Invalid THEN x.resp = Status("INVALID_ARGUMENT")
     ELSE IF of = {} THEN x.resp = Status("NOT_FOUND")
     ELSE /\ x.resp.status = "OK"
          /\ Shows(l, x.resp.body,
                   {k \in of : Within(x.req, l.events[k].stream_version)})

(* A stream, with its number of events and the version of its last one.    *)
InfoExact(l, info, n) ==
  LET of == Of(l, info.stream_id.uuid, n)
  IN /\ info.event_count = Cardinality(of)
     /\ \E k \in of : /\ \A j \in of : j <= k
                      /\ info.latest_version = l.events[k].stream_version

(* Every stream that had an event, once and by name.                       *)
ListingExact(l, x) ==
  LET listed == x.resp.body
      id(i) == listed[i].stream_id.uuid
  IN /\ {id(i) : i \in 1..Len(listed)} = {l.events[k].stream_id : k \in 1..x.at}
     /\ \A i \in 1..Len(listed) : InfoExact(l, listed[i], x.at)
     /\ \A i, j \in 1..Len(listed) : i < j => id(i) < id(j)

ReadExact(l, x) ==
  /\ x.req.rpc = "read_all" => AllExact(l, x)
  /\ x.req.rpc = "read_stream" => StreamExact(l, x)
  /\ x.req.rpc = "list_streams" => ListingExact(l, x)

(* Reads and listings tell exactly what was in the log when they ran: no   *)
(* sum of a range overflows, no subtraction of a listing wraps around, and *)
(* no batch is seen in part (reader.rs, service.rs).                       *)
ReadsExact ==
  \A c \in Clients :
    call[c].state = "answered" /\ call[c].resp.status # "UNAUTHENTICATED" =>
      ReadExact(log, call[c])

(* What the endpoint shows covers every append that has been answered: the *)
(* counters and gauges are set before the response is sent, and while the  *)
(* writer is between two calls they are those of the log (writer.rs).  The *)
(* gauge of subscriptions is the number of streams that are running,       *)
(* whichever way others ended (SubscriptionGauge, service.rs).             *)
MetricsExact ==
  /\ \A c \in Answers("append") : call[c].resp.status = "OK" =>
       /\ metrics.global_position > call[c].resp.body.last_global_position
       /\ metrics.events > call[c].resp.body.last_global_position - base
  /\ writer = "up" =>
       /\ metrics.events = Len(log.events) - base
       /\ metrics.appends > 0 =>
            /\ metrics.global_position = Len(log.events)
            /\ metrics.streams =
                 Cardinality({log.events[k].stream_id : k \in 1..Len(log.events)})
  /\ metrics.subscriptions =
       Cardinality({c \in Clients : call[c].state = "streaming"})

(* With a secret configured, no event is in the log and no data has been   *)
(* returned on a call without a valid token (main.rs, auth.rs).  A server  *)
(* that accepts calls uses TLS if any of the TLS variables is set, and     *)
(* asks for client certificates if the CA is (Config::from_env).           *)
GuardedAsConfigured ==
  /\ config.jwt_secret =>
       \A c \in Clients : call[c].req.rpc \notin {"none", "check"} =>
         \/ intercept(call[c].req.auth)
         \/ /\ call[c].state \in {"arrived", "answered"}
            /\ call[c].resp.status \in {"none", "UNAUTHENTICATED"}
            /\ Mine(log, call[c].id) = {}
  /\ phase \in Accepting =>
       /\ (env.cert \/ env.key \/ env.ca) => config.tls
       /\ env.ca => config.mtls

(* The shutdown future updates two health entries while checks go on, the  *)
(* server's first (main.rs).  Once a client was told of a name that it no  *)
(* longer serves, nobody is told that it does; once that name was the      *)
(* event store's, nobody is told so of the server either, and no check of  *)
(* any name that is answered while the server drains says so.  In between, *)
(* the event store may still be said to serve by a server said to be down. *)
HealthOnlyFalls ==
  [][\A d \in Clients :
       /\ call[d].state = "arrived" /\ call[d].req.rpc = "check"
       /\ \/ phase \in Ending
          \/ \E c \in Answers("check") :
               /\ call[c].resp = Response("NotServing")
               /\ call[c].req.service = "" => call[d].req.service = ""
       => call'[d].resp # Response("Serving")]_vars

(* A process that exits with 0 was told to, has answered every call that   *)
(* was not given up, and has let the writer finish even those that were.   *)
ExitZeroIsClean ==
  [][(code' = 0 /\ code = -1) =>
       /\ health[""] = "NotServing"
       /\ writer = "exited" /\ queue = <<>>
       /\ \A c \in Clients : ~InFlight(c)]_vars

(* The only thing that holds up the process after the signal is a          *)
(* subscription that its client leaves open: the stream never ends by      *)
(* itself (service.rs, subscribe_all).                                     *)
ShutdownEnds ==
  <>[](phase \in Ending) => <>[](\E c \in Clients : call[c].state = "streaming")
====
