---------------------------- MODULE ServerCalls -----------------------------
(***************************************************************************)
(* The steps of the handlers of a call keep ServerInv.                     *)
(***************************************************************************)
EXTENDS ServerLemmas

-----------------------------------------------------------------------------
(* The call of one client goes on.                                         *)

MetricsKept ==
  /\ DOMAIN metrics' = DOMAIN metrics
  /\ metrics'.events = metrics.events /\ metrics'.appends = metrics.appends
  /\ metrics'.global_position = metrics.global_position
  /\ metrics'.streams = metrics.streams
  /\ metrics'.installed = metrics.installed

Streaming == {c \in Clients : call[c].state = "streaming"}

LEMMA GaugeType ==
  ASSUME Counting, GaugeInv
  PROVE  Streaming \in SUBSET Clients /\ metrics.subscriptions \in Nat
<1>1. Streaming \in SUBSET Clients
  BY Zenon DEF Streaming
<1>2. Cardinality(Streaming) \in Nat
  BY <1>1, Zenon DEF Counting
<1>3. QED
  BY <1>1, <1>2, Zenon DEF GaugeInv, Streaming

LEMMA GaugeTypeNext ==
  ASSUME Counting, GaugeInv'
  PROVE  metrics'.subscriptions \in Nat
<1>1. Streaming' \in SUBSET Clients
  BY Zenon DEF Streaming
<1>2. Cardinality(Streaming') \in Nat
  BY <1>1, Zenon DEF Counting
<1>3. QED
  BY <1>2, Zenon DEF GaugeInv, Streaming

(* A call that has an ID, and is neither waiting for the writer nor        *)
(* answered with OK, has nothing in the log; nor has the next one.         *)
LEMMA NothingWritten ==
  ASSUME ServerInv, NEW c \in Clients, call[c].id # 0,
         call[c].state # "queued", ~Succeeded(call[c])
  PROVE  Mine(log, call[c].id) = {}
BY Zenon DEF ServerInv, WrittenInv

LEMMA NextIsNew ==
  ASSUME ServerInv
  PROVE  /\ Mine(log, calls + 1) = {}
         /\ \A c \in Clients : call[c].id # calls + 1
         /\ \A i \in 1..Len(queue) : queue[i].id # calls + 1
<1>1. TypeOK /\ CallInv /\ QueueInv /\ LogInv
  BY Zenon DEF ServerInv
<1>2. calls \in Nat
  BY <1>1, Zenon DEF TypeOK
<1>3. calls + 1 \notin 0..calls /\ calls + 1 \notin 1..calls
  BY <1>2
<1>4. \A k \in 1..Len(log.events) : log.events[k].event_id.call # calls + 1
  BY <1>1, <1>3, Zenon DEF LogInv
<1>5. Mine(log, calls + 1) = {}
  BY <1>4, Zenon DEF Mine
<1>6. \A c \in Clients : call[c].id # calls + 1
  BY <1>1, <1>3, Zenon DEF CallInv, CallOK
<1>7. \A i \in 1..Len(queue) : queue[i].id # calls + 1
  BY <1>1, <1>3, Zenon DEF QueueInv
<1>8. QED
  BY <1>5, <1>6, <1>7, Zenon

(* A later number of calls does no harm.                                   *)
LEMMA CallOKLater ==
  ASSUME NEW x, NEW n \in Nat, NEW m \in Nat, NEW secret, n <= m,
         CallOK(x, n, secret)
  PROVE  CallOK(x, m, secret)
<1>1. x.id \in 0..n
  BY Zenon DEF CallOK
<1>2. x.id \in 0..m
  BY <1>1
<1>3. QED
  BY <1>2, Zenon DEF CallOK

CallGoesOn(c, x) ==
  /\ Becomes(c, x) /\ MetricsKept
  /\ UNCHANGED <<phase, env, health, writer, queue, log, base>>
  /\ calls' = calls \/ calls' = calls + 1
  /\ CallOK(x, calls', config.jwt_secret)
  /\ phase \notin Starting
  /\ x.state \notin {"idle", "answered"} => phase \in Accepting \cup {"draining"}
  /\ x.resp = Response("NotServing") /\ x.state = "answered" /\ x.req.rpc = "check" =>
       phase \in Fallen(x.req.service) \cup {"exited"}
  /\ x.state # "queued" /\ ~Succeeded(x)
  /\ \/ x.id = 0
     \/ x.id = calls + 1
     \/ /\ x.id = call[c].id
        /\ call[c].state \in {"arrived", "created", "streaming"}

LEMMA CallStep ==
  ASSUME Counting, ServerInv, NEW c \in Clients, NEW x, CallGoesOn(c, x),
         GaugeInv'
  PROVE  ServerInv'
<1>1. /\ TypeOK /\ PhaseInv /\ HealthInv /\ TaskInv /\ CallInv /\ IdsInv /\ QueueInv
      /\ LogInv /\ WrittenInv /\ TailInv /\ AppendAnswers /\ MetricsInv
  BY Zenon DEF ServerInv
<1>2. /\ env' = env /\ log' = log /\ base' = base /\ writer' = writer
      /\ queue' = queue /\ health' = health /\ phase' = phase
  BY Zenon DEF CallGoesOn
<1>3. /\ DOMAIN call' = Clients /\ call'[c] = x
      /\ \A d \in Clients : d # c => call'[d] = call[d]
  BY Zenon DEF CallGoesOn, Becomes
<1>4. x.id # 0 => Mine(log, x.id) = {}
  <2>1. ASSUME x.id = call[c].id, x.id # 0,
               call[c].state \in {"arrived", "created", "streaming"}
        PROVE  Mine(log, x.id) = {}
    <3>1. call[c].state # "queued" /\ ~Succeeded(call[c])
      BY <2>1 DEF Succeeded
    <3>2. QED
      BY <2>1, <3>1, NothingWritten, Zenon
  <2>2. QED
    BY <2>1, NextIsNew, Zenon DEF CallGoesOn
<1>5. ASSUME NEW d \in Clients, d # c, call[d].id = x.id
      PROVE  x.id = 0
  BY <1>1, <1>5, NextIsNew, Zenon DEF CallGoesOn, IdsInv
<1>6. ASSUME NEW i \in 1..Len(queue), queue[i].id = x.id, x.id # 0
      PROVE  FALSE
  <2>1. x.id # calls + 1
    BY <1>6, NextIsNew, Zenon
  <2>2. x.id = call[c].id /\ call[c].state \in {"arrived", "created", "streaming"}
    BY <1>6, <2>1, Zenon DEF CallGoesOn
  <2>3. call[c].state = "queued"
    BY <1>1, <1>6, <2>2, OfQueue, Zenon
  <2>4. QED
    BY <2>2, <2>3
<1>7. TypeOK'
  <2>1. calls' \in Nat
    BY <1>1 DEF TypeOK, CallGoesOn
  <2>2. metrics'.subscriptions \in Nat
    BY GaugeTypeNext, Zenon
  <2>3. QED
    BY <1>1, <1>2, <1>3, <2>1, <2>2, Zenon DEF TypeOK, CallGoesOn, MetricsKept
<1>8. PhaseInv'
  <2>1. \A d \in Clients : InFlight(d)' => phase \in Accepting \cup {"draining"}
    BY <1>1, <1>3, Zenon DEF PhaseInv, InFlight, CallGoesOn
  <2>2. QED
    BY <1>1, <1>2, <2>1, Zenon DEF PhaseInv, CallGoesOn, MetricsKept, config
<1>9. HealthInv'
  <2>1. ASSUME NEW d \in Answers("check")', call'[d].resp = Response("NotServing")
        PROVE  phase \in Fallen(call'[d].req.service) \cup {"exited"}
    <3>1. d \in Clients /\ call'[d].state = "answered" /\ call'[d].req.rpc = "check"
      BY <2>1, Zenon DEF Answers
    <3>2. CASE d = c
      BY <1>3, <2>1, <3>1, <3>2, Zenon DEF CallGoesOn
    <3>3. CASE d # c
      BY <1>1, <1>3, <2>1, <3>1, <3>3, Zenon DEF HealthInv, Answers
    <3>4. QED
      BY <3>2, <3>3, Zenon
  <2>2. QED
    BY <1>1, <1>2, <2>1, Zenon DEF HealthInv
<1>10. TaskInv' /\ TailInv'
  BY <1>1, <1>2, Zenon DEF TaskInv, TailInv, Fresh, Current
<1>11. CallInv'
  <2>1. calls \in Nat /\ calls' \in Nat /\ calls <= calls'
    BY <1>1 DEF TypeOK, CallGoesOn
  <2>2. \A d \in Clients : CallOK(call'[d], calls', config.jwt_secret)
    BY <1>1, <1>3, <2>1, CallOKLater, Zenon DEF CallInv, CallGoesOn
  <2>3. QED
    BY <1>2, <2>2, Zenon DEF CallInv, config
<1>12. IdsInv'
  BY <1>1, <1>3, <1>5, ZenonT(30) DEF IdsInv
<1>13. QueueInv'
  <2>1. ASSUME NEW i \in 1..Len(queue)
        PROVE  queue[i].id \in 1..calls'
    <3>1. queue[i].id \in 1..calls /\ calls \in Nat
      BY <1>1, InQueue, Zenon DEF TypeOK
    <3>2. QED
      BY <3>1 DEF CallGoesOn
  <2>2. ASSUME NEW i \in 1..Len(queue), NEW d \in Clients, call'[d].id = queue[i].id
        PROVE  /\ d = queue[i].client
               /\ call'[d].state = "queued" /\ call'[d].req = queue[i].req
    <3>1. queue[i].id \in 1..calls /\ calls \in Nat
      BY <1>1, InQueue, Zenon DEF TypeOK
    <3>4. queue[i].id # 0
      BY <3>1
    <3>2. d # c
      BY <1>3, <1>6, <2>2, <3>4, Zenon
    <3>3. call'[d] = call[d]
      BY <1>3, <3>2, Zenon
    <3>5. QED
      BY <1>1, <2>2, <3>3, OfQueue, Zenon
  <2>3. ASSUME NEW d \in Clients, call'[d].state = "queued"
        PROVE  \E i \in 1..Len(queue) : queue[i].id = call'[d].id
    <3>1. d # c
      BY <1>3, <2>3, Zenon DEF CallGoesOn
    <3>2. QED
      BY <1>1, <1>3, <2>3, <3>1, QueuedIs, Zenon
  <2>4. \A i \in 1..Len(queue) :
          queue[i].req.rpc = "append" /\ append_valid(queue[i].req)
    BY <1>1, InQueue, Zenon
  <2>5. \A i, j \in 1..Len(queue) : queue[i].id = queue[j].id => i = j
    BY <1>1, Zenon DEF QueueInv
  <2>6. QED
    BY <1>2, <2>1, <2>2, <2>3, <2>4, <2>5, QueueNext
<1>14. LogInv'
  <2>1. ASSUME NEW k \in 1..Len(log.events)
        PROVE  log.events[k].event_id.call \in 0..calls'
    <3>1. log.events[k].event_id.call \in 0..calls /\ calls \in Nat
      BY <1>1, Zenon DEF LogInv, TypeOK
    <3>2. QED
      BY <3>1 DEF CallGoesOn
  <2>2. QED
    BY <1>1, <1>2, <2>1, Zenon DEF LogInv
<1>15. WrittenInv'
  <2>1. ASSUME NEW d \in Clients, call'[d].id # 0, Mine(log, call'[d].id) # {}
        PROVE  call'[d].state = "queued" \/ Succeeded(call'[d])
    <3>1. d # c
      BY <1>3, <1>4, <2>1, Zenon
    <3>2. QED
      BY <1>1, <1>3, <2>1, <3>1, Zenon DEF WrittenInv
  <2>2. QED
    BY <1>1, <1>2, <2>1, Zenon DEF WrittenInv
<1>16. AppendAnswers'
  <2>1. ASSUME NEW d \in Answers("append")'
        PROVE  AnswerExact(log, call'[d])
    <3>1. d \in Clients /\ call'[d].state = "answered" /\ call'[d].req.rpc = "append"
      BY <2>1, Zenon DEF Answers
    <3>2. CASE d = c
      <4>1. x.state = "answered" /\ x.req.rpc = "append" /\ x.resp.status # "OK"
        BY <1>3, <3>1, <3>2, Zenon DEF CallGoesOn, Succeeded
      <4>2. x.id # 0
        BY <4>1, Zenon DEF CallGoesOn, CallOK
      <4>3. QED
        BY <1>3, <1>4, <3>2, <4>1, <4>2, Zenon DEF AnswerExact
    <3>3. CASE d # c
      BY <1>1, <1>3, <3>1, <3>3, Zenon DEF AppendAnswers, Answers
    <3>4. QED
      BY <3>2, <3>3, Zenon
  <2>2. QED
    BY <1>2, <2>1, Zenon DEF AppendAnswers
<1>17. MetricsInv'
  <2>1. \A d \in Clients : Succeeded(call'[d]) => call'[d] = call[d]
    BY <1>3, Zenon DEF CallGoesOn
  <2>2. MetricsKept
    BY Zenon DEF CallGoesOn
  <2>3. QED
    BY <1>1, <1>2, <2>1, <2>2, Zenon DEF MetricsInv, MetricsKept, Uncounted, Fresh, Current
<1>18. QED
  BY <1>7, <1>8, <1>9, <1>10, <1>11, <1>12, <1>13, <1>14, <1>15, <1>16, <1>17,
     Zenon DEF ServerInv

(* The gauge follows the streams that run.                                 *)
LEMMA GaugeSame ==
  ASSUME GaugeInv, NEW c \in Clients, NEW x, Becomes(c, x),
         call[c].state # "streaming", x.state # "streaming",
         metrics'.subscriptions = metrics.subscriptions
  PROVE  GaugeInv'
<1>1. \A d \in Clients : call'[d].state = "streaming" <=> call[d].state = "streaming"
  BY Zenon DEF Becomes
<1>2. {d \in Clients : call'[d].state = "streaming"} =
        {d \in Clients : call[d].state = "streaming"}
  BY <1>1, Zenon
<1>3. QED
  BY <1>2, Zenon DEF GaugeInv

LEMMA GaugeUp ==
  ASSUME Counting, GaugeInv, NEW c \in Clients, NEW x, Becomes(c, x),
         call[c].state # "streaming", x.state = "streaming",
         metrics'.subscriptions = metrics.subscriptions + 1
  PROVE  GaugeInv'
<1> DEFINE after == {d \in Clients : call'[d].state = "streaming"}
<1>1. after = Streaming \cup {c} /\ c \notin Streaming
  BY Zenon DEF Becomes, Streaming
<1>2. Streaming \in SUBSET Clients /\ metrics.subscriptions = Cardinality(Streaming)
  BY GaugeType, Zenon DEF GaugeInv, Streaming
<1>3. Cardinality(Streaming \cup {c}) = Cardinality(Streaming) + 1
  BY <1>1, <1>2, Zenon DEF Counting
<1>4. QED
  BY <1>1, <1>2, <1>3, Zenon DEF GaugeInv

LEMMA GaugeDown ==
  ASSUME Counting, GaugeInv, NEW c \in Clients, NEW x, Becomes(c, x),
         call[c].state = "streaming", x.state # "streaming",
         metrics'.subscriptions = metrics.subscriptions + (-1)
  PROVE  GaugeInv'
<1> DEFINE after == {d \in Clients : call'[d].state = "streaming"}
<1>1. after = Streaming \ {c} /\ c \in Streaming
  BY Zenon DEF Becomes, Streaming
<1>2. /\ Streaming \in SUBSET Clients
      /\ metrics.subscriptions = Cardinality(Streaming)
      /\ metrics.subscriptions \in Nat
  BY GaugeType, Zenon DEF GaugeInv, Streaming
<1>3. Cardinality(Streaming \ {c}) = Cardinality(Streaming) - 1
  BY <1>1, <1>2, Zenon DEF Counting
<1>4. metrics'.subscriptions = Cardinality(Streaming) - 1
  BY <1>2
<1>5. QED
  BY <1>1, <1>3, <1>4, Zenon DEF GaugeInv

LEMMA IdleOK ==
  ASSUME NEW n \in Nat, NEW secret
  PROVE  CallOK(Idle, n, secret) /\ ~Succeeded(Idle)
BY IdleIs DEF CallOK, Succeeded, Undecided

(* A handler ends with an answer.                                          *)
EndsWith(c, resp) ==
  /\ call[c].state \in {"arrived", "streaming"}
  /\ call' = [call EXCEPT ![c] = Answered(c, resp)]
  /\ UNCHANGED <<phase, env, health, writer, queue, log, calls, base>>
  /\ MetricsKept
  /\ call[c].state = "streaming" =>
       metrics'.subscriptions = metrics.subscriptions + (-1)
  /\ call[c].state # "streaming" =>
       metrics'.subscriptions = metrics.subscriptions
  /\ \/ resp.status = "UNAUTHENTICATED"
     \/ Admits(config.jwt_secret, call[c].req)
  /\ call[c].req.rpc = "append" => resp.status # "OK"
  /\ call[c].req.rpc = "check" /\ resp = Response("NotServing") =>
       phase \in Fallen(call[c].req.service) \cup {"exited"}

LEMMA AnswerStep ==
  ASSUME Counting, ServerInv, NEW c \in Clients, NEW resp, EndsWith(c, resp)
  PROVE  ServerInv'
<1> DEFINE x == Answered(c, resp)
<1>1. InFlight(c)
  BY DEF InFlight, EndsWith
<1>2. /\ x.state = "answered" /\ x.resp = resp /\ x.req = call[c].req
      /\ x.id = call[c].id /\ DOMAIN x = DOMAIN Idle
  BY <1>1, AnsweredIs, Zenon
<1>3. /\ phase \notin Starting /\ call[c].id # 0
      /\ CallOK(call[c], calls, config.jwt_secret) /\ call[c].state # "idle"
  BY <1>1, CallFacts, Zenon DEF InFlight
<1> HIDE DEF x
<1>4. Becomes(c, x) /\ ~Succeeded(x)
  BY <1>2, BecomesIs, Zenon DEF Succeeded, EndsWith, x
<1>5. CallOK(x, calls, config.jwt_secret)
  <2>1. /\ x.state \in Undecided \cup {"idle", "answered"} /\ x.state # "idle"
        /\ x.state \notin Undecided /\ x.state \notin {"queued", "created", "streaming"}
        /\ x.state # "queued" /\ x.state \notin {"created", "streaming"}
    BY <1>2 DEF Undecided
  <2>2. x.id \in 0..calls /\ x.req \in Requests /\ x.id # 0
    BY <1>2, <1>3, Zenon DEF CallOK
  <2>3. QED
    BY <1>2, <1>4, <2>1, <2>2, Zenon DEF CallOK, EndsWith
<1>6. GaugeInv'
  <2>1. GaugeInv /\ metrics.subscriptions \in Nat /\ x.state # "streaming"
    BY <1>2, Zenon DEF ServerInv, TypeOK
  <2>2. CASE call[c].state = "streaming"
    BY <1>4, <2>1, <2>2, GaugeDown, Zenon DEF EndsWith
  <2>3. CASE call[c].state # "streaming"
    BY <1>4, <2>1, <2>3, GaugeSame, Zenon DEF EndsWith
  <2>4. QED
    BY <2>2, <2>3, Zenon
<1>7. /\ x.state \in {"idle", "answered"} /\ x.state # "queued"
      /\ call[c].state \in {"arrived", "created", "streaming"}
  BY <1>2 DEF EndsWith
<1>8. CallGoesOn(c, x)
  BY <1>2, <1>3, <1>4, <1>5, <1>7, Zenon DEF CallGoesOn, EndsWith
<1>9. QED
  BY <1>6, <1>8, CallStep, Zenon

LEMMA TelemetryKept ==
  ASSUME ServerInv, telemetry' = telemetry
  PROVE  MetricsKept /\ metrics'.subscriptions = metrics.subscriptions
BY Zenon DEF MetricsKept, telemetry

(* Handlers that leave the metrics alone.                                  *)
LEMMA PlainAnswer ==
  ASSUME Counting, ServerInv, NEW c \in Clients, NEW resp, call[c].state = "arrived",
         call' = [call EXCEPT ![c] = Answered(c, resp)],
         UNCHANGED <<process, env, health, wiring, log, calls, telemetry, base>>,
         resp.status = "UNAUTHENTICATED" \/ Admitted(call[c].req),
         call[c].req.rpc = "append" => resp.status # "OK",
         /\ call[c].req.rpc = "check" /\ resp = Response("NotServing")
         => phase \in Fallen(call[c].req.service) \cup {"exited"}
  PROVE  ServerInv'
<1>1. UNCHANGED <<phase, env, health, writer, queue, log, calls, base>>
  BY Zenon DEF process, wiring
<1>2. resp.status = "UNAUTHENTICATED" \/ Admits(config.jwt_secret, call[c].req)
  BY Zenon DEF Admitted, Admits
<1>3. call[c].state \in {"arrived", "streaming"} /\ call[c].state # "streaming"
  OBVIOUS
<1>4. EndsWith(c, resp)
  BY <1>1, <1>2, <1>3, TelemetryKept, Zenon DEF EndsWith
<1>5. QED
  BY <1>4, AnswerStep, Zenon

LEMMA DenyStep ==
  ASSUME Counting, ServerInv, NEW c \in Clients, Deny(c)
  PROVE  ServerInv'
<1> DEFINE resp == Status("UNAUTHENTICATED")
<1>1. resp.status = "UNAUTHENTICATED" /\ resp.status # "OK" /\ resp # Response("NotServing")
  BY ResponseIs
<1> HIDE DEF resp
<1>2. /\ call[c].state = "arrived" /\ call' = [call EXCEPT ![c] = Answered(c, resp)]
      /\ UNCHANGED <<process, env, health, wiring, log, calls, telemetry, base>>
  BY Zenon DEF Deny, resp
<1>3. QED
  BY <1>1, <1>2, PlainAnswer, Zenon

LEMMA CheckStep ==
  ASSUME Counting, ServerInv, NEW c \in Clients, Check(c)
  PROVE  ServerInv'
<1> DEFINE name == call[c].req.service
           resp == ServingStatus(name)
<1>1. resp = Response("NotServing") => name \in Names /\ health[name] = "NotServing"
  <2>1. Status("NOT_FOUND") # Response("NotServing")
    BY ResponseIs
  <2>2. QED
    BY <2>1, ResponseIs, Zenon DEF ServingStatus
<1>2. name \in Names /\ health[name] = "NotServing" =>
        phase \in Fallen(name) \cup {"exited"}
  BY Zenon DEF ServerInv, HealthInv
<1>3. call[c].req.rpc = "check" /\ Admitted(call[c].req) /\ call[c].state = "arrived"
  BY Zenon DEF Check, Handling
<1>4. call[c].req.rpc # "append"
  BY <1>3
<1>5. UNCHANGED <<process, env, health, wiring, log, calls, telemetry, base>>
  BY Zenon DEF Check
<1> HIDE DEF resp
<1>6. call' = [call EXCEPT ![c] = Answered(c, resp)]
  BY Zenon DEF Check, resp
<1>7. QED
  BY <1>1, <1>2, <1>3, <1>4, <1>5, <1>6, PlainAnswer, Zenon

LEMMA listStep ==
  ASSUME Counting, ServerInv, NEW c \in Clients, list(c)
  PROVE  ServerInv'
<1>1. /\ call[c].req.rpc = "list_streams" /\ Admitted(call[c].req)
      /\ call[c].state = "arrived"
  BY Zenon DEF list, Handling
<1>2. call[c].req.rpc # "append" /\ call[c].req.rpc # "check"
  BY <1>1
<1>3. PICK resp : call' = [call EXCEPT ![c] = Answered(c, resp)]
  BY Zenon DEF list
<1>4. UNCHANGED <<process, env, health, wiring, log, calls, telemetry, base>>
  BY Zenon DEF list
<1>5. QED
  BY <1>1, <1>2, <1>3, <1>4, PlainAnswer, Zenon

LEMMA ReadsStep ==
  ASSUME Counting, ServerInv, NEW c \in Clients, NEW resp, Reads(c, resp),
         Handling(c, {"read_all", "read_stream"})
  PROVE  ServerInv'
<1>1. /\ call[c].req.rpc \in {"read_all", "read_stream"} /\ Admitted(call[c].req)
      /\ call[c].state = "arrived"
  BY Zenon DEF Handling
<1>2. call[c].req.rpc # "append" /\ call[c].req.rpc # "check"
  BY <1>1
<1>3. PICK r : call' = [call EXCEPT ![c] = Answered(c, r)]
  BY Zenon DEF Reads
<1>4. UNCHANGED <<phase, env, health, writer, queue, log, calls, base>>
  BY Zenon DEF Reads, process, wiring
<1>5. DOMAIN metrics = DOMAIN NoMetrics /\ metrics.subscriptions \in Nat
  BY Zenon DEF ServerInv, TypeOK
<1>6. MetricsKept /\ metrics'.subscriptions = metrics.subscriptions
  BY <1>5 DEF Reads, MetricsKept, NoMetrics
<1>7. call[c].state \in {"arrived", "streaming"} /\ call[c].state # "streaming"
  BY <1>1
<1>8. Admits(config.jwt_secret, call[c].req)
  BY <1>1, Zenon DEF Admitted, Admits
<1>9. EndsWith(c, r)
  BY <1>2, <1>3, <1>4, <1>6, <1>7, <1>8, Zenon DEF EndsWith
<1>10. QED
  BY <1>9, AnswerStep, Zenon

LEMMA readStep ==
  ASSUME Counting, ServerInv, NEW c \in Clients, read(c)
  PROVE  ServerInv'
<1>1. PICK resp : Reads(c, resp) /\ (Handling(c, {"read_all"}) \/ Handling(c, {"read_stream"}))
  BY Zenon DEF read
<1>2. Handling(c, {"read_all", "read_stream"})
  BY <1>1, Zenon DEF Handling
<1>3. QED
  BY <1>1, <1>2, ReadsStep, Zenon

(* The metrics after Count.                                                *)
LEMMA CountIs ==
  ASSUME ServerInv, metrics.installed, NEW n \in Int, Count(n)
  PROVE  MetricsKept /\ metrics'.subscriptions = metrics.subscriptions + n
<1>1. DOMAIN metrics = DOMAIN NoMetrics
  BY Zenon DEF ServerInv, TypeOK
<1>2. QED
  BY <1>1 DEF Count, MetricsKept, NoMetrics

LEMMA LagStep ==
  ASSUME Counting, ServerInv, NEW c \in Clients, Lag(c)
  PROVE  ServerInv'
<1>1. call[c].state = "streaming" /\ call[c].state \in {"arrived", "streaming"}
  BY Zenon DEF Lag
<1>2. InFlight(c)
  BY <1>1 DEF InFlight
<1>3. CallOK(call[c], calls, config.jwt_secret) /\ metrics.installed
  BY <1>2, CallFacts, Zenon
<1>4. /\ call[c].req.rpc = "subscribe" /\ Admits(config.jwt_secret, call[c].req)
  BY <1>1, <1>3, Zenon DEF CallOK
<1>5. call[c].req.rpc # "append" /\ call[c].req.rpc # "check"
  BY <1>4
<1>6. Count(-1) /\ -1 \in Int
  BY DEF Lag
<1>7. MetricsKept /\ metrics'.subscriptions = metrics.subscriptions + (-1)
  BY <1>3, <1>6, CountIs, Zenon
<1>8. UNCHANGED <<phase, env, health, writer, queue, log, calls, base>>
  BY Zenon DEF Lag, process, wiring
<1>9. PICK resp : call' = [call EXCEPT ![c] = Answered(c, resp)]
  BY Zenon DEF Lag
<1>10. EndsWith(c, resp)
  BY <1>1, <1>4, <1>5, <1>7, <1>8, <1>9, Zenon DEF EndsWith
<1>11. QED
  BY <1>10, AnswerStep, Zenon

LEMMA DisconnectStep ==
  ASSUME Counting, ServerInv, NEW c \in Clients, Disconnect(c)
  PROVE  ServerInv'
<1>1. InFlight(c) /\ Becomes(c, Idle) /\ Count(Dropped(c))
  BY BecomesIs, Zenon DEF Disconnect
<1>2. phase \notin Starting /\ metrics.installed
  BY <1>1, CallFacts, Zenon
<1>3. UNCHANGED <<phase, env, health, writer, queue, log, calls, base>>
  BY Zenon DEF Disconnect, process, wiring
<1>4. GaugeInv /\ metrics.subscriptions \in Nat /\ calls \in Nat
  BY Zenon DEF ServerInv, TypeOK
<1>5. /\ Dropped(c) \in Int
      /\ call[c].state = "streaming" => Dropped(c) = -1
      /\ call[c].state # "streaming" => Dropped(c) = 0
  BY DEF Dropped
<1>6. MetricsKept /\ metrics'.subscriptions = metrics.subscriptions + Dropped(c)
  BY <1>1, <1>2, <1>5, CountIs, Zenon
<1>7. /\ Idle.state \in {"idle", "answered"} /\ Idle.state # "queued" /\ Idle.id = 0
      /\ Idle.state # "streaming" /\ Idle.state # "answered"
  BY IdleIs
<1>8. GaugeInv'
  <2>1. CASE call[c].state = "streaming"
    BY <1>1, <1>4, <1>5, <1>6, <1>7, <2>1, GaugeDown, Zenon
  <2>2. CASE call[c].state # "streaming"
    <3>1. metrics'.subscriptions = metrics.subscriptions
      BY <1>4, <1>5, <1>6, <2>2
    <3>2. QED
      BY <1>1, <1>4, <1>7, <2>2, <3>1, GaugeSame, Zenon
  <2>3. QED
    BY <2>1, <2>2, Zenon
<1>9. CallGoesOn(c, Idle)
  BY <1>1, <1>2, <1>3, <1>4, <1>6, <1>7, IdleOK, Zenon DEF CallGoesOn
<1>10. QED
  BY <1>8, <1>9, CallStep, Zenon

(* The stream of a subscription is created, and then polled.               *)
LEMMA StreamIs ==
  ASSUME ServerInv, NEW c \in Clients, InFlight(c),
         Admits(config.jwt_secret, call[c].req), call[c].req.rpc = "subscribe",
         NEW state \in {"created", "streaming"}, NEW x,
         x = [call[c] EXCEPT !.state = state]
  PROVE  /\ CallOK(x, calls, config.jwt_secret) /\ x.id = call[c].id
         /\ x.state = state /\ ~Succeeded(x)
<1>1. CallOK(call[c], calls, config.jwt_secret) /\ call[c].state # "idle"
      /\ call[c].resp = Status("none")
  BY CallFacts, Zenon DEF InFlight
<1>2. DOMAIN call[c] = {"state", "req", "resp", "id", "at"}
  BY <1>1 DEF CallOK, Idle
<1>3. /\ x.state = state /\ x.req = call[c].req /\ x.id = call[c].id
      /\ x.resp = call[c].resp /\ DOMAIN x = DOMAIN call[c]
  BY <1>2
<1>4. /\ x.state \in Undecided \cup {"idle", "answered"} /\ x.state # "idle"
      /\ x.state # "answered" /\ x.state # "queued"
  BY <1>3 DEF Undecided
<1>5. x.id \in 0..calls /\ x.req \in Requests /\ x.id # 0 /\ DOMAIN x = DOMAIN Idle
  BY <1>1, <1>3, Zenon DEF CallOK
<1>6. QED
  BY <1>1, <1>3, <1>4, <1>5, Zenon DEF CallOK, Succeeded

LEMMA subscribeStep ==
  ASSUME Counting, ServerInv, NEW c \in Clients, subscribe(c)
  PROVE  ServerInv'
<1>1. /\ call[c].req.rpc = "subscribe" /\ Admitted(call[c].req)
      /\ call[c].state = "arrived"
      /\ UNCHANGED <<process, env, health, wiring, log, calls, telemetry, base>>
  BY Zenon DEF subscribe, Handling
<1>2. /\ call[c].req.rpc # "append" /\ call[c].req.rpc # "check"
      /\ call[c].state # "streaming" /\ InFlight(c)
  BY <1>1 DEF InFlight
<1>3. CASE parse_uuid(call[c].req.stream_id) = Invalid
  <2>1. PICK resp : call' = [call EXCEPT ![c] = Answered(c, resp)]
    BY <1>3, Zenon DEF subscribe
  <2>2. QED
    BY <1>1, <1>2, <2>1, PlainAnswer, Zenon
<1>4. CASE parse_uuid(call[c].req.stream_id) # Invalid
  <2>1. PICK x : x = [call[c] EXCEPT !.state = "created"]
    BY Zenon
  <2>2. DOMAIN call = Clients
    BY Zenon DEF ServerInv, TypeOK
  <2>3. call' = [call EXCEPT ![c] = x]
    BY <1>4, <2>1, <2>2 DEF subscribe
  <2>4. Becomes(c, x)
    BY <2>3, BecomesIs, Zenon
  <2>5. Admits(config.jwt_secret, call[c].req)
    BY <1>1, Zenon DEF Admitted, Admits
  <2>6. /\ CallOK(x, calls, config.jwt_secret) /\ x.id = call[c].id
        /\ x.state = "created" /\ ~Succeeded(x)
    BY <1>1, <1>2, <2>1, <2>5, StreamIs, Zenon
  <2>7. /\ x.state # "streaming" /\ x.state # "queued" /\ x.state # "answered"
        /\ call[c].state \in {"arrived", "created", "streaming"}
    BY <1>1, <2>6
  <2>8. MetricsKept /\ metrics'.subscriptions = metrics.subscriptions
    BY <1>1, TelemetryKept, Zenon
  <2>9. GaugeInv'
    BY <1>2, <2>4, <2>7, <2>8, GaugeSame, Zenon DEF ServerInv
  <2>10. CallGoesOn(c, x)
    <3>1. UNCHANGED <<phase, env, health, writer, queue, log, calls, base>>
      BY <1>1, Zenon DEF process, wiring
    <3>2. phase \notin Starting /\ phase \in Accepting \cup {"draining"}
      BY <1>2, CallFacts, Zenon
    <3>3. QED
      BY <2>4, <2>6, <2>7, <2>8, <3>1, <3>2, Zenon DEF CallGoesOn
  <2>11. QED
    BY <2>9, <2>10, CallStep, Zenon
<1>5. QED
  BY <1>3, <1>4, Zenon

LEMMA FirstPollStep ==
  ASSUME Counting, ServerInv, NEW c \in Clients, FirstPoll(c)
  PROVE  ServerInv'
<1>1. call[c].state = "created" /\ Count(1) /\ 1 \in Int
      /\ UNCHANGED <<phase, env, health, writer, queue, log, calls, base>>
  BY DEF FirstPoll, process, wiring
<1>2. call[c].state # "streaming" /\ InFlight(c)
  BY <1>1 DEF InFlight
<1>3. /\ CallOK(call[c], calls, config.jwt_secret) /\ metrics.installed
      /\ phase \notin Starting /\ phase \in Accepting \cup {"draining"}
  BY <1>2, CallFacts, Zenon
<1>4. call[c].req.rpc = "subscribe" /\ Admits(config.jwt_secret, call[c].req)
  BY <1>1, <1>3, Zenon DEF CallOK
<1>5. PICK x : x = [call[c] EXCEPT !.state = "streaming"]
  BY Zenon
<1>6. call' = [call EXCEPT ![c] = x]
  <2>1. DOMAIN call = Clients
    BY Zenon DEF ServerInv, TypeOK
  <2>2. QED
    BY <1>5, <2>1 DEF FirstPoll
<1>7. Becomes(c, x)
  BY <1>6, BecomesIs, Zenon
<1>8. /\ CallOK(x, calls, config.jwt_secret) /\ x.id = call[c].id
      /\ x.state = "streaming" /\ ~Succeeded(x)
  BY <1>2, <1>4, <1>5, StreamIs, Zenon
<1>9. /\ x.state # "queued" /\ x.state # "answered"
      /\ call[c].state \in {"arrived", "created", "streaming"}
  BY <1>1, <1>8
<1>10. MetricsKept /\ metrics'.subscriptions = metrics.subscriptions + 1
  BY <1>1, <1>3, CountIs, Zenon
<1>11. GaugeInv'
  BY <1>2, <1>7, <1>8, <1>10, GaugeUp, Zenon DEF ServerInv
<1>12. CallGoesOn(c, x)
  BY <1>1, <1>3, <1>7, <1>8, <1>9, <1>10, Zenon DEF CallGoesOn
<1>13. QED
  BY <1>11, <1>12, CallStep, Zenon

LEMMA ArriveStep ==
  ASSUME Counting, ServerInv, NEW c \in Clients, NEW r \in Requests, Arrive(c, r)
  PROVE  ServerInv'
<1>1. PICK x : x = [state |-> "arrived", req |-> r, resp |-> Status("none"),
                    id |-> calls + 1, at |-> 0]
  BY Zenon
<1>2. /\ call' = [call EXCEPT ![c] = x] /\ calls' = calls + 1 /\ phase \in Accepting
      /\ ~InFlight(c)
      /\ UNCHANGED <<process, env, health, wiring, log, telemetry, base>>
  BY <1>1, Zenon DEF Arrive
<1>3. Becomes(c, x)
  BY <1>2, BecomesIs, Zenon
<1>4. calls \in Nat
  BY Zenon DEF ServerInv, TypeOK
<1>5. /\ x.state = "arrived" /\ x.req = r /\ x.resp = Status("none")
      /\ x.id = calls + 1 /\ DOMAIN x = DOMAIN Idle
  BY <1>1 DEF Idle
<1>6. /\ x.id \in 0..calls' /\ x.id # 0
      /\ x.state \in Undecided \cup {"idle", "answered"} /\ x.state # "idle"
      /\ x.state # "answered" /\ x.state # "queued" /\ x.state # "streaming"
      /\ x.state \notin {"queued", "created", "streaming"}
      /\ x.state \notin {"created", "streaming"}
  BY <1>2, <1>4, <1>5 DEF Undecided
<1>7. CallOK(x, calls', config.jwt_secret) /\ ~Succeeded(x)
  BY <1>5, <1>6, Zenon DEF CallOK, Succeeded
<1>8. phase \notin Starting /\ phase \in Accepting \cup {"draining"}
  BY <1>2 DEF Accepting, Starting
<1>9. call[c].state # "streaming"
  BY <1>2 DEF InFlight
<1>10. MetricsKept /\ metrics'.subscriptions = metrics.subscriptions
  BY <1>2, TelemetryKept, Zenon
<1>11. GaugeInv'
  BY <1>3, <1>6, <1>9, <1>10, GaugeSame, Zenon DEF ServerInv
<1>12. CallGoesOn(c, x)
  <2>1. UNCHANGED <<phase, env, health, writer, queue, log, base>>
    BY <1>2, Zenon DEF process, wiring
  <2>2. QED
    BY <1>2, <1>3, <1>5, <1>6, <1>7, <1>8, <1>10, <2>1, Zenon DEF CallGoesOn
<1>13. QED
  BY <1>11, <1>12, CallStep, Zenon

-----------------------------------------------------------------------------
(* A valid append goes to the end of the channel.                          *)

LEMMA EnqueueStep ==
  ASSUME ServerInv, NEW c \in Clients, call[c].state = "arrived",
         call[c].req.rpc = "append", Admitted(call[c].req),
         append_valid(call[c].req), writer \in Alive,
         queue' = Append(queue, [client |-> c, id |-> call[c].id, req |-> call[c].req]),
         call' = [call EXCEPT ![c].state = "queued"],
         UNCHANGED <<process, env, health, writer, handle, log, calls, telemetry, base>>
  PROVE  ServerInv'
<1> DEFINE m == [client |-> c, id |-> call[c].id, req |-> call[c].req]
           n == Len(queue)
<1>1. /\ TypeOK /\ PhaseInv /\ HealthInv /\ TaskInv /\ CallInv /\ IdsInv /\ QueueInv
      /\ LogInv /\ WrittenInv /\ TailInv /\ AppendAnswers /\ MetricsInv /\ GaugeInv
  BY Zenon DEF ServerInv
<1>2. /\ env' = env /\ log' = log /\ base' = base /\ writer' = writer
      /\ health' = health /\ phase' = phase /\ calls' = calls /\ metrics' = metrics
      /\ config' = config
  BY Zenon DEF process, telemetry, config
<1>3. InFlight(c) /\ call[c].state # "queued" /\ ~Succeeded(call[c])
  BY DEF InFlight, Succeeded
<1>4. /\ CallOK(call[c], calls, config.jwt_secret) /\ call[c].id # 0
      /\ call[c].resp = Status("none") /\ DOMAIN call = Clients
      /\ phase \in Accepting \cup {"draining"} /\ phase \notin Starting
  BY <1>3, CallFacts, Zenon
<1>5. Mine(log, call[c].id) = {}
  BY <1>3, <1>4, NothingWritten, Zenon
<1>6. call[c].id \in 0..calls /\ calls \in Nat /\ call[c].req \in Requests
  <2>1. call[c].state # "idle"
    OBVIOUS
  <2>2. QED
    BY <1>1, <1>4, <2>1, Zenon DEF CallOK, TypeOK
<1>7. /\ m \in Message /\ m.client = c /\ m.id = call[c].id /\ m.req = call[c].req
      /\ m.id \in 1..calls
  BY <1>4, <1>6 DEF Message
<1>8. queue \in Seq(Message) /\ n \in Nat
  BY <1>1, SeqIn DEF TypeOK, Message
<1>9. /\ queue' \in Seq(Message) /\ Len(queue') = n + 1
      /\ \A i \in 1..n : queue'[i] = queue[i]
      /\ queue'[n + 1] = m
  <2>1. PICK q : q = Append(queue, m)
    BY Zenon
  <2>2. /\ q \in Seq(Message) /\ Len(q) = n + 1
        /\ \A i \in 1..n : q[i] = queue[i]
        /\ q[n + 1] = m
    BY <1>7, <1>8, <2>1, AppendElements
  <2>3. QED
    BY <2>1, <2>2, Zenon
<1> HIDE DEF m, n
<1>10. \A i \in 1..Len(queue') : (i \in 1..n /\ queue'[i] = queue[i]) \/ (i = n + 1 /\ queue'[i] = m)
  <2>1. \A i \in 1..(n + 1) : i \in 1..n \/ i = n + 1
    BY <1>8
  <2>2. QED
    BY <1>9, <2>1, Zenon
<1>11. PICK x : x = [call[c] EXCEPT !.state = "queued"]
  BY Zenon
<1>12. Becomes(c, x)
  <2>1. call' = [call EXCEPT ![c] = x]
    BY <1>4, <1>11
  <2>2. QED
    BY <2>1, BecomesIs, Zenon
<1>13. /\ x.state = "queued" /\ x.req = call[c].req /\ x.id = call[c].id
       /\ x.resp = call[c].resp /\ DOMAIN x = DOMAIN Idle
  <2>1. DOMAIN call[c] = {"state", "req", "resp", "id", "at"} /\ DOMAIN call[c] = DOMAIN Idle
    BY <1>4 DEF CallOK, Idle
  <2>2. QED
    BY <1>11, <2>1
<1>14. /\ call'[c] = x /\ DOMAIN call' = Clients
       /\ \A d \in Clients : d # c => call'[d] = call[d]
  BY <1>12, Zenon DEF Becomes
<1>15. \A d \in Clients : call'[d].id = call[d].id /\ call'[d].req = call[d].req
  BY <1>13, <1>14, Zenon
<1>16. TypeOK'
  BY <1>1, <1>2, <1>9, <1>14, Zenon DEF TypeOK, Message
<1>17. PhaseInv'
  <2>1. \A d \in Clients : InFlight(d)' => phase \in Accepting \cup {"draining"}
    BY <1>4, Zenon
  <2>2. QED
    BY <1>1, <1>2, <1>4, <2>1, Zenon DEF PhaseInv
<1>18. HealthInv'
  <2>1. \A d \in Clients : call'[d].state = "answered" => call'[d] = call[d]
    <3>1. x.state # "answered"
      BY <1>13
    <3>2. QED
      BY <1>14, <3>1, Zenon
  <2>2. ASSUME NEW d \in Answers("check")', call'[d].resp = Response("NotServing")
        PROVE  phase \in Fallen(call'[d].req.service) \cup {"exited"}
    <3>1. /\ d \in Answers("check") /\ call[d].resp = Response("NotServing")
          /\ call'[d] = call[d]
      BY <2>1, <2>2, Zenon DEF Answers
    <3>2. QED
      BY <1>1, <3>1, Zenon DEF HealthInv
  <2>3. QED
    BY <1>1, <1>2, <2>2, Zenon DEF HealthInv
<1>19. TaskInv'
  <2>1. queue' # <<>>
    BY <1>8, <1>9
  <2>2. QED
    BY <1>1, <1>2, <2>1, Zenon DEF TaskInv
<1>20. CallInv'
  <2>1. CallOK(x, calls, config.jwt_secret)
    <3>1. /\ x.state \in Undecided \cup {"idle", "answered"} /\ x.state # "idle"
          /\ x.state # "answered" /\ x.state \notin {"created", "streaming"}
      BY <1>13 DEF Undecided
    <3>2. Admits(config.jwt_secret, x.req)
      BY <1>13, Zenon DEF Admitted, Admits
    <3>3. QED
      BY <1>4, <1>6, <1>13, <3>1, <3>2, Zenon DEF CallOK, Succeeded
  <2>2. QED
    BY <1>1, <1>2, <1>14, <2>1, Zenon DEF CallInv
<1>21. IdsInv'
  <2>1. ASSUME NEW d \in Clients, NEW e \in Clients, call'[d].id = call'[e].id,
               call'[d].id # 0
        PROVE  d = e
    <3>1. call[d].id = call[e].id /\ call[d].id # 0
      BY <1>15, <2>1, Zenon
    <3>2. QED
      BY <1>1, <3>1, Zenon DEF IdsInv
  <2>2. QED
    BY <2>1, Zenon DEF IdsInv
<1>22. \A i \in 1..n : queue[i].id # m.id
  BY <1>1, <1>3, <1>7, OfQueue, Zenon DEF n
<1>23. QueueInv'
  <2>1. \A i \in 1..Len(queue') : queue'[i].id \in 1..calls'
    BY <1>1, <1>2, <1>7, <1>10, InQueue, Zenon DEF n
  <2>2. \A i \in 1..Len(queue') :
          queue'[i].req.rpc = "append" /\ append_valid(queue'[i].req)
    <3>1. m.req.rpc = "append" /\ append_valid(m.req)
      BY <1>7, Zenon
    <3>2. QED
      BY <1>1, <1>10, <3>1, InQueue, Zenon DEF n
  <2>3. ASSUME NEW i \in 1..Len(queue'), NEW d \in Clients,
               call'[d].id = queue'[i].id
        PROVE  /\ d = queue'[i].client
               /\ call'[d].state = "queued" /\ call'[d].req = queue'[i].req
    <3>1. CASE i \in 1..n /\ queue'[i] = queue[i]
      <4>1. call[d].id = queue[i].id
        BY <1>15, <2>3, <3>1, Zenon
      <4>2. /\ d = queue[i].client
            /\ call[d].state = "queued" /\ call[d].req = queue[i].req
        BY <1>1, <3>1, <4>1, OfQueue, Zenon DEF n
      <4>3. d # c
        BY <1>3, <4>2, Zenon
      <4>4. QED
        BY <1>14, <3>1, <4>2, <4>3, Zenon
    <3>2. CASE i = n + 1 /\ queue'[i] = m
      <4>1. d = c
        <5>1. call[d].id = call[c].id
          BY <1>7, <1>15, <2>3, <3>2, Zenon
        <5>2. IdsInv
          BY <1>1, Zenon
        <5>3. QED
          BY <1>4, <5>1, <5>2, Zenon DEF IdsInv
      <4>2. QED
        BY <1>7, <1>13, <1>14, <3>2, <4>1, Zenon
    <3>3. QED
      BY <1>10, <3>1, <3>2, Zenon
  <2>4. ASSUME NEW i \in 1..Len(queue'), NEW j \in 1..Len(queue'),
               queue'[i].id = queue'[j].id
        PROVE  i = j
    <3>1. \A a, b \in 1..n : queue[a].id = queue[b].id => a = b
      BY <1>1, Zenon DEF QueueInv, n
    <3>2. QED
      BY <1>10, <1>22, <2>4, <3>1, Zenon
  <2>5. ASSUME NEW d \in Clients, call'[d].state = "queued"
        PROVE  \E i \in 1..Len(queue') : queue'[i].id = call'[d].id
    <3>1. \A i \in 1..n : i \in 1..Len(queue')
      BY <1>8, <1>9
    <3>2. CASE d = c
      <4>1. n + 1 \in 1..Len(queue')
        BY <1>8, <1>9
      <4>2. queue'[n + 1].id = call'[d].id
        BY <1>7, <1>9, <1>15, <3>2, Zenon
      <4>3. QED
        BY <4>1, <4>2, Zenon
    <3>3. CASE d # c
      <4>1. PICK i \in 1..n : queue[i].id = call[d].id
        BY <1>1, <1>14, <2>5, <3>3, QueuedIs, Zenon DEF n
      <4>2. i \in 1..Len(queue') /\ queue'[i].id = call'[d].id
        BY <1>9, <1>15, <3>1, <4>1, Zenon
      <4>3. QED
        BY <4>2, Zenon
    <3>4. QED
      BY <3>2, <3>3, Zenon
  <2>6. QED
    BY <2>1, <2>2, <2>3, <2>4, <2>5, QueueNext, Zenon
<1>24. LogInv'
  BY <1>1, <1>2, Zenon DEF LogInv
<1>25. WrittenInv'
  <2>1. ASSUME NEW i \in 1..Len(queue'), Mine(log, queue'[i].id) # {}
        PROVE  i = 1 /\ writer \in {"indexed", "counted"}
    BY <1>1, <1>5, <1>7, <1>10, <2>1, Zenon DEF WrittenInv, n
  <2>2. ASSUME NEW d \in Clients, call'[d].id # 0, Mine(log, call'[d].id) # {}
        PROVE  call'[d].state = "queued" \/ Succeeded(call'[d])
    BY <1>1, <1>13, <1>14, <2>2, Zenon DEF WrittenInv
  <2>3. QED
    BY <1>2, <2>1, <2>2, Zenon DEF WrittenInv
<1>26. writer \in {"indexed", "counted"} => Current' = Current
  <2>1. ASSUME writer \in {"indexed", "counted"}
        PROVE  Current' = Current
    <3>1. queue # <<>>
      BY <1>1, <2>1, Zenon DEF TaskInv
    <3>2. 1 \in 1..n /\ queue' # <<>>
      BY <1>8, <1>9, <3>1 DEF n
    <3>3. Head(queue') = queue'[1] /\ Head(queue) = queue[1]
      BY <1>8, <1>9, <3>1, <3>2, TailElements, Zenon
    <3>4. QED
      BY <1>9, <3>2, <3>3, Zenon DEF Current
  <2>2. QED
    BY <2>1, Zenon
<1>27. TailInv'
  BY <1>1, <1>2, <1>26, Zenon DEF TailInv, Fresh
<1>28. AppendAnswers'
  <2>1. Answers("append")' = Answers("append") /\ c \notin Answers("append")
    BY <1>13, <1>14 DEF Answers
  <2>2. \A d \in Answers("append") : call'[d] = call[d]
    BY <1>14, <2>1, Zenon DEF Answers
  <2>3. QED
    BY <1>1, <1>2, <2>1, <2>2, Zenon DEF AppendAnswers
<1>29. MetricsInv'
  <2>1. \A d \in Clients : Succeeded(call'[d]) => call'[d] = call[d]
    BY <1>13, <1>14 DEF Succeeded
  <2>2. Uncounted' = Uncounted
    <3>1. CASE writer = "indexed"
      BY <1>2, <1>26, <3>1 DEF Uncounted, Fresh
    <3>2. CASE writer # "indexed"
      BY <1>2, <3>2 DEF Uncounted
    <3>3. QED
      BY <3>1, <3>2, Zenon
  <2>3. QED
    BY <1>1, <1>2, <2>1, <2>2, Zenon DEF MetricsInv
<1>30. GaugeInv'
  <2>1. call[c].state # "streaming" /\ x.state # "streaming"
    BY <1>13
  <2>2. QED
    BY <1>1, <1>2, <1>12, <2>1, GaugeSame, Zenon
<1>31. QED
  BY <1>16, <1>17, <1>18, <1>19, <1>20, <1>21, <1>23, <1>24, <1>25, <1>27, <1>28,
     <1>29, <1>30, Zenon DEF ServerInv

LEMMA appendStep ==
  ASSUME Counting, ServerInv, NEW c \in Clients, append(c)
  PROVE  ServerInv'
<1>1. /\ call[c].req.rpc = "append" /\ Admitted(call[c].req)
      /\ call[c].state = "arrived"
      /\ UNCHANGED <<process, env, health, writer, handle, log, calls, telemetry, base>>
  BY Zenon DEF append, Handling
<1>2. CASE append_valid(call[c].req) /\ writer \in Alive
  <2>1. /\ queue' = Append(queue, [client |-> c, id |-> call[c].id, req |-> call[c].req])
        /\ call' = [call EXCEPT ![c].state = "queued"]
    BY <1>2, Zenon DEF append
  <2>2. QED
    BY <1>1, <1>2, <2>1, EnqueueStep, Zenon
<1>3. CASE ~(append_valid(call[c].req) /\ writer \in Alive)
  <2> DEFINE resp == Status("INVALID_ARGUMENT")
  <2>1. resp.status # "OK" /\ call[c].req.rpc # "check"
    BY <1>1, ResponseIs
  <2> HIDE DEF resp
  <2>2. call' = [call EXCEPT ![c] = Answered(c, resp)] /\ queue' = queue
    BY <1>3, Zenon DEF append, resp
  <2>3. UNCHANGED <<process, env, health, wiring, log, calls, telemetry, base>>
    BY <1>1, <2>2, Zenon DEF wiring
  <2>4. QED
    BY <1>1, <2>1, <2>2, <2>3, PlainAnswer, Zenon
<1>4. QED
  BY <1>2, <1>3, Zenon
====
