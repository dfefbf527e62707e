---------------------------- MODULE ServerProofs ----------------------------
(***************************************************************************)
(* Theorems about module Server, for any clients, requests, environments   *)
(* and recovered logs, and any number of calls: ServerInv is inductive,    *)
(* and what the answers, the metrics, the interceptor, the health service  *)
(* and the exit code tell follows from it.                                 *)
(***************************************************************************)
EXTENDS ServerCalls, ServerTasks

-----------------------------------------------------------------------------
(* The invariant.                                                          *)

LEMMA InitInv ==
  ASSUME Counting, Init
  PROVE  ServerInv
<1>1. /\ phase = "config" /\ writer = "none" /\ queue = <<>>
      /\ log = [events |-> <<>>, streams |-> [s \in {} |-> <<>>]] /\ base = 0
      /\ call = [c \in Clients |-> Idle] /\ calls = 0 /\ metrics = NoMetrics
      /\ health = [n \in Names |-> IF n = "" THEN "Serving" ELSE "Unknown"]
  BY Zenon DEF Init
<1>2. DOMAIN call = Clients /\ \A c \in Clients : call[c] = Idle
  BY <1>1, Zenon
<1>3. \A c \in Clients : /\ call[c].state = "idle" /\ call[c].id = 0
                          /\ ~InFlight(c) /\ ~Succeeded(call[c])
  <2>1. ASSUME NEW c \in Clients
        PROVE  call[c].state = "idle" /\ call[c].id = 0
    BY <1>2, IdleIs, Zenon
  <2>2. QED
    BY <2>1 DEF InFlight, Succeeded
<1>4. \A r : Answers(r) = {}
  BY <1>3 DEF Answers
<1>5. log.events = <<>> /\ DOMAIN log.streams = {} /\ Len(log.events) = 0
  BY <1>1
<1>6. /\ metrics.appends = 0 /\ metrics.events = 0 /\ metrics.global_position = 0
      /\ metrics.subscriptions = 0
  BY <1>1 DEF NoMetrics
<1>7. (\A n \in Names : health[n] # "NotServing") /\ DOMAIN health = Names
  BY <1>1 DEF Names
<1>8. TypeOK
  <2>1. log.streams \in [DOMAIN log.streams -> Seq(Nat)]
    BY <1>1
  <2>2. log.events \in Seq(RecordedEvent)
        /\ queue \in Seq([client : Clients, id : Nat, req : Requests])
    BY <1>1, <1>5, EmptySeq, Zenon
  <2>3. base \in Nat /\ calls \in Nat
    BY <1>1
  <2>4. /\ metrics.events \in Nat /\ metrics.appends \in Nat
        /\ metrics.global_position \in Nat /\ metrics.subscriptions \in Nat
    BY <1>6
  <2>5. QED
    BY <1>1, <1>2, <1>7, <2>1, <2>2, <2>3, <2>4, Zenon DEF TypeOK
<1>9. PhaseInv
  <2>1. /\ phase \in Phases /\ phase # "exited" /\ phase \in {"config", "exited"}
        /\ phase \notin Accepting \cup Ending
        /\ phase \notin {"metrics", "tls", "bind", "set_service", "set_server"}
    BY <1>1 DEF Phases, Starting, Accepting, Ending
  <2>2. QED
    BY <1>1, <1>2, <1>3, <1>5, <1>6, <2>1, Zenon DEF PhaseInv
<1>10. HealthInv
  <2>1. \A n : phase \notin Fallen(n)
    BY <1>1 DEF Leaving, Ending, Fallen
  <2>2. QED
    BY <1>4, <1>7, <2>1, Zenon DEF HealthInv
<1>11. TaskInv /\ TailInv
  BY <1>1 DEF TaskInv, TailInv, Alive
<1>12. CallInv /\ IdsInv
  <2>1. CallOK(Idle, calls, config.jwt_secret)
    BY <1>8, IdleOK, Zenon DEF TypeOK
  <2>2. QED
    BY <1>2, <1>3, <2>1, Zenon DEF CallInv, IdsInv
<1>13. QueueInv
  <2>1. \A c \in Clients : call[c].state # "queued"
    BY <1>3
  <2>2. QED
    BY <1>1, <2>1, NoElement, Zenon DEF QueueInv
<1>14. LogInv
  <2>1. \A k \in 1..Len(log.events) : FALSE
    BY <1>5, NoElement, Zenon
  <2>2. base <= Len(log.events)
    <3>1. 0 <= 0
      OBVIOUS
    <3>2. QED
      BY <1>1, <1>5, <3>1, Zenon
  <2>3. QED
    BY <1>5, <2>1, <2>2, Zenon DEF LogInv
<1>15. WrittenInv /\ AppendAnswers
  BY <1>1, <1>3, <1>4, NoElement, Zenon DEF WrittenInv, AppendAnswers
<1>16. MetricsInv
  <2>1. writer \notin Alive /\ writer \notin {"up", "counted"} /\ writer # "counted"
    BY <1>1 DEF Alive
  <2>2. /\ metrics.events <= Len(log.events) - base
        /\ metrics.global_position <= Len(log.events)
    <3>1. 0 <= 0 - 0 /\ 0 <= 0
      OBVIOUS
    <3>2. QED
      BY <1>1, <1>5, <1>6, <3>1, Zenon
  <2>3. QED
    BY <1>3, <2>1, <2>2, Zenon DEF MetricsInv
<1>17. GaugeInv
  <2>1. {c \in Clients : call[c].state = "streaming"} = {}
    BY <1>3
  <2>2. QED
    BY <1>6, <2>1, Zenon DEF GaugeInv, Counting
<1>18. QED
  BY <1>8, <1>9, <1>10, <1>11, <1>12, <1>13, <1>14, <1>15, <1>16, <1>17, Zenon
     DEF ServerInv

LEMMA MainStep ==
  ASSUME Counting, ServerInv, Main
  PROVE  ServerInv'
<1>1. CASE LoadConfig
  BY <1>1, StartAdvances, ExitStep, Zenon DEF LoadConfig, Quiet
<1>2. CASE OpenStore
  BY <1>2, OpenStoreStep, ExitStep, Zenon DEF OpenStore
<1>3. CASE NewBroker
  BY <1>3, StartAdvances, ExitStep, Zenon DEF NewBroker, Quiet
<1>4. CASE BuildServer
  BY <1>4, StartAdvances, ExitStep, Zenon DEF BuildServer, Quiet
<1>5. CASE Bind
  BY <1>5, StartAdvances, ExitStep, Zenon DEF Bind, Quiet
<1>6. CASE Join
  BY <1>6, ExitStep, Zenon DEF Join
<1>7. QED
  BY <1>1, <1>2, <1>3, <1>4, <1>5, <1>6, SpawnWriterStep, install_recorderStep,
     serve_metricsStep, SetServingStep, SetNotServingStep, EndAdvances, Zenon DEF Main

LEMMA HandlerStep ==
  ASSUME Counting, ServerInv, NEW c \in Clients, Handler(c)
  PROVE  ServerInv'
BY DenyStep, CheckStep, appendStep, readStep, listStep, subscribeStep, FirstPollStep,
   Zenon DEF Handler

LEMMA StepInv ==
  ASSUME Counting, ServerInv, [Next]_vars
  PROVE  ServerInv'
<1>1. CASE WriterTask
  BY <1>1, WriterRefusesStep, WriterAppendsStep, WriterCountsStep, WriterRespondsStep,
     WriterExitsStep, Zenon DEF WriterTask
<1>2. CASE ScraperBinds
  BY <1>2, SameStep, Zenon DEF ScraperBinds, process, wiring
<1>3. CASE UNCHANGED vars
  BY <1>3, SameStep, Zenon DEF vars, process, wiring, telemetry
<1>4. CASE Scrape \/ Done
  BY <1>3, <1>4, Zenon DEF Scrape, Done
<1>5. CASE shutdown_signal
  BY <1>5, EndAdvances, Zenon
<1>6. CASE ServeFails
  BY <1>6, ExitStep, Zenon DEF ServeFails
<1>7. CASE \E c \in Clients : \/ Handler(c) \/ Lag(c) \/ Disconnect(c)
                               \/ \E r \in Requests : Arrive(c, r)
  BY <1>7, HandlerStep, LagStep, DisconnectStep, ArriveStep, Zenon
<1>8. QED
  BY <1>1, <1>2, <1>3, <1>4, <1>5, <1>6, <1>7, MainStep, WriterPanicsStep, Zenon DEF Next

-----------------------------------------------------------------------------
(* Single steps: what becomes of a health check, and how the process ends.  *)

(* What becomes of a health check that has arrived.                        *)
CheckBecomes(d) ==
  \/ call'[d] = call[d]
  \/ call'[d] = Idle
  \/ call'[d].resp = Status("UNAUTHENTICATED")
  \/ call'[d].resp = ServingStatus(call[d].req.service)

LEMMA ExitCheck ==
  ASSUME NEW d \in Clients, NEW e, Exits(e)
  PROVE  CheckBecomes(d)
BY Zenon DEF Exits, CheckBecomes

LEMMA OtherCheck ==
  ASSUME ServerInv, NEW d \in Clients, NEW c \in Clients, NEW x, c # d,
         call' = [call EXCEPT ![c] = x]
  PROVE  CheckBecomes(d)
BY BecomesIs, Zenon DEF Becomes, CheckBecomes

LEMMA HandlerCheck ==
  ASSUME ServerInv, NEW d \in Clients, NEW c \in Clients,
         call[d].state = "arrived", call[d].req.rpc = "check",
         Handler(c) \/ Lag(c) \/ Disconnect(c) \/ (\E r \in Requests : Arrive(c, r))
  PROVE  CheckBecomes(d)
<1>1. InFlight(d) /\ call[d].state # "created" /\ call[d].state # "streaming"
  BY DEF InFlight
<1>2. CASE c # d
  <2>1. \E x : call' = [call EXCEPT ![c] = x]
    <3>1. Deny(c) \/ Check(c) \/ list(c) => \E x : call' = [call EXCEPT ![c] = x]
      BY Zenon DEF Deny, Check, list
    <3>2. append(c) => \E x : call' = [call EXCEPT ![c] = x]
      <4>1. [call EXCEPT ![c].state = "queued"] =
              [call EXCEPT ![c] = [call[c] EXCEPT !.state = "queued"]]
        OBVIOUS
      <4>2. QED
        BY <4>1, Zenon DEF append
    <3>3. read(c) => \E x : call' = [call EXCEPT ![c] = x]
      BY Zenon DEF read, Reads
    <3>4. subscribe(c) => \E x : call' = [call EXCEPT ![c] = x]
      BY DEF subscribe
    <3>5. FirstPoll(c) => \E x : call' = [call EXCEPT ![c] = x]
      <4>1. [call EXCEPT ![c].state = "streaming"] =
              [call EXCEPT ![c] = [call[c] EXCEPT !.state = "streaming"]]
        OBVIOUS
      <4>2. QED
        BY <4>1, Zenon DEF FirstPoll
    <3>6. Lag(c) \/ Disconnect(c) => \E x : call' = [call EXCEPT ![c] = x]
      BY Zenon DEF Lag, Disconnect
    <3>7. (\E r \in Requests : Arrive(c, r)) => \E x : call' = [call EXCEPT ![c] = x]
      BY Zenon DEF Arrive
    <3>8. QED
      BY <3>1, <3>2, <3>3, <3>4, <3>5, <3>6, <3>7, Zenon DEF Handler
  <2>2. QED
    BY <1>2, <2>1, OtherCheck, Zenon
<1>3. CASE c = d
  <2>1. /\ ~append(d) /\ ~read(d) /\ ~list(d) /\ ~subscribe(d)
    BY DEF append, read, list, subscribe, Handling
  <2>2. /\ ~FirstPoll(d) /\ ~Lag(d) /\ \A r \in Requests : ~Arrive(d, r)
    BY <1>1, Zenon DEF FirstPoll, Lag, Arrive
  <2>3. ASSUME NEW resp, call' = [call EXCEPT ![d] = Answered(d, resp)]
        PROVE  call'[d].resp = resp
    <3>1. call'[d] = Answered(d, resp)
      BY <2>3, BecomesIs, Zenon DEF Becomes
    <3>2. Answered(d, resp).resp = resp
      BY <1>1, AnsweredIs, Zenon
    <3>3. QED
      BY <3>1, <3>2, Zenon
  <2>4. Deny(d) => CheckBecomes(d)
    BY <2>3, Zenon DEF Deny, CheckBecomes
  <2>5. Check(d) => CheckBecomes(d)
    BY <2>3, Zenon DEF Check, CheckBecomes
  <2>6. Disconnect(d) => CheckBecomes(d)
    BY BecomesIs, Zenon DEF Disconnect, Becomes, CheckBecomes
  <2>7. QED
    BY <1>3, <2>1, <2>2, <2>4, <2>5, <2>6, Zenon DEF Handler
<1>4. QED
  BY <1>2, <1>3, Zenon

LEMMA WriterCheck ==
  ASSUME ServerInv, NEW d \in Clients, call[d].state = "arrived",
         WriterTask \/ WriterPanics
  PROVE  CheckBecomes(d)
<1>1. call[d].state # "queued"
  OBVIOUS
<1>2. ASSUME queue # <<>>, NEW resp, Respond(Current, resp)
      PROVE  CheckBecomes(d)
  <2>1. \A e \in Clients : call[e].id = Current.id =>
          e = Current.client /\ call[e].state = "queued"
    BY <1>2, AtHand, Zenon
  <2>2. Current.client \in Clients
    BY <1>2, AtHand, Zenon
  <2>3. CASE call[Current.client].id = Current.id
    <3>1. Current.client # d
      BY <1>1, <2>1, <2>3, Zenon
    <3>2. call' = [call EXCEPT ![Current.client] = Answered(Current.client, resp)]
      BY <1>2, <2>3, Zenon DEF Respond
    <3>3. QED
      BY <2>2, <3>1, <3>2, OtherCheck, Zenon
  <2>4. CASE call[Current.client].id # Current.id
    BY <1>2, <2>4, Zenon DEF Respond, CheckBecomes
  <2>5. QED
    BY <2>3, <2>4, Zenon
<1>3. WriterRefuses => CheckBecomes(d)
  BY <1>2, Zenon DEF WriterRefuses, Working
<1>4. WriterResponds => CheckBecomes(d)
  BY <1>2, Zenon DEF WriterResponds, Working
<1>5. WriterAppends \/ WriterCounts \/ WriterExits => CheckBecomes(d)
  BY Zenon DEF WriterAppends, WriterCounts, WriterExits, CheckBecomes
<1>6. WriterPanics => CheckBecomes(d)
  BY <1>1, Zenon DEF WriterPanics, CheckBecomes
<1>7. QED
  BY <1>3, <1>4, <1>5, <1>6, Zenon DEF WriterTask

LEMMA StepCheck ==
  ASSUME ServerInv, [Next]_vars, NEW d \in Clients,
         call[d].state = "arrived", call[d].req.rpc = "check"
  PROVE  CheckBecomes(d)
<1>1. call' = call => CheckBecomes(d)
  BY Zenon DEF CheckBecomes
<1>2. (\E e : Exits(e)) => CheckBecomes(d)
  BY ExitCheck, Zenon
<1>3. LoadConfig \/ OpenStore \/ NewBroker \/ BuildServer \/ Bind \/ Join \/ ServeFails =>
        call' = call \/ \E e : Exits(e)
  BY Zenon DEF LoadConfig, OpenStore, NewBroker, BuildServer, Bind, Join, ServeFails
<1>4. SpawnWriter \/ install_recorder \/ serve_metrics \/ Drain \/ AbortMetrics =>
        call' = call
  BY Zenon DEF SpawnWriter, install_recorder, serve_metrics, Drain, AbortMetrics
<1>5. SetServing \/ SetNotServing => call' = call
  BY Zenon DEF SetServing, SetNotServing, SetHealth
<1>6. Main => CheckBecomes(d)
  BY <1>1, <1>2, <1>3, <1>4, <1>5, Zenon DEF Main
<1>7. ScraperBinds \/ Scrape \/ shutdown_signal \/ Done \/ UNCHANGED vars => call' = call
  BY Zenon DEF ScraperBinds, Scrape, shutdown_signal, Done, vars
<1>8. QED
  BY <1>1, <1>2, <1>3, <1>6, <1>7, HandlerCheck, WriterCheck, Zenon DEF Next

(* The exit code is set once, and to 0 only by Join.                       *)
LEMMA StepCode ==
  ASSUME [Next]_vars, code' # code
  PROVE  \/ \E e \in {1, 101} : code' = e
         \/ phase = "join" /\ writer = "exited"
<1>1. \A e : Exits(e) => code' = e
  BY Zenon DEF Exits
<1>2. \A a, b : Advance(a, b) => code' = code
  BY Zenon DEF Advance
<1>3. LoadConfig \/ OpenStore \/ NewBroker \/ BuildServer \/ Bind \/ ServeFails =>
        code' = code \/ \E e \in {1, 101} : code' = e
  BY <1>1, <1>2, Zenon
     DEF LoadConfig, OpenStore, NewBroker, BuildServer, Bind, ServeFails
<1>4. SpawnWriter \/ install_recorder \/ serve_metrics \/ Drain \/ AbortMetrics
        \/ SetServing \/ SetNotServing \/ shutdown_signal => code' = code
  BY <1>2, Zenon DEF SpawnWriter, install_recorder, serve_metrics, Drain, AbortMetrics,
                     SetServing, SetNotServing, shutdown_signal
<1>5. Join => \/ \E e \in {1, 101} : code' = e
              \/ phase = "join" /\ writer = "exited"
  BY <1>1, Zenon DEF Join
<1>6. WriterTask \/ WriterPanics \/ ScraperBinds \/ Scrape \/ Done \/ UNCHANGED vars =>
        code' = code
  BY Zenon DEF WriterTask, WriterRefuses, WriterAppends, WriterCounts, WriterResponds,
               WriterExits, WriterPanics, ScraperBinds, Scrape, Done, vars, process
<1>7. ASSUME NEW c \in Clients,
             Handler(c) \/ Lag(c) \/ Disconnect(c) \/ (\E r \in Requests : Arrive(c, r))
      PROVE  code' = code
  <2>1. Deny(c) \/ Check(c) \/ append(c) \/ list(c) \/ subscribe(c) \/ FirstPoll(c) =>
          code' = code
    BY Zenon DEF Deny, Check, append, list, subscribe, FirstPoll, process
  <2>2. read(c) => code' = code
    BY Zenon DEF read, Reads, process
  <2>3. Lag(c) \/ Disconnect(c) \/ (\E r \in Requests : Arrive(c, r)) => code' = code
    BY Zenon DEF Lag, Disconnect, Arrive, process
  <2>4. QED
    BY <1>7, <2>1, <2>2, <2>3, Zenon DEF Handler
<1>8. QED
  BY <1>3, <1>4, <1>5, <1>6, <1>7, Zenon DEF Next, Main

-----------------------------------------------------------------------------
(* Steps that answer no read.                                              *)

Reading == {"read_all", "read_stream", "list_streams"}

LEMMA LogIs ==
  ASSUME ServerInv, Ordered(log)
  PROVE  Index(log) /\ Len(log.events) \in Nat /\ DOMAIN call = Clients
<1>1. TypeOK /\ LogInv
  BY Zenon DEF ServerInv
<1>2. Index(log)
  BY <1>1, Zenon DEF TypeOK, LogInv, Index
<1>3. QED
  BY <1>1, <1>2, SeqIn, Zenon DEF TypeOK

LEMMA AnsweredAt ==
  ASSUME ServerInv, NEW c \in Clients, InFlight(c), NEW resp
  PROVE  Answered(c, resp).at = Len(log.events)
<1>1. DOMAIN call[c] = DOMAIN Idle
  BY CallFacts, Zenon DEF CallOK
<1>2. DOMAIN call[c] = {"state", "req", "resp", "id", "at"}
  BY <1>1 DEF Idle
<1>3. QED
  BY <1>2 DEF Answered

LEMMA OtherTold ==
  ASSUME ServerInv, Ordered(log), NEW c \in Clients, InFlight(c), NEW resp,
         call[c].req.rpc \notin Reading
  PROVE  Told(log, Answered(c, resp))
<1>1. PICK x : x = Answered(c, resp)
  OBVIOUS
<1>2. x.req.rpc \notin Reading /\ x.at = Len(log.events)
  <2>1. x.req = call[c].req /\ x.at = Len(log.events)
    BY <1>1, AnsweredIs, AnsweredAt, Zenon
  <2>2. QED
    BY <2>1, Zenon
<1>3. ReadExact(log, x)
  BY <1>2 DEF ReadExact, Reading
<1>4. x.at \in 0..Len(log.events)
  BY <1>2, LogIs
<1>5. QED
  BY <1>1, <1>3, <1>4, Zenon DEF Told

LEMMA Untold ==
  ASSUME NEW l, NEW x, x.state # "answered" \/ x.resp.status = "UNAUTHENTICATED"
  PROVE  Told(l, x)
BY Zenon DEF Told

LEMMA IdleTold ==
  ASSUME NEW l
  PROVE  Told(l, Idle)
BY IdleIs DEF Told

LEMMA ReadsSame ==
  ASSUME ReadsInv, log' = log, \A c \in Clients : call'[c] = call[c] \/ Told(log, call'[c])
  PROVE  ReadsInv'
BY Zenon DEF ReadsInv

LEMMA ReadsOne ==
  ASSUME ServerInv, ReadsInv, log' = log, NEW c \in Clients, NEW x, Told(log, x),
         call' = [call EXCEPT ![c] = x]
  PROVE  ReadsInv'
<1>1. Becomes(c, x)
  BY BecomesIs, Zenon
<1>2. \A d \in Clients : call'[d] = call[d] \/ Told(log, call'[d])
  BY <1>1, Zenon DEF Becomes
<1>3. QED
  BY <1>2, ReadsSame, Zenon

LEMMA AnswerReads ==
  ASSUME ServerInv, ReadsInv, log' = log, NEW c \in Clients, InFlight(c), NEW resp,
         call[c].req.rpc \notin Reading,
         call' = [call EXCEPT ![c] = Answered(c, resp)]
  PROVE  ReadsInv'
<1>1. Told(log, Answered(c, resp))
  BY OtherTold, Zenon DEF ReadsInv
<1>2. QED
  BY <1>1, ReadsOne, Zenon

LEMMA StateReads ==
  ASSUME ServerInv, ReadsInv, log' = log, NEW c \in Clients, InFlight(c), NEW state,
         state # "answered", NEW x, x = [call[c] EXCEPT !.state = state],
         call' = [call EXCEPT ![c] = x]
  PROVE  ReadsInv'
<1>1. DOMAIN call[c] = DOMAIN Idle
  BY CallFacts, Zenon DEF CallOK
<1>2. "state" \in DOMAIN call[c]
  BY <1>1 DEF Idle
<1>3. x.state = state
  BY <1>2
<1>4. Told(log, x)
  BY <1>3, Untold, Zenon
<1>5. QED
  BY <1>4, ReadsOne, Zenon

LEMMA ExitReads ==
  ASSUME ReadsInv, NEW e, Exits(e)
  PROVE  ReadsInv'
<1>1. ASSUME NEW c \in Clients PROVE call'[c] = call[c] \/ Told(log, call'[c])
  <2>1. call'[c] = call[c] \/ call'[c] = Idle
    BY Zenon DEF Exits
  <2>2. QED
    BY <2>1, IdleTold, Zenon
<1>2. log' = log
  BY Zenon DEF Exits
<1>3. QED
  BY <1>1, <1>2, ReadsSame, Zenon

LEMMA OpenReads ==
  ASSUME ServerInv, phase = "open", log' \in Recovered, call' = call
  PROVE  ReadsInv'
<1>1. phase \in Starting
  BY DEF Starting
<1>2. \A c \in Clients : call[c] = Idle
  BY <1>1, Zenon DEF ServerInv, PhaseInv
<1>3. Ordered(log')
  BY RecoveredAssumption, Zenon
<1>4. \A c \in Clients : Told(log', call'[c])
  BY <1>2, IdleTold, Zenon
<1>5. QED
  BY <1>3, <1>4, Zenon DEF ReadsInv

LEMMA MainReads ==
  ASSUME ServerInv, ReadsInv, Main \/ ServeFails
  PROVE  ReadsInv'
<1>1. call' = call /\ log' = log => ReadsInv'
  BY ReadsSame, Zenon
<1>2. \A e : Exits(e) => ReadsInv'
  BY ExitReads, Zenon
<1>3. LoadConfig \/ NewBroker \/ BuildServer \/ Bind \/ Join \/ ServeFails =>
        (call' = call /\ log' = log) \/ \E e : Exits(e)
  BY Zenon DEF LoadConfig, NewBroker, BuildServer, Bind, Join, ServeFails
<1>4. OpenStore => ReadsInv'
  BY <1>2, OpenReads, Zenon DEF OpenStore, Advance
<1>5. SpawnWriter \/ install_recorder \/ serve_metrics \/ Drain \/ AbortMetrics =>
        call' = call /\ log' = log
  BY Zenon DEF SpawnWriter, install_recorder, serve_metrics, Drain, AbortMetrics
<1>6. SetServing \/ SetNotServing => call' = call /\ log' = log
  BY Zenon DEF SetServing, SetNotServing, SetHealth
<1>7. QED
  BY <1>1, <1>2, <1>3, <1>4, <1>5, <1>6, Zenon DEF Main

LEMMA CallReads ==
  ASSUME ServerInv, ReadsInv, NEW c \in Clients,
         \/ Deny(c) \/ Check(c) \/ append(c) \/ subscribe(c) \/ FirstPoll(c)
         \/ Lag(c) \/ Disconnect(c) \/ \E r \in Requests : Arrive(c, r)
  PROVE  ReadsInv'
<1>1. "append" \notin Reading /\ "check" \notin Reading /\ "subscribe" \notin Reading
  BY DEF Reading
<1>2. call[c].state \in {"arrived", "created", "streaming"} => InFlight(c)
  BY DEF InFlight
<1>3. ASSUME Deny(c) PROVE ReadsInv'
  <2>1. InFlight(c) /\ log' = log
        /\ call' = [call EXCEPT ![c] = Answered(c, Status("UNAUTHENTICATED"))]
    BY <1>2, <1>3 DEF Deny
  <2>2. PICK x : x = Answered(c, Status("UNAUTHENTICATED"))
    OBVIOUS
  <2>3. x.resp = Status("UNAUTHENTICATED")
    BY <2>1, <2>2, AnsweredIs, Zenon
  <2>4. Told(log, x)
    BY <2>3, ResponseIs, Untold, ZenonT(30)
  <2>5. QED
    BY <2>1, <2>2, <2>4, ReadsOne, Zenon
<1>4. ASSUME Check(c) PROVE ReadsInv'
  <2>1. InFlight(c) /\ log' = log /\ call[c].req.rpc = "check"
        /\ call' = [call EXCEPT ![c] = Answered(c, ServingStatus(call[c].req.service))]
    BY <1>2, <1>4 DEF Check, Handling
  <2>2. QED
    BY <1>1, <2>1, AnswerReads, Zenon
<1>5. ASSUME append(c) PROVE ReadsInv'
  <2>1. InFlight(c) /\ log' = log /\ call[c].req.rpc = "append"
    BY <1>2, <1>5 DEF append, Handling
  <2>2. CASE append_valid(call[c].req) /\ writer \in Alive
    <3>1. PICK x : x = [call[c] EXCEPT !.state = "queued"]
      OBVIOUS
    <3>2. DOMAIN call = Clients
      BY LogIs, Zenon DEF ReadsInv
    <3>3. call' = [call EXCEPT ![c].state = "queued"]
      BY <1>5, <2>2, Zenon DEF append
    <3>4. call' = [call EXCEPT ![c] = x]
      BY <3>1, <3>2, <3>3
    <3>5. "queued" # "answered"
      OBVIOUS
    <3>6. QED
      BY <2>1, <3>1, <3>4, <3>5, StateReads, Zenon
  <2>3. CASE ~(append_valid(call[c].req) /\ writer \in Alive)
    <3>1. call' = [call EXCEPT ![c] = Answered(c, Status("INVALID_ARGUMENT"))]
      BY <1>5, <2>3, Zenon DEF append
    <3>2. QED
      BY <1>1, <2>1, <3>1, AnswerReads, Zenon
  <2>4. QED
    BY <2>2, <2>3, Zenon
<1>6. ASSUME subscribe(c) PROVE ReadsInv'
  <2>1. InFlight(c) /\ log' = log /\ call[c].req.rpc = "subscribe"
    BY <1>2, <1>6 DEF subscribe, Handling
  <2>2. CASE parse_uuid(call[c].req.stream_id) = Invalid
    <3>1. call' = [call EXCEPT ![c] = Answered(c, Status("INVALID_ARGUMENT"))]
      BY <1>6, <2>2, Zenon DEF subscribe
    <3>2. QED
      BY <1>1, <2>1, <3>1, AnswerReads, Zenon
  <2>3. CASE parse_uuid(call[c].req.stream_id) # Invalid
    <3>1. PICK x : x = [call[c] EXCEPT !.state = "created"]
      OBVIOUS
    <3>2. DOMAIN call = Clients
      BY LogIs, Zenon DEF ReadsInv
    <3>3. call' = [call EXCEPT ![c] = x]
      BY <1>6, <2>3, <3>1, <3>2 DEF subscribe
    <3>4. "created" # "answered"
      OBVIOUS
    <3>5. QED
      BY <2>1, <3>1, <3>3, <3>4, StateReads, Zenon
  <2>4. QED
    BY <2>2, <2>3, Zenon
<1>7. ASSUME FirstPoll(c) PROVE ReadsInv'
  <2>1. InFlight(c) /\ log' = log /\ call' = [call EXCEPT ![c].state = "streaming"]
    BY <1>2, <1>7 DEF FirstPoll
  <2>2. PICK x : x = [call[c] EXCEPT !.state = "streaming"]
    OBVIOUS
  <2>3. DOMAIN call = Clients
    BY LogIs, Zenon DEF ReadsInv
  <2>4. call' = [call EXCEPT ![c] = x]
    BY <2>1, <2>2, <2>3
  <2>5. "streaming" # "answered"
    OBVIOUS
  <2>6. QED
    BY <2>1, <2>2, <2>4, <2>5, StateReads, Zenon
<1>8. ASSUME Lag(c) PROVE ReadsInv'
  <2>1. InFlight(c) /\ log' = log /\ call[c].state \in {"created", "streaming"}
    BY <1>2, <1>8 DEF Lag
  <2>2. call[c].req.rpc = "subscribe"
    BY <2>1, CallFacts, Zenon DEF CallOK
  <2>3. PICK resp : call' = [call EXCEPT ![c] = Answered(c, resp)]
    BY <1>8, Zenon DEF Lag
  <2>4. QED
    BY <1>1, <2>1, <2>2, <2>3, AnswerReads, Zenon
<1>9. ASSUME Disconnect(c) PROVE ReadsInv'
  BY <1>9, IdleTold, ReadsOne, Zenon DEF Disconnect
<1>10. ASSUME NEW r \in Requests, Arrive(c, r) PROVE ReadsInv'
  <2>1. PICK x : x = [state |-> "arrived", req |-> r, resp |-> Status("none"),
                      id |-> calls + 1, at |-> 0]
    OBVIOUS
  <2>2. call' = [call EXCEPT ![c] = x] /\ log' = log
    BY <1>10, <2>1, Zenon DEF Arrive
  <2>3. x.state # "answered"
    BY <2>1
  <2>4. QED
    BY <2>2, <2>3, Untold, ReadsOne, Zenon
<1>11. QED
  BY <1>3, <1>4, <1>5, <1>6, <1>7, <1>8, <1>9, <1>10, Zenon

LEMMA TaskReads ==
  ASSUME ServerInv, ReadsInv,
         \/ WriterRefuses \/ WriterCounts \/ WriterResponds \/ WriterExits \/ WriterPanics
  PROVE  ReadsInv'
<1>1. "append" \notin Reading
  BY DEF Reading
<1>2. ASSUME queue # <<>>, NEW resp, Respond(Current, resp), log' = log PROVE ReadsInv'
  <2>1. PICK d \in Clients : d = Current.client
    BY <1>2, AtHand, Zenon
  <2>2. CASE call[d].id = Current.id
    <3>1. call[d].state = "queued" /\ call[d].req.rpc = "append"
      BY <1>2, <2>2, AtHand, Zenon
    <3>2. InFlight(d)
      BY <3>1 DEF InFlight
    <3>3. call' = [call EXCEPT ![d] = Answered(d, resp)]
      BY <1>2, <2>1, <2>2, Zenon DEF Respond
    <3>4. QED
      BY <1>1, <1>2, <3>1, <3>2, <3>3, AnswerReads, Zenon
  <2>3. CASE call[d].id # Current.id
    BY <1>2, <2>1, <2>3, ReadsSame, Zenon DEF Respond
  <2>4. QED
    BY <2>2, <2>3, Zenon
<1>3. WriterRefuses => ReadsInv'
  BY <1>2, Zenon DEF WriterRefuses, Working
<1>4. WriterResponds => ReadsInv'
  BY <1>2, Zenon DEF WriterResponds, Working
<1>5. WriterCounts \/ WriterExits => ReadsInv'
  BY ReadsSame, Zenon DEF WriterCounts, WriterExits
<1>6. ASSUME WriterPanics PROVE ReadsInv'
  <2>1. ASSUME NEW d \in Clients PROVE call'[d] = call[d] \/ Told(log, call'[d])
    <3>1. CASE call[d].state = "queued"
      <4>1. InFlight(d)
        BY <3>1 DEF InFlight
      <4>2. call[d].req.rpc = "append"
        BY <3>1, <4>1, CallFacts, Zenon DEF CallOK
      <4>3. PICK resp : call'[d] = Answered(d, resp)
        BY <1>6, <3>1, Zenon DEF WriterPanics
      <4>4. Told(log, Answered(d, resp))
        BY <1>1, <4>1, <4>2, OtherTold, Zenon DEF ReadsInv
      <4>5. QED
        BY <4>3, <4>4, Zenon
    <3>2. CASE call[d].state # "queued"
      BY <1>6, <3>2, Zenon DEF WriterPanics
    <3>3. QED
      BY <3>1, <3>2, Zenon
  <2>2. QED
    BY <1>6, <2>1, ReadsSame, Zenon DEF WriterPanics
<1>7. QED
  BY <1>3, <1>4, <1>5, <1>6, Zenon

-----------------------------------------------------------------------------
(* Reads and appends.                                                      *)

LEMMA ReadTold ==
  ASSUME Listing, ServerInv, ReadsInv, NEW c \in Clients, InFlight(c), NEW y, NEW x,
         x = Answered(c, y), Len(log.events) <= MaxU64 => ReadExact(log, x)
  PROVE  Told(log, x)
<1>1. x.at = Len(log.events) /\ Len(log.events) \in Nat
  BY AnsweredAt, LogIs, Zenon DEF ReadsInv
<1>2. x.at \in 0..Len(log.events)
  BY <1>1
<1>3. QED
  BY <1>1, <1>2, Zenon DEF Told

(* The response of a read as it is sent.                                   *)
Wire(resp) == [resp EXCEPT !.body = Mapped(recorded_to_proto, @)]

LEMMA readReads ==
  ASSUME Listing, ServerInv, ReadsInv, NEW c \in Clients, read(c)
  PROVE  ReadsInv'
<1>1. PICK r : r = call[c].req
  OBVIOUS
<1>2. PICK resp :
        /\ Reads(c, resp)
        /\ \/ Handling(c, {"read_all"}) /\ resp = read_all(log, r.from, r.max)
           \/ /\ Handling(c, {"read_stream"})
              /\ resp = IF parse_uuid(r.stream_id) = Invalid
                        THEN Status("INVALID_ARGUMENT")
                        ELSE read_stream(log, parse_uuid(r.stream_id), r.from, r.max)
  BY <1>1, Zenon DEF read
<1>3. /\ call[c].state = "arrived" /\ r.rpc \in {"read_all", "read_stream"}
      /\ log' = log
  BY <1>1, <1>2, Zenon DEF Handling, Reads
<1>4. InFlight(c)
  BY <1>3 DEF InFlight
<1>5. PICK x : x = Answered(c, Wire(resp))
  OBVIOUS
<1>6. call' = [call EXCEPT ![c] = x]
  BY <1>2, <1>5, Zenon DEF Reads, Wire
<1>7. x.req = r /\ x.resp = Wire(resp) /\ x.at = Len(log.events)
  BY <1>1, <1>4, <1>5, AnsweredIs, AnsweredAt, Zenon
<1>8. r \in Requests
  <2>1. CallOK(call[c], calls, config.jwt_secret) /\ call[c].state # "idle"
    BY <1>4, CallFacts, Zenon DEF InFlight
  <2>2. QED
    BY <1>1, <2>1, Zenon DEF CallOK
<1>9. x.req.from \in 0..MaxU64 /\ x.req.max \in 0..MaxU64
  BY <1>3, <1>7, <1>8, RequestsAssumption, Zenon
<1>10. Index(log)
  BY LogIs, Zenon DEF ReadsInv
<1>11. x.resp = [resp EXCEPT !.body = Mapped(recorded_to_proto, @)]
  BY <1>7, Zenon DEF Wire
<1>12. Replies(log, x, resp) /\ parse_uuid(x.req.stream_id) = parse_uuid(r.stream_id)
  BY <1>7, <1>9, <1>11, Zenon DEF Replies
<1>13. ASSUME Len(log.events) <= MaxU64 PROVE ReadExact(log, x)
  <2>1. CASE Handling(c, {"read_all"}) /\ resp = read_all(log, r.from, r.max)
    <3>1. resp = read_all(log, x.req.from, x.req.max)
      BY <1>7, <2>1, Zenon
    <3>2. AllExact(log, x)
      BY <1>10, <1>12, <1>13, <3>1, read_allIs, Zenon
    <3>3. x.req.rpc # "read_stream" /\ x.req.rpc # "list_streams"
      BY <1>1, <1>7, <2>1, SMTT(30) DEF Handling
    <3>4. QED
      BY <3>2, <3>3, Zenon DEF ReadExact
  <2>2. CASE /\ Handling(c, {"read_stream"})
             /\ resp = IF parse_uuid(r.stream_id) = Invalid
                       THEN Status("INVALID_ARGUMENT")
                       ELSE read_stream(log, parse_uuid(r.stream_id), r.from, r.max)
    <3>1. PICK s : s = parse_uuid(x.req.stream_id)
      OBVIOUS
    <3>2. x.req.rpc # "read_all" /\ x.req.rpc # "list_streams"
      BY <1>1, <1>7, <2>2 DEF Handling
    <3>3. CASE s = Invalid
      <4>1. resp = Status("INVALID_ARGUMENT")
        BY <1>7, <2>2, <3>1, <3>3, Zenon
      <4>2. PICK y : y = x.resp
        OBVIOUS
      <4>3. y = Status("INVALID_ARGUMENT")
        BY <1>11, <4>1, <4>2, StatusSent, Zenon
      <4>4. StreamExact(log, x)
        <5>1. parse_uuid(x.req.stream_id) = Invalid /\ x.resp = Status("INVALID_ARGUMENT")
          BY <3>1, <3>3, <4>2, <4>3, Zenon
        <5>2. QED
          BY <5>1 DEF StreamExact
      <4>5. QED
        BY <3>2, <4>4, Zenon DEF ReadExact
    <3>4. CASE s # Invalid
      <4>1. resp = read_stream(log, s, x.req.from, x.req.max)
        BY <1>7, <2>2, <3>1, <3>4, Zenon
      <4>2. StreamExact(log, x)
        BY <1>10, <1>12, <1>13, <3>1, <3>4, <4>1, read_streamIs, Zenon
      <4>3. QED
        BY <3>2, <4>2, Zenon DEF ReadExact
    <3>5. QED
      BY <3>3, <3>4, Zenon
  <2>3. QED
    BY <1>2, <2>1, <2>2, Zenon
<1>14. Told(log, x)
  BY <1>4, <1>5, <1>13, ReadTold, Zenon
<1>15. QED
  BY <1>3, <1>6, <1>14, ReadsOne, Zenon

LEMMA listReads ==
  ASSUME Listing, ServerInv, ReadsInv, NEW c \in Clients, list(c)
  PROVE  ReadsInv'
<1>1. PICK y : y = Response(Mapped(stream_info_to_proto, list_streams(log)))
  OBVIOUS
<1>2. PICK x : x = Answered(c, y)
  OBVIOUS
<1>3. /\ call[c].state = "arrived" /\ call[c].req.rpc \in {"list_streams"} /\ log' = log
      /\ call' = [call EXCEPT ![c] = x]
  BY <1>1, <1>2, Zenon DEF list, Handling
<1>4. InFlight(c)
  BY <1>3 DEF InFlight
<1>5. x.req = call[c].req /\ x.resp = y /\ x.at = Len(log.events)
  BY <1>2, <1>4, AnsweredIs, AnsweredAt, Zenon
<1>6. Index(log)
  BY LogIs, Zenon DEF ReadsInv
<1>7. ASSUME Len(log.events) <= MaxU64 PROVE ReadExact(log, x)
  <2>1. x.resp = Response(Mapped(stream_info_to_proto, list_streams(log)))
    BY <1>1, <1>5, Zenon
  <2>2. ListingExact(log, x)
    BY <1>5, <1>6, <1>7, <2>1, list_streamsIs, Zenon
  <2>3. x.req.rpc # "read_all" /\ x.req.rpc # "read_stream"
    BY <1>3, <1>5
  <2>4. QED
    BY <2>2, <2>3, Zenon DEF ReadExact
<1>8. Told(log, x)
  BY <1>2, <1>4, <1>7, ReadTold, Zenon
<1>9. QED
  BY <1>3, <1>8, ReadsOne, Zenon

(* The lists after an append.                                              *)
LEMMA IndexedExtends ==
  ASSUME ServerInv, queue # <<>>, NEW s, s = parse_uuid(Current.req.stream_id)
  PROVE  Extends(log, Indexed(Current), s, Len(log.events), Len(Positions(s)), Fresh)
<1>1. PICK rec : rec = Recorded(Current)
  OBVIOUS
<1>2. /\ Len(rec) = Fresh /\ Fresh \in Nat
      /\ Positions(s) \in Seq(Nat) /\ Len(Positions(s)) \in Nat
      /\ \A k \in 1..Fresh :
           /\ rec[k].stream_id = s
           /\ rec[k].stream_version = Len(Positions(s)) + k - 1
           /\ rec[k].global_position = Len(log.events) + k - 1
  BY <1>1, RecordedIs, Zenon
<1>3. PICK m : m = Indexed(Current)
  OBVIOUS
<1>4. /\ DOMAIN m.streams = DOMAIN log.streams \cup {s}
      /\ Len(m.events) = Len(log.events) + Fresh /\ Len(log.events) \in Nat
      /\ \A k \in 1..Len(log.events) : m.events[k] = log.events[k]
      /\ \A k \in 1..Fresh : m.events[Len(log.events) + k] = rec[k]
  BY <1>1, <1>3, IndexedIs, Zenon
<1>5. PICK new : new = [i \in 1..Len(rec) |-> rec[i].global_position]
  OBVIOUS
<1>6. m.streams = [t \in DOMAIN log.streams \cup {s} |->
                     IF t = s THEN Positions(s) \o new ELSE log.streams[t]]
  BY <1>1, <1>3, <1>5 DEF Indexed, Mapped
<1>7. PICK n, c, f \in Nat : n = Len(log.events) /\ c = Len(Positions(s)) /\ f = Fresh
  BY <1>2, <1>4, Zenon
<1>8. new \in Seq(Nat) /\ Len(new) = f /\ \A i \in 1..f : new[i] = n + i - 1
  <2>1. new = [i \in 1..f |-> rec[i].global_position]
    BY <1>2, <1>5, <1>7, Zenon
  <2>2. \A i \in 1..f : rec[i].global_position = n + i - 1
    BY <1>2, <1>7, Zenon
  <2>3. \A i \in 1..f : n + i - 1 \in Nat
    OBVIOUS
  <2>4. QED
    BY <2>1, <2>2, <2>3
<1>9. /\ Len(m.streams[s]) = c + f
      /\ \A i \in 1..c : m.streams[s][i] = Positions(s)[i]
      /\ \A i \in 1..f : m.streams[s][c + i] = n + i - 1
  <2>1. m.streams[s] = Positions(s) \o new
    BY <1>6, Zenon
  <2>2. PICK a, b \in Seq(Nat) : a = Positions(s) /\ b = new
    BY <1>2, <1>8, Zenon
  <2>3. /\ Len(a \o b) = Len(a) + Len(b)
        /\ \A i \in 1..Len(a) : (a \o b)[i] = a[i]
        /\ \A i \in 1..Len(b) : (a \o b)[Len(a) + i] = b[i]
    BY ConcatElements
  <2>4. Len(a) = c /\ Len(b) = f /\ m.streams[s] = a \o b
    BY <1>7, <1>8, <2>1, <2>2, Zenon
  <2>5. \A i \in 1..f : (a \o b)[c + i] = n + i - 1
    BY <1>8, <2>2, <2>3, <2>4, Zenon
  <2>6. \A i \in 1..c : (a \o b)[i] = Positions(s)[i]
    BY <2>2, <2>3, <2>4, Zenon
  <2>7. Len(a \o b) = c + f
    BY <2>3, <2>4, Zenon
  <2>8. QED
    BY <2>4, <2>5, <2>6, <2>7, Zenon
<1>10. \A i \in 1..c : Positions(s)[i] = log.streams[s][i]
  <2>1. CASE s \in DOMAIN log.streams
    BY <2>1, Zenon DEF Positions
  <2>2. CASE s \notin DOMAIN log.streams
    <3>1. Positions(s) = <<>>
      BY <2>2, Zenon DEF Positions
    <3>2. QED
      BY <1>7, <3>1, NoElement, Zenon
  <2>3. QED
    BY <2>1, <2>2, Zenon
<1>11. \A t \in DOMAIN log.streams : t # s => m.streams[t] = log.streams[t]
  BY <1>6, Zenon
<1>12. \A k \in 1..f : /\ m.events[n + k].stream_id = s
                        /\ m.events[n + k].stream_version = c + k - 1
  <2>1. ASSUME NEW k \in 1..f
        PROVE  /\ m.events[n + k].stream_id = s
               /\ m.events[n + k].stream_version = c + k - 1
    <3>1. m.events[n + k] = rec[k]
      BY <1>4, <1>7, Zenon
    <3>2. rec[k].stream_id = s /\ rec[k].stream_version = c + k - 1
      BY <1>2, <1>7, Zenon
    <3>3. QED
      BY <3>1, <3>2, Zenon
  <2>2. QED
    BY <2>1, Zenon
<1>13. Extends(log, m, s, n, c, f)
  BY <1>4, <1>7, <1>9, <1>10, <1>11, <1>12, Zenon DEF Extends
<1>14. QED
  BY <1>3, <1>7, <1>13, Zenon

LEMMA AppendReads ==
  ASSUME ServerInv, ReadsInv, WriterAppends
  PROVE  ReadsInv'
<1>1. queue # <<>> /\ log' = Indexed(Current) /\ call' = call
  BY Zenon DEF WriterAppends, Working
<1>2. PICK s : s = parse_uuid(Current.req.stream_id)
  OBVIOUS
<1>3. PICK n, c, f \in Nat : n = Len(log.events) /\ c = Len(Positions(s)) /\ f = Fresh
  BY <1>1, <1>2, RecordedIs, LogIs, Zenon DEF ReadsInv
<1>4. Extends(log, log', s, n, c, f)
  BY <1>1, <1>2, <1>3, IndexedExtends, Zenon
<1>5. Index(log)
  BY LogIs, Zenon DEF ReadsInv
<1>6. s \in DOMAIN log.streams => c = Len(log.streams[s])
  BY <1>3, Zenon DEF Positions
<1>7. s \notin DOMAIN log.streams => c = 0
  BY <1>3, EmptySeq, Zenon DEF Positions
<1>8. Ordered(log')
  BY <1>3, <1>4, <1>5, <1>6, <1>7, OrderedGrows, Zenon
<1>9. ASSUME NEW d \in Clients PROVE Told(log', call[d])
  <2>1. PICK x : x = call[d]
    OBVIOUS
  <2>2. Told(log, x)
    BY <2>1, Zenon DEF ReadsInv
  <2>3. ASSUME x.state = "answered", x.resp.status # "UNAUTHENTICATED"
        PROVE  /\ x.at \in 0..Len(log'.events)
               /\ x.at <= MaxU64 => ReadExact(log', x)
    <3>1. x.at \in 0..n /\ (x.at <= MaxU64 => ReadExact(log, x))
      BY <1>3, <2>2, <2>3, Zenon DEF Told
    <3>2. Len(log'.events) = n + f /\ \A k \in 1..n : log'.events[k] = log.events[k]
      BY <1>4, Zenon DEF Extends
    <3>3. x.at \in 0..(n + f)
      BY <3>1
    <3>4. QED
      BY <3>1, <3>2, <3>3, ReadKept, ZenonT(30)
  <2>4. QED
    BY <2>1, <2>3, Zenon DEF Told
<1>10. QED
  BY <1>1, <1>8, <1>9, Zenon DEF ReadsInv

LEMMA InitReads ==
  ASSUME Init
  PROVE  ReadsInv
<1>1. /\ log = [events |-> <<>>, streams |-> [s \in {} |-> <<>>]]
      /\ call = [c \in Clients |-> Idle]
  BY Zenon DEF Init
<1>2. Len(log.events) = 0 /\ DOMAIN log.streams = {}
  BY <1>1
<1>3. \A k \in 1..Len(log.events) : FALSE
  BY <1>2
<1>4. Ordered(log)
  BY <1>2, <1>3, Zenon DEF Ordered
<1>5. \A c \in Clients : Told(log, call[c])
  BY <1>1, IdleTold, Zenon
<1>6. QED
  BY <1>4, <1>5, Zenon DEF ReadsInv

LEMMA StepReads ==
  ASSUME Listing, ServerInv, ReadsInv, [Next]_vars
  PROVE  ReadsInv'
<1>1. CASE WriterTask \/ WriterPanics
  BY <1>1, TaskReads, AppendReads, Zenon DEF WriterTask
<1>2. ScraperBinds \/ Scrape \/ shutdown_signal \/ Done \/ UNCHANGED vars =>
        call' = call /\ log' = log
  BY Zenon DEF ScraperBinds, Scrape, shutdown_signal, Done, vars
<1>3. call' = call /\ log' = log => ReadsInv'
  BY ReadsSame, Zenon
<1>4. \A c \in Clients : Handler(c) => ReadsInv'
  BY CallReads, readReads, listReads, Zenon DEF Handler
<1>5. \A c \in Clients :
        Lag(c) \/ Disconnect(c) \/ (\E r \in Requests : Arrive(c, r)) => ReadsInv'
  BY CallReads, Zenon
<1>6. QED
  BY <1>1, <1>2, <1>3, <1>4, <1>5, MainReads, Zenon DEF Next

LEMMA ReadsNow ==
  ASSUME ServerInv, ReadsInv, Len(log.events) <= MaxU64
  PROVE  ReadsExact
<1>1. ASSUME NEW c \in Clients, call[c].state = "answered",
             call[c].resp.status # "UNAUTHENTICATED"
      PROVE  ReadExact(log, call[c])
  <2>1. PICK x : x = call[c]
    OBVIOUS
  <2>2. Told(log, x) /\ Ordered(log)
    BY <2>1, Zenon DEF ReadsInv
  <2>3. x.at \in 0..Len(log.events) /\ (x.at <= MaxU64 => ReadExact(log, x))
    BY <1>1, <2>1, <2>2, Zenon DEF Told
  <2>4. Len(log.events) \in Nat /\ MaxU64 \in Nat
    BY <2>2, LogIs, MaxU64Assumption, Zenon
  <2>5. x.at <= MaxU64
    BY <2>3, <2>4
  <2>6. QED
    BY <2>1, <2>3, <2>5, Zenon
<1>2. QED
  BY <1>1, Zenon DEF ReadsExact

-----------------------------------------------------------------------------
(* Finite sets.                                                            *)

F == INSTANCE FiniteSetTheorems

LEMMA SameSets ==
  \A S : /\ IsFiniteSet(S) <=> F!IsFiniteSet(S)
         /\ Cardinality(S) = F!Cardinality(S)
BY Zenon DEF IsFiniteSet, F!IsFiniteSet, Cardinality, F!Cardinality

LEMMA CountingHolds == Counting
<1>1. ASSUME NEW S \in SUBSET Clients PROVE IsFiniteSet(S)
  BY ClientsAssumption, F!FS_Subset, SameSets, Zenon
<1>2. \A S \in SUBSET Clients : Cardinality(S) \in Nat
  BY <1>1, F!FS_CardinalityType, SameSets, Zenon
<1>3. ASSUME NEW S \in SUBSET Clients, NEW c \in Clients \ S
      PROVE  Cardinality(S \cup {c}) = Cardinality(S) + 1
  BY <1>1, F!FS_AddElement, SameSets, Zenon
<1>4. ASSUME NEW S \in SUBSET Clients, NEW c \in S
      PROVE  Cardinality(S \ {c}) = Cardinality(S) - 1
  BY <1>1, F!FS_RemoveElement, SameSets, Zenon
<1>5. QED
  BY <1>2, <1>3, <1>4, F!FS_EmptySet, SameSets, Zenon DEF Counting

LEMMA OntoIs ==
  ASSUME NEW S, NEW T, NEW f \in [S -> T], IsFiniteSet(S),
         \A t \in T : \E s \in S : f[s] = t
  PROVE  /\ IsFiniteSet(T)
         /\ (\A a, b \in S : f[a] = f[b] => a = b) => Cardinality(T) = Cardinality(S)
<1>1. f \in F!Surjection(S, T)
  BY Zenon DEF F!Surjection
<1>2. (\A a, b \in S : f[a] = f[b] => a = b) => f \in F!Injection(S, T)
  BY Zenon DEF F!Injection, F!IsInjective
<1>3. QED
  BY <1>1, <1>2, F!FS_Surjection, SameSets, Zenon

Into(f, S, T) == f \in [S -> T] /\ \A a, b \in S : f[a] = f[b] => a = b
Reaches(f, S, T) == \A t \in T : \E s \in S : f[s] = t

LEMMA IntoIs ==
  ASSUME NEW S, NEW T, NEW f, IsFiniteSet(T), Into(f, S, T)
  PROVE  /\ Cardinality(S) <= Cardinality(T)
         /\ Cardinality(S) = Cardinality(T) => Reaches(f, S, T)
<1>1. f \in F!Injection(S, T)
  BY Zenon DEF Into, F!Injection, F!IsInjective
<1>2. f \in F!Surjection(S, T) => Reaches(f, S, T)
  BY Zenon DEF Reaches, F!Surjection
<1>3. QED
  BY <1>1, <1>2, F!FS_Injection, SameSets, Zenon

LEMMA UpTo ==
  ASSUME NEW m \in Nat
  PROVE  IsFiniteSet(1..m) /\ Cardinality(1..m) = m
<1>1. IsFiniteSet(1..m) /\ Cardinality(1..m) = IF 1 > m THEN 0 ELSE m - 1 + 1
  <2>1. 1 \in Int /\ m \in Int
    OBVIOUS
  <2>2. QED
    BY <2>1, F!FS_Interval, SameSets, Zenon
<1>2. (IF 1 > m THEN 0 ELSE m - 1 + 1) = m
  OBVIOUS
<1>3. QED
  BY <1>1, <1>2

LEMMA IncreasingIs ==
  ASSUME NEW m \in Nat, NEW n \in Nat, NEW Q \in [1..m -> 1..n], Increasing(Q, m)
  PROVE  \A i, j \in 1..m : Q[i] = Q[j] => i = j
<1>1. ASSUME NEW i \in 1..m, NEW j \in 1..m, Q[i] = Q[j], i # j PROVE FALSE
  <2>1. PICK a \in Nat : a = Q[i] /\ a = Q[j]
    BY <1>1
  <2>2. i < j \/ j < i
    BY <1>1
  <2>3. a < a
    BY <2>1, <2>2, Zenon DEF Increasing
  <2>4. QED
    BY <2>3
<1>2. QED
  BY <1>1, Zenon

(* The elements of a set that are smaller than one of them.                *)
Under(S, x) == {y \in S : y < x}

LEMMA UnderIs ==
  ASSUME NEW S \in SUBSET Int, IsFiniteSet(S), NEW x \in S
  PROVE  /\ Cardinality(Under(S, x)) + 1 \in 1..Cardinality(S)
         /\ \A y \in S : x < y => Cardinality(Under(S, x)) < Cardinality(Under(S, y))
<1>1. \A T \in SUBSET S : IsFiniteSet(T) /\ Cardinality(T) \in Nat
  BY F!FS_Subset, F!FS_CardinalityType, SameSets, Zenon
<1>2. ASSUME NEW T \in SUBSET S, NEW U \in SUBSET T, NEW z \in T, z \notin U
      PROVE  Cardinality(U) + 1 <= Cardinality(T)
  <2>1. IsFiniteSet(T) /\ T \ {z} \in SUBSET S /\ U \in SUBSET (T \ {z}) /\ U \in SUBSET S
    BY <1>1, <1>2, Zenon
  <2>2. Cardinality(T \ {z}) = Cardinality(T) - 1
    BY <2>1, F!FS_RemoveElement, SameSets, Zenon
  <2>3. Cardinality(U) <= Cardinality(T \ {z})
    BY <1>1, <2>1, F!FS_Subset, SameSets, Zenon
  <2>4. PICK t, u \in Nat : t = Cardinality(T) /\ u = Cardinality(U)
    BY <1>1, <2>1, Zenon
  <2>5. u <= t - 1
    BY <2>2, <2>3, <2>4, Zenon
  <2>6. u + 1 <= t
    BY <2>5
  <2>7. QED
    BY <2>4, <2>6, Zenon
<1>3. \A y \in S : Under(S, y) \in SUBSET S
  BY Zenon DEF Under
<1>4. x \notin Under(S, x)
  BY DEF Under
<1>5. Cardinality(Under(S, x)) + 1 <= Cardinality(S)
  BY <1>2, <1>3, <1>4, Zenon
<1>6. ASSUME NEW y \in S, x < y
      PROVE  Cardinality(Under(S, x)) < Cardinality(Under(S, y))
  <2>1. x \in Under(S, y)
    BY <1>6, Zenon DEF Under
  <2>2. Under(S, x) \in SUBSET Under(S, y)
    <3>1. \A z \in S : z < x => z < y
      BY <1>6
    <3>2. QED
      BY <3>1, Zenon DEF Under
  <2>3. Cardinality(Under(S, x)) + 1 <= Cardinality(Under(S, y))
    BY <1>2, <1>3, <1>4, <2>1, <2>2, Zenon
  <2>4. PICK a, b \in Nat : a = Cardinality(Under(S, x)) /\ b = Cardinality(Under(S, y))
    BY <1>1, <1>3, Zenon
  <2>5. a < b
    BY <2>3, <2>4
  <2>6. QED
    BY <2>4, <2>5, Zenon
<1>7. Cardinality(Under(S, x)) \in Nat /\ Cardinality(S) \in Nat
  BY <1>1, <1>3, Zenon
<1>8. Cardinality(Under(S, x)) + 1 \in 1..Cardinality(S)
  BY <1>5, <1>7
<1>9. QED
  BY <1>6, <1>8, Zenon

LEMMA RankedIs ==
  ASSUME NEW S \in SUBSET Int, IsFiniteSet(S)
  PROVE  Ranked(S, Cardinality(S), sort_by(S))
<1>1. PICK c \in Nat : c = Cardinality(S)
  BY F!FS_CardinalityType, SameSets, Zenon
<1>2. PICK rank : rank = [x \in S |-> Cardinality(Under(S, x)) + 1]
  OBVIOUS
<1>3. \A x \in S : rank[x] = Cardinality(Under(S, x)) + 1 /\ rank[x] \in 1..c
  BY <1>1, <1>2, UnderIs, Zenon
<1>4. rank \in [S -> 1..c]
  BY <1>2, <1>3, Zenon
<1>5. ASSUME NEW x \in S, NEW y \in S, x < y PROVE rank[x] < rank[y]
  <2>1. Cardinality(Under(S, x)) < Cardinality(Under(S, y))
    BY <1>5, UnderIs, Zenon
  <2>2. PICK a, b \in Int : a = Cardinality(Under(S, x)) /\ b = Cardinality(Under(S, y))
    <3>1. Under(S, x) \in SUBSET S /\ Under(S, y) \in SUBSET S
      BY Zenon DEF Under
    <3>2. Cardinality(Under(S, x)) \in Nat /\ Cardinality(Under(S, y)) \in Nat
      BY <3>1, F!FS_Subset, F!FS_CardinalityType, SameSets, Zenon
    <3>3. QED
      BY <3>2
  <2>3. a + 1 < b + 1
    BY <2>1, <2>2
  <2>4. QED
    BY <1>3, <2>2, <2>3, Zenon
<1>6. \A x, y \in S : rank[x] = rank[y] => x = y
  <2>1. ASSUME NEW x \in S, NEW y \in S, rank[x] = rank[y], x # y PROVE FALSE
    <3>1. x < y \/ y < x
      BY <2>1
    <3>2. rank[x] < rank[x]
      BY <1>5, <2>1, <3>1, Zenon
    <3>3. QED
      BY <1>3, <3>2
  <2>2. QED
    BY <2>1, Zenon
<1>7. \A i \in 1..c : \E x \in S : rank[x] = i
  <2>1. IsFiniteSet(1..c) /\ Cardinality(S) = Cardinality(1..c)
    BY <1>1, UpTo, Zenon
  <2>2. Into(rank, S, 1..c)
    BY <1>4, <1>6, Zenon DEF Into
  <2>3. Reaches(rank, S, 1..c)
    BY <2>1, <2>2, IntoIs, Zenon
  <2>4. QED
    BY <2>3, Zenon DEF Reaches
<1>8. PICK q : q = sort_by(S)
  OBVIOUS
<1>9. q = [i \in 1..c |-> CHOOSE x \in S : Cardinality(Under(S, x)) = i - 1]
  BY <1>1, <1>8, Zenon DEF sort_by, Under
<1>10. Len(q) = c
  BY <1>9
<1>11. ASSUME NEW i \in 1..c PROVE q[i] \in S /\ rank[q[i]] = i
  <2>1. q[i] = CHOOSE x \in S : Cardinality(Under(S, x)) = i - 1
    BY <1>9, Zenon
  <2>2. PICK x \in S : rank[x] = i
    BY <1>7, Zenon
  <2>3. ASSUME NEW y \in S PROVE Cardinality(Under(S, y)) = i - 1 <=> rank[y] = i
    <3>1. PICK a \in Nat : a = Cardinality(Under(S, y))
      <4>1. Under(S, y) \in SUBSET S
        BY Zenon DEF Under
      <4>2. QED
        BY <4>1, F!FS_Subset, F!FS_CardinalityType, SameSets, Zenon
    <3>2. a = i - 1 <=> a + 1 = i
      OBVIOUS
    <3>3. QED
      BY <1>3, <3>1, <3>2, Zenon
  <2>4. q[i] \in S /\ Cardinality(Under(S, q[i])) = i - 1
    BY <2>1, <2>2, <2>3, Zenon
  <2>5. QED
    BY <2>3, <2>4, Zenon
<1>12. Covers(q, c, S)
  <2>1. ASSUME NEW x \in S PROVE \E i \in 1..c : x = q[i]
    <3>1. PICK i \in 1..c : i = rank[x]
      BY <1>3, Zenon
    <3>2. QED
      BY <1>6, <1>11, <3>1, Zenon
  <2>2. QED
    BY <1>11, <2>1, Zenon DEF Covers
<1>13. Increasing(q, c)
  <2>1. ASSUME NEW i \in 1..c, NEW j \in 1..c, i < j PROVE q[i] < q[j]
    <3>1. PICK x, y \in S : x = q[i] /\ y = q[j] /\ rank[x] = i /\ rank[y] = j
      BY <1>11, Zenon
    <3>2. CASE x < y
      BY <3>1, <3>2, Zenon
    <3>3. CASE ~(x < y)
      <4>1. x = y \/ y < x
        BY <3>3
      <4>2. i = j \/ j < i
        BY <1>5, <3>1, <4>1, Zenon
      <4>3. QED
        BY <2>1, <4>2, SMTT(30)
    <3>4. QED
      BY <3>2, <3>3, Zenon
  <2>2. QED
    BY <2>1, Zenon DEF Increasing
<1>14. QED
  BY <1>1, <1>8, <1>10, <1>12, <1>13, Zenon DEF Ranked

LEMMA ListingHolds == Listing
<1>1. ASSUME NEW m \in Nat, NEW n \in Nat, NEW Q \in [1..m -> 1..n], Increasing(Q, m)
      PROVE  m <= n
  <2>1. \A i, j \in 1..m : Q[i] = Q[j] => i = j
    BY <1>1, IncreasingIs, Zenon
  <2>2. Into(Q, 1..m, 1..n)
    BY <2>1, Zenon DEF Into
  <2>3. Cardinality(1..m) <= Cardinality(1..n)
    BY <2>2, UpTo, IntoIs, Zenon
  <2>4. QED
    BY <2>3, UpTo, Zenon
<1>2. ASSUME NEW m \in Nat, NEW n \in Nat, NEW Q \in [1..m -> 1..n], NEW K,
             Increasing(Q, m), Covers(Q, m, K)
      PROVE  Cardinality(K) = m
  <2>1. \A i, j \in 1..m : Q[i] = Q[j] => i = j
    BY <1>2, IncreasingIs, Zenon
  <2>2. Q \in [1..m -> K]
    BY <1>2 DEF Covers
  <2>3. \A k \in K : \E i \in 1..m : Q[i] = k
    BY <1>2, Zenon DEF Covers
  <2>4. Cardinality(K) = Cardinality(1..m)
    BY <2>1, <2>2, <2>3, UpTo, OntoIs, Zenon
  <2>5. QED
    BY <2>4, UpTo, Zenon
<1>3. ASSUME NEW l, NEW n \in Nat
      PROVE  IsFiniteSet({l.events[k].stream_id : k \in 1..n})
  <2>1. PICK T : T = {l.events[k].stream_id : k \in 1..n}
    OBVIOUS
  <2>2. PICK f : f = [k \in 1..n |-> l.events[k].stream_id]
    OBVIOUS
  <2>3. f \in [1..n -> T] /\ \A t \in T : \E k \in 1..n : f[k] = t
    BY <2>1, <2>2
  <2>4. IsFiniteSet(T)
    BY <2>3, UpTo, OntoIs, Zenon
  <2>5. QED
    BY <2>1, <2>4, Zenon
<1>4. QED
  BY <1>1, <1>2, <1>3, RankedIs, Zenon DEF Listing

-----------------------------------------------------------------------------
(* The theorems.                                                           *)

(* The strengthening that the other theorems rest on: at every step of     *)
(* main, of the handlers and of the writer task.                           *)
THEOREM ServerInvariance == Spec => []ServerInv
<1>1. Init => ServerInv
  BY InitInv, CountingHolds
<1>2. ServerInv /\ [Next]_vars => ServerInv'
  BY StepInv, CountingHolds
<1>3. QED
  BY <1>1, <1>2, PTL DEF Spec

(* An OK from append names where the events of the request are, all of     *)
(* them, in order and only there; any other status left nothing in the     *)
(* index (service.rs append, writer.rs), whoever hung up in between.       *)
THEOREM AppendsAnsweredAsWritten == Spec => []AppendAnswers
<1>1. ServerInv => AppendAnswers
  BY Zenon DEF ServerInv
<1>2. QED
  BY <1>1, ServerInvariance, PTL

(* The counters cover every append that was answered, are those of the log *)
(* between two calls, and the gauge is the number of running streams:      *)
(* writer.rs counts before it answers, and Drop of SubscriptionGauge runs  *)
(* whichever way a stream ends.                                            *)
THEOREM MetricsCoverAnswers == Spec => []MetricsExact
<1>1. ASSUME ServerInv PROVE MetricsExact
  <2>1. MetricsInv /\ GaugeInv /\ LogInv /\ TypeOK
    BY <1>1, Zenon DEF ServerInv
  <2>2. \A c \in Answers("append") : call[c].resp.status = "OK" =>
          /\ metrics.global_position > call[c].resp.body.last_global_position
          /\ metrics.events > call[c].resp.body.last_global_position - base
    BY <2>1, Zenon DEF MetricsInv, Answers, Succeeded
  <2>3. ASSUME writer = "up"
        PROVE  /\ metrics.events = Len(log.events) - base
               /\ metrics.appends > 0 =>
                    /\ metrics.global_position = Len(log.events)
                    /\ metrics.streams =
                         Cardinality({log.events[k].stream_id : k \in 1..Len(log.events)})
    <3>1. writer \in Alive /\ writer \in {"up", "counted"} /\ Uncounted = 0
      BY <2>3 DEF Alive, Uncounted
    <3>2. Len(log.events) - base - 0 = Len(log.events) - base
      BY <2>1 DEF TypeOK
    <3>3. QED
      BY <2>1, <3>1, <3>2, Zenon DEF MetricsInv, LogInv
  <2>4. QED
    BY <2>1, <2>2, <2>3, Zenon DEF MetricsExact, GaugeInv
<1>2. ServerInv => MetricsExact
  BY <1>1, Zenon
<1>3. QED
  BY <1>2, ServerInvariance, PTL

(* Nothing is written or read on a call that the interceptor turned away,  *)
(* and a server that accepts calls has the TLS that was asked for          *)
(* (Config::from_env, JwtInterceptor).                                     *)
THEOREM CallsGuardedAsConfigured == Spec => []GuardedAsConfigured
<1>1. ASSUME ServerInv PROVE GuardedAsConfigured
  <2>1. CallInv /\ PhaseInv
    BY <1>1, Zenon DEF ServerInv
  <2>2. ASSUME config.jwt_secret, NEW c \in Clients,
               call[c].req.rpc \notin {"none", "check"}, ~intercept(call[c].req.auth)
        PROVE  /\ call[c].state \in {"arrived", "answered"}
               /\ call[c].resp.status \in {"none", "UNAUTHENTICATED"}
               /\ Mine(log, call[c].id) = {}
    <3>1. CallOK(call[c], calls, config.jwt_secret)
      BY <2>1, Zenon DEF CallInv
    <3>2. ~Admits(config.jwt_secret, call[c].req)
      BY <2>2 DEF Admits
    <3>3. call[c].state # "idle"
      <4>1. Idle.req.rpc \in {"none", "check"}
        BY IdleIs
      <4>2. QED
        BY <2>2, <3>1, <4>1, Zenon DEF CallOK
    <3>4. call[c].state = "arrived" \/ call[c].state = "answered"
      <4>1. /\ call[c].state \in Undecided \cup {"idle", "answered"}
            /\ call[c].state \notin {"queued", "created", "streaming"}
        BY <3>1, <3>2, Zenon DEF CallOK
      <4>2. QED
        BY <3>3, <4>1 DEF Undecided
    <3>5. call[c].state = "arrived" => call[c].resp = Status("none")
      <4>1. "arrived" \in Undecided
        BY DEF Undecided
      <4>2. QED
        BY <3>1, <4>1, Zenon DEF CallOK
    <3>6. call[c].state = "answered" => call[c].resp.status = "UNAUTHENTICATED"
      BY <3>1, <3>2, Zenon DEF CallOK
    <3>7. call[c].resp.status \in {"none", "UNAUTHENTICATED"}
      BY <3>4, <3>5, <3>6, ResponseIs, SMTT(30)
    <3>8. call[c].id # 0
      BY <3>1, <3>3, Zenon DEF CallOK
    <3>9. call[c].state # "queued" /\ ~Succeeded(call[c])
      BY <3>4, <3>7 DEF Succeeded
    <3>10. QED
      BY <1>1, <3>4, <3>7, <3>8, <3>9, NothingWritten, Zenon
  <2>3. ASSUME phase \in Accepting
        PROVE  /\ (env.cert \/ env.key \/ env.ca) => config.tls
               /\ env.ca => config.mtls
    <3>1. phase \notin {"config", "exited"}
      BY <2>3 DEF Accepting
    <3>2. config.ok
      BY <2>1, <3>1, Zenon DEF PhaseInv
    <3>3. ~tls_unsound(env)
      BY <3>2 DEF config, from_env
    <3>4. env.cert = env.key /\ (env.ca => env.cert)
      BY <3>3, Zenon DEF tls_unsound
    <3>5. (config.tls <=> env.cert /\ env.key)
          /\ (config.mtls <=> env.cert /\ env.key /\ env.ca)
      BY DEF config, from_env
    <3>6. QED
      BY <3>4, <3>5, Zenon
  <2>4. QED
    BY <2>2, <2>3, Zenon DEF GuardedAsConfigured
<1>2. ServerInv => GuardedAsConfigured
  BY <1>1, Zenon
<1>3. QED
  BY <1>2, ServerInvariance, PTL

(* Of a name that a client was told no longer serves, no check that is     *)
(* still to be answered is told that it does, and once that was the event  *)
(* store's name, or the server drains, neither is a check of any name: the *)
(* shutdown future of main.rs sets the two statuses in turn, the server's  *)
(* first, and never sets them back.                                        *)
THEOREM HealthNeverRecovers == Spec => HealthOnlyFalls
<1>1. ASSUME ServerInv, [Next]_vars, NEW d \in Clients,
             call[d].state = "arrived", call[d].req.rpc = "check",
             \/ phase \in Ending
             \/ \E c \in Answers("check") :
                  /\ call[c].resp = Response("NotServing")
                  /\ call[c].req.service = "" => call[d].req.service = ""
      PROVE  call'[d].resp # Response("Serving")
  <2>1. PICK name : name = call[d].req.service
    BY Zenon
  <2>2. InFlight(d)
    BY <1>1 DEF InFlight
  <2>3. phase \in Accepting \cup {"draining"} /\ call[d].resp = Status("none")
    BY <1>1, <2>2, CallFacts, Zenon
  <2>4. phase # "exited" /\ Ending \subseteq Leaving
    BY <2>3 DEF Accepting, Ending, Leaving
  <2>5. phase \in Fallen(name)
    <3>1. CASE phase \in Ending
      BY <2>4, <3>1, Zenon DEF Fallen
    <3>2. CASE \E c \in Answers("check") :
                 /\ call[c].resp = Response("NotServing")
                 /\ call[c].req.service = "" => call[d].req.service = ""
      <4>1. PICK c \in Answers("check") :
                  /\ call[c].resp = Response("NotServing")
                  /\ call[c].req.service = "" => name = ""
        BY <2>1, <3>2, Zenon
      <4>2. phase \in Fallen(call[c].req.service)
        BY <1>1, <2>4, <4>1, Zenon DEF ServerInv, HealthInv
      <4>3. QED
        BY <2>4, <4>1, <4>2, Zenon DEF Fallen
    <3>3. QED
      BY <1>1, <3>1, <3>2, Zenon
  <2>6. name \in Names => health[name] = "NotServing"
    BY <1>1, <2>5, Zenon DEF ServerInv, HealthInv
  <2>7. /\ Status("none") # Response("Serving")
        /\ Status("UNAUTHENTICATED") # Response("Serving")
        /\ Status("NOT_FOUND") # Response("Serving")
        /\ Response("NotServing") # Response("Serving")
    BY DEF Status, Response
  <2>8. ServingStatus(name) # Response("Serving")
    BY <2>6, <2>7, Zenon DEF ServingStatus
  <2>9. CheckBecomes(d)
    BY <1>1, StepCheck, Zenon
  <2>10. QED
    BY <2>1, <2>3, <2>7, <2>8, <2>9, IdleIs, Zenon DEF CheckBecomes
<1>2. ServerInv /\ [Next]_vars =>
        [\A d \in Clients :
           /\ call[d].state = "arrived" /\ call[d].req.rpc = "check"
           /\ \/ phase \in Ending
              \/ \E c \in Answers("check") :
                   /\ call[c].resp = Response("NotServing")
                   /\ call[c].req.service = "" => call[d].req.service = ""
           => call'[d].resp # Response("Serving")]_vars
  BY <1>1, Zenon
<1>3. QED
  BY <1>2, ServerInvariance, PTL DEF Spec, HealthOnlyFalls

(* Exit code 0 means that the health service was told, the writer task     *)
(* ended with its channel empty, and no call was under way: main joins     *)
(* the task only after the server has drained (main.rs).                   *)
THEOREM ExitZeroAfterDrain == Spec => ExitZeroIsClean
<1>1. ASSUME ServerInv, [Next]_vars, code' = 0, code = -1
      PROVE  /\ health[""] = "NotServing"
             /\ writer = "exited" /\ queue = <<>>
             /\ \A c \in Clients : ~InFlight(c)
  <2>1. code' # code /\ \A e \in {1, 101} : code' # e
    BY <1>1
  <2>2. phase = "join" /\ writer = "exited"
    BY <1>1, <2>1, StepCode, Zenon
  <2>3. /\ phase \in Leaving /\ phase \notin Accepting \cup {"draining"}
        /\ writer \notin Alive
    BY <2>2 DEF Leaving, Accepting, Alive
  <2>4. HealthInv /\ TaskInv /\ PhaseInv
    BY <1>1, Zenon DEF ServerInv
  <2>5. "" \in Names /\ phase \in Fallen("")
    BY <2>3 DEF Names, Fallen
  <2>6. QED
    BY <2>2, <2>3, <2>4, <2>5, Zenon DEF HealthInv, TaskInv, PhaseInv
<1>2. ServerInv /\ [Next]_vars =>
        [(code' = 0 /\ code = -1) =>
           /\ health[""] = "NotServing"
           /\ writer = "exited" /\ queue = <<>>
           /\ \A c \in Clients : ~InFlight(c)]_vars
  BY <1>1, Zenon
<1>3. QED
  BY <1>2, ServerInvariance, PTL DEF Spec, ExitZeroIsClean

(* The index stays in order under every append, and no later step makes    *)
(* untrue what a read was told (reader.rs, EventLog of store.rs).          *)
THEOREM ReadsInvariance == Spec => []ReadsInv
<1>1. Init => ReadsInv
  BY InitReads
<1>2. ServerInv /\ ReadsInv /\ [Next]_vars => ReadsInv'
  BY StepReads, ListingHolds
<1>3. QED
  BY <1>1, <1>2, ServerInvariance, PTL DEF Spec

(* A read that was answered had every event of its range, each of them     *)
(* once and in order, as the log was when the read held the lock           *)
(* (reader.rs, service.rs), however often it has grown since; a listing    *)
(* had every stream with its count.  A range ends at u64::MAX              *)
(* (saturating_add), so a position there is not read.                      *)
THEOREM ReadsAsOfTheirTime == Spec => [](Len(log.events) <= MaxU64 => ReadsExact)
<1>1. ServerInv /\ ReadsInv => (Len(log.events) <= MaxU64 => ReadsExact)
  BY ReadsNow
<1>2. QED
  BY <1>1, ServerInvariance, ReadsInvariance, PTL
====
