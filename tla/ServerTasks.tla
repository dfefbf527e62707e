---------------------------- MODULE ServerTasks -----------------------------
(***************************************************************************)
(* The steps of the two tasks of the process keep ServerInv: those of main, *)
(* from LoadConfig to the exit, and those of the writer task.              *)
(***************************************************************************)
EXTENDS ServerLemmas

-----------------------------------------------------------------------------
(* Steps of main that touch neither the calls nor the log.                 *)

MainMoves ==
  /\ UNCHANGED <<env, queue, log, call, calls, base>>
  /\ metrics' = metrics \/ metrics' = [metrics EXCEPT !.installed = TRUE]
  /\ writer' = writer \/ (phase = "writer" /\ writer' = "up")
  /\ DOMAIN health' = Names

LEMMA MainMetrics ==
  ASSUME TypeOK, metrics' = metrics \/ metrics' = [metrics EXCEPT !.installed = TRUE]
  PROVE  /\ DOMAIN metrics' = DOMAIN metrics
         /\ metrics'.events = metrics.events /\ metrics'.appends = metrics.appends
         /\ metrics'.global_position = metrics.global_position
         /\ metrics'.streams = metrics.streams
         /\ metrics'.subscriptions = metrics.subscriptions
         /\ metrics.installed => metrics'.installed
BY DEF TypeOK, NoMetrics

LEMMA MainKeeps ==
  ASSUME ServerInv, MainMoves
  PROVE  /\ TypeOK' /\ TaskInv' /\ CallInv' /\ IdsInv' /\ QueueInv' /\ LogInv'
         /\ WrittenInv' /\ TailInv' /\ AppendAnswers' /\ MetricsInv' /\ GaugeInv'
<1>1. /\ TypeOK /\ PhaseInv /\ TaskInv /\ CallInv /\ IdsInv /\ QueueInv /\ LogInv
      /\ WrittenInv /\ TailInv /\ AppendAnswers /\ MetricsInv /\ GaugeInv
  BY Zenon DEF ServerInv
<1>2. /\ env' = env /\ queue' = queue /\ log' = log /\ call' = call
      /\ calls' = calls /\ base' = base /\ DOMAIN health' = Names
      /\ writer' = writer \/ (phase = "writer" /\ writer' = "up")
  BY Zenon DEF MainMoves
<1>3. /\ DOMAIN metrics' = DOMAIN metrics
      /\ metrics'.events = metrics.events /\ metrics'.appends = metrics.appends
      /\ metrics'.global_position = metrics.global_position
      /\ metrics'.streams = metrics.streams
      /\ metrics'.subscriptions = metrics.subscriptions
  BY <1>1, MainMetrics, Zenon DEF MainMoves
<1>4. ASSUME writer' # writer
      PROVE  writer = "none" /\ writer' = "up" /\ metrics.events = 0
             /\ metrics.appends = 0 /\ base = Len(log.events)
  BY <1>1, <1>2, <1>4, Zenon DEF PhaseInv, Starting
<1>5. TypeOK'
  BY <1>1, <1>2, <1>3, Zenon DEF TypeOK
<1>6. TaskInv'
  BY <1>1, <1>2, <1>4 DEF TaskInv, Alive
<1>7. CallInv' /\ IdsInv' /\ QueueInv' /\ LogInv' /\ AppendAnswers' /\ GaugeInv'
  <2>1. CallInv'
    BY <1>1, <1>2, Zenon DEF CallInv, config
  <2>2. IdsInv'
    BY <1>1, <1>2, Zenon DEF IdsInv
  <2>3. QueueInv'
    BY <1>1, <1>2, QueueSame, Zenon
  <2>4. LogInv'
    BY <1>1, <1>2, Zenon DEF LogInv
  <2>5. AppendAnswers'
    BY <1>1, <1>2, Zenon DEF AppendAnswers, Answers
  <2>6. GaugeInv'
    BY <1>1, <1>2, <1>3, Zenon DEF GaugeInv
  <2>7. QED
    BY <2>1, <2>2, <2>3, <2>4, <2>5, <2>6, Zenon
<1>8. WrittenInv' /\ TailInv' /\ MetricsInv'
  <2>1. CASE writer' = writer
    BY <1>1, <1>2, <1>3, <2>1, Zenon
       DEF WrittenInv, TailInv, MetricsInv, Fresh, Current, Uncounted
  <2>2. CASE writer' # writer
    <3>1. queue = <<>> /\ Len(log.events) \in Nat /\ metrics.events = 0
      BY <1>1, <1>4, <2>2, SeqIn DEF TaskInv, Alive, TypeOK
    <3>2. WrittenInv'
      BY <1>1, <1>2, <3>1, NoElement, Zenon DEF WrittenInv
    <3>3. TailInv'
      BY <1>4, <2>2 DEF TailInv
    <3>4. MetricsInv'
      BY <1>1, <1>2, <1>3, <1>4, <2>2, <3>1 DEF MetricsInv, Uncounted
    <3>5. QED
      BY <3>2, <3>3, <3>4, Zenon
  <2>3. QED
    BY <2>1, <2>2, Zenon
<1>9. QED
  BY <1>5, <1>6, <1>7, <1>8, Zenon

(* The phase and the health service.                                       *)
Kept ==
  /\ config' = config /\ log' = log /\ call' = call
  /\ calls' = calls /\ base' = base
  /\ metrics'.events = metrics.events /\ metrics'.appends = metrics.appends
  /\ metrics'.global_position = metrics.global_position

LEMMA MainFacts ==
  ASSUME ServerInv, MainMoves
  PROVE  PhaseInv /\ HealthInv /\ Kept /\ (metrics.installed => metrics'.installed)
<1>1. TypeOK /\ PhaseInv /\ HealthInv
  BY Zenon DEF ServerInv
<1>2. /\ config' = config /\ log' = log /\ call' = call
      /\ calls' = calls /\ base' = base
  BY Zenon DEF MainMoves, config
<1>3. QED
  BY <1>1, <1>2, MainMetrics, Zenon DEF MainMoves, Kept

(* While it starts, all is idle and nothing is counted.                    *)
LEMMA StartPhase ==
  ASSUME PhaseInv, HealthInv, Kept, phase \in Starting, phase' \in Starting,
         phase # "config" \/ config.ok,
         \A n \in Names : health'[n] # "NotServing",
         phase' \in {"config", "open", "broker", "writer"} => writer' = "none",
         phase' \in {"metrics", "tls", "bind", "set_service", "set_server"} =>
           metrics'.installed
  PROVE  PhaseInv' /\ HealthInv'
<1>1. \A c \in Clients : call[c] = Idle
  BY Zenon DEF PhaseInv
<1>2. \A c \in Clients : call'[c] = Idle /\ ~InFlight(c)'
  BY <1>1, IdleIs, Zenon DEF Kept, InFlight
<1>3. phase # "exited" /\ phase' \notin Leaving \cup Accepting \cup Ending \cup {"exited"}
  BY DEF Starting, Leaving, Accepting, Ending
<1>4. config'.ok
  BY <1>3, Zenon DEF PhaseInv, Kept
<1>5. /\ calls' = 0 /\ metrics'.appends = 0 /\ metrics'.events = 0
      /\ metrics'.global_position = 0 /\ base' = Len(log'.events)
  BY Zenon DEF PhaseInv, Kept
<1>6. PhaseInv'
  BY <1>2, <1>3, <1>4, <1>5, Zenon DEF PhaseInv, Phases
<1>7. Answers("check")' = {}
  BY <1>2, IdleIs DEF Answers
<1>8. HealthInv'
  BY <1>3, <1>7, Zenon DEF HealthInv, Fallen
<1>9. QED
  BY <1>6, <1>8, Zenon

(* Once it serves, the recorder is installed.                              *)
LEMMA ServePhase ==
  ASSUME PhaseInv, HealthInv, Kept, metrics'.installed, phase # "exited",
         phase # "config", phase' \in Accepting \cup Ending,
         phase \in Leaving => phase' \in Leaving,
         phase \in Ending => phase' \in Ending,
         \A n \in Names : phase' \in Fallen(n) <=> health'[n] = "NotServing",
         \A c \in Clients : InFlight(c) => phase' \in Accepting \cup {"draining"}
  PROVE  PhaseInv' /\ HealthInv'
<1>1. /\ phase' \in Phases
      /\ phase' \notin Starting \cup {"exited", "config", "open", "broker", "writer"}
  BY DEF Accepting, Ending, Phases, Starting
<1>2. /\ config'.ok
      /\ \A c \in Clients : InFlight(c)' => phase' \in Accepting \cup {"draining"}
  BY Zenon DEF PhaseInv, Kept, InFlight
<1>3. PhaseInv'
  BY <1>1, <1>2, Zenon DEF PhaseInv
<1>4. Answers("check")' = Answers("check")
  BY Zenon DEF Answers, Kept
<1>5. \A n : phase \in Fallen(n) \cup {"exited"} => phase' \in Fallen(n) \cup {"exited"}
  BY Zenon DEF Fallen
<1>6. HealthInv'
  BY <1>4, <1>5, Zenon DEF HealthInv, Kept
<1>7. QED
  BY <1>3, <1>6, Zenon

LEMMA StartStep ==
  ASSUME ServerInv, MainMoves, phase \in Starting, phase' \in Starting,
         phase # "config" \/ config.ok,
         \A n \in Names : health'[n] # "NotServing",
         phase' \in {"config", "open", "broker", "writer"} => writer' = "none",
         phase' \in {"metrics", "tls", "bind", "set_service", "set_server"} =>
           metrics'.installed
  PROVE  ServerInv'
BY MainKeeps, MainFacts, StartPhase, Zenon DEF ServerInv

LEMMA ServeStep ==
  ASSUME ServerInv, MainMoves, metrics.installed, phase # "exited",
         phase # "config", phase' \in Accepting \cup Ending,
         phase \in Leaving => phase' \in Leaving,
         phase \in Ending => phase' \in Ending,
         \A n \in Names : phase' \in Fallen(n) <=> health'[n] = "NotServing",
         \A c \in Clients : InFlight(c) => phase' \in Accepting \cup {"draining"}
  PROVE  ServerInv'
BY MainKeeps, MainFacts, ServePhase, Zenon DEF ServerInv

(* The wiring and the health service do not change.                        *)
Quiet == UNCHANGED <<env, health, wiring, log, call, calls, telemetry, base>>

LEMMA QuietMoves ==
  ASSUME ServerInv, Quiet
  PROVE  MainMoves /\ writer' = writer /\ health' = health /\ metrics' = metrics
<1>1. DOMAIN health = Names
  BY Zenon DEF ServerInv, TypeOK
<1>2. QED
  BY <1>1, Zenon DEF Quiet, MainMoves, wiring, telemetry

LEMMA StartHealth ==
  ASSUME ServerInv
  PROVE  /\ phase \in Starting \cup {"serving", "unset_server"} =>
              \A n \in Names : health[n] # "NotServing"
         /\ phase # "exited" =>
              \A n \in Names : phase \in Fallen(n) <=> health[n] = "NotServing"
         /\ phase \in {"config", "open", "broker", "writer"} => writer = "none"
         /\ phase \in {"metrics", "tls", "bind", "set_service", "set_server"} =>
              metrics.installed
         /\ phase \in Accepting \cup Ending => metrics.installed
         /\ \A c \in Clients : InFlight(c) => phase \in Accepting \cup {"draining"}
<1>1. HealthInv /\ PhaseInv
  BY Zenon DEF ServerInv
<1>2. phase \in Starting \cup {"serving", "unset_server"} =>
        \A n : phase \notin Fallen(n) \cup {"exited"}
  BY DEF Starting, Leaving, Ending, Fallen
<1>3. QED
  BY <1>1, <1>2, Zenon DEF HealthInv, PhaseInv

LEMMA StartAdvances ==
  ASSUME ServerInv, Quiet,
         \/ Advance("config", "open") /\ config.ok
         \/ Advance("broker", "writer")
         \/ Advance("tls", "bind")
         \/ Advance("bind", "set_service")
  PROVE  ServerInv'
<1>1. /\ phase \in Starting /\ phase' \in Starting
      /\ phase # "config" \/ config.ok
      /\ phase' \in {"config", "open", "broker", "writer"} =>
           phase \in {"config", "open", "broker", "writer"}
      /\ phase' \in {"metrics", "tls", "bind", "set_service", "set_server"} =>
           phase \in {"metrics", "tls", "bind", "set_service", "set_server"}
  BY DEF Advance, Starting
<1>2. \A n \in Names : health'[n] # "NotServing"
  BY <1>1, StartHealth, QuietMoves, Zenon
<1>3. QED
  BY <1>1, <1>2, StartHealth, QuietMoves, StartStep, Zenon

LEMMA SpawnWriterStep ==
  ASSUME ServerInv, SpawnWriter
  PROVE  ServerInv'
<1>1. DOMAIN health = Names
  BY Zenon DEF ServerInv, TypeOK
<1>2. MainMoves
  BY <1>1, Zenon DEF SpawnWriter, Advance, MainMoves, telemetry
<1>3. /\ phase = "writer" /\ phase' = "recorder" /\ health' = health
  BY Zenon DEF SpawnWriter, Advance
<1>4. phase \in Starting /\ phase' \in Starting
  BY <1>3 DEF Starting
<1>5. QED
  BY <1>2, <1>3, <1>4, StartHealth, StartStep

LEMMA install_recorderStep ==
  ASSUME ServerInv, install_recorder
  PROVE  ServerInv'
<1>1. DOMAIN health = Names /\ TypeOK
  BY Zenon DEF ServerInv, TypeOK
<1>2. MainMoves
  BY <1>1, Zenon DEF install_recorder, Advance, MainMoves, wiring
<1>3. /\ phase = "recorder" /\ phase' = "metrics" /\ health' = health
  BY Zenon DEF install_recorder, Advance
<1>4. phase \in Starting /\ phase' \in Starting
  BY <1>3 DEF Starting
<1>5. metrics'.installed
  BY <1>1 DEF install_recorder, TypeOK, NoMetrics
<1>6. QED
  BY <1>2, <1>3, <1>4, <1>5, StartHealth, StartStep

LEMMA serve_metricsStep ==
  ASSUME ServerInv, serve_metrics
  PROVE  ServerInv'
<1>1. DOMAIN health = Names
  BY Zenon DEF ServerInv, TypeOK
<1>2. MainMoves
  BY <1>1, Zenon DEF serve_metrics, Advance, MainMoves, wiring
<1>3. /\ phase = "metrics" /\ phase' = "tls" /\ health' = health
      /\ metrics' = metrics
  BY Zenon DEF serve_metrics, Advance
<1>4. phase \in Starting /\ phase' \in Starting
  BY <1>3 DEF Starting
<1>5. QED
  BY <1>2, <1>3, <1>4, StartHealth, StartStep

LEMMA HealthMoves ==
  ASSUME ServerInv, NEW name \in Names, NEW status, SetHealth(name, status)
  PROVE  /\ MainMoves /\ writer' = writer /\ metrics' = metrics
         /\ \A n \in Names : health'[n] = IF n = name THEN status ELSE health[n]
<1>1. DOMAIN health = Names
  BY Zenon DEF ServerInv, TypeOK
<1>2. DOMAIN health' = Names
  BY <1>1 DEF SetHealth
<1>3. MainMoves /\ writer' = writer /\ metrics' = metrics
  BY <1>2, Zenon DEF SetHealth, MainMoves, wiring, telemetry
<1>4. \A n \in Names : health'[n] = IF n = name THEN status ELSE health[n]
  BY <1>1 DEF SetHealth, Names
<1>5. QED
  BY <1>3, <1>4, Zenon

LEMMA SetServingStep ==
  ASSUME ServerInv, SetServing
  PROVE  ServerInv'
<1>1. CASE Advance("set_service", "set_server")
           /\ SetHealth("eventfold.EventStore", "Serving")
  <2>1. phase = "set_service" /\ phase' = "set_server"
    BY <1>1, Zenon DEF Advance
  <2>2. phase \in Starting /\ phase' \in Starting /\ "eventfold.EventStore" \in Names
    BY <2>1 DEF Starting, Names
  <2>3. MainMoves /\ metrics' = metrics
    BY <1>1, <2>2, HealthMoves, Zenon
  <2>4. \A n \in Names : health'[n] # "NotServing"
    <3>1. \A n \in Names : health'[n] = IF n = "eventfold.EventStore" THEN "Serving" ELSE health[n]
      BY <1>1, <2>2, HealthMoves, Zenon
    <3>2. \A n \in Names : health[n] # "NotServing"
      BY <2>1, <2>2, StartHealth
    <3>3. QED
      BY <3>1, <3>2
  <2>5. QED
    BY <2>1, <2>2, <2>3, <2>4, StartHealth, StartStep
<1>2. CASE Advance("set_server", "serving") /\ SetHealth("", "Serving")
  <2>1. phase = "set_server" /\ phase' = "serving"
    BY <1>2, Zenon DEF Advance
  <2>2. /\ phase \in Starting /\ "" \in Names
        /\ phase' \in Accepting \cup Ending /\ \A n : phase' \notin Fallen(n)
        /\ phase \notin Accepting \cup {"draining"}
        /\ phase \notin Leaving /\ phase \notin Ending
    BY <2>1 DEF Starting, Names, Accepting, Ending, Leaving, Fallen
  <2>3. MainMoves /\ metrics' = metrics
    BY <1>2, <2>2, HealthMoves, Zenon
  <2>4. \A n \in Names : health'[n] # "NotServing"
    <3>1. \A n \in Names : health'[n] = IF n = "" THEN "Serving" ELSE health[n]
      BY <1>2, <2>2, HealthMoves, Zenon
    <3>2. \A n \in Names : health[n] # "NotServing"
      BY <2>1, <2>2, StartHealth
    <3>3. QED
      BY <3>1, <3>2
  <2>5. QED
    BY <2>1, <2>2, <2>3, <2>4, StartHealth, ServeStep
<1>3. QED
  BY <1>1, <1>2, Zenon DEF SetServing

LEMMA SetNotServingStep ==
  ASSUME ServerInv, SetNotServing
  PROVE  ServerInv'
<1>1. CASE Advance("unset_server", "unset_service") /\ SetHealth("", "NotServing")
  <2>1. phase = "unset_server" /\ phase' = "unset_service"
    BY <1>1, Zenon DEF Advance
  <2>2. /\ phase \in Accepting /\ "" \in Names /\ phase' \in Accepting
        /\ phase' \in Leaving /\ phase \notin Ending
        /\ \A n : phase' \in Fallen(n) <=> n = ""
    BY <2>1 DEF Names, Accepting, Leaving, Ending, Fallen
  <2>3. MainMoves /\ metrics' = metrics
    BY <1>1, <2>2, HealthMoves, Zenon
  <2>4. \A n \in Names : phase' \in Fallen(n) <=> health'[n] = "NotServing"
    <3>1. \A n \in Names : health[n] # "NotServing"
      BY <2>1, StartHealth
    <3>2. \A n \in Names : health'[n] = IF n = "" THEN "NotServing" ELSE health[n]
      BY <1>1, <2>2, HealthMoves, Zenon
    <3>3. QED
      BY <2>2, <3>1, <3>2
  <2>5. QED
    BY <2>1, <2>2, <2>3, <2>4, StartHealth, ServeStep
<1>2. CASE Advance("unset_service", "draining")
           /\ SetHealth("eventfold.EventStore", "NotServing")
  <2>1. phase = "unset_service" /\ phase' = "draining"
    BY <1>2, Zenon DEF Advance
  <2>2. /\ phase \in Accepting /\ "eventfold.EventStore" \in Names
        /\ phase' \in Ending /\ phase \in Leaving /\ phase' \in Leaving
        /\ phase \in Fallen("") /\ \A n : phase' \in Fallen(n)
    BY <2>1 DEF Names, Accepting, Ending, Leaving, Fallen
  <2>3. MainMoves /\ metrics' = metrics
    BY <1>2, <2>2, HealthMoves, Zenon
  <2>4. \A n \in Names : health'[n] = "NotServing"
    <3>1. "" \in Names /\ \A n \in Names : n = "" \/ n = "eventfold.EventStore"
      BY DEF Names
    <3>2. health[""] = "NotServing"
      BY <2>1, <2>2, <3>1, StartHealth
    <3>3. \A n \in Names : health'[n] =
            IF n = "eventfold.EventStore" THEN "NotServing" ELSE health[n]
      BY <1>2, <2>2, HealthMoves, Zenon
    <3>4. QED
      BY <3>1, <3>2, <3>3
  <2>5. QED
    BY <2>1, <2>2, <2>3, <2>4, StartHealth, ServeStep
<1>3. QED
  BY <1>1, <1>2, Zenon DEF SetNotServing

LEMMA EndAdvances ==
  ASSUME ServerInv,
         \/ shutdown_signal
         \/ Drain
         \/ AbortMetrics
  PROVE  ServerInv'
<1>1. CASE shutdown_signal
  <2>1. phase = "serving" /\ phase' = "unset_server" /\ Quiet
    BY <1>1, Zenon DEF shutdown_signal, Advance, Quiet
  <2>2. /\ phase \in Accepting /\ phase' \in Accepting /\ phase \notin Leaving
        /\ phase \notin Ending /\ \A n : phase' \notin Fallen(n)
    BY <2>1 DEF Accepting, Leaving, Ending, Fallen
  <2>3. \A n \in Names : health'[n] # "NotServing"
    BY <2>1, QuietMoves, StartHealth
  <2>4. QED
    BY <2>1, <2>2, <2>3, QuietMoves, StartHealth, ServeStep
<1>2. CASE Drain
  <2>1. /\ phase = "draining" /\ phase' = "abort" /\ Quiet
        /\ \A c \in Clients : ~InFlight(c)
    BY <1>2, Zenon DEF Drain, Advance, Quiet
  <2>2. /\ phase \in Ending /\ phase' \in Ending /\ phase \in Leaving /\ phase' \in Leaving
        /\ \A n : phase \in Fallen(n) /\ phase' \in Fallen(n)
    BY <2>1 DEF Ending, Leaving, Fallen
  <2>3. \A n \in Names : health'[n] = "NotServing"
    BY <2>1, <2>2, QuietMoves, StartHealth
  <2>4. QED
    BY <2>1, <2>2, <2>3, QuietMoves, StartHealth, ServeStep
<1>3. CASE AbortMetrics
  <2>1. phase = "abort" /\ phase' = "join" /\ health' = health
    BY <1>3, Zenon DEF AbortMetrics, Advance
  <2>2. DOMAIN health = Names
    BY Zenon DEF ServerInv, TypeOK
  <2>3. MainMoves /\ metrics' = metrics
    BY <1>3, <2>2, Zenon DEF AbortMetrics, Advance, MainMoves
  <2>4. /\ phase \in Ending /\ phase' \in Ending /\ phase \in Leaving
        /\ phase' \in Leaving /\ phase \notin Accepting \cup {"draining"}
        /\ \A n : phase \in Fallen(n) /\ phase' \in Fallen(n)
    BY <2>1 DEF Ending, Leaving, Accepting, Fallen
  <2>5. \A n \in Names : health'[n] = "NotServing"
    BY <2>1, <2>4, StartHealth
  <2>6. QED
    BY <2>1, <2>3, <2>4, <2>5, StartHealth, ServeStep
<1>4. QED
  BY <1>1, <1>2, <1>3, Zenon

(* Nothing that the invariant is about changes.                            *)
LEMMA SameStep ==
  ASSUME ServerInv,
         UNCHANGED <<phase, env, health, writer, queue, log, call, calls, metrics, base>>
  PROVE  ServerInv'
<1>1. MainMoves
  BY Zenon DEF MainMoves, ServerInv, TypeOK
<1>2. PhaseInv /\ HealthInv
  BY Zenon DEF ServerInv
<1>3. PhaseInv'
  BY <1>2, Zenon DEF PhaseInv, InFlight, config
<1>4. HealthInv'
  BY <1>2, Zenon DEF HealthInv, Answers
<1>5. QED
  BY <1>1, <1>3, <1>4, MainKeeps, Zenon DEF ServerInv

-----------------------------------------------------------------------------
(* The log that Store::open recovers.                                      *)

LEMMA OpenStoreStep ==
  ASSUME ServerInv, Advance("open", "broker"), log' \in Recovered,
         base' = Len(log'.events),
         UNCHANGED <<env, health, wiring, call, calls, telemetry>>
  PROVE  ServerInv'
<1>1. /\ TypeOK /\ PhaseInv /\ HealthInv /\ TaskInv /\ CallInv /\ IdsInv /\ QueueInv
      /\ MetricsInv /\ GaugeInv
  BY Zenon DEF ServerInv
<1>2. /\ env' = env /\ queue' = queue /\ call' = call /\ calls' = calls
      /\ writer' = writer /\ health' = health /\ metrics' = metrics
      /\ phase = "open" /\ phase' = "broker"
  BY Zenon DEF wiring, telemetry, Advance
<1>3. /\ phase \in Starting /\ phase' \in Starting
      /\ phase' \notin Leaving \cup Accepting \cup Ending \cup {"exited"}
      /\ phase \notin Leaving \cup {"exited"}
      /\ \A n : phase \notin Fallen(n) \cup {"exited"} /\ phase' \notin Fallen(n)
  BY <1>2 DEF Starting, Leaving, Accepting, Ending, Fallen
<1>4. /\ writer = "none" /\ calls = 0 /\ metrics.appends = 0 /\ metrics.events = 0
      /\ metrics.global_position = 0 /\ config.ok
      /\ \A c \in Clients : call[c] = Idle
  BY <1>1, <1>2, <1>3, Zenon DEF PhaseInv
<1>5. queue = <<>>
  BY <1>1, <1>4 DEF TaskInv, Alive
<1>6. /\ \A c \in Clients : ~InFlight(c)' /\ ~Succeeded(call'[c]) /\ call'[c].id = 0
      /\ \A r : Answers(r)' = {}
  <2>1. \A c \in Clients : call'[c].state = "idle" /\ call'[c].id = 0
    BY <1>2, <1>4, IdleIs, Zenon
  <2>2. \A c \in Clients : ~InFlight(c)' /\ ~Succeeded(call'[c])
    BY <2>1 DEF InFlight, Succeeded
  <2>3. \A r : Answers(r)' = {}
    BY <2>1 DEF Answers
  <2>4. QED
    BY <2>1, <2>2, <2>3, Zenon
<1>7. /\ log'.events \in Seq(RecordedEvent)
      /\ log'.streams \in [DOMAIN log'.streams -> Seq(Nat)]
      /\ DOMAIN log'.streams = {log'.events[k].stream_id : k \in 1..Len(log'.events)}
      /\ \A k \in 1..Len(log'.events) :
           log'.events[k].global_position = k - 1 /\ log'.events[k].event_id.call = 0
  BY RecoveredAssumption, Zenon
<1>8. Len(log'.events) \in Nat
  BY <1>7, SeqIn, Zenon
<1>9. TypeOK'
  BY <1>1, <1>2, <1>7, <1>8, Zenon DEF TypeOK
<1>10. PhaseInv'
  <2>1. config' = config
    BY <1>2, Zenon DEF config
  <2>2. QED
    BY <1>2, <1>3, <1>4, <1>6, <2>1, Zenon DEF PhaseInv, Phases
<1>11. HealthInv'
  BY <1>1, <1>2, <1>3, <1>6, Zenon DEF HealthInv
<1>12. TaskInv' /\ CallInv' /\ IdsInv' /\ GaugeInv' /\ QueueInv'
  <2>1. TaskInv' /\ IdsInv'
    BY <1>1, <1>2, Zenon DEF TaskInv, IdsInv
  <2>2. CallInv' /\ GaugeInv'
    BY <1>1, <1>2, Zenon DEF CallInv, GaugeInv, config
  <2>3. \A c \in Clients : call'[c].state # "queued"
    BY <1>2, <1>4, IdleIs
  <2>4. QueueInv'
    BY <1>2, <1>5, <2>3, NoElement, Zenon DEF QueueInv
  <2>5. QED
    BY <2>1, <2>2, <2>4, Zenon
<1>13. LogInv'
  <2>1. base' <= Len(log'.events)
    BY <1>8
  <2>2. \A k \in 1..Len(log'.events) : log'.events[k].event_id.call \in 0..calls'
    BY <1>2, <1>4, <1>7
  <2>3. QED
    BY <1>7, <2>1, <2>2, Zenon DEF LogInv
<1>14. WrittenInv'
  BY <1>2, <1>5, <1>6, NoElement, Zenon DEF WrittenInv
<1>15. TailInv'
  <2>1. writer' \notin {"indexed", "counted"}
    BY <1>2, <1>4
  <2>2. QED
    BY <2>1, Zenon DEF TailInv
<1>16. AppendAnswers'
  BY <1>6, Zenon DEF AppendAnswers
<1>17. MetricsInv'
  <2>1. writer' \notin Alive /\ writer' \notin {"up", "counted"} /\ writer' # "counted"
    BY <1>2, <1>4 DEF Alive
  <2>2. /\ metrics'.events <= Len(log'.events) - base'
        /\ metrics'.global_position <= Len(log'.events)
    BY <1>2, <1>4, <1>8
  <2>3. QED
    BY <1>6, <2>1, <2>2, Zenon DEF MetricsInv
<1>18. QED
  BY <1>9, <1>10, <1>11, <1>12, <1>13, <1>14, <1>15, <1>16, <1>17, Zenon
     DEF ServerInv

-----------------------------------------------------------------------------
(* The process exits: what is answered stays answered.                     *)

LEMMA ExitStep ==
  ASSUME Counting, ServerInv, NEW e, Exits(e)
  PROVE  ServerInv'
<1>1. /\ TypeOK /\ PhaseInv /\ HealthInv /\ TaskInv /\ CallInv /\ IdsInv /\ LogInv
      /\ WrittenInv /\ AppendAnswers /\ MetricsInv
  BY Zenon DEF ServerInv
<1>2. /\ env' = env /\ log' = log /\ calls' = calls /\ base' = base
      /\ health' = health /\ phase' = "exited" /\ queue' = <<>>
      /\ writer' = IF writer \in Alive THEN "none" ELSE writer
  BY Zenon DEF Exits
<1>3. /\ DOMAIN metrics' = DOMAIN metrics
      /\ metrics'.events = metrics.events /\ metrics'.appends = metrics.appends
      /\ metrics'.global_position = metrics.global_position
      /\ metrics'.subscriptions = 0
  BY <1>1 DEF Exits, TypeOK, NoMetrics
<1>4. /\ writer' \in {"none", "exited", "dead"}
      /\ writer' \notin Alive /\ writer' \notin {"indexed", "counted"}
      /\ writer' \notin {"up", "counted"} /\ writer' # "counted" 
  BY <1>1, <1>2 DEF TaskInv, Alive
<1>5. /\ DOMAIN call' = Clients
      /\ \A c \in Clients : call'[c] = Idle \/ (call'[c] = call[c] /\ call[c].state \in {"idle", "answered"})
  BY Zenon DEF Exits
<1>6. \A c \in Clients :
         /\ call'[c].state \in {"idle", "answered"}
         /\ call'[c].state = "answered" => call'[c] = call[c]
         /\ call'[c].id # 0 => call'[c] = call[c]
         /\ Succeeded(call'[c]) => call'[c] = call[c]
  <2>1. /\ Idle.state \in {"idle", "answered"} /\ Idle.state # "answered" /\ Idle.id = 0
    BY IdleIs
  <2>2. QED
    BY <1>5, <2>1, Zenon DEF Succeeded
<1>7. TypeOK'
  BY <1>1, <1>2, <1>3, <1>5, EmptySeq DEF TypeOK
<1>8. PhaseInv'
  <2>1. \A c \in Clients : ~InFlight(c)'
    BY <1>6, Zenon DEF InFlight
  <2>2. /\ phase' \in Phases
        /\ phase' \notin Starting \cup Accepting \cup Ending
        /\ phase' \notin {"config", "open", "broker", "writer"}
        /\ phase' \notin {"metrics", "tls", "bind", "set_service", "set_server"}
    BY <1>2 DEF Phases, Starting, Accepting, Ending
  <2>3. QED
    BY <1>2, <1>4, <2>1, <2>2, Zenon DEF PhaseInv
<1>9. HealthInv'
  <2>1. \A n : phase' \notin Fallen(n) /\ phase' \in Fallen(n) \cup {"exited"}
    BY <1>2 DEF Leaving, Ending, Fallen
  <2>2. QED
    BY <2>1, Zenon DEF HealthInv
<1>10. TaskInv'
  BY <1>2, <1>4, Zenon DEF TaskInv
<1>11. CallInv'
  <2>1. CallOK(Idle, calls, config.jwt_secret)
    BY <1>1, IdleIs DEF CallOK, TypeOK, Succeeded, Undecided
  <2>2. QED
    BY <1>1, <1>2, <1>5, <2>1, Zenon DEF CallInv, config
<1>12. IdsInv'
  BY <1>1, <1>6, Zenon DEF IdsInv
<1>13. QueueInv'
  <2>1. \A c \in Clients : call'[c].state # "queued"
    BY <1>6
  <2>2. QED
    BY <1>2, <2>1, NoElement, Zenon DEF QueueInv
<1>14. LogInv'
  BY <1>1, <1>2, Zenon DEF LogInv
<1>15. WrittenInv'
  <2>1. \A i \in 1..Len(queue') : FALSE
    BY <1>2, NoElement, Zenon
  <2>2. ASSUME NEW c \in Clients, call'[c].id # 0, Mine(log', call'[c].id) # {}
        PROVE  call'[c].state = "queued" \/ Succeeded(call'[c])
    BY <1>1, <1>2, <1>6, <2>2, Zenon DEF WrittenInv
  <2>3. QED
    BY <2>1, <2>2, Zenon DEF WrittenInv
<1>16. TailInv'
  BY <1>4, Zenon DEF TailInv
<1>17. AppendAnswers'
  BY <1>1, <1>2, <1>6, Zenon DEF AppendAnswers, Answers
<1>18. MetricsInv'
  BY <1>1, <1>2, <1>3, <1>4, <1>6, Zenon DEF MetricsInv
<1>19. GaugeInv'
  <2>1. {c \in Clients : call'[c].state = "streaming"} = {}
    BY <1>6
  <2>2. QED
    BY <1>3, <2>1, Zenon DEF GaugeInv, Counting
<1>20. QED
  BY <1>7, <1>8, <1>9, <1>10, <1>11, <1>12, <1>13, <1>14, <1>15, <1>16, <1>17,
     <1>18, <1>19, Zenon DEF ServerInv

-----------------------------------------------------------------------------
(* The writer task answers the call at hand.                               *)

LEMMA AtHand ==
  ASSUME ServerInv, queue # <<>>
  PROVE  /\ queue \in Seq(Message) /\ Len(queue) \in Nat /\ 1 \in 1..Len(queue)
         /\ Current = queue[1] /\ Current \in Message
         /\ Current.id \in 1..calls /\ Current.id \in Nat /\ Current.id # 0
         /\ Current.req.rpc = "append" /\ append_valid(Current.req)
         /\ Current.req \in Requests /\ Current.client \in Clients
         /\ \A d \in Clients : call[d].id = Current.id =>
              /\ d = Current.client
              /\ call[d].state = "queued" /\ call[d].req = Current.req
<1>1. TypeOK /\ QueueInv /\ calls \in Nat
  BY Zenon DEF ServerInv, TypeOK
<1>2. queue \in Seq(Message)
  BY <1>1, Zenon DEF TypeOK, Message
<1>3. Len(queue) \in Nat /\ 1 \in 1..Len(queue) /\ Current = queue[1]
  BY <1>2, SeqIn, TailElements, Zenon DEF Current
<1>4. Current \in Message
  BY <1>2, <1>3, SeqIn, Zenon
<1>5. Current.id \in Nat /\ Current.req \in Requests /\ Current.client \in Clients
  BY <1>4 DEF Message
<1>6. /\ Current.id \in 1..calls /\ Current.req.rpc = "append"
      /\ append_valid(Current.req)
  BY <1>1, <1>3, InQueue, Zenon
<1>7. Current.id # 0
  BY <1>1, <1>6
<1>8. \A d \in Clients : call[d].id = Current.id =>
        /\ d = Current.client
        /\ call[d].state = "queued" /\ call[d].req = Current.req
  BY <1>1, <1>3, OfQueue, Zenon
<1>9. QED
  BY <1>2, <1>3, <1>4, <1>5, <1>6, <1>7, <1>8, Zenon

(* The answer says what is in the log, and the metrics have it.            *)
Truthful(resp) ==
  /\ \A y : y.id = Current.id /\ y.req = Current.req /\ y.resp = resp =>
       AnswerExact(log, y)
  /\ resp.status # "OK" => Mine(log, Current.id) = {}
  /\ resp.status = "OK" =>
       /\ Current.req.events # <<>> /\ resp.body.first_global_position \in Nat
       /\ metrics.global_position > resp.body.last_global_position
       /\ metrics.events > resp.body.last_global_position - base

LEMMA RespondStep ==
  ASSUME ServerInv, queue # <<>>, writer \in {"up", "counted"}, writer' = "up",
         NEW resp, Respond(Current, resp), Truthful(resp),
         UNCHANGED <<process, env, health, handle, log, calls, telemetry, base>>
  PROVE  ServerInv'
<1> DEFINE q == Current
<1>1. /\ TypeOK /\ PhaseInv /\ HealthInv /\ TaskInv /\ CallInv /\ IdsInv /\ QueueInv
      /\ LogInv /\ WrittenInv /\ AppendAnswers /\ MetricsInv /\ GaugeInv
  BY Zenon DEF ServerInv
<1>2. /\ env' = env /\ log' = log /\ base' = base
      /\ health' = health /\ phase' = phase /\ calls' = calls /\ metrics' = metrics
      /\ config' = config
  BY Zenon DEF process, telemetry, config
<1>3. /\ queue \in Seq(Message) /\ Len(queue) \in Nat /\ 1 \in 1..Len(queue)
      /\ q = queue[1] /\ q.id # 0 /\ q.req.rpc = "append"
      /\ \A d \in Clients : call[d].id = q.id =>
            d = q.client /\ call[d].state = "queued" /\ call[d].req = q.req
  BY AtHand, Zenon
<1>4. /\ queue' \in Seq(Message)
      /\ \A i \in 1..Len(queue') : i + 1 \in 1..Len(queue) /\ queue'[i] = queue[i + 1]
      /\ \A i \in 1..Len(queue) : i = 1 \/ i - 1 \in 1..Len(queue')
      /\ \A i \in 1..Len(queue) : i # 1 => queue'[i - 1] = queue[i]
      /\ \A i \in 1..Len(queue') : i + 1 # 1
      /\ \A i, j \in 1..Len(queue') : i + 1 = j + 1 => i = j
  <2>1. PICK t : t = Tail(queue)
    BY Zenon
  <2>2. /\ t \in Seq(Message) /\ Len(t) = Len(queue) - 1
        /\ \A i \in 1..Len(t) : i + 1 \in 1..Len(queue) /\ t[i] = queue[i + 1]
    BY <1>3, <2>1, TailElements, Zenon
  <2>3. \A i \in 1..Len(queue) : i = 1 \/ i - 1 \in 1..Len(t)
    BY <1>3, <2>2
  <2>4. \A i \in 1..Len(queue) : i # 1 => t[i - 1] = queue[i]
    <3>1. ASSUME NEW i \in 1..Len(queue), i # 1
          PROVE  i - 1 \in 1..Len(t) /\ (i - 1) + 1 = i
      BY <1>3, <2>3, <3>1
    <3>2. QED
      BY <2>2, <3>1, Zenon
  <2>5. /\ \A i \in 1..Len(t) : i + 1 # 1
        /\ \A i, j \in 1..Len(t) : i + 1 = j + 1 => i = j
    OBVIOUS
  <2>6. queue' = t
    BY <2>1, Zenon DEF Respond
  <2>7. QED
    BY <2>2, <2>3, <2>4, <2>5, <2>6, Zenon
<1> HIDE DEF q
<1>5. \A i \in 1..Len(queue') : queue'[i].id # q.id
  <2>1. ASSUME NEW i \in 1..Len(queue'), queue'[i].id = q.id
        PROVE  FALSE
    <3>1. i + 1 \in 1..Len(queue) /\ queue[i + 1].id = queue[1].id /\ i + 1 # 1
      BY <1>3, <1>4, <2>1, Zenon
    <3>2. \A a, b \in 1..Len(queue) : queue[a].id = queue[b].id => a = b
      BY <1>1, Zenon DEF QueueInv
    <3>3. QED
      BY <1>3, <3>1, <3>2, Zenon
  <2>2. QED
    BY <2>1, Zenon
<1>6. /\ DOMAIN call' = Clients
      /\ \A d \in Clients : call[d].id # q.id => call'[d] = call[d]
  <2>1. DOMAIN call = Clients
    BY <1>1, Zenon DEF TypeOK
  <2>2. CASE call[q.client].id = q.id
    <3>1. call' = [call EXCEPT ![q.client] = Answered(q.client, resp)]
      BY <2>2, Zenon DEF Respond, q
    <3>2. QED
      BY <2>1, <2>2, <3>1
  <2>3. CASE call[q.client].id # q.id
    BY <2>1, <2>3, Zenon DEF Respond, q
  <2>4. QED
    BY <2>2, <2>3, Zenon
<1>7. ASSUME NEW d \in Clients, call[d].id = q.id
      PROVE  /\ call'[d].state = "answered" /\ call'[d].resp = resp
             /\ call'[d].req = q.req /\ call'[d].id = q.id
             /\ DOMAIN call'[d] = DOMAIN Idle
             /\ call[d].state = "queued" /\ call[d].req = q.req
  <2>1. d = q.client /\ call[d].state = "queued" /\ call[d].req = q.req
    BY <1>3, <1>7, Zenon
  <2>2. call' = [call EXCEPT ![d] = Answered(d, resp)]
    BY <1>7, <2>1, Zenon DEF Respond, q
  <2>3. call'[d] = Answered(d, resp)
    BY <2>2, BecomesIs, Zenon DEF Becomes
  <2>4. InFlight(d)
    BY <2>1 DEF InFlight
  <2>5. /\ Answered(d, resp).state = "answered" /\ Answered(d, resp).resp = resp
        /\ Answered(d, resp).req = call[d].req /\ Answered(d, resp).id = call[d].id
        /\ DOMAIN Answered(d, resp) = DOMAIN Idle
    BY <2>4, AnsweredIs, Zenon
  <2>6. QED
    BY <1>7, <2>1, <2>3, <2>5
<1>8. \A d \in Clients : call'[d].id = call[d].id
  BY <1>6, <1>7, Zenon
<1>9. TypeOK'
  BY <1>1, <1>2, <1>4, <1>6, Zenon DEF TypeOK, Message
<1>10. PhaseInv'
  <2>1. ASSUME NEW d \in Clients, InFlight(d)'
        PROVE  phase \in Accepting \cup {"draining"}
    <3>1. call[d].id # q.id
      BY <1>7, <2>1 DEF InFlight
    <3>2. InFlight(d)
      BY <1>6, <2>1, <3>1, Zenon DEF InFlight
    <3>3. QED
      BY <1>1, <3>2, Zenon DEF PhaseInv
  <2>2. phase \notin Starting /\ phase # "exited"
    <3>1. calls # 0 /\ writer \in Alive
      BY <1>1, AtHand DEF TypeOK, Alive
    <3>2. QED
      BY <1>1, <3>1, Zenon DEF PhaseInv
  <2>3. \A p \in {"config", "open", "broker", "writer"} : p \in Starting
    BY DEF Starting
  <2>4. QED
    BY <1>1, <1>2, <2>1, <2>2, <2>3, Zenon DEF PhaseInv
<1>11. HealthInv'
  <2>1. ASSUME NEW d \in Answers("check")', call'[d].resp = Response("NotServing")
        PROVE  phase \in Fallen(call'[d].req.service) \cup {"exited"}
    <3>1. d \in Clients /\ call'[d].state = "answered" /\ call'[d].req.rpc = "check"
      BY <2>1, Zenon DEF Answers
    <3>2. call[d].id # q.id
      BY <1>3, <1>7, <3>1
    <3>3. call'[d] = call[d]
      BY <1>6, <3>1, <3>2, Zenon
    <3>4. d \in Answers("check") /\ call[d].resp = Response("NotServing")
      BY <2>1, <3>1, <3>3, Zenon DEF Answers
    <3>5. QED
      BY <1>1, <3>3, <3>4, Zenon DEF HealthInv
  <2>2. HealthInv /\ health' = health /\ phase' = phase
    BY <1>1, <1>2, Zenon
  <2>3. \A d \in Answers("check")' :
          call'[d].resp = Response("NotServing") =>
            phase' \in Fallen(call'[d].req.service) \cup {"exited"}
    BY <2>1, <2>2, Zenon
  <2>4. /\ \A n \in Names : phase' \in Fallen(n) => health'[n] = "NotServing"
        /\ \A n \in Names :
             health'[n] = "NotServing" => phase' \in Fallen(n) \cup {"exited"}
    BY <2>2, Zenon DEF HealthInv
  <2>5. QED
    BY <2>3, <2>4, Zenon DEF HealthInv
<1>12. TaskInv'
  BY DEF TaskInv, Alive
<1>13. CallInv'
  <2>1. ASSUME NEW d \in Clients, call[d].id = q.id
        PROVE  CallOK(call'[d], calls, config.jwt_secret)
    <3>1. /\ call[d].id \in 0..calls /\ call[d].req \in Requests /\ call[d].id # 0
          /\ Admits(config.jwt_secret, call[d].req)
      <4>1. /\ call[d].state \in {"queued", "created", "streaming"}
            /\ call[d].state # "idle"
        BY <1>7, <2>1
      <4>2. QED
        BY <1>1, <4>1, Zenon DEF CallInv, CallOK
    <3>2. /\ call'[d].state = "answered" /\ call'[d].resp = resp
          /\ call'[d].req = call[d].req /\ call'[d].id = call[d].id
          /\ DOMAIN call'[d] = DOMAIN Idle
      BY <1>7, <2>1, Zenon
    <3>3. /\ call'[d].state \in Undecided \cup {"idle", "answered"}
          /\ call'[d].state # "idle" /\ call'[d].state \notin Undecided
          /\ call'[d].state \notin {"queued", "created", "streaming"}
          /\ call'[d].state # "queued" /\ call'[d].state \notin {"created", "streaming"}
      BY <3>2 DEF Undecided
    <3>4. Succeeded(call'[d]) =>
            /\ call'[d].resp.body.first_global_position \in Nat
            /\ call'[d].req.events # <<>>
      BY <1>7, <2>1, Zenon DEF Succeeded, Truthful, q
    <3>5. QED
      BY <3>1, <3>2, <3>3, <3>4, Zenon DEF CallOK
  <2>2. \A d \in Clients : CallOK(call'[d], calls, config.jwt_secret)
    BY <1>1, <1>6, <2>1, Zenon DEF CallInv
  <2>3. QED
    BY <1>2, <2>2, Zenon DEF CallInv
<1>14. IdsInv'
  <2>1. ASSUME NEW d \in Clients, NEW e \in Clients, call'[d].id = call'[e].id,
               call'[d].id # 0
        PROVE  d = e
    <3>1. call[d].id = call[e].id /\ call[d].id # 0
      BY <1>8, <2>1, Zenon
    <3>2. QED
      BY <1>1, <3>1, Zenon DEF IdsInv
  <2>2. QED
    BY <2>1, Zenon DEF IdsInv
<1>15. QueueInv'
  <2>1. ASSUME NEW i \in 1..Len(queue')
        PROVE  /\ queue'[i].id \in 1..calls'
               /\ queue'[i].req.rpc = "append" /\ append_valid(queue'[i].req)
    <3>1. i + 1 \in 1..Len(queue) /\ queue'[i] = queue[i + 1]
      BY <1>4, Zenon
    <3>2. /\ queue[i + 1].id \in 1..calls /\ queue[i + 1].req.rpc = "append"
          /\ append_valid(queue[i + 1].req)
      BY <1>1, <3>1, InQueue, Zenon
    <3>3. QED
      BY <1>2, <3>1, <3>2, Zenon
  <2>3. ASSUME NEW i \in 1..Len(queue'), NEW d \in Clients,
               call'[d].id = queue'[i].id
        PROVE  /\ d = queue'[i].client
               /\ call'[d].state = "queued" /\ call'[d].req = queue'[i].req
    <3>1. i + 1 \in 1..Len(queue) /\ queue'[i] = queue[i + 1]
      BY <1>4, Zenon
    <3>2. call[d].id = queue[i + 1].id /\ call[d].id # q.id
      BY <1>5, <1>8, <2>3, <3>1, Zenon
    <3>3. /\ d = queue[i + 1].client
          /\ call[d].state = "queued" /\ call[d].req = queue[i + 1].req
      BY <1>1, <3>1, <3>2, OfQueue, Zenon
    <3>4. QED
      BY <1>6, <3>1, <3>2, <3>3, Zenon
  <2>4. ASSUME NEW i \in 1..Len(queue'), NEW j \in 1..Len(queue'),
               queue'[i].id = queue'[j].id
        PROVE  i = j
    <3>1. \A a, b \in 1..Len(queue) : queue[a].id = queue[b].id => a = b
      BY <1>1, Zenon DEF QueueInv
    <3>2. /\ i + 1 \in 1..Len(queue) /\ j + 1 \in 1..Len(queue)
          /\ queue[i + 1].id = queue[j + 1].id
      BY <1>4, <2>4, Zenon
    <3>4. i + 1 = j + 1
      BY <3>1, <3>2, Zenon
    <3>3. QED
      BY <1>4, <3>4, Zenon
  <2>5. ASSUME NEW d \in Clients, call'[d].state = "queued"
        PROVE  \E i \in 1..Len(queue') : queue'[i].id = call'[d].id
    <3>1. call[d].id # q.id
      BY <1>7, <2>5
    <3>2. call[d].state = "queued"
      BY <1>6, <2>5, <3>1, Zenon
    <3>3. PICK i \in 1..Len(queue) : queue[i].id = call[d].id
      BY <1>1, <3>2, QueuedIs, Zenon
    <3>4. i # 1
      BY <1>3, <3>1, <3>3, Zenon
    <3>5. i - 1 \in 1..Len(queue') /\ queue'[i - 1].id = call'[d].id
      BY <1>4, <1>8, <3>3, <3>4, Zenon
    <3>6. QED
      BY <3>5, Zenon
  <2>6. QED
    BY <2>1, <2>3, <2>4, <2>5, QueueNext, Zenon
<1>16. LogInv'
  BY <1>1, <1>2, Zenon DEF LogInv
<1>17. WrittenInv'
  <2>1. ASSUME NEW i \in 1..Len(queue'), Mine(log, queue'[i].id) # {}
        PROVE  FALSE
    BY <1>1, <1>4, <2>1, Zenon DEF WrittenInv
  <2>2. ASSUME NEW d \in Clients, call'[d].id # 0, Mine(log, call'[d].id) # {}
        PROVE  call'[d].state = "queued" \/ Succeeded(call'[d])
    <3>1. CASE call[d].id = q.id
      <4>1. resp.status = "OK"
        BY <1>7, <2>2, <3>1, Zenon DEF Truthful, q
      <4>2. QED
        BY <1>3, <1>7, <3>1, <4>1, Zenon DEF Succeeded
    <3>2. CASE call[d].id # q.id
      BY <1>1, <1>6, <2>2, <3>2, Zenon DEF WrittenInv
    <3>3. QED
      BY <3>1, <3>2, Zenon
  <2>3. QED
    BY <1>2, <2>1, <2>2, Zenon DEF WrittenInv
<1>18. TailInv'
  BY DEF TailInv
<1>19. AppendAnswers'
  <2>1. ASSUME NEW d \in Answers("append")'
        PROVE  AnswerExact(log, call'[d])
    <3>1. d \in Clients /\ call'[d].state = "answered" /\ call'[d].req.rpc = "append"
      BY <2>1, Zenon DEF Answers
    <3>2. CASE call[d].id = q.id
      BY <1>7, <3>1, <3>2, Zenon DEF Truthful, q
    <3>3. CASE call[d].id # q.id
      BY <1>1, <1>6, <3>1, <3>3, Zenon DEF AppendAnswers, Answers
    <3>4. QED
      BY <3>2, <3>3, Zenon
  <2>2. QED
    BY <1>2, <2>1, Zenon DEF AppendAnswers
<1>20. MetricsInv'
  <2>1. ASSUME NEW d \in Clients, Succeeded(call'[d])
        PROVE  /\ metrics.global_position > call'[d].resp.body.last_global_position
               /\ metrics.events > call'[d].resp.body.last_global_position - base
    <3>1. CASE call[d].id = q.id
      BY <1>7, <2>1, <3>1, Zenon DEF Truthful, Succeeded
    <3>2. CASE call[d].id # q.id
      BY <1>1, <1>6, <2>1, <3>2, Zenon DEF MetricsInv
    <3>3. QED
      BY <3>1, <3>2, Zenon
  <2>2. /\ writer \in Alive /\ writer \in {"up", "counted"} /\ Uncounted = 0
        /\ writer' # "counted" /\ Uncounted' = 0
    BY DEF Alive, Uncounted
  <2>3. QED
    BY <1>1, <1>2, <2>1, <2>2, Zenon DEF MetricsInv
<1>21. GaugeInv'
  <2>1. \A d \in Clients : call'[d].state = "streaming" <=> call[d].state = "streaming"
    <3>1. ASSUME NEW d \in Clients, call[d].id = q.id
          PROVE  call'[d].state # "streaming" /\ call[d].state # "streaming"
      BY <1>7, <3>1
    <3>2. QED
      BY <1>6, <3>1, Zenon
  <2>2. {d \in Clients : call'[d].state = "streaming"} =
          {d \in Clients : call[d].state = "streaming"}
    BY <2>1, Zenon
  <2>3. QED
    BY <1>1, <1>2, <2>2, Zenon DEF GaugeInv
<1>22. QED
  BY <1>9, <1>10, <1>11, <1>12, <1>13, <1>14, <1>15, <1>16, <1>17, <1>18, <1>19,
     <1>20, <1>21, Zenon DEF ServerInv

LEMMA WriterRefusesStep ==
  ASSUME ServerInv, WriterRefuses
  PROVE  ServerInv'
<1>1. /\ queue # <<>> /\ writer = "up" /\ writer' = "up"
      /\ UNCHANGED <<process, env, health, handle, log, calls, telemetry, base>>
  BY Zenon DEF WriterRefuses, Working
<1>2. PICK error \in {"InvalidArgument", "WrongExpectedVersion", "EventTooLarge", "Io"} :
        Respond(Current, Status(error_to_status[error]))
  BY Zenon DEF WriterRefuses
<1>3. PICK resp : resp = Status(error_to_status[error])
  BY Zenon
<1>4. resp.status # "OK"
  BY <1>3 DEF error_to_status, Status
<1>5. Mine(log, Current.id) = {}
  <2>1. WrittenInv /\ 1 \in 1..Len(queue) /\ Current = queue[1]
    BY <1>1, AtHand, Zenon DEF ServerInv
  <2>2. writer \notin {"indexed", "counted"}
    BY <1>1
  <2>3. QED
    BY <2>1, <2>2, Zenon DEF WrittenInv
<1>6. Truthful(resp)
  BY <1>4, <1>5, Zenon DEF Truthful, AnswerExact
<1>7. writer \in {"up", "counted"} /\ Respond(Current, resp)
  BY <1>1, <1>2, <1>3
<1>8. QED
  BY <1>1, <1>6, <1>7, RespondStep, Zenon

LEMMA SubSeqElements ==
  ASSUME NEW S, NEW s \in Seq(S), NEW n \in Nat, n >= 1, n <= Len(s)
  PROVE  LET t == SubSeq(s, Len(s) - n + 1, Len(s))
         IN /\ Len(t) = n /\ t # <<>>
            /\ t[1] = s[Len(s) - n + 1] /\ t[Len(t)] = s[Len(s)]
<1>1. PICK b \in Nat : b = Len(s)
  OBVIOUS
<1>2. PICK a \in Nat : a = b - n + 1
  BY <1>1, SMTT(30)
<1>3. PICK t : t = SubSeq(s, a, b)
  BY Zenon
<1>4. 1 <= a /\ a <= b /\ b - a + 1 = n /\ a + n - 1 = b
  BY <1>1, <1>2
<1>5. Len(SubSeq(s, a, b)) = b - a + 1
  BY <1>1, <1>4
<1>6. \A i \in 1..(b - a + 1) : SubSeq(s, a, b)[i] = s[a + i - 1]
  BY <1>1, <1>4, SMTT(30)
<1>7. t[1] = s[a] /\ t[n] = s[b]
  <2>1. 1 \in 1..(b - a + 1) /\ n \in 1..(b - a + 1) /\ a + 1 - 1 = a
    BY <1>4
  <2>2. t[1] = s[a + 1 - 1] /\ t[n] = s[a + n - 1]
    BY <1>3, <1>6, <2>1, Zenon
  <2>3. QED
    BY <1>4, <2>1, <2>2, Zenon
<1>8. Len(t) = n /\ t # <<>>
  <2>1. Len(t) = n
    BY <1>3, <1>4, <1>5, Zenon
  <2>2. QED
    BY <2>1, EmptySeq
<1>9. QED
  BY <1>1, <1>2, <1>3, <1>7, <1>8, Zenon

(* The events that the task has just written are the end of the log.       *)
LEMMA LastIs ==
  ASSUME ServerInv, queue # <<>>, writer \in {"indexed", "counted"}
  PROVE  /\ Fresh \in Nat /\ Fresh >= 1 /\ Len(log.events) \in Nat /\ base \in Nat
         /\ Len(log.events) - Fresh \in Nat /\ Fresh <= Len(log.events) - base
         /\ Lies(log, Current.id, Current.req, Len(log.events) - Fresh)
         /\ LastRecorded # <<>> /\ Len(LastRecorded) = Fresh
         /\ LastRecorded[1] = log.events[Len(log.events) - Fresh + 1]
         /\ LastRecorded[Len(LastRecorded)] = log.events[Len(log.events)]
         /\ LastRecorded[1].global_position = Len(log.events) - Fresh
         /\ LastRecorded[Len(LastRecorded)].global_position = Len(log.events) - 1
<1>1. TypeOK /\ TailInv /\ LogInv
  BY Zenon DEF ServerInv
<1>2. /\ log.events \in Seq(RecordedEvent) /\ Len(log.events) \in Nat /\ base \in Nat
  BY <1>1, SeqIn, Zenon DEF TypeOK
<1>3. /\ Current.req.events \in Seq(Texts) /\ Current.req.events # <<>>
  BY AtHand, RequestsAssumption, Zenon DEF append_valid
<1>4. Fresh \in Nat /\ Fresh >= 1
  BY <1>3, SeqIn, Zenon DEF Fresh
<1>5. /\ Fresh <= Len(log.events) - base
      /\ Lies(log, Current.id, Current.req, Len(log.events) - Fresh)
  BY <1>1, Zenon DEF TailInv
<1>6. /\ Fresh <= Len(log.events) /\ Len(log.events) - Fresh \in Nat
      /\ Len(log.events) - Fresh + 1 \in 1..Len(log.events)
      /\ Len(log.events) \in 1..Len(log.events)
      /\ (Len(log.events) - Fresh + 1) - 1 = Len(log.events) - Fresh
  BY <1>2, <1>4, <1>5
<1>7. LastRecorded = SubSeq(log.events, Len(log.events) - Fresh + 1, Len(log.events))
  BY Zenon DEF LastRecorded, Fresh
<1>8. /\ LastRecorded # <<>> /\ Len(LastRecorded) = Fresh
      /\ LastRecorded[1] = log.events[Len(log.events) - Fresh + 1]
      /\ LastRecorded[Len(LastRecorded)] = log.events[Len(log.events)]
  BY <1>2, <1>4, <1>6, <1>7, SubSeqElements, Zenon
<1>9. /\ log.events[Len(log.events) - Fresh + 1].global_position =
           Len(log.events) - Fresh
      /\ log.events[Len(log.events)].global_position = Len(log.events) - 1
  BY <1>1, <1>6, Zenon DEF LogInv
<1>10. QED
  BY <1>2, <1>4, <1>5, <1>6, <1>8, <1>9, Zenon

LEMMA WriterRespondsStep ==
  ASSUME ServerInv, WriterResponds
  PROVE  ServerInv'
<1> DEFINE L == Len(log.events)
           first == log.events[L - Fresh + 1]
           resp == append_response(LastRecorded)
<1>1. /\ queue # <<>> /\ writer = "counted" /\ writer' = "up"
      /\ Respond(Current, resp)
      /\ UNCHANGED <<process, env, health, handle, log, calls, telemetry, base>>
  BY Zenon DEF WriterResponds, Working
<1>2. writer \in {"indexed", "counted"} /\ writer \in {"up", "counted"}
  BY <1>1
<1>3. /\ Fresh \in Nat /\ Fresh >= 1 /\ L \in Nat /\ base \in Nat
      /\ L - Fresh \in Nat /\ Fresh <= L - base
      /\ Lies(log, Current.id, Current.req, L - Fresh)
      /\ LastRecorded # <<>> /\ LastRecorded[1] = first
      /\ LastRecorded[Len(LastRecorded)] = log.events[L]
      /\ LastRecorded[1].global_position = L - Fresh
      /\ LastRecorded[Len(LastRecorded)].global_position = L - 1
  BY <1>1, <1>2, LastIs, Zenon
<1> HIDE DEF L
<1>4. log.events[L].stream_version = first.stream_version + Fresh - 1
  <2>1. (L - Fresh) + Fresh = L /\ Fresh \in 1..Fresh
    BY <1>3
  <2>2. \A k \in 1..Fresh :
          log.events[(L - Fresh) + k].stream_version = first.stream_version + k - 1
    BY <1>3, Zenon DEF Lies, Fresh
  <2>3. log.events[(L - Fresh) + Fresh].stream_version = first.stream_version + Fresh - 1
    BY <2>1, <2>2, Zenon
  <2>4. QED
    BY <2>1, <2>3, Zenon
<1>5. /\ resp.status = "OK"
      /\ resp.body.first_stream_version = LastRecorded[1].stream_version
      /\ resp.body.last_stream_version = LastRecorded[Len(LastRecorded)].stream_version
      /\ resp.body.first_global_position = LastRecorded[1].global_position
      /\ resp.body.last_global_position =
           LastRecorded[Len(LastRecorded)].global_position
  BY <1>3 DEF append_response, Response
<1> HIDE DEF first, resp
<1>6. /\ resp.body.first_stream_version = first.stream_version
      /\ resp.body.last_stream_version = first.stream_version + Fresh - 1
      /\ resp.body.first_global_position = L - Fresh
      /\ resp.body.last_global_position = L - 1
      /\ L - 1 = (L - Fresh) + Fresh - 1
  <2>1. L - 1 = (L - Fresh) + Fresh - 1
    BY <1>3
  <2>2. QED
    BY <1>3, <1>4, <1>5, <2>1, Zenon
<1>7. ASSUME NEW y, y.id = Current.id, y.req = Current.req, y.resp = resp
      PROVE  AnswerExact(log, y)
  <2>1. Len(y.req.events) = Fresh
    BY <1>7, Zenon DEF Fresh
  <2>2. /\ Lies(log, y.id, y.req, resp.body.first_global_position)
        /\ resp.body.last_global_position =
             resp.body.first_global_position + Fresh - 1
        /\ resp.body.first_stream_version =
             log.events[resp.body.first_global_position + 1].stream_version
        /\ resp.body.last_stream_version =
             log.events[resp.body.first_global_position + 1].stream_version + Fresh - 1
    BY <1>3, <1>6, <1>7, Zenon DEF first
  <2>3. QED
    BY <1>5, <1>7, <2>1, <2>2, Zenon DEF AnswerExact
<1>8. /\ metrics.global_position > resp.body.last_global_position
      /\ metrics.events > resp.body.last_global_position - base
  <2>1. MetricsInv /\ metrics.appends > 0
    BY <1>1, Zenon DEF ServerInv, MetricsInv
  <2>2. metrics.global_position = L /\ metrics.events = L - base - Uncounted
    BY <1>1, <1>2, <2>1 DEF MetricsInv, Alive, L
  <2>3. Uncounted = 0
    BY <1>1 DEF Uncounted
  <2>4. QED
    BY <1>3, <1>6, <2>2, <2>3
<1>9. Current.req.events # <<>>
  BY <1>1, AtHand, Zenon DEF append_valid
<1>10. Truthful(resp)
  BY <1>3, <1>5, <1>6, <1>7, <1>8, <1>9, Zenon DEF Truthful
<1>11. QED
  BY <1>1, <1>2, <1>10, RespondStep, Zenon

-----------------------------------------------------------------------------
(* The writer task appends the events of the call at hand.                 *)

LEMMA UuidIs ==
  ASSUME NEW t \in Texts
  PROVE  parse_uuid(t) \in Int /\ proto_to_proposed_event(t) \in Int
<1>1. t.uuid \in Nat
  BY DEF Texts
<1>2. QED
  BY <1>1 DEF parse_uuid, proto_to_proposed_event, Invalid

LEMMA EventIdIs ==
  ASSUME NEW id, NEW text
  PROVE  EventId(id, text).call = id
BY DEF EventId

LEMMA RecordedIs ==
  ASSUME ServerInv, queue # <<>>
  PROVE  LET s == parse_uuid(Current.req.stream_id)
         IN /\ Recorded(Current) \in Seq(RecordedEvent)
            /\ Len(Recorded(Current)) = Fresh /\ Fresh \in Nat /\ Fresh >= 1
            /\ s \in Int /\ Positions(s) \in Seq(Nat) /\ Len(Positions(s)) \in Nat
            /\ \A k \in 1..Fresh :
                 /\ Recorded(Current)[k].event_id =
                      EventId(Current.id, Current.req.events[k])
                 /\ Recorded(Current)[k].stream_id = s
                 /\ Recorded(Current)[k].stream_version = Len(Positions(s)) + k - 1
                 /\ Recorded(Current)[k].global_position = Len(log.events) + k - 1
<1> DEFINE s == parse_uuid(Current.req.stream_id)
           L == Len(log.events)
           v == Len(Positions(s))
           evs == Current.req.events
           rec(k) == [event_id |-> EventId(Current.id, evs[k]), stream_id |-> s,
                      stream_version |-> v + k - 1, global_position |-> L + k - 1]
<1>1. TypeOK
  BY Zenon DEF ServerInv
<1>2. log.events \in Seq(RecordedEvent) /\ L \in Nat
  BY <1>1, SeqIn, Zenon DEF TypeOK
<1>3. /\ evs \in Seq(Texts) /\ evs # <<>> /\ Current.id \in Nat
      /\ Current.req.stream_id \in Texts
  BY AtHand, RequestsAssumption, Zenon DEF append_valid
<1>4. /\ Len(evs) \in Nat /\ Len(evs) >= 1 /\ Fresh = Len(evs)
      /\ \A k \in 1..Len(evs) : evs[k] \in Texts
  BY <1>3, SeqIn, Zenon DEF Fresh
<1>5. s \in Int
  BY <1>3, UuidIs, Zenon
<1> HIDE DEF s
<1>6. Positions(s) \in Seq(Nat)
  <2>1. \A t \in DOMAIN log.streams : log.streams[t] \in Seq(Nat)
    BY <1>1, Zenon DEF TypeOK
  <2>2. CASE s \in DOMAIN log.streams
    BY <2>1, <2>2, Zenon DEF Positions
  <2>3. CASE s \notin DOMAIN log.streams
    BY <2>3, EmptySeq, Zenon DEF Positions
  <2>4. QED
    BY <2>2, <2>3, Zenon
<1>7. v \in Nat
  BY <1>6, SeqIn, Zenon
<1> HIDE DEF L, v, evs
<1>8. ASSUME NEW k \in 1..Len(evs)
      PROVE  rec(k) \in RecordedEvent
  <2>1. EventId(Current.id, evs[k]) \in [call : Nat, uuid : Int]
    <3>1. evs[k] \in Texts
      BY <1>4, Zenon
    <3>2. proto_to_proposed_event(evs[k]) \in Int
      BY <3>1, UuidIs, Zenon
    <3>3. QED
      BY <1>3, <3>2 DEF EventId
  <2>2. v + k - 1 \in Nat /\ L + k - 1 \in Nat
    BY <1>2, <1>4, <1>7
  <2>3. QED
    BY <1>5, <2>1, <2>2 DEF RecordedEvent
<1> HIDE DEF rec
<1>9. Recorded(Current) = [k \in 1..Len(evs) |-> rec(k)]
  BY Zenon DEF Recorded, rec, s, L, v, evs
<1>10. /\ Recorded(Current) \in Seq(RecordedEvent)
       /\ Len(Recorded(Current)) = Len(evs)
       /\ \A k \in 1..Len(evs) : Recorded(Current)[k] = rec(k)
  BY <1>4, <1>8, <1>9
<1>11. \A k : /\ rec(k).event_id = EventId(Current.id, evs[k])
              /\ rec(k).stream_id = s
              /\ rec(k).stream_version = v + k - 1
              /\ rec(k).global_position = L + k - 1
  BY DEF rec
<1>12. \A k \in 1..Fresh :
         /\ Recorded(Current)[k].event_id = EventId(Current.id, evs[k])
         /\ Recorded(Current)[k].stream_id = s
         /\ Recorded(Current)[k].stream_version = v + k - 1
         /\ Recorded(Current)[k].global_position = L + k - 1
  BY <1>4, <1>10, <1>11, Zenon
<1>13. QED
  BY <1>4, <1>5, <1>6, <1>7, <1>10, <1>12, Zenon DEF s, L, v, evs

(* The index after the append.                                             *)
LEMMA IndexedIs ==
  ASSUME ServerInv, queue # <<>>
  PROVE  LET s == parse_uuid(Current.req.stream_id)
             l == Indexed(Current)
         IN /\ l.events \in Seq(RecordedEvent)
            /\ l.streams \in [DOMAIN l.streams -> Seq(Nat)]
            /\ DOMAIN l.streams = DOMAIN log.streams \cup {s}
            /\ Len(l.events) = Len(log.events) + Fresh
            /\ Len(log.events) \in Nat /\ Fresh \in Nat /\ Fresh >= 1
            /\ \A k \in 1..Len(log.events) : l.events[k] = log.events[k]
            /\ \A k \in 1..Fresh : l.events[Len(log.events) + k] = Recorded(Current)[k]
<1> DEFINE s == parse_uuid(Current.req.stream_id)
           l == Indexed(Current)
           rec == Recorded(Current)
           new == [i \in 1..Len(rec) |-> rec[i].global_position]
<1>1. TypeOK
  BY Zenon DEF ServerInv
<1>2. /\ log.events \in Seq(RecordedEvent) /\ Len(log.events) \in Nat
      /\ \A t \in DOMAIN log.streams : log.streams[t] \in Seq(Nat)
  BY <1>1, SeqIn, Zenon DEF TypeOK
<1>3. /\ rec \in Seq(RecordedEvent) /\ Len(rec) = Fresh
      /\ Fresh \in Nat /\ Fresh >= 1 /\ Positions(s) \in Seq(Nat)
  BY RecordedIs, Zenon
<1>4. new \in Seq(Nat)
  <2>1. \A e \in RecordedEvent : e.global_position \in Nat
    BY DEF RecordedEvent
  <2>2. \A i \in 1..Len(rec) : rec[i].global_position \in Nat
    BY <1>3, <2>1, SeqIn, Zenon
  <2> HIDE DEF rec
  <2>3. QED
    BY <1>3, <2>2
<1>5. /\ l.events = log.events \o rec
      /\ l.streams = [t \in DOMAIN log.streams \cup {s} |->
                        IF t = s THEN Positions(s) \o new ELSE log.streams[t]]
  BY DEF Indexed, Mapped
<1> HIDE DEF l, rec, new, s
<1>6. /\ l.events \in Seq(RecordedEvent)
      /\ Len(l.events) = Len(log.events) + Fresh
      /\ \A k \in 1..Len(log.events) : l.events[k] = log.events[k]
      /\ \A k \in 1..Fresh : l.events[Len(log.events) + k] = rec[k]
  <2>1. PICK a \in Seq(RecordedEvent) : a = log.events
    BY <1>2, Zenon
  <2>2. PICK b \in Seq(RecordedEvent) : b = rec
    BY <1>3, Zenon
  <2>3. /\ a \o b \in Seq(RecordedEvent)
        /\ Len(a \o b) = Len(a) + Len(b)
        /\ \A k \in 1..Len(a) : (a \o b)[k] = a[k]
        /\ \A k \in 1..Len(b) : (a \o b)[Len(a) + k] = b[k]
    BY ConcatElements
  <2>4. QED
    BY <1>3, <1>5, <2>1, <2>2, <2>3, Zenon
<1>7. Positions(s) \o new \in Seq(Nat)
  BY <1>3, <1>4, ConcatElements, Zenon
<1>8. /\ DOMAIN l.streams = DOMAIN log.streams \cup {s}
      /\ l.streams \in [DOMAIN log.streams \cup {s} -> Seq(Nat)]
  BY <1>2, <1>5, <1>7, Zenon
<1>9. QED
  BY <1>2, <1>3, <1>6, <1>8, Zenon DEF l, rec, s

(* What is in the log of a call does not change as others are appended.    *)
LEMMA AnswerKept ==
  ASSUME NEW l, NEW m, NEW x, Len(l.events) \in Nat,
         \A k \in 1..Len(l.events) : m.events[k] = l.events[k],
         Mine(m, x.id) = Mine(l, x.id), AnswerExact(l, x),
         x.resp.status = "OK" =>
           /\ x.resp.body.first_global_position \in Nat
           /\ Len(x.req.events) \in Nat /\ Len(x.req.events) >= 1
  PROVE  AnswerExact(m, x)
<1>1. CASE x.resp.status # "OK"
  BY <1>1, Zenon DEF AnswerExact
<1>2. CASE x.resp.status = "OK"
  <2> DEFINE p == x.resp.body.first_global_position
             n == Len(x.req.events)
  <2>1. p \in Nat /\ n \in Nat /\ n >= 1
    BY <1>2, Zenon
  <2>2. /\ Lies(l, x.id, x.req, p)
        /\ x.resp.body.last_global_position = p + n - 1
        /\ x.resp.body.first_stream_version = l.events[p + 1].stream_version
        /\ x.resp.body.last_stream_version = l.events[p + 1].stream_version + n - 1
    BY <1>2, Zenon DEF AnswerExact
  <2>3. Mine(l, x.id) = (p + 1)..(p + n)
    BY <2>2, Zenon DEF Lies
  <2>4. \A k \in (p + 1)..(p + n) : k \in 1..Len(l.events)
    BY <2>3, Zenon DEF Mine
  <2> HIDE DEF p, n
  <2>5. \A k \in 1..n : p + k \in (p + 1)..(p + n)
    BY <2>1
  <2>6. 1 \in 1..n
    BY <2>1
  <2>7. \A k \in 1..n : m.events[p + k] = l.events[p + k]
    BY <2>4, <2>5, Zenon
  <2>8. m.events[p + 1] = l.events[p + 1]
    BY <2>6, <2>7, Zenon
  <2>9. ASSUME NEW k \in 1..n
        PROVE  /\ m.events[p + k].event_id = EventId(x.id, x.req.events[k])
               /\ m.events[p + k].stream_id = parse_uuid(x.req.stream_id)
               /\ m.events[p + k].stream_version = m.events[p + 1].stream_version + k - 1
    <3>1. /\ l.events[p + k].event_id = EventId(x.id, x.req.events[k])
          /\ l.events[p + k].stream_id = parse_uuid(x.req.stream_id)
          /\ l.events[p + k].stream_version = l.events[p + 1].stream_version + k - 1
      BY <2>2, <2>9, Zenon DEF Lies, n
    <3>2. QED
      BY <2>7, <2>8, <3>1, Zenon
  <2>10. Lies(m, x.id, x.req, p)
    BY <2>3, <2>9, Zenon DEF Lies, n
  <2>11. QED
    BY <1>2, <2>2, <2>8, <2>10, Zenon DEF AnswerExact, p, n
<1>3. QED
  BY <1>1, <1>2, Zenon

(* The body of an answer with OK.                                          *)
LEMMA SucceededIs ==
  ASSUME ServerInv, NEW c \in Clients, Succeeded(call[c])
  PROVE  /\ call[c].resp.body.first_global_position \in Nat
         /\ Len(call[c].req.events) \in Nat /\ Len(call[c].req.events) >= 1
         /\ call[c].resp.body.last_global_position \in Int
         /\ AnswerExact(log, call[c])
<1>1. CallOK(call[c], calls, config.jwt_secret) /\ AppendAnswers
  BY Zenon DEF ServerInv, CallInv
<1>2. call[c].state = "answered" /\ call[c].req.rpc = "append" /\ call[c].resp.status = "OK"
  BY Zenon DEF Succeeded
<1>3. /\ call[c].resp.body.first_global_position \in Nat
      /\ call[c].req.events # <<>>
  BY <1>1, Zenon DEF CallOK
<1>4. call[c].req \in Requests
  <2>1. call[c].state # "idle"
    BY <1>2
  <2>2. QED
    BY <1>1, <2>1, Zenon DEF CallOK
<1>5. call[c].req.events \in Seq(Texts)
  BY <1>2, <1>4, RequestsAssumption, Zenon
<1>6. Len(call[c].req.events) \in Nat /\ Len(call[c].req.events) >= 1
  BY <1>3, <1>5, SeqIn, Zenon
<1>7. AnswerExact(log, call[c])
  BY <1>1, <1>2, Zenon DEF AppendAnswers, Answers
<1>8. call[c].resp.body.last_global_position =
        call[c].resp.body.first_global_position + Len(call[c].req.events) - 1
  BY <1>2, <1>7, Zenon DEF AnswerExact
<1>9. call[c].resp.body.last_global_position \in Int
  BY <1>3, <1>6, <1>8, SMTT(30)
<1>10. QED
  BY <1>3, <1>6, <1>7, <1>9, Zenon

(* The task works on a call while main serves, or waits for it.            *)
LEMMA WorkPhase ==
  ASSUME ServerInv, queue # <<>>
  PROVE  /\ phase \notin Starting /\ phase # "exited" /\ metrics.installed
         /\ phase \notin {"config", "open", "broker", "writer"}
         /\ writer \in Alive /\ config.ok
<1>1. TypeOK /\ PhaseInv /\ TaskInv
  BY Zenon DEF ServerInv
<1>2. writer \in Alive
  BY <1>1, Zenon DEF TaskInv
<1>3. calls # 0
  BY <1>1, AtHand DEF TypeOK
<1>4. phase \notin Starting /\ phase # "exited" /\ phase \in Phases
  BY <1>1, <1>2, <1>3, Zenon DEF PhaseInv
<1>5. phase \in Accepting \cup Ending
  BY <1>4, Zenon DEF Phases
<1>6. \A p \in {"config", "open", "broker", "writer"} : p \in Starting
  BY DEF Starting
<1>7. QED
  BY <1>1, <1>2, <1>4, <1>5, <1>6, Zenon DEF PhaseInv

LEMMA IndexedMine ==
  ASSUME ServerInv, queue # <<>>, writer = "up", log' = Indexed(Current)
  PROVE  /\ Lies(log', Current.id, Current.req, Len(log.events))
         /\ \A id : id # Current.id => Mine(log', id) = Mine(log, id)
<1> DEFINE s == parse_uuid(Current.req.stream_id)
           L == Len(log.events)
           v == Len(Positions(s))
<1>1. /\ Len(log'.events) = L + Fresh
      /\ L \in Nat /\ Fresh \in Nat /\ Fresh >= 1
      /\ \A k \in 1..L : log'.events[k] = log.events[k]
      /\ \A k \in 1..Fresh : log'.events[L + k] = Recorded(Current)[k]
  BY IndexedIs, Zenon
<1>2. /\ v \in Nat
      /\ \A k \in 1..Fresh :
           /\ Recorded(Current)[k].event_id = EventId(Current.id, Current.req.events[k])
           /\ Recorded(Current)[k].stream_id = s
           /\ Recorded(Current)[k].stream_version = v + k - 1
  BY RecordedIs, Zenon
<1> HIDE DEF L, v, s
<1>3. \A k \in 1..Fresh :
        /\ log'.events[L + k].event_id = EventId(Current.id, Current.req.events[k])
        /\ log'.events[L + k].stream_id = s
        /\ log'.events[L + k].stream_version = v + k - 1
  BY <1>1, <1>2, Zenon
<1>4. \A k \in 1..Fresh : log'.events[L + k].event_id.call = Current.id
  <2>1. ASSUME NEW k \in 1..Fresh
        PROVE  log'.events[L + k].event_id.call = Current.id
    <3>1. log'.events[L + k].event_id = EventId(Current.id, Current.req.events[k])
      BY <1>3, <2>1, Zenon
    <3>2. EventId(Current.id, Current.req.events[k]).call = Current.id
      BY EventIdIs, Zenon
    <3>3. QED
      BY <3>1, <3>2, Zenon
  <2>2. QED
    BY <2>1, Zenon
<1>5. \A k \in 1..(L + Fresh) : k \in 1..L \/ (k - L \in 1..Fresh /\ L + (k - L) = k)
  BY <1>1
<1>6. /\ \A k \in 1..L : k \in 1..(L + Fresh)
      /\ \A k \in (L + 1)..(L + Fresh) :
           k \in 1..(L + Fresh) /\ k - L \in 1..Fresh /\ L + (k - L) = k
      /\ \A k \in 1..L : k \notin (L + 1)..(L + Fresh)
      /\ \A k \in 1..(L + Fresh) : k - L \in 1..Fresh => k \in (L + 1)..(L + Fresh)
  BY <1>1
<1>7. \A k \in (L + 1)..(L + Fresh) : log'.events[k].event_id.call = Current.id
  <2>1. ASSUME NEW k \in (L + 1)..(L + Fresh)
        PROVE  log'.events[k].event_id.call = Current.id
    <3>1. k - L \in 1..Fresh /\ L + (k - L) = k
      BY <1>6, <2>1, Zenon
    <3>2. log'.events[L + (k - L)].event_id.call = Current.id
      BY <1>4, <3>1, Zenon
    <3>3. QED
      BY <3>1, <3>2, Zenon
  <2>2. QED
    BY <2>1, Zenon
<1>8. \A k \in 1..L : log.events[k].event_id.call # Current.id
  <2>1. WrittenInv /\ 1 \in 1..Len(queue) /\ Current = queue[1]
    BY AtHand, Zenon DEF ServerInv
  <2>2. writer \notin {"indexed", "counted"}
    OBVIOUS
  <2>3. Mine(log, Current.id) = {}
    BY <2>1, <2>2, Zenon DEF WrittenInv
  <2>4. QED
    BY <2>3, Zenon DEF Mine, L
<1>9. Mine(log', Current.id) = (L + 1)..(L + Fresh)
  <2>1. ASSUME NEW k \in Mine(log', Current.id)
        PROVE  k \in (L + 1)..(L + Fresh)
    <3>1. k \in 1..(L + Fresh) /\ log'.events[k].event_id.call = Current.id
      BY <1>1, <2>1, Zenon DEF Mine
    <3>2. k \notin 1..L
      BY <1>1, <1>8, <3>1, Zenon
    <3>3. QED
      BY <1>5, <1>6, <3>1, <3>2, Zenon
  <2>2. ASSUME NEW k \in (L + 1)..(L + Fresh)
        PROVE  k \in Mine(log', Current.id)
    BY <1>1, <1>6, <1>7, <2>2, Zenon DEF Mine
  <2>3. QED
    BY <2>1, <2>2, Zenon
<1>10. ASSUME NEW id, id # Current.id
       PROVE  Mine(log', id) = Mine(log, id)
  <2>1. ASSUME NEW k \in Mine(log', id)
        PROVE  k \in Mine(log, id)
    <3>1. k \in 1..(L + Fresh) /\ log'.events[k].event_id.call = id
      BY <1>1, <2>1, Zenon DEF Mine
    <3>2. k \in 1..L
      BY <1>5, <1>6, <1>7, <1>10, <3>1, Zenon
    <3>3. QED
      BY <1>1, <3>1, <3>2, Zenon DEF Mine, L
  <2>2. ASSUME NEW k \in Mine(log, id)
        PROVE  k \in Mine(log', id)
    <3>1. k \in 1..L /\ log.events[k].event_id.call = id
      BY <2>2, Zenon DEF Mine, L
    <3>2. QED
      BY <1>1, <1>6, <3>1, Zenon DEF Mine
  <2>3. QED
    BY <2>1, <2>2, Zenon
<1>11. \A k \in 1..Fresh :
         log'.events[L + k].stream_version = log'.events[L + 1].stream_version + k - 1
  <2>1. log'.events[L + 1].stream_version = v
    <3>1. 1 \in 1..Fresh /\ v + 1 - 1 = v
      BY <1>1, <1>2
    <3>2. log'.events[L + 1].stream_version = v + 1 - 1
      BY <1>3, <3>1, Zenon
    <3>3. QED
      BY <3>1, <3>2, Zenon
  <2>2. QED
    BY <1>3, <2>1, Zenon
<1>12. Lies(log', Current.id, Current.req, L)
  <2>1. Fresh = Len(Current.req.events)
    BY Zenon DEF Fresh
  <2>2. QED
    BY <1>3, <1>9, <1>11, <2>1, Zenon DEF Lies, s
<1>13. QED
  BY <1>10, <1>12, Zenon DEF L

LEMMA WriterAppendsStep ==
  ASSUME ServerInv, WriterAppends
  PROVE  ServerInv'
<1> DEFINE s == parse_uuid(Current.req.stream_id)
           L == Len(log.events)
<1>1. /\ TypeOK /\ PhaseInv /\ HealthInv /\ CallInv /\ IdsInv /\ QueueInv
      /\ LogInv /\ WrittenInv /\ AppendAnswers /\ MetricsInv /\ GaugeInv
  BY Zenon DEF ServerInv
<1>2. /\ queue # <<>> /\ writer = "up" /\ writer' = "indexed" /\ log' = Indexed(Current)
      /\ env' = env /\ base' = base /\ health' = health /\ phase' = phase
      /\ calls' = calls /\ metrics' = metrics /\ queue' = queue /\ call' = call
  BY Zenon DEF WriterAppends, Working, process, telemetry
<1>3. /\ log'.events \in Seq(RecordedEvent)
      /\ log'.streams \in [DOMAIN log'.streams -> Seq(Nat)]
      /\ DOMAIN log'.streams = DOMAIN log.streams \cup {s}
      /\ Len(log'.events) = L + Fresh
      /\ L \in Nat /\ Fresh \in Nat /\ Fresh >= 1
      /\ \A k \in 1..L : log'.events[k] = log.events[k]
      /\ \A k \in 1..Fresh : log'.events[L + k] = Recorded(Current)[k]
  BY <1>2, IndexedIs, Zenon
<1>4. /\ Lies(log', Current.id, Current.req, L)
      /\ \A id : id # Current.id => Mine(log', id) = Mine(log, id)
  BY <1>2, IndexedMine, Zenon
<1>5. /\ Current' = Current /\ Fresh' = Fresh /\ config' = config
  BY <1>2, Zenon DEF Current, Fresh, config
<1>6. /\ 1 \in 1..Len(queue) /\ Current = queue[1] /\ Current.id \in 1..calls
      /\ \A d \in Clients : call[d].id = Current.id =>
           /\ d = Current.client
           /\ call[d].state = "queued" /\ call[d].req = Current.req
  BY <1>2, AtHand, Zenon
<1>7. base \in Nat /\ base <= L /\ calls \in Nat
  BY <1>1, Zenon DEF TypeOK, LogInv
<1> HIDE DEF L, s
<1>8. TypeOK'
  BY <1>1, <1>2, <1>3, Zenon DEF TypeOK
<1>9. PhaseInv'
  <2>1. /\ phase \notin Starting /\ phase # "exited"
        /\ phase \notin {"config", "open", "broker", "writer"}
    BY <1>2, WorkPhase, Zenon
  <2>2. \A c \in Clients : InFlight(c)' => phase \in Accepting \cup {"draining"}
    BY <1>1, <1>2, Zenon DEF PhaseInv, InFlight
  <2>3. QED
    BY <1>1, <1>2, <1>5, <2>1, <2>2, Zenon DEF PhaseInv
<1>10. HealthInv'
  BY <1>1, <1>2, Zenon DEF HealthInv, Answers
<1>11. TaskInv'
  BY <1>2 DEF TaskInv, Alive
<1>12. CallInv' /\ IdsInv' /\ QueueInv' /\ GaugeInv'
  <2>1. CallInv'
    BY <1>1, <1>2, <1>5, Zenon DEF CallInv
  <2>2. IdsInv'
    BY <1>1, <1>2, Zenon DEF IdsInv
  <2>3. QueueInv'
    BY <1>1, <1>2, QueueSame, Zenon
  <2>4. GaugeInv'
    BY <1>1, <1>2, Zenon DEF GaugeInv
  <2>5. QED
    BY <2>1, <2>2, <2>3, <2>4, Zenon
<1>13. \A k \in 1..(L + Fresh) : k \in 1..L \/ (k - L \in 1..Fresh /\ L + (k - L) = k)
  BY <1>3
<1>14. \A k \in 1..Fresh :
         /\ L + k \in 1..(L + Fresh) /\ (L + k) - 1 = L + k - 1
         /\ log'.events[L + k].event_id.call = Current.id
         /\ log'.events[L + k].stream_id = s
         /\ log'.events[L + k].global_position = L + k - 1
  <2>1. \A k \in 1..Fresh :
          /\ Recorded(Current)[k].event_id = EventId(Current.id, Current.req.events[k])
          /\ Recorded(Current)[k].stream_id = s
          /\ Recorded(Current)[k].global_position = L + k - 1
    BY <1>2, RecordedIs, Zenon DEF s, L
  <2>2. \A k \in 1..Fresh : L + k \in 1..(L + Fresh) /\ (L + k) - 1 = L + k - 1
    BY <1>3
  <2>3. ASSUME NEW k \in 1..Fresh
        PROVE  /\ log'.events[L + k].event_id.call = Current.id
               /\ log'.events[L + k].stream_id = s
               /\ log'.events[L + k].global_position = L + k - 1
    <3>0. log'.events[L + k] = Recorded(Current)[k]
      BY <1>3, <2>3, Zenon
    <3>1. Recorded(Current)[k].event_id = EventId(Current.id, Current.req.events[k])
      BY <2>1, <2>3, Zenon
    <3>2. EventId(Current.id, Current.req.events[k]).call = Current.id
      BY EventIdIs, Zenon
    <3>3. QED
      BY <2>1, <2>3, <3>0, <3>1, <3>2, Zenon
  <2>4. QED
    BY <2>2, <2>3, Zenon
<1>15. LogInv'
  <2>1. base' <= Len(log'.events)
    BY <1>2, <1>3, <1>7
  <2>2. ASSUME NEW k \in 1..Len(log'.events)
        PROVE  /\ log'.events[k].global_position = k - 1
               /\ log'.events[k].event_id.call \in 0..calls'
               /\ log'.events[k].stream_id \in DOMAIN log'.streams
    <3>1. k \in 1..(L + Fresh)
      BY <1>3, <2>2, Zenon
    <3>2. CASE k \in 1..L
      <4>1. log.events[k].stream_id \in DOMAIN log.streams
        BY <1>1, <3>2, Zenon DEF LogInv, L
      <4>2. QED
        BY <1>1, <1>2, <1>3, <3>2, <4>1, Zenon DEF LogInv, L
    <3>3. CASE k \notin 1..L
      <4>1. k - L \in 1..Fresh /\ L + (k - L) = k
        BY <1>13, <3>1, <3>3, Zenon
      <4>2. PICK j \in 1..Fresh : k = L + j
        BY <4>1, Zenon
      <4>3. Current.id \in 0..calls
        BY <1>6, <1>7
      <4>4. QED
        BY <1>2, <1>3, <1>14, <4>2, <4>3, Zenon
    <3>4. QED
      BY <3>2, <3>3, Zenon
  <2>3. ASSUME NEW t \in DOMAIN log'.streams
        PROVE  \E k \in 1..Len(log'.events) : log'.events[k].stream_id = t
    <3>1. CASE t = s
      <4>1. 1 \in 1..Fresh
        BY <1>3
      <4>2. QED
        BY <1>3, <1>14, <3>1, <4>1, Zenon
    <3>2. CASE t # s
      <4>1. t \in DOMAIN log.streams
        BY <1>3, <3>2, Zenon
      <4>2. PICK k \in 1..L : log.events[k].stream_id = t
        BY <1>1, <4>1, Zenon DEF LogInv, L
      <4>3. k \in 1..Len(log'.events)
        BY <1>3
      <4>4. QED
        BY <1>3, <4>2, <4>3, Zenon
    <3>3. QED
      BY <3>1, <3>2, Zenon
  <2>4. DOMAIN log'.streams = {log'.events[k].stream_id : k \in 1..Len(log'.events)}
    BY <2>2, <2>3, Zenon
  <2>5. QED
    BY <2>1, <2>2, <2>4, Zenon DEF LogInv
<1>16. WrittenInv'
  <2>1. writer \notin {"indexed", "counted"} /\ writer' \in {"indexed", "counted"}
    BY <1>2
  <2>2. ASSUME NEW i \in 1..Len(queue), Mine(log', queue[i].id) # {}
        PROVE  i = 1
    <3>1. CASE queue[i].id = Current.id
      BY <1>1, <1>6, <3>1, Zenon DEF QueueInv
    <3>2. CASE queue[i].id # Current.id
      BY <1>1, <1>4, <2>1, <2>2, <3>2, Zenon DEF WrittenInv
    <3>3. QED
      BY <3>1, <3>2, Zenon
  <2>3. ASSUME NEW c \in Clients, call[c].id # 0, Mine(log', call[c].id) # {}
        PROVE  call[c].state = "queued" \/ Succeeded(call[c])
    <3>1. CASE call[c].id = Current.id
      BY <1>6, <3>1, Zenon
    <3>2. CASE call[c].id # Current.id
      BY <1>1, <1>4, <2>3, <3>2, Zenon DEF WrittenInv
    <3>3. QED
      BY <3>1, <3>2, Zenon
  <2>4. QED
    BY <1>2, <2>1, <2>2, <2>3, Zenon DEF WrittenInv
<1>17. TailInv'
  <2>1. Fresh <= (L + Fresh) - base /\ (L + Fresh) - Fresh = L
    BY <1>3, <1>7
  <2>2. QED
    BY <1>2, <1>3, <1>4, <1>5, <2>1, Zenon DEF TailInv
<1>18. AppendAnswers'
  <2>1. ASSUME NEW c \in Clients, call[c].state = "answered", call[c].req.rpc = "append"
        PROVE  AnswerExact(log', call[c])
    <3>1. call[c].id # Current.id
      BY <1>6, <2>1
    <3>2. Mine(log', call[c].id) = Mine(log, call[c].id)
      BY <1>4, <3>1, Zenon
    <3>3. AnswerExact(log, call[c])
      BY <1>1, <2>1, Zenon DEF AppendAnswers, Answers
    <3>4. call[c].resp.status = "OK" =>
            /\ call[c].resp.body.first_global_position \in Nat
            /\ Len(call[c].req.events) \in Nat /\ Len(call[c].req.events) >= 1
      BY <2>1, SucceededIs, Zenon DEF Succeeded
    <3>5. /\ Len(log.events) \in Nat
          /\ \A k \in 1..Len(log.events) : log'.events[k] = log.events[k]
      BY <1>3, Zenon DEF L
    <3>6. QED
      BY <3>2, <3>3, <3>4, <3>5, AnswerKept, Zenon
  <2>2. QED
    BY <1>2, <2>1, Zenon DEF AppendAnswers, Answers
<1>19. MetricsInv'
  <2>1. /\ metrics.events <= L - base /\ metrics.global_position <= L
        /\ metrics.events = L - base - Uncounted
        /\ metrics.events \in Nat /\ metrics.global_position \in Nat
    BY <1>1, <1>2, WorkPhase, Zenon DEF MetricsInv, TypeOK, L
  <2>2. Uncounted = 0 /\ Uncounted' = Fresh
    BY <1>2, <1>5 DEF Uncounted
  <2>3. /\ metrics.events <= (L + Fresh) - base /\ metrics.global_position <= L + Fresh
        /\ metrics.events = (L + Fresh) - base - Fresh
    BY <1>3, <1>7, <2>1, <2>2
  <2>4. \A c \in Clients : Succeeded(call[c]) =>
          /\ metrics.global_position > call[c].resp.body.last_global_position
          /\ metrics.events > call[c].resp.body.last_global_position - base
    BY <1>1, Zenon DEF MetricsInv
  <2>5. writer' # "counted" /\ writer' \notin {"up", "counted"}
    BY <1>2
  <2>6. QED
    BY <1>2, <1>3, <2>2, <2>3, <2>4, <2>5, Zenon DEF MetricsInv
<1>20. QED
  BY <1>8, <1>9, <1>10, <1>11, <1>12, <1>15, <1>16, <1>17, <1>18, <1>19, Zenon
     DEF ServerInv

-----------------------------------------------------------------------------
(* It counts them, before it answers.                                      *)

LEMMA WriterCountsStep ==
  ASSUME ServerInv, WriterCounts
  PROVE  ServerInv'
<1> DEFINE L == Len(log.events)
<1>1. /\ TypeOK /\ PhaseInv /\ HealthInv /\ CallInv /\ IdsInv /\ QueueInv
      /\ LogInv /\ WrittenInv /\ TailInv /\ AppendAnswers /\ MetricsInv /\ GaugeInv
  BY Zenon DEF ServerInv
<1>2. /\ queue # <<>> /\ writer = "indexed" /\ writer' = "counted" /\ log' = log
      /\ metrics' = IF metrics.installed THEN Counted(metrics) ELSE metrics
      /\ env' = env /\ base' = base /\ health' = health /\ phase' = phase
      /\ calls' = calls /\ queue' = queue /\ call' = call
  BY Zenon DEF WriterCounts, Working, process
<1>3. /\ phase \notin Starting /\ phase # "exited" /\ metrics.installed
      /\ phase \notin {"config", "open", "broker", "writer"} /\ writer \in Alive
  BY <1>2, WorkPhase, Zenon
<1>4. writer \in {"indexed", "counted"} /\ writer' \in {"indexed", "counted"}
  BY <1>2
<1>5. /\ Fresh \in Nat /\ Fresh >= 1 /\ L \in Nat /\ base \in Nat
      /\ Fresh <= L - base /\ LastRecorded # <<>> /\ Len(LastRecorded) = Fresh
      /\ LastRecorded[Len(LastRecorded)].global_position = L - 1
  BY <1>2, <1>4, LastIs, Zenon
<1>6. /\ Current' = Current /\ Fresh' = Fresh /\ config' = config
  BY <1>2, Zenon DEF Current, Fresh, config
<1> HIDE DEF L
<1>7. /\ DOMAIN metrics = DOMAIN NoMetrics /\ metrics.events \in Nat
      /\ metrics.appends \in Nat /\ metrics.global_position \in Nat
      /\ metrics.subscriptions \in Nat
  BY <1>1, Zenon DEF TypeOK
<1>8. /\ DOMAIN metrics' = DOMAIN metrics /\ metrics'.installed
      /\ metrics'.appends = metrics.appends + 1
      /\ metrics'.events = metrics.events + Len(LastRecorded)
      /\ metrics'.global_position =
           LastRecorded[Len(LastRecorded)].global_position + 1
      /\ metrics'.streams = Cardinality(DOMAIN log.streams)
      /\ metrics'.subscriptions = metrics.subscriptions
  <2>1. metrics' = Counted(metrics)
    BY <1>2, <1>3, Zenon
  <2>2. DOMAIN metrics = {"installed", "appends", "events", "reads", "subscriptions",
                          "global_position", "streams"}
    BY <1>7 DEF NoMetrics
  <2>3. QED
    BY <1>3, <1>5, <2>1, <2>2 DEF Counted
<1>9. /\ metrics'.events = L - base /\ metrics'.global_position = L
      /\ metrics'.appends > 0 /\ metrics'.appends \in Nat /\ metrics'.events \in Nat
      /\ metrics.events + Fresh = L - base /\ metrics.global_position <= L
  <2>1. metrics.events = L - base - Uncounted /\ metrics.global_position <= L
    BY <1>1, <1>3, Zenon DEF MetricsInv, L
  <2>2. Uncounted = Fresh
    BY <1>2, Zenon DEF Uncounted
  <2>3. QED
    BY <1>5, <1>7, <1>8, <2>1, <2>2
<1>10. TypeOK'
  <2>1. metrics'.global_position \in Nat
    BY <1>5, <1>9, Zenon
  <2>2. QED
    BY <1>1, <1>2, <1>7, <1>8, <1>9, <2>1, Zenon DEF TypeOK
<1>11. PhaseInv'
  <2>1. \A c \in Clients : InFlight(c)' => phase \in Accepting \cup {"draining"}
    BY <1>1, <1>2, Zenon DEF PhaseInv, InFlight
  <2>2. QED
    BY <1>1, <1>2, <1>3, <1>6, <1>8, <2>1, Zenon DEF PhaseInv
<1>12. HealthInv'
  BY <1>1, <1>2, Zenon DEF HealthInv, Answers
<1>13. TaskInv'
  BY <1>2 DEF TaskInv, Alive
<1>14. CallInv' /\ IdsInv' /\ QueueInv' /\ LogInv'
  <2>1. CallInv'
    BY <1>1, <1>2, <1>6, Zenon DEF CallInv
  <2>2. IdsInv'
    BY <1>1, <1>2, Zenon DEF IdsInv
  <2>3. QueueInv'
    BY <1>1, <1>2, QueueSame, Zenon
  <2>4. LogInv'
    BY <1>1, <1>2, Zenon DEF LogInv
  <2>5. QED
    BY <2>1, <2>2, <2>3, <2>4, Zenon
<1>15. WrittenInv' /\ TailInv'
  <2>1. WrittenInv'
    BY <1>1, <1>2, <1>4, Zenon DEF WrittenInv
  <2>2. TailInv'
    BY <1>1, <1>2, <1>4, <1>6, Zenon DEF TailInv
  <2>3. QED
    BY <2>1, <2>2, Zenon
<1>16. AppendAnswers' /\ GaugeInv'
  <2>1. AppendAnswers'
    BY <1>1, <1>2, Zenon DEF AppendAnswers, Answers
  <2>2. GaugeInv'
    BY <1>1, <1>2, <1>8, Zenon DEF GaugeInv
  <2>3. QED
    BY <2>1, <2>2, Zenon
<1>17. MetricsInv'
  <2>1. ASSUME NEW c \in Clients, Succeeded(call[c])
        PROVE  /\ L > call[c].resp.body.last_global_position
               /\ L - base > call[c].resp.body.last_global_position - base
    <3>1. PICK last \in Int : last = call[c].resp.body.last_global_position
      BY <2>1, SucceededIs, Zenon
    <3>2. metrics.global_position > last
      BY <1>1, <2>1, <3>1, Zenon DEF MetricsInv
    <3>3. L > last /\ L - base > last - base
      BY <1>5, <1>7, <1>9, <3>2
    <3>4. QED
      BY <3>1, <3>3, Zenon
  <2>2. Uncounted' = 0
    BY <1>2 DEF Uncounted
  <2>3. L <= L /\ L - base <= L - base /\ L - base = L - base - 0
    BY <1>5
  <2>4. QED
    BY <1>2, <1>8, <1>9, <2>1, <2>2, <2>3, Zenon DEF MetricsInv, L
<1>18. QED
  BY <1>10, <1>11, <1>12, <1>13, <1>14, <1>15, <1>16, <1>17, Zenon DEF ServerInv

-----------------------------------------------------------------------------
(* It panics between two calls, or ends.                                   *)

LEMMA WriterPanicsStep ==
  ASSUME ServerInv, WriterPanics
  PROVE  ServerInv'
<1> DEFINE resp == Status(error_to_status.InvalidArgument)
<1>1. /\ TypeOK /\ PhaseInv /\ HealthInv /\ CallInv /\ IdsInv /\ QueueInv
      /\ LogInv /\ WrittenInv /\ AppendAnswers /\ MetricsInv /\ GaugeInv
  BY Zenon DEF ServerInv
<1>2. /\ queue # <<>> /\ writer = "up" /\ writer' = "dead" /\ queue' = <<>>
      /\ env' = env /\ base' = base /\ health' = health /\ phase' = phase
      /\ calls' = calls /\ log' = log /\ metrics' = metrics
  BY Zenon DEF WriterPanics, Working, process, telemetry
<1>3. config' = config
  BY <1>2, Zenon DEF config
<1>4. resp.status # "OK"
  BY DEF Status, error_to_status
<1> HIDE DEF resp
<1>5. /\ DOMAIN call' = Clients
      /\ \A c \in Clients : call[c].state # "queued" => call'[c] = call[c]
      /\ \A c \in Clients : call[c].state = "queued" => call'[c] = Answered(c, resp)
  BY Zenon DEF WriterPanics, resp
<1>6. ASSUME NEW c \in Clients, call[c].state = "queued"
      PROVE  /\ call'[c].state = "answered" /\ call'[c].resp = resp
             /\ call'[c].req = call[c].req /\ call'[c].id = call[c].id
             /\ DOMAIN call'[c] = DOMAIN Idle
             /\ Mine(log, call[c].id) = {} /\ ~Succeeded(call'[c])
  <2>1. InFlight(c) /\ call'[c] = Answered(c, resp)
    BY <1>5, <1>6 DEF InFlight
  <2>2. /\ Answered(c, resp).state = "answered" /\ Answered(c, resp).resp = resp
        /\ Answered(c, resp).req = call[c].req /\ Answered(c, resp).id = call[c].id
        /\ DOMAIN Answered(c, resp) = DOMAIN Idle
    BY <2>1, AnsweredIs, Zenon
  <2>3. PICK i \in 1..Len(queue) : queue[i].id = call[c].id
    BY <1>1, <1>6, QueuedIs, Zenon
  <2>4. writer \notin {"indexed", "counted"}
    BY <1>2
  <2>5. Mine(log, queue[i].id) = {}
    BY <1>1, <2>3, <2>4, Zenon DEF WrittenInv
  <2>6. ~Succeeded(call'[c])
    BY <1>4, <2>1, <2>2, Zenon DEF Succeeded
  <2>7. QED
    BY <2>1, <2>2, <2>3, <2>5, <2>6, Zenon
<1>7. \A c \in Clients : call'[c].id = call[c].id
  BY <1>5, <1>6, Zenon
<1>8. /\ writer' \notin Alive /\ writer' \notin {"indexed", "counted"}
      /\ writer' \notin {"up", "counted"} /\ writer' # "counted"
      /\ writer' \in Alive \cup {"none", "exited", "dead"}
  BY <1>2 DEF Alive
<1>9. TypeOK'
  BY <1>1, <1>2, <1>5, EmptySeq, Zenon DEF TypeOK
<1>10. PhaseInv'
  <2>1. ASSUME NEW c \in Clients, InFlight(c)'
        PROVE  phase \in Accepting \cup {"draining"}
    <3>1. call[c].state # "queued"
      BY <1>6, <2>1 DEF InFlight
    <3>2. InFlight(c)
      BY <1>5, <2>1, <3>1, Zenon DEF InFlight
    <3>3. QED
      BY <1>1, <3>2, Zenon DEF PhaseInv
  <2>2. /\ phase \notin Starting /\ phase # "exited"
        /\ phase \notin {"config", "open", "broker", "writer"}
    BY <1>2, WorkPhase, Zenon
  <2>3. QED
    BY <1>1, <1>2, <1>3, <2>1, <2>2, Zenon DEF PhaseInv
<1>11. HealthInv'
  <2>1. ASSUME NEW d \in Answers("check")', call'[d].resp = Response("NotServing")
        PROVE  phase \in Fallen(call'[d].req.service) \cup {"exited"}
    <3>1. d \in Clients /\ call'[d].state = "answered" /\ call'[d].req.rpc = "check"
      BY <2>1, Zenon DEF Answers
    <3>2. call[d].state # "queued"
      <4>1. Response("NotServing").status = "OK"
        BY ResponseIs, Zenon
      <4>2. QED
        BY <1>4, <1>6, <2>1, <3>1, <4>1, Zenon
    <3>3. call'[d] = call[d]
      BY <1>5, <3>1, <3>2, Zenon
    <3>4. d \in Answers("check") /\ call[d].resp = Response("NotServing")
      BY <2>1, <3>1, <3>3, Zenon DEF Answers
    <3>5. QED
      BY <1>1, <3>3, <3>4, Zenon DEF HealthInv
  <2>2. QED
    BY <1>1, <1>2, <2>1, Zenon DEF HealthInv
<1>12. TaskInv' /\ TailInv'
  BY <1>2, <1>8, Zenon DEF TaskInv, TailInv
<1>13. CallInv'
  <2>1. ASSUME NEW d \in Clients, call[d].state = "queued"
        PROVE  CallOK(call'[d], calls, config.jwt_secret)
    <3>1. /\ call[d].id \in 0..calls /\ call[d].req \in Requests /\ call[d].id # 0
          /\ Admits(config.jwt_secret, call[d].req)
      <4>1. /\ call[d].state \in {"queued", "created", "streaming"}
            /\ call[d].state # "idle"
        BY <2>1
      <4>2. QED
        BY <1>1, <4>1, Zenon DEF CallInv, CallOK
    <3>2. /\ call'[d].state = "answered" /\ call'[d].resp = resp
          /\ call'[d].req = call[d].req /\ call'[d].id = call[d].id
          /\ DOMAIN call'[d] = DOMAIN Idle /\ ~Succeeded(call'[d])
      BY <1>6, <2>1, Zenon
    <3>3. /\ call'[d].state \in Undecided \cup {"idle", "answered"}
          /\ call'[d].state # "idle" /\ call'[d].state \notin Undecided
          /\ call'[d].state \notin {"queued", "created", "streaming"}
          /\ call'[d].state # "queued" /\ call'[d].state \notin {"created", "streaming"}
      BY <3>2 DEF Undecided
    <3>4. QED
      BY <3>1, <3>2, <3>3, Zenon DEF CallOK
  <2>2. \A d \in Clients : CallOK(call'[d], calls, config.jwt_secret)
    BY <1>1, <1>5, <2>1, Zenon DEF CallInv
  <2>3. QED
    BY <1>2, <1>3, <2>2, Zenon DEF CallInv
<1>14. IdsInv'
  <2>1. ASSUME NEW d \in Clients, NEW e \in Clients, call'[d].id = call'[e].id,
               call'[d].id # 0
        PROVE  d = e
    <3>1. call[d].id = call[e].id /\ call[d].id # 0
      BY <1>7, <2>1, Zenon
    <3>2. QED
      BY <1>1, <3>1, Zenon DEF IdsInv
  <2>2. QED
    BY <2>1, Zenon DEF IdsInv
<1>15. QueueInv'
  <2>1. \A d \in Clients : call'[d].state # "queued"
    <3>1. ASSUME NEW d \in Clients, call[d].state = "queued"
          PROVE  call'[d].state # "queued"
      BY <1>6, <3>1
    <3>2. QED
      BY <1>5, <3>1, Zenon
  <2>2. QED
    BY <1>2, <2>1, NoElement, Zenon DEF QueueInv
<1>16. LogInv'
  BY <1>1, <1>2, Zenon DEF LogInv
<1>17. WrittenInv'
  <2>1. ASSUME NEW d \in Clients, call'[d].id # 0, Mine(log, call'[d].id) # {}
        PROVE  call'[d].state = "queued" \/ Succeeded(call'[d])
    <3>1. call[d].state # "queued"
      BY <1>6, <1>7, <2>1, Zenon
    <3>2. QED
      BY <1>1, <1>5, <2>1, <3>1, Zenon DEF WrittenInv
  <2>2. \A i \in 1..Len(queue') : FALSE
    BY <1>2, NoElement, Zenon
  <2>3. QED
    BY <1>2, <2>1, <2>2, Zenon DEF WrittenInv
<1>18. AppendAnswers'
  <2>1. ASSUME NEW d \in Answers("append")'
        PROVE  AnswerExact(log, call'[d])
    <3>1. d \in Clients /\ call'[d].state = "answered" /\ call'[d].req.rpc = "append"
      BY <2>1, Zenon DEF Answers
    <3>2. CASE call[d].state = "queued"
      BY <1>4, <1>6, <3>1, <3>2, Zenon DEF AnswerExact
    <3>3. CASE call[d].state # "queued"
      BY <1>1, <1>5, <3>1, <3>3, Zenon DEF AppendAnswers, Answers
    <3>4. QED
      BY <3>2, <3>3, Zenon
  <2>2. QED
    BY <1>2, <2>1, Zenon DEF AppendAnswers
<1>19. MetricsInv'
  <2>1. \A d \in Clients : Succeeded(call'[d]) => call'[d] = call[d]
    BY <1>5, <1>6, Zenon
  <2>2. QED
    BY <1>1, <1>2, <1>8, <2>1, Zenon DEF MetricsInv
<1>20. GaugeInv'
  <2>1. \A d \in Clients : call'[d].state = "streaming" <=> call[d].state = "streaming"
    <3>1. ASSUME NEW d \in Clients, call[d].state = "queued"
          PROVE  call'[d].state # "streaming" /\ call[d].state # "streaming"
      BY <1>6, <3>1
    <3>2. QED
      BY <1>5, <3>1, Zenon
  <2>2. {d \in Clients : call'[d].state = "streaming"} =
          {d \in Clients : call[d].state = "streaming"}
    BY <2>1, Zenon
  <2>3. QED
    BY <1>1, <1>2, <2>2, Zenon DEF GaugeInv
<1>21. QED
  BY <1>9, <1>10, <1>11, <1>12, <1>13, <1>14, <1>15, <1>16, <1>17, <1>18, <1>19,
     <1>20, Zenon DEF ServerInv

LEMMA WriterExitsStep ==
  ASSUME ServerInv, WriterExits
  PROVE  ServerInv'
<1>1. /\ TypeOK /\ PhaseInv /\ HealthInv /\ CallInv /\ IdsInv /\ QueueInv
      /\ LogInv /\ WrittenInv /\ AppendAnswers /\ MetricsInv /\ GaugeInv
  BY Zenon DEF ServerInv
<1>2. /\ queue = <<>> /\ phase = "join" /\ writer' = "exited" /\ queue' = queue
      /\ env' = env /\ base' = base /\ health' = health /\ phase' = phase
      /\ calls' = calls /\ log' = log /\ metrics' = metrics /\ call' = call
  BY Zenon DEF WriterExits, recv_returns_none, process, telemetry
<1>3. /\ writer' \notin Alive /\ writer' \notin {"indexed", "counted"}
      /\ writer' \notin {"up", "counted"} /\ writer' # "counted"
      /\ writer' \in Alive \cup {"none", "exited", "dead"}
  BY <1>2 DEF Alive
<1>4. phase \notin Starting /\ phase # "exited" /\ config' = config
      /\ phase \notin {"config", "open", "broker", "writer"}
  BY <1>2 DEF Starting, config
<1>5. TypeOK'
  BY <1>1, <1>2, Zenon DEF TypeOK
<1>6. PhaseInv'
  <2>1. \A c \in Clients : InFlight(c)' => phase \in Accepting \cup {"draining"}
    BY <1>1, <1>2, Zenon DEF PhaseInv, InFlight
  <2>2. phase' = phase
    BY <1>2, Zenon
  <2>3. QED
    BY <1>1, <1>2, <1>4, <2>1, <2>2, Zenon DEF PhaseInv
<1>7. HealthInv'
  BY <1>1, <1>2, Zenon DEF HealthInv, Answers
<1>8. TaskInv' /\ TailInv'
  BY <1>2, <1>3, Zenon DEF TaskInv, TailInv
<1>9. CallInv' /\ IdsInv' /\ QueueInv' /\ LogInv'
  <2>1. CallInv'
    BY <1>1, <1>2, <1>4, Zenon DEF CallInv
  <2>2. IdsInv'
    BY <1>1, <1>2, Zenon DEF IdsInv
  <2>3. QueueInv'
    BY <1>1, <1>2, QueueSame, Zenon
  <2>4. LogInv'
    BY <1>1, <1>2, Zenon DEF LogInv
  <2>5. QED
    BY <2>1, <2>2, <2>3, <2>4, Zenon
<1>10. WrittenInv'
  <2>1. \A i \in 1..Len(queue') : FALSE
    BY <1>2, NoElement, Zenon
  <2>2. QED
    BY <1>1, <1>2, <2>1, Zenon DEF WrittenInv
<1>11. AppendAnswers' /\ GaugeInv' /\ MetricsInv'
  <2>1. AppendAnswers'
    BY <1>1, <1>2, Zenon DEF AppendAnswers, Answers
  <2>2. GaugeInv'
    BY <1>1, <1>2, Zenon DEF GaugeInv
  <2>3. MetricsInv'
    BY <1>1, <1>2, <1>3, Zenon DEF MetricsInv
  <2>4. QED
    BY <2>1, <2>2, <2>3, Zenon
<1>12. QED
  BY <1>5, <1>6, <1>7, <1>8, <1>9, <1>10, <1>11, Zenon DEF ServerInv
====
