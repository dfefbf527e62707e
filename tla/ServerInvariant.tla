-------------------------- MODULE ServerInvariant --------------------------
(***************************************************************************)
(* What the server keeps true at every step: between the phase of main,    *)
(* the calls, the channel, the writer task, the log and the metrics.       *)
(***************************************************************************)
EXTENDS Server

(* Before main serves; and after the first health update of the shutdown.  *)
Starting == {"config", "open", "broker", "writer", "recorder", "metrics", "tls",
             "bind", "set_service", "set_server"}
Leaving == {"unset_service", "draining", "abort", "join"}

Phases == Starting \cup Accepting \cup Ending \cup {"exited"}
Undecided == {"arrived", "queued", "created", "streaming"}

(* The types of what is counted and of what is in the log.                 *)
TypeOK ==
  /\ log.events \in Seq(RecordedEvent)
  /\ log.streams \in [DOMAIN log.streams -> Seq(Nat)]
  /\ base \in Nat /\ calls \in Nat
  /\ queue \in Seq([client : Clients, id : Nat, req : Requests])
  /\ metrics.events \in Nat /\ metrics.appends \in Nat
  /\ metrics.global_position \in Nat /\ metrics.subscriptions \in Nat
  /\ DOMAIN metrics = DOMAIN NoMetrics
  /\ DOMAIN call = Clients
  /\ DOMAIN health = Names

(* A server that gets past its configuration has a sound one; it serves    *)
(* with the recorder installed; calls are under way only while it serves.  *)
PhaseInv ==
  /\ phase \in Phases /\ (phase = "exited" => writer \notin Alive)
  /\ phase \notin {"config", "exited"} => config.ok
  /\ phase \in {"config", "open", "broker", "writer"} => writer = "none"
  /\ phase \in Starting =>
       /\ calls = 0 /\ \A c \in Clients : call[c] = Idle
       /\ metrics.appends = 0 /\ metrics.events = 0
       /\ metrics.global_position = 0
       /\ base = Len(log.events)
  /\ phase \in Accepting \cup Ending => metrics.installed
  /\ phase \in {"metrics", "tls", "bind", "set_service", "set_server"} =>
       metrics.installed
  /\ \A c \in Clients : InFlight(c) => phase \in Accepting \cup {"draining"}

(* The channel is empty unless the task runs, and it does not stop with a  *)
(* call at hand.                                                           *)
TaskInv ==
  /\ writer \in Alive \cup {"none", "exited", "dead"}
  /\ writer \notin Alive => queue = <<>>
  /\ writer \in {"indexed", "counted"} => queue # <<>>

(* The phases in which the status of a name has fallen.                    *)
Fallen(name) == IF name = "" THEN Leaving ELSE Ending

(* Each status falls once, and clients are told no sooner.                 *)
HealthInv ==
  /\ \A n \in Names : phase \in Fallen(n) => health[n] = "NotServing"
  /\ \A n \in Names :
       health[n] = "NotServing" => phase \in Fallen(n) \cup {"exited"}
  /\ \A c \in Answers("check") : call[c].resp = Response("NotServing") =>
       phase \in Fallen(call[c].req.service) \cup {"exited"}

(* A call has an ID of its own; it is handled only if it was admitted.     *)
Admits(secret, r) == r.rpc # "check" /\ secret => intercept(r.auth)

Succeeded(x) ==
  x.state = "answered" /\ x.req.rpc = "append" /\ x.resp.status = "OK"

CallOK(x, n, secret) ==
  /\ DOMAIN x = DOMAIN Idle
  /\ x.id \in 0..n
  /\ x.state \in Undecided \cup {"idle", "answered"}
  /\ x.state = "idle" => x = Idle
  /\ x.state # "idle" => x.req \in Requests /\ x.id # 0
  /\ x.state \in Undecided => x.resp = Status("none")
  /\ x.state \in {"queued", "created", "streaming"} => Admits(secret, x.req)
  /\ x.state = "answered" =>
       x.resp.status = "UNAUTHENTICATED" \/ Admits(secret, x.req)
  /\ x.state = "queued" => x.req.rpc = "append"
  /\ x.state \in {"created", "streaming"} => x.req.rpc = "subscribe"
  /\ Succeeded(x) =>
       x.resp.body.first_global_position \in Nat /\ x.req.events # <<>>

CallInv == \A c \in Clients : CallOK(call[c], calls, config.jwt_secret)

IdsInv ==
  \A c, d \in Clients : call[c].id = call[d].id /\ call[c].id # 0 => c = d

(* What is in the channel was valid, and its call still waits or was given *)
(* up.                                                                     *)
QueueInv ==
  /\ \A i \in 1..Len(queue) :
       /\ queue[i].id \in 1..calls
       /\ queue[i].req.rpc = "append" /\ append_valid(queue[i].req)
       /\ \A c \in Clients : call[c].id = queue[i].id =>
            /\ c = queue[i].client
            /\ call[c].state = "queued" /\ call[c].req = queue[i].req
  /\ \A i, j \in 1..Len(queue) : queue[i].id = queue[j].id => i = j
  /\ \A c \in Clients : call[c].state = "queued" =>
       \E i \in 1..Len(queue) : queue[i].id = call[c].id

LogInv ==
  /\ base <= Len(log.events)
  /\ DOMAIN log.streams = {log.events[k].stream_id : k \in 1..Len(log.events)}
  /\ \A k \in 1..Len(log.events) :
       /\ log.events[k].global_position = k - 1
       /\ log.events[k].event_id.call \in 0..calls

(* Only a call answered with OK has events in the log, or the one at hand  *)
(* once it is indexed.                                                     *)
WrittenInv ==
  /\ \A i \in 1..Len(queue) :
       Mine(log, queue[i].id) # {} => i = 1 /\ writer \in {"indexed", "counted"}
  /\ \A c \in Clients : call[c].id # 0 /\ Mine(log, call[c].id) # {} =>
       call[c].state = "queued" \/ Succeeded(call[c])

(* Those of the call at hand are the end of the log.                       *)
Fresh == Len(Current.req.events)

TailInv ==
  writer \in {"indexed", "counted"} =>
     /\ Fresh <= Len(log.events) - base
     /\ Lies(log, Current.id, Current.req, Len(log.events) - Fresh)

(* The metrics lag behind the log by the call at hand.                     *)
Uncounted == IF writer = "indexed" THEN Fresh ELSE 0

MetricsInv ==
  /\ metrics.events <= Len(log.events) - base
  /\ metrics.global_position <= Len(log.events)
  /\ writer \in Alive => metrics.events = Len(log.events) - base - Uncounted
  /\ writer = "counted" => metrics.appends > 0
  /\ writer \in {"up", "counted"} /\ metrics.appends > 0 =>
       /\ metrics.global_position = Len(log.events)
       /\ metrics.streams = Cardinality(DOMAIN log.streams)
  /\ \A c \in Clients : Succeeded(call[c]) =>
       /\ metrics.global_position > call[c].resp.body.last_global_position
       /\ metrics.events > call[c].resp.body.last_global_position - base

GaugeInv ==
  metrics.subscriptions =
    Cardinality({c \in Clients : call[c].state = "streaming"})

ServerInv ==
  /\ TypeOK /\ PhaseInv /\ TaskInv /\ HealthInv
  /\ CallInv /\ IdsInv /\ QueueInv
  /\ LogInv /\ WrittenInv /\ TailInv /\ AppendAnswers
  /\ MetricsInv /\ GaugeInv

(* What a read was told holds of the log as it was at the time, as long as *)
(* positions fit an u64.                                                   *)
Told(l, x) ==
  x.state = "answered" /\ x.resp.status # "UNAUTHENTICATED" =>
    /\ x.at \in 0..Len(l.events)
    /\ x.at <= MaxU64 => ReadExact(l, x)

ReadsInv == Ordered(log) /\ \A c \in Clients : Told(log, call[c])
====
