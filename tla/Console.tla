------------------------------ MODULE Console ------------------------------
(***************************************************************************)
(* The terminal console: its start, the event loop with the state it shows *)
(* (app.rs, main.rs, tui.rs, views), and the task that follows a           *)
(* subscription (client.rs).  The server's log grows meanwhile.            *)
(*                                                                         *)
(* An event stands for its global position, and what else it holds is in   *)
(* the log.  Widgets, styles, wording and payloads are left out.           *)
(***************************************************************************)
EXTENDS Integers, Sequences, FiniteSets

CONSTANTS
  LIVE_TAIL_CAPACITY,   \* app.rs
  READ_PAGE_SIZE,       \* main.rs
  ChannelCapacity,      \* of the channel from the subscription task
  Flags,                \* command lines
  Heights,              \* bound: rows there may be for a table
  Logs,                 \* bound: the logs the server may come to have
  MaxKeys               \* bound: keys pressed

(* The capacities of the program are positive; logs are of stream numbers. *)
ASSUME CapacitiesAssumption ==
  /\ LIVE_TAIL_CAPACITY \in Nat \ {0} /\ READ_PAGE_SIZE \in Nat \ {0}
  /\ ChannelCapacity \in Nat \ {0}
ASSUME HeightsAssumption == Heights \subseteq Nat
ASSUME LogsAssumption == Logs \subseteq Seq(Nat) \ {<<>>}

VARIABLES
  phase,        \* what main does next
  flags,        \* the command line
  tls,          \* TlsOptions
  outcome,      \* what main returned: "none", "ok" or which error
  term,         \* the terminal: raw mode, alternate screen
  app,          \* AppState
  screen,       \* what the last render drew, up to the key that follows
  task,         \* the subscription task
  chan,         \* the channel from it
  next,         \* the position the subscription sends next
  keys,         \* how many keys have been pressed
  log,          \* the server: the stream of each event, a number
  catching_up   \* the subscription has not sent CaughtUp yet

startup == <<flags, tls>>
subscription == <<task, chan, next, catching_up>>
vars == <<phase, startup, outcome, term, app, screen, subscription, keys, log>>

Tabs == {"Streams", "StreamDetail", "GlobalLog", "LiveTail"}
TAB_ORDER == <<"Streams", "StreamDetail", "GlobalLog", "LiveTail">>
None == -1
InLoop == {"render", "drain", "key"} \cup Tabs

Smaller(a, b) == IF a < b THEN a ELSE b
saturating_sub(a, b) == IF a < b THEN 0 ELSE a - b

-----------------------------------------------------------------------------
(* What the server answers.                                                *)

(* A set of numbers in ascending order.                                    *)
Ascending(S) ==
  [k \in 1..Cardinality(S) |->
     CHOOSE n \in S : Cardinality({m \in S : m < n}) = k - 1]

Positions(s) == Ascending({p \in 0..(Len(log) - 1) : log[p + 1] = s})

Page(seq) == SubSeq(seq, 1, Smaller(READ_PAGE_SIZE, Len(seq)))

list_streams ==
  LET ids == Ascending({log[k] : k \in 1..Len(log)})
  IN [k \in 1..Len(ids) |-> [stream_id |-> ids[k],
                             event_count |-> Len(Positions(ids[k])),
                             latest_version |-> Len(Positions(ids[k])) - 1]]

read_stream(s) == Page(Positions(s))
read_all == Page([k \in 1..Len(log) |-> k - 1])

-----------------------------------------------------------------------------
(* AppState.                                                               *)

AppState_new ==
  [active_tab |-> "Streams", should_quit |-> FALSE,
   cursor |-> [t \in Tabs |-> 0], loading |-> [t \in Tabs |-> FALSE],
   streams |-> <<>>, detail_stream_id |-> None, detail_events |-> <<>>,
   global_events |-> <<>>, live_events |-> <<>>,
   live_caught_up |-> FALSE, live_paused |-> FALSE]

(* Variant: one event too many is kept.                                    *)
push_live_eventLate(a, e) ==
  [a EXCEPT !.live_events =
     Append(IF Len(@) > LIVE_TAIL_CAPACITY THEN Tail(@) ELSE @, e)]

push_live_event(a, e) ==
  [a EXCEPT !.live_events =
     Append(IF Len(@) >= LIVE_TAIL_CAPACITY THEN Tail(@) ELSE @, e)]

current_list_len(a) ==
  Len(CASE a.active_tab = "Streams" -> a.streams
        [] a.active_tab = "StreamDetail" -> a.detail_events
        [] a.active_tab = "GlobalLog" -> a.global_events
        [] a.active_tab = "LiveTail" -> a.live_events)

(* Auto-load: the tab has no data yet.                                     *)
SwitchTab(a, tab) ==
  [a EXCEPT !.active_tab = tab,
            !.loading[tab] = @ \/ (tab = "Streams" /\ a.streams = <<>>)
                               \/ (tab = "GlobalLog" /\ a.global_events = <<>>)]

CursorUp(a) == [a EXCEPT !.cursor[a.active_tab] = saturating_sub(@, 1)]

(* Variant: the cursor is not held at the last item.                       *)
CursorDownFree(a) ==
  IF current_list_len(a) = 0 THEN a ELSE [a EXCEPT !.cursor[a.active_tab] = @ + 1]

CursorDown(a) ==
  IF current_list_len(a) = 0 THEN a
  ELSE [a EXCEPT !.cursor[a.active_tab] = Smaller(@ + 1, current_list_len(a) - 1)]

(* Variant: the first stream is opened, wherever the cursor is.            *)
SelectFirst(a) ==
  IF a.active_tab # "Streams" \/ a.streams = <<>> THEN a
  ELSE [a EXCEPT !.detail_stream_id = a.streams[1].stream_id,
                 !.detail_events = <<>>,
                 !.cursor["StreamDetail"] = 0,
                 !.loading["StreamDetail"] = TRUE,
                 !.active_tab = "StreamDetail"]

Select(a) ==
  IF a.active_tab # "Streams" \/ a.cursor["Streams"] >= Len(a.streams) THEN a
  ELSE [a EXCEPT !.detail_stream_id = a.streams[a.cursor["Streams"] + 1].stream_id,
                 !.detail_events = <<>>,
                 !.cursor["StreamDetail"] = 0,
                 !.loading["StreamDetail"] = TRUE,
                 !.active_tab = "StreamDetail"]

Refresh(a) == [a EXCEPT !.loading[a.active_tab] = @ \/ a.active_tab # "LiveTail"]

TogglePause(a) ==
  [a EXCEPT !.live_paused = IF a.active_tab = "LiveTail" THEN ~@ ELSE @]

(* Tab::next and Tab::prev, by steps round the order.                      *)
TabAfter(tab, steps) ==
  LET idx == CHOOSE i \in 0..3 : TAB_ORDER[i + 1] = tab
  IN TAB_ORDER[((idx + steps) % 4) + 1]

(* Esc and Ctrl-C are as q, the arrows as j and k.  f only changes how a   *)
(* payload is formatted.                                                   *)
Keys == {"q", "1", "2", "3", "4", "Tab", "BackTab", "j", "k", "Enter", "r", "f",
         "p"}

handle_key_event(a, key) ==
  CASE key = "q" -> [a EXCEPT !.should_quit = TRUE]
    [] key = "1" -> SwitchTab(a, "Streams")
    [] key = "2" -> SwitchTab(a, "StreamDetail")
    [] key = "3" -> SwitchTab(a, "GlobalLog")
    [] key = "4" -> SwitchTab(a, "LiveTail")
    [] key = "Tab" -> SwitchTab(a, TabAfter(a.active_tab, 1))
    [] key = "BackTab" -> SwitchTab(a, TabAfter(a.active_tab, 3))
    [] key = "j" -> CursorDown(a)
    [] key = "k" -> CursorUp(a)
    [] key = "Enter" -> Select(a)
    [] key = "r" -> Refresh(a)
    [] key = "p" -> TogglePause(a)
    [] OTHER -> a

-----------------------------------------------------------------------------
(***************************************************************************)
(* The views.  A table is given rows, and the index of the highlighted one *)
(* or 0; it has none while a message stands in their place.  The panel     *)
(* below it shows one event or none.                                       *)
(***************************************************************************)
Table(loading, rows, cursor) ==
  IF loading \/ rows = <<>> THEN [rows |-> <<>>, selected |-> 0]
  ELSE [rows |-> rows, selected |-> IF cursor < Len(rows) THEN cursor + 1 ELSE 0]

(* A Table without a state is drawn from its first row on.  A row for      *)
(* which there is no room is not seen, highlighted or not.                 *)
Drawn(table, height) ==
  [rows |-> SubSeq(table.rows, 1, Smaller(height, Len(table.rows))),
   selected |-> IF table.selected <= height THEN table.selected ELSE 0]

Item(seq, index) == IF index < Len(seq) THEN seq[index + 1] ELSE None

streams_render(a) == Table(a.loading["Streams"], a.streams, a.cursor["Streams"])

stream_detail_table(a) ==
  Table(a.loading["StreamDetail"], a.detail_events, a.cursor["StreamDetail"])
stream_detail_panel(a) == Item(a.detail_events, a.cursor["StreamDetail"])

global_log_table(a) ==
  Table(a.loading["GlobalLog"], a.global_events, a.cursor["GlobalLog"])
global_log_panel(a) == Item(a.global_events, a.cursor["GlobalLog"])

display_cursor(a) ==
  IF a.live_paused THEN a.cursor["LiveTail"] ELSE saturating_sub(Len(a.live_events), 1)

(* The slice panics unless start <= end.                                   *)
Window(a, height) ==
  LET start == saturating_sub(display_cursor(a), saturating_sub(height, 1))
  IN [start |-> start, end |-> Smaller(Len(a.live_events), start + height)]

live_tail_table(a, height) ==
  LET w == Window(a, height)
  IN Table(FALSE, SubSeq(a.live_events, w.start + 1, w.end),
           display_cursor(a) - w.start)
live_tail_panel(a) == Item(a.live_events, display_cursor(a))

(* The live tail makes its own window, which is drawn whole.               *)
render_content(a, height) ==
  CASE a.active_tab = "Streams" -> Drawn(streams_render(a), height)
    [] a.active_tab = "StreamDetail" -> Drawn(stream_detail_table(a), height)
    [] a.active_tab = "GlobalLog" -> Drawn(global_log_table(a), height)
    [] a.active_tab = "LiveTail" -> live_tail_table(a, height)

(* The stream seen highlighted on the Streams tab, and the list that was   *)
(* there when the frame was drawn.                                         *)
Shown(a, height) ==
  LET table == render_content(a, height)
  IN [stream |-> IF a.active_tab = "Streams" /\ table.selected > 0
                 THEN table.rows[table.selected].stream_id ELSE None,
      list |-> a.streams]

-----------------------------------------------------------------------------
(* The start.                                                              *)

Blank == [stream |-> None, list |-> <<>>]
Restored == [raw |-> FALSE, alternate |-> FALSE]
Plaintext == [enabled |-> FALSE, ca_pem |-> FALSE, identity |-> FALSE]
Message(kind, position) == [kind |-> kind, position |-> position]

Init ==
  /\ phase = "flags" /\ outcome = "none"
  /\ flags \in Flags /\ tls = Plaintext
  /\ term = Restored
  /\ app = AppState_new /\ screen = Blank
  /\ task = "none" /\ chan = <<>>
  /\ next = 0 /\ catching_up = TRUE
  /\ keys = 0
  /\ log \in {<<>>} \cup {SubSeq(l, 1, 1) : l \in Logs}

Exit(result) == phase' = "exited" /\ outcome' = result

validate_tls_flags ==
  /\ phase = "flags"
  /\ IF flags.cert # flags.key THEN Exit("flags")
     ELSE phase' = "tls" /\ UNCHANGED outcome
  /\ UNCHANGED <<startup, term, app, screen, subscription, keys, log>>

tls_options(f) ==
  IF ~f.tls /\ ~f.ca /\ ~f.cert THEN Plaintext
  ELSE [enabled |-> TRUE, ca_pem |-> f.ca, identity |-> f.cert]

(* A file that cannot be read is an error.                                 *)
build_tls_options ==
  /\ phase = "tls"
  /\ \/ tls' = tls_options(flags) /\ phase' = "connect" /\ UNCHANGED outcome
     \/ (flags.ca \/ flags.cert) /\ Exit("tls") /\ UNCHANGED tls
  /\ UNCHANGED <<flags, term, app, screen, subscription, keys, log>>

Client_connect ==
  /\ phase = "connect"
  /\ \/ phase' = "init" /\ UNCHANGED outcome
     \/ Exit("connect")
  /\ UNCHANGED <<startup, term, app, screen, subscription, keys, log>>

(* The subscription task is spawned, and the first load asked for.         *)
Launch ==
  /\ app' = [AppState_new EXCEPT !.loading["Streams"] = TRUE]
  /\ task' = "subscribing"

(* Its three steps may each fail, and what was done stays done.            *)
init_terminal ==
  /\ phase = "init"
  /\ \/ /\ term' = [raw |-> TRUE, alternate |-> TRUE]
        /\ phase' = "render"
        /\ Launch
        /\ UNCHANGED outcome
     \/ /\ term' \in {Restored, [raw |-> TRUE, alternate |-> FALSE],
                      [raw |-> TRUE, alternate |-> TRUE]}
        /\ Exit("init")
        /\ UNCHANGED <<app, task>>
  /\ UNCHANGED <<startup, screen, chan, next, catching_up, keys, log>>

-----------------------------------------------------------------------------
(* run_event_loop.  An error of the terminal ends it.                      *)

(* The loop returns; nobody reads the state any more.                      *)
Return(to) == phase' = to /\ app' = AppState_new

(***************************************************************************)
(* handle_data_fetches takes the tabs in their order.  The fetch that is   *)
(* wanted next, from the i-th tab on, or what comes after them.            *)
(***************************************************************************)
FetchFrom(i) ==
  LET wanted == {j \in i..Len(TAB_ORDER) : app.loading[TAB_ORDER[j]]}
  IN IF wanted = {} THEN "drain"
     ELSE TAB_ORDER[CHOOSE j \in wanted : \A k \in wanted : j <= k]

render ==
  /\ phase = "render"
  /\ \/ /\ \E h \in Heights : screen' = Shown(app, h)
        /\ phase' = FetchFrom(1) /\ UNCHANGED app
     \/ Return("restore_error") /\ UNCHANGED screen
  /\ UNCHANGED <<startup, outcome, term, subscription, keys, log>>

(* Variant: a failed fetch leaves its flag set.                            *)
LoadedOk(i, answer) ==
  /\ phase = TAB_ORDER[i] /\ phase' = FetchFrom(i + 1)
  /\ app' \in {[answer EXCEPT !.loading[phase] = FALSE], app}
  /\ UNCHANGED <<startup, outcome, term, screen, subscription, keys, log>>

(* The loop waits for the answer, or an error, which is logged.            *)
Loaded(i, answer) ==
  /\ phase = TAB_ORDER[i] /\ phase' = FetchFrom(i + 1)
  /\ app' \in {[a EXCEPT !.loading[phase] = FALSE] : a \in {answer, app}}
  /\ UNCHANGED <<startup, outcome, term, screen, subscription, keys, log>>

FetchStreams == Loaded(1, [app EXCEPT !.streams = list_streams])

FetchDetail ==
  Loaded(2, IF app.detail_stream_id = None THEN app
            ELSE [app EXCEPT !.detail_events = read_stream(app.detail_stream_id)])

FetchGlobal == Loaded(3, [app EXCEPT !.global_events = read_all])

(* try_recv, until the channel is empty.                                   *)
Drain ==
  /\ phase = "drain"
  /\ IF chan = <<>> THEN phase' = "key" /\ UNCHANGED <<app, chan>>
     ELSE /\ app' = CASE Head(chan).kind = "Event" ->
                           push_live_event(app, Head(chan).position)
                      [] Head(chan).kind = "CaughtUp" ->
                           [app EXCEPT !.live_caught_up = TRUE]
                      [] OTHER -> app
          /\ chan' = Tail(chan)
          /\ UNCHANGED phase
  /\ UNCHANGED <<startup, outcome, term, screen, task, next, catching_up, keys, log>>

(* One key at most, and the check of should_quit.                          *)
PollKey ==
  /\ phase = "key"
  /\ screen' = Blank
  /\ \/ /\ keys < MaxKeys
        /\ keys' = keys + 1
        /\ \E k \in Keys :
             IF handle_key_event(app, k).should_quit THEN Return("restore_ok")
             ELSE app' = handle_key_event(app, k) /\ phase' = "render"
     \/ phase' = "render" /\ UNCHANGED <<app, keys>>
     \/ Return("restore_error") /\ UNCHANGED keys
  /\ UNCHANGED <<startup, outcome, term, subscription, log>>

(* Its two steps may each fail; the second is not tried after the first.   *)
restore_terminal(ok) ==
  IF ok THEN term' = Restored ELSE term' \in {term, [term EXCEPT !.raw = FALSE]}

(* Variant: an error of the loop is returned before the terminal is        *)
(* restored.                                                               *)
RestoreIfOk ==
  /\ phase \in {"restore_ok", "restore_error"}
  /\ \/ phase = "restore_error" /\ Exit("loop") /\ UNCHANGED term
     \/ phase = "restore_ok" /\ restore_terminal(TRUE) /\ Exit("ok")
     \/ phase = "restore_ok" /\ restore_terminal(FALSE) /\ Exit("restore")
  /\ UNCHANGED <<startup, app, screen, subscription, keys, log>>

(* After the loop, however it ended.  The error of the loop is returned    *)
(* only if there is none here.                                             *)
Restore ==
  /\ phase \in {"restore_ok", "restore_error"}
  /\ \/ restore_terminal(TRUE) /\ Exit(IF phase = "restore_ok" THEN "ok" ELSE "loop")
     \/ restore_terminal(FALSE) /\ Exit("restore")
  /\ UNCHANGED <<startup, app, screen, subscription, keys, log>>

-----------------------------------------------------------------------------
(* spawn_subscription, while the process runs.                             *)

Task(from, to) == phase # "exited" /\ task = from /\ task' = to

(* Variant: a full channel drops the message.                              *)
sendTry(kind, position) ==
  chan' = IF Len(chan) < ChannelCapacity THEN Append(chan, Message(kind, position))
          ELSE chan

(* The sender waits for room.  A message in its hands is no different from *)
(* one it has not received yet.                                            *)
send(kind, position) ==
  Len(chan) < ChannelCapacity /\ chan' = Append(chan, Message(kind, position))

(* From position 0.                                                        *)
subscribe_all ==
  /\ \/ Task("subscribing", "reading") /\ UNCHANGED chan
     \/ Task("subscribing", "ended") /\ send("Error", None)
  /\ UNCHANGED <<phase, startup, outcome, term, app, screen, next, catching_up,
                 keys, log>>

(* The stream is that of module Subscription: the log in order, and        *)
(* CaughtUp when it has been sent to its end.                              *)
Receive ==
  /\ Task("reading", "reading")
  /\ \/ /\ next < Len(log)
        /\ send("Event", next) /\ next' = next + 1 /\ UNCHANGED catching_up
     \/ /\ next = Len(log) /\ catching_up
        /\ send("CaughtUp", None) /\ catching_up' = FALSE /\ UNCHANGED next
  /\ UNCHANGED <<phase, startup, outcome, term, app, screen, keys, log>>

StreamEnds ==
  /\ Task("reading", "ended")
  /\ UNCHANGED <<phase, startup, outcome, term, app, screen, chan, next, catching_up,
                 keys, log>>

(***************************************************************************)
(* blocking_send panics on a thread of the runtime.  The panic ends the    *)
(* task, and its hook restores the terminal while the loop goes on; it     *)
(* ignores an error.                                                       *)
(***************************************************************************)
StreamFails ==
  /\ Task("reading", "panicked")
  /\ \E ok \in BOOLEAN : restore_terminal(ok)
  /\ UNCHANGED <<phase, startup, outcome, app, screen, chan, next, catching_up, keys, log>>

ServerAppends ==
  /\ phase # "exited"
  /\ \E l \in Logs : /\ Len(log) < Len(l) /\ log = SubSeq(l, 1, Len(log))
                     /\ log' = Append(log, l[Len(log) + 1])
  /\ UNCHANGED <<phase, startup, outcome, term, app, screen, subscription, keys>>

Done == phase = "exited" /\ UNCHANGED vars

Start == validate_tls_flags \/ build_tls_options \/ Client_connect \/ init_terminal
Fetch == FetchStreams \/ FetchDetail \/ FetchGlobal
Loop == render \/ Drain \/ PollKey \/ Restore
Next == Start \/ Loop \/ Fetch \/ subscribe_all \/ Receive
          \/ StreamEnds \/ StreamFails \/ ServerAppends \/ Done

Spec == Init /\ [][Next]_vars

(* The console's own steps happen; the server answers, and sends the       *)
(* events it has.                                                          *)
FairSpec ==
  /\ Spec
  /\ WF_vars(Start \/ Loop)
  /\ WF_vars(Fetch) /\ WF_vars(subscribe_all) /\ WF_vars(Receive)

-----------------------------------------------------------------------------
(* Properties.                                                             *)

Begins(seq, whole) ==
  /\ Len(seq) <= Len(whole)
  /\ \A k \in 1..Len(seq) : seq[k] = whole[k]

(* At every height of the terminal and on every tab the view can be drawn: *)
(* the slice of the live tail is in range, and if there is room for a row, *)
(* the item under the cursor is among the rows given to the widget,        *)
(* highlighted, and the panel shows it (views/*.rs).  The events on the    *)
(* Stream Events tab are the first of the stream that its title names,     *)
(* also after a failed fetch (main.rs).                                    *)
ViewsSound ==
  /\ Begins(app.detail_events, IF app.detail_stream_id = None THEN <<>>
                                ELSE Positions(app.detail_stream_id))
  /\ \A h \in Heights :
       LET w == Window(app, h)
           live == live_tail_table(app, h)
           Agrees(table, panel) ==
             table.rows # <<>> =>
               table.selected > 0 /\ table.rows[table.selected] = panel
       IN /\ app.live_events # <<>> => w.start <= w.end
          /\ app.live_events # <<>> /\ h > 0 => live.rows # <<>>
          /\ Agrees(live, live_tail_panel(app))
          /\ Agrees(stream_detail_table(app), stream_detail_panel(app))
          /\ Agrees(global_log_table(app), global_log_panel(app))
          /\ streams_render(app).rows # <<>> => streams_render(app).selected > 0

Ids(list) == {list[k].stream_id : k \in 1..Len(list)}

(* The positions before taken that there is room for, the last ones.       *)
Newest(taken) ==
  [k \in 1..Smaller(taken, LIVE_TAIL_CAPACITY) |->
     saturating_sub(taken, LIVE_TAIL_CAPACITY) + k - 1]

(* The events among the messages are those from one position to another.   *)
Holds(messages, from, to) ==
  LET held == {i \in 1..Len(messages) : messages[i].kind = "Event"}
  IN /\ {messages[i].position : i \in held} = from..(to - 1)
     /\ \A i, j \in held : i < j => messages[i].position < messages[j].position

(* Some number of events has been taken from the channel: the live tail    *)
(* has the last of them, in order and as many as there is room for, and    *)
(* the channel has the rest of those sent, in order and none left out      *)
(* (push_live_event, run_event_loop).                                      *)
LiveTailFaithful ==
  \E taken \in 0..next :
    /\ phase \in InLoop => app.live_events = Newest(taken)
    /\ Holds(chan, taken, next)

(* However main ends, the terminal is back as it was, unless the error it  *)
(* returns is that of init_terminal or of restore_terminal: after q, after *)
(* an error of drawing or of reading a key, and after a panic of the       *)
(* subscription task, whose hook may have restored it, or half of it,      *)
(* while the loop went on ("regardless of success or failure", main.rs).   *)
(* Until such a panic the loop runs in raw mode, on the alternate screen.  *)
TerminalRestored ==
  /\ phase = "exited" /\ term # Restored => outcome \in {"init", "restore"}
  /\ phase \in InLoop /\ task # "panicked" =>
       term = [raw |-> TRUE, alternate |-> TRUE]

(* Enter opens the stream that is seen highlighted on the screen, if one   *)
(* is.  If none is, because the list was loading when the frame was drawn  *)
(* or because its row is below the last one there is room for, it still    *)
(* opens the stream the cursor was at in that frame's list, unless the     *)
(* list loaded since then has a new stream that sorts before it            *)
(* (Action::Select takes the index into the list as it is now;             *)
(* handle_data_fetches comes between drawing and key).                     *)
SelectsShown ==
  [][(app'.active_tab = "StreamDetail" /\ app.active_tab = "Streams"
        /\ app'.loading["StreamDetail"] /\ ~app.loading["StreamDetail"]) =>
       LET opened == app'.detail_stream_id
           k == app.cursor["Streams"] + 1
       IN /\ screen.stream # None => opened = screen.stream
          /\ k <= Len(screen.list) /\ opened # screen.list[k].stream_id =>
               \E id \in Ids(app.streams) \ Ids(screen.list) :
                 id < screen.list[k].stream_id]_vars

(* Whatever is shown as loading is loaded, or given up, in the end.        *)
LoadsEnd ==
  (\E t \in Tabs : app.loading[t]) ~> (\A t \in Tabs : ~app.loading[t])

(* Every event the server has reaches the live tail, paused or not, unless *)
(* the stream ends or the console quits.                                   *)
EventsArrive ==
  \A p \in UNION {0..(Len(l) - 1) : l \in Logs} :
    (phase \in InLoop /\ p < Len(log)) ~>
      \/ phase \notin InLoop \/ task \in {"ended", "panicked"}
      \/ \E k \in 1..Len(app.live_events) : app.live_events[k] >= p
====
