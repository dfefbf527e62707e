-------------------------- MODULE ConsoleInvariant --------------------------
(***************************************************************************)
(* What the console keeps true at every step: between what it shows, what  *)
(* it has loaded, the server's log and the channel.                        *)
(***************************************************************************)
EXTENDS Console

Starting == {"flags", "tls", "connect", "init"}
Phases == Starting \cup InLoop \cup {"restore_ok", "restore_error", "exited"}

(* What the widgets are given is a sequence, of whatever it may be.        *)
IsList(s) == s \in Seq({s[k] : k \in DOMAIN s})

TypeOK ==
  /\ phase \in Phases
  /\ log \in Seq(Nat)
  /\ next \in Nat
  /\ chan \in Seq([kind : {"Event", "CaughtUp", "Error"}, position : Int])

(* A cursor is at an item of its list, or where the first one will be.     *)
At(cursor, list) == cursor = 0 \/ cursor < Len(list)

(* The live tail is never waited for.                                      *)
AppOK(a) ==
  /\ DOMAIN a = DOMAIN AppState_new
  /\ a.active_tab \in Tabs
  /\ a.cursor \in [Tabs -> Nat] /\ a.loading \in [Tabs -> BOOLEAN]
  /\ ~a.loading["LiveTail"]
  /\ IsList(a.streams) /\ IsList(a.detail_events)
  /\ a.global_events \in Seq(Nat) /\ a.live_events \in Seq(Nat)
  /\ At(a.cursor["Streams"], a.streams)
  /\ At(a.cursor["StreamDetail"], a.detail_events)
  /\ At(a.cursor["GlobalLog"], a.global_events)
  /\ At(a.cursor["LiveTail"], a.live_events)

(* A list of streams is by ascending number.                               *)
InOrder(list) ==
  /\ Ids(list) \in SUBSET Nat /\ IsFiniteSet(Ids(list))
  /\ Len(list) = Cardinality(Ids(list))
  /\ \A k \in 1..Len(list) : list[k].stream_id = Ascending(Ids(list))[k]

(* What was loaded is the beginning of what would be loaded now, or a part *)
(* of it in the same order: a list that is loaded again does not get       *)
(* shorter under its cursor.                                               *)
Detail(a) ==
  IF a.detail_stream_id = None THEN <<>> ELSE read_stream(a.detail_stream_id)

StreamIds == {log[k] : k \in 1..Len(log)}

Listed(list) == InOrder(list) /\ Ids(list) \subseteq StreamIds

LoadedInv ==
  /\ Len(app.streams) <= Len(list_streams) /\ Listed(app.streams)
  /\ Len(app.global_events) <= Len(read_all)
  /\ Begins(app.detail_events, Detail(app))

(* Nothing is sent before the loop begins, and the terminal is untouched.  *)
StartInv ==
  phase \in Starting => /\ task = "none" /\ chan = <<>> /\ next = 0
                        /\ term = Restored

(***************************************************************************)
(* From the drawing of the Streams tab to the key that answers it, what is *)
(* seen highlighted there is the item under the cursor and nothing is      *)
(* loading, and the list that was drawn is in the list there is now.  The  *)
(* loop waits only for what is loading.                                    *)
(***************************************************************************)
Highlighted(a) ==
  screen.stream # None =>
    /\ ~a.loading["Streams"]
    /\ screen.stream = a.streams[a.cursor["Streams"] + 1].stream_id

DrawnFrom(a) == InOrder(screen.list) /\ Ids(screen.list) \subseteq Ids(a.streams)

ScreenInv ==
  /\ phase \in Tabs => app.loading[phase]
  /\ phase \in Tabs \cup {"drain", "key"} /\ app.active_tab = "Streams" =>
       Highlighted(app) /\ DrawnFrom(app)

OutcomeInv == outcome # "none" => phase = "exited"

ConsoleInv ==
  /\ TypeOK /\ AppOK(app) /\ LoadedInv
  /\ StartInv /\ LiveTailFaithful
  /\ ScreenInv
  /\ OutcomeInv /\ TerminalRestored
====
