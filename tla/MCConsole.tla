----------------------------- MODULE MCConsole -----------------------------
(***************************************************************************)
(* Model checking of Console.                                              *)
(***************************************************************************)
EXTENDS ConsoleInvariant

NoFlags == [tls |-> FALSE, ca |-> FALSE, cert |-> FALSE, key |-> FALSE]

(* The first stream to be created sorts after the second.                  *)
MCLogs == {<<2, 1, 2>>}

MCFlags ==
  {[NoFlags EXCEPT !.key = TRUE],
   [NoFlags EXCEPT !.cert = TRUE, !.key = TRUE]}

MCPlainFlags == {NoFlags}

(* "If the stream errors, report it and stop."                             *)
(* (eventfold-console/src/client.rs:252): the task reports the error over  *)
(* the channel, and does not panic.                                        *)
StreamErrorReported == task # "panicked"
====
