--------------------------- MODULE MCSubscription ---------------------------
(***************************************************************************)
(* A small instance of Subscription for TLC.                               *)
(***************************************************************************)
EXTENDS SubscriptionInvariant

CONSTANTS s1, s2, all, c1
====
