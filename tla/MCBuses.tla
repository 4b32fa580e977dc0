------------------------------ MODULE MCBuses -------------------------------
(***************************************************************************)
(* Two subscriptions to one topic, for TLC.                                *)
(***************************************************************************)
EXTENDS Buses

CONSTANTS s1, s2

MCTopic == [s \in Subs |-> "orders"]
=============================================================================
