----------------------------- MODULE MCScheduler ----------------------------
(***************************************************************************)
(* The scheduler over an arbitrary adapter, for TLC.                       *)
(***************************************************************************)
EXTENDS Scheduler, TLC

CallSymmetry == Permutations(Calls)
=============================================================================
