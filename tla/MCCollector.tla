---------------------------- MODULE MCCollector ----------------------------
(* A small instance of Collector. *)
EXTENDS Collector, TLC

MCSymmetry == Permutations(Session) \cup Permutations(Handler)
MCJobSymmetry == Permutations(JobId)
=============================================================================
