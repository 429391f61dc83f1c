-------------------------- MODULE MCStatsCollector --------------------------
(***************************************************************************)
(* StatsCollector for TLC: guests are interchangeable, so the safety runs  *)
(* may permute them.                                                       *)
(***************************************************************************)
EXTENDS StatsCollector, TLC

GuestSymmetry == Permutations(Guests)
=============================================================================
