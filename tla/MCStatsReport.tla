---------------------------- MODULE MCStatsReport ----------------------------
(* StatsReport, and SessionAdmission with it, for TLC.                     *)
EXTENDS StatsReport, TLC

CONSTANTS c1, c2, c3

Symmetry == Permutations(Conns)
=============================================================================
