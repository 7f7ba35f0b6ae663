-------------------------- MODULE MCIntervalTree --------------------------
(* Trees of up to seven entries with three keys; which entry is which does *)
(* not matter.                                                             *)
EXTENDS IntervalTree, TLC

CONSTANTS e1, e2, e3, e4, e5, e6, e7

MCSeven  == {e1, e2, e3, e4, e5, e6, e7}
MCKeys   == {1, 2, 3}

SymSeven == Permutations(MCSeven)
=============================================================================
