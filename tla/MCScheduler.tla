---------------------------- MODULE MCScheduler ----------------------------
(* An instance of Scheduler for TLC: windows all day and over midnight.    *)
EXTENDS Scheduler, TLC

Symmetry == Permutations(Profiles)
SomeWindows == {<<0, 0>>, <<2, 1>>}
============================================================================
