------------------------------ MODULE MCLauncher ------------------------------
(***************************************************************************)
(* Instances of Launcher for TLC.                                          *)
(***************************************************************************)
EXTENDS Launcher, TLC

CONSTANTS first, second

TwoLaunches == {first, second}
OneLaunch == {first}
\* Launches differ in nothing but their name.
Symmetry == Permutations(TwoLaunches)
=============================================================================
