--------------------------- MODULE MCNxTransaction ---------------------------
(***************************************************************************)
(* Instances of NxTransaction for TLC.                                     *)
(***************************************************************************)
EXTENDS NxTransactionInv

OneRelease == <<1>>          \* the port is not upgraded
SameRecipe == <<1, 1>>       \* the upgrade ships another extractor
BothUpgrades == <<1, 1, 2>> \* one of each
OtherRecipe == <<1, 2>>      \* the upgrade ships another recipe
=============================================================================
