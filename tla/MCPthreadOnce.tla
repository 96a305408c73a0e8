----------------------------- MODULE MCPthreadOnce -----------------------------
(***************************************************************************)
(* Instances of PthreadOnce for TLC.                                       *)
(***************************************************************************)
EXTENDS PthreadOnce

CONSTANTS one, two, three, other

ThreeCallers == {one, two, three}
OneOther == {other}
=============================================================================
