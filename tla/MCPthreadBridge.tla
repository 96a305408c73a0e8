---------------------------- MODULE MCPthreadBridge ----------------------------
(***************************************************************************)
(* Instances of PthreadBridge for TLC.                                     *)
(***************************************************************************)
EXTENDS PthreadBridge

CONSTANTS one, two

TwoThreads == {one, two}
PlainInitialiser == {0}
AnyInitialiser == {0, 1}
=============================================================================
