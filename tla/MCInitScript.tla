---------------------------- MODULE MCInitScript ----------------------------
(***************************************************************************)
(* InitScript for TLC. Time stands still: the script reads no clock.       *)
(***************************************************************************)
EXTENDS InitScript, MCNftSale

ScriptInitialFree == (root :> 9) @@ (ov :> 1) @@ (u1 :> 2)

NoClock == [zeroDay |-> None, era |-> 0]
=============================================================================
