---------------------------- MODULE MCBatchLoop -----------------------------
(***************************************************************************)
(* BatchLoop for TLC. The Overlord can preorder once; the user can twice   *)
(* on the last day, and pay for one of them.                               *)
(***************************************************************************)
EXTENDS BatchLoop, MCNftSale

LoopInitialFree == (ov :> 3) @@ (u1 :> 4)

PreordersOn == SaleUnderWay({"PreorderOriginOfShells"}) /\ NoCall

LoopsFromSale == PreordersOn /\ [][LoopNext]_allVars
=============================================================================
