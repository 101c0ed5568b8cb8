--------------------------- MODULE MCBatchRecall ----------------------------
(***************************************************************************)
(* BatchRecall for TLC, with the instance of MCNftSale.                    *)
(***************************************************************************)
EXTENDS BatchRecall, MCNftSale
=============================================================================
