---------------------------- MODULE MCPhalaWorld ----------------------------
(***************************************************************************)
(* PhalaWorld for TLC, from a sale that is set up.                         *)
(***************************************************************************)
EXTENDS PhalaWorld, MCNftSale

WorldInitialFree == (ov :> 1) @@ (u1 :> 5)

WorldGenesis == GenesisOf(ov, {}, 0, 1)

\* The clock is started by the Overlord, if ever.
MorePrimes == {[forSale |-> 1, giveaway |-> 0]}

NoClock == [zeroDay |-> None, era |-> 0]

OneOfEach ==
    [Legendary |-> [ForSale |-> 0, Giveaway |-> 0, Reserved |-> 0],
     Magic |-> [ForSale |-> 1, Giveaway |-> 0, Reserved |-> 0],
     Prime |-> [ForSale |-> 1, Giveaway |-> 0, Reserved |-> 0]]

LastDayOn ==
    /\ SaleUnderWay({"PurchaseRareOriginOfShells", "PreorderOriginOfShells", "LastDayOfSale"})
    /\ SaleSetUp
    /\ ClockAndIncubationInit

WorldFromSale == LastDayOn /\ [][WorldNext]_worldVars
=============================================================================
