----------------------------- MODULE MCNftSale ------------------------------
(***************************************************************************)
(* Instances of NftSale for TLC: an overlord, a second account the root    *)
(* origin may appoint, and two users, of whom the second can afford a      *)
(* preorder but not the existential deposit beside it.                     *)
(***************************************************************************)
EXTENDS NftSale, TLC

CONSTANTS ov, u1, u2

MCInitialFree == (ov :> 1) @@ (u1 :> 9) @@ (u2 :> 4)
PoorInitialFree == (ov :> 1) @@ (u1 :> 7) @@ (u2 :> 2)

\* Per race: one Legendary for sale and one reserved as in the code, no Magic,
\* and two Prime where the code has 1250.
MCInitialStock ==
    [Legendary |-> [ForSale |-> 1, Giveaway |-> 0, Reserved |-> 1],
     Magic |-> [ForSale |-> 0, Giveaway |-> 0, Reserved |-> 0],
     Prime |-> [ForSale |-> 2, Giveaway |-> 0, Reserved |-> 0]]

\* The same for a sale in which nothing is given away, with a Magic shell.
NoGiftsInitialStock ==
    [Legendary |-> [ForSale |-> 1, Giveaway |-> 0, Reserved |-> 0],
     Magic |-> [ForSale |-> 1, Giveaway |-> 0, Reserved |-> 0],
     Prime |-> [ForSale |-> 2, Giveaway |-> 0, Reserved |-> 0]]

AllButLastDay == StatusType \ {"LastDayOfSale"}

GenesisOf(who, on, spirit, shell) ==
    [overlord |-> who, status |-> on, spiritCollectionId |-> spirit,
     originOfShellCollectionId |-> shell, inventorySet |-> FALSE]

EmptyGenesis == GenesisOf(None, {}, None, None)

SaleGenesis == GenesisOf(ov, AllButLastDay, 0, 1)

MCUpdateCounts == {[forSale |-> 1, giveaway |-> 1]}

MCTickets ==
    {[signer |-> ov, account |-> u2, purpose |-> "RedeemSpirit"],
     [signer |-> ov, account |-> u1, purpose |-> "BuyPrimeOriginOfShells"]}

Spirit(a) == [owner |-> a, attrs |-> None]

\* A sale that is set up, where two accounts have their Spirits.
SaleUnderWay(on) ==
    /\ BalancesInit
    /\ nextCollectionId = MaxCollections
    /\ issuer = [c \in CollectionId |-> ov]
    /\ items = [c \in CollectionId |-> IF c = 0 THEN <<Spirit(ov), Spirit(u1)>> ELSE << >>]
    /\ overlord = ov
    /\ status = on
    /\ spiritCollectionId = 0
    /\ originOfShellCollectionId = 1
    /\ spiritsMetadata = TRUE
    /\ originOfShellsMetadata = RaceType
    /\ inventorySet = TRUE
    /\ inventory = InitialInventory
    /\ careerTypeCount = [c \in CareerType |-> 0]
    /\ preorderIndex = 0
    /\ preorders = [id \in PreorderId |-> None]
    /\ ownerHasPreorder = {}
=============================================================================
