------------------------------- MODULE Traits -------------------------------
(***************************************************************************)
(* The data types that the pallets of phala-world share                    *)
(* (pallets/phala-world/src/traits.rs), and the arithmetic of the u32      *)
(* counters that are kept in their storage.                                *)
(***************************************************************************)
EXTENDS Integers

CONSTANTS
    Account,      \* the accounts of the chain
    RaceType,     \* Cyborg, AISpectre, XGene and Pandroid in the code
    CareerType,   \* HardwareDruid, RoboWarrior, TradeNegotiator, HackerWizard, Web3Monk
    None,         \* the absent value of an Option or of a map without the key
    U32Max        \* the largest u32: 2^32 - 1 in the code, small in a TLC instance

RarityType == {"Prime", "Magic", "Legendary"}

NftSaleType == {"ForSale", "Giveaway", "Reserved"}

StatusType == {"ClaimSpirits", "PurchaseRareOriginOfShells",
               "PurchasePrimeOriginOfShells", "PreorderOriginOfShells",
               "LastDayOfSale"}

Purpose == {"RedeemSpirit", "BuyPrimeOriginOfShells"}

\* u32 arithmetic of a release build: `+=` and `-=` wrap around silently.
U32 == 0 .. U32Max
Wrapped(n) == IF n > U32Max THEN n - (U32Max + 1)
              ELSE IF n < 0 THEN n + (U32Max + 1) ELSE n
\* Mutant: does not saturate.
SaturatingAdd_Plain(m, n) == m + n

SaturatingAdd(m, n) == IF m + n > U32Max THEN U32Max ELSE m + n

\* A preorder id is the value PreorderIndex had when it was taken: the code
\* refuses to hand out u32::MAX.
PreorderId == 0 .. (U32Max - 1)

\* What a preorder keeps. The copy of the race's metadata is left out.
PreorderInfo == [owner : Account, race : RaceType, career : CareerType]

\* One row of the inventory: how many shells were minted, and how many are
\* left of each kind of sale (race_for_sale_count, race_giveaway_count and
\* race_reserved_count).
NftSaleInfo == [raceCount : U32, left : [NftSaleType -> U32]]

\* The attributes an Origin of Shell is minted with.
Attributes == [rarity : RarityType, race : RaceType, career : CareerType]

\* An item of an RMRK collection: its owner, None once it is burned, and the
\* attributes it was minted with, None for a Spirit.
Item == [owner : Account \cup {None}, attrs : Attributes \cup {None}]

ASSUME TraitsAssumption ==
    /\ U32Max \in Nat \ {0}
    /\ None \notin Account
    /\ None \notin PreorderInfo
    /\ None \notin NftSaleInfo
    /\ None \notin Attributes
    /\ None \notin Nat
=============================================================================
