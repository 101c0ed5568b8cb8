----------------------------- MODULE PhalaWorld -----------------------------
(***************************************************************************)
(* Both pallets of phala-world in one chain, as construct_runtime! puts    *)
(* them together: the calls of the sale and of the incubation run in the   *)
(* blocks that the clock counts, on the same collections and under the     *)
(* same Overlord. What NftSale and Incubation leave to "what happens       *)
(* outside" is here the other pallet itself.                               *)
(***************************************************************************)
EXTENDS NftSale

CONSTANTS
    FoodPerEra, MaxFoodFeedSelf, IncubationDurationSec, Reductions,   \* see Incubation
    AwakenedCollections,
    U64Max, SecondsPerEra, ClockGenesis, StartTime, Gaps, MaxTime     \* see WorldClock

VARIABLES
    now, zeroDay, era, executing,                 \* see WorldClock
    foodByOwners, originOfShellFoodStats,         \* see Incubation
    officialHatchTime, hatchTimes, canStartIncubation, shellCollectionId

clockVars == <<now, zeroDay, era, executing>>
incubationVars == <<foodByOwners, originOfShellFoodStats, officialHatchTime,
                    hatchTimes, canStartIncubation, shellCollectionId>>
worldVars == <<vars, clockVars, incubationVars>>

ASSUME WorldAssumption ==
    /\ FoodPerEra \in Nat
    /\ MaxFoodFeedSelf \in Nat \ {0}
    /\ IncubationDurationSec \in Nat
    /\ Reductions \subseteq Nat
    /\ AwakenedCollections \subseteq CollectionId
    /\ SecondsPerEra \in Nat \ {0}
    /\ U64Max \in Nat
    /\ ClockGenesis \in [zeroDay : (0 .. U64Max) \cup {None}, era : 0 .. U64Max]
    /\ StartTime \in 0 .. U64Max
    /\ Gaps \subseteq Nat
    /\ MaxTime \in 0 .. U64Max

\* The shells that one call of the sale can mint: one, or a batch of them.
SoldShells ==
    UNION {[1 .. n -> [owner : Account, attrs : Attributes]] :
              n \in {1} \cup 1 .. IterLimit}

Clock == INSTANCE WorldClock WITH Genesis <- ClockGenesis

Inc == INSTANCE Incubation WITH
    Overlord <- Genesis.overlord,
    ShellCollection <- Genesis.originOfShellCollectionId,
    Sales <- SoldShells

\* The genesis block of the runtime: the clock, and the storage of the pallet of
\* the incubation, which is empty.
ClockAndIncubationInit ==
    /\ Clock!Init
    /\ foodByOwners = [a \in Account |-> None]
    /\ originOfShellFoodStats = << >>
    /\ officialHatchTime = 0
    /\ hatchTimes = [i \in Inc!NftId |-> None]
    /\ canStartIncubation = FALSE
    /\ shellCollectionId = None

WorldInit == Init /\ ClockAndIncubationInit
-----------------------------------------------------------------------------
\* A call of the sale, or of another pallet, in an open block.
SaleCall ==
    /\ executing
    /\ Next
    /\ UNCHANGED <<clockVars, incubationVars>>

IncubationCall ==
    /\ Inc!IncubationCall
    /\ UNCHANGED <<balancesVars, saleVars>>

InitializeWorldClock ==
    /\ overlord # None
    /\ Clock!InitializeWorldClock
    /\ UNCHANGED <<vars, incubationVars>>

BeginBlock == Clock!BeginBlock /\ UNCHANGED <<vars, incubationVars>>

FinalizeBlock == Clock!FinalizeBlock /\ UNCHANGED <<vars, incubationVars>>

WorldNext ==
    \/ SaleCall
    \/ IncubationCall
    \/ InitializeWorldClock
    \/ BeginBlock
    \/ FinalizeBlock

WorldSpec == WorldInit /\ [][WorldNext]_worldVars
-----------------------------------------------------------------------------
(* Correctness.                                                            *)

\* Sale, clock and incubation stay within their types while their calls are
\* mixed: no restock goes past the largest u32, no reduction of a hatch time and
\* no era past the ends of a u64.
WorldTypeOK == TypeOK /\ Clock!TypeOK /\ Inc!RecordsTypeOK

SeparateCollections ==
    /\ None \notin {originOfShellCollectionId, shellCollectionId}
    /\ spiritCollectionId # originOfShellCollectionId
    /\ shellCollectionId \notin {spiritCollectionId, originOfShellCollectionId}

\* The rare shells in existence, awakened or not, and those in stock are never
\* more than the initial inventory: neither restocking nor hatching makes one.
RareShells(c, rarity, race) ==
    {i \in DOMAIN items[c] :
        LET item == items[c][i]
        IN  /\ item.owner # None /\ item.attrs # None
            /\ item.attrs.rarity = rarity /\ item.attrs.race = race}

RareShellsCapped ==
    SeparateCollections =>
        \A rarity \in {"Magic", "Legendary"}, race \in RaceType :
            LET row == inventory[<<rarity, race>>]
            IN  row # None =>
                  Cardinality(RareShells(originOfShellCollectionId, rarity, race))
                  + Cardinality(RareShells(shellCollectionId, rarity, race))
                  + StockTotal(row.left)
                  <= StockTotal(InitialStock[rarity])

\* The era is exact at the end of every block, whatever the calls do in it.
EraExact == Clock!EraExact

\* The collections exist and the sale knows its own two, of which the Overlord
\* will not name that of the Spirits for the awakened shells (the code does not
\* check it); nothing but Spirits is minted yet.
SaleSetUp ==
    /\ overlord # None
    /\ overlord = Genesis.overlord
    /\ originOfShellCollectionId # None
    /\ originOfShellCollectionId = Genesis.originOfShellCollectionId
    /\ spiritCollectionId \notin {None, originOfShellCollectionId} \cup AwakenedCollections
    /\ nextCollectionId = MaxCollections
    /\ issuer = [c \in CollectionId |-> overlord]
    /\ \A c \in CollectionId \ {spiritCollectionId} : items[c] = << >>

SetUpInit == TypeOK /\ SaleSetUp /\ ClockAndIncubationInit

\* The collections without that of the Spirits, which the incubation ignores.
ShellItems == [c \in CollectionId |-> IF c = spiritCollectionId THEN << >> ELSE items[c]]

\* With the real sale around it, the incubation behaves as Incubation says with
\* one that is only outlined there: everything true of Incubation is true of
\* the chain, from any state in which the sale is set up.
Hatchery == INSTANCE Incubation WITH
    Overlord <- Genesis.overlord,
    ShellCollection <- Genesis.originOfShellCollectionId,
    Sales <- SoldShells,
    items <- ShellItems

ImplementsIncubation == Hatchery!Init /\ [][Hatchery!Next]_(Hatchery!vars)
=============================================================================
