----------------------------- MODULE Incubation -----------------------------
(***************************************************************************)
(* The incubation of Origin of Shells: the pallet                          *)
(* pallets/phala-world/src/incubation.rs. Owners start the incubation of   *)
(* their shells and feed incubating shells; the Overlord reduces hatch     *)
(* times and hatches the shells whose time is over.                        *)
(*                                                                         *)
(* The pallet reads the Overlord, the collection and the era of the sale.  *)
(* Meanwhile blocks come and count eras (WorldClock), the sale mints more  *)
(* shells, owners burn theirs and the Overlord is replaced. The collection *)
(* of the shells never changes once it is set, so that an NFT id is enough *)
(* to name a shell. A call that fails leaves no trace and is no step.      *)
(***************************************************************************)
EXTENDS Rmrk

CONSTANTS
    FoodPerEra,             \* what an account can feed in an era
    MaxFoodFeedSelf,        \* how often an account feeds one shell in an era
    IncubationDurationSec,
    U64Max, SecondsPerEra, ClockGenesis, StartTime, Gaps, MaxTime,   \* see WorldClock
    Overlord,               \* the Overlord at first, who created the collections
    ShellCollection,        \* the collection of the Origin of Shells
    OverlordCandidates,     \* bound: whom the root origin appoints
    Sales,                  \* bound: the shells one call of the sale mints
    Reductions,             \* bound: by how much hatch times are reduced
    AwakenedCollections     \* bound: the collections the Overlord names

VARIABLES
    now, zeroDay, era, executing,   \* see WorldClock
    overlord,                    \* Overlord of the sale
    originOfShellCollectionId,   \* OriginOfShellCollectionId of the sale
    foodByOwners,                \* FoodByOwners
    originOfShellFoodStats,      \* OriginOfShellFoodStats, the keys it holds
    officialHatchTime,           \* OfficialHatchTime
    hatchTimes,                  \* HatchTimes
    canStartIncubation,          \* CanStartIncubation
    shellCollectionId            \* ShellCollectionId

clockVars == <<now, zeroDay, era, executing>>
saleVars == <<overlord, originOfShellCollectionId>>
foodVars == <<foodByOwners, originOfShellFoodStats>>
phaseVars == <<officialHatchTime, canStartIncubation, shellCollectionId>>
vars == <<clockVars, rmrkVars, saleVars, foodVars, phaseVars, hatchTimes>>

Clock == INSTANCE WorldClock WITH Genesis <- ClockGenesis

\* NFT i of the collection is its item i, counted from 1.
NftId == 1 .. U32Max

\* The era an account last fed a shell in, and the shells it fed in that era.
FoodInfo == [era : Nat, fed : Seq(NftId)]

ASSUME IncubationAssumption ==
    /\ None \notin FoodInfo
    /\ FoodPerEra \in Nat
    /\ MaxFoodFeedSelf \in Nat \ {0}
    /\ IncubationDurationSec \in Nat
    /\ SecondsPerEra \in Nat \ {0}
    /\ U64Max \in Nat
    /\ ClockGenesis \in [zeroDay : (0 .. U64Max) \cup {None}, era : 0 .. U64Max]
    /\ StartTime \in 0 .. U64Max
    /\ Gaps \subseteq Nat
    /\ MaxTime \in 0 .. U64Max
    /\ Overlord \in Account
    /\ IsFiniteSet(Account)
    /\ ShellCollection \in CollectionId
    /\ OverlordCandidates \subseteq Account
    /\ Sales \subseteq Seq([owner : Account, attrs : Attributes])
    /\ Reductions \subseteq Nat
    /\ AwakenedCollections \subseteq CollectionId

\* The storage of the pallet itself.
RecordsTypeOK ==
    /\ foodByOwners \in [Account -> FoodInfo \cup {None}]
    /\ DOMAIN originOfShellFoodStats \subseteq Nat \X NftId
    /\ \A k \in DOMAIN originOfShellFoodStats : originOfShellFoodStats[k] \in Nat
    /\ officialHatchTime \in Nat
    /\ hatchTimes \in [NftId -> Nat \cup {None}]
    /\ canStartIncubation \in BOOLEAN
    /\ shellCollectionId \in CollectionId \cup {None}

TypeOK ==
    /\ Clock!TypeOK
    /\ RmrkTypeOK
    /\ overlord \in Account
    /\ originOfShellCollectionId = ShellCollection
    /\ RecordsTypeOK

\* The collections have been created and the one of the shells was named; the
\* storage of the pallet is empty.
Init ==
    /\ Clock!Init
    /\ nextCollectionId = MaxCollections
    /\ issuer = [c \in CollectionId |-> Overlord]
    /\ items = [c \in CollectionId |-> << >>]
    /\ overlord = Overlord
    /\ originOfShellCollectionId = ShellCollection
    /\ foodByOwners = [a \in Account |-> None]
    /\ originOfShellFoodStats = << >>
    /\ officialHatchTime = 0
    /\ hatchTimes = [i \in NftId |-> None]
    /\ canStartIncubation = FALSE
    /\ shellCollectionId = None
-----------------------------------------------------------------------------
(* Calls of the owners of shells.                                          *)

Incubating(i) == hatchTimes[i] # None

CanHatch(i) == now > hatchTimes[i]

OwnerOf(i) ==
    IF originOfShellCollectionId # None /\ i \in DOMAIN items[originOfShellCollectionId]
    THEN items[originOfShellCollectionId][i].owner ELSE None

\* Mutant: does not look whether the incubation was started already.
StartIncubation_Again(sender, i) ==
    /\ executing
    /\ canStartIncubation
    /\ OwnerOf(i) = sender
    /\ hatchTimes' = [hatchTimes EXCEPT ![i] = officialHatchTime]
    /\ UNCHANGED <<clockVars, rmrkVars, saleVars, foodVars, phaseVars>>

StartIncubation(sender, i) ==
    /\ executing
    /\ canStartIncubation
    /\ OwnerOf(i) = sender
    /\ ~Incubating(i)
    /\ hatchTimes' = [hatchTimes EXCEPT ![i] = officialHatchTime]
    /\ UNCHANGED <<clockVars, rmrkVars, saleVars, foodVars, phaseVars>>

\* Mutant: the record of this era starts anew, too.
FoodInfoNow_Forgets(a) ==
    IF foodByOwners[a] = None \/ era >= foodByOwners[a].era
    THEN [era |-> era, fed |-> << >>]
    ELSE foodByOwners[a]

\* Mutant: the record of an earlier era is kept.
FoodInfoNow_Stale(a) ==
    IF foodByOwners[a] = None THEN [era |-> era, fed |-> << >>] ELSE foodByOwners[a]

\* What a has fed in this era: a record of an earlier one starts anew.
FoodInfoNow(a) ==
    IF foodByOwners[a] = None \/ era > foodByOwners[a].era
    THEN [era |-> era, fed |-> << >>]
    ELSE foodByOwners[a]

\* How often shell i comes up in what was fed.
TimesIn(fed, i) == Cardinality({j \in DOMAIN fed : fed[j] = i})

\* What shell i was fed in era e.
FoodStats(e, i) ==
    IF <<e, i>> \in DOMAIN originOfShellFoodStats
    THEN originOfShellFoodStats[<<e, i>>] ELSE 0

\* Mutant: books the food on the era of the record it found.
CountFood_RecordedEra(sender, i) ==
    LET e == IF foodByOwners[sender] = None THEN era ELSE foodByOwners[sender].era
    IN  originOfShellFoodStats' =
            [k \in DOMAIN originOfShellFoodStats \cup {<<e, i>>} |->
                IF k = <<e, i>> THEN FoodStats(e, i) + 1
                ELSE originOfShellFoodStats[k]]

CountFood(sender, i) ==
    originOfShellFoodStats' =
        [k \in DOMAIN originOfShellFoodStats \cup {<<era, i>>} |->
            IF k = <<era, i>> THEN FoodStats(era, i) + 1
            ELSE originOfShellFoodStats[k]]

FeedOriginOfShell(sender, i) ==
    LET info == FoodInfoNow(sender)
    IN  /\ executing
        /\ canStartIncubation
        /\ Incubating(i)
        /\ ~CanHatch(i)
        /\ OwnedInCollection(sender, originOfShellCollectionId) # {}
        /\ TimesIn(info.fed, i) < MaxFoodFeedSelf
        /\ Len(info.fed) < FoodPerEra
        /\ foodByOwners' = [foodByOwners EXCEPT ![sender] =
                               [info EXCEPT !.fed = Append(@, i)]]
        /\ CountFood(sender, i)
        /\ UNCHANGED <<clockVars, rmrkVars, saleVars, phaseVars, hatchTimes>>
-----------------------------------------------------------------------------
(* Calls of the Overlord.                                                  *)

\* Mutant: the shell is not burned.
Awaken_NotBurned(i, shell) ==
    items' = [items EXCEPT ![shellCollectionId] = Append(@, shell)]

\* The shell is burned by its owner, then the awakened one is minted (perhaps
\* into the same collection). The attributes of the burned one are cleared; of
\* a dead item the model keeps those it was minted with, which nothing reads.
Awaken(i, shell) ==
    items' = [[items EXCEPT ![originOfShellCollectionId][i].owner = None]
                 EXCEPT ![shellCollectionId] = Append(@, shell)]

\* Mutant: a failure after the burning does not undo it.
HatchOriginOfShell_NotUndone(i) ==
    /\ executing
    /\ overlord # None
    /\ canStartIncubation
    /\ OwnerOf(i) # None
    /\ Incubating(i)
    /\ CanHatch(i)
    /\ shellCollectionId # None
    /\ items[originOfShellCollectionId][i].attrs # None
    /\ IF issuer[originOfShellCollectionId] = overlord /\ CanMint(overlord, shellCollectionId, 1)
       THEN Awaken(i, items[originOfShellCollectionId][i])
       ELSE items' = [items EXCEPT ![originOfShellCollectionId][i].owner = None]
    /\ UNCHANGED <<clockVars, nextCollectionId, issuer, saleVars, foodVars,
                   phaseVars, hatchTimes>>

HatchOriginOfShell(i) ==
    /\ executing
    /\ overlord # None
    /\ canStartIncubation
    /\ OwnerOf(i) # None
    /\ Incubating(i)
    /\ CanHatch(i)
    /\ shellCollectionId # None
    /\ items[originOfShellCollectionId][i].attrs # None
    /\ issuer[originOfShellCollectionId] = overlord
    /\ CanMint(overlord, shellCollectionId, 1)
    /\ Awaken(i, items[originOfShellCollectionId][i])
    /\ UNCHANGED <<clockVars, nextCollectionId, issuer, saleVars, foodVars,
                   phaseVars, hatchTimes>>

\* Mutant: subtracts without saturation.
Reduced_Plain(time, by) == time - by

\* saturating_sub
Reduced(time, by) == IF time < by THEN 0 ELSE time - by

\* A list that names a shell twice reduces its time by the sum.
UpdateIncubationTime(by) ==
    /\ executing
    /\ overlord # None
    /\ \A i \in DOMAIN by : Incubating(i)
    /\ hatchTimes' = [i \in NftId |->
           IF i \in DOMAIN by THEN Reduced(hatchTimes[i], by[i]) ELSE hatchTimes[i]]
    /\ UNCHANGED <<clockVars, rmrkVars, saleVars, foodVars, phaseVars>>

\* Mutant: switching incubation off clears the official hatch time.
SetCanStartIncubationStatus_Clears(on) ==
    /\ executing
    /\ overlord # None
    /\ officialHatchTime' = IF on THEN now + IncubationDurationSec ELSE 0
    /\ canStartIncubation' = on
    /\ UNCHANGED <<clockVars, rmrkVars, saleVars, foodVars, shellCollectionId, hatchTimes>>

\* The official hatch time moves whether incubation is switched on or off.
SetCanStartIncubationStatus(on) ==
    /\ executing
    /\ overlord # None
    /\ officialHatchTime' = now + IncubationDurationSec
    /\ canStartIncubation' = on
    /\ UNCHANGED <<clockVars, rmrkVars, saleVars, foodVars, shellCollectionId, hatchTimes>>

SetShellCollectionId(c) ==
    /\ executing
    /\ overlord # None
    /\ shellCollectionId = None
    /\ shellCollectionId' = c
    /\ UNCHANGED <<clockVars, rmrkVars, saleVars, foodVars, officialHatchTime,
                   canStartIncubation, hatchTimes>>
-----------------------------------------------------------------------------
(* What happens beside the pallet.                                         *)

\* The sale mints shells: of all its conditions, the issuer's matters here.
SaleMints(shells) ==
    /\ CanMint(overlord, originOfShellCollectionId, Len(shells))
    /\ items' = [items EXCEPT ![originOfShellCollectionId] = @ \o shells]
    /\ UNCHANGED <<nextCollectionId, issuer, saleVars>>

NewOverlord(a) ==
    /\ overlord' = a
    /\ UNCHANGED <<rmrkVars, originOfShellCollectionId>>

\* Calls of other pallets in an open block.
OtherCall ==
    /\ executing
    /\ \/ \E shells \in Sales : SaleMints(shells)
       \/ /\ \E a \in Burners, c \in CollectionId :
                \E i \in DOMAIN items[c] : BurnNft(a, c, i)
          /\ UNCHANGED saleVars
       \/ \E a \in OverlordCandidates : NewOverlord(a)
    /\ UNCHANGED <<clockVars, foodVars, phaseVars, hatchTimes>>

ClockStep ==
    /\ Clock!Next
    /\ UNCHANGED <<rmrkVars, saleVars, foodVars, phaseVars, hatchTimes>>

IncubationCall ==
    \/ \E a \in Account, i \in NftId : \/ StartIncubation(a, i)
                                       \/ FeedOriginOfShell(a, i)
    \/ \E i \in NftId : HatchOriginOfShell(i)
    \/ \E S \in SUBSET NftId : \E by \in [S -> Reductions] : UpdateIncubationTime(by)
    \/ \E on \in BOOLEAN : SetCanStartIncubationStatus(on)
    \/ \E c \in AwakenedCollections : SetShellCollectionId(c)

Next ==
    \/ IncubationCall
    \/ OtherCall
    \/ ClockStep

\* Blocks are produced and finalized for ever; nobody has to make a call.
Fairness == WF_vars(ClockStep /\ Clock!BeginBlock) /\ WF_vars(ClockStep /\ Clock!FinalizeBlock)

Spec == Init /\ [][Next]_vars /\ Fairness
-----------------------------------------------------------------------------
(* Correctness.                                                            *)

\* The two records of feeding agree: what the storage says shell i was fed in
\* the current era is what the accounts have on record for this era.
Meals(i) ==
    {m \in Account \X (1 .. FoodPerEra) :
        LET info == foodByOwners[m[1]]
        IN  /\ info # None
            /\ info.era = era
            /\ m[2] \in DOMAIN info.fed
            /\ info.fed[m[2]] = i}

FoodStatsMatchFeeders == \A i \in NftId : FoodStats(era, i) = Cardinality(Meals(i))

\* In no era, a past one included, a shell got more than every account may give
\* it: the limit of an account holds over all its records of that era.
FoodWithinLimits ==
    \A k \in DOMAIN originOfShellFoodStats :
        originOfShellFoodStats[k] <= MaxFoodFeedSelf * Cardinality(Account)

\* What is on record of an era that is over does not change any more, so that
\* the ten best fed shells of it stay what they are.
PastErasFixed ==
    [][\A k \in DOMAIN originOfShellFoodStats' :
          originOfShellFoodStats'[k] # FoodStats(k[1], k[2]) => k[1] = era]_vars

\* A hatch time never rises and is never lost, whatever the Overlord switches
\* and whoever calls: what feeding has earned a shell is kept.
HatchTimesOnlyFall ==
    [][\A i \in NftId : Incubating(i) =>
          hatchTimes'[i] # None /\ hatchTimes'[i] <= hatchTimes[i]]_vars

\* No shell hatches later than the official hatch time, although that one is
\* moved when incubation is switched and shells keep the one they started with.
HatchByOfficialTime ==
    \A i \in NftId : Incubating(i) => hatchTimes[i] <= officialHatchTime

\* Every awakened shell comes from a shell of its own that was incubated and is
\* burned, and has its attributes; provided the Overlord did not name the
\* collection of the Origin of Shells for both, which the code does not check.
AwakenedOnce ==
    shellCollectionId \notin {None, originOfShellCollectionId} =>
        \A attrs \in Attributes :
            LET With(c) == {j \in DOMAIN items[c] : items[c][j].attrs = attrs}
                Hatched == {i \in With(originOfShellCollectionId) :
                               OwnerOf(i) = None /\ Incubating(i)}
            IN  Cardinality(With(shellCollectionId)) <= Cardinality(Hatched)

\* The shells with these attributes that account a owns, awakened or not.
Shells(a, attrs) ==
    {s \in CollectionId \X NftId :
        /\ s[2] \in DOMAIN items[s[1]]
        /\ items[s[1]][s[2]] = [owner |-> a, attrs |-> attrs]}

\* Nobody loses a shell by hatching: who burns none has for each shell it had
\* one with the same attributes, also where hatching fails between burning and
\* minting and where both collections are the same.
NoShellLost ==
    [][\A a \in Account \ Burners, attrs \in Attributes :
          Cardinality(Shells(a, attrs)') >= Cardinality(Shells(a, attrs))]_vars

\* The hatch time of an incubating shell comes (if the instance does not end
\* before it), however often incubation is switched off and on.
HatchTimeComes ==
    \A i \in NftId :
        (Incubating(i) /\ hatchTimes[i] < MaxTime) ~> (Incubating(i) /\ CanHatch(i))

\* feed_origin_of_shell feeds "the current origin_of_shell being incubated"
\* (incubation.rs:221) and says "Ensure that Origin of Shell exists"
\* (incubation.rs:247): no food is counted for a shell that was burned.
OnlyLiveShellsFed ==
    [][\A i \in NftId : FoodStats(era, i)' > FoodStats(era, i) => OwnerOf(i) # None]_vars
=============================================================================
