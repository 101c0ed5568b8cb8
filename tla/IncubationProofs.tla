-------------------------- MODULE IncubationProofs ---------------------------
(***************************************************************************)
(* Theorems about Incubation, for every value of its constants.            *)
(***************************************************************************)
EXTENDS Incubation, FiniteSetTheorems, SequenceTheorems, TLAPS

USE DEF clockVars, rmrkVars, saleVars, foodVars, phaseVars, RecordsTypeOK, Clock!U64

\* The assumptions of the modules under one name.
Assumptions ==
    /\ U32Max \in Nat \ {0}
    /\ None \notin Account /\ None \notin Attributes /\ None \notin Nat
    /\ None \notin FoodInfo
    /\ MaxCollections \in Nat \ {0}
    /\ Burners \subseteq Account
    /\ FoodPerEra \in Nat
    /\ IncubationDurationSec \in Nat
    /\ SecondsPerEra \in Nat \ {0}
    /\ U64Max \in Nat
    /\ ClockGenesis \in [zeroDay : (0 .. U64Max) \cup {None}, era : 0 .. U64Max]
    /\ StartTime \in 0 .. U64Max
    /\ Gaps \subseteq Nat
    /\ MaxTime \in 0 .. U64Max
    /\ Overlord \in Account
    /\ IsFiniteSet(Account)
    /\ ShellCollection \in CollectionId
    /\ OverlordCandidates \subseteq Account
    /\ Sales \subseteq Seq([owner : Account, attrs : Attributes])
    /\ Reductions \subseteq Nat
    /\ AwakenedCollections \subseteq CollectionId

LEMMA AssumptionsHold == Assumptions
  BY TraitsAssumption, RmrkAssumption, IncubationAssumption DEF Assumptions
-----------------------------------------------------------------------------
(* Type correctness.                                                       *)

LEMMA InitType == Init => TypeOK
  <1> SUFFICES ASSUME Init PROVE TypeOK
    OBVIOUS
  <1> USE AssumptionsHold DEF Assumptions, Init
  <1>1. Clock!TypeOK
    BY DEF Clock!Init, Clock!TypeOK
  <1>2. RmrkTypeOK
    BY DEF RmrkTypeOK, CollectionId
  <1>3. foodByOwners \in [Account -> FoodInfo \cup {None}]
    OBVIOUS
  <1>4. DOMAIN originOfShellFoodStats = {}
    OBVIOUS
  <1>5. hatchTimes \in [NftId -> Nat \cup {None}]
    OBVIOUS
  <1> QED
    BY <1>1, <1>2, <1>3, <1>4, <1>5 DEF TypeOK

\* The largest era is never over: an era has at least a second.
LEMMA EraBelowMax ==
    ASSUME now \in 0 .. U64Max, era \in Nat, zeroDay \in (0 .. U64Max) \cup {None},
           Clock!EraOver
    PROVE  era < U64Max
  <1> USE AssumptionsHold DEF Assumptions
  <1> DEFINE secs == Clock!SecsSince(zeroDay, now)
  <1>1. zeroDay \in Nat /\ secs \div SecondsPerEra > era
    BY DEF Clock!EraOver
  <1>2. secs \in 0 .. U64Max
    <2>1. now - zeroDay \in Int
      BY <1>1
    <2>2. \A n \in Int : n % (U64Max + 1) \in 0 .. U64Max
      OBVIOUS
    <2> QED
      BY <2>1, <2>2 DEF Clock!SecsSince
  <1> HIDE DEF secs
  <1>3. secs \div SecondsPerEra \in Int /\ secs \div SecondsPerEra <= secs
    BY <1>2
  <1> QED
    BY <1>1, <1>2, <1>3

\* Time and eras only move forward.
LEMMA ClockMoves ==
    ASSUME TypeOK, Clock!Next
    PROVE  Clock!TypeOK' /\ now <= now' /\ era <= era' /\ era' <= era + 1
  <1> USE AssumptionsHold DEF Assumptions
  <1>0. /\ now \in 0 .. U64Max /\ now \in Nat
        /\ era \in 0 .. U64Max /\ era \in Nat
        /\ zeroDay \in (0 .. U64Max) \cup {None}
        /\ executing \in BOOLEAN
    BY DEF TypeOK, Clock!TypeOK
  <1>1. CASE Clock!BeginBlock
    <2>1. now' \in 0 .. U64Max /\ now <= now'
      BY <1>0, <1>1 DEF Clock!BeginBlock
    <2> QED
      BY <1>0, <1>1, <2>1 DEF Clock!BeginBlock, Clock!TypeOK
  <1>2. CASE Clock!InitializeWorldClock
    <2>1. now % SecondsPerEra \in Nat /\ now % SecondsPerEra <= now
      BY <1>0
    <2>2. now - (now % SecondsPerEra) \in 0 .. U64Max
      BY <1>0, <2>1
    <2>3. zeroDay' \in 0 .. U64Max
      BY <1>2, <2>2 DEF Clock!InitializeWorldClock, Clock!ZeroDayOf
    <2>4. now' = now /\ era' = era /\ executing' = executing
      BY <1>2 DEF Clock!InitializeWorldClock
    <2> QED
      BY <1>0, <2>3, <2>4 DEF Clock!TypeOK
  <1>3. CASE Clock!FinalizeBlock
    <2>1. Clock!EraOver => era < U64Max
      BY <1>0, EraBelowMax
    <2>2. era' \in 0 .. U64Max /\ era <= era' /\ era' <= era + 1
      <3>1. CASE Clock!EraOver
        BY <1>0, <1>3, <2>1, <3>1 DEF Clock!FinalizeBlock
      <3>2. CASE ~Clock!EraOver
        BY <1>0, <1>3, <3>2 DEF Clock!FinalizeBlock
      <3> QED
        BY <3>1, <3>2
    <2>3. now' = now /\ zeroDay' = zeroDay /\ executing' = FALSE
      BY <1>3 DEF Clock!FinalizeBlock
    <2>4. now <= now'
      BY <1>0, <2>3
    <2>5. Clock!TypeOK'
      BY <1>0, <2>2, <2>3 DEF Clock!TypeOK
    <2> QED
      BY <2>2, <2>4, <2>5
  <1> QED
    BY <1>1, <1>2, <1>3 DEF Clock!Next

LEMMA AppendType ==
    ASSUME NEW its \in [CollectionId -> Seq(Item)], NEW c \in CollectionId, NEW item \in Item
    PROVE  [its EXCEPT ![c] = Append(@, item)] \in [CollectionId -> Seq(Item)]
  <1>1. Append(its[c], item) \in Seq(Item)
    OBVIOUS
  <1> QED
    BY <1>1

LEMMA BurnType ==
    ASSUME RmrkTypeOK, NEW c \in CollectionId, NEW i \in DOMAIN items[c]
    PROVE  [items EXCEPT ![c][i].owner = None] \in [CollectionId -> Seq(Item)]
  <1>1. items[c] \in Seq(Item) /\ items[c][i] \in Item
    BY DEF RmrkTypeOK
  <1>2. [items[c][i] EXCEPT !.owner = None] \in Item
    BY <1>1 DEF Item
  <1>3. [items[c] EXCEPT ![i].owner = None] \in Seq(Item)
    BY <1>1, <1>2
  <1> QED
    BY <1>3 DEF RmrkTypeOK

LEMMA FoodInfoType ==
    ASSUME TypeOK, NEW a \in Account
    PROVE  FoodInfoNow(a) \in FoodInfo
  BY DEF TypeOK, Clock!TypeOK, FoodInfoNow, FoodInfo

LEMMA FeedType ==
    ASSUME TypeOK, NEW a \in Account, NEW i \in NftId, FeedOriginOfShell(a, i)
    PROVE  TypeOK'
  <1>1. FoodInfoNow(a) \in FoodInfo
    BY FoodInfoType
  <1>2. [FoodInfoNow(a) EXCEPT !.fed = Append(@, i)] \in FoodInfo
    BY <1>1 DEF FoodInfo
  <1>3. foodByOwners' \in [Account -> FoodInfo \cup {None}]
    BY <1>2 DEF TypeOK, FeedOriginOfShell
  <1>4. era \in Nat /\ FoodStats(era, i) \in Nat
    BY DEF TypeOK, Clock!TypeOK, FoodStats
  <1>5. /\ DOMAIN originOfShellFoodStats' \subseteq Nat \X NftId
        /\ \A k \in DOMAIN originOfShellFoodStats' : originOfShellFoodStats'[k] \in Nat
    BY <1>4 DEF TypeOK, FeedOriginOfShell, CountFood
  <1> QED
    BY <1>3, <1>5 DEF TypeOK, Clock!TypeOK, RmrkTypeOK, FeedOriginOfShell

LEMMA HatchType ==
    ASSUME TypeOK, NEW i \in NftId, HatchOriginOfShell(i)
    PROVE  TypeOK'
  <1> USE AssumptionsHold DEF Assumptions
  <1> DEFINE oos == originOfShellCollectionId
  <1>1. i \in DOMAIN items[oos] /\ oos \in CollectionId
    BY DEF HatchOriginOfShell, OwnerOf, TypeOK
  <1>2. items[oos][i] \in Item
    BY <1>1 DEF TypeOK, RmrkTypeOK
  <1>3. [items EXCEPT ![oos][i].owner = None] \in [CollectionId -> Seq(Item)]
    BY <1>1, BurnType DEF TypeOK
  <1>4. shellCollectionId \in CollectionId
    BY DEF HatchOriginOfShell, TypeOK
  <1>5. items' \in [CollectionId -> Seq(Item)]
    BY <1>2, <1>3, <1>4, AppendType DEF HatchOriginOfShell, Awaken
  <1> QED
    BY <1>5 DEF TypeOK, Clock!TypeOK, RmrkTypeOK, HatchOriginOfShell

LEMMA SalesType ==
    ASSUME NEW shells \in Sales
    PROVE  shells \in Seq(Item)
  <1>1. shells \in Seq([owner : Account, attrs : Attributes])
    BY AssumptionsHold DEF Assumptions
  <1>2. [owner : Account, attrs : Attributes] \subseteq Item
    BY DEF Item
  <1> QED
    BY <1>1, <1>2, SeqMonotonic

LEMMA OtherType ==
    ASSUME TypeOK, OtherCall
    PROVE  TypeOK'
  <1> USE AssumptionsHold DEF Assumptions
  <1>0. originOfShellCollectionId \in CollectionId /\ RmrkTypeOK
    BY DEF TypeOK
  <1>1. /\ items' \in [CollectionId -> Seq(Item)] /\ overlord' \in Account
        /\ UNCHANGED <<nextCollectionId, issuer, originOfShellCollectionId>>
    <2>1. ASSUME NEW shells \in Sales, SaleMints(shells)
          PROVE  /\ items' \in [CollectionId -> Seq(Item)] /\ overlord' \in Account
                 /\ UNCHANGED <<nextCollectionId, issuer, originOfShellCollectionId>>
      <3>1. shells \in Seq(Item)
        BY SalesType
      <3>2. items[originOfShellCollectionId] \o shells \in Seq(Item)
        BY <1>0, <3>1 DEF RmrkTypeOK
      <3> QED
        BY <1>0, <2>1, <3>2 DEF SaleMints, TypeOK, RmrkTypeOK
    <2>2. ASSUME NEW a \in Burners, NEW c \in CollectionId, NEW i \in DOMAIN items[c],
                 BurnNft(a, c, i), UNCHANGED saleVars
          PROVE  /\ items' \in [CollectionId -> Seq(Item)] /\ overlord' \in Account
                 /\ UNCHANGED <<nextCollectionId, issuer, originOfShellCollectionId>>
      <3>1. [items EXCEPT ![c][i].owner = None] \in [CollectionId -> Seq(Item)]
        BY <1>0, BurnType
      <3> QED
        BY <2>2, <3>1 DEF BurnNft, TypeOK
    <2>3. CASE \E a \in OverlordCandidates : NewOverlord(a)
      BY <2>3 DEF NewOverlord, TypeOK, RmrkTypeOK
    <2> QED
      BY <2>1, <2>2, <2>3 DEF OtherCall
  <1> QED
    BY <1>0, <1>1 DEF OtherCall, TypeOK, Clock!TypeOK, RmrkTypeOK

LEMMA ReducedType ==
    ASSUME NEW t \in Nat, NEW r \in Nat
    PROVE  Reduced(t, r) \in Nat /\ Reduced(t, r) <= t
  BY DEF Reduced

LEMMA UpdateType ==
    ASSUME TypeOK, NEW S \in SUBSET NftId, NEW by \in [S -> Reductions],
           UpdateIncubationTime(by)
    PROVE  hatchTimes' \in [NftId -> Nat \cup {None}]
  <1>1. ASSUME NEW i \in NftId, i \in S
        PROVE  Reduced(hatchTimes[i], by[i]) \in Nat
    <2>1. hatchTimes[i] \in Nat /\ by[i] \in Nat
      BY <1>1, AssumptionsHold DEF Assumptions, TypeOK, UpdateIncubationTime, Incubating
    <2> QED
      BY <2>1, ReducedType
  <1> QED
    BY <1>1 DEF TypeOK, UpdateIncubationTime

LEMMA NextType == TypeOK /\ [Next]_vars => TypeOK'
  <1> SUFFICES ASSUME TypeOK, [Next]_vars PROVE TypeOK'
    OBVIOUS
  <1> USE AssumptionsHold DEF Assumptions
  <1>1. ASSUME NEW a \in Account, NEW i \in NftId, StartIncubation(a, i) PROVE TypeOK'
    BY <1>1 DEF StartIncubation, TypeOK, Clock!TypeOK, RmrkTypeOK
  <1>2. ASSUME NEW a \in Account, NEW i \in NftId, FeedOriginOfShell(a, i) PROVE TypeOK'
    BY <1>2, FeedType
  <1>3. ASSUME NEW i \in NftId, HatchOriginOfShell(i) PROVE TypeOK'
    BY <1>3, HatchType
  <1>4. ASSUME NEW S \in SUBSET NftId, NEW by \in [S -> Reductions],
               UpdateIncubationTime(by)
        PROVE  TypeOK'
    <2>1. hatchTimes' \in [NftId -> Nat \cup {None}]
      BY <1>4, UpdateType
    <2> QED
      BY <1>4, <2>1 DEF UpdateIncubationTime, TypeOK, Clock!TypeOK, RmrkTypeOK
  <1>5. ASSUME NEW on \in BOOLEAN, SetCanStartIncubationStatus(on) PROVE TypeOK'
    <2>1. officialHatchTime' \in Nat
      BY <1>5 DEF SetCanStartIncubationStatus, TypeOK, Clock!TypeOK
    <2> QED
      BY <1>5, <2>1 DEF SetCanStartIncubationStatus, TypeOK, Clock!TypeOK, RmrkTypeOK
  <1>6. ASSUME NEW c \in AwakenedCollections, SetShellCollectionId(c) PROVE TypeOK'
    BY <1>6 DEF SetShellCollectionId, TypeOK, Clock!TypeOK, RmrkTypeOK
  <1>7. CASE OtherCall
    BY <1>7, OtherType
  <1>8. CASE ClockStep
    BY <1>8, ClockMoves DEF ClockStep, TypeOK, RmrkTypeOK
  <1>9. CASE UNCHANGED vars
    BY <1>9 DEF vars, TypeOK, Clock!TypeOK, RmrkTypeOK
  <1> QED
    BY <1>1, <1>2, <1>3, <1>4, <1>5, <1>6, <1>7, <1>8, <1>9 DEF Next, IncubationCall

\* The storage always holds values of its types; in particular no reduction
\* makes a hatch time negative, where a u64 would wrap to a time far ahead.
THEOREM IncubationTypeCorrect == Spec => []TypeOK
  BY InitType, NextType, PTL DEF Spec
-----------------------------------------------------------------------------
(* Hatch times.                                                            *)

\* The one step that changes hatch times of incubating shells lowers them.
LEMMA HatchTimesStep ==
    ASSUME TypeOK, [Next]_vars, NEW i \in NftId, Incubating(i)
    PROVE  hatchTimes'[i] \in Nat /\ hatchTimes'[i] <= hatchTimes[i]
  <1>0. hatchTimes[i] \in Nat
    BY DEF TypeOK, Incubating
  <1>1. ASSUME NEW a \in Account, NEW j \in NftId, StartIncubation(a, j)
        PROVE  hatchTimes'[i] = hatchTimes[i]
    BY <1>1 DEF StartIncubation, Incubating, TypeOK
  <1>2. ASSUME NEW S \in SUBSET NftId, NEW by \in [S -> Reductions],
               UpdateIncubationTime(by)
        PROVE  hatchTimes'[i] \in Nat /\ hatchTimes'[i] <= hatchTimes[i]
    <2>1. CASE i \in S
      <3>1. by[i] \in Nat
        BY <2>1, AssumptionsHold DEF Assumptions
      <3>2. hatchTimes'[i] = Reduced(hatchTimes[i], by[i])
        BY <1>2, <2>1 DEF UpdateIncubationTime
      <3> QED
        BY <1>0, <3>1, <3>2, ReducedType
    <2>2. CASE i \notin S
      BY <1>0, <1>2, <2>2 DEF UpdateIncubationTime
    <2> QED
      BY <2>1, <2>2
  <1>3. CASE UNCHANGED hatchTimes
    BY <1>0, <1>3
  <1>4. \/ UNCHANGED hatchTimes
        \/ \E a \in Account, j \in NftId : StartIncubation(a, j)
        \/ \E S \in SUBSET NftId : \E by \in [S -> Reductions] : UpdateIncubationTime(by)
    BY DEF Next, IncubationCall, OtherCall, ClockStep, vars, FeedOriginOfShell,
           HatchOriginOfShell, SetCanStartIncubationStatus, SetShellCollectionId
  <1> QED
    BY <1>0, <1>1, <1>2, <1>3, <1>4

\* A hatch time never rises and is never lost, whatever the Overlord switches
\* and whoever calls.
THEOREM HatchTimesCorrect == Spec => HatchTimesOnlyFall
  <1>1. TypeOK /\ [Next]_vars =>
          [\A i \in NftId : Incubating(i) =>
              hatchTimes'[i] # None /\ hatchTimes'[i] <= hatchTimes[i]]_vars
    BY HatchTimesStep, AssumptionsHold DEF Assumptions
  <1> QED
    BY <1>1, InitType, NextType, PTL DEF Spec, HatchTimesOnlyFall

\* The official hatch time only moves forward, as it is at most a duration away.
OfficialInTime == officialHatchTime <= now + IncubationDurationSec

\* A bound that moves with the clock keeps holding as the clock moves on.
LEMMA LaterBound ==
    ASSUME NEW t \in Nat, NEW m \in Nat, NEW n \in Nat, NEW d \in Nat, t <= m + d, m <= n
    PROVE  t <= n + d
  OBVIOUS

LEMMA OfficialStep ==
    ASSUME TypeOK, HatchByOfficialTime, OfficialInTime, [Next]_vars
    PROVE  HatchByOfficialTime' /\ OfficialInTime'
  <1> USE AssumptionsHold DEF Assumptions
  <1>0. now \in Nat /\ officialHatchTime \in Nat
    BY DEF TypeOK, Clock!TypeOK
  <1>1. officialHatchTime' \in Nat /\ officialHatchTime <= officialHatchTime' /\ OfficialInTime'
    <2>1. ASSUME NEW on \in BOOLEAN, SetCanStartIncubationStatus(on)
          PROVE  /\ officialHatchTime' \in Nat
                 /\ officialHatchTime <= officialHatchTime'
                 /\ OfficialInTime'
      BY <1>0, <2>1 DEF SetCanStartIncubationStatus, OfficialInTime
    <2>2. CASE ClockStep
      <3>1. now' \in Nat /\ now <= now' /\ officialHatchTime' = officialHatchTime
        BY <2>2, ClockMoves DEF ClockStep, Clock!TypeOK
      <3>2. officialHatchTime <= now + IncubationDurationSec
        BY DEF OfficialInTime
      <3>3. officialHatchTime <= now' + IncubationDurationSec
        BY <1>0, <3>1, <3>2, LaterBound
      <3>4. OfficialInTime'
        BY <3>1, <3>3 DEF OfficialInTime
      <3> QED
        BY <1>0, <3>1, <3>4
    <2>3. CASE UNCHANGED <<officialHatchTime, now>>
      BY <1>0, <2>3 DEF OfficialInTime
    <2> QED
      BY <2>1, <2>2, <2>3 DEF Next, IncubationCall, OtherCall, vars, StartIncubation,
         FeedOriginOfShell, HatchOriginOfShell, UpdateIncubationTime, SetShellCollectionId
  <1>2. ASSUME NEW i \in NftId, Incubating(i)'
        PROVE  hatchTimes'[i] <= officialHatchTime'
    <2>1. CASE Incubating(i)
      <3>1. hatchTimes[i] \in Nat /\ hatchTimes[i] <= officialHatchTime
        BY <2>1 DEF HatchByOfficialTime, TypeOK, Incubating
      <3>2. hatchTimes'[i] \in Nat /\ hatchTimes'[i] <= hatchTimes[i]
        BY <2>1, HatchTimesStep
      <3> QED
        BY <1>0, <1>1, <3>1, <3>2
    <2>2. CASE ~Incubating(i)
      <3>1. \E a \in Account, j \in NftId : StartIncubation(a, j)
        BY <1>2, <2>2 DEF Incubating, Next, IncubationCall, OtherCall, ClockStep, vars,
           FeedOriginOfShell, HatchOriginOfShell, UpdateIncubationTime,
           SetCanStartIncubationStatus, SetShellCollectionId
      <3>2. hatchTimes'[i] = officialHatchTime /\ officialHatchTime' = officialHatchTime
        BY <1>2, <2>2, <3>1 DEF StartIncubation, Incubating, TypeOK
      <3> QED
        BY <1>0, <3>2
    <2> QED
      BY <2>1, <2>2
  <1> QED
    BY <1>1, <1>2 DEF HatchByOfficialTime

\* No shell ever hatches later than the official hatch time of the moment.
THEOREM OfficialTimeCorrect == Spec => []HatchByOfficialTime
  <1>1. Init => HatchByOfficialTime /\ OfficialInTime
    BY AssumptionsHold
    DEF Assumptions, Init, Clock!Init, HatchByOfficialTime, OfficialInTime, Incubating
  <1> QED
    BY <1>1, InitType, NextType, OfficialStep, PTL DEF Spec
-----------------------------------------------------------------------------
(* Feeding. No record is ahead of the era, so that those of a new era are  *)
(* all empty.                                                              *)

NoRecordAhead ==
    /\ \A k \in DOMAIN originOfShellFoodStats : k[1] <= era
    /\ \A a \in Account : foodByOwners[a] # None => foodByOwners[a].era <= era

FoodInv == NoRecordAhead /\ FoodStatsMatchFeeders

\* What account a adds to the meals of shell j when it feeds shell i.
LEMMA FeedMeals ==
    ASSUME TypeOK, NoRecordAhead, NEW a \in Account, NEW i \in NftId, NEW j \in NftId,
           FeedOriginOfShell(a, i)
    PROVE  LET meal == <<a, Len(FoodInfoNow(a).fed) + 1>>
           IN  /\ meal \notin Meals(j)
               /\ Meals(j)' = IF j = i THEN Meals(j) \cup {meal} ELSE Meals(j)
  <1> DEFINE info == FoodInfoNow(a)
             n == Len(info.fed) + 1
             after == Append(info.fed, i)
             Slots == 1 .. FoodPerEra
  <1>1. /\ era \in Nat /\ era' = era /\ FoodPerEra \in Nat
        /\ foodByOwners \in [Account -> FoodInfo \cup {None}]
    BY AssumptionsHold DEF Assumptions, TypeOK, Clock!TypeOK, FeedOriginOfShell
  <1>2. info \in FoodInfo /\ info.fed \in Seq(NftId) /\ info.era = era
    <2>1. info \in FoodInfo
      BY FoodInfoType
    <2>2. info.era = era
      BY <1>1 DEF FoodInfoNow, NoRecordAhead, FoodInfo
    <2> QED
      BY <2>1, <2>2 DEF FoodInfo
  <1>3. /\ n \in Slots
        /\ DOMAIN info.fed = 1 .. (n - 1)
        /\ DOMAIN after = 1 .. n
        /\ after[n] = i
        /\ \A p \in 1 .. (n - 1) : after[p] = info.fed[p]
    BY <1>1, <1>2 DEF FeedOriginOfShell
  <1>4. /\ foodByOwners'[a] # None
        /\ foodByOwners'[a].era = era
        /\ foodByOwners'[a].fed = after
        /\ \A b \in Account \ {a} : foodByOwners'[b] = foodByOwners[b]
    <2>1. foodByOwners' = [foodByOwners EXCEPT ![a] = [info EXCEPT !.fed = Append(@, i)]]
      BY DEF FeedOriginOfShell
    <2>2. [info EXCEPT !.fed = Append(@, i)] = [era |-> era, fed |-> after]
      <3>1. info = [era |-> era, fed |-> info.fed]
        BY <1>2 DEF FoodInfo
      <3>2. [[era |-> era, fed |-> info.fed] EXCEPT !.fed = Append(@, i)]
                = [era |-> era, fed |-> after]
        OBVIOUS
      <3> HIDE DEF info
      <3> QED
        BY <3>1, <3>2
    <2>3. [era |-> era, fed |-> after] # None
      <3>1. [era |-> era, fed |-> after] \in FoodInfo
        BY <1>1, <1>2 DEF FoodInfo
      <3> QED
        BY <3>1, AssumptionsHold DEF Assumptions
    <2> QED
      BY <1>1, <2>1, <2>2, <2>3
  <1>5. ASSUME NEW b \in Account \ {a}, NEW p \in Slots
        PROVE  <<b, p>> \in Meals(j)' <=> <<b, p>> \in Meals(j)
    BY <1>1, <1>4, <1>5 DEF Meals
  <1>6. ASSUME NEW p \in Slots
        PROVE  <<a, p>> \in Meals(j) <=> p \in 1 .. (n - 1) /\ info.fed[p] = j
    <2>1. CASE foodByOwners[a] = None \/ era > foodByOwners[a].era
      <3>1. info.fed = << >>
        BY <2>1 DEF FoodInfoNow
      <3>2. <<a, p>> \notin Meals(j)
        BY <1>1, <2>1 DEF Meals, FoodInfo
      <3> QED
        BY <1>3, <3>1, <3>2
    <2>2. CASE ~(foodByOwners[a] = None \/ era > foodByOwners[a].era)
      BY <1>2, <1>3, <2>2 DEF FoodInfoNow, Meals
    <2> QED
      BY <2>1, <2>2
  <1>7. ASSUME NEW p \in Slots
        PROVE  <<a, p>> \in Meals(j)' <=> p \in 1 .. n /\ after[p] = j
    BY <1>1, <1>3, <1>4 DEF Meals
  <1>8. ASSUME NEW p \in Slots
        PROVE  <<a, p>> \in Meals(j)' <=> <<a, p>> \in Meals(j) \/ (p = n /\ j = i)
    BY <1>3, <1>6, <1>7
  <1>9. Meals(j) \subseteq Account \X Slots /\ Meals(j)' \subseteq Account \X Slots
    BY DEF Meals
  <1>10. <<a, n>> \notin Meals(j)
    BY <1>3, <1>6
  <1>11. ASSUME NEW m \in Account \X Slots
         PROVE  m \in Meals(j)' <=> m \in Meals(j) \/ (m = <<a, n>> /\ j = i)
    <2>1. PICK b \in Account, p \in Slots : m = <<b, p>>
      OBVIOUS
    <2> QED
      BY <1>5, <1>8, <2>1
  <1>12. <<a, n>> \in Account \X Slots
    BY <1>3
  <1> QED
    BY <1>9, <1>10, <1>11, <1>12

LEMMA FeedStats ==
    ASSUME TypeOK, NEW a \in Account, NEW i \in NftId, NEW j \in NftId,
           FeedOriginOfShell(a, i)
    PROVE  FoodStats(era, j)' = FoodStats(era, j) + (IF j = i THEN 1 ELSE 0)
  <1>1. era' = era /\ FoodStats(era, j) \in Nat
    BY DEF FeedOriginOfShell, TypeOK, Clock!TypeOK, FoodStats
  <1>2. CASE j = i
    BY <1>1, <1>2 DEF FeedOriginOfShell, CountFood, FoodStats
  <1>3. CASE j # i
    BY <1>1, <1>3 DEF FeedOriginOfShell, CountFood, FoodStats
  <1> QED
    BY <1>2, <1>3

LEMMA MealsFinite == \A i : IsFiniteSet(Meals(i))
  <1> SUFFICES ASSUME NEW i PROVE IsFiniteSet(Meals(i))
    OBVIOUS
  <1>1. IsFiniteSet(1 .. FoodPerEra) /\ IsFiniteSet(Account)
    BY FS_Interval, AssumptionsHold DEF Assumptions
  <1>2. IsFiniteSet(Account \X (1 .. FoodPerEra))
    BY <1>1, FS_Product
  <1>3. Meals(i) \in SUBSET (Account \X (1 .. FoodPerEra))
    BY DEF Meals
  <1> QED
    BY <1>2, <1>3, FS_Subset

LEMMA FoodStep ==
    ASSUME TypeOK, FoodInv, [Next]_vars
    PROVE  FoodInv'
  <1> USE AssumptionsHold DEF Assumptions
  <1>0. era \in Nat
    BY DEF TypeOK, Clock!TypeOK
  <1>1. ASSUME NEW a \in Account, NEW i \in NftId, FeedOriginOfShell(a, i)
        PROVE  FoodInv'
    <2>1. NoRecordAhead'
      <3>1. /\ era' = era
            /\ DOMAIN originOfShellFoodStats' = DOMAIN originOfShellFoodStats \cup {<<era, i>>}
        BY <1>1 DEF FeedOriginOfShell, CountFood
      <3>2. FoodInfoNow(a).era <= era /\ FoodInfoNow(a) \in FoodInfo
        BY <1>0, FoodInfoType DEF FoodInv, NoRecordAhead, FoodInfoNow
      <3>3. foodByOwners' = [foodByOwners EXCEPT ![a] =
                                [FoodInfoNow(a) EXCEPT !.fed = Append(@, i)]]
        BY <1>1 DEF FeedOriginOfShell
      <3>4. [FoodInfoNow(a) EXCEPT !.fed = Append(@, i)].era = FoodInfoNow(a).era
        BY <3>2 DEF FoodInfo
      <3>5. \A b \in Account : foodByOwners'[b] # None => foodByOwners'[b].era <= era
        BY <3>2, <3>3, <3>4 DEF FoodInv, NoRecordAhead, TypeOK
      <3> QED
        BY <1>0, <3>1, <3>5 DEF FoodInv, NoRecordAhead
    <2>2. ASSUME NEW j \in NftId
          PROVE  FoodStats(era, j)' = Cardinality(Meals(j))'
      <3> DEFINE meal == <<a, Len(FoodInfoNow(a).fed) + 1>>
      <3>1. /\ meal \notin Meals(j)
            /\ Meals(j)' = IF j = i THEN Meals(j) \cup {meal} ELSE Meals(j)
        BY <1>1, FeedMeals DEF FoodInv
      <3>2. FoodStats(era, j)' = FoodStats(era, j) + (IF j = i THEN 1 ELSE 0)
        BY <1>1, FeedStats
      <3>3. FoodStats(era, j) = Cardinality(Meals(j)) /\ Cardinality(Meals(j)) \in Nat
        BY MealsFinite, FS_CardinalityType DEF FoodInv, FoodStatsMatchFeeders
      <3>4. Cardinality(Meals(j) \cup {meal}) = Cardinality(Meals(j)) + 1
        BY <3>1, MealsFinite, FS_AddElement
      <3> QED
        BY <3>1, <3>2, <3>3, <3>4
    <2> QED
      BY <2>1, <2>2 DEF FoodInv, FoodStatsMatchFeeders
  <1>2. CASE ClockStep
    <2>1. era' \in Nat /\ era <= era' /\ UNCHANGED foodVars
      BY <1>2, ClockMoves DEF ClockStep, Clock!TypeOK
    <2>2. NoRecordAhead'
      <3>1. \A k \in DOMAIN originOfShellFoodStats : k[1] \in Nat /\ k[1] <= era'
        BY <1>0, <2>1 DEF FoodInv, NoRecordAhead, TypeOK
      <3>2. \A a \in Account : foodByOwners[a] # None => foodByOwners[a].era <= era'
        BY <1>0, <2>1 DEF FoodInv, NoRecordAhead, TypeOK, FoodInfo
      <3> QED
        BY <2>1, <3>1, <3>2 DEF NoRecordAhead
    <2>3. CASE era' = era
      BY <2>1, <2>2, <2>3 DEF FoodInv, FoodStatsMatchFeeders, FoodStats, Meals
    <2>4. CASE era < era'
      <3>1. ASSUME NEW j \in NftId
            PROVE  FoodStats(era, j)' = Cardinality(Meals(j))'
        <4>1. <<era', j>> \notin DOMAIN originOfShellFoodStats
          BY <1>0, <2>1, <2>4 DEF FoodInv, NoRecordAhead
        <4>2. FoodStats(era, j)' = 0
          BY <2>1, <4>1 DEF FoodStats
        <4>3. ASSUME NEW a \in Account, foodByOwners[a] # None
              PROVE  foodByOwners[a].era # era'
          BY <1>0, <2>1, <2>4, <4>3 DEF FoodInv, NoRecordAhead, TypeOK, FoodInfo
        <4>4. Meals(j)' = {}
          BY <2>1, <4>3 DEF Meals
        <4> QED
          BY <4>2, <4>4, FS_EmptySet
      <3> QED
        BY <2>2, <3>1 DEF FoodInv, FoodStatsMatchFeeders
    <2> QED
      BY <1>0, <2>1, <2>3, <2>4
  <1>3. CASE UNCHANGED <<foodVars, era>>
    BY <1>3 DEF FoodInv, NoRecordAhead, FoodStatsMatchFeeders, FoodStats, Meals
  <1>4. \/ \E a \in Account, i \in NftId : FeedOriginOfShell(a, i)
        \/ ClockStep
        \/ UNCHANGED <<foodVars, era>>
    BY DEF Next, IncubationCall, OtherCall, vars, StartIncubation, HatchOriginOfShell,
           UpdateIncubationTime, SetCanStartIncubationStatus, SetShellCollectionId
  <1> QED
    BY <1>1, <1>2, <1>3, <1>4

\* The two records of feeding agree in every reachable state: what a shell was
\* fed in the current era is what the accounts have on record.
THEOREM FoodStatsCorrect == Spec => []FoodStatsMatchFeeders
  <1>1. Init => FoodInv
    <2> SUFFICES ASSUME Init PROVE FoodInv
      OBVIOUS
    <2>1. DOMAIN originOfShellFoodStats = {} /\ \A a \in Account : foodByOwners[a] = None
      BY DEF Init
    <2>2. \A j \in NftId : FoodStats(era, j) = 0 /\ Meals(j) = {}
      BY <2>1 DEF FoodStats, Meals
    <2> QED
      BY <2>1, <2>2, FS_EmptySet DEF FoodInv, NoRecordAhead, FoodStatsMatchFeeders
  <1>2. FoodInv => FoodStatsMatchFeeders
    BY DEF FoodInv
  <1> QED
    BY <1>1, <1>2, InitType, NextType, FoodStep, PTL DEF Spec

\* What is on record of an era that is over never changes.
THEOREM PastErasCorrect == Spec => PastErasFixed
  <1>1. TypeOK /\ [Next]_vars =>
          [\A k \in DOMAIN originOfShellFoodStats' :
              originOfShellFoodStats'[k] # FoodStats(k[1], k[2]) => k[1] = era]_vars
    <2> SUFFICES ASSUME TypeOK, [Next]_vars, NEW k \in DOMAIN originOfShellFoodStats',
                        originOfShellFoodStats'[k] # FoodStats(k[1], k[2])
                 PROVE  k[1] = era
      OBVIOUS
    <2>1. ASSUME NEW a \in Account, NEW i \in NftId, FeedOriginOfShell(a, i)
          PROVE  k[1] = era
      <3>1. CASE k = <<era, i>>
        BY <3>1
      <3>2. CASE k # <<era, i>>
        <4>1. k \in DOMAIN originOfShellFoodStats
              /\ originOfShellFoodStats'[k] = originOfShellFoodStats[k]
          BY <2>1, <3>2 DEF FeedOriginOfShell, CountFood
        <4>2. k = <<k[1], k[2]>>
          BY <4>1 DEF TypeOK
        <4> QED
          BY <4>1, <4>2 DEF FoodStats
      <3> QED
        BY <3>1, <3>2
    <2>2. CASE UNCHANGED originOfShellFoodStats
      <3>1. k = <<k[1], k[2]>>
        BY <2>2 DEF TypeOK
      <3> QED
        BY <2>2, <3>1 DEF FoodStats
    <2> QED
      BY <2>1, <2>2 DEF Next, IncubationCall, OtherCall, ClockStep, vars, StartIncubation,
         HatchOriginOfShell, UpdateIncubationTime, SetCanStartIncubationStatus,
         SetShellCollectionId
  <1> QED
    BY <1>1, InitType, NextType, PTL DEF Spec, PastErasFixed
-----------------------------------------------------------------------------
(* The limits of feeding. What a shell got is bounded by counting the      *)
(* meals of all accounts: each has at most MaxFoodFeedSelf for it.         *)

\* A table of as many rows as accounts, none with more than w marks.
LEMMA RowsTimesWidth ==
    ASSUME NEW w \in Nat, NEW R \in [Account -> SUBSET (1 .. FoodPerEra)],
           \A a \in Account : Cardinality(R[a]) <= w
    PROVE  Cardinality({m \in Account \X (1 .. FoodPerEra) : m[2] \in R[m[1]]})
             <= w * Cardinality(Account)
  <1> DEFINE Slots == 1 .. FoodPerEra
             M == {m \in Account \X Slots : m[2] \in R[m[1]]}
             h == [a \in Account |-> CHOOSE g : g \in Bijection(1 .. Cardinality(R[a]), R[a])]
             Rank(m) == CHOOSE n \in 1 .. w : n \in 1 .. Cardinality(R[m[1]]) /\ h[m[1]][n] = m[2]
             f == [m \in M |-> <<m[1], Rank(m)>>]
  <1>1. ASSUME NEW a \in Account
        PROVE  /\ Cardinality(R[a]) \in Nat
               /\ h[a] \in Bijection(1 .. Cardinality(R[a]), R[a])
    <2>1. IsFiniteSet(Slots)
      BY FS_Interval, AssumptionsHold DEF Assumptions
    <2>2. IsFiniteSet(R[a])
      BY <2>1, FS_Subset
    <2>3. Cardinality(R[a]) \in Nat /\ \E g : g \in Bijection(1 .. Cardinality(R[a]), R[a])
      BY <2>2, FS_CardinalityType DEF ExistsBijection
    <2> QED
      BY <2>3
  <1>2. ASSUME NEW m \in M
        PROVE  /\ m[1] \in Account /\ m[2] \in R[m[1]] /\ m = <<m[1], m[2]>>
               /\ Rank(m) \in 1 .. w
               /\ h[m[1]][Rank(m)] = m[2]
    <2> HIDE DEF h
    <2>1. m[1] \in Account /\ m[2] \in R[m[1]] /\ m = <<m[1], m[2]>>
      OBVIOUS
    <2>2. PICK n \in 1 .. Cardinality(R[m[1]]) : h[m[1]][n] = m[2]
      BY <1>1, <2>1 DEF Bijection, Surjection
    <2>3. n \in 1 .. w
      BY <1>1, <2>1, <2>2
    <2> QED
      BY <2>1, <2>2, <2>3
  <1> HIDE DEF h, Rank
  <1>3. f \in Injection(M, Account \X (1 .. w))
    <2>1. f \in [M -> Account \X (1 .. w)]
      BY <1>2
    <2>2. ASSUME NEW m \in M, NEW n \in M, f[m] = f[n] PROVE m = n
      <3>1. m[1] = n[1] /\ Rank(m) = Rank(n)
        BY <2>2
      <3> QED
        BY <1>2, <3>1
    <2> HIDE DEF f, M
    <2> QED
      BY <2>1, <2>2 DEF Injection, IsInjective
  <1>4. IsFiniteSet(Account) /\ IsFiniteSet(1 .. w) /\ Cardinality(1 .. w) = w
    BY FS_Interval, AssumptionsHold DEF Assumptions
  <1>5. /\ IsFiniteSet(Account \X (1 .. w))
        /\ Cardinality(Account \X (1 .. w)) = Cardinality(Account) * w
    BY <1>4, FS_Product
  <1>6. Cardinality(M) <= Cardinality(Account) * w
    <2> HIDE DEF M, f
    <2> QED
      BY <1>3, <1>5, FS_Injection
  <1>7. Cardinality(Account) \in Nat
    BY <1>4, FS_CardinalityType
  <1>8. Cardinality(Account) * w = w * Cardinality(Account)
    BY <1>7
  <1> HIDE DEF M
  <1> QED
    BY <1>6, <1>8 DEF M

LEMMA TimesAppended ==
    ASSUME NEW fed \in Seq(NftId), NEW i \in NftId, NEW j \in NftId
    PROVE  /\ TimesIn(fed, j) \in Nat
           /\ TimesIn(Append(fed, i), j) = TimesIn(fed, j) + IF i = j THEN 1 ELSE 0
           /\ IsFiniteSet({p \in DOMAIN fed : fed[p] = j})
           /\ TimesIn(<< >>, j) = 0
  <1> DEFINE n == Len(fed) + 1
             Old == {p \in DOMAIN fed : fed[p] = j}
             New == {p \in DOMAIN Append(fed, i) : Append(fed, i)[p] = j}
  <1>1. /\ n \in Nat
        /\ DOMAIN fed = 1 .. (n - 1)
        /\ DOMAIN Append(fed, i) = 1 .. n
        /\ Append(fed, i)[n] = i
        /\ \A p \in 1 .. (n - 1) : Append(fed, i)[p] = fed[p]
    OBVIOUS
  <1>2. IsFiniteSet(Old)
    <2>1. IsFiniteSet(1 .. (n - 1))
      BY <1>1, FS_Interval
    <2> QED
      BY <1>1, <2>1, FS_Subset
  <1>3. n \notin Old
    BY <1>1
  <1>4. New = IF i = j THEN Old \cup {n} ELSE Old
    BY <1>1
  <1>5. Cardinality(Old) \in Nat /\ Cardinality(Old \cup {n}) = Cardinality(Old) + 1
    <2> HIDE DEF Old, n
    <2> QED
      BY <1>2, <1>3, FS_AddElement, FS_CardinalityType
  <1>6. Cardinality(New) = Cardinality(Old) + IF i = j THEN 1 ELSE 0
    <2> HIDE DEF Old, New, n
    <2> QED
      BY <1>4, <1>5
  <1>7. TimesIn(<< >>, j) = 0
    <2>1. {p \in DOMAIN << >> : << >>[p] = j} = {}
      OBVIOUS
    <2> QED
      BY <2>1, FS_EmptySet DEF TimesIn
  <1> QED
    BY <1>2, <1>5, <1>6, <1>7 DEF TimesIn

ShareInv ==
    \A a \in Account : foodByOwners[a] # None =>
        \A i \in NftId : TimesIn(foodByOwners[a].fed, i) <= MaxFoodFeedSelf

LimitInv == FoodInv /\ ShareInv /\ FoodWithinLimits

LEMMA ShareFeed ==
    ASSUME TypeOK, ShareInv, NEW a \in Account, NEW i \in NftId, FeedOriginOfShell(a, i)
    PROVE  ShareInv'
  <1> DEFINE info == FoodInfoNow(a)
  <1>1. info \in FoodInfo /\ info.fed \in Seq(NftId)
    BY FoodInfoType DEF FoodInfo
  <1>2. /\ foodByOwners' = [foodByOwners EXCEPT ![a] = [info EXCEPT !.fed = Append(@, i)]]
        /\ TimesIn(info.fed, i) < MaxFoodFeedSelf
        /\ foodByOwners \in [Account -> FoodInfo \cup {None}]
    BY DEF FeedOriginOfShell, TypeOK
  <1>3. [info EXCEPT !.fed = Append(@, i)].fed = Append(info.fed, i)
    BY <1>1 DEF FoodInfo
  <1>4. foodByOwners'[a].fed = Append(info.fed, i)
    <2> HIDE DEF info
    <2> QED
      BY <1>2, <1>3
  <1>5. MaxFoodFeedSelf \in Nat
    BY IncubationAssumption
  <1>6. ASSUME NEW j \in NftId PROVE TimesIn(info.fed, j) <= MaxFoodFeedSelf
    <2>1. CASE foodByOwners[a] = None \/ era > foodByOwners[a].era
      <3>1. info.fed = << >>
        BY <2>1 DEF FoodInfoNow
      <3> QED
        <4>1. TimesIn(<< >>, j) = 0
          BY <1>1, TimesAppended
        <4> HIDE DEF info
        <4> QED
          BY <1>5, <3>1, <4>1
    <2>2. CASE ~(foodByOwners[a] = None \/ era > foodByOwners[a].era)
      BY <2>2 DEF FoodInfoNow, ShareInv
    <2> QED
      BY <2>1, <2>2
  <1>7. ASSUME NEW j \in NftId PROVE TimesIn(Append(info.fed, i), j) <= MaxFoodFeedSelf
    <2>1. TimesIn(Append(info.fed, i), j) = TimesIn(info.fed, j) + (IF i = j THEN 1 ELSE 0)
      BY <1>1, TimesAppended
    <2>2. TimesIn(info.fed, j) \in Nat
      BY <1>1, TimesAppended
    <2> HIDE DEF info
    <2> QED
      BY <1>2, <1>5, <1>6, <2>1, <2>2
  <1>8. \A b \in Account \ {a} : foodByOwners'[b] = foodByOwners[b]
    BY <1>2
  <1> HIDE DEF info
  <1> QED
    BY <1>4, <1>7, <1>8 DEF ShareInv

LEMMA MealsBound ==
    ASSUME TypeOK, ShareInv, NEW i \in NftId
    PROVE  Cardinality(Meals(i)) <= MaxFoodFeedSelf * Cardinality(Account)
  <1> DEFINE Slots == 1 .. FoodPerEra
             R == [a \in Account |-> {p \in Slots : <<a, p>> \in Meals(i)}]
  <1>1. ASSUME NEW a \in Account PROVE Cardinality(R[a]) <= MaxFoodFeedSelf
    <2>1. CASE foodByOwners[a] = None
      <3>1. R[a] = {}
        BY <2>1 DEF Meals
      <3> QED
        <4>1. Cardinality(R[a]) = 0
          <5> HIDE DEF R
          <5> QED
            BY <3>1, FS_EmptySet
        <4> HIDE DEF R
        <4> QED
          BY <4>1, IncubationAssumption
    <2>2. CASE foodByOwners[a] # None
      <3> DEFINE fed == foodByOwners[a].fed
      <3>1. fed \in Seq(NftId) /\ TimesIn(fed, i) <= MaxFoodFeedSelf
        BY <2>2 DEF TypeOK, FoodInfo, ShareInv
      <3>2. R[a] \subseteq {p \in DOMAIN fed : fed[p] = i}
        BY DEF Meals
      <3>3. IsFiniteSet({p \in DOMAIN fed : fed[p] = i})
        BY <3>1, TimesAppended
      <3>4. /\ Cardinality(R[a]) <= TimesIn(fed, i)
            /\ Cardinality(R[a]) \in Nat /\ TimesIn(fed, i) \in Nat
        BY <3>2, <3>3, FS_Subset, FS_CardinalityType DEF TimesIn
      <3> HIDE DEF R, fed
      <3> QED
        BY <3>1, <3>4, IncubationAssumption
    <2> QED
      BY <2>1, <2>2
  <1>2. R \in [Account -> SUBSET Slots]
    OBVIOUS
  <1>3. Meals(i) = {m \in Account \X Slots : m[2] \in R[m[1]]}
    <2>1. Meals(i) \subseteq Account \X Slots
      BY DEF Meals
    <2>2. ASSUME NEW m \in Account \X Slots
          PROVE  m \in Meals(i) <=> m[2] \in R[m[1]]
      <3>1. PICK a \in Account, p \in Slots : m = <<a, p>>
        OBVIOUS
      <3> QED
        BY <3>1
    <2> HIDE DEF R
    <2> QED
      BY <2>1, <2>2
  <1> HIDE DEF R
  <1> QED
    BY <1>1, <1>2, <1>3, RowsTimesWidth, IncubationAssumption

MealsBounded ==
    \A i \in NftId : Cardinality(Meals(i)) <= MaxFoodFeedSelf * Cardinality(Account)

LEMMA MealsBoundAlways == TypeOK /\ ShareInv => MealsBounded
  BY MealsBound DEF MealsBounded

LEMMA LimitNext == TypeOK /\ LimitInv /\ [Next]_vars => LimitInv'
  <1> SUFFICES ASSUME TypeOK, LimitInv, [Next]_vars PROVE LimitInv'
    OBVIOUS
  <1>0. TypeOK' /\ FoodInv'
    BY NextType, FoodStep DEF LimitInv
  <1>1. ASSUME NEW a \in Account, NEW i \in NftId, FeedOriginOfShell(a, i)
        PROVE  ShareInv' /\ FoodWithinLimits'
    <2>1. ShareInv'
      BY <1>1, ShareFeed DEF LimitInv
    <2>2. ASSUME NEW k \in DOMAIN originOfShellFoodStats'
          PROVE  originOfShellFoodStats'[k] <= MaxFoodFeedSelf * Cardinality(Account)
      <3>1. CASE k = <<era, i>>
        <4>1. era' = era
          BY <1>1 DEF FeedOriginOfShell
        <4>2. originOfShellFoodStats'[k] = FoodStats(era, i)'
          BY <3>1, <4>1 DEF FoodStats
        <4>3. FoodStats(era, i)' = Cardinality(Meals(i))'
          BY <1>0 DEF FoodInv, FoodStatsMatchFeeders
        <4>4. Cardinality(Meals(i))' <= MaxFoodFeedSelf * Cardinality(Account)
          <5>1. MealsBounded'
            BY <1>0, <2>1, MealsBoundAlways, PTL
          <5> QED
            BY <5>1 DEF MealsBounded
        <4> QED
          BY <4>2, <4>3, <4>4
      <3>2. CASE k # <<era, i>>
        BY <1>1, <3>2 DEF FeedOriginOfShell, CountFood, LimitInv, FoodWithinLimits
      <3> QED
        BY <3>1, <3>2
    <2> QED
      BY <2>1, <2>2 DEF FoodWithinLimits
  <1>2. CASE UNCHANGED foodVars
    <2>1. ShareInv' /\ FoodWithinLimits'
      BY <1>2 DEF LimitInv, ShareInv, FoodWithinLimits
    <2> QED
      BY <1>0, <2>1 DEF LimitInv
  <1>3. UNCHANGED foodVars \/ \E a \in Account, i \in NftId : FeedOriginOfShell(a, i)
    BY DEF Next, IncubationCall, OtherCall, ClockStep, vars, StartIncubation,
           HatchOriginOfShell, UpdateIncubationTime, SetCanStartIncubationStatus,
           SetShellCollectionId
  <1> QED
    BY <1>0, <1>1, <1>2, <1>3 DEF LimitInv

\* In no era a shell was ever fed more than all accounts together may give it.
THEOREM FoodLimitsCorrect == Spec => []FoodWithinLimits
  <1>1. Init => LimitInv
    <2> SUFFICES ASSUME Init PROVE LimitInv
      OBVIOUS
    <2>1. DOMAIN originOfShellFoodStats = {} /\ \A a \in Account : foodByOwners[a] = None
      BY DEF Init
    <2>2. \A j \in NftId : FoodStats(era, j) = 0 /\ Meals(j) = {}
      BY <2>1 DEF FoodStats, Meals
    <2> QED
      BY <2>1, <2>2, FS_EmptySet
      DEF LimitInv, FoodInv, NoRecordAhead, FoodStatsMatchFeeders, ShareInv, FoodWithinLimits
  <1>2. LimitInv => FoodWithinLimits
    BY DEF LimitInv
  <1> QED
    BY <1>1, <1>2, InitType, NextType, LimitNext, PTL DEF Spec
-----------------------------------------------------------------------------
(* Every awakened shell comes from a hatched one of its own.               *)

USE AssumptionsHold DEF Assumptions, clockVars, rmrkVars, saleVars, foodVars, phaseVars

\* The items of collection c with attributes t, and the shells of the sale with
\* attributes t that were incubated and are burned.
With(c, t) == {j \in DOMAIN items[c] : items[c][j].attrs = t}
Hatched(t) ==
    {i \in With(originOfShellCollectionId, t) : OwnerOf(i) = None /\ Incubating(i)}

AwakenedFromHatched ==
    shellCollectionId \notin {None, originOfShellCollectionId} =>
        \A t \in Attributes :
            Cardinality(With(shellCollectionId, t)) <= Cardinality(Hatched(t))

\* Only the two collections hold items, and every shell of the sale has an id.
OtherCollectionsEmpty ==
    \A c \in CollectionId :
        c \notin {originOfShellCollectionId, shellCollectionId} => items[c] = << >>
ShellsHaveIds == Len(items[originOfShellCollectionId]) <= U32Max

AwakenedInv == OtherCollectionsEmpty /\ ShellsHaveIds /\ AwakenedFromHatched

LEMMA AwakenedOnceFromInv == AwakenedInv => AwakenedOnce
  BY DEF AwakenedInv, AwakenedFromHatched, With, Hatched, AwakenedOnce

LEMMA OwnerOfShell ==
    ASSUME TypeOK, NEW i \in DOMAIN items[originOfShellCollectionId]
    PROVE  OwnerOf(i) = items[originOfShellCollectionId][i].owner
  BY DEF OwnerOf, TypeOK, CollectionId

LEMMA IntervalFinite == \A n \in Nat : IsFiniteSet(1 .. n)
  <1>1. \A n \in Nat : 1 \in Int /\ n \in Int
    OBVIOUS
  <1> QED
    BY <1>1, FS_Interval

LEMMA WithFinite ==
    ASSUME TypeOK, NEW c \in CollectionId, NEW t
    PROVE  IsFiniteSet(With(c, t)) /\ Cardinality(With(c, t)) \in Nat
  <1>1. items[c] \in Seq(Item)
    BY DEF TypeOK, RmrkTypeOK
  <1>2. DOMAIN items[c] = 1 .. Len(items[c]) /\ Len(items[c]) \in Nat
    BY <1>1
  <1>3. IsFiniteSet(1 .. Len(items[c]))
    BY <1>2, IntervalFinite
  <1>4. With(c, t) \subseteq 1 .. Len(items[c])
    BY <1>2 DEF With
  <1> QED
    BY <1>3, <1>4, FS_Subset, FS_CardinalityType

LEMMA HatchedFinite ==
    ASSUME TypeOK, NEW t
    PROVE  IsFiniteSet(Hatched(t)) /\ Cardinality(Hatched(t)) \in Nat
  <1>1. originOfShellCollectionId \in CollectionId
    BY DEF TypeOK
  <1>2. IsFiniteSet(With(originOfShellCollectionId, t))
    BY <1>1, WithFinite
  <1>3. Hatched(t) \subseteq With(originOfShellCollectionId, t)
    BY DEF Hatched
  <1> QED
    BY <1>2, <1>3, FS_Subset, FS_CardinalityType

HatchedAreFinite ==
    \A t \in Attributes : IsFiniteSet(Hatched(t)) /\ Cardinality(Hatched(t)) \in Nat

LEMMA HatchedFiniteAlways == TypeOK => HatchedAreFinite
  BY HatchedFinite DEF HatchedAreFinite

\* A collection whose dead items stay dead, whatever is added to it.
OnlyDying(c) ==
    \A j \in DOMAIN items[c] :
        /\ j \in DOMAIN items'[c]
        /\ items'[c][j].attrs = items[c][j].attrs
        /\ items[c][j].owner = None => items'[c][j].owner = None

HatchedStay == \A t \in Attributes : Hatched(t) \subseteq Hatched(t)'

\* A shell that has hatched has done so for good.
LEMMA HatchedKept ==
    ASSUME TypeOK, ShellsHaveIds, [Next]_vars, OnlyDying(originOfShellCollectionId)
    PROVE  HatchedStay
  <1> DEFINE oos == originOfShellCollectionId
  <1>0. TypeOK' /\ oos' = oos
    BY NextType DEF TypeOK
  <1>1. SUFFICES ASSUME NEW t \in Attributes, NEW i \in Hatched(t)
                 PROVE  i \in Hatched(t)'
    BY DEF HatchedStay
  <1>2. /\ i \in DOMAIN items[oos] /\ items[oos][i].attrs = t
        /\ OwnerOf(i) = None /\ Incubating(i)
    BY DEF Hatched, With
  <1>3. i \in NftId
    BY <1>2 DEF TypeOK, RmrkTypeOK, ShellsHaveIds, NftId
  <1>4. Incubating(i)'
    <2>1. hatchTimes'[i] \in Nat
      BY <1>2, <1>3, HatchTimesStep
    <2> QED
      BY <2>1 DEF Incubating
  <1>5. items[oos][i].owner = None
    BY <1>2, OwnerOfShell
  <1>6. /\ i \in DOMAIN items'[oos] /\ items'[oos][i].attrs = t
        /\ items'[oos][i].owner = None
    BY <1>2, <1>5 DEF OnlyDying
  <1>7. OwnerOf(i)' = None
    BY <1>0, <1>6 DEF OwnerOf
  <1> QED
    BY <1>0, <1>4, <1>6, <1>7 DEF Hatched, With

\* A step that adds no awakened shell keeps the count.
LEMMA CountKept ==
    ASSUME TypeOK, TypeOK', AwakenedFromHatched, HatchedStay,
           UNCHANGED shellCollectionId,
           shellCollectionId \in CollectionId =>
               \A t \in Attributes :
                   With(shellCollectionId, t)' = With(shellCollectionId, t)
    PROVE  AwakenedFromHatched'
  <1> DEFINE aw == shellCollectionId
  <1>0. originOfShellCollectionId' = originOfShellCollectionId
    BY DEF TypeOK
  <1> SUFFICES ASSUME aw \notin {None, originOfShellCollectionId}, NEW t \in Attributes
               PROVE  Cardinality(With(aw, t)') <= Cardinality(Hatched(t)')
    BY <1>0 DEF AwakenedFromHatched
  <1>1. aw \in CollectionId
    BY DEF TypeOK
  <1>2. Cardinality(With(aw, t)) <= Cardinality(Hatched(t))
    BY DEF AwakenedFromHatched
  <1>3. IsFiniteSet(Hatched(t)') /\ Cardinality(Hatched(t)') \in Nat
    <2>1. HatchedAreFinite'
      BY HatchedFiniteAlways, PTL
    <2> QED
      BY <2>1 DEF HatchedAreFinite
  <1>4. Cardinality(Hatched(t)) <= Cardinality(Hatched(t)')
    BY <1>3, FS_Subset DEF HatchedStay
  <1> QED
    BY <1>1, <1>2, <1>3, <1>4, WithFinite, HatchedFinite

\* A call that touches no item.
LEMMA NoItemKeeps ==
    ASSUME TypeOK, AwakenedInv, [Next]_vars, UNCHANGED <<items, shellCollectionId>>
    PROVE  AwakenedInv'
  <1>0. TypeOK' /\ originOfShellCollectionId' = originOfShellCollectionId
    BY NextType DEF TypeOK
  <1>1. OnlyDying(originOfShellCollectionId)
    BY DEF OnlyDying
  <1>2. HatchedStay
    BY <1>1, HatchedKept DEF AwakenedInv
  <1>3. AwakenedFromHatched'
    BY <1>0, <1>2, CountKept DEF AwakenedInv, With
  <1> QED
    BY <1>0, <1>3 DEF AwakenedInv, OtherCollectionsEmpty, ShellsHaveIds

\* The shells of a sale go to the end of their collection.
LEMMA SaleKeeps ==
    ASSUME TypeOK, AwakenedInv, [Next]_vars, UNCHANGED shellCollectionId,
           NEW shells \in Sales, SaleMints(shells)
    PROVE  AwakenedInv'
  <1> DEFINE oos == originOfShellCollectionId
  <1>0. TypeOK' /\ oos' = oos /\ oos \in CollectionId
    BY NextType DEF TypeOK
  <1>1. shells \in Seq(Item) /\ items[oos] \in Seq(Item)
    BY <1>0, SalesType DEF TypeOK, RmrkTypeOK
  <1>2. /\ items'[oos] = items[oos] \o shells
        /\ \A c \in CollectionId : c # oos => items'[c] = items[c]
    BY <1>0 DEF SaleMints, TypeOK, RmrkTypeOK
  <1>3. \A j \in DOMAIN items[oos] :
            j \in DOMAIN items'[oos] /\ items'[oos][j] = items[oos][j]
    BY <1>1, <1>2
  <1>4. HatchedStay
    BY <1>3, HatchedKept DEF AwakenedInv, OnlyDying
  <1>5. AwakenedFromHatched'
    <2>1. CASE shellCollectionId \in {None, oos}
      BY <1>0, <2>1 DEF AwakenedFromHatched
    <2>2. CASE shellCollectionId \notin {None, oos}
      BY <1>0, <1>2, <1>4, <2>2, CountKept DEF AwakenedInv, With
    <2> QED
      BY <2>1, <2>2
  <1>6. Len(items'[oos]) <= U32Max
    BY <1>1, <1>2 DEF SaleMints, CanMint
  <1> QED
    BY <1>0, <1>2, <1>5, <1>6 DEF AwakenedInv, OtherCollectionsEmpty, ShellsHaveIds

\* An item that is burned keeps its place and its attributes.
LEMMA BurnKeeps ==
    ASSUME TypeOK, AwakenedInv, [Next]_vars, UNCHANGED shellCollectionId,
           NEW a \in Burners, NEW c \in CollectionId, NEW i \in DOMAIN items[c],
           BurnNft(a, c, i)
    PROVE  AwakenedInv'
  <1> DEFINE oos == originOfShellCollectionId
  <1>0. TypeOK' /\ oos' = oos /\ oos \in CollectionId
    BY NextType DEF TypeOK
  <1>1. \A d \in CollectionId : items[d] \in Seq(Item)
    BY DEF TypeOK, RmrkTypeOK
  <1>2. items' = [items EXCEPT ![c] = [items[c] EXCEPT ![i] =
                     [items[c][i] EXCEPT !.owner = None]]]
    BY DEF BurnNft
  <1>3. /\ items'[c] = [items[c] EXCEPT ![i] = [items[c][i] EXCEPT !.owner = None]]
        /\ \A d \in CollectionId : d # c => items'[d] = items[d]
    BY <1>2 DEF TypeOK, RmrkTypeOK
  <1>4. items[c][i] \in Item
    BY <1>1
  <1>5. \A d \in CollectionId :
            /\ DOMAIN items'[d] = DOMAIN items[d]
            /\ \A j \in DOMAIN items[d] :
                  /\ items'[d][j].attrs = items[d][j].attrs
                  /\ items[d][j].owner = None => items'[d][j].owner = None
    BY <1>3, <1>4 DEF Item
  <1>6. HatchedStay
    BY <1>0, <1>5, HatchedKept DEF AwakenedInv, OnlyDying
  <1>7. AwakenedFromHatched'
    <2>1. \A d \in CollectionId, t \in Attributes : With(d, t)' = With(d, t)
      BY <1>5 DEF With
    <2>2. shellCollectionId \in CollectionId =>
              \A t \in Attributes :
                  With(shellCollectionId, t)' = With(shellCollectionId, t)
      BY <2>1 DEF With
    <2> QED
      BY <1>0, <1>6, <2>2, CountKept DEF AwakenedInv
  <1>8. OtherCollectionsEmpty'
    BY <1>0, <1>3 DEF AwakenedInv, OtherCollectionsEmpty
  <1>9. Len(items'[oos]) = Len(items[oos])
    <2>1. items[oos] \in Seq(Item) /\ items'[oos] \in Seq(Item)
      BY <1>0, <1>1 DEF TypeOK, RmrkTypeOK
    <2>2. DOMAIN items'[oos] = DOMAIN items[oos]
      BY <1>0, <1>5
    <2> QED
      BY <2>1, <2>2, LenProperties
  <1> QED
    BY <1>0, <1>7, <1>8, <1>9 DEF AwakenedInv, ShellsHaveIds

\* The collection that is named for the awakened shells is an empty one, if it
\* is not the one of the sale.
LEMMA NamingKeeps ==
    ASSUME TypeOK, AwakenedInv, [Next]_vars,
           NEW c \in AwakenedCollections, SetShellCollectionId(c)
    PROVE  AwakenedInv'
  <1> DEFINE oos == originOfShellCollectionId
  <1>0. TypeOK' /\ oos' = oos /\ items' = items /\ shellCollectionId' = c
    BY NextType DEF TypeOK, SetShellCollectionId
  <1>1. c \in CollectionId /\ None \notin CollectionId
    BY DEF CollectionId
  <1>2. OtherCollectionsEmpty'
    BY <1>0, <1>1 DEF AwakenedInv, OtherCollectionsEmpty, SetShellCollectionId
  <1>3. ASSUME c # oos, NEW t \in Attributes
        PROVE  Cardinality(With(c, t)') <= Cardinality(Hatched(t)')
    <2>1. items[c] = << >>
      BY <1>1, <1>3 DEF AwakenedInv, OtherCollectionsEmpty, SetShellCollectionId
    <2>2. With(c, t)' = {}
      BY <1>0, <2>1 DEF With
    <2>3. HatchedAreFinite'
      BY <1>0, HatchedFiniteAlways, PTL
    <2> QED
      BY <2>2, <2>3, FS_EmptySet DEF HatchedAreFinite
  <1> QED
    BY <1>0, <1>2, <1>3 DEF AwakenedInv, ShellsHaveIds, AwakenedFromHatched

\* The shell that hatches is burned, so that it joins the hatched ones as the
\* awakened one joins its collection.
LEMMA HatchKeeps ==
    ASSUME TypeOK, AwakenedInv, [Next]_vars, NEW i \in NftId, HatchOriginOfShell(i)
    PROVE  AwakenedInv'
  <1> DEFINE oos == originOfShellCollectionId
             aw == shellCollectionId
             shell == items[oos][i]
             dead == [shell EXCEPT !.owner = None]
             burned == [items[oos] EXCEPT ![i] = dead]
  <1>0. TypeOK' /\ oos' = oos /\ aw' = aw /\ oos \in CollectionId /\ aw \in CollectionId
    BY NextType DEF TypeOK, HatchOriginOfShell
  <1>1. i \in DOMAIN items[oos] /\ shell.owner # None /\ shell.attrs \in Attributes
    <2>1. i \in DOMAIN items[oos] /\ shell.owner # None /\ shell.attrs # None
      BY DEF HatchOriginOfShell, OwnerOf
    <2>2. items[oos] \in Seq(Item)
      BY <1>0 DEF TypeOK, RmrkTypeOK
    <2>3. shell \in Item
      BY <2>1, <2>2
    <2> QED
      BY <2>1, <2>3 DEF Item
  <1>2. items[oos] \in Seq(Item) /\ items[aw] \in Seq(Item) /\ shell \in Item
    BY <1>0, <1>1 DEF TypeOK, RmrkTypeOK
  <1>3. items' = [[items EXCEPT ![oos] = burned] EXCEPT ![aw] = Append(@, shell)]
    BY DEF HatchOriginOfShell, Awaken
  <1>4. /\ DOMAIN items = CollectionId
        /\ \A c \in CollectionId : c \notin {oos, aw} => items'[c] = items[c]
    BY <1>3 DEF TypeOK, RmrkTypeOK
  <1>5. OtherCollectionsEmpty'
    BY <1>0, <1>4 DEF AwakenedInv, OtherCollectionsEmpty
  <1>6. dead \in Item /\ dead.attrs = shell.attrs /\ dead.owner = None
    BY <1>2 DEF Item
  <1>7. /\ burned \in Seq(Item) /\ Len(burned) = Len(items[oos])
        /\ DOMAIN burned = DOMAIN items[oos]
    BY <1>1, <1>2, <1>6
  <1>8. CASE aw = oos
    <2>1. items'[oos] = Append(burned, shell)
      BY <1>0, <1>3, <1>4, <1>8
    <2>2. Len(items'[oos]) <= U32Max
      BY <1>2, <1>7, <1>8, <2>1 DEF HatchOriginOfShell, CanMint
    <2> QED
      BY <1>0, <1>5, <1>8, <2>2 DEF AwakenedInv, ShellsHaveIds, AwakenedFromHatched
  <1>9. CASE aw # oos
    <2>1. items'[oos] = burned /\ items'[aw] = Append(items[aw], shell)
      BY <1>0, <1>3, <1>4, <1>9
    <2>2. ShellsHaveIds'
      BY <1>0, <1>7, <2>1 DEF AwakenedInv, ShellsHaveIds
    <2>3. OnlyDying(oos)
      BY <1>1, <1>6, <1>7, <2>1 DEF OnlyDying
    <2>4. HatchedStay
      BY <2>3, HatchedKept DEF AwakenedInv
    <2>5. ASSUME NEW t \in Attributes, t = shell.attrs
          PROVE  i \notin Hatched(t) /\ i \in Hatched(t)'
      <3>1. OwnerOf(i) = shell.owner
        BY <1>1, OwnerOfShell
      <3>2. Incubating(i)'
        BY DEF HatchOriginOfShell, Incubating
      <3>3. /\ i \in DOMAIN items'[oos] /\ items'[oos][i].attrs = shell.attrs
            /\ items'[oos][i].owner = None
        BY <1>1, <1>6, <1>7, <2>1
      <3>4. OwnerOf(i)' = None
        BY <1>0, <3>3 DEF OwnerOf
      <3> QED
        BY <1>0, <1>1, <2>5, <3>1, <3>2, <3>3, <3>4 DEF Hatched, With
    <2>6. ASSUME NEW t \in Attributes
          PROVE  Cardinality(With(aw, t)') <= Cardinality(Hatched(t)')
      <3> DEFINE n == Len(items[aw]) + 1
      <3>1. Cardinality(With(aw, t)) <= Cardinality(Hatched(t))
        BY <1>0, <1>9 DEF AwakenedInv, AwakenedFromHatched, CollectionId
      <3>2. /\ IsFiniteSet(With(aw, t)) /\ Cardinality(With(aw, t)) \in Nat
            /\ IsFiniteSet(Hatched(t)) /\ Cardinality(Hatched(t)) \in Nat
        BY <1>0, WithFinite, HatchedFinite
      <3>3. IsFiniteSet(Hatched(t)') /\ Cardinality(Hatched(t)') \in Nat
        <4>1. HatchedAreFinite'
          BY <1>0, HatchedFiniteAlways, PTL
        <4> QED
          BY <4>1 DEF HatchedAreFinite
      <3>4. With(aw, t)' = With(aw, t) \cup (IF t = shell.attrs THEN {n} ELSE {})
        <4>1. /\ DOMAIN items'[aw] = DOMAIN items[aw] \cup {n}
              /\ n \notin DOMAIN items[aw]
              /\ items'[aw][n] = shell
              /\ \A j \in DOMAIN items[aw] : items'[aw][j] = items[aw][j]
          BY <1>2, <2>1
        <4>2. With(aw, t)' = {j \in DOMAIN items'[aw] : items'[aw][j].attrs = t}
          BY <1>0 DEF With
        <4> HIDE DEF n, aw, shell
        <4> QED
          BY <4>1, <4>2 DEF With
      <3>5. CASE t = shell.attrs
        <4>1. n \notin With(aw, t)
          BY <1>2 DEF With
        <4>2. Cardinality(With(aw, t)') = Cardinality(With(aw, t)) + 1
          BY <3>2, <3>4, <3>5, <4>1, FS_AddElement
        <4>3. Cardinality(Hatched(t) \cup {i}) = Cardinality(Hatched(t)) + 1
          BY <2>5, <3>2, <3>5, FS_AddElement
        <4>4. Hatched(t) \cup {i} \subseteq Hatched(t)'
          BY <2>4, <2>5, <3>5 DEF HatchedStay
        <4>5. Cardinality(Hatched(t) \cup {i}) <= Cardinality(Hatched(t)')
          BY <3>3, <4>4, FS_Subset
        <4> QED
          BY <3>1, <3>2, <3>3, <4>2, <4>3, <4>5
      <3>6. CASE t # shell.attrs
        <4>1. Cardinality(Hatched(t)) <= Cardinality(Hatched(t)')
          BY <2>4, <3>3, FS_Subset DEF HatchedStay
        <4> QED
          BY <3>1, <3>2, <3>3, <3>4, <3>6, <4>1
      <3> QED
        BY <3>5, <3>6
    <2> QED
      BY <1>0, <1>5, <2>2, <2>6 DEF AwakenedInv, AwakenedFromHatched
  <1> QED
    BY <1>8, <1>9

LEMMA AwakenedNext == TypeOK /\ AwakenedInv /\ [Next]_vars => AwakenedInv'
  <1> SUFFICES ASSUME TypeOK, AwakenedInv, [Next]_vars PROVE AwakenedInv'
    OBVIOUS
  <1>1. CASE UNCHANGED <<items, shellCollectionId>>
    BY <1>1, NoItemKeeps
  <1>2. CASE OtherCall
    <2>1. UNCHANGED shellCollectionId
      BY <1>2 DEF OtherCall
    <2>2. CASE \E shells \in Sales : SaleMints(shells)
      BY <2>1, <2>2, SaleKeeps
    <2>3. CASE \E a \in Burners, c \in CollectionId :
                   \E i \in DOMAIN items[c] : BurnNft(a, c, i)
      BY <2>1, <2>3, BurnKeeps
    <2>4. CASE \E a \in OverlordCandidates : NewOverlord(a)
      BY <2>1, <2>4, NoItemKeeps DEF NewOverlord
    <2> QED
      BY <1>2, <2>2, <2>3, <2>4 DEF OtherCall
  <1>3. CASE \E i \in NftId : HatchOriginOfShell(i)
    BY <1>3, HatchKeeps
  <1>4. CASE \E c \in AwakenedCollections : SetShellCollectionId(c)
    BY <1>4, NamingKeeps
  <1>5. \/ UNCHANGED <<items, shellCollectionId>>
        \/ OtherCall
        \/ \E i \in NftId : HatchOriginOfShell(i)
        \/ \E c \in AwakenedCollections : SetShellCollectionId(c)
    BY DEF Next, IncubationCall, ClockStep, vars, StartIncubation, FeedOriginOfShell,
           UpdateIncubationTime, SetCanStartIncubationStatus
  <1> QED
    BY <1>1, <1>2, <1>3, <1>4, <1>5

\* Every awakened shell comes from a shell of its own that was incubated and is
\* burned, and has its attributes.
THEOREM AwakenedCorrect == Spec => []AwakenedOnce
  <1>1. Init => AwakenedInv
    <2> SUFFICES ASSUME Init PROVE AwakenedInv
      OBVIOUS
    <2>1. originOfShellCollectionId \in CollectionId /\ shellCollectionId = None
      BY DEF Init
    <2>2. \A c \in CollectionId : items[c] = << >>
      BY DEF Init
    <2> QED
      BY <2>1, <2>2
      DEF AwakenedInv, OtherCollectionsEmpty, ShellsHaveIds, AwakenedFromHatched
  <1> QED
    BY <1>1, InitType, NextType, AwakenedNext, AwakenedOnceFromInv, PTL DEF Spec
-----------------------------------------------------------------------------
(* Nobody loses a shell by hatching.                                       *)

LEMMA ShellIdsFinite == IsFiniteSet(CollectionId \X NftId)
  <1>1. 0 \in Int /\ MaxCollections - 1 \in Int /\ U32Max \in Nat
    BY AssumptionsHold DEF Assumptions
  <1>2. IsFiniteSet(CollectionId)
    BY <1>1, FS_Interval DEF CollectionId
  <1>3. IsFiniteSet(NftId)
    BY <1>1, IntervalFinite DEF NftId
  <1> QED
    BY <1>2, <1>3, FS_Product

LEMMA ShellsFinite ==
    ASSUME NEW a, NEW t
    PROVE  /\ IsFiniteSet(Shells(a, t)) /\ Cardinality(Shells(a, t)) \in Nat
           /\ IsFiniteSet(Shells(a, t)') /\ Cardinality(Shells(a, t)') \in Nat
  <1>1. /\ Shells(a, t) \subseteq CollectionId \X NftId
        /\ Shells(a, t)' \subseteq CollectionId \X NftId
    BY DEF Shells
  <1> QED
    BY <1>1, ShellIdsFinite, FS_Subset, FS_CardinalityType

\* A step that leaves an account the shells it has, and may add some.
LEMMA KeptShells ==
    ASSUME NEW a, NEW t, Shells(a, t) \subseteq Shells(a, t)'
    PROVE  Cardinality(Shells(a, t)') >= Cardinality(Shells(a, t))
  <1>1. Cardinality(Shells(a, t)) <= Cardinality(Shells(a, t)')
    BY ShellsFinite, FS_Subset
  <1> QED
    BY <1>1, ShellsFinite

\* Each item that is there stays, with its owner and its attributes.
LEMMA KeptItems ==
    ASSUME NEW a, NEW t,
           \A s \in Shells(a, t) : /\ s[2] \in DOMAIN items'[s[1]]
                                   /\ items'[s[1]][s[2]] = items[s[1]][s[2]]
    PROVE  Cardinality(Shells(a, t)') >= Cardinality(Shells(a, t))
  <1>1. Shells(a, t) \subseteq Shells(a, t)'
    BY DEF Shells
  <1> QED
    BY <1>1, KeptShells

\* What hatching shell i does to the items: all others stay, i is burned, and an
\* item with its owner and its attributes is added.
LEMMA HatchItems ==
    ASSUME TypeOK, NEW i \in NftId, HatchOriginOfShell(i)
    PROVE  LET shell == items[originOfShellCollectionId][i]
               old == <<originOfShellCollectionId, i>>
               new == <<shellCollectionId, Len(items[shellCollectionId]) + 1>>
           IN  /\ shell \in Item
               /\ old \in CollectionId \X NftId /\ new \in CollectionId \X NftId
               /\ i \in DOMAIN items[originOfShellCollectionId]
               /\ new[2] \notin DOMAIN items[new[1]]
               /\ new[2] \in DOMAIN items'[new[1]] /\ items'[new[1]][new[2]] = shell
               /\ \A s \in CollectionId \X NftId :
                     s # old /\ s[2] \in DOMAIN items[s[1]] =>
                        /\ s[2] \in DOMAIN items'[s[1]]
                        /\ items'[s[1]][s[2]] = items[s[1]][s[2]]
  <1> DEFINE oos == originOfShellCollectionId
             aw == shellCollectionId
             shell == items[oos][i]
             burned == [items[oos] EXCEPT ![i] = [shell EXCEPT !.owner = None]]
             n == Len(items[aw]) + 1
  <1>0. /\ oos \in CollectionId /\ aw \in CollectionId
        /\ items \in [CollectionId -> Seq(Item)]
    BY DEF TypeOK, RmrkTypeOK, HatchOriginOfShell
  <1>1. i \in DOMAIN items[oos]
    BY <1>0 DEF HatchOriginOfShell, OwnerOf
  <1>2. items[oos] \in Seq(Item) /\ items[aw] \in Seq(Item) /\ shell \in Item
    BY <1>0, <1>1
  <1>3. items' = [[items EXCEPT ![oos] = burned] EXCEPT ![aw] = Append(@, shell)]
    BY DEF HatchOriginOfShell, Awaken
  <1>4. [shell EXCEPT !.owner = None] \in Item
    BY <1>2 DEF Item
  <1>5. /\ burned \in Seq(Item) /\ Len(burned) = Len(items[oos])
        /\ DOMAIN burned = DOMAIN items[oos]
        /\ \A j \in DOMAIN items[oos] : j # i => burned[j] = items[oos][j]
    BY <1>1, <1>2, <1>4
  <1>6. n \in NftId /\ n \notin DOMAIN items[aw]
    BY <1>2 DEF HatchOriginOfShell, CanMint, NftId
  <1>7. /\ n \in DOMAIN items'[aw] /\ items'[aw][n] = shell
        /\ \A c \in CollectionId : \A j \in DOMAIN items[c] :
              <<c, j>> # <<oos, i>> => j \in DOMAIN items'[c] /\ items'[c][j] = items[c][j]
    <2>1. CASE aw = oos
      <3>1. /\ items'[oos] = Append(burned, shell)
            /\ \A c \in CollectionId : c # oos => items'[c] = items[c]
        BY <1>0, <1>3, <2>1
      <3>2. n = Len(burned) + 1
        BY <1>5, <2>1
      <3>3. /\ n \in DOMAIN Append(burned, shell) /\ Append(burned, shell)[n] = shell
            /\ \A j \in DOMAIN burned : /\ j \in DOMAIN Append(burned, shell)
                                         /\ Append(burned, shell)[j] = burned[j]
        <4> HIDE DEF burned, shell, n
        <4> QED
          BY <1>2, <1>5, <3>2
      <3> HIDE DEF burned, shell, n
      <3> QED
        BY <1>5, <2>1, <3>1, <3>3
    <2>2. CASE aw # oos
      <3>1. /\ items'[oos] = burned /\ items'[aw] = Append(items[aw], shell)
            /\ \A c \in CollectionId : c \notin {oos, aw} => items'[c] = items[c]
        BY <1>0, <1>3, <2>2
      <3>2. /\ n \in DOMAIN Append(items[aw], shell) /\ Append(items[aw], shell)[n] = shell
            /\ \A j \in DOMAIN items[aw] : /\ j \in DOMAIN Append(items[aw], shell)
                                            /\ Append(items[aw], shell)[j] = items[aw][j]
        BY <1>2
      <3> HIDE DEF burned, shell, n
      <3> QED
        BY <1>5, <2>2, <3>1, <3>2
    <2> QED
      BY <2>1, <2>2
  <1> HIDE DEF shell, n
  <1>8. ASSUME NEW s \in CollectionId \X NftId, s # <<oos, i>>, s[2] \in DOMAIN items[s[1]]
        PROVE  /\ s[2] \in DOMAIN items'[s[1]]
               /\ items'[s[1]][s[2]] = items[s[1]][s[2]]
    BY <1>7, <1>8
  <1> QED
    BY <1>0, <1>1, <1>2, <1>6, <1>7, <1>8 DEF n, shell

\* The owner of the shell that hatches has an equal one for it.
LEMMA HatchKeepsShells ==
    ASSUME TypeOK, NEW i \in NftId, HatchOriginOfShell(i), NEW a, NEW t
    PROVE  Cardinality(Shells(a, t)') >= Cardinality(Shells(a, t))
  <1> DEFINE shell == items[originOfShellCollectionId][i]
             old == <<originOfShellCollectionId, i>>
             new == <<shellCollectionId, Len(items[shellCollectionId]) + 1>>
             S == Shells(a, t)
             T == Shells(a, t)'
  <1>1. /\ shell \in Item
        /\ old \in CollectionId \X NftId /\ new \in CollectionId \X NftId
        /\ i \in DOMAIN items[originOfShellCollectionId]
        /\ new[2] \notin DOMAIN items[new[1]]
        /\ new[2] \in DOMAIN items'[new[1]] /\ items'[new[1]][new[2]] = shell
        /\ \A s \in CollectionId \X NftId :
              s # old /\ s[2] \in DOMAIN items[s[1]] =>
                 /\ s[2] \in DOMAIN items'[s[1]]
                 /\ items'[s[1]][s[2]] = items[s[1]][s[2]]
    BY HatchItems
  <1>2. /\ S = {s \in CollectionId \X NftId :
                   s[2] \in DOMAIN items[s[1]]
                   /\ items[s[1]][s[2]] = [owner |-> a, attrs |-> t]}
        /\ T = {s \in CollectionId \X NftId :
                   s[2] \in DOMAIN items'[s[1]]
                   /\ items'[s[1]][s[2]] = [owner |-> a, attrs |-> t]}
    BY DEF Shells
  <1>3. old[1] = originOfShellCollectionId /\ old[2] = i
    OBVIOUS
  <1>4. S \ {old} \subseteq T
    <2> HIDE DEF old, new, S, T, shell
    <2> QED
      BY <1>1, <1>2
  <1>5. new \notin S
    <2> HIDE DEF old, new, S, T, shell
    <2> QED
      BY <1>1, <1>2
  <1>6. old \in S => new \in T
    <2>1. items[old[1]][old[2]] = shell
      OBVIOUS
    <2> HIDE DEF old, new, S, T, shell
    <2> QED
      BY <1>1, <1>2, <2>1
  <1>7. /\ IsFiniteSet(S) /\ Cardinality(S) \in Nat
        /\ IsFiniteSet(T) /\ Cardinality(T) \in Nat
    BY ShellsFinite
  <1>8. CASE old \notin S
    <2>1. S \subseteq T
      <3> HIDE DEF S, T, old
      <3> QED
        BY <1>4, <1>8
    <2> QED
      BY <2>1, KeptShells
  <1>9. CASE old \in S
    <2> DEFINE U == (S \ {old}) \cup {new}
    <2> HIDE DEF S, T, old, new
    <2>1. IsFiniteSet(S \ {old}) /\ Cardinality(S \ {old}) = Cardinality(S) - 1
      BY <1>7, <1>9, FS_RemoveElement
    <2>2. Cardinality(U) = Cardinality(S \ {old}) + 1
      BY <1>5, <2>1, FS_AddElement
    <2>3. U \subseteq T
      BY <1>4, <1>6, <1>9
    <2>4. Cardinality(U) <= Cardinality(T)
      BY <1>7, <2>3, FS_Subset
    <2>5. Cardinality(U) = Cardinality(S)
      BY <1>7, <2>1, <2>2
    <2>6. Cardinality(T) >= Cardinality(S)
      <3> HIDE DEF U
      <3> QED
        BY <1>7, <2>4, <2>5
    <2> QED
      BY <2>6 DEF S, T
  <1> QED
    BY <1>8, <1>9

\* Nobody loses a shell by hatching: who burns none has for each shell it had
\* one with the same attributes.
THEOREM NoShellLostCorrect == Spec => NoShellLost
  <1>1. TypeOK /\ [Next]_vars =>
            [\A a \in Account \ Burners, attrs \in Attributes :
                Cardinality(Shells(a, attrs)') >= Cardinality(Shells(a, attrs))]_vars
    <2> SUFFICES ASSUME TypeOK, [Next]_vars, NEW a \in Account \ Burners, NEW t \in Attributes
                 PROVE  Cardinality(Shells(a, t)') >= Cardinality(Shells(a, t))
      OBVIOUS
    <2>0. /\ originOfShellCollectionId \in CollectionId
          /\ items \in [CollectionId -> Seq(Item)]
      BY DEF TypeOK, RmrkTypeOK
    <2>1. CASE UNCHANGED items
      BY <2>1, KeptItems DEF Shells
    <2>2. ASSUME NEW shells \in Sales, SaleMints(shells)
          PROVE  Cardinality(Shells(a, t)') >= Cardinality(Shells(a, t))
      <3> DEFINE oos == originOfShellCollectionId
      <3>1. shells \in Seq(Item) /\ items[oos] \in Seq(Item)
        BY <2>0, SalesType
      <3>2. /\ items'[oos] = items[oos] \o shells
            /\ \A c \in CollectionId : c # oos => items'[c] = items[c]
        BY <2>0, <2>2 DEF SaleMints
      <3>3. \A j \in DOMAIN items[oos] :
                j \in DOMAIN items'[oos] /\ items'[oos][j] = items[oos][j]
        BY <3>1, <3>2
      <3>4. \A c \in CollectionId : \A j \in DOMAIN items[c] :
                j \in DOMAIN items'[c] /\ items'[c][j] = items[c][j]
        BY <3>2, <3>3
      <3>5. \A s \in Shells(a, t) : /\ s[2] \in DOMAIN items'[s[1]]
                                    /\ items'[s[1]][s[2]] = items[s[1]][s[2]]
        BY <3>4 DEF Shells
      <3> QED
        BY <3>5, KeptItems
    <2>3. ASSUME NEW b \in Burners, NEW c \in CollectionId, NEW i \in DOMAIN items[c],
                 BurnNft(b, c, i)
          PROVE  Cardinality(Shells(a, t)') >= Cardinality(Shells(a, t))
      <3>1. items[c][i].owner = b /\ b # a
        BY <2>3 DEF BurnNft, OwnedInCollection
      <3>2. items' = [items EXCEPT ![c] = [items[c] EXCEPT ![i] =
                         [items[c][i] EXCEPT !.owner = None]]]
        BY <2>3 DEF BurnNft
      <3>3. \A d \in CollectionId : \A j \in DOMAIN items[d] :
                <<d, j>> # <<c, i>> => j \in DOMAIN items'[d] /\ items'[d][j] = items[d][j]
        BY <2>0, <3>2
      <3>4. <<c, i>> \notin Shells(a, t)
        BY <3>1 DEF Shells
      <3> QED
        BY <3>3, <3>4, KeptItems DEF Shells
    <2>4. ASSUME NEW i \in NftId, HatchOriginOfShell(i)
          PROVE  Cardinality(Shells(a, t)') >= Cardinality(Shells(a, t))
      BY <2>4, HatchKeepsShells
    <2>5. CASE OtherCall
      BY <2>1, <2>2, <2>3, <2>5 DEF OtherCall, NewOverlord
    <2>6. \/ UNCHANGED items
          \/ OtherCall
          \/ \E i \in NftId : HatchOriginOfShell(i)
      BY DEF Next, IncubationCall, ClockStep, vars, StartIncubation, FeedOriginOfShell,
             UpdateIncubationTime, SetCanStartIncubationStatus, SetShellCollectionId
    <2> QED
      BY <2>1, <2>4, <2>5, <2>6
  <1> QED
    BY <1>1, InitType, NextType, PTL DEF Spec, NoShellLost
=============================================================================
