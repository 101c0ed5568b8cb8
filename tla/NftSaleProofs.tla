---------------------------- MODULE NftSaleProofs ----------------------------
(***************************************************************************)
(* Theorems about NftSale, for every value of its constants.               *)
(***************************************************************************)
EXTENDS NftSale, FiniteSetTheorems, TLAPS

USE DEF balancesVars, rmrkVars, setupVars, stockVars, preorderVars, saleVars

\* The assumptions of the modules under one name.
Assumptions ==
    /\ U32Max \in Nat \ {0}
    /\ None \notin Account /\ None \notin PreorderInfo /\ None \notin NftSaleInfo
    /\ None \notin Attributes /\ None \notin Nat
    /\ ExistentialDeposit \in Nat
    /\ InitialFree \in [Account -> Nat]
    /\ TransferAmounts \subseteq Nat
    /\ MaxCollections \in Nat \ {0}
    /\ CollectionCreators \subseteq Account
    /\ Burners \subseteq Account
    /\ MinBalanceToClaimSpirit \in Nat
    /\ PrimeOriginOfShellPrice \in Nat \ {0}
    /\ MagicOriginOfShellPrice \in Nat \ {0}
    /\ LegendaryOriginOfShellPrice \in Nat \ {0}
    /\ IterLimit \in Nat
    /\ InitialStock \in [RarityType -> [NftSaleType -> U32]]
    /\ \A rarity \in RarityType : StockTotal(InitialStock[rarity]) <= U32Max
    /\ Genesis \in GenesisConfig
    /\ OverlordCandidates \subseteq Account
    /\ AdminStatus \subseteq StatusType
    /\ UpdateCounts \subseteq [forSale : U32, giveaway : U32]
    /\ MaxBatch \in Nat

LEMMA AssumptionsHold == Assumptions
  BY TraitsAssumption, BalancesAssumption, RmrkAssumption, NftSaleAssumption
  DEF Assumptions
-----------------------------------------------------------------------------
(* Type correctness.                                                       *)

LEMMA WrappedType ==
    ASSUME NEW m \in Int, 0 - U32Max - 1 <= m, m <= U32Max + U32Max + 1
    PROVE  Wrapped(m) \in U32
  BY AssumptionsHold DEF Assumptions, Wrapped, U32

LEMMA InitType == Init => TypeOK
  <1> SUFFICES ASSUME Init PROVE TypeOK
    OBVIOUS
  <1> USE AssumptionsHold DEF Init
  <1>1. BalancesTypeOK
    BY DEF Assumptions, BalancesInit, BalancesTypeOK
  <1>2. RmrkTypeOK
    BY DEF Assumptions, RmrkInit, RmrkTypeOK, CollectionId
  <1>3. /\ status \subseteq StatusType
        /\ overlord \in Account \cup {None}
        /\ spiritCollectionId \in CollectionId \cup {None}
        /\ originOfShellCollectionId \in CollectionId \cup {None}
        /\ inventorySet \in BOOLEAN
    BY DEF Assumptions, GenesisConfig
  <1>4. /\ careerTypeCount \in [CareerType -> U32]
        /\ preorderIndex \in U32
    BY DEF Assumptions, U32
  <1>5. /\ inventory \in [StockKey -> NftSaleInfo \cup {None}]
        /\ preorders \in [PreorderId -> PreorderInfo \cup {None}]
    OBVIOUS
  <1> QED
    BY <1>1, <1>2, <1>3, <1>4, <1>5 DEF TypeOK

LEMMA AppendType ==
    ASSUME RmrkTypeOK, NEW c \in CollectionId, NEW item \in Item
    PROVE  [items EXCEPT ![c] = Append(@, item)] \in [CollectionId -> Seq(Item)]
  <1>1. Append(items[c], item) \in Seq(Item)
    BY DEF RmrkTypeOK
  <1> QED
    BY <1>1 DEF RmrkTypeOK

LEMMA SpiritType ==
    ASSUME TypeOK, NEW a \in Account, DoMintSpirit(a)
    PROVE  TypeOK'
  <1>1. [owner |-> a, attrs |-> None] \in Item
    BY DEF Item
  <1>2. spiritCollectionId \in CollectionId
    BY DEF TypeOK, DoMintSpirit
  <1>3. RmrkTypeOK'
    BY <1>1, <1>2, AppendType DEF TypeOK, RmrkTypeOK, DoMintSpirit
  <1> QED
    BY <1>3 DEF TypeOK, BalancesTypeOK, DoMintSpirit

LEMMA SoldType ==
    ASSUME NEW row \in NftSaleInfo, NEW t \in NftSaleType, NEW n \in 0 .. U32Max
    PROVE  Sold(row, t, n) \in NftSaleInfo
  <1>1. Wrapped(row.raceCount + n) \in U32
    BY AssumptionsHold, WrappedType DEF Assumptions, NftSaleInfo, U32
  <1>2. Wrapped(row.left[t] - n) \in U32
    BY AssumptionsHold, WrappedType DEF Assumptions, NftSaleInfo, U32
  <1> QED
    BY <1>1, <1>2 DEF Sold, NftSaleInfo

LEMMA TransferType ==
    ASSUME BalancesTypeOK, NEW from \in Account, NEW to \in Account, NEW v \in Nat,
           CanTransfer(from, to, v)
    PROVE  FreeAfterTransfer(from, to, v) \in [Account -> Nat]
  BY DEF BalancesTypeOK, CanTransfer, FreeAfterTransfer

LEMMA ShellType ==
    ASSUME TypeOK, overlord # None, NEW to \in Account, NEW rarity \in RarityType,
           NEW race \in RaceType, NEW career \in CareerType, NEW price \in Nat,
           NEW t \in NftSaleType, NEW check \in BOOLEAN,
           DoMintShell(to, rarity, race, career, price, t, check)
    PROVE  TypeOK'
  <1> USE AssumptionsHold DEF Assumptions
  <1>1. BalancesTypeOK'
    BY TransferType DEF TypeOK, BalancesTypeOK, DoMintShell, MayMintShell
  <1>2. RmrkTypeOK'
    <2>1. [owner |-> to, attrs |-> [rarity |-> rarity, race |-> race,
                                    career |-> career]] \in Item
      BY DEF Item, Attributes
    <2>2. originOfShellCollectionId \in CollectionId
      BY DEF TypeOK, DoMintShell, MayMintShell
    <2> QED
      BY <2>1, <2>2, AppendType DEF TypeOK, RmrkTypeOK, DoMintShell
  <1>3. inventory' \in [StockKey -> NftSaleInfo \cup {None}]
    BY SoldType DEF TypeOK, DoMintShell, MayMintShell, StockKey, HasRaceTypeLeft
  <1>4. careerTypeCount' \in [CareerType -> U32]
    BY WrappedType DEF TypeOK, DoMintShell, MayMintShell, U32
  <1> QED
    BY <1>1, <1>2, <1>3, <1>4 DEF TypeOK, DoMintShell

LEMMA PreorderType ==
    ASSUME TypeOK, NEW a \in Account, NEW race \in RaceType, NEW career \in CareerType,
           PreorderOriginOfShell(a, race, career)
    PROVE  TypeOK'
  <1> USE AssumptionsHold DEF PreorderOriginOfShell
  <1>1. BalancesTypeOK'
    BY DEF Assumptions, TypeOK, BalancesTypeOK, Reserve, CanReserve
  <1>2. preorderIndex \in PreorderId /\ preorderIndex' \in U32
    BY DEF Assumptions, TypeOK, TakePreorderId, PreorderId, U32
  <1>3. preorders' \in [PreorderId -> PreorderInfo \cup {None}]
    BY <1>2 DEF TypeOK, PreorderInfo
  <1> QED
    BY <1>1, <1>2, <1>3 DEF TypeOK, RmrkTypeOK

LEMMA PreorderIdFinite == IsFiniteSet(PreorderId) /\ Cardinality(PreorderId) = U32Max
  <1>1. U32Max \in Nat /\ U32Max > 0
    BY AssumptionsHold DEF Assumptions
  <1>2. 0 \in Int /\ U32Max - 1 \in Int /\ 0 <= U32Max - 1 /\ (U32Max - 1) - 0 + 1 = U32Max
    BY <1>1
  <1>3. IsFiniteSet(0 .. (U32Max - 1)) /\ Cardinality(0 .. (U32Max - 1)) = U32Max
    BY <1>1, <1>2, FS_Interval
  <1> QED
    BY <1>3 DEF PreorderId

\* What a batch is, whatever list the Overlord passes.
LEMMA BatchFacts ==
    ASSUME TypeOK, NEW ids \in IdLists
    PROVE  /\ Batch(ids) \in Seq(PreorderId)
           /\ IdsOf(Batch(ids)) \subseteq PreorderId
           /\ IsFiniteSet(IdsOf(Batch(ids)))
           /\ IsFiniteSet(PreorderId)
           /\ Cardinality(IdsOf(Batch(ids))) <= U32Max
  <1> USE AssumptionsHold DEF Assumptions
  <1>1. PICK n \in 0 .. MaxBatch : ids \in [1 .. n -> 0 .. (preorderIndex - 1)]
    BY DEF IdLists
  <1>2. ids \in Seq(PreorderId)
    BY <1>1 DEF TypeOK, PreorderId, U32
  <1>3. Batch(ids) \in Seq(PreorderId)
    BY <1>2 DEF Batch
  <1>4. IdsOf(Batch(ids)) \subseteq PreorderId
    BY <1>3 DEF IdsOf
  <1>5. IsFiniteSet(PreorderId) /\ Cardinality(PreorderId) = U32Max
    BY PreorderIdFinite
  <1> QED
    BY <1>3, <1>4, <1>5, FS_Subset

\* How many preorders of a set are an account's, and what is left of them.
LEMMA NumberFacts ==
    ASSUME NEW S \in SUBSET PreorderId, NEW a
    PROVE  /\ IsFiniteSet(S) /\ IsFiniteSet(OpenPreorders(a))
           /\ Cardinality(S) \in Nat
           /\ Cardinality(OpenPreorders(a)) \in Nat
           /\ NumberOf(S, a) \in Nat
           /\ NumberOf(S, a) <= Cardinality(S)
           /\ NumberOf(S, a) <= Cardinality(OpenPreorders(a))
           /\ Cardinality(OpenPreorders(a) \ S)
                 = Cardinality(OpenPreorders(a)) - NumberOf(S, a)
  <1>1. IsFiniteSet(PreorderId)
    BY PreorderIdFinite
  <1>2. IsFiniteSet(S) /\ IsFiniteSet(OpenPreorders(a))
    BY <1>1, FS_Subset DEF OpenPreorders
  <1>3. S \cap OpenPreorders(a) = OpenPreorders(a) \cap S
    OBVIOUS
  <1> QED
    BY <1>2, <1>3, FS_CardinalityType, FS_Intersection, FS_Difference DEF NumberOf

LEMMA ProductType == \A m, n \in Nat : m * n \in Nat
  OBVIOUS

LEMMA ReleasedFacts ==
    ASSUME BalancesTypeOK, NEW S \in SUBSET PreorderId, NEW a \in Account
    PROVE  /\ PrimeOriginOfShellPrice * NumberOf(S, a) \in Nat
           /\ Released(S, a) \in Nat
           /\ Released(S, a) <= reserved[a]
  <1>1. PrimeOriginOfShellPrice * NumberOf(S, a) \in Nat
    BY AssumptionsHold, NumberFacts, ProductType DEF Assumptions
  <1> QED
    BY <1>1 DEF Released, Unreserved, BalancesTypeOK

LEMMA SettleType ==
    ASSUME TypeOK, NEW S \in SUBSET PreorderId, Settle(S)
    PROVE  /\ reserved' \in [Account -> Nat]
           /\ preorders' \in [PreorderId -> PreorderInfo \cup {None}]
           /\ ownerHasPreorder' \subseteq Account
  <1>1. reserved' \in [Account -> Nat]
    <2>1. ASSUME NEW a \in Account PROVE reserved[a] - Released(S, a) \in Nat
      BY ReleasedFacts DEF TypeOK, BalancesTypeOK
    <2> QED
      BY <2>1 DEF Settle
  <1> QED
    BY <1>1 DEF TypeOK, Settle

LEMMA RefundType ==
    ASSUME TypeOK, NEW ids \in IdLists, RefundNotChosenPreorders(ids)
    PROVE  TypeOK'
  <1> DEFINE S == IdsOf(Batch(ids))
  <1> USE DEF RefundNotChosenPreorders
  <1>1. S \subseteq PreorderId
    BY BatchFacts
  <1>2. /\ reserved' \in [Account -> Nat]
        /\ preorders' \in [PreorderId -> PreorderInfo \cup {None}]
        /\ ownerHasPreorder' \subseteq Account
    BY <1>1, SettleType
  <1>3. free' \in [Account -> Nat]
    <2>1. ASSUME NEW a \in Account PROVE free[a] + Released(S, a) \in Nat
      BY <1>1, ReleasedFacts DEF TypeOK, BalancesTypeOK
    <2> QED
      BY <2>1
  <1> QED
    BY <1>2, <1>3 DEF TypeOK, BalancesTypeOK, RmrkTypeOK

LEMMA FreeAfterSaleType ==
    ASSUME TypeOK, NEW S \in SUBSET PreorderId, NEW a \in Account, CanPay(S, a)
    PROVE  FreeAfterSale(S, a) \in Nat
  <1> DEFINE p == PrimeOriginOfShellPrice
             n == NumberOf(S, a)
  <1>1. /\ p * n \in Nat
        /\ Released(S, a) \in Nat
        /\ free[a] \in Nat
    BY ReleasedFacts DEF TypeOK, BalancesTypeOK
  <1>2. CASE a = overlord
    <2>1. Cardinality(S) - n \in Nat
      <3>1. Cardinality(S) \in Nat /\ n \in Nat /\ n <= Cardinality(S)
        BY NumberFacts
      <3> QED
        BY <3>1
    <2>2. p * (Cardinality(S) - n) \in Nat
      BY <2>1, AssumptionsHold, ProductType DEF Assumptions
    <2> QED
      BY <1>1, <1>2, <2>2 DEF FreeAfterSale
  <1>3. CASE a # overlord /\ n = 0
    BY <1>1, <1>3, AssumptionsHold DEF FreeAfterSale, Assumptions
  <1>4. CASE a # overlord /\ n # 0
    BY <1>1, <1>4 DEF FreeAfterSale, CanPay
  <1> QED
    BY <1>2, <1>3, <1>4

LEMMA MintChosenType ==
    ASSUME TypeOK, NEW ids \in IdLists, MintChosenPreorders(ids)
    PROVE  TypeOK'
  <1> DEFINE batch == Batch(ids)
             S == IdsOf(batch)
             c == originOfShellCollectionId
             minted == [i \in DOMAIN batch |->
                  [owner |-> preorders[batch[i]].owner,
                   attrs |-> [rarity |-> "Prime", race |-> preorders[batch[i]].race,
                              career |-> preorders[batch[i]].career]]]
  <1>1. /\ batch \in Seq(PreorderId)
        /\ S \subseteq PreorderId
        /\ IsFiniteSet(S)
        /\ Cardinality(S) \in Nat
        /\ Cardinality(S) <= U32Max
    BY BatchFacts, FS_CardinalityType
  <1>2. \A i \in DOMAIN batch : preorders[batch[i]] \in PreorderInfo
    BY <1>1 DEF MintChosenPreorders, MayMintChosen, CanTake, IdsOf, TypeOK
  <1>3. /\ reserved' \in [Account -> Nat]
        /\ preorders' \in [PreorderId -> PreorderInfo \cup {None}]
        /\ ownerHasPreorder' \subseteq Account
    BY <1>1, SettleType DEF MintChosenPreorders
  <1>4. free' \in [Account -> Nat]
    <2>1. \A a \in Account : FreeAfterSale(S, a) \in Nat
      BY <1>1, FreeAfterSaleType DEF MintChosenPreorders, MayMintChosen
    <2> QED
      BY <2>1 DEF MintChosenPreorders
  <1>5. items' \in [CollectionId -> Seq(Item)]
    <2>1. minted \in Seq(Item)
      <3>1. \A i \in DOMAIN batch : minted[i] \in Item
        BY <1>2 DEF Item, Attributes, PreorderInfo, RarityType
      <3>2. DOMAIN batch = 1 .. Len(batch) /\ Len(batch) \in Nat
        BY <1>1
      <3> QED
        BY <3>1, <3>2
    <2>2. c \in CollectionId
      BY DEF TypeOK, MintChosenPreorders, MayMintChosen
    <2>3. items[c] \o minted \in Seq(Item)
      BY <2>1, <2>2 DEF TypeOK, RmrkTypeOK
    <2>4. items' = [items EXCEPT ![c] = @ \o minted]
      BY DEF MintChosenPreorders
    <2> QED
      BY <2>2, <2>3, <2>4 DEF TypeOK, RmrkTypeOK
  <1>6. inventory' \in [StockKey -> NftSaleInfo \cup {None}]
    <2>1. ASSUME NEW k \in StockKey, k[1] = "Prime", NumberOfRace(S, k[2]) > 0
          PROVE  Sold(inventory[k], "ForSale", NumberOfRace(S, k[2])) \in NftSaleInfo
      <3>1. k[2] \in RaceType /\ k = <<"Prime", k[2]>>
        BY <2>1 DEF StockKey
      <3>2. NumberOfRace(S, k[2]) \in Nat
        BY <1>1, FS_Subset, FS_CardinalityType DEF NumberOfRace
      <3>3. HasRaceTypeLeft(k, "ForSale", NumberOfRace(S, k[2]))
        BY <2>1, <3>1 DEF MintChosenPreorders, MayMintChosen
      <3>4. inventory[k] \in NftSaleInfo
        BY <3>3 DEF HasRaceTypeLeft, TypeOK
      <3>5. NumberOfRace(S, k[2]) \in 0 .. U32Max
        BY <3>2, <3>3, <3>4, AssumptionsHold
        DEF HasRaceTypeLeft, NftSaleInfo, NftSaleType, U32, Assumptions
      <3> QED
        BY <3>4, <3>5, SoldType DEF NftSaleType
    <2> QED
      BY <2>1 DEF MintChosenPreorders, TypeOK
  <1>7. careerTypeCount' \in [CareerType -> U32]
    <2>1. ASSUME NEW career \in CareerType
          PROVE  Wrapped(careerTypeCount[career] + NumberOfCareer(S, career)) \in U32
      <3>1. NumberOfCareer(S, career) \in Nat /\ NumberOfCareer(S, career) <= U32Max
        BY <1>1, FS_Subset, FS_CardinalityType, AssumptionsHold
        DEF NumberOfCareer, Assumptions
      <3> QED
        BY <3>1, WrappedType, AssumptionsHold DEF TypeOK, U32, Assumptions
    <2> QED
      BY <2>1 DEF MintChosenPreorders
  <1> QED
    BY <1>3, <1>4, <1>5, <1>6, <1>7
    DEF TypeOK, BalancesTypeOK, RmrkTypeOK, MintChosenPreorders

LEMMA RestockedType ==
    ASSUME NEW row \in NftSaleInfo \cup {None}, NEW counts \in [forSale : U32, giveaway : U32]
    PROVE  IF row = None THEN Restocked(row, counts) = None
           ELSE Restocked(row, counts) \in NftSaleInfo
  <1>1. \A m, n \in U32 : SaturatingAdd(m, n) \in U32
    BY AssumptionsHold DEF Assumptions, SaturatingAdd, U32
  <1>2. CASE row = None
    BY <1>2 DEF Restocked
  <1>3. CASE row # None
    <2>1. row \in NftSaleInfo /\ counts.forSale \in U32 /\ counts.giveaway \in U32
      BY <1>3
    <2>2. /\ SaturatingAdd(row.left["ForSale"], counts.forSale) \in U32
          /\ SaturatingAdd(row.left["Giveaway"], counts.giveaway) \in U32
      BY <1>1, <2>1 DEF NftSaleInfo, NftSaleType
    <2> QED
      BY <1>3, <2>1, <2>2 DEF Restocked, NftSaleInfo, NftSaleType
  <1> QED
    BY <1>2, <1>3

LEMMA AdminType ==
    ASSUME TypeOK, AdminCall
    PROVE  TypeOK'
  <1> USE AssumptionsHold DEF TypeOK, BalancesTypeOK, RmrkTypeOK
  <1>1. ASSUME NEW a \in Account, NEW rarity \in RarityType, NEW race \in RaceType,
               NEW career \in CareerType, NEW saleType \in NftSaleType,
               MintGiftOriginOfShell(a, rarity, race, career, saleType)
        PROVE  TypeOK'
    BY <1>1, ShellType DEF MintGiftOriginOfShell
  <1>2. ASSUME NEW value \in BOOLEAN, NEW s \in AdminStatus, SetStatusType(value, s)
        PROVE  TypeOK'
    BY <1>2 DEF SetStatusType, Assumptions
  <1>3. CASE InitRarityTypeCounts
    <2>1. inventory' \in [StockKey -> NftSaleInfo \cup {None}]
      BY <1>3 DEF InitRarityTypeCounts, InitialInventory, Assumptions, NftSaleInfo, StockKey, U32
    <2> QED
      BY <1>3, <2>1 DEF InitRarityTypeCounts
  <1>4. ASSUME NEW counts \in UpdateCounts, UpdateRarityTypeCounts(counts)
        PROVE  TypeOK'
    <2>1. counts \in [forSale : U32, giveaway : U32]
      BY DEF Assumptions
    <2>2. inventory' \in [StockKey -> NftSaleInfo \cup {None}]
      BY <1>4, <2>1, RestockedType DEF UpdateRarityTypeCounts
    <2> QED
      BY <1>4, <2>2 DEF UpdateRarityTypeCounts
  <1>5. ASSUME NEW c \in CollectionId,
               SetSpiritCollectionId(c) \/ SetOriginOfShellCollectionId(c)
        PROVE  TypeOK'
    BY <1>5 DEF SetSpiritCollectionId, SetOriginOfShellCollectionId
  <1>6. CASE PwCreateCollection
    BY <1>6 DEF PwCreateCollection, CreateCollection, Assumptions, CollectionId
  <1>7. CASE SetSpiritsMetadata
    BY <1>7 DEF SetSpiritsMetadata
  <1>8. ASSUME NEW races \in SUBSET RaceType, SetOriginOfShellsMetadata(races)
        PROVE  TypeOK'
    BY <1>8 DEF SetOriginOfShellsMetadata
  <1>9. ASSUME NEW a \in OverlordCandidates, SetOverlord(a)
        PROVE  TypeOK'
    BY <1>9 DEF SetOverlord, Assumptions
  <1> QED
    BY <1>1, <1>2, <1>3, <1>4, <1>5, <1>6, <1>7, <1>8, <1>9 DEF AdminCall

LEMMA OutsideType ==
    ASSUME TypeOK, Outside
    PROVE  TypeOK'
  <1> USE AssumptionsHold DEF Assumptions, TypeOK
  <1>1. ASSUME NEW a \in Account, CreateCollection(a), UNCHANGED <<balancesVars, saleVars>>
        PROVE  TypeOK'
    BY <1>1 DEF CreateCollection, RmrkTypeOK, BalancesTypeOK, CollectionId
  <1>2. ASSUME NEW a \in Account, NEW c \in CollectionId, NEW i \in DOMAIN items[c],
               BurnNft(a, c, i), UNCHANGED <<balancesVars, saleVars>>
        PROVE  TypeOK'
    <2>1. items[c] \in Seq(Item) /\ items[c][i] \in Item
      BY DEF RmrkTypeOK
    <2>2. [items[c] EXCEPT ![i].owner = None] \in Seq(Item)
      <3>1. [items[c][i] EXCEPT !.owner = None] \in Item
        BY <2>1 DEF Item
      <3> QED
        BY <2>1, <3>1
    <2>3. items' \in [CollectionId -> Seq(Item)]
      BY <1>2, <2>2 DEF BurnNft, RmrkTypeOK
    <2> QED
      BY <1>2, <2>3 DEF BurnNft, RmrkTypeOK, BalancesTypeOK
  <1>3. ASSUME NEW from \in Account, NEW to \in Account, NEW v \in TransferAmounts,
               BalanceTransfer(from, to, v), UNCHANGED <<rmrkVars, saleVars>>
        PROVE  TypeOK'
    BY <1>3, TransferType DEF BalanceTransfer, RmrkTypeOK, BalancesTypeOK
  <1> QED
    BY <1>1, <1>2, <1>3 DEF Outside

LEMMA UserType ==
    ASSUME TypeOK, NEW a \in Account, UserCall(a)
    PROVE  TypeOK'
  <1>1. CASE ClaimSpirit(a) \/ RedeemSpirit(a)
    BY <1>1, SpiritType DEF ClaimSpirit, RedeemSpirit
  <1>2. ASSUME NEW race \in RaceType, NEW career \in CareerType, NEW rarity \in RarityType,
               BuyRareOriginOfShell(a, rarity, race, career)
        PROVE  TypeOK'
    <2>1. RarePrice[rarity] \in Nat
      BY <1>2, AssumptionsHold DEF BuyRareOriginOfShell, RarePrice, Assumptions
    <2>2. (~LastDayOfSale) \in BOOLEAN
      BY DEF LastDayOfSale
    <2> QED
      BY <1>2, <2>1, <2>2, ShellType DEF BuyRareOriginOfShell, NftSaleType
  <1>3. ASSUME NEW race \in RaceType, NEW career \in CareerType,
               BuyPrimeOriginOfShell(a, race, career)
        PROVE  TypeOK'
    <2>1. (~LastDayOfSale) \in BOOLEAN
      BY DEF LastDayOfSale
    <2> QED
      BY <1>3, <2>1, ShellType, AssumptionsHold
      DEF BuyPrimeOriginOfShell, NftSaleType, RarityType, Assumptions
  <1>4. ASSUME NEW race \in RaceType, NEW career \in CareerType,
               PreorderOriginOfShell(a, race, career)
        PROVE  TypeOK'
    BY <1>4, PreorderType
  <1> QED
    BY <1>1, <1>2, <1>3, <1>4 DEF UserCall

LEMMA NextType == TypeOK /\ [Next]_vars => TypeOK'
  <1> SUFFICES ASSUME TypeOK, [Next]_vars PROVE TypeOK'
    OBVIOUS
  <1>1. ASSUME NEW a \in Account, UserCall(a) PROVE TypeOK'
    BY <1>1, UserType
  <1>2. CASE SettlementCall
    BY <1>2, MintChosenType, RefundType DEF SettlementCall
  <1>3. CASE AdminCall
    BY <1>3, AdminType
  <1>4. CASE Outside
    BY <1>4, OutsideType
  <1>5. CASE UNCHANGED vars
    BY <1>5 DEF vars, TypeOK, BalancesTypeOK, RmrkTypeOK
  <1> QED
    BY <1>1, <1>2, <1>3, <1>4, <1>5 DEF Next

\* The storage always holds values of its types. What is not obvious in it:
\* no call makes a free or a reserved balance negative, a batch that settles
\* several preorders of several owners included, and every item that such a
\* batch appends has an owner and the attributes its preorder named.
THEOREM TypeCorrect == Spec => []TypeOK
  BY InitType, NextType, PTL DEF Spec
-----------------------------------------------------------------------------
(* The escrow. A new preorder must not overwrite an open one, so the       *)
(* invariant is strengthened with the emptiness of the unused ids.         *)

EscrowInv == TypeOK /\ UnusedIdsEmpty /\ EscrowMatchesPreorders

LEMMA TimesSuccessor == \A p, n \in Nat : p * (n + 1) = p * n + p
  OBVIOUS

LEMMA TimesDifference ==
    \A p, m, n \in Nat : n <= m => p * (m - n) = p * m - p * n /\ p * n <= p * m
  <1> SUFFICES ASSUME NEW p \in Nat, NEW m \in Nat, NEW n \in Nat, n <= m
               PROVE  p * (m - n) = p * m - p * n /\ p * n <= p * m
    OBVIOUS
  <1>1. PICK d \in Nat : m = n + d
    <2>1. m - n \in Nat /\ m = n + (m - n)
      OBVIOUS
    <2> QED
      BY <2>1
  <1>2. p * (n + d) = p * n + p * d /\ p * d \in Nat /\ p * n \in Nat
    OBVIOUS
  <1> QED
    BY <1>1, <1>2

LEMMA EscrowInit == Init => UnusedIdsEmpty /\ EscrowMatchesPreorders
  <1> SUFFICES ASSUME Init PROVE UnusedIdsEmpty /\ EscrowMatchesPreorders
    OBVIOUS
  <1>1. UnusedIdsEmpty
    BY DEF Init, UnusedIdsEmpty
  <1>2. ASSUME NEW a \in Account
        PROVE  reserved[a] = PrimeOriginOfShellPrice * Cardinality(OpenPreorders(a))
    <2>1. OpenPreorders(a) = {}
      BY DEF Init, OpenPreorders
    <2>2. PrimeOriginOfShellPrice * 0 = 0
      BY AssumptionsHold DEF Assumptions
    <2> QED
      BY <2>1, <2>2, FS_EmptySet DEF Init, BalancesInit
  <1> QED
    BY <1>1, <1>2 DEF EscrowMatchesPreorders

\* A step that touches neither the reserves nor the preorders.
LEMMA EscrowQuiet ==
    ASSUME EscrowInv, UNCHANGED <<reserved, preorders, preorderIndex>>
    PROVE  UnusedIdsEmpty' /\ EscrowMatchesPreorders'
  BY DEF EscrowInv, UnusedIdsEmpty, EscrowMatchesPreorders, OpenPreorders

LEMMA EscrowPreorder ==
    ASSUME EscrowInv, NEW a \in Account, NEW race \in RaceType, NEW career \in CareerType,
           PreorderOriginOfShell(a, race, career)
    PROVE  UnusedIdsEmpty' /\ EscrowMatchesPreorders'
  <1> USE AssumptionsHold DEF EscrowInv
  <1>1. /\ preorderIndex \in PreorderId
        /\ preorders[preorderIndex] = None
        /\ preorderIndex' = preorderIndex + 1
        /\ preorders' = [preorders EXCEPT ![preorderIndex] =
                            [owner |-> a, race |-> race, career |-> career]]
        /\ [owner |-> a, race |-> race, career |-> career] # None
    BY DEF PreorderOriginOfShell, TakePreorderId, Assumptions, TypeOK, UnusedIdsEmpty,
           PreorderId, U32, PreorderInfo
  <1>2. UnusedIdsEmpty'
    BY <1>1 DEF UnusedIdsEmpty, TypeOK, PreorderId, U32
  <1>3. ASSUME NEW b \in Account
        PROVE  reserved'[b] = PrimeOriginOfShellPrice * Cardinality(OpenPreorders(b)')
    <2>1. reserved[b] = PrimeOriginOfShellPrice * Cardinality(OpenPreorders(b))
      BY DEF EscrowMatchesPreorders
    <2>2. CASE b # a
      <3>1. OpenPreorders(b)' = OpenPreorders(b)
        BY <1>1, <2>2 DEF OpenPreorders, TypeOK
      <3>2. reserved'[b] = reserved[b]
        BY <2>2 DEF PreorderOriginOfShell, Reserve, TypeOK, BalancesTypeOK
      <3> QED
        BY <2>1, <3>1, <3>2
    <2>3. CASE b = a
      <3>1. OpenPreorders(a)' = OpenPreorders(a) \cup {preorderIndex}
        BY <1>1 DEF OpenPreorders, TypeOK
      <3>2. preorderIndex \notin OpenPreorders(a)
        BY <1>1 DEF OpenPreorders
      <3>3. IsFiniteSet(OpenPreorders(a)) /\ Cardinality(OpenPreorders(a)) \in Nat
        BY NumberFacts
      <3>4. Cardinality(OpenPreorders(a)') = Cardinality(OpenPreorders(a)) + 1
        BY <3>1, <3>2, <3>3, FS_AddElement
      <3>5. reserved'[a] = reserved[a] + PrimeOriginOfShellPrice
        BY DEF PreorderOriginOfShell, Reserve, TypeOK, BalancesTypeOK
      <3> QED
        BY <2>1, <2>3, <3>3, <3>4, <3>5, TimesSuccessor DEF Assumptions
    <2> QED
      BY <2>2, <2>3
  <1> QED
    BY <1>2, <1>3 DEF EscrowMatchesPreorders

\* The reserve always covers what a settlement releases: unreserve never falls short.
LEMMA ReleasedInFull ==
    ASSUME TypeOK, EscrowMatchesPreorders, NEW S \in SUBSET PreorderId, NEW a \in Account
    PROVE  Released(S, a) = PrimeOriginOfShellPrice * NumberOf(S, a)
  <1>1. /\ NumberOf(S, a) \in Nat
        /\ Cardinality(OpenPreorders(a)) \in Nat
        /\ NumberOf(S, a) <= Cardinality(OpenPreorders(a))
        /\ PrimeOriginOfShellPrice \in Nat
    BY NumberFacts, AssumptionsHold DEF Assumptions
  <1>2. PrimeOriginOfShellPrice * NumberOf(S, a) <= reserved[a]
    BY <1>1, TimesDifference DEF EscrowMatchesPreorders
  <1>3. PrimeOriginOfShellPrice * NumberOf(S, a) \in Nat /\ reserved[a] \in Nat
    BY <1>1, ProductType DEF TypeOK, BalancesTypeOK
  <1> QED
    BY <1>2, <1>3 DEF Released, Unreserved

LEMMA EscrowSettle ==
    ASSUME EscrowInv, NEW S \in SUBSET PreorderId, Settle(S), UNCHANGED preorderIndex
    PROVE  UnusedIdsEmpty' /\ EscrowMatchesPreorders'
  <1> USE DEF EscrowInv
  <1>1. UnusedIdsEmpty'
    BY DEF UnusedIdsEmpty, Settle
  <1>2. ASSUME NEW a \in Account
        PROVE  reserved'[a] = PrimeOriginOfShellPrice * Cardinality(OpenPreorders(a)')
    <2> DEFINE p == PrimeOriginOfShellPrice
               m == Cardinality(OpenPreorders(a))
               n == NumberOf(S, a)
    <2>1. OpenPreorders(a)' = OpenPreorders(a) \ S
      BY DEF OpenPreorders, Settle
    <2>2. m \in Nat /\ n \in Nat /\ n <= m /\ p \in Nat
      BY NumberFacts, AssumptionsHold DEF Assumptions
    <2>3. Cardinality(OpenPreorders(a)') = m - n
      BY <2>1, NumberFacts
    <2>4. reserved'[a] = p * m - p * n
      BY ReleasedInFull DEF Settle, EscrowMatchesPreorders
    <2>5. p * (m - n) = p * m - p * n
      BY <2>2, TimesDifference
    <2> QED
      BY <2>3, <2>4, <2>5
  <1> QED
    BY <1>1, <1>2 DEF EscrowMatchesPreorders

LEMMA EscrowNext == EscrowInv /\ [Next]_vars => UnusedIdsEmpty' /\ EscrowMatchesPreorders'
  <1> SUFFICES ASSUME EscrowInv, [Next]_vars
               PROVE  UnusedIdsEmpty' /\ EscrowMatchesPreorders'
    OBVIOUS
  <1>1. ASSUME NEW a \in Account, UserCall(a)
        PROVE  UnusedIdsEmpty' /\ EscrowMatchesPreorders'
    <2>1. CASE \E race \in RaceType, career \in CareerType :
                 PreorderOriginOfShell(a, race, career)
      BY <2>1, EscrowPreorder
    <2>2. CASE UNCHANGED <<reserved, preorders, preorderIndex>>
      BY <2>2, EscrowQuiet
    <2> QED
      BY <1>1, <2>1, <2>2
      DEF UserCall, ClaimSpirit, RedeemSpirit, DoMintSpirit, BuyRareOriginOfShell,
          BuyPrimeOriginOfShell, DoMintShell
  <1>2. ASSUME NEW ids \in IdLists,
               MintChosenPreorders(ids) \/ RefundNotChosenPreorders(ids)
        PROVE  UnusedIdsEmpty' /\ EscrowMatchesPreorders'
    <2>1. IdsOf(Batch(ids)) \in SUBSET PreorderId
      BY BatchFacts DEF EscrowInv
    <2>2. Settle(IdsOf(Batch(ids))) /\ UNCHANGED preorderIndex
      BY <1>2 DEF MintChosenPreorders, RefundNotChosenPreorders
    <2> QED
      BY <2>1, <2>2, EscrowSettle
  <1>3. CASE AdminCall \/ Outside \/ UNCHANGED vars
    <2>1. UNCHANGED <<reserved, preorders, preorderIndex>>
      BY <1>3
      DEF AdminCall, MintGiftOriginOfShell, DoMintShell, SetStatusType,
          InitRarityTypeCounts, UpdateRarityTypeCounts, SetSpiritCollectionId,
          SetOriginOfShellCollectionId, PwCreateCollection, SetSpiritsMetadata,
          SetOriginOfShellsMetadata, SetOverlord, Outside, CreateCollection, BurnNft,
          BalanceTransfer, vars
    <2> QED
      BY <2>1, EscrowQuiet
  <1> QED
    BY <1>1, <1>2, <1>3 DEF Next, SettlementCall

\* Whatever the calls and their order, the last day switched on and off, the
\* Overlord replaced in between: an account's reserve is exactly the price of
\* its open preorders.
THEOREM EscrowCorrect == Spec => []EscrowMatchesPreorders
  <1>1. Init => EscrowInv
    BY InitType, EscrowInit DEF EscrowInv
  <1>2. EscrowInv /\ [Next]_vars => EscrowInv'
    BY NextType, EscrowNext DEF EscrowInv
  <1>3. EscrowInv => EscrowMatchesPreorders
    BY DEF EscrowInv
  <1> QED
    BY <1>1, <1>2, <1>3, PTL DEF Spec
LEMMA FreshIdsStep ==
    ASSUME EscrowInv, [Next]_vars, NEW id \in PreorderId,
           preorders'[id] \notin {preorders[id], None}
    PROVE  preorders[id] = None /\ id >= preorderIndex /\ id < preorderIndex'
  <1>1. ASSUME NEW a \in Account, NEW race \in RaceType, NEW career \in CareerType,
               PreorderOriginOfShell(a, race, career)
        PROVE  preorders[id] = None /\ id >= preorderIndex /\ id < preorderIndex'
    <2>1. id = preorderIndex
      BY <1>1 DEF PreorderOriginOfShell, EscrowInv, TypeOK
    <2>2. preorderIndex' = preorderIndex + 1 /\ preorderIndex \in Nat
      BY <1>1, AssumptionsHold
      DEF PreorderOriginOfShell, TakePreorderId, EscrowInv, TypeOK, U32, Assumptions
    <2> QED
      BY <2>1, <2>2 DEF EscrowInv, UnusedIdsEmpty
  <1>2. ASSUME NEW ids, RefundNotChosenPreorders(ids) \/ MintChosenPreorders(ids)
        PROVE  FALSE
    BY <1>2 DEF RefundNotChosenPreorders, MintChosenPreorders, Settle
  <1>3. ASSUME UNCHANGED preorders PROVE FALSE
    BY <1>3
  <1>4. ASSUME NEW a \in Account, UserCall(a)
        PROVE  preorders[id] = None /\ id >= preorderIndex /\ id < preorderIndex'
    BY <1>1, <1>3, <1>4
    DEF UserCall, ClaimSpirit, RedeemSpirit, DoMintSpirit, BuyRareOriginOfShell,
        BuyPrimeOriginOfShell, DoMintShell
  <1>5. ~SettlementCall
    BY <1>2 DEF SettlementCall
  <1>6. ~(AdminCall \/ Outside \/ UNCHANGED vars)
    BY <1>3
    DEF AdminCall, MintGiftOriginOfShell, DoMintShell, SetStatusType,
        InitRarityTypeCounts, UpdateRarityTypeCounts, SetSpiritCollectionId,
        SetOriginOfShellCollectionId, PwCreateCollection, SetSpiritsMetadata,
        SetOriginOfShellsMetadata, SetOverlord, Outside, vars
  <1> QED
    BY <1>4, <1>5, <1>6 DEF Next

\* No step gives an id a preorder that had one, or brings a settled one back.
THEOREM FreshIdsCorrect == Spec => PreorderIdsAreFresh
  <1>1. Init => EscrowInv
    BY InitType, EscrowInit DEF EscrowInv
  <1>2. EscrowInv /\ [Next]_vars => EscrowInv'
    BY NextType, EscrowNext DEF EscrowInv
  <1>3. EscrowInv /\ [Next]_vars =>
          [\A id \in PreorderId :
              preorders'[id] \notin {preorders[id], None} =>
                preorders[id] = None /\ id >= preorderIndex /\ id < preorderIndex']_vars
    BY FreshIdsStep
  <1> QED
    BY <1>1, <1>2, <1>3, PTL DEF Spec, PreorderIdsAreFresh
-----------------------------------------------------------------------------
(* The rare supply.                                                        *)

RowTotal(row) == row.raceCount + StockTotal(row.left)

RareKey(k) == k \in StockKey /\ k[1] # "Prime"

RareInv ==
    \A k \in StockKey : RareKey(k) /\ inventory[k] # None =>
        RowTotal(inventory[k]) = StockTotal(InitialStock[k[1]])

\* Selling one shell moves it from what is left to what was minted.
LEMMA SoldTotal ==
    ASSUME NEW row \in NftSaleInfo, NEW t \in NftSaleType,
           row.left[t] >= 1, RowTotal(row) <= U32Max
    PROVE  RowTotal(Sold(row, t, 1)) = RowTotal(row)
  <1> USE AssumptionsHold DEF Assumptions
  <1>1. /\ row.raceCount \in U32
        /\ row.left \in [NftSaleType -> U32]
        /\ \A s \in NftSaleType : row.left[s] \in U32
    BY DEF NftSaleInfo
  <1>2. row.raceCount + 1 <= U32Max
    BY <1>1 DEF RowTotal, StockTotal, NftSaleType, U32
  <1>3. /\ Wrapped(row.raceCount + 1) = row.raceCount + 1
        /\ Wrapped(row.left[t] - 1) = row.left[t] - 1
    BY <1>1, <1>2 DEF Wrapped, U32
  <1>4. Sold(row, t, 1) = [raceCount |-> row.raceCount + 1,
                           left |-> [row.left EXCEPT ![t] = row.left[t] - 1]]
    BY <1>3 DEF Sold
  <1> QED
    BY <1>1, <1>4 DEF RowTotal, StockTotal, NftSaleType, U32

LEMMA RareShell ==
    ASSUME TypeOK, RareInv, NEW to \in Account, NEW rarity \in RarityType,
           NEW race \in RaceType, NEW career \in CareerType, NEW price,
           NEW t \in NftSaleType, NEW check,
           DoMintShell(to, rarity, race, career, price, t, check)
    PROVE  RareInv'
  <1> DEFINE key == <<rarity, race>>
  <1>1. /\ key \in StockKey
        /\ inventory[key] \in NftSaleInfo
        /\ inventory[key].left[t] >= 1
    BY DEF DoMintShell, MayMintShell, HasRaceTypeLeft, TypeOK, StockKey
  <1>2. inventory' = [inventory EXCEPT ![key] = Sold(inventory[key], t, 1)]
    BY DEF DoMintShell
  <1>3. ASSUME NEW k \in StockKey, RareKey(k), inventory'[k] # None
        PROVE  RowTotal(inventory'[k]) = StockTotal(InitialStock[k[1]])
    <2>1. CASE k # key
      BY <1>1, <1>2, <1>3, <2>1 DEF RareInv, TypeOK
    <2>2. CASE k = key
      <3>1. RowTotal(inventory[key]) = StockTotal(InitialStock[rarity])
        BY <1>1, <1>3, <2>2, AssumptionsHold DEF RareInv, Assumptions
      <3>2. RowTotal(inventory[key]) <= U32Max
        BY <3>1, AssumptionsHold DEF Assumptions
      <3>3. inventory'[key] = Sold(inventory[key], t, 1)
        BY <1>1, <1>2 DEF TypeOK
      <3> QED
        BY <1>1, <2>2, <3>1, <3>2, <3>3, SoldTotal
    <2> QED
      BY <2>1, <2>2
  <1> QED
    BY <1>3 DEF RareInv, RareKey

LEMMA RareNext == TypeOK /\ RareInv /\ [Next]_vars => RareInv'
  <1> SUFFICES ASSUME TypeOK, RareInv, [Next]_vars PROVE RareInv'
    OBVIOUS
  <1>1. ASSUME NEW a \in Account, UserCall(a) PROVE RareInv'
    <2>1. CASE UNCHANGED inventory
      BY <2>1 DEF RareInv, RareKey
    <2>2. CASE \E rarity \in RarityType, race \in RaceType, career \in CareerType :
                 \/ BuyRareOriginOfShell(a, rarity, race, career)
                 \/ BuyPrimeOriginOfShell(a, race, career)
      BY <2>2, RareShell
      DEF BuyRareOriginOfShell, BuyPrimeOriginOfShell, NftSaleType, RarityType
    <2> QED
      BY <1>1, <2>1, <2>2
      DEF UserCall, ClaimSpirit, RedeemSpirit, DoMintSpirit, PreorderOriginOfShell,
          RarityType
  <1>2. CASE SettlementCall
    <2>1. \A k \in StockKey : RareKey(k) => inventory'[k] = inventory[k]
      BY <1>2 DEF SettlementCall, MintChosenPreorders, RefundNotChosenPreorders, RareKey
    <2> QED
      BY <2>1 DEF RareInv, RareKey
  <1>3. ASSUME NEW a \in Account, NEW rarity \in RarityType, NEW race \in RaceType,
               NEW career \in CareerType, NEW saleType \in NftSaleType,
               MintGiftOriginOfShell(a, rarity, race, career, saleType)
        PROVE  RareInv'
    BY <1>3, RareShell DEF MintGiftOriginOfShell
  <1>4. CASE InitRarityTypeCounts
    <2>1. ASSUME NEW k \in StockKey
          PROVE  RowTotal(inventory'[k]) = StockTotal(InitialStock[k[1]])
      <3>1. inventory'[k] = [raceCount |-> 0, left |-> InitialStock[k[1]]]
        BY <1>4 DEF InitRarityTypeCounts, InitialInventory
      <3>2. InitialStock[k[1]] \in [NftSaleType -> U32]
        BY AssumptionsHold DEF Assumptions, StockKey
      <3> QED
        BY <3>1, <3>2, AssumptionsHold
        DEF RowTotal, StockTotal, NftSaleType, U32, Assumptions
    <2> QED
      BY <2>1 DEF RareInv
  <1>5. ASSUME NEW counts \in UpdateCounts, UpdateRarityTypeCounts(counts)
        PROVE  RareInv'
    <2>1. \A k \in StockKey : RareKey(k) => inventory'[k] = inventory[k]
      BY <1>5 DEF UpdateRarityTypeCounts, RareKey
    <2> QED
      BY <2>1 DEF RareInv, RareKey
  <1>6. CASE UNCHANGED inventory
    BY <1>6 DEF RareInv, RareKey
  <1>7. AdminCall \/ Outside \/ UNCHANGED vars => RareInv'
    BY <1>3, <1>4, <1>5, <1>6
    DEF AdminCall, SetStatusType, SetSpiritCollectionId, SetOriginOfShellCollectionId,
        PwCreateCollection, SetSpiritsMetadata, SetOriginOfShellsMetadata, SetOverlord,
        Outside, vars
  <1> QED
    BY <1>1, <1>2, <1>7 DEF Next

\* The Magic and Legendary shells minted so far and those still left are always
\* as many as the inventory was initialised with: no purchase, gift, batch or
\* restocking lets a rare shell be minted beyond it.
THEOREM RareSupplyCorrect == Spec => []RareSupplyCapped
  <1>1. Init => RareInv
    BY DEF Init, RareInv
  <1>2. RareInv => RareSupplyCapped
    <2> SUFFICES ASSUME RareInv, NEW rarity \in {"Magic", "Legendary"},
                        NEW race \in RaceType, inventory[<<rarity, race>>] # None
                 PROVE  RowTotal(inventory[<<rarity, race>>]) = StockTotal(InitialStock[rarity])
      BY DEF RareSupplyCapped, RowTotal
    <2>1. RareKey(<<rarity, race>>)
      BY DEF RareKey, StockKey, RarityType
    <2> QED
      BY <2>1 DEF RareInv, RareKey
  <1> QED
    BY <1>1, <1>2, InitType, NextType, RareNext, PTL DEF Spec
-----------------------------------------------------------------------------
(* One Spirit for each account. When the Overlord names the collection of  *)
(* the Spirits nothing may be in it yet, so the invariant is strengthened  *)
(* with: the pallet has minted into the collections it was given only.     *)

OnlyNamedMinted ==
    \A c \in CollectionId :
        c \notin {spiritCollectionId, originOfShellCollectionId} => items[c] = << >>

SpiritInv == OnlyNamedMinted /\ OneSpiritEach

\* A step after which no collection but that of the shells has a new item.
LEMMA SpiritNoMint ==
    ASSUME TypeOK, SpiritInv, UNCHANGED <<spiritCollectionId, originOfShellCollectionId>>,
           \A c \in CollectionId : c # originOfShellCollectionId => items'[c] = items[c]
    PROVE  SpiritInv'
  <1>1. OnlyNamedMinted'
    BY DEF SpiritInv, OnlyNamedMinted
  <1>2. OneSpiritEach'
    <2> SUFFICES ASSUME spiritCollectionId \notin {None, originOfShellCollectionId}
                 PROVE  items'[spiritCollectionId] = items[spiritCollectionId]
      BY DEF SpiritInv, OneSpiritEach, OwnedInCollection
    <2> QED
      BY DEF TypeOK
  <1> QED
    BY <1>1, <1>2 DEF SpiritInv

LEMMA SpiritMint ==
    ASSUME TypeOK, SpiritInv, NEW a \in Account, DoMintSpirit(a)
    PROVE  SpiritInv'
  <1> DEFINE c == spiritCollectionId
             item == [owner |-> a, attrs |-> None]
  <1>1. /\ c \in CollectionId
        /\ items[c] \in Seq(Item)
        /\ items' = [items EXCEPT ![c] = Append(items[c], item)]
        /\ UNCHANGED <<spiritCollectionId, originOfShellCollectionId>>
        /\ OwnedInCollection(a, c) = {}
    BY DEF DoMintSpirit, OwnsSpirit, TypeOK, RmrkTypeOK
  <1>2. OnlyNamedMinted'
    BY <1>1 DEF SpiritInv, OnlyNamedMinted, TypeOK, RmrkTypeOK
  <1>3. /\ items'[c] = Append(items[c], item)
        /\ Len(items[c]) \in Nat
        /\ DOMAIN items[c] = 1 .. Len(items[c])
        /\ DOMAIN items'[c] = 1 .. (Len(items[c]) + 1)
        /\ \A i \in DOMAIN items[c] : items'[c][i] = items[c][i]
        /\ items'[c][Len(items[c]) + 1] = item
    BY <1>1 DEF TypeOK, RmrkTypeOK
  <1>4. ASSUME c # originOfShellCollectionId, NEW b \in Account,
               NEW i \in DOMAIN items'[c], NEW j \in DOMAIN items'[c],
               items'[c][i].owner = b, items'[c][j].owner = b
        PROVE  i = j
    <2>1. CASE b = a
      <3>1. \A k \in DOMAIN items[c] : items[c][k].owner # a
        BY <1>1 DEF OwnedInCollection
      <3> QED
        BY <1>3, <1>4, <2>1, <3>1
    <2>2. CASE b # a
      <3>1. i \in DOMAIN items[c] /\ j \in DOMAIN items[c]
        BY <1>3, <1>4, <2>2
      <3> QED
        BY <1>1, <1>3, <1>4, <3>1 DEF SpiritInv, OneSpiritEach, OwnedInCollection, DoMintSpirit
    <2> QED
      BY <2>1, <2>2
  <1>5. OneSpiritEach'
    BY <1>1, <1>4 DEF OneSpiritEach, OwnedInCollection
  <1> QED
    BY <1>2, <1>5 DEF SpiritInv

LEMMA SpiritBurn ==
    ASSUME TypeOK, SpiritInv, NEW a \in Account, NEW c \in CollectionId,
           NEW i \in DOMAIN items[c], BurnNft(a, c, i),
           UNCHANGED <<spiritCollectionId, originOfShellCollectionId>>
    PROVE  SpiritInv'
  <1>1. /\ DOMAIN items'[c] = DOMAIN items[c]
        /\ \A j \in DOMAIN items[c] :
              items'[c][j].owner = IF j = i THEN None ELSE items[c][j].owner
        /\ \A d \in CollectionId : d # c => items'[d] = items[d]
    <2>1. items[c] \in Seq(Item) /\ items[c][i] \in Item
      BY DEF TypeOK, RmrkTypeOK
    <2>2. [items[c][i] EXCEPT !.owner = None].owner = None
      BY <2>1 DEF Item
    <2> QED
      BY <2>1, <2>2 DEF BurnNft, TypeOK, RmrkTypeOK
  <1>2. items[c] # << >>
    OBVIOUS
  <1>3. OnlyNamedMinted'
    BY <1>1, <1>2 DEF SpiritInv, OnlyNamedMinted
  <1>4. ASSUME NEW d \in CollectionId, NEW b \in Account
        PROVE  OwnedInCollection(b, d)' \subseteq OwnedInCollection(b, d)
    BY <1>1, AssumptionsHold DEF OwnedInCollection, Assumptions
  <1>5. OneSpiritEach'
    BY <1>4 DEF SpiritInv, OneSpiritEach, TypeOK
  <1> QED
    BY <1>3, <1>5 DEF SpiritInv

\* The Overlord names a collection.
LEMMA SpiritNamed ==
    ASSUME TypeOK, SpiritInv, NEW c \in CollectionId,
           SetSpiritCollectionId(c) \/ SetOriginOfShellCollectionId(c)
    PROVE  SpiritInv'
  <1>1. items' = items
    BY DEF SetSpiritCollectionId, SetOriginOfShellCollectionId
  <1>2. OnlyNamedMinted'
    BY <1>1, AssumptionsHold
    DEF SpiritInv, OnlyNamedMinted, SetSpiritCollectionId, SetOriginOfShellCollectionId,
        Assumptions, CollectionId
  <1>3. CASE SetSpiritCollectionId(c)
    <2>1. c # originOfShellCollectionId => items[c] = << >>
      BY <1>3, AssumptionsHold
      DEF SpiritInv, OnlyNamedMinted, SetSpiritCollectionId, Assumptions, CollectionId
    <2>2. c # originOfShellCollectionId =>
            \A a \in Account : OwnedInCollection(a, c)' = {}
      BY <1>1, <2>1 DEF OwnedInCollection
    <2> QED
      BY <1>2, <1>3, <2>2 DEF SpiritInv, OneSpiritEach, SetSpiritCollectionId
  <1>4. CASE SetOriginOfShellCollectionId(c)
    <2>1. /\ spiritCollectionId' = spiritCollectionId
          /\ originOfShellCollectionId = None
      BY <1>4 DEF SetOriginOfShellCollectionId
    <2> QED
      BY <1>1, <1>2, <2>1 DEF SpiritInv, OneSpiritEach, OwnedInCollection
  <1> QED
    BY <1>3, <1>4

LEMMA SpiritNext == TypeOK /\ SpiritInv /\ [Next]_vars => SpiritInv'
  <1> SUFFICES ASSUME TypeOK, SpiritInv, [Next]_vars PROVE SpiritInv'
    OBVIOUS
  <1> DEFINE ShellStep ==
        /\ UNCHANGED <<spiritCollectionId, originOfShellCollectionId>>
        /\ \A c \in CollectionId : c # originOfShellCollectionId => items'[c] = items[c]
  <1>1. ShellStep => SpiritInv'
    BY SpiritNoMint
  <1>2. ASSUME NEW to, NEW rarity, NEW race, NEW career, NEW price, NEW t, NEW check,
               DoMintShell(to, rarity, race, career, price, t, check)
        PROVE  ShellStep
    BY <1>2 DEF DoMintShell, TypeOK, RmrkTypeOK
  <1>3. ASSUME NEW a \in Account, UserCall(a) PROVE SpiritInv'
    <2>1. CASE DoMintSpirit(a)
      BY <2>1, SpiritMint
    <2>2. ASSUME NEW race, NEW career, PreorderOriginOfShell(a, race, career)
          PROVE  ShellStep
      BY <2>2 DEF PreorderOriginOfShell
    <2>3. DoMintSpirit(a) \/ ShellStep
      BY <1>2, <1>3, <2>2
      DEF UserCall, ClaimSpirit, RedeemSpirit, BuyRareOriginOfShell, BuyPrimeOriginOfShell
    <2> QED
      BY <1>1, <2>1, <2>3
  <1>4. CASE SettlementCall
    <2>1. ShellStep
      BY <1>4
      DEF SettlementCall, MintChosenPreorders, RefundNotChosenPreorders, TypeOK, RmrkTypeOK
    <2> QED
      BY <1>1, <2>1
  <1>5. CASE AdminCall
    <2>1. CASE \E c \in CollectionId :
                 SetSpiritCollectionId(c) \/ SetOriginOfShellCollectionId(c)
      BY <2>1, SpiritNamed
    <2>2. ShellStep
          \/ \E c \in CollectionId :
                SetSpiritCollectionId(c) \/ SetOriginOfShellCollectionId(c)
      BY <1>2, <1>5
      DEF AdminCall, MintGiftOriginOfShell, SetStatusType, InitRarityTypeCounts,
          UpdateRarityTypeCounts, PwCreateCollection, CreateCollection,
          SetSpiritsMetadata, SetOriginOfShellsMetadata, SetOverlord
    <2> QED
      BY <1>1, <2>1, <2>2
  <1>6. CASE Outside
    <2>1. UNCHANGED <<spiritCollectionId, originOfShellCollectionId>>
      BY <1>6 DEF Outside
    <2>2. ASSUME NEW a \in Burners, NEW c \in CollectionId, NEW i \in DOMAIN items[c],
                 BurnNft(a, c, i)
          PROVE  SpiritInv'
      BY <2>1, <2>2, SpiritBurn, AssumptionsHold DEF Assumptions
    <2>3. CASE UNCHANGED items
      BY <1>1, <2>1, <2>3
    <2> QED
      BY <1>6, <2>2, <2>3 DEF Outside, CreateCollection
  <1>7. CASE UNCHANGED vars
    BY <1>1, <1>7 DEF vars
  <1> QED
    BY <1>3, <1>4, <1>5, <1>6, <1>7 DEF Next

\* No sequence of claims, tickets, burns and appointments gives an account a
\* second live Spirit, if the two collections of the pallet are different.
THEOREM OneSpiritCorrect == Spec => []OneSpiritEach
  <1>1. Init => SpiritInv
    BY AssumptionsHold
    DEF Init, RmrkInit, SpiritInv, OnlyNamedMinted, OneSpiritEach, OwnedInCollection,
        GenesisConfig, Assumptions
  <1>2. SpiritInv => OneSpiritEach
    BY DEF SpiritInv
  <1> QED
    BY <1>1, <1>2, InitType, NextType, SpiritNext, PTL DEF Spec
=============================================================================
