---------------------------- MODULE WorldProofs -----------------------------
(***************************************************************************)
(* Theorems about PhalaWorld, the two pallets and the clock in one chain,  *)
(* for every value of the constants.                                       *)
(***************************************************************************)
EXTENDS PhalaWorld, LedgerProofs

USE DEF balancesVars, rmrkVars, setupVars, stockVars, preorderVars, saleVars

-----------------------------------------------------------------------------
(* What the steps do to the collections.                                   *)

\* A step of the sale mints a Spirit, a shell or a batch of shells, or some
\* user burns an item; all others leave the collections alone.
LEMMA SaleItems ==
    ASSUME TypeOK, Next
    PROVE  \/ \E a \in Account : DoMintSpirit(a)
           \/ \E to \in Account, rarity \in RarityType, race \in RaceType,
                 career \in CareerType, price \in Nat, t \in NftSaleType,
                 check \in BOOLEAN :
                    /\ overlord # None
                    /\ DoMintShell(to, rarity, race, career, price, t, check)
           \/ \E ids \in IdLists : MintChosenPreorders(ids)
           \/ \E a \in Burners, c \in CollectionId :
                 \E i \in DOMAIN items[c] :
                    /\ BurnNft(a, c, i)
                    /\ UNCHANGED <<balancesVars, saleVars>>
           \/ UNCHANGED items
  <1> DEFINE ShellStep ==
        \E to \in Account, rarity \in RarityType, race \in RaceType,
           career \in CareerType, price \in Nat, t \in NftSaleType, check \in BOOLEAN :
              /\ overlord # None
              /\ DoMintShell(to, rarity, race, career, price, t, check)
  <1>1. ASSUME NEW a \in Account, UserCall(a)
        PROVE  DoMintSpirit(a) \/ ShellStep \/ UNCHANGED items
    <2>1. ASSUME NEW rarity \in RarityType, NEW race \in RaceType, NEW career \in CareerType,
                 BuyRareOriginOfShell(a, rarity, race, career)
          PROVE  ShellStep
      <3>1. RarePrice[rarity] \in Nat /\ (~LastDayOfSale) \in BOOLEAN
        BY <2>1, AssumptionsHold DEF BuyRareOriginOfShell, RarePrice, Assumptions, LastDayOfSale
      <3> QED
        BY <2>1, <3>1 DEF BuyRareOriginOfShell, NftSaleType
    <2>2. ASSUME NEW race \in RaceType, NEW career \in CareerType,
                 BuyPrimeOriginOfShell(a, race, career)
          PROVE  ShellStep
      <3>1. PrimeOriginOfShellPrice \in Nat /\ (~LastDayOfSale) \in BOOLEAN
        BY AssumptionsHold DEF Assumptions, LastDayOfSale
      <3> QED
        BY <2>2, <3>1 DEF BuyPrimeOriginOfShell, NftSaleType, RarityType
    <2>3. ASSUME NEW race, NEW career, PreorderOriginOfShell(a, race, career)
          PROVE  UNCHANGED items
      BY <2>3 DEF PreorderOriginOfShell
    <2> HIDE DEF ShellStep
    <2> QED
      BY <1>1, <2>1, <2>2, <2>3 DEF UserCall, ClaimSpirit, RedeemSpirit
  <1>2. ASSUME NEW a \in Account, NEW rarity \in RarityType, NEW race \in RaceType,
               NEW career \in CareerType, NEW saleType \in NftSaleType,
               MintGiftOriginOfShell(a, rarity, race, career, saleType)
        PROVE  ShellStep
    BY <1>2 DEF MintGiftOriginOfShell
  <1>3. AdminCall => ShellStep \/ UNCHANGED items
    <2> HIDE DEF ShellStep
    <2> QED
      BY <1>2
      DEF AdminCall, SetStatusType, InitRarityTypeCounts, UpdateRarityTypeCounts,
          SetSpiritCollectionId, SetOriginOfShellCollectionId, PwCreateCollection,
          CreateCollection, SetSpiritsMetadata, SetOriginOfShellsMetadata, SetOverlord
  <1>4. SettlementCall => (\E ids \in IdLists : MintChosenPreorders(ids)) \/ UNCHANGED items
    BY DEF SettlementCall, RefundNotChosenPreorders
  <1>5. Outside => \/ \E a \in Burners, c \in CollectionId :
                         \E i \in DOMAIN items[c] :
                            /\ BurnNft(a, c, i)
                            /\ UNCHANGED <<balancesVars, saleVars>>
                   \/ UNCHANGED items
    BY AssumptionsHold DEF Outside, CreateCollection, Assumptions
  <1> HIDE DEF ShellStep
  <1>6. ShellStep \/ (\E a \in Account : DoMintSpirit(a))
          \/ (\E ids \in IdLists : MintChosenPreorders(ids))
          \/ (\E a \in Burners, c \in CollectionId :
                 \E i \in DOMAIN items[c] :
                    /\ BurnNft(a, c, i)
                    /\ UNCHANGED <<balancesVars, saleVars>>)
          \/ UNCHANGED items
    BY <1>1, <1>3, <1>4, <1>5 DEF Next
  <1> QED
    BY <1>6 DEF ShellStep

\* One more item at the end of a collection.
LEMMA OneMoreItem ==
    ASSUME TypeOK, NEW c \in CollectionId, NEW item,
           items' = [items EXCEPT ![c] = Append(@, item)]
    PROVE  /\ Len(items[c]) \in Nat
           /\ DOMAIN items[c] = 1 .. Len(items[c])
           /\ DOMAIN items'[c] = 1 .. (Len(items[c]) + 1)
           /\ \A i \in DOMAIN items[c] : items'[c][i] = items[c][i]
           /\ items'[c][Len(items[c]) + 1] = item
           /\ \A d \in CollectionId \ {c} : items'[d] = items[d]
  <1>1. items \in [CollectionId -> Seq(Item)] /\ items[c] \in Seq(Item)
    BY DEF TypeOK, RmrkTypeOK
  <1>2. items'[c] = Append(items[c], item)
    BY <1>1
  <1> QED
    BY <1>1, <1>2

LEMMA BurnedItem ==
    ASSUME TypeOK, NEW a \in Account, NEW c \in CollectionId, NEW i \in DOMAIN items[c],
           BurnNft(a, c, i)
    PROVE  /\ DOMAIN items'[c] = DOMAIN items[c]
           /\ \A j \in DOMAIN items[c] :
                 /\ items'[c][j].owner = IF j = i THEN None ELSE items[c][j].owner
                 /\ items'[c][j].attrs = items[c][j].attrs
           /\ \A d \in CollectionId \ {c} : items'[d] = items[d]
  <1>1. items[c] \in Seq(Item) /\ items[c][i] \in Item
    BY DEF TypeOK, RmrkTypeOK
  <1>2. /\ [items[c][i] EXCEPT !.owner = None].owner = None
        /\ [items[c][i] EXCEPT !.owner = None].attrs = items[c][i].attrs
    BY <1>1 DEF Item
  <1> QED
    BY <1>1, <1>2 DEF BurnNft, TypeOK, RmrkTypeOK

\* Of the calls of the incubation only the one that hatches a shell touches the
\* collections, and none touches what belongs to the sale.
LEMMA IncubationItems ==
    ASSUME IncubationCall
    PROVE  /\ UNCHANGED <<balancesVars, saleVars, nextCollectionId, issuer>>
           /\ executing /\ UNCHANGED clockVars
           /\ (\E i \in Inc!NftId : Inc!HatchOriginOfShell(i)) \/ UNCHANGED items
  BY DEF IncubationCall, Inc!IncubationCall, Inc!StartIncubation, Inc!FeedOriginOfShell,
         Inc!HatchOriginOfShell, Inc!UpdateIncubationTime,
         Inc!SetCanStartIncubationStatus, Inc!SetShellCollectionId,
         Inc!clockVars, Inc!rmrkVars, clockVars

\* What hatching shell i does: the shell is burned, and another one with its
\* owner and attributes is the last item of the awakened collection.
LEMMA HatchedItem ==
    ASSUME TypeOK, shellCollectionId \in CollectionId \cup {None}, NEW i \in Inc!NftId,
           Inc!HatchOriginOfShell(i)
    PROVE  LET o == originOfShellCollectionId
               s == shellCollectionId
           IN  /\ o \in CollectionId /\ s \in CollectionId
               /\ o # None /\ s # None
               /\ i \in DOMAIN items[o]
               /\ items[o][i] \in Item
               /\ items[o][i].attrs \in Attributes /\ items[o][i].owner \in Account
               /\ items' = [[items EXCEPT ![o][i].owner = None]
                              EXCEPT ![s] = Append(@, items[o][i])]
               /\ Len(items[s]) + 1 <= U32Max
               /\ UNCHANGED <<originOfShellCollectionId, shellCollectionId>>
  <1> DEFINE o == originOfShellCollectionId
             s == shellCollectionId
  <1>1. /\ o # None /\ s # None /\ i \in DOMAIN items[o]
        /\ items[o][i].owner # None /\ items[o][i].attrs # None
    BY DEF Inc!HatchOriginOfShell, Inc!OwnerOf
  <1>2. o \in CollectionId /\ s \in CollectionId
    BY <1>1 DEF TypeOK
  <1>3. items[o] \in Seq(Item)
    BY <1>2 DEF TypeOK, RmrkTypeOK
  <1>4. items[o][i] \in Item
    BY <1>1, <1>3
  <1> QED
    BY <1>1, <1>2, <1>4
    DEF Inc!HatchOriginOfShell, Inc!Awaken, Inc!CanMint, Inc!saleVars, Inc!phaseVars, Item

\* The same, item by item, if the two collections are different.
LEMMA HatchedItems ==
    ASSUME TypeOK, shellCollectionId \in CollectionId \cup {None}, NEW i \in Inc!NftId,
           Inc!HatchOriginOfShell(i), shellCollectionId # originOfShellCollectionId
    PROVE  LET o == originOfShellCollectionId
               s == shellCollectionId
               n == Len(items[s])
           IN  /\ n \in Nat /\ DOMAIN items[s] = 1 .. n
               /\ DOMAIN items'[s] = 1 .. (n + 1)
               /\ \A j \in 1 .. n : items'[s][j] = items[s][j]
               /\ items'[s][n + 1] = items[o][i]
               /\ DOMAIN items'[o] = DOMAIN items[o]
               /\ \A j \in DOMAIN items[o] :
                     /\ items'[o][j].owner = IF j = i THEN None ELSE items[o][j].owner
                     /\ items'[o][j].attrs = items[o][j].attrs
               /\ \A d \in CollectionId \ {o, s} : items'[d] = items[d]
  <1> DEFINE o == originOfShellCollectionId
             s == shellCollectionId
             item == items[o][i]
             burned == [items EXCEPT ![o][i].owner = None]
  <1>1. /\ o \in CollectionId /\ s \in CollectionId
        /\ i \in DOMAIN items[o]
        /\ item \in Item
        /\ items' = [burned EXCEPT ![s] = Append(@, item)]
    BY HatchedItem
  <1>2. items \in [CollectionId -> Seq(Item)] /\ items[o] \in Seq(Item) /\ items[s] \in Seq(Item)
    BY <1>1 DEF TypeOK, RmrkTypeOK
  <1>3. burned = [items EXCEPT ![o] = [items[o] EXCEPT ![i] = [item EXCEPT !.owner = None]]]
    BY <1>1, <1>2
  <1>4. /\ items'[s] = Append(items[s], item)
        /\ items'[o] = [items[o] EXCEPT ![i] = [item EXCEPT !.owner = None]]
        /\ \A d \in CollectionId \ {o, s} : items'[d] = items[d]
    <2> HIDE DEF item, burned
    <2> QED
      BY <1>1, <1>2, <1>3
  <1>5. /\ [item EXCEPT !.owner = None].owner = None
        /\ [item EXCEPT !.owner = None].attrs = item.attrs
    BY <1>1 DEF Item
  <1> HIDE DEF item
  <1>6. /\ DOMAIN items'[o] = DOMAIN items[o]
        /\ \A j \in DOMAIN items[o] :
              /\ items'[o][j].owner = IF j = i THEN None ELSE items[o][j].owner
              /\ items'[o][j].attrs = items[o][j].attrs
    BY <1>1, <1>2, <1>4, <1>5 DEF item
  <1>7. /\ Len(items[s]) \in Nat /\ DOMAIN items[s] = 1 .. Len(items[s])
        /\ DOMAIN items'[s] = 1 .. (Len(items[s]) + 1)
        /\ \A j \in 1 .. Len(items[s]) : items'[s][j] = items[s][j]
        /\ items'[s][Len(items[s]) + 1] = item
    BY <1>2, <1>4
  <1> QED
    BY <1>4, <1>6, <1>7 DEF item

LEMMA HatchType ==
    ASSUME TypeOK, shellCollectionId \in CollectionId \cup {None}, NEW i \in Inc!NftId,
           Inc!HatchOriginOfShell(i)
    PROVE  items' \in [CollectionId -> Seq(Item)]
  <1> DEFINE o == originOfShellCollectionId
             s == shellCollectionId
             item == items[o][i]
             burned == [items EXCEPT ![o][i].owner = None]
  <1>1. /\ o \in CollectionId /\ s \in CollectionId
        /\ i \in DOMAIN items[o]
        /\ item \in Item
        /\ items' = [burned EXCEPT ![s] = Append(@, item)]
    BY HatchedItem
  <1>2. items \in [CollectionId -> Seq(Item)] /\ items[o] \in Seq(Item)
    BY <1>1 DEF TypeOK, RmrkTypeOK
  <1>3. [item EXCEPT !.owner = None] \in Item
    BY <1>1 DEF Item
  <1>4. [items[o] EXCEPT ![i] = [item EXCEPT !.owner = None]] \in Seq(Item)
    <2> HIDE DEF item
    <2> QED
      BY <1>1, <1>2, <1>3
  <1>5. burned = [items EXCEPT ![o] = [items[o] EXCEPT ![i] = [item EXCEPT !.owner = None]]]
    BY <1>1, <1>2
  <1>6. burned \in [CollectionId -> Seq(Item)]
    <2> HIDE DEF item, burned
    <2> QED
      BY <1>1, <1>2, <1>4, <1>5
  <1>7. Append(burned[s], item) \in Seq(Item)
    <2> HIDE DEF item, burned
    <2> QED
      BY <1>1, <1>6
  <1> HIDE DEF item, burned
  <1> QED
    BY <1>1, <1>6, <1>7
-----------------------------------------------------------------------------
(* The sale in the chain: its types, its escrow and its rare supply hold    *)
(* with the incubation and the clock beside it.                            *)

\* A step of the chain is one of the sale or leaves its storage alone, but for
\* the collections.
LEMMA WorldStep ==
    ASSUME [WorldNext]_worldVars
    PROVE  \/ executing /\ Next /\ UNCHANGED <<clockVars, incubationVars>>
           \/ IncubationCall
           \/ UNCHANGED <<vars, incubationVars>> /\ [Clock!Next]_(Clock!vars)
  BY DEF WorldNext, SaleCall, InitializeWorldClock, BeginBlock, FinalizeBlock, worldVars,
         Clock!Next, Clock!vars, clockVars

ShellCollectionType == shellCollectionId \in CollectionId \cup {None}

SaleInv == EscrowInv /\ RareInv /\ ShellCollectionType

LEMMA WorldType ==
    TypeOK /\ ShellCollectionType /\ [WorldNext]_worldVars => TypeOK' /\ ShellCollectionType'
  <1> SUFFICES ASSUME TypeOK, ShellCollectionType, [WorldNext]_worldVars
               PROVE  TypeOK' /\ ShellCollectionType'
    OBVIOUS
  <1>1. CASE executing /\ Next /\ UNCHANGED <<clockVars, incubationVars>>
    BY <1>1, NextType DEF ShellCollectionType, incubationVars
  <1>2. CASE IncubationCall
    <2>1. /\ UNCHANGED <<balancesVars, saleVars, nextCollectionId, issuer>>
          /\ (\E i \in Inc!NftId : Inc!HatchOriginOfShell(i)) \/ UNCHANGED items
      BY <1>2, IncubationItems
    <2>2. items' \in [CollectionId -> Seq(Item)]
      BY <2>1, HatchType DEF TypeOK, RmrkTypeOK, ShellCollectionType
    <2>3. TypeOK'
      BY <2>1, <2>2 DEF TypeOK, RmrkTypeOK, BalancesTypeOK
    <2>4. ShellCollectionType'
      BY <1>2, WorldAssumption
      DEF IncubationCall, Inc!IncubationCall, Inc!StartIncubation, Inc!FeedOriginOfShell,
          Inc!HatchOriginOfShell, Inc!UpdateIncubationTime,
          Inc!SetCanStartIncubationStatus, Inc!SetShellCollectionId, Inc!phaseVars,
          ShellCollectionType
    <2> QED
      BY <2>3, <2>4
  <1>3. CASE UNCHANGED <<vars, incubationVars>>
    <2>1. [Next]_vars
      BY <1>3 DEF vars
    <2> QED
      BY <1>3, <2>1, NextType DEF ShellCollectionType, incubationVars
  <1> QED
    BY <1>1, <1>2, <1>3, WorldStep

LEMMA SaleInvStep == SaleInv /\ [WorldNext]_worldVars => SaleInv'
  <1> SUFFICES ASSUME SaleInv, [WorldNext]_worldVars PROVE SaleInv'
    OBVIOUS
  <1>0. TypeOK /\ TypeOK' /\ ShellCollectionType'
    BY WorldType DEF SaleInv, EscrowInv
  <1> USE DEF SaleInv
  <1>1. CASE executing /\ Next /\ UNCHANGED <<clockVars, incubationVars>>
    BY <1>0, <1>1, RareNext, EscrowNext DEF EscrowInv
  <1>2. UNCHANGED <<reserved, preorders, preorderIndex, inventory>> => SaleInv'
    <2> SUFFICES ASSUME UNCHANGED <<reserved, preorders, preorderIndex, inventory>>
                 PROVE  SaleInv'
      OBVIOUS
    <2>1. UnusedIdsEmpty' /\ EscrowMatchesPreorders'
      BY EscrowQuiet
    <2>2. RareInv'
      BY DEF RareInv
    <2> QED
      BY <1>0, <2>1, <2>2 DEF EscrowInv
  <1>3. CASE IncubationCall
    BY <1>2, <1>3, IncubationItems
  <1>4. CASE UNCHANGED <<vars, incubationVars>>
    BY <1>2, <1>4 DEF vars
  <1> QED
    BY <1>1, <1>3, <1>4, WorldStep

LEMMA SaleInvInit == WorldInit => SaleInv
  BY InitType, EscrowInit
  DEF WorldInit, ClockAndIncubationInit, Init, SaleInv, EscrowInv, RareInv, ShellCollectionType

\* No call of the incubation moves a reserve or a preorder: the escrow of the
\* sale holds in the chain.
THEOREM WorldEscrowCorrect == WorldSpec => []EscrowMatchesPreorders
  BY SaleInvInit, SaleInvStep, PTL DEF WorldSpec, SaleInv, EscrowInv

LEMMA RareOf == RareInv => RareSupplyCapped
  <1> SUFFICES ASSUME RareInv, NEW rarity \in {"Magic", "Legendary"},
                      NEW race \in RaceType, inventory[<<rarity, race>>] # None
               PROVE  RowTotal(inventory[<<rarity, race>>]) = StockTotal(InitialStock[rarity])
    BY DEF RareSupplyCapped, RowTotal
  <1>1. RareKey(<<rarity, race>>)
    BY DEF RareKey, StockKey, RarityType
  <1> QED
    BY <1>1 DEF RareInv, RareKey

\* The rare shells minted and those left in stock add up to the inventory that
\* was set, with the incubation beside the sale.
THEOREM WorldRareSupplyCorrect == WorldSpec => []RareSupplyCapped
  BY SaleInvInit, SaleInvStep, RareOf, PTL DEF WorldSpec, SaleInv

\* A step of the chain is one of the sale, or leaves its funds, its preorders
\* and the next id alone.
LEMMA SaleOrQuiet ==
    ASSUME [WorldNext]_worldVars
    PROVE  [Next]_vars \/ UNCHANGED <<balancesVars, preorders, preorderIndex>>
  <1>1. CASE IncubationCall
    BY <1>1, IncubationItems
  <1>2. CASE UNCHANGED <<vars, incubationVars>>
    BY <1>2 DEF vars
  <1> QED
    BY <1>1, <1>2, WorldStep

\* In the chain of both pallets, too, each owner in a settled batch gets, for
\* each of its preorders in it, a shell or its price: hatching and the other
\* calls of the incubation are no settlements and do not take part in one.
THEOREM WorldSettlementCorrect == WorldSpec => PreorderSettlement
  <1>1. SaleInv /\ [WorldNext]_worldVars =>
          [preorderIndex' = preorderIndex /\ preorders' # preorders =>
             \A a \in Account \ {overlord} :
                free'[a] - free[a]
                    + PrimeOriginOfShellPrice * Cardinality(ShellsGained(a))
                = PrimeOriginOfShellPrice
                    * Cardinality(OpenPreorders(a) \ OpenPreorders(a)')]_vars
    BY SaleOrQuiet, SettlementStep DEF SaleInv
  <1> QED
    BY <1>1, SaleInvInit, SaleInvStep, PTL DEF WorldSpec, PreorderSettlement

\* And the chain implements Escrow, with the deposits that preorders are.
THEOREM WorldEscrowImplemented == WorldSpec => ImplementsEscrow
  <1>1. WorldInit => EscrowOfSale!Init
    BY EscrowStarts DEF WorldInit
  <1>2. SaleInv /\ [WorldNext]_worldVars => [EscrowOfSale!Next]_(EscrowOfSale!vars)
    <2>1. SaleInv /\ [WorldNext]_worldVars => EscrowStep
      BY SaleOrQuiet, EscrowKept, EscrowIdle DEF SaleInv
    <2> QED
      BY <2>1 DEF EscrowStep, EscrowOfSale!vars
  <1> QED
    BY <1>1, <1>2, SaleInvInit, SaleInvStep, PTL
    DEF WorldSpec, ImplementsEscrow, EscrowOfSale!Spec

\* No call of either pallet creates or destroys funds.
THEOREM WorldFundsConservedCorrect ==
    IsFiniteSet(Account) /\ WorldSpec => []FundsConserved
  <1> SUFFICES ASSUME IsFiniteSet(Account) PROVE WorldSpec => []FundsConserved
    OBVIOUS
  <1>1. WorldInit => FundsConserved
    BY FundsStart DEF WorldInit
  <1>2. SaleInv /\ FundsConserved /\ [WorldNext]_worldVars => FundsConserved'
    <2> SUFFICES ASSUME SaleInv, FundsConserved, [WorldNext]_worldVars
                 PROVE  FundsConserved'
      OBVIOUS
    <2>1. CASE UNCHANGED <<free, reserved>>
      BY <2>1 DEF FundsConserved, Units, TotalBalance
    <2> QED
      BY <2>1, SaleOrQuiet, FundsStay DEF SaleInv, EscrowInv
  <1> QED
    BY <1>1, <1>2, SaleInvInit, SaleInvStep, PTL DEF WorldSpec
-----------------------------------------------------------------------------
(* The rare shells in existence. Hatching burns one shell and mints another, *)
(* so that the counters of the sale bound the live shells of both           *)
(* collections together, as long as no collection was named for two things; *)
(* and a collection that is named holds no shell yet.                       *)

RareKeys == {k \in StockKey : RareKey(k)}

Distinct ==
    /\ originOfShellCollectionId # None =>
          originOfShellCollectionId \notin {spiritCollectionId, shellCollectionId}
    /\ shellCollectionId # None => shellCollectionId # spiritCollectionId

OnlyNamedHaveAttrs ==
    \A c \in CollectionId : \A i \in DOMAIN items[c] :
        items[c][i].attrs # None =>
            /\ originOfShellCollectionId # None
            /\ c \in {originOfShellCollectionId, shellCollectionId}

LiveShells(c, k) == IF c = None THEN {} ELSE RareShells(c, k[1], k[2])

Count(k) == IF inventory[k] = None THEN 0 ELSE inventory[k].raceCount

LiveShellsCounted ==
    Distinct => \A k \in RareKeys :
        Cardinality(LiveShells(originOfShellCollectionId, k))
          + Cardinality(LiveShells(shellCollectionId, k)) <= Count(k)

NoRowYet == ~inventorySet => \A k \in StockKey : inventory[k] = None

LiveInv == OnlyNamedHaveAttrs /\ LiveShellsCounted /\ NoRowYet

\* A collection is named once.
NamedOnce ==
    /\ originOfShellCollectionId \in {None, originOfShellCollectionId'}
    /\ spiritCollectionId \in {None, spiritCollectionId'}
    /\ shellCollectionId \in {None, shellCollectionId'}

LEMMA StaysDistinct == NamedOnce /\ Distinct' => Distinct
  BY DEF NamedOnce, Distinct

LEMMA LiveFinite ==
    ASSUME TypeOK, NEW c \in CollectionId \cup {None}, NEW k
    PROVE  IsFiniteSet(LiveShells(c, k)) /\ Cardinality(LiveShells(c, k)) \in Nat
  <1>1. CASE c = None
    BY <1>1, FS_EmptySet DEF LiveShells
  <1>2. CASE c # None
    <2>1. items[c] \in Seq(Item)
      BY <1>2 DEF TypeOK, RmrkTypeOK
    <2>2. IsFiniteSet(1 .. Len(items[c]))
      BY <2>1, FS_Interval
    <2>3. LiveShells(c, k) \subseteq 1 .. Len(items[c])
      BY <1>2, <2>1 DEF LiveShells, RareShells
    <2> QED
      BY <2>2, <2>3, FS_Subset, FS_CardinalityType
  <1> QED
    BY <1>1, <1>2

\* Selling counts the shell it mints; nothing else moves the counter of a rare row.
LEMMA CountMint ==
    ASSUME TypeOK, RareInv, NEW to \in Account, NEW rarity \in RarityType,
           NEW race \in RaceType, NEW career \in CareerType, NEW price,
           NEW t \in NftSaleType, NEW check,
           DoMintShell(to, rarity, race, career, price, t, check), NEW k \in RareKeys
    PROVE  Count(k)' = Count(k) + IF k = <<rarity, race>> THEN 1 ELSE 0
  <1> DEFINE key == <<rarity, race>>
  <1>1. /\ key \in StockKey /\ k \in StockKey /\ RareKey(k)
        /\ inventory[key] \in NftSaleInfo /\ inventory[key] # None
        /\ inventory[key].left[t] >= 1
        /\ inventory' = [inventory EXCEPT ![key] = Sold(inventory[key], t, 1)]
    BY DEF DoMintShell, MayMintShell, HasRaceTypeLeft, TypeOK, StockKey, RareKeys
  <1>2. CASE k # key
    <2>1. inventory'[k] = inventory[k] /\ Count(k) \in Nat
      BY <1>1, <1>2, AssumptionsHold DEF TypeOK, Count, NftSaleInfo, U32, Assumptions
    <2> QED
      BY <1>2, <2>1 DEF Count
  <1>3. CASE k = key
    <2>1. inventory'[key] = Sold(inventory[key], t, 1)
      BY <1>1 DEF TypeOK
    <2>2. Sold(inventory[key], t, 1) \in NftSaleInfo
      BY <1>1, SoldType, AssumptionsHold DEF Assumptions
    <2>3. RowTotal(inventory[key]) <= U32Max
      <3>1. RowTotal(inventory[key]) = StockTotal(InitialStock[rarity])
        BY <1>1, <1>3 DEF RareInv
      <3> QED
        BY <3>1, AssumptionsHold DEF Assumptions
    <2>4. inventory[key].raceCount + 1 <= U32Max /\ inventory[key].raceCount \in Nat
      <3> DEFINE row == inventory[key]
      <3>1. /\ row.raceCount \in U32
            /\ \A u \in NftSaleType : row.left[u] \in U32
        BY <1>1 DEF NftSaleInfo
      <3>2. row.left[t] >= 1 /\ RowTotal(row) <= U32Max
        BY <1>1, <2>3
      <3> HIDE DEF row
      <3>3. row.raceCount + 1 <= U32Max /\ row.raceCount \in Nat
        BY <3>1, <3>2, AssumptionsHold DEF RowTotal, StockTotal, NftSaleType, U32, Assumptions
      <3> QED
        BY <3>3 DEF row
    <2>5. Sold(inventory[key], t, 1).raceCount = inventory[key].raceCount + 1
      BY <2>4, AssumptionsHold DEF Sold, Wrapped, Assumptions
    <2>6. Sold(inventory[key], t, 1) # None
      BY <2>2, AssumptionsHold DEF Assumptions
    <2> QED
      BY <1>1, <1>3, <2>1, <2>5, <2>6 DEF Count
  <1> QED
    BY <1>2, <1>3

LEMMA RowsSale ==
    ASSUME TypeOK, NoRowYet, Next
    PROVE  /\ NoRowYet'
           /\ UNCHANGED items => \A k \in RareKeys : Count(k)' = Count(k)
  <1> DEFINE Quiet == \A k \in RareKeys : Count(k)' = Count(k)
             Goal == NoRowYet' /\ (UNCHANGED items => Quiet)
  <1>1. ASSUME UNCHANGED <<inventory, inventorySet>> PROVE Goal
    BY <1>1 DEF NoRowYet, Count
  <1>2. ASSUME NEW to \in Account, NEW rarity \in RarityType, NEW race \in RaceType,
               NEW career \in CareerType, NEW price, NEW t \in NftSaleType, NEW check,
               DoMintShell(to, rarity, race, career, price, t, check)
        PROVE  Goal
    <2> DEFINE key == <<rarity, race>>
               item == [owner |-> to, attrs |-> [rarity |-> rarity, race |-> race,
                                                 career |-> career]]
               c == originOfShellCollectionId
    <2>1. inventorySet' = inventorySet /\ inventory[key] # None /\ key \in StockKey
      BY <1>2 DEF DoMintShell, MayMintShell, HasRaceTypeLeft, StockKey
    <2>2. c \in CollectionId /\ items' = [items EXCEPT ![c] = Append(@, item)]
      BY <1>2 DEF DoMintShell, MayMintShell, TypeOK
    <2>3. /\ Len(items[c]) \in Nat
          /\ DOMAIN items[c] = 1 .. Len(items[c])
          /\ DOMAIN items'[c] = 1 .. (Len(items[c]) + 1)
      <3> HIDE DEF item
      <3> QED
        BY <2>2, OneMoreItem
    <2>4. items' # items
      BY <2>3
    <2> QED
      BY <2>1, <2>4 DEF NoRowYet
  <1>3. ASSUME SettlementCall PROVE Goal
    <2>1. ASSUME NEW ids \in IdLists, MintChosenPreorders(ids) PROVE Goal
      <3> DEFINE S == IdsOf(Batch(ids))
      <3>1. /\ inventorySet' = inventorySet
            /\ inventory' = [k \in StockKey |->
                  IF k[1] = "Prime" /\ NumberOfRace(S, k[2]) > 0
                  THEN Sold(inventory[k], "ForSale", NumberOfRace(S, k[2]))
                  ELSE inventory[k]]
            /\ \A r \in RaceType : NumberOfRace(S, r) > 0 => inventory[<<"Prime", r>>] # None
        BY <2>1 DEF MintChosenPreorders, MayMintChosen, HasRaceTypeLeft
      <3> HIDE DEF S
      <3>2. Quiet
        BY <3>1 DEF Count, RareKeys, RareKey
      <3>3. NoRowYet'
        BY <3>1 DEF NoRowYet, StockKey
      <3> QED
        BY <3>2, <3>3
    <2> QED
      BY <1>1, <1>3, <2>1 DEF SettlementCall, RefundNotChosenPreorders
  <1>4. ASSUME InitRarityTypeCounts PROVE Goal
    <2>1. ASSUME NEW k \in StockKey PROVE inventory[k] = None /\ Count(k)' = 0
      <3>1. InitialStock[k[1]] \in [NftSaleType -> U32]
        BY AssumptionsHold DEF Assumptions, StockKey
      <3>2. [raceCount |-> 0, left |-> InitialStock[k[1]]] \in NftSaleInfo
        BY <3>1, AssumptionsHold DEF Assumptions, NftSaleInfo, U32
      <3> QED
        BY <1>4, <3>2, AssumptionsHold
        DEF InitRarityTypeCounts, InitialInventory, NoRowYet, Count, Assumptions
    <2> QED
      BY <1>4, <2>1 DEF InitRarityTypeCounts, NoRowYet, Count, RareKeys
  <1>5. ASSUME NEW counts \in UpdateCounts, UpdateRarityTypeCounts(counts)
        PROVE  Goal
    <2>1. /\ \A k \in RareKeys : inventory'[k] = inventory[k]
          /\ \A k \in StockKey : inventory[k] = None => inventory'[k] = None
          /\ inventorySet' = inventorySet
      BY <1>5 DEF UpdateRarityTypeCounts, RareKeys, RareKey, Restocked
    <2> QED
      BY <2>1 DEF NoRowYet, Count, RareKeys
  <1> HIDE DEF Goal
  <1>6. ASSUME NEW a \in Account, UserCall(a) PROVE Goal
    BY <1>1, <1>2, <1>6
    DEF UserCall, ClaimSpirit, RedeemSpirit, DoMintSpirit, PreorderOriginOfShell,
        BuyRareOriginOfShell, BuyPrimeOriginOfShell, NftSaleType, RarityType
  <1>7. ASSUME AdminCall \/ Outside PROVE Goal
    BY <1>1, <1>2, <1>4, <1>5, <1>7
    DEF AdminCall, MintGiftOriginOfShell, SetStatusType, SetSpiritCollectionId,
        SetOriginOfShellCollectionId, PwCreateCollection, SetSpiritsMetadata,
        SetOriginOfShellsMetadata, SetOverlord, Outside
  <1>8. Goal
    BY <1>3, <1>6, <1>7, <1>1 DEF Next
  <1> QED
    BY <1>8 DEF Goal

\* A step that makes no shell: the live ones are no more than before.
NoNewShell ==
    \A c \in CollectionId : \A i \in DOMAIN items'[c] :
        items'[c][i].attrs # None =>
            /\ i \in DOMAIN items[c]
            /\ items[c][i].attrs = items'[c][i].attrs
            /\ items'[c][i].owner # None => items[c][i].owner # None

SameNames ==
    UNCHANGED <<originOfShellCollectionId, spiritCollectionId, shellCollectionId>>

LEMMA LiveQuiet ==
    ASSUME SaleInv, LiveInv, SameNames, NoNewShell, \A k \in RareKeys : Count(k)' = Count(k)
    PROVE  OnlyNamedHaveAttrs' /\ LiveShellsCounted'
  <1>1. TypeOK /\ shellCollectionId \in CollectionId \cup {None}
    BY DEF SaleInv, EscrowInv, ShellCollectionType
  <1>2. OnlyNamedHaveAttrs'
    BY DEF LiveInv, OnlyNamedHaveAttrs, NoNewShell, SameNames
  <1>3. ASSUME NEW c \in CollectionId \cup {None}, NEW d, d = c, d' = d, NEW k
        PROVE  /\ Cardinality(LiveShells(d, k)') <= Cardinality(LiveShells(d, k))
               /\ Cardinality(LiveShells(d, k)') \in Nat
               /\ Cardinality(LiveShells(d, k)) \in Nat
    <2>1. LiveShells(d, k)' \subseteq LiveShells(d, k)
      BY <1>3 DEF LiveShells, RareShells, NoNewShell
    <2>2. IsFiniteSet(LiveShells(d, k)) /\ Cardinality(LiveShells(d, k)) \in Nat
      BY <1>1, <1>3, LiveFinite
    <2>3. IsFiniteSet(LiveShells(d, k)')
      BY <2>1, <2>2, FS_Subset
    <2> QED
      BY <2>1, <2>2, <2>3, FS_Subset, FS_CardinalityType
  <1>4. ASSUME Distinct', NEW k \in RareKeys
        PROVE  (Cardinality(LiveShells(originOfShellCollectionId, k))
                + Cardinality(LiveShells(shellCollectionId, k)) <= Count(k))'
    <2> DEFINE o == originOfShellCollectionId
               s == shellCollectionId
    <2>1. Distinct
      BY <1>4 DEF Distinct, SameNames
    <2>2. Cardinality(LiveShells(o, k)) + Cardinality(LiveShells(s, k)) <= Count(k)
      BY <2>1 DEF LiveInv, LiveShellsCounted
    <2>3. o \in CollectionId \cup {None} /\ o' = o /\ s' = s
      BY <1>1 DEF TypeOK, SameNames
    <2>4. /\ Cardinality(LiveShells(o, k)') <= Cardinality(LiveShells(o, k))
          /\ Cardinality(LiveShells(o, k)') \in Nat /\ Cardinality(LiveShells(o, k)) \in Nat
      BY <1>3, <2>3
    <2>5. /\ Cardinality(LiveShells(s, k)') <= Cardinality(LiveShells(s, k))
          /\ Cardinality(LiveShells(s, k)') \in Nat /\ Cardinality(LiveShells(s, k)) \in Nat
      BY <1>1, <1>3, <2>3
    <2>6. Count(k)' = Count(k) /\ Count(k) \in Nat
      BY <1>1, AssumptionsHold
      DEF Count, RareKeys, TypeOK, NftSaleInfo, U32, Assumptions
    <2> QED
      BY <2>2, <2>4, <2>5, <2>6
  <1> QED
    BY <1>2, <1>4 DEF LiveShellsCounted, RareKeys, RareKey

LEMMA LiveSpirit ==
    ASSUME TypeOK, NEW a \in Account, DoMintSpirit(a)
    PROVE  NoNewShell
  <1> DEFINE c == spiritCollectionId
             item == [owner |-> a, attrs |-> None]
  <1>1. c \in CollectionId /\ items' = [items EXCEPT ![c] = Append(@, item)]
    BY DEF DoMintSpirit, TypeOK
  <1>2. /\ Len(items[c]) \in Nat
        /\ DOMAIN items[c] = 1 .. Len(items[c])
        /\ DOMAIN items'[c] = 1 .. (Len(items[c]) + 1)
        /\ \A i \in DOMAIN items[c] : items'[c][i] = items[c][i]
        /\ items'[c][Len(items[c]) + 1] = item
        /\ \A d \in CollectionId \ {c} : items'[d] = items[d]
    BY <1>1, OneMoreItem
  <1>3. item.attrs = None
    OBVIOUS
  <1> QED
    BY <1>2, <1>3 DEF NoNewShell

LEMMA LiveBurn ==
    ASSUME TypeOK, NEW a \in Account, NEW c \in CollectionId, NEW i \in DOMAIN items[c],
           BurnNft(a, c, i)
    PROVE  NoNewShell
  BY BurnedItem DEF NoNewShell

\* A purchase or a gift.
LEMMA LiveMint ==
    ASSUME SaleInv, LiveInv, SameNames, NEW to \in Account, NEW rarity \in RarityType,
           NEW race \in RaceType, NEW career \in CareerType, NEW price,
           NEW t \in NftSaleType, NEW check,
           DoMintShell(to, rarity, race, career, price, t, check)
    PROVE  OnlyNamedHaveAttrs' /\ LiveShellsCounted'
  <1> DEFINE o == originOfShellCollectionId
             s == shellCollectionId
             m == Len(items[o])
             attrs == [rarity |-> rarity, race |-> race, career |-> career]
             item == [owner |-> to, attrs |-> attrs]
  <1>1. /\ TypeOK /\ RareInv
        /\ o \in CollectionId /\ o # None /\ s \in CollectionId \cup {None}
        /\ items' = [items EXCEPT ![o] = Append(@, item)]
    BY AssumptionsHold
    DEF SaleInv, EscrowInv, ShellCollectionType, DoMintShell, MayMintShell, TypeOK, Assumptions
  <1>2. /\ m \in Nat
        /\ DOMAIN items[o] = 1 .. m
        /\ DOMAIN items'[o] = 1 .. (m + 1)
        /\ \A i \in DOMAIN items[o] : items'[o][i] = items[o][i]
        /\ items'[o][m + 1] = item
        /\ \A d \in CollectionId \ {o} : items'[d] = items[d]
    BY <1>1, OneMoreItem
  <1>3. o' = o /\ s' = s
    BY DEF SameNames
  <1>4. OnlyNamedHaveAttrs'
    BY <1>1, <1>2, <1>3 DEF LiveInv, OnlyNamedHaveAttrs
  <1>5. item.attrs = attrs /\ attrs.rarity = rarity /\ attrs.race = race
        /\ attrs # None /\ item.owner # None
    BY AssumptionsHold DEF Attributes, Assumptions
  <1> HIDE DEF attrs, item, m
  <1>6. ASSUME Distinct', NEW k \in RareKeys
        PROVE  (Cardinality(LiveShells(originOfShellCollectionId, k))
                + Cardinality(LiveShells(shellCollectionId, k)) <= Count(k))'
    <2>1. Distinct /\ s # o
      BY <1>1, <1>3, <1>6 DEF Distinct, SameNames
    <2>2. Cardinality(LiveShells(o, k)) + Cardinality(LiveShells(s, k)) <= Count(k)
      BY <2>1 DEF LiveInv, LiveShellsCounted
    <2>3. LiveShells(s, k)' = LiveShells(s, k)
      BY <1>1, <1>2, <1>3, <2>1 DEF LiveShells, RareShells
    <2>4. LiveShells(o, k)' = LiveShells(o, k)
                              \cup (IF k = <<rarity, race>> THEN {m + 1} ELSE {})
      <3>1. k = <<k[1], k[2]>>
        BY DEF RareKeys, StockKey
      <3>2. LiveShells(o, k) = {i \in 1 .. m :
              /\ items[o][i].owner # None /\ items[o][i].attrs # None
              /\ items[o][i].attrs.rarity = k[1] /\ items[o][i].attrs.race = k[2]}
        BY <1>1, <1>2 DEF LiveShells, RareShells
      <3>3. LiveShells(o, k)' = {i \in 1 .. (m + 1) :
              /\ items'[o][i].owner # None /\ items'[o][i].attrs # None
              /\ items'[o][i].attrs.rarity = k[1] /\ items'[o][i].attrs.race = k[2]}
        BY <1>1, <1>2, <1>3 DEF LiveShells, RareShells
      <3>4. 1 .. (m + 1) = (1 .. m) \cup {m + 1}
        BY <1>2
      <3>5. \A i \in 1 .. m : items'[o][i] = items[o][i]
        BY <1>2
      <3>6. k = <<rarity, race>> <=> k[1] = rarity /\ k[2] = race
        BY <3>1
      <3> HIDE DEF o
      <3> QED
        BY <1>2, <1>5, <3>2, <3>3, <3>4, <3>5, <3>6
    <2>5. m + 1 \notin LiveShells(o, k)
      BY <1>1, <1>2 DEF LiveShells, RareShells
    <2>6. /\ IsFiniteSet(LiveShells(o, k)) /\ Cardinality(LiveShells(o, k)) \in Nat
          /\ Cardinality(LiveShells(s, k)) \in Nat
      BY <1>1, LiveFinite
    <2>7. Cardinality(LiveShells(o, k)')
            = Cardinality(LiveShells(o, k)) + IF k = <<rarity, race>> THEN 1 ELSE 0
      <3>1. CASE k = <<rarity, race>>
        <4>1. LiveShells(o, k)' = LiveShells(o, k) \cup {m + 1}
          BY <2>4, <3>1
        <4> QED
          BY <2>5, <2>6, <3>1, <4>1, FS_AddElement
      <3>2. CASE k # <<rarity, race>>
        <4>1. LiveShells(o, k)' = LiveShells(o, k)
          BY <2>4, <3>2
        <4> QED
          BY <2>6, <3>2, <4>1
      <3> QED
        BY <3>1, <3>2
    <2>8. Count(k)' = Count(k) + IF k = <<rarity, race>> THEN 1 ELSE 0
      BY <1>1, CountMint
    <2>9. Count(k) \in Nat
      BY <1>1, AssumptionsHold DEF Count, RareKeys, TypeOK, NftSaleInfo, U32, Assumptions
    <2> QED
      BY <2>2, <2>3, <2>6, <2>7, <2>8, <2>9
  <1> QED
    BY <1>4, <1>6 DEF LiveShellsCounted, RareKeys, RareKey

\* A batch mints Prime shells only.
LEMMA BatchItems ==
    ASSUME TypeOK, NEW ids \in IdLists, MintChosenPreorders(ids)
    PROVE  LET o == originOfShellCollectionId
               m == Len(items[o])
           IN  /\ o \in CollectionId /\ o # None
               /\ m \in Nat /\ DOMAIN items[o] = 1 .. m
               /\ \E n \in Nat :
                     /\ DOMAIN items'[o] = 1 .. (m + n)
                     /\ \A i \in (m + 1) .. (m + n) :
                           items'[o][i].attrs # None /\ items'[o][i].attrs.rarity = "Prime"
               /\ \A i \in 1 .. m : items'[o][i] = items[o][i]
               /\ \A d \in CollectionId \ {o} : items'[d] = items[d]
  <1> DEFINE o == originOfShellCollectionId
             m == Len(items[o])
             batch == Batch(ids)
             n == Len(batch)
             minted == [i \in DOMAIN batch |->
                  [owner |-> preorders[batch[i]].owner,
                   attrs |-> [rarity |-> "Prime", race |-> preorders[batch[i]].race,
                              career |-> preorders[batch[i]].career]]]
  <1>1. /\ o \in CollectionId /\ o # None
        /\ items \in [CollectionId -> Seq(Item)] /\ items[o] \in Seq(Item)
        /\ items' = [items EXCEPT ![o] = @ \o minted]
    BY DEF MintChosenPreorders, MayMintChosen, TypeOK, RmrkTypeOK
  <1>2. /\ m \in Nat /\ DOMAIN items[o] = 1 .. m
        /\ n \in Nat /\ DOMAIN batch = 1 .. n
    BY <1>1, BatchFacts
  <1>3. ASSUME NEW i \in 1 .. n
        PROVE  minted[i].attrs # None /\ minted[i].attrs.rarity = "Prime"
    <2>1. i \in DOMAIN batch
      BY <1>2
    <2>2. batch[i] \in PreorderId /\ preorders[batch[i]] # None
      BY <2>1, BatchFacts DEF MintChosenPreorders, MayMintChosen, CanTake, IdsOf
    <2>3. preorders[batch[i]] \in PreorderInfo
      BY <2>2 DEF TypeOK
    <2>4. minted[i].attrs = [rarity |-> "Prime", race |-> preorders[batch[i]].race,
                             career |-> preorders[batch[i]].career]
      <3> HIDE DEF batch
      <3> QED
        BY <2>1
    <2>5. minted[i].attrs \in Attributes /\ minted[i].attrs.rarity = "Prime"
      <3> HIDE DEF minted
      <3> QED
        BY <2>3, <2>4 DEF Attributes, PreorderInfo, RarityType
    <2> QED
      BY <2>5, AssumptionsHold DEF Assumptions
  <1>4. DOMAIN minted = 1 .. n
    BY <1>2
  <1>5. minted \in Seq({minted[i] : i \in 1 .. n}) /\ Len(minted) = n
    <2> HIDE DEF minted, batch, n
    <2>1. minted = [i \in 1 .. n |-> minted[i]]
      BY <1>4 DEF minted
    <2>2. minted \in [1 .. n -> {minted[i] : i \in 1 .. n}]
      BY <2>1
    <2> QED
      BY <1>2, <1>4, <2>2
  <1> HIDE DEF minted, n, batch, m
  <1>6. /\ items'[o] = items[o] \o minted
        /\ \A d \in CollectionId \ {o} : items'[d] = items[d]
    BY <1>1
  <1>7. /\ DOMAIN items'[o] = 1 .. (m + n)
        /\ \A i \in 1 .. m : items'[o][i] = items[o][i]
        /\ \A i \in (m + 1) .. (m + n) : items'[o][i] = minted[i - m]
    BY <1>1, <1>2, <1>5, <1>6 DEF m
  <1>8. \A i \in (m + 1) .. (m + n) :
            items'[o][i].attrs # None /\ items'[o][i].attrs.rarity = "Prime"
    <2> TAKE i \in (m + 1) .. (m + n)
    <2>1. i - m \in 1 .. n
      BY <1>2
    <2> QED
      BY <1>3, <1>7, <2>1
  <1> QED
    BY <1>1, <1>2, <1>6, <1>7, <1>8 DEF m

LEMMA LiveBatch ==
    ASSUME SaleInv, LiveInv, SameNames, NEW ids \in IdLists, MintChosenPreorders(ids)
    PROVE  OnlyNamedHaveAttrs' /\ LiveShellsCounted'
  <1> DEFINE o == originOfShellCollectionId
             s == shellCollectionId
             m == Len(items[o])
  <1>1. TypeOK /\ s \in CollectionId \cup {None}
    BY DEF SaleInv, EscrowInv, ShellCollectionType
  <1>2. PICK n \in Nat :
           /\ DOMAIN items'[o] = 1 .. (m + n)
           /\ \A i \in (m + 1) .. (m + n) :
                 items'[o][i].attrs # None /\ items'[o][i].attrs.rarity = "Prime"
    BY <1>1, BatchItems
  <1>3. /\ o \in CollectionId /\ o # None
        /\ m \in Nat /\ DOMAIN items[o] = 1 .. m
        /\ \A i \in 1 .. m : items'[o][i] = items[o][i]
        /\ \A d \in CollectionId \ {o} : items'[d] = items[d]
    BY <1>1, BatchItems
  <1>4. o' = o /\ s' = s
    BY DEF SameNames
  <1>5. OnlyNamedHaveAttrs'
    BY <1>3, <1>4 DEF LiveInv, OnlyNamedHaveAttrs
  <1> HIDE DEF m
  <1>6. ASSUME Distinct', NEW k \in RareKeys
        PROVE  (Cardinality(LiveShells(originOfShellCollectionId, k))
                + Cardinality(LiveShells(shellCollectionId, k)) <= Count(k))'
    <2>1. Distinct /\ s # o
      BY <1>3, <1>4, <1>6 DEF Distinct, SameNames
    <2>2. Cardinality(LiveShells(o, k)) + Cardinality(LiveShells(s, k)) <= Count(k)
      BY <2>1 DEF LiveInv, LiveShellsCounted
    <2>3. LiveShells(s, k)' = LiveShells(s, k)
      BY <1>1, <1>3, <1>4, <2>1 DEF LiveShells, RareShells
    <2>4. LiveShells(o, k)' = LiveShells(o, k)
      <3>1. k[1] # "Prime"
        BY DEF RareKeys, RareKey
      <3>2. 1 .. (m + n) = (1 .. m) \cup ((m + 1) .. (m + n))
        BY <1>3
      <3> QED
        BY <1>2, <1>3, <1>4, <3>1, <3>2 DEF LiveShells, RareShells
    <2>5. k[1] # "Prime" /\ k \in StockKey
      BY DEF RareKeys, RareKey
    <2>6. Count(k)' = Count(k)
      BY <2>5 DEF Count, MintChosenPreorders
    <2> QED
      BY <1>4, <2>2, <2>3, <2>4, <2>6
  <1> QED
    BY <1>5, <1>6 DEF LiveShellsCounted, RareKeys, RareKey

\* Hatching burns one shell and mints one with the same attributes.
LEMMA LiveHatch ==
    ASSUME SaleInv, LiveInv, SameNames, NEW i \in Inc!NftId, Inc!HatchOriginOfShell(i),
           UNCHANGED inventory
    PROVE  OnlyNamedHaveAttrs' /\ LiveShellsCounted'
  <1> DEFINE o == originOfShellCollectionId
             s == shellCollectionId
             n == Len(items[s])
             item == items[o][i]
  <1>1. /\ TypeOK /\ s \in CollectionId \cup {None}
        /\ o \in CollectionId /\ s \in CollectionId
        /\ o # None /\ s # None /\ o' = o /\ s' = s
        /\ i \in DOMAIN items[o]
        /\ item.attrs # None /\ item.owner # None
    BY HatchedItem, AssumptionsHold
    DEF SaleInv, EscrowInv, ShellCollectionType, Assumptions
  <1>2. OnlyNamedHaveAttrs'
    <2>1. \A d \in CollectionId \ {o, s} : items'[d] = items[d]
      BY <1>1, HatchedItem DEF TypeOK, RmrkTypeOK
    <2> QED
      BY <1>1, <2>1 DEF LiveInv, OnlyNamedHaveAttrs
  <1>3. ASSUME Distinct', NEW k \in RareKeys
        PROVE  (Cardinality(LiveShells(originOfShellCollectionId, k))
                + Cardinality(LiveShells(shellCollectionId, k)) <= Count(k))'
    <2>1. Distinct /\ s # o
      BY <1>1, <1>3 DEF Distinct, SameNames
    <2>2. Cardinality(LiveShells(o, k)) + Cardinality(LiveShells(s, k)) <= Count(k)
      BY <2>1 DEF LiveInv, LiveShellsCounted
    <2>3. /\ n \in Nat /\ DOMAIN items[s] = 1 .. n
          /\ DOMAIN items'[s] = 1 .. (n + 1)
          /\ \A j \in 1 .. n : items'[s][j] = items[s][j]
          /\ items'[s][n + 1] = item
          /\ DOMAIN items'[o] = DOMAIN items[o]
          /\ \A j \in DOMAIN items[o] :
                /\ items'[o][j].owner = IF j = i THEN None ELSE items[o][j].owner
                /\ items'[o][j].attrs = items[o][j].attrs
      BY <1>1, <2>1, HatchedItems
    <2> DEFINE Same == item.attrs.rarity = k[1] /\ item.attrs.race = k[2]
    <2> HIDE DEF n
    <2>4. LiveShells(o, k)' = LiveShells(o, k) \ {i}
      BY <1>1, <2>3 DEF LiveShells, RareShells
    <2>5. i \in LiveShells(o, k) <=> Same
      BY <1>1 DEF LiveShells, RareShells
    <2>6. LiveShells(s, k)' = LiveShells(s, k) \cup (IF Same THEN {n + 1} ELSE {})
      <3>1. 1 .. (n + 1) = (1 .. n) \cup {n + 1}
        BY <2>3
      <3>2. LiveShells(s, k) = {j \in 1 .. n :
              /\ items[s][j].owner # None /\ items[s][j].attrs # None
              /\ items[s][j].attrs.rarity = k[1] /\ items[s][j].attrs.race = k[2]}
        BY <1>1, <2>3 DEF LiveShells, RareShells
      <3>3. LiveShells(s, k)' = {j \in 1 .. (n + 1) :
              /\ items'[s][j].owner # None /\ items'[s][j].attrs # None
              /\ items'[s][j].attrs.rarity = k[1] /\ items'[s][j].attrs.race = k[2]}
        BY <1>1, <2>3 DEF LiveShells, RareShells
      <3> HIDE DEF s, item
      <3> QED
        BY <1>1, <2>3, <3>1, <3>2, <3>3
    <2>7. n + 1 \notin LiveShells(s, k)
      BY <1>1, <2>3 DEF LiveShells, RareShells
    <2>8. /\ IsFiniteSet(LiveShells(o, k)) /\ Cardinality(LiveShells(o, k)) \in Nat
          /\ IsFiniteSet(LiveShells(s, k)) /\ Cardinality(LiveShells(s, k)) \in Nat
      BY <1>1, LiveFinite
    <2>9. Count(k)' = Count(k) /\ Count(k) \in Nat
      BY <1>1, AssumptionsHold DEF Count, RareKeys, TypeOK, NftSaleInfo, U32, Assumptions
    <2> HIDE DEF Same
    <2>10. CASE Same
      <3>1. Cardinality(LiveShells(o, k)') = Cardinality(LiveShells(o, k)) - 1
        BY <2>4, <2>5, <2>8, <2>10, FS_RemoveElement
      <3>2. Cardinality(LiveShells(s, k)') = Cardinality(LiveShells(s, k)) + 1
        <4>1. LiveShells(s, k)' = LiveShells(s, k) \cup {n + 1}
          BY <2>6, <2>10
        <4> QED
          BY <2>7, <2>8, <4>1, FS_AddElement
      <3> QED
        BY <1>1, <2>2, <2>8, <2>9, <3>1, <3>2
    <2>11. CASE ~Same
      <3>1. LiveShells(o, k)' = LiveShells(o, k) /\ LiveShells(s, k)' = LiveShells(s, k)
        BY <2>4, <2>5, <2>6, <2>11
      <3> QED
        BY <1>1, <2>2, <2>9, <3>1
    <2> QED
      BY <2>10, <2>11
  <1> QED
    BY <1>2, <1>3 DEF LiveShellsCounted, RareKeys, RareKey

\* No shell is made or burned; a collection that is named now has no shells.
LEMMA LiveNamed ==
    ASSUME SaleInv, SaleInv', LiveInv, NamedOnce, UNCHANGED items,
           \A k \in RareKeys : Count(k)' = Count(k)
    PROVE  OnlyNamedHaveAttrs' /\ LiveShellsCounted'
  <1> DEFINE o == originOfShellCollectionId
             s == shellCollectionId
  <1>1. /\ TypeOK
        /\ o \in CollectionId \cup {None} /\ s \in CollectionId \cup {None}
        /\ o' \in CollectionId \cup {None} /\ s' \in CollectionId \cup {None}
        /\ None \notin CollectionId
    BY AssumptionsHold
    DEF SaleInv, EscrowInv, ShellCollectionType, TypeOK, CollectionId, Assumptions
  <1>2. OnlyNamedHaveAttrs'
    BY <1>1 DEF LiveInv, OnlyNamedHaveAttrs, NamedOnce
  <1>3. ASSUME Distinct', NEW k \in RareKeys
        PROVE  (Cardinality(LiveShells(originOfShellCollectionId, k))
                + Cardinality(LiveShells(shellCollectionId, k)) <= Count(k))'
    <2>1. Distinct
      BY <1>3, StaysDistinct
    <2>2. Cardinality(LiveShells(o, k)) + Cardinality(LiveShells(s, k)) <= Count(k)
      BY <2>1 DEF LiveInv, LiveShellsCounted
    <2>3. LiveShells(None, k) = {}
      BY DEF LiveShells
    <2>4. LiveShells(o, k)' = LiveShells(o, k)
      <3>1. CASE o' = o
        BY <3>1 DEF LiveShells, RareShells
      <3>2. CASE o' # o
        <4>1. o = None /\ o' \in CollectionId
          BY <1>1, <3>2 DEF NamedOnce
        <4>2. \A j \in DOMAIN items[o'] : items[o'][j].attrs = None
          BY <4>1 DEF LiveInv, OnlyNamedHaveAttrs
        <4> QED
          BY <2>3, <4>1, <4>2 DEF LiveShells, RareShells
      <3> QED
        BY <3>1, <3>2
    <2>5. LiveShells(s, k)' = LiveShells(s, k)
      <3>1. CASE s' = s
        BY <3>1 DEF LiveShells, RareShells
      <3>2. CASE s' # s
        <4>1. s = None /\ s' \in CollectionId
          BY <1>1, <3>2 DEF NamedOnce
        <4>2. o # None => o' = o /\ s' # o
          BY <1>3 DEF NamedOnce, Distinct
        <4>3. \A j \in DOMAIN items[s'] : items[s'][j].attrs = None
          BY <1>1, <4>1, <4>2 DEF LiveInv, OnlyNamedHaveAttrs
        <4> QED
          BY <2>3, <4>1, <4>3 DEF LiveShells, RareShells
      <3> QED
        BY <3>1, <3>2
    <2> QED
      BY <1>1, <2>2, <2>4, <2>5
  <1> QED
    BY <1>2, <1>3 DEF LiveShellsCounted, RareKeys, RareKey

LEMMA NamedOnceSale ==
    ASSUME Next, UNCHANGED incubationVars
    PROVE  NamedOnce
  <1> DEFINE Same == UNCHANGED <<originOfShellCollectionId, spiritCollectionId>>
             Named == \/ originOfShellCollectionId = None /\ UNCHANGED spiritCollectionId
                      \/ spiritCollectionId = None /\ UNCHANGED originOfShellCollectionId
  <1>1. ASSUME NEW a \in Account, UserCall(a) PROVE Same
    <2>1. DoMintSpirit(a) => Same
      BY DEF DoMintSpirit
    <2>2. ASSUME NEW rarity, NEW race, NEW career, NEW price, NEW t, NEW check,
                 DoMintShell(a, rarity, race, career, price, t, check)
          PROVE  Same
      BY <2>2 DEF DoMintShell
    <2>3. ASSUME NEW race, NEW career, PreorderOriginOfShell(a, race, career)
          PROVE  Same
      BY <2>3 DEF PreorderOriginOfShell
    <2> HIDE DEF Same
    <2> QED
      BY <1>1, <2>1, <2>2, <2>3
      DEF UserCall, ClaimSpirit, RedeemSpirit, BuyRareOriginOfShell, BuyPrimeOriginOfShell
  <1>2. SettlementCall => Same
    BY DEF SettlementCall, MintChosenPreorders, RefundNotChosenPreorders
  <1>3. AdminCall => Same \/ Named
    BY DEF AdminCall, MintGiftOriginOfShell, DoMintShell, SetStatusType,
           InitRarityTypeCounts, UpdateRarityTypeCounts, SetSpiritCollectionId,
           SetOriginOfShellCollectionId, PwCreateCollection, SetSpiritsMetadata,
           SetOriginOfShellsMetadata, SetOverlord
  <1>4. Outside => Same
    BY DEF Outside
  <1>5. Same \/ Named
    BY <1>1, <1>2, <1>3, <1>4 DEF Next
  <1> QED
    BY <1>5 DEF NamedOnce, incubationVars

LEMMA LiveSale ==
    ASSUME SaleInv, SaleInv', LiveInv, Next, UNCHANGED incubationVars
    PROVE  LiveInv'
  <1>1. TypeOK /\ NoRowYet
    BY DEF SaleInv, EscrowInv, LiveInv
  <1>2. NoRowYet'
    BY <1>1, RowsSale
  <1> DEFINE Goal == OnlyNamedHaveAttrs' /\ LiveShellsCounted'
  <1>3. ASSUME NEW a \in Account, DoMintSpirit(a) PROVE Goal
    <2>1. SameNames /\ \A k \in RareKeys : Count(k)' = Count(k)
      BY <1>3 DEF DoMintSpirit, SameNames, incubationVars, Count
    <2> QED
      BY <1>1, <1>3, <2>1, LiveSpirit, LiveQuiet
  <1>4. ASSUME NEW to \in Account, NEW rarity \in RarityType,
               NEW race \in RaceType, NEW career \in CareerType, NEW price,
               NEW t \in NftSaleType, NEW check,
               DoMintShell(to, rarity, race, career, price, t, check)
        PROVE  Goal
    <2>1. SameNames
      BY <1>4 DEF DoMintShell, SameNames, incubationVars
    <2> QED
      BY <1>4, <2>1, LiveMint
  <1>5. ASSUME NEW ids \in IdLists, MintChosenPreorders(ids) PROVE Goal
    <2>1. SameNames
      BY <1>5 DEF MintChosenPreorders, SameNames, incubationVars
    <2> QED
      BY <1>5, <2>1, LiveBatch
  <1>6. ASSUME NEW a \in Burners, NEW c \in CollectionId, NEW i \in DOMAIN items[c],
               BurnNft(a, c, i), UNCHANGED <<balancesVars, saleVars>>
        PROVE  Goal
    <2>1. SameNames /\ \A k \in RareKeys : Count(k)' = Count(k)
      BY <1>6 DEF SameNames, incubationVars, Count
    <2>2. a \in Account
      BY AssumptionsHold DEF Assumptions
    <2> QED
      BY <1>1, <1>6, <2>1, <2>2, LiveBurn, LiveQuiet
  <1>7. ASSUME UNCHANGED items PROVE Goal
    BY <1>1, <1>7, NamedOnceSale, RowsSale, LiveNamed
  <1> HIDE DEF Goal
  <1>8. Goal
    BY <1>1, <1>3, <1>4, <1>5, <1>6, <1>7, SaleItems
  <1> QED
    BY <1>2, <1>8 DEF LiveInv, Goal

LEMMA LiveIncubation ==
    ASSUME SaleInv, SaleInv', LiveInv, IncubationCall
    PROVE  LiveInv'
  <1>1. /\ UNCHANGED <<inventory, inventorySet, originOfShellCollectionId, spiritCollectionId>>
        /\ (\E i \in Inc!NftId : Inc!HatchOriginOfShell(i)) \/ UNCHANGED items
    BY IncubationItems
  <1>2. NoRowYet' /\ \A k \in RareKeys : Count(k)' = Count(k)
    BY <1>1 DEF LiveInv, NoRowYet, Count
  <1>3. ASSUME NEW i \in Inc!NftId, Inc!HatchOriginOfShell(i)
        PROVE  LiveInv'
    <2>1. SameNames
      BY <1>1, <1>3 DEF Inc!HatchOriginOfShell, Inc!phaseVars, SameNames
    <2> QED
      BY <1>1, <1>2, <1>3, <2>1, LiveHatch DEF LiveInv
  <1>4. CASE UNCHANGED items
    <2>1. shellCollectionId \in {None, shellCollectionId'}
      BY DEF IncubationCall, Inc!IncubationCall, Inc!StartIncubation, Inc!FeedOriginOfShell,
             Inc!HatchOriginOfShell, Inc!UpdateIncubationTime,
             Inc!SetCanStartIncubationStatus, Inc!SetShellCollectionId, Inc!phaseVars
    <2>2. NamedOnce
      BY <1>1, <2>1 DEF NamedOnce
    <2> QED
      BY <1>2, <1>4, <2>2, LiveNamed DEF LiveInv
  <1> QED
    BY <1>1, <1>3, <1>4

LEMMA LiveStep == SaleInv /\ SaleInv' /\ LiveInv /\ [WorldNext]_worldVars => LiveInv'
  <1> SUFFICES ASSUME SaleInv, SaleInv', LiveInv, [WorldNext]_worldVars PROVE LiveInv'
    OBVIOUS
  <1>1. CASE Next /\ UNCHANGED incubationVars
    BY <1>1, LiveSale
  <1>2. CASE IncubationCall
    BY <1>2, LiveIncubation
  <1>3. CASE UNCHANGED <<vars, incubationVars>>
    <2>1. NamedOnce /\ UNCHANGED <<items, inventory, inventorySet>>
      BY <1>3 DEF vars, incubationVars, NamedOnce
    <2>2. NoRowYet' /\ \A k \in RareKeys : Count(k)' = Count(k)
      BY <2>1 DEF LiveInv, NoRowYet, Count
    <2> QED
      BY <2>1, <2>2, LiveNamed DEF LiveInv
  <1> QED
    BY <1>1, <1>2, <1>3, WorldStep

LEMMA LiveInit == WorldInit => LiveInv
  <1> SUFFICES ASSUME WorldInit PROVE LiveInv
    OBVIOUS
  <1>1. SaleInv
    BY SaleInvInit
  <1>2. \A c \in CollectionId : items[c] = << >>
    BY DEF WorldInit, Init, RmrkInit
  <1>3. \A k \in StockKey : inventory[k] = None
    BY DEF WorldInit, Init
  <1>4. ASSUME NEW c \in CollectionId \cup {None}, NEW k
        PROVE  Cardinality(LiveShells(c, k)) = 0
    <2>1. LiveShells(c, k) = {}
      BY <1>2, <1>4 DEF LiveShells, RareShells
    <2> QED
      BY <2>1, FS_EmptySet
  <1>5. LiveShellsCounted
    BY <1>1, <1>3, <1>4
    DEF LiveShellsCounted, Count, RareKeys, SaleInv, EscrowInv, TypeOK, ShellCollectionType
  <1> QED
    BY <1>2, <1>3, <1>5 DEF LiveInv, OnlyNamedHaveAttrs, NoRowYet

LEMMA LiveGivesCap == SaleInv /\ LiveInv => RareShellsCapped
  <1> SUFFICES ASSUME SaleInv, LiveInv, SeparateCollections,
                      NEW rarity \in {"Magic", "Legendary"}, NEW race \in RaceType,
                      inventory[<<rarity, race>>] # None
               PROVE  Cardinality(RareShells(originOfShellCollectionId, rarity, race))
                        + Cardinality(RareShells(shellCollectionId, rarity, race))
                        + StockTotal(inventory[<<rarity, race>>].left)
                        <= StockTotal(InitialStock[rarity])
    BY DEF RareShellsCapped
  <1> DEFINE k == <<rarity, race>>
             o == originOfShellCollectionId
             s == shellCollectionId
             row == inventory[k]
  <1>1. Distinct /\ o # None /\ s # None
    BY DEF SeparateCollections, Distinct
  <1>2. k \in RareKeys /\ k \in StockKey /\ RareKey(k) /\ k[1] = rarity /\ k[2] = race
    BY DEF RareKeys, RareKey, StockKey, RarityType
  <1>3. Cardinality(LiveShells(o, k)) + Cardinality(LiveShells(s, k)) <= row.raceCount
    BY <1>1, <1>2 DEF LiveInv, LiveShellsCounted, Count
  <1>4. LiveShells(o, k) = RareShells(o, rarity, race) /\ LiveShells(s, k) = RareShells(s, rarity, race)
    BY <1>1, <1>2 DEF LiveShells
  <1>5. TypeOK /\ o \in CollectionId \cup {None} /\ s \in CollectionId \cup {None}
    BY DEF SaleInv, EscrowInv, TypeOK, ShellCollectionType
  <1>6. Cardinality(LiveShells(o, k)) \in Nat /\ Cardinality(LiveShells(s, k)) \in Nat
    BY <1>5, LiveFinite
  <1>7. row.raceCount + StockTotal(row.left) = StockTotal(InitialStock[rarity])
    BY <1>2 DEF SaleInv, RareInv, RowTotal
  <1>8. row.raceCount \in Nat /\ StockTotal(row.left) \in Nat
    <2>1. row \in NftSaleInfo
      BY <1>2, <1>5 DEF TypeOK
    <2>2. row.raceCount \in U32 /\ \A t \in NftSaleType : row.left[t] \in U32
      BY <2>1 DEF NftSaleInfo
    <2> HIDE DEF row
    <2> QED
      BY <2>2, AssumptionsHold DEF U32, StockTotal, NftSaleType, Assumptions
  <1> HIDE DEF row, k
  <1> QED
    BY <1>3, <1>4, <1>6, <1>7, <1>8 DEF row, k

\* Neither selling, giving away, restocking nor hatching makes a Magic or
\* Legendary shell too many: the live ones of both collections and those in
\* stock are never more than the inventory that was set.
THEOREM RareShellsCorrect == WorldSpec => []RareShellsCapped
  BY SaleInvInit, SaleInvStep, LiveInit, LiveStep, LiveGivesCap, PTL DEF WorldSpec
-----------------------------------------------------------------------------
(* The era in the chain. The world clock alone is exact if blocks come at   *)
(* least once in an era (WorldClockProofs); here the Overlord may start it   *)
(* between any calls of the two pallets.                                   *)

LEMMA DayDiv ==
    \A a, b \in Nat :
        /\ a \div SecondsPerEra \in Nat
        /\ a <= b => a \div SecondsPerEra <= b \div SecondsPerEra
        /\ a < SecondsPerEra => a \div SecondsPerEra = 0
        /\ (a + SecondsPerEra) \div SecondsPerEra = a \div SecondsPerEra + 1
  BY WorldAssumption

LEMMA Shifted == \A t, day, length \in Nat : t < day + length => t - day < length
  OBVIOUS

LEMMA ErasFrom ==
    ASSUME NEW day \in Nat, NEW t \in Nat, day <= t
    PROVE  /\ t - day \in Nat
           /\ Clock!ErasSince(day, t) = (t - day) \div SecondsPerEra
  <1>1. t - day \in Nat
    OBVIOUS
  <1>2. CASE t = day
    <2>1. t - day = 0
      BY <1>2
    <2>2. 0 \div SecondsPerEra = 0
      BY WorldAssumption, DayDiv
    <2> QED
      BY <1>2, <2>1, <2>2 DEF Clock!ErasSince
  <1>3. CASE t # day
    BY <1>3, AssumptionsHold DEF Clock!ErasSince, Assumptions
  <1> QED
    BY <1>1, <1>2, <1>3

\* In a block's time the era grows by one at most.
LEMMA ErasGrow ==
    ASSUME NEW day \in Nat \cup {None}, NEW t \in Nat, NEW u \in Nat,
           t <= u, u <= t + SecondsPerEra, day # None => day <= t
    PROVE  /\ Clock!ErasSince(day, t) \in Nat
           /\ Clock!ErasSince(day, u) \in Nat
           /\ Clock!ErasSince(day, t) <= Clock!ErasSince(day, u)
           /\ Clock!ErasSince(day, u) <= Clock!ErasSince(day, t) + 1
  <1>1. CASE day = None
    BY <1>1 DEF Clock!ErasSince
  <1>2. CASE day # None
    <2> DEFINE a == t - day
               b == u - day
    <2>0. day \in Nat /\ day <= t /\ day <= u
      BY <1>2
    <2>1. /\ a \in Nat /\ b \in Nat
          /\ Clock!ErasSince(day, t) = a \div SecondsPerEra
          /\ Clock!ErasSince(day, u) = b \div SecondsPerEra
      BY <2>0, ErasFrom
    <2>2. a <= b /\ b <= a + SecondsPerEra /\ a + SecondsPerEra \in Nat
      BY <2>0, WorldAssumption
    <2> HIDE DEF a, b
    <2>3. /\ a \div SecondsPerEra \in Nat /\ b \div SecondsPerEra \in Nat
          /\ a \div SecondsPerEra <= b \div SecondsPerEra
          /\ b \div SecondsPerEra <= (a + SecondsPerEra) \div SecondsPerEra
          /\ (a + SecondsPerEra) \div SecondsPerEra = a \div SecondsPerEra + 1
      BY <2>1, <2>2, DayDiv
    <2> QED
      BY <2>1, <2>3
  <1> QED
    BY <1>1, <1>2

\* On a clock within the u64 on_finalize decides as with exact numbers, and the
\* largest era is never over.
LEMMA ClockDecides == Clock!TypeOK => Clock!NothingWraps
  <1> SUFFICES ASSUME Clock!TypeOK PROVE Clock!NothingWraps
    OBVIOUS
  <1> USE WorldAssumption
  <1>1. /\ now \in 0 .. U64Max /\ era \in 0 .. U64Max
        /\ zeroDay \in (0 .. U64Max) \cup {None}
    BY DEF Clock!TypeOK, Clock!U64
  <1>2. CASE zeroDay # None /\ now > zeroDay
    <2> DEFINE n == now - zeroDay
    <2>1. n \in 0 .. U64Max
      BY <1>1, <1>2
    <2>2. Clock!SecsSince(zeroDay, now) = n
      <3> HIDE DEF n
      <3>1. n % (U64Max + 1) = n
        BY <2>1
      <3> QED
        BY <3>1 DEF Clock!SecsSince, n
    <2>3. Clock!ErasSince(zeroDay, now) = n \div SecondsPerEra
      BY <1>1, <1>2, ErasFrom
    <2>4. Clock!EraOver <=> n \div SecondsPerEra > era
      BY <1>2, <2>2 DEF Clock!EraOver
    <2> HIDE DEF n
    <2>5. n \div SecondsPerEra \in Nat /\ n \div SecondsPerEra <= n
      BY <2>1
    <2>6. n \div SecondsPerEra <= U64Max
      BY <2>1, <2>5
    <2> QED
      BY <1>1, <2>3, <2>4, <2>5, <2>6 DEF Clock!NothingWraps
  <1>3. CASE ~(zeroDay # None /\ now > zeroDay)
    <2>1. ~Clock!EraOver
      BY <1>3 DEF Clock!EraOver
    <2>2. zeroDay = None \/ now <= zeroDay
      BY <1>1, <1>3
    <2>3. Clock!ErasSince(zeroDay, now) = 0
      BY <2>2 DEF Clock!ErasSince
    <2> QED
      BY <1>1, <2>1, <2>3 DEF Clock!NothingWraps
  <1> QED
    BY <1>2, <1>3

LEMMA ClockTypeStep == Clock!TypeOK /\ [Clock!Next]_(Clock!vars) => Clock!TypeOK'
  <1> SUFFICES ASSUME Clock!TypeOK, [Clock!Next]_(Clock!vars) PROVE Clock!TypeOK'
    OBVIOUS
  <1> USE WorldAssumption DEF Clock!TypeOK, Clock!U64
  <1>1. CASE Clock!BeginBlock
    <2>1. now' \in 0 .. U64Max
      BY <1>1 DEF Clock!BeginBlock
    <2> QED
      BY <1>1, <2>1 DEF Clock!BeginBlock
  <1>2. CASE Clock!InitializeWorldClock
    <2>1. now % SecondsPerEra \in Nat /\ now % SecondsPerEra <= now
      OBVIOUS
    <2>2. now - (now % SecondsPerEra) \in 0 .. U64Max
      BY <2>1
    <2> QED
      BY <1>2, <2>2 DEF Clock!InitializeWorldClock, Clock!ZeroDayOf
  <1>3. CASE Clock!FinalizeBlock
    <2>1. Clock!EraOver => era < U64Max
      BY ClockDecides DEF Clock!NothingWraps
    <2>2. era' \in 0 .. U64Max
      BY <1>3, <2>1 DEF Clock!FinalizeBlock
    <2> QED
      BY <1>3, <2>2 DEF Clock!FinalizeBlock
  <1>4. CASE UNCHANGED Clock!vars
    BY <1>4 DEF Clock!vars
  <1> QED
    BY <1>1, <1>2, <1>3, <1>4 DEF Clock!Next

Steady == /\ \A gap \in Gaps : gap <= SecondsPerEra
          /\ ClockGenesis = [zeroDay |-> None, era |-> 0]

\* While a block is open the era may be one behind.
ExactInv ==
    /\ Clock!TypeOK
    /\ zeroDay # None => zeroDay <= now
    /\ zeroDay = None => era = 0
    /\ ~executing => era = Clock!ErasSince(zeroDay, now)
    /\ era <= Clock!ErasSince(zeroDay, now)
    /\ Clock!ErasSince(zeroDay, now) <= era + 1

LEMMA ExactStep ==
    ASSUME Steady, ExactInv, [Clock!Next]_(Clock!vars)
    PROVE  ExactInv'
  <1> USE WorldAssumption
  <1>10. Clock!TypeOK /\ Clock!TypeOK'
    BY ClockTypeStep DEF ExactInv
  <1>0. /\ now \in Nat /\ era \in Nat /\ executing \in BOOLEAN
        /\ zeroDay \in Nat \cup {None}
        /\ zeroDay # None => zeroDay <= now
        /\ now <= now /\ now <= now + SecondsPerEra
    BY <1>10 DEF ExactInv, Clock!TypeOK, Clock!U64
  <1>1. Clock!ErasSince(zeroDay, now) \in Nat
    BY <1>0, ErasGrow
  <1>2. CASE Clock!BeginBlock
    <2>1. now' \in Nat /\ now <= now' /\ now' <= now + SecondsPerEra
      BY <1>0, <1>2 DEF Clock!BeginBlock, Steady
    <2>2. /\ Clock!ErasSince(zeroDay, now) <= Clock!ErasSince(zeroDay, now')
          /\ Clock!ErasSince(zeroDay, now') <= Clock!ErasSince(zeroDay, now) + 1
          /\ Clock!ErasSince(zeroDay, now') \in Nat
      BY <1>0, <2>1, ErasGrow
    <2>3. era = Clock!ErasSince(zeroDay, now)
      BY <1>2 DEF Clock!BeginBlock, ExactInv
    <2> QED
      BY <1>0, <1>2, <1>10, <2>1, <2>2, <2>3 DEF Clock!BeginBlock, ExactInv
  <1>3. CASE Clock!InitializeWorldClock
    <2>1. now % SecondsPerEra \in Nat /\ now % SecondsPerEra < SecondsPerEra
      BY <1>0
    <2>2. now % SecondsPerEra <= now
      BY <1>0
    <2>3. /\ zeroDay' \in Nat /\ zeroDay' <= now /\ now < zeroDay' + SecondsPerEra
          /\ zeroDay = None /\ now' = now /\ era' = era /\ executing' = executing
          /\ executing /\ era = 0
      BY <1>0, <1>3, <2>1, <2>2
      DEF Clock!InitializeWorldClock, Clock!ZeroDayOf, ExactInv
    <2>4. Clock!ErasSince(zeroDay', now) = 0
      <3>1. /\ now - zeroDay' \in Nat
            /\ Clock!ErasSince(zeroDay', now) = (now - zeroDay') \div SecondsPerEra
        BY <1>0, <2>3, ErasFrom
      <3>2. now - zeroDay' < SecondsPerEra
        <4>1. SecondsPerEra \in Nat
          OBVIOUS
        <4> QED
          BY <1>0, <2>3, <4>1, Shifted
      <3> QED
        BY <3>1, <3>2, DayDiv
    <2> QED
      BY <1>0, <1>10, <2>3, <2>4, AssumptionsHold DEF ExactInv, Assumptions
  <1>4. CASE Clock!FinalizeBlock
    <2>1. /\ now' = now /\ zeroDay' = zeroDay /\ executing' = FALSE
          /\ era' = IF Clock!EraOver THEN era + 1 ELSE era
      BY <1>4 DEF Clock!FinalizeBlock
    <2>0. /\ Clock!ErasSince(zeroDay, now)' = Clock!ErasSince(zeroDay, now)
          /\ era' \in Nat
      BY <1>0, <2>1 DEF Clock!ErasSince
    <2>4. Clock!EraOver <=> Clock!ErasSince(zeroDay, now) > era
      BY <1>10, ClockDecides DEF Clock!NothingWraps
    <2> DEFINE eras == Clock!ErasSince(zeroDay, now)
    <2>5. eras \in Nat /\ era \in Nat /\ era <= eras /\ eras <= era + 1
      BY <1>0, <1>1 DEF ExactInv
    <2>2. CASE Clock!EraOver
      <3>1. zeroDay # None /\ eras > era
        BY <2>2, <2>4 DEF Clock!EraOver
      <3>2. era' = era + 1 /\ eras = era + 1
        BY <2>1, <2>2, <2>5, <3>1
      <3> HIDE DEF eras
      <3> QED
        BY <1>0, <1>10, <2>0, <2>1, <2>5, <3>1, <3>2 DEF ExactInv, eras
    <2>3. CASE ~Clock!EraOver
      <3>1. Clock!ErasSince(zeroDay, now) <= era
        BY <1>0, <1>1, <2>3, <2>4
      <3>2. era' = era /\ eras = era
        BY <2>1, <2>3, <2>5, <3>1
      <3> HIDE DEF eras
      <3> QED
        BY <1>0, <1>10, <2>0, <2>1, <2>5, <3>2 DEF ExactInv, eras
    <2> QED
      BY <2>2, <2>3
  <1>5. CASE UNCHANGED Clock!vars
    BY <1>5, <1>10 DEF Clock!vars, ExactInv
  <1> QED
    BY <1>2, <1>3, <1>4, <1>5 DEF Clock!Next

LEMMA ClockSteps == [WorldNext]_worldVars => [Clock!Next]_(Clock!vars)
  <1> SUFFICES ASSUME [WorldNext]_worldVars PROVE [Clock!Next]_(Clock!vars)
    OBVIOUS
  <1>1. UNCHANGED clockVars => [Clock!Next]_(Clock!vars)
    BY DEF Clock!vars, clockVars
  <1> QED
    BY <1>1, WorldStep, IncubationItems

LEMMA ClockTypeInit == WorldInit => Clock!TypeOK
  BY WorldAssumption
  DEF WorldInit, ClockAndIncubationInit, Clock!Init, Clock!TypeOK, Clock!U64

\* Whatever the calls of the two pallets do in it, after every block the era is
\* the one the clock says, if blocks come at least once in an era and the
\* pallet itself starts the clock.
THEOREM WorldEraCorrect == WorldSpec => []EraExact
  <1>1. CASE Steady
    <2>1. WorldInit => ExactInv
      <3> SUFFICES ASSUME WorldInit PROVE ExactInv
        OBVIOUS
      <3>1. now \in Nat /\ zeroDay = None /\ era = 0 /\ executing = FALSE
        BY <1>1, WorldAssumption
        DEF WorldInit, ClockAndIncubationInit, Clock!Init, Steady
      <3>2. Clock!ErasSince(zeroDay, now) = 0
        BY <3>1 DEF Clock!ErasSince
      <3>3. Clock!TypeOK
        BY ClockTypeInit
      <3>4. era <= Clock!ErasSince(zeroDay, now) /\ Clock!ErasSince(zeroDay, now) <= era + 1
        BY <3>1, <3>2
      <3>5. era = Clock!ErasSince(zeroDay, now)
        BY <3>1, <3>2
      <3> QED
        BY <3>1, <3>3, <3>4, <3>5 DEF ExactInv
    <2>2. ExactInv /\ [WorldNext]_worldVars => ExactInv'
      BY <1>1, ClockSteps, ExactStep
    <2>3. ExactInv => EraExact
      BY DEF ExactInv, EraExact, Clock!EraExact
    <2> QED
      BY <2>1, <2>2, <2>3, PTL DEF WorldSpec
  <1>2. CASE ~Steady
    <2>1. EraExact
      BY <1>2 DEF EraExact, Clock!EraExact, Steady
    <2>2. EraExact /\ [WorldNext]_worldVars => EraExact'
      BY <1>2 DEF EraExact, Clock!EraExact, Steady
    <2> QED
      BY <2>1, <2>2, PTL DEF WorldSpec
  <1> QED
    BY <1>1, <1>2
-----------------------------------------------------------------------------
(* The types of the whole chain.                                           *)

LEMMA RecordsFeed ==
    ASSUME Clock!TypeOK, Inc!RecordsTypeOK, NEW a \in Account, NEW i \in Inc!NftId,
           Inc!FeedOriginOfShell(a, i)
    PROVE  Inc!RecordsTypeOK'
  <1>1. era \in Nat
    BY WorldAssumption DEF Clock!TypeOK, Clock!U64
  <1>2. Inc!FoodInfoNow(a) \in Inc!FoodInfo
    BY <1>1 DEF Inc!RecordsTypeOK, Inc!FoodInfoNow, Inc!FoodInfo
  <1>3. [Inc!FoodInfoNow(a) EXCEPT !.fed = Append(@, i)] \in Inc!FoodInfo
    BY <1>2 DEF Inc!FoodInfo
  <1>4. foodByOwners' \in [Account -> Inc!FoodInfo \cup {None}]
    BY <1>3 DEF Inc!RecordsTypeOK, Inc!FeedOriginOfShell
  <1>5. Inc!FoodStats(era, i) \in Nat
    BY DEF Inc!RecordsTypeOK, Inc!FoodStats
  <1>6. /\ DOMAIN originOfShellFoodStats' \subseteq Nat \X Inc!NftId
        /\ \A k \in DOMAIN originOfShellFoodStats' : originOfShellFoodStats'[k] \in Nat
    BY <1>1, <1>5 DEF Inc!RecordsTypeOK, Inc!FeedOriginOfShell, Inc!CountFood
  <1> QED
    BY <1>4, <1>6 DEF Inc!RecordsTypeOK, Inc!FeedOriginOfShell, Inc!phaseVars

LEMMA RecordsUpdate ==
    ASSUME Inc!RecordsTypeOK, NEW S \in SUBSET Inc!NftId, NEW by \in [S -> Reductions],
           Inc!UpdateIncubationTime(by)
    PROVE  Inc!RecordsTypeOK'
  <1>1. ASSUME NEW i \in Inc!NftId, i \in S
        PROVE  Inc!Reduced(hatchTimes[i], by[i]) \in Nat
    <2>1. hatchTimes[i] \in Nat /\ by[i] \in Nat
      BY <1>1, WorldAssumption
      DEF Inc!RecordsTypeOK, Inc!UpdateIncubationTime, Inc!Incubating
    <2> QED
      BY <2>1 DEF Inc!Reduced
  <1>2. hatchTimes' \in [Inc!NftId -> Nat \cup {None}]
    BY <1>1 DEF Inc!RecordsTypeOK, Inc!UpdateIncubationTime
  <1> QED
    BY <1>2 DEF Inc!RecordsTypeOK, Inc!UpdateIncubationTime, Inc!phaseVars, Inc!foodVars

LEMMA RecordsCall ==
    ASSUME Clock!TypeOK, Inc!RecordsTypeOK, Inc!IncubationCall
    PROVE  Inc!RecordsTypeOK'
  <1> USE DEF Inc!phaseVars, Inc!foodVars
  <1>1. ASSUME NEW a \in Account, NEW i \in Inc!NftId, Inc!StartIncubation(a, i)
        PROVE  Inc!RecordsTypeOK'
    BY <1>1 DEF Inc!StartIncubation, Inc!RecordsTypeOK
  <1>2. ASSUME NEW i \in Inc!NftId, Inc!HatchOriginOfShell(i)
        PROVE  Inc!RecordsTypeOK'
    BY <1>2 DEF Inc!HatchOriginOfShell, Inc!RecordsTypeOK
  <1>3. ASSUME NEW on \in BOOLEAN, Inc!SetCanStartIncubationStatus(on)
        PROVE  Inc!RecordsTypeOK'
    <2>1. officialHatchTime' \in Nat
      BY <1>3, WorldAssumption
      DEF Inc!SetCanStartIncubationStatus, Clock!TypeOK, Clock!U64
    <2> QED
      BY <1>3, <2>1 DEF Inc!SetCanStartIncubationStatus, Inc!RecordsTypeOK
  <1>4. ASSUME NEW c \in AwakenedCollections, Inc!SetShellCollectionId(c)
        PROVE  Inc!RecordsTypeOK'
    <2>1. Inc!CollectionId = CollectionId
      BY DEF Inc!CollectionId, CollectionId
    <2> QED
      BY <1>4, <2>1, WorldAssumption DEF Inc!SetShellCollectionId, Inc!RecordsTypeOK
  <1> QED
    BY <1>1, <1>2, <1>3, <1>4, RecordsFeed, RecordsUpdate DEF Inc!IncubationCall

LEMMA RecordsStep ==
    Clock!TypeOK /\ Inc!RecordsTypeOK /\ [WorldNext]_worldVars => Inc!RecordsTypeOK'
  <1> SUFFICES ASSUME Clock!TypeOK, Inc!RecordsTypeOK, [WorldNext]_worldVars
               PROVE  Inc!RecordsTypeOK'
    OBVIOUS
  <1>1. CASE UNCHANGED incubationVars
    BY <1>1 DEF incubationVars, Inc!RecordsTypeOK
  <1>2. CASE IncubationCall
    BY <1>2, RecordsCall DEF IncubationCall
  <1> QED
    BY <1>1, <1>2, WorldStep

LEMMA RecordsInit == WorldInit => Inc!RecordsTypeOK
  <1> SUFFICES ASSUME WorldInit PROVE Inc!RecordsTypeOK
    OBVIOUS
  <1>1. originOfShellFoodStats = << >> /\ DOMAIN originOfShellFoodStats = {}
    BY DEF WorldInit, ClockAndIncubationInit
  <1> QED
    BY <1>1 DEF WorldInit, ClockAndIncubationInit, Inc!RecordsTypeOK

\* Sale, clock and incubation keep their types in one chain, where hatching
\* mints and burns in the collections of the sale: no restock goes past the
\* largest u32, no reduction takes a hatch time below zero, and neither a time
\* nor an era leaves the u64.
THEOREM WorldTypeCorrect == WorldSpec => []WorldTypeOK
  <1>1. WorldInit => Clock!TypeOK /\ Inc!RecordsTypeOK
    BY ClockTypeInit, RecordsInit
  <1>2. Clock!TypeOK /\ [WorldNext]_worldVars => Clock!TypeOK'
    BY ClockSteps, ClockTypeStep
  <1>3. Clock!TypeOK /\ Inc!RecordsTypeOK /\ [WorldNext]_worldVars => Inc!RecordsTypeOK'
    BY RecordsStep
  <1>4. SaleInv /\ Clock!TypeOK /\ Inc!RecordsTypeOK => WorldTypeOK
    BY DEF SaleInv, EscrowInv, WorldTypeOK
  <1> QED
    BY <1>1, <1>2, <1>3, <1>4, SaleInvInit, SaleInvStep, PTL DEF WorldSpec
-----------------------------------------------------------------------------
(* The chain implements Incubation, from a sale that is set up.            *)

SetUpInv ==
    /\ TypeOK
    /\ overlord \in Account
    /\ nextCollectionId = MaxCollections
    /\ originOfShellCollectionId \in CollectionId
    /\ spiritCollectionId
          \in CollectionId \ ({originOfShellCollectionId} \cup AwakenedCollections)
    /\ shellCollectionId \in AwakenedCollections \cup {None}

LEMMA SetUpFacts ==
    ASSUME SetUpInv
    PROVE  /\ TypeOK /\ ShellCollectionType
           /\ None \notin CollectionId /\ None \notin Account
           /\ overlord # None /\ originOfShellCollectionId # None /\ spiritCollectionId # None
           /\ spiritCollectionId \notin {originOfShellCollectionId, shellCollectionId}
           /\ items \in [CollectionId -> Seq(Item)]
  BY WorldAssumption, AssumptionsHold
  DEF SetUpInv, ShellCollectionType, CollectionId, Assumptions, TypeOK, RmrkTypeOK

\* The names stay, all collections exist already, and an Overlord is replaced by
\* the root origin only.
LEMMA SaleNames ==
    ASSUME SetUpInv, Next
    PROVE  /\ UNCHANGED <<nextCollectionId, issuer, originOfShellCollectionId,
                          spiritCollectionId>>
           /\ \/ overlord' = overlord
              \/ UNCHANGED items /\ \E a \in OverlordCandidates : overlord' = a
  <1> DEFINE Same == UNCHANGED <<nextCollectionId, issuer, originOfShellCollectionId,
                                 spiritCollectionId, overlord>>
             New == /\ UNCHANGED <<nextCollectionId, issuer, originOfShellCollectionId,
                                   spiritCollectionId, items>>
                    /\ \E a \in OverlordCandidates : overlord' = a
  <1>0. /\ originOfShellCollectionId # None /\ spiritCollectionId # None
        /\ ~(nextCollectionId < MaxCollections)
    BY SetUpFacts, AssumptionsHold DEF SetUpInv, Assumptions
  <1>1. ASSUME NEW a, NEW rarity, NEW race, NEW career, NEW price, NEW t, NEW check,
               DoMintShell(a, rarity, race, career, price, t, check)
        PROVE  Same
    BY <1>1 DEF DoMintShell
  <1>2. ASSUME NEW a \in Account, UserCall(a) PROVE Same
    <2>1. DoMintSpirit(a) => Same
      BY DEF DoMintSpirit
    <2>2. ASSUME NEW race, NEW career, PreorderOriginOfShell(a, race, career)
          PROVE  Same
      BY <2>2 DEF PreorderOriginOfShell
    <2> HIDE DEF Same
    <2> QED
      BY <1>1, <1>2, <2>1, <2>2
      DEF UserCall, ClaimSpirit, RedeemSpirit, BuyRareOriginOfShell, BuyPrimeOriginOfShell
  <1>3. SettlementCall => Same
    BY DEF SettlementCall, MintChosenPreorders, RefundNotChosenPreorders
  <1>4. ASSUME NEW a, NEW rarity, NEW race, NEW career, NEW t,
               MintGiftOriginOfShell(a, rarity, race, career, t)
        PROVE  Same
    BY <1>1, <1>4 DEF MintGiftOriginOfShell
  <1>5. ASSUME NEW a \in OverlordCandidates, SetOverlord(a) PROVE New
    BY <1>5 DEF SetOverlord
  <1>6. AdminCall => Same \/ New
    <2>1. (\E value \in BOOLEAN, t \in AdminStatus : SetStatusType(value, t))
            \/ InitRarityTypeCounts \/ SetSpiritsMetadata
            \/ (\E counts \in UpdateCounts : UpdateRarityTypeCounts(counts))
            \/ (\E races \in SUBSET RaceType : SetOriginOfShellsMetadata(races))
          => Same
      BY DEF SetStatusType, InitRarityTypeCounts, SetSpiritsMetadata, UpdateRarityTypeCounts,
             SetOriginOfShellsMetadata
    <2>2. ~PwCreateCollection
      BY <1>0 DEF PwCreateCollection, CreateCollection
    <2>3. ASSUME NEW c \in CollectionId
          PROVE  ~SetSpiritCollectionId(c) /\ ~SetOriginOfShellCollectionId(c)
      BY <1>0 DEF SetSpiritCollectionId, SetOriginOfShellCollectionId
    <2> HIDE DEF Same, New
    <2> QED
      BY <1>4, <1>5, <2>1, <2>2, <2>3 DEF AdminCall
  <1>7. Outside => Same
    BY <1>0 DEF Outside, CreateCollection, BurnNft
  <1>8. Same \/ New
    BY <1>2, <1>3, <1>6, <1>7 DEF Next
  <1> QED
    BY <1>8

LEMMA IncubationNames ==
    ASSUME SetUpInv, IncubationCall
    PROVE  /\ UNCHANGED <<nextCollectionId, issuer, overlord, originOfShellCollectionId,
                          spiritCollectionId>>
           /\ shellCollectionId' \in AwakenedCollections \cup {None}
  <1>1. shellCollectionId' = shellCollectionId \/ shellCollectionId' \in AwakenedCollections
    BY DEF IncubationCall, Inc!IncubationCall, Inc!StartIncubation, Inc!FeedOriginOfShell,
           Inc!HatchOriginOfShell, Inc!UpdateIncubationTime,
           Inc!SetCanStartIncubationStatus, Inc!SetShellCollectionId, Inc!phaseVars
  <1> QED
    BY <1>1, IncubationItems DEF SetUpInv

LEMMA SetUpStep == SetUpInv /\ [WorldNext]_worldVars => SetUpInv'
  <1> SUFFICES ASSUME SetUpInv, [WorldNext]_worldVars PROVE SetUpInv'
    OBVIOUS
  <1>0. TypeOK'
    BY SetUpFacts, WorldType
  <1>1. CASE Next /\ UNCHANGED incubationVars
    BY <1>0, <1>1, SaleNames, AssumptionsHold DEF SetUpInv, incubationVars, Assumptions
  <1>2. CASE IncubationCall
    BY <1>0, <1>2, IncubationNames DEF SetUpInv
  <1>3. CASE UNCHANGED <<vars, incubationVars>>
    BY <1>0, <1>3 DEF SetUpInv, vars, incubationVars
  <1> QED
    BY <1>1, <1>2, <1>3, WorldStep
-----------------------------------------------------------------------------
(* The mapped steps.                                                       *)

\* What the incubation sees of the collections.
LEMMA SeenItems ==
    ASSUME SetUpInv, UNCHANGED spiritCollectionId
    PROVE  /\ \A c \in CollectionId \ {spiritCollectionId} :
                 ShellItems[c] = items[c] /\ ShellItems'[c] = items'[c]
           /\ ShellItems[spiritCollectionId] = << >> /\ ShellItems'[spiritCollectionId] = << >>
           /\ ShellItems \in [CollectionId -> Seq(Item)]
           /\ DOMAIN ShellItems' = CollectionId
           /\ (\A c \in CollectionId \ {spiritCollectionId} : items'[c] = items[c])
                 => ShellItems' = ShellItems
  <1>1. items \in [CollectionId -> Seq(Item)] /\ spiritCollectionId \in CollectionId
    BY SetUpFacts DEF SetUpInv
  <1> QED
    BY <1>1 DEF ShellItems

\* A collection the incubation sees is all that changes.
LEMMA SeenChange ==
    ASSUME SetUpInv, UNCHANGED spiritCollectionId,
           NEW c \in CollectionId \ {spiritCollectionId}, NEW value,
           items' = [items EXCEPT ![c] = value]
    PROVE  ShellItems' = [ShellItems EXCEPT ![c] = value]
  <1>1. items \in [CollectionId -> Seq(Item)] /\ spiritCollectionId \in CollectionId
    BY SetUpFacts DEF SetUpInv
  <1> QED
    BY <1>1 DEF ShellItems

USE DEF clockVars, incubationVars

LEMMA MapSale ==
    ASSUME SetUpInv, executing,
           UNCHANGED <<clockVars, incubationVars, nextCollectionId, issuer, overlord,
                       originOfShellCollectionId, spiritCollectionId>>,
           NEW shells \in SoldShells,
           CanMint(overlord, originOfShellCollectionId, Len(shells)),
           items' = [items EXCEPT ![originOfShellCollectionId] = @ \o shells]
    PROVE  Hatchery!OtherCall
  <1> DEFINE o == originOfShellCollectionId
  <1>1. o \in CollectionId \ {spiritCollectionId} /\ ShellItems[o] = items[o]
    BY SetUpFacts, SeenItems DEF SetUpInv
  <1>2. items' = [items EXCEPT ![o] = items[o] \o shells]
    BY <1>1 DEF SetUpInv, TypeOK, RmrkTypeOK
  <1>3. ShellItems' = [ShellItems EXCEPT ![o] = items[o] \o shells]
    BY <1>1, <1>2, SeenChange
  <1>4. ShellItems' = [ShellItems EXCEPT ![o] = @ \o shells]
    BY <1>1, <1>3, SeenItems
  <1>5. Hatchery!SaleMints(shells)
    BY <1>1, <1>4 DEF Hatchery!SaleMints, Hatchery!CanMint, CanMint, Hatchery!saleVars
  <1> QED
    BY <1>5
    DEF Hatchery!OtherCall, Hatchery!clockVars, Hatchery!foodVars, Hatchery!phaseVars

LEMMA MapBurn ==
    ASSUME SetUpInv, executing,
           UNCHANGED <<clockVars, incubationVars, overlord,
                       originOfShellCollectionId, spiritCollectionId>>,
           NEW a \in Burners, NEW c \in CollectionId \ {spiritCollectionId},
           NEW i \in DOMAIN items[c], BurnNft(a, c, i)
    PROVE  Hatchery!OtherCall
  <1>1. ShellItems[c] = items[c] /\ items[c] \in Seq(Item) /\ items[c][i] \in Item
    BY SeenItems, SetUpFacts
  <1> DEFINE value == [items[c] EXCEPT ![i].owner = None]
  <1>2. items' = [items EXCEPT ![c] = value]
    BY <1>1, SetUpFacts DEF BurnNft
  <1>3. ShellItems' = [ShellItems EXCEPT ![c] = value]
    <2> HIDE DEF value
    <2> QED
      BY <1>2, SeenChange
  <1>4. ShellItems' = [ShellItems EXCEPT ![c][i].owner = None]
    BY <1>1, <1>3, SeenItems
  <1>5. Hatchery!BurnNft(a, c, i)
    BY <1>1, <1>4
    DEF Hatchery!BurnNft, BurnNft, Hatchery!OwnedInCollection, OwnedInCollection
  <1>6. i \in DOMAIN ShellItems[c]
    BY <1>1
  <1> QED
    BY <1>5, <1>6
    DEF Hatchery!OtherCall, Hatchery!CollectionId, CollectionId, Hatchery!saleVars,
        Hatchery!clockVars, Hatchery!foodVars, Hatchery!phaseVars

LEMMA MapOverlord ==
    ASSUME SetUpInv, executing,
           UNCHANGED <<clockVars, incubationVars, nextCollectionId, issuer, items,
                       originOfShellCollectionId, spiritCollectionId>>,
           NEW a \in OverlordCandidates, overlord' = a
    PROVE  Hatchery!OtherCall
  <1>1. ShellItems' = ShellItems
    BY SeenItems
  <1> QED
    BY <1>1
    DEF Hatchery!OtherCall, Hatchery!NewOverlord, Hatchery!rmrkVars, Hatchery!clockVars,
        Hatchery!foodVars, Hatchery!phaseVars

LEMMA MapQuiet ==
    ASSUME SetUpInv,
           UNCHANGED <<clockVars, incubationVars, nextCollectionId, issuer, overlord,
                       originOfShellCollectionId, spiritCollectionId>>,
           \A c \in CollectionId \ {spiritCollectionId} : items'[c] = items[c]
    PROVE  UNCHANGED Hatchery!vars
  <1>1. ShellItems' = ShellItems
    BY SeenItems
  <1> QED
    BY <1>1
    DEF Hatchery!vars, Hatchery!clockVars, Hatchery!rmrkVars, Hatchery!saleVars,
        Hatchery!foodVars, Hatchery!phaseVars

LEMMA OneShellSold ==
    ASSUME NEW to \in Account, NEW attrs \in Attributes
    PROVE  <<[owner |-> to, attrs |-> attrs]>> \in SoldShells
  <1>1. <<[owner |-> to, attrs |-> attrs]>> \in [1 .. 1 -> [owner : Account, attrs : Attributes]]
    OBVIOUS
  <1> QED
    BY <1>1 DEF SoldShells

LEMMA BatchLimit ==
    ASSUME TypeOK, NEW ids \in IdLists
    PROVE  Len(Batch(ids)) <= IterLimit
  <1>1. PICK n \in 0 .. MaxBatch : ids \in [1 .. n -> 0 .. (preorderIndex - 1)]
    BY DEF IdLists
  <1>2. ids \in Seq(PreorderId) /\ Len(ids) \in Nat /\ IterLimit \in Nat
    BY <1>1, AssumptionsHold DEF TypeOK, PreorderId, U32, Assumptions
  <1> QED
    BY <1>2 DEF Batch

LEMMA BatchSold ==
    ASSUME TypeOK, NEW ids \in IdLists, MintChosenPreorders(ids)
    PROVE  LET batch == Batch(ids)
               shells == [i \in DOMAIN batch |->
                  [owner |-> preorders[batch[i]].owner,
                   attrs |-> [rarity |-> "Prime", race |-> preorders[batch[i]].race,
                              career |-> preorders[batch[i]].career]]]
           IN  /\ shells \in SoldShells /\ Len(shells) = Len(batch)
               /\ items' = [items EXCEPT ![originOfShellCollectionId] = @ \o shells]
  <1> DEFINE batch == Batch(ids)
             n == Len(batch)
             shells == [i \in DOMAIN batch |->
                  [owner |-> preorders[batch[i]].owner,
                   attrs |-> [rarity |-> "Prime", race |-> preorders[batch[i]].race,
                              career |-> preorders[batch[i]].career]]]
  <1>1. batch \in Seq(PreorderId) /\ n \in Nat /\ DOMAIN batch = 1 .. n
    BY BatchFacts
  <1>2. n \in 1 .. IterLimit
    <2>1. DOMAIN batch # {}
      BY DEF MintChosenPreorders, MayMintChosen, IdsOf
    <2>2. n <= IterLimit
      BY BatchLimit
    <2> QED
      BY <1>1, <2>1, <2>2, AssumptionsHold DEF Assumptions
  <1>3. ASSUME NEW i \in 1 .. n
        PROVE  [owner |-> preorders[batch[i]].owner,
                attrs |-> [rarity |-> "Prime", race |-> preorders[batch[i]].race,
                           career |-> preorders[batch[i]].career]]
                  \in [owner : Account, attrs : Attributes]
    <2>1. batch[i] \in PreorderId /\ preorders[batch[i]] # None
      BY <1>1, BatchFacts DEF MintChosenPreorders, MayMintChosen, CanTake, IdsOf
    <2>2. preorders[batch[i]] \in PreorderInfo
      BY <2>1 DEF TypeOK
    <2> HIDE DEF batch
    <2> QED
      BY <2>2 DEF Attributes, PreorderInfo, RarityType
  <1>4. items' = [items EXCEPT ![originOfShellCollectionId] = @ \o shells]
    BY DEF MintChosenPreorders
  <1>5. shells \in [1 .. n -> [owner : Account, attrs : Attributes]]
    <2> HIDE DEF batch, n
    <2> QED
      BY <1>1, <1>3
  <1>6. Len(shells) = n
    <2> HIDE DEF shells
    <2> QED
      BY <1>1, <1>5
  <1>7. shells \in SoldShells
    BY <1>2, <1>5 DEF SoldShells
  <1> QED
    BY <1>4, <1>6, <1>7

\* The steps of the sale.
LEMMA MapSaleCall ==
    ASSUME SetUpInv, executing, Next, UNCHANGED <<clockVars, incubationVars>>
    PROVE  Hatchery!OtherCall \/ UNCHANGED Hatchery!vars
  <1> DEFINE o == originOfShellCollectionId
             Goal == Hatchery!OtherCall \/ UNCHANGED Hatchery!vars
  <1> HIDE DEF Goal
  <1>1. /\ TypeOK /\ o # None /\ spiritCollectionId # None
        /\ items \in [CollectionId -> Seq(Item)]
        /\ UNCHANGED <<nextCollectionId, issuer, originOfShellCollectionId, spiritCollectionId>>
    BY SetUpFacts, SaleNames
  <1>2. ASSUME overlord' = overlord PROVE Goal
    <2>1. ASSUME NEW a \in Account, DoMintSpirit(a) PROVE Goal
      <3>1. \A c \in CollectionId \ {spiritCollectionId} : items'[c] = items[c]
        BY <1>1, <2>1 DEF DoMintSpirit
      <3> QED
        BY <1>1, <1>2, <3>1, MapQuiet DEF Goal
    <2>2. ASSUME NEW to \in Account, NEW rarity \in RarityType, NEW race \in RaceType,
                 NEW career \in CareerType, NEW price \in Nat, NEW t \in NftSaleType,
                 NEW check \in BOOLEAN,
                 DoMintShell(to, rarity, race, career, price, t, check)
          PROVE  Goal
      <3> DEFINE shell == [owner |-> to, attrs |-> [rarity |-> rarity, race |-> race,
                                                    career |-> career]]
      <3>1. <<shell>> \in SoldShells
        BY OneShellSold DEF Attributes
      <3>2. /\ CanMint(overlord, o, 1)
            /\ items' = [items EXCEPT ![o] = Append(@, shell)]
        BY <2>2 DEF DoMintShell, MayMintShell
      <3>3. shell \in Item
        BY DEF Item, Attributes
      <3> HIDE DEF shell
      <3>4. items[o] \in Seq(Item)
        BY <1>1 DEF TypeOK
      <3>5. Append(items[o], shell) = items[o] \o <<shell>>
        BY <3>3, <3>4
      <3>6. items' = [items EXCEPT ![o] = @ \o <<shell>>] /\ Len(<<shell>>) = 1
        BY <3>2, <3>5
      <3> QED
        BY <1>1, <1>2, <3>1, <3>2, <3>6, MapSale DEF Goal
    <2>3. ASSUME NEW ids \in IdLists, MintChosenPreorders(ids) PROVE Goal
      <3> DEFINE shells == [i \in DOMAIN Batch(ids) |->
                  [owner |-> preorders[Batch(ids)[i]].owner,
                   attrs |-> [rarity |-> "Prime", race |-> preorders[Batch(ids)[i]].race,
                              career |-> preorders[Batch(ids)[i]].career]]]
      <3>1. /\ shells \in SoldShells /\ Len(shells) = Len(Batch(ids))
            /\ items' = [items EXCEPT ![o] = @ \o shells]
        BY <1>1, <2>3, BatchSold
      <3>2. CanMint(overlord, o, Len(Batch(ids)))
        BY <2>3 DEF MintChosenPreorders, MayMintChosen
      <3> HIDE DEF shells
      <3> QED
        BY <1>1, <1>2, <3>1, <3>2, MapSale DEF Goal
    <2>4. ASSUME NEW a \in Burners, NEW c \in CollectionId, NEW i \in DOMAIN items[c],
                 BurnNft(a, c, i)
          PROVE  Goal
      <3>1. ASSUME c = spiritCollectionId PROVE Goal
        <4>1. \A d \in CollectionId \ {spiritCollectionId} : items'[d] = items[d]
          BY <1>1, <2>4, <3>1 DEF BurnNft
        <4> QED
          BY <1>1, <1>2, <4>1, MapQuiet DEF Goal
      <3>2. ASSUME c # spiritCollectionId PROVE Goal
        BY <1>1, <1>2, <2>4, <3>2, MapBurn DEF Goal
      <3> QED
        BY <3>1, <3>2
    <2>5. ASSUME UNCHANGED items PROVE Goal
      BY <1>1, <1>2, <2>5, MapQuiet DEF Goal
    <2> QED
      BY <1>1, <2>1, <2>2, <2>3, <2>4, <2>5, SaleItems
  <1>3. ASSUME UNCHANGED items, NEW a \in OverlordCandidates, overlord' = a
        PROVE  Goal
    BY <1>1, <1>3, MapOverlord DEF Goal
  <1> QED
    BY <1>2, <1>3, SaleNames DEF Goal

\* What the incubation reads of the collections. It never looks at that of the
\* Spirits.
LEMMA MapOwners ==
    ASSUME SetUpInv, UNCHANGED spiritCollectionId
    PROVE  /\ \A i : Hatchery!OwnerOf(i) = Inc!OwnerOf(i)
           /\ \A a : Hatchery!OwnedInCollection(a, originOfShellCollectionId)
                    = Inc!OwnedInCollection(a, originOfShellCollectionId)
  <1>1. /\ originOfShellCollectionId \in CollectionId \ {spiritCollectionId}
        /\ ShellItems[originOfShellCollectionId] = items[originOfShellCollectionId]
    BY SeenItems, SetUpFacts DEF SetUpInv
  <1> QED
    BY <1>1 DEF Hatchery!OwnerOf, Inc!OwnerOf, Hatchery!OwnedInCollection,
                Inc!OwnedInCollection

\* Hatching a shell.
LEMMA MapHatch ==
    ASSUME SetUpInv, UNCHANGED <<spiritCollectionId>>,
           NEW i \in Inc!NftId, Inc!HatchOriginOfShell(i)
    PROVE  Hatchery!HatchOriginOfShell(i)
  <1> DEFINE o == originOfShellCollectionId
             s == shellCollectionId
             item == items[o][i]
             burned == [items EXCEPT ![o][i].owner = None]
             seen == [ShellItems EXCEPT ![o][i].owner = None]
  <1>1. /\ TypeOK /\ s \in CollectionId \cup {None}
        /\ items \in [CollectionId -> Seq(Item)]
        /\ spiritCollectionId \in CollectionId \ {o, s}
    BY SetUpFacts DEF ShellCollectionType, SetUpInv
  <1>2. /\ o \in CollectionId /\ s \in CollectionId
        /\ items' = [burned EXCEPT ![s] = Append(@, item)]
    BY <1>1, HatchedItem
  <1>3. /\ \A c \in CollectionId \ {spiritCollectionId} : ShellItems[c] = items[c]
        /\ ShellItems[spiritCollectionId] = << >>
        /\ ShellItems \in [CollectionId -> Seq(Item)]
    BY SeenItems
  <1>4. /\ burned = [c \in CollectionId |->
                       IF c = o THEN [items[o] EXCEPT ![i].owner = None] ELSE items[c]]
        /\ seen = [c \in CollectionId |->
                     IF c = o THEN [ShellItems[o] EXCEPT ![i].owner = None] ELSE ShellItems[c]]
    BY <1>1, <1>2, <1>3
  <1>5. ShellItems[o] = items[o]
    BY <1>1, <1>2, <1>3
  <1>6. /\ \A c \in CollectionId \ {spiritCollectionId} : seen[c] = burned[c]
        /\ seen[spiritCollectionId] = << >>
        /\ DOMAIN seen = CollectionId /\ DOMAIN burned = CollectionId
    <2> HIDE DEF seen, burned
    <2> QED
      BY <1>1, <1>3, <1>4, <1>5
  <1>7. ShellItems' = [seen EXCEPT ![s] = Append(@, item)]
    <2>1. ShellItems' = [c \in CollectionId |->
              IF c = spiritCollectionId THEN << >> ELSE items'[c]]
      BY DEF ShellItems
    <2> HIDE DEF seen, burned, item
    <2>2. items' = [c \in CollectionId |->
              IF c = s THEN Append(burned[s], item) ELSE burned[c]]
      BY <1>2, <1>6
    <2>3. [seen EXCEPT ![s] = Append(@, item)] = [c \in CollectionId |->
              IF c = s THEN Append(seen[s], item) ELSE seen[c]]
      BY <1>2, <1>6
    <2>4. seen[s] = burned[s]
      BY <1>1, <1>2, <1>6
    <2> QED
      BY <1>1, <1>2, <1>6, <2>1, <2>2, <2>3, <2>4
  <1>8. Hatchery!Awaken(i, ShellItems[o][i])
    BY <1>5, <1>7 DEF Hatchery!Awaken
  <1>9. ShellItems[s] = items[s]
    BY <1>1, <1>2, <1>3
  <1>10. Hatchery!OwnerOf(i) = Inc!OwnerOf(i)
    BY MapOwners
  <1> QED
    BY <1>5, <1>8, <1>9, <1>10
    DEF Hatchery!HatchOriginOfShell, Inc!HatchOriginOfShell,
        Hatchery!CanMint, Inc!CanMint, Hatchery!Incubating, Inc!Incubating,
        Hatchery!CanHatch, Inc!CanHatch,
        Hatchery!clockVars, Inc!clockVars, Hatchery!saleVars, Inc!saleVars,
        Hatchery!foodVars, Inc!foodVars, Hatchery!phaseVars, Inc!phaseVars

\* The calls of the incubation.
LEMMA MapIncubationCall ==
    ASSUME SetUpInv, IncubationCall
    PROVE  Hatchery!IncubationCall
  <1>1. UNCHANGED <<nextCollectionId, issuer, spiritCollectionId>>
    BY IncubationItems
  <1>2. UNCHANGED items => ShellItems' = ShellItems
    BY <1>1, SeenItems
  <1> DEFINE Unhatched == UNCHANGED <<clockVars, nextCollectionId, issuer, items,
                                      overlord, originOfShellCollectionId>>
             Seen == UNCHANGED <<Hatchery!clockVars, Hatchery!rmrkVars, Hatchery!saleVars>>
  <1>3. Unhatched => Seen
    BY <1>2 DEF Hatchery!clockVars, Hatchery!rmrkVars, Hatchery!saleVars
  <1> HIDE DEF Seen
  <1>4. /\ \A i : Hatchery!OwnerOf(i) = Inc!OwnerOf(i)
        /\ \A a : Hatchery!OwnedInCollection(a, originOfShellCollectionId)
                 = Inc!OwnedInCollection(a, originOfShellCollectionId)
    BY <1>1, MapOwners
  <1> USE DEF Inc!clockVars, Inc!rmrkVars, Inc!saleVars, Inc!foodVars, Inc!phaseVars,
              Hatchery!foodVars, Hatchery!phaseVars
  <1>5. ASSUME NEW a \in Account, NEW i \in Inc!NftId, Inc!StartIncubation(a, i)
        PROVE  Hatchery!StartIncubation(a, i)
    <2>1. Seen
      BY <1>3, <1>5 DEF Inc!StartIncubation
    <2> QED
      BY <1>4, <1>5, <2>1
      DEF Inc!StartIncubation, Hatchery!StartIncubation, Inc!Incubating,
          Hatchery!Incubating, Seen
  <1>6. ASSUME NEW a \in Account, NEW i \in Inc!NftId, Inc!FeedOriginOfShell(a, i)
        PROVE  Hatchery!FeedOriginOfShell(a, i)
    <2>1. Seen
      BY <1>3, <1>6 DEF Inc!FeedOriginOfShell
    <2>2. Hatchery!FoodInfoNow(a) = Inc!FoodInfoNow(a)
      BY DEF Hatchery!FoodInfoNow, Inc!FoodInfoNow
    <2>3. Hatchery!TimesIn(Inc!FoodInfoNow(a).fed, i) = Inc!TimesIn(Inc!FoodInfoNow(a).fed, i)
      BY DEF Hatchery!TimesIn, Inc!TimesIn, Hatchery!Cardinality, Inc!Cardinality
    <2>4. Hatchery!CountFood(a, i)
      BY <1>6
      DEF Inc!FeedOriginOfShell, Hatchery!CountFood, Inc!CountFood, Hatchery!FoodStats,
          Inc!FoodStats
    <2>5. /\ Hatchery!Incubating(i) <=> Inc!Incubating(i)
          /\ Hatchery!CanHatch(i) <=> Inc!CanHatch(i)
      BY DEF Inc!Incubating, Hatchery!Incubating, Inc!CanHatch, Hatchery!CanHatch
    <2>6. /\ executing /\ canStartIncubation
          /\ Inc!Incubating(i) /\ ~Inc!CanHatch(i)
          /\ Inc!OwnedInCollection(a, originOfShellCollectionId) # {}
          /\ Inc!TimesIn(Inc!FoodInfoNow(a).fed, i) < MaxFoodFeedSelf
          /\ Len(Inc!FoodInfoNow(a).fed) < FoodPerEra
          /\ foodByOwners' = [foodByOwners EXCEPT ![a] =
                                 [Inc!FoodInfoNow(a) EXCEPT !.fed = Append(@, i)]]
          /\ UNCHANGED <<Inc!phaseVars, hatchTimes>>
      BY <1>6 DEF Inc!FeedOriginOfShell
    <2> QED
      BY <1>4, <2>1, <2>2, <2>3, <2>4, <2>5, <2>6
      DEF Hatchery!FeedOriginOfShell, Seen
  <1>7. ASSUME NEW i \in Inc!NftId, Inc!HatchOriginOfShell(i)
        PROVE  Hatchery!HatchOriginOfShell(i)
    BY <1>1, <1>7, MapHatch
  <1>8. ASSUME NEW by, Inc!UpdateIncubationTime(by)
        PROVE  Hatchery!UpdateIncubationTime(by)
    <2>1. Seen
      BY <1>3, <1>8 DEF Inc!UpdateIncubationTime
    <2> QED
      BY <1>8, <2>1
      DEF Inc!UpdateIncubationTime, Hatchery!UpdateIncubationTime, Inc!Incubating,
          Hatchery!Incubating, Inc!Reduced, Hatchery!Reduced, Inc!NftId, Hatchery!NftId, Seen
  <1>9. ASSUME NEW on \in BOOLEAN, Inc!SetCanStartIncubationStatus(on)
        PROVE  Hatchery!SetCanStartIncubationStatus(on)
    <2>1. Seen
      BY <1>3, <1>9 DEF Inc!SetCanStartIncubationStatus
    <2> QED
      BY <1>9, <2>1
      DEF Inc!SetCanStartIncubationStatus, Hatchery!SetCanStartIncubationStatus, Seen
  <1>10. ASSUME NEW c \in AwakenedCollections, Inc!SetShellCollectionId(c)
         PROVE  Hatchery!SetShellCollectionId(c)
    <2>1. Seen
      BY <1>3, <1>10 DEF Inc!SetShellCollectionId
    <2> QED
      BY <1>10, <2>1 DEF Inc!SetShellCollectionId, Hatchery!SetShellCollectionId, Seen
  <1>11. Hatchery!NftId = Inc!NftId
    BY DEF Hatchery!NftId, Inc!NftId
  <1> QED
    BY <1>5, <1>6, <1>7, <1>8, <1>9, <1>10, <1>11
    DEF IncubationCall, Inc!IncubationCall, Hatchery!IncubationCall

\* Every step of the chain.
LEMMA MapStep == SetUpInv /\ [WorldNext]_worldVars => [Hatchery!Next]_(Hatchery!vars)
  <1> SUFFICES ASSUME SetUpInv, [WorldNext]_worldVars
               PROVE  Hatchery!Next \/ UNCHANGED Hatchery!vars
    OBVIOUS
  <1>1. CASE executing /\ Next /\ UNCHANGED <<clockVars, incubationVars>>
    BY <1>1, MapSaleCall DEF Hatchery!Next
  <1>2. CASE IncubationCall
    BY <1>2, MapIncubationCall DEF Hatchery!Next
  <1>3. CASE UNCHANGED <<vars, incubationVars>> /\ [Clock!Next]_(Clock!vars)
    <2>1. UNCHANGED <<ShellItems, nextCollectionId, issuer, overlord,
                      originOfShellCollectionId, incubationVars>>
      BY <1>3 DEF vars, ShellItems
    <2>2. CASE UNCHANGED Clock!vars
      BY <2>1, <2>2
      DEF Clock!vars, Hatchery!vars, Hatchery!clockVars, Hatchery!rmrkVars,
          Hatchery!saleVars, Hatchery!foodVars, Hatchery!phaseVars
    <2>3. CASE Clock!Next
      <3>1. Hatchery!Clock!Next
        BY <2>3
        DEF Clock!Next, Clock!BeginBlock, Clock!InitializeWorldClock, Clock!FinalizeBlock,
            Clock!ZeroDayOf, Clock!EraOver, Clock!SecsSince,
            Hatchery!Clock!Next, Hatchery!Clock!BeginBlock,
            Hatchery!Clock!InitializeWorldClock, Hatchery!Clock!FinalizeBlock,
            Hatchery!Clock!ZeroDayOf, Hatchery!Clock!EraOver, Hatchery!Clock!SecsSince
      <3> QED
        BY <2>1, <3>1
        DEF Hatchery!Next, Hatchery!ClockStep, Hatchery!rmrkVars, Hatchery!saleVars,
            Hatchery!foodVars, Hatchery!phaseVars
    <2> QED
      BY <1>3, <2>2, <2>3
  <1> QED
    BY <1>1, <1>2, <1>3, WorldStep

LEMMA MapInit == SetUpInit => SetUpInv /\ Hatchery!Init
  <1> SUFFICES ASSUME SetUpInit PROVE SetUpInv /\ Hatchery!Init
    OBVIOUS
  <1>1. SetUpInv
    BY DEF SetUpInit, SaleSetUp, ClockAndIncubationInit, SetUpInv, TypeOK
  <1>2. ShellItems = [c \in CollectionId |-> << >>]
    BY <1>1 DEF ShellItems, SetUpInit, SaleSetUp
  <1>3. Hatchery!Clock!Init
    BY DEF SetUpInit, ClockAndIncubationInit, Clock!Init, Hatchery!Clock!Init
  <1>4. Hatchery!CollectionId = CollectionId /\ Hatchery!NftId = Inc!NftId
    BY DEF Hatchery!CollectionId, CollectionId, Hatchery!NftId, Inc!NftId
  <1>5. Hatchery!Init
    BY <1>2, <1>3, <1>4
    DEF Hatchery!Init, SetUpInit, SaleSetUp, ClockAndIncubationInit
  <1> QED
    BY <1>1, <1>5

\* From any state in which the sale is set up, the chain implements Incubation:
\* the calls of the real sale (nft_sale.rs) are to the incubation
\* (incubation.rs) what Incubation outlines, so that what is proved of
\* Incubation alone holds in the runtime with both pallets.
THEOREM IncubationImplemented ==
    SetUpInit /\ [][WorldNext]_worldVars => ImplementsIncubation
  <1>1. SetUpInit => SetUpInv /\ Hatchery!Init
    BY MapInit
  <1>2. SetUpInv /\ [WorldNext]_worldVars => SetUpInv'
    BY SetUpStep
  <1>3. SetUpInv /\ [WorldNext]_worldVars => [Hatchery!Next]_(Hatchery!vars)
    BY MapStep
  <1> QED
    BY <1>1, <1>2, <1>3, PTL DEF ImplementsIncubation
=============================================================================
