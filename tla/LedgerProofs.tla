---------------------------- MODULE LedgerProofs -----------------------------
(***************************************************************************)
(* What NftSale counts and what is paid for, for every value of the        *)
(* constants: its counters agree with the shells that exist, nobody gets a *)
(* shell for another price than its own, and no funds appear or disappear. *)
(***************************************************************************)
EXTENDS PreorderProofs

USE DEF balancesVars, rmrkVars, setupVars, stockVars, preorderVars, saleVars

\* The shells ever minted, burned ones included, with attributes of a set.
Minted(T) ==
    IF originOfShellCollectionId = None THEN {}
    ELSE {i \in DOMAIN items[originOfShellCollectionId] :
             items[originOfShellCollectionId][i].attrs \in T}

KeyAttrs(k) == {attrs \in Attributes : attrs.rarity = k[1] /\ attrs.race = k[2]}
CareerAttrs(c) == {attrs \in Attributes : attrs.career = c}

\* No other collection holds a shell, so that none is there when the Overlord
\* names one; and nothing is minted of a row that is not there, so that the
\* inventory starts from none.
OnlyShellsHaveAttrs ==
    \A c \in CollectionId \ {originOfShellCollectionId} :
        \A i \in DOMAIN items[c] : items[c][i].attrs = None

CounterInv ==
    /\ OnlyShellsHaveAttrs
    /\ \A k \in StockKey : ~inventorySet => inventory[k] = None
    /\ \A k \in StockKey :
          Cardinality(Minted(KeyAttrs(k)))
            = IF inventory[k] = None THEN 0 ELSE inventory[k].raceCount
    /\ \A c \in CareerType :
          careerTypeCount[c] = Cardinality(Minted(CareerAttrs(c)))

LEMMA MintedFinite ==
    ASSUME TypeOK, NEW T
    PROVE  IsFiniteSet(Minted(T)) /\ Cardinality(Minted(T)) \in Nat
  <1>1. CASE originOfShellCollectionId = None
    BY <1>1, FS_EmptySet DEF Minted
  <1>2. CASE originOfShellCollectionId # None
    <2>1. items[originOfShellCollectionId] \in Seq(Item)
      BY <1>2 DEF TypeOK, RmrkTypeOK
    <2>2. IsFiniteSet(1 .. Len(items[originOfShellCollectionId]))
      BY <2>1, FS_Interval
    <2>3. Minted(T) \subseteq 1 .. Len(items[originOfShellCollectionId])
      BY <1>2, <2>1 DEF Minted
    <2> QED
      BY <2>2, <2>3, FS_Subset, FS_CardinalityType
  <1> QED
    BY <1>1, <1>2

\* A shell more, which never is one too many for a u32.
LEMMA MintedOneMore ==
    ASSUME TypeOK, NEW T, NEW to \in Account, NEW rarity \in RarityType,
           NEW race \in RaceType, NEW career \in CareerType, NEW price, NEW t, NEW check,
           DoMintShell(to, rarity, race, career, price, t, check)
    PROVE  /\ Cardinality(Minted(T)')
                = Cardinality(Minted(T))
                  + IF [rarity |-> rarity, race |-> race, career |-> career] \in T
                    THEN 1 ELSE 0
           /\ Cardinality(Minted(T)') <= U32Max
  <1> DEFINE c == originOfShellCollectionId
             m == Len(items[c])
             attrs == [rarity |-> rarity, race |-> race, career |-> career]
             item == [owner |-> to, attrs |-> attrs]
  <1>1. /\ c \in CollectionId
        /\ c # None
        /\ c' = c
        /\ items[c] \in Seq(Item)
        /\ items' = [items EXCEPT ![c] = Append(items[c], item)]
        /\ m + 1 <= U32Max
    BY DEF DoMintShell, MayMintShell, CanMint, TypeOK, RmrkTypeOK
  <1>2. /\ m \in Nat
        /\ DOMAIN items[c] = 1 .. m
        /\ DOMAIN items'[c] = 1 .. (m + 1)
        /\ \A i \in 1 .. m : items'[c][i] = items[c][i]
        /\ items'[c][m + 1] = item
    BY <1>1 DEF TypeOK, RmrkTypeOK
  <1>3. Minted(T)' = Minted(T) \cup (IF attrs \in T THEN {m + 1} ELSE {})
    BY <1>1, <1>2 DEF Minted
  <1>4. m + 1 \notin Minted(T)
    BY <1>1, <1>2 DEF Minted
  <1>5. Cardinality(Minted(T)')
          = Cardinality(Minted(T)) + IF attrs \in T THEN 1 ELSE 0
    <2>1. CASE attrs \in T
      BY <1>3, <1>4, <2>1, MintedFinite, FS_AddElement
    <2>2. CASE attrs \notin T
      <3>1. Minted(T)' = Minted(T)
        BY <1>3, <2>2
      <3> QED
        BY <2>2, <3>1, MintedFinite
    <2> QED
      BY <2>1, <2>2
  <1>6. Cardinality(Minted(T)') <= m + 1
    <2>1. IsFiniteSet(1 .. (m + 1)) /\ Cardinality(1 .. (m + 1)) = m + 1
      BY <1>2, FS_Interval
    <2>2. Minted(T)' \subseteq 1 .. (m + 1)
      BY <1>1, <1>2 DEF Minted
    <2> QED
      BY <2>1, <2>2, FS_Subset
  <1>7. U32Max \in Nat /\ Cardinality(Minted(T)) \in Nat
    BY MintedFinite, AssumptionsHold DEF Assumptions
  <1> QED
    BY <1>1, <1>2, <1>5, <1>6, <1>7

\* As many more as a batch has preorders with such attributes.
AttrsOf(id) ==
    [rarity |-> "Prime", race |-> preorders[id].race, career |-> preorders[id].career]

LEMMA MintedBatch ==
    ASSUME TypeOK, NEW T, NEW ids \in IdLists, MintChosenPreorders(ids)
    PROVE  LET With == {id \in IdsOf(Batch(ids)) : AttrsOf(id) \in T}
           IN  /\ Cardinality(With) \in Nat
               /\ Cardinality(Minted(T)') = Cardinality(Minted(T)) + Cardinality(With)
               /\ Cardinality(Minted(T)') <= U32Max
  <1> DEFINE batch == Batch(ids)
             S == IdsOf(batch)
             With == {id \in S : AttrsOf(id) \in T}
             c == originOfShellCollectionId
             m == Len(items[c])
             minted == [i \in DOMAIN batch |->
                  [owner |-> preorders[batch[i]].owner, attrs |-> AttrsOf(batch[i])]]
             New == {k \in (m + 1) .. (m + Len(batch)) : batch[k - m] \in With}
  <1>1. /\ batch \in Seq(PreorderId)
        /\ IsFiniteSet(S)
        /\ \A i, j \in DOMAIN batch : i # j => batch[i] # batch[j]
    BY BatchFacts DEF MintChosenPreorders, MayMintChosen, CanTake
  <1>2. /\ c \in CollectionId
        /\ c # None
        /\ c' = c
        /\ items[c] \in Seq(Item)
        /\ m \in Nat
        /\ items'[c] = items[c] \o minted
        /\ m + Len(batch) <= U32Max
    <2>1. c \in CollectionId /\ c # None /\ m + Len(batch) <= U32Max
      BY DEF TypeOK, MintChosenPreorders, MayMintChosen, CanMint
    <2>2. items \in [CollectionId -> Seq(Item)]
      BY DEF TypeOK, RmrkTypeOK
    <2>3. items' = [items EXCEPT ![c] = @ \o minted] /\ c' = c
      BY DEF MintChosenPreorders, AttrsOf
    <2> QED
      BY <2>1, <2>2, <2>3
  <1>3. /\ Len(batch) \in Nat
        /\ DOMAIN batch = 1 .. Len(batch)
        /\ Len(minted) = Len(batch)
        /\ minted \in Seq([owner : {preorders[id].owner : id \in S},
                           attrs : {AttrsOf(id) : id \in S}])
    <2>1. Len(batch) \in Nat /\ DOMAIN batch = 1 .. Len(batch)
      BY <1>1
    <2>2. \A i \in DOMAIN batch : batch[i] \in S
      BY DEF IdsOf
    <2> QED
      BY <2>1, <2>2
  <1>4. /\ DOMAIN items[c] = 1 .. m
        /\ DOMAIN items'[c] = 1 .. (m + Len(batch))
        /\ \A k \in 1 .. m : items'[c][k] = items[c][k]
        /\ \A k \in (m + 1) .. (m + Len(batch)) : items'[c][k] = minted[k - m]
    BY <1>2, <1>3
  <1>5. \A k \in (m + 1) .. (m + Len(batch)) :
            items'[c][k].attrs \in T <=> batch[k - m] \in With
    <2> TAKE k \in (m + 1) .. (m + Len(batch))
    <2>1. k - m \in DOMAIN batch
      BY <1>2, <1>3
    <2>2. batch[k - m] \in S
      BY <2>1 DEF IdsOf
    <2>3. items'[c][k] = minted[k - m]
      <3> HIDE DEF minted
      <3> QED
        BY <1>4
    <2>4. minted[k - m] = [owner |-> preorders[batch[k - m]].owner,
                           attrs |-> AttrsOf(batch[k - m])]
      <3> HIDE DEF batch
      <3> QED
        BY <2>1
    <2> QED
      BY <2>2, <2>3, <2>4
  <1>6. Minted(T)' = Minted(T) \cup New
    <2>1. Minted(T) = {k \in 1 .. m : items[c][k].attrs \in T}
      BY <1>2, <1>4 DEF Minted
    <2>2. Minted(T)' = {k \in 1 .. (m + Len(batch)) : items'[c][k].attrs \in T}
      BY <1>2, <1>4 DEF Minted
    <2>3. 1 .. (m + Len(batch)) = (1 .. m) \cup ((m + 1) .. (m + Len(batch)))
      BY <1>2, <1>3
    <2> QED
      BY <1>4, <1>5, <2>1, <2>2, <2>3
  <1>7. Minted(T) \cap New = {}
    BY <1>2, <1>4 DEF Minted
  <1>8. IsFiniteSet(New) /\ Cardinality(New) = Cardinality(With)
    <2>1. IsFiniteSet(New) /\ Cardinality(New) = Cardinality(S \cap With)
      <3> HIDE DEF With
      <3> QED
        BY <1>1, <1>2, BatchCount
    <2>2. S \cap With = With
      OBVIOUS
    <2> QED
      BY <2>1, <2>2
  <1>9. Cardinality(With) \in Nat
    BY <1>1, FS_Subset, FS_CardinalityType
  <1>10. Cardinality(Minted(T)') = Cardinality(Minted(T)) + Cardinality(With)
    <2> HIDE DEF New, With
    <2>1. Cardinality(Minted(T) \cup New) = Cardinality(Minted(T)) + Cardinality(New)
      <3>1. Cardinality(Minted(T) \cap New) = 0
        BY <1>7, FS_EmptySet
      <3>2. Cardinality(Minted(T) \cup New)
              = Cardinality(Minted(T)) + Cardinality(New) - Cardinality(Minted(T) \cap New)
        BY <1>8, MintedFinite, FS_Union
      <3> QED
        BY <1>8, <1>9, <3>1, <3>2, MintedFinite
    <2> QED
      BY <1>6, <1>8, <2>1
  <1>11. Cardinality(Minted(T)') <= m + Len(batch)
    <2>1. /\ IsFiniteSet(1 .. (m + Len(batch)))
          /\ Cardinality(1 .. (m + Len(batch))) = m + Len(batch)
      <3>1. m + Len(batch) \in Nat
        BY <1>2, <1>3
      <3> HIDE DEF m, batch
      <3> QED
        BY <3>1, FS_Interval
    <2>2. Minted(T)' \subseteq 1 .. (m + Len(batch))
      BY <1>2, <1>4 DEF Minted
    <2> QED
      BY <2>1, <2>2, FS_Subset
  <1>12. U32Max \in Nat /\ Cardinality(Minted(T)) \in Nat
    BY MintedFinite, AssumptionsHold DEF Assumptions
  <1> QED
    BY <1>2, <1>3, <1>9, <1>10, <1>11, <1>12
-----------------------------------------------------------------------------
(* The steps.                                                              *)

\* A step that mints no shell and counts none.
LEMMA CounterQuiet ==
    ASSUME TypeOK, CounterInv, UNCHANGED <<items, originOfShellCollectionId, careerTypeCount>>,
           inventorySet => inventorySet',
           \A k \in StockKey :
              IF inventory[k] = None THEN inventory'[k] = None
              ELSE inventory'[k] # None /\ inventory'[k].raceCount = inventory[k].raceCount,
           ~inventorySet' => \A k \in StockKey : inventory'[k] = None
    PROVE  CounterInv'
  <1>1. \A T : Minted(T)' = Minted(T)
    BY DEF Minted
  <1>2. OnlyShellsHaveAttrs'
    BY DEF CounterInv, OnlyShellsHaveAttrs
  <1> QED
    BY <1>1, <1>2 DEF CounterInv, KeyAttrs, CareerAttrs

LEMMA OnlyShellsMint ==
    ASSUME TypeOK, OnlyShellsHaveAttrs, UNCHANGED originOfShellCollectionId,
           \A c \in CollectionId \ {originOfShellCollectionId} : items'[c] = items[c]
    PROVE  OnlyShellsHaveAttrs'
  BY DEF OnlyShellsHaveAttrs

LEMMA CounterSpirit ==
    ASSUME TypeOK, CounterInv, NEW a \in Account, DoMintSpirit(a)
    PROVE  CounterInv'
  <1> DEFINE c == spiritCollectionId
             item == [owner |-> a, attrs |-> None]
  <1>1. /\ c \in CollectionId
        /\ items[c] \in Seq(Item)
        /\ items' = [items EXCEPT ![c] = Append(items[c], item)]
        /\ UNCHANGED <<inventory, inventorySet, careerTypeCount, originOfShellCollectionId>>
    BY DEF DoMintSpirit, TypeOK, RmrkTypeOK
  <1>2. /\ Len(items[c]) \in Nat
        /\ DOMAIN items[c] = 1 .. Len(items[c])
        /\ DOMAIN items'[c] = 1 .. (Len(items[c]) + 1)
        /\ \A i \in DOMAIN items[c] : items'[c][i] = items[c][i]
        /\ items'[c][Len(items[c]) + 1] = item
        /\ \A d \in CollectionId \ {c} : items'[d] = items[d]
    BY <1>1 DEF TypeOK, RmrkTypeOK
  <1>3. OnlyShellsHaveAttrs'
    <2> SUFFICES ASSUME NEW d \in CollectionId \ {originOfShellCollectionId},
                        NEW i \in DOMAIN items'[d]
                 PROVE  items'[d][i].attrs = None
      BY <1>1 DEF OnlyShellsHaveAttrs
    <2>1. \A j \in DOMAIN items[d] : items[d][j].attrs = None
      BY DEF CounterInv, OnlyShellsHaveAttrs
    <2>2. CASE d = c
      BY <1>2, <2>1, <2>2
    <2>3. CASE d # c
      BY <1>2, <2>1, <2>3
    <2> QED
      BY <2>2, <2>3
  <1>4. ASSUME NEW T, None \notin T PROVE Minted(T)' = Minted(T)
    <2>1. CASE originOfShellCollectionId = c
      <3> DEFINE m == Len(items[c])
      <3>1. Minted(T) = {i \in 1 .. m : items[c][i].attrs \in T}
        BY <1>1, <1>2, <2>1, AssumptionsHold DEF Minted, Assumptions, CollectionId
      <3>2. Minted(T)' = {i \in 1 .. (m + 1) : items'[c][i].attrs \in T}
        BY <1>1, <1>2, <2>1, AssumptionsHold DEF Minted, Assumptions, CollectionId
      <3>3. items'[c][m + 1].attrs \notin T
        BY <1>2, <1>4
      <3>4. \A i \in 1 .. m : items'[c][i] = items[c][i]
        BY <1>2
      <3>5. 1 .. (m + 1) = (1 .. m) \cup {m + 1}
        BY <1>2
      <3> HIDE DEF m
      <3> QED
        BY <3>1, <3>2, <3>3, <3>4, <3>5
    <2>2. CASE originOfShellCollectionId # c
      BY <1>1, <1>2, <2>2 DEF Minted, TypeOK
    <2> QED
      BY <2>1, <2>2
  <1>5. /\ \A k : None \notin KeyAttrs(k)
        /\ \A career : None \notin CareerAttrs(career)
    BY AssumptionsHold DEF Assumptions, KeyAttrs, CareerAttrs
  <1> QED
    BY <1>1, <1>3, <1>4, <1>5 DEF CounterInv, KeyAttrs, CareerAttrs

LEMMA CounterShell ==
    ASSUME TypeOK, CounterInv, NEW to \in Account, NEW rarity \in RarityType,
           NEW race \in RaceType, NEW career \in CareerType, NEW price,
           NEW t \in NftSaleType, NEW check,
           DoMintShell(to, rarity, race, career, price, t, check)
    PROVE  CounterInv'
  <1> DEFINE key == <<rarity, race>>
             attrs == [rarity |-> rarity, race |-> race, career |-> career]
  <1>1. /\ key \in StockKey
        /\ inventory[key] \in NftSaleInfo
        /\ inventory[key] # None
        /\ inventory' = [inventory EXCEPT ![key] = Sold(inventory[key], t, 1)]
        /\ careerTypeCount' = [careerTypeCount EXCEPT ![career] = Wrapped(careerTypeCount[career] + 1)]
        /\ UNCHANGED <<inventorySet, originOfShellCollectionId>>
    BY DEF DoMintShell, MayMintShell, HasRaceTypeLeft, TypeOK, StockKey
  <1>2. OnlyShellsHaveAttrs'
    <2>1. \A c \in CollectionId \ {originOfShellCollectionId} : items'[c] = items[c]
      BY DEF DoMintShell, TypeOK, RmrkTypeOK
    <2> QED
      BY <1>1, <2>1, OnlyShellsMint DEF CounterInv
  <1>3. ASSUME NEW k \in StockKey, ~inventorySet' PROVE inventory'[k] = None
    BY <1>1, <1>3 DEF CounterInv
  <1>4. attrs \in Attributes
    BY DEF Attributes
  <1>5. ASSUME NEW k \in StockKey
        PROVE  Cardinality(Minted(KeyAttrs(k))')
                 = IF inventory'[k] = None THEN 0 ELSE inventory'[k].raceCount
    <2>1. attrs \in KeyAttrs(k) <=> k = key
      <3>1. PICK x \in RarityType, y \in RaceType : k = <<x, y>>
        BY DEF StockKey
      <3>2. k[1] = x /\ k[2] = y /\ (k = key <=> x = rarity /\ y = race)
        BY <3>1
      <3> QED
        BY <1>4, <3>2 DEF KeyAttrs
    <2>2. CASE k = key
      <3>1. /\ Cardinality(Minted(KeyAttrs(k))') = inventory[key].raceCount + 1
            /\ Cardinality(Minted(KeyAttrs(k))') <= U32Max
        BY <1>1, <2>1, <2>2, MintedOneMore DEF CounterInv
      <3>2. inventory'[k] = Sold(inventory[key], t, 1)
        BY <1>1, <2>2 DEF TypeOK
      <3>3. Sold(inventory[key], t, 1) # None
        <4>1. Sold(inventory[key], t, 1) \in NftSaleInfo
          <5>1. 1 \in 0 .. U32Max
            BY AssumptionsHold DEF Assumptions
          <5> QED
            BY <1>1, <5>1, SoldType
        <4> QED
          BY <4>1, AssumptionsHold DEF Assumptions
      <3>4. Sold(inventory[key], t, 1).raceCount = inventory[key].raceCount + 1
        BY <1>1, <3>1, AssumptionsHold DEF Sold, Wrapped, NftSaleInfo, U32, Assumptions
      <3> QED
        BY <3>1, <3>2, <3>3, <3>4
    <2>3. CASE k # key
      <3>1. Cardinality(Minted(KeyAttrs(k))') = Cardinality(Minted(KeyAttrs(k)))
        BY <2>1, <2>3, MintedOneMore, MintedFinite
      <3>2. inventory'[k] = inventory[k]
        BY <1>1, <2>3 DEF TypeOK
      <3> QED
        BY <3>1, <3>2 DEF CounterInv
    <2> QED
      BY <2>2, <2>3
  <1>6. ASSUME NEW c \in CareerType
        PROVE  careerTypeCount'[c] = Cardinality(Minted(CareerAttrs(c))')
    <2>1. attrs \in CareerAttrs(c) <=> c = career
      BY <1>4 DEF CareerAttrs
    <2>2. CASE c = career
      <3>1. /\ Cardinality(Minted(CareerAttrs(c))') = careerTypeCount[c] + 1
            /\ Cardinality(Minted(CareerAttrs(c))') <= U32Max
        BY <2>1, <2>2, MintedOneMore DEF CounterInv
      <3>2. careerTypeCount \in [CareerType -> U32]
        BY DEF TypeOK
      <3>3. Wrapped(careerTypeCount[c] + 1) = careerTypeCount[c] + 1
        BY <3>1, <3>2, AssumptionsHold DEF Wrapped, U32, Assumptions
      <3> QED
        BY <1>1, <2>2, <3>1, <3>2, <3>3
    <2>3. CASE c # career
      <3>1. Cardinality(Minted(CareerAttrs(c))') = Cardinality(Minted(CareerAttrs(c)))
        BY <2>1, <2>3, MintedOneMore, MintedFinite
      <3> QED
        BY <1>1, <2>3, <3>1 DEF CounterInv, TypeOK
    <2> QED
      BY <2>2, <2>3
  <1> QED
    BY <1>2, <1>3, <1>5, <1>6 DEF CounterInv, KeyAttrs, CareerAttrs

LEMMA CounterBatch ==
    ASSUME TypeOK, CounterInv, NEW ids \in IdLists, MintChosenPreorders(ids)
    PROVE  CounterInv'
  <1> DEFINE S == IdsOf(Batch(ids))
  <1>1. /\ UNCHANGED <<inventorySet, originOfShellCollectionId>>
        /\ careerTypeCount' = [c \in CareerType |->
               Wrapped(careerTypeCount[c] + NumberOfCareer(S, c))]
        /\ inventory' = [k \in StockKey |->
               IF k[1] = "Prime" /\ NumberOfRace(S, k[2]) > 0
               THEN Sold(inventory[k], "ForSale", NumberOfRace(S, k[2]))
               ELSE inventory[k]]
        /\ \A r \in RaceType : NumberOfRace(S, r) > 0 => inventory[<<"Prime", r>>] # None
        /\ \A c \in CollectionId \ {originOfShellCollectionId} : items'[c] = items[c]
    BY DEF MintChosenPreorders, MayMintChosen, HasRaceTypeLeft, TypeOK, RmrkTypeOK
  <1>2. \A id \in S : preorders[id] \in PreorderInfo
    BY BatchFacts DEF MintChosenPreorders, MayMintChosen, CanTake, TypeOK
  <1>3. \A id \in S : AttrsOf(id) \in Attributes
    BY <1>2 DEF AttrsOf, Attributes, PreorderInfo, RarityType
  <1>4. OnlyShellsHaveAttrs'
    BY <1>1, OnlyShellsMint DEF CounterInv
  <1>5. ASSUME NEW k \in StockKey, ~inventorySet' PROVE inventory'[k] = None
    <2>1. inventory[k] = None /\ \A r \in RaceType : ~(NumberOfRace(S, r) > 0)
      BY <1>1, <1>5 DEF CounterInv, StockKey, RarityType
    <2> QED
      BY <1>1, <2>1 DEF StockKey
  <1>6. ASSUME NEW k \in StockKey
        PROVE  Cardinality(Minted(KeyAttrs(k))')
                 = IF inventory'[k] = None THEN 0 ELSE inventory'[k].raceCount
    <2> DEFINE T == KeyAttrs(k)
               With == {id \in S : AttrsOf(id) \in T}
               n == NumberOfRace(S, k[2])
    <2>1. PICK x \in RarityType, r \in RaceType : k = <<x, r>>
      BY DEF StockKey
    <2>2. /\ Cardinality(With) \in Nat
          /\ Cardinality(Minted(T)') = Cardinality(Minted(T)) + Cardinality(With)
          /\ Cardinality(Minted(T)') <= U32Max
      BY MintedBatch
    <2>3. Cardinality(Minted(T)) = IF inventory[k] = None THEN 0 ELSE inventory[k].raceCount
      BY DEF CounterInv
    <2>4. With = IF x = "Prime" THEN {id \in S : preorders[id].race = r} ELSE {}
      BY <1>3, <2>1 DEF KeyAttrs, AttrsOf
    <2>5. CASE x = "Prime" /\ n > 0
      <3>1. Cardinality(With) = n
        BY <2>1, <2>4, <2>5 DEF NumberOfRace
      <3>2. inventory[k] # None /\ inventory[k] \in NftSaleInfo
        BY <1>1, <2>1, <2>5 DEF TypeOK
      <3>3. Cardinality(Minted(T)') = inventory[k].raceCount + n
        BY <2>2, <2>3, <3>1, <3>2
      <3>4. Sold(inventory[k], "ForSale", n).raceCount = inventory[k].raceCount + n
        <4>1. inventory[k].raceCount \in Nat /\ n \in Nat /\ U32Max \in Nat
          BY <2>2, <3>1, <3>2, AssumptionsHold DEF NftSaleInfo, U32, Assumptions
        <4>2. inventory[k].raceCount + n <= U32Max
          BY <2>2, <3>3
        <4>3. Wrapped(inventory[k].raceCount + n) = inventory[k].raceCount + n
          BY <4>1, <4>2 DEF Wrapped
        <4> QED
          BY <4>3 DEF Sold
      <3>5. Sold(inventory[k], "ForSale", n) # None
        <4>1. n \in 0 .. U32Max /\ "ForSale" \in NftSaleType
          <5>1. inventory[k].raceCount \in Nat /\ n \in Nat
            BY <2>2, <3>1, <3>2 DEF NftSaleInfo, U32
          <5>2. inventory[k].raceCount + n <= U32Max /\ U32Max \in Nat
            BY <2>2, <3>3, AssumptionsHold DEF Assumptions
          <5> QED
            BY <5>1, <5>2 DEF NftSaleType
        <4>2. Sold(inventory[k], "ForSale", n) \in NftSaleInfo
          BY <3>2, <4>1, SoldType
        <4> QED
          BY <4>2, AssumptionsHold DEF Assumptions
      <3>6. inventory'[k] = Sold(inventory[k], "ForSale", n)
        BY <1>1, <2>1, <2>5
      <3> QED
        BY <3>3, <3>4, <3>5, <3>6
    <2>6. CASE ~(x = "Prime" /\ n > 0)
      <3>1. inventory'[k] = inventory[k]
        BY <1>1, <2>1, <2>6
      <3>2. Cardinality(With) = 0
        <4>1. CASE x = "Prime"
          <5>1. Cardinality(With) = n
            BY <2>1, <2>4, <4>1 DEF NumberOfRace
          <5> QED
            BY <2>2, <2>6, <4>1, <5>1
        <4>2. CASE x # "Prime"
          BY <2>4, <4>2, FS_EmptySet
        <4> QED
          BY <4>1, <4>2
      <3>3. Cardinality(Minted(T)') = Cardinality(Minted(T))
        BY <2>2, <3>2, MintedFinite
      <3> QED
        BY <2>3, <3>1, <3>3
    <2> QED
      BY <2>5, <2>6
  <1>7. ASSUME NEW c \in CareerType
        PROVE  careerTypeCount'[c] = Cardinality(Minted(CareerAttrs(c))')
    <2> DEFINE T == CareerAttrs(c)
               With == {id \in S : AttrsOf(id) \in T}
    <2>1. /\ Cardinality(With) \in Nat
          /\ Cardinality(Minted(T)') = Cardinality(Minted(T)) + Cardinality(With)
          /\ Cardinality(Minted(T)') <= U32Max
      BY MintedBatch
    <2>2. With = {id \in S : preorders[id].career = c}
      BY <1>3 DEF CareerAttrs, AttrsOf
    <2>3. Cardinality(With) = NumberOfCareer(S, c)
      BY <2>2 DEF NumberOfCareer
    <2>4. careerTypeCount[c] = Cardinality(Minted(T)) /\ careerTypeCount[c] \in Nat
      BY DEF CounterInv, TypeOK, U32
    <2>5. Wrapped(careerTypeCount[c] + NumberOfCareer(S, c))
            = careerTypeCount[c] + NumberOfCareer(S, c)
      <3>1. U32Max \in Nat
        BY AssumptionsHold DEF Assumptions
      <3> QED
        BY <2>1, <2>3, <2>4, <3>1 DEF Wrapped
    <2> QED
      BY <1>1, <2>1, <2>3, <2>4, <2>5
  <1> QED
    BY <1>1, <1>4, <1>5, <1>6, <1>7 DEF CounterInv, KeyAttrs, CareerAttrs

LEMMA CounterBurn ==
    ASSUME TypeOK, CounterInv, NEW a \in Account, NEW c \in CollectionId,
           NEW i \in DOMAIN items[c], BurnNft(a, c, i),
           UNCHANGED <<originOfShellCollectionId, inventory, inventorySet, careerTypeCount>>
    PROVE  CounterInv'
  <1>1. /\ \A d \in CollectionId : DOMAIN items'[d] = DOMAIN items[d]
        /\ \A d \in CollectionId : \A j \in DOMAIN items[d] :
              items'[d][j].attrs = items[d][j].attrs
    <2>1. items[c] \in Seq(Item) /\ items[c][i] \in Item
      BY DEF TypeOK, RmrkTypeOK
    <2>2. [items[c][i] EXCEPT !.owner = None].attrs = items[c][i].attrs
      BY <2>1 DEF Item
    <2> QED
      BY <2>1, <2>2 DEF BurnNft, TypeOK, RmrkTypeOK
  <1>2. OnlyShellsHaveAttrs'
    BY <1>1 DEF CounterInv, OnlyShellsHaveAttrs
  <1>3. \A T : Minted(T)' = Minted(T)
    BY <1>1 DEF Minted, TypeOK
  <1> QED
    BY <1>2, <1>3 DEF CounterInv, KeyAttrs, CareerAttrs

\* The Overlord names the collection of the shells: it holds none yet.
LEMMA CounterNamed ==
    ASSUME TypeOK, CounterInv, NEW c \in CollectionId, SetOriginOfShellCollectionId(c)
    PROVE  CounterInv'
  <1>1. /\ originOfShellCollectionId = None
        /\ originOfShellCollectionId' = c
        /\ UNCHANGED <<items, inventory, inventorySet, careerTypeCount>>
    BY DEF SetOriginOfShellCollectionId
  <1>2. c # None
    BY AssumptionsHold DEF Assumptions, CollectionId
  <1>3. \A d \in CollectionId : \A i \in DOMAIN items[d] : items[d][i].attrs = None
    BY <1>1, AssumptionsHold DEF CounterInv, OnlyShellsHaveAttrs, Assumptions, CollectionId
  <1>4. ASSUME NEW T, None \notin T PROVE Minted(T)' = Minted(T)
    BY <1>1, <1>2, <1>3, <1>4 DEF Minted
  <1>5. /\ \A k : None \notin KeyAttrs(k)
        /\ \A career : None \notin CareerAttrs(career)
    BY AssumptionsHold DEF Assumptions, KeyAttrs, CareerAttrs
  <1>6. OnlyShellsHaveAttrs'
    BY <1>1, <1>3 DEF OnlyShellsHaveAttrs
  <1> QED
    BY <1>1, <1>4, <1>5, <1>6 DEF CounterInv, KeyAttrs, CareerAttrs

\* The inventory is initialised once, when nothing was minted yet.
LEMMA CounterStock ==
    ASSUME TypeOK, CounterInv,
           InitRarityTypeCounts \/ \E counts \in UpdateCounts : UpdateRarityTypeCounts(counts)
    PROVE  CounterInv'
  <1>1. CASE InitRarityTypeCounts
    <2>1. /\ ~inventorySet
          /\ inventorySet'
          /\ inventory' = [k \in StockKey |-> [raceCount |-> 0, left |-> InitialStock[k[1]]]]
          /\ UNCHANGED <<items, originOfShellCollectionId, careerTypeCount>>
      BY <1>1 DEF InitRarityTypeCounts, InitialInventory
    <2>2. ASSUME NEW k \in StockKey
          PROVE  /\ Cardinality(Minted(KeyAttrs(k))) = 0
                 /\ inventory'[k] # None
                 /\ inventory'[k].raceCount = 0
      <3>1. InitialStock[k[1]] \in [NftSaleType -> U32]
        BY AssumptionsHold DEF Assumptions, StockKey
      <3>2. inventory'[k] \in NftSaleInfo
        BY <2>1, <3>1, AssumptionsHold DEF NftSaleInfo, U32, Assumptions
      <3> QED
        BY <2>1, <3>2, AssumptionsHold DEF CounterInv, Assumptions
    <2>3. OnlyShellsHaveAttrs' /\ \A T : Minted(T)' = Minted(T)
      BY <2>1 DEF CounterInv, OnlyShellsHaveAttrs, Minted
    <2> QED
      BY <2>1, <2>2, <2>3 DEF CounterInv, KeyAttrs, CareerAttrs
  <1>2. ASSUME NEW counts \in UpdateCounts, UpdateRarityTypeCounts(counts)
        PROVE  CounterInv'
    <2>1. ASSUME NEW k \in StockKey
          PROVE  IF inventory[k] = None THEN inventory'[k] = None
                 ELSE inventory'[k] # None /\ inventory'[k].raceCount = inventory[k].raceCount
      <3>1. \/ inventory'[k] = inventory[k]
            \/ inventory'[k] = Restocked(inventory[k], counts)
        BY <1>2 DEF UpdateRarityTypeCounts
      <3>2. CASE inventory[k] = None
        BY <3>1, <3>2 DEF Restocked
      <3>3. CASE inventory[k] # None
        <4>1. inventory[k] \in NftSaleInfo
          BY <3>3 DEF TypeOK
        <4>2. Restocked(inventory[k], counts).raceCount = inventory[k].raceCount
          BY <3>3, <4>1 DEF Restocked, NftSaleInfo
        <4>3. Restocked(inventory[k], counts) # None
          <5>1. counts \in [forSale : U32, giveaway : U32]
            BY AssumptionsHold DEF Assumptions
          <5> QED
            BY <3>3, <4>1, <5>1, RestockedType, AssumptionsHold DEF Assumptions
        <4> QED
          BY <3>1, <3>3, <4>2, <4>3
      <3> QED
        BY <3>2, <3>3
    <2>2. UNCHANGED <<items, originOfShellCollectionId, careerTypeCount, inventorySet>>
      BY <1>2 DEF UpdateRarityTypeCounts
    <2> QED
      BY <2>1, <2>2, CounterQuiet DEF CounterInv
  <1> QED
    BY <1>1, <1>2

LEMMA CounterNext == TypeOK /\ CounterInv /\ [Next]_vars => CounterInv'
  <1> SUFFICES ASSUME TypeOK, CounterInv, [Next]_vars PROVE CounterInv'
    OBVIOUS
  <1>1. CASE UNCHANGED <<items, originOfShellCollectionId, careerTypeCount, inventory, inventorySet>>
    BY <1>1, CounterQuiet DEF CounterInv
  <1>2. ASSUME NEW a \in Account, UserCall(a) PROVE CounterInv'
    <2>1. CASE DoMintSpirit(a)
      BY <2>1, CounterSpirit
    <2>2. CASE \E rarity \in RarityType, race \in RaceType, career \in CareerType :
                 \/ BuyRareOriginOfShell(a, rarity, race, career)
                 \/ BuyPrimeOriginOfShell(a, race, career)
      BY <2>2, CounterShell
      DEF BuyRareOriginOfShell, BuyPrimeOriginOfShell, RarityType, NftSaleType
    <2>3. CASE \E race \in RaceType, career \in CareerType :
                 PreorderOriginOfShell(a, race, career)
      BY <1>1, <2>3 DEF PreorderOriginOfShell
    <2> QED
      BY <1>2, <2>1, <2>2, <2>3 DEF UserCall, ClaimSpirit, RedeemSpirit, RarityType
  <1>3. CASE SettlementCall
    BY <1>1, <1>3, CounterBatch DEF SettlementCall, RefundNotChosenPreorders
  <1>4. ASSUME NEW a \in Account, NEW rarity \in RarityType, NEW race \in RaceType,
               NEW career \in CareerType, NEW saleType \in NftSaleType,
               MintGiftOriginOfShell(a, rarity, race, career, saleType)
        PROVE  CounterInv'
    BY <1>4, CounterShell DEF MintGiftOriginOfShell
  <1>5. CASE AdminCall
    BY <1>1, <1>4, <1>5, CounterStock, CounterNamed
    DEF AdminCall, SetStatusType, SetSpiritCollectionId, PwCreateCollection,
        CreateCollection, SetSpiritsMetadata, SetOriginOfShellsMetadata, SetOverlord
  <1>6. CASE Outside
    <2>1. UNCHANGED <<originOfShellCollectionId, inventory, inventorySet, careerTypeCount>>
      BY <1>6 DEF Outside
    <2>2. ASSUME NEW a \in Burners, NEW c \in CollectionId, NEW i \in DOMAIN items[c],
                 BurnNft(a, c, i)
          PROVE  CounterInv'
      BY <2>1, <2>2, CounterBurn, AssumptionsHold DEF Assumptions
    <2> QED
      BY <1>1, <1>6, <2>1, <2>2 DEF Outside, CreateCollection
  <1>7. CASE UNCHANGED vars
    BY <1>1, <1>7 DEF vars
  <1> QED
    BY <1>2, <1>3, <1>5, <1>6, <1>7 DEF Next

\* Every shell that was ever minted, bought, given or settled in a batch, was
\* counted once under its race and rarity and once under its career, and no
\* counter has wrapped around.
THEOREM CountersCorrect == Spec => []CountersMatchMints
  <1>1. Init => CounterInv
    <2> SUFFICES ASSUME Init PROVE CounterInv
      OBVIOUS
    <2>1. OnlyShellsHaveAttrs
      BY DEF Init, RmrkInit, OnlyShellsHaveAttrs
    <2>2. \A T : Minted(T) = {}
      BY AssumptionsHold DEF Init, RmrkInit, Minted, GenesisConfig, Assumptions
    <2> QED
      BY <2>1, <2>2, FS_EmptySet DEF Init, CounterInv
  <1>2. TypeOK /\ CounterInv => CountersMatchMints
    <2> SUFFICES ASSUME TypeOK, CounterInv PROVE CountersMatchMints
      OBVIOUS
    <2>1. ASSUME originOfShellCollectionId # None,
                 NEW i \in DOMAIN items[originOfShellCollectionId]
          PROVE  items[originOfShellCollectionId][i].attrs \in Attributes \cup {None}
      <3>1. items[originOfShellCollectionId] \in Seq(Item)
        BY <2>1 DEF TypeOK, RmrkTypeOK
      <3>2. items[originOfShellCollectionId][i] \in Item
        BY <2>1, <3>1
      <3> QED
        BY <3>2 DEF Item
    <2>2. ASSUME NEW k \in StockKey
          PROVE  LET OfKey(attrs) == attrs.rarity = k[1] /\ attrs.race = k[2]
                 IN  MintedWith(OfKey) = Minted(KeyAttrs(k))
      BY <2>1, AssumptionsHold DEF MintedWith, Minted, KeyAttrs, Assumptions
    <2>3. ASSUME NEW c \in CareerType
          PROVE  LET OfCareer(attrs) == attrs.career = c
                 IN  MintedWith(OfCareer) = Minted(CareerAttrs(c))
      BY <2>1, AssumptionsHold DEF MintedWith, Minted, CareerAttrs, Assumptions
    <2> QED
      BY <2>2, <2>3 DEF CountersMatchMints, CounterInv
  <1> QED
    BY <1>1, <1>2, InitType, NextType, CounterNext, PTL DEF Spec
-----------------------------------------------------------------------------
(* Nobody gets a shell for another price than its own.                     *)

\* The price of shell i, which account a gets in this step, is paid.
Paid(a, i) ==
    LET attrs == items'[originOfShellCollectionId][i].attrs
    IN  attrs # None =>
          TotalBalance(a) - TotalBalance(a)' =
             IF ForSaleTaken(<<attrs.rarity, attrs.race>>)
             THEN Price[attrs.rarity] * Cardinality(ShellsGained(a))
             ELSE 0

LEMMA SoldLeft ==
    ASSUME TypeOK, NEW key \in StockKey, NEW t \in NftSaleType, NEW n \in Nat,
           HasRaceTypeLeft(key, t, n)
    PROVE  /\ inventory[key].left \in [NftSaleType -> U32]
           /\ Sold(inventory[key], t, n).left
                = [inventory[key].left EXCEPT ![t] = inventory[key].left[t] - n]
  <1>1. inventory[key].left \in [NftSaleType -> U32]
    BY DEF TypeOK, HasRaceTypeLeft, NftSaleInfo
  <1>2. Wrapped(inventory[key].left[t] - n) = inventory[key].left[t] - n
    BY <1>1, AssumptionsHold DEF HasRaceTypeLeft, Wrapped, U32, Assumptions
  <1> QED
    BY <1>1, <1>2 DEF Sold

\* An item that is appended to a collection is all its owner gains.
LEMMA OneGained ==
    ASSUME TypeOK, originOfShellCollectionId # None, UNCHANGED originOfShellCollectionId,
           NEW d \in CollectionId, NEW item,
           items' = [items EXCEPT ![d] = Append(@, item)],
           NEW a \in Account, NEW i \in ShellsGained(a)
    PROVE  /\ items'[originOfShellCollectionId][i] = item
           /\ item.owner = a
           /\ Cardinality(ShellsGained(a)) = 1
  <1> DEFINE c == originOfShellCollectionId
             m == Len(items[c])
  <1>1. c \in CollectionId /\ items[c] \in Seq(Item) /\ DOMAIN items = CollectionId
    BY DEF TypeOK, RmrkTypeOK
  <1>2. /\ m \in Nat
        /\ DOMAIN items[c] = 1 .. m
    BY <1>1
  <1>3. \A j : j \in ShellsGained(a) <=>
               /\ j \in DOMAIN items'[c] /\ items'[c][j].owner = a
               /\ ~(j \in DOMAIN items[c] /\ items[c][j].owner = a)
    BY DEF ShellsGained, OwnedInCollection
  <1>4. d = c
    BY <1>1, <1>3
  <1>5. items'[c] = Append(items[c], item)
    BY <1>1, <1>4
  <1>6. /\ DOMAIN items'[c] = 1 .. (m + 1)
        /\ \A j \in 1 .. m : items'[c][j] = items[c][j]
        /\ items'[c][m + 1] = item
    BY <1>1, <1>2, <1>5
  <1>7. \A j \in ShellsGained(a) : j = m + 1 /\ items'[c][j].owner = a
    BY <1>2, <1>3, <1>6
  <1>8. ShellsGained(a) = {m + 1}
    BY <1>7
  <1> QED
    BY <1>6, <1>7, <1>8, FS_Singleton

\* A purchase or a gift.
LEMMA PaidMint ==
    ASSUME TypeOK, overlord # None, NEW to \in Account, NEW rarity \in RarityType,
           NEW race \in RaceType, NEW career \in CareerType, NEW price \in Nat,
           NEW t \in NftSaleType, NEW check,
           DoMintShell(to, rarity, race, career, price, t, check),
           price = IF t = "ForSale" THEN Price[rarity] ELSE 0,
           NEW a \in Account \ {overlord}, NEW i \in ShellsGained(a)
    PROVE  Paid(a, i)
  <1> DEFINE key == <<rarity, race>>
             item == [owner |-> to, attrs |-> [rarity |-> rarity, race |-> race,
                                               career |-> career]]
  <1>1. /\ items'[originOfShellCollectionId][i] = item
        /\ to = a
        /\ Cardinality(ShellsGained(a)) = 1
    <2>1. /\ originOfShellCollectionId \in CollectionId
          /\ originOfShellCollectionId # None /\ UNCHANGED originOfShellCollectionId
          /\ items' = [items EXCEPT ![originOfShellCollectionId] = Append(@, item)]
      BY DEF DoMintShell, MayMintShell, TypeOK
    <2> HIDE DEF item
    <2>2. /\ items'[originOfShellCollectionId][i] = item
          /\ item.owner = a
          /\ Cardinality(ShellsGained(a)) = 1
      BY <2>1, OneGained
    <2> QED
      BY <2>2 DEF item
  <1>2. TotalBalance(a) - TotalBalance(a)' = price
    <2>1. /\ free[a] \in Nat /\ free[overlord] \in Nat /\ reserved[a] \in Nat
          /\ overlord \in Account
      BY DEF TypeOK, BalancesTypeOK
    <2>2. free'[a] = free[a] - price /\ reserved'[a] = reserved[a]
      BY <1>1, <2>1 DEF DoMintShell, FreeAfterTransfer, TypeOK, BalancesTypeOK
    <2> QED
      BY <2>1, <2>2 DEF TotalBalance
  <1>3. ForSaleTaken(key) <=> t = "ForSale"
    <2>1. key \in StockKey /\ HasRaceTypeLeft(key, t, 1)
      BY DEF DoMintShell, MayMintShell, StockKey
    <2>2. /\ inventory[key].left \in [NftSaleType -> U32]
          /\ inventory'[key].left
               = [inventory[key].left EXCEPT ![t] = inventory[key].left[t] - 1]
      <3>1. inventory'[key] = Sold(inventory[key], t, 1)
        BY <2>1 DEF DoMintShell, TypeOK
      <3> QED
        BY <2>1, <3>1, SoldLeft
    <2>3. "ForSale" \in NftSaleType /\ inventory[key].left["ForSale"] \in Nat
      BY <2>2 DEF NftSaleType, U32
    <2> QED
      BY <2>2, <2>3 DEF ForSaleTaken
  <1>4. Price[rarity] \in Nat
    BY AssumptionsHold DEF Assumptions, Price, RarityType
  <1> QED
    BY <1>1, <1>2, <1>3, <1>4 DEF Paid

\* The shells of a batch, whose price was reserved.
LEMMA PaidBatch ==
    ASSUME EscrowInv, NEW ids \in IdLists, MintChosenPreorders(ids),
           NEW a \in Account \ {overlord}, NEW k \in ShellsGained(a)
    PROVE  Paid(a, k)
  <1> DEFINE batch == Batch(ids)
             S == IdsOf(batch)
             c == originOfShellCollectionId
             p == PrimeOriginOfShellPrice
             minted == [i \in DOMAIN batch |->
                  [owner |-> preorders[batch[i]].owner,
                   attrs |-> [rarity |-> "Prime", race |-> preorders[batch[i]].race,
                              career |-> preorders[batch[i]].career]]]
  <1>0. TypeOK
    BY DEF EscrowInv
  <1>1. /\ batch \in Seq(PreorderId)
        /\ S \in SUBSET PreorderId /\ IsFiniteSet(S)
        /\ \A id \in S : preorders[id] \in PreorderInfo
    BY <1>0, BatchFacts DEF MintChosenPreorders, MayMintChosen, CanTake, TypeOK
  <1>2. PICK id \in S : /\ items'[c][k].attrs.rarity = "Prime"
                        /\ items'[c][k].attrs.race = preorders[id].race
    <2>1. /\ c \in CollectionId /\ c' = c /\ items[c] \in Seq(Item)
          /\ items'[c] = items[c] \o minted
      BY <1>0 DEF MintChosenPreorders, MayMintChosen, TypeOK, RmrkTypeOK
    <2>2. DOMAIN batch = 1 .. Len(batch) /\ Len(batch) \in Nat
      BY <1>1
    <2>3. /\ k \in DOMAIN items'[c] /\ items'[c][k].owner = a
          /\ ~(k \in DOMAIN items[c] /\ items[c][k].owner = a)
      BY <2>1 DEF ShellsGained, OwnedInCollection, MintChosenPreorders
    <2>4. \E i \in DOMAIN batch : items'[c][k] = minted[i]
      <3>1. /\ Len(minted) = Len(batch)
            /\ minted \in Seq({minted[i] : i \in DOMAIN batch})
        BY <2>2
      <3>2. /\ DOMAIN items[c] = 1 .. Len(items[c])
            /\ Len(items[c]) \in Nat
            /\ DOMAIN items'[c] = 1 .. (Len(items[c]) + Len(batch))
            /\ \A j \in 1 .. Len(items[c]) : items'[c][j] = items[c][j]
            /\ \A j \in (Len(items[c]) + 1) .. (Len(items[c]) + Len(batch)) :
                  items'[c][j] = minted[j - Len(items[c])]
        BY <2>1, <2>2, <3>1
      <3>3. k \in (Len(items[c]) + 1) .. (Len(items[c]) + Len(batch))
        BY <2>2, <2>3, <3>2
      <3>4. k - Len(items[c]) \in DOMAIN batch
        BY <2>2, <3>2, <3>3
      <3> QED
        BY <3>2, <3>3, <3>4
    <2> QED
      BY <2>4 DEF IdsOf
  <1> DEFINE race == preorders[id].race
             n == NumberOfRace(S, race)
             key == <<"Prime", race>>
  <1>3. race \in RaceType /\ key \in StockKey
    BY <1>1 DEF PreorderInfo, StockKey, RarityType
  <1>4. n \in Nat /\ n > 0
    <2>1. IsFiniteSet({j \in S : preorders[j].race = race})
      BY <1>1, FS_Subset
    <2>2. {j \in S : preorders[j].race = race} # {}
      OBVIOUS
    <2> QED
      BY <2>1, <2>2, FS_EmptySet, FS_CardinalityType DEF NumberOfRace
  <1>5. ForSaleTaken(key)
    <2>1. HasRaceTypeLeft(key, "ForSale", n) /\ "ForSale" \in NftSaleType
      BY <1>3, <1>4 DEF MintChosenPreorders, MayMintChosen, NftSaleType
    <2>2. inventory'[key] = Sold(inventory[key], "ForSale", n)
      BY <1>3, <1>4 DEF MintChosenPreorders
    <2>3. /\ inventory[key].left \in [NftSaleType -> U32]
          /\ inventory'[key].left
               = [inventory[key].left EXCEPT !["ForSale"] = inventory[key].left["ForSale"] - n]
      BY <1>0, <1>3, <1>4, <2>1, <2>2, SoldLeft
    <2> QED
      BY <1>4, <2>1, <2>3 DEF ForSaleTaken, U32
  <1>6. TotalBalance(a) - TotalBalance(a)' = p * Cardinality(ShellsGained(a))
    <2> DEFINE q == p * NumberOf(S, a)
    <2>1. Cardinality(ShellsGained(a)) = NumberOf(S, a)
      BY <1>0, MintedShells
    <2>2. /\ q \in Nat /\ Released(S, a) = q
          /\ free[a] \in Nat /\ reserved[a] \in Nat
      BY <1>0, <1>1, NumberFacts, ProductType, ReleasedInFull, AssumptionsHold
      DEF EscrowInv, TypeOK, BalancesTypeOK, Assumptions
    <2>3. free'[a] = free[a] + q + (0 - q)
      BY <2>2 DEF MintChosenPreorders, FreeAfterSale
    <2>4. reserved'[a] = reserved[a] - q
      BY <2>2 DEF MintChosenPreorders, Settle
    <2>5. q = p * Cardinality(ShellsGained(a))
      BY <2>1
    <2> HIDE DEF q
    <2>6. (free[a] + reserved[a]) - (free'[a] + reserved'[a]) = q
      BY <2>2, <2>3, <2>4
    <2>7. TotalBalance(a) - TotalBalance(a)' = q
      BY <2>6 DEF TotalBalance
    <2> QED
      BY <2>5, <2>7
  <1>7. Price["Prime"] = p
    BY DEF Price
  <1> QED
    BY <1>2, <1>5, <1>6, <1>7 DEF Paid

\* A burn gives nobody a shell.
LEMMA BurnGivesNone ==
    ASSUME TypeOK, UNCHANGED originOfShellCollectionId, NEW b \in Burners,
           NEW d \in CollectionId, NEW j \in DOMAIN items[d], BurnNft(b, d, j),
           NEW a \in Account
    PROVE  ShellsGained(a) = {}
  <1> DEFINE c == originOfShellCollectionId
  <1> SUFFICES ASSUME c # None PROVE ShellsGained(a) = {}
    BY DEF ShellsGained
  <1>1. c \in CollectionId /\ items[d] \in Seq(Item) /\ items[d][j] \in Item
    BY DEF TypeOK, RmrkTypeOK
  <1>2. [items[d][j] EXCEPT !.owner = None].owner = None
    BY <1>1 DEF Item
  <1>3. /\ DOMAIN items'[c] = DOMAIN items[c]
        /\ \A i \in DOMAIN items[c] : items'[c][i].owner \in {items[c][i].owner, None}
    BY <1>1, <1>2 DEF BurnNft, TypeOK, RmrkTypeOK
  <1> QED
    BY <1>3, AssumptionsHold DEF ShellsGained, OwnedInCollection, Assumptions

LEMMA PaidStep ==
    ASSUME EscrowInv, [Next]_vars, NEW a \in Account \ {overlord}, NEW i \in ShellsGained(a)
    PROVE  Paid(a, i)
  <1>0. TypeOK
    BY DEF EscrowInv
  <1>1. ASSUME UNCHANGED items PROVE FALSE
    <2>1. originOfShellCollectionId # None
      BY DEF ShellsGained
    <2>2. ASSUME NEW b \in Account, UserCall(b)
          PROVE  UNCHANGED originOfShellCollectionId
      BY <2>2
      DEF UserCall, ClaimSpirit, RedeemSpirit, DoMintSpirit, BuyRareOriginOfShell,
          BuyPrimeOriginOfShell, DoMintShell, PreorderOriginOfShell
    <2>3. ASSUME SettlementCall PROVE UNCHANGED originOfShellCollectionId
      BY <2>3 DEF SettlementCall, MintChosenPreorders, RefundNotChosenPreorders
    <2>4. ASSUME AdminCall PROVE UNCHANGED originOfShellCollectionId
      BY <2>1, <2>4
      DEF AdminCall, MintGiftOriginOfShell, DoMintShell, SetStatusType,
          InitRarityTypeCounts, UpdateRarityTypeCounts, SetSpiritCollectionId,
          SetOriginOfShellCollectionId, PwCreateCollection, SetSpiritsMetadata,
          SetOriginOfShellsMetadata, SetOverlord
    <2>5. UNCHANGED originOfShellCollectionId
      BY <2>2, <2>3, <2>4 DEF Next, Outside, vars
    <2> QED
      BY <1>1, <2>5 DEF ShellsGained, OwnedInCollection
  <1>2. ASSUME NEW b \in Account, DoMintSpirit(b) PROVE Paid(a, i)
    <2> DEFINE item == [owner |-> b, attrs |-> None]
    <2>1. /\ originOfShellCollectionId # None /\ UNCHANGED originOfShellCollectionId
          /\ spiritCollectionId \in CollectionId
          /\ items' = [items EXCEPT ![spiritCollectionId] = Append(@, item)]
      BY <1>0, <1>2 DEF DoMintSpirit, ShellsGained, TypeOK
    <2> HIDE DEF item
    <2>2. items'[originOfShellCollectionId][i] = item
      BY <1>0, <2>1, OneGained
    <2> QED
      BY <2>2 DEF Paid, item
  <1>3. ASSUME NEW b \in Account, UserCall(b) PROVE Paid(a, i)
    <2>1. ASSUME NEW rarity \in RarityType, NEW race \in RaceType, NEW career \in CareerType,
                 BuyRareOriginOfShell(b, rarity, race, career)
          PROVE  Paid(a, i)
      <3>1. /\ DoMintShell(b, rarity, race, career, RarePrice[rarity], "ForSale", ~LastDayOfSale)
            /\ overlord # None /\ "ForSale" \in NftSaleType
            /\ RarePrice[rarity] = Price[rarity] /\ RarePrice[rarity] \in Nat
        BY <2>1, AssumptionsHold
        DEF BuyRareOriginOfShell, RarePrice, Price, NftSaleType, Assumptions
      <3> QED
        BY <1>0, <3>1, PaidMint
    <2>2. ASSUME NEW race \in RaceType, NEW career \in CareerType,
                 BuyPrimeOriginOfShell(b, race, career)
          PROVE  Paid(a, i)
      <3>1. /\ DoMintShell(b, "Prime", race, career, PrimeOriginOfShellPrice, "ForSale",
                           ~LastDayOfSale)
            /\ overlord # None /\ "ForSale" \in NftSaleType /\ "Prime" \in RarityType
            /\ PrimeOriginOfShellPrice = Price["Prime"] /\ PrimeOriginOfShellPrice \in Nat
        BY <2>2, AssumptionsHold
        DEF BuyPrimeOriginOfShell, Price, NftSaleType, RarityType, Assumptions
      <3> QED
        BY <1>0, <3>1, PaidMint
    <2>3. CASE ClaimSpirit(b) \/ RedeemSpirit(b)
      BY <1>2, <2>3 DEF ClaimSpirit, RedeemSpirit
    <2>4. ASSUME NEW race \in RaceType, NEW career \in CareerType,
                 PreorderOriginOfShell(b, race, career)
          PROVE  FALSE
      BY <1>1, <2>4 DEF PreorderOriginOfShell
    <2> QED
      BY <1>3, <2>1, <2>2, <2>3, <2>4 DEF UserCall
  <1>4. CASE SettlementCall
    <2>1. ASSUME NEW ids \in IdLists, RefundNotChosenPreorders(ids) PROVE FALSE
      BY <1>1, <2>1 DEF RefundNotChosenPreorders
    <2> QED
      BY <1>4, <2>1, PaidBatch DEF SettlementCall
  <1>5. CASE AdminCall
    <2>1. ASSUME NEW b \in Account, NEW rarity \in RarityType, NEW race \in RaceType,
                 NEW career \in CareerType, NEW saleType \in NftSaleType,
                 MintGiftOriginOfShell(b, rarity, race, career, saleType)
          PROVE  Paid(a, i)
      <3>1. /\ DoMintShell(b, rarity, race, career, 0, saleType, FALSE)
            /\ overlord # None /\ saleType # "ForSale"
        BY <2>1 DEF MintGiftOriginOfShell
      <3> QED
        BY <1>0, <3>1, PaidMint
    <2>2. ASSUME ~UNCHANGED items
          PROVE  \E b \in Account, rarity \in RarityType, race \in RaceType,
                    career \in CareerType, saleType \in NftSaleType :
                       MintGiftOriginOfShell(b, rarity, race, career, saleType)
      BY <1>5, <2>2
      DEF AdminCall, SetStatusType, InitRarityTypeCounts, UpdateRarityTypeCounts,
          SetSpiritCollectionId, SetOriginOfShellCollectionId, PwCreateCollection,
          CreateCollection, SetSpiritsMetadata, SetOriginOfShellsMetadata, SetOverlord
    <2> QED
      BY <1>1, <2>1, <2>2
  <1>6. CASE Outside
    <2>1. UNCHANGED originOfShellCollectionId
      BY <1>6 DEF Outside
    <2>2. ASSUME NEW b \in Burners, NEW d \in CollectionId, NEW j \in DOMAIN items[d],
                 BurnNft(b, d, j)
          PROVE  FALSE
      BY <1>0, <2>1, <2>2, BurnGivesNone
    <2> QED
      BY <1>1, <1>6, <2>2 DEF Outside, CreateCollection
  <1>7. CASE UNCHANGED vars
    BY <1>1, <1>7 DEF vars
  <1> QED
    BY <1>3, <1>4, <1>5, <1>6, <1>7 DEF Next

\* Whoever gets shells that are for sale has paid exactly the price of their
\* rarity for each of them, by whichever call, and a gift costs nothing.
THEOREM PaymentCorrect == Spec => ShellsArePaidFor
  <1>1. Init => EscrowInv
    BY InitType, EscrowInit DEF EscrowInv
  <1>2. EscrowInv /\ [Next]_vars => EscrowInv'
    BY NextType, EscrowNext DEF EscrowInv
  <1>3. EscrowInv /\ [Next]_vars =>
          [\A a \in Account \ {overlord} : \A i \in ShellsGained(a) :
             LET attrs == items'[originOfShellCollectionId][i].attrs
             IN  attrs # None =>
                   TotalBalance(a) - TotalBalance(a)' =
                      IF ForSaleTaken(<<attrs.rarity, attrs.race>>)
                      THEN Price[attrs.rarity] * Cardinality(ShellsGained(a))
                      ELSE 0]_vars
    BY PaidStep DEF Paid
  <1> QED
    BY <1>1, <1>2, <1>3, PTL DEF Spec, ShellsArePaidFor
-----------------------------------------------------------------------------
(* No call creates or destroys funds.                                      *)

LEMMA UnitsMembers ==
    ASSUME NEW f \in [Account -> Nat]
    PROVE  /\ \A a, i : <<a, i>> \in Units(f) <=> a \in Account /\ i \in 1 .. f[a]
           /\ \A u \in Units(f) : u = <<u[1], u[2]>>
  BY DEF Units

LEMMA UnitsFinite ==
    ASSUME IsFiniteSet(Account), NEW f \in [Account -> Nat]
    PROVE  IsFiniteSet(Units(f)) /\ Cardinality(Units(f)) \in Nat
  <1> DEFINE Of == [a \in Account |-> {a} \X (1 .. f[a])]
             All == {Of[a] : a \in Account}
  <1>1. ASSUME NEW a \in Account PROVE IsFiniteSet(Of[a])
    <2>1. IsFiniteSet(1 .. f[a])
      BY FS_Interval
    <2>2. IsFiniteSet({a} \X (1 .. f[a]))
      BY <2>1, FS_Singleton, FS_Product
    <2> QED
      BY <2>2
  <1>2. Of \in Surjection(Account, All)
    BY DEF Surjection
  <1>3. IsFiniteSet(All)
    <2> HIDE DEF Of, All
    <2> QED
      BY <1>2, FS_Surjection
  <1>4. IsFiniteSet(UNION All)
    <2> HIDE DEF Of
    <2>1. \A T \in All : IsFiniteSet(T)
      BY <1>1
    <2> HIDE DEF All
    <2> QED
      BY <1>3, <2>1, FS_UNION
  <1>5. Units(f) = UNION All
    BY DEF Units
  <1> QED
    BY <1>4, <1>5, FS_CardinalityType

\* The things an account owns.
Owned(owner, a) == {s \in DOMAIN owner : owner[s] = a}

\* When each account pays p for each thing of a set S that it owns, and another
\* one gets all of it, the units that disappear are as many as those that appear:
\* each thing stands for p of either.
LEMMA UnitsMoved ==
    ASSUME IsFiniteSet(Account), NEW f \in [Account -> Nat], NEW g \in [Account -> Nat],
           NEW S, IsFiniteSet(S), NEW owner \in [S -> Account], NEW p \in Nat,
           NEW to \in Account,
           \A a \in Account \ {to} : g[a] = f[a] - p * Cardinality(Owned(owner, a)),
           g[to] = f[to] + p * Cardinality(S \ Owned(owner, to))
    PROVE  Cardinality(Units(g)) = Cardinality(Units(f))
  <1> DEFINE Others == S \ Owned(owner, to)
             Of(a) == Owned(owner, a)
             Gone(a) == (g[a] + 1) .. f[a]
             Removed == Units(f) \ Units(g)
             Added == Units(g) \ Units(f)
  <1>1. /\ IsFiniteSet(1 .. p) /\ Cardinality(1 .. p) = p
        /\ IsFiniteSet(Others) /\ Cardinality(Others) \in Nat
    <2>1. IsFiniteSet(1 .. p) /\ Cardinality(1 .. p) = IF 1 > p THEN 0 ELSE (p - 1) + 1
      BY FS_Interval
    <2>2. (IF 1 > p THEN 0 ELSE (p - 1) + 1) = p
      OBVIOUS
    <2>3. IsFiniteSet(Others) /\ Cardinality(Others) \in Nat
      BY FS_Subset, FS_CardinalityType
    <2> QED
      BY <2>1, <2>2, <2>3
  <1>2. IsFiniteSet(Others \X (1 .. p)) /\ Cardinality(Others \X (1 .. p)) = p * Cardinality(Others)
    <2> HIDE DEF Others
    <2>1. /\ IsFiniteSet(Others \X (1 .. p))
          /\ Cardinality(Others \X (1 .. p)) = Cardinality(Others) * p
      BY <1>1, FS_Product
    <2> QED
      BY <1>1, <2>1
  <1>3. ASSUME NEW a \in Account \ {to}
        PROVE  ExistsBijection(Of(a) \X (1 .. p), Gone(a))
    <2>1. IsFiniteSet(Of(a)) /\ Cardinality(Of(a)) \in Nat
      BY FS_Subset, FS_CardinalityType DEF Owned
    <2>2. g[a] = f[a] - p * Cardinality(Of(a))
      OBVIOUS
    <2> HIDE DEF Of
    <2>3. /\ IsFiniteSet(Of(a) \X (1 .. p))
          /\ Cardinality(Of(a) \X (1 .. p)) = Cardinality(Of(a)) * p
      BY <1>1, <2>1, FS_Product
    <2>4. IsFiniteSet(Gone(a)) /\ Cardinality(Gone(a)) = f[a] - g[a]
      <3>1. p * Cardinality(Of(a)) \in Nat
        BY <2>1, ProductType
      <3>2. f[a] \in Nat /\ g[a] \in Nat /\ g[a] <= f[a]
        BY <2>2, <3>1
      <3>3. /\ IsFiniteSet(Gone(a))
            /\ Cardinality(Gone(a)) = IF g[a] + 1 > f[a] THEN 0 ELSE f[a] - (g[a] + 1) + 1
        <4>1. g[a] + 1 \in Int /\ f[a] \in Int
          BY <3>2
        <4> QED
          BY <4>1, FS_Interval
      <3> HIDE DEF Gone
      <3> QED
        BY <3>2, <3>3
    <2>5. f[a] - g[a] = Cardinality(Of(a)) * p
      <3> DEFINE c == Cardinality(Of(a))
      <3>1. c \in Nat /\ g[a] = f[a] - p * c /\ f[a] \in Nat
        BY <2>1, <2>2
      <3> HIDE DEF c
      <3>2. p * c = c * p /\ p * c \in Nat
        BY <3>1
      <3>3. f[a] - g[a] = p * c
        BY <3>1, <3>2
      <3> QED
        BY <3>2, <3>3 DEF c
    <2> HIDE DEF Gone
    <2> QED
      BY <2>3, <2>4, <2>5, FS_SameCardinalityBij
  <1> DEFINE B == [a \in Account \ {to} |->
                      CHOOSE b : b \in Bijection(Of(a) \X (1 .. p), Gone(a))]
             h == [t \in Others \X (1 .. p) |-> <<owner[t[1]], B[owner[t[1]]][t]>>]
  <1>4. ASSUME NEW a \in Account \ {to}
        PROVE  /\ B[a] \in [Of(a) \X (1 .. p) -> Gone(a)]
               /\ \A t, u \in Of(a) \X (1 .. p) : B[a][t] = B[a][u] => t = u
               /\ \A i \in Gone(a) : \E t \in Of(a) \X (1 .. p) : B[a][t] = i
    <2>1. B[a] \in Bijection(Of(a) \X (1 .. p), Gone(a))
      <3> HIDE DEF Of, Gone
      <3> QED
        BY <1>3 DEF ExistsBijection
    <2> HIDE DEF Of, Gone, B
    <2> QED
      BY <2>1 DEF Bijection, Injection, Surjection, IsInjective
  <1>5. \A a, i : <<a, i>> \in Removed <=> a \in Account \ {to} /\ i \in Gone(a)
    <2>1. \A a \in Account \ {to} : f[a] \in Nat /\ g[a] \in Nat
      OBVIOUS
    <2>2. f[to] \in Nat /\ g[to] \in Nat /\ f[to] <= g[to]
      BY <1>1, ProductType
    <2>3. \A a, i : <<a, i>> \in Removed <=>
                       a \in Account /\ i \in 1 .. f[a] /\ ~(i \in 1 .. g[a])
      BY UnitsMembers
    <2>4. \A i : ~(i \in 1 .. f[to] /\ ~(i \in 1 .. g[to]))
      BY <2>2
    <2>5. \A a \in Account \ {to} : \A i :
              i \in 1 .. f[a] /\ ~(i \in 1 .. g[a]) <=> i \in Gone(a)
      BY <2>1
    <2> QED
      BY <2>3, <2>4, <2>5
  <1>6. \A u \in Removed : u = <<u[1], u[2]>>
    BY UnitsMembers
  <1>7. \A t \in Others \X (1 .. p) :
            owner[t[1]] \in Account \ {to} /\ t \in Of(owner[t[1]]) \X (1 .. p)
    BY DEF Owned
  <1>8. \A a \in Account \ {to} : \A t \in Of(a) \X (1 .. p) :
            t \in Others \X (1 .. p) /\ owner[t[1]] = a
    BY DEF Owned
  <1>9. h \in Bijection(Others \X (1 .. p), Removed)
    <2> HIDE DEF Others, Of, Gone, Removed, B
    <2>1. h \in [Others \X (1 .. p) -> Removed]
      <3>1. ASSUME NEW t \in Others \X (1 .. p)
            PROVE  <<owner[t[1]], B[owner[t[1]]][t]>> \in Removed
        <4> DEFINE a == owner[t[1]]
        <4>1. a \in Account \ {to} /\ t \in Of(a) \X (1 .. p)
          BY <1>7
        <4> HIDE DEF a
        <4>2. B[a][t] \in Gone(a)
          BY <4>1, <1>4
        <4>3. <<a, B[a][t]>> \in Removed
          BY <4>1, <4>2, <1>5
        <4> QED
          BY <4>3 DEF a
      <3> QED
        BY <3>1
    <2>2. ASSUME NEW t \in Others \X (1 .. p), NEW u \in Others \X (1 .. p), h[t] = h[u]
          PROVE  t = u
      <3>1. owner[t[1]] = owner[u[1]] /\ B[owner[t[1]]][t] = B[owner[u[1]]][u]
        BY <2>2
      <3> DEFINE a == owner[t[1]]
      <3>2. a \in Account \ {to} /\ t \in Of(a) \X (1 .. p) /\ u \in Of(a) \X (1 .. p)
        BY <3>1, <1>7
      <3>3. B[a][t] = B[a][u]
        BY <3>1
      <3> HIDE DEF a
      <3> QED
        BY <3>2, <3>3, <1>4
    <2>3. ASSUME NEW r \in Removed PROVE \E t \in Others \X (1 .. p) : h[t] = r
      <3>1. r = <<r[1], r[2]>> /\ r[1] \in Account \ {to} /\ r[2] \in Gone(r[1])
        BY <1>5, <1>6
      <3>2. PICK t \in Of(r[1]) \X (1 .. p) : B[r[1]][t] = r[2]
        <4> DEFINE a == r[1]
                   i == r[2]
        <4>1. a \in Account \ {to} /\ i \in Gone(a)
          BY <3>1
        <4> HIDE DEF a, i
        <4>2. \E t \in Of(a) \X (1 .. p) : B[a][t] = i
          BY <4>1, <1>4
        <4> QED
          BY <4>2 DEF a, i
      <3>3. t \in Others \X (1 .. p) /\ owner[t[1]] = r[1]
        BY <1>8, <3>1
      <3> QED
        BY <3>1, <3>2, <3>3
    <2> HIDE DEF h
    <2> QED
      BY <2>1, <2>2, <2>3 DEF Bijection, Injection, Surjection, IsInjective
  <1>10. IsFiniteSet(Removed) /\ Cardinality(Removed) = p * Cardinality(Others)
    <2> HIDE DEF Others, Removed, h
    <2> QED
      BY <1>2, <1>9, FS_Bijection DEF ExistsBijection
  <1>11. Cardinality(Added) = p * Cardinality(Others)
    <2>1. f[to] \in Nat /\ g[to] \in Nat /\ g[to] = f[to] + p * Cardinality(Others)
          /\ p * Cardinality(Others) \in Nat
      BY <1>1, ProductType
    <2>2. \A a \in Account \ {to} : f[a] \in Nat /\ g[a] \in Nat /\ g[a] <= f[a]
      <3> SUFFICES ASSUME NEW a \in Account \ {to}
                   PROVE  f[a] \in Nat /\ g[a] \in Nat /\ g[a] <= f[a]
        OBVIOUS
      <3>1. Cardinality(Of(a)) \in Nat
        BY FS_Subset, FS_CardinalityType DEF Owned
      <3>2. p * Cardinality(Of(a)) \in Nat
        BY <3>1, ProductType
      <3> QED
        BY <3>2
    <2>3. \A a, i : <<a, i>> \in Added <=>
                       a \in Account /\ i \in 1 .. g[a] /\ ~(i \in 1 .. f[a])
      BY UnitsMembers
    <2>4. \A a \in Account \ {to} : \A i : ~(i \in 1 .. g[a] /\ ~(i \in 1 .. f[a]))
      BY <2>2
    <2>5. \A i : i \in 1 .. g[to] /\ ~(i \in 1 .. f[to]) <=> i \in (f[to] + 1) .. g[to]
      BY <2>1
    <2>6. \A a, i : <<a, i>> \in Added <=> a = to /\ i \in (f[to] + 1) .. g[to]
      BY <2>3, <2>4, <2>5
    <2>7. \A u \in Added : u = <<u[1], u[2]>>
      BY UnitsMembers
    <2>8. Added = {to} \X ((f[to] + 1) .. g[to])
      <3> DEFINE T == (f[to] + 1) .. g[to]
      <3>1. \A a, i : <<a, i>> \in Added <=> a = to /\ i \in T
        BY <2>6
      <3> HIDE DEF Added, T
      <3>2. ASSUME NEW u \in Added PROVE u \in {to} \X T
        <4>1. u = <<u[1], u[2]>>
          BY <2>7
        <4>2. u[1] = to /\ u[2] \in T
          BY <3>1, <4>1
        <4> QED
          BY <4>1, <4>2
      <3>3. ASSUME NEW u \in {to} \X T PROVE u \in Added
        BY <3>1
      <3>4. Added = {to} \X T
        BY <3>2, <3>3
      <3> QED
        BY <3>4 DEF T
    <2>9. /\ IsFiniteSet((f[to] + 1) .. g[to])
          /\ Cardinality((f[to] + 1) .. g[to]) = p * Cardinality(Others)
      <3> DEFINE n == p * Cardinality(Others)
      <3> HIDE DEF n
      <3>1. n \in Nat /\ g[to] = f[to] + n
        BY <2>1 DEF n
      <3>2. /\ IsFiniteSet((f[to] + 1) .. g[to])
            /\ Cardinality((f[to] + 1) .. g[to])
                 = IF f[to] + 1 > g[to] THEN 0 ELSE g[to] - (f[to] + 1) + 1
        <4>1. f[to] + 1 \in Int /\ g[to] \in Int
          BY <2>1
        <4> QED
          BY <4>1, FS_Interval
      <3>3. Cardinality((f[to] + 1) .. g[to]) = n
        BY <2>1, <3>1, <3>2
      <3> QED
        BY <3>2, <3>3 DEF n
    <2> DEFINE T == (f[to] + 1) .. g[to]
    <2>10. Cardinality({to} \X T) = p * Cardinality(Others)
      <3> DEFINE n == p * Cardinality(Others)
      <3>1. IsFiniteSet(T) /\ Cardinality(T) = n /\ n \in Nat
        BY <2>1, <2>9
      <3> HIDE DEF T, n
      <3>2. IsFiniteSet({to}) /\ Cardinality({to}) = 1
        BY FS_Singleton
      <3>3. Cardinality({to} \X T) = Cardinality({to}) * Cardinality(T)
        BY <3>1, <3>2, FS_Product
      <3>4. Cardinality({to} \X T) = 1 * n
        BY <3>1, <3>2, <3>3
      <3>5. Cardinality({to} \X T) = n
        BY <3>1, <3>4
      <3> QED
        BY <3>5 DEF n
    <2> HIDE DEF T, Added
    <2>11. Added = {to} \X T
      BY <2>8 DEF T
    <2> QED
      BY <2>10, <2>11
  <1> HIDE DEF Others
  <1>12. /\ Cardinality(Removed) = Cardinality(Units(f)) - Cardinality(Units(f) \cap Units(g))
         /\ Cardinality(Added) = Cardinality(Units(g)) - Cardinality(Units(g) \cap Units(f))
    BY UnitsFinite, FS_Difference
  <1>13. /\ Cardinality(Units(f)) \in Nat /\ Cardinality(Units(g)) \in Nat
         /\ Cardinality(Units(f) \cap Units(g)) \in Nat
         /\ Units(g) \cap Units(f) = Units(f) \cap Units(g)
    BY UnitsFinite, FS_Intersection, FS_CardinalityType
  <1> HIDE DEF Removed, Added
  <1>14. Cardinality(Removed) = Cardinality(Added)
    BY <1>10, <1>11
  <1> DEFINE F == Cardinality(Units(f))
             G == Cardinality(Units(g))
             Both == Cardinality(Units(f) \cap Units(g))
  <1>15. F \in Nat /\ G \in Nat /\ Both \in Nat /\ F - Both = G - Both
    BY <1>12, <1>13, <1>14
  <1>16. F = G
    <2> HIDE DEF F, G, Both
    <2> QED
      BY <1>15
  <1> QED
    BY <1>16

Totals == [a \in Account |-> TotalBalance(a)]

LEMMA FundsSame ==
    ASSUME \A a \in Account : TotalBalance(a)' = TotalBalance(a)
    PROVE  Cardinality(Units(Totals)') = Cardinality(Units(Totals))
  <1>1. Totals' = Totals
    BY DEF Totals
  <1>2. Units(Totals)' = Units(Totals)
    BY <1>1 DEF Units
  <1> QED
    BY <1>2

LEMMA FundsMoved ==
    ASSUME IsFiniteSet(Account), BalancesTypeOK, BalancesTypeOK',
           NEW S, IsFiniteSet(S), NEW owner \in [S -> Account], NEW p \in Nat,
           NEW to \in Account,
           \A a \in Account \ {to} :
              TotalBalance(a)' = TotalBalance(a) - p * Cardinality(Owned(owner, a)),
           TotalBalance(to)' = TotalBalance(to) + p * Cardinality(S \ Owned(owner, to))
    PROVE  Cardinality(Units(Totals)') = Cardinality(Units(Totals))
  <1> DEFINE f == Totals
             g == [a \in Account |-> TotalBalance(a)']
  <1>1. f \in [Account -> Nat] /\ g \in [Account -> Nat]
    BY DEF Totals, TotalBalance, BalancesTypeOK
  <1>2. \A a \in Account : f[a] = TotalBalance(a) /\ g[a] = TotalBalance(a)'
    BY DEF Totals
  <1>3. Totals' = g
    BY DEF Totals
  <1>4. Units(Totals)' = Units(g)
    <2> HIDE DEF g
    <2> QED
      BY <1>3 DEF Units
  <1>5. \A a \in Account \ {to} : g[a] = f[a] - p * Cardinality(Owned(owner, a))
    <2> HIDE DEF f, g
    <2> QED
      BY <1>2
  <1>6. g[to] = f[to] + p * Cardinality(S \ Owned(owner, to))
    <2> HIDE DEF f, g
    <2> QED
      BY <1>2
  <1>7. Cardinality(Units(g)) = Cardinality(Units(f))
    <2> HIDE DEF f, g
    <2> QED
      BY <1>1, <1>5, <1>6, UnitsMoved
  <1> QED
    BY <1>4, <1>7

\* A transfer moves one thing of its amount.
LEMMA FundsTransfer ==
    ASSUME IsFiniteSet(Account), BalancesTypeOK, BalancesTypeOK',
           NEW from \in Account, NEW to \in Account, NEW v \in Nat,
           free' = FreeAfterTransfer(from, to, v), UNCHANGED reserved
    PROVE  Cardinality(Units(Totals)') = Cardinality(Units(Totals))
  <1> USE DEF TotalBalance
  <1>1. CASE from = to
    BY <1>1, FundsSame DEF FreeAfterTransfer
  <1>2. CASE from # to
    <2> DEFINE owner == [s \in {v} |-> from]
    <2>1. IsFiniteSet({v}) /\ Cardinality({v}) = 1 /\ Cardinality({}) = 0
      BY FS_Singleton, FS_EmptySet
    <2>2. /\ \A a \in Account \ {from} : Owned(owner, a) = {}
          /\ Owned(owner, from) = {v}
          /\ {v} \ Owned(owner, to) = {v}
      BY <1>2 DEF Owned
    <2>3. /\ free'[from] = free[from] - v
          /\ free'[to] = free[to] + v
          /\ \A a \in Account \ {from, to} : free'[a] = free[a]
          /\ \A a \in Account : free[a] \in Nat /\ reserved[a] \in Nat /\ reserved'[a] = reserved[a]
      BY <1>2 DEF FreeAfterTransfer, BalancesTypeOK
    <2>4. v * 1 = v /\ v * 0 = 0
      OBVIOUS
    <2>5. ASSUME NEW a \in Account \ {to}
          PROVE  TotalBalance(a)' = TotalBalance(a) - v * Cardinality(Owned(owner, a))
      <3>1. free[a] \in Nat /\ reserved[a] \in Nat /\ reserved'[a] = reserved[a]
        BY <2>3
      <3>2. CASE a = from
        <4>1. v * Cardinality(Owned(owner, a)) = v
          BY <2>1, <2>2, <2>4, <3>2
        <4>2. free'[a] = free[a] - v
          BY <2>3, <3>2
        <4> HIDE DEF owner
        <4> QED
          BY <3>1, <4>1, <4>2
      <3>3. CASE a # from
        <4>1. v * Cardinality(Owned(owner, a)) = 0
          BY <2>1, <2>2, <2>4, <3>3
        <4>2. free'[a] = free[a]
          BY <2>3, <3>3
        <4> HIDE DEF owner
        <4> QED
          BY <3>1, <4>1, <4>2
      <3> QED
        BY <3>2, <3>3
    <2>6. TotalBalance(to)' = TotalBalance(to) + v * Cardinality({v} \ Owned(owner, to))
      <3>1. v * Cardinality({v} \ Owned(owner, to)) = v
        BY <2>1, <2>2, <2>4
      <3>2. /\ free[to] \in Nat /\ reserved[to] \in Nat /\ reserved'[to] = reserved[to]
            /\ free'[to] = free[to] + v
        BY <2>3
      <3> HIDE DEF owner
      <3> QED
        BY <3>1, <3>2
    <2>7. owner \in [{v} -> Account]
      OBVIOUS
    <2> HIDE DEF owner, TotalBalance
    <2> QED
      BY <2>1, <2>5, <2>6, <2>7, FundsMoved
  <1> QED
    BY <1>1, <1>2

\* A settled batch moves the price of each of its preorders.
LEMMA FundsBatch ==
    ASSUME IsFiniteSet(Account), TypeOK, NEW ids \in IdLists, MintChosenPreorders(ids)
    PROVE  Cardinality(Units(Totals)') = Cardinality(Units(Totals))
  <1> DEFINE S == IdsOf(Batch(ids))
             p == PrimeOriginOfShellPrice
             owner == [id \in S |-> preorders[id].owner]
  <1>1. /\ S \in SUBSET PreorderId /\ IsFiniteSet(S)
        /\ \A id \in S : preorders[id] \in PreorderInfo
        /\ overlord \in Account
        /\ p \in Nat
    BY BatchFacts, AssumptionsHold
    DEF MintChosenPreorders, MayMintChosen, CanTake, TypeOK, Assumptions
  <1>2. owner \in [S -> Account]
    BY <1>1 DEF PreorderInfo
  <1>3. BalancesTypeOK /\ BalancesTypeOK'
    BY MintChosenType DEF TypeOK
  <1>4. \A a \in Account : Owned(owner, a) = S \cap OpenPreorders(a)
    BY <1>1, AssumptionsHold DEF Owned, OpenPreorders, Assumptions
  <1>5. /\ \A a \in Account : free'[a] = FreeAfterSale(S, a)
        /\ \A a \in Account : reserved'[a] = reserved[a] - Released(S, a)
    BY DEF MintChosenPreorders, Settle
  <1>o. PICK o \in Account : o = overlord
    BY <1>1
  <1> HIDE DEF S
  <1>6. ASSUME NEW a \in Account \ {o}
        PROVE  TotalBalance(a)' = TotalBalance(a) - p * Cardinality(Owned(owner, a))
    <2>1. Cardinality(Owned(owner, a)) = NumberOf(S, a)
      BY <1>4 DEF NumberOf
    <2>2. p * NumberOf(S, a) \in Nat /\ Released(S, a) \in Nat
      BY <1>1, <1>3, ReleasedFacts
    <2>3. free'[a] = free[a] + Released(S, a) + (-(p * NumberOf(S, a)))
      BY <1>5, <1>o DEF FreeAfterSale
    <2>4. reserved'[a] = reserved[a] - Released(S, a)
      BY <1>5
    <2>5. free[a] \in Nat /\ reserved[a] \in Nat
      BY <1>3 DEF BalancesTypeOK
    <2> DEFINE cost == p * NumberOf(S, a)
    <2>6. cost \in Nat /\ free'[a] = free[a] + Released(S, a) + (-cost)
      BY <2>2, <2>3
    <2> HIDE DEF cost
    <2>7. TotalBalance(a)' = TotalBalance(a) - cost
      BY <2>2, <2>4, <2>5, <2>6 DEF TotalBalance
    <2> QED
      BY <2>1, <2>7 DEF cost
  <1>7. TotalBalance(o)'
          = TotalBalance(o) + p * Cardinality(S \ Owned(owner, o))
    <2> DEFINE n == Cardinality(S) - NumberOf(S, o)
               paid == p * n
    <2>1. Cardinality(S \ Owned(owner, o)) = n
      <3>1. S \ Owned(owner, o) = S \ OpenPreorders(o)
        BY <1>1, <1>4
      <3> HIDE DEF owner
      <3>2. Cardinality(S \ OpenPreorders(o)) = n
        BY <1>1, FS_Difference DEF NumberOf
      <3> QED
        BY <3>1, <3>2
    <2>2. n \in Nat
      <3>1. /\ Cardinality(S) \in Nat /\ NumberOf(S, o) \in Nat
            /\ NumberOf(S, o) <= Cardinality(S)
        BY <1>1, NumberFacts
      <3> QED
        BY <3>1
    <2>3. paid \in Nat
      <3> HIDE DEF n
      <3> QED
        BY <1>1, <2>2, ProductType
    <2>4. free'[o] = free[o] + Released(S, o) + paid
      BY <1>1, <1>5, <1>o DEF FreeAfterSale
    <2>5. /\ reserved'[o] = reserved[o] - Released(S, o)
          /\ Released(S, o) \in Nat
          /\ free[o] \in Nat /\ reserved[o] \in Nat
      BY <1>1, <1>3, <1>5, ReleasedFacts DEF BalancesTypeOK
    <2>6. TotalBalance(o)' = TotalBalance(o) + paid
      <3> DEFINE out == Released(S, o)
      <3>1. out \in Nat /\ paid \in Nat
        BY <2>3, <2>5
      <3>2. /\ free'[o] = (free[o] + out) + paid
            /\ reserved'[o] = reserved[o] - out
        BY <2>4, <2>5
      <3> HIDE DEF out, paid
      <3> QED
        BY <2>5, <3>1, <3>2 DEF TotalBalance
    <2> QED
      BY <2>1, <2>6
  <1> HIDE DEF owner, p
  <1> QED
    BY <1>1, <1>2, <1>3, <1>6, <1>7, FundsMoved

LEMMA FundsUser ==
    ASSUME IsFiniteSet(Account), TypeOK, NEW b \in Account, UserCall(b)
    PROVE  Cardinality(Units(Totals)') = Cardinality(Units(Totals))
  <1>1. BalancesTypeOK /\ BalancesTypeOK'
    BY UserType DEF TypeOK
  <1>2. ASSUME UNCHANGED <<free, reserved>>
        PROVE  Cardinality(Units(Totals)') = Cardinality(Units(Totals))
    BY <1>2, FundsSame DEF TotalBalance
  <1>3. ASSUME NEW rarity, NEW race, NEW career, NEW price \in Nat, NEW t, NEW check,
               overlord # None, DoMintShell(b, rarity, race, career, price, t, check)
        PROVE  Cardinality(Units(Totals)') = Cardinality(Units(Totals))
    <2>1. /\ overlord \in Account
          /\ free' = FreeAfterTransfer(b, overlord, price) /\ UNCHANGED reserved
      BY <1>3 DEF TypeOK, DoMintShell
    <2> QED
      BY <1>1, <2>1, FundsTransfer
  <1>4. CASE ClaimSpirit(b) \/ RedeemSpirit(b)
    BY <1>2, <1>4 DEF ClaimSpirit, RedeemSpirit, DoMintSpirit
  <1>5. ASSUME NEW rarity \in RarityType, NEW race \in RaceType, NEW career \in CareerType,
               BuyRareOriginOfShell(b, rarity, race, career)
        PROVE  Cardinality(Units(Totals)') = Cardinality(Units(Totals))
    <2>1. /\ overlord # None /\ RarePrice[rarity] \in Nat
          /\ DoMintShell(b, rarity, race, career, RarePrice[rarity], "ForSale", ~LastDayOfSale)
      BY <1>5, AssumptionsHold DEF BuyRareOriginOfShell, RarePrice, Assumptions
    <2> QED
      BY <1>3, <2>1
  <1>6. ASSUME NEW race \in RaceType, NEW career \in CareerType,
               BuyPrimeOriginOfShell(b, race, career)
        PROVE  Cardinality(Units(Totals)') = Cardinality(Units(Totals))
    <2>1. /\ overlord # None /\ PrimeOriginOfShellPrice \in Nat
          /\ DoMintShell(b, "Prime", race, career, PrimeOriginOfShellPrice, "ForSale",
                         ~LastDayOfSale)
      BY <1>6, AssumptionsHold DEF BuyPrimeOriginOfShell, Assumptions
    <2> QED
      BY <1>3, <2>1
  <1>7. ASSUME NEW race \in RaceType, NEW career \in CareerType,
               PreorderOriginOfShell(b, race, career)
        PROVE  Cardinality(Units(Totals)') = Cardinality(Units(Totals))
    <2> DEFINE p == PrimeOriginOfShellPrice
    <2>1. /\ free' = [free EXCEPT ![b] = @ - p]
          /\ reserved' = [reserved EXCEPT ![b] = @ + p]
          /\ p \in Nat
      BY <1>7, AssumptionsHold DEF PreorderOriginOfShell, Reserve, Assumptions
    <2>2. \A a \in Account : TotalBalance(a)' = TotalBalance(a)
      <3> HIDE DEF p
      <3> QED
        BY <1>1, <2>1 DEF TotalBalance, BalancesTypeOK
    <2> QED
      BY <2>2, FundsSame
  <1> QED
    BY <1>4, <1>5, <1>6, <1>7 DEF UserCall

LEMMA FundsNext ==
    ASSUME IsFiniteSet(Account), TypeOK, [Next]_vars
    PROVE  Cardinality(Units(Totals)') = Cardinality(Units(Totals))
  <1>1. TypeOK' /\ BalancesTypeOK /\ BalancesTypeOK'
    BY NextType DEF TypeOK
  <1>2. ASSUME UNCHANGED <<free, reserved>>
        PROVE  Cardinality(Units(Totals)') = Cardinality(Units(Totals))
    BY <1>2, FundsSame DEF TotalBalance
  <1>3. ASSUME NEW ids \in IdLists, RefundNotChosenPreorders(ids)
        PROVE  Cardinality(Units(Totals)') = Cardinality(Units(Totals))
    <2> DEFINE S == IdsOf(Batch(ids))
    <2>1. S \in SUBSET PreorderId
      BY BatchFacts
    <2>2. ASSUME NEW a \in Account PROVE TotalBalance(a)' = TotalBalance(a)
      <3>1. /\ free'[a] = free[a] + Released(S, a)
            /\ reserved'[a] = reserved[a] - Released(S, a)
        BY <1>3 DEF RefundNotChosenPreorders, Settle
      <3>2. Released(S, a) \in Nat /\ free[a] \in Nat /\ reserved[a] \in Nat
        BY <1>1, <2>1, ReleasedFacts DEF BalancesTypeOK
      <3> HIDE DEF S
      <3> QED
        BY <3>1, <3>2 DEF TotalBalance
    <2> QED
      BY <2>2, FundsSame
  <1>4. CASE SettlementCall
    BY <1>3, <1>4, FundsBatch DEF SettlementCall
  <1>5. CASE AdminCall
    <2>1. ASSUME NEW a \in Account, NEW rarity \in RarityType, NEW race \in RaceType,
                 NEW career \in CareerType, NEW saleType \in NftSaleType,
                 MintGiftOriginOfShell(a, rarity, race, career, saleType)
          PROVE  Cardinality(Units(Totals)') = Cardinality(Units(Totals))
      <3>1. /\ overlord \in Account /\ 0 \in Nat
            /\ free' = FreeAfterTransfer(a, overlord, 0) /\ UNCHANGED reserved
        BY <2>1 DEF TypeOK, MintGiftOriginOfShell, DoMintShell
      <3> QED
        BY <1>1, <3>1, FundsTransfer
    <2> QED
      BY <1>2, <1>5, <2>1
      DEF AdminCall, SetStatusType, InitRarityTypeCounts, UpdateRarityTypeCounts,
          SetSpiritCollectionId, SetOriginOfShellCollectionId, PwCreateCollection,
          SetSpiritsMetadata, SetOriginOfShellsMetadata, SetOverlord
  <1>6. CASE Outside
    <2>1. ASSUME NEW from \in Account, NEW to \in Account, NEW v \in TransferAmounts,
                 BalanceTransfer(from, to, v)
          PROVE  Cardinality(Units(Totals)') = Cardinality(Units(Totals))
      <3>1. v \in Nat /\ free' = FreeAfterTransfer(from, to, v) /\ UNCHANGED reserved
        BY <2>1, AssumptionsHold DEF BalanceTransfer, Assumptions
      <3> QED
        BY <1>1, <3>1, FundsTransfer
    <2> QED
      BY <1>2, <1>6, <2>1 DEF Outside
  <1>7. CASE UNCHANGED vars
    BY <1>2, <1>7 DEF vars
  <1> QED
    BY <1>4, <1>5, <1>6, <1>7, FundsUser DEF Next

LEMMA FundsStart == Init => FundsConserved
  <1> SUFFICES ASSUME Init PROVE FundsConserved
    OBVIOUS
  <1>1. [a \in Account |-> TotalBalance(a)] = InitialFree
    BY AssumptionsHold DEF Init, BalancesInit, TotalBalance, Assumptions
  <1> QED
    BY <1>1 DEF FundsConserved

LEMMA FundsStay ==
    ASSUME IsFiniteSet(Account), TypeOK, FundsConserved, [Next]_vars
    PROVE  FundsConserved'
  <1>1. Cardinality(Units(Totals)') = Cardinality(Units(Totals))
    BY FundsNext
  <1> QED
    BY <1>1 DEF FundsConserved, Totals, Units

\* With finitely many accounts, as there are on a chain, no call creates or
\* destroys funds: what a batch takes from its winners, each of whom pays for
\* its own preorders, is what the Overlord gets, which pays itself nothing.
THEOREM FundsConservedCorrect == IsFiniteSet(Account) /\ Spec => []FundsConserved
  <1> SUFFICES ASSUME IsFiniteSet(Account) PROVE Spec => []FundsConserved
    OBVIOUS
  <1>1. Init => FundsConserved
    BY FundsStart
  <1>2. TypeOK /\ FundsConserved /\ [Next]_vars => FundsConserved'
    BY FundsStay
  <1> QED
    BY <1>1, <1>2, InitType, NextType, PTL DEF Spec
=============================================================================
