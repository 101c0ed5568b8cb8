-------------------------- MODULE BatchLoopProofs ---------------------------
(***************************************************************************)
(* Theorems about BatchLoop, the settlement loops id by id, for every      *)
(* value of the constants: the loops do what NftSale says whole calls do,  *)
(* and refuse what it refuses.                                             *)
(***************************************************************************)
EXTENDS BatchLoop, NftSaleProofs

USE DEF balancesVars, rmrkVars, setupVars, stockVars, preorderVars, saleVars

\* The first n ids of the list.
Prefix(n) == SubSeq(call.ids, 1, n)

\* How many ids were taken, and how many minted.
TakenTo == IF pc \in {"mint", "flag"} THEN index + 1 ELSE index

MintedTo == IF call.name = "refund" THEN 0
            ELSE IF pc = "flag" THEN index + 1 ELSE index

\* The storage after the ids of T were taken and those of M minted.
PreordersAfter(T) == [id \in PreorderId |-> IF id \in T THEN None ELSE preorders[id]]

ReservedAfter(T) == [a \in Account |-> reserved[a] - Released(T, a)]

\* The price of a number of shells, and what a gains when those of M are sold.
Cost(n) == PrimeOriginOfShellPrice * n

Gain(M, a) == IF a = overlord THEN Cost(Cardinality(M) - NumberOf(M, a))
              ELSE -Cost(NumberOf(M, a))

FreeAfter(T, M) == [a \in Account |-> free[a] + Released(T, a) + Gain(M, a)]

InventoryAfter(M) ==
    [k \in StockKey |->
        IF k[1] = "Prime" /\ NumberOfRace(M, k[2]) > 0
        THEN Sold(inventory[k], "ForSale", NumberOfRace(M, k[2]))
        ELSE inventory[k]]

CareersAfter(M) ==
    [c \in CareerType |-> Wrapped(careerTypeCount[c] + NumberOfCareer(M, c))]

ShellOf(id) ==
    [owner |-> preorders[id].owner,
     attrs |-> [rarity |-> "Prime", race |-> preorders[id].race,
                career |-> preorders[id].career]]

ItemsAfter(batch) ==
    [items EXCEPT ![originOfShellCollectionId] =
        @ \o [i \in DOMAIN batch |-> ShellOf(batch[i])]]

FlagsAfter(F) ==
    IF LastDayOfSale THEN ownerHasPreorder
    ELSE ownerHasPreorder \ {preorders[id].owner : id \in F}

\* The ids of a batch can be minted, one after the other.
CanMintAll(batch) ==
    LET M == IdsOf(batch)
    IN  /\ M # {} => originOfShellCollectionId # None
        /\ \A id \in M : /\ OwnsSpirit(preorders[id].owner)
                         /\ preorders[id].race \in originOfShellsMetadata
        /\ \A r \in RaceType : NumberOfRace(M, r) > 0 =>
               HasRaceTypeLeft(<<"Prime", r>>, "ForSale", NumberOfRace(M, r))
        /\ \A a \in Account : CanPay(M, a)
        /\ M # {} => CanMint(overlord, originOfShellCollectionId, Len(batch))

\* What the call has made of the storage so far.
LayerHolds ==
    LET T == IdsOf(Prefix(TakenTo))
        M == IdsOf(Prefix(MintedTo))
    IN  /\ newPreorders = PreordersAfter(T)
        /\ newReserved = ReservedAfter(T)
        /\ newFree = FreeAfter(T, M)
        /\ newItems = ItemsAfter(Prefix(MintedTo))
        /\ newInventory = InventoryAfter(M)
        /\ newCareerTypeCount = CareersAfter(M)
        /\ newHasPreorder = FlagsAfter(IdsOf(Prefix(index)))

\* Where a call is that runs.
Running ==
    /\ overlord # None
    /\ call.name \in {"mint", "refund"}
    /\ call.ids \in IdLists
    /\ index \in Nat
    /\ TakenTo <= Len(Batch(call.ids))
    /\ pc = "mint" => call.name = "mint"
    /\ pc # "take" => taken = preorders[call.ids[index + 1]]
    /\ CanTake(Prefix(TakenTo))
    /\ CanMintAll(Prefix(MintedTo))

LoopInv ==
    /\ TypeOK
    /\ pc \in {"idle", "take", "mint", "flag", "failed"}
    /\ pc = "idle" => index = 0
    /\ pc \in {"idle", "failed"} => layer = storage
    /\ pc \in {"take", "mint", "flag"} => Running /\ LayerHolds
    /\ FailsOnlyIfRefused
-----------------------------------------------------------------------------
(* Lists of ids.                                                           *)

LEMMA ListType ==
    ASSUME TypeOK, NEW ids \in IdLists
    PROVE  ids \in Seq(PreorderId) /\ Len(ids) \in Nat
  <1>1. PICK n \in 0 .. MaxBatch : ids \in [1 .. n -> 0 .. (preorderIndex - 1)]
    BY DEF IdLists
  <1> QED
    BY <1>1, AssumptionsHold DEF TypeOK, PreorderId, U32, Assumptions

LEMMA PrefixFacts ==
    ASSUME call.ids \in Seq(PreorderId), NEW n \in Nat, n <= Len(call.ids)
    PROVE  /\ Prefix(n) \in Seq(PreorderId)
           /\ Len(Prefix(n)) = n
           /\ DOMAIN Prefix(n) = 1 .. n
           /\ \A i \in 1 .. n : Prefix(n)[i] = call.ids[i]
           /\ IdsOf(Prefix(n)) = {call.ids[i] : i \in 1 .. n}
           /\ IdsOf(Prefix(n)) \in SUBSET PreorderId
  <1>1. /\ Prefix(n) \in Seq(PreorderId)
        /\ Len(Prefix(n)) = n
        /\ DOMAIN Prefix(n) = 1 .. n
        /\ \A i \in 1 .. n : Prefix(n)[i] = call.ids[i]
    BY DEF Prefix
  <1>2. IdsOf(Prefix(n)) = {call.ids[i] : i \in 1 .. n}
    BY <1>1 DEF IdsOf
  <1> QED
    BY <1>1, <1>2

LEMMA PrefixMore ==
    ASSUME call.ids \in Seq(PreorderId), NEW n \in Nat, n + 1 <= Len(call.ids)
    PROVE  /\ call.ids[n + 1] \in PreorderId
           /\ IdsOf(Prefix(n + 1)) = IdsOf(Prefix(n)) \cup {call.ids[n + 1]}
           /\ CanTake(Prefix(n + 1)) <=>
                 /\ CanTake(Prefix(n))
                 /\ call.ids[n + 1] \notin IdsOf(Prefix(n))
                 /\ preorders[call.ids[n + 1]] # None
  <1>1. n + 1 \in Nat /\ n <= Len(call.ids) /\ Len(call.ids) \in Nat
    OBVIOUS
  <1>2. /\ DOMAIN Prefix(n) = 1 .. n /\ DOMAIN Prefix(n + 1) = 1 .. (n + 1)
        /\ \A i \in 1 .. n : Prefix(n)[i] = call.ids[i]
        /\ \A i \in 1 .. (n + 1) : Prefix(n + 1)[i] = call.ids[i]
        /\ IdsOf(Prefix(n)) = {call.ids[i] : i \in 1 .. n}
        /\ IdsOf(Prefix(n + 1)) = {call.ids[i] : i \in 1 .. (n + 1)}
    BY <1>1, PrefixFacts
  <1>3. 1 .. (n + 1) = (1 .. n) \cup {n + 1} /\ n + 1 \notin 1 .. n
    OBVIOUS
  <1>4. IdsOf(Prefix(n + 1)) = IdsOf(Prefix(n)) \cup {call.ids[n + 1]}
    BY <1>2, <1>3
  <1>5. \A m \in {n, n + 1} : CanTake(Prefix(m)) <=>
            /\ \A i, j \in 1 .. m : i # j => call.ids[i] # call.ids[j]
            /\ \A i \in 1 .. m : preorders[call.ids[i]] # None
    <2> SUFFICES ASSUME NEW m \in {n, n + 1}
                 PROVE  CanTake(Prefix(m)) <=>
                           /\ \A i, j \in 1 .. m : i # j => call.ids[i] # call.ids[j]
                           /\ \A i \in 1 .. m : preorders[call.ids[i]] # None
      OBVIOUS
    <2>1. /\ DOMAIN Prefix(m) = 1 .. m
          /\ \A i \in 1 .. m : Prefix(m)[i] = call.ids[i]
          /\ IdsOf(Prefix(m)) = {call.ids[i] : i \in 1 .. m}
      <3>1. CASE m = n
        BY <1>2, <3>1
      <3>2. CASE m = n + 1
        BY <1>2, <3>2
      <3> QED
        BY <3>1, <3>2
    <2>2. /\ \A i, j \in DOMAIN Prefix(m) : i # j => Prefix(m)[i] # Prefix(m)[j]
          <=> \A i, j \in 1 .. m : i # j => call.ids[i] # call.ids[j]
      BY <2>1
    <2>3. (\A id \in IdsOf(Prefix(m)) : preorders[id] # None)
          <=> \A i \in 1 .. m : preorders[call.ids[i]] # None
      BY <2>1
    <2> QED
      BY <2>2, <2>3 DEF CanTake
  <1>6. call.ids[n + 1] \in PreorderId
    BY <1>1
  <1>7. CanTake(Prefix(n + 1)) <=>
            /\ \A i, j \in 1 .. n : i # j => call.ids[i] # call.ids[j]
            /\ \A i \in 1 .. n : call.ids[i] # call.ids[n + 1]
            /\ \A i \in 1 .. n : preorders[call.ids[i]] # None
            /\ preorders[call.ids[n + 1]] # None
    BY <1>3, <1>5
  <1>8. CanTake(Prefix(n)) <=>
            /\ \A i, j \in 1 .. n : i # j => call.ids[i] # call.ids[j]
            /\ \A i \in 1 .. n : preorders[call.ids[i]] # None
    BY <1>5
  <1> QED
    BY <1>2, <1>4, <1>6, <1>7, <1>8

\* One call reaches the first ids of the list.
LEMMA BatchIsPrefix ==
    ASSUME TypeOK, call.ids \in IdLists
    PROVE  LET limit == IF Len(call.ids) < IterLimit THEN Len(call.ids) ELSE IterLimit
           IN  /\ limit \in Nat /\ limit <= Len(call.ids)
               /\ Batch(call.ids) = Prefix(limit)
               /\ Len(Batch(call.ids)) = limit
  <1>1. call.ids \in Seq(PreorderId) /\ Len(call.ids) \in Nat /\ IterLimit \in Nat
    BY ListType, AssumptionsHold DEF Assumptions
  <1> QED
    BY <1>1 DEF Batch, Prefix

\* What can be taken or not depends on all the ids before.
LEMMA CanTakePrefix ==
    ASSUME call.ids \in Seq(PreorderId), NEW m \in Nat, m <= Len(call.ids),
           NEW n \in 0 .. m, CanTake(Prefix(m))
    PROVE  CanTake(Prefix(n)) /\ IdsOf(Prefix(n)) \subseteq IdsOf(Prefix(m))
  <1>1. n \in Nat /\ n <= Len(call.ids) /\ Len(call.ids) \in Nat
    OBVIOUS
  <1>2. /\ DOMAIN Prefix(n) = 1 .. n /\ DOMAIN Prefix(m) = 1 .. m
        /\ \A i \in 1 .. n : Prefix(n)[i] = call.ids[i]
        /\ \A i \in 1 .. m : Prefix(m)[i] = call.ids[i]
        /\ IdsOf(Prefix(n)) = {call.ids[i] : i \in 1 .. n}
        /\ IdsOf(Prefix(m)) = {call.ids[i] : i \in 1 .. m}
    BY <1>1, PrefixFacts
  <1>3. 1 .. n \subseteq 1 .. m
    OBVIOUS
  <1> QED
    BY <1>2, <1>3 DEF CanTake
-----------------------------------------------------------------------------
(* One id more: the counts of the preorders in a set.                      *)

LEMMA IdSets ==
    ASSUME NEW S \in SUBSET PreorderId
    PROVE  /\ IsFiniteSet(S) /\ Cardinality(S) \in Nat /\ Cardinality(S) <= U32Max
           /\ \A a : NumberOf(S, a) \in Nat /\ NumberOf(S, a) <= Cardinality(S)
           /\ \A r : NumberOfRace(S, r) \in Nat /\ NumberOfRace(S, r) <= Cardinality(S)
           /\ \A c : NumberOfCareer(S, c) \in Nat /\ NumberOfCareer(S, c) <= Cardinality(S)
  <1>1. IsFiniteSet(PreorderId) /\ Cardinality(PreorderId) = U32Max
    BY PreorderIdFinite
  <1>2. \A R \in SUBSET S : /\ IsFiniteSet(R) /\ Cardinality(R) \in Nat
                            /\ Cardinality(R) <= Cardinality(S)
    BY <1>1, FS_Subset, FS_CardinalityType
  <1>3. Cardinality(S) <= U32Max
    BY <1>1, FS_Subset
  <1>4. /\ \A a : S \cap OpenPreorders(a) \in SUBSET S
        /\ \A r : {id \in S : preorders[id].race = r} \in SUBSET S
        /\ \A c : {id \in S : preorders[id].career = c} \in SUBSET S
    OBVIOUS
  <1> QED
    BY <1>2, <1>3, <1>4 DEF NumberOf, NumberOfRace, NumberOfCareer

LEMMA OneIdMore ==
    ASSUME TypeOK, NEW S \in SUBSET PreorderId, NEW id \in PreorderId \ S,
           preorders[id] # None
    PROVE  LET T == S \cup {id}
               info == preorders[id]
           IN  /\ info \in PreorderInfo
               /\ Cardinality(T) = Cardinality(S) + 1
               /\ \A a : NumberOf(T, a) = NumberOf(S, a) + IF info.owner = a THEN 1 ELSE 0
               /\ \A r : NumberOfRace(T, r)
                            = NumberOfRace(S, r) + IF info.race = r THEN 1 ELSE 0
               /\ \A c : NumberOfCareer(T, c)
                            = NumberOfCareer(S, c) + IF info.career = c THEN 1 ELSE 0
  <1> DEFINE T == S \cup {id}
             info == preorders[id]
  <1>1. IsFiniteSet(S) /\ \A R \in SUBSET S : IsFiniteSet(R) /\ Cardinality(R) \in Nat
    BY IdSets, FS_Subset, FS_CardinalityType
  <1>2. \A R \in SUBSET S : id \notin R /\ Cardinality(R \cup {id}) = Cardinality(R) + 1
    BY <1>1, FS_AddElement
  <1>3. ASSUME NEW a
        PROVE  NumberOf(T, a) = NumberOf(S, a) + IF info.owner = a THEN 1 ELSE 0
    <2> DEFINE R == S \cap OpenPreorders(a)
    <2>1. T \cap OpenPreorders(a) = IF info.owner = a THEN R \cup {id} ELSE R
      BY DEF OpenPreorders
    <2>2. R \in SUBSET S
      OBVIOUS
    <2> HIDE DEF R, T, info
    <2> QED
      BY <1>1, <1>2, <2>1, <2>2 DEF NumberOf, R
  <1>4. ASSUME NEW r
        PROVE  NumberOfRace(T, r) = NumberOfRace(S, r) + IF info.race = r THEN 1 ELSE 0
    <2> DEFINE R == {i \in S : preorders[i].race = r}
               Q == {i \in T : preorders[i].race = r}
    <2>1. Q = IF info.race = r THEN R \cup {id} ELSE R
      OBVIOUS
    <2>2. R \in SUBSET S
      OBVIOUS
    <2>3. NumberOfRace(S, r) = Cardinality(R) /\ NumberOfRace(T, r) = Cardinality(Q)
      BY DEF NumberOfRace
    <2> HIDE DEF R, Q, T, info
    <2> QED
      BY <1>1, <1>2, <2>1, <2>2, <2>3
  <1>5. ASSUME NEW c
        PROVE  NumberOfCareer(T, c) = NumberOfCareer(S, c) + IF info.career = c THEN 1 ELSE 0
    <2> DEFINE R == {i \in S : preorders[i].career = c}
               Q == {i \in T : preorders[i].career = c}
    <2>1. Q = IF info.career = c THEN R \cup {id} ELSE R
      OBVIOUS
    <2>2. R \in SUBSET S
      OBVIOUS
    <2>3. NumberOfCareer(S, c) = Cardinality(R) /\ NumberOfCareer(T, c) = Cardinality(Q)
      BY DEF NumberOfCareer
    <2> HIDE DEF R, Q, T, info
    <2> QED
      BY <1>1, <1>2, <2>1, <2>2, <2>3
  <1>6. Cardinality(T) = Cardinality(S) + 1
    BY <1>2
  <1>7. info \in PreorderInfo
    BY DEF TypeOK
  <1> HIDE DEF T, info
  <1> QED
    BY <1>3, <1>4, <1>5, <1>6, <1>7 DEF T, info

LEMMA CostFacts ==
    ASSUME NEW n \in Nat
    PROVE  /\ Cost(n) \in Nat /\ Cost(0) = 0
           /\ Cost(n + 1) = Cost(n) + PrimeOriginOfShellPrice
           /\ \A m \in 0 .. n : Cost(m) <= Cost(n) /\ Cost(n - m) = Cost(n) - Cost(m)
  <1>1. PrimeOriginOfShellPrice \in Nat
    BY AssumptionsHold DEF Assumptions
  <1>2. Cost(n) \in Nat /\ Cost(0) = 0
    BY <1>1, ProductType DEF Cost
  <1>3. Cost(n + 1) = Cost(n) + PrimeOriginOfShellPrice
    BY <1>1, TimesSuccessor DEF Cost
  <1>4. ASSUME NEW m \in 0 .. n
        PROVE  Cost(m) <= Cost(n) /\ Cost(n - m) = Cost(n) - Cost(m)
    <2>1. m \in Nat /\ n - m \in Nat
      OBVIOUS
    <2>2. Cost(n - m) = Cost(n) - Cost(m)
      BY <1>1, <2>1 DEF Cost
    <2>3. Cost(m) \in Nat /\ Cost(n - m) \in Nat
      BY <1>1, <2>1, ProductType DEF Cost
    <2> QED
      BY <1>2, <2>2, <2>3
  <1> QED
    BY <1>2, <1>3, <1>4

\* What is released for a set of preorders, and for one more.
LEMMA ReleasedMore ==
    ASSUME TypeOK, NEW S \in SUBSET PreorderId, NEW id \in PreorderId \ S,
           preorders[id] # None, newReserved = ReservedAfter(S)
    PROVE  LET T == S \cup {id}
               owner == preorders[id].owner
               released == Layer!Unreserved(owner, PrimeOriginOfShellPrice)
           IN  /\ owner \in Account /\ released \in Int
               /\ Released(T, owner) = Released(S, owner) + released
               /\ \A a \in Account \ {owner} : Released(T, a) = Released(S, a)
  <1> DEFINE T == S \cup {id}
             owner == preorders[id].owner
             p == PrimeOriginOfShellPrice
             n == NumberOf(S, owner)
             m == NumberOf(T, owner)
  <1>1. owner \in Account
    BY OneIdMore DEF PreorderInfo
  <1>2. n \in Nat /\ m = n + 1 /\ \A a \in Account \ {owner} : NumberOf(T, a) = NumberOf(S, a)
    BY IdSets, OneIdMore
  <1>3. Cost(n) \in Nat /\ Cost(m) = Cost(n) + p /\ p \in Nat
    BY <1>2, CostFacts, AssumptionsHold DEF Assumptions
  <1>4. /\ Released(S, owner) = (IF reserved[owner] < Cost(n) THEN reserved[owner] ELSE Cost(n))
        /\ Released(T, owner) = (IF reserved[owner] < Cost(m) THEN reserved[owner] ELSE Cost(m))
    BY DEF Released, Unreserved, Cost
  <1>5. newReserved[owner] = reserved[owner] - Released(S, owner) /\ reserved[owner] \in Nat
    BY <1>1 DEF ReservedAfter, TypeOK, BalancesTypeOK
  <1>6. Layer!Unreserved(owner, p) = IF newReserved[owner] < p THEN newReserved[owner] ELSE p
    BY DEF Layer!Unreserved
  <1>7. /\ Layer!Unreserved(owner, p) \in Int
        /\ Released(T, owner) = Released(S, owner) + Layer!Unreserved(owner, p)
    <2> HIDE DEF T, owner, n, m, p
    <2> QED
      BY <1>3, <1>4, <1>5, <1>6
  <1>8. \A a \in Account \ {owner} : Released(T, a) = Released(S, a)
    BY <1>2 DEF Released
  <1> QED
    BY <1>1, <1>7, <1>8
-----------------------------------------------------------------------------
(* The steps of the loops, in terms of the storage they started from.      *)

\* Taking one more preorder.
LEMMA TakeMore ==
    ASSUME TypeOK, NEW S \in SUBSET PreorderId, NEW id \in PreorderId \ S,
           NEW M \in SUBSET PreorderId, preorders[id] # None,
           newPreorders = PreordersAfter(S), newReserved = ReservedAfter(S),
           newFree = FreeAfter(S, M)
    PROVE  LET T == S \cup {id}
               owner == preorders[id].owner
               released == Layer!Unreserved(owner, PrimeOriginOfShellPrice)
           IN  /\ newPreorders[id] = preorders[id]
               /\ [newPreorders EXCEPT ![id] = None] = PreordersAfter(T)
               /\ [newReserved EXCEPT ![owner] = @ - released] = ReservedAfter(T)
               /\ [newFree EXCEPT ![owner] = @ + released] = FreeAfter(T, M)
  <1> DEFINE T == S \cup {id}
             owner == preorders[id].owner
             released == Layer!Unreserved(owner, PrimeOriginOfShellPrice)
  <1>1. /\ owner \in Account /\ released \in Int
        /\ Released(T, owner) = Released(S, owner) + released
        /\ \A a \in Account \ {owner} : Released(T, a) = Released(S, a)
    BY ReleasedMore
  <1>2. /\ newPreorders[id] = preorders[id]
        /\ [newPreorders EXCEPT ![id] = None] = PreordersAfter(T)
    BY DEF PreordersAfter
  <1>3. \A a \in Account : /\ free[a] \in Nat /\ reserved[a] \in Nat
                           /\ Released(S, a) \in Nat /\ Released(T, a) \in Nat
                           /\ Gain(M, a) \in Int
    <2> TAKE a \in Account
    <2>1. /\ Cardinality(M) \in Nat /\ NumberOf(M, a) \in Nat
          /\ NumberOf(M, a) <= Cardinality(M)
      BY IdSets
    <2>2. Cardinality(M) - NumberOf(M, a) \in Nat
      BY <2>1
    <2>3. Cost(NumberOf(M, a)) \in Nat /\ Cost(Cardinality(M) - NumberOf(M, a)) \in Nat
      BY <2>1, <2>2, CostFacts
    <2> QED
      BY <2>3, ReleasedFacts DEF TypeOK, BalancesTypeOK, Gain
  <1>4. released = Released(T, owner) - Released(S, owner)
    <2> HIDE DEF T, owner, released
    <2> QED
      BY <1>1, <1>3
  <1> HIDE DEF T, owner, released
  <1>5. [newReserved EXCEPT ![owner] = @ - released] = ReservedAfter(T)
    <2>1. newReserved = [a \in Account |-> reserved[a] - Released(S, a)]
      BY DEF ReservedAfter
    <2>2. newReserved[owner] - released = reserved[owner] - Released(T, owner)
      BY <1>1, <1>3, <1>4, <2>1
    <2> QED
      BY <1>1, <1>3, <2>1, <2>2 DEF ReservedAfter
  <1>6. [newFree EXCEPT ![owner] = @ + released] = FreeAfter(T, M)
    <2>1. newFree = [a \in Account |-> free[a] + Released(S, a) + Gain(M, a)]
      BY DEF FreeAfter
    <2>2. newFree[owner] + released = free[owner] + Released(T, owner) + Gain(M, owner)
      BY <1>1, <1>3, <1>4, <2>1
    <2> QED
      BY <1>1, <1>3, <2>1, <2>2 DEF FreeAfter
  <1> QED
    BY <1>2, <1>5, <1>6 DEF T, owner, released

\* What minting one more shell moves, and who gains what by it.
LEMMA GainMore ==
    ASSUME TypeOK, overlord # None, NEW M \in SUBSET PreorderId,
           NEW id \in PreorderId \ M, preorders[id] # None, NEW a \in Account
    PROVE  LET T == M \cup {id}
               owner == preorders[id].owner
           IN  /\ overlord \in Account /\ owner \in Account
               /\ Gain(M, a) \in Int /\ Gain(T, a) \in Int
               /\ Gain(T, a) = Gain(M, a)
                    + IF owner = overlord THEN 0
                      ELSE IF a = overlord THEN PrimeOriginOfShellPrice
                      ELSE IF a = owner THEN -PrimeOriginOfShellPrice ELSE 0
  <1> DEFINE T == M \cup {id}
             owner == preorders[id].owner
             p == PrimeOriginOfShellPrice
             rest == Cardinality(M) - NumberOf(M, a)
  <1>1. overlord \in Account /\ owner \in Account
    BY OneIdMore DEF TypeOK, PreorderInfo
  <1>2. /\ Cardinality(M) \in Nat /\ NumberOf(M, a) \in Nat
        /\ NumberOf(M, a) <= Cardinality(M)
        /\ Cardinality(T) = Cardinality(M) + 1
        /\ NumberOf(T, a) = NumberOf(M, a) + IF owner = a THEN 1 ELSE 0
        /\ p \in Nat
    BY IdSets, OneIdMore, AssumptionsHold DEF Assumptions
  <1>3. /\ rest \in Nat
        /\ Cardinality(T) - NumberOf(T, a) = IF owner = a THEN rest ELSE rest + 1
    <2> HIDE DEF T, owner
    <2> QED
      BY <1>2
  <1>4. /\ Cost(rest) \in Nat /\ Cost(rest + 1) = Cost(rest) + p
        /\ Cost(NumberOf(M, a)) \in Nat
        /\ Cost(NumberOf(M, a) + 1) = Cost(NumberOf(M, a)) + p
    BY <1>2, <1>3, CostFacts
  <1>5. /\ Gain(M, a) = IF a = overlord THEN Cost(rest) ELSE -Cost(NumberOf(M, a))
        /\ Gain(T, a) = IF a = overlord THEN Cost(Cardinality(T) - NumberOf(T, a))
                        ELSE -Cost(NumberOf(T, a))
    BY DEF Gain
  <1>6. NumberOf(T, a) = IF owner = a THEN NumberOf(M, a) + 1 ELSE NumberOf(M, a)
    <2> HIDE DEF T, owner
    <2> QED
      BY <1>2
  <1> HIDE DEF T, owner, p, rest
  <1>7. /\ Gain(M, a) \in Int /\ Gain(T, a) \in Int
        /\ Gain(T, a) = Gain(M, a) + IF owner = overlord THEN 0
                                     ELSE IF a = overlord THEN p
                                     ELSE IF a = owner THEN -p ELSE 0
    BY <1>2, <1>3, <1>4, <1>5, <1>6
  <1> QED
    BY <1>1, <1>7 DEF T, owner, p

LEMMA PaymentMore ==
    ASSUME TypeOK, overlord # None, NEW M \in SUBSET PreorderId,
           NEW id \in PreorderId \ M, preorders[id] # None,
           newFree = FreeAfter(M \cup {id}, M)
    PROVE  Layer!FreeAfterTransfer(preorders[id].owner, overlord, PrimeOriginOfShellPrice)
              = FreeAfter(M \cup {id}, M \cup {id})
  <1> DEFINE T == M \cup {id}
             owner == preorders[id].owner
             p == PrimeOriginOfShellPrice
  <1>1. overlord \in Account /\ owner \in Account /\ p \in Nat
    BY GainMore, AssumptionsHold DEF Assumptions, TypeOK
  <1>2. ASSUME NEW a \in Account
        PROVE  /\ free[a] + Released(T, a) \in Int
               /\ Gain(M, a) \in Int /\ Gain(T, a) \in Int
               /\ Gain(T, a) = Gain(M, a) + IF owner = overlord THEN 0
                                            ELSE IF a = overlord THEN p
                                            ELSE IF a = owner THEN -p ELSE 0
    <2>1. T \in SUBSET PreorderId
      OBVIOUS
    <2>2. free[a] \in Nat /\ Released(T, a) \in Nat
      BY <2>1, ReleasedFacts DEF TypeOK, BalancesTypeOK
    <2> QED
      BY <2>2, GainMore
  <1>3. /\ newFree = [a \in Account |-> free[a] + Released(T, a) + Gain(M, a)]
        /\ FreeAfter(T, T) = [a \in Account |-> free[a] + Released(T, a) + Gain(T, a)]
    BY DEF FreeAfter
  <1>4. Layer!FreeAfterTransfer(owner, overlord, p)
          = IF owner = overlord THEN newFree
            ELSE [newFree EXCEPT ![owner] = @ - p, ![overlord] = @ + p]
    BY DEF Layer!FreeAfterTransfer
  <1> HIDE DEF T, owner, p
  <1>5. ASSUME NEW a \in Account
        PROVE  /\ newFree[a] \in Int /\ FreeAfter(T, T)[a] \in Int
               /\ FreeAfter(T, T)[a] = newFree[a] + IF owner = overlord THEN 0
                                                   ELSE IF a = overlord THEN p
                                                   ELSE IF a = owner THEN -p ELSE 0
    <2> DEFINE old == free[a] + Released(T, a)
               gain == Gain(M, a)
               more == Gain(T, a)
    <2>1. newFree[a] = old + gain /\ FreeAfter(T, T)[a] = old + more
      BY <1>3
    <2>2. /\ old \in Int /\ gain \in Int /\ more \in Int
          /\ more = gain + IF owner = overlord THEN 0
                           ELSE IF a = overlord THEN p
                           ELSE IF a = owner THEN -p ELSE 0
      BY <1>2
    <2> HIDE DEF old, gain, more
    <2>3. CASE owner = overlord
      BY <2>1, <2>2, <2>3
    <2>4. CASE owner # overlord /\ a = overlord
      BY <1>1, <2>1, <2>2, <2>4
    <2>5. CASE owner # overlord /\ a = owner
      BY <1>1, <2>1, <2>2, <2>5
    <2>6. CASE a \notin {owner, overlord}
      BY <2>1, <2>2, <2>6
    <2> QED
      BY <2>3, <2>4, <2>5, <2>6
  <1>6. newFree \in [Account -> Int] /\ FreeAfter(T, T) \in [Account -> Int]
    BY <1>3, <1>5
  <1> DEFINE after == FreeAfter(T, T)
  <1> HIDE DEF after
  <1>7. ASSUME owner = overlord PROVE newFree = after
    <2>1. ASSUME NEW a \in Account PROVE newFree[a] = after[a]
      <3>1. /\ newFree[a] \in Int /\ after[a] \in Int
            /\ after[a] = newFree[a] + 0
        BY <1>5, <1>7 DEF after
      <3> QED
        BY <3>1
    <2> QED
      BY <1>6, <2>1 DEF after
  <1>8. ASSUME owner # overlord
        PROVE  [newFree EXCEPT ![owner] = @ - p, ![overlord] = @ + p] = after
    <2>1. \A a \in Account : after[a]
             = newFree[a] + IF a = overlord THEN p ELSE IF a = owner THEN -p ELSE 0
      BY <1>5, <1>8 DEF after
    <2>2. p \in Int /\ newFree \in [Account -> Int] /\ after \in [Account -> Int]
      BY <1>1, <1>6 DEF after
    <2> DEFINE moved == [newFree EXCEPT ![owner] = @ - p, ![overlord] = @ + p]
    <2>3. moved = [a \in Account |-> IF a = overlord THEN newFree[overlord] + p
                                     ELSE IF a = owner THEN newFree[owner] - p
                                     ELSE newFree[a]]
      BY <1>1, <1>8, <2>2
    <2> HIDE DEF moved
    <2>4. ASSUME NEW a \in Account PROVE moved[a] = after[a]
      <3>1. CASE a = overlord
        BY <1>1, <2>1, <2>2, <2>3, <3>1
      <3>2. CASE a # overlord /\ a = owner
        BY <1>1, <2>1, <2>2, <2>3, <3>2
      <3>3. CASE a # overlord /\ a # owner
        <4>1. newFree[a] \in Int /\ after[a] = newFree[a] + 0 /\ moved[a] = newFree[a]
          BY <2>1, <2>2, <2>3, <3>3
        <4> QED
          BY <4>1
      <3> QED
        BY <3>1, <3>2, <3>3
    <2>5. moved = after
      BY <2>2, <2>3, <2>4
    <2> QED
      BY <2>5 DEF moved
  <1> QED
    BY <1>4, <1>7, <1>8 DEF T, owner, p, after

\* The Overlord has gained nothing as long as all the shells were its own.
LEMMA OtherOwner ==
    ASSUME TypeOK, NEW M \in SUBSET PreorderId, \A i \in M : preorders[i] # None,
           NEW o \in Account, NumberOf(M, o) # Cardinality(M)
    PROVE  \E a \in Account \ {o} : NumberOf(M, a) # 0
  <1>1. M # M \cap OpenPreorders(o)
    BY DEF NumberOf
  <1>2. PICK i \in M : i \notin OpenPreorders(o)
    BY <1>1
  <1>3. preorders[i] \in PreorderInfo /\ preorders[i].owner # o
    BY <1>2 DEF TypeOK, OpenPreorders
  <1> DEFINE a == preorders[i].owner
  <1>4. a \in Account \ {o} /\ i \in M \cap OpenPreorders(a)
    BY <1>2, <1>3 DEF PreorderInfo, OpenPreorders
  <1>5. IsFiniteSet(M \cap OpenPreorders(a))
    BY IdSets, FS_Subset
  <1>6. NumberOf(M, a) # 0
    BY <1>4, <1>5, FS_EmptySet DEF NumberOf
  <1> QED
    BY <1>4, <1>6

\* The winner pays for its shells one by one as it would for all at once.
LEMMA PayMore ==
    ASSUME TypeOK, overlord # None, NEW M \in SUBSET PreorderId,
           NEW id \in PreorderId \ M, preorders[id] # None,
           \A i \in M : preorders[i] # None, \A a \in Account : CanPay(M, a),
           newReserved = ReservedAfter(M \cup {id}),
           newFree = FreeAfter(M \cup {id}, M)
    PROVE  Layer!CanTransfer(preorders[id].owner, overlord, PrimeOriginOfShellPrice)
              <=> \A a \in Account : CanPay(M \cup {id}, a)
  <1> DEFINE T == M \cup {id}
             owner == preorders[id].owner
             p == PrimeOriginOfShellPrice
             n == NumberOf(M, owner)
  <1>1. overlord \in Account /\ owner \in Account /\ p \in Nat \ {0}
    BY GainMore, AssumptionsHold DEF Assumptions, TypeOK
  <1>2. /\ n \in Nat /\ NumberOf(T, owner) = n + 1
        /\ \A a \in Account \ {owner} : NumberOf(T, a) = NumberOf(M, a)
    <2>1. \A a : /\ NumberOf(M, a) \in Nat
                 /\ NumberOf(T, a) = NumberOf(M, a) + IF owner = a THEN 1 ELSE 0
      BY IdSets, OneIdMore
    <2> HIDE DEF T, owner
    <2> QED
      BY <2>1
  <1>3. \A a \in Account \ {owner} : CanPay(T, a)
    BY <1>2 DEF CanPay, Released
  <1>4. CASE owner = overlord
    BY <1>3, <1>4 DEF CanPay, Layer!CanTransfer
  <1>5. ASSUME owner # overlord
        PROVE  Layer!CanTransfer(owner, overlord, p) <=> \A a \in Account : CanPay(T, a)
    <2> DEFINE old == free[owner] + Released(T, owner)
               total == TotalBalance(owner)
               theirs == TotalBalance(overlord)
               gain == Gain(M, overlord)
    <2>1. /\ Cost(n) \in Nat /\ Cost(n + 1) = Cost(n) + p
      BY <1>2, CostFacts
    <2>2. CanPay(T, owner) <=> /\ old >= Cost(n + 1)
                               /\ total - Cost(n + 1) >= ExistentialDeposit
                               /\ theirs + p >= ExistentialDeposit
      BY <1>2, <1>5 DEF CanPay, Cost
    <2>3. Layer!CanTransfer(owner, overlord, p)
            <=> /\ newFree[owner] >= p
                /\ (newFree[owner] + newReserved[owner]) - p >= ExistentialDeposit
                /\ (newFree[overlord] + newReserved[overlord]) + p >= ExistentialDeposit
      BY <1>1, <1>5 DEF Layer!CanTransfer, Layer!TotalBalance
    <2>4. \A a \in Account : /\ free[a] \in Nat /\ reserved[a] \in Nat
                             /\ Released(T, a) \in Nat /\ Released(T, a) <= reserved[a]
                             /\ Gain(M, a) \in Int
      BY GainMore, ReleasedFacts DEF TypeOK, BalancesTypeOK
    <2>types. /\ free[owner] \in Nat /\ reserved[owner] \in Nat
              /\ Released(T, owner) \in Nat /\ free[overlord] \in Nat
              /\ reserved[overlord] \in Nat /\ Released(T, overlord) \in Nat
              /\ gain \in Int
      BY <1>1, <2>4
    <2>5. /\ newFree[owner] = old + Gain(M, owner)
          /\ Gain(M, owner) = -Cost(n)
          /\ newFree[overlord] = free[overlord] + Released(T, overlord) + gain
          /\ newReserved[owner] = reserved[owner] - Released(T, owner)
          /\ newReserved[overlord] = reserved[overlord] - Released(T, overlord)
      BY <1>1, <1>5 DEF FreeAfter, ReservedAfter, Gain
    <2>6. /\ total = free[owner] + reserved[owner]
          /\ theirs = free[overlord] + reserved[overlord]
      BY DEF TotalBalance
    <2>7. /\ newFree[owner] = old - Cost(n)
          /\ newFree[owner] + newReserved[owner] = total - Cost(n)
          /\ newFree[overlord] + newReserved[overlord] = theirs + gain
      <3> HIDE DEF n, T, owner, p, gain, total, theirs
      <3>1. newFree[owner] = old - Cost(n)
        BY <2>1, <2>types, <2>5
      <3>2. newFree[owner] + newReserved[owner] = total - Cost(n)
        BY <2>1, <2>types, <2>5, <2>6, <3>1
      <3>3. newFree[overlord] + newReserved[overlord] = theirs + gain
        BY <2>types, <2>5, <2>6
      <3> QED
        BY <3>1, <3>2, <3>3
    <2>8. /\ old \in Int /\ total \in Int /\ theirs \in Int /\ gain \in Int
          /\ newFree[owner] \in Int /\ newReserved[owner] \in Int
          /\ newFree[overlord] \in Int /\ newReserved[overlord] \in Int
          /\ ExistentialDeposit \in Nat
      <3>1. ExistentialDeposit \in Nat
        BY AssumptionsHold DEF Assumptions
      <3> HIDE DEF n, T, owner, p, gain, total, theirs
      <3>2. old \in Int /\ total \in Int /\ theirs \in Int /\ gain \in Int
        BY <2>types, <2>6
      <3>3. newReserved[owner] \in Int /\ newReserved[overlord] \in Int
        BY <2>types, <2>5
      <3>4. newFree[owner] \in Int
        BY <2>1, <2>7, <3>2
      <3>5. newFree[overlord] \in Int
        BY <2>types, <2>5
      <3> QED
        BY <3>1, <3>2, <3>3, <3>4, <3>5
    <2>9. gain >= 0 /\ (gain = 0 \/ theirs + p >= ExistentialDeposit)
      <3>1. CASE NumberOf(M, overlord) = Cardinality(M)
        <4>1. gain = Cost(0)
          BY <3>1, IdSets DEF Gain
        <4> QED
          BY <4>1, CostFacts
      <3>2. CASE NumberOf(M, overlord) # Cardinality(M)
        <4>1. PICK a \in Account \ {overlord} : NumberOf(M, a) # 0
          BY <1>1, <3>2, OtherOwner
        <4>2. theirs + p >= ExistentialDeposit
          BY <4>1 DEF CanPay
        <4>3. Cardinality(M) - NumberOf(M, overlord) \in Nat
          BY IdSets
        <4>4. gain \in Nat
          BY <4>3, CostFacts DEF Gain
        <4> QED
          BY <4>2, <4>4
      <3> QED
        BY <3>1, <3>2
    <2> HIDE DEF n, T, owner, p, old, total, theirs, gain
    <2>10. Layer!CanTransfer(owner, overlord, p) <=> CanPay(T, owner)
      <3>1. old - Cost(n) >= p <=> old >= Cost(n + 1)
        BY <1>1, <2>1, <2>8
      <3>2. total - Cost(n) - p >= ExistentialDeposit
              <=> total - Cost(n + 1) >= ExistentialDeposit
        BY <1>1, <2>1, <2>8
      <3>3. theirs + gain + p >= ExistentialDeposit <=> theirs + p >= ExistentialDeposit
        BY <1>1, <2>8, <2>9
      <3> QED
        BY <2>2, <2>3, <2>7, <3>1, <3>2, <3>3, Zenon
    <2> QED
      BY <1>1, <1>3, <2>10
  <1> QED
    BY <1>4, <1>5

-----------------------------------------------------------------------------
(* The counters of the stock.                                              *)

\* Two additions that wrap around are one.
LEMMA WrappedMore ==
    ASSUME NEW m \in U32, NEW n \in Nat, n < U32Max
    PROVE  Layer!Wrapped(Wrapped(m + n) + 1) = Wrapped(m + (n + 1))
  BY AssumptionsHold DEF Assumptions, U32, Wrapped, Layer!Wrapped

LEMMA SoldMore ==
    ASSUME NEW row \in NftSaleInfo, NEW n \in Nat, n < U32Max, row.left["ForSale"] >= n
    PROVE  /\ Sold(row, "ForSale", n) \in NftSaleInfo
           /\ Sold(row, "ForSale", n).left["ForSale"] = row.left["ForSale"] - n
           /\ Layer!Sold(row, "ForSale", 1) = Sold(row, "ForSale", 1)
           /\ row.left["ForSale"] >= n + 1 =>
                 Layer!Sold(Sold(row, "ForSale", n), "ForSale", 1)
                    = Sold(row, "ForSale", n + 1)
  <1> DEFINE before == row.left["ForSale"]
             one == Sold(row, "ForSale", n)
  <1>1. /\ row.raceCount \in U32 /\ row.left \in [NftSaleType -> U32]
        /\ before \in U32 /\ "ForSale" \in NftSaleType
    BY DEF NftSaleInfo, NftSaleType
  <1>2. U32Max \in Nat \ {0}
    BY AssumptionsHold DEF Assumptions
  <1>3. /\ one.raceCount = Wrapped(row.raceCount + n)
        /\ one.left = [row.left EXCEPT !["ForSale"] = Wrapped(before - n)]
    BY DEF Sold
  <1>4. Wrapped(row.raceCount + n) \in U32
    BY <1>1, <1>2 DEF U32, Wrapped
  <1>5. Wrapped(before - n) = before - n /\ before - n \in U32
    BY <1>1, <1>2 DEF U32, Wrapped
  <1>6. one \in NftSaleInfo /\ one.left["ForSale"] = before - n
    BY <1>1, <1>3, <1>4, <1>5 DEF NftSaleInfo, Sold
  <1>7. Layer!Sold(row, "ForSale", 1) = Sold(row, "ForSale", 1)
    BY DEF Sold, Layer!Sold, Wrapped, Layer!Wrapped
  <1>8. ASSUME before >= n + 1
        PROVE  Layer!Sold(one, "ForSale", 1) = Sold(row, "ForSale", n + 1)
    <2>1. Layer!Wrapped(one.raceCount + 1) = Wrapped(row.raceCount + (n + 1))
      BY <1>1, <1>3, WrappedMore
    <2>2. Layer!Wrapped((before - n) - 1) = before - (n + 1)
      BY <1>1, <1>2, <1>8 DEF U32, Layer!Wrapped
    <2>3. Wrapped(before - (n + 1)) = before - (n + 1)
      BY <1>1, <1>2, <1>8 DEF U32, Wrapped
    <2>4. [one.left EXCEPT !["ForSale"] = Layer!Wrapped(@ - 1)]
            = [row.left EXCEPT !["ForSale"] = before - (n + 1)]
      BY <1>1, <1>3, <1>5, <2>2
    <2> HIDE DEF one
    <2> QED
      BY <2>1, <2>3, <2>4 DEF Sold, Layer!Sold
  <1> QED
    BY <1>6, <1>7, <1>8

\* Minting one shell more, of the stock and the careers.
LEMMA StockMore ==
    ASSUME TypeOK, NEW M \in SUBSET PreorderId, NEW id \in PreorderId \ M,
           preorders[id] # None, newInventory = InventoryAfter(M),
           \A r \in RaceType : NumberOfRace(M, r) > 0 =>
               HasRaceTypeLeft(<<"Prime", r>>, "ForSale", NumberOfRace(M, r))
    PROVE  LET T == M \cup {id}
               key == <<"Prime", preorders[id].race>>
           IN  /\ Layer!HasRaceTypeLeft(key, "ForSale", 1) <=>
                     \A r \in RaceType : NumberOfRace(T, r) > 0 =>
                         HasRaceTypeLeft(<<"Prime", r>>, "ForSale", NumberOfRace(T, r))
               /\ Layer!HasRaceTypeLeft(key, "ForSale", 1) =>
                     [newInventory EXCEPT ![key] = Layer!Sold(@, "ForSale", 1)]
                        = InventoryAfter(T)
  <1> DEFINE T == M \cup {id}
             race == preorders[id].race
             key == <<"Prime", race>>
             n == NumberOfRace(M, race)
             row == inventory[key]
             Left(r, m) == m > 0 => HasRaceTypeLeft(<<"Prime", r>>, "ForSale", m)
             new == newInventory[key]
  <1>1. race \in RaceType /\ key \in StockKey
    BY OneIdMore DEF PreorderInfo, StockKey, RarityType
  <1>2. /\ n \in Nat /\ NumberOfRace(T, race) = n + 1
        /\ \A r \in RaceType \ {race} : NumberOfRace(T, r) = NumberOfRace(M, r)
    <2>1. \A r : /\ NumberOfRace(M, r) \in Nat
                 /\ NumberOfRace(T, r) = NumberOfRace(M, r) + IF race = r THEN 1 ELSE 0
      BY IdSets, OneIdMore
    <2> HIDE DEF T, race
    <2> QED
      BY <2>1
  <1>3. n < U32Max
    <2>1. T \in SUBSET PreorderId
      OBVIOUS
    <2>2. /\ NumberOfRace(T, race) \in Nat /\ NumberOfRace(T, race) <= Cardinality(T)
          /\ Cardinality(T) \in Nat /\ Cardinality(T) <= U32Max /\ U32Max \in Nat
      BY <2>1, IdSets, AssumptionsHold DEF Assumptions
    <2> HIDE DEF T, race
    <2> QED
      BY <1>2, <2>2
  <1>4. new = IF n > 0 THEN Sold(row, "ForSale", n) ELSE row
    BY <1>1 DEF InventoryAfter
  <1>5. row \in NftSaleInfo \cup {None} /\ None \notin NftSaleInfo
    BY <1>1, AssumptionsHold DEF TypeOK, Assumptions
  <1>6. n > 0 => row # None /\ row.left["ForSale"] >= n
    BY <1>1 DEF HasRaceTypeLeft
  <1>7. (\A r \in RaceType : Left(r, NumberOfRace(T, r))) <=> Left(race, n + 1)
    <2> HIDE DEF T, n, key, row, new
    <2> QED
      BY <1>1, <1>2
  <1>8. Left(race, n + 1) <=> row # None /\ row.left["ForSale"] >= n + 1
    BY <1>2 DEF HasRaceTypeLeft
  <1>9. Layer!HasRaceTypeLeft(key, "ForSale", 1) <=> new # None /\ new.left["ForSale"] >= 1
    BY DEF Layer!HasRaceTypeLeft
  <1>10. row # None => row.left["ForSale"] \in Nat
    BY <1>5, AssumptionsHold DEF NftSaleInfo, NftSaleType, U32, Assumptions
  <1>11. n > 0 => /\ new \in NftSaleInfo
                  /\ new.left["ForSale"] = row.left["ForSale"] - n
    BY <1>2, <1>3, <1>4, <1>5, <1>6, SoldMore
  <1>12. new # None /\ new.left["ForSale"] >= 1
           <=> row # None /\ row.left["ForSale"] >= n + 1
    <2> HIDE DEF n, row, new
    <2>1. CASE n = 0
      BY <1>4, <2>1
    <2>2. CASE n > 0
      BY <1>2, <1>5, <1>6, <1>10, <1>11, <2>2
    <2> QED
      BY <1>2, <2>1, <2>2
  <1>13. ASSUME row # None, row.left["ForSale"] >= n + 1
         PROVE  Layer!Sold(new, "ForSale", 1) = Sold(row, "ForSale", n + 1)
    <2> HIDE DEF n, row, new
    <2>1. row \in NftSaleInfo /\ n \in Nat /\ n < U32Max /\ row.left["ForSale"] >= n
      BY <1>2, <1>3, <1>5, <1>10, <1>13
    <2>2. CASE n = 0
      BY <1>4, <2>1, <2>2, SoldMore
    <2>3. CASE n > 0
      BY <1>4, <1>13, <2>1, <2>3, SoldMore
    <2> QED
      BY <1>2, <2>2, <2>3
  <1>14. ASSUME row # None, row.left["ForSale"] >= n + 1
         PROVE  [newInventory EXCEPT ![key] = Layer!Sold(@, "ForSale", 1)]
                   = InventoryAfter(T)
    <2>1. newInventory = [k \in StockKey |-> newInventory[k]]
      BY DEF InventoryAfter
    <2>2. InventoryAfter(T)[key] = Sold(row, "ForSale", n + 1)
      BY <1>1, <1>2 DEF InventoryAfter
    <2>3. ASSUME NEW k \in StockKey, k # key PROVE newInventory[k] = InventoryAfter(T)[k]
      <3>1. k[1] = "Prime" => k[2] \in RaceType \ {race}
        BY <2>3 DEF StockKey
      <3>2. k[1] = "Prime" => NumberOfRace(T, k[2]) = NumberOfRace(M, k[2])
        BY <1>2, <3>1
      <3> HIDE DEF T
      <3> QED
        BY <3>2 DEF InventoryAfter
    <2>4. Layer!Sold(newInventory[key], "ForSale", 1) = InventoryAfter(T)[key]
      BY <1>13, <1>14, <2>2
    <2>5. InventoryAfter(T) = [k \in StockKey |-> InventoryAfter(T)[k]]
      BY DEF InventoryAfter
    <2> HIDE DEF T, key, n, row, new
    <2> QED
      BY <1>1, <2>1, <2>3, <2>4, <2>5
  <1> HIDE DEF n, row, new
  <1>15. Layer!HasRaceTypeLeft(key, "ForSale", 1)
           <=> \A r \in RaceType : Left(r, NumberOfRace(T, r))
    BY <1>7, <1>8, <1>9, <1>12
  <1>16. Layer!HasRaceTypeLeft(key, "ForSale", 1) =>
            [newInventory EXCEPT ![key] = Layer!Sold(@, "ForSale", 1)] = InventoryAfter(T)
    BY <1>9, <1>12, <1>14
  <1> QED
    BY <1>15, <1>16

LEMMA CareersMore ==
    ASSUME TypeOK, NEW M \in SUBSET PreorderId, NEW id \in PreorderId \ M,
           preorders[id] # None, newCareerTypeCount = CareersAfter(M)
    PROVE  [newCareerTypeCount EXCEPT ![preorders[id].career] = Layer!Wrapped(@ + 1)]
              = CareersAfter(M \cup {id})
  <1> DEFINE T == M \cup {id}
             career == preorders[id].career
  <1>1. career \in CareerType
    BY OneIdMore DEF PreorderInfo
  <1>2. \A c : /\ NumberOfCareer(M, c) \in Nat /\ NumberOfCareer(T, c) <= U32Max
               /\ NumberOfCareer(T, c)
                    = NumberOfCareer(M, c) + IF career = c THEN 1 ELSE 0
    <2> TAKE c
    <2>1. T \in SUBSET PreorderId
      OBVIOUS
    <2>2. /\ NumberOfCareer(T, c) \in Nat /\ NumberOfCareer(T, c) <= Cardinality(T)
          /\ Cardinality(T) \in Nat /\ Cardinality(T) <= U32Max /\ U32Max \in Nat
      BY <2>1, IdSets, AssumptionsHold DEF Assumptions
    <2>3. NumberOfCareer(T, c) <= U32Max
      <3> HIDE DEF T, career
      <3> QED
        BY <2>2
    <2> QED
      BY <2>3, IdSets, OneIdMore
  <1>3. U32Max \in Nat
    BY AssumptionsHold DEF Assumptions
  <1> HIDE DEF T, career
  <1>4. ASSUME NEW c \in CareerType \ {career}
        PROVE  NumberOfCareer(T, c) = NumberOfCareer(M, c)
    BY <1>2
  <1> DEFINE n == NumberOfCareer(M, career)
  <1>5. n \in Nat /\ n < U32Max /\ NumberOfCareer(T, career) = n + 1
    BY <1>2, <1>3
  <1>6. careerTypeCount[career] \in U32
    BY <1>1 DEF TypeOK
  <1>7. Layer!Wrapped(newCareerTypeCount[career] + 1) = CareersAfter(T)[career]
    BY <1>1, <1>5, <1>6, WrappedMore DEF CareersAfter
  <1>8. \A c \in CareerType \ {career} : newCareerTypeCount[c] = CareersAfter(T)[c]
    BY <1>4 DEF CareersAfter
  <1>9. /\ newCareerTypeCount = [c \in CareerType |-> newCareerTypeCount[c]]
        /\ CareersAfter(T) = [c \in CareerType |-> CareersAfter(T)[c]]
    BY DEF CareersAfter
  <1>10. [newCareerTypeCount EXCEPT ![career] = Layer!Wrapped(@ + 1)] = CareersAfter(T)
    BY <1>1, <1>7, <1>8, <1>9
  <1> QED
    BY <1>10 DEF T, career

-----------------------------------------------------------------------------
(* The shells a call has minted so far.                                    *)

\* The shells of the first n ids.
Shells(n) == [i \in 1 .. n |-> ShellOf(call.ids[i])]

LEMMA ShellsType ==
    ASSUME TypeOK, call.ids \in Seq(PreorderId), NEW n \in Nat, n <= Len(call.ids),
           CanTake(Prefix(n))
    PROVE  /\ Shells(n) \in Seq(Item) /\ Len(Shells(n)) = n
           /\ \A i \in 1 .. n : /\ Shells(n)[i] = ShellOf(call.ids[i])
                                /\ Shells(n)[i].owner = preorders[call.ids[i]].owner
           /\ [i \in DOMAIN Prefix(n) |-> ShellOf(Prefix(n)[i])] = Shells(n)
  <1>1. /\ DOMAIN Prefix(n) = 1 .. n
        /\ \A i \in 1 .. n : Prefix(n)[i] = call.ids[i] /\ call.ids[i] \in PreorderId
        /\ IdsOf(Prefix(n)) = {call.ids[i] : i \in 1 .. n}
    BY PrefixFacts
  <1>2. ASSUME NEW i \in 1 .. n PROVE ShellOf(call.ids[i]) \in Item
    <2>1. preorders[call.ids[i]] \in PreorderInfo
      BY <1>1 DEF CanTake, TypeOK
    <2> QED
      BY <2>1 DEF ShellOf, Item, Attributes, PreorderInfo, RarityType
  <1>3. [i \in DOMAIN Prefix(n) |-> ShellOf(Prefix(n)[i])] = Shells(n)
    BY <1>1 DEF Shells
  <1>4. Shells(n) \in Seq(Item) /\ Len(Shells(n)) = n
    BY <1>2 DEF Shells
  <1>5. \A i \in 1 .. n : /\ Shells(n)[i] = ShellOf(call.ids[i])
                          /\ Shells(n)[i].owner = preorders[call.ids[i]].owner
    BY DEF Shells, ShellOf
  <1> QED
    BY <1>3, <1>4, <1>5

LEMMA AppendConcat ==
    ASSUME NEW A, NEW s \in Seq(A), NEW t \in Seq(A), NEW x \in A
    PROVE  /\ s \o Append(t, x) = Append(s \o t, x)
           /\ s \o t \in Seq(A) /\ Len(s \o t) = Len(s) + Len(t)
  OBVIOUS

\* Minting one shell more, of the items.
LEMMA ItemsMore ==
    ASSUME TypeOK, call.ids \in Seq(PreorderId), NEW n \in Nat, n + 1 <= Len(call.ids),
           CanTake(Prefix(n + 1)), originOfShellCollectionId # None,
           newItems = ItemsAfter(Prefix(n))
    PROVE  LET o == originOfShellCollectionId
               id == call.ids[n + 1]
           IN  /\ [newItems EXCEPT ![o] = Append(@, ShellOf(id))]
                     = ItemsAfter(Prefix(n + 1))
               /\ Layer!CanMint(overlord, o, 1) <=> CanMint(overlord, o, n + 1)
  <1> DEFINE o == originOfShellCollectionId
             id == call.ids[n + 1]
             s == items[o]
  <1>1. o \in CollectionId /\ items \in [CollectionId -> Seq(Item)]
    BY DEF TypeOK, RmrkTypeOK
  <1>2. n <= Len(call.ids) /\ n + 1 \in Nat /\ Len(call.ids) \in Nat /\ n \in 0 .. (n + 1)
    OBVIOUS
  <1>3. CanTake(Prefix(n))
    BY <1>2, CanTakePrefix
  <1>4. /\ Shells(n) \in Seq(Item) /\ Len(Shells(n)) = n
        /\ Shells(n + 1) \in Seq(Item) /\ Len(Shells(n + 1)) = n + 1
        /\ \A i \in 1 .. n : Shells(n)[i] = ShellOf(call.ids[i])
        /\ \A i \in 1 .. (n + 1) : Shells(n + 1)[i] = ShellOf(call.ids[i])
    BY <1>2, <1>3, ShellsType
  <1>5. ShellOf(id) \in Item
    BY <1>4
  <1>6. Shells(n + 1) = Append(Shells(n), ShellOf(id))
    BY <1>4, <1>5
  <1>7. /\ ItemsAfter(Prefix(n)) = [items EXCEPT ![o] = s \o Shells(n)]
        /\ ItemsAfter(Prefix(n + 1)) = [items EXCEPT ![o] = s \o Shells(n + 1)]
    BY <1>2, <1>3, ShellsType DEF ItemsAfter
  <1>8. /\ s \in Seq(Item) /\ Len(s) \in Nat
        /\ s \o Shells(n + 1) = Append(s \o Shells(n), ShellOf(id))
        /\ Len(s \o Shells(n)) = Len(s) + n
    <2> DEFINE t == Shells(n)
               x == ShellOf(id)
    <2>1. s \in Seq(Item) /\ t \in Seq(Item) /\ x \in Item
      BY <1>1, <1>4, <1>5
    <2>2. Shells(n + 1) = Append(t, x) /\ Len(t) = n
      BY <1>4, <1>6
    <2> HIDE DEF s, t, x
    <2>3. s \o Append(t, x) = Append(s \o t, x) /\ Len(s \o t) = Len(s) + Len(t)
      BY <2>1, AppendConcat
    <2>4. Len(s) \in Nat
      BY <2>1
    <2>5. s \o Shells(n + 1) = Append(s \o t, x)
      BY <2>2, <2>3
    <2>6. Len(s \o t) = Len(s) + n
      BY <2>2, <2>3
    <2> QED
      BY <2>1, <2>4, <2>5, <2>6 DEF t, x
  <1>9. [newItems EXCEPT ![o] = Append(@, ShellOf(id))] = ItemsAfter(Prefix(n + 1))
    BY <1>1, <1>7, <1>8
  <1>10. newItems[o] = s \o Shells(n)
    BY <1>1, <1>7
  <1>11. Layer!CanMint(overlord, o, 1) <=> CanMint(overlord, o, n + 1)
    <2>1. Layer!CanMint(overlord, o, 1)
            <=> issuer[o] = overlord /\ Len(newItems[o]) + 1 <= U32Max
      BY DEF Layer!CanMint
    <2>2. CanMint(overlord, o, n + 1)
            <=> issuer[o] = overlord /\ Len(s) + (n + 1) <= U32Max
      BY DEF CanMint
    <2>3. Len(newItems[o]) + 1 = Len(s) + (n + 1)
      <3> DEFINE size == Len(s)
      <3>1. Len(newItems[o]) = size + n /\ size \in Nat
        BY <1>8, <1>10
      <3> HIDE DEF size
      <3>2. Len(newItems[o]) + 1 = size + (n + 1)
        BY <3>1
      <3> QED
        BY <3>2 DEF size
    <2> QED
      BY <2>1, <2>2, <2>3
  <1> QED
    BY <1>9, <1>11

\* The shells minted so far make no one the owner of a Spirit, even when the
\* two kinds of NFT share a collection: their owners have one already.
LEMMA SpiritSame ==
    ASSUME TypeOK, call.ids \in Seq(PreorderId), NEW n \in Nat, n <= Len(call.ids),
           CanTake(Prefix(n)), CanMintAll(Prefix(n)), newItems = ItemsAfter(Prefix(n)),
           NEW a \in Account
    PROVE  Layer!OwnsSpirit(a) <=> OwnsSpirit(a)
  <1> DEFINE o == originOfShellCollectionId
             c == spiritCollectionId
  <1>1. items \in [CollectionId -> Seq(Item)]
    BY DEF TypeOK, RmrkTypeOK
  <1>2. /\ OwnsSpirit(a) <=> c # None /\ \E i \in DOMAIN items[c] : items[c][i].owner = a
        /\ Layer!OwnsSpirit(a)
              <=> c # None /\ \E i \in DOMAIN newItems[c] : newItems[c][i].owner = a
    BY DEF OwnsSpirit, OwnedInCollection, Layer!OwnsSpirit, Layer!OwnedInCollection
  <1>3. newItems = [items EXCEPT ![o] = items[o] \o Shells(n)]
    BY ShellsType DEF ItemsAfter
  <1>4. CASE c = None
    BY <1>2, <1>4
  <1>5. CASE c # o
    BY <1>2, <1>3, <1>5
  <1>6. CASE c = o /\ c # None
    <2>1. o \in CollectionId
      BY <1>6 DEF TypeOK
    <2>2. /\ items[o] \in Seq(Item) /\ Shells(n) \in Seq(Item) /\ Len(Shells(n)) = n
          /\ \A i \in 1 .. n : Shells(n)[i].owner = preorders[call.ids[i]].owner
          /\ newItems[o] = items[o] \o Shells(n)
      BY <1>1, <1>3, <2>1, ShellsType
    <2>3. /\ Len(items[o]) \in Nat /\ DOMAIN items[o] = 1 .. Len(items[o])
          /\ DOMAIN newItems[o] = 1 .. (Len(items[o]) + n)
          /\ \A i \in 1 .. Len(items[o]) : newItems[o][i] = items[o][i]
          /\ \A i \in (Len(items[o]) + 1) .. (Len(items[o]) + n) :
                newItems[o][i] = Shells(n)[i - Len(items[o])]
      BY <2>2
    <2>4. OwnsSpirit(a) => Layer!OwnsSpirit(a)
      BY <1>2, <1>6, <2>3
    <2>5. ASSUME Layer!OwnsSpirit(a) PROVE OwnsSpirit(a)
      <3>1. PICK i \in DOMAIN newItems[o] : newItems[o][i].owner = a
        BY <1>2, <1>6, <2>5
      <3>2. CASE i \in 1 .. Len(items[o])
        BY <1>2, <1>6, <2>3, <3>1, <3>2
      <3>3. CASE i \notin 1 .. Len(items[o])
        <4> DEFINE j == i - Len(items[o])
        <4>1. j \in 1 .. n /\ newItems[o][i] = Shells(n)[j]
          BY <2>3, <3>1, <3>3
        <4>2. a = preorders[call.ids[j]].owner
          BY <2>2, <3>1, <4>1
        <4>3. call.ids[j] \in IdsOf(Prefix(n))
          BY <4>1, PrefixFacts
        <4> QED
          BY <4>2, <4>3 DEF CanMintAll
      <3> QED
        BY <3>2, <3>3
    <2> QED
      BY <2>4, <2>5
  <1> QED
    BY <1>4, <1>5, <1>6

-----------------------------------------------------------------------------
(* What can be minted or not.                                              *)

LEMMA FewerIds ==
    ASSUME NEW T \in SUBSET PreorderId, NEW S \in SUBSET T
    PROVE  /\ \A a : NumberOf(S, a) <= NumberOf(T, a)
           /\ \A r : NumberOfRace(S, r) <= NumberOfRace(T, r)
  <1>1. IsFiniteSet(T)
    BY IdSets
  <1>2. ASSUME NEW R \in SUBSET T, NEW Q \in SUBSET R
        PROVE  Cardinality(Q) <= Cardinality(R)
    BY <1>1, FS_Subset
  <1>3. ASSUME NEW a PROVE NumberOf(S, a) <= NumberOf(T, a)
    <2>1. /\ S \cap OpenPreorders(a) \in SUBSET (T \cap OpenPreorders(a))
          /\ T \cap OpenPreorders(a) \in SUBSET T
      OBVIOUS
    <2> QED
      BY <1>2, <2>1 DEF NumberOf
  <1>4. ASSUME NEW r PROVE NumberOfRace(S, r) <= NumberOfRace(T, r)
    <2>1. /\ {i \in S : preorders[i].race = r} \in SUBSET {i \in T : preorders[i].race = r}
          /\ {i \in T : preorders[i].race = r} \in SUBSET T
      OBVIOUS
    <2> QED
      BY <1>2, <2>1 DEF NumberOfRace
  <1> QED
    BY <1>3, <1>4

\* Whoever can pay for its shells can pay for some of them.
LEMMA PayFewer ==
    ASSUME TypeOK, NEW T \in SUBSET PreorderId, NEW S \in SUBSET T, NEW a \in Account,
           CanPay(T, a)
    PROVE  CanPay(S, a)
  <1> DEFINE m == NumberOf(S, a)
             n == NumberOf(T, a)
             total == TotalBalance(a)
             theirs == TotalBalance(overlord) + PrimeOriginOfShellPrice
  <1>1. m \in Nat /\ n \in Nat /\ m <= n
    <2>1. S \in SUBSET PreorderId
      OBVIOUS
    <2> QED
      BY <2>1, FewerIds, IdSets
  <1>2. CASE a = overlord \/ m = 0
    BY <1>2 DEF CanPay
  <1>3. ASSUME a # overlord, m # 0 PROVE CanPay(S, a)
    <2>1. /\ free[a] + Released(T, a) >= Cost(n) /\ total - Cost(n) >= ExistentialDeposit
          /\ theirs >= ExistentialDeposit
      BY <1>1, <1>3 DEF CanPay, Cost
    <2>2. Cost(m) \in Nat /\ Cost(n) \in Nat /\ Cost(m) <= Cost(n)
      <3>1. m \in 0 .. n
        BY <1>1
      <3> QED
        BY <1>1, <3>1, CostFacts
    <2>3. /\ Released(S, a) = (IF reserved[a] < Cost(m) THEN reserved[a] ELSE Cost(m))
          /\ Released(T, a) = (IF reserved[a] < Cost(n) THEN reserved[a] ELSE Cost(n))
      BY DEF Released, Unreserved, Cost
    <2>4. free[a] \in Nat /\ reserved[a] \in Nat /\ total \in Int /\ ExistentialDeposit \in Nat
      BY AssumptionsHold DEF TypeOK, BalancesTypeOK, TotalBalance, Assumptions
    <2> HIDE DEF m, n, total, theirs
    <2>5. free[a] + Released(S, a) >= Cost(m)
      BY <2>1, <2>2, <2>3, <2>4
    <2>6. total - Cost(m) >= ExistentialDeposit
      BY <2>1, <2>2, <2>4
    <2> QED
      BY <2>1, <2>5, <2>6 DEF CanPay, Cost, m, total, theirs
  <1> QED
    BY <1>2, <1>3

LEMMA CanMintPrefix ==
    ASSUME TypeOK, call.ids \in Seq(PreorderId), NEW m \in Nat, m <= Len(call.ids),
           NEW n \in 0 .. m, CanTake(Prefix(m)), CanMintAll(Prefix(m))
    PROVE  CanMintAll(Prefix(n))
  <1> DEFINE T == IdsOf(Prefix(m))
             S == IdsOf(Prefix(n))
             o == originOfShellCollectionId
  <1>1. n \in Nat /\ n <= Len(call.ids) /\ n <= m
    OBVIOUS
  <1>2. T \in SUBSET PreorderId /\ S \in SUBSET PreorderId /\ S \in SUBSET T
    BY <1>1, PrefixFacts, CanTakePrefix
  <1>3. Len(Prefix(m)) = m /\ Len(Prefix(n)) = n
    BY <1>1, PrefixFacts
  <1>4. /\ T # {} => o # None
        /\ \A id \in T : /\ OwnsSpirit(preorders[id].owner)
                         /\ preorders[id].race \in originOfShellsMetadata
        /\ \A r \in RaceType : NumberOfRace(T, r) > 0 =>
               HasRaceTypeLeft(<<"Prime", r>>, "ForSale", NumberOfRace(T, r))
        /\ \A a \in Account : CanPay(T, a)
        /\ T # {} => CanMint(overlord, o, m)
    BY <1>3 DEF CanMintAll
  <1> HIDE DEF T, S
  <1>5. \A a \in Account : CanPay(S, a)
    BY <1>2, <1>4, PayFewer
  <1>6. ASSUME NEW r \in RaceType, NumberOfRace(S, r) > 0
        PROVE  HasRaceTypeLeft(<<"Prime", r>>, "ForSale", NumberOfRace(S, r))
    <2> DEFINE s == NumberOfRace(S, r)
               t == NumberOfRace(T, r)
               key == <<"Prime", r>>
    <2>1. s \in Nat /\ t \in Nat /\ s <= t
      BY <1>2, FewerIds, IdSets
    <2>2. t > 0
      BY <1>6, <2>1
    <2>3. inventory[key] # None /\ inventory[key].left["ForSale"] >= t
      BY <1>4, <2>2 DEF HasRaceTypeLeft
    <2>4. inventory[key].left["ForSale"] \in Nat
      <3>1. key \in StockKey
        BY DEF StockKey, RarityType
      <3>2. inventory[key] \in NftSaleInfo
        BY <2>3, <3>1 DEF TypeOK
      <3> QED
        BY <3>2, AssumptionsHold DEF NftSaleInfo, NftSaleType, U32, Assumptions
    <2>5. inventory[key].left["ForSale"] >= s
      <3> HIDE DEF s, t, key
      <3> QED
        BY <2>1, <2>3, <2>4
    <2> QED
      BY <2>3, <2>5 DEF HasRaceTypeLeft
  <1>7. S # {} => CanMint(overlord, o, n)
    <2> SUFFICES ASSUME S # {} PROVE CanMint(overlord, o, n)
      OBVIOUS
    <2>1. o \in CollectionId /\ CanMint(overlord, o, m)
      BY <1>2, <1>4 DEF TypeOK
    <2>2. Len(items[o]) \in Nat /\ U32Max \in Nat
      BY <2>1, AssumptionsHold DEF TypeOK, RmrkTypeOK, Assumptions
    <2> QED
      BY <1>1, <2>1, <2>2 DEF CanMint
  <1>8. /\ S # {} => o # None
        /\ \A id \in S : /\ OwnsSpirit(preorders[id].owner)
                         /\ preorders[id].race \in originOfShellsMetadata
    BY <1>2, <1>4
  <1> QED
    BY <1>3, <1>5, <1>6, <1>7, <1>8 DEF CanMintAll, S

\* The code refuses to mint the next shell exactly when NftSale refuses the
\* call that ends with it.
LEMMA MintMore ==
    ASSUME TypeOK, overlord # None, call.ids \in Seq(PreorderId),
           NEW n \in Nat, n + 1 <= Len(call.ids),
           CanTake(Prefix(n + 1)), CanMintAll(Prefix(n)),
           taken = preorders[call.ids[n + 1]],
           newReserved = ReservedAfter(IdsOf(Prefix(n + 1))),
           newFree = FreeAfter(IdsOf(Prefix(n + 1)), IdsOf(Prefix(n))),
           newItems = ItemsAfter(Prefix(n)),
           newInventory = InventoryAfter(IdsOf(Prefix(n)))
    PROVE  MayMintTaken <=> CanMintAll(Prefix(n + 1))
  <1> DEFINE id == call.ids[n + 1]
             M == IdsOf(Prefix(n))
             T == IdsOf(Prefix(n + 1))
             o == originOfShellCollectionId
             owner == preorders[id].owner
             race == preorders[id].race
             p == PrimeOriginOfShellPrice
             key == <<"Prime", race>>
  <1>1. /\ id \in PreorderId /\ T = M \cup {id} /\ id \notin M /\ preorders[id] # None
        /\ CanTake(Prefix(n))
    BY PrefixMore
  <1>2. /\ n <= Len(call.ids) /\ n + 1 \in Nat /\ Len(call.ids) \in Nat
        /\ n \in 0 .. (n + 1)
    OBVIOUS
  <1>3. M \in SUBSET PreorderId /\ Len(Prefix(n + 1)) = n + 1
    BY <1>2, PrefixFacts
  <1>4. \A i \in M : preorders[i] # None
    BY <1>1 DEF CanTake
  <1>5. /\ \A i \in M : /\ OwnsSpirit(preorders[i].owner)
                        /\ preorders[i].race \in originOfShellsMetadata
        /\ \A r \in RaceType : NumberOfRace(M, r) > 0 =>
               HasRaceTypeLeft(<<"Prime", r>>, "ForSale", NumberOfRace(M, r))
        /\ \A a \in Account : CanPay(M, a)
    BY DEF CanMintAll
  <1>6. owner \in Account
    BY <1>1, <1>3, OneIdMore DEF PreorderInfo
  <1>7. Layer!OwnsSpirit(owner) <=> OwnsSpirit(owner)
    BY <1>1, <1>2, <1>6, SpiritSame
  <1>8. Layer!CanTransfer(owner, overlord, p) <=> \A a \in Account : CanPay(T, a)
    <2>1. newReserved = ReservedAfter(M \cup {id}) /\ newFree = FreeAfter(M \cup {id}, M)
      BY <1>1
    <2> HIDE DEF M, T, id
    <2>2. Layer!CanTransfer(preorders[id].owner, overlord, p)
             <=> \A a \in Account : CanPay(M \cup {id}, a)
      BY <1>1, <1>3, <1>4, <1>5, <2>1, PayMore
    <2> QED
      BY <1>1, <2>2
  <1>9. Layer!HasRaceTypeLeft(key, "ForSale", 1) <=>
           \A r \in RaceType : NumberOfRace(T, r) > 0 =>
               HasRaceTypeLeft(<<"Prime", r>>, "ForSale", NumberOfRace(T, r))
    <2> HIDE DEF M, T, id
    <2> QED
      BY <1>1, <1>3, <1>5, StockMore DEF M, T
  <1>10. o # None => (Layer!CanMint(overlord, o, 1) <=> CanMint(overlord, o, n + 1))
    BY ItemsMore
  <1>11. MayMintTaken <=> /\ Layer!OwnsSpirit(owner)
                          /\ o # None
                          /\ race \in originOfShellsMetadata
                          /\ Layer!HasRaceTypeLeft(key, "ForSale", 1)
                          /\ Layer!CanTransfer(owner, overlord, p)
                          /\ Layer!CanMint(overlord, o, 1)
    BY DEF MayMintTaken, Layer!MayMintShell
  <1>12. CanMintAll(Prefix(n + 1)) <=>
            /\ o # None
            /\ \A i \in T : /\ OwnsSpirit(preorders[i].owner)
                            /\ preorders[i].race \in originOfShellsMetadata
            /\ \A r \in RaceType : NumberOfRace(T, r) > 0 =>
                   HasRaceTypeLeft(<<"Prime", r>>, "ForSale", NumberOfRace(T, r))
            /\ \A a \in Account : CanPay(T, a)
            /\ CanMint(overlord, o, n + 1)
    <2>1. T # {}
      BY <1>1
    <2> QED
      BY <1>3, <2>1 DEF CanMintAll
  <1> DEFINE Stock == \A r \in RaceType : NumberOfRace(T, r) > 0 =>
                          HasRaceTypeLeft(<<"Prime", r>>, "ForSale", NumberOfRace(T, r))
             Pay == \A a \in Account : CanPay(T, a)
             Owners == \A i \in T : /\ OwnsSpirit(preorders[i].owner)
                                    /\ preorders[i].race \in originOfShellsMetadata
  <1>13. Owners <=> OwnsSpirit(owner) /\ race \in originOfShellsMetadata
    BY <1>1, <1>5
  <1> HIDE DEF Stock, Pay, Owners
  <1>14. CanMintAll(Prefix(n + 1))
            <=> o # None /\ Owners /\ Stock /\ Pay /\ CanMint(overlord, o, n + 1)
    BY <1>12 DEF Stock, Pay, Owners
  <1>15. /\ Layer!HasRaceTypeLeft(key, "ForSale", 1) <=> Stock
         /\ Layer!CanTransfer(owner, overlord, p) <=> Pay
    BY <1>8, <1>9 DEF Stock, Pay
  <1> QED
    BY <1>7, <1>10, <1>11, <1>13, <1>14, <1>15, Zenon

-----------------------------------------------------------------------------
(* While a call runs, the storage is what it was.                          *)

LEMMA StorageSame ==
    ASSUME UNCHANGED vars
    PROVE  /\ \A T : /\ PreordersAfter(T)' = PreordersAfter(T)
                     /\ ReservedAfter(T)' = ReservedAfter(T)
                     /\ InventoryAfter(T)' = InventoryAfter(T)
                     /\ CareersAfter(T)' = CareersAfter(T)
                     /\ FlagsAfter(T)' = FlagsAfter(T)
                     /\ \A M : FreeAfter(T, M)' = FreeAfter(T, M)
           /\ \A b : ItemsAfter(b)' = ItemsAfter(b)
  <1>1. \A S, a : NumberOf(S, a)' = NumberOf(S, a) /\ Released(S, a)' = Released(S, a)
    BY DEF vars, NumberOf, OpenPreorders, Released, Unreserved
  <1>2. \A S, r : NumberOfRace(S, r)' = NumberOfRace(S, r)
    BY DEF vars, NumberOfRace
  <1>3. \A S, c : NumberOfCareer(S, c)' = NumberOfCareer(S, c)
    BY DEF vars, NumberOfCareer
  <1>4. \A T : PreordersAfter(T)' = PreordersAfter(T)
    BY DEF vars, PreordersAfter
  <1>5. \A T : ReservedAfter(T)' = ReservedAfter(T)
    BY <1>1 DEF vars, ReservedAfter
  <1>6. \A T : InventoryAfter(T)' = InventoryAfter(T)
    BY <1>2 DEF vars, InventoryAfter
  <1>7. \A T : CareersAfter(T)' = CareersAfter(T)
    BY <1>3 DEF vars, CareersAfter
  <1>8. \A T : FlagsAfter(T)' = FlagsAfter(T)
    BY DEF vars, FlagsAfter, LastDayOfSale
  <1>9. \A M, a : Gain(M, a)' = Gain(M, a)
    BY <1>1 DEF vars, Gain
  <1>10. \A T, M : FreeAfter(T, M)' = FreeAfter(T, M)
    BY <1>1, <1>9 DEF vars, FreeAfter
  <1>11. \A b : ItemsAfter(b)' = ItemsAfter(b)
    BY DEF vars, ItemsAfter, ShellOf
  <1> QED
    BY <1>4, <1>5, <1>6, <1>7, <1>8, <1>10, <1>11

LEMMA GuardsSame ==
    ASSUME UNCHANGED vars
    PROVE  /\ TypeOK' <=> TypeOK
           /\ IdLists' = IdLists /\ overlord' = overlord
           /\ \A b : /\ CanTake(b)' <=> CanTake(b)
                     /\ CanMintAll(b)' <=> CanMintAll(b)
           /\ \A ids : /\ MayMintChosen(ids)' <=> MayMintChosen(ids)
                       /\ MayRefund(ids)' <=> MayRefund(ids)
  <1>1. \A S, a : /\ NumberOf(S, a)' = NumberOf(S, a)
                  /\ Released(S, a)' = Released(S, a)
                  /\ TotalBalance(a)' = TotalBalance(a)
    BY DEF vars, NumberOf, OpenPreorders, Released, Unreserved, TotalBalance
  <1>2. \A S, r : NumberOfRace(S, r)' = NumberOfRace(S, r)
    BY DEF vars, NumberOfRace
  <1>3. \A S, a : CanPay(S, a)' <=> CanPay(S, a)
    BY <1>1 DEF vars, CanPay
  <1>4. \A a : OwnsSpirit(a)' <=> OwnsSpirit(a)
    BY DEF vars, OwnsSpirit, OwnedInCollection
  <1>5. \A k, s, n : HasRaceTypeLeft(k, s, n)' <=> HasRaceTypeLeft(k, s, n)
    BY DEF vars, HasRaceTypeLeft
  <1>6. \A c, n : CanMint(overlord, c, n)' <=> CanMint(overlord, c, n)
    BY DEF vars, CanMint
  <1>7. \A b : CanTake(b)' <=> CanTake(b)
    BY DEF vars, CanTake
  <1>8. \A b : CanMintAll(b)' <=> CanMintAll(b)
    BY <1>2, <1>3, <1>4, <1>5, <1>6 DEF vars, CanMintAll
  <1>9. \A ids : MayMintChosen(ids)' <=> MayMintChosen(ids)
    BY <1>2, <1>3, <1>4, <1>5, <1>6, <1>7 DEF vars, MayMintChosen
  <1>10. \A ids : MayRefund(ids)' <=> MayRefund(ids)
    BY <1>7 DEF vars, MayRefund
  <1>11. TypeOK' <=> TypeOK
    BY DEF vars, TypeOK, BalancesTypeOK, RmrkTypeOK
  <1>12. IdLists' = IdLists /\ overlord' = overlord
    BY DEF vars, IdLists
  <1> QED
    BY <1>7, <1>8, <1>9, <1>10, <1>11, <1>12

\* A call that has settled nothing has changed nothing.
LEMMA NoneSettled ==
    ASSUME TypeOK
    PROVE  /\ PreordersAfter({}) = preorders /\ ReservedAfter({}) = reserved
           /\ InventoryAfter({}) = inventory /\ CareersAfter({}) = careerTypeCount
           /\ FlagsAfter({}) = ownerHasPreorder
           /\ FreeAfter({}, {}) = free
           /\ \A T \in SUBSET PreorderId :
                 FreeAfter(T, {}) = [a \in Account |-> free[a] + Released(T, a)]
           /\ \A b : DOMAIN b = {} =>
                 ItemsAfter(b) = items /\ IdsOf(b) = {} /\ CanTake(b) /\ CanMintAll(b)
  <1>1. /\ \A a : NumberOf({}, a) = 0
        /\ \A r : NumberOfRace({}, r) = 0
        /\ \A c : NumberOfCareer({}, c) = 0
        /\ Cardinality({}) = 0
    BY FS_EmptySet DEF NumberOf, NumberOfRace, NumberOfCareer
  <1>2. /\ free \in [Account -> Nat] /\ reserved \in [Account -> Nat]
        /\ inventory \in [StockKey -> NftSaleInfo \cup {None}]
        /\ careerTypeCount \in [CareerType -> U32]
        /\ items \in [CollectionId -> Seq(Item)]
        /\ preorders \in [PreorderId -> PreorderInfo \cup {None}]
    BY DEF TypeOK, BalancesTypeOK, RmrkTypeOK
  <1>3. Cost(0) = 0
    BY CostFacts
  <1>4. \A a \in Account : Released({}, a) = 0 /\ Gain({}, a) = 0
    BY <1>1, <1>2, <1>3 DEF Released, Unreserved, Cost, Gain
  <1>5. PreordersAfter({}) = preorders /\ FlagsAfter({}) = ownerHasPreorder
    BY <1>2 DEF PreordersAfter, FlagsAfter
  <1>6. ReservedAfter({}) = reserved
    BY <1>2, <1>4 DEF ReservedAfter
  <1>7. InventoryAfter({}) = inventory
    BY <1>1, <1>2 DEF InventoryAfter
  <1>8. CareersAfter({}) = careerTypeCount
    BY <1>1, <1>2, AssumptionsHold DEF CareersAfter, Wrapped, U32, Assumptions
  <1>9. ASSUME NEW T \in SUBSET PreorderId
        PROVE  FreeAfter(T, {}) = [a \in Account |-> free[a] + Released(T, a)]
    <2>1. ASSUME NEW a \in Account
          PROVE  free[a] + Released(T, a) + Gain({}, a) = free[a] + Released(T, a)
      BY <1>2, <1>4, ReleasedFacts DEF TypeOK
    <2> QED
      BY <2>1 DEF FreeAfter
  <1>10. FreeAfter({}, {}) = free
    <2>1. ASSUME NEW a \in Account
          PROVE  free[a] + Released({}, a) + Gain({}, a) = free[a]
      BY <1>2, <1>4
    <2>2. FreeAfter({}, {}) = [a \in Account |-> free[a]]
      BY <2>1 DEF FreeAfter
    <2> QED
      BY <1>2, <2>2
  <1>11. ASSUME NEW b, DOMAIN b = {} PROVE ItemsAfter(b) = items /\ IdsOf(b) = {}
    <2> DEFINE o == originOfShellCollectionId
    <2>1. [i \in DOMAIN b |-> ShellOf(b[i])] = << >>
      BY <1>11
    <2>2. o \in CollectionId => items[o] \o << >> = items[o]
      BY <1>2
    <2>3. ItemsAfter(b) = [items EXCEPT ![o] = items[o] \o << >>]
      BY <2>1 DEF ItemsAfter
    <2>4. ItemsAfter(b) = items
      BY <1>2, <2>2, <2>3
    <2> QED
      BY <1>11, <2>4 DEF IdsOf
  <1>12. ASSUME NEW b, DOMAIN b = {} PROVE CanTake(b) /\ CanMintAll(b)
    <2>1. CanTake(b) /\ IdsOf(b) = {}
      BY <1>12 DEF CanTake, IdsOf
    <2>2. \A a \in Account : CanPay({}, a)
      BY <1>1 DEF CanPay
    <2>3. \A r \in RaceType : ~(NumberOfRace({}, r) > 0)
      BY <1>1
    <2> QED
      BY <2>1, <2>2, <2>3 DEF CanMintAll
  <1> QED
    BY <1>5, <1>6, <1>7, <1>8, <1>9, <1>10, <1>11, <1>12
-----------------------------------------------------------------------------
(* The steps of the loops.                                                 *)

LEMMA PrefixSame ==
    ASSUME call' = call
    PROVE  \A n : Prefix(n)' = Prefix(n)
  BY DEF Prefix

\* Where the loop is in its list.
LEMMA LoopFacts ==
    ASSUME TypeOK, Running, pc \in {"take", "mint", "flag"}
    PROVE  /\ call.ids \in Seq(PreorderId) /\ Len(call.ids) \in Nat
           /\ Len(Batch(call.ids)) \in Nat /\ Len(Batch(call.ids)) <= Len(call.ids)
           /\ MoreIds <=> index < Len(Batch(call.ids))
           /\ index \in Nat /\ index <= Len(Batch(call.ids))
           /\ pc # "take" => index + 1 <= Len(Batch(call.ids))
  <1>1. call.ids \in IdLists /\ index \in Nat
    BY DEF Running
  <1>2. call.ids \in Seq(PreorderId) /\ Len(call.ids) \in Nat /\ IterLimit \in Nat
    BY <1>1, ListType, AssumptionsHold DEF Assumptions
  <1>3. Len(Batch(call.ids)) = IF Len(call.ids) < IterLimit THEN Len(call.ids) ELSE IterLimit
    BY <1>1, BatchIsPrefix
  <1> DEFINE limit == Len(Batch(call.ids))
             size == Len(call.ids)
  <1>4. MoreIds <=> index < size /\ index < IterLimit
    BY DEF MoreIds
  <1>5. TakenTo <= limit
    BY DEF Running
  <1>6. /\ pc = "take" => TakenTo = index
        /\ pc # "take" => TakenTo = index + 1
    BY DEF TakenTo
  <1> HIDE DEF limit, size
  <1>7. limit \in Nat /\ limit <= size /\ size \in Nat
        /\ limit = IF size < IterLimit THEN size ELSE IterLimit
    BY <1>2, <1>3 DEF limit, size
  <1>8. MoreIds <=> index < limit
    BY <1>1, <1>2, <1>4, <1>7
  <1>9. index <= limit /\ (pc # "take" => index + 1 <= limit)
    <2>1. CASE pc = "take"
      BY <1>5, <1>6, <2>1
    <2>2. CASE pc # "take"
      <3>1. index + 1 <= limit
        BY <1>5, <1>6, <2>2
      <3>2. limit \in Nat /\ index \in Nat
        BY <1>1, <1>7
      <3>3. index <= limit
        BY <3>1, <3>2
      <3> QED
        BY <3>1, <3>3
    <2> QED
      BY <2>1, <2>2
  <1> QED
    BY <1>1, <1>2, <1>7, <1>8, <1>9 DEF limit, size

LEMMA TakeStep ==
    ASSUME LoopInv, TakePreorder
    PROVE  LoopInv' /\ UNCHANGED vars
  <1> DEFINE n == index
             id == call.ids[n + 1]
             S == IdsOf(Prefix(n))
             T == IdsOf(Prefix(n + 1))
             k == MintedTo
             M == IdsOf(Prefix(k))
             mint == call.name = "mint"
  <1>1. TypeOK /\ pc = "take" /\ Running /\ LayerHolds /\ UNCHANGED vars
    BY DEF LoopInv, TakePreorder
  <1>2. /\ call.ids \in Seq(PreorderId) /\ Len(call.ids) \in Nat
        /\ n \in Nat /\ n + 1 <= Len(Batch(call.ids)) /\ n + 1 <= Len(call.ids)
        /\ n <= Len(call.ids) /\ n + 1 \in Nat
    <2>1. MoreIds
      BY DEF TakePreorder
    <2> QED
      BY <1>1, <2>1, LoopFacts
  <1>3. TakenTo = n /\ k = (IF call.name = "refund" THEN 0 ELSE n) /\ k \in 0 .. n
    BY <1>1, <1>2 DEF TakenTo, MintedTo
  <1>4. /\ newPreorders = PreordersAfter(S) /\ newReserved = ReservedAfter(S)
        /\ newFree = FreeAfter(S, M) /\ newItems = ItemsAfter(Prefix(k))
        /\ newInventory = InventoryAfter(M) /\ newCareerTypeCount = CareersAfter(M)
        /\ newHasPreorder = FlagsAfter(S)
        /\ CanTake(Prefix(n)) /\ CanMintAll(Prefix(k))
    BY <1>1, <1>3 DEF LayerHolds, Running
  <1>5. S \in SUBSET PreorderId /\ M \in SUBSET PreorderId
    BY <1>2, <1>3, PrefixFacts
  <1>6. id \in PreorderId /\ T = S \cup {id}
    BY <1>2, PrefixMore
  <1>7. id \notin S /\ preorders[id] # None
    BY <1>4, <1>6 DEF TakePreorder, NextId, PreordersAfter
  <1>8. CanTake(Prefix(n + 1))
    BY <1>2, <1>4, <1>7, PrefixMore
  <1>9. LET owner == preorders[id].owner
            released == Layer!Unreserved(owner, PrimeOriginOfShellPrice)
        IN  /\ newPreorders[id] = preorders[id]
            /\ [newPreorders EXCEPT ![id] = None] = PreordersAfter(T)
            /\ [newReserved EXCEPT ![owner] = @ - released] = ReservedAfter(T)
            /\ [newFree EXCEPT ![owner] = @ + released] = FreeAfter(T, M)
    <2> HIDE DEF S, M, T, id
    <2> QED
      BY <1>1, <1>4, <1>5, <1>6, <1>7, TakeMore
  <1>10. /\ taken' = preorders[id] /\ newPreorders' = PreordersAfter(T)
         /\ newReserved' = ReservedAfter(T) /\ newFree' = FreeAfter(T, M)
         /\ newItems' = newItems /\ newInventory' = newInventory
         /\ newCareerTypeCount' = newCareerTypeCount
         /\ newHasPreorder' = newHasPreorder
    BY <1>9 DEF TakePreorder, NextId
  <1>11. /\ call' = call /\ index' = n
         /\ pc' = IF mint THEN "mint" ELSE "flag"
    BY DEF TakePreorder
  <1>12. call.name \in {"mint", "refund"}
    BY <1>1 DEF Running
  <1>13. TakenTo' = n + 1 /\ MintedTo' = k
    BY <1>3, <1>11, <1>12 DEF TakenTo, MintedTo
  <1>14. /\ IdsOf(Prefix(TakenTo))' = T
         /\ IdsOf(Prefix(MintedTo))' = M
         /\ Prefix(MintedTo)' = Prefix(k)
         /\ Prefix(TakenTo)' = Prefix(n + 1)
         /\ IdsOf(Prefix(index))' = S
    BY <1>11, <1>13, PrefixSame
  <1> HIDE DEF S, T, M, k, mint, n, id
  <1>15. LayerHolds'
    BY <1>1, <1>4, <1>10, <1>14, StorageSame DEF LayerHolds
  <1>16. Running'
    <2>1. /\ overlord' = overlord /\ IdLists' = IdLists /\ preorders' = preorders
          /\ \A b : (CanTake(b)' <=> CanTake(b)) /\ (CanMintAll(b)' <=> CanMintAll(b))
      BY <1>1, GuardsSame DEF vars
    <2>2. /\ overlord' # None /\ call'.name \in {"mint", "refund"}
          /\ call'.ids \in IdLists' /\ index' \in Nat
      BY <1>1, <1>2, <1>11, <2>1 DEF Running
    <2>3. TakenTo' <= Len(Batch(call'.ids))
      BY <1>2, <1>11, <1>13
    <2>4. pc' = "mint" => call'.name = "mint"
      BY <1>11 DEF mint
    <2>5. taken' = preorders'[call'.ids[index' + 1]]
      BY <1>10, <1>11, <2>1 DEF id
    <2>6. CanTake(Prefix(TakenTo))' /\ CanMintAll(Prefix(MintedTo))'
      BY <1>4, <1>8, <1>14, <2>1
    <2> QED
      BY <2>2, <2>3, <2>4, <2>5, <2>6 DEF Running
  <1>17. TypeOK'
    BY <1>1, GuardsSame
  <1>18. pc' \in {"mint", "flag"}
    BY <1>11
  <1> QED
    BY <1>1, <1>15, <1>16, <1>17, <1>18 DEF LoopInv, FailsOnlyIfRefused

LEMMA MintStep ==
    ASSUME LoopInv, MintTaken
    PROVE  LoopInv' /\ UNCHANGED vars
  <1> DEFINE n == index
             id == call.ids[n + 1]
             M == IdsOf(Prefix(n))
             T == IdsOf(Prefix(n + 1))
             o == originOfShellCollectionId
             owner == preorders[id].owner
             race == preorders[id].race
             key == <<"Prime", race>>
  <1>1. TypeOK /\ pc = "mint" /\ Running /\ LayerHolds
    BY DEF LoopInv, MintTaken
  <1>2. /\ Layer!DoMintShell(owner, "Prime", race, preorders[id].career,
                             PrimeOriginOfShellPrice, "ForSale", FALSE)
        /\ taken = preorders[id]
    BY <1>1 DEF Running, MintTaken
  <1>3. /\ UNCHANGED vars
        /\ newReserved' = newReserved /\ newPreorders' = newPreorders
        /\ newHasPreorder' = newHasPreorder
    BY DEF MintTaken, Layer!DoMintShell, Layer!setupVars, Layer!preorderVars, vars, storage
  <1>4. /\ call.ids \in Seq(PreorderId) /\ Len(call.ids) \in Nat
        /\ n \in Nat /\ n + 1 <= Len(Batch(call.ids)) /\ n + 1 <= Len(call.ids)
        /\ n <= Len(call.ids) /\ n + 1 \in Nat
    BY <1>1, LoopFacts
  <1>5. call.name = "mint" /\ overlord # None
    BY <1>1 DEF Running
  <1>6. TakenTo = n + 1 /\ MintedTo = n
    BY <1>1, <1>5 DEF TakenTo, MintedTo
  <1>7. /\ newPreorders = PreordersAfter(T) /\ newReserved = ReservedAfter(T)
        /\ newFree = FreeAfter(T, M) /\ newItems = ItemsAfter(Prefix(n))
        /\ newInventory = InventoryAfter(M) /\ newCareerTypeCount = CareersAfter(M)
        /\ newHasPreorder = FlagsAfter(M)
        /\ CanTake(Prefix(n + 1)) /\ CanMintAll(Prefix(n))
    BY <1>1, <1>6 DEF LayerHolds, Running
  <1>8. M \in SUBSET PreorderId /\ T \in SUBSET PreorderId
    BY <1>4, PrefixFacts
  <1>9. id \in PreorderId /\ T = M \cup {id} /\ id \notin M /\ preorders[id] # None
    BY <1>4, <1>7, PrefixMore
  <1>10. MayMintTaken
    BY <1>2 DEF MayMintTaken, Layer!DoMintShell
  <1>11. CanMintAll(Prefix(n + 1))
    BY <1>1, <1>2, <1>4, <1>5, <1>7, <1>10, MintMore
  <1>12. o # None /\ Layer!HasRaceTypeLeft(key, "ForSale", 1)
    BY <1>2 DEF Layer!DoMintShell, Layer!MayMintShell
  <1>13. newFree' = FreeAfter(T, T)
    <2>1. newFree' = Layer!FreeAfterTransfer(owner, overlord, PrimeOriginOfShellPrice)
      BY <1>2 DEF Layer!DoMintShell
    <2>2. newFree = FreeAfter(M \cup {id}, M)
      BY <1>7, <1>9
    <2> HIDE DEF M, T, id
    <2> QED
      BY <1>1, <1>5, <1>8, <1>9, <2>1, <2>2, PaymentMore
  <1>14. newItems' = ItemsAfter(Prefix(n + 1))
    <2>1. newItems' = [newItems EXCEPT ![o] = Append(@, ShellOf(id))]
      BY <1>2 DEF Layer!DoMintShell, ShellOf
    <2> QED
      BY <1>1, <1>4, <1>7, <1>12, <2>1, ItemsMore
  <1>15. newInventory' = InventoryAfter(T)
    <2>1. newInventory' = [newInventory EXCEPT ![key] = Layer!Sold(@, "ForSale", 1)]
      BY <1>2 DEF Layer!DoMintShell
    <2>2. \A r \in RaceType : NumberOfRace(M, r) > 0 =>
               HasRaceTypeLeft(<<"Prime", r>>, "ForSale", NumberOfRace(M, r))
      BY <1>7 DEF CanMintAll
    <2> HIDE DEF M, T, id
    <2> QED
      BY <1>1, <1>7, <1>8, <1>9, <1>12, <2>1, <2>2, StockMore
  <1>16. newCareerTypeCount' = CareersAfter(T)
    <2>1. newCareerTypeCount'
            = [newCareerTypeCount EXCEPT ![preorders[id].career] = Layer!Wrapped(@ + 1)]
      BY <1>2 DEF Layer!DoMintShell
    <2> HIDE DEF M, T, id
    <2> QED
      BY <1>1, <1>7, <1>8, <1>9, <2>1, CareersMore
  <1>17. call' = call /\ index' = n /\ pc' = "flag" /\ taken' = taken
    BY DEF MintTaken
  <1>18. TakenTo' = n + 1 /\ MintedTo' = n + 1
    BY <1>5, <1>17 DEF TakenTo, MintedTo
  <1>19. /\ IdsOf(Prefix(TakenTo))' = T /\ IdsOf(Prefix(MintedTo))' = T
         /\ Prefix(MintedTo)' = Prefix(n + 1) /\ Prefix(TakenTo)' = Prefix(n + 1)
         /\ IdsOf(Prefix(index))' = M
    BY <1>17, <1>18, PrefixSame
  <1> HIDE DEF M, T, n, id
  <1>20. LayerHolds'
    BY <1>3, <1>7, <1>13, <1>14, <1>15, <1>16, <1>19, StorageSame DEF LayerHolds
  <1>21. Running'
    <2>1. /\ overlord' = overlord /\ IdLists' = IdLists /\ preorders' = preorders
          /\ \A b : (CanTake(b)' <=> CanTake(b)) /\ (CanMintAll(b)' <=> CanMintAll(b))
      BY <1>3, GuardsSame DEF vars
    <2>2. /\ overlord' # None /\ call'.name \in {"mint", "refund"}
          /\ call'.ids \in IdLists' /\ index' \in Nat
      BY <1>1, <1>4, <1>17, <2>1 DEF Running
    <2>3. TakenTo' <= Len(Batch(call'.ids))
      BY <1>4, <1>17, <1>18
    <2>4. taken' = preorders'[call'.ids[index' + 1]]
      BY <1>2, <1>17, <2>1 DEF id
    <2>5. CanTake(Prefix(TakenTo))' /\ CanMintAll(Prefix(MintedTo))'
      BY <1>7, <1>11, <1>19, <2>1
    <2> QED
      BY <1>17, <2>2, <2>3, <2>4, <2>5 DEF Running
  <1>22. TypeOK'
    BY <1>1, <1>3, GuardsSame
  <1> QED
    BY <1>3, <1>17, <1>20, <1>21, <1>22 DEF LoopInv, FailsOnlyIfRefused

LEMMA FlagStep ==
    ASSUME LoopInv, ClearFlag
    PROVE  LoopInv' /\ UNCHANGED vars
  <1> DEFINE n == index
             id == call.ids[n + 1]
             S == IdsOf(Prefix(n))
             T == IdsOf(Prefix(n + 1))
             k == MintedTo
             M == IdsOf(Prefix(k))
  <1>1. TypeOK /\ pc = "flag" /\ Running /\ LayerHolds /\ UNCHANGED vars
    BY DEF LoopInv, ClearFlag
  <1>2. /\ call.ids \in Seq(PreorderId) /\ Len(call.ids) \in Nat
        /\ n \in Nat /\ n + 1 <= Len(Batch(call.ids)) /\ n + 1 <= Len(call.ids)
        /\ n <= Len(call.ids) /\ n + 1 \in Nat
    BY <1>1, LoopFacts
  <1>3. TakenTo = n + 1 /\ k = (IF call.name = "refund" THEN 0 ELSE n + 1)
    BY <1>1 DEF TakenTo, MintedTo
  <1>4. /\ newPreorders = PreordersAfter(T) /\ newReserved = ReservedAfter(T)
        /\ newFree = FreeAfter(T, M) /\ newItems = ItemsAfter(Prefix(k))
        /\ newInventory = InventoryAfter(M) /\ newCareerTypeCount = CareersAfter(M)
        /\ newHasPreorder = FlagsAfter(S)
        /\ CanTake(Prefix(n + 1)) /\ CanMintAll(Prefix(k))
        /\ taken = preorders[id]
    BY <1>1, <1>3 DEF LayerHolds, Running
  <1>5. T = S \cup {id}
    BY <1>2, PrefixMore
  <1>6. newHasPreorder' = FlagsAfter(T)
    <2>1. newHasPreorder' = IF LastDayOfSale THEN newHasPreorder
                            ELSE newHasPreorder \ {preorders[id].owner}
      BY <1>4 DEF ClearFlag
    <2> HIDE DEF S, T, id
    <2> QED
      BY <1>4, <1>5, <2>1 DEF FlagsAfter
  <1>7. /\ newPreorders' = newPreorders /\ newReserved' = newReserved
        /\ newFree' = newFree /\ newItems' = newItems /\ newInventory' = newInventory
        /\ newCareerTypeCount' = newCareerTypeCount
        /\ call' = call /\ index' = n + 1 /\ pc' = "take"
    BY DEF ClearFlag
  <1>8. TakenTo' = n + 1 /\ MintedTo' = k
    BY <1>3, <1>7 DEF TakenTo, MintedTo
  <1>9. /\ IdsOf(Prefix(TakenTo))' = T /\ IdsOf(Prefix(MintedTo))' = M
        /\ Prefix(MintedTo)' = Prefix(k) /\ Prefix(TakenTo)' = Prefix(n + 1)
        /\ IdsOf(Prefix(index))' = T
    BY <1>7, <1>8, PrefixSame
  <1> HIDE DEF S, T, M, k, n, id
  <1>10. LayerHolds'
    BY <1>1, <1>4, <1>6, <1>7, <1>9, StorageSame DEF LayerHolds
  <1>11. Running'
    <2>1. /\ overlord' = overlord /\ IdLists' = IdLists
          /\ \A b : (CanTake(b)' <=> CanTake(b)) /\ (CanMintAll(b)' <=> CanMintAll(b))
      BY <1>1, GuardsSame
    <2>2. /\ overlord' # None /\ call'.name \in {"mint", "refund"}
          /\ call'.ids \in IdLists' /\ index' \in Nat
      BY <1>1, <1>2, <1>7, <2>1 DEF Running
    <2>3. TakenTo' <= Len(Batch(call'.ids))
      BY <1>2, <1>7, <1>8
    <2>4. CanTake(Prefix(TakenTo))' /\ CanMintAll(Prefix(MintedTo))'
      BY <1>4, <1>9, <2>1
    <2> QED
      BY <1>7, <2>2, <2>3, <2>4 DEF Running
  <1>12. TypeOK'
    BY <1>1, GuardsSame
  <1> QED
    BY <1>1, <1>7, <1>10, <1>11, <1>12 DEF LoopInv, FailsOnlyIfRefused

LEMMA BeginStep ==
    ASSUME LoopInv, NEW name \in {"mint", "refund"}, NEW ids \in IdLists, Begin(name, ids)
    PROVE  LoopInv' /\ UNCHANGED vars
  <1>1. /\ TypeOK /\ layer = storage /\ index = 0 /\ overlord # None
        /\ UNCHANGED vars /\ UNCHANGED layer
        /\ call' = [name |-> name, ids |-> ids] /\ pc' = "take" /\ index' = 0
    BY DEF LoopInv, Begin
  <1>2. TypeOK' /\ overlord' # None /\ IdLists' = IdLists
    BY <1>1, GuardsSame
  <1>3. call'.ids \in IdLists' /\ call'.name \in {"mint", "refund"}
    BY <1>1, <1>2
  <1>4. call'.ids \in Seq(PreorderId) /\ Len(call'.ids) \in Nat
    BY <1>1, <1>3, ListType
  <1>5. Len(Batch(call'.ids)) \in Nat
    <2>1. IterLimit \in Nat
      BY AssumptionsHold DEF Assumptions
    <2> QED
      BY <1>4, <2>1 DEF Batch
  <1>6. TakenTo' = 0 /\ MintedTo' = 0
    BY <1>1 DEF TakenTo, MintedTo
  <1>7. /\ CanTake(Prefix(0))' /\ CanMintAll(Prefix(0))'
        /\ IdsOf(Prefix(0))' = {} /\ DOMAIN Prefix(0)' = {}
        /\ PreordersAfter({})' = preorders' /\ ReservedAfter({})' = reserved'
        /\ InventoryAfter({})' = inventory' /\ CareersAfter({})' = careerTypeCount'
        /\ FlagsAfter({})' = ownerHasPreorder' /\ FreeAfter({}, {})' = free'
        /\ ItemsAfter(Prefix(0))' = items'
    <2>1. DOMAIN Prefix(0)' = {}
      BY <1>4 DEF Prefix
    <2> QED
      BY <1>1, <2>1, NoneSettled, StorageSame, GuardsSame DEF vars, IdsOf
  <1>8. /\ newFree' = free' /\ newReserved' = reserved' /\ newItems' = items'
        /\ newInventory' = inventory' /\ newCareerTypeCount' = careerTypeCount'
        /\ newPreorders' = preorders' /\ newHasPreorder' = ownerHasPreorder'
    BY <1>1 DEF layer, storage, vars
  <1>9. /\ IdsOf(Prefix(TakenTo))' = {} /\ IdsOf(Prefix(MintedTo))' = {}
        /\ IdsOf(Prefix(index))' = {} /\ Prefix(MintedTo)' = Prefix(0)'
        /\ Prefix(TakenTo)' = Prefix(0)'
    BY <1>1, <1>6, <1>7
  <1>10. LayerHolds'
    BY <1>7, <1>8, <1>9 DEF LayerHolds
  <1>11. Running'
    BY <1>1, <1>2, <1>3, <1>5, <1>6, <1>7, <1>9 DEF Running
  <1> QED
    BY <1>1, <1>2, <1>10, <1>11 DEF LoopInv, FailsOnlyIfRefused

\* What is refused of one id is refused of the whole call.
LEMMA RefusedForGood ==
    ASSUME LoopInv, Refused
    PROVE  ~(IF call.name = "mint" THEN MayMintChosen(call.ids) ELSE MayRefund(call.ids))
  <1> DEFINE n == index
             id == call.ids[n + 1]
             m == Len(Batch(call.ids))
  <1>1. TypeOK /\ Running /\ LayerHolds /\ pc \in {"take", "mint"}
    BY DEF LoopInv, Refused
  <1>2. /\ call.ids \in Seq(PreorderId) /\ Len(call.ids) \in Nat
        /\ n \in Nat /\ m \in Nat /\ n + 1 <= m /\ m <= Len(call.ids)
    <2>1. pc = "take" => MoreIds
      BY DEF Refused
    <2> QED
      BY <1>1, <2>1, LoopFacts
  <1>3. /\ n + 1 <= Len(call.ids) /\ n <= Len(call.ids) /\ n + 1 \in Nat
        /\ n + 1 \in 0 .. m
    BY <1>2
  <1>4. Batch(call.ids) = Prefix(m)
    BY <1>1, BatchIsPrefix DEF Running
  <1>5. MayMintChosen(call.ids) \/ MayRefund(call.ids) => CanTake(Prefix(n + 1))
    <2>1. MayMintChosen(call.ids) \/ MayRefund(call.ids) => CanTake(Prefix(m))
      BY <1>4 DEF MayMintChosen, MayRefund
    <2> HIDE DEF m, n
    <2> QED
      BY <1>2, <1>3, <2>1, CanTakePrefix
  <1>6. MayMintChosen(call.ids) => CanMintAll(Prefix(n + 1))
    <2>1. MayMintChosen(call.ids) => CanTake(Prefix(m)) /\ CanMintAll(Prefix(m))
      BY <1>4 DEF MayMintChosen, CanMintAll
    <2> HIDE DEF m, n
    <2> QED
      BY <1>1, <1>2, <1>3, <2>1, CanMintPrefix
  <1>7. CASE pc = "take"
    <2>1. newPreorders[id] = None
      BY <1>7 DEF Refused, NextId
    <2>2. newPreorders = PreordersAfter(IdsOf(Prefix(n)))
      BY <1>1, <1>7 DEF LayerHolds, TakenTo
    <2>3. id \in PreorderId /\ (id \in IdsOf(Prefix(n)) \/ preorders[id] = None)
      BY <1>2, <1>3, <2>1, <2>2, PrefixMore DEF PreordersAfter
    <2>4. ~CanTake(Prefix(n + 1))
      BY <1>2, <1>3, <2>3, PrefixMore
    <2> QED
      BY <1>5, <2>4
  <1>8. CASE pc = "mint"
    <2>1. ~MayMintTaken /\ call.name = "mint"
      BY <1>1, <1>8 DEF Refused, Running
    <2>2. TakenTo = n + 1 /\ MintedTo = n
      BY <1>8, <2>1 DEF TakenTo, MintedTo
    <2>3. /\ CanTake(Prefix(n + 1)) /\ CanMintAll(Prefix(n))
          /\ taken = preorders[id] /\ overlord # None
      BY <1>1, <1>8, <2>2 DEF Running
    <2>4. /\ newReserved = ReservedAfter(IdsOf(Prefix(n + 1)))
          /\ newFree = FreeAfter(IdsOf(Prefix(n + 1)), IdsOf(Prefix(n)))
          /\ newItems = ItemsAfter(Prefix(n))
          /\ newInventory = InventoryAfter(IdsOf(Prefix(n)))
      BY <1>1, <2>2 DEF LayerHolds
    <2>5. ~CanMintAll(Prefix(n + 1))
      BY <1>1, <1>2, <1>3, <2>1, <2>3, <2>4, MintMore
    <2> QED
      BY <1>6, <2>1, <2>5
  <1> QED
    BY <1>1, <1>7, <1>8

LEMMA FailStep ==
    ASSUME LoopInv, Fail
    PROVE  LoopInv' /\ UNCHANGED vars
  <1>1. UNCHANGED vars /\ call' = call /\ pc' = "failed" /\ TypeOK
    BY DEF LoopInv, Fail
  <1>2. layer' = storage'
    BY DEF Fail, ClearLayer, layer, storage
  <1>3. FailsOnlyIfRefused'
    <2>1. Refused
      BY DEF Fail
    <2>2. ~(IF call.name = "mint" THEN MayMintChosen(call.ids) ELSE MayRefund(call.ids))
      BY <2>1, RefusedForGood
    <2> QED
      BY <1>1, <2>2, GuardsSame DEF FailsOnlyIfRefused
  <1>4. TypeOK'
    BY <1>1, GuardsSame
  <1> QED
    BY <1>1, <1>2, <1>3, <1>4 DEF LoopInv

\* The end of a call that has gone through its list.
LEMMA ReturnIsSettlement ==
    ASSUME LoopInv, Return, pc = "take"
    PROVE  [Next]_vars
  <1> DEFINE n == index
             S == IdsOf(Prefix(n))
             batch == Batch(call.ids)
  <1>1. TypeOK /\ Running /\ LayerHolds
    BY DEF LoopInv
  <1>2. /\ call.ids \in Seq(PreorderId) /\ Len(call.ids) \in Nat /\ call.ids \in IdLists
        /\ n \in Nat /\ n <= Len(call.ids) /\ n = Len(batch) /\ batch = Prefix(n)
    <2>1. ~MoreIds
      BY DEF Return
    <2>2. n \in Nat /\ n = Len(batch)
      BY <1>1, <2>1, LoopFacts
    <2> QED
      BY <1>1, <2>2, LoopFacts, BatchIsPrefix DEF Running
  <1>3. DOMAIN batch = 1 .. n /\ S \in SUBSET PreorderId /\ S = IdsOf(batch)
    BY <1>2, PrefixFacts
  <1>4. /\ preorders' = PreordersAfter(S) /\ reserved' = ReservedAfter(S)
        /\ ownerHasPreorder' = FlagsAfter(S) /\ UNCHANGED unwritten
        /\ CanTake(batch) /\ overlord # None
    BY <1>1, <1>2 DEF Return, LayerHolds, Running, TakenTo
  <1>5. Settle(S)
    BY <1>4 DEF Settle, PreordersAfter, ReservedAfter, FlagsAfter
  <1>6. DOMAIN Prefix(0) = {}
    <2>1. 0 \in Nat /\ 0 <= Len(call.ids)
      BY <1>2
    <2>2. DOMAIN Prefix(0) = 1 .. 0
      BY <1>2, <2>1, PrefixFacts
    <2> QED
      BY <2>2
  <1>7. ASSUME S = {} PROVE UNCHANGED vars
    <2>1. n = 0
      <3>1. \A i \in 1 .. n : batch[i] \in S
        BY <1>3 DEF IdsOf
      <3>2. n \in Nat /\ ~(1 \in 1 .. n)
        BY <1>2, <1>7, <3>1
      <3> HIDE DEF n
      <3> QED
        BY <3>2
    <2>2. Prefix(MintedTo) = Prefix(0) /\ MintedTo = 0
      BY <2>1 DEF MintedTo
    <2>3. IdsOf(Prefix(MintedTo)) = {} /\ ItemsAfter(Prefix(MintedTo)) = items
      BY <1>1, <1>6, <2>2, NoneSettled
    <2>4. /\ free' = FreeAfter({}, {}) /\ items' = items
          /\ inventory' = InventoryAfter({}) /\ careerTypeCount' = CareersAfter({})
      BY <1>1, <1>2, <1>7, <2>3 DEF Return, LayerHolds, TakenTo
    <2> QED
      BY <1>1, <1>4, <1>7, <2>4, NoneSettled DEF vars, unwritten
  <1>8. ASSUME S # {}, call.name = "mint" PROVE MintChosenPreorders(call.ids)
    <2>1. MintedTo = n
      BY <1>8 DEF MintedTo, Return
    <2>2. /\ free' = FreeAfter(S, S) /\ items' = ItemsAfter(batch)
          /\ inventory' = InventoryAfter(S) /\ careerTypeCount' = CareersAfter(S)
          /\ CanMintAll(batch)
      BY <1>1, <1>2, <2>1 DEF Return, LayerHolds, Running, TakenTo
    <2>3. MayMintChosen(call.ids)
      <3> HIDE DEF S, n, batch
      <3> QED
        BY <1>3, <1>4, <1>8, <2>2 DEF MayMintChosen, CanMintAll, batch
    <2>4. free' = [a \in Account |-> FreeAfterSale(S, a)]
      BY <2>2 DEF FreeAfter, Gain, Cost, FreeAfterSale
    <2>5. items' = [items EXCEPT ![originOfShellCollectionId] = @ \o
               [i \in DOMAIN batch |->
                  [owner |-> preorders[batch[i]].owner,
                   attrs |-> [rarity |-> "Prime", race |-> preorders[batch[i]].race,
                              career |-> preorders[batch[i]].career]]]]
      BY <2>2 DEF ItemsAfter, ShellOf
    <2>6. /\ inventory' = [k \in StockKey |->
                IF k[1] = "Prime" /\ NumberOfRace(S, k[2]) > 0
                THEN Sold(inventory[k], "ForSale", NumberOfRace(S, k[2]))
                ELSE inventory[k]]
          /\ careerTypeCount' = [c \in CareerType |->
                Wrapped(careerTypeCount[c] + NumberOfCareer(S, c))]
      BY <2>2 DEF InventoryAfter, CareersAfter
    <2> HIDE DEF S, n
    <2> QED
      BY <1>3, <1>4, <1>5, <2>3, <2>4, <2>5, <2>6 DEF MintChosenPreorders, unwritten
  <1>9. ASSUME S # {}, call.name # "mint" PROVE RefundNotChosenPreorders(call.ids)
    <2>1. MintedTo = 0
      BY <1>1, <1>9 DEF MintedTo, Running
    <2>2. IdsOf(Prefix(MintedTo)) = {} /\ ItemsAfter(Prefix(MintedTo)) = items
      BY <1>1, <1>6, <2>1, NoneSettled
    <2>3. /\ free' = FreeAfter(S, {}) /\ items' = items
          /\ inventory' = InventoryAfter({}) /\ careerTypeCount' = CareersAfter({})
      BY <1>1, <1>2, <2>2 DEF Return, LayerHolds, TakenTo
    <2>4. /\ free' = [a \in Account |-> free[a] + Released(S, a)]
          /\ inventory' = inventory /\ careerTypeCount' = careerTypeCount
      BY <1>1, <1>3, <2>3, NoneSettled
    <2>5. MayRefund(call.ids)
      BY <1>3, <1>4, <1>9 DEF MayRefund
    <2> HIDE DEF S, n
    <2> QED
      BY <1>3, <1>4, <1>5, <2>3, <2>4, <2>5 DEF RefundNotChosenPreorders, unwritten
  <1>10. S # {} => SettlementCall
    BY <1>2, <1>8, <1>9 DEF SettlementCall
  <1> QED
    BY <1>7, <1>10 DEF Next

LEMMA ReturnStep ==
    ASSUME LoopInv, Return
    PROVE  LoopInv' /\ [Next]_vars
  <1>1. ASSUME pc = "failed" PROVE UNCHANGED vars
    <2>1. layer = storage
      BY <1>1 DEF LoopInv
    <2> QED
      BY <2>1 DEF Return, layer, storage, unwritten, vars
  <1>2. [Next]_vars
    BY <1>1, ReturnIsSettlement DEF Return
  <1>3. TypeOK'
    BY <1>2, NextType DEF LoopInv
  <1>4. layer' = storage' /\ pc' = "idle" /\ index' = 0
    BY DEF Return, layer, storage
  <1> QED
    BY <1>2, <1>3, <1>4 DEF LoopInv, FailsOnlyIfRefused

LEMMA OtherStep ==
    ASSUME LoopInv, OtherCall
    PROVE  LoopInv' /\ [Next]_vars
  <1>1. [Next]_vars
    BY DEF OtherCall, Next
  <1>2. TypeOK'
    BY <1>1, NextType DEF LoopInv
  <1>3. layer' = storage' /\ pc' = "idle" /\ index' = 0
    BY DEF OtherCall, ClearLayer, layer, storage, loopVars, LoopInv
  <1> QED
    BY <1>1, <1>2, <1>3 DEF LoopInv, FailsOnlyIfRefused

LEMMA LoopNextHolds == LoopInv /\ [LoopNext]_allVars => LoopInv' /\ [Next]_vars
  <1> SUFFICES ASSUME LoopInv, [LoopNext]_allVars PROVE LoopInv' /\ [Next]_vars
    OBVIOUS
  <1>1. ASSUME NEW name \in {"mint", "refund"}, NEW ids \in IdLists, Begin(name, ids)
        PROVE  LoopInv' /\ [Next]_vars
    BY <1>1, BeginStep
  <1>2. CASE TakePreorder
    BY <1>2, TakeStep
  <1>3. CASE MintTaken
    BY <1>3, MintStep
  <1>4. CASE ClearFlag
    BY <1>4, FlagStep
  <1>5. CASE Fail
    BY <1>5, FailStep
  <1>6. CASE Return
    BY <1>6, ReturnStep
  <1>7. CASE OtherCall
    BY <1>7, OtherStep
  <1>8. CASE UNCHANGED allVars
    <2>1. UNCHANGED vars /\ UNCHANGED loopVars /\ UNCHANGED layer /\ layer = layer'
      BY <1>8 DEF allVars
    <2>2. storage' = storage
      BY <2>1 DEF storage, vars
    <2>3. call' = call /\ pc' = pc /\ index' = index /\ taken' = taken
      BY <2>1 DEF loopVars
    <2>4. TakenTo' = TakenTo /\ MintedTo' = MintedTo
      BY <2>3 DEF TakenTo, MintedTo
    <2>5. \A n : Prefix(n)' = Prefix(n)
      BY <2>3, PrefixSame
    <2>6. LayerHolds => LayerHolds'
      BY <2>1, <2>3, <2>4, <2>5, StorageSame DEF LayerHolds, layer
    <2>7. Running => Running'
      BY <2>1, <2>3, <2>4, <2>5, GuardsSame DEF Running, vars
    <2>8. FailsOnlyIfRefused'
      BY <2>1, <2>3, GuardsSame DEF FailsOnlyIfRefused, LoopInv
    <2>9. TypeOK'
      BY <2>1, GuardsSame DEF LoopInv
    <2> QED
      BY <2>1, <2>2, <2>3, <2>6, <2>7, <2>8, <2>9 DEF LoopInv
  <1> QED
    BY <1>1, <1>2, <1>3, <1>4, <1>5, <1>6, <1>7, <1>8 DEF LoopNext

LEMMA LoopInit == Init /\ NoCall => LoopInv
  BY InitType DEF NoCall, LoopInv, layer, storage, FailsOnlyIfRefused

\* The loops implement the calls of NftSale: each of their steps is one of its
\* steps or none, whatever the list holds and wherever the call fails.
THEOREM LoopImplemented == LoopSpec => ImplementsSettlement
  BY LoopInit, LoopNextHolds, PTL DEF LoopSpec, ImplementsSettlement

\* And they carry out every settlement that NftSale allows: a call fails only
\* when the guard of the whole call is false of the storage it started from.
THEOREM FailsOnlyIfRefusedCorrect == LoopSpec => []FailsOnlyIfRefused
  <1>1. LoopInv => FailsOnlyIfRefused
    BY DEF LoopInv
  <1> QED
    BY <1>1, LoopInit, LoopNextHolds, PTL DEF LoopSpec
=============================================================================
