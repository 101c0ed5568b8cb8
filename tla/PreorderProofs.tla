--------------------------- MODULE PreorderProofs ---------------------------
(***************************************************************************)
(* Theorems about preorders and their settlement, for every value of the   *)
(* constants: what a batch gives to each owner, that before the last day   *)
(* nobody has two preorders, and that the sale implements Escrow.          *)
(***************************************************************************)
EXTENDS NftSaleProofs

USE DEF balancesVars, rmrkVars, setupVars, stockVars, preorderVars, saleVars

\* The items that a batch appends after the first m ones for the ids in T are
\* as many as these ids.
LEMMA BatchCount ==
    ASSUME NEW batch \in Seq(PreorderId),
           \A i, j \in DOMAIN batch : i # j => batch[i] # batch[j],
           NEW m \in Nat, NEW T
    PROVE  LET New == {k \in (m + 1) .. (m + Len(batch)) : batch[k - m] \in T}
           IN  /\ IsFiniteSet(New)
               /\ Cardinality(New) = Cardinality(IdsOf(batch) \cap T)
  <1> DEFINE New == {k \in (m + 1) .. (m + Len(batch)) : batch[k - m] \in T}
             f == [k \in New |-> batch[k - m]]
  <1>1. /\ Len(batch) \in Nat
        /\ DOMAIN batch = 1 .. Len(batch)
    OBVIOUS
  <1>2. IsFiniteSet(New)
    <2>1. IsFiniteSet((m + 1) .. (m + Len(batch)))
      BY <1>1, FS_Interval
    <2> QED
      BY <2>1, FS_Subset
  <1>3. \A k \in New : k - m \in DOMAIN batch /\ k = (k - m) + m
    BY <1>1
  <1>4. f \in [New -> IdsOf(batch) \cap T]
    BY <1>3 DEF IdsOf
  <1>5. \A k, l \in New : f[k] = f[l] => k = l
    <2> SUFFICES ASSUME NEW k \in New, NEW l \in New, batch[k - m] = batch[l - m]
                 PROVE  k = l
      OBVIOUS
    <2>1. k - m = l - m
      BY <1>3
    <2> QED
      BY <1>3, <2>1
  <1>6. ASSUME NEW id \in IdsOf(batch) \cap T
        PROVE  \E k \in New : f[k] = id
    <2>1. PICK i \in DOMAIN batch : batch[i] = id
      BY <1>6 DEF IdsOf
    <2>2. i + m \in (m + 1) .. (m + Len(batch)) /\ (i + m) - m = i
      BY <1>1
    <2>3. i + m \in New
      BY <2>1, <2>2
    <2> QED
      BY <2>1, <2>2, <2>3
  <1> HIDE DEF New, f
  <1>7. f \in Bijection(New, IdsOf(batch) \cap T)
    <2>1. f \in Injection(New, IdsOf(batch) \cap T)
      BY <1>4, <1>5 DEF Injection, IsInjective
    <2>2. f \in Surjection(New, IdsOf(batch) \cap T)
      BY <1>4, <1>6 DEF Surjection
    <2> QED
      BY <2>1, <2>2 DEF Bijection
  <1>8. ExistsBijection(New, IdsOf(batch) \cap T)
    BY <1>7 DEF ExistsBijection
  <1>9. Cardinality(New) = Cardinality(IdsOf(batch) \cap T)
    BY <1>2, <1>8, FS_Bijection
  <1> QED
    BY <1>2, <1>9 DEF New
-----------------------------------------------------------------------------
(* What a settlement gives to each owner.                                  *)

\* The shells that a batch mints for account a.
LEMMA MintedShells ==
    ASSUME TypeOK, NEW ids \in IdLists, MintChosenPreorders(ids), NEW a \in Account
    PROVE  /\ OwnedInCollection(a, originOfShellCollectionId)
                 \subseteq OwnedInCollection(a, originOfShellCollectionId)'
           /\ IsFiniteSet(OwnedInCollection(a, originOfShellCollectionId)')
           /\ Cardinality(ShellsGained(a)) = NumberOf(IdsOf(Batch(ids)), a)
  <1> DEFINE batch == Batch(ids)
             S == IdsOf(batch)
             c == originOfShellCollectionId
             m == Len(items[c])
             minted == [i \in DOMAIN batch |->
                  [owner |-> preorders[batch[i]].owner,
                   attrs |-> [rarity |-> "Prime", race |-> preorders[batch[i]].race,
                              career |-> preorders[batch[i]].career]]]
  <1>1. /\ batch \in Seq(PreorderId)
        /\ S \subseteq PreorderId
        /\ \A i, j \in DOMAIN batch : i # j => batch[i] # batch[j]
        /\ \A id \in S : preorders[id] # None
    BY BatchFacts DEF MintChosenPreorders, MayMintChosen, CanTake
  <1>2. /\ c \in CollectionId
        /\ c # None
        /\ items[c] \in Seq(Item)
        /\ m \in Nat
        /\ items'[c] = items[c] \o minted
        /\ c' = c
    <2>1. c \in CollectionId /\ c # None
      BY DEF TypeOK, MintChosenPreorders, MayMintChosen
    <2>2. items \in [CollectionId -> Seq(Item)]
      BY DEF TypeOK, RmrkTypeOK
    <2>3. items' = [items EXCEPT ![c] = @ \o minted] /\ c' = c
      BY DEF MintChosenPreorders
    <2> QED
      BY <2>1, <2>2, <2>3
  <1>3. /\ Len(batch) \in Nat
        /\ DOMAIN batch = 1 .. Len(batch)
        /\ Len(minted) = Len(batch)
        /\ minted \in Seq([owner : {preorders[id].owner : id \in S},
                           attrs : {minted[i].attrs : i \in DOMAIN batch}])
    <2>1. Len(batch) \in Nat /\ DOMAIN batch = 1 .. Len(batch)
      BY <1>1
    <2>2. \A i \in DOMAIN batch : batch[i] \in S
      BY DEF IdsOf
    <2> QED
      BY <2>1, <2>2
  <1>4. /\ DOMAIN items[c] = 1 .. m
        /\ DOMAIN items'[c] = 1 .. (m + Len(batch))
        /\ \A k \in 1 .. m : items'[c][k] = items[c][k]
        /\ \A k \in (m + 1) .. (m + Len(batch)) : items'[c][k] = minted[k - m]
    BY <1>2, <1>3
  <1>5. \A k \in (m + 1) .. (m + Len(batch)) :
            /\ k - m \in DOMAIN batch
            /\ batch[k - m] \in S
            /\ items'[c][k].owner = preorders[batch[k - m]].owner
    <2> TAKE k \in (m + 1) .. (m + Len(batch))
    <2>1. k - m \in DOMAIN batch
      <3> HIDE DEF m, batch
      <3> QED
        BY <1>2, <1>3
    <2>2. batch[k - m] \in S
      BY <2>1 DEF IdsOf
    <2>3. items'[c][k] = minted[k - m]
      <3> HIDE DEF minted
      <3> QED
        BY <1>4
    <2>4. minted[k - m].owner = preorders[batch[k - m]].owner
      <3> HIDE DEF batch
      <3> QED
        BY <2>1
    <2> QED
      BY <2>1, <2>2, <2>3, <2>4
  <1>6. /\ OwnedInCollection(a, c) \subseteq OwnedInCollection(a, c)'
        /\ IsFiniteSet(OwnedInCollection(a, c)')
        /\ ShellsGained(a)
             = {k \in (m + 1) .. (m + Len(batch)) : items'[c][k].owner = a}
    <2>1. ShellsGained(a) = OwnedInCollection(a, c)' \ OwnedInCollection(a, c)
      BY <1>2 DEF ShellsGained
    <2>2. OwnedInCollection(a, c) = {k \in 1 .. m : items[c][k].owner = a}
      BY <1>4 DEF OwnedInCollection
    <2>3. OwnedInCollection(a, c)' = {k \in 1 .. (m + Len(batch)) : items'[c][k].owner = a}
      BY <1>2, <1>4 DEF OwnedInCollection
    <2>4. \A k \in 1 .. (m + Len(batch)) : k \notin 1 .. m <=> k \in (m + 1) .. (m + Len(batch))
      BY <1>2, <1>3
    <2>5. /\ (m + 1) .. (m + Len(batch)) \subseteq 1 .. (m + Len(batch))
          /\ 1 .. m \subseteq 1 .. (m + Len(batch))
      BY <1>2, <1>3
    <2>6. IsFiniteSet(1 .. (m + Len(batch)))
      BY <1>2, <1>3, FS_Interval
    <2>7. IsFiniteSet(OwnedInCollection(a, c)')
      BY <2>3, <2>6, FS_Subset
    <2> QED
      BY <1>4, <2>1, <2>2, <2>3, <2>4, <2>5, <2>7
  <1>7. \A id \in S : preorders[id].owner = a <=> id \in OpenPreorders(a)
    BY <1>1 DEF OpenPreorders
  <1>8. ShellsGained(a)
          = {k \in (m + 1) .. (m + Len(batch)) : batch[k - m] \in OpenPreorders(a)}
    BY <1>5, <1>6, <1>7
  <1> QED
    <2>1. Cardinality({k \in (m + 1) .. (m + Len(batch)) : batch[k - m] \in OpenPreorders(a)})
            = Cardinality(S \cap OpenPreorders(a))
      BY <1>1, <1>2, BatchCount
    <2> QED
      BY <1>6, <1>8, <2>1 DEF NumberOf

LEMMA SettlementStep ==
    ASSUME EscrowInv, [Next]_vars, preorderIndex' = preorderIndex, preorders' # preorders,
           NEW a \in Account \ {overlord}
    PROVE  free'[a] - free[a] + PrimeOriginOfShellPrice * Cardinality(ShellsGained(a))
             = PrimeOriginOfShellPrice * Cardinality(OpenPreorders(a) \ OpenPreorders(a)')
  <1> DEFINE p == PrimeOriginOfShellPrice
  <1>1. PICK ids \in IdLists : MintChosenPreorders(ids) \/ RefundNotChosenPreorders(ids)
    <2>1. ASSUME NEW b \in Account, UserCall(b) PROVE FALSE
      <3>1. ASSUME NEW race, NEW career, PreorderOriginOfShell(b, race, career) PROVE FALSE
        <4>1. preorderIndex \in Nat
          BY AssumptionsHold DEF EscrowInv, TypeOK, U32, Assumptions
        <4> QED
          BY <3>1, <4>1 DEF PreorderOriginOfShell, TakePreorderId
      <3> QED
        BY <2>1, <3>1
        DEF UserCall, ClaimSpirit, RedeemSpirit, DoMintSpirit, BuyRareOriginOfShell,
            BuyPrimeOriginOfShell, DoMintShell
    <2>2. ~AdminCall
      BY DEF AdminCall, MintGiftOriginOfShell, DoMintShell, SetStatusType,
          InitRarityTypeCounts, UpdateRarityTypeCounts, SetSpiritCollectionId,
          SetOriginOfShellCollectionId, PwCreateCollection, SetSpiritsMetadata,
          SetOriginOfShellsMetadata, SetOverlord
    <2>3. ~(Outside \/ UNCHANGED vars)
      BY DEF Outside, vars
    <2> QED
      BY <2>1, <2>2, <2>3 DEF Next, SettlementCall
  <1> DEFINE S == IdsOf(Batch(ids))
             n == NumberOf(S, a)
  <1>2. /\ S \in SUBSET PreorderId
        /\ Settle(S)
        /\ p \in Nat /\ n \in Nat /\ p * n \in Nat
        /\ free[a] \in Nat
        /\ Released(S, a) = p * n
    <2>1. S \in SUBSET PreorderId
      BY BatchFacts DEF EscrowInv
    <2> QED
      BY <1>1, <2>1, NumberFacts, ProductType, ReleasedInFull, AssumptionsHold
      DEF EscrowInv, MintChosenPreorders, RefundNotChosenPreorders, TypeOK,
          BalancesTypeOK, Assumptions
  <1>3. Cardinality(OpenPreorders(a) \ OpenPreorders(a)') = n
    <2>1. OpenPreorders(a) \ OpenPreorders(a)' = S \cap OpenPreorders(a)
      BY <1>2 DEF Settle, OpenPreorders
    <2> QED
      BY <2>1 DEF NumberOf
  <1>4. CASE RefundNotChosenPreorders(ids)
    <2>1. free'[a] = free[a] + p * n
      BY <1>2, <1>4 DEF RefundNotChosenPreorders
    <2>2. ShellsGained(a) = {}
      BY <1>4 DEF RefundNotChosenPreorders, ShellsGained, OwnedInCollection
    <2>3. p * Cardinality(ShellsGained(a)) = 0
      BY <1>2, <2>2, FS_EmptySet
    <2> QED
      BY <1>2, <1>3, <2>1, <2>3
  <1>5. CASE MintChosenPreorders(ids)
    <2>1. free'[a] = free[a] + p * n + (0 - p * n)
      BY <1>2, <1>5 DEF MintChosenPreorders, FreeAfterSale
    <2>2. Cardinality(ShellsGained(a)) = n
      BY <1>5, MintedShells DEF EscrowInv
    <2> QED
      BY <1>2, <1>3, <2>1, <2>2
  <1> QED
    BY <1>1, <1>4, <1>5

\* Whatever list the Overlord calls with: each owner in it, the Overlord apart,
\* gets for each of its preorders a shell, or its price back, never both nor
\* neither, and no other account gains or loses anything.
THEOREM SettlementCorrect == Spec => PreorderSettlement
  <1>1. Init => EscrowInv
    BY InitType, EscrowInit DEF EscrowInv
  <1>2. EscrowInv /\ [Next]_vars => EscrowInv'
    BY NextType, EscrowNext DEF EscrowInv
  <1>3. EscrowInv /\ [Next]_vars =>
          [preorderIndex' = preorderIndex /\ preorders' # preorders =>
             \A a \in Account \ {overlord} :
                free'[a] - free[a]
                    + PrimeOriginOfShellPrice * Cardinality(ShellsGained(a))
                = PrimeOriginOfShellPrice
                    * Cardinality(OpenPreorders(a) \ OpenPreorders(a)')]_vars
    BY SettlementStep
  <1> QED
    BY <1>1, <1>2, <1>3, PTL DEF Spec, PreorderSettlement
-----------------------------------------------------------------------------
(* One preorder for each account, as long as the last day never comes. The *)
(* invariant says why: the flag is set exactly while a preorder is open.   *)

HasOpenPreorder(a) ==
    \E id \in PreorderId : preorders[id] # None /\ preorders[id].owner = a

OneInv ==
    LastDayNeverOn =>
        /\ ~LastDayOfSale
        /\ \A i, j \in PreorderId :
              preorders[i] # None /\ preorders[j] # None
              /\ preorders[i].owner = preorders[j].owner => i = j
        /\ \A a \in Account : a \in ownerHasPreorder <=> HasOpenPreorder(a)

LEMMA OnePreorder ==
    ASSUME EscrowInv, OneInv, NEW a \in Account, NEW race \in RaceType,
           NEW career \in CareerType, PreorderOriginOfShell(a, race, career)
    PROVE  OneInv'
  <1> SUFFICES ASSUME LastDayNeverOn PROVE OneInv'
    BY DEF OneInv, LastDayNeverOn
  <1> USE DEF PreorderOriginOfShell
  <1>1. /\ ~LastDayOfSale
        /\ status' = status
        /\ a \notin ownerHasPreorder
        /\ ownerHasPreorder' = ownerHasPreorder \cup {a}
    BY DEF OneInv, MayPreorder, LastDayOfSale
  <1>2. preorderIndex \in PreorderId /\ preorders[preorderIndex] = None
    BY AssumptionsHold
    DEF EscrowInv, UnusedIdsEmpty, TypeOK, TakePreorderId, U32, PreorderId, Assumptions
  <1>3. /\ preorders'[preorderIndex] # None
        /\ preorders'[preorderIndex].owner = a
        /\ \A id \in PreorderId : id # preorderIndex => preorders'[id] = preorders[id]
    BY <1>2, AssumptionsHold DEF EscrowInv, TypeOK, PreorderInfo, Assumptions
  <1>4. \A id \in PreorderId : preorders[id] # None => preorders[id].owner # a
    BY <1>1 DEF OneInv, HasOpenPreorder
  <1>5. \A i, j \in PreorderId :
           preorders'[i] # None /\ preorders'[j] # None
           /\ preorders'[i].owner = preorders'[j].owner => i = j
    BY <1>3, <1>4 DEF OneInv
  <1>6. ASSUME NEW b \in Account
        PROVE  b \in ownerHasPreorder' <=> HasOpenPreorder(b)'
    <2>1. HasOpenPreorder(b)' <=> b = a \/ HasOpenPreorder(b)
      BY <1>2, <1>3 DEF HasOpenPreorder
    <2> QED
      BY <1>1, <2>1 DEF OneInv
  <1> QED
    BY <1>1, <1>5, <1>6 DEF OneInv, LastDayOfSale

LEMMA OneSettle ==
    ASSUME TypeOK, OneInv, NEW S \in SUBSET PreorderId, Settle(S), status' = status,
           \A id \in S : preorders[id] # None
    PROVE  OneInv'
  <1> SUFFICES ASSUME LastDayNeverOn PROVE OneInv'
    BY DEF OneInv, LastDayNeverOn
  <1>1. /\ ~LastDayOfSale /\ ~LastDayOfSale'
        /\ ownerHasPreorder' = ownerHasPreorder \ {preorders[id].owner : id \in S}
        /\ \A id \in PreorderId :
              preorders'[id] = IF id \in S THEN None ELSE preorders[id]
    BY DEF OneInv, Settle, LastDayOfSale
  <1>2. \A i, j \in PreorderId :
           preorders'[i] # None /\ preorders'[j] # None
           /\ preorders'[i].owner = preorders'[j].owner => i = j
    BY <1>1 DEF OneInv
  <1>3. ASSUME NEW a \in Account
        PROVE  a \in ownerHasPreorder' <=> HasOpenPreorder(a)'
    <2>1. CASE \E id \in S : preorders[id].owner = a
      <3>1. ~HasOpenPreorder(a)'
        BY <1>1, <2>1 DEF OneInv, HasOpenPreorder
      <3> QED
        BY <1>1, <2>1, <3>1
    <2>2. CASE ~\E id \in S : preorders[id].owner = a
      <3>1. HasOpenPreorder(a)' <=> HasOpenPreorder(a)
        BY <1>1, <2>2 DEF HasOpenPreorder
      <3>2. a \in ownerHasPreorder' <=> a \in ownerHasPreorder
        BY <1>1, <2>2
      <3> QED
        BY <3>1, <3>2 DEF OneInv
    <2> QED
      BY <2>1, <2>2
  <1> QED
    BY <1>1, <1>2, <1>3 DEF OneInv

LEMMA OneQuiet ==
    ASSUME OneInv, UNCHANGED <<preorders, ownerHasPreorder>>,
           LastDayNeverOn => ("LastDayOfSale" \in status' => "LastDayOfSale" \in status)
    PROVE  OneInv'
  BY DEF OneInv, LastDayOfSale, LastDayNeverOn, HasOpenPreorder

LEMMA OneNext == EscrowInv /\ OneInv /\ [Next]_vars => OneInv'
  <1> SUFFICES ASSUME EscrowInv, OneInv, [Next]_vars PROVE OneInv'
    OBVIOUS
  <1>1. CASE UNCHANGED <<preorders, ownerHasPreorder, status>>
    BY <1>1, OneQuiet
  <1>2. ASSUME NEW a \in Account, UserCall(a) PROVE OneInv'
    <2>1. CASE \E race \in RaceType, career \in CareerType :
                 PreorderOriginOfShell(a, race, career)
      BY <2>1, OnePreorder
    <2> QED
      BY <1>1, <1>2, <2>1
      DEF UserCall, ClaimSpirit, RedeemSpirit, DoMintSpirit, BuyRareOriginOfShell,
          BuyPrimeOriginOfShell, DoMintShell
  <1>3. ASSUME NEW ids \in IdLists,
               MintChosenPreorders(ids) \/ RefundNotChosenPreorders(ids)
        PROVE  OneInv'
    <2> DEFINE S == IdsOf(Batch(ids))
    <2>1. TypeOK /\ S \in SUBSET PreorderId
      BY BatchFacts DEF EscrowInv
    <2>2. Settle(S) /\ status' = status /\ \A id \in S : preorders[id] # None
      BY <1>3
      DEF MintChosenPreorders, MayMintChosen, RefundNotChosenPreorders, MayRefund, CanTake
    <2> QED
      BY <2>1, <2>2, OneSettle
  <1>4. ASSUME NEW value \in BOOLEAN, NEW s \in AdminStatus, SetStatusType(value, s)
        PROVE  OneInv'
    BY <1>4, OneQuiet DEF SetStatusType, LastDayNeverOn
  <1>5. AdminCall \/ Outside \/ UNCHANGED vars => OneInv'
    BY <1>1, <1>4
    DEF AdminCall, MintGiftOriginOfShell, DoMintShell, InitRarityTypeCounts,
        UpdateRarityTypeCounts, SetSpiritCollectionId, SetOriginOfShellCollectionId,
        PwCreateCollection, SetSpiritsMetadata, SetOriginOfShellsMetadata, SetOverlord,
        Outside, vars
  <1> QED
    BY <1>2, <1>3, <1>5 DEF Next, SettlementCall

LEMMA OneElement ==
    ASSUME NEW S, \A x, y \in S : x = y
    PROVE  Cardinality(S) <= 1
  <1>1. CASE S = {}
    BY <1>1, FS_EmptySet
  <1>2. CASE S # {}
    <2>1. PICK x \in S : S = {x}
      BY <1>2
    <2> QED
      BY <2>1, FS_Singleton
  <1> QED
    BY <1>1, <1>2

LEMMA AtMostOne ==
    ASSUME OneInv, LastDayNeverOn, NEW a
    PROVE  Cardinality(OpenPreorders(a)) <= 1
  <1>1. \A i, j \in OpenPreorders(a) : i = j
    BY DEF OneInv, OpenPreorders
  <1> QED
    BY <1>1, OneElement

\* While no call switches the last day on, the flags tell exactly who has an
\* open preorder, and nobody has two.
THEOREM OnePreorderCorrect == Spec => []OnePreorderEachBeforeLastDay
  <1>1. Init => EscrowInv /\ OneInv
    <2>1. Init => EscrowInv
      BY InitType, EscrowInit DEF EscrowInv
    <2>2. Init => OneInv
      BY DEF Init, OneInv, LastDayNeverOn, LastDayOfSale, HasOpenPreorder
    <2> QED
      BY <2>1, <2>2
  <1>2. EscrowInv /\ OneInv /\ [Next]_vars => EscrowInv' /\ OneInv'
    BY NextType, EscrowNext, OneNext DEF EscrowInv
  <1>3. EscrowInv /\ OneInv => OnePreorderEachBeforeLastDay
    BY AtMostOne DEF OnePreorderEachBeforeLastDay, OneInv, HasOpenPreorder, OpenPreorders
  <1> QED
    BY <1>1, <1>2, <1>3, PTL DEF Spec
-----------------------------------------------------------------------------
(* Two shells for each account at most. Why nothing is in the collection   *)
(* of the shells before it is named, is the lemma of the Spirits.          *)

NothingToGive ==
    \A k \in StockKey : inventory[k] # None =>
        inventory[k].left["Giveaway"] = 0 /\ inventory[k].left["Reserved"] = 0

Shells(a) == OwnedInCollection(a, originOfShellCollectionId)

TwoInv ==
    LastDayNeverOn /\ NoGifts =>
        /\ NothingToGive
        /\ originOfShellCollectionId \notin {None, spiritCollectionId} =>
              \A a \in Account : Cardinality(Shells(a)) + Cardinality(OpenPreorders(a)) <= 2

\* What the proof rests on.
Before == EscrowInv /\ OneInv /\ SpiritInv

LEMMA ShellFacts ==
    ASSUME TypeOK, originOfShellCollectionId # None, NEW a
    PROVE  /\ IsFiniteSet(Shells(a))
           /\ Cardinality(Shells(a)) \in Nat
           /\ IsFiniteSet(OpenPreorders(a))
           /\ Cardinality(OpenPreorders(a)) \in Nat
  <1>1. items[originOfShellCollectionId] \in Seq(Item)
    BY DEF TypeOK, RmrkTypeOK
  <1>2. IsFiniteSet(1 .. Len(items[originOfShellCollectionId]))
    BY <1>1, FS_Interval
  <1>3. Shells(a) \subseteq 1 .. Len(items[originOfShellCollectionId])
    BY <1>1 DEF Shells, OwnedInCollection
  <1>4. IsFiniteSet(OpenPreorders(a))
    BY NumberFacts
  <1> QED
    BY <1>2, <1>3, <1>4, FS_Subset, FS_CardinalityType

\* A step that gives nobody a shell or a preorder.
LEMMA TwoFewer ==
    ASSUME TypeOK, TwoInv, NoGifts /\ NothingToGive => NothingToGive',
           UNCHANGED <<originOfShellCollectionId, spiritCollectionId>>,
           originOfShellCollectionId \notin {None, spiritCollectionId} =>
             \A a \in Account : Shells(a)' \subseteq Shells(a)
                              /\ OpenPreorders(a)' \subseteq OpenPreorders(a)
    PROVE  TwoInv'
  <1> SUFFICES ASSUME LastDayNeverOn, NoGifts,
                      originOfShellCollectionId \notin {None, spiritCollectionId},
                      NEW a \in Account
               PROVE  Cardinality(Shells(a)') + Cardinality(OpenPreorders(a)') <= 2
    BY DEF TwoInv, LastDayNeverOn, NoGifts
  <1>1. Cardinality(Shells(a)) + Cardinality(OpenPreorders(a)) <= 2
    BY DEF TwoInv
  <1>2. /\ Cardinality(Shells(a)') <= Cardinality(Shells(a))
        /\ Cardinality(OpenPreorders(a)') <= Cardinality(OpenPreorders(a))
        /\ Cardinality(Shells(a)') \in Nat
        /\ Cardinality(OpenPreorders(a)') \in Nat
    BY ShellFacts, FS_Subset, FS_CardinalityType
  <1> QED
    BY <1>1, <1>2, ShellFacts

\* A shell that was bought: the only one, beside at most one open preorder.
LEMMA TwoBuy ==
    ASSUME Before, TwoInv, NEW to \in Account, NEW rarity \in RarityType,
           NEW race \in RaceType, NEW career \in CareerType, NEW price,
           DoMintShell(to, rarity, race, career, price, "ForSale", ~LastDayOfSale)
    PROVE  TwoInv'
  <1> SUFFICES ASSUME LastDayNeverOn, NoGifts PROVE TwoInv'
    BY DEF TwoInv, LastDayNeverOn, NoGifts
  <1> DEFINE c == originOfShellCollectionId
             key == <<rarity, race>>
             item == [owner |-> to, attrs |-> [rarity |-> rarity, race |-> race,
                                               career |-> career]]
  <1>1. /\ TypeOK
        /\ c \in CollectionId
        /\ items[c] \in Seq(Item)
        /\ items' = [items EXCEPT ![c] = Append(items[c], item)]
        /\ UNCHANGED <<preorders, originOfShellCollectionId, spiritCollectionId>>
        /\ Shells(to) = {}
    BY DEF Before, EscrowInv, OneInv, TypeOK, RmrkTypeOK, DoMintShell, MayMintShell,
           OwnsShell, Shells
  <1>2. /\ Len(items[c]) \in Nat
        /\ DOMAIN items[c] = 1 .. Len(items[c])
        /\ DOMAIN items'[c] = 1 .. (Len(items[c]) + 1)
        /\ \A i \in DOMAIN items[c] : items'[c][i] = items[c][i]
        /\ items'[c][Len(items[c]) + 1] = item
    BY <1>1 DEF TypeOK, RmrkTypeOK
  <1>3. Shells(to)' = {Len(items[c]) + 1}
    BY <1>1, <1>2 DEF Shells, OwnedInCollection
  <1>4. ASSUME NEW a \in Account, a # to PROVE Shells(a)' = Shells(a)
    BY <1>1, <1>2, <1>4 DEF Shells, OwnedInCollection
  <1>5. \A a : OpenPreorders(a)' = OpenPreorders(a)
    BY <1>1 DEF OpenPreorders
  <1>6. ASSUME NEW a \in Account, c # spiritCollectionId
        PROVE  Cardinality(Shells(a)') + Cardinality(OpenPreorders(a)') <= 2
    <2>1. CASE a = to
      <3>1. Cardinality(Shells(a)') = 1
        BY <1>3, <2>1, FS_Singleton
      <3>2. Cardinality(OpenPreorders(a)') <= 1 /\ Cardinality(OpenPreorders(a)') \in Nat
        BY <1>5, AtMostOne, NumberFacts DEF Before
      <3> QED
        BY <3>1, <3>2
    <2>2. CASE a # to
      <3>1. c \notin {None, spiritCollectionId}
        BY <1>6 DEF DoMintShell, MayMintShell
      <3> QED
        BY <1>4, <1>5, <2>2, <3>1 DEF TwoInv
    <2> QED
      BY <2>1, <2>2
  <1>7. NothingToGive'
    <2>1. /\ key \in StockKey
          /\ inventory[key] \in NftSaleInfo
          /\ inventory' = [inventory EXCEPT ![key] = Sold(inventory[key], "ForSale", 1)]
      BY <1>1 DEF DoMintShell, MayMintShell, HasRaceTypeLeft, TypeOK, StockKey
    <2>2. /\ Sold(inventory[key], "ForSale", 1).left["Giveaway"] = inventory[key].left["Giveaway"]
          /\ Sold(inventory[key], "ForSale", 1).left["Reserved"] = inventory[key].left["Reserved"]
      BY <2>1 DEF Sold, NftSaleInfo, NftSaleType
    <2>3. inventory[key] # None
      BY DEF DoMintShell, MayMintShell, HasRaceTypeLeft
    <2> QED
      BY <1>1, <2>1, <2>2, <2>3 DEF TwoInv, NothingToGive, TypeOK
  <1> QED
    BY <1>1, <1>6, <1>7 DEF TwoInv

\* The first preorder of an account without a shell.
LEMMA TwoPreorder ==
    ASSUME Before, OneInv', TypeOK', TwoInv, NEW a \in Account, NEW race \in RaceType,
           NEW career \in CareerType, PreorderOriginOfShell(a, race, career)
    PROVE  TwoInv'
  <1> SUFFICES ASSUME LastDayNeverOn, NoGifts PROVE TwoInv'
    BY DEF TwoInv, LastDayNeverOn, NoGifts
  <1> DEFINE c == originOfShellCollectionId
  <1>1. /\ TypeOK
        /\ c # None
        /\ UNCHANGED <<items, inventory, originOfShellCollectionId, spiritCollectionId>>
        /\ Shells(a) = {}
    BY DEF Before, EscrowInv, OneInv, PreorderOriginOfShell, MayPreorder, OwnsShell, Shells
  <1>2. \A b : Shells(b)' = Shells(b)
    BY <1>1 DEF Shells, OwnedInCollection
  <1>3. ASSUME NEW b \in Account, c # spiritCollectionId
        PROVE  Cardinality(Shells(b)') + Cardinality(OpenPreorders(b)') <= 2
    <2>1. CASE b = a
      <3>1. Cardinality(Shells(b)') = 0
        BY <1>1, <1>2, <2>1, FS_EmptySet
      <3>2. Cardinality(OpenPreorders(b)') <= 1
        <4>1. \A i, j \in OpenPreorders(b)' : i = j
          BY DEF OneInv, LastDayNeverOn, OpenPreorders
        <4> QED
          BY <4>1, OneElement
      <3>3. Cardinality(OpenPreorders(b)') \in Nat
        <4>1. OpenPreorders(b)' \subseteq PreorderId /\ IsFiniteSet(PreorderId)
          BY PreorderIdFinite DEF OpenPreorders
        <4> QED
          BY <4>1, FS_Subset, FS_CardinalityType
      <3> QED
        BY <3>1, <3>2, <3>3
    <2>2. CASE b # a
      <3>1. OpenPreorders(b)' = OpenPreorders(b)
        BY <2>2, <1>1, AssumptionsHold
        DEF OpenPreorders, PreorderOriginOfShell, Before, EscrowInv, UnusedIdsEmpty,
            TypeOK, PreorderInfo, PreorderId, U32, Assumptions
      <3> QED
        BY <1>1, <1>2, <1>3, <3>1 DEF TwoInv
    <2> QED
      BY <2>1, <2>2
  <1> QED
    BY <1>1, <1>3 DEF TwoInv, NothingToGive

\* A settled preorder is gone; if it was minted, a shell took its place.
LEMMA TwoSettle ==
    ASSUME Before, TwoInv, NEW ids \in IdLists,
           MintChosenPreorders(ids) \/ RefundNotChosenPreorders(ids)
    PROVE  TwoInv'
  <1> DEFINE c == originOfShellCollectionId
             S == IdsOf(Batch(ids))
  <1>1. /\ TypeOK
        /\ S \in SUBSET PreorderId
        /\ Settle(S)
        /\ UNCHANGED <<originOfShellCollectionId, spiritCollectionId>>
    <2>1. TypeOK
      BY DEF Before, EscrowInv
    <2>2. S \in SUBSET PreorderId
      BY <2>1, BatchFacts
    <2> QED
      BY <2>1, <2>2 DEF MintChosenPreorders, RefundNotChosenPreorders
  <1>2. \A a : OpenPreorders(a)' = OpenPreorders(a) \ S
    BY <1>1 DEF OpenPreorders, Settle
  <1>3. CASE RefundNotChosenPreorders(ids)
    <2>1. \A a : Shells(a)' = Shells(a)
      BY <1>3 DEF RefundNotChosenPreorders, Shells, OwnedInCollection
    <2>2. NothingToGive => NothingToGive'
      BY <1>3 DEF RefundNotChosenPreorders, NothingToGive
    <2> QED
      BY <1>1, <1>2, <2>1, <2>2, TwoFewer
  <1>4. CASE MintChosenPreorders(ids)
    <2>1. ASSUME NothingToGive PROVE NothingToGive'
      <3>1. ASSUME NEW k \in StockKey, inventory'[k] # None
            PROVE  inventory'[k].left["Giveaway"] = 0 /\ inventory'[k].left["Reserved"] = 0
        <4>1. \/ inventory'[k] = inventory[k]
              \/ /\ inventory[k] # None
                 /\ inventory'[k] = Sold(inventory[k], "ForSale", NumberOfRace(S, k[2]))
          BY <1>4, <3>1 DEF MintChosenPreorders, MayMintChosen, HasRaceTypeLeft, StockKey
        <4>2. CASE inventory'[k] = inventory[k]
          BY <2>1, <3>1, <4>2 DEF NothingToGive
        <4>3. CASE /\ inventory[k] # None
                   /\ inventory'[k] = Sold(inventory[k], "ForSale", NumberOfRace(S, k[2]))
          <5>1. inventory[k] \in NftSaleInfo
            BY <1>1, <4>3 DEF TypeOK
          <5>2. /\ inventory'[k].left["Giveaway"] = inventory[k].left["Giveaway"]
                /\ inventory'[k].left["Reserved"] = inventory[k].left["Reserved"]
            BY <4>3, <5>1 DEF Sold, NftSaleInfo, NftSaleType
          <5> QED
            BY <2>1, <4>3, <5>2 DEF NothingToGive
        <4> QED
          BY <4>1, <4>2, <4>3
      <3> QED
        BY <3>1 DEF NothingToGive
    <2>2. ASSUME NEW a \in Account
          PROVE  Cardinality(Shells(a)') + Cardinality(OpenPreorders(a)')
                   = Cardinality(Shells(a)) + Cardinality(OpenPreorders(a))
      <3>1. c # None /\ c \in CollectionId /\ items[c] \in Seq(Item)
        BY <1>1, <1>4 DEF MintChosenPreorders, MayMintChosen, TypeOK, RmrkTypeOK
      <3>2. /\ Shells(a) \subseteq Shells(a)'
            /\ IsFiniteSet(Shells(a)')
        BY <1>1, <1>4, MintedShells DEF Shells
      <3>3. /\ ShellsGained(a) = Shells(a)' \ Shells(a)
            /\ Cardinality(ShellsGained(a)) = NumberOf(S, a)
        BY <1>1, <1>4, <3>1, MintedShells DEF ShellsGained, Shells, OwnedInCollection
      <3>4. Cardinality(Shells(a)')
              = Cardinality(Shells(a)) + Cardinality(ShellsGained(a))
        <4>1. Shells(a)' \cap Shells(a) = Shells(a)
          BY <3>2
        <4>2. Cardinality(Shells(a)' \ Shells(a))
                = Cardinality(Shells(a)') - Cardinality(Shells(a)' \cap Shells(a))
          BY <3>2, FS_Difference
        <4>3. Cardinality(Shells(a)) \in Nat /\ Cardinality(Shells(a)') \in Nat
          BY <3>2, FS_Subset, FS_CardinalityType
        <4> QED
          BY <3>3, <4>1, <4>2, <4>3
      <3>5. Cardinality(OpenPreorders(a)')
              = Cardinality(OpenPreorders(a)) - NumberOf(S, a)
        BY <1>1, <1>2, NumberFacts
      <3>6. /\ Cardinality(Shells(a)) \in Nat
            /\ Cardinality(OpenPreorders(a)) \in Nat
            /\ NumberOf(S, a) \in Nat
        BY <1>1, <3>1, ShellFacts, NumberFacts
      <3> QED
        BY <3>3, <3>4, <3>5, <3>6
    <2> QED
      BY <1>1, <2>1, <2>2 DEF TwoInv, LastDayNeverOn, NoGifts
  <1> QED
    BY <1>3, <1>4

\* The Overlord names a collection.
LEMMA TwoNamed ==
    ASSUME Before, TwoInv, NEW c \in CollectionId,
           SetSpiritCollectionId(c) \/ SetOriginOfShellCollectionId(c)
    PROVE  TwoInv'
  <1>1. /\ TypeOK
        /\ UNCHANGED <<items, inventory, preorders>>
    BY DEF Before, EscrowInv, SetSpiritCollectionId, SetOriginOfShellCollectionId
  <1>2. /\ NothingToGive' <=> NothingToGive
        /\ \A a : OpenPreorders(a)' = OpenPreorders(a)
    BY <1>1 DEF NothingToGive, OpenPreorders
  <1>3. CASE SetSpiritCollectionId(c)
    <2>1. spiritCollectionId = None /\ UNCHANGED originOfShellCollectionId
      BY <1>3 DEF SetSpiritCollectionId
    <2>2. \A a : Shells(a)' = Shells(a)
      BY <1>1, <2>1 DEF Shells, OwnedInCollection
    <2> QED
      BY <1>2, <2>1, <2>2 DEF TwoInv, LastDayNeverOn, NoGifts
  <1>4. CASE SetOriginOfShellCollectionId(c)
    <2>1. /\ originOfShellCollectionId = None
          /\ originOfShellCollectionId' = c
          /\ UNCHANGED spiritCollectionId
          /\ c # None
      BY <1>4, AssumptionsHold DEF SetOriginOfShellCollectionId, Assumptions, CollectionId
    <2>2. ASSUME c # spiritCollectionId, NEW a PROVE Shells(a)' = {}
      <3>1. items[c] = << >>
        BY <2>1, <2>2 DEF Before, SpiritInv, OnlyNamedMinted
      <3> QED
        BY <1>1, <2>1, <3>1 DEF Shells, OwnedInCollection
    <2>3. ASSUME LastDayNeverOn, c # spiritCollectionId, NEW a
          PROVE  Cardinality(Shells(a)') + Cardinality(OpenPreorders(a)') <= 2
      <3>1. Cardinality(Shells(a)') = 0
        BY <2>2, <2>3, FS_EmptySet
      <3>2. Cardinality(OpenPreorders(a)) <= 1 /\ Cardinality(OpenPreorders(a)) \in Nat
        BY <2>3, AtMostOne, NumberFacts DEF Before
      <3> QED
        BY <1>2, <3>1, <3>2
    <2> QED
      BY <1>2, <2>1, <2>3 DEF TwoInv, LastDayNeverOn, NoGifts
  <1> QED
    BY <1>3, <1>4

\* The inventory is initialised, or restocked.
LEMMA NoneToGive ==
    ASSUME TypeOK, NoGifts, NothingToGive,
           InitRarityTypeCounts \/ \E counts \in UpdateCounts : UpdateRarityTypeCounts(counts)
    PROVE  NothingToGive'
  <1>1. CASE InitRarityTypeCounts
    BY <1>1
    DEF InitRarityTypeCounts, InitialInventory, NoGifts, NothingToGive, StockKey
  <1>2. ASSUME NEW counts \in UpdateCounts, UpdateRarityTypeCounts(counts)
        PROVE  NothingToGive'
    <2>1. ASSUME NEW k \in StockKey, inventory'[k] # None
          PROVE  /\ inventory'[k].left["Giveaway"] = 0
                 /\ inventory'[k].left["Reserved"] = 0
      <3>1. \/ inventory'[k] = inventory[k]
            \/ inventory'[k] = Restocked(inventory[k], counts)
        BY <1>2 DEF UpdateRarityTypeCounts
      <3>2. inventory[k] # None /\ inventory[k] \in NftSaleInfo
        BY <2>1, <3>1 DEF Restocked, TypeOK
      <3>3. inventory[k].left["Giveaway"] = 0 /\ inventory[k].left["Reserved"] = 0
        BY <3>2 DEF NothingToGive
      <3>4. counts.giveaway = 0 /\ SaturatingAdd(0, 0) = 0
        BY AssumptionsHold DEF NoGifts, SaturatingAdd, Assumptions
      <3>5. /\ Restocked(inventory[k], counts).left["Giveaway"] = 0
            /\ Restocked(inventory[k], counts).left["Reserved"] = 0
        BY <3>2, <3>3, <3>4 DEF Restocked, NftSaleInfo, NftSaleType
      <3> QED
        BY <3>1, <3>3, <3>5
    <2> QED
      BY <2>1 DEF NothingToGive
  <1> QED
    BY <1>1, <1>2

LEMMA TwoNext == Before /\ TwoInv /\ [Next]_vars /\ OneInv' /\ TypeOK' => TwoInv'
  <1> SUFFICES ASSUME Before, TwoInv, [Next]_vars, OneInv', TypeOK' PROVE TwoInv'
    OBVIOUS
  <1> DEFINE c == originOfShellCollectionId
  <1>1. TypeOK
    BY DEF Before, EscrowInv
  <1>2. ASSUME UNCHANGED <<preorders, originOfShellCollectionId, spiritCollectionId>>,
               NoGifts /\ NothingToGive => NothingToGive',
               c \notin {None, spiritCollectionId} => items'[c] = items[c]
        PROVE  TwoInv'
    BY <1>1, <1>2, TwoFewer DEF Shells, OwnedInCollection, OpenPreorders
  <1>3. ASSUME UNCHANGED inventory PROVE NoGifts /\ NothingToGive => NothingToGive'
    BY <1>3 DEF NothingToGive
  <1>4. ASSUME NEW a \in Account, UserCall(a) PROVE TwoInv'
    <2>1. CASE DoMintSpirit(a)
      BY <1>1, <1>2, <1>3, <2>1 DEF DoMintSpirit, TypeOK, RmrkTypeOK
    <2>2. CASE \E rarity \in RarityType, race \in RaceType, career \in CareerType :
                 \/ BuyRareOriginOfShell(a, rarity, race, career)
                 \/ BuyPrimeOriginOfShell(a, race, career)
      BY <2>2, TwoBuy DEF BuyRareOriginOfShell, BuyPrimeOriginOfShell, RarityType
    <2>3. CASE \E race \in RaceType, career \in CareerType :
                 PreorderOriginOfShell(a, race, career)
      BY <2>3, TwoPreorder
    <2> QED
      BY <1>4, <2>1, <2>2, <2>3 DEF UserCall, ClaimSpirit, RedeemSpirit, RarityType
  <1>5. ASSUME NEW a \in Account, NEW rarity \in RarityType, NEW race \in RaceType,
               NEW career \in CareerType, NEW saleType \in NftSaleType,
               MintGiftOriginOfShell(a, rarity, race, career, saleType)
        PROVE  TwoInv'
    <2>1. LastDayNeverOn /\ NoGifts => FALSE
      BY <1>5
      DEF TwoInv, NothingToGive, MintGiftOriginOfShell, DoMintShell, MayMintShell, HasRaceTypeLeft,
          NftSaleType, StockKey
    <2> QED
      BY <2>1 DEF TwoInv, LastDayNeverOn, NoGifts
  <1>6. CASE InitRarityTypeCounts \/ \E counts \in UpdateCounts : UpdateRarityTypeCounts(counts)
    <2>1. NoGifts /\ NothingToGive => NothingToGive'
      BY <1>1, <1>6, NoneToGive
    <2> QED
      BY <1>2, <1>6, <2>1 DEF InitRarityTypeCounts, UpdateRarityTypeCounts
  <1>7. CASE \E d \in CollectionId :
               SetSpiritCollectionId(d) \/ SetOriginOfShellCollectionId(d)
    BY <1>7, TwoNamed
  <1>8. CASE AdminCall
    BY <1>2, <1>3, <1>5, <1>6, <1>7, <1>8
    DEF AdminCall, SetStatusType, PwCreateCollection, CreateCollection,
        SetSpiritsMetadata, SetOriginOfShellsMetadata, SetOverlord
  <1>9. CASE Outside
    <2>1. ASSUME NEW a \in Burners, NEW d \in CollectionId, NEW i \in DOMAIN items[d],
                 BurnNft(a, d, i)
          PROVE  TwoInv'
      <3>1. UNCHANGED <<preorders, inventory, originOfShellCollectionId, spiritCollectionId>>
        BY <1>9 DEF Outside, BalanceTransfer, BurnNft
      <3>2. ASSUME c \notin {None, spiritCollectionId}, NEW b \in Account
            PROVE  Shells(b)' \subseteq Shells(b)
        <4>1. c \in CollectionId /\ items[d] \in Seq(Item) /\ items[d][i] \in Item
          BY <1>1, <2>1, <3>2 DEF TypeOK, RmrkTypeOK
        <4>2. [items[d][i] EXCEPT !.owner = None].owner = None
          BY <4>1 DEF Item
        <4>3. /\ DOMAIN items'[c] = DOMAIN items[c]
              /\ \A j \in DOMAIN items[c] :
                    items'[c][j].owner \in {items[c][j].owner, None}
          BY <1>1, <2>1, <4>1, <4>2 DEF BurnNft, TypeOK, RmrkTypeOK
        <4> QED
          BY <3>1, <4>3, AssumptionsHold DEF Shells, OwnedInCollection, Assumptions
      <3> QED
        BY <1>1, <1>3, <3>1, <3>2, TwoFewer DEF OpenPreorders
    <2>2. CASE UNCHANGED items
      BY <1>2, <1>3, <1>9, <2>2 DEF Outside
    <2> QED
      BY <1>9, <2>1, <2>2 DEF Outside, CreateCollection
  <1>10. CASE UNCHANGED vars
    BY <1>2, <1>3, <1>10 DEF vars
  <1> QED
    BY <1>4, <1>8, <1>9, <1>10, TwoSettle DEF Next, SettlementCall

\* While no call switches the last day on, and no shell is to give away, no
\* order of purchases, preorders, settlements and burns gets an account more
\* than two shells, open preorders counted as shells.
THEOREM TwoShellsCorrect == Spec => []TwoShellsAtMostBeforeLastDay
  <1> DEFINE Inv == Before /\ TwoInv
  <1>1. Init => Inv
    <2>1. Init => EscrowInv /\ OneInv /\ SpiritInv
      BY InitType, EscrowInit, AssumptionsHold
      DEF Init, RmrkInit, EscrowInv, OneInv, LastDayNeverOn, LastDayOfSale, HasOpenPreorder,
          SpiritInv, OnlyNamedMinted, OneSpiritEach, OwnedInCollection, GenesisConfig,
          Assumptions
    <2>2. Init => TwoInv
      <3> SUFFICES ASSUME Init PROVE TwoInv
        OBVIOUS
      <3>1. NothingToGive
        BY DEF Init, NothingToGive
      <3>2. ASSUME originOfShellCollectionId # None, NEW a \in Account
            PROVE  Shells(a) = {} /\ OpenPreorders(a) = {}
        BY <3>2, AssumptionsHold
        DEF Init, RmrkInit, Shells, OwnedInCollection, OpenPreorders, GenesisConfig, Assumptions
      <3> QED
        BY <3>1, <3>2, FS_EmptySet DEF TwoInv
    <2> QED
      BY <2>1, <2>2 DEF Before
  <1>2. Inv /\ [Next]_vars => Inv'
    <2> SUFFICES ASSUME Inv, [Next]_vars PROVE Inv'
      OBVIOUS
    <2>1. EscrowInv' /\ OneInv' /\ SpiritInv'
      BY NextType, EscrowNext, OneNext, SpiritNext DEF Before, EscrowInv
    <2> QED
      BY <2>1, TwoNext DEF Before, EscrowInv
  <1>3. Inv => TwoShellsAtMostBeforeLastDay
    BY DEF TwoInv, TwoShellsAtMostBeforeLastDay, Shells
  <1> QED
    BY <1>1, <1>2, <1>3, PTL DEF Spec
-----------------------------------------------------------------------------
(* The sale implements Escrow.                                             *)

\* Every step is a step of Escrow or changes nothing of it.
EscrowStep == EscrowOfSale!Next \/ UNCHANGED <<free, PreorderOwner, preorderIndex>>

LEMMA OwnerOfOpen ==
    ASSUME TypeOK, NEW id \in PreorderId
    PROVE  /\ PreorderOwner[id] \in Account \cup {None}
           /\ \A a \in Account : PreorderOwner[id] = a <=> id \in OpenPreorders(a)
           /\ PreorderOwner[id] # None <=> preorders[id] # None
  <1>1. preorders[id] \in PreorderInfo \cup {None} /\ None \notin Account
    BY AssumptionsHold DEF TypeOK, Assumptions
  <1>2. PreorderOwner[id] = IF preorders[id] = None THEN None ELSE preorders[id].owner
    BY DEF PreorderOwner
  <1>3. CASE preorders[id] = None
    BY <1>1, <1>2, <1>3 DEF OpenPreorders
  <1>4. CASE preorders[id] # None
    <2>1. preorders[id].owner \in Account
      BY <1>1, <1>4 DEF PreorderInfo
    <2> QED
      BY <1>1, <1>2, <1>4, <2>1 DEF OpenPreorders
  <1> QED
    BY <1>3, <1>4

\* Escrow's counting is the counting of the sale.
LEMMA SameCardinality ==
    ASSUME NEW S PROVE EscrowOfSale!Cardinality(S) = Cardinality(S)
  BY DEF Cardinality, EscrowOfSale!Cardinality

\* A call that touches neither balances nor preorders.
LEMMA EscrowIdle ==
    ASSUME UNCHANGED <<free, preorders, preorderIndex>>
    PROVE  EscrowStep
  BY DEF EscrowStep, PreorderOwner

LEMMA EscrowTransfer ==
    ASSUME TypeOK, NEW from \in Account, NEW to \in Account, NEW v \in Nat,
           CanTransfer(from, to, v), free' = FreeAfterTransfer(from, to, v),
           UNCHANGED <<preorders, preorderIndex>>
    PROVE  EscrowStep
  <1>1. free \in [Account -> Nat]
    BY DEF TypeOK, BalancesTypeOK
  <1>2. UNCHANGED PreorderOwner
    BY DEF PreorderOwner
  <1>3. CASE from = to \/ v = 0
    <2>1. free' = free
      BY <1>1, <1>3 DEF FreeAfterTransfer
    <2> QED
      BY <2>1, EscrowIdle
  <1>4. CASE from # to /\ v # 0
    <2>1. v \in 0 .. free[from]
      BY <1>1, <1>4 DEF CanTransfer
    <2>2. EscrowOfSale!Pay(from, to, v)
      BY <1>2, <1>4 DEF FreeAfterTransfer, EscrowOfSale!Pay
    <2> QED
      BY <2>1, <2>2 DEF EscrowStep, EscrowOfSale!Next
  <1> QED
    BY <1>3, <1>4

LEMMA EscrowShell ==
    ASSUME TypeOK, overlord # None, NEW to \in Account, NEW rarity, NEW race, NEW career,
           NEW price \in Nat, NEW t, NEW check,
           DoMintShell(to, rarity, race, career, price, t, check)
    PROVE  EscrowStep
  <1>1. overlord \in Account
    BY DEF TypeOK
  <1>2. /\ CanTransfer(to, overlord, price)
        /\ free' = FreeAfterTransfer(to, overlord, price)
        /\ UNCHANGED <<preorders, preorderIndex>>
    BY DEF DoMintShell, MayMintShell
  <1> QED
    BY <1>1, <1>2, EscrowTransfer

LEMMA EscrowDeposit ==
    ASSUME EscrowInv, NEW a \in Account, NEW race \in RaceType, NEW career \in CareerType,
           PreorderOriginOfShell(a, race, career)
    PROVE  EscrowOfSale!Deposit(a)
  <1> DEFINE info == [owner |-> a, race |-> race, career |-> career]
  <1>1. info # None
    BY AssumptionsHold DEF Assumptions, PreorderInfo
  <1>2. preorderIndex \in PreorderId /\ preorderIndex < U32Max
    BY AssumptionsHold
    DEF PreorderOriginOfShell, TakePreorderId, Assumptions, EscrowInv, TypeOK, PreorderId, U32
  <1>3. preorders' = [preorders EXCEPT ![preorderIndex] = info]
    BY DEF PreorderOriginOfShell
  <1>4. PreorderOwner' = [PreorderOwner EXCEPT ![preorderIndex] = a]
    BY <1>1, <1>2, <1>3 DEF PreorderOwner, EscrowInv, TypeOK
  <1>5. /\ preorderIndex' = preorderIndex + 1
        /\ free[a] >= PrimeOriginOfShellPrice
        /\ free' = [free EXCEPT ![a] = @ - PrimeOriginOfShellPrice]
    BY DEF PreorderOriginOfShell, TakePreorderId, Reserve, CanReserve
  <1> QED
    BY <1>2, <1>4, <1>5 DEF EscrowOfSale!Deposit

\* What both settlements do to the deposits.
LEMMA EscrowClose ==
    ASSUME TypeOK, NEW ids \in IdLists, CanTake(Batch(ids)), Settle(IdsOf(Batch(ids))),
           UNCHANGED preorderIndex
    PROVE  /\ IdsOf(Batch(ids)) \in SUBSET PreorderId
           /\ EscrowOfSale!Close(IdsOf(Batch(ids)))
  <1> DEFINE S == IdsOf(Batch(ids))
  <1>1. S \in SUBSET PreorderId
    BY BatchFacts
  <1>2. \A id \in S : PreorderOwner[id] # None
    BY <1>1, OwnerOfOpen DEF CanTake
  <1>3. PreorderOwner' = [id \in PreorderId |-> IF id \in S THEN None ELSE PreorderOwner[id]]
    BY <1>1 DEF Settle, PreorderOwner
  <1> QED
    BY <1>1, <1>2, <1>3 DEF EscrowOfSale!Close, EscrowOfSale!Id, PreorderId

\* unreserve frees the price of each of the account's preorders in S.
LEMMA ReleasedPrice ==
    ASSUME TypeOK, EscrowMatchesPreorders, NEW S \in SUBSET PreorderId, NEW a \in Account
    PROVE  Released(S, a) =
             PrimeOriginOfShellPrice * Cardinality({id \in S : PreorderOwner[id] = a})
  <1>1. {id \in S : PreorderOwner[id] = a} = S \cap OpenPreorders(a)
    BY OwnerOfOpen
  <1> QED
    BY <1>1, ReleasedInFull DEF NumberOf

LEMMA EscrowRefund ==
    ASSUME EscrowInv, NEW ids \in IdLists, RefundNotChosenPreorders(ids)
    PROVE  EscrowStep
  <1> DEFINE S == IdsOf(Batch(ids))
  <1>1. S \in SUBSET PreorderId /\ EscrowOfSale!Close(S)
    BY EscrowClose DEF RefundNotChosenPreorders, MayRefund, EscrowInv
  <1>2. free' = [a \in Account |-> free[a] + PrimeOriginOfShellPrice
                                    * Cardinality({id \in S : PreorderOwner[id] = a})]
    BY <1>1, ReleasedPrice DEF RefundNotChosenPreorders, EscrowInv
  <1>3. EscrowOfSale!Refund(S)
    BY <1>1, <1>2, SameCardinality DEF EscrowOfSale!Refund
  <1> QED
    BY <1>1, <1>3 DEF EscrowStep, EscrowOfSale!Next, EscrowOfSale!Id, PreorderId

LEMMA EscrowMint ==
    ASSUME EscrowInv, NEW ids \in IdLists, MintChosenPreorders(ids)
    PROVE  EscrowStep
  <1> DEFINE S == IdsOf(Batch(ids))
             p == PrimeOriginOfShellPrice
  <1>1. S \in SUBSET PreorderId /\ EscrowOfSale!Close(S)
    BY EscrowClose DEF MintChosenPreorders, MayMintChosen, EscrowInv
  <1>2. overlord \in Account
    BY DEF MintChosenPreorders, MayMintChosen, EscrowInv, TypeOK
  <1>3. free \in [Account -> Nat]
    BY DEF EscrowInv, TypeOK, BalancesTypeOK
  <1>4. ASSUME NEW a \in Account
        PROVE  FreeAfterSale(S, a) =
                  IF a = overlord THEN free[a] + p * Cardinality(S) ELSE free[a]
    <2>1. /\ NumberOf(S, a) \in Nat /\ Cardinality(S) \in Nat
          /\ NumberOf(S, a) <= Cardinality(S)
          /\ p \in Nat /\ free[a] \in Nat
      BY <1>1, <1>3, NumberFacts, AssumptionsHold DEF Assumptions
    <2>2. Released(S, a) = p * NumberOf(S, a)
      BY <1>1, ReleasedInFull DEF EscrowInv
    <2>3. p * NumberOf(S, a) \in Nat /\ p * Cardinality(S) \in Nat
      BY <2>1, ProductType
    <2>4. p * (Cardinality(S) - NumberOf(S, a)) = p * Cardinality(S) - p * NumberOf(S, a)
      BY <2>1, TimesDifference
    <2> QED
      BY <2>1, <2>2, <2>3, <2>4 DEF FreeAfterSale
  <1>5. free' = [free EXCEPT ![overlord] = @ + p * Cardinality(S)]
    <2>1. free' = [a \in Account |-> FreeAfterSale(S, a)]
      BY DEF MintChosenPreorders
    <2> QED
      BY <1>2, <1>3, <1>4, <2>1
  <1>6. EscrowOfSale!Spend(S, overlord)
    BY <1>1, <1>5, SameCardinality DEF EscrowOfSale!Spend
  <1> QED
    BY <1>1, <1>2, <1>6 DEF EscrowStep, EscrowOfSale!Next, EscrowOfSale!Id, PreorderId

LEMMA EscrowUser ==
    ASSUME EscrowInv, NEW a \in Account, UserCall(a)
    PROVE  EscrowStep
  <1> USE DEF EscrowInv
  <1>1. CASE ClaimSpirit(a) \/ RedeemSpirit(a)
    BY <1>1, EscrowIdle DEF ClaimSpirit, RedeemSpirit, DoMintSpirit
  <1>2. ASSUME NEW race \in RaceType, NEW career \in CareerType, NEW rarity \in RarityType,
               BuyRareOriginOfShell(a, rarity, race, career)
        PROVE  EscrowStep
    <2>1. RarePrice[rarity] \in Nat
      BY <1>2, AssumptionsHold DEF BuyRareOriginOfShell, RarePrice, Assumptions
    <2> QED
      BY <1>2, <2>1, EscrowShell DEF BuyRareOriginOfShell
  <1>3. ASSUME NEW race \in RaceType, NEW career \in CareerType,
               BuyPrimeOriginOfShell(a, race, career)
        PROVE  EscrowStep
    BY <1>3, EscrowShell, AssumptionsHold DEF BuyPrimeOriginOfShell, Assumptions
  <1>4. ASSUME NEW race \in RaceType, NEW career \in CareerType,
               PreorderOriginOfShell(a, race, career)
        PROVE  EscrowStep
    BY <1>4, EscrowDeposit DEF EscrowStep, EscrowOfSale!Next
  <1> QED
    BY <1>1, <1>2, <1>3, <1>4 DEF UserCall

LEMMA EscrowOthers ==
    ASSUME EscrowInv, AdminCall \/ Outside \/ UNCHANGED vars
    PROVE  EscrowStep
  <1> USE DEF EscrowInv
  <1>1. ASSUME NEW a \in Account, NEW rarity \in RarityType, NEW race \in RaceType,
               NEW career \in CareerType, NEW saleType \in NftSaleType,
               MintGiftOriginOfShell(a, rarity, race, career, saleType)
        PROVE  EscrowStep
    BY <1>1, EscrowShell DEF MintGiftOriginOfShell
  <1>2. ASSUME NEW from \in Account, NEW to \in Account, NEW v \in TransferAmounts,
               BalanceTransfer(from, to, v), UNCHANGED saleVars
        PROVE  EscrowStep
    BY <1>2, EscrowTransfer, AssumptionsHold DEF BalanceTransfer, Assumptions
  <1>3. CASE UNCHANGED <<free, preorders, preorderIndex>>
    BY <1>3, EscrowIdle
  <1> QED
    BY <1>1, <1>2, <1>3
    DEF AdminCall, SetStatusType, InitRarityTypeCounts, UpdateRarityTypeCounts,
        SetSpiritCollectionId, SetOriginOfShellCollectionId, PwCreateCollection,
        SetSpiritsMetadata, SetOriginOfShellsMetadata, SetOverlord, Outside,
        CreateCollection, BurnNft, vars

LEMMA EscrowKept == EscrowInv /\ [Next]_vars => EscrowStep
  <1> SUFFICES ASSUME EscrowInv, [Next]_vars PROVE EscrowStep
    OBVIOUS
  <1>1. CASE SettlementCall
    BY <1>1, EscrowRefund, EscrowMint DEF SettlementCall
  <1> QED
    BY <1>1, EscrowUser, EscrowOthers DEF Next

LEMMA EscrowStarts == Init => EscrowOfSale!Init
  BY DEF Init, BalancesInit, EscrowOfSale!Init, EscrowOfSale!Id, PreorderOwner, PreorderId

\* Every deposit comes to one end, refunded to the account that made it or spent
\* in favour of the Overlord of that moment, and nobody else's funds change: the
\* free balances and open preorders of the sale behave as Escrow says.
THEOREM EscrowImplemented == Spec => ImplementsEscrow
  <1>1. Init => EscrowOfSale!Init
    BY EscrowStarts
  <1>2. EscrowInv /\ [Next]_vars => [EscrowOfSale!Next]_(EscrowOfSale!vars)
    BY EscrowKept DEF EscrowStep, EscrowOfSale!vars
  <1>3. Init => EscrowInv
    BY InitType, EscrowInit DEF EscrowInv
  <1>4. EscrowInv /\ [Next]_vars => EscrowInv'
    BY NextType, EscrowNext DEF EscrowInv
  <1> QED
    BY <1>1, <1>2, <1>3, <1>4, PTL DEF Spec, ImplementsEscrow, EscrowOfSale!Spec
=============================================================================
