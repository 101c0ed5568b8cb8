------------------------------ MODULE NftSale -------------------------------
(***************************************************************************)
(* The sale of Phala World: the pallet pallets/phala-world/src/nft_sale.rs *)
(* without its clock. Users claim a Spirit, buy or preorder an Origin of   *)
(* Shell; the Overlord mints or refunds the preorders, gives shells away   *)
(* and administers the sale; the root origin appoints the Overlord.        *)
(*                                                                         *)
(* An extrinsic is one action: calls are executed one after the other, and *)
(* a call that fails is rolled back (#[transactional], or checks that      *)
(* precede the first write), so a failing call is no step. Between the     *)
(* calls users move funds, burn items and create collections of their own. *)
(***************************************************************************)
EXTENDS Rmrk, Balances

CONSTANTS
    MinBalanceToClaimSpirit,
    PrimeOriginOfShellPrice,
    MagicOriginOfShellPrice,
    LegendaryOriginOfShellPrice,
    IterLimit,            \* how many preorders one call settles at most
    InitialStock,         \* [RarityType -> [NftSaleType -> U32]], per race
    Genesis,              \* the GenesisConfig
    Tickets,              \* the messages an overlord ever signs off chain
    OverlordCandidates,   \* bound: whom the root origin appoints
    AdminStatus,          \* bound: the statuses the Overlord switches
    UpdateCounts,         \* bound: the arguments of update_rarity_type_counts
    MaxBatch              \* bound: the length of a list of preorder ids

VARIABLES
    overlord,                    \* Overlord
    status,                      \* those of CanClaimSpirits ... LastDayOfSale that are true
    spiritCollectionId,          \* SpiritCollectionId
    originOfShellCollectionId,   \* OriginOfShellCollectionId
    spiritsMetadata,             \* SpiritsMetadata is set
    originOfShellsMetadata,      \* the races OriginOfShellsMetadata holds
    inventorySet,                \* IsOriginOfShellsInventorySet
    inventory,                   \* OriginOfShellsInventory
    careerTypeCount,             \* CareerTypeCount
    preorderIndex,               \* PreorderIndex
    preorders,                   \* Preorders
    ownerHasPreorder             \* the accounts OwnerHasPreorder holds

setupVars == <<overlord, spiritCollectionId, originOfShellCollectionId,
               spiritsMetadata, originOfShellsMetadata, inventorySet>>
stockVars == <<inventory, careerTypeCount>>
preorderVars == <<preorderIndex, preorders, ownerHasPreorder>>
saleVars == <<setupVars, status, stockVars, preorderVars>>
vars == <<balancesVars, rmrkVars, saleVars>>

OverlordMessage == [signer : Account, account : Account, purpose : Purpose]

GenesisConfig ==
    [overlord : Account \cup {None}, status : SUBSET StatusType,
     spiritCollectionId : CollectionId \cup {None},
     originOfShellCollectionId : CollectionId \cup {None},
     inventorySet : BOOLEAN]

\* All the shells of a row of the inventory, whatever the kind of sale.
StockTotal(left) == left["ForSale"] + left["Giveaway"] + left["Reserved"]

ASSUME NftSaleAssumption ==
    /\ MinBalanceToClaimSpirit \in Nat
    /\ PrimeOriginOfShellPrice \in Nat \ {0}
    /\ MagicOriginOfShellPrice \in Nat \ {0}
    /\ LegendaryOriginOfShellPrice \in Nat \ {0}
    /\ IterLimit \in Nat
    /\ InitialStock \in [RarityType -> [NftSaleType -> U32]]
    /\ \A rarity \in RarityType : StockTotal(InitialStock[rarity]) <= U32Max
    /\ Genesis \in GenesisConfig
    /\ Tickets \subseteq OverlordMessage
    /\ OverlordCandidates \subseteq Account
    /\ AdminStatus \subseteq StatusType
    /\ UpdateCounts \subseteq [forSale : U32, giveaway : U32]
    /\ MaxBatch \in Nat

StockKey == RarityType \X RaceType

TypeOK ==
    /\ BalancesTypeOK
    /\ RmrkTypeOK
    /\ overlord \in Account \cup {None}
    /\ status \subseteq StatusType
    /\ spiritCollectionId \in CollectionId \cup {None}
    /\ originOfShellCollectionId \in CollectionId \cup {None}
    /\ spiritsMetadata \in BOOLEAN
    /\ originOfShellsMetadata \subseteq RaceType
    /\ inventorySet \in BOOLEAN
    /\ inventory \in [StockKey -> NftSaleInfo \cup {None}]
    /\ careerTypeCount \in [CareerType -> U32]
    /\ preorderIndex \in U32
    /\ preorders \in [PreorderId -> PreorderInfo \cup {None}]
    /\ ownerHasPreorder \subseteq Account

\* The genesis block: what GenesisConfig puts, every other item empty.
Init ==
    /\ BalancesInit
    /\ RmrkInit
    /\ overlord = Genesis.overlord
    /\ status = Genesis.status
    /\ spiritCollectionId = Genesis.spiritCollectionId
    /\ originOfShellCollectionId = Genesis.originOfShellCollectionId
    /\ spiritsMetadata = FALSE
    /\ originOfShellsMetadata = {}
    /\ inventorySet = Genesis.inventorySet
    /\ inventory = [k \in StockKey |-> None]
    /\ careerTypeCount = [c \in CareerType |-> 0]
    /\ preorderIndex = 0
    /\ preorders = [id \in PreorderId |-> None]
    /\ ownerHasPreorder = {}
-----------------------------------------------------------------------------
(* What the calls have in common.                                          *)

LastDayOfSale == "LastDayOfSale" \in status

OwnsSpirit(a) ==
    /\ spiritCollectionId # None
    /\ OwnedInCollection(a, spiritCollectionId) # {}

OwnsShell(a) == OwnedInCollection(a, originOfShellCollectionId) # {}

\* verify_claim: the signature is the Overlord's over this account and purpose.
VerifyClaim(sender, purpose) ==
    [signer |-> overlord, account |-> sender, purpose |-> purpose] \in Tickets

\* Mutant: does not look whether the sender has a Spirit already.
DoMintSpirit_NoOwnerCheck(sender) ==
    /\ spiritCollectionId # None
    /\ spiritsMetadata
    /\ CanMint(overlord, spiritCollectionId, 1)
    /\ items' = [items EXCEPT ![spiritCollectionId] =
                    Append(@, [owner |-> sender, attrs |-> None])]
    /\ UNCHANGED <<balancesVars, nextCollectionId, issuer, saleVars>>

\* do_mint_spirit_nft
DoMintSpirit(sender) ==
    /\ spiritCollectionId # None
    /\ ~OwnsSpirit(sender)
    /\ spiritsMetadata
    /\ CanMint(overlord, spiritCollectionId, 1)
    /\ items' = [items EXCEPT ![spiritCollectionId] =
                    Append(@, [owner |-> sender, attrs |-> None])]
    /\ UNCHANGED <<balancesVars, nextCollectionId, issuer, saleVars>>

\* has_race_type_left, for n mints in a row
HasRaceTypeLeft(key, saleType, n) ==
    /\ inventory[key] # None
    /\ inventory[key].left[saleType] >= n

\* Mutant: a batch counts the race once.
Sold_CountsOnce(row, saleType, n) ==
    [raceCount |-> Wrapped(row.raceCount + 1),
     left |-> [row.left EXCEPT ![saleType] = Wrapped(@ - n)]]

\* decrement_race_type_left and increment_race_type, n times
Sold(row, saleType, n) ==
    [raceCount |-> Wrapped(row.raceCount + n),
     left |-> [row.left EXCEPT ![saleType] = Wrapped(@ - n)]]

\* do_mint_origin_of_shell_nft: when it succeeds,
MayMintShell(to, rarity, race, price, saleType, checkOwned) ==
    /\ OwnsSpirit(to)
    /\ originOfShellCollectionId # None
    /\ checkOwned => ~OwnsShell(to)
    /\ race \in originOfShellsMetadata
    /\ HasRaceTypeLeft(<<rarity, race>>, saleType, 1)
    /\ CanTransfer(to, overlord, price)
    /\ CanMint(overlord, originOfShellCollectionId, 1)

\* and the whole of it.
DoMintShell(to, rarity, race, career, price, saleType, checkOwned) ==
    /\ MayMintShell(to, rarity, race, price, saleType, checkOwned)
    /\ free' = FreeAfterTransfer(to, overlord, price)
    /\ items' = [items EXCEPT ![originOfShellCollectionId] =
                    Append(@, [owner |-> to,
                               attrs |-> [rarity |-> rarity, race |-> race,
                                          career |-> career]])]
    /\ inventory' = [inventory EXCEPT ![<<rarity, race>>] = Sold(@, saleType, 1)]
    /\ careerTypeCount' = [careerTypeCount EXCEPT ![career] = Wrapped(@ + 1)]
    /\ UNCHANGED <<reserved, nextCollectionId, issuer, setupVars, status,
                   preorderVars>>
-----------------------------------------------------------------------------
(* Calls of the users.                                                     *)

ClaimSpirit(sender) ==
    /\ "ClaimSpirits" \in status
    /\ overlord # None
    /\ CanReserve(sender, MinBalanceToClaimSpirit)
    /\ DoMintSpirit(sender)

RedeemSpirit(sender) ==
    /\ "ClaimSpirits" \in status
    /\ overlord # None
    /\ VerifyClaim(sender, "RedeemSpirit")
    /\ DoMintSpirit(sender)

\* Mutant: the two prices are mixed up.
RarePrice_Swapped == [Legendary |-> MagicOriginOfShellPrice,
                      Magic |-> LegendaryOriginOfShellPrice]

RarePrice == [Legendary |-> LegendaryOriginOfShellPrice,
              Magic |-> MagicOriginOfShellPrice]

BuyRareOriginOfShell(sender, rarity, race, career) ==
    /\ "PurchaseRareOriginOfShells" \in status
    /\ overlord # None
    /\ rarity \in {"Legendary", "Magic"}
    /\ DoMintShell(sender, rarity, race, career, RarePrice[rarity], "ForSale",
                   ~LastDayOfSale)

BuyPrimeOriginOfShell(sender, race, career) ==
    /\ "PurchasePrimeOriginOfShells" \in status
    /\ overlord # None
    /\ VerifyClaim(sender, "BuyPrimeOriginOfShells") \/ LastDayOfSale
    /\ DoMintShell(sender, "Prime", race, career, PrimeOriginOfShellPrice,
                   "ForSale", ~LastDayOfSale)

\* Mutant: does not look whether the sender has a shell already.
MayPreorder_OwnsShell(sender) ==
    /\ \/ LastDayOfSale
       \/ "PreorderOriginOfShells" \in status /\ sender \notin ownerHasPreorder
    /\ OwnsSpirit(sender)
    /\ originOfShellCollectionId # None

\* Before the last day an account preorders once, and only while it has no
\* shell; on the last day any owner of a Spirit does.
MayPreorder(sender) ==
    /\ \/ LastDayOfSale
       \/ "PreorderOriginOfShells" \in status /\ sender \notin ownerHasPreorder
    /\ OwnsSpirit(sender)
    /\ originOfShellCollectionId # None
    /\ LastDayOfSale \/ ~OwnsShell(sender)

\* Mutant: the index wraps around.
TakePreorderId_Wraps ==
    preorderIndex' = (preorderIndex + 1) % U32Max

\* The id of the preorder is the index, which stops at the largest u32.
TakePreorderId ==
    /\ preorderIndex # U32Max
    /\ preorderIndex' = preorderIndex + 1

PreorderOriginOfShell(sender, race, career) ==
    /\ MayPreorder(sender)
    /\ TakePreorderId
    /\ race \in originOfShellsMetadata
    /\ Reserve(sender, PrimeOriginOfShellPrice)
    /\ preorders' = [preorders EXCEPT ![preorderIndex] =
                        [owner |-> sender, race |-> race, career |-> career]]
    /\ ownerHasPreorder' = IF LastDayOfSale THEN ownerHasPreorder
                           ELSE ownerHasPreorder \cup {sender}
    /\ UNCHANGED <<rmrkVars, setupVars, status, stockVars>>
-----------------------------------------------------------------------------
(* Settling preorders. The loop over the list stops after IterLimit ids    *)
(* and fails, undoing the whole call, as soon as one of them fails; it is  *)
(* modelled by what a call that succeeds does. Its ids are all different:  *)
(* the second time an id comes up its preorder was already taken.          *)

OpenPreorders(a) == {id \in PreorderId : preorders[id] # None /\ preorders[id].owner = a}

\* The ids one call reaches.
Batch(ids) == SubSeq(ids, 1, IF Len(ids) < IterLimit THEN Len(ids) ELSE IterLimit)

IdsOf(batch) == {batch[i] : i \in DOMAIN batch}

\* Mutant: an id may come up twice.
CanTake_Twice(batch) ==
    \A id \in IdsOf(batch) : preorders[id] # None

CanTake(batch) ==
    /\ \A i, j \in DOMAIN batch : i # j => batch[i] # batch[j]
    /\ \A id \in IdsOf(batch) : preorders[id] # None

\* How many of the ids are preorders of account a, race r or career c.
NumberOf(S, a) == Cardinality(S \cap OpenPreorders(a))
NumberOfRace(S, r) == Cardinality({id \in S : preorders[id].race = r})
NumberOfCareer(S, c) == Cardinality({id \in S : preorders[id].career = c})

\* Mutant: each owner is released one price, however many preorders it has.
Released_Once(S, a) ==
    IF NumberOf(S, a) = 0 THEN 0 ELSE Unreserved(a, PrimeOriginOfShellPrice)

\* What unreserve returns to a when its preorders in S are settled.
Released(S, a) == Unreserved(a, PrimeOriginOfShellPrice * NumberOf(S, a))

\* Mutant: reads the preorders (get) where the code takes them.
Settle_NotTaken(S) ==
    /\ UNCHANGED preorders
    /\ reserved' = [a \in Account |-> reserved[a] - Released(S, a)]
    /\ ownerHasPreorder' = IF LastDayOfSale THEN ownerHasPreorder
                           ELSE ownerHasPreorder \ {preorders[id].owner : id \in S}

\* Mutant: forgets that the owners may preorder again.
Settle_FlagStays(S) ==
    /\ preorders' = [id \in PreorderId |-> IF id \in S THEN None ELSE preorders[id]]
    /\ reserved' = [a \in Account |-> reserved[a] - Released(S, a)]
    /\ UNCHANGED ownerHasPreorder

\* take, unreserve and the removal from OwnerHasPreorder, of every id in S.
Settle(S) ==
    /\ preorders' = [id \in PreorderId |-> IF id \in S THEN None ELSE preorders[id]]
    /\ reserved' = [a \in Account |-> reserved[a] - Released(S, a)]
    /\ ownerHasPreorder' = IF LastDayOfSale THEN ownerHasPreorder
                           ELSE ownerHasPreorder \ {preorders[id].owner : id \in S}

\* The winner a pays for its n shells of the batch S out of what was reserved.
CanPay(S, a) ==
    LET cost == PrimeOriginOfShellPrice * NumberOf(S, a)
    IN  \/ a = overlord
        \/ NumberOf(S, a) = 0
        \/ /\ free[a] + Released(S, a) >= cost
           /\ TotalBalance(a) - cost >= ExistentialDeposit
           /\ TotalBalance(overlord) + PrimeOriginOfShellPrice >= ExistentialDeposit

\* Mutant: the Overlord is credited for its own preorders too.
FreeAfterSale_PaysItself(S, a) ==
    free[a] + Released(S, a)
    + IF a = overlord
      THEN PrimeOriginOfShellPrice * Cardinality(S)
      ELSE -(PrimeOriginOfShellPrice * NumberOf(S, a))

\* The Overlord's own preorders are paid to itself, which moves nothing.
FreeAfterSale(S, a) ==
    free[a] + Released(S, a)
    + IF a = overlord
      THEN PrimeOriginOfShellPrice * (Cardinality(S) - NumberOf(S, a))
      ELSE -(PrimeOriginOfShellPrice * NumberOf(S, a))

\* mint_chosen_preorders: when it succeeds, and has something to do,
MayMintChosen(ids) ==
    LET batch == Batch(ids)
        S == IdsOf(batch)
    IN  /\ overlord # None
        /\ S # {}
        /\ CanTake(batch)
        /\ originOfShellCollectionId # None
        /\ \A id \in S : /\ OwnsSpirit(preorders[id].owner)
                         /\ preorders[id].race \in originOfShellsMetadata
        /\ \A r \in RaceType : NumberOfRace(S, r) > 0 =>
               HasRaceTypeLeft(<<"Prime", r>>, "ForSale", NumberOfRace(S, r))
        /\ \A a \in Account : CanPay(S, a)
        /\ CanMint(overlord, originOfShellCollectionId, Len(batch))

\* and what it does then.
MintChosenPreorders(ids) ==
    LET batch == Batch(ids)
        S == IdsOf(batch)
    IN  /\ MayMintChosen(ids)
        /\ Settle(S)
        /\ free' = [a \in Account |-> FreeAfterSale(S, a)]
        /\ items' = [items EXCEPT ![originOfShellCollectionId] = @ \o
               [i \in DOMAIN batch |->
                  [owner |-> preorders[batch[i]].owner,
                   attrs |-> [rarity |-> "Prime", race |-> preorders[batch[i]].race,
                              career |-> preorders[batch[i]].career]]]]
        /\ inventory' = [k \in StockKey |->
               IF k[1] = "Prime" /\ NumberOfRace(S, k[2]) > 0
               THEN Sold(inventory[k], "ForSale", NumberOfRace(S, k[2]))
               ELSE inventory[k]]
        /\ careerTypeCount' = [c \in CareerType |->
               Wrapped(careerTypeCount[c] + NumberOfCareer(S, c))]
        /\ UNCHANGED <<nextCollectionId, issuer, setupVars, status, preorderIndex>>

MayRefund(ids) ==
    /\ overlord # None
    /\ IdsOf(Batch(ids)) # {}
    /\ CanTake(Batch(ids))

RefundNotChosenPreorders(ids) ==
    LET S == IdsOf(Batch(ids))
    IN  /\ MayRefund(ids)
        /\ Settle(S)
        /\ free' = [a \in Account |-> free[a] + Released(S, a)]
        /\ UNCHANGED <<rmrkVars, setupVars, status, stockVars, preorderIndex>>
-----------------------------------------------------------------------------
(* Calls of the Overlord; the first one mints without a price.             *)

MintGiftOriginOfShell(owner, rarity, race, career, saleType) ==
    /\ overlord # None
    /\ saleType # "ForSale"
    /\ DoMintShell(owner, rarity, race, career, 0, saleType, FALSE)

SetStatusType(value, statusType) ==
    /\ overlord # None
    /\ status' = IF value THEN status \cup {statusType} ELSE status \ {statusType}
    /\ UNCHANGED <<balancesVars, rmrkVars, setupVars, stockVars, preorderVars>>

\* What set_initial_origin_of_shell_inventory puts, the same for every race.
InitialInventory == [k \in StockKey |-> [raceCount |-> 0, left |-> InitialStock[k[1]]]]

\* Mutant: the inventory can be initialised again.
InitRarityTypeCounts_Again ==
    /\ overlord # None
    /\ inventorySet' = TRUE
    /\ inventory' = InitialInventory
    /\ UNCHANGED <<balancesVars, rmrkVars, overlord, spiritCollectionId,
                   originOfShellCollectionId, spiritsMetadata,
                   originOfShellsMetadata, status, careerTypeCount, preorderVars>>

InitRarityTypeCounts ==
    /\ overlord # None
    /\ ~inventorySet
    /\ inventorySet' = TRUE
    /\ inventory' = InitialInventory
    /\ UNCHANGED <<balancesVars, rmrkVars, overlord, spiritCollectionId,
                   originOfShellCollectionId, spiritsMetadata,
                   originOfShellsMetadata, status, careerTypeCount, preorderVars>>

\* update_nft_sale_info
Restocked(row, counts) ==
    IF row = None THEN None
    ELSE [row EXCEPT !.left["ForSale"] = SaturatingAdd(@, counts.forSale),
                     !.left["Giveaway"] = SaturatingAdd(@, counts.giveaway)]

\* Mutant: restocks every rarity.
UpdateRarityTypeCounts_AnyRarity(counts) ==
    /\ overlord # None
    /\ inventory' = [k \in StockKey |-> Restocked(inventory[k], counts)]
    /\ UNCHANGED <<balancesVars, rmrkVars, setupVars, status, careerTypeCount,
                   preorderVars>>

UpdateRarityTypeCounts(counts) ==
    /\ overlord # None
    /\ inventory' = [k \in StockKey |->
           IF k[1] = "Prime" THEN Restocked(inventory[k], counts) ELSE inventory[k]]
    /\ UNCHANGED <<balancesVars, rmrkVars, setupVars, status, careerTypeCount,
                   preorderVars>>

SetSpiritCollectionId(c) ==
    /\ overlord # None
    /\ spiritCollectionId = None
    /\ spiritCollectionId' = c
    /\ UNCHANGED <<balancesVars, rmrkVars, overlord, originOfShellCollectionId,
                   spiritsMetadata, originOfShellsMetadata, inventorySet,
                   status, stockVars, preorderVars>>

\* Mutant: the collection can be named again.
SetOriginOfShellCollectionId_Again(c) ==
    /\ overlord # None
    /\ originOfShellCollectionId' = c
    /\ UNCHANGED <<balancesVars, rmrkVars, overlord, spiritCollectionId,
                   spiritsMetadata, originOfShellsMetadata, inventorySet,
                   status, stockVars, preorderVars>>

SetOriginOfShellCollectionId(c) ==
    /\ overlord # None
    /\ originOfShellCollectionId = None
    /\ originOfShellCollectionId' = c
    /\ UNCHANGED <<balancesVars, rmrkVars, overlord, spiritCollectionId,
                   spiritsMetadata, originOfShellsMetadata, inventorySet,
                   status, stockVars, preorderVars>>

PwCreateCollection ==
    /\ overlord # None
    /\ CreateCollection(overlord)
    /\ UNCHANGED <<balancesVars, saleVars>>

SetSpiritsMetadata ==
    /\ overlord # None
    /\ spiritsMetadata' = TRUE
    /\ UNCHANGED <<balancesVars, rmrkVars, overlord, spiritCollectionId,
                   originOfShellCollectionId, originOfShellsMetadata,
                   inventorySet, status, stockVars, preorderVars>>

SetOriginOfShellsMetadata(races) ==
    /\ overlord # None
    /\ originOfShellsMetadata' = originOfShellsMetadata \cup races
    /\ UNCHANGED <<balancesVars, rmrkVars, overlord, spiritCollectionId,
                   originOfShellCollectionId, spiritsMetadata, inventorySet,
                   status, stockVars, preorderVars>>

\* By the GovernanceOrigin.
SetOverlord(newOverlord) ==
    /\ overlord' = newOverlord
    /\ UNCHANGED <<balancesVars, rmrkVars, spiritCollectionId,
                   originOfShellCollectionId, spiritsMetadata,
                   originOfShellsMetadata, inventorySet, status, stockVars,
                   preorderVars>>
-----------------------------------------------------------------------------
\* The lists of ids the Overlord calls with.
IdLists == UNION {[1 .. n -> 0 .. (preorderIndex - 1)] : n \in 0 .. MaxBatch}

UserCall(a) ==
    \/ ClaimSpirit(a)
    \/ RedeemSpirit(a)
    \/ \E race \in RaceType, career \in CareerType :
          \/ \E rarity \in RarityType : BuyRareOriginOfShell(a, rarity, race, career)
          \/ BuyPrimeOriginOfShell(a, race, career)
          \/ PreorderOriginOfShell(a, race, career)

SettlementCall ==
    \E ids \in IdLists : \/ MintChosenPreorders(ids)
                         \/ RefundNotChosenPreorders(ids)

AdminCall ==
    \/ \E a \in Account, rarity \in RarityType, race \in RaceType,
          career \in CareerType, saleType \in NftSaleType :
             MintGiftOriginOfShell(a, rarity, race, career, saleType)
    \/ \E value \in BOOLEAN, s \in AdminStatus : SetStatusType(value, s)
    \/ InitRarityTypeCounts
    \/ \E counts \in UpdateCounts : UpdateRarityTypeCounts(counts)
    \/ \E c \in CollectionId : \/ SetSpiritCollectionId(c)
                               \/ SetOriginOfShellCollectionId(c)
    \/ PwCreateCollection
    \/ SetSpiritsMetadata
    \/ \E races \in SUBSET RaceType : SetOriginOfShellsMetadata(races)
    \/ \E a \in OverlordCandidates : SetOverlord(a)

\* What happens outside the pallet.
Outside ==
    \/ /\ \/ \E a \in CollectionCreators : CreateCollection(a)
          \/ \E a \in Burners, c \in CollectionId :
                \E i \in DOMAIN items[c] : BurnNft(a, c, i)
       /\ UNCHANGED <<balancesVars, saleVars>>
    \/ /\ \E from, to \in Account, v \in TransferAmounts : BalanceTransfer(from, to, v)
       /\ UNCHANGED <<rmrkVars, saleVars>>

Next ==
    \/ \E a \in Account : UserCall(a)
    \/ SettlementCall
    \/ AdminCall
    \/ Outside

Spec == Init /\ [][Next]_vars
-----------------------------------------------------------------------------
(* Correctness. TypeOK is above; the widths in it are the u32 of storage.  *)

\* Every account's reserved balance is exactly the price of its open
\* preorders: no preorder is ever without the funds that pay or refund it (so
\* the result of unreserve may be ignored, as the code does), and nothing
\* stays reserved once the preorders are settled.
EscrowMatchesPreorders ==
    \A a \in Account :
        reserved[a] = PrimeOriginOfShellPrice * Cardinality(OpenPreorders(a))

\* No call creates or destroys funds: as many units of balance, each named by
\* its holder and a number, are held by all accounts together as at genesis.
Units(balance) == UNION {{a} \X (1 .. balance[a]) : a \in Account}

FundsConserved ==
    Cardinality(Units([a \in Account |-> TotalBalance(a)])) = Cardinality(Units(InitialFree))

\* The ids the index has not reached have no preorder.
UnusedIdsEmpty ==
    \A id \in PreorderId : id >= preorderIndex => preorders[id] = None

\* No Magic or Legendary shell is ever minted beyond the initial inventory:
\* what was minted and what is left of each kind always add up to it.
RareSupplyCapped ==
    \A rarity \in {"Magic", "Legendary"}, race \in RaceType :
        LET row == inventory[<<rarity, race>>]
        IN  row # None =>
              row.raceCount + StockTotal(row.left) = StockTotal(InitialStock[rarity])

\* race_count and CareerTypeCount agree with the shells that exist: each shell
\* ever minted, burned ones included, was counted once, under the attributes
\* it carries.
MintedWith(Match(_)) ==
    IF originOfShellCollectionId = None THEN {}
    ELSE {i \in DOMAIN items[originOfShellCollectionId] :
             LET attrs == items[originOfShellCollectionId][i].attrs
             IN  attrs # None /\ Match(attrs)}

CountersMatchMints ==
    /\ \A k \in StockKey : inventory[k] # None =>
          LET OfKey(attrs) == attrs.rarity = k[1] /\ attrs.race = k[2]
          IN  inventory[k].raceCount = Cardinality(MintedWith(OfKey))
    /\ \A c \in CareerType :
          LET OfCareer(attrs) == attrs.career = c
          IN  careerTypeCount[c] = Cardinality(MintedWith(OfCareer))

\* An account owns at most one live Spirit, whichever ways it got them (claim,
\* ticket, again after burning one); provided the Overlord did not name one
\* collection for both kinds of NFT, which the code does not check.
OneSpiritEach ==
    spiritCollectionId \notin {None, originOfShellCollectionId} =>
        \A a \in Account : \A i, j \in OwnedInCollection(a, spiritCollectionId) : i = j

\* As long as the last day of sale was never switched on, the accounts flagged
\* in OwnerHasPreorder are exactly those with an open preorder, and no account
\* has two. (On the last day flag and preorders part for good.)
LastDayNeverOn == "LastDayOfSale" \notin AdminStatus \cup Genesis.status

OnePreorderEachBeforeLastDay ==
    LastDayNeverOn =>
        \A a \in Account :
            /\ a \in ownerHasPreorder <=> OpenPreorders(a) # {}
            /\ Cardinality(OpenPreorders(a)) <= 1

\* Before the last day, and with no shells to give away, an account comes to at
\* most two shells: it can buy one while its only preorder is open, and
\* neither buy nor preorder once it owns one.
NoGifts ==
    /\ \A rarity \in RarityType, t \in {"Giveaway", "Reserved"} :
           InitialStock[rarity][t] = 0
    /\ \A counts \in UpdateCounts : counts.giveaway = 0

TwoShellsAtMostBeforeLastDay ==
    LastDayNeverOn /\ NoGifts /\ originOfShellCollectionId \notin {None, spiritCollectionId} =>
        \A a \in Account : Cardinality(OwnedInCollection(a, originOfShellCollectionId))
                             + Cardinality(OpenPreorders(a)) <= 2

\* The shells account a has got from this step.
ShellsGained(a) ==
    IF originOfShellCollectionId = None THEN {}
    ELSE OwnedInCollection(a, originOfShellCollectionId)'
             \ OwnedInCollection(a, originOfShellCollectionId)

\* A call that settles preorders gives every account other than the Overlord,
\* for each of its preorders that disappear, either one shell or the price
\* back into its free balance, and touches no other account: one owner's
\* preorder is never paid with another's funds, whatever the batch holds.
PreorderSettlement ==
    [][preorderIndex' = preorderIndex /\ preorders' # preorders =>
          \A a \in Account \ {overlord} :
              free'[a] - free[a]
                  + PrimeOriginOfShellPrice * Cardinality(ShellsGained(a))
              = PrimeOriginOfShellPrice
                  * Cardinality(OpenPreorders(a) \ OpenPreorders(a)')]_vars

\* Whoever gets a shell that is for sale has paid the price of its rarity for
\* it, by whichever call, and a giveaway or reserved one costs nothing.
Price == [Prime |-> PrimeOriginOfShellPrice, Magic |-> MagicOriginOfShellPrice,
          Legendary |-> LegendaryOriginOfShellPrice]

ForSaleTaken(k) == inventory'[k].left["ForSale"] < inventory[k].left["ForSale"]

ShellsArePaidFor ==
    [][\A a \in Account \ {overlord} : \A i \in ShellsGained(a) :
          LET attrs == items'[originOfShellCollectionId][i].attrs
          IN  attrs # None =>
                TotalBalance(a) - TotalBalance(a)' =
                   IF ForSaleTaken(<<attrs.rarity, attrs.race>>)
                   THEN Price[attrs.rarity] * Cardinality(ShellsGained(a))
                   ELSE 0]_vars

\* A preorder id is never handed out twice, and a preorder is not altered
\* between its creation and its settlement.
PreorderIdsAreFresh ==
    [][\A id \in PreorderId :
          preorders'[id] \notin {preorders[id], None} =>
              preorders[id] = None /\ id >= preorderIndex /\ id < preorderIndex']_vars
-----------------------------------------------------------------------------
\* Preorders are deposits: whatever happens in the sale is, of the free
\* balances and the open preorders, a step of Escrow or none.
PreorderOwner ==
    [id \in PreorderId |-> IF preorders[id] = None THEN None ELSE preorders[id].owner]

EscrowOfSale == INSTANCE Escrow WITH
    Price <- PrimeOriginOfShellPrice, MaxId <- U32Max, Funds <- InitialFree,
    funds <- free, owner <- PreorderOwner, next <- preorderIndex

ImplementsEscrow == EscrowOfSale!Spec
=============================================================================
