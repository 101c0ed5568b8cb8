----------------------------- MODULE BatchLoop ------------------------------
(***************************************************************************)
(* The loops of mint_chosen_preorders and refund_not_chosen_preorders, id  *)
(* by id: take the preorder, unreserve its price, mint the shell, clear    *)
(* the flag of its owner. The first error leaves the function, and         *)
(* #[transactional] undoes what the ids before it had changed: the call    *)
(* works on a layer over the storage, which becomes the storage when the   *)
(* call returns and is rolled back when it fails. NftSale has the whole    *)
(* call as one action, with one guard and one effect for all its ids; this *)
(* module has what the code does, and implements that one.                 *)
(*                                                                         *)
(* No other call runs while a loop does.                                   *)
(***************************************************************************)
EXTENDS NftSale

VARIABLES
    call,     \* the settlement that runs: its name and its list, or None
    pc,       \* where it is
    index,    \* how many ids it has settled
    taken,    \* preorder_info of the id it is at
    newFree, newReserved, newItems, newInventory,       \* the storage as the
    newCareerTypeCount, newPreorders, newHasPreorder    \* call that runs has it

loopVars == <<call, pc, index, taken>>

layer == <<newFree, newReserved, newItems, newInventory, newCareerTypeCount,
           newPreorders, newHasPreorder>>

allVars == <<vars, loopVars, layer>>

\* The storage the layer covers. No loop writes the rest of it.
storage == <<free, reserved, items, inventory, careerTypeCount, preorders,
             ownerHasPreorder>>

unwritten == <<nextCollectionId, issuer, setupVars, status, preorderIndex>>

\* What NftSale defines, of the storage as the call that runs has it.
Layer == INSTANCE NftSale WITH
    free <- newFree, reserved <- newReserved, items <- newItems,
    inventory <- newInventory, careerTypeCount <- newCareerTypeCount,
    preorders <- newPreorders, ownerHasPreorder <- newHasPreorder

NoCall ==
    /\ call = None
    /\ pc = "idle"
    /\ index = 0
    /\ taken = None
    /\ newFree = free
    /\ newReserved = reserved
    /\ newItems = items
    /\ newInventory = inventory
    /\ newCareerTypeCount = careerTypeCount
    /\ newPreorders = preorders
    /\ newHasPreorder = ownerHasPreorder

\* The layer holds no change to the storage.
ClearLayer ==
    /\ newFree' = free'
    /\ newReserved' = reserved'
    /\ newItems' = items'
    /\ newInventory' = inventory'
    /\ newCareerTypeCount' = careerTypeCount'
    /\ newPreorders' = preorders'
    /\ newHasPreorder' = ownerHasPreorder'

Begin(name, ids) ==
    /\ pc = "idle"
    /\ overlord # None
    /\ call' = [name |-> name, ids |-> ids]
    /\ pc' = "take"
    /\ UNCHANGED <<vars, index, taken, layer>>

\* Mutant: goes on after iter_limit ids.
MoreIds_NoLimit == index < Len(call.ids)

\* The loop has an id to settle and has not settled iter_limit of them.
MoreIds == index < Len(call.ids) /\ index < IterLimit

NextId == call.ids[index + 1]

\* Preorders::take and Currency::unreserve.
TakePreorder ==
    LET owner == newPreorders[NextId].owner
        released == Layer!Unreserved(owner, PrimeOriginOfShellPrice)
    IN  /\ pc = "take"
        /\ MoreIds
        /\ newPreorders[NextId] # None
        /\ taken' = newPreorders[NextId]
        /\ newPreorders' = [newPreorders EXCEPT ![NextId] = None]
        /\ newFree' = [newFree EXCEPT ![owner] = @ + released]
        /\ newReserved' = [newReserved EXCEPT ![owner] = @ - released]
        /\ pc' = IF call.name = "mint" THEN "mint" ELSE "flag"
        /\ UNCHANGED <<vars, newItems, newInventory, newCareerTypeCount,
                       newHasPreorder, call, index>>

MayMintTaken ==
    Layer!MayMintShell(taken.owner, "Prime", taken.race, PrimeOriginOfShellPrice,
                       "ForSale", FALSE)

MintTaken ==
    /\ pc = "mint"
    /\ Layer!DoMintShell(taken.owner, "Prime", taken.race, taken.career,
                         PrimeOriginOfShellPrice, "ForSale", FALSE)
    /\ pc' = "flag"
    /\ UNCHANGED <<storage, call, index, taken>>

ClearFlag ==
    /\ pc = "flag"
    /\ newHasPreorder' = IF LastDayOfSale THEN newHasPreorder
                         ELSE newHasPreorder \ {taken.owner}
    /\ index' = index + 1
    /\ taken' = None
    /\ pc' = "take"
    /\ UNCHANGED <<vars, newFree, newReserved, newItems, newInventory,
                   newCareerTypeCount, newPreorders, call>>

Refused ==
    \/ pc = "take" /\ MoreIds /\ newPreorders[NextId] = None
    \/ pc = "mint" /\ ~MayMintTaken

\* Mutant: an error leaves the loop without undoing what it did.
Fail_NoRollback ==
    /\ Refused
    /\ pc' = "failed"
    /\ taken' = None
    /\ UNCHANGED <<vars, layer, call, index>>

\* An error: the layer is rolled back.
Fail ==
    /\ Refused
    /\ pc' = "failed"
    /\ taken' = None
    /\ UNCHANGED <<vars, call, index>>
    /\ ClearLayer

\* The end of the list or of iter_limit, or an error that was returned: what
\* the layer holds becomes the storage.
Return ==
    /\ pc = "failed" \/ (pc = "take" /\ ~MoreIds)
    /\ free' = newFree
    /\ reserved' = newReserved
    /\ items' = newItems
    /\ inventory' = newInventory
    /\ careerTypeCount' = newCareerTypeCount
    /\ preorders' = newPreorders
    /\ ownerHasPreorder' = newHasPreorder
    /\ pc' = "idle"
    /\ call' = None
    /\ index' = 0
    /\ UNCHANGED <<unwritten, layer, taken>>

\* Any other call of the sale, and what happens outside it.
OtherCall ==
    /\ pc = "idle"
    /\ (\E a \in Account : UserCall(a)) \/ AdminCall \/ Outside
    /\ ClearLayer
    /\ UNCHANGED loopVars

LoopNext ==
    \/ \E name \in {"mint", "refund"}, ids \in IdLists : Begin(name, ids)
    \/ TakePreorder
    \/ MintTaken
    \/ ClearFlag
    \/ Fail
    \/ Return
    \/ OtherCall

LoopSpec == Init /\ NoCall /\ [][LoopNext]_allVars
-----------------------------------------------------------------------------
(* Correctness.                                                            *)

\* A call that goes through all its ids has, as a whole, the effect that
\* MintChosenPreorders or RefundNotChosenPreorders describes, and only when
\* their guards hold; one that fails has none. So all that is said of NftSale
\* is true of the loops, in which each id meets the balances, flags and stock
\* that the ids before it have left.
ImplementsSettlement == [][Next]_vars

\* The other direction: a call that failed somewhere in its list is one that
\* the guard of the whole call refuses, so that no settlement that the code
\* carries out is missing from NftSale, nor one that it refuses in it.
FailsOnlyIfRefused ==
    pc = "failed" =>
        ~(IF call.name = "mint" THEN MayMintChosen(call.ids) ELSE MayRefund(call.ids))
=============================================================================
