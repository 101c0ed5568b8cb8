---------------------------- MODULE BatchRecall -----------------------------
(***************************************************************************)
(* The Overlord refunds the preorders of a list that is longer than        *)
(* IterLimit, and calls refund_not_chosen_preorders again with the same    *)
(* list, as the comment in its loop says (nft_sale.rs).                    *)
(***************************************************************************)
EXTENDS NftSale

VARIABLE lastList   \* the list of the last call, empty before the first

recallVars == <<vars, lastList>>

RecallInit == Init /\ lastList = << >>

\* Any step of the sale but a settlement, or a refund that is remembered.
RecallNext ==
    \/ /\ (\E a \in Account : UserCall(a)) \/ AdminCall
       /\ UNCHANGED lastList
    \/ \E ids \in IdLists : RefundNotChosenPreorders(ids) /\ lastList' = ids

RecallSpec == RecallInit /\ [][RecallNext]_recallVars

\* The part of the last list its call did not reach.
Rest == SubSeq(lastList, IterLimit + 1, Len(lastList))

\* After a call that stopped at IterLimit, the same call again starts where it
\* left off: while the preorders it did not reach can be refunded, it succeeds.
RecallContinues == Rest # << >> /\ CanTake(Rest) => CanTake(Batch(lastList))
=============================================================================
