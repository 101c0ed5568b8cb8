---------------------------- MODULE StatusEvents ----------------------------
(***************************************************************************)
(* What the statuses of the sale look like to somebody who follows the     *)
(* events of the pallet: set_status_type writes one of five flags and      *)
(* announces it (pallets/phala-world/src/nft_sale.rs).                     *)
(***************************************************************************)
EXTENDS Traits

VARIABLES
    status,      \* the statuses that are on in storage
    announced    \* those that are on according to the events so far

vars == <<status, announced>>

\* The status an event of each setter speaks of. The setter of the last day of
\* the sale deposits the event of the preorders.
Announces(statusType) ==
    IF statusType = "LastDayOfSale" THEN "PreorderOriginOfShells" ELSE statusType

Switched(on, statusType, value) ==
    IF value THEN on \cup {statusType} ELSE on \ {statusType}

Init ==
    /\ status \in SUBSET StatusType
    /\ announced = status

SetStatusType(value, statusType) ==
    /\ status' = Switched(status, statusType, value)
    /\ announced' = Switched(announced, Announces(statusType), value)

Next == \E value \in BOOLEAN, s \in StatusType : SetStatusType(value, s)

Spec == Init /\ [][Next]_vars

\* The events say what the storage holds: nft_sale.rs declares an event for
\* each status, LastDayOfSaleStatusChanged ("Last Day of Sale status has
\* changed") among them.
EventsTellStatus == announced = status
=============================================================================
