------------------------------ MODULE Balances ------------------------------
(***************************************************************************)
(* The Currency of the pallets: pallet_balances, which is not part of the  *)
(* repository. Only the operations the pallets call are here, and the      *)
(* keep-alive transfer between two accounts that any user can make beside  *)
(* them. Locks, fees and the reaping of dead accounts are left out.        *)
(***************************************************************************)
EXTENDS Traits

CONSTANTS
    ExistentialDeposit,   \* what a living account must hold in total
    InitialFree,          \* [Account -> Nat]: the balances at genesis
    TransferAmounts       \* bound: the amounts users transfer to each other

VARIABLES
    free,       \* [Account -> Nat]
    reserved    \* [Account -> Nat]

balancesVars == <<free, reserved>>

ASSUME BalancesAssumption ==
    /\ ExistentialDeposit \in Nat
    /\ InitialFree \in [Account -> Nat]
    /\ TransferAmounts \subseteq Nat

BalancesTypeOK ==
    /\ free \in [Account -> Nat]
    /\ reserved \in [Account -> Nat]

BalancesInit ==
    /\ free = InitialFree
    /\ reserved = [a \in Account |-> 0]

TotalBalance(a) == free[a] + reserved[a]

CanReserve(a, v) == free[a] >= v

Reserve(a, v) ==
    /\ CanReserve(a, v)
    /\ free' = [free EXCEPT ![a] = @ - v]
    /\ reserved' = [reserved EXCEPT ![a] = @ + v]

\* What unreserve(a, v) really frees: it never fails, and a shortfall is not
\* reported to the pallet, which ignores the result.
Unreserved(a, v) == IF reserved[a] < v THEN reserved[a] ELSE v

\* transfer(from, to, v, KeepAlive) succeeds.
CanTransfer(from, to, v) ==
    \/ v = 0
    \/ from = to
    \/ /\ free[from] >= v
       /\ TotalBalance(from) - v >= ExistentialDeposit
       /\ TotalBalance(to) + v >= ExistentialDeposit

\* The free balances once v went from one account to another; a transfer to
\* oneself changes nothing.
FreeAfterTransfer(from, to, v) ==
    IF from = to THEN free
    ELSE [free EXCEPT ![from] = @ - v, ![to] = @ + v]

\* A user's own transfer_keep_alive, between the calls of the pallets.
BalanceTransfer(from, to, v) ==
    /\ from # to
    /\ CanTransfer(from, to, v)
    /\ free' = FreeAfterTransfer(from, to, v)
    /\ UNCHANGED reserved
=============================================================================
