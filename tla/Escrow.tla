------------------------------- MODULE Escrow -------------------------------
(***************************************************************************)
(* What the preorders of Phala World promise to those who make one,        *)
(* without the shells: a deposit of a fixed price is taken from the funds  *)
(* of an account once, under an id of its own, and comes to exactly one    *)
(* end. It is refunded to that account, or it is spent and goes to the     *)
(* payee of that moment; no other account gains or loses by it, and apart  *)
(* from that funds only go from one account to another.                    *)
(***************************************************************************)
EXTENDS Integers, FiniteSets

CONSTANTS
    Account,
    None,     \* not an account
    Price,    \* of every deposit
    MaxId,    \* how many deposits can ever be made
    Funds     \* [Account -> Nat]: the funds at first

VARIABLES
    funds,    \* [Account -> Nat]: what an account can dispose of
    owner,    \* the account of each open deposit, None of any other
    next      \* the id of the next deposit

vars == <<funds, owner, next>>

Id == 0 .. (MaxId - 1)

Init ==
    /\ funds = Funds
    /\ owner = [id \in Id |-> None]
    /\ next = 0

Deposit(a) ==
    /\ next < MaxId
    /\ funds[a] >= Price
    /\ funds' = [funds EXCEPT ![a] = @ - Price]
    /\ owner' = [owner EXCEPT ![next] = a]
    /\ next' = next + 1

\* The deposits in S come to their end.
Close(S) ==
    /\ \A id \in S : owner[id] # None
    /\ owner' = [id \in Id |-> IF id \in S THEN None ELSE owner[id]]
    /\ UNCHANGED next

Refund(S) ==
    /\ Close(S)
    /\ funds' = [a \in Account |->
                    funds[a] + Price * Cardinality({id \in S : owner[id] = a})]

Spend(S, payee) ==
    /\ Close(S)
    /\ funds' = [funds EXCEPT ![payee] = @ + Price * Cardinality(S)]

Pay(from, to, amount) ==
    /\ from # to
    /\ funds' = [funds EXCEPT ![from] = @ - amount, ![to] = @ + amount]
    /\ UNCHANGED <<owner, next>>

Next ==
    \/ \E a \in Account : Deposit(a)
    \/ \E S \in SUBSET Id : Refund(S) \/ \E payee \in Account : Spend(S, payee)
    \/ \E from, to \in Account : \E amount \in 0 .. funds[from] : Pay(from, to, amount)

Spec == Init /\ [][Next]_vars
=============================================================================
