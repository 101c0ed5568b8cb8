----------------------------- MODULE InitScript -----------------------------
(***************************************************************************)
(* scripts/phala-world/init.js, which prepares a chain for the sale: a     *)
(* client that signs transactions of the root account and of the Overlord  *)
(* with nonces it counts itself, sends them to the pool of a node and, now *)
(* and then, waits until the last one is accepted. It looks at nonces      *)
(* only, never at the outcome of a call. Meanwhile users create            *)
(* collections, other clients use the same two accounts, and the script    *)
(* is stopped and run again from its beginning.                            *)
(*                                                                         *)
(* A transaction that fails still uses up its nonce. Whoever creates a     *)
(* collection needs the funds for its deposit. Left out: fees, forks,      *)
(* transactions that the pool drops, and that root could give away all it  *)
(* has: its transfer is modelled as one that keeps the account alive.      *)
(***************************************************************************)
EXTENDS PhalaWorld

CONSTANTS
    root,            \* the account of ROOT_PRIVKEY, the sudo key
    operator,        \* the account of OVERLORD_PRIVKEY
    PreparedFunds,   \* what the script transfers to the Overlord
    CollectionDeposit,   \* of the runtime, reserved from who creates a collection
    MaxRuns,         \* bound: how often the script is run
    MaxOtherTx       \* bound: the transactions of other clients

VARIABLES
    nonce,        \* [Signer -> Nat]: of the chain, frame_system's
    pool,         \* the transactions that wait to be included
    script,       \* "running", "finished", or "stopped" in the middle or before
    position,     \* how many transactions this run has sent
    localNonce,   \* nonceRoot and nonceOverlord of the script
    waiting,      \* the signer whose last transaction is awaited, or None
    runs,         \* how often the script was run
    otherTx       \* how many transactions other clients have sent

chainVars == <<nonce, pool>>
clientVars == <<script, position, localNonce, waiting, runs>>
scriptVars == <<worldVars, chainVars, clientVars, otherTx>>

ASSUME InitScriptAssumption ==
    /\ root \in Account /\ operator \in Account /\ root # operator
    /\ PreparedFunds \in Nat
    /\ CollectionDeposit \in Nat
    /\ CollectionCreators \cap {root, operator} = {}
    /\ MaxRuns \in Nat /\ MaxOtherTx \in Nat

Signer == {root, operator}

Sends(signer, call, awaited) == [signer |-> signer, call |-> call, awaited |-> awaited]

\* Mutant: does not wait for the new Overlord.
Transactions_NoWait ==
    <<Sends(root, "transfer", TRUE),
      Sends(root, "setOverlord", FALSE),
      Sends(operator, "initializeWorldClock", TRUE),
      Sends(operator, "pwCreateCollection", FALSE),
      Sends(operator, "setSpiritCollectionId", FALSE),
      Sends(operator, "pwCreateCollection", FALSE),
      Sends(operator, "setOriginOfShellCollectionId", FALSE),
      Sends(operator, "pwCreateCollection", FALSE),
      Sends(operator, "setShellCollectionId", FALSE),
      Sends(operator, "initRarityTypeCounts", FALSE),
      Sends(operator, "setStatusType", TRUE)>>

\* The transactions of the script in their order.
Transactions ==
    <<Sends(root, "transfer", TRUE),
      Sends(root, "setOverlord", TRUE),
      Sends(operator, "initializeWorldClock", TRUE),
      Sends(operator, "pwCreateCollection", FALSE),
      Sends(operator, "setSpiritCollectionId", FALSE),
      Sends(operator, "pwCreateCollection", FALSE),
      Sends(operator, "setOriginOfShellCollectionId", FALSE),
      Sends(operator, "pwCreateCollection", FALSE),
      Sends(operator, "setShellCollectionId", FALSE),
      Sends(operator, "initRarityTypeCounts", FALSE),
      Sends(operator, "setStatusType", TRUE)>>

ScriptInit ==
    /\ WorldInit
    /\ nonce = [s \in Signer |-> 0]
    /\ pool = {}
    /\ script = "stopped"
    /\ position = 0
    /\ localNonce = [s \in Signer |-> 0]
    /\ waiting = None
    /\ runs = 0
    /\ otherTx = 0
-----------------------------------------------------------------------------
(* The node.                                                               *)

\* The pool takes a transaction with a nonce that is neither used up nor taken.
Accepts(signer, n) ==
    /\ n >= nonce[signer]
    /\ \A tx \in pool : <<tx.signer, tx.nonce>> # <<signer, n>>

Submit(signer, n, call) ==
    pool' = pool \cup {[signer |-> signer, nonce |-> n, call |-> call]}

CanCreateCollection(who) ==
    nextCollectionId < MaxCollections /\ CanReserve(who, CollectionDeposit)

\* create_collection, with the deposit that the sale's model leaves out.
CreateWithDeposit(who) == CreateCollection(who) /\ Reserve(who, CollectionDeposit)

\* When a call succeeds: root's are let through by sudo, the operator's only
\* once it is the Overlord.
Succeeds(call) ==
    \/ call = "transfer" /\ CanTransfer(root, operator, PreparedFunds)
    \/ call = "setOverlord"
    \/ /\ overlord = operator
       /\ \/ call = "initializeWorldClock" /\ zeroDay = None
          \/ call = "pwCreateCollection" /\ CanCreateCollection(operator)
          \/ call = "setSpiritCollectionId" /\ spiritCollectionId = None
          \/ call = "setOriginOfShellCollectionId" /\ originOfShellCollectionId = None
          \/ call = "setShellCollectionId" /\ shellCollectionId = None
          \/ call = "initRarityTypeCounts" /\ ~inventorySet
          \/ call = "setStatusType"

\* What it does then.
Effect(call) ==
    \/ call = "transfer" /\ BalanceTransfer(root, operator, PreparedFunds)
          /\ UNCHANGED <<rmrkVars, saleVars, clockVars, incubationVars>>
    \/ call = "setOverlord" /\ SetOverlord(operator)
          /\ UNCHANGED <<clockVars, incubationVars>>
    \/ call = "initializeWorldClock" /\ InitializeWorldClock
    \/ call = "setShellCollectionId" /\ Inc!SetShellCollectionId(2)
          /\ UNCHANGED <<balancesVars, saleVars>>
    \/ call = "pwCreateCollection" /\ CreateWithDeposit(operator)
          /\ UNCHANGED <<saleVars, clockVars, incubationVars>>
    \/ /\ \/ call = "setSpiritCollectionId" /\ SetSpiritCollectionId(0)
          \/ call = "setOriginOfShellCollectionId" /\ SetOriginOfShellCollectionId(1)
          \/ call = "initRarityTypeCounts" /\ InitRarityTypeCounts
          \/ call = "setStatusType" /\ SetStatusType(TRUE, "ClaimSpirits")
       /\ UNCHANGED <<clockVars, incubationVars>>

\* The next transaction of a signer is included, and succeeds or fails.
Include(signer) ==
    \E tx \in pool :
        /\ executing
        /\ tx.signer = signer
        /\ tx.nonce = nonce[signer]
        /\ nonce' = [nonce EXCEPT ![signer] = @ + 1]
        /\ pool' = pool \ {tx}
        /\ IF Succeeds(tx.call) THEN Effect(tx.call) ELSE UNCHANGED worldVars
        /\ UNCHANGED <<clientVars, otherTx>>

\* A user creates a collection of its own; bound: each user at most one.
UserCreatesCollection ==
    /\ executing
    /\ \E a \in CollectionCreators :
          CreateWithDeposit(a) /\ \A c \in CollectionId : issuer[c] # a
    /\ UNCHANGED <<saleVars, clockVars, incubationVars, chainVars,
                   clientVars, otherTx>>

Block ==
    /\ BeginBlock \/ FinalizeBlock
    /\ UNCHANGED <<chainVars, clientVars, otherTx>>

\* What other clients call: something that has nothing to do with the sale, or
\* the same preparation, as a second script elsewhere. They do not appoint
\* another Overlord or name other collections.
OtherCalls(signer) ==
    {"other"} \cup
    {Transactions[k].call : k \in {j \in DOMAIN Transactions : Transactions[j].signer = signer}}

\* Another client sends a transaction of an account of this one, under its next
\* nonce.
OtherClient(signer) ==
    /\ otherTx < MaxOtherTx
    /\ Accepts(signer, nonce[signer])
    /\ \E call \in OtherCalls(signer) : Submit(signer, nonce[signer], call)
    /\ otherTx' = otherTx + 1
    /\ UNCHANGED <<worldVars, nonce, clientVars>>
-----------------------------------------------------------------------------
(* The script.                                                             *)

\* main() up to its first transaction: getNonce of both accounts.
Start ==
    /\ script = "stopped"
    /\ ~executing
    /\ runs < MaxRuns
    /\ script' = "running"
    /\ position' = 0
    /\ localNonce' = nonce
    /\ waiting' = None
    /\ runs' = runs + 1
    /\ UNCHANGED <<worldVars, chainVars, otherTx>>

Current == Transactions[position + 1]

\* signAndSend with the next nonce: the pool takes the transaction.
Send ==
    /\ script = "running"
    /\ waiting = None
    /\ position < Len(Transactions)
    /\ Accepts(Current.signer, localNonce[Current.signer])
    /\ Submit(Current.signer, localNonce[Current.signer], Current.call)
    /\ position' = position + 1
    /\ localNonce' = [localNonce EXCEPT ![Current.signer] = @ + 1]
    /\ waiting' = IF Current.awaited THEN Current.signer ELSE None
    /\ UNCHANGED <<worldVars, nonce, script, runs, otherTx>>

\* The pool does not: signAndSend throws, main() ends.
Refused ==
    /\ script = "running"
    /\ waiting = None
    /\ position < Len(Transactions)
    /\ ~Accepts(Current.signer, localNonce[Current.signer])
    /\ script' = "stopped"
    /\ UNCHANGED <<worldVars, chainVars, position, localNonce, waiting, runs, otherTx>>

\* Mutant: waits for the nonce after the one it has to wait for.
Accepted_OneMore(signer) == nonce[signer] = localNonce[signer] + 1

\* What waitTxAccepted waits for: exactly the nonce after that of the last one.
Accepted(signer) == nonce[signer] = localNonce[signer]

\* A poll of waitTxAccepted that ends it. Polls see whole blocks, and go on for
\* ever: checkUntil is called without a timeout.
Poll ==
    /\ script = "running"
    /\ waiting # None
    /\ ~executing
    /\ Accepted(waiting)
    /\ waiting' = None
    /\ UNCHANGED <<worldVars, chainVars, script, position, localNonce, runs, otherTx>>

Finish ==
    /\ script = "running"
    /\ waiting = None
    /\ position = Len(Transactions)
    /\ script' = "finished"
    /\ UNCHANGED <<worldVars, chainVars, position, localNonce, waiting, runs, otherTx>>

\* The process is killed; what it has sent stays in the pool.
Kill ==
    /\ script = "running"
    /\ script' = "stopped"
    /\ UNCHANGED <<worldVars, chainVars, position, localNonce, waiting, runs, otherTx>>

ScriptStep == Send \/ Refused \/ Poll \/ Finish

ScriptNext ==
    \/ \E s \in Signer : Include(s) \/ OtherClient(s)
    \/ UserCreatesCollection
    \/ Block
    \/ Start
    \/ ScriptStep
    \/ Kill

\* Blocks are produced for ever and do not pass over a transaction for ever
\* whose turn it is; a script that can go on does. Strong fairness where the
\* end of a block or its beginning takes the chance away for a while.
ScriptFairness ==
    /\ WF_scriptVars(Block)
    /\ \A s \in Signer : SF_scriptVars(Include(s))
    /\ SF_scriptVars(ScriptStep)

ScriptSpec == ScriptInit /\ [][ScriptNext]_scriptVars /\ ScriptFairness
-----------------------------------------------------------------------------
(* Correctness.                                                            *)

SetUp ==
    /\ overlord = operator
    /\ zeroDay # None
    /\ SeparateCollections
    /\ \A c \in {spiritCollectionId, originOfShellCollectionId, shellCollectionId} :
           issuer[c] = operator
    /\ inventorySet
    /\ "ClaimSpirits" \in status

\* At genesis the Overlord has the deposits of three collections, or root can
\* give them to it. Otherwise the first call of the script fails unnoticed, then
\* its collections are not created, and it still comes to its end.
EnoughFunds ==
    \/ InitialFree[operator] >= 3 * CollectionDeposit
    \/ /\ PreparedFunds >= 3 * CollectionDeposit
       /\ InitialFree[root] >= PreparedFunds + ExistentialDeposit
       /\ InitialFree[operator] + PreparedFunds >= ExistentialDeposit

\* A script that comes to its end has set up the sale, although it never looks
\* whether a call failed: even if it was killed and run again, with some of
\* its transactions done, some in the pool and some never sent, and while other
\* clients send unrelated calls, or calls of the same preparation, from the same
\* accounts; provided the funds suffice at genesis and no user's collection got
\* one of the ids it names.
FinishedMeansSetUp ==
    /\ EnoughFunds
    /\ script = "finished"
    /\ \A c \in 0 .. 2 : issuer[c] \in {operator, None}
    => SetUp

\* A run of the script ends, unless another client has used the account it is
\* waiting for, whose nonce has gone past the one it awaits: then it polls for
\* ever. What an earlier run of its own had left in the pool never does that.
Overtaken ==
    waiting # None /\ nonce[waiting] > localNonce[waiting] /\ otherTx > 0

EndsUnlessOvertaken == (script = "running") ~> (script # "running" \/ Overtaken)
=============================================================================
