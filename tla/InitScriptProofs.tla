-------------------------- MODULE InitScriptProofs --------------------------
(***************************************************************************)
(* Theorems about InitScript, for every value of the constants: however    *)
(* often the script is run and killed, and however many transactions other *)
(* clients send that leave the preparation alone or are part of it, a run  *)
(* that comes to its end has set up the sale, given the funds for it.      *)
(***************************************************************************)
EXTENDS InitScript, TLAPS

USE DEF balancesVars, rmrkVars, setupVars, stockVars, preorderVars, saleVars,
        vars, clockVars, incubationVars, worldVars, chainVars, clientVars, scriptVars

\* A chain as the script is written for: its genesis names no collections, and
\* there is room for those of the script.
NothingNamed ==
    /\ Genesis.spiritCollectionId = None
    /\ Genesis.originOfShellCollectionId = None
    /\ MaxCollections >= 3

\* The operator has the deposits of the script's collections that are missing.
Funded ==
    /\ nextCollectionId = 0 => free[operator] >= 3 * CollectionDeposit
    /\ nextCollectionId = 1 => free[operator] >= 2 * CollectionDeposit
    /\ nextCollectionId = 2 => free[operator] >= CollectionDeposit

\* Root can still give them to it.
Fundable ==
    /\ PreparedFunds >= 3 * CollectionDeposit
    /\ free[root] >= PreparedFunds
    /\ TotalBalance(root) >= PreparedFunds + ExistentialDeposit
    /\ TotalBalance(operator) + PreparedFunds >= ExistentialDeposit

\* The collections that exist have issuers, and whoever names one names those
\* that the script does.
ChainInv ==
    /\ nextCollectionId \in 0 .. MaxCollections
    /\ issuer \in [CollectionId -> Account \cup {None}]
    /\ \A c \in CollectionId : c < nextCollectionId => issuer[c] # None
    /\ BalancesTypeOK
    /\ Funded \/ Fundable
    /\ overlord \in Account \cup {None}
    /\ now \in Nat
    /\ spiritCollectionId \in {None, 0}
    /\ originOfShellCollectionId \in {None, 1}
    /\ shellCollectionId \in {None, 2}

\* What the chain is like once transaction k of a run was included, whether its
\* call succeeded or failed.
Done(k) ==
    /\ k = 1 => Funded
    /\ k = 2 => overlord = operator
    /\ k = 3 => zeroDay # None
    /\ k = 4 => nextCollectionId >= 1
    /\ k = 5 => spiritCollectionId = 0
    /\ k = 6 => nextCollectionId >= 2
    /\ k = 7 => originOfShellCollectionId = 1
    /\ k = 8 => nextCollectionId >= 3
    /\ k = 9 => shellCollectionId = 2
    /\ k = 10 => inventorySet
    /\ k = 11 => "ClaimSpirits" \in status

\* The nonce of transaction k in a run that read the nonces r and o.
NonceAt(r, o, k) == IF k <= 2 THEN r + k - 1 ELSE o + k - 3

SignerOf(k) == IF k <= 2 THEN root ELSE operator

Pending(r, o, k) ==
    /\ [signer |-> SignerOf(k), nonce |-> NonceAt(r, o, k),
        call |-> Transactions[k].call] \in pool
    /\ NonceAt(r, o, k) >= nonce[SignerOf(k)]

\* Each transaction that the run has sent is in the pool, or was included and
\* left the chain as it should be: nobody else can have used its nonce, which
\* the pool holds for it from the moment it took the transaction.
RunInv(r, o) ==
    /\ localNonce[root] = IF position < 2 THEN r + position ELSE r + 2
    /\ localNonce[operator] = IF position < 2 THEN o ELSE o + (position - 2)
    /\ \A k \in 1 .. position :
          \/ Pending(r, o, k)
          \/ NonceAt(r, o, k) < nonce[SignerOf(k)] /\ Done(k)
    /\ position > 2 \/ (position = 2 /\ waiting = None) => nonce[root] >= r + 2
    /\ position = 11 /\ waiting = None => nonce[operator] >= o + 9

ScriptInv ==
    /\ ChainInv
    /\ nonce \in [Signer -> Nat]
    /\ localNonce \in [Signer -> Nat]
    /\ \A tx, other \in pool : tx.signer = other.signer /\ tx.nonce = other.nonce => tx = other
    /\ position \in 0 .. 11
    /\ waiting \in {root, operator, None}
    /\ position = 2 => waiting \in {root, None}
    /\ position = 11 => waiting \in {operator, None}
    /\ script = "finished" => position = 11 /\ waiting = None
    /\ \E r, o \in Nat : RunInv(r, o)

LEMMA Constants ==
    /\ root \in Account /\ operator \in Account /\ root # operator
    /\ None \notin Account /\ None \notin Nat
    /\ MaxCollections \in Nat
    /\ CollectionCreators \subseteq Account \ {root, operator}
    /\ PreparedFunds \in Nat /\ CollectionDeposit \in Nat /\ ExistentialDeposit \in Nat
    /\ InitialFree \in [Account -> Nat]
  BY BalancesAssumption, InitScriptAssumption, TraitsAssumption, RmrkAssumption

LEMMA TransactionFacts ==
    /\ Len(Transactions) = 11
    /\ \A k \in 1 .. 11 : /\ Transactions[k].signer = SignerOf(k)
                          /\ Transactions[k].awaited <=> k \in {1, 2, 3, 11}
    /\ Transactions[1].call = "transfer"
    /\ Transactions[2].call = "setOverlord"
    /\ Transactions[3].call = "initializeWorldClock"
    /\ Transactions[4].call = "pwCreateCollection"
    /\ Transactions[5].call = "setSpiritCollectionId"
    /\ Transactions[6].call = "pwCreateCollection"
    /\ Transactions[7].call = "setOriginOfShellCollectionId"
    /\ Transactions[8].call = "pwCreateCollection"
    /\ Transactions[9].call = "setShellCollectionId"
    /\ Transactions[10].call = "initRarityTypeCounts"
    /\ Transactions[11].call = "setStatusType"
  BY DEF Transactions, Sends, SignerOf
-----------------------------------------------------------------------------
(* The chain.                                                              *)

\* Nothing that happens on the chain undoes what the script has done.
Grows ==
    /\ overlord = operator => overlord' = operator
    /\ zeroDay # None => zeroDay' # None
    /\ Funded => Funded'
    /\ nextCollectionId' >= nextCollectionId
    /\ spiritCollectionId # None => UNCHANGED spiritCollectionId
    /\ originOfShellCollectionId # None => UNCHANGED originOfShellCollectionId
    /\ shellCollectionId # None => UNCHANGED shellCollectionId
    /\ inventorySet => inventorySet'
    /\ "ClaimSpirits" \in status => "ClaimSpirits" \in status'

LEMMA ZeroDay ==
    ASSUME ChainInv PROVE Clock!ZeroDayOf(now) # None
  <1>1. now % SecondsPerEra \in 0 .. now
    BY WorldAssumption DEF ChainInv
  <1> QED
    BY <1>1, Constants DEF ChainInv, Clock!ZeroDayOf

\* Who creates a collection pays for it: the operator has the other deposits
\* afterwards, and another's collection leaves one less to create.
LEMMA FundsOfCreate ==
    ASSUME ChainInv, NEW a \in Account \ {root}, CreateWithDeposit(a)
    PROVE  /\ BalancesTypeOK'
           /\ Funded => Funded'
           /\ Fundable => Fundable'
  <1> DEFINE D == CollectionDeposit
  <1>1. /\ nextCollectionId \in Nat /\ nextCollectionId' = nextCollectionId + 1
        /\ root \in Account /\ operator \in Account /\ a # root
        /\ D \in Nat
        /\ free \in [Account -> Nat] /\ reserved \in [Account -> Nat]
    BY Constants DEF ChainInv, CreateWithDeposit, CreateCollection, BalancesTypeOK
  <1>2. /\ free[a] >= D
        /\ free' = [free EXCEPT ![a] = @ - D]
        /\ reserved' = [reserved EXCEPT ![a] = @ + D]
    BY DEF CreateWithDeposit, Reserve, CanReserve
  <1>3. BalancesTypeOK'
    <2>1. free[a] - D \in Nat /\ reserved[a] + D \in Nat
      BY <1>1, <1>2
    <2> QED
      BY <1>1, <1>2, <2>1 DEF BalancesTypeOK
  <1>4. /\ free'[root] = free[root] /\ reserved'[root] = reserved[root]
        /\ free'[operator] = free[operator] \/ free'[operator] = free[operator] - D
        /\ free'[operator] + reserved'[operator] = free[operator] + reserved[operator]
    BY <1>1, <1>2
  <1>5. /\ free[operator] \in Nat /\ free'[operator] \in Nat
    BY <1>1, <1>3 DEF BalancesTypeOK
  <1>6. Funded => Funded'
    BY <1>1, <1>4, <1>5 DEF Funded
  <1>7. Fundable => Fundable'
    BY <1>4 DEF Fundable, TotalBalance
  <1> QED
    BY <1>3, <1>6, <1>7

\* The script's transfer, by root, gives the Overlord what it needs.
LEMMA FundsOfTransfer ==
    ASSUME ChainInv, BalanceTransfer(root, operator, PreparedFunds),
           UNCHANGED nextCollectionId
    PROVE  /\ BalancesTypeOK'
           /\ Funded \/ Fundable => Funded'
  <1> DEFINE D == CollectionDeposit
             P == PreparedFunds
  <1>1. /\ root \in Account /\ operator \in Account /\ operator # root
        /\ D \in Nat /\ P \in Nat
        /\ free \in [Account -> Nat] /\ reserved \in [Account -> Nat]
        /\ free[operator] \in Nat /\ free[root] \in Nat
    BY Constants DEF ChainInv, BalancesTypeOK
  <1>2. free[root] >= P
    BY <1>1 DEF BalanceTransfer, CanTransfer
  <1>3. /\ free' = [free EXCEPT ![root] = @ - P, ![operator] = @ + P]
        /\ reserved' = reserved
    BY <1>1 DEF BalanceTransfer, FreeAfterTransfer
  <1>4. BalancesTypeOK'
    <2>1. free[root] - P \in Nat /\ free[operator] + P \in Nat
      BY <1>1, <1>2
    <2> QED
      BY <1>1, <1>3, <2>1 DEF BalancesTypeOK
  <1>5. free'[operator] = free[operator] + P
    BY <1>1, <1>3
  <1> QED
    BY <1>1, <1>4, <1>5 DEF Funded, Fundable

LEMMA ChainCreates ==
    ASSUME ChainInv, NEW a \in Account \ {root}, CreateWithDeposit(a),
           UNCHANGED <<overlord, spiritCollectionId, originOfShellCollectionId,
                       inventorySet, status, now, zeroDay, shellCollectionId>>
    PROVE  ChainInv' /\ Grows
  <1>1. /\ nextCollectionId \in CollectionId
        /\ nextCollectionId' = nextCollectionId + 1
        /\ nextCollectionId' \in 0 .. MaxCollections
        /\ issuer' = [issuer EXCEPT ![nextCollectionId] = a]
    BY Constants DEF ChainInv, CreateWithDeposit, CreateCollection, CollectionId
  <1>2. ASSUME NEW c \in CollectionId, c < nextCollectionId' PROVE issuer'[c] # None
    <2>1. c = nextCollectionId \/ c < nextCollectionId
      BY <1>1, <1>2 DEF CollectionId
    <2> QED
      BY <1>1, <2>1, Constants DEF ChainInv
  <1>3. issuer' \in [CollectionId -> Account \cup {None}]
    BY <1>1 DEF ChainInv
  <1>4. nextCollectionId' >= nextCollectionId
    BY <1>1 DEF ChainInv
  <1>5. BalancesTypeOK' /\ (Funded => Funded') /\ (Funded' \/ Fundable')
    BY FundsOfCreate DEF ChainInv
  <1> QED
    BY <1>1, <1>2, <1>3, <1>4, <1>5 DEF ChainInv, Grows

FundsUnchanged ==
    /\ BalancesTypeOK <=> BalancesTypeOK'
    /\ Funded <=> Funded'
    /\ Fundable <=> Fundable'

LEMMA SameFunds ==
    ASSUME UNCHANGED <<balancesVars, nextCollectionId>> PROVE FundsUnchanged
  BY DEF FundsUnchanged, BalancesTypeOK, Funded, Fundable, TotalBalance

LEMMA ChainSame ==
    ASSUME ChainInv,
           UNCHANGED <<balancesVars, nextCollectionId, issuer, overlord,
                       spiritCollectionId, originOfShellCollectionId, inventorySet,
                       status, zeroDay, shellCollectionId>>,
           now' \in Nat
    PROVE  ChainInv' /\ Grows
  <1>1. FundsUnchanged
    BY SameFunds
  <1> QED
    BY <1>1, Constants DEF FundsUnchanged, ChainInv, Grows

LEMMA ChainEffect ==
    ASSUME ChainInv, NEW call, Effect(call)
    PROVE  ChainInv' /\ Grows
  <1>0. nextCollectionId \in Nat /\ now \in Nat
    BY Constants DEF ChainInv
  <1>1. CASE call = "transfer"
    <2>1. /\ BalanceTransfer(root, operator, PreparedFunds)
          /\ UNCHANGED <<rmrkVars, saleVars, clockVars, incubationVars>>
      BY <1>1 DEF Effect
    <2>2. BalancesTypeOK' /\ Funded'
      BY <2>1, FundsOfTransfer DEF ChainInv
    <2> QED
      BY <1>0, <2>1, <2>2, Constants DEF ChainInv, Grows
  <1>2. CASE call = "setOverlord"
    <2>1. /\ UNCHANGED <<balancesVars, nextCollectionId, issuer, spiritCollectionId,
                         originOfShellCollectionId, inventorySet, status, now, zeroDay,
                         shellCollectionId>>
          /\ overlord' = operator
      BY <1>2 DEF Effect, SetOverlord
    <2> QED
      BY <1>0, <2>1, SameFunds, Constants DEF FundsUnchanged, ChainInv, Grows
  <1>3. CASE call = "initializeWorldClock"
    <2>1. /\ UNCHANGED <<balancesVars, nextCollectionId, issuer, overlord, spiritCollectionId,
                         originOfShellCollectionId, inventorySet, status, now,
                         shellCollectionId>>
          /\ zeroDay' = Clock!ZeroDayOf(now)
      BY <1>3 DEF Effect, InitializeWorldClock, Clock!InitializeWorldClock
    <2> QED
      BY <1>0, <2>1, SameFunds, ZeroDay DEF FundsUnchanged, ChainInv, Grows
  <1>4. CASE call = "setShellCollectionId"
    <2>1. /\ UNCHANGED <<balancesVars, nextCollectionId, issuer, overlord, spiritCollectionId,
                         originOfShellCollectionId, inventorySet, status, now, zeroDay>>
          /\ shellCollectionId = None
          /\ shellCollectionId' = 2
      BY <1>4 DEF Effect, Inc!SetShellCollectionId, Inc!clockVars, Inc!rmrkVars,
                  Inc!saleVars
    <2> QED
      BY <1>0, <2>1, SameFunds DEF FundsUnchanged, ChainInv, Grows
  <1>5. CASE call = "pwCreateCollection"
    <2>1. /\ CreateWithDeposit(operator)
          /\ UNCHANGED <<saleVars, clockVars, incubationVars>>
      BY <1>5 DEF Effect
    <2> QED
      BY <2>1, Constants, ChainCreates
  <1>6. CASE call = "setSpiritCollectionId"
    <2>1. /\ UNCHANGED <<balancesVars, nextCollectionId, issuer, overlord, shellCollectionId,
                         originOfShellCollectionId, inventorySet, status, now, zeroDay>>
          /\ spiritCollectionId = None
          /\ spiritCollectionId' = 0
      BY <1>6 DEF Effect, SetSpiritCollectionId
    <2> QED
      BY <1>0, <2>1, SameFunds DEF FundsUnchanged, ChainInv, Grows
  <1>7. CASE call = "setOriginOfShellCollectionId"
    <2>1. /\ UNCHANGED <<balancesVars, nextCollectionId, issuer, overlord, shellCollectionId,
                         spiritCollectionId, inventorySet, status, now, zeroDay>>
          /\ originOfShellCollectionId = None
          /\ originOfShellCollectionId' = 1
      BY <1>7 DEF Effect, SetOriginOfShellCollectionId
    <2> QED
      BY <1>0, <2>1, SameFunds DEF FundsUnchanged, ChainInv, Grows
  <1>8. CASE call = "initRarityTypeCounts"
    <2>1. /\ UNCHANGED <<balancesVars, nextCollectionId, issuer, overlord, shellCollectionId,
                         spiritCollectionId, originOfShellCollectionId, status, now, zeroDay>>
          /\ inventorySet'
      BY <1>8 DEF Effect, InitRarityTypeCounts
    <2> QED
      BY <1>0, <2>1, SameFunds DEF FundsUnchanged, ChainInv, Grows
  <1>9. CASE call = "setStatusType"
    <2>1. /\ UNCHANGED <<balancesVars, nextCollectionId, issuer, overlord, shellCollectionId,
                         spiritCollectionId, originOfShellCollectionId, inventorySet, now,
                         zeroDay>>
          /\ status' = status \cup {"ClaimSpirits"}
      BY <1>9 DEF Effect, SetStatusType
    <2> QED
      BY <1>0, <2>1, SameFunds DEF FundsUnchanged, ChainInv, Grows
  <1> QED
    BY <1>1, <1>2, <1>3, <1>4, <1>5, <1>6, <1>7, <1>8, <1>9 DEF Effect

\* What is done stays done.
LEMMA DoneStays ==
    ASSUME ChainInv, ChainInv', Grows, NEW k \in 1 .. 11, Done(k)
    PROVE  Done(k)'
  <1>1. /\ nextCollectionId \in Int /\ nextCollectionId' \in Int
        /\ None \notin {0, 1, 2}
    BY Constants DEF ChainInv
  <1> QED
    BY <1>1 DEF Done, Grows

LEMMA FundableTransfer ==
    ASSUME ChainInv, Fundable PROVE CanTransfer(root, operator, PreparedFunds)
  <1>1. /\ PreparedFunds \in Nat /\ ExistentialDeposit \in Nat
        /\ TotalBalance(root) \in Nat /\ TotalBalance(operator) \in Nat
    BY Constants DEF ChainInv, BalancesTypeOK, TotalBalance
  <1> QED
    BY <1>1 DEF Fundable, CanTransfer

\* A transaction of the script that is included in its turn does what it is
\* there for, or finds it done.
LEMMA DoneBy ==
    ASSUME NothingNamed, ChainInv, NEW k \in 1 .. 11,
           k > 2 => overlord = operator /\ Funded,
           k = 6 => Done(4),
           k = 8 => Done(6),
           IF Succeeds(Transactions[k].call) THEN Effect(Transactions[k].call)
           ELSE UNCHANGED worldVars
    PROVE  Done(k)'
  <1>0. /\ nextCollectionId \in 0 .. MaxCollections
        /\ None \notin {0, 1, 2}
        /\ MaxCollections \in Nat /\ MaxCollections >= 3
    BY Constants DEF ChainInv, NothingNamed
  <1>1. CASE k = 1
    <2>1. IF Succeeds("transfer") THEN Effect("transfer") ELSE UNCHANGED worldVars
      BY <1>1, TransactionFacts
    <2>2. CASE Succeeds("transfer")
      <3>1. /\ BalanceTransfer(root, operator, PreparedFunds)
            /\ UNCHANGED nextCollectionId
        BY <2>1, <2>2 DEF Effect
      <3> QED
        BY <1>1, <3>1, FundsOfTransfer DEF ChainInv, Done
    <2>3. CASE ~Succeeds("transfer")
      <3>1. ~CanTransfer(root, operator, PreparedFunds)
        BY <2>3 DEF Succeeds
      <3>2. ~Fundable
        BY <3>1, FundableTransfer
      <3>3. UNCHANGED <<balancesVars, nextCollectionId>>
        BY <2>1, <2>3
      <3> QED
        BY <1>1, <3>2, <3>3, SameFunds DEF FundsUnchanged, ChainInv, Done
    <2> QED
      BY <2>2, <2>3
  <1>2. CASE k = 2
    BY <1>2, TransactionFacts DEF Done, Succeeds, Effect, SetOverlord
  <1>3. CASE k = 3
    BY <1>3, TransactionFacts, ZeroDay
    DEF Done, Succeeds, Effect, InitializeWorldClock, Clock!InitializeWorldClock
  <1>4. CASE k \in {4, 6, 8}
    <2>1. /\ nextCollectionId < 3 => nextCollectionId' = nextCollectionId + 1
          /\ nextCollectionId' \in {nextCollectionId, nextCollectionId + 1}
      <3>1. Transactions[k].call = "pwCreateCollection" /\ overlord = operator
        BY <1>4, TransactionFacts
      <3>2. IF Succeeds("pwCreateCollection") THEN Effect("pwCreateCollection")
            ELSE UNCHANGED nextCollectionId
        BY <3>1
      <3>3. nextCollectionId < 3 => Succeeds("pwCreateCollection")
        <4>1. free[operator] \in Nat /\ CollectionDeposit \in Nat
          BY Constants DEF ChainInv, BalancesTypeOK
        <4>2. nextCollectionId < 3 => free[operator] >= CollectionDeposit
          BY <1>0, <1>4, <4>1 DEF Funded
        <4> QED
          BY <1>0, <3>1, <4>2 DEF Succeeds, CanCreateCollection, CanReserve
      <3>4. Effect("pwCreateCollection") => nextCollectionId' = nextCollectionId + 1
        BY DEF Effect, CreateWithDeposit, CreateCollection
      <3> QED
        BY <3>2, <3>3, <3>4
    <2>2. /\ k = 6 => nextCollectionId >= 1
          /\ k = 8 => nextCollectionId >= 2
      BY DEF Done
    <2> QED
      BY <1>0, <1>4, <2>1, <2>2 DEF Done
  <1>5. CASE k = 5
    BY <1>0, <1>5, TransactionFacts DEF ChainInv, Done, Succeeds, Effect, SetSpiritCollectionId
  <1>6. CASE k = 7
    BY <1>0, <1>6, TransactionFacts
    DEF ChainInv, Done, Succeeds, Effect, SetOriginOfShellCollectionId
  <1>7. CASE k = 9
    BY <1>0, <1>7, TransactionFacts
    DEF ChainInv, Done, Succeeds, Effect, Inc!SetShellCollectionId
  <1>8. CASE k = 10
    BY <1>8, TransactionFacts DEF Done, Succeeds, Effect, InitRarityTypeCounts
  <1>9. CASE k = 11
    BY <1>9, TransactionFacts DEF Done, Succeeds, Effect, SetStatusType
  <1> QED
    BY <1>1, <1>2, <1>3, <1>4, <1>5, <1>6, <1>7, <1>8, <1>9
-----------------------------------------------------------------------------
(* A run of the script.                                                    *)

LEMMA RunTypes ==
    ASSUME NEW r \in Nat, NEW o \in Nat, NEW k \in 1 .. 11
    PROVE  NonceAt(r, o, k) \in Nat /\ SignerOf(k) \in Signer
  BY DEF NonceAt, SignerOf, Signer

\* After the wait for both the operator is the Overlord and has its funds, and
\* stays so.
LEMMA OperatorRules ==
    ASSUME ScriptInv, NEW r \in Nat, NEW o \in Nat, RunInv(r, o),
           position > 2 \/ (position = 2 /\ waiting = None)
    PROVE  overlord = operator /\ Funded
  <1>1. nonce[root] >= r + 2 /\ {1, 2} \subseteq 1 .. position
    BY DEF RunInv, ScriptInv
  <1>2. nonce[root] \in Nat
    BY DEF ScriptInv, Signer
  <1>3. ASSUME NEW k \in {1, 2} PROVE Done(k)
    <2>1. NonceAt(r, o, k) = r + k - 1 /\ SignerOf(k) = root /\ k \in 1 .. position
      BY <1>1 DEF NonceAt, SignerOf
    <2>2. \/ Pending(r, o, k)
          \/ NonceAt(r, o, k) < nonce[SignerOf(k)] /\ Done(k)
      BY <2>1 DEF RunInv
    <2>3. Done(k) \/ NonceAt(r, o, k) >= nonce[SignerOf(k)]
      BY <2>2 DEF Pending
    <2> QED
      BY <1>1, <1>2, <2>1, <2>3
  <1> QED
    BY <1>3 DEF Done

\* What happens on the chain leaves a run as it is.
LEMMA RunQuiet ==
    ASSUME ScriptInv, ChainInv', Grows, NEW r \in Nat, NEW o \in Nat, RunInv(r, o),
           UNCHANGED <<nonce, localNonce, position, waiting>>,
           pool \subseteq pool'
    PROVE  RunInv(r, o)'
  <1>1. ASSUME NEW k \in 1 .. position
        PROVE  \/ Pending(r, o, k)'
               \/ NonceAt(r, o, k) < nonce'[SignerOf(k)] /\ Done(k)'
    <2>1. k \in 1 .. 11
      BY DEF ScriptInv
    <2>2. Pending(r, o, k) => Pending(r, o, k)'
      BY DEF Pending
    <2>3. Done(k) => Done(k)'
      BY <2>1, DoneStays DEF ScriptInv
    <2> QED
      BY <2>2, <2>3 DEF RunInv
  <1> QED
    BY <1>1 DEF RunInv

LEMMA IncludeStep ==
    ASSUME NothingNamed, ScriptInv, NEW s \in Signer, Include(s)
    PROVE  ScriptInv'
  <1>1. PICK tx \in pool :
            /\ tx.signer = s
            /\ tx.nonce = nonce[s]
            /\ nonce' = [nonce EXCEPT ![s] = @ + 1]
            /\ pool' = pool \ {tx}
            /\ IF Succeeds(tx.call) THEN Effect(tx.call) ELSE UNCHANGED worldVars
            /\ UNCHANGED <<clientVars, otherTx>>
    BY DEF Include
  <1>2. ChainInv' /\ Grows
    <2>1. CASE Succeeds(tx.call)
      BY <1>1, <2>1, ChainEffect DEF ScriptInv
    <2>2. CASE ~Succeeds(tx.call)
      BY <1>1, <2>2, ChainSame DEF ScriptInv, ChainInv
    <2> QED
      BY <2>1, <2>2
  <1>3. PICK r \in Nat, o \in Nat : RunInv(r, o)
    BY DEF ScriptInv
  <1>4. /\ nonce \in [Signer -> Nat] /\ nonce' \in [Signer -> Nat]
        /\ nonce'[s] = nonce[s] + 1
        /\ \A other \in Signer \ {s} : nonce'[other] = nonce[other]
    BY <1>1 DEF ScriptInv
  <1>5. ASSUME NEW k \in 1 .. position
        PROVE  \/ Pending(r, o, k)'
               \/ NonceAt(r, o, k) < nonce'[SignerOf(k)] /\ Done(k)'
    <2> DEFINE n == NonceAt(r, o, k)
               signer == SignerOf(k)
               own == [signer |-> signer, nonce |-> n, call |-> Transactions[k].call]
    <2>1. /\ k \in 1 .. 11
          /\ n \in Nat /\ signer \in Signer
          /\ nonce[signer] \in Nat /\ nonce'[signer] \in Nat
          /\ nonce'[signer] >= nonce[signer]
      <3>1. k \in 1 .. 11
        BY DEF ScriptInv
      <3>2. n \in Nat /\ signer \in Signer
        BY <3>1, RunTypes
      <3> HIDE DEF n, signer
      <3> QED
        BY <1>4, <3>1, <3>2
    <2>2. CASE n < nonce[signer] /\ Done(k)
      <3>1. Done(k)'
        BY <1>2, <2>1, <2>2, DoneStays DEF ScriptInv
      <3>2. n < nonce'[signer]
        <4> HIDE DEF n, signer
        <4> QED
          BY <2>1, <2>2
      <3> QED
        BY <3>1, <3>2
    <2>3. CASE Pending(r, o, k) /\ own # tx
      <3>1. own \in pool /\ n >= nonce[signer]
        BY <2>3 DEF Pending
      <3>2. ~(signer = s /\ n = nonce[s])
        <4>1. own.signer = signer /\ own.nonce = n
          OBVIOUS
        <4> HIDE DEF own, n, signer
        <4> QED
          BY <1>1, <2>3, <3>1, <4>1 DEF ScriptInv
      <3>3. n >= nonce'[signer]
        <4> HIDE DEF n, signer
        <4> QED
          BY <1>4, <2>1, <3>1, <3>2
      <3>4. own \in pool'
        BY <1>1, <2>3, <3>1
      <3> QED
        BY <3>3, <3>4 DEF Pending
    <2>4. CASE Pending(r, o, k) /\ own = tx
      <3>1. signer = s /\ n = nonce[signer] /\ tx.call = Transactions[k].call
        BY <1>1, <2>4
      <3>2. n < nonce'[signer]
        <4> HIDE DEF n, signer
        <4> QED
          BY <1>4, <2>1, <3>1
      <3>3. k > 2 => overlord = operator /\ Funded
        <4>1. k > 2 => position > 2
          BY DEF ScriptInv
        <4> QED
          BY <1>3, <4>1, OperatorRules
      <3>4. ASSUME NEW j \in 4 .. 6, k = j + 2 PROVE Done(j)
        <4>1. /\ j \in 1 .. position
              /\ SignerOf(j) = signer /\ NonceAt(r, o, j) < n
          BY <2>1, <3>4 DEF SignerOf, NonceAt, ScriptInv
        <4>2. ~Pending(r, o, j)
          <5>1. NonceAt(r, o, j) \in Nat
            <6>1. j \in 1 .. 11
              OBVIOUS
            <6> QED
              BY <6>1, RunTypes
          <5>2. Pending(r, o, j) => NonceAt(r, o, j) >= nonce[signer]
            BY <4>1 DEF Pending
          <5> HIDE DEF n, signer
          <5> QED
            BY <2>1, <3>1, <4>1, <5>1, <5>2
        <4> QED
          BY <1>3, <4>1, <4>2 DEF RunInv
      <3>5. (k = 6 => Done(4)) /\ (k = 8 => Done(6))
        BY <3>4
      <3>6. Done(k)'
        BY <1>1, <2>1, <3>1, <3>3, <3>5, DoneBy DEF ScriptInv
      <3> QED
        BY <3>2, <3>6
    <2> QED
      BY <1>3, <2>2, <2>3, <2>4 DEF RunInv
  <1>6. nonce'[root] >= nonce[root] /\ nonce'[operator] >= nonce[operator]
    BY <1>4 DEF Signer
  <1>7. RunInv(r, o)'
    <2>1. UNCHANGED <<position, localNonce, waiting>>
      BY <1>1
    <2>2. /\ nonce[root] \in Nat /\ nonce'[root] \in Nat
          /\ nonce[operator] \in Nat /\ nonce'[operator] \in Nat
      BY <1>4 DEF Signer
    <2>3. /\ position > 2 \/ (position = 2 /\ waiting = None) => nonce'[root] >= r + 2
          /\ position = 11 /\ waiting = None => nonce'[operator] >= o + 9
      BY <1>3, <1>6, <2>2 DEF RunInv
    <2> QED
      BY <1>3, <1>5, <2>1, <2>3 DEF RunInv
  <1>8. \A one, other \in pool' :
            one.signer = other.signer /\ one.nonce = other.nonce => one = other
    BY <1>1 DEF ScriptInv
  <1> QED
    BY <1>1, <1>2, <1>4, <1>7, <1>8 DEF ScriptInv

LEMMA SendStep ==
    ASSUME ScriptInv, Send
    PROVE  ScriptInv'
  <1> DEFINE p == position
             k == position + 1
             signer == SignerOf(k)
             n == localNonce[signer]
             own == [signer |-> signer, nonce |-> n, call |-> Transactions[k].call]
  <1>1. p \in 0 .. 10 /\ k \in 1 .. 11 /\ position' = k
    BY TransactionFacts DEF Send, ScriptInv
  <1>2. /\ Current.signer = signer /\ Current.call = Transactions[k].call
        /\ Current.awaited <=> k \in {1, 2, 3, 11}
        /\ signer \in Signer
    BY <1>1, TransactionFacts, RunTypes DEF Current
  <1>3. /\ waiting = None
        /\ n >= nonce[signer]
        /\ \A tx \in pool : <<tx.signer, tx.nonce>> # <<signer, n>>
        /\ pool' = pool \cup {own}
        /\ localNonce' = [localNonce EXCEPT ![signer] = @ + 1]
        /\ waiting' = IF k \in {1, 2, 3, 11} THEN signer ELSE None
        /\ UNCHANGED <<worldVars, nonce, script, runs, otherTx>>
        /\ script = "running"
    <2> HIDE DEF k, signer
    <2> QED
      BY <1>2 DEF Send, Accepts, Submit
  <1>4. PICK r \in Nat, o \in Nat : RunInv(r, o)
    BY DEF ScriptInv
  <1>5. n = NonceAt(r, o, k)
    BY <1>1, <1>4 DEF RunInv, NonceAt, SignerOf
  <1>6. /\ localNonce'[root] = IF position' < 2 THEN r + position' ELSE r + 2
        /\ localNonce'[operator] = IF position' < 2 THEN o ELSE o + (position' - 2)
    <2>1. /\ localNonce \in [Signer -> Nat] /\ root \in Signer /\ operator \in Signer
          /\ root # operator
      BY Constants DEF ScriptInv, Signer
    <2>2. /\ localNonce[root] = IF p < 2 THEN r + p ELSE r + 2
          /\ localNonce[operator] = IF p < 2 THEN o ELSE o + (p - 2)
      BY <1>4 DEF RunInv
    <2>3. CASE k <= 2
      <3>1. signer = root
        BY <2>3 DEF SignerOf
      <3>2. localNonce'[root] = localNonce[root] + 1 /\ localNonce'[operator] = localNonce[operator]
        BY <1>3, <2>1, <3>1
      <3> QED
        BY <1>1, <2>2, <2>3, <3>2
    <2>4. CASE k > 2
      <3>1. signer = operator
        BY <1>1, <2>4 DEF SignerOf
      <3>2. localNonce'[operator] = localNonce[operator] + 1 /\ localNonce'[root] = localNonce[root]
        BY <1>3, <2>1, <3>1
      <3> QED
        BY <1>1, <2>2, <2>4, <3>2
    <2> QED
      BY <1>1, <2>3, <2>4
  <1>7. ChainInv' /\ Grows
    BY <1>3, ChainSame DEF ScriptInv, ChainInv
  <1>8. ASSUME NEW j \in 1 .. position'
        PROVE  \/ Pending(r, o, j)'
               \/ NonceAt(r, o, j) < nonce'[SignerOf(j)] /\ Done(j)'
    <2>1. CASE j = k
      <3>1. own \in pool' /\ NonceAt(r, o, j) >= nonce'[SignerOf(j)]
        BY <1>3, <1>5, <2>1
      <3>2. own = [signer |-> SignerOf(j), nonce |-> NonceAt(r, o, j),
                   call |-> Transactions[j].call]
        BY <1>5, <2>1
      <3> HIDE DEF own
      <3> QED
        BY <3>1, <3>2 DEF Pending
    <2>2. CASE j # k
      <3>1. j \in 1 .. position /\ j \in 1 .. 11
        BY <1>1, <2>2
      <3>2. Pending(r, o, j) => Pending(r, o, j)'
        BY <1>3 DEF Pending
      <3>3. Done(j) => Done(j)'
        BY <1>7, <3>1, DoneStays DEF ScriptInv
      <3>4. UNCHANGED nonce
        BY <1>3
      <3> QED
        BY <1>4, <3>1, <3>2, <3>3, <3>4 DEF RunInv
    <2> QED
      BY <2>1, <2>2
  <1>9. /\ waiting' \in {root, operator, None}
        /\ position' = 2 => waiting' = root
        /\ position' = 11 => waiting' = operator
    BY <1>1, <1>3 DEF SignerOf
  <1>10. position' > 2 => nonce[root] >= r + 2
    <2>1. position' > 2 => position > 2 \/ (position = 2 /\ waiting = None)
      BY <1>1, <1>3
    <2> QED
      BY <1>4, <2>1 DEF RunInv
  <1>11. None \notin {root, operator}
    BY Constants
  <1>12. RunInv(r, o)'
    <2>1. position' > 2 \/ (position' = 2 /\ waiting' = None) => nonce'[root] >= r + 2
      BY <1>3, <1>9, <1>10, <1>11
    <2>2. ~(position' = 11 /\ waiting' = None)
      BY <1>9, <1>11
    <2> HIDE DEF k, n, own
    <2> QED
      BY <1>6, <1>8, <2>1, <2>2 DEF RunInv
  <1>13. \A tx, other \in pool' :
            tx.signer = other.signer /\ tx.nonce = other.nonce => tx = other
    <2>1. own.signer = signer /\ own.nonce = n
      OBVIOUS
    <2> HIDE DEF own, signer, n
    <2> QED
      BY <1>3, <2>1 DEF ScriptInv
  <1>14. localNonce' \in [Signer -> Nat]
    <2> HIDE DEF signer
    <2> QED
      BY <1>2, <1>3 DEF ScriptInv
  <1>15. /\ position' \in 0 .. 11
         /\ script' # "finished"
         /\ nonce' \in [Signer -> Nat]
    BY <1>1, <1>3 DEF ScriptInv
  <1> QED
    BY <1>7, <1>9, <1>12, <1>13, <1>14, <1>15 DEF ScriptInv

LEMMA StartStep ==
    ASSUME ScriptInv, Start
    PROVE  ScriptInv'
  <1>1. /\ position' = 0 /\ localNonce' = nonce /\ waiting' = None
        /\ script' = "running"
        /\ UNCHANGED <<worldVars, nonce, pool>>
    BY DEF Start
  <1>2. ChainInv'
    BY <1>1, ChainSame DEF ScriptInv, ChainInv
  <1>3. nonce[root] \in Nat /\ nonce[operator] \in Nat
    BY DEF ScriptInv, Signer
  <1>4. PICK r \in Nat, o \in Nat : r = nonce[root] /\ o = nonce[operator]
    BY <1>3
  <1>5. RunInv(r, o)'
    <2>1. /\ localNonce'[root] = r + position' /\ localNonce'[operator] = o
          /\ position' = 0 /\ 1 .. position' = {}
      BY <1>1, <1>4
    <2> QED
      BY <2>1 DEF RunInv
  <1>6. \E m, n \in Nat : RunInv(m, n)'
    BY <1>5
  <1> QED
    BY <1>1, <1>2, <1>6 DEF ScriptInv

LEMMA PollStep ==
    ASSUME ScriptInv, Poll
    PROVE  ScriptInv'
  <1>1. /\ waiting # None /\ waiting' = None
        /\ nonce[waiting] = localNonce[waiting]
        /\ UNCHANGED <<worldVars, nonce, pool, script, position, localNonce>>
        /\ script = "running"
    BY DEF Poll, Accepted
  <1>2. ChainInv' /\ Grows
    BY <1>1, ChainSame DEF ScriptInv, ChainInv
  <1>3. PICK r \in Nat, o \in Nat : RunInv(r, o)
    BY DEF ScriptInv
  <1>4. ASSUME NEW k \in 1 .. position
        PROVE  \/ Pending(r, o, k)'
               \/ NonceAt(r, o, k) < nonce'[SignerOf(k)] /\ Done(k)'
    <2>1. k \in 1 .. 11
      BY DEF ScriptInv
    <2>2. Pending(r, o, k) => Pending(r, o, k)'
      BY <1>1 DEF Pending
    <2>3. Done(k) => Done(k)'
      BY <1>2, <2>1, DoneStays DEF ScriptInv
    <2> QED
      BY <1>1, <1>3, <2>2, <2>3 DEF RunInv
  <1>5. position = 2 => nonce[root] >= r + 2
    <2>1. position = 2 => waiting = root /\ localNonce[root] = r + 2
      BY <1>1, <1>3 DEF ScriptInv, RunInv
    <2> QED
      BY <1>1, <2>1
  <1>6. position = 11 => nonce[operator] >= o + 9
    <2>1. position = 11 => waiting = operator /\ localNonce[operator] = o + 9
      BY <1>1, <1>3 DEF ScriptInv, RunInv
    <2> QED
      BY <1>1, <2>1
  <1>7. RunInv(r, o)'
    BY <1>1, <1>3, <1>4, <1>5, <1>6 DEF RunInv
  <1> QED
    BY <1>1, <1>2, <1>7 DEF ScriptInv

\* The other steps move neither the run nor the nonces.
LEMMA OtherStep ==
    ASSUME ScriptInv, UNCHANGED <<nonce, localNonce, position, waiting>>,
           ChainInv', Grows,
           pool \subseteq pool',
           \A tx, other \in pool' :
              tx.signer = other.signer /\ tx.nonce = other.nonce => tx = other,
           script' = "finished" => script = "finished" \/ (position = 11 /\ waiting = None)
    PROVE  ScriptInv'
  <1>1. PICK r \in Nat, o \in Nat : RunInv(r, o)
    BY DEF ScriptInv
  <1>2. RunInv(r, o)'
    BY <1>1, RunQuiet
  <1> QED
    BY <1>2 DEF ScriptInv

LEMMA ScriptStepInv == NothingNamed /\ ScriptInv /\ [ScriptNext]_scriptVars => ScriptInv'
  <1> SUFFICES ASSUME NothingNamed, ScriptInv, [ScriptNext]_scriptVars PROVE ScriptInv'
    OBVIOUS
  <1>1. /\ ChainInv /\ now \in Nat
        /\ \A tx, other \in pool : tx.signer = other.signer /\ tx.nonce = other.nonce => tx = other
    BY DEF ScriptInv, ChainInv
  <1>2. ASSUME UNCHANGED worldVars PROVE ChainInv' /\ Grows
    BY <1>1, <1>2, ChainSame
  <1>3. ASSUME NEW s \in Signer, Include(s) PROVE ScriptInv'
    BY <1>3, IncludeStep
  <1>4. ASSUME NEW s \in Signer, OtherClient(s) PROVE ScriptInv'
    <2>0. PICK call \in OtherCalls(s) : Submit(s, nonce[s], call)
      BY <1>4 DEF OtherClient
    <2> DEFINE new == [signer |-> s, nonce |-> nonce[s], call |-> call]
    <2>1. /\ UNCHANGED <<worldVars, nonce, clientVars>>
          /\ pool' = pool \cup {new}
          /\ \A tx \in pool : <<tx.signer, tx.nonce>> # <<s, nonce[s]>>
          /\ new.signer = s /\ new.nonce = nonce[s]
      BY <1>4, <2>0 DEF OtherClient, Submit, Accepts
    <2> HIDE DEF new
    <2>2. \A tx, other \in pool' :
              tx.signer = other.signer /\ tx.nonce = other.nonce => tx = other
      BY <1>1, <2>1
    <2> QED
      BY <1>2, <2>1, <2>2, OtherStep
  <1>5. CASE UserCreatesCollection
    <2>1. PICK a \in CollectionCreators : CreateWithDeposit(a)
      BY <1>5 DEF UserCreatesCollection
    <2>2. UNCHANGED <<saleVars, clockVars, incubationVars, chainVars, clientVars>>
      BY <1>5 DEF UserCreatesCollection
    <2>3. ChainInv' /\ Grows
      BY <1>1, <2>1, <2>2, Constants, ChainCreates
    <2> QED
      BY <1>1, <2>2, <2>3, OtherStep
  <1>6. CASE Block
    <2>1. UNCHANGED <<vars, incubationVars, chainVars, clientVars, zeroDay>>
      BY <1>6 DEF Block, BeginBlock, FinalizeBlock, Clock!BeginBlock, Clock!FinalizeBlock
    <2>2. now' \in Nat
      <3>1. CASE BeginBlock
        BY <1>1, <3>1, WorldAssumption DEF BeginBlock, Clock!BeginBlock
      <3>2. CASE FinalizeBlock
        BY <1>1, <3>2 DEF FinalizeBlock, Clock!FinalizeBlock
      <3> QED
        BY <1>6, <3>1, <3>2 DEF Block
    <2>3. ChainInv' /\ Grows
      BY <1>1, <2>1, <2>2, ChainSame
    <2> QED
      BY <1>1, <2>1, <2>3, OtherStep
  <1>7. CASE Start
    BY <1>7, StartStep
  <1>8. CASE ScriptStep
    <2>1. CASE Refused
      BY <1>1, <1>2, <2>1, OtherStep DEF Refused
    <2>2. CASE Finish
      BY <1>1, <1>2, <2>2, OtherStep, TransactionFacts DEF Finish
    <2> QED
      BY <1>8, <2>1, <2>2, SendStep, PollStep DEF ScriptStep
  <1>9. CASE Kill
    BY <1>1, <1>2, <1>9, OtherStep DEF Kill
  <1>10. CASE UNCHANGED scriptVars
    BY <1>1, <1>2, <1>10, OtherStep
  <1> QED
    BY <1>3, <1>4, <1>5, <1>6, <1>7, <1>8, <1>9, <1>10 DEF ScriptNext

LEMMA ScriptStarts == NothingNamed /\ EnoughFunds /\ ScriptInit => ScriptInv
  <1> SUFFICES ASSUME NothingNamed, EnoughFunds, ScriptInit PROVE ScriptInv
    OBVIOUS
  <1>1. ChainInv
    <2>1. /\ nextCollectionId = 0
          /\ issuer = [c \in CollectionId |-> None]
      BY DEF ScriptInit, WorldInit, Init, RmrkInit
    <2>2. /\ overlord = Genesis.overlord
          /\ spiritCollectionId = None /\ originOfShellCollectionId = None
      BY DEF ScriptInit, WorldInit, Init, NothingNamed
    <2>3. Genesis.overlord \in Account \cup {None}
      BY NftSaleAssumption DEF GenesisConfig
    <2>4. now \in Nat /\ shellCollectionId = None
      BY WorldAssumption DEF ScriptInit, WorldInit, ClockAndIncubationInit, Clock!Init
    <2>5. /\ free = InitialFree
          /\ reserved = [a \in Account |-> 0]
          /\ InitialFree[root] \in Nat /\ InitialFree[operator] \in Nat
      BY Constants DEF ScriptInit, WorldInit, Init, BalancesInit
    <2>6. BalancesTypeOK /\ (Funded \/ Fundable)
      <3>1. BalancesTypeOK
        BY <2>5, Constants DEF BalancesTypeOK
      <3>2. free[root] = InitialFree[root] /\ free[operator] = InitialFree[operator]
            /\ reserved[root] = 0 /\ reserved[operator] = 0
        BY <2>5, Constants
      <3> QED
        BY <2>1, <2>5, <3>1, <3>2, Constants DEF EnoughFunds, Funded, Fundable, TotalBalance
    <2> QED
      BY <2>1, <2>2, <2>3, <2>4, <2>6, Constants DEF ChainInv, CollectionId
  <1>2. RunInv(0, 0)
    BY DEF ScriptInit, RunInv, Signer
  <1> QED
    BY <1>1, <1>2 DEF ScriptInit, ScriptInv

\* The transactions of a run that came to its end were all included.
LEMMA AllDone ==
    ASSUME ScriptInv, script = "finished", NEW k \in 1 .. 11
    PROVE  Done(k)
  <1>1. PICK r \in Nat, o \in Nat : RunInv(r, o)
    BY DEF ScriptInv
  <1>2. position = 11 /\ waiting = None
    BY DEF ScriptInv
  <1>3. nonce[root] >= r + 2 /\ nonce[operator] >= o + 9
    BY <1>1, <1>2 DEF RunInv
  <1>4. NonceAt(r, o, k) < nonce[SignerOf(k)]
    <2>1. nonce[root] \in Nat /\ nonce[operator] \in Nat
      BY DEF ScriptInv, Signer
    <2> QED
      BY <1>3, <2>1 DEF NonceAt, SignerOf
  <1>5. ~Pending(r, o, k)
    <2>1. nonce[SignerOf(k)] \in Nat /\ NonceAt(r, o, k) \in Nat
      BY RunTypes DEF ScriptInv
    <2> QED
      BY <1>4, <2>1 DEF Pending
  <1> QED
    BY <1>1, <1>2, <1>5 DEF RunInv

LEMMA EndMeansSetUp == ScriptInv => FinishedMeansSetUp
  <1> SUFFICES ASSUME ScriptInv, script = "finished",
                      \A c \in 0 .. 2 : issuer[c] \in {operator, None}
               PROVE  SetUp
    BY DEF FinishedMeansSetUp
  <1>1. \A k \in 1 .. 11 : Done(k)
    BY AllDone
  <1>2. /\ overlord = operator /\ zeroDay # None /\ nextCollectionId >= 3
        /\ spiritCollectionId = 0 /\ originOfShellCollectionId = 1
        /\ shellCollectionId = 2
        /\ inventorySet /\ "ClaimSpirits" \in status
    BY <1>1 DEF Done
  <1>3. \A c \in 0 .. 2 : issuer[c] = operator
    <2> SUFFICES ASSUME NEW c \in 0 .. 2 PROVE issuer[c] # None
      OBVIOUS
    <2>1. c \in CollectionId /\ c < nextCollectionId
      BY <1>2, Constants DEF ScriptInv, ChainInv, CollectionId
    <2> QED
      BY <2>1 DEF ScriptInv, ChainInv
  <1>4. SeparateCollections
    BY <1>2, Constants DEF SeparateCollections
  <1> QED
    BY <1>2, <1>3, <1>4 DEF SetUp

\* On a chain whose genesis names no collections, and with the funds for three
\* deposits, a script that comes to its end has set up the sale, however often
\* it was killed and run again and however many unrelated calls, or calls of
\* the same preparation, other clients have sent from its accounts.
THEOREM FinishedMeansSetUpCorrect == NothingNamed /\ ScriptSpec => []FinishedMeansSetUp
  <1> SUFFICES ASSUME NothingNamed PROVE ScriptSpec => []FinishedMeansSetUp
    OBVIOUS
  <1>1. ScriptInv => FinishedMeansSetUp
    BY EndMeansSetUp
  <1>2. EnoughFunds /\ ScriptInit => ScriptInv
    BY ScriptStarts
  <1>3. ScriptInv /\ [ScriptNext]_scriptVars => ScriptInv'
    BY ScriptStepInv
  <1>4. ~EnoughFunds => FinishedMeansSetUp
    BY DEF FinishedMeansSetUp
  <1> HIDE DEF scriptVars
  <1>5. CASE EnoughFunds
    BY <1>1, <1>2, <1>3, <1>5, PTL DEF ScriptSpec
  <1>6. CASE ~EnoughFunds
    BY <1>4, <1>6, PTL
  <1> QED
    BY <1>5, <1>6
=============================================================================
