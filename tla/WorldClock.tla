----------------------------- MODULE WorldClock -----------------------------
(***************************************************************************)
(* The clock of Phala World: the zero day, and the eras that on_finalize   *)
(* of the pallet counts from it, at most one in each block                 *)
(* (pallets/phala-world/src/nft_sale.rs). Time is in whole seconds, as     *)
(* T::Time::now().as_secs(); times and eras are u64, which wrap around in  *)
(* a release build.                                                        *)
(*                                                                         *)
(* A block sets the timestamp, executes calls and is finalized; the only   *)
(* call that matters here starts the clock.                                *)
(***************************************************************************)
EXTENDS Integers

CONSTANTS
    None,
    U64Max,        \* the largest u64 (bound: a small one in an instance)
    SecondsPerEra,
    Genesis,       \* [zeroDay, era] of the GenesisConfig
    StartTime,     \* the timestamp of the genesis block
    Gaps,          \* bound: the seconds that may pass between two blocks
    MaxTime        \* bound: the last timestamp

VARIABLES
    now,        \* T::Time::now
    zeroDay,    \* ZeroDay
    era,        \* Era
    executing   \* a block is open: its calls run, it is not finalized yet

vars == <<now, zeroDay, era, executing>>

U64 == 0 .. U64Max

ASSUME WorldClockAssumption ==
    /\ None \notin Nat
    /\ U64Max \in Nat
    /\ SecondsPerEra \in Nat \ {0}
    /\ Genesis \in [zeroDay : U64 \cup {None}, era : U64]
    /\ StartTime \in U64
    /\ Gaps \subseteq Nat
    /\ MaxTime \in U64

TypeOK ==
    /\ now \in U64
    /\ zeroDay \in U64 \cup {None}
    /\ era \in U64
    /\ executing \in BOOLEAN

Init ==
    /\ now = StartTime
    /\ zeroDay = Genesis.zeroDay
    /\ era = Genesis.era
    /\ executing = FALSE

\* The next block begins: its timestamp is set. From MaxTime on blocks come
\* without time passing, an instance's end of time.
BeginBlock ==
    /\ ~executing
    /\ executing' = TRUE
    /\ \/ \E gap \in Gaps : now + gap <= MaxTime /\ now' = now + gap
       \/ now' = now /\ \A gap \in Gaps : now + gap > MaxTime
    /\ UNCHANGED <<zeroDay, era>>

\* Day zero is the last boundary of an era.
ZeroDayOf(t) == t - (t % SecondsPerEra)

\* initialize_world_clock, by the Overlord.
InitializeWorldClock ==
    /\ executing
    /\ zeroDay = None
    /\ zeroDay' = ZeroDayOf(now)
    /\ UNCHANGED <<now, era, executing>>

\* current_time - zero_day, in u64: a day that is still to come makes it huge.
SecsSince(day, t) == (t - day) % (U64Max + 1)

\* Mutant: does not look whether the zero day is still to come.
EraOver_NoGuard == zeroDay # None /\ SecsSince(zeroDay, now) \div SecondsPerEra > era

\* The condition on which on_finalize counts an era.
EraOver ==
    /\ zeroDay # None
    /\ now > zeroDay
    /\ SecsSince(zeroDay, now) \div SecondsPerEra > era

\* Mutant: the era that just began counts as over.
FinalizeBlock_OffByOne ==
    /\ executing
    /\ executing' = FALSE
    /\ era' = IF /\ zeroDay # None
                /\ now > zeroDay
                /\ SecsSince(zeroDay, now) \div SecondsPerEra >= era
              THEN era + 1 ELSE era
    /\ UNCHANGED <<now, zeroDay>>

\* Mutant: forgets to count.
FinalizeBlock_Stops ==
    /\ executing
    /\ executing' = FALSE
    /\ UNCHANGED <<now, zeroDay, era>>

\* on_finalize
FinalizeBlock ==
    /\ executing
    /\ executing' = FALSE
    /\ era' = IF EraOver THEN era + 1 ELSE era
    /\ UNCHANGED <<now, zeroDay>>

Next == BeginBlock \/ InitializeWorldClock \/ FinalizeBlock

\* Blocks are produced and finalized for ever; nobody has to start the clock.
Fairness == WF_vars(BeginBlock) /\ WF_vars(FinalizeBlock)

Spec == Init /\ [][Next]_vars /\ Fairness
-----------------------------------------------------------------------------
(* Correctness.                                                            *)

\* The eras that have passed since a day when the clock shows t, in exact
\* numbers: none while the day is to come.
ErasSince(day, t) == IF day = None \/ t <= day THEN 0 ELSE (t - day) \div SecondsPerEra

\* What on_finalize decides in 64 bits is what exact numbers say: neither the
\* seconds since a zero day that is still to come nor the counter wraps.
NothingWraps ==
    /\ EraOver <=> ErasSince(zeroDay, now) > era
    /\ EraOver => era < U64Max

\* The era in storage is never ahead of the clock, however blocks are spaced
\* and whenever the clock is started (a genesis may start it ahead).
EraNeverAhead == era <= Genesis.era \/ era <= ErasSince(zeroDay, now)

\* If no two blocks are more than an era apart and the pallet itself starts
\* the clock, the era is exact at the end of every block: counting one era
\* per block loses none.
EraExact ==
    (\A gap \in Gaps : gap <= SecondsPerEra) /\ Genesis = [zeroDay |-> None, era |-> 0]
        => (~executing => era = ErasSince(zeroDay, now))

\* However long the chain stood still, the era catches up with the clock.
EraCatchesUp == []<>(era >= ErasSince(zeroDay, now))
=============================================================================
