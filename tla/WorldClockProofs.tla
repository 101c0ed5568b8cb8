-------------------------- MODULE WorldClockProofs ---------------------------
(***************************************************************************)
(* Theorems about WorldClock, for every value of its constants.            *)
(***************************************************************************)
EXTENDS WorldClock, TLAPS

\* Division by the length of an era.
LEMMA DivType == \A a \in Nat : a \div SecondsPerEra \in Nat
  BY WorldClockAssumption

LEMMA DivBounds ==
    \A a \in Nat : /\ SecondsPerEra * (a \div SecondsPerEra) <= a
                   /\ a < SecondsPerEra * (a \div SecondsPerEra) + SecondsPerEra
  BY WorldClockAssumption

LEMMA DivMonotone ==
    \A a, b \in Nat : a <= b => a \div SecondsPerEra <= b \div SecondsPerEra
  BY WorldClockAssumption

LEMMA DivStep ==
    \A a, b \in Nat : b <= a + SecondsPerEra =>
        b \div SecondsPerEra <= a \div SecondsPerEra + 1
  <1> SUFFICES ASSUME NEW a \in Nat, NEW b \in Nat, b <= a + SecondsPerEra
               PROVE  b \div SecondsPerEra <= a \div SecondsPerEra + 1
    OBVIOUS
  <1>1. (a + SecondsPerEra) \div SecondsPerEra = a \div SecondsPerEra + 1
    BY WorldClockAssumption
  <1>2. a + SecondsPerEra \in Nat
    BY WorldClockAssumption
  <1> QED
    BY <1>1, <1>2, DivMonotone

LEMMA DivSmall == \A a \in Nat : a < SecondsPerEra => a \div SecondsPerEra = 0
  BY WorldClockAssumption

\* The seconds elapsed between two times.
LEMMA Elapsed ==
    ASSUME NEW day \in Nat, NEW t \in Nat, NEW u \in Nat, day <= t, t <= u
    PROVE  /\ t - day \in Nat
           /\ u - day \in Nat
           /\ u <= t + SecondsPerEra => u - day <= (t - day) + SecondsPerEra
           /\ t < day + SecondsPerEra => t - day < SecondsPerEra
  BY WorldClockAssumption

\* A u64 is a natural number, and their difference is exact unless it wraps.
LEMMA U64IsNat == U64 \subseteq Nat
  BY WorldClockAssumption DEF U64

LEMMA SecsExact ==
    ASSUME NEW day \in U64, NEW t \in U64, day < t
    PROVE  SecsSince(day, t) = t - day
  <1>1. t - day \in 0 .. U64Max
    BY WorldClockAssumption DEF U64
  <1>2. \A n \in 0 .. U64Max : n % (U64Max + 1) = n
    BY WorldClockAssumption
  <1> QED
    BY <1>1, <1>2 DEF SecsSince

LEMMA ErasType ==
    ASSUME NEW day \in Nat \cup {None}, NEW t \in Nat
    PROVE  ErasSince(day, t) \in Nat
  <1>1. CASE day = None \/ t <= day
    BY <1>1 DEF ErasSince
  <1>2. CASE day # None /\ ~(t <= day)
    BY <1>2, DivType DEF ErasSince
  <1> QED
    BY <1>1, <1>2

LEMMA ErasMonotone ==
    ASSUME NEW day \in Nat \cup {None}, NEW t \in Nat, NEW u \in Nat, t <= u
    PROVE  ErasSince(day, t) <= ErasSince(day, u)
  <1>1. CASE day = None \/ t <= day
    <2>1. ErasSince(day, t) = 0
      BY <1>1 DEF ErasSince
    <2>2. ErasSince(day, u) \in Nat
      BY ErasType
    <2> QED
      BY <2>1, <2>2
  <1>2. CASE day # None /\ ~(t <= day)
    <2>1. t - day \in Nat /\ u - day \in Nat /\ t - day <= u - day /\ ~(u <= day)
      BY <1>2
    <2> QED
      BY <1>2, <2>1, DivMonotone DEF ErasSince
  <1> QED
    BY <1>1, <1>2

LEMMA ZeroDayType ==
    ASSUME NEW t \in Nat
    PROVE  ZeroDayOf(t) \in Nat /\ ZeroDayOf(t) <= t /\ t < ZeroDayOf(t) + SecondsPerEra
  <1>1. t % SecondsPerEra \in Nat /\ t % SecondsPerEra < SecondsPerEra
    BY WorldClockAssumption
  <1>2. t % SecondsPerEra <= t
    BY WorldClockAssumption
  <1> QED
    BY <1>1, <1>2, WorldClockAssumption DEF ZeroDayOf

LEMMA BlockTime ==
    ASSUME TypeOK, BeginBlock
    PROVE  now' \in U64 /\ now \in Nat /\ now' \in Nat /\ now <= now'
  BY WorldClockAssumption DEF TypeOK, BeginBlock, U64

\* On states within the types, on_finalize computes as with exact numbers.
LEMMA ExactDecision == TypeOK => NothingWraps
  <1> SUFFICES ASSUME TypeOK PROVE NothingWraps
    OBVIOUS
  <1>1. now \in U64 /\ now \in Nat /\ era \in Nat /\ era \in U64
    BY U64IsNat DEF TypeOK
  <1>2. CASE zeroDay # None /\ now > zeroDay
    <2>1. zeroDay \in U64 /\ zeroDay \in Nat
      BY <1>2, U64IsNat DEF TypeOK
    <2>2. SecsSince(zeroDay, now) = now - zeroDay
      BY <1>1, <1>2, <2>1, SecsExact
    <2>3. ErasSince(zeroDay, now) = (now - zeroDay) \div SecondsPerEra
      BY <1>1, <1>2, <2>1 DEF ErasSince
    <2>4. now - zeroDay \in Nat /\ now - zeroDay <= U64Max
      BY <1>1, <1>2, <2>1, WorldClockAssumption DEF U64
    <2>5. (now - zeroDay) \div SecondsPerEra \in Nat
      BY <2>4, DivType
    <2>6. (now - zeroDay) \div SecondsPerEra <= now - zeroDay
      BY <2>4, WorldClockAssumption
    <2>7. (now - zeroDay) \div SecondsPerEra <= U64Max
      BY <2>4, <2>5, <2>6, WorldClockAssumption
    <2>8. EraOver <=> (now - zeroDay) \div SecondsPerEra > era
      BY <1>2, <2>2 DEF EraOver
    <2> QED
      BY <1>1, <2>3, <2>5, <2>7, <2>8, WorldClockAssumption DEF NothingWraps
  <1>3. CASE ~(zeroDay # None /\ now > zeroDay)
    <2>1. ~EraOver
      BY <1>3 DEF EraOver
    <2>2. zeroDay = None \/ now <= zeroDay
      BY <1>1, <1>3, U64IsNat DEF TypeOK
    <2>3. ErasSince(zeroDay, now) = 0
      BY <2>2 DEF ErasSince
    <2> QED
      BY <1>1, <2>1, <2>3 DEF NothingWraps
  <1> QED
    BY <1>2, <1>3

LEMMA TypeStep == TypeOK /\ [Next]_vars => TypeOK'
  <1> SUFFICES ASSUME TypeOK, [Next]_vars PROVE TypeOK'
    OBVIOUS
  <1>1. CASE BeginBlock
    BY <1>1, BlockTime DEF BeginBlock, TypeOK
  <1>2. CASE InitializeWorldClock
    <2>1. now \in Nat /\ now \in U64
      BY U64IsNat DEF TypeOK
    <2>2. ZeroDayOf(now) \in U64
      <3>1. ZeroDayOf(now) \in Nat /\ ZeroDayOf(now) <= now
        BY <2>1, ZeroDayType
      <3> QED
        BY <2>1, <3>1, WorldClockAssumption DEF U64
    <2> QED
      BY <1>2, <2>2 DEF InitializeWorldClock, TypeOK
  <1>3. CASE FinalizeBlock
    <2>1. EraOver => era < U64Max
      BY ExactDecision DEF NothingWraps
    <2>2. era' \in U64
      <3>1. era \in U64 /\ U64Max \in Nat
        BY WorldClockAssumption DEF TypeOK
      <3>2. CASE EraOver
        BY <1>3, <2>1, <3>1, <3>2 DEF FinalizeBlock, U64
      <3>3. CASE ~EraOver
        BY <1>3, <3>1, <3>3 DEF FinalizeBlock
      <3> QED
        BY <3>2, <3>3
    <2> QED
      BY <1>3, <2>2 DEF FinalizeBlock, TypeOK
  <1>4. CASE UNCHANGED vars
    BY <1>4 DEF vars, TypeOK
  <1> QED
    BY <1>1, <1>2, <1>3, <1>4 DEF Next

LEMMA TypeInit == Init => TypeOK
  BY WorldClockAssumption DEF Init, TypeOK

\* Clock, zero day and era are u64, and what on_finalize decides with them is
\* what exact numbers say: its subtraction does not wrap, not even for a zero
\* day that is still to come, nor does the era it counts.
THEOREM NothingWrapsCorrect == Spec => []NothingWraps
  BY TypeInit, TypeStep, ExactDecision, PTL DEF Spec

LEMMA NeverAheadStep == TypeOK /\ EraNeverAhead /\ [Next]_vars => EraNeverAhead'
  <1> SUFFICES ASSUME TypeOK, EraNeverAhead, [Next]_vars PROVE EraNeverAhead'
    OBVIOUS
  <1> USE WorldClockAssumption DEF EraNeverAhead
  <1>0. now \in Nat /\ era \in Nat /\ zeroDay \in Nat \cup {None}
    BY U64IsNat DEF TypeOK
  <1>1. CASE BeginBlock
    <2>1. ErasSince(zeroDay, now) <= ErasSince(zeroDay, now')
      BY <1>1, <1>0, BlockTime, ErasMonotone
    <2>2. ErasSince(zeroDay, now) \in Nat /\ ErasSince(zeroDay, now') \in Nat
      BY <1>1, <1>0, BlockTime, ErasType
    <2> QED
      BY <1>0, <1>1, <2>1, <2>2 DEF BeginBlock
  <1>2. CASE InitializeWorldClock
    <2>1. ErasSince(zeroDay, now) = 0
      BY <1>2 DEF InitializeWorldClock, ErasSince
    <2>2. ErasSince(zeroDay', now) \in Nat
      BY <1>0, <1>2, ZeroDayType, ErasType DEF InitializeWorldClock
    <2> QED
      BY <1>0, <1>2, <2>1, <2>2 DEF InitializeWorldClock
  <1>3. CASE FinalizeBlock
    <2>1. ErasSince(zeroDay, now) \in Nat
      BY <1>0, ErasType
    <2>2. EraOver => ErasSince(zeroDay, now) > era
      BY ExactDecision DEF NothingWraps
    <2> QED
      BY <1>0, <1>3, <2>1, <2>2 DEF FinalizeBlock
  <1>4. CASE UNCHANGED vars
    BY <1>4 DEF vars
  <1> QED
    BY <1>1, <1>2, <1>3, <1>4 DEF Next

\* The era in storage never runs ahead of the clock, however the blocks are
\* spaced and whenever the clock is started.
THEOREM NeverAheadCorrect == Spec => []EraNeverAhead
  <1>1. Init => EraNeverAhead
    BY WorldClockAssumption DEF Init, EraNeverAhead, U64
  <1> QED
    BY <1>1, TypeInit, TypeStep, NeverAheadStep, PTL DEF Spec
-----------------------------------------------------------------------------
(* Exactness, if blocks come at least once in an era. While a block is     *)
(* open the era may be one behind.                                         *)

Steady == /\ \A gap \in Gaps : gap <= SecondsPerEra
          /\ Genesis = [zeroDay |-> None, era |-> 0]

ExactInv ==
    /\ zeroDay # None => zeroDay <= now
    /\ zeroDay = None => era = 0
    /\ ~executing => era = ErasSince(zeroDay, now)
    /\ era <= ErasSince(zeroDay, now) /\ ErasSince(zeroDay, now) <= era + 1

LEMMA ExactStep ==
    ASSUME Steady, TypeOK, ExactInv, [Next]_vars
    PROVE  ExactInv'
  <1> USE WorldClockAssumption
  <1>0. now \in Nat /\ era \in Nat /\ zeroDay \in Nat \cup {None}
    BY U64IsNat DEF TypeOK
  <1> USE <1>0
  <1>1. ErasSince(zeroDay, now) \in Nat
    BY ErasType
  <1>2. CASE BeginBlock
    <2>1. now' \in Nat /\ now <= now' /\ now' <= now + SecondsPerEra
      BY <1>2, BlockTime DEF BeginBlock, Steady
    <2>2. era = ErasSince(zeroDay, now)
      BY <1>2 DEF BeginBlock, ExactInv
    <2>3. CASE zeroDay = None
      BY <1>2, <2>2, <2>3 DEF BeginBlock, ExactInv, ErasSince
    <2>4. CASE zeroDay # None
      <3>0. zeroDay \in Nat /\ zeroDay <= now /\ now \in Nat /\ SecondsPerEra \in Nat
        BY <1>0, <2>4 DEF ExactInv
      <3>1. /\ now - zeroDay \in Nat
            /\ now' - zeroDay \in Nat
            /\ now' - zeroDay <= (now - zeroDay) + SecondsPerEra
        BY <2>1, <3>0, Elapsed
      <3>2. (now' - zeroDay) \div SecondsPerEra <= (now - zeroDay) \div SecondsPerEra + 1
        BY <3>1, DivStep
      <3>3. 0 \div SecondsPerEra = 0
        OBVIOUS
      <3>4. ErasSince(zeroDay, now) = (now - zeroDay) \div SecondsPerEra
        <4>1. CASE now = zeroDay
          BY <2>4, <3>3, <4>1 DEF ErasSince
        <4>2. CASE now # zeroDay
          BY <2>4, <3>1, <4>2 DEF ErasSince
        <4> QED
          BY <4>1, <4>2
      <3>5. ErasSince(zeroDay, now') = (now' - zeroDay) \div SecondsPerEra
        <4>1. CASE now' = zeroDay
          BY <2>4, <3>3, <4>1 DEF ErasSince
        <4>2. CASE now' # zeroDay
          BY <2>1, <2>4, <3>1, <4>2 DEF ErasSince
        <4> QED
          BY <4>1, <4>2
      <3>6. ErasSince(zeroDay, now) <= ErasSince(zeroDay, now')
        BY <2>1, ErasMonotone
      <3> QED
        BY <1>2, <2>1, <2>2, <2>4, <3>2, <3>4, <3>5, <3>6 DEF BeginBlock, ExactInv
    <2> QED
      BY <2>3, <2>4
  <1>3. CASE InitializeWorldClock
    <2>1. /\ zeroDay' \in Nat /\ zeroDay' <= now /\ now < zeroDay' + SecondsPerEra
          /\ zeroDay = None /\ now' = now /\ era' = era /\ executing' /\ era = 0
      BY <1>3, ZeroDayType DEF InitializeWorldClock, ExactInv
    <2>2. ErasSince(zeroDay', now) = 0
      <3>1. CASE now <= zeroDay'
        BY <2>1, <3>1 DEF ErasSince
      <3>2. CASE ~(now <= zeroDay')
        <4>0. now \in Nat /\ now <= now
          OBVIOUS
        <4>1. now - zeroDay' \in Nat /\ now - zeroDay' < SecondsPerEra
          BY <2>1, <4>0, Elapsed
        <4>2. (now - zeroDay') \div SecondsPerEra = 0
          BY <4>1, DivSmall
        <4> QED
          BY <2>1, <3>2, <4>2 DEF ErasSince
      <3> QED
        BY <3>1, <3>2
    <2> QED
      BY <2>1, <2>2 DEF ExactInv
  <1>4. CASE FinalizeBlock
    <2>1. /\ now' = now /\ zeroDay' = zeroDay /\ ~executing'
          /\ era' = IF EraOver THEN era + 1 ELSE era
      BY <1>4 DEF FinalizeBlock
    <2>2. CASE EraOver
      <3>1. ErasSince(zeroDay, now) > era
        BY <2>2, ExactDecision DEF NothingWraps
      <3>2. zeroDay # None
        BY <2>2 DEF EraOver
      <3>3. era + 1 = ErasSince(zeroDay, now)
        BY <1>1, <3>1 DEF ExactInv
      <3> QED
        BY <1>1, <2>1, <2>2, <3>2, <3>3 DEF ExactInv
    <2>3. CASE ~EraOver
      <3>1. ErasSince(zeroDay, now) <= era
        BY <1>0, <1>1, <2>3, ExactDecision DEF NothingWraps
      <3> QED
        BY <1>0, <1>1, <2>1, <2>3, <3>1 DEF ExactInv
    <2> QED
      BY <2>2, <2>3
  <1>5. CASE UNCHANGED vars
    BY <1>5 DEF vars, ExactInv
  <1> QED
    BY <1>2, <1>3, <1>4, <1>5 DEF Next

\* If no two blocks are more than an era apart and the pallet itself starts
\* the clock, the era is exact at the end of every block.
THEOREM EraExactCorrect == Spec => []EraExact
  <1>1. CASE Steady
    <2>1. Init => ExactInv
      BY <1>1, WorldClockAssumption DEF Init, ExactInv, Steady, ErasSince
    <2>2. TypeOK /\ ExactInv /\ [Next]_vars => ExactInv'
      BY <1>1, ExactStep
    <2>3. ExactInv => EraExact
      BY DEF ExactInv, EraExact
    <2> QED
      BY <2>1, <2>2, <2>3, TypeInit, TypeStep, PTL DEF Spec
  <1>2. CASE ~Steady
    <2>1. EraExact
      BY <1>2 DEF EraExact, Steady
    <2>2. EraExact /\ [Next]_vars => EraExact'
      BY <1>2 DEF EraExact, Steady
    <2> QED
      BY <2>1, <2>2, PTL DEF Spec
  <1> QED
    BY <1>1, <1>2
=============================================================================
