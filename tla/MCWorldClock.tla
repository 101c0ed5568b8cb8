---------------------------- MODULE MCWorldClock ----------------------------
(***************************************************************************)
(* WorldClock for TLC.                                                     *)
(***************************************************************************)
EXTENDS WorldClock

\* A genesis with a zero day in the future and an era that is not 0.
LateGenesis == [zeroDay |-> 20, era |-> 2]

\* The same era where the Overlord is still to start the clock.
NotStarted ==
    /\ now = StartTime
    /\ zeroDay = None
    /\ era = Genesis.era
    /\ executing = FALSE

EitherGenesis == Init \/ NotStarted

LateOrNotStarted == EitherGenesis /\ [][Next]_vars /\ Fairness
=============================================================================
