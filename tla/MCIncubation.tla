---------------------------- MODULE MCIncubation ----------------------------
(***************************************************************************)
(* Instances of Incubation for TLC: the Overlord and two other accounts,   *)
(* at most two shells.                                                     *)
(***************************************************************************)
EXTENDS Incubation

CONSTANTS ov, a1, a2

\* The clock was started in the genesis block.
RunningClock == [zeroDay |-> 0, era |-> 0]

ShellsOf(rarities) ==
    {<<[owner |-> a, attrs |-> [rarity |-> r, race |-> "Cyborg", career |-> "RoboWarrior"]]>> :
        a \in Account, r \in rarities}

PrimeShells == ShellsOf({"Prime"})

TwoKinds == ShellsOf({"Prime", "Magic"})
=============================================================================
