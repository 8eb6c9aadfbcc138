--------------------------- MODULE MCCashMonitoring ---------------------------
(***************************************************************************)
(* The instances of CashMonitoring that TLC checks; a run takes one of     *)
(* them at its start.  The largest bounds are in the .cfg files.           *)
(***************************************************************************)
EXTENDS CashMonitoring

CONSTANT Instances   \* those of the run

VARIABLE instance

BehindAndAhead == {-1, 1, 3}

\* Both cassettes, late and lost snapshots, one change at the ATM.
Main == INSTANCE CashMonitoring WITH MaxClock <- 5, MaxChanges <- 1
\* How long a fresh reading is refused: one cassette, two changes, nothing late.
Blind == INSTANCE CashMonitoring WITH MaxLate <- 1
\* Two requests at a time.
Overlap == INSTANCE CashMonitoring WITH MaxClock <- 4, MaxChanges <- 1

MCInit ==
    /\ instance \in Instances /\ Init
    /\ listed = IF instance = "blind" THEN {1} ELSE Cassettes

InTurn == \A w \in Workers \ {1} : handling'[w] = Idle
FirstOnly == listed' = {1} /\ cash'[2] = cash[2]

MCNext ==
    /\ UNCHANGED instance
    /\ \/ instance = "main" /\ Main!Next /\ InTurn
       \/ instance = "blind" /\ Blind!Next /\ InTurn /\ FirstOnly
       \/ instance = "overlap" /\ Overlap!Next

MCSpec == MCInit /\ [][MCNext]_<<vars, instance>>
================================================================================
