------------------------------- MODULE CashBoard -------------------------------
(***************************************************************************)
(* What cash monitoring promises its users: the board shows, for each      *)
(* cassette, one reading of it, never replaces it by an earlier one, and   *)
(* has the alerts open that the shown reading asks for.                    *)
(* submit_cash_snapshot in backend/app/routers/cash.py is meant to         *)
(* implement this.                                                         *)
(***************************************************************************)
EXTENDS Integers

CONSTANTS
    Units,             \* the cassettes, and 0 for the reject bin
    Counts,            \* the counts a unit may have
    Times,             \* the times of readings, all above 0
    Alerts(_, _)       \* the alerts a unit's count asks for

VARIABLES
    board,             \* unit -> the reading shown (at, count); at = 0 when there is none
    open               \* unit -> the types of its open alerts

boardVars == <<board, open>>

BoardInit ==
    /\ board = [u \in Units |-> [at |-> 0, count |-> 0]]
    /\ open = [u \in Units |-> {}]

\* A newer reading of some units arrives.
Show(read) ==
    /\ \E at \in Times :
        /\ \A u \in DOMAIN read : at > board[u].at
        /\ board' = [u \in Units |-> IF u \in DOMAIN read THEN [at |-> at, count |-> read[u]] ELSE board[u]]
    /\ open' = [u \in Units |-> IF u \in DOMAIN read THEN Alerts(u, read[u]) ELSE open[u]]

BoardNext == \E us \in SUBSET Units : \E read \in [us -> Counts] : Show(read)

BoardSpec == BoardInit /\ [][BoardNext]_boardVars

================================================================================
