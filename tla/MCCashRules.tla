----------------------------- MODULE MCCashRules -----------------------------
(***************************************************************************)
(* The cases of CashReadings: one state per reading, and every short       *)
(* history of one cassette: withdrawals, refills, idle hours and readings  *)
(* of one moment.                                                          *)
(***************************************************************************)
EXTENDS CashReadings

CONSTANTS MaxReadings, MaxGap    \* bounds of the histories

Unit(type, count, xfsStatus, rejected, capacity) ==
    [type |-> type, denomination |-> IF type = "cash" THEN 1000 ELSE 0, count |-> count,
     rejected |-> rejected, retracted |-> rejected - 1, capacity |-> capacity, status |-> xfsStatus]

CashUnits == {Unit("cash", n, s, 1, 0) :
    n \in {0, 1, 30, 31, 100, 101, 300, 301}, s \in {"OK", "LOW", "EMPTY", "MISSING", "INOPERATIVE"}}
Others  == {Unit("cash", 150, "OK", 2, 0), Unit("cash", 5, "OK", 0, 0)}
Rejects == {Unit("reject", n, s, 1, c) : n \in {0, 3, 4, 5}, s \in {"OK", "HIGH"}, c \in {0, 5}}

Layouts ==
    {<< >>,
     <<[cassette_no |-> 1, currency |-> "USD"]>>,
     <<[cassette_no |-> 2, currency |-> "SAR", denomination |-> 50],
       [cassette_no |-> 1, currency |-> "YER", low_threshold |-> 100, critical_threshold |-> 1]>>}

Cases ==
    [layout : Layouts, enabled : {TRUE}, pending : BOOLEAN,
     units : {<<u>> : u \in CashUnits} \cup {<<r, u, o>> : r \in Rejects, u \in CashUnits, o \in Others}]
    \cup [layout : Layouts, enabled : BOOLEAN, pending : {FALSE}, units : {<< >>} \cup {<<r>> : r \in Rejects}]

\* The case of which the histories are.
Unread == [layout |-> << >>, enabled |-> TRUE, pending |-> FALSE, units |-> << >>]

Init == case \in Cases /\ readings = << >>

\* A snapshot arrives: some hours later, with any count.
Read ==
    /\ case = Unread
    /\ Len(readings) < MaxReadings
    /\ \E n \in 0 .. MaxNotes, gap \in 0 .. MaxGap :
        readings' = Append(readings,
            [at |-> (IF readings = << >> THEN 0 ELSE Last(readings).at) + gap, count |-> n])
    /\ UNCHANGED case

Next == Read
Spec == Init /\ [][Next]_<<case, readings>>

===============================================================================
