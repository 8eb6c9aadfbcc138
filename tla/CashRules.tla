------------------------------ MODULE CashRules ------------------------------
(***************************************************************************)
(* The rules of cash monitoring, as functions of their inputs:             *)
(*   - the layout of an ATM (backend/app/cash_layout.py), and what the     *)
(*     agent makes of the one it is sent (agent/config_manager.py);        *)
(*   - what the agent reports of the units the dispenser lists             *)
(*     (XfsCdmProvider in agent/cash_monitoring_module.py);                *)
(*   - the alerts the server raises, the verification it shows and the     *)
(*     forecast it makes (backend/app/routers/cash.py).                    *)
(* Times are hours here; the forecast's figures are in hundredths, as the  *)
(* code rounds to two digits.                                              *)
(***************************************************************************)
EXTENDS Integers, Sequences, FiniteSets, SequencesExt, FiniteSetsExt

---------------------------------------------------------------------------
(* Layouts.                                                                *)

\* _default_item_for.
DefaultItem(no, currency) ==
    [cassette_no |-> no,
     currency |-> "YER",
     denomination |-> IF currency \in {"USD", "SAR"} THEN 100 ELSE 1000,
     max_capacity |-> 2000,
     low_threshold |-> IF currency \in {"USD", "SAR"} THEN 100 ELSE 300,
     critical_threshold |-> IF currency \in {"USD", "SAR"} THEN 30 ELSE 100]

\* The default for "item.currency" and the like, then base.update(item).
Completed(item) ==
    LET base == DefaultItem(item.cassette_no, item.currency)
    IN  [f \in DOMAIN base |-> IF f \in DOMAIN item THEN item[f] ELSE base[f]]

\* normalized_cash_layout: an ATM without a layout has four YER cassettes.
Normalized(layout) ==
    IF layout = << >> THEN [no \in 1 .. 4 |-> DefaultItem(no, "YER")]
    ELSE [i \in DOMAIN layout |-> Completed(layout[i])]

\* layout_by_cassette: later items win.
LayoutMap(layout) ==
    LET items == Normalized(layout)
    IN  [no \in {items[i].cassette_no : i \in DOMAIN items} |->
            items[Max({i \in DOMAIN items : items[i].cassette_no = no})]]

\* The agent's "int(item.get(...) or default)": zero counts as missing.
OrDefault(value, default) == IF value = 0 THEN default ELSE value
AgentItem(item) ==
    [item EXCEPT !.max_capacity = OrDefault(@, 2000),
                 !.low_threshold = OrDefault(@, 300),
                 !.critical_threshold = OrDefault(@, 100)]

\* XfsCdmProvider._layout_for, from the configuration's items.
AgentLayoutFor(map, no) ==
    IF no \in DOMAIN map THEN AgentItem(map[no]) ELSE DefaultItem(no, "YER")

---------------------------------------------------------------------------
(* The agent's report.  The dispenser lists its units as records of type   *)
(* (cash or reject), denomination, counts, capacity and status.            *)

IsRejectUnit(u) == u.denomination <= 0 \/ u.type = "reject"

CashStatusBelow(count, item, xfsStatus) ==
    IF xfsStatus \in {"MISSING", "INOPERATIVE", "EMPTY"} THEN xfsStatus
    ELSE IF count <= 0 THEN "EMPTY" ELSE IF count < item.low_threshold THEN "LOW" ELSE "OK"
CashStatus(count, item, xfsStatus) ==
    IF xfsStatus \in {"MISSING", "INOPERATIVE", "EMPTY"} THEN xfsStatus
    ELSE IF count <= 0 THEN "EMPTY" ELSE IF count <= item.low_threshold THEN "LOW" ELSE "OK"

PhysicalStatus(xfsStatus) ==
    IF xfsStatus \in {"MISSING", "INOPERATIVE"} THEN xfsStatus ELSE "PRESENT"

SafeRetract(u) == IF u.retracted \in 0 .. 100000 THEN u.retracted ELSE 0

\* get_dispense_cash_snapshot: the dispensing units, numbered in their order.
Reported(units, map) ==
    LET cash == SelectSeq(units, LAMBDA u : ~IsRejectUnit(u))
    IN  [i \in DOMAIN cash |->
            LET item == AgentLayoutFor(map, i)
            IN  [cassette_no |-> i, count |-> cash[i].count,
                 currency |-> item.currency, denomination |-> item.denomination,
                 status |-> CashStatus(cash[i].count, item, cash[i].status),
                 physical |-> PhysicalStatus(cash[i].status)]]

\* get_reject_retract_status.
RejectRetract(units) ==
    LET rejects  == SelectSeq(units, IsRejectUnit)
        cash     == SelectSeq(units, LAMBDA u : ~IsRejectUnit(u))
        total(s, Val(_)) == FoldSeq(LAMBDA u, n : n + Val(u), 0, s)
        held     == total(rejects, LAMBDA u : u.count)
        faulty   == SelectSeq(rejects, LAMBDA u : u.status \notin {"OK", "LOW"})
        capacity == {rejects[i].capacity : i \in DOMAIN rejects} \ {0}
    IN  [reject |-> IF held > 0 THEN held ELSE total(cash, LAMBDA u : u.rejected),
         retract |-> total(units, SafeRetract),
         rejectStatus |-> IF faulty = << >> THEN "OK" ELSE Head(faulty).status,
         retractStatus |-> "OK",
         capacity |-> IF capacity = {} THEN 100 ELSE Max(capacity)]

---------------------------------------------------------------------------
(* The server's alerts.                                                    *)

\* cash_count_alert: none, or one.
CountAlerts(count, low, critical) ==
    IF count <= 0 THEN {"CASH_EMPTY"}
    ELSE IF count <= critical THEN {"CASH_CRITICAL"}
    ELSE IF count <= low THEN {"CASH_LOW"} ELSE {}

\* cassette_health_alert.
HealthAlerts(status, physical) ==
    IF physical \notin {"PRESENT", "OK"} THEN {"CASSETTE_MISSING"}
    ELSE IF status \in {"INOP", "INOPERATIVE", "ERROR", "FATAL"} THEN {"CASSETTE_INOP"} ELSE {}

\* layout_match_status.
Mismatches(currency, denomination, item) ==
    {t \in {"CURRENCY_MISMATCH", "DENOMINATION_MISMATCH"} :
        \/ t = "CURRENCY_MISMATCH" /\ currency # item.currency
        \/ t = "DENOMINATION_MISMATCH" /\ denomination # item.denomination}

\* The item a unit is judged by: its own values and the ATM's thresholds when
\* the layout has none.
ItemFor(u, map, atm) ==
    IF u.cassette_no \in DOMAIN map THEN map[u.cassette_no]
    ELSE [cassette_no |-> u.cassette_no, currency |-> u.currency, denomination |-> u.denomination,
          max_capacity |-> 2000, low_threshold |-> atm.low, critical_threshold |-> atm.critical]

\* active_types for one unit of a snapshot.  What a configured cassette holds
\* is taken from the layout, whatever the agent says, and an unconfigured one
\* is judged by itself: neither can mismatch.
ActiveAlerts(u, map, atm) ==
    LET item == ItemFor(u, map, atm)
    IN  CountAlerts(u.count, item.low_threshold, item.critical_threshold)
        \cup HealthAlerts(u.status, u.physical)

\* The reject and retract bins.
RejectHigh(capacity) == Max({1, (capacity * 8) \div 10})
BinAlerts(bin) ==
    {t \in {"REJECT_BIN_FULL", "REJECT_BIN_HIGH", "RETRACT_OCCURRED"} :
        \/ t = "REJECT_BIN_FULL" /\ bin.reject >= bin.capacity
        \/ t = "REJECT_BIN_HIGH" /\ bin.reject < bin.capacity /\ bin.reject >= RejectHigh(bin.capacity)
        \/ t = "RETRACT_OCCURRED" /\ bin.retract > 0}

---------------------------------------------------------------------------
(* cash_verification_summary: the issues found in the stored units, a set  *)
(* of units with one cassette number each, under the present layout.       *)

LayoutIssueCodes == {"CURRENCY_MISMATCH", "DENOMINATION_MISMATCH", "MISSING_READING",
                     "UNCONFIGURED_CASSETTE"}

\* apply_current_layout_to_units.
UnderLayout(u, map) ==
    IF u.cassette_no \in DOMAIN map
    THEN [u EXCEPT !.currency = map[u.cassette_no].currency,
                   !.denomination = map[u.cassette_no].denomination]
    ELSE u

UnitIssuesConfigured(u, map) ==
    IF u.cassette_no \notin DOMAIN map THEN {}
    ELSE LET item == map[u.cassette_no]
         IN  {u.cassette_no} \X (HealthAlerts(u.status, u.physical)
                \cup CountAlerts(u.count, item.low_threshold, item.critical_threshold))
UnitIssues(u, map) ==
    IF u.cassette_no \notin DOMAIN map THEN {<<u.cassette_no, "UNCONFIGURED_CASSETTE">>}
    ELSE LET item == map[u.cassette_no]
         IN  {u.cassette_no} \X (Mismatches(u.currency, u.denomination, item)
                \cup HealthAlerts(u.status, u.physical)
                \cup CountAlerts(u.count, item.low_threshold, item.critical_threshold))

MissingIssues(units, map) ==
    {<<no, "MISSING_READING">> : no \in DOMAIN map \ {u.cassette_no : u \in units}}

StatusIssuesOf(bin) ==
    (IF bin.rejectStatus \notin {"OK", "LOW"} THEN {"REJECT_BIN_STATUS"} ELSE {})
    \cup (IF bin.retractStatus \notin {"OK", "LOW"} THEN {"RETRACT_BIN_STATUS"} ELSE {})
BinIssues(bin) == {0} \X (BinAlerts(bin) \cup StatusIssuesOf(bin))

\* The issues and the verdict.  Cassette 0 stands for the ATM.
Verification(enabled, pending, units, bin, map) ==
    IF ~enabled THEN [status |-> "disabled", issues |-> {<<0, "CASH_MONITORING_DISABLED">>}]
    ELSE LET config == IF pending THEN {<<0, "CONFIG_PENDING">>} ELSE {}
         IN  IF units = {} THEN [status |-> "no_reading", issues |-> config \cup {<<0, "NO_READING">>}]
             ELSE LET issues == config \cup MissingIssues(units, map) \cup BinIssues(bin)
                                \cup UNION {UnitIssues(u, map) : u \in units}
                  IN  [issues |-> issues,
                       status |-> IF \E i \in issues : i[2] \in LayoutIssueCodes THEN "mismatch"
                                  ELSE IF issues # {} THEN "warning" ELSE "matched"]

---------------------------------------------------------------------------
(* forecast_for_unit.  Readings are a sequence of records (at, count) by   *)
(* increasing time.                                                        *)

\* round(a / b, 2) in hundredths, half to even.
Hundredths(a, b) ==
    LET q == (100 * a) \div b
        r == (100 * a) % b
    IN  IF 2 * r > b \/ (2 * r = b /\ q % 2 = 1) THEN q + 1 ELSE q

\* The intervals in which notes were taken out.
DropsAndIdle(readings) ==
    {i \in 1 .. Len(readings) - 1 :
        readings[i + 1].at > readings[i].at /\ readings[i].count >= readings[i + 1].count}
Drops(readings) ==
    {i \in 1 .. Len(readings) - 1 :
        readings[i + 1].at > readings[i].at /\ readings[i].count > readings[i + 1].count}

NotesDropped(readings) ==
    SumFunction([i \in Drops(readings) |-> readings[i].count - readings[i + 1].count])
HoursOfDrops(readings) ==
    SumFunction([i \in Drops(readings) |-> readings[i + 1].at - readings[i].at])

None == -1

\* notes_per_day: of withdrawals that are few and slow it may be rounded to zero.
NotesPerDay(readings) ==
    IF Drops(readings) = {} THEN None
    ELSE Hundredths(24 * NotesDropped(readings), HoursOfDrops(readings))

\* days_to_empty, days_to_low.
DaysTo(level, count, readings) ==
    IF NotesPerDay(readings) \in {None, 0} THEN None
    ELSE Hundredths(100 * Max({0, count - level}), NotesPerDay(readings))

\* cash_risk.
Risk(count, low, critical, daysToEmpty) ==
    IF count <= critical \/ (daysToEmpty # None /\ daysToEmpty <= 100) THEN "CRITICAL"
    ELSE IF count <= low \/ (daysToEmpty # None /\ daysToEmpty <= 300) THEN "LOW" ELSE "OK"

\* cash_report_overview: the highest risk of an ATM's units.
RiskRank == [CRITICAL |-> 0, LOW |-> 1, STALE |-> 2, OK |-> 3, UNKNOWN |-> 4]
HighestRisk(risks) ==
    IF risks = {} THEN "UNKNOWN"
    ELSE CHOOSE r \in risks : \A other \in risks : RiskRank[r] <= RiskRank[other]

==========================================================================
