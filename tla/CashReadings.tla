----------------------------- MODULE CashReadings -----------------------------
(***************************************************************************)
(* The rules of CashRules put together: one reading from end to end (what  *)
(* the dispenser lists, what the agent reports of it, which alerts the     *)
(* server opens and what its verification says), and the forecast of a     *)
(* history of readings.                                                    *)
(***************************************************************************)
EXTENDS CashRules

CONSTANT MaxNotes      \* bound: notes in a cassette

VARIABLES
    case,          \* one reading, and what it is judged by
    readings       \* a history of readings

Map == LayoutMap(case.layout)
ReportedUnits == Range(Reported(case.units, Map))
ReportedBins == RejectRetract(case.units)
Atm == [low |-> 300, critical |-> 100]
Verdict ==
    Verification(case.enabled, case.pending, {UnderLayout(u, Map) : u \in ReportedUnits},
                 ReportedBins, Map)

---------------------------------------------------------------------------
(* Properties.                                                             *)

\* The agent and the server judge a cassette alike: it is reported low or
\* empty exactly when its alert says so, from thresholds each side completes
\* with its own defaults.
AgentAndServerAgree ==
    \A i \in DOMAIN Reported(case.units, Map) :
        LET u == Reported(case.units, Map)[i]
            alerts == ActiveAlerts(u, Map, Atm)
        IN  u.status \in {"OK", "LOW"} =>
                /\ "CASH_EMPTY" \notin alerts
                /\ u.status = "LOW" <=> alerts \cap {"CASH_CRITICAL", "CASH_LOW"} # {}

\* The verification says "matched" exactly when the reading has every
\* configured cassette and no other, nothing to alert about, sound bins, and
\* an agent with the present configuration.
MatchedMeansSound ==
    Verdict.status = "matched" <=>
        /\ case.enabled /\ ~case.pending
        /\ {u.cassette_no : u \in ReportedUnits} = DOMAIN Map
        /\ \A u \in ReportedUnits : ActiveAlerts(u, Map, Atm) = {}
        /\ BinAlerts(ReportedBins) = {} /\ ReportedBins.rejectStatus \in {"OK", "LOW"}

\* "CASSETTE_INOP: the cassette is out of order", "CASSETTE_MISSING: the
\* cassette is absent or unreadable" (the cash page): an inoperative cassette
\* is alerted as such.
InoperativeIsAlerted ==
    \A i \in DOMAIN case.units : LET u == case.units[i] IN
        u.status = "INOPERATIVE" =>
            \E r \in ReportedUnits : r.count = u.count /\ "CASSETTE_INOP" \in ActiveAlerts(r, Map, Atm)

Rate == NotesPerDay(readings)
RateOf(i) == Hundredths(24 * (readings[i].count - readings[i + 1].count),
                        readings[i + 1].at - readings[i].at)
Emptying ==
    {i \in 1 .. Len(readings) - 1 :
        readings[i + 1].at > readings[i].at /\ readings[i].count > readings[i + 1].count}

\* There is a forecast exactly when notes were seen to leave the cassette, and
\* its rate lies between those of the slowest and of the fastest withdrawals:
\* a refill is not taken for negative consumption, nor an idle night for a
\* slow day.
RateIsObserved ==
    /\ Rate = None <=> Emptying = {}
    /\ Rate # None => /\ \E i \in Emptying : RateOf(i) <= Rate
                      /\ \E i \in Emptying : Rate <= RateOf(i)

\* The report never calls a cassette safer than its open alert does, whatever
\* the forecast.
RiskCoversAlert ==
    \A n, low, critical \in 0 .. MaxNotes :
        LET risk == Risk(n, low, critical, DaysTo(0, n, readings))
            alerts == CountAlerts(n, low, critical)
        IN  /\ alerts \cap {"CASH_EMPTY", "CASH_CRITICAL"} # {} => HighestRisk({"OK", risk}) = "CRITICAL"
            /\ alerts # {} => HighestRisk({"OK", risk}) # "OK"

\* What forecast_for_unit and the report may say of a history: a rate that was
\* observed, and no risk below the open alert.
ForecastIsSound == RateIsObserved /\ RiskCoversAlert

===============================================================================
