---------------------------- MODULE CashMonitoring ----------------------------
(***************************************************************************)
(* Cash snapshots from the dispenser to the board: the agent reads and     *)
(* posts them (CashMonitoringModule.tick), some arrive late or never, and  *)
(* submit_cash_snapshot (backend/app/routers/cash.py) stamps, refuses or   *)
(* applies them, opening and closing alerts.  A request reads the database *)
(* when it begins (Receive) and writes it when it commits (Commit), with   *)
(* the alert's messages sent in between, so requests may overlap.          *)
(*                                                                         *)
(* Time is in ticks of the server's clock.  Condition alerts (missing,     *)
(* inoperative) and the retract bin take the path of the counts' alerts    *)
(* and are left to CashRules.                                              *)
(***************************************************************************)
EXTENDS CashRules, TLC

CONSTANTS
    Cassettes,         \* 1 .. N, the configured cassettes
    MaxCount,          \* a full cassette
    Low, Critical,     \* thresholds of every cassette
    BinCapacity,       \* of the reject bin
    Window,            \* SUSPICIOUS_REGRESSION_WINDOW_MINUTES
    LargeDrop,         \* SUSPICIOUS_REGRESSION_TOTAL_DROP
    Grace,             \* FUTURE_CASH_READ_GRACE
    Skews,             \* how far the agent's clock may be off
    Workers,           \* requests the server handles at once
    MaxClock, MaxLate, MaxChanges     \* bounds: time, late requests, changes at the ATM

Count == 0 .. MaxCount
Bin   == 0
Units == Cassettes \cup {Bin}

Behind == 0 - Min({0} \cup Skews)               \* how far the ATM's clock may be behind

ASSUME CashAssumption ==
    /\ IsFiniteSet(Cassettes) /\ Cassettes = 1 .. Cardinality(Cassettes)
    /\ MaxCount \in Nat /\ LargeDrop \in Nat /\ Window \in Nat /\ Grace \in Nat
    /\ IsFiniteSet(Skews) /\ Skews \subseteq Int
    /\ MaxClock \in Nat /\ Behind < MaxClock /\ MaxLate \in Nat /\ MaxChanges \in Nat

VARIABLES
    clock,             \* the server's time
    cash,              \* the ATM: unit -> its true count
    listed,            \* the ATM: the cassettes the dispenser lists
    skew,              \* the ATM: its clock minus the server's
    changes,           \* changes at the ATM so far (bound)
    sent,              \* snapshots on their way
    handling,          \* worker -> the request it is at
    shown,             \* atm_cash_units and the reject row: unit -> (at, count), at = 0 for no row
    newest,            \* history: the units of the newest snapshot kept
    rows,              \* open atm_cash_alerts: unit, type, and the snapshot that opened it
    accepted,          \* history: when a snapshot was last committed
    blind              \* history: the longest time a fresh reading was refused since

atmVars == <<cash, listed, skew, changes>>
boardRows == <<shown, newest, rows, accepted>>
vars == <<clock, atmVars, sent, handling, boardRows, blind>>

Idle == [state |-> "idle"]
NoRow == [at |-> 0, count |-> 0]

AlertTypes == {"CASH_EMPTY", "CASH_CRITICAL", "CASH_LOW", "REJECT_BIN_HIGH", "REJECT_BIN_FULL"}
Alerts == [unit : Units, type : AlertTypes, by : 1 .. MaxClock]
Readings == {r \in UNION {[us -> Count] : us \in SUBSET Units} : {Bin, 1} \subseteq DOMAIN r}

TypeOK ==
    /\ clock \in 1 .. MaxClock
    /\ cash \in [Units -> Count] /\ listed \subseteq Cassettes
    /\ skew \in Skews /\ changes \in 0 .. MaxChanges
    /\ sent \subseteq [at : Nat \ {0}, sentAt : 1 .. MaxClock, read : Readings]
    /\ DOMAIN handling = Workers
    /\ \A w \in Workers : \/ handling[w] = Idle
                          \/ /\ handling[w].state = "writing"
                             /\ handling[w].at \in 1 .. MaxClock + Grace
                             /\ handling[w].read \in Readings
                             /\ handling[w].opens \subseteq Alerts
    /\ shown \in [Units -> [at : 0 .. MaxClock + Grace, count : Count]]
    /\ newest \subseteq Units
    /\ rows \subseteq Alerts
    /\ accepted \in 0 .. MaxClock /\ blind \in 0 .. MaxClock

\* The first readings come after the largest skew, so that no time is below 1.
Init ==
    /\ clock = 1 + Behind
    /\ cash = [u \in Units |-> IF u = Bin THEN 0 ELSE MaxCount]
    /\ listed \in (SUBSET Cassettes) \ {{}} /\ skew \in Skews /\ changes = 0
    /\ sent = {} /\ handling = [w \in Workers |-> Idle]
    /\ shown = [u \in Units |-> NoRow] /\ newest = {} /\ rows = {}
    /\ accepted = clock /\ blind = 0

---------------------------------------------------------------------------
(* The ATM and its agent.                                                  *)

Tick == clock < MaxClock /\ clock' = clock + 1
        /\ UNCHANGED <<atmVars, sent, handling, boardRows, blind>>

\* Withdrawals and refills, notes rejected, a cassette taken out or put back,
\* the ATM's clock set.
Change ==
    /\ changes < MaxChanges
    /\ changes' = changes + 1
    /\ \/ \E u \in Units, n \in Count :
            n # cash[u] /\ cash' = [cash EXCEPT ![u] = n] /\ UNCHANGED <<listed, skew>>
       \/ \E c \in Cassettes :
            /\ listed \ {c} # {}
            /\ listed' = (listed \ {c}) \cup ({c} \ listed)
            /\ UNCHANGED <<cash, skew>>
       \/ skew' \in Skews \ {skew} /\ UNCHANGED <<cash, listed>>
    /\ UNCHANGED <<clock, sent, handling, boardRows, blind>>

\* The cassettes are reported by their position among those listed.
Position(i) == CHOOSE c \in listed : Cardinality({d \in listed : d <= c}) = i
Reading == [u \in {Bin} \cup 1 .. Cardinality(listed) |-> IF u = Bin THEN cash[Bin] ELSE cash[Position(u)]]

\* tick: one snapshot per interval, and the agent waits for the answer or for
\* its time limit: only then does a late request stay behind.
Read ==
    /\ \A s \in sent : s.sentAt < clock
    /\ Cardinality(sent) < MaxLate
    /\ sent' = sent \cup {[at |-> clock + skew, sentAt |-> clock, read |-> Reading]}
    /\ UNCHANGED <<clock, atmVars, handling, boardRows, blind>>

Lose ==
    /\ \E s \in sent : sent' = sent \ {s}
    /\ UNCHANGED <<clock, atmVars, handling, boardRows, blind>>

---------------------------------------------------------------------------
(* submit_cash_snapshot.                                                   *)

\* resolve_cash_snapshot_read_at.
ReadAtUnchecked(s) == s.at
ReadAt(s) == IF s.at <= clock + Grace THEN s.at ELSE clock

Known(s) == {c \in DOMAIN s.read \ {Bin} : shown[c].at # 0}

\* suspicious_cash_regression.  (No stored time is in the future here.)
Older(s) == \E c \in Known(s) : ReadAt(s) <= shown[c].at
TotalDrop(s) == MapThenSumSet(LAMBDA c : Max({0, shown[c].count - s.read[c]}), Known(s))
Elapsed(s) == ReadAt(s) - Max({shown[c].at : c \in Known(s)})
SuspiciousForever(s) ==
    \/ Older(s)
    \/ Known(s) # {} /\ TotalDrop(s) >= LargeDrop
SuspiciousNewerOnly(s) ==
    \/ Known(s) # {} /\ \A c \in Known(s) : ReadAt(s) <= shown[c].at
    \/ Known(s) # {} /\ Elapsed(s) \in 0 .. Window /\ TotalDrop(s) >= LargeDrop
Suspicious(s) ==
    \/ Older(s)
    \/ Known(s) # {} /\ Elapsed(s) \in 0 .. Window /\ TotalDrop(s) >= LargeDrop

Active(u, n) ==
    IF u = Bin THEN BinAlerts([reject |-> n, capacity |-> BinCapacity, retract |-> 0])
    ELSE CountAlerts(n, Low, Critical)

\* The rows sync_alert adds and close_inactive_alerts closes, as the request
\* sees the table.
ToOpenAgain(s) ==
    UNION {[unit : {u}, type : Active(u, s.read[u]), by : {s.sentAt}] : u \in DOMAIN s.read}
ToOpen(s) ==
    {r \in UNION {[unit : {u}, type : Active(u, s.read[u]), by : {s.sentAt}] : u \in DOMAIN s.read} :
        ~ \E o \in rows : o.unit = r.unit /\ o.type = r.type}
ToClose(s) == {o \in rows : o.unit \in DOMAIN s.read /\ o.type \notin Active(o.unit, s.read[o.unit])}

\* The request is refused, with a log entry, or goes on to write.
Receive(w, s) ==
    /\ handling[w] = Idle
    /\ sent' = sent \ {s}
    /\ \/ /\ Suspicious(s)
          /\ blind' = IF s.sentAt = clock THEN Max({blind, clock - accepted}) ELSE blind
          /\ UNCHANGED handling
       \/ /\ ~Suspicious(s)
          /\ handling' = [handling EXCEPT ![w] =
                [state |-> "writing", at |-> ReadAt(s), read |-> s.read, loaded |-> shown,
                 opens |-> ToOpen(s), closes |-> ToClose(s)]]
          /\ UNCHANGED blind
    /\ UNCHANGED <<clock, atmVars, boardRows>>

\* The session writes the columns that differ from what it loaded, and a row
\* of its own only where there is still none (unique constraints); if not, the
\* request fails and is rolled back.
Stored(new, loaded, present) == IF new # loaded THEN new ELSE present

Commit(w) ==
    /\ handling[w].state = "writing"
    /\ LET h == handling[w] IN
        /\ \A u \in DOMAIN h.read : h.loaded[u] = NoRow => shown[u] = NoRow
        /\ shown' = [u \in Units |->
              IF u \notin DOMAIN h.read THEN shown[u]
              ELSE [at |-> Stored(h.at, h.loaded[u].at, shown[u].at),
                    count |-> Stored(h.read[u], h.loaded[u].count, shown[u].count)]]
        /\ newest' = IF \A u \in Units : shown[u].at < h.at THEN DOMAIN h.read ELSE newest
        /\ rows' = (rows \ h.closes) \cup h.opens
    /\ handling' = [handling EXCEPT ![w] = Idle]
    /\ accepted' = clock
    /\ UNCHANGED <<clock, atmVars, sent, blind>>

\* The request fails or the server stops, and it is rolled back.
Rollback(w) ==
    /\ handling[w].state = "writing"
    /\ handling' = [handling EXCEPT ![w] = Idle]
    /\ UNCHANGED <<clock, atmVars, sent, boardRows, blind>>

Server == \E w \in Workers : (\E s \in sent : Receive(w, s)) \/ Commit(w) \/ Rollback(w)

Next == Tick \/ Change \/ Read \/ Lose \/ Server

Spec == Init /\ [][Next]_vars

---------------------------------------------------------------------------
(* Properties.                                                             *)

OpenTypes == [u \in Units |-> {r.type : r \in {o \in rows : o.unit = u}}]

\* With one request at a time the server does what the board promises.
Board == INSTANCE CashBoard WITH
    Counts <- Count, Times <- 1 .. MaxClock + Grace, Alerts <- Active, board <- shown, open <- OpenTypes
OneAtATime == \A v, w \in Workers : handling[v] # Idle /\ handling[w] # Idle => v = w
ImplementsBoard == Board!BoardSpec

\* A reading that is fresh when it arrives is refused for no longer than the
\* window of suspicion, the grace given to clocks that run ahead, and the time
\* the ATM's clock may be behind: a real drop gets through.
BlindnessEnds == blind <= Window + Grace + Behind

\* The summary counts low cassettes: each has at most one open alert of a type.
CassetteCountedOnce ==
    \A r, o \in rows : r.unit = o.unit /\ r.type = o.type => r = o

\* What the verification says of the stored units.
Configured == [c \in Cassettes |-> DefaultItem(c, "YER")]
Issues == MissingIssues({[cassette_no |-> c] : c \in {d \in Cassettes : shown[d].at # 0}}, Configured)

\* "The cassette is defined in the system and did not appear in the ATM's
\* reading" (the cash page, of MISSING_READING).
MissingReadingShown ==
    newest # {} => \A c \in Cassettes \ newest : <<c, "MISSING_READING">> \in Issues

================================================================================
