---------------------------- MODULE RemoteConfigProofs ----------------------------
(***************************************************************************)
(* Theorems about RemoteConfig for every number of users, edits, faults    *)
(* and outages and every interval: its types, and that settings shown as   *)
(* synced are those the agent has, while one edit at a time is in          *)
(* progress.                                                               *)
(***************************************************************************)
EXTENDS RemoteConfig, RowLemmas, TLAPS

---------------------------------------------------------------------------
(* TypeOK, which is inductive.                                             *)

USE ConfigAssumption

\* The numbers and the settings are what they are taken for.
LEMMA Constants ==
    /\ SyncTurns \in Nat \ {0} /\ HeartbeatTurns \in Nat \ {0} /\ ReadTurns \in Nat \ {0}
    /\ MaxEdits \in Nat /\ MaxFaults \in Nat /\ MaxOutages \in Nat
OBVIOUS

\* A timer that counts up to its interval stays within it.
LEMMA TimerBound ==
    ASSUME NEW n \in Nat, NEW bound \in Nat
    PROVE  Min({n, bound}) \in 0 .. bound
<1>1. Min({n, bound}) = IF n <= bound THEN n ELSE bound
  BY MinOfTwo
<1> QED
  BY <1>1

Timers == [sync : 0 .. SyncTurns, beat : 0 .. HeartbeatTurns, read : 0 .. ReadTurns]

LEMMA NextTurnType ==
    ASSUME NEW s \in Timers, NextTurn(s)
    PROVE  place' = "turn" /\ since' \in Timers
<1>1. s.sync + 1 \in Nat /\ s.beat + 1 \in Nat /\ s.read + 1 \in Nat
  BY Constants DEF Timers
<1>2. /\ Min({s.sync + 1, SyncTurns}) \in 0 .. SyncTurns
      /\ Min({s.beat + 1, HeartbeatTurns}) \in 0 .. HeartbeatTurns
      /\ Min({s.read + 1, ReadTurns}) \in 0 .. ReadTurns
  BY <1>1, Constants, TimerBound
<1> QED
  BY <1>2 DEF NextTurn, Timers

LEMMA EnabledType == ASSUME NEW c PROVE Enabled(c) \in SUBSET Modules
BY DEF Enabled

\* The server's answer to a report touches neither the settings nor their
\* version.
LEMMA ReceivedType ==
    ASSUME row \in Rows, NEW msg \in Messages, Received(msg)
    PROVE  /\ row' \in Rows /\ row'.version = row.version /\ row'.config = row.config
           /\ row'.applied = IF msg.kind = "nack" THEN row.applied ELSE msg.version
<1>1. CASE msg.kind = "ack"
  <2>1. row' = Applied(msg) /\ msg.version \in Versions
    BY <1>1 DEF Received, Messages
  <2>2. Configured(msg.enabled) \in [Modules -> Statuses \cup {Unset, "configured"}]
    BY DEF Configured, Rows
  <2> QED
    BY <1>1, <2>1, <2>2 DEF Applied, Rows
<1>2. CASE msg.kind = "nack"
  BY <1>2 DEF Received, Rows
<1>3. CASE msg.kind = "beat"
  <2>1. /\ msg.version \in Versions /\ msg.statuses \in [Modules -> Statuses]
        /\ row' = [row EXCEPT !.applied = msg.version,
                              !.statuses = [m \in Modules |-> Shown(msg.statuses, m)]]
    BY <1>3 DEF Received, Messages
  <2>2. [m \in Modules |-> Shown(msg.statuses, m)] \in [Modules -> Statuses \cup {Unset, "configured"}]
    BY <2>1 DEF Shown, Statuses
  <2> QED
    BY <1>3, <2>1, <2>2 DEF Rows
<1> QED
  BY <1>1, <1>2, <1>3 DEF Messages

\* A report that fails is answered all the same, on its way, or lost.
LEMMA ReportType ==
    ASSUME TypeOK, NEW msg \in Messages, Answered(msg) \/ Failed(msg)
    PROVE  /\ row' \in Rows /\ row'.version = row.version /\ row'.config = row.config
           /\ row'.applied \in {row.applied, IF msg.kind = "nack" THEN row.applied ELSE msg.version}
           /\ late' \subseteq late \cup {msg} /\ faults' \in 0 .. MaxFaults
<1>1. row \in Rows /\ faults \in 0 .. MaxFaults
  BY DEF TypeOK
<1>2. CASE Received(msg)
  <2>1. late' \subseteq late \cup {msg} /\ faults' \in 0 .. MaxFaults
    BY <1>1, Constants DEF Answered, Failed
  <2> QED
    BY <1>1, <1>2, <2>1, ReceivedType
<1>3. CASE ~Received(msg)
  BY <1>1, <1>3, Constants DEF Answered, Failed
<1> QED
  BY <1>2, <1>3

LEMMA InitType == ASSUME Init PROVE TypeOK
<1>1. /\ 0 \in Versions /\ 1 \in Versions /\ row.version = 1
      /\ row \in Rows
  BY Constants DEF Init, Versions, Rows
<1>2. snapshots \subseteq [version : Versions, config : Configs]
  BY <1>1 DEF Init, Versioned, Rows
<1>3. since \in [sync : 0 .. SyncTurns, beat : 0 .. HeartbeatTurns, read : 0 .. ReadTurns]
  BY Constants DEF Init, AllDue
<1>4. /\ edits \in 0 .. MaxEdits /\ faults \in 0 .. MaxFaults /\ outages \in 0 .. MaxOutages
      /\ edits = 0 /\ late = {} /\ loaded = Nothing /\ place = "turn"
      /\ DOMAIN asking = Users /\ \A u \in Users : asking[u] = << >>
  BY Constants DEF Init
<1>5. /\ statuses \in [Modules -> Statuses] /\ cashStatus \in Statuses
      /\ DOMAIN held = Modules /\ \A m \in Modules : held[m] = Nothing
      /\ held["media_update"] = Nothing
  BY DEF Init, Statuses, Modules
<1>6. asked \in BOOLEAN /\ fresh \in BOOLEAN /\ broken \in BOOLEAN /\ overlapped \in BOOLEAN
  BY DEF Init
<1> QED
  BY <1>1, <1>2, <1>3, <1>4, <1>5, <1>6 DEF TypeOK
\* An edit: what it writes are settings, and a version for each edit.
LEMMA EditType ==
    ASSUME TypeOK, NEW u \in Users, OpenEdit(u) \/ SaveEdit(u)
    PROVE  TypeOK'
<1>1. row \in Rows /\ row.version <= edits + 1 /\ edits \in 0 .. MaxEdits
      /\ DOMAIN asking = Users
      /\ \A v \in Users : asking[v] # << >> => IsEdit(asking[v]) /\ asking[v].seen.version <= edits
  BY DEF TypeOK
<1>2. CASE OpenEdit(u)
  <2>1. PICK field \in DOMAIN row.config \cup {"threshold"} :
        \E value \in IF field = "backup" THEN Backups ELSE BOOLEAN :
            asking' = [asking EXCEPT ![u] = [seen |-> row, field |-> field, value |-> value]]
    BY <1>2 DEF OpenEdit
  <2>2. PICK value \in IF field = "backup" THEN Backups ELSE BOOLEAN :
            asking' = [asking EXCEPT ![u] = [seen |-> row, field |-> field, value |-> value]]
    BY <2>1
  <2>3. DOMAIN row.config = {"media", "backup", "cash"}
    BY <1>1 DEF Rows, Configs
  <2>4. /\ edits < MaxEdits /\ edits' = edits + 1 /\ overlapped' \in BOOLEAN
        /\ UNCHANGED <<server, asked, agent, world, late, faults>>
    BY <1>2 DEF OpenEdit, TypeOK
  <2>5. edits' \in 0 .. MaxEdits /\ row'.version <= edits' + 1 /\ row' = row
    BY <1>1, <2>4, Constants DEF Rows, Versions, server
  <2>6. /\ asking'[u] = [seen |-> row, field |-> field, value |-> value]
        /\ \A v \in Users \ {u} : asking'[v] = asking[v]
        /\ DOMAIN asking' = Users
    BY <1>1, <2>2
  <2>7. IsEdit(asking'[u]) /\ asking'[u].seen.version <= edits'
    <3> DEFINE q == [seen |-> row, field |-> field, value |-> value]
    <3>1. q.seen = row /\ q.field = field /\ q.value = value
      OBVIOUS
    <3>2. row.version <= edits' /\ field \in {"media", "backup", "cash", "threshold"}
      BY <1>1, <2>3, <2>4, Constants DEF Rows, Versions
    <3> QED
      BY <1>1, <2>2, <2>6, <3>1, <3>2 DEF IsEdit
  <2>8. \A v \in Users : asking'[v] # << >> => IsEdit(asking'[v]) /\ asking'[v].seen.version <= edits'
    <3> SUFFICES ASSUME NEW v \in Users, v # u, asking'[v] # << >>
                 PROVE  IsEdit(asking'[v]) /\ asking'[v].seen.version <= edits'
      BY <2>7
    <3>1. asking'[v] = asking[v] /\ IsEdit(asking[v]) /\ asking[v].seen.version <= edits
      BY <1>1, <2>6
    <3> QED
      BY <1>1, <2>4, <3>1 DEF IsEdit, Rows, Versions
  <2> QED
    <3>1. /\ asked' \in BOOLEAN /\ fresh' \in BOOLEAN /\ broken' \in BOOLEAN /\ overlapped' \in BOOLEAN
          /\ late' \subseteq Messages /\ statuses' \in [Modules -> Statuses] /\ cashStatus' \in Statuses
          /\ snapshots' \subseteq [version : Versions, config : Configs]
      BY <2>4 DEF TypeOK, server, agent, world
    <3>2. UNCHANGED <<row, place, since, loaded, held, outages, faults>>
      BY <2>4 DEF server, agent, world
    <3> QED
      BY <2>5, <2>6, <2>8, <3>1, <3>2 DEF TypeOK
<1>3. CASE SaveEdit(u)
  <2> DEFINE q == asking[u]
  <2>1. /\ q # << >> /\ asking' = [asking EXCEPT ![u] = << >>]
        /\ UNCHANGED <<fresh, asked, agent, world, late, opened, faults>>
    BY <1>3 DEF SaveEdit
  <2>2. IsEdit(q)
    BY <1>1, <2>1
  <2>3. q.seen.version + 1 \in Versions /\ q.seen.version + 1 <= edits + 1
    BY <1>1, <2>1, <2>2, Constants DEF IsEdit, Rows, Versions
  <2>4. DOMAIN asking' = Users /\ asking'[u] = << >> /\ \A v \in Users \ {u} : asking'[v] = asking[v]
    BY <1>1, <2>1
  <2>5. /\ row' \in Rows /\ row'.version <= edits + 1
        /\ snapshots' \subseteq [version : Versions, config : Configs]
    <3>1. snapshots \subseteq [version : Versions, config : Configs]
      BY DEF TypeOK
    <3>2. CASE q.field = "threshold" /\ SaveThreshold(q)
      BY <1>1, <2>3, <3>1, <3>2 DEF SaveThreshold, Rows
    <3>3. CASE UNCHANGED <<row, snapshots>>
      BY <1>1, <3>1, <3>3
    <3>4. CASE /\ q.field # "threshold"
               /\ row' = [row EXCEPT !.config[q.field] = q.value, !.version = q.seen.version + 1,
                                     !.error = @ /\ ~q.seen.error]
               /\ snapshots' = snapshots \cup {Snapshot(q)}
      <4>1. [row.config EXCEPT ![q.field] = q.value] \in Configs
        BY <1>1, <2>2, <3>4 DEF IsEdit, Rows, Configs
      <4>2. [q.seen.config EXCEPT ![q.field] = q.value] \in Configs
        BY <2>2, <3>4 DEF IsEdit, Rows, Configs
      <4>3. Snapshot(q) \in [version : Versions, config : Configs]
        BY <2>3, <4>2 DEF Snapshot, Versioned
      <4>4. row' \in Rows /\ row'.version = q.seen.version + 1
        <5>1. row.error \in BOOLEAN /\ q.seen.error \in BOOLEAN
          BY <1>1, <2>2 DEF IsEdit, Rows
        <5> QED
          BY <1>1, <2>3, <3>4, <4>1, <5>1 DEF Rows
      <4> QED
        BY <2>3, <3>1, <3>4, <4>3, <4>4
    <3> QED
      BY <1>3, <3>2, <3>3, <3>4 DEF SaveEdit
  <2>6. \A v \in Users : asking'[v] # << >> => IsEdit(asking'[v]) /\ asking'[v].seen.version <= edits'
    BY <1>1, <2>1, <2>4 DEF opened
  <2> QED
    BY <2>1, <2>4, <2>5, <2>6 DEF TypeOK, agent, world, opened
<1> QED
  BY <1>2, <1>3

\* The modules take a configuration or refuse it.
LEMMA TakeType ==
    ASSUME TypeOK, NEW config \in Configs, Take(config)
    PROVE  /\ statuses' \in [Modules -> Statuses] /\ cashStatus' \in Statuses
           /\ DOMAIN held' = Modules
           /\ \A m \in Modules : held'[m] # Nothing => held'[m] \in Configs /\ m \in Enabled(held'[m])
           /\ held'["media_update"] # Nothing => held'["media_update"].backup = "outside"
<1>1. /\ \A m \in Modules : held[m] # Nothing => held[m] \in Configs /\ m \in Enabled(held[m])
      /\ held["media_update"] # Nothing => held["media_update"].backup = "outside"
      /\ cashStatus \in Statuses /\ "media_update" \in Modules
  BY DEF TypeOK, Modules
<1>2. held' = [m \in Modules |-> IF m \in Enabled(config) /\ Accepts(m, config) THEN config ELSE held[m]]
  BY DEF Take
<1>3. statuses' \in [Modules -> Statuses] /\ cashStatus' \in Statuses
  BY <1>1 DEF Take, Statuses
<1>4. \A m \in Modules : held'[m] # Nothing => held'[m] \in Configs /\ m \in Enabled(held'[m])
  BY <1>1, <1>2
<1>5. held'["media_update"] # Nothing => held'["media_update"].backup = "outside"
  BY <1>1, <1>2 DEF Accepts
<1> QED
  BY <1>2, <1>3, <1>4, <1>5

\* What the agent reports are messages.
LEMMA AgentMessages ==
    ASSUME TypeOK
    PROVE  /\ loaded # Nothing => Ack(loaded.version, loaded.config) \in Messages
           /\ Nack \in Messages /\ Beat \in Messages
<1>1. 0 \in Versions
  BY Constants DEF Versions
<1>2. Beat.version \in Versions /\ Beat \in Messages
  BY <1>1 DEF Beat, TypeOK, Messages
<1> QED
  BY <1>2, EnabledType DEF Ack, Nack, Messages, TypeOK

\* The agent's report and what it leaves alone.
LEMMA ReportStep ==
    ASSUME TypeOK, NEW msg \in Messages, Answered(msg) \/ Failed(msg),
           since' \in Timers, place' \in {"turn", "nack", "beat", "commands"},
           place' = "nack" => loaded # Nothing,
           UNCHANGED <<snapshots, fresh, asking, asked, loaded, statuses, held, cashStatus, world, opened>>
    PROVE  TypeOK'
<1>1. row' \in Rows /\ row'.version = row.version /\ late' \subseteq late \cup {msg}
      /\ faults' \in 0 .. MaxFaults
  BY ReportType
<1>2. /\ asked' \in BOOLEAN /\ fresh' \in BOOLEAN /\ broken' \in BOOLEAN /\ overlapped' \in BOOLEAN
      /\ late' \subseteq Messages
  BY <1>1 DEF TypeOK, world, opened
<1>3. UNCHANGED <<edits, outages>>
  BY DEF world, opened
<1> QED
  BY <1>1, <1>2, <1>3 DEF TypeOK, Timers

\* The agent's turn up to its reports.
LEMMA SyncType ==
    ASSUME TypeOK, NoSync \/ Sync \/ Acknowledge \/ ReportError \/ Heartbeat
    PROVE  TypeOK'
<1>1. since \in Timers /\ row \in Rows
  BY DEF TypeOK, Timers
<1>2. CASE NoSync
  <2>1. /\ place' = "beat"
        /\ UNCHANGED <<server, asking, asked, since, loaded, statuses, held, cashStatus, world, late, opened, faults>>
    BY <1>2 DEF NoSync
  <2> QED
    BY <2>1 DEF TypeOK, server, world, opened
<1>3. CASE Sync
  <2>1. UNCHANGED <<server, asking, asked, world, late, opened>>
    BY <1>3 DEF Sync
  <2>2. UNCHANGED <<row, snapshots, fresh, broken, outages, edits, overlapped>>
    BY <2>1 DEF server, world, opened
  <2>3. CASE /\ loaded' = Versioned(row.version, row.config)
             /\ Take(row.config)
             /\ place' = "ack"
             /\ UNCHANGED <<since, faults>>
    <3>1. loaded' # Nothing /\ loaded' \in [version : Versions, config : Configs] /\ row.config \in Configs
      BY <1>1, <2>3 DEF Versioned, Rows, Nothing
    <3>2. /\ statuses' \in [Modules -> Statuses] /\ cashStatus' \in Statuses
          /\ DOMAIN held' = Modules
          /\ \A m \in Modules : held'[m] # Nothing => held'[m] \in Configs /\ m \in Enabled(held'[m])
          /\ held'["media_update"] # Nothing => held'["media_update"].backup = "outside"
      BY <2>3, <3>1, TakeType
    <3> QED
      BY <2>1, <2>2, <2>3, <3>1, <3>2 DEF TypeOK
  <2>4. CASE /\ faults < MaxFaults /\ faults' = faults + 1
             /\ NextTurn(since)
             /\ UNCHANGED <<loaded, statuses, held, cashStatus>>
    <3>1. place' = "turn" /\ since' \in Timers
      BY <1>1, <2>4, NextTurnType
    <3>2. faults' \in 0 .. MaxFaults
      BY <2>4, Constants DEF TypeOK
    <3> QED
      BY <2>1, <2>2, <2>4, <3>1, <3>2 DEF TypeOK, Timers
  <2> QED
    BY <1>3, <2>3, <2>4 DEF Sync
<1>4. CASE Acknowledge
  <2>1. loaded # Nothing
    BY <1>4 DEF Acknowledge, TypeOK
  <2>2. since' \in Timers
    BY <1>1, <1>4, Constants DEF Acknowledge, Timers
  <2> QED
    BY <1>4, <2>1, <2>2, AgentMessages, ReportStep DEF Acknowledge
<1>5. CASE ReportError
  <2>1. place' = "turn" /\ since' \in Timers
    BY <1>1, <1>5, NextTurnType DEF ReportError
  <2> QED
    BY <1>5, <2>1, AgentMessages, ReportStep DEF ReportError
<1>6. CASE Heartbeat
  <2>1. UNCHANGED <<snapshots, fresh, asking, asked, loaded, statuses, held, cashStatus, world, opened>>
    BY <1>6 DEF Heartbeat
  <2>2. CASE place' = "commands" /\ UNCHANGED <<row, since, late, faults>>
    <3>1. UNCHANGED <<broken, outages, edits, overlapped>>
      BY <2>1 DEF world, opened
    <3> QED
      BY <2>1, <2>2, <3>1 DEF TypeOK
  <2>3. CASE Answered(Beat) /\ place' = "commands" /\ since' = [since EXCEPT !.beat = 0]
    <3>1. since' \in Timers
      BY <1>1, <2>3, Constants DEF Timers
    <3> QED
      BY <2>1, <2>3, <3>1, AgentMessages, ReportStep
  <2>4. CASE Failed(Beat) /\ NextTurn(since)
    <3>1. place' = "turn" /\ since' \in Timers
      BY <1>1, <2>4, NextTurnType
    <3> QED
      BY <2>1, <2>4, <3>1, AgentMessages, ReportStep
  <2> QED
    BY <1>6, <2>2, <2>3, <2>4 DEF Heartbeat
<1> QED
  BY <1>2, <1>3, <1>4, <1>5, <1>6

\* What a read of the dispenser comes to.
LEMMA ReadType ==
    ASSUME TypeOK, Read
    PROVE  cashStatus' \in Statuses /\ fresh' \in BOOLEAN /\ since' \in Timers
<1>1. since \in Timers /\ fresh \in BOOLEAN
  BY DEF TypeOK, Timers
<1>2. CASE broken
  BY <1>1, <1>2 DEF Read, Statuses
<1>3. CASE ~broken
  <2>1. since' \in Timers
    BY <1>1, <1>3, Constants DEF Read, Timers
  <2> QED
    BY <1>3, <2>1 DEF Read, Statuses
<1> QED
  BY <1>2, <1>3

LEMMA CommandsType == ASSUME TypeOK, Commands PROVE TypeOK'
<1>1. UNCHANGED <<row, snapshots, asking, loaded, statuses, held, broken, outages, late, edits, overlapped, faults>>
  BY DEF Commands, world, opened
<1>2. since \in Timers
  BY DEF TypeOK, Timers
<1>3. CASE loaded = Nothing /\ NextTurn(since) /\ UNCHANGED <<asked, fresh, cashStatus>>
  <2>1. place' = "turn" /\ since' \in Timers
    BY <1>2, <1>3, NextTurnType
  <2> QED
    BY <1>1, <1>3, <2>1 DEF TypeOK, Timers
<1>4. CASE /\ loaded # Nothing /\ place' = "tick" /\ asked' = FALSE
           /\ IF asked /\ held["cash_monitoring"] # Nothing
              THEN Read
              ELSE UNCHANGED <<fresh, since, cashStatus>>
  <2>1. cashStatus' \in Statuses /\ fresh' \in BOOLEAN /\ since' \in Timers
    BY <1>2, <1>4, ReadType DEF TypeOK
  <2>2. asked' \in BOOLEAN
    BY <1>4
  <2> QED
    BY <1>1, <1>4, <2>1, <2>2 DEF TypeOK, Timers
<1> QED
  BY <1>3, <1>4 DEF Commands

LEMMA TickType == ASSUME TypeOK, Tick PROVE TypeOK'
<1> DEFINE due == loaded.config.cash /\ since.read = ReadTurns
           reads == due /\ ~broken
           own == IF reads THEN "running" ELSE IF due THEN "error" ELSE cashStatus
<1>1. PICK failed \in BOOLEAN :
        /\ failed => faults < MaxFaults
        /\ faults' = IF failed THEN faults + 1 ELSE faults
        /\ cashStatus' = own
        /\ fresh' = (fresh \/ reads)
        /\ NextTurn([since EXCEPT !.read = IF reads THEN 0 ELSE @])
        /\ statuses' = [m \in Modules |->
             IF m = "media_update" THEN MediaTicked(failed)
             ELSE IF loaded.config.cash THEN own ELSE statuses[m]]
  BY DEF Tick
<1>2. UNCHANGED <<row, snapshots, asking, asked, loaded, held, broken, outages, late, edits, overlapped>>
  BY DEF Tick, world, opened
<1>3. [since EXCEPT !.read = IF reads THEN 0 ELSE @] \in Timers
  BY Constants DEF TypeOK, Timers
<1>4. place' = "turn" /\ since' \in Timers
  BY <1>1, <1>3, NextTurnType
<1>5. own \in Statuses /\ MediaTicked(failed) \in Statuses
  BY DEF TypeOK, Statuses, MediaTicked, Modules
<1>6. faults' \in 0 .. MaxFaults
  BY <1>1, Constants DEF TypeOK
<1>7. fresh' \in BOOLEAN
  BY <1>1
<1> HIDE DEF own
<1>8. statuses' \in [Modules -> Statuses] /\ cashStatus' \in Statuses
  BY <1>1, <1>5 DEF TypeOK
<1> QED
  BY <1>2, <1>4, <1>6, <1>7, <1>8 DEF TypeOK, Timers

\* The machine has been up for some turns when the agent starts.
LEMMA StartedType ==
    ASSUME NEW up \in 0 .. Max({SyncTurns, HeartbeatTurns, ReadTurns})
    PROVE  Started(up) \in Timers
<1> DEFINE S == {SyncTurns, HeartbeatTurns, ReadTurns}
<1>1. S \in SUBSET Int /\ S # {} /\ SyncTurns + HeartbeatTurns + ReadTurns \in Int
      /\ \A y \in S : y <= SyncTurns + HeartbeatTurns + ReadTurns
  BY Constants
<1>2. Max(S) \in S
  BY <1>1, MaxIsGreatest
<1>3. up \in Nat
  BY <1>2, Constants
<1> QED
  BY <1>3, Constants, TimerBound DEF Started, Timers

LEMMA WorldType ==
    ASSUME TypeOK, AskRead \/ Restart \/ LateReport \/ Age \/ Outage
    PROVE  TypeOK'
<1>1. CASE AskRead
  <2>1. asked' \in BOOLEAN
    BY <1>1 DEF AskRead
  <2>2. UNCHANGED <<row, snapshots, fresh, asking, place, since, loaded, statuses, held, cashStatus,
                    broken, outages, late, edits, overlapped, faults>>
    BY <1>1 DEF AskRead, server, agent, world, opened
  <2> QED
    BY <2>1, <2>2 DEF TypeOK
<1>2. CASE Restart
  <2>1. since' \in Timers
    BY <1>2, StartedType DEF Restart
  <2>2. faults' \in 0 .. MaxFaults
    BY <1>2, Constants DEF Restart, TypeOK
  <2>3. /\ place' = "turn" /\ loaded' = Nothing
        /\ statuses' \in [Modules -> Statuses] /\ cashStatus' \in Statuses
        /\ DOMAIN held' = Modules /\ \A m \in Modules : held'[m] = Nothing
        /\ held'["media_update"] = Nothing
    BY <1>2 DEF Restart, Statuses, Modules
  <2>4. UNCHANGED <<row, snapshots, fresh, asking, asked, broken, outages, late, edits, overlapped>>
    BY <1>2 DEF Restart, server, world, opened
  <2> QED
    BY <2>1, <2>2, <2>3, <2>4 DEF TypeOK, Timers
<1>3. CASE LateReport
  <2>1. PICK msg \in late : Received(msg) /\ late' = late \ {msg}
    BY <1>3 DEF LateReport
  <2>2. row' \in Rows /\ row'.version = row.version
    BY <2>1, ReceivedType DEF TypeOK
  <2>3. UNCHANGED <<snapshots, fresh, asking, asked, place, since, loaded, statuses, held, cashStatus,
                    broken, outages, edits, overlapped, faults>>
    BY <1>3 DEF LateReport, agent, world, opened
  <2> QED
    BY <2>1, <2>2, <2>3 DEF TypeOK
<1>4. CASE Age
  <2>1. fresh' \in BOOLEAN
    BY <1>4 DEF Age
  <2>2. UNCHANGED <<row, snapshots, asking, asked, place, since, loaded, statuses, held, cashStatus,
                    broken, outages, late, edits, overlapped, faults>>
    BY <1>4 DEF Age, agent, world, opened
  <2> QED
    BY <2>1, <2>2 DEF TypeOK
<1>5. CASE Outage
  <2>1. outages' \in 0 .. MaxOutages
    BY <1>5, Constants DEF Outage, TypeOK
  <2>2. broken' \in BOOLEAN
    BY <1>5 DEF Outage
  <2>3. UNCHANGED <<row, snapshots, fresh, asking, asked, place, since, loaded, statuses, held, cashStatus,
                    late, edits, overlapped, faults>>
    BY <1>5 DEF Outage, server, agent, opened
  <2> QED
    BY <2>1, <2>2, <2>3 DEF TypeOK
<1> QED
  BY <1>1, <1>2, <1>3, <1>4, <1>5

LEMMA StepType == ASSUME TypeOK, [Next]_vars PROVE TypeOK'
<1>1. CASE Next
  BY <1>1, EditType, SyncType, CommandsType, TickType, WorldType DEF Next, Turn
<1>2. CASE UNCHANGED vars
  <2>1. UNCHANGED <<row, snapshots, fresh, asking, asked, place, since, loaded, statuses, held, cashStatus,
                    broken, outages, late, edits, overlapped, faults>>
    BY <1>2 DEF vars, server, agent, world, opened
  <2> QED
    BY <2>1 DEF TypeOK
<1> QED
  BY <1>1, <1>2

\* Every variable keeps its type: no version beyond the edits, no module with
\* settings that switch it off, no media module with a backup path that it
\* refuses.
THEOREM TypeCorrect == Spec => []TypeOK
BY InitType, StepType, PTL DEF Spec

---------------------------------------------------------------------------
(* What is shown as synced, while one edit at a time is in progress.       *)

\* Nobody has changed the settings since they were read for an edit.
EditSeesRow ==
    \A u \in Users : asking[u] # << >> =>
        /\ asking[u].seen.version = row.version /\ asking[u].seen.config = row.config
        /\ \A v \in Users \ {u} : asking[v] = << >>

\* The agent is behind the row or has its settings.
LoadedOfRow ==
    loaded # Nothing =>
        /\ loaded.version <= row.version
        /\ loaded.version = row.version => loaded.config = row.config

\* No version that was reported, or is yet to be, is newer than the agent's,
\* for the row's only grows; a restarted agent asks for the row's first.
NotAhead(version) ==
    version <= row.version /\ (loaded # Nothing => version <= loaded.version)
ReportsOfLoaded ==
    /\ NotAhead(row.applied)
    /\ \A msg \in late : msg.kind # "nack" => NotAhead(msg.version)

SyncInv == ~overlapped => EditSeesRow /\ LoadedOfRow /\ ReportsOfLoaded

\* The versions are numbers.
LEMMA VersionTypes ==
    ASSUME TypeOK
    PROVE  /\ row.version \in Nat /\ row.applied \in Nat
           /\ loaded # Nothing => loaded.version \in Nat
           /\ \A msg \in late : msg.kind # "nack" => msg.version \in Nat
BY Constants DEF TypeOK, Rows, Messages, Versions

LEMMA InitSync == ASSUME Init PROVE SyncInv
BY DEF Init, SyncInv, EditSeesRow, LoadedOfRow, ReportsOfLoaded, NotAhead, Nothing

\* A step that leaves versions and settings alone, or forgets the agent's.
LEMMA QuietSync ==
    ASSUME SyncInv, UNCHANGED <<asking, overlapped, late>>, loaded' \in {loaded, Nothing},
           row' = row
    PROVE  SyncInv'
BY DEF SyncInv, EditSeesRow, LoadedOfRow, ReportsOfLoaded, NotAhead, Nothing

\* A report, on time or late, of a version the agent has.
LEMMA ReportSync ==
    ASSUME TypeOK, SyncInv, NEW msg \in Messages,
           ~overlapped /\ msg.kind # "nack" => NotAhead(msg.version),
           row'.version = row.version, row'.config = row.config,
           row'.applied \in {row.applied, IF msg.kind = "nack" THEN row.applied ELSE msg.version},
           late' \subseteq late \cup {msg}, UNCHANGED <<asking, overlapped, loaded>>
    PROVE  SyncInv'
<1> SUFFICES ASSUME ~overlapped PROVE EditSeesRow' /\ LoadedOfRow' /\ ReportsOfLoaded'
  BY DEF SyncInv
<1>1. EditSeesRow /\ LoadedOfRow /\ ReportsOfLoaded
  BY DEF SyncInv
<1>2. EditSeesRow' /\ LoadedOfRow'
  BY <1>1 DEF EditSeesRow, LoadedOfRow
<1>3. NotAhead(row'.applied)
  BY <1>1 DEF ReportsOfLoaded
<1>4. \A m \in late' : m.kind # "nack" => NotAhead(m.version)
  BY <1>1 DEF ReportsOfLoaded
<1> QED
  BY <1>2, <1>3, <1>4 DEF ReportsOfLoaded, NotAhead

\* An edit that was opened on the present row writes the next version.
LEMMA EditRises ==
    ASSUME TypeOK, NEW u \in Users, SaveEdit(u), asking[u].seen.version = row.version
    PROVE  row' = row \/ row'.version = row.version + 1
<1> DEFINE q == asking[u]
<1>1. row \in Rows
  BY DEF TypeOK
<1>2. CASE SaveThreshold(q)
  BY <1>1, <1>2 DEF SaveThreshold, Rows
<1>3. CASE row' = [row EXCEPT !.config[q.field] = q.value, !.version = q.seen.version + 1,
                              !.error = @ /\ ~q.seen.error]
  BY <1>1, <1>3 DEF Rows
<1> QED
  BY <1>2, <1>3 DEF SaveEdit

\* Opening an edit and saving it.
LEMMA EditSync ==
    ASSUME TypeOK, SyncInv, NEW u \in Users, OpenEdit(u) \/ SaveEdit(u)
    PROVE  SyncInv'
<1> SUFFICES ASSUME ~overlapped' PROVE EditSeesRow' /\ LoadedOfRow' /\ ReportsOfLoaded'
  BY DEF SyncInv
<1>1. ~overlapped /\ UNCHANGED <<loaded, late>>
  <2>1. UNCHANGED <<loaded, late>>
    BY DEF OpenEdit, SaveEdit, agent
  <2>2. CASE OpenEdit(u)
    BY <2>1, <2>2 DEF OpenEdit
  <2>3. CASE SaveEdit(u)
    BY <2>1, <2>3 DEF SaveEdit, opened
  <2> QED
    BY <2>2, <2>3
<1>2. EditSeesRow /\ LoadedOfRow /\ ReportsOfLoaded
  BY <1>1 DEF SyncInv
<1>3. DOMAIN asking = Users
  BY DEF TypeOK
<1>4. CASE OpenEdit(u)
  <2>1. row' = row /\ \A v \in Users \ {u} : asking[v] = << >>
    BY <1>1, <1>4 DEF OpenEdit, server
  <2>2. PICK field, value : asking' = [asking EXCEPT ![u] = [seen |-> row, field |-> field, value |-> value]]
    BY <1>4 DEF OpenEdit
  <2>3. /\ asking'[u] = [seen |-> row, field |-> field, value |-> value]
        /\ \A v \in Users \ {u} : asking'[v] = << >>
    BY <1>3, <2>1, <2>2
  <2>4. asking'[u].seen = row
    BY <2>3
  <2>5. EditSeesRow'
    BY <2>1, <2>3, <2>4 DEF EditSeesRow
  <2> QED
    BY <1>1, <1>2, <2>1, <2>5 DEF LoadedOfRow, ReportsOfLoaded, NotAhead
<1>5. CASE SaveEdit(u)
  <2> DEFINE q == asking[u]
  <2>1. q # << >> /\ asking' = [asking EXCEPT ![u] = << >>]
    BY <1>5 DEF SaveEdit
  <2>2. q.seen.version = row.version /\ \A v \in Users : asking'[v] = << >>
    BY <1>2, <1>3, <2>1 DEF EditSeesRow
  <2>3. EditSeesRow'
    BY <2>2 DEF EditSeesRow
  <2>4. /\ row'.applied = row.applied
        /\ row' = row \/ row'.version = row.version + 1
    <3>1. row' = row \/ row'.version = row.version + 1
      BY <1>5, <2>2, EditRises
    <3>2. row'.applied = row.applied
      BY <1>5 DEF SaveEdit, SaveThreshold, TypeOK, Rows
    <3> QED
      BY <3>1, <3>2
  <2>5. LoadedOfRow'
    BY <1>1, <1>2, <2>4, VersionTypes DEF LoadedOfRow
  <2>6. ReportsOfLoaded'
    BY <1>1, <1>2, <2>4, VersionTypes DEF ReportsOfLoaded, NotAhead
  <2> QED
    BY <2>3, <2>5, <2>6
<1> QED
  BY <1>4, <1>5

LEMMA SyncSync == ASSUME TypeOK, SyncInv, Sync PROVE SyncInv'
<1>1. UNCHANGED <<row, asking, overlapped, late>>
  BY DEF Sync, server, opened
<1>2. CASE loaded' = loaded
  BY <1>1, <1>2, QuietSync
<1>3. CASE loaded' = Versioned(row.version, row.config)
  <2> SUFFICES ASSUME ~overlapped PROVE EditSeesRow' /\ LoadedOfRow' /\ ReportsOfLoaded'
    BY <1>1 DEF SyncInv
  <2>1. EditSeesRow /\ LoadedOfRow /\ ReportsOfLoaded
    BY DEF SyncInv
  <2>2. loaded'.version = row.version /\ loaded'.config = row.config
    BY <1>3 DEF Versioned
  <2> QED
    BY <1>1, <2>1, <2>2, VersionTypes DEF EditSeesRow, LoadedOfRow, ReportsOfLoaded, NotAhead
<1> QED
  BY <1>2, <1>3 DEF Sync

LEMMA StepSync == ASSUME TypeOK, SyncInv, [Next]_vars PROVE SyncInv'
<1>1. CASE \E u \in Users : OpenEdit(u) \/ SaveEdit(u)
  BY <1>1, EditSync
<1>2. CASE Sync
  BY <1>2, SyncSync
<1>3. ~overlapped /\ loaded # Nothing => NotAhead(loaded.version)
  BY VersionTypes DEF SyncInv, LoadedOfRow, NotAhead
<1>4. CASE Acknowledge
  <2> DEFINE msg == Ack(loaded.version, loaded.config)
  <2>1. /\ msg \in Messages /\ msg.kind = "ack" /\ msg.version = loaded.version
        /\ loaded # Nothing
    BY <1>4, AgentMessages DEF Acknowledge, TypeOK, Ack
  <2>2. Answered(msg) \/ Failed(msg)
    BY <1>4 DEF Acknowledge
  <2>3. UNCHANGED <<asking, overlapped, loaded>>
    BY <1>4 DEF Acknowledge, opened
  <2> HIDE DEF msg
  <2> QED
    BY <1>3, <2>1, <2>2, <2>3, ReportType, ReportSync
<1>5. CASE ReportError
  <2>1. Nack \in Messages /\ Nack.kind = "nack"
    BY AgentMessages DEF Nack
  <2>2. (Answered(Nack) \/ Failed(Nack)) /\ UNCHANGED <<asking, overlapped, loaded>>
    BY <1>5 DEF ReportError, opened
  <2> QED
    BY <2>1, <2>2, ReportType, ReportSync
<1>6. CASE Heartbeat
  <2>1. UNCHANGED <<asking, overlapped, loaded>>
    BY <1>6 DEF Heartbeat, opened
  <2>2. CASE UNCHANGED <<row, late>>
    BY <2>1, <2>2, QuietSync
  <2>3. CASE Answered(Beat) \/ Failed(Beat)
    <3>1. Beat \in Messages /\ Beat.version = IF loaded = Nothing THEN 0 ELSE loaded.version
      BY AgentMessages DEF Beat
    <3>2. ~overlapped => NotAhead(Beat.version)
      BY <1>3, <3>1, VersionTypes DEF NotAhead
    <3> QED
      BY <2>1, <2>3, <3>1, <3>2, ReportType, ReportSync
  <2> QED
    BY <1>6, <2>2, <2>3 DEF Heartbeat
<1>7. CASE LateReport
  <2>1. PICK msg \in late : Received(msg) /\ late' = late \ {msg}
    BY <1>7 DEF LateReport
  <2>2. msg \in Messages /\ row \in Rows /\ UNCHANGED <<asking, overlapped, loaded>>
    BY <1>7 DEF LateReport, TypeOK, agent, opened
  <2>3. ~overlapped /\ msg.kind # "nack" => NotAhead(msg.version)
    BY DEF SyncInv, ReportsOfLoaded
  <2> QED
    BY <2>1, <2>2, <2>3, ReceivedType, ReportSync
<1>8. CASE NoSync \/ Commands \/ Tick \/ AskRead \/ Restart \/ Age \/ Outage \/ UNCHANGED vars
  <2>1. UNCHANGED <<row, asking, overlapped, late>> /\ loaded' \in {loaded, Nothing}
    BY <1>8 DEF NoSync, Commands, Tick, AskRead, Restart, Age, Outage, vars, server, agent, opened
  <2> QED
    BY <2>1, QuietSync
<1> QED
  BY <1>1, <1>2, <1>4, <1>5, <1>6, <1>7, <1>8 DEF Next, Turn

\* The agent runs by the settings that the page shows as synced, whatever
\* reports were lost or late and however often it restarted, while one
\* edit at a time is in progress (sync_config, acknowledge_agent_config).
THEOREM SyncedIsLoaded == Spec => []SyncedInTurn
<1>1. Init => SyncInv
  BY InitSync
<1>2. TypeOK /\ SyncInv /\ [Next]_vars => SyncInv'
  BY StepSync
<1>3. TypeOK /\ SyncInv => SyncedInTurn
  <2> SUFFICES ASSUME TypeOK, SyncInv, ~overlapped, row.applied = row.version, loaded # Nothing
               PROVE  loaded = Versioned(row.version, row.config)
    BY DEF SyncedInTurn, SyncedMeansLoaded
  <2>1. loaded.version = row.version /\ loaded.config = row.config
    BY VersionTypes DEF SyncInv, LoadedOfRow, ReportsOfLoaded, NotAhead
  <2> QED
    BY <2>1 DEF Versioned, TypeOK
<1> QED
  BY <1>1, <1>2, <1>3, TypeCorrect, PTL DEF Spec

\* Only an edit changes the version or the settings; a report leaves both.
LEMMA OnlyEditsChange ==
    ASSUME TypeOK, [Next]_vars, \A u \in Users : ~SaveEdit(u)
    PROVE  row'.version = row.version /\ row'.config = row.config
<1>1. CASE Acknowledge
  <2>1. Ack(loaded.version, loaded.config) \in Messages
    BY <1>1, AgentMessages DEF Acknowledge, TypeOK
  <2> QED
    BY <1>1, <2>1, ReportType DEF Acknowledge
<1>2. CASE ReportError
  BY <1>2, AgentMessages, ReportType DEF ReportError
<1>3. CASE Heartbeat
  BY <1>3, AgentMessages, ReportType DEF Heartbeat
<1>4. CASE LateReport
  BY <1>4, ReceivedType DEF LateReport, TypeOK
<1>5. CASE \E u \in Users : OpenEdit(u)
  BY <1>5 DEF OpenEdit, server
<1>6. CASE Sync \/ NoSync \/ Commands \/ Tick \/ AskRead \/ Restart \/ Age \/ Outage \/ UNCHANGED vars
  BY <1>6 DEF Sync, NoSync, Commands, Tick, AskRead, Restart, Age, Outage, vars, server
<1> QED
  BY <1>1, <1>2, <1>3, <1>4, <1>5, <1>6 DEF Next, Turn

\* While one edit at a time is in progress, the version never goes back and new
\* settings have a new version, so that a version tells which settings it is of
\* (update_atm, create_or_update_threshold).
THEOREM VersionsOnlyRise == Spec => VersionsInTurn
<1> DEFINE Rises == /\ row'.version >= row.version
                    /\ row'.config # row.config => row'.version > row.version
<1>1. Init => SyncInv
  BY InitSync
<1>2. TypeOK /\ SyncInv /\ [Next]_vars => SyncInv'
  BY StepSync
<1>3. TypeOK /\ SyncInv /\ [Next]_vars => [~overlapped' => Rises]_vars
  <2> SUFFICES ASSUME TypeOK, SyncInv, [Next]_vars, ~overlapped'
               PROVE  Rises
    OBVIOUS
  <2>1. row.version \in Nat
    BY VersionTypes
  <2>2. ASSUME NEW u \in Users, SaveEdit(u)
        PROVE  Rises
    <3>1. ~overlapped /\ asking[u] # << >>
      BY <2>2 DEF SaveEdit, opened
    <3>2. asking[u].seen.version = row.version
      BY <3>1 DEF SyncInv, EditSeesRow
    <3> QED
      BY <2>1, <2>2, <3>2, EditRises
  <2>3. CASE \A u \in Users : ~SaveEdit(u)
    BY <2>1, <2>3, OnlyEditsChange
  <2> QED
    BY <2>2, <2>3
<1> QED
  BY <1>1, <1>2, <1>3, TypeCorrect, PTL DEF Spec, VersionsInTurn

===================================================================================
