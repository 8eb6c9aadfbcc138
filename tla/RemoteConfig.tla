----------------------------- MODULE RemoteConfig -----------------------------
(***************************************************************************)
(* The settings of an ATM and the agent that runs by them.  A user's edit  *)
(* gives them a new config_version (update_atm in                          *)
(* backend/app/routers/atms.py); the agent fetches them at an interval,    *)
(* hands them to its modules and acknowledges the version (sync_config in  *)
(* agent/atm_agent.py, ModuleRunner in agent/module_runner.py); its        *)
(* heartbeats repeat the version and say how its modules fare              *)
(* (backend/app/routers/agent.py).                                         *)
(*                                                                         *)
(* Time is counted in turns of run_forever.  Of the settings, those remain *)
(* that decide what two modules do; the journal reader is configured as    *)
(* cash monitoring is, and terminal_status is registered and never enabled.*)
(***************************************************************************)
EXTENDS Naturals, FiniteSets, FiniteSetsExt

CONSTANTS
    Users,             \* dashboards that edit
    Backups,           \* backup paths they enter: "outside", "inside" the media path
    SyncTurns,         \* config_sync_interval_seconds
    HeartbeatTurns,    \* heartbeat_interval_seconds
    ReadTurns,         \* cash_read_interval_seconds
    MaxEdits,          \* bound: edits
    MaxFaults,         \* bound: requests of the agent that go wrong, restarts
    MaxOutages         \* bound: changes of the dispenser between working and broken

ASSUME ConfigAssumption ==
    /\ Backups \subseteq {"outside", "inside"}
    /\ {SyncTurns, HeartbeatTurns, ReadTurns} \subseteq Nat \ {0}
    /\ {MaxEdits, MaxFaults, MaxOutages} \subseteq Nat

VARIABLES
    row,               \* the ATM's row: settings, versions, error, statuses
    snapshots,         \* atm_agent_configs
    asking,            \* user -> the edit in progress
    asked,             \* a cash_read_now command waits for the agent
    fresh,             \* the newest cash snapshot is not older than cash_stale_after_minutes
    place,             \* the agent: where it is in its turn
    since,             \* the agent: turns since it synchronised, sent a heartbeat, read
    loaded,            \* the agent: remote_config, with its version
    statuses,          \* the agent: ModuleRunner.statuses
    held,              \* the agent: what each module was configured with
    cashStatus,        \* the agent: CashMonitoringModule.status
    broken,            \* the dispenser cannot be read
    late,              \* reports the agent no longer waits for
    edits, faults, outages,    \* counted up to their bounds
    overlapped         \* history: an edit was opened while another was in progress

server == <<row, snapshots, fresh>>
agent  == <<place, since, loaded, statuses, held, cashStatus>>
world  == <<broken, outages>>
opened == <<edits, overlapped>>
vars   == <<server, asking, asked, agent, world, late, opened, faults>>

Modules == {"media_update", "cash_monitoring"}
Configs == [media : BOOLEAN, backup : Backups, cash : BOOLEAN]
Unset   == "unset"
Nothing == << >>
Statuses == {"disabled", "running", "error"}
Enabled(config) == {m \in Modules : IF m = "media_update" THEN config.media ELSE config.cash}
Versioned(v, c) == [version |-> v, config |-> c]
Versions == 0 .. MaxEdits + 1
AllDue == [sync |-> SyncTurns, beat |-> HeartbeatTurns, read |-> ReadTurns]

Rows == [config : Configs, version : Versions, applied : Versions, error : BOOLEAN,
         statuses : [Modules -> Statuses \cup {Unset, "configured"}]]
Messages ==
    [kind : {"ack"}, version : Versions, enabled : SUBSET Modules]
    \cup [kind : {"nack"}]
    \cup [kind : {"beat"}, version : Versions, statuses : [Modules -> Statuses]]

\* An edit in progress: the row as it was read and the value of one column.
IsEdit(q) ==
    /\ q.seen \in Rows
    /\ q.field \in {"media", "backup", "cash", "threshold"}
    /\ q.value \in IF q.field = "backup" THEN Backups ELSE BOOLEAN

TypeOK ==
    /\ row \in Rows /\ row.version <= edits + 1
    /\ snapshots \subseteq [version : Versions, config : Configs]
    /\ DOMAIN asking = Users
    /\ \A u \in Users : asking[u] # << >> => IsEdit(asking[u]) /\ asking[u].seen.version <= edits
    /\ asked \in BOOLEAN /\ fresh \in BOOLEAN /\ broken \in BOOLEAN /\ overlapped \in BOOLEAN
    /\ place \in {"turn", "ack", "nack", "beat", "commands", "tick"}
    /\ since \in [sync : 0 .. SyncTurns, beat : 0 .. HeartbeatTurns, read : 0 .. ReadTurns]
    /\ loaded # Nothing => loaded \in [version : Versions, config : Configs]
    /\ place \in {"ack", "nack", "tick"} => loaded # Nothing
    /\ statuses \in [Modules -> Statuses] /\ cashStatus \in Statuses
    /\ DOMAIN held = Modules
    /\ \A m \in Modules : held[m] # Nothing => held[m] \in Configs /\ m \in Enabled(held[m])
    /\ held["media_update"] # Nothing => held["media_update"].backup = "outside"
    /\ late \subseteq Messages
    /\ edits \in 0 .. MaxEdits /\ faults \in 0 .. MaxFaults /\ outages \in 0 .. MaxOutages

\* The agent as its process starts, the machine being up for some turns.
Started(up) ==
    [sync |-> Min({up, SyncTurns}), beat |-> Min({up, HeartbeatTurns}), read |-> Min({up, ReadTurns})]

Init ==
    /\ \E c \in Configs : row = [config |-> c, version |-> 1, applied |-> 0, error |-> FALSE,
                                 statuses |-> [m \in Modules |-> Unset]]
    /\ snapshots = {Versioned(1, row.config)}
    /\ asking = [u \in Users |-> << >>] /\ asked = FALSE /\ fresh = FALSE
    /\ place = "turn" /\ since = AllDue /\ loaded = Nothing
    /\ statuses = [m \in Modules |-> "disabled"] /\ held = [m \in Modules |-> Nothing]
    /\ cashStatus = "disabled"
    /\ broken = FALSE /\ late = {}
    /\ edits = 0 /\ faults = 0 /\ outages = 0 /\ overlapped = FALSE

---------------------------------------------------------------------------
(* The dashboard.                                                          *)

\* update_atm, create_or_update_threshold: reads the row, with a value for one
\* setting or new thresholds, which have no part in the agent's settings ...
OpenEdit(u) ==
    /\ asking[u] = << >> /\ edits < MaxEdits
    /\ edits' = edits + 1
    /\ overlapped' = (overlapped \/ \E v \in Users \ {u} : asking[v] # << >>)
    /\ \E field \in DOMAIN row.config \cup {"threshold"} :
       \E value \in IF field = "backup" THEN Backups ELSE BOOLEAN :
        asking' = [asking EXCEPT ![u] = [seen |-> row, field |-> field, value |-> value]]
    /\ UNCHANGED <<server, asked, agent, world, late, faults>>

\* ... and writes the columns it changed, the version among them.  The
\* snapshot is of the settings as this request read them.
Snapshot(q) == Versioned(q.seen.version + 1, [q.seen.config EXCEPT ![q.field] = q.value])

SaveThreshold(q) ==
    /\ row' = [row EXCEPT !.version = q.seen.version + 1]
    /\ UNCHANGED snapshots

SaveEdit(u) ==
    /\ asking[u] # << >>
    /\ asking' = [asking EXCEPT ![u] = << >>]
    /\ LET q == asking[u] IN
        \/ q.field = "threshold" /\ SaveThreshold(q)
        \/ /\ q.field # "threshold" /\ q.seen.config[q.field] = q.value
           /\ UNCHANGED <<row, snapshots>>
        \/ /\ q.field # "threshold" /\ q.seen.config[q.field] # q.value
           /\ row' = [row EXCEPT !.config[q.field] = q.value, !.version = q.seen.version + 1,
                                 !.error = @ /\ ~q.seen.error]
           /\ snapshots' = snapshots \cup {Snapshot(q)}
    /\ UNCHANGED <<fresh, asked, agent, world, late, opened, faults>>

\* request_cash_read_now.
AskRead ==
    /\ row.config.cash /\ asked' = TRUE
    /\ UNCHANGED <<server, asking, agent, world, late, opened, faults>>

---------------------------------------------------------------------------
(* The server's side of the agent's reports.                               *)

AckCurrent(version, config) == [kind |-> "ack", version |-> row.version, enabled |-> Enabled(config)]
Ack(version, config) == [kind |-> "ack", version |-> version, enabled |-> Enabled(config)]
Nack == [kind |-> "nack"]
Beat == [kind |-> "beat", version |-> IF loaded = Nothing THEN 0 ELSE loaded.version,
         statuses |-> statuses]

\* A cash error is kept back while there is a recent snapshot.
ShownStale(reported, m) ==
    IF m = "cash_monitoring" /\ reported[m] = "error" THEN "running" ELSE reported[m]
Shown(reported, m) ==
    IF m = "cash_monitoring" /\ reported[m] = "error" /\ fresh THEN "running" ELSE reported[m]

\* acknowledge_agent_config, heartbeat.
Configured(enabled) ==
    [m \in Modules |-> IF m \in enabled /\ row.statuses[m] = Unset THEN "configured" ELSE row.statuses[m]]
AppliedOnly(msg) == [row EXCEPT !.applied = msg.version, !.statuses = Configured(msg.enabled)]
Applied(msg) ==
    [row EXCEPT !.applied = msg.version, !.error = FALSE, !.statuses = Configured(msg.enabled)]

Received(msg) ==
    \/ msg.kind = "ack" /\ row' = Applied(msg)
    \/ msg.kind = "nack" /\ row' = [row EXCEPT !.error = TRUE]
    \/ /\ msg.kind = "beat"
       /\ row' = [row EXCEPT !.applied = msg.version,
            !.statuses = [m \in Modules |-> Shown(msg.statuses, m)]]

---------------------------------------------------------------------------
(* The agent.  An exception ends the turn.                                 *)

NextTurn(s) ==
    /\ place' = "turn"
    /\ since' = [sync |-> Min({s.sync + 1, SyncTurns}), beat |-> Min({s.beat + 1, HeartbeatTurns}),
                 read |-> Min({s.read + 1, ReadTurns})]

\* Handled and answered; or an error although handled, still to be handled, or
\* never.
Answered(msg) == Received(msg) /\ UNCHANGED <<late, faults>>
Failed(msg) ==
    /\ faults < MaxFaults /\ faults' = faults + 1
    /\ \/ Received(msg) /\ UNCHANGED late
       \/ late' \in {late, late \cup {msg}} /\ UNCHANGED row

NoSync ==
    /\ place = "turn" /\ since.sync < SyncTurns
    /\ place' = "beat"
    /\ UNCHANGED <<server, asking, asked, since, loaded, statuses, held, cashStatus, world, late, opened, faults>>

\* UpdateManager.apply_remote_config refuses a backup inside the media path;
\* CashMonitoringModule.configure takes every configuration the server gives.
AcceptsAll(m, config) == TRUE
Accepts(m, config) == m = "media_update" => config.backup = "outside"

\* sync_config up to the acknowledgement: ModuleRunner.configure turns a
\* module's refusal into a status, and hands a disabled module nothing.
Take(config) ==
    /\ held' = [m \in Modules |-> IF m \in Enabled(config) /\ Accepts(m, config) THEN config ELSE held[m]]
    /\ statuses' = [m \in Modules |->
            IF m \notin Enabled(config) THEN "disabled"
            ELSE IF Accepts(m, config) THEN "running" ELSE "error"]
    /\ cashStatus' = IF config.cash THEN "running" ELSE cashStatus

Sync ==
    /\ place = "turn" /\ since.sync = SyncTurns
    /\ \/ /\ loaded' = Versioned(row.version, row.config)
          /\ Take(row.config)
          /\ place' = "ack"
          /\ UNCHANGED <<since, faults>>
       \/ /\ faults < MaxFaults /\ faults' = faults + 1
          /\ NextTurn(since)
          /\ UNCHANGED <<loaded, statuses, held, cashStatus>>
    /\ UNCHANGED <<server, asking, asked, world, late, opened>>

\* The acknowledgement; when it fails, sync_config reports the failure and
\* gives the exception on.  So it does when the agent cannot write its state
\* after an acknowledgement that was handled, one of the outcomes of Failed.
Acknowledge ==
    /\ place = "ack"
    /\ LET msg == Ack(loaded.version, loaded.config) IN
        \/ Answered(msg) /\ place' = "beat" /\ since' = [since EXCEPT !.sync = 0]
        \/ Failed(msg) /\ place' = "nack" /\ UNCHANGED since
    /\ UNCHANGED <<snapshots, fresh, asking, asked, loaded, statuses, held, cashStatus, world, opened>>

ReportError ==
    /\ place = "nack"
    /\ Answered(Nack) \/ Failed(Nack)
    /\ NextTurn(since)
    /\ UNCHANGED <<snapshots, fresh, asking, asked, loaded, statuses, held, cashStatus, world, opened>>

Heartbeat ==
    /\ place = "beat"
    /\ \/ since.beat < HeartbeatTurns /\ place' = "commands" /\ UNCHANGED <<row, since, late, faults>>
       \/ /\ since.beat >= HeartbeatTurns
          /\ \/ Answered(Beat) /\ place' = "commands" /\ since' = [since EXCEPT !.beat = 0]
             \/ Failed(Beat) /\ NextTurn(since)
    /\ UNCHANGED <<snapshots, fresh, asking, asked, loaded, statuses, held, cashStatus, world, opened>>

\* CashMonitoringModule.tick when a read is due.
Read ==
    IF broken
    THEN cashStatus' = "error" /\ UNCHANGED <<fresh, since>>
    ELSE cashStatus' = "running" /\ fresh' = TRUE /\ since' = [since EXCEPT !.read = 0]

\* handle_agent_commands: read_now goes by the module's own configuration, and
\* its outcome is no status of the runner's.
Commands ==
    /\ place = "commands"
    /\ \/ loaded = Nothing /\ NextTurn(since) /\ UNCHANGED <<asked, fresh, cashStatus>>
       \/ /\ loaded # Nothing /\ place' = "tick" /\ asked' = FALSE
          /\ IF asked /\ held["cash_monitoring"] # Nothing
             THEN Read
             ELSE UNCHANGED <<fresh, since, cashStatus>>
    /\ UNCHANGED <<row, snapshots, asking, loaded, statuses, held, world, late, opened, faults>>

\* ModuleRunner.tick: a module that ends without an exception has the status it
\* gives itself, whatever it was when it was configured.
MediaTicked(failed) ==
    IF "media_update" \notin Enabled(loaded.config) THEN statuses["media_update"]
    ELSE IF held["media_update"] = Nothing THEN "disabled"
    ELSE IF failed THEN "error" ELSE "running"

Tick ==
    /\ place = "tick"
    /\ \E failed \in BOOLEAN :
        /\ failed => faults < MaxFaults /\ loaded.config.media /\ held["media_update"] # Nothing
        /\ faults' = IF failed THEN faults + 1 ELSE faults
        /\ LET due == loaded.config.cash /\ since.read = ReadTurns
               reads == due /\ ~broken
               own == IF reads THEN "running" ELSE IF due THEN "error" ELSE cashStatus
           IN  /\ cashStatus' = own
               /\ fresh' = (fresh \/ reads)
               /\ NextTurn([since EXCEPT !.read = IF reads THEN 0 ELSE @])
               /\ statuses' = [m \in Modules |->
                    IF m = "media_update" THEN MediaTicked(failed)
                    ELSE IF loaded.config.cash THEN own ELSE statuses[m]]
    /\ UNCHANGED <<row, snapshots, asking, asked, loaded, held, world, late, opened>>

Restart ==
    /\ faults < MaxFaults /\ faults' = faults + 1
    /\ \E up \in 0 .. Max({SyncTurns, HeartbeatTurns, ReadTurns}) : since' = Started(up)
    /\ place' = "turn" /\ loaded' = Nothing
    /\ statuses' = [m \in Modules |-> "disabled"] /\ held' = [m \in Modules |-> Nothing]
    /\ cashStatus' = "disabled"
    /\ UNCHANGED <<server, asking, asked, world, late, opened>>

---------------------------------------------------------------------------

LateReport ==
    /\ \E msg \in late : Received(msg) /\ late' = late \ {msg}
    /\ UNCHANGED <<snapshots, fresh, asking, asked, agent, world, opened, faults>>

\* The newest snapshot grows old.
Age ==
    /\ fresh /\ fresh' = FALSE
    /\ UNCHANGED <<row, snapshots, asking, asked, agent, world, late, opened, faults>>

Outage ==
    /\ outages < MaxOutages /\ outages' = outages + 1
    /\ broken' = ~broken
    /\ UNCHANGED <<server, asking, asked, agent, late, opened, faults>>

Turn == NoSync \/ Sync \/ Acknowledge \/ ReportError \/ Heartbeat \/ Commands \/ Tick
Next ==
    \/ \E u \in Users : OpenEdit(u) \/ SaveEdit(u)
    \/ AskRead \/ Turn \/ Restart \/ LateReport \/ Age \/ Outage

Spec == Init /\ [][Next]_vars

\* The agent goes on, an edit is saved, a snapshot grows old unless a new one
\* comes.
FairSpec ==
    /\ Spec /\ WF_vars(Turn) /\ WF_vars(Age)
    /\ \A u \in Users : WF_vars(SaveEdit(u))

---------------------------------------------------------------------------
(* Properties.                                                             *)

\* Synced on the page means synced: when the version the ATM's row shows as
\* applied is its version, the agent that runs has these very settings
\* (sync_config, update_atm).
SyncedMeansLoaded ==
    row.applied = row.version /\ loaded # Nothing => loaded = Versioned(row.version, row.config)

\* So it is as long as one edit at a time is in progress, whatever reports are
\* lost or come late and however often the agent restarts.
SyncedInTurn == ~overlapped => SyncedMeansLoaded

\* Then the version never goes back, and the settings never change under a
\* version that has been given out (update_atm).
VersionsInTurn ==
    [][~overlapped' => /\ row'.version >= row.version
                       /\ row'.config # row.config => row'.version > row.version]_vars

\* Synced on the page means that the media module, when it is on, has taken
\* these settings (ModuleRunner.configure, sync_config).
SyncedMeansTaken ==
    row.applied = row.version /\ ~row.error /\ loaded # Nothing /\ place = "turn"
    /\ loaded.config.media /\ loaded.version = row.version
        => held["media_update"] = loaded.config

\* In the end the agent has the settings that were saved last, and the page
\* shows them as applied and without an error, whatever was lost or came late
\* and however edits overlapped (run_forever).
Converges ==
    <>[](/\ loaded = Versioned(row.version, row.config)
         /\ row.applied = row.version /\ ~row.error)

\* A dispenser that stays broken while cash monitoring is on is shown as an
\* error again and again, although every synchronisation sets the status to
\* running and a recent snapshot hides it (ModuleRunner, heartbeat).
BrokenIsShown ==
    <>[](broken /\ row.config.cash) => []<>(row.statuses["cash_monitoring"] = "error")

\* An agent that has been told that cash monitoring is off does not read the
\* dispenser (read_now in agent/cash_monitoring_module.py).
OffMeansOff ==
    [][~fresh /\ fresh' => loaded.config.cash]_vars
=============================================================================
