# ATM Media Update Manager in TLA+

This directory holds a specification of the protocols by which the server and
the agents of this repository change what runs on an ATM: TLA+ modules
translated from the source, configurations that let TLC check them on small
instances, and theorems that the TLA+ proof system checks for all instances.

Paths below are relative to the repository.

## The system

A FastAPI **server** (`backend/app`) keeps everything it knows in a SQL
database. An **agent** (`agent/`) runs on each ATM, as a Windows service or a
scheduled task, and only ever calls the server: it polls for its
configuration, for packages, for commands and probes, and posts what it did.
A **dashboard** (`frontend/`) and an Android app call the same server on behalf
of users. A **WhatsApp gateway** and an SMTP server carry notifications.

Every request handler of the server is a synchronous function with one
database session that commits once, at the end, unless noted below. So a
handler is one action. The agent is one thread: `run_forever`
(`agent/atm_agent.py:624`) goes round a loop that catches every exception. What
makes the system hard is between the two: a call that times out on the agent
may still be handled by the server, later, after other calls; an agent may be
killed between any two statements; an administrator may put a package back to
pending while an agent works on it; and during a self-update a second process,
the updater, works on the files the agent works on.

| Component | State | Operations | Talks to | Hard part | What makes it correct |
|---|---|---|---|---|---|
| Media update, server (`routers/agent.py`, `routers/packages.py`) | `UpdateTarget.status` per ATM and package, the ATM's image version | assign, retry, check, download, progress, result, heartbeat | agent, dashboard | calls late or lost, retry under a running attempt | applied only if it was; an assignment gets a final status |
| Media update, agent (`update_manager.py`, `backup_manager.py`, `safe_zip.py`) | image directory, backups, downloaded archive, known version | download, verify, extract, back up, clean, copy, roll back | server | any step may fail, or be cut off by a kill | no image set is lost; only verified images are shown; a rollback restores |
| Agent self-update, server (`routers/agent.py`, `routers/agent_packages.py`, `agent_update_service.py`) | `AgentUpdateTarget.status`, time of last activity | the same, limit on simultaneous downloads, marking of stale targets | agents, dashboard | check-then-act across ATMs, dead ATMs | nobody waits for ever; the limit |
| Agent self-update, agent (`agent_self_update.py`, `agent_updater.py`) | staged files, `atm-agent.exe`, `update-result.json`, the updater process | stage, launch, exit; stop, replace, start, write result | server, Windows | two processes and one disk, power loss | the executable is a verified one; the agent comes back; the result is reported |
| Notification delivery (`notification_service.py`, `routers/notifications.py`) | deliveries with status and attempt count, retry lock, gateway status | send, retry in background or by hand, monitor | alerts, SMTP, gateway | a session committed before the send, two threads | at most one success per alert and recipient; a failure is retried or given up |
| Cash monitoring (`routers/cash.py`, `cash_monitoring_module.py`) | units, snapshots, open alerts | snapshot, alert opened and closed, forecast | agent, notifications | snapshots out of order, regression filter | at most one open alert per cassette and kind; units show the newest snapshot |
| Commands (`routers/cash.py`, `routers/agent.py`) | `AgentCommand.status` | request, list, acknowledge, expire | dashboard, agent | expiry racing the acknowledgement | one active command per ATM; a command ends |
| Switch probe (`routers/atms.py`, `routers/agent.py`) | `AtmSwitchProbe.status`, last probe of the ATM | request, hand out, report, periodic snapshot | dashboard, agent, notifications | a lost reply leaves a probe running | a probe can be asked for again; a failure is notified |
| Journal reader (`journal_reader.py`, `journal_reader_module.py`, `routers/agent.py`) | offset per file, parser state, events | read, send in batches, merge | agent, notifications | failure between batches, restart within a transaction | no event is lost or stored twice |
| Remote configuration (`routers/atms.py`, `routers/agent.py`, `module_runner.py`) | `config_version`, applied version | change, fetch, acknowledge | dashboard, agent | stale acknowledgements | the applied version is one the modules took |
| WhatsApp gateway (`whatsapp-gateway/server.js`, `notification_service.py`) | session status, reconnection timer, last recorded status | client events, reconnect, check | the client library, monitor, dashboard | a status that changes between checks | one disconnection, one alert |
| Users and sessions (`auth.py`, `routers/auth.py`) | users, login attempts | login, change, disable | dashboard | window of the limit | the limit holds |

`PROJECT.json` lists the rest (uploads, administration, installation, XFS
readers, migrations, dashboard) with the reason it is left out, and the hazards
of the code at their lines.

## The modules

| Module | What it is | Checked by |
|---|---|---|
| `MediaTargets` | the server's side of media packages for one ATM | |
| `MediaUpdate` | the agent's side, the connection, kills; EXTENDS `MediaTargets` | `MCMediaUpdate` |
| `MediaUpdateProofs` | its theorems | TLAPS |
| `AgentTargets` | the server's side of agent packages for a fleet | |
| `AgentSelfUpdate` | agent, updater and Windows on one ATM; EXTENDS `AgentTargets` | `MCAgentUpdate` |
| `AgentRollout` | a fleet of ATMs sharing the download limit; EXTENDS `AgentTargets` | `MCAgentUpdate` |
| `AgentUpdates` | both side by side, for the properties that join them; EXTENDS `AgentSelfUpdate`, an instance of `AgentRollout` | `MCAgentUpdate` |
| `AgentSelfUpdateProofs` | theorems about both | TLAPS |
| `NotificationDelivery` | deliveries, requests that send, two threads that retry | `MCNotification` |
| `WhatsAppGateway` | the gateway's session and the server's checks of it | `MCNotification` |
| `Notifications` | both side by side; EXTENDS `NotificationDelivery`, an instance of `WhatsAppGateway` | `MCNotification` |
| `NotificationDeliveryProofs` | theorems about both | TLAPS |
| `CashRules` | the pure rules of cash monitoring: layout, report, alerts, verification, forecast | `MCCashRules` |
| `CashReadings` | what the rules must satisfy, reading by reading and for a history of readings; EXTENDS `CashRules` | `MCCashRules` |
| `CashBoard` | abstract: what cash monitoring promises its users | |
| `CashMonitoring` | snapshots and alerts; EXTENDS `CashRules`, implements `CashBoard` | `MCCashMonitoring` |
| `CashMonitoringProofs` | theorems about `CashMonitoring` and `CashReadings`, the refinement of `CashBoard` | TLAPS |
| `SwitchProbe` | probes asked for and periodic probes | `MCRequests` |
| `CashCommands` | the read-now command | `MCRequests` |
| `Requests` | both side by side; EXTENDS `SwitchProbe`, an instance of `CashCommands` | `MCRequests` |
| `RequestsProofs` | theorems about both | TLAPS |
| `RemoteConfig` | settings, their version, the modules that run by them, heartbeats | `MCRemoteConfig` |
| `RemoteConfigProofs` | its theorems | TLAPS |
| `JournalReader` | journal files, the reader, its parsers, the server's events | `MCJournalReader` |
| `JournalReaderProofs` | its theorems | TLAPS |
| `RowLemmas` | lemmas about rows, tables, sequences and folds over them, for the proofs | TLAPS |

### Media update

`target[p]` is `UpdateTarget.status` and `imageVersion` is
`ATM.current_package_version`. `IsOffered` is what `check_update` answers: the
oldest pending package. `DownloadRequested`, `Progress` and `Result` are the
handlers, with their different ideas of what they may overwrite: progress never
leaves a finished status for a working one, a result is unconditional, a
download request sets downloading whatever was there. `Assign` and
`RetryFailed` are the dashboard's.

`MediaUpdate` has one action per step of `UpdateManager.apply_update`, in its
order, each with the way it may fail (`Fail`), which is the code's `except`
branch: restore if there is a backup, then report. The disk is `media` (the
image directory), `saved` (the backup directories), `backup` (this attempt's)
and `zip`. A directory's content is the number of the package it holds, or
`Broken` (incomplete) or `Corrupt` (a checksum that does not match): the
properties tell no more apart. Cleaning and copying are two steps each, because
a kill or an error in the middle of them is what the backup is for.

A **call** is answered, or not. If it is not answered, it was lost, or it stays
in `late` and is handled at any later time: that is what a timeout of `requests`
means. The agent's code decides what follows: progress calls swallow the error
(`api_client.py:114-136`), result calls raise it.

History variables serve the properties only: `before` (what the attempt found),
`intact` (the last complete image set an attempt began with), `installed`,
`damaged`, and the counters that bound faults.

### Agent self-update

`AgentTargets` is indexed by ATM, because the download limit and the marking of
stale targets are about the fleet. Time is reduced to `silent[a][p]`: the last
activity is older than half an hour, which is both the window of the limit
(`AGENT_UPDATE_ACTIVE_WINDOW`) and, by default, the age of a stale target. A
version string is the number of its package.

`AgentSelfUpdate` has three actors. The agent's loop (`Loop`): report what
`update-result.json` holds, move it away, check, stage, fetch, launch, exit. The
updater of each package (`Updater(p)`), which survives the agent: validate,
stop, back up, replace, start, write the result, and `main`'s `except` branch.
Windows: restarts by the service's failure action or the task
(`RestartByWindows`), power losses that stop everything and may leave the result
file unreadable (`Reboot`), and steps of the updater it makes fail (`Mishap`).
`exe` and `staged` say which package's executable a file holds, or `Partial` or
`Missing`. Windows refuses to delete an executable that runs, so `Stage` fails
while an updater of the same package is still at work.

`AgentRollout` reduces an agent to holding an offer, working and finishing, adds
ATMs that die and may not come back, and asks what the limit does to the others.
`unseen` is history: a package was offered while an ATM had it that was not counted,
because it had not begun, had been silent for long, or was put back to pending at
work.

### Notification delivery

A delivery is named by its alert, its recipient and the request that made it.
`status` and `attempts` are what is committed; `mine` is what a request has
inserted and not yet committed, `unflushed` what a retry found out and has not
yet written, because the sessions do not flush before a query
(`backend/app/database.py:22`). A request (`Begin`, and what `Proceed` joins)
walks through the recipients, checks for a success in the committed rows,
inserts, sends and commits with its snapshot, or is rolled back with it. A retry
(`StartRetry`, `Continue`) takes the lock, lists what is due, and commits before
each send. `Sqlite` says whether writing transactions exclude each other.
`overlapped` is history: a snapshot was begun while another was at work.

`WhatsAppGateway` has the client library's events as its gateway registers
them, the reconnection timer, `initializeClient` in its two waiting steps, and
checkers that read the last recorded status, ask the gateway, and record. What
the library may do next is external.

### Cash monitoring

`CashRules` translates the functions that decide: how a layout is completed on
each side (`normalized_cash_layout` and the agent's defaults), what the agent
reports of what the dispenser lists, which alerts a unit has, what the
verification says of the stored units, and the forecast in hundredths, as the
code rounds.

`CashMonitoring` uses them. A snapshot has a time by the ATM's clock, which may be
behind or ahead, may be late or lost; `Receive` reads the database, stamps and
refuses (older than what is shown, or a suspicious drop); `Commit` writes what
was decided then. Between the two the alerts' messages are sent, so that
requests overlap. `CashBoard` says in a page what users are promised: one
reading per cassette, never replaced by an earlier one, and the alerts that the
shown reading asks for. `CashMonitoring` implements it when requests do not
overlap (`Board == INSTANCE CashBoard WITH ...`, `ImplementsBoard`).

### What a user asks of an agent

`SwitchProbe`: a request reads the newest probe and the ATM's target in one step
and writes in another (`asking`); the agent's turn asks for a probe, makes it,
reports it, then makes its periodic one. A request of the agent is answered,
lost or late. `CashCommands` is the read-now command with its two expiries, the
commands the agent has fetched (`queue`, worked through from the oldest, at most
`FetchLimit` at a time), and acknowledgements that overwrite whatever the status
was.

### Remote configuration

The agent's turn (`run_forever`) is a walk through `place`: synchronise,
acknowledge, heartbeat, commands, the modules' ticks. Time is counted in turns,
and an interval is a number of turns. `held` is the configuration each module
really took, `loaded` the one the agent acknowledged, `row.applied` what the
page shows. Edits read the version in one step and write it in another;
`overlapped` is history: one was opened while another was in progress.

### Journal reader

The ATM appends lines to its files, the agent reads to the end, and a file may
be replaced by a new one. A line is its kind and, on a receipt, its RRN; a
position counts half lines, since the last line may be half written. The three
parsers (GRG, NCR's EJDATA, the merged trace) keep what they keep in memory
(`parser`), the positions are on disk (`saved`), a pass is in progress between
reading and saving (`pass`). `faults` is history: how many there were, and of which
kinds. The server recognises an event by its uid, the
end of a transaction also by its RRN, and alerts when the ATM goes out of
service.

## What TLC checks

Bounds are CONSTANTS, named in the modules and set in the `.cfg` files.

### Instances

A question may need other bounds than the next one: more retries and no kill,
two users and no outage. Each MC module therefore holds several **instances** of
its component (`X == INSTANCE Component WITH <bounds>`), and a behaviour takes one
of them in its first state and keeps it (`instance`). The `.cfg` names the instances
of the run and the largest bounds. A property that belongs to some of the instances
is stated for those (`instance = "settles" => AgentComesBack`), and the
fairness of an instance is stated the same way. So one run answers the
questions about a component, and the state spaces are added, not multiplied.

| Run | Instances | Properties |
|---|---|---|
| `media_update` | `faults`: 2 packages, 2 retries, 1 lost or late call, 2 kills. `reliable`: fair, 2 retries, nothing lost, no kill. `settles`: fair, 1 package, 2 retries, 3 lost or late calls, a kill | `TypeOK`, `NoImageSetLost`, `OnlyVerifiedImages`, `BrokenOnlyWhileReplacing`, `RollbackRestoresImages`, `AppliedWasInstalled`; `ShownWhenReliable`; `SettlesUnlessUnheard` |
| `media_rollback` | `faults` with 1 late call | `RollbackReachesServer`, **violated** |
| `agent_update` | `faults`: 1 package, 2 retries, a fault of each kind. `overlap`: 2 packages, a power loss. `settles`: fair, the faults that leave the agent able to start. `rollout`: fair, 3 ATMs, 1 place, 2 deaths | `TypesOK`, `ExecutableIsVerified`, `AppliedWasInstalled`; `FleetThrottled`; `ComesBack`, `Settled`; `ATMServed` |
| `self_update_comeback` | `unvalidated`: fair, 1 failing validation | `AgentComesBack`, **violated** |
| `rollout_throttle` | `rollout`: 2 ATMs, 1 place | `DownloadsThrottled`, **violated** |
| `notification` | `faults`: overlapping transactions, a restart or a lost database, an unanswered send. `serial`: e-mail and WhatsApp, one snapshot after the other. `attempts`: fair, the 5 attempts of the code. `restarts`: fair, a restart, 2 snapshots at a time. `slow`: the gateway, its client as slow as it likes | `TypesOK`, `RetriesExclude`; `NoDuplicateInTurn`; `DeliverySettles`; `AlertIsDelivered`; `DisconnectionAlertedOnce` |
| `cash_rules` | every reading of a set that meets each threshold from both sides, three layouts; every history of 4 readings | `AgentAndServerAgree`, `MatchedMeansSound`, `ForecastIsSound` (`RateIsObserved` and `RiskCoversAlert`) |
| `cash` | `main`: 2 cassettes, late and lost snapshots, a clock that is off. `blind`: 1 cassette, 2 changes of its count, more time | `TypeOK`, `CassetteCountedOnce`, `BlindnessEnds`, `ImplementsBoard` |
| `requests` | `probes`: 2 dashboards, 2 probes, 2 faults. `answered`: fair, no fault, outages and edits. `commands`: 2 dashboards, 2 commands, 2 faults. `one asks`: fair, one of them asks | `TypesOK`, `OutcomeIsItsOwn`, `ReadOnce`; `ProbesEnd`; `CommandsEnd` |
| `config` | `single`: one user, a backup path the agent refuses or takes, a fault. `overlap`: fair, two users. `broken`: fair, the dispenser breaks | `TypeOK`, `SyncedInTurn`; `ConvergesAfterOverlap`; `BrokenComesToLight` |
| `journal` | `faults`: a GRG journal in batches of 2 events; 4 faults (lost and late batches, restarts, lost positions, a new file). `divided`: a GRG journal, an NCR journal and a merged trace, divided by reading and sending in every way; the positions are lost once. `out`: fair, 4 faults, a commit that fails after the alert among them. `split`: half lines | `OutIsHandledOnce`; `DividedIsWhole`; `EveryOutIsAlerted` |
| `journal_retry` | `retry`: one batch fails | `RetriedIsWhole`, **violated** |

Why the bounds are enough. An attempt has at most one package, so two packages
give an older and a newer one, and a third adds nothing an interleaving of two
does not show. Three lost calls are the one that fails an attempt and the two that
would tell of it. Two kills and two retries let an attempt begin on what a killed
attempt left, and be cut off itself. One late call can arrive after any number
of later steps. Three ATMs and one place let a dead ATM hold the place while
another waits behind a third. Two requests are what a check-then-act needs to go
wrong, in notifications, commands, probes and edits alike; two probes or commands
let one supersede or outlive another. Two cassettes let a snapshot be newer on
one and older on the other; the clock runs for three windows of suspicion, the
largest skew included. A journal of six lines has a whole transaction and an
out-of-service line, and a batch of two events divides it everywhere. The
theorems lift the bounds for all the invariants of the runs (below).

Liveness is checked for one of several interchangeable elements (one ATM of the
rollout, one delivery of an address): nothing in the modules tells
them apart.

Deadlock is not checked where the program may stop: with the fault budgets spent
and nothing asked for, nothing moves. `config` checks it, because the agent's
loop never ends.

### The violated claims of the runs

- `media_rollback`. `README.md:196` says that on failure the agent rolls back
  and sends the reason to the server. If the reply to the *success* report is
  lost, `report_result` raises inside the same `try`; the agent rolls back a
  complete update, while the success call is handled late and the server shows
  the package as applied.
- `self_update_comeback`. `agent/README.md:178`: the updater starts the same
  mode again. When it fails before it has stopped the agent, it starts the agent
  while the old one is on its way out; the start has no effect, and then nothing
  runs.
- `rollout_throttle`. `backend/tests/test_api.py:222` holds the download limit
  for one order of calls. The check counts downloads already started, and an
  offer reserves nothing: ATMs that check together all download together.
- `journal_retry`. `agent/tests/test_journal_reader.py:266` says what a
  transaction's end carries. `read_and_send` advances the parser before it
  sends; when the batch fails the position stays and the parser does not go
  back, so the lines are parsed again by a parser whose transaction has ended: an
  NCR journal gives no end of the transaction, and the position moves on.

### Other disagreements

The MC modules hold the instances in which further statements of the repository
fail. They are no runs; each is seen by putting its instance into the component's `.cfg`
and checking the property named.

| Instance | Property | What the code does |
|---|---|---|
| `outage` of `MCMediaUpdate` | `SettlesAfterOutage` | An outage that fails an attempt also loses what tells of it: the progress call is swallowed, the report raises and is not repeated. The target stays `downloading`, and only pending ones are offered (`update_manager.py:85`, `api_client.py:133`, `README.md:196`). |
| `unreported` of `MCAgentUpdate` | `ResultIsReported` | One `update-result.json` serves all packages: when the report of one is lost, the same round goes on to the next, whose updater overwrites the file (`agent_updater.py:159`, `agent/README.md:181`). |
| `duplicate` of `MCNotification` | `NoDuplicate` | Two snapshots handled at once, the first send failed: both deliveries are sent by the retries, since an outcome that is not flushed is not seen (`notification_service.py:668`, its own message at 671). |
| `prompt` of `MCNotification` | `DisconnectionAlerted` | A check between the disconnection and the end of the reconnection records `starting`; the next finds a problem with `starting` before it, and no alert is sent (`notification_service.py:527`, `NotificationCenter.jsx:944`). |
| the cases of `MCCashRules` | `InoperativeIsAlerted` | An inoperative cassette is reported as physically inoperative too, and the server, which looks at that first, calls it missing: `CASSETTE_INOP` never opens (`cash_monitoring_module.py:136`, `cash.py:414`, `CashMonitoring.jsx:98-99`). |
| `overlap` of `MCCashMonitoring` | `CassetteCountedOnce` | `sync_alert` looks and inserts without a constraint: two snapshots of one ATM handled at once count a cassette twice (`cash.py:343`, `test_api.py:1451`). |
| `main` of `MCCashMonitoring` | `MissingReadingShown` | The verification finds a cassette's old row and does not miss it (`cash.py:175`, `CashMonitoring.jsx:90`). |
| `lost` of `MCRequests` | `ProbeIsMadeThough` | A probe is running before the agent has it: a lost reply leaves it running, and every later request for the target returns it (`agent.py:443`, `atms.py:705`, `README.md:198`). |
| `answered` of `MCRequests` | `FailureAlerted` | A user's failed probe is recorded without an alert, and the periodic probe then sees no change (`agent.py:470`, `NotificationCenter.jsx:929`). |
| `answered` of `MCRequests` | `TargetIsKept` | When a probe to the target is under way, the early return skips the commit of the target just set (`atms.py:706`, `test_api.py:1176`). |
| `single` of `MCRemoteConfig` | `SyncedMeansTaken` | `ModuleRunner.configure` swallows a refusal, and the version is acknowledged as applied (`module_runner.py:49`, `atm_agent.py:564`). |
| `overlap` of `MCRemoteConfig` | `SyncedMeansLoaded` | Overlapping edits get one version; the agent may have the first only and be shown as synced until it synchronises again (`atms.py:630`, `Atms.jsx:141`). |
| `hidden` of `MCRemoteConfig` | `BrokenComesToLight` | With heartbeats as rare as synchronisations each heartbeat follows a synchronisation that has just set the status to running (`module_runner.py:48`, `Atms.jsx:145`). |
| `broken` of `MCRemoteConfig` | `OffMeansOff` | A module that is turned off is not configured, and `read_now` still reads (`cash_monitoring_module.py:324`). |
| `undated` of `MCJournalReader` | `RestartSkipsNothing` | The date of an NCR journal is in memory, the position on disk: after a restart the lines up to the next header are passed over (`journal_reader.py:523`). |
| `split` of `MCJournalReader` | `HalvesAreAlerted` | A line read in two halves is not recognised (`journal_reader.py:1076`). |
| `twice` of `MCJournalReader` | `TwiceIsCountedOnce` | Two files that tell of one transaction in one batch give two events, since the check does not see what the batch has added (`routers/agent.py:952`). |

More limits of the code, not claimed otherwise by any document, shape the
instances. A media target stays in `downloading` with nobody working on it in three
cases: no call that tells of a failed attempt was answered (`outage` above); a
download or progress call that is handled late overwrites a final status, or the
pending one of a retry; the agent is killed at work. `unheard` records them, and
`SettlesUnlessUnheard` says that they are all. After a lost call the server may show
an image version that was rolled back: `ServerShowsDiskVersion` fails in the
instance `faults` of `MCMediaUpdate`, hence `ShownWhenReliable`. Two checks of the
WhatsApp session at once may both alert (`DisconnectionAlertedOnce` with two
`Checkers`). A self-update whose updater is not able to stop the agent starts it while it
exits, as in `self_update_comeback`, hence `settles` of `MCAgentUpdate` has no such
fault. A self-update whose start fails after the replacement reports failed
although the new agent is in place, until somebody retries it. A message whose
send timed out is sent again, hence `serial` has no unanswered sends. A failed
commit after a journal alert sends the alert again, hence `OutIsHandledOnce` ends there. A
threshold of zero is read by the agent as missing, and a critical threshold above
the low one, which nothing refuses, leaves the agent saying OK of a cassette with a
critical alert; the layouts of `MCCashRules` have neither.

### Fairness

- *Agent.* The loop is weakly fair: it runs for as long as the process does, every
  call has a timeout, every exception is caught (`atm_agent.py:639-695`). In `settles` of
  `MCMediaUpdate` a killed agent is started again, by the service manager or the
  scheduled task. An
  updater that was started runs to its end: its retries have a deadline
  (`agent_updater.py:107-119`). A journal line that was begun is finished.
- *Server.* A request that has begun ends. In `notification` requests, the
  start of the background retry and its steps are strongly fair: they wait for a
  lock that is held briefly, again and again, by others, and SQLite's busy
  timeout gives it to who waits. The monitor starts a retry
  once a minute; the ATM goes on sending snapshots while an alert is open. The
  dashboard's retry need not start.
- *Time.* Half hours pass, a delivery becomes due, a command ages, a cash
  snapshot grows stale.
- *Not fair:* the administrator, kills, reboots, restarts by Windows during a self-update, ATMs coming
  back, the handling of late calls, the dispenser. One exception: in
  `one asks` late acknowledgements are handled at last, and one dashboard goes on
  asking, because a command is expired only when somebody looks.

So `ComesBack` rests on the updater alone, and `ATMServed` on the
age of dead ATMs' targets alone. `Settled` allows the mishaps after which
the updater's `except` branch still finds the agent stopped; where the agent
stays down (`self_update_comeback`), an assignment of course does not settle.

## What is proved

Every theorem holds for all values of the constants that satisfy the modules'
assumptions: bounds are naturals, intervals and attempts at least one, the sets
of ATMs, of alerts, recipients and snapshots and of the clock's errors are finite.
`CashAssumption` adds that the modelled time is longer than the ATM's clock can be
behind. Where a theorem has a further hypothesis it is in its statement and below.
`CashCommands` names its assumption, `BoundsOK`, and `Requests` assumes it of its
instance; the theorems about commands are about that instance.

Few of the invariants are inductive. The inductive invariant of a component is a
conjunction of named parts, at the head of its proofs module, and each part was
checked by TLC before it was proved. A step is proved by a case per action and, in the
larger modules, a lemma per part or per action.

| Component | Theorems | The argument |
|---|---|---|
| Media update (`MediaUpdateProofs`) | `TypeCorrect`, `ImageSetsSurvive`, `ImagesAreVerified`, `AppliedIsInstalled`, `RollbackIsExact`, `BrokenIsExplained`, `ShownIsOnDisk`: all the invariants of `media_update` | `CheckedInv`: past the checksum the archive is the package's. `BackedUpInv`: from `create_backup` on, the last complete image set is in a backup directory. `ReportedInv`: what a call on the wire or about to be made calls applied was copied. `RestorableInv`: how the image directory and the backup compare with what the attempt found, step by step. `ShownInv`: until a call is lost or the agent killed, both sides know the same version. |
| Agent self-update (`AgentSelfUpdateProofs`) | `TypeCorrect`, `ExecutableVerified`, `AppliedIsInstalled` | `CustodyInv`: a staged executable belongs to the agent until the updater is launched, and to the updater from then on. It needs the refusal of Windows to delete a running updater: the mutant without it violates `ExecutableIsVerified`. `InstalledInv`: what runs, what a result file says and what is on the wire was installed. |
| Agent rollout (there) | `RolloutTypeCorrect`; `ThrottledUntilUnseen` (`FleetThrottled`), for every fleet and limit | The types, and that an agent holding an offer or at work has a package. The limit is not inductive: an offer reserves no place. `ClaimsInv`: the ATMs that have a package, at work or not, with those that are counted, are within the limit; `ClaimsStep`: a step adds a claim only by an offer, and then all claims are counted. |
| Notification delivery (`NotificationDeliveryProofs`) | `TypeCorrect`, `RetriesAreExclusive`; `SentOnceInTurn`: nobody is sent an alert twice, as long as snapshots come one after the other, every send is answered and nothing fails | `RetryInv`: the lock and the batch are in one hand, and what is in a batch has attempts left. `OwnInv`: what a request has inserted is not in the table yet. `TurnInv`, for the second: `OneRow` (one delivery per alert and recipient), `OneHolder` (the table says failed of what waits to be retried, pending of what is being sent or not yet written down), `OnRecord` (whatever reached a recipient is in the table, or with the thread or the request that sent it). |
| WhatsApp gateway (there) | `GatewayTypeCorrect`; `DisconnectionsAlertedOnce`, for any number of checkers no two of whose checks overlap (`OneCheck`) | `AlertInv`: a check compares with what is on record, and a ready session on record has no alert since. |
| Cash monitoring (`CashMonitoringProofs`) | `TypeCorrect`, `BlindnessIsBounded` for any number of requests at once; `CountedOnce` and `Refinement` (every step of `CashMonitoring` is a step of `CashBoard` or changes nothing of it) while requests do not overlap (`OneAtATime`) | `TimeInv`: what was sent is not from the future and lags by the clock's error at most, and the board is no newer than the last commit and the grace. `TurnInv`: what a request is about to write still fits the tables: its reading is newer than each it replaces, its rows are those the open alerts call for. |
| Cash rules (there) | `JudgedAlike` (`AgentAndServerAgree`) for every layout whose low thresholds are neither zero nor below the critical ones; `MatchedIsSound` (`MatchedMeansSound`) for every layout and list of units; `ForecastSound` (`ForecastIsSound`), from `RiskIsCovered` (`RiskCoversAlert`) for every history and `RateIsBetween` (`RateIsObserved`) for every history of integer readings | Case by case over the rules. A stored unit is compared with the layout it is displayed under, so that it cannot mismatch (`UnitInOrder`). The notes and the hours of a history are sums over it: interval by interval their quotient stays between the slowest and the fastest withdrawal. |
| Switch probe (`RequestsProofs`) | `TypeCorrect`, `OutcomesAreTheirOwn` | `OutcomeInv`: a probe is handed out once and measured once; what the agent holds, the calls that are late and the table tell of that one outcome. |
| Commands (there) | `CommandsReadOnce` (`ReadOnce`) | `ReadInv`: what waits in the agent's queue is unread, and what was read is no longer pending, so that it is never handed out again, whatever expires or is acknowledged late. |
| Remote configuration (`RemoteConfigProofs`) | `TypeCorrect`; `SyncedIsLoaded` (`SyncedInTurn`) and the action property `VersionsOnlyRise` (`VersionsInTurn`: the version never goes back, and new settings have a new version), until two edits overlap | `SyncInv`: nobody has changed the row since an edit read it (`EditSeesRow`), the agent is behind the row or has its settings (`LoadedOfRow`), and no report names a version newer than the agent's (`ReportsOfLoaded`). |
| Journal reader (`JournalReaderProofs`) | `TypeCorrect`; `OutHandledOnce` (`OutIsHandledOnce`); `TransactionsAreWhole` (`DividedIsWhole`), when every transaction has an RRN of its own (`OwnRRN`) | `PosInv`, `PassInv`: a pass begins at the saved positions and goes on from there. `UidInv`: an event bears the number of its line, so that one line has one uid. `SkipInv`: an out-of-service line behind a position is on the server or in the batch. `AlertInv`: each alert has its row. `WholeInv`: the rows, with the batch, are what the lines behind the reader tell, and a parser is as it would be if it had read the file at once (`ReadOn`). |

The hypotheses about turns are not decoration: the instances `duplicate`, `overlap`
of `MCCashMonitoring` and `overlap` of `MCRemoteConfig` violate the properties without
them (above). Neither are those about the journal reader: `undated`, `split`, `twice`
and the run `journal_retry` show what becomes of it without them. Where the condition is about the past it is a history variable
(`overlapped`, `lost`, `crashes`, `unseen`, the kinds in `faults`), so that the property is a plain invariant that
the run and the theorem share.

The type invariants of `agent_update`, `notification` and `requests` (`TypesOK`) join
those of two components that take their steps side by side; `TypesCorrect` of
`AgentSelfUpdateProofs`, `NotificationDeliveryProofs` and `RequestsProofs` states
each.

Several operators are folds over a sequence or a set: the parsers, the server's
handling of a batch, the forecast's sums. The library's induction theorems take an
operator as a parameter, which no installed prover can instantiate. So `RowLemmas`
proves what is needed by the least counterexample: a set of naturals that has zero
and each successor has them all (`UpTo`), a fold over a finite set is a function of
its subsets (`FoldExists`, `FoldLeftExists`), and what a fold preserves at one member
it preserves over all (`SubsetByOne`).

Only model-checked, and why:

- All liveness (`SettlesUnlessUnheard`, `ComesBack`, `Settled`, `ATMServed`,
  `DeliverySettles`, `AlertIsDelivered`, `ProbesEnd`, `CommandsEnd`,
  `ConvergesAfterOverlap`, `BrokenComesToLight`, `EveryOutIsAlerted`): the proof
  system does not handle fairness.
- That the counts the agent reports are the dispenser's: `Reported` uses `SelectSeq`,
  which the prover does not define. `JudgedAlike` therefore assumes that the reported
  counts are integers.

Every invariant of a passing run is stated by a theorem. Two results are proved
and are no property of a run: the type invariant of `JournalReader`, and
`VersionsInTurn`, which TLC confirms when it is put into `MCRemoteConfig.cfg`.

## What is not modelled

- Users, login and sessions: rows, a limit in one process's memory; hashing and
  tokens are libraries.
- The vendor's XFS and SIU readers: calls into a DLL and the decoding of its
  structures. What they list is an input of `CashRules`.
- Uploads, ATM administration beyond settings, installation, migrations, the
  dashboard and the Android app (`PROJECT.json` says why).
- Startup mode `none` of the updater, which stops and starts nothing; the
  directory of old executables, which nothing reads.
- The member-by-member checks of `extract_safe_zip`: its two outcomes are there.
- Progress percentages, the wording of messages, audit rows, logs: display only.
- The two half-hour settings being set to different values.
- A crash of the server between the e-mail about a WhatsApp session and the commit
  of its status: `Record` does both.
- Of the journals: GRG lines with a serial number and NCR lines with `OPCODE =`
  that open a transaction without its start line; the lines of a trace's message
  block, which are one line, other blocks, and an end inferred from the card or a
  timeout. On the server, the match of an end by STAN and receipt date and the
  filter on the transaction's type.
- Loss of calls in `AgentRollout`; `AgentSelfUpdate` has it for one ATM.
- A replaced journal that has grown past the old position when it is found: the
  reader goes by the size alone, and reads it from its middle.
- The text patterns of the journals, and the uid's hash.

## Plan

What is left: more action properties that say what a step may never do, from the
invariants proved; for one, that no row of a probe or a command changes but for its
status and its outcome. That an open cash alert is closed only by a reading that does
not ask for it is part of the refinement of `CashBoard`.
