-------------------------- MODULE AgentSelfUpdate --------------------------
(***************************************************************************)
(* The agent of one ATM replacing itself: AgentSelfUpdateManager           *)
(* (agent/agent_self_update.py) inside the agent's loop                    *)
(* (agent/atm_agent.py, run_forever), the separate process                 *)
(* agent-updater.exe (agent/agent_updater.py) that outlives it, Windows    *)
(* starting and stopping the agent under them, and the server's targets    *)
(* (AgentTargets).  A package's executable is taken to report the version  *)
(* of the package.  Startup mode "none" is left out: the updater then      *)
(* stops and starts nothing.                                               *)
(***************************************************************************)
EXTENDS AgentTargets

CONSTANTS
    Me,              \* the ATM modelled in full
    MaxLost,         \* bound: calls whose reply never reaches the agent
    MaxReboots,      \* bound: times the ATM loses power and boots again
    MaxRestarts,     \* bound: times Windows restarts a killed agent by itself
    MishapSteps,     \* the updater's steps Windows may make fail
    MaxMishaps       \* bound: how many of them fail

ASSUME MeAssumption == Me \in ATMs
ASSUME FaultAssumption ==
    /\ MaxLost \in Nat /\ MaxReboots \in Nat
    /\ MaxRestarts \in Nat /\ MaxMishaps \in Nat

VARIABLES
    pc,          \* where the agent's loop is, "down" when no agent runs
    running,     \* AGENT_VERSION of the running (or the last) agent
    job,         \* the package of the current or the latest attempt
    exe,         \* what atm-agent.exe holds
    staged,      \* what agent_updates/package-<id>/atm-agent.exe holds, per package
    updater,     \* where the updater of each package is, "none" if none runs
    resultFile,  \* what update-result.json holds
    late,        \* requests the agent gave up on that the server may still handle
    faults,      \* history: lost calls, reboots, restarts, mishaps so far, for the bounds
    delivered,   \* history: the server has handled what update-result.json holds
    installed    \* history: packages whose executable was atm-agent.exe once

agentVars   == <<pc, running, job>>
diskVars    == <<exe, staged, resultFile>>
historyVars == <<delivered, installed>>
vars == <<serverVars, agentVars, diskVars, updater, late, faults, historyVars>>

Partial    == -1          \* a file that is not, or not yet, the verified one
Missing    == -2
NoResult   == [package |-> 0, ok |-> FALSE]
Unreadable == [package |-> -1, ok |-> FALSE]
Outcome    == [package : Package, ok : BOOLEAN]

LoopSteps    == {"report", "rename", "check", "tellSame", "reportSame", "stage",
                 "fetchAgent", "verifyAgent", "fetchUpdater", "launch", "exit",
                 "tellFailed", "reportFailed"}
UpdaterSteps == {"validate", "stop", "backup", "replace", "start", "write",
                 "restart", "writeFailed"}

Request == [call : {"download"}, version : Package, phase : {"downloading"}]
      \cup [call : {"progress"}, version : Package, phase : Active \cup Finished]
      \cup [call : {"result"},   version : Package, phase : Finished]

TypeOK ==
    /\ ServerTypeOK
    /\ pc \in {"down"} \cup LoopSteps
    /\ running \in Version
    /\ job \in Version
    /\ exe \in Version \cup {Partial}
    /\ staged \in [Package -> Package \cup {Partial, Missing}]
    /\ updater \in [Package -> {"none"} \cup UpdaterSteps]
    /\ resultFile \in Outcome \cup {NoResult, Unreadable}
    /\ late \subseteq Request
    /\ faults \in [{"lost", "reboot", "restart", "mishap"} -> Nat]
    /\ delivered \in BOOLEAN
    /\ installed \subseteq Package

Init ==
    /\ ServerInit
    /\ pc = "report" /\ running = 0 /\ job = 0
    /\ exe = 0 /\ staged = [p \in Package |-> Missing]
    /\ updater = [p \in Package |-> "none"]
    /\ resultFile = NoResult
    /\ late = {} /\ faults = [f \in {"lost", "reboot", "restart", "mishap"} |-> 0]
    /\ delivered = TRUE /\ installed = {}

Suffer(fault, bound) ==
    /\ faults[fault] < bound
    /\ faults' = [faults EXCEPT ![fault] = @ + 1]

---------------------------------------------------------------------------
(* The connection, as in MediaUpdate: a call without a reply was dropped,  *)
(* or is handled now or later.                                             *)

Handle(m) ==
    \/ m.call = "download" /\ DownloadRequested(Me, m.version)
    \/ m.call = "progress" /\ Progress(Me, m.version, m.phase)
    \/ m.call = "result"   /\ Result(Me, m.version, m.phase)

Answered(m) == Handle(m) /\ UNCHANGED <<late, faults>>

Unanswered(m) ==
    /\ Suffer("lost", MaxLost)
    /\ late' \in {late, late \cup {m}}
    /\ UNCHANGED serverVars

HandleLate ==
    /\ \E m \in late : Handle(m) /\ late' = late \ {m}
    /\ UNCHANGED <<agentVars, diskVars, updater, faults, historyVars>>

Call(name, phase) == [call |-> name, version |-> job, phase |-> phase]

\* agent_update_progress swallows every connection error.
TellProgress(phase) ==
    LET m == Call("progress", phase) IN Answered(m) \/ Unanswered(m)

---------------------------------------------------------------------------
(* The agent's loop.                                                       *)

GoTo(step) == pc' = step /\ UNCHANGED <<running, job>>

\* What the file says went well is a success, everything else a failure.
OutcomeIgnored == "applied"
PendingOutcome == IF resultFile.ok THEN "applied" ELSE "failed"

\* report_pending_result reads the file and makes the call.  What cannot be
\* read or reported is left for the next round of the loop, which goes on.
ReportPendingResult ==
    /\ pc = "report"
    /\ LET m == [call |-> "result", version |-> resultFile.package,
                 phase |-> PendingOutcome]
       IN  \/ /\ resultFile \in {NoResult, Unreadable}
              /\ GoTo("check")
              /\ UNCHANGED <<serverVars, late, faults, delivered>>
           \/ /\ resultFile \in Outcome
              /\ \/ Answered(m) /\ GoTo("rename") /\ delivered' = TRUE
                 \/ Unanswered(m) /\ GoTo("check") /\ UNCHANGED delivered
    /\ UNCHANGED <<diskVars, updater, installed>>

\* ... and moves the file away, whatever it holds by now, if Windows allows.
RenameResult ==
    /\ pc = "rename"
    /\ resultFile' \in {NoResult, resultFile}
    /\ GoTo("check")
    /\ UNCHANGED <<serverVars, exe, staged, updater, late, faults, historyVars>>

\* check_and_apply: the running version is compared with the offered one.
\* The check may also go unanswered; config and heartbeat come before it.
CheckAgentUpdate ==
    /\ pc = "check"
    /\ \/ /\ CheckMarks(Me)
          /\ \/ \E p \in Package :
                 /\ IsOffered(Me, p)
                 /\ job' = p
                 /\ pc' = IF p = running THEN "tellSame" ELSE "stage"
                 /\ UNCHANGED running
             \/ NothingOffered(Me) /\ GoTo("report")
          /\ UNCHANGED faults
       \/ /\ Suffer("lost", MaxLost)
          /\ GoTo("report")
          /\ UNCHANGED serverVars
    /\ UNCHANGED <<diskVars, updater, late, historyVars>>

SendHeartbeat ==
    /\ pc = "check"
    /\ Heartbeat(Me, running)
    /\ UNCHANGED <<agentVars, diskVars, updater, late, faults, historyVars>>

TellSame ==
    /\ pc = "tellSame"
    /\ TellProgress("applied")
    /\ GoTo("reportSame")
    /\ UNCHANGED <<diskVars, updater, historyVars>>

ReportSame ==
    /\ pc = "reportSame"
    /\ LET m == Call("result", "applied") IN Answered(m) \/ Unanswered(m)
    /\ GoTo("report")
    /\ UNCHANGED <<diskVars, updater, historyVars>>

\* The staged files of an earlier attempt are deleted, the agent's first.
\* Windows does not delete the executable of an updater that still runs.
StageIgnoringLock ==
    /\ pc = "stage"
    /\ staged' = [staged EXCEPT ![job] = Missing]
    /\ TellProgress("downloading")
    /\ GoTo("fetchAgent")
    /\ UNCHANGED <<exe, resultFile, updater, historyVars>>
Stage ==
    /\ pc = "stage"
    /\ staged' = [staged EXCEPT ![job] = Missing]
    /\ IF updater[job] = "none"
       THEN TellProgress("downloading") /\ GoTo("fetchAgent")
       ELSE GoTo("tellFailed") /\ UNCHANGED <<serverVars, late, faults>>
    /\ UNCHANGED <<exe, resultFile, updater, historyVars>>

\* A download call: answered, or failed with or without the server's notice.
Fetch(step) ==
    LET m == Call("download", "downloading") IN
    \/ Answered(m) /\ GoTo(step)
    \/ Unanswered(m) /\ GoTo("tellFailed")
    \/ GoTo("tellFailed") /\ UNCHANGED <<serverVars, late, faults>>

FetchAgent ==
    /\ pc = "fetchAgent"
    /\ Fetch("verifyAgent")
    /\ staged' = [staged EXCEPT ![job] = Partial]
    /\ UNCHANGED <<exe, resultFile, updater, historyVars>>

\* The whole file has arrived; a wrong checksum raises.
VerifyAgent ==
    /\ pc = "verifyAgent"
    /\ \/ /\ staged' = [staged EXCEPT ![job] = job]
          /\ TellProgress("downloading")
          /\ GoTo("fetchUpdater")
       \/ GoTo("tellFailed") /\ UNCHANGED <<serverVars, staged, late, faults>>
    /\ UNCHANGED <<exe, resultFile, updater, historyVars>>

\* The same for agent-updater.exe, of which only the outcome matters.
FetchUpdater ==
    /\ pc = "fetchUpdater"
    /\ Fetch("launch")
    /\ UNCHANGED <<diskVars, updater, historyVars>>

\* The last progress calls, then the updater process is started.
LaunchUpdater ==
    /\ pc = "launch"
    /\ TellProgress("applying")
    /\ \/ updater' = [updater EXCEPT ![job] = "validate"] /\ GoTo("exit")
       \/ UNCHANGED updater /\ GoTo("tellFailed")
    /\ UNCHANGED <<diskVars, historyVars>>

TellFailed ==
    /\ pc = "tellFailed"
    /\ TellProgress("failed")
    /\ GoTo("reportFailed")
    /\ UNCHANGED <<diskVars, updater, historyVars>>

ReportFailed ==
    /\ pc = "reportFailed"
    /\ LET m == Call("result", "failed") IN Answered(m) \/ Unanswered(m)
    /\ GoTo("report")
    /\ UNCHANGED <<diskVars, updater, historyVars>>

\* run_forever breaks out of its loop and the process ends by itself.
ExitAgent ==
    /\ pc = "exit"
    /\ GoTo("down")
    /\ UNCHANGED <<serverVars, diskVars, updater, late, faults, historyVars>>

Loop ==
    \/ ReportPendingResult \/ RenameResult \/ CheckAgentUpdate
    \/ TellSame \/ ReportSame
    \/ Stage \/ FetchAgent \/ VerifyAgent \/ FetchUpdater \/ LaunchUpdater
    \/ TellFailed \/ ReportFailed \/ ExitAgent

---------------------------------------------------------------------------
(* agent-updater.exe for package p: perform_update, and main around it.    *)

Moves(p, from, to) == updater[p] = from /\ updater' = [updater EXCEPT ![p] = to]

\* A step Windows makes fail: perform_update raises.
Mishap(p, from) ==
    /\ from \in MishapSteps
    /\ Moves(p, from, "restart")
    /\ Suffer("mishap", MaxMishaps)

StartAgent == pc' = "report" /\ running' = exe /\ UNCHANGED job

\* validate_options: the file is there and has the expected checksum.
Validate(p) ==
    /\ \/ staged[p] = p /\ Moves(p, "validate", "stop") /\ UNCHANGED faults
       \/ staged[p] # p /\ Moves(p, "validate", "restart") /\ UNCHANGED faults
       \/ Mishap(p, "validate")
    /\ UNCHANGED <<serverVars, agentVars, diskVars, late, historyVars>>

\* stop_existing_startup: taskkill ends every agent process.  A command that
\* fails is ignored and may leave the agent running; one that takes too long
\* raises.
StopAgent(p) ==
    /\ \/ Moves(p, "stop", "backup") /\ GoTo("down") /\ UNCHANGED faults
       \/ /\ "stop" \in MishapSteps /\ Suffer("mishap", MaxMishaps)
          /\ Moves(p, "stop", "backup") /\ UNCHANGED agentVars
       \/ Mishap(p, "stop") /\ (UNCHANGED agentVars \/ GoTo("down"))
    /\ UNCHANGED <<serverVars, diskVars, late, historyVars>>

BackupAgent(p) ==
    /\ \/ Moves(p, "backup", "replace") /\ UNCHANGED faults
       \/ Mishap(p, "backup")
    /\ UNCHANGED <<serverVars, agentVars, diskVars, late, historyVars>>

\* replace_with_retry: os.replace fails while an agent runs or when the new
\* file is gone, until the time is up.
Replace(p) ==
    /\ \/ /\ pc = "down" /\ staged[p] # Missing
          /\ Moves(p, "replace", "start")
          /\ exe' = staged[p]
          /\ staged' = [staged EXCEPT ![p] = Missing]
          /\ installed' = installed \cup ({staged[p]} \cap Package)
          /\ UNCHANGED faults
       \/ /\ pc # "down" \/ staged[p] = Missing
          /\ Moves(p, "replace", "restart")
          /\ UNCHANGED <<exe, staged, installed, faults>>
       \/ /\ Mishap(p, "replace")
          /\ UNCHANGED <<exe, staged, installed>>
    /\ UNCHANGED <<serverVars, agentVars, resultFile, late, delivered>>

\* start_existing_startup.  A service that runs cannot be started; the
\* scheduled task can, and its second agent ends at the instance lock.
Start(p) ==
    /\ \/ /\ pc = "down" /\ StartAgent
          /\ Moves(p, "start", "write") /\ UNCHANGED faults
       \/ /\ pc # "down" /\ UNCHANGED <<agentVars, faults>>
          /\ Moves(p, "start", "write") \/ Moves(p, "start", "restart")
       \/ Mishap(p, "start") /\ UNCHANGED agentVars
    /\ UNCHANGED <<serverVars, diskVars, late, historyVars>>

\* main's except branch starts the agent again, if it can.
NoRestart(p) ==
    /\ Moves(p, "restart", "writeFailed")
    /\ UNCHANGED <<serverVars, agentVars, diskVars, late, faults, historyVars>>
Restart(p) ==
    /\ Moves(p, "restart", "writeFailed")
    /\ \/ pc = "down" /\ StartAgent /\ UNCHANGED faults
       \/ pc # "down" /\ UNCHANGED <<agentVars, faults>>
       \/ "restart" \in MishapSteps /\ Suffer("mishap", MaxMishaps) /\ UNCHANGED agentVars
    /\ UNCHANGED <<serverVars, diskVars, late, historyVars>>

\* write_result replaces whatever update-result.json holds.  Where it fails on
\* a success, the except branch is taken; where it fails there, nothing is left.
WriteResult(p) ==
    /\ \/ /\ \/ Moves(p, "write", "none") /\ resultFile' = [package |-> p, ok |-> TRUE]
             \/ Moves(p, "writeFailed", "none") /\ resultFile' = [package |-> p, ok |-> FALSE]
          /\ delivered' = FALSE
          /\ UNCHANGED faults
       \/ /\ \/ Mishap(p, "write")
             \/ /\ "writeFailed" \in MishapSteps /\ Suffer("mishap", MaxMishaps)
                /\ Moves(p, "writeFailed", "none")
          /\ UNCHANGED <<resultFile, delivered>>
    /\ UNCHANGED <<serverVars, agentVars, exe, staged, late, installed>>

Updater(p) ==
    \/ Validate(p) \/ StopAgent(p) \/ BackupAgent(p) \/ Replace(p)
    \/ Start(p) \/ Restart(p) \/ WriteResult(p)

---------------------------------------------------------------------------
(* Windows and the administrator.                                          *)

\* The service's failure action, the task's restart count, a logon or an operator.
RestartByWindows ==
    /\ pc = "down"
    /\ StartAgent
    /\ Suffer("restart", MaxRestarts)
    /\ UNCHANGED <<serverVars, diskVars, updater, late, historyVars>>

\* Everything stops; a file being written may be left unreadable.
Reboot ==
    /\ Suffer("reboot", MaxReboots)
    /\ StartAgent
    /\ updater' = [p \in Package |-> "none"]
    /\ \/ UNCHANGED <<resultFile, delivered>>
       \/ /\ \E p \in Package : updater[p] \in {"write", "writeFailed"}
          /\ resultFile' = Unreadable /\ delivered' = TRUE
    /\ UNCHANGED <<serverVars, exe, staged, late, installed>>

TimePasses(p) ==
    /\ FallSilent(Me, p)
    /\ UNCHANGED <<agentVars, diskVars, updater, late, faults, historyVars>>

Administer(p) ==
    /\ Assign({Me}, p) \/ RetryFailed(p)
    /\ UNCHANGED <<agentVars, diskVars, updater, late, faults, historyVars>>

View ==
    /\ ViewPackages
    /\ UNCHANGED <<agentVars, diskVars, updater, late, faults, historyVars>>

Next ==
    \/ Loop \/ SendHeartbeat \/ HandleLate
    \/ \E p \in Package : Updater(p) \/ TimePasses(p) \/ Administer(p)
    \/ RestartByWindows \/ Reboot \/ View

Spec == Init /\ [][Next]_vars

\* The loop goes round, a started updater runs to its end, and half hours pass.
FairSpec ==
    /\ Spec
    /\ WF_vars(Loop)
    /\ \A p \in Package :
        /\ WF_vars(Updater(p))
        /\ WF_vars(TimePasses(p))

---------------------------------------------------------------------------
(* Properties.                                                             *)

\* atm-agent.exe is always a complete, verified executable, whatever is
\* restarted, retried or cut off while an updater has the new file.
ExecutableIsVerified == exe \in Version

\* The server counts a package as applied only after its executable was put
\* in place, even when calls are answered late and attempts overlap.
AppliedWasInstalled == \A p \in Package : target[Me][p] = "applied" => p \in installed

\* agent/README.md: the updater "starts the same mode again".
AgentComesBack == pc = "down" ~> pc # "down"

\* agent/README.md: the new agent "reports the final result": a result is
\* not overwritten or moved away before the server has handled it.
ResultIsReported == [][resultFile' # resultFile => delivered]_vars

Finishes(p) == target[Me][p] = "pending" ~> target[Me][p] \in Finished

\* A package that is waiting gets a final status, lost calls and reboots or not.
AssignmentSettles == \A p \in Package : Finishes(p)

===========================================================================
