---------------------------- MODULE MediaUpdate ----------------------------
(***************************************************************************)
(* The media update of one ATM: the agent's UpdateManager.apply_update     *)
(* (agent/update_manager.py) replacing the image directory, over an HTTP   *)
(* connection that may lose a call or deliver it after the agent gave up   *)
(* on it, an agent process that may be killed between any two steps, and   *)
(* the server's targets (MediaTargets).                                    *)
(*                                                                         *)
(* The content of a directory is the package whose files it holds, or      *)
(* Broken when the files of more than one state of it are mixed or some    *)
(* are missing, or Corrupt for files that are not those of any package.    *)
(***************************************************************************)
EXTENDS MediaTargets

CONSTANTS
    MaxLost,       \* bound: calls whose reply never reaches the agent
    MaxCrashes     \* bound: times the agent process is killed

ASSUME FaultAssumption == MaxLost \in Nat /\ MaxCrashes \in Nat

VARIABLES
    pc,            \* where the agent's only thread is
    job,           \* the package of the current or the latest attempt
    zip,           \* the downloaded archive: what its content is
    media,         \* content of media_path
    backup,        \* content of the backup_dir of this attempt, NoBackup before
    saved,         \* contents of every directory ever written under backup_path
    knownVersion,  \* UpdateManager.current_package_version, 0 for None
    rollbackDone,  \* rollback_done of the current or the latest attempt
    late,          \* requests the agent gave up on that the server may still handle
    lost,          \* history: calls without a reply so far, for the bound
    crashes,       \* history: kills so far, for the bound
    before,        \* history: content of media_path when the attempt began
    intact,        \* history: the last complete image set an attempt began with
    installed,     \* history: packages copied completely at least once
    damaged        \* history: since the last reported success a kill left media_path
                   \* broken, or a failed rollback left it other than it was

agentVars   == <<pc, job, zip, backup, knownVersion, rollbackDone>>
diskVars    == <<media, saved>>
faultVars   == <<late, lost, crashes>>
historyVars == <<before, intact, installed, damaged>>
vars == <<serverVars, agentVars, diskVars, faultVars, historyVars>>

Broken   == -1
Corrupt  == -2
NoBackup == -3
Content  == Version \cup {Broken, Corrupt}

Working   == {"download", "verify", "extract", "backup", "clean", "cleaning",
              "copying", "tellApplied", "reportApplied", "restore", "restoring",
              "tellFailed", "reportFailed"}
Replacing == {"cleaning", "copying", "restoring"}

TypeOK ==
    /\ ServerTypeOK
    /\ pc \in {"down", "idle"} \cup Working
    /\ job \in Version
    /\ zip \in Content
    /\ media \in Content
    /\ backup \in Content \cup {NoBackup}
    /\ saved \subseteq Content
    /\ knownVersion \in Version
    /\ rollbackDone \in BOOLEAN
    /\ late \subseteq Request
    /\ lost \in 0 .. MaxLost
    /\ crashes \in 0 .. MaxCrashes
    /\ before \in Content
    /\ intact \in Version
    /\ installed \subseteq Package
    /\ damaged \in BOOLEAN

Init ==
    /\ ServerInit
    /\ pc = "idle"
    /\ job = 0 /\ zip = Broken /\ backup = NoBackup
    /\ media = 0 /\ saved = {}
    /\ knownVersion = 0 /\ rollbackDone = FALSE
    /\ late = {} /\ lost = 0 /\ crashes = 0
    /\ before = 0 /\ intact = 0 /\ installed = {} /\ damaged = FALSE

---------------------------------------------------------------------------
(* The connection.  A call the agent hears no reply to was dropped, or is  *)
(* still to be handled: at once (only the reply was lost) or after later   *)
(* calls, since a timed-out request keeps its place in the server's queue. *)

Answered(m) == Handle(m) /\ UNCHANGED <<late, lost>>

Unanswered(m) ==
    /\ lost < MaxLost
    /\ lost' = lost + 1
    /\ late' \in {late, late \cup {m}}
    /\ UNCHANGED serverVars

HandleLate ==
    /\ \E m \in late : Handle(m) /\ late' = late \ {m}
    /\ UNCHANGED <<agentVars, diskVars, historyVars, lost, crashes>>

Call(name, phase) == [call |-> name, version |-> job, phase |-> phase]

\* ApiClient.progress swallows every connection error and ignores the HTTP status.
TellProgress(phase) ==
    LET m == Call("progress", phase) IN
    /\ Answered(m) \/ Unanswered(m)
    /\ UNCHANGED crashes

---------------------------------------------------------------------------
(* One attempt of UpdateManager.apply_update.                              *)

GoTo(step) == pc' = step /\ UNCHANGED <<job, knownVersion>>

\* The except branch of apply_update: restore only if a backup was made.
FailUnrestored == GoTo("tellFailed")
FailUnreported == GoTo("idle")
Fail == GoTo(IF backup # NoBackup THEN "restore" ELSE "tellFailed")

CheckUpdate ==
    /\ pc = "idle"
    /\ \E p \in Package :
        /\ IsOffered(p)
        /\ job' = p
    /\ pc' = "download"
    /\ zip' = Broken /\ backup' = NoBackup /\ rollbackDone' = FALSE
    /\ before' = media
    /\ intact' = IF media \in Version THEN media ELSE intact
    /\ UNCHANGED <<serverVars, diskVars, faultVars, knownVersion,
                   installed, damaged>>

\* The archive may arrive damaged; sha256 is compared only in the next step.
Download ==
    /\ pc = "download"
    /\ \/ /\ Answered(Call("download", "working"))
          /\ \/ zip' \in {job, Corrupt} /\ GoTo("verify")
             \/ Fail /\ UNCHANGED zip
       \/ /\ Unanswered(Call("download", "working"))
          /\ Fail /\ UNCHANGED zip
       \/ /\ UNCHANGED <<serverVars, late, lost>>      \* refused, or 404
          /\ Fail /\ UNCHANGED zip
    /\ UNCHANGED <<diskVars, backup, rollbackDone, crashes, historyVars>>

VerifyUnchecked ==
    /\ pc = "verify"
    /\ TellProgress("working")
    /\ GoTo("extract")
    /\ UNCHANGED <<diskVars, zip, backup, rollbackDone, historyVars>>
Verify ==
    /\ pc = "verify"
    /\ TellProgress("working")
    /\ IF zip = job THEN GoTo("extract") ELSE Fail
    /\ UNCHANGED <<diskVars, zip, backup, rollbackDone, historyVars>>

\* extract_safe_zip rejects unsafe members; either way nothing of it is in
\* media_path yet.
Extract ==
    /\ pc = "extract"
    /\ TellProgress("working")
    /\ GoTo("backup") \/ Fail
    /\ UNCHANGED <<diskVars, zip, backup, rollbackDone, historyVars>>

\* create_backup: backup_dir is bound only if the whole copy succeeded.
BackupAfterClean ==
    /\ pc = "backup"
    /\ TellProgress("working")
    /\ backup' = Broken /\ saved' = saved \cup {Broken} /\ GoTo("clean")
    /\ UNCHANGED <<media, zip, rollbackDone, historyVars>>
Backup ==
    /\ pc = "backup"
    /\ TellProgress("working")
    /\ \/ backup' = media /\ saved' = saved \cup {media} /\ GoTo("clean")
       \/ backup' = NoBackup /\ saved' \in {saved, saved \cup {Broken}} /\ Fail
    /\ UNCHANGED <<media, zip, rollbackDone, historyVars>>

\* clean_directory empties media_path file by file.
Clean ==
    /\ pc = "clean"
    /\ TellProgress("working")
    /\ \/ media' = Broken /\ GoTo("cleaning")
       \/ UNCHANGED media /\ Fail
    /\ UNCHANGED <<saved, zip, backup, rollbackDone, historyVars>>

CleanDone ==
    /\ pc = "cleaning"
    /\ GoTo("copying") \/ Fail
    /\ UNCHANGED <<serverVars, diskVars, faultVars, zip, backup, rollbackDone,
                   historyVars>>

\* copy_directory_contents, then the last progress call of the block.
CopyDone ==
    /\ pc = "copying"
    /\ \/ /\ media' = zip
          /\ installed' = installed \cup ({zip} \cap Package)
          /\ TellProgress("working")
          /\ GoTo("tellApplied")
       \/ /\ Fail
          /\ UNCHANGED <<serverVars, media, faultVars, installed>>
    /\ UNCHANGED <<saved, zip, backup, rollbackDone, before, intact, damaged>>

\* Leaving the temporary directory deletes it, which may fail too;
\* current_package_version is assigned only after that.
TellApplied ==
    /\ pc = "tellApplied"
    /\ \/ /\ TellProgress("applied")
          /\ knownVersion' = job
          /\ pc' = "reportApplied" /\ UNCHANGED job
       \/ /\ Fail
          /\ UNCHANGED <<serverVars, faultVars>>
    /\ UNCHANGED <<diskVars, zip, backup, rollbackDone, historyVars>>

\* report_result raises when no reply comes, and the except branch then
\* undoes an update that is complete on disk.
ReportApplied ==
    /\ pc = "reportApplied"
    /\ LET m == Call("result", "applied") IN
       \/ Answered(m) /\ GoTo("idle") /\ damaged' = FALSE
       \/ Unanswered(m) /\ Fail /\ UNCHANGED damaged
    /\ UNCHANGED <<diskVars, zip, backup, rollbackDone, crashes, before, intact,
                   installed>>

\* restore_backup: clean, then copy the backup; each may fail.
Restore ==
    /\ pc = "restore"
    /\ \/ media' = Broken /\ GoTo("restoring")
       \/ UNCHANGED media /\ GoTo("tellFailed")
    /\ damaged' = (damaged \/ (media # before /\ pc' = "tellFailed"))
    /\ UNCHANGED <<serverVars, faultVars, saved, zip, backup, rollbackDone,
                   before, intact, installed>>

RestoreDoneUncopied ==
    /\ pc = "restoring"
    /\ rollbackDone' = TRUE /\ UNCHANGED <<media, damaged>>
    /\ GoTo("tellFailed")
    /\ UNCHANGED <<serverVars, faultVars, saved, zip, backup, before, intact,
                   installed>>
RestoreDone ==
    /\ pc = "restoring"
    /\ \/ /\ media' = backup /\ rollbackDone' = TRUE
          /\ UNCHANGED damaged
       \/ /\ damaged' = TRUE
          /\ UNCHANGED <<media, rollbackDone>>
    /\ GoTo("tellFailed")
    /\ UNCHANGED <<serverVars, faultVars, saved, zip, backup, before, intact,
                   installed>>

TellFailed ==
    /\ pc = "tellFailed"
    /\ TellProgress("failed")
    /\ GoTo("reportFailed")
    /\ UNCHANGED <<diskVars, zip, backup, rollbackDone, historyVars>>

\* Answered or not, apply_update ends by raising; ModuleRunner.tick catches.
ReportFailed ==
    /\ pc = "reportFailed"
    /\ LET m == Call("result", "failed") IN Answered(m) \/ Unanswered(m)
    /\ GoTo("idle")
    /\ UNCHANGED <<diskVars, zip, backup, rollbackDone, crashes, historyVars>>

---------------------------------------------------------------------------
(* The rest of the agent's loop, and what happens to its process.          *)

SendHeartbeat ==
    /\ pc = "idle"
    /\ knownVersion # 0
    /\ LET m == [call |-> "heartbeat", version |-> knownVersion, phase |-> "working"] IN
       Answered(m) \/ Unanswered(m)
    /\ UNCHANGED <<agentVars, diskVars, crashes, historyVars>>

\* The process is killed.  Nothing of the attempt is written down, so the
\* next process does not know of it.
Crash ==
    /\ pc # "down"
    /\ crashes < MaxCrashes
    /\ crashes' = crashes + 1
    /\ pc' = "down"
    /\ knownVersion' = 0 /\ backup' = NoBackup /\ zip' = Broken
    /\ damaged' = (damaged \/ media = Broken)
    /\ UNCHANGED <<serverVars, diskVars, late, lost, job, rollbackDone,
                   before, intact, installed>>

Start ==
    /\ pc = "down"
    /\ GoTo("idle")
    /\ UNCHANGED <<serverVars, diskVars, faultVars, zip, backup, rollbackDone,
                   historyVars>>

Attempt ==
    \/ CheckUpdate \/ Download \/ Verify \/ Extract \/ Backup
    \/ Clean \/ CleanDone \/ CopyDone
    \/ TellApplied \/ ReportApplied
    \/ Restore \/ RestoreDone \/ TellFailed \/ ReportFailed

Administer ==
    /\ \E p \in Package : Assign(p) \/ RetryFailed(p)
    /\ UNCHANGED <<agentVars, diskVars, faultVars, historyVars>>

Next == Administer \/ Attempt \/ SendHeartbeat \/ HandleLate \/ Crash \/ Start

Spec == Init /\ [][Next]_vars

\* The agent's loop always goes on, and a killed agent is started again by
\* the service manager or the scheduled task.
FairSpec == Spec /\ WF_vars(Attempt) /\ WF_vars(Start)

---------------------------------------------------------------------------
(* Properties.                                                             *)

\* Whatever fails, and whenever the agent is killed, the last complete image
\* set an update began with is still in media_path or in a backup directory
\* (create_backup comes before clean_directory in apply_update).
NoImageSetLost == media = intact \/ intact \in saved

\* An archive whose checksum does not match never reaches media_path or a
\* backup, however often the package is retried.
OnlyVerifiedImages == Corrupt \notin saved \cup {media}

\* Between attempts the images are complete, unless a kill during the
\* replacement or a failed rollback broke them.
BrokenOnlyWhileReplacing == media = Broken => pc \in Working \/ damaged

\* An attempt that reports rollback_done leaves the images it found.
RollbackRestoresImages == rollbackDone => media = before

\* The server counts a package as applied only after the ATM has copied all
\* of it once, even when calls are answered late and out of order.
AppliedWasInstalled == \A p \in Package : target[p] = "applied" => p \in installed

\* An idle agent and the server agree: the version the server shows is the one
\* on disk, unless a rollback failed.
ServerShowsDiskVersion == pc = "idle" /\ imageVersion # 0 /\ ~damaged => media = imageVersion

\* So it is as long as no call was lost and the agent was not killed, whatever
\* else failed and however often targets were put back to pending.
ShownWhenReliable == lost = 0 /\ crashes = 0 => ServerShowsDiskVersion

\* README.md:196, "on failure it rolls back from the last backup and sends
\* the reason to the server": after a rollback the server does not go on
\* counting the package as applied.
RollbackReachesServer == pc = "idle" /\ rollbackDone /\ late = {} => target[job] # "applied"

IsSettled(p) == target[p] \in {"none"} \cup Finished

\* Every package that is assigned to the ATM gets a final status and keeps it.
AssignmentSettles == \A p \in Package : <>[]IsSettled(p)

===========================================================================
