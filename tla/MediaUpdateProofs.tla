------------------------- MODULE MediaUpdateProofs -------------------------
(***************************************************************************)
(* Theorems about MediaUpdate for every number of packages, resets, lost   *)
(* calls and kills.  Each property follows from one of the six parts of    *)
(* an inductive invariant: the types, and five parts that are inductive    *)
(* relative to the types and to parts before them.                         *)
(***************************************************************************)
EXTENDS MediaUpdate, TLAPS

---------------------------------------------------------------------------
(* The inductive invariant.                                                *)

\* Types; an attempt has a package, and a backup exactly from create_backup on.
WireInv ==
    /\ ServerTypeOK
    /\ late \subseteq Request
    /\ lost \in 0 .. MaxLost

AgentInv ==
    /\ pc \in {"down", "idle"} \cup Working
    /\ pc \in Working => job \in Package
    /\ pc \in {"download", "verify", "extract", "backup"} => backup = NoBackup
    /\ pc \in {"clean", "cleaning", "copying", "tellApplied", "reportApplied",
               "restore", "restoring"} => backup # NoBackup
    /\ job \in Version
    /\ zip \in Content
    /\ media \in Content
    /\ backup \in Content \cup {NoBackup}
    /\ saved \subseteq Content
    /\ knownVersion \in Version
    /\ rollbackDone \in BOOLEAN
    /\ crashes \in 0 .. MaxCrashes
    /\ before \in Content
    /\ intact \in Version
    /\ installed \subseteq Package
    /\ damaged \in BOOLEAN

TypeInv == WireInv /\ AgentInv

\* Past the checksum the archive is the package's, so no directory is Corrupt.
CheckedInv ==
    /\ pc \in {"extract", "backup", "clean", "cleaning", "copying",
               "tellApplied", "reportApplied"} => zip = job
    /\ Corrupt \notin saved \cup {media, backup}

\* From create_backup on, the last complete image set is in a backup directory.
BackedUpInv ==
    /\ backup # NoBackup => intact \in saved
    /\ NoImageSetLost

\* Only what was copied is ever called applied, by the agent, on the wire or
\* by the server.
ReportedInv ==
    /\ pc \in {"tellApplied", "reportApplied"} => job \in installed
    /\ \A m \in late : m.phase = "applied" => m.version \in installed
    /\ AppliedWasInstalled

\* What media_path and the backup hold compared with what the attempt found.
RestorableInv ==
    /\ pc \in {"download", "verify", "extract", "backup", "clean"} =>
            media = before /\ ~rollbackDone
    /\ backup # NoBackup => backup = before
    /\ pc \in {"cleaning", "copying", "tellApplied", "reportApplied", "restore",
               "restoring"} => ~rollbackDone
    /\ pc \in {"tellApplied", "reportApplied"} => media # Broken
    /\ pc \in Working /\ before = Broken => damaged
    /\ pc \in {"tellFailed", "reportFailed", "idle", "down"} =>
            (media = Broken => damaged)
    /\ RollbackRestoresImages

\* Until a call is lost or the agent killed, the server and the agent know the
\* same version, and an attempt that found its images leaves them or is the
\* next version.
ShownInv ==
    lost = 0 /\ crashes = 0 =>
        /\ late = {} /\ pc # "down"
        /\ knownVersion = IF pc = "reportApplied" THEN job ELSE imageVersion
        /\ pc \in {"tellApplied", "reportApplied"} => media = job
        /\ imageVersion # 0 /\ ~damaged =>
            /\ pc \in Working => before = imageVersion
            /\ pc = "idle" => media = imageVersion
        /\ pc \in {"tellFailed", "reportFailed"} /\ ~damaged => media = before

IInv == TypeInv /\ CheckedInv /\ BackedUpInv /\ ReportedInv /\ RestorableInv /\ ShownInv

---------------------------------------------------------------------------
(* The server's handlers.                                                  *)

\* Every handler keeps the targets and the version well typed.
LEMMA HandleType ==
    ASSUME ServerTypeOK, NEW m \in Request, Handle(m)
    PROVE  ServerTypeOK'
BY TargetAssumption
DEF ServerTypeOK, Request, Handle, DownloadRequested, Heartbeat, Progress, Result,
    Package, Version, Status, Finished

\* A handler calls a package applied only on a request that says so.
LEMMA HandleApplied ==
    ASSUME ServerTypeOK, NEW m \in Request, Handle(m), NEW p \in Package,
           target'[p] = "applied"
    PROVE  target[p] = "applied" \/ (m.version = p /\ m.phase = "applied")
BY DEF ServerTypeOK, Request, Handle, DownloadRequested, Heartbeat, Progress, Result,
    Package, Status, Finished

\* The administrator's calls keep the types and never call a package applied.
LEMMA AdministerTargets ==
    ASSUME ServerTypeOK, NEW p \in Package, Assign(p) \/ RetryFailed(p)
    PROVE  /\ ServerTypeOK'
           /\ \A q \in Package : target'[q] = "applied" => target[q] = "applied"
BY TargetAssumption
DEF ServerTypeOK, Assign, RetryFailed, ResetForRetry, Package, Version, Status, Finished

\* A call, answered or not, keeps the types of the server and of the wire.
LEMMA CallType ==
    ASSUME WireInv, NEW m \in Request, Answered(m) \/ Unanswered(m)
    PROVE  WireInv'
<1>1. CASE Answered(m)
  BY <1>1, HandleType DEF Answered, WireInv
<1>2. CASE Unanswered(m)
  BY <1>2, FaultAssumption DEF Unanswered, WireInv, ServerTypeOK, serverVars
<1> QED
  BY <1>1, <1>2

\* The calls an attempt makes are requests the server knows.
LEMMA CallIsRequest ==
    ASSUME job \in Package
    PROVE  /\ Call("download", "working") \in Request
           /\ \A phase \in {"working", "applied", "failed"} : Call("progress", phase) \in Request
           /\ \A phase \in {"applied", "failed"} : Call("result", phase) \in Request
BY DEF Call, Request, Finished

\* A progress call of an attempt keeps the types and kills nobody.
LEMMA TellType ==
    ASSUME WireInv, job \in Package, NEW phase \in {"working", "applied", "failed"},
           TellProgress(phase)
    PROVE  WireInv' /\ crashes' = crashes
BY CallIsRequest, CallType DEF TellProgress

\* Without a call nothing changes on the server or on the wire.
LEMMA QuietType ==
    ASSUME WireInv, UNCHANGED <<serverVars, late, lost>>
    PROVE  WireInv'
BY DEF WireInv, ServerTypeOK, serverVars

---------------------------------------------------------------------------
(* TypeInv.                                                                *)

\* Every step keeps the server and the wire well typed.
LEMMA WireStep == TypeInv /\ [Next]_vars => WireInv'
<1> SUFFICES ASSUME TypeInv, [Next]_vars PROVE WireInv'
  OBVIOUS
<1>0. WireInv /\ (pc \in Working => job \in Package)
  BY DEF TypeInv, AgentInv
<1> USE <1>0 DEF TypeInv, Working
<1>1. CASE Administer
  BY <1>1, AdministerTargets DEF Administer, faultVars, WireInv
<1>2. CASE CheckUpdate
  BY <1>2, QuietType DEF CheckUpdate, faultVars
<1>3. CASE Download
  BY <1>3, CallIsRequest, CallType, QuietType DEF Download
<1>4. CASE Verify
  BY <1>4, TellType DEF Verify
<1>5. CASE Extract
  BY <1>5, TellType DEF Extract
<1>6. CASE Backup
  BY <1>6, TellType DEF Backup
<1>7. CASE Clean
  BY <1>7, TellType DEF Clean
<1>8. CASE CleanDone
  BY <1>8, QuietType DEF CleanDone, faultVars
<1>9. CASE CopyDone
  BY <1>9, TellType, QuietType DEF CopyDone, faultVars
<1>10. CASE TellApplied
  BY <1>10, TellType, QuietType DEF TellApplied, faultVars
<1>11. CASE ReportApplied
  BY <1>11, CallIsRequest, CallType DEF ReportApplied
<1>12. CASE Restore
  BY <1>12, QuietType DEF Restore, faultVars
<1>13. CASE RestoreDone
  BY <1>13, QuietType DEF RestoreDone, faultVars
<1>14. CASE TellFailed
  BY <1>14, TellType DEF TellFailed
<1>15. CASE ReportFailed
  BY <1>15, CallIsRequest, CallType DEF ReportFailed
<1>16. CASE SendHeartbeat
  <2>1. [call |-> "heartbeat", version |-> knownVersion, phase |-> "working"] \in Request
    BY <1>16 DEF SendHeartbeat, Request, AgentInv, Version, Package
  <2> QED
    BY <1>16, <2>1, CallType DEF SendHeartbeat
<1>17. CASE HandleLate
  BY <1>17, HandleType DEF HandleLate, WireInv
<1>18. CASE Crash
  BY <1>18, QuietType DEF Crash, faultVars
<1>19. CASE Start
  BY <1>19, QuietType DEF Start, faultVars
<1>20. CASE UNCHANGED vars
  BY <1>20, QuietType DEF vars, faultVars
<1> QED
  BY <1>1, <1>2, <1>3, <1>4, <1>5, <1>6, <1>7, <1>8, <1>9, <1>10,
     <1>11, <1>12, <1>13, <1>14, <1>15, <1>16, <1>17, <1>18, <1>19, <1>20
  DEF Next, Attempt

\* Every step keeps the agent, its disk and the history well typed.
LEMMA AgentStep == TypeInv /\ [Next]_vars => AgentInv'
<1> SUFFICES ASSUME TypeInv, [Next]_vars PROVE AgentInv'
  OBVIOUS
<1> USE TargetAssumption, FaultAssumption DEF TypeInv, AgentInv, GoTo, Fail, Working, Content, Version, Package,
    Broken, Corrupt, NoBackup, serverVars, agentVars, diskVars, faultVars, historyVars
<1>1. CASE Administer
  BY <1>1 DEF Administer
<1>2. CASE CheckUpdate
  <2>1. job' \in Package /\ pc' = "download"
    BY <1>2 DEF CheckUpdate
  <2>2. intact' \in Version
    BY <1>2 DEF CheckUpdate
  <2>3. rollbackDone' \in BOOLEAN
    BY <1>2, Zenon DEF CheckUpdate
  <2> QED
    BY <1>2, <2>1, <2>2, <2>3 DEF CheckUpdate
<1>3. CASE Download
  BY <1>3 DEF Download
<1>4. CASE Verify
  BY <1>4, TellType DEF Verify, WireInv
<1>5. CASE Extract
  BY <1>5, TellType DEF Extract, WireInv
<1>6. CASE Backup
  <2>1. crashes' = crashes /\ pc = "backup" /\ backup = NoBackup /\ job \in Package
    BY <1>6, TellType DEF Backup, WireInv
  <2>2. CASE backup' = media /\ saved' = saved \cup {media} /\ GoTo("clean")
    <3>1. backup' \in Content /\ backup' # NoBackup
      BY <2>2
    <3> QED
      BY <1>6, <2>1, <2>2, <3>1 DEF Backup
  <2>3. CASE backup' = NoBackup /\ saved' \in {saved, saved \cup {Broken}} /\ Fail
    BY <1>6, <2>1, <2>3 DEF Backup
  <2> QED
    BY <1>6, <2>2, <2>3 DEF Backup
<1>7. CASE Clean
  BY <1>7, TellType DEF Clean, WireInv
<1>8. CASE CleanDone
  BY <1>8 DEF CleanDone
<1>9. CASE CopyDone
  BY <1>9, TellType DEF CopyDone, WireInv
<1>10. CASE TellApplied
  BY <1>10, TellType DEF TellApplied, WireInv
<1>11. CASE ReportApplied
  BY <1>11 DEF ReportApplied
<1>12. CASE Restore
  BY <1>12 DEF Restore
<1>13. CASE RestoreDone
  BY <1>13 DEF RestoreDone
<1>14. CASE TellFailed
  BY <1>14, TellType DEF TellFailed, WireInv
<1>15. CASE ReportFailed
  BY <1>15 DEF ReportFailed
<1>16. CASE SendHeartbeat
  BY <1>16 DEF SendHeartbeat
<1>17. CASE HandleLate
  BY <1>17 DEF HandleLate
<1>18. CASE Crash
  <2>1. damaged' \in BOOLEAN
    BY <1>18, Zenon DEF Crash
  <2>2. crashes' \in 0 .. MaxCrashes
    BY <1>18 DEF Crash
  <2> QED
    BY <1>18, <2>1, <2>2 DEF Crash
<1>19. CASE Start
  BY <1>19 DEF Start
<1>20. CASE UNCHANGED vars
  BY <1>20 DEF vars
<1> QED
  BY <1>1, <1>2, <1>3, <1>4, <1>5, <1>6, <1>7, <1>8, <1>9, <1>10,
     <1>11, <1>12, <1>13, <1>14, <1>15, <1>16, <1>17, <1>18, <1>19, <1>20
  DEF Next, Attempt

---------------------------------------------------------------------------
(* The other parts.                                                        *)

\* Only verified content moves on: no step puts Corrupt files in a directory.
LEMMA CheckedStep == TypeInv /\ CheckedInv /\ [Next]_vars => CheckedInv'
<1> SUFFICES ASSUME TypeInv /\ CheckedInv, [Next]_vars PROVE CheckedInv'
  OBVIOUS
<1> USE DEF CheckedInv, OnlyVerifiedImages, TypeInv, AgentInv, GoTo, Fail, Working, Content, Version, Package,
    Broken, Corrupt, NoBackup, serverVars, agentVars, diskVars, faultVars, historyVars
<1>1. CASE Administer \/ SendHeartbeat \/ HandleLate \/ UNCHANGED vars
  BY <1>1 DEF Administer, SendHeartbeat, HandleLate, vars
<1>2. CASE CheckUpdate
  BY <1>2 DEF CheckUpdate
<1>3. CASE Download
  BY <1>3 DEF Download
<1>4. CASE Verify
  BY <1>4 DEF Verify
<1>5. CASE Extract
  BY <1>5 DEF Extract
<1>6. CASE Backup
  BY <1>6 DEF Backup
<1>7. CASE Clean
  BY <1>7 DEF Clean
<1>8. CASE CleanDone
  BY <1>8 DEF CleanDone
<1>9. CASE CopyDone
  BY <1>9 DEF CopyDone
<1>10. CASE TellApplied
  BY <1>10 DEF TellApplied
<1>11. CASE ReportApplied
  BY <1>11 DEF ReportApplied
<1>12. CASE Restore
  BY <1>12 DEF Restore
<1>13. CASE RestoreDone
  BY <1>13 DEF RestoreDone
<1>14. CASE TellFailed
  BY <1>14 DEF TellFailed
<1>15. CASE ReportFailed
  BY <1>15 DEF ReportFailed
<1>16. CASE Crash
  BY <1>16 DEF Crash
<1>17. CASE Start
  BY <1>17 DEF Start
<1> QED
  BY <1>1, <1>2, <1>3, <1>4, <1>5, <1>6, <1>7, <1>8, <1>9, <1>10,
     <1>11, <1>12, <1>13, <1>14, <1>15, <1>16, <1>17
  DEF Next, Attempt

\* No step drops the last complete image set before it is backed up.
LEMMA BackedUpStep == TypeInv /\ BackedUpInv /\ [Next]_vars => BackedUpInv'
<1> SUFFICES ASSUME TypeInv /\ BackedUpInv, [Next]_vars PROVE BackedUpInv'
  OBVIOUS
<1> USE DEF BackedUpInv, NoImageSetLost, TypeInv, AgentInv, GoTo, Fail, Working, Content, Version, Package,
    Broken, Corrupt, NoBackup, serverVars, agentVars, diskVars, faultVars, historyVars
<1>1. CASE Administer \/ SendHeartbeat \/ HandleLate \/ UNCHANGED vars
  BY <1>1 DEF Administer, SendHeartbeat, HandleLate, vars
<1>2. CASE CheckUpdate
  BY <1>2 DEF CheckUpdate
<1>3. CASE Download
  BY <1>3 DEF Download
<1>4. CASE Verify
  BY <1>4 DEF Verify
<1>5. CASE Extract
  BY <1>5 DEF Extract
<1>6. CASE Backup
  BY <1>6 DEF Backup
<1>7. CASE Clean
  BY <1>7 DEF Clean
<1>8. CASE CleanDone
  BY <1>8 DEF CleanDone
<1>9. CASE CopyDone
  BY <1>9 DEF CopyDone
<1>10. CASE TellApplied
  BY <1>10 DEF TellApplied
<1>11. CASE ReportApplied
  BY <1>11 DEF ReportApplied
<1>12. CASE Restore
  BY <1>12 DEF Restore
<1>13. CASE RestoreDone
  BY <1>13 DEF RestoreDone
<1>14. CASE TellFailed
  BY <1>14 DEF TellFailed
<1>15. CASE ReportFailed
  BY <1>15 DEF ReportFailed
<1>16. CASE Crash
  BY <1>16 DEF Crash
<1>17. CASE Start
  BY <1>17 DEF Start
<1> QED
  BY <1>1, <1>2, <1>3, <1>4, <1>5, <1>6, <1>7, <1>8, <1>9, <1>10,
     <1>11, <1>12, <1>13, <1>14, <1>15, <1>16, <1>17
  DEF Next, Attempt

\* The backup stays what the attempt found until it is back in place.
LEMMA RestorableStep == TypeInv /\ CheckedInv /\ RestorableInv /\ [Next]_vars => RestorableInv'
<1> SUFFICES ASSUME TypeInv /\ CheckedInv /\ RestorableInv, [Next]_vars PROVE RestorableInv'
  OBVIOUS
<1> USE DEF RestorableInv, CheckedInv, RollbackRestoresImages, TypeInv, AgentInv, GoTo, Fail, Working, Content, Version, Package,
    Broken, Corrupt, NoBackup, serverVars, agentVars, diskVars, faultVars, historyVars
<1>1. CASE Administer \/ SendHeartbeat \/ HandleLate \/ UNCHANGED vars
  BY <1>1 DEF Administer, SendHeartbeat, HandleLate, vars
<1>2. CASE CheckUpdate
  BY <1>2 DEF CheckUpdate
<1>3. CASE Download
  BY <1>3 DEF Download
<1>4. CASE Verify
  BY <1>4 DEF Verify
<1>5. CASE Extract
  BY <1>5 DEF Extract
<1>6. CASE Backup
  BY <1>6 DEF Backup
<1>7. CASE Clean
  BY <1>7 DEF Clean
<1>8. CASE CleanDone
  BY <1>8 DEF CleanDone
<1>9. CASE CopyDone
  BY <1>9 DEF CopyDone
<1>10. CASE TellApplied
  BY <1>10 DEF TellApplied
<1>11. CASE ReportApplied
  BY <1>11 DEF ReportApplied
<1>12. CASE Restore
  BY <1>12 DEF Restore
<1>13. CASE RestoreDone
  BY <1>13 DEF RestoreDone
<1>14. CASE TellFailed
  BY <1>14 DEF TellFailed
<1>15. CASE ReportFailed
  BY <1>15 DEF ReportFailed
<1>16. CASE Crash
  BY <1>16 DEF Crash
<1>17. CASE Start
  BY <1>17 DEF Start
<1> QED
  BY <1>1, <1>2, <1>3, <1>4, <1>5, <1>6, <1>7, <1>8, <1>9, <1>10,
     <1>11, <1>12, <1>13, <1>14, <1>15, <1>16, <1>17
  DEF Next, Attempt

\* A call that calls nothing applied but what was copied, answered or not,
\* leaves only copied packages applied on the server and on the wire.
LEMMA CallReports ==
    ASSUME TypeInv, ReportedInv, NEW m \in Request,
           m.phase = "applied" => m.version \in installed,
           Answered(m) \/ Unanswered(m), installed \subseteq installed'
    PROVE  /\ \A l \in late' : l.phase = "applied" => l.version \in installed'
           /\ AppliedWasInstalled'
<1>1. CASE Answered(m)
  BY <1>1, HandleApplied DEF Answered, TypeInv, WireInv, ReportedInv, AppliedWasInstalled
<1>2. CASE Unanswered(m)
  BY <1>2 DEF Unanswered, serverVars, ReportedInv, AppliedWasInstalled
<1> QED
  BY <1>1, <1>2

\* So does a progress call.
LEMMA TellReports ==
    ASSUME TypeInv, ReportedInv, job \in Package,
           NEW phase \in {"working", "applied", "failed"},
           phase = "applied" => job \in installed,
           TellProgress(phase), installed \subseteq installed'
    PROVE  /\ \A l \in late' : l.phase = "applied" => l.version \in installed'
           /\ AppliedWasInstalled'
<1>1. Call("progress", phase).version = job /\ Call("progress", phase).phase = phase
  BY DEF Call
<1> QED
  BY <1>1, CallIsRequest, CallReports DEF TellProgress

\* Without a call nothing changes on the server or on the wire.
LEMMA QuietReports ==
    ASSUME ReportedInv, UNCHANGED <<serverVars, late>>, installed \subseteq installed'
    PROVE  /\ \A l \in late' : l.phase = "applied" => l.version \in installed'
           /\ AppliedWasInstalled'
BY DEF serverVars, ReportedInv, AppliedWasInstalled

\* No step calls a package applied that has not been copied.
LEMMA ReportedStep == TypeInv /\ CheckedInv /\ ReportedInv /\ [Next]_vars => ReportedInv'
<1> SUFFICES ASSUME TypeInv, CheckedInv, ReportedInv, [Next]_vars PROVE ReportedInv'
  OBVIOUS
<1>0. /\ pc \in Working => job \in Package
      /\ pc = "copying" => zip = job
      /\ pc \in {"tellApplied", "reportApplied"} => job \in installed
  BY DEF TypeInv, AgentInv, CheckedInv, ReportedInv
<1> USE <1>0 DEF Working, GoTo, Fail
<1>1. CASE Administer
  <2>1. /\ \A p \in Package : target'[p] = "applied" => target[p] = "applied"
        /\ UNCHANGED <<agentVars, late, installed>>
    BY <1>1, AdministerTargets DEF Administer, TypeInv, WireInv, faultVars, historyVars
  <2> QED
    BY <2>1 DEF ReportedInv, AppliedWasInstalled, agentVars
<1>2. CASE CheckUpdate
  BY <1>2, QuietReports DEF CheckUpdate, ReportedInv, agentVars, faultVars, historyVars
<1>3. CASE Download
  <2>1. Call("download", "working").version = job /\ Call("download", "working").phase = "working"
    BY DEF Call
  <2> QED
    BY <1>3, <2>1, CallIsRequest, CallReports, QuietReports
    DEF Download, ReportedInv, agentVars, faultVars, historyVars
<1>4. CASE Verify
  BY <1>4, TellReports, QuietReports DEF Verify, ReportedInv, agentVars, faultVars, historyVars
<1>5. CASE Extract
  BY <1>5, TellReports, QuietReports DEF Extract, ReportedInv, agentVars, faultVars, historyVars
<1>6. CASE Backup
  BY <1>6, TellReports, QuietReports DEF Backup, ReportedInv, agentVars, faultVars, historyVars
<1>7. CASE Clean
  BY <1>7, TellReports, QuietReports DEF Clean, ReportedInv, agentVars, faultVars, historyVars
<1>8. CASE CleanDone
  BY <1>8, QuietReports DEF CleanDone, ReportedInv, agentVars, faultVars, historyVars
<1>9. CASE CopyDone
  <2>1. installed \subseteq installed' /\ (pc' = "tellApplied" => job' \in installed')
        /\ pc' # "reportApplied"
    BY <1>9 DEF CopyDone
  <2>2. /\ \A l \in late' : l.phase = "applied" => l.version \in installed'
        /\ AppliedWasInstalled'
    BY <1>9, <2>1, TellReports, QuietReports DEF CopyDone, faultVars
  <2> QED
    BY <2>1, <2>2 DEF ReportedInv
<1>10. CASE TellApplied
  BY <1>10, TellReports, QuietReports DEF TellApplied, ReportedInv, agentVars, faultVars, historyVars
<1>11. CASE ReportApplied
  <2>1. Call("result", "applied").version = job /\ Call("result", "applied").phase = "applied"
    BY DEF Call
  <2> QED
    BY <1>11, <2>1, CallIsRequest, CallReports, QuietReports
    DEF ReportApplied, ReportedInv, agentVars, faultVars, historyVars
<1>12. CASE Restore
  BY <1>12, QuietReports DEF Restore, ReportedInv, agentVars, faultVars, historyVars
<1>13. CASE RestoreDone
  BY <1>13, QuietReports DEF RestoreDone, ReportedInv, agentVars, faultVars, historyVars
<1>14. CASE TellFailed
  BY <1>14, TellReports, QuietReports DEF TellFailed, ReportedInv, agentVars, faultVars, historyVars
<1>15. CASE ReportFailed
  <2>1. Call("result", "failed").version = job /\ Call("result", "failed").phase = "failed"
    BY DEF Call
  <2> QED
    BY <1>15, <2>1, CallIsRequest, CallReports, QuietReports
    DEF ReportFailed, ReportedInv, agentVars, faultVars, historyVars
<1>16. CASE SendHeartbeat
  <2>1. [call |-> "heartbeat", version |-> knownVersion, phase |-> "working"] \in Request
    BY <1>16 DEF SendHeartbeat, Request, TypeInv, AgentInv, Version, Package
  <2> QED
    BY <1>16, <2>1, CallReports DEF SendHeartbeat, ReportedInv, agentVars, faultVars, historyVars
<1>17. CASE HandleLate
  <2>1. PICK m \in late : Handle(m) /\ late' = late \ {m}
    BY <1>17 DEF HandleLate
  <2>2. m \in Request /\ (m.phase = "applied" => m.version \in installed)
    BY DEF TypeInv, WireInv, ReportedInv
  <2>3. UNCHANGED <<pc, job, installed>>
    BY <1>17 DEF HandleLate, agentVars, historyVars
  <2> QED
    BY <2>1, <2>2, <2>3, HandleApplied
    DEF ReportedInv, AppliedWasInstalled, TypeInv, WireInv
<1>18. CASE Crash
  BY <1>18, QuietReports DEF Crash, ReportedInv, agentVars, faultVars, historyVars
<1>19. CASE Start
  BY <1>19, QuietReports DEF Start, ReportedInv, agentVars, faultVars, historyVars
<1>20. CASE UNCHANGED vars
  BY <1>20, QuietReports DEF vars, ReportedInv, agentVars, faultVars, historyVars
<1> QED
  BY <1>1, <1>2, <1>3, <1>4, <1>5, <1>6, <1>7, <1>8, <1>9, <1>10,
     <1>11, <1>12, <1>13, <1>14, <1>15, <1>16, <1>17, <1>18, <1>19, <1>20
  DEF Next, Attempt

---------------------------------------------------------------------------
(* ShownInv.                                                               *)

\* A call the agent hears of, other than the success of an attempt and the
\* heartbeat, leaves the version alone.
LEMMA CallShows ==
    ASSUME TypeInv, NEW m \in Request, Answered(m) \/ Unanswered(m), lost' = 0
    PROVE  /\ lost = 0 /\ late' = late
           /\ m.call \in {"download", "progress"} => imageVersion' = imageVersion
           /\ m.call = "result" => imageVersion' = IF m.phase = "applied" THEN m.version ELSE imageVersion
           /\ m.call = "heartbeat" => imageVersion' = m.version
<1>1. lost \in Nat
  BY DEF TypeInv, WireInv
<1>2. Answered(m) /\ lost = 0
  BY <1>1 DEF Answered, Unanswered
<1> QED
  BY <1>2 DEF Answered, Handle, DownloadRequested, Progress, Result, Heartbeat, Request, Package

\* So does a progress call.
LEMMA TellShows ==
    ASSUME TypeInv, job \in Package, NEW phase \in {"working", "applied", "failed"},
           TellProgress(phase), lost' = 0, crashes' = 0
    PROVE  lost = 0 /\ crashes = 0 /\ late' = late /\ imageVersion' = imageVersion
<1>1. Call("progress", phase) \in Request /\ Call("progress", phase).call = "progress"
  BY CallIsRequest DEF Call
<1> QED
  BY <1>1, CallShows DEF TellProgress

LEMMA ShownStep == TypeInv /\ CheckedInv /\ RestorableInv /\ ShownInv /\ [Next]_vars => ShownInv'
<1> SUFFICES ASSUME TypeInv, CheckedInv, RestorableInv, ShownInv, [Next]_vars,
                    lost' = 0, crashes' = 0
             PROVE  ShownInv'
  BY DEF ShownInv
<1>0. /\ pc \in Working => job \in Package
      /\ pc = "copying" => zip = job
      /\ pc \in {"download", "verify", "extract", "backup", "clean"} => media = before
      /\ pc \in {"download", "verify", "extract", "backup"} => backup = NoBackup
      /\ pc \in {"clean", "cleaning", "copying", "tellApplied", "reportApplied", "restore", "restoring"} =>
            backup # NoBackup
      /\ backup # NoBackup => backup = before
      /\ damaged \in BOOLEAN
  BY DEF TypeInv, AgentInv, CheckedInv, RestorableInv
<1> USE <1>0 DEF Working, GoTo, Fail
<1>1. CASE Administer
  <2>1. imageVersion' = imageVersion /\ UNCHANGED <<agentVars, diskVars, faultVars, historyVars>>
    BY <1>1 DEF Administer, Assign, RetryFailed, ResetForRetry
  <2> QED
    BY <2>1 DEF ShownInv, agentVars, diskVars, faultVars, historyVars
<1>2. CASE CheckUpdate
  BY <1>2 DEF CheckUpdate, ShownInv, serverVars, diskVars, faultVars
<1>3. CASE Download
  <2>1. Call("download", "working") \in Request /\ Call("download", "working").call = "download"
    BY <1>3, CallIsRequest DEF Call, Download
  <2>2. lost = 0 /\ crashes = 0 /\ late' = late /\ imageVersion' = imageVersion
    BY <1>3, <2>1, CallShows DEF Download, serverVars
  <2> QED
    BY <1>3, <2>2 DEF Download, ShownInv, diskVars, historyVars
<1>4. CASE Verify
  BY <1>4, TellShows DEF Verify, ShownInv, diskVars, historyVars
<1>5. CASE Extract
  BY <1>5, TellShows DEF Extract, ShownInv, diskVars, historyVars
<1>6. CASE Backup
  BY <1>6, TellShows DEF Backup, ShownInv, historyVars
<1>7. CASE Clean
  BY <1>7, TellShows DEF Clean, ShownInv, historyVars
<1>8. CASE CleanDone
  BY <1>8 DEF CleanDone, ShownInv, serverVars, diskVars, faultVars, historyVars
<1>9. CASE CopyDone
  <2>1. CASE TellProgress("working") /\ media' = zip /\ GoTo("tellApplied")
    <3>1. lost = 0 /\ crashes = 0 /\ late' = late /\ imageVersion' = imageVersion
      BY <1>9, <2>1, TellShows DEF CopyDone
    <3> QED
      BY <1>9, <2>1, <3>1 DEF CopyDone, ShownInv
  <2>2. CASE Fail /\ UNCHANGED <<serverVars, media, faultVars, installed>>
    BY <1>9, <2>2 DEF CopyDone, ShownInv, serverVars, faultVars
  <2> QED
    BY <1>9, <2>1, <2>2 DEF CopyDone
<1>10. CASE TellApplied
  <2>1. CASE TellProgress("applied") /\ knownVersion' = job /\ pc' = "reportApplied" /\ UNCHANGED job
    <3>1. lost = 0 /\ crashes = 0 /\ late' = late /\ imageVersion' = imageVersion
      BY <1>10, <2>1, TellShows DEF TellApplied
    <3> QED
      BY <1>10, <2>1, <3>1 DEF TellApplied, ShownInv, diskVars, historyVars
  <2>2. CASE Fail /\ UNCHANGED <<serverVars, faultVars>>
    BY <1>10, <2>2 DEF TellApplied, ShownInv, serverVars, faultVars, diskVars, historyVars
  <2> QED
    BY <1>10, <2>1, <2>2 DEF TellApplied
<1>11. CASE ReportApplied
  <2> DEFINE m == Call("result", "applied")
  <2>1. m \in Request /\ m.call = "result" /\ m.version = job /\ m.phase = "applied"
    BY <1>11, CallIsRequest DEF Call, ReportApplied
  <2>2. ~Unanswered(m)
    BY DEF Unanswered, TypeInv, WireInv
  <2>3. lost = 0 /\ late' = late /\ imageVersion' = job /\ crashes = 0
    BY <1>11, <2>1, CallShows DEF ReportApplied
  <2>4. GoTo("idle") /\ damaged' = FALSE /\ UNCHANGED <<media, before>>
    BY <1>11, <2>2 DEF ReportApplied, diskVars
  <2> HIDE DEF m
  <2>5. knownVersion' = job /\ media' = job
    <3>1. pc = "reportApplied" /\ knownVersion' = knownVersion
      BY <1>11, <2>4 DEF ReportApplied
    <3> QED
      BY <2>3, <2>4, <3>1 DEF ShownInv
  <2> QED
    BY <2>3, <2>4, <2>5 DEF ShownInv
<1>12. CASE Restore
  BY <1>12 DEF Restore, ShownInv, serverVars, faultVars
<1>13. CASE RestoreDone
  BY <1>13 DEF RestoreDone, ShownInv, serverVars, faultVars
<1>14. CASE TellFailed
  BY <1>14, TellShows DEF TellFailed, ShownInv, diskVars, historyVars
<1>15. CASE ReportFailed
  <2>1. /\ Call("result", "failed") \in Request /\ Call("result", "failed").call = "result"
        /\ Call("result", "failed").phase = "failed"
    BY <1>15, CallIsRequest DEF Call, ReportFailed
  <2>2. lost = 0 /\ crashes = 0 /\ late' = late /\ imageVersion' = imageVersion
    BY <1>15, <2>1, CallShows DEF ReportFailed
  <2> QED
    BY <1>15, <2>2 DEF ReportFailed, ShownInv, diskVars, historyVars
<1>16. CASE SendHeartbeat
  <2> DEFINE m == [call |-> "heartbeat", version |-> knownVersion, phase |-> "working"]
  <2>1. m \in Request /\ m.call = "heartbeat" /\ m.version = knownVersion
    BY <1>16 DEF SendHeartbeat, Request, TypeInv, AgentInv, Version, Package
  <2>2. lost = 0 /\ late' = late /\ imageVersion' = knownVersion
    BY <1>16, <2>1, CallShows DEF SendHeartbeat
  <2>3. pc = "idle" /\ UNCHANGED <<agentVars, diskVars, crashes, historyVars>>
    BY <1>16 DEF SendHeartbeat
  <2> QED
    BY <2>2, <2>3 DEF ShownInv, agentVars, diskVars, historyVars
<1>17. CASE HandleLate
  BY <1>17 DEF HandleLate, ShownInv
<1>18. CASE Crash
  <2>1. crashes \in Nat /\ crashes' = crashes + 1
    BY <1>18 DEF Crash, TypeInv, AgentInv
  <2> QED
    BY <2>1
<1>19. CASE Start
  BY <1>19 DEF Start, ShownInv, faultVars
<1>20. CASE UNCHANGED vars
  BY <1>20 DEF vars, ShownInv, serverVars, agentVars, diskVars, faultVars, historyVars
<1> QED
  BY <1>1, <1>2, <1>3, <1>4, <1>5, <1>6, <1>7, <1>8, <1>9, <1>10,
     <1>11, <1>12, <1>13, <1>14, <1>15, <1>16, <1>17, <1>18, <1>19, <1>20
  DEF Next, Attempt

---------------------------------------------------------------------------
(* The theorems.                                                           *)

\* The invariant holds at the start.
LEMMA InitIInv == Init => IInv
<1> SUFFICES ASSUME Init PROVE IInv
  OBVIOUS
<1> USE TargetAssumption, FaultAssumption
    DEF Init, Package, Version, Content, Working, Broken, Corrupt, NoBackup
<1>1. WireInv
  BY DEF WireInv, ServerInit, ServerTypeOK, Status, Finished
<1>2. rollbackDone \in BOOLEAN /\ damaged \in BOOLEAN
  BY Zenon
<1>3. AgentInv
  BY <1>2 DEF AgentInv
<1>4. CheckedInv /\ BackedUpInv
  BY DEF CheckedInv, BackedUpInv, NoImageSetLost
<1>5. ReportedInv
  BY DEF ReportedInv, AppliedWasInstalled, ServerInit
<1>6. RestorableInv
  BY DEF RestorableInv, RollbackRestoresImages
<1>7. ShownInv
  BY DEF ShownInv, ServerInit
<1> QED
  BY <1>1, <1>3, <1>4, <1>5, <1>6, <1>7 DEF IInv, TypeInv

\* The invariant holds in every reachable state, for every value of the bounds.
THEOREM Invariance == Spec => []IInv
<1>1. IInv /\ [Next]_vars => IInv'
  BY WireStep, AgentStep, CheckedStep, BackedUpStep, ReportedStep, RestorableStep,
     ShownStep
  DEF IInv, TypeInv
<1> QED
  BY InitIInv, <1>1, PTL DEF Spec

\* Every variable keeps its type, whatever is lost, late or killed.
THEOREM TypeCorrect == Spec => []TypeOK
<1>1. IInv => TypeOK
  BY DEF IInv, TypeInv, WireInv, AgentInv, TypeOK
<1> QED
  BY Invariance, <1>1, PTL

\* apply_update never loses the last complete image set, however it fails and
\* whenever the agent is killed.
THEOREM ImageSetsSurvive == Spec => []NoImageSetLost
<1>1. IInv => NoImageSetLost
  BY DEF IInv, BackedUpInv
<1> QED
  BY Invariance, <1>1, PTL

\* No archive with a wrong checksum reaches media_path or a backup.
THEOREM ImagesAreVerified == Spec => []OnlyVerifiedImages
<1>1. IInv => OnlyVerifiedImages
  BY DEF IInv, CheckedInv, OnlyVerifiedImages
<1> QED
  BY Invariance, <1>1, PTL

\* The server calls a package applied only if the ATM has copied it, however
\* late and in whatever order the calls are handled.
THEOREM AppliedIsInstalled == Spec => []AppliedWasInstalled
<1>1. IInv => AppliedWasInstalled
  BY DEF IInv, ReportedInv
<1> QED
  BY Invariance, <1>1, PTL

\* A rollback that reports rollback_done has put back what the attempt found.
THEOREM RollbackIsExact == Spec => []RollbackRestoresImages
<1>1. IInv => RollbackRestoresImages
  BY DEF IInv, RestorableInv
<1> QED
  BY Invariance, <1>1, PTL

\* A broken image directory outside an attempt is the work of a kill or of a
\* failed rollback.
THEOREM BrokenIsExplained == Spec => []BrokenOnlyWhileReplacing
<1>1. IInv => BrokenOnlyWhileReplacing
  BY DEF IInv, TypeInv, AgentInv, RestorableInv, BrokenOnlyWhileReplacing
<1> QED
  BY Invariance, <1>1, PTL

\* Until a call is lost or the agent is killed, the version the server shows is
\* the one in media_path, whatever fails on the way, unless a rollback failed.
THEOREM ShownIsOnDisk == Spec => []ShownWhenReliable
<1>1. IInv => ShownWhenReliable
  BY DEF IInv, ShownInv, ShownWhenReliable, ServerShowsDiskVersion
<1> QED
  BY Invariance, <1>1, PTL

===========================================================================
