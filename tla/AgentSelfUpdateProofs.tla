------------------------ MODULE AgentSelfUpdateProofs ------------------------
(***************************************************************************)
(* Theorems about AgentSelfUpdate for every fleet, number of packages,     *)
(* lost call, reboot, restart and mishap.  The inductive invariant has     *)
(* three parts: the types, who may touch a staged executable, and that     *)
(* whatever claims a package was installed tells the truth.                *)
(***************************************************************************)
EXTENDS AgentUpdates, FiniteSetTheorems, TLAPS

---------------------------------------------------------------------------
(* The inductive invariant.                                                *)

\* The steps of an attempt have a package.
AttemptSteps == {"tellSame", "reportSame", "stage", "fetchAgent", "verifyAgent",
                 "fetchUpdater", "launch", "tellFailed", "reportFailed"}

\* Types.
WireInv ==
    /\ ServerTypeOK
    /\ late \subseteq Request
    /\ faults \in [{"lost", "reboot", "restart", "mishap"} -> Nat]

AgentInv ==
    /\ pc \in {"down"} \cup LoopSteps
    /\ pc \in AttemptSteps => job \in Package
    /\ running \in Version
    /\ job \in Version
    /\ exe \in Version \cup {Partial}
    /\ staged \in [Package -> Package \cup {Partial, Missing}]
    /\ updater \in [Package -> {"none"} \cup UpdaterSteps]
    /\ resultFile \in Outcome \cup {NoResult, Unreadable}
    /\ delivered \in BOOLEAN
    /\ installed \subseteq Package

TypeInv == WireInv /\ AgentInv

\* A staged file belongs to the agent until the updater is launched, and to
\* the updater from then on: nobody writes a file another has verified.
CustodyInv ==
    /\ \A p \in Package :
        updater[p] \in {"validate", "stop", "backup", "replace"} => staged[p] \in {p, Missing}
    /\ pc \in {"fetchAgent", "verifyAgent", "fetchUpdater", "launch"} => updater[job] = "none"
    /\ pc \in {"fetchUpdater", "launch"} => staged[job] = job
    /\ ExecutableIsVerified

\* What runs, what a result file says and what is called applied was installed.
InstalledInv ==
    /\ exe # 0 => exe \in installed
    /\ running # 0 => running \in installed
    /\ pc \in {"tellSame", "reportSame"} => running = job
    /\ \A p \in Package : updater[p] \in {"start", "write"} => p \in installed
    /\ resultFile.ok => resultFile.package \in installed
    /\ \A m \in late : m.phase = "applied" => m.version \in installed
    /\ AppliedWasInstalled

\* The last two parts of it: what the wire and the server say.
Told == /\ \A m \in late : m.phase = "applied" => m.version \in installed
        /\ AppliedWasInstalled

IInv == TypeInv /\ CustodyInv /\ InstalledInv

---------------------------------------------------------------------------
(* The server's handlers.                                                  *)

\* Every handler of a call keeps the server well typed.
LEMMA HandleType ==
    ASSUME ServerTypeOK, NEW m \in Request, Handle(m)
    PROVE  ServerTypeOK'
<1> USE MeAssumption, TargetAssumption
    DEF ServerTypeOK, Request, Package, Version, Status, Active, Finished
<1>1. CASE m.call = "download" /\ DownloadRequested(Me, m.version)
  BY <1>1 DEF DownloadRequested
<1>2. CASE m.call = "progress" /\ Progress(Me, m.version, m.phase)
  BY <1>2 DEF Progress
<1>3. CASE m.call = "result" /\ Result(Me, m.version, m.phase)
  BY <1>3 DEF Result
<1> QED
  BY <1>1, <1>2, <1>3 DEF Handle

\* A handler calls a package applied only on a request that says so.
LEMMA HandleApplied ==
    ASSUME ServerTypeOK, NEW m \in Request, Handle(m), NEW p \in Package,
           target'[Me][p] = "applied"
    PROVE  target[Me][p] = "applied" \/ (m.version = p /\ m.phase = "applied")
<1> USE MeAssumption DEF ServerTypeOK, Request, Package, Status, Active, Finished
<1>1. CASE m.call = "download" /\ DownloadRequested(Me, m.version)
  BY <1>1 DEF DownloadRequested
<1>2. CASE m.call = "progress" /\ Progress(Me, m.version, m.phase)
  BY <1>2 DEF Progress
<1>3. CASE m.call = "result" /\ Result(Me, m.version, m.phase)
  BY <1>3 DEF Result
<1> QED
  BY <1>1, <1>2, <1>3 DEF Handle

\* The dashboard's calls keep the server well typed and call nothing applied.
LEMMA AdministerType ==
    ASSUME ServerTypeOK, NEW p \in Package, Assign({Me}, p) \/ RetryFailed(p)
    PROVE  ServerTypeOK' /\ \A q \in Package : target'[Me][q] = "applied" => target[Me][q] = "applied"
<1>1. PICK S \in SUBSET ATMs : ToPending(S, p) /\ \A a \in S : target[a][p] # "applied"
  <2>1. CASE Assign({Me}, p)
    <3> DEFINE S == {a \in {Me} : target[a][p] \in {"none", "failed"} \cup Active}
    <3>1. ToPending(S, p) /\ S \in SUBSET ATMs
      BY <2>1, MeAssumption DEF Assign
    <3>2. \A a \in S : target[a][p] # "applied"
      BY DEF Active
    <3> QED
      BY <3>1, <3>2
  <2>2. CASE RetryFailed(p)
    <3> DEFINE S == {a \in ATMs : target[a][p] = "failed"}
    <3>1. ToPending(S, p) /\ S \in SUBSET ATMs
      BY <2>2 DEF RetryFailed
    <3> QED
      BY <3>1
  <2> QED
    BY <2>1, <2>2
<1>2. resets' \in 0 .. MaxResets
  BY <1>1, TargetAssumption DEF ToPending, ServerTypeOK
<1>3. target' \in [ATMs -> [Package -> Status]]
  BY <1>1 DEF ToPending, ServerTypeOK, Status
<1>4. \A q \in Package : target'[Me][q] = "applied" => target[Me][q] = "applied"
  BY <1>1, MeAssumption DEF ToPending, ServerTypeOK
<1> QED
  BY <1>1, <1>2, <1>3, <1>4 DEF ToPending, ServerTypeOK

\* Marking stale targets keeps the types and calls nothing applied.
LEMMA MarkedType ==
    ASSUME ServerTypeOK, NEW S, target' = Marked(S), UNCHANGED <<silent, agentVersion, resets>>
    PROVE  ServerTypeOK' /\ \A q \in Package : target'[Me][q] = "applied" => target[Me][q] = "applied"
BY MeAssumption DEF ServerTypeOK, Marked, Status, Finished

\* So do a check, a look at the packages, a heartbeat and the passing of time.
LEMMA OtherServerStep ==
    ASSUME ServerTypeOK,
           \/ ViewPackages
           \/ CheckMarks(Me)
           \/ \E v \in Version : Heartbeat(Me, v)
           \/ \E p \in Package : FallSilent(Me, p)
    PROVE  ServerTypeOK' /\ \A q \in Package : target'[Me][q] = "applied" => target[Me][q] = "applied"
<1>1. CASE ViewPackages
  BY <1>1, MarkedType DEF ViewPackages
<1>2. CASE CheckMarks(Me)
  BY <1>2, MarkedType DEF CheckMarks
<1>3. CASE \E v \in Version : Heartbeat(Me, v)
  BY <1>3, MeAssumption DEF Heartbeat, ServerTypeOK
<1>4. CASE \E p \in Package : FallSilent(Me, p)
  <2>1. silent' \in [ATMs -> [Package -> BOOLEAN]]
    BY <1>4, MeAssumption DEF FallSilent, ServerTypeOK
  <2> QED
    BY <1>4, <2>1 DEF FallSilent, ServerTypeOK
<1> QED
  BY <1>1, <1>2, <1>3, <1>4

---------------------------------------------------------------------------
(* The connection.                                                         *)

\* Counting a fault keeps the counters typed.
LEMMA SufferType ==
    ASSUME WireInv, NEW f \in {"lost", "reboot", "restart", "mishap"}, NEW bound, Suffer(f, bound)
    PROVE  faults' \in [{"lost", "reboot", "restart", "mishap"} -> Nat]
BY DEF WireInv, Suffer

\* A call, answered or not, keeps the types of the server and of the wire.
LEMMA CallType ==
    ASSUME WireInv, NEW m \in Request, Answered(m) \/ Unanswered(m)
    PROVE  WireInv'
<1>1. CASE Answered(m)
  BY <1>1, HandleType DEF Answered, WireInv
<1>2. CASE Unanswered(m)
  <2>1. faults' \in [{"lost", "reboot", "restart", "mishap"} -> Nat]
    BY <1>2, SufferType DEF Unanswered
  <2> QED
    BY <1>2, <2>1 DEF Unanswered, WireInv, ServerTypeOK, serverVars
<1> QED
  BY <1>1, <1>2

\* The calls an attempt makes are requests the server knows.
LEMMA CallIsRequest ==
    ASSUME job \in Package
    PROVE  /\ Call("download", "downloading") \in Request
           /\ \A phase \in Active \cup Finished : Call("progress", phase) \in Request
           /\ \A phase \in Finished : Call("result", phase) \in Request
BY DEF Call, Request

\* A progress call of an attempt keeps the types.
LEMMA TellType ==
    ASSUME WireInv, job \in Package, NEW phase \in Active \cup Finished, TellProgress(phase)
    PROVE  WireInv'
BY CallIsRequest, CallType DEF TellProgress

\* Without a call nothing changes on the server or on the wire.
LEMMA QuietType ==
    ASSUME WireInv, UNCHANGED <<serverVars, late>>,
           \/ UNCHANGED faults
           \/ \E f \in {"lost", "reboot", "restart", "mishap"} :
                faults' = [faults EXCEPT ![f] = @ + 1]
    PROVE  WireInv'
BY DEF WireInv, ServerTypeOK, serverVars

\* A call that tells the truth leaves only the truth on the wire and the server.
LEMMA CallTold ==
    ASSUME WireInv, Told, NEW m \in Request, Answered(m) \/ Unanswered(m),
           m.phase = "applied" => m.version \in installed, UNCHANGED installed
    PROVE  Told'
<1>1. CASE Answered(m)
  BY <1>1, HandleApplied DEF Answered, Told, WireInv, AppliedWasInstalled
<1>2. CASE Unanswered(m)
  BY <1>2 DEF Unanswered, Told, AppliedWasInstalled, serverVars
<1> QED
  BY <1>1, <1>2

\* So does a progress call that tells the truth.
LEMMA TellTold ==
    ASSUME WireInv, Told, job \in Package, NEW phase \in Active \cup Finished,
           TellProgress(phase), phase = "applied" => job \in installed, UNCHANGED installed
    PROVE  Told'
<1>1. Call("progress", phase) \in Request /\ Call("progress", phase).version = job
      /\ Call("progress", phase).phase = phase
  BY CallIsRequest DEF Call
<1> QED
  BY <1>1, CallTold DEF TellProgress

\* Without a call, what was told stays true.
LEMMA QuietTold ==
    ASSUME Told, UNCHANGED <<serverVars, late>>, installed \subseteq installed'
    PROVE  Told'
BY DEF Told, AppliedWasInstalled, serverVars

---------------------------------------------------------------------------
(* The steps.                                                              *)

\* Every step keeps the server and the wire well typed.
LEMMA WireStep == TypeInv /\ [Next]_vars => WireInv'
<1> SUFFICES ASSUME TypeInv, [Next]_vars PROVE WireInv'
  OBVIOUS
<1>0. WireInv /\ AgentInv /\ (pc \in AttemptSteps => job \in Package)
  BY DEF TypeInv, AgentInv
<1> USE <1>0 DEF AttemptSteps
<1>1. CASE ReportPendingResult
  <2> DEFINE m == [call |-> "result", version |-> resultFile.package, phase |-> PendingOutcome]
  <2>1. CASE resultFile \in Outcome /\ (Answered(m) \/ Unanswered(m))
    <3>1. m \in Request
      BY <2>1 DEF Outcome, Request, PendingOutcome, Finished
    <3> QED
      BY <2>1, <3>1, CallType
  <2>2. CASE UNCHANGED <<serverVars, late, faults>>
    BY <2>2, QuietType
  <2> QED
    BY <1>1, <2>1, <2>2 DEF ReportPendingResult
<1>2. CASE RenameResult
  BY <1>2, QuietType DEF RenameResult
<1>3. CASE CheckAgentUpdate
  <2>1. CASE CheckMarks(Me) /\ UNCHANGED <<late, faults>>
    BY <2>1, OtherServerStep DEF WireInv
  <2>2. CASE Suffer("lost", MaxLost) /\ UNCHANGED <<serverVars, late>>
    BY <2>2, QuietType DEF Suffer
  <2> QED
    BY <1>3, <2>1, <2>2 DEF CheckAgentUpdate
<1>4. CASE TellSame
  BY <1>4, TellType, QuietType DEF TellSame, GoTo, Active, Finished
<1>5. CASE ReportSame
  BY <1>5, CallIsRequest, CallType DEF ReportSame, Finished
<1>6. CASE Stage
  BY <1>6, TellType, QuietType DEF Stage, GoTo, Active, Finished
<1>7. CASE FetchAgent
  BY <1>7, CallIsRequest, CallType, QuietType DEF FetchAgent, Fetch
<1>8. CASE VerifyAgent
  BY <1>8, TellType, QuietType DEF VerifyAgent, GoTo, Active, Finished
<1>9. CASE FetchUpdater
  BY <1>9, CallIsRequest, CallType, QuietType DEF FetchUpdater, Fetch
<1>10. CASE LaunchUpdater
  BY <1>10, TellType, QuietType DEF LaunchUpdater, GoTo, Active, Finished
<1>11. CASE TellFailed
  BY <1>11, TellType, QuietType DEF TellFailed, GoTo, Active, Finished
<1>12. CASE ReportFailed
  BY <1>12, CallIsRequest, CallType DEF ReportFailed, Finished
<1>13. CASE ExitAgent
  BY <1>13, QuietType DEF ExitAgent
<1>14. CASE SendHeartbeat
  BY <1>14, OtherServerStep DEF SendHeartbeat, WireInv, AgentInv
<1>15. CASE HandleLate
  BY <1>15, HandleType DEF HandleLate, WireInv
<1>16. CASE \E p \in Package : Validate(p)
  <2> SUFFICES ASSUME NEW p \in Package, Validate(p) PROVE WireInv'
    BY <1>16
  <2> QED
    BY QuietType DEF Validate, Mishap, Suffer
<1>17. CASE \E p \in Package : StopAgent(p)
  <2> SUFFICES ASSUME NEW p \in Package, StopAgent(p) PROVE WireInv'
    BY <1>17
  <2> QED
    BY QuietType DEF StopAgent, Mishap, Suffer
<1>18. CASE \E p \in Package : BackupAgent(p)
  <2> SUFFICES ASSUME NEW p \in Package, BackupAgent(p) PROVE WireInv'
    BY <1>18
  <2> QED
    BY QuietType DEF BackupAgent, Mishap, Suffer
<1>19. CASE \E p \in Package : Replace(p)
  <2> SUFFICES ASSUME NEW p \in Package, Replace(p) PROVE WireInv'
    BY <1>19
  <2> QED
    BY QuietType DEF Replace, Mishap, Suffer
<1>20. CASE \E p \in Package : Start(p)
  <2> SUFFICES ASSUME NEW p \in Package, Start(p) PROVE WireInv'
    BY <1>20
  <2> QED
    BY QuietType DEF Start, Mishap, Suffer
<1>21. CASE \E p \in Package : Restart(p)
  <2> SUFFICES ASSUME NEW p \in Package, Restart(p) PROVE WireInv'
    BY <1>21
  <2> QED
    BY QuietType DEF Restart, Mishap, Suffer
<1>22. CASE \E p \in Package : WriteResult(p)
  <2> SUFFICES ASSUME NEW p \in Package, WriteResult(p) PROVE WireInv'
    BY <1>22
  <2> QED
    BY QuietType DEF WriteResult, Mishap, Suffer
<1>23. CASE \E p \in Package : TimePasses(p)
  <2> SUFFICES ASSUME NEW p \in Package, TimePasses(p) PROVE WireInv'
    BY <1>23
  <2> QED
    BY OtherServerStep DEF TimePasses, WireInv
<1>24. CASE \E p \in Package : Administer(p)
  <2> SUFFICES ASSUME NEW p \in Package, Administer(p) PROVE WireInv'
    BY <1>24
  <2> QED
    BY AdministerType DEF Administer, WireInv
<1>25. CASE RestartByWindows
  BY <1>25, QuietType DEF RestartByWindows, Suffer
<1>26. CASE Reboot
  BY <1>26, QuietType DEF Reboot, Suffer
<1>27. CASE View
  BY <1>27, OtherServerStep DEF View, WireInv
<1>28. CASE UNCHANGED vars
  BY <1>28, QuietType DEF vars
<1> QED
  BY <1>1, <1>2, <1>3, <1>4, <1>5, <1>6, <1>7, <1>8, <1>9, <1>10,
     <1>11, <1>12, <1>13, <1>14, <1>15, <1>16, <1>17, <1>18, <1>19, <1>20,
     <1>21, <1>22, <1>23, <1>24, <1>25, <1>26, <1>27, <1>28
  DEF Next, Loop, Updater

\* What the updater's stop step leaves alone, whether or not it goes wrong.
LEMMA StopMoves ==
    ASSUME NEW p \in Package, StopAgent(p)
    PROVE  /\ updater[p] = "stop"
           /\ \E to \in {"backup", "restart"} : updater' = [updater EXCEPT ![p] = to]
           /\ pc' = pc \/ pc' = "down"
           /\ UNCHANGED <<running, job, exe, staged, resultFile, delivered, installed>>
BY DEF StopAgent, Mishap, Moves, GoTo, agentVars, diskVars, historyVars

\* Every step keeps the agent, its disk and the history well typed.
LEMMA AgentStep == TypeInv /\ CustodyInv /\ [Next]_vars => AgentInv'
<1> SUFFICES ASSUME TypeInv, CustodyInv, [Next]_vars PROVE AgentInv'
  OBVIOUS
<1>0. AgentInv /\ exe \in Version
  BY DEF TypeInv, CustodyInv, ExecutableIsVerified
<1> USE <1>0 DEF AttemptSteps, LoopSteps, UpdaterSteps
<1>1. CASE ReportPendingResult
  BY <1>1 DEF ReportPendingResult, GoTo, agentVars, diskVars, historyVars, AgentInv
<1>2. CASE RenameResult
  BY <1>2 DEF RenameResult, GoTo, agentVars, diskVars, historyVars, AgentInv
<1>3. CASE CheckAgentUpdate
  BY <1>3 DEF CheckAgentUpdate, GoTo, agentVars, diskVars, historyVars, Package, Version, AgentInv
<1>4. CASE TellSame
  BY <1>4 DEF TellSame, GoTo, agentVars, diskVars, historyVars, AgentInv
<1>5. CASE ReportSame
  BY <1>5 DEF ReportSame, GoTo, agentVars, diskVars, historyVars, AgentInv
<1>6. CASE Stage
  BY <1>6 DEF Stage, GoTo, agentVars, diskVars, historyVars, AgentInv
<1>7. CASE FetchAgent
  BY <1>7 DEF FetchAgent, GoTo, agentVars, diskVars, historyVars, Fetch, AgentInv
<1>8. CASE VerifyAgent
  BY <1>8 DEF VerifyAgent, GoTo, agentVars, diskVars, historyVars, AgentInv
<1>9. CASE FetchUpdater
  BY <1>9 DEF FetchUpdater, GoTo, agentVars, diskVars, historyVars, Fetch, AgentInv
<1>10. CASE LaunchUpdater
  BY <1>10 DEF LaunchUpdater, GoTo, agentVars, diskVars, historyVars, AgentInv
<1>11. CASE TellFailed
  BY <1>11 DEF TellFailed, GoTo, agentVars, diskVars, historyVars, AgentInv
<1>12. CASE ReportFailed
  BY <1>12 DEF ReportFailed, GoTo, agentVars, diskVars, historyVars, AgentInv
<1>13. CASE ExitAgent
  BY <1>13 DEF ExitAgent, GoTo, agentVars, diskVars, historyVars, AgentInv
<1>14. CASE SendHeartbeat
  BY <1>14 DEF SendHeartbeat, GoTo, agentVars, diskVars, historyVars, AgentInv
<1>15. CASE HandleLate
  BY <1>15 DEF HandleLate, GoTo, agentVars, diskVars, historyVars, AgentInv
<1>16. CASE \E p \in Package : Validate(p)
  <2> SUFFICES ASSUME NEW p \in Package, Validate(p) PROVE AgentInv'
    BY <1>16
  <2> QED
    BY DEF Validate, GoTo, agentVars, diskVars, historyVars, Moves, Mishap, AgentInv
<1>17. CASE \E p \in Package : StopAgent(p)
  <2> SUFFICES ASSUME NEW p \in Package, StopAgent(p) PROVE AgentInv'
    BY <1>17
  <2> QED
    BY StopMoves DEF AgentInv
<1>18. CASE \E p \in Package : BackupAgent(p)
  <2> SUFFICES ASSUME NEW p \in Package, BackupAgent(p) PROVE AgentInv'
    BY <1>18
  <2> QED
    BY DEF BackupAgent, GoTo, agentVars, diskVars, historyVars, Moves, Mishap, AgentInv
<1>19. CASE \E p \in Package : Replace(p)
  <2> SUFFICES ASSUME NEW p \in Package, Replace(p) PROVE AgentInv'
    BY <1>19
  <2>1. updater[p] = "replace" => staged[p] \in {p, Missing}
    BY DEF CustodyInv
  <2>2. updater' \in [Package -> {"none"} \cup UpdaterSteps] /\ staged' \in [Package -> Package \cup {Partial, Missing}]
    BY DEF Replace, Moves, Mishap, AgentInv
  <2>3. exe' \in Version
    BY <2>1 DEF Replace, Moves, Mishap, Package, Version
  <2>4. installed' \subseteq Package
    BY DEF Replace, AgentInv
  <2> QED
    BY <2>2, <2>3, <2>4 DEF Replace, agentVars, AgentInv
<1>20. CASE \E p \in Package : Start(p)
  <2> SUFFICES ASSUME NEW p \in Package, Start(p) PROVE AgentInv'
    BY <1>20
  <2> QED
    BY DEF Start, GoTo, agentVars, diskVars, historyVars, Moves, Mishap, StartAgent, AgentInv
<1>21. CASE \E p \in Package : Restart(p)
  <2> SUFFICES ASSUME NEW p \in Package, Restart(p) PROVE AgentInv'
    BY <1>21
  <2> QED
    BY DEF Restart, GoTo, agentVars, diskVars, historyVars, Moves, StartAgent, AgentInv
<1>22. CASE \E p \in Package : WriteResult(p)
  <2> SUFFICES ASSUME NEW p \in Package, WriteResult(p) PROVE AgentInv'
    BY <1>22
  <2>1. delivered' \in BOOLEAN
    BY Zenon DEF WriteResult, AgentInv
  <2>2. [package |-> p, ok |-> TRUE] \in Outcome /\ [package |-> p, ok |-> FALSE] \in Outcome
    BY Zenon DEF Outcome
  <2>4. resultFile' \in Outcome \cup {NoResult, Unreadable}
    BY <2>2 DEF WriteResult, AgentInv
  <2>3. updater' \in [Package -> {"none"} \cup UpdaterSteps]
    BY DEF WriteResult, Moves, Mishap, AgentInv
  <2> QED
    BY <2>1, <2>3, <2>4 DEF WriteResult, agentVars, AgentInv
<1>23. CASE \E p \in Package : TimePasses(p)
  <2> SUFFICES ASSUME NEW p \in Package, TimePasses(p) PROVE AgentInv'
    BY <1>23
  <2> QED
    BY DEF TimePasses, GoTo, agentVars, diskVars, historyVars, AgentInv
<1>24. CASE \E p \in Package : Administer(p)
  <2> SUFFICES ASSUME NEW p \in Package, Administer(p) PROVE AgentInv'
    BY <1>24
  <2> QED
    BY DEF Administer, GoTo, agentVars, diskVars, historyVars, AgentInv
<1>25. CASE RestartByWindows
  BY <1>25 DEF RestartByWindows, GoTo, agentVars, diskVars, historyVars, StartAgent, AgentInv
<1>26. CASE Reboot
  BY <1>26 DEF Reboot, GoTo, agentVars, diskVars, historyVars, StartAgent, AgentInv
<1>27. CASE View
  BY <1>27 DEF View, GoTo, agentVars, diskVars, historyVars, AgentInv
<1>28. CASE UNCHANGED vars
  BY <1>28 DEF vars, agentVars, diskVars, historyVars, AgentInv
<1> QED
  BY <1>1, <1>2, <1>3, <1>4, <1>5, <1>6, <1>7, <1>8, <1>9, <1>10,
     <1>11, <1>12, <1>13, <1>14, <1>15, <1>16, <1>17, <1>18, <1>19, <1>20,
     <1>21, <1>22, <1>23, <1>24, <1>25, <1>26, <1>27, <1>28
  DEF Next, Loop, Updater

\* No step writes a staged file that another has verified.
LEMMA CustodyStep == TypeInv /\ CustodyInv /\ [Next]_vars => CustodyInv'
<1> SUFFICES ASSUME TypeInv, CustodyInv, [Next]_vars PROVE CustodyInv'
  OBVIOUS
<1>0. AgentInv /\ CustodyInv
  BY DEF TypeInv
<1> USE <1>0 DEF AgentInv, AttemptSteps, ExecutableIsVerified
<1>1. CASE ReportPendingResult
  BY <1>1 DEF ReportPendingResult, GoTo, agentVars, diskVars, historyVars, CustodyInv
<1>2. CASE RenameResult
  BY <1>2 DEF RenameResult, GoTo, agentVars, diskVars, historyVars, CustodyInv
<1>3. CASE CheckAgentUpdate
  BY <1>3 DEF CheckAgentUpdate, GoTo, agentVars, diskVars, historyVars, Package, Version, CustodyInv
<1>4. CASE TellSame
  BY <1>4 DEF TellSame, GoTo, agentVars, diskVars, historyVars, CustodyInv
<1>5. CASE ReportSame
  BY <1>5 DEF ReportSame, GoTo, agentVars, diskVars, historyVars, CustodyInv
<1>6. CASE Stage
  BY <1>6 DEF Stage, GoTo, agentVars, diskVars, historyVars, CustodyInv
<1>7. CASE FetchAgent
  BY <1>7 DEF FetchAgent, GoTo, agentVars, diskVars, historyVars, Fetch, CustodyInv
<1>8. CASE VerifyAgent
  BY <1>8 DEF VerifyAgent, GoTo, agentVars, diskVars, historyVars, CustodyInv
<1>9. CASE FetchUpdater
  BY <1>9 DEF FetchUpdater, GoTo, agentVars, diskVars, historyVars, Fetch, CustodyInv
<1>10. CASE LaunchUpdater
  BY <1>10 DEF LaunchUpdater, GoTo, agentVars, diskVars, historyVars, CustodyInv
<1>11. CASE TellFailed
  BY <1>11 DEF TellFailed, GoTo, agentVars, diskVars, historyVars, CustodyInv
<1>12. CASE ReportFailed
  BY <1>12 DEF ReportFailed, GoTo, agentVars, diskVars, historyVars, CustodyInv
<1>13. CASE ExitAgent
  BY <1>13 DEF ExitAgent, GoTo, agentVars, diskVars, historyVars, CustodyInv
<1>14. CASE SendHeartbeat
  BY <1>14 DEF SendHeartbeat, GoTo, agentVars, diskVars, historyVars, CustodyInv
<1>15. CASE HandleLate
  BY <1>15 DEF HandleLate, GoTo, agentVars, diskVars, historyVars, CustodyInv
<1>16. CASE \E p \in Package : Validate(p)
  <2> SUFFICES ASSUME NEW p \in Package, Validate(p) PROVE CustodyInv'
    BY <1>16
  <2> QED
    BY DEF Validate, GoTo, agentVars, diskVars, historyVars, Moves, Mishap, CustodyInv
<1>17. CASE \E p \in Package : StopAgent(p)
  <2> SUFFICES ASSUME NEW p \in Package, StopAgent(p) PROVE CustodyInv'
    BY <1>17
  <2> QED
    BY StopMoves DEF CustodyInv, ExecutableIsVerified
<1>18. CASE \E p \in Package : BackupAgent(p)
  <2> SUFFICES ASSUME NEW p \in Package, BackupAgent(p) PROVE CustodyInv'
    BY <1>18
  <2> QED
    BY DEF BackupAgent, GoTo, agentVars, diskVars, historyVars, Moves, Mishap, CustodyInv
<1>19. CASE \E p \in Package : Replace(p)
  <2> SUFFICES ASSUME NEW p \in Package, Replace(p) PROVE CustodyInv'
    BY <1>19
  <2>1. updater[p] = "replace" => staged[p] \in {p, Missing}
    BY DEF CustodyInv
  <2>2. exe' \in Version
    BY <2>1 DEF Replace, Moves, Mishap, CustodyInv, Package, Version
  <2>3. pc \in {"fetchAgent", "verifyAgent", "fetchUpdater", "launch"} => job # p
    BY DEF Replace, Moves, Mishap, CustodyInv
  <2> QED
    BY <2>2, <2>3 DEF Replace, Moves, Mishap, agentVars, CustodyInv
<1>20. CASE \E p \in Package : Start(p)
  <2> SUFFICES ASSUME NEW p \in Package, Start(p) PROVE CustodyInv'
    BY <1>20
  <2> QED
    BY DEF Start, GoTo, agentVars, diskVars, historyVars, Moves, Mishap, StartAgent, CustodyInv
<1>21. CASE \E p \in Package : Restart(p)
  <2> SUFFICES ASSUME NEW p \in Package, Restart(p) PROVE CustodyInv'
    BY <1>21
  <2> QED
    BY DEF Restart, GoTo, agentVars, diskVars, historyVars, Moves, StartAgent, CustodyInv
<1>22. CASE \E p \in Package : WriteResult(p)
  <2> SUFFICES ASSUME NEW p \in Package, WriteResult(p) PROVE CustodyInv'
    BY <1>22
  <2> QED
    BY DEF WriteResult, GoTo, agentVars, diskVars, historyVars, Moves, Mishap, Outcome, CustodyInv
<1>23. CASE \E p \in Package : TimePasses(p)
  <2> SUFFICES ASSUME NEW p \in Package, TimePasses(p) PROVE CustodyInv'
    BY <1>23
  <2> QED
    BY DEF TimePasses, GoTo, agentVars, diskVars, historyVars, CustodyInv
<1>24. CASE \E p \in Package : Administer(p)
  <2> SUFFICES ASSUME NEW p \in Package, Administer(p) PROVE CustodyInv'
    BY <1>24
  <2> QED
    BY DEF Administer, GoTo, agentVars, diskVars, historyVars, CustodyInv
<1>25. CASE RestartByWindows
  BY <1>25 DEF RestartByWindows, GoTo, agentVars, diskVars, historyVars, StartAgent, CustodyInv
<1>26. CASE Reboot
  BY <1>26 DEF Reboot, GoTo, agentVars, diskVars, historyVars, StartAgent, CustodyInv
<1>27. CASE View
  BY <1>27 DEF View, GoTo, agentVars, diskVars, historyVars, CustodyInv
<1>28. CASE UNCHANGED vars
  BY <1>28 DEF vars, agentVars, diskVars, historyVars, CustodyInv
<1> QED
  BY <1>1, <1>2, <1>3, <1>4, <1>5, <1>6, <1>7, <1>8, <1>9, <1>10,
     <1>11, <1>12, <1>13, <1>14, <1>15, <1>16, <1>17, <1>18, <1>19, <1>20,
     <1>21, <1>22, <1>23, <1>24, <1>25, <1>26, <1>27, <1>28
  DEF Next, Loop, Updater

\* No step calls a package applied that has not been installed.
LEMMA InstalledStep == TypeInv /\ CustodyInv /\ InstalledInv /\ [Next]_vars => InstalledInv'
<1> SUFFICES ASSUME TypeInv, CustodyInv, InstalledInv, [Next]_vars PROVE InstalledInv'
  OBVIOUS
<1>0. WireInv /\ AgentInv /\ CustodyInv /\ InstalledInv /\ Told /\ (pc \in AttemptSteps => job \in Package)
  BY DEF TypeInv, AgentInv, InstalledInv, Told
<1> USE <1>0 DEF AttemptSteps
<1>1. CASE ReportPendingResult
  <2> DEFINE r == [call |-> "result", version |-> resultFile.package, phase |-> PendingOutcome]
  <2>0. UNCHANGED installed
    BY <1>1 DEF ReportPendingResult
  <2>1. ASSUME resultFile \in Outcome, Answered(r) \/ Unanswered(r) PROVE Told'
    <3>1. r \in Request /\ (r.phase = "applied" => r.version \in installed)
      BY <2>1 DEF Outcome, Request, PendingOutcome, Finished, InstalledInv
    <3> HIDE DEF r
    <3> QED
      BY <2>0, <2>1, <3>1, CallTold
  <2>2. ASSUME UNCHANGED <<serverVars, late, faults, delivered>> PROVE Told'
    BY <2>0, <2>2, QuietTold
  <2>3. Told'
    BY <1>1, <2>1, <2>2 DEF ReportPendingResult
  <2> QED
    BY <1>1, <2>3 DEF ReportPendingResult, Told, GoTo, agentVars, diskVars, historyVars, InstalledInv
<1>2. CASE RenameResult
  <2>1. Told'
    BY <1>2, QuietTold DEF RenameResult, historyVars
  <2> QED
    BY <1>2, <2>1 DEF RenameResult, NoResult, Told, AgentInv, GoTo, agentVars, diskVars, historyVars, InstalledInv
<1>3. CASE CheckAgentUpdate
  <2>1. UNCHANGED target \/ \A q \in Package : target'[Me][q] = "applied" => target[Me][q] = "applied"
    BY <1>3, OtherServerStep DEF CheckAgentUpdate, WireInv, AgentInv, serverVars
  <2>2. Told'
    BY <1>3, <2>1 DEF CheckAgentUpdate, Told, AppliedWasInstalled, historyVars
  <2> QED
    BY <1>3, <2>2 DEF CheckAgentUpdate, Told, GoTo, agentVars, diskVars, historyVars, InstalledInv
<1>4. CASE TellSame
  <2>1. Told'
    BY <1>4, TellTold DEF TellSame, GoTo, Active, Finished, historyVars, InstalledInv, Package
  <2> QED
    BY <1>4, <2>1 DEF AgentInv, TellSame, Told, GoTo, agentVars, diskVars, historyVars, InstalledInv
<1>5. CASE ReportSame
  <2>1. /\ Call("result", "applied") \in Request
        /\ Call("result", "applied").version = job /\ Call("result", "applied").phase = "applied"
    BY <1>5, CallIsRequest DEF ReportSame, Call, Finished
  <2>2. Told'
    BY <1>5, <2>1, CallTold DEF ReportSame, InstalledInv, Package, historyVars
  <2> QED
    BY <1>5, <2>2 DEF ReportSame, Told, GoTo, agentVars, diskVars, historyVars, InstalledInv
<1>6. CASE Stage
  <2>1. Told'
    BY <1>6, TellTold, QuietTold DEF Stage, GoTo, Active, Finished, historyVars
  <2> QED
    BY <1>6, <2>1 DEF AgentInv, Stage, Told, GoTo, agentVars, diskVars, historyVars, InstalledInv
<1>7. CASE FetchAgent
  <2>1. /\ Call("download", "downloading") \in Request
        /\ Call("download", "downloading").phase = "downloading"
    BY <1>7, CallIsRequest DEF FetchAgent, Call
  <2>2. Told'
    BY <1>7, <2>1, CallTold, QuietTold DEF FetchAgent, Fetch, historyVars
  <2> QED
    BY <1>7, <2>2 DEF FetchAgent, Fetch, Told, GoTo, agentVars, diskVars, historyVars, InstalledInv
<1>8. CASE VerifyAgent
  <2>1. Told'
    BY <1>8, TellTold, QuietTold DEF VerifyAgent, GoTo, Active, Finished, historyVars
  <2> QED
    BY <1>8, <2>1 DEF AgentInv, VerifyAgent, Told, GoTo, agentVars, diskVars, historyVars, InstalledInv
<1>9. CASE FetchUpdater
  <2>1. /\ Call("download", "downloading") \in Request
        /\ Call("download", "downloading").phase = "downloading"
    BY <1>9, CallIsRequest DEF FetchUpdater, Call
  <2>2. Told'
    BY <1>9, <2>1, CallTold, QuietTold DEF FetchUpdater, Fetch, historyVars
  <2> QED
    BY <1>9, <2>2 DEF FetchUpdater, Fetch, Told, GoTo, agentVars, diskVars, historyVars, InstalledInv
<1>10. CASE LaunchUpdater
  <2>1. Told'
    BY <1>10, TellTold, QuietTold DEF LaunchUpdater, GoTo, Active, Finished, historyVars
  <2> QED
    BY <1>10, <2>1 DEF AgentInv, LaunchUpdater, Told, GoTo, agentVars, diskVars, historyVars, InstalledInv
<1>11. CASE TellFailed
  <2>1. Told'
    BY <1>11, TellTold, QuietTold DEF TellFailed, GoTo, Active, Finished, historyVars
  <2> QED
    BY <1>11, <2>1 DEF AgentInv, TellFailed, Told, GoTo, agentVars, diskVars, historyVars, InstalledInv
<1>12. CASE ReportFailed
  <2>1. /\ Call("result", "failed") \in Request
        /\ Call("result", "failed").version = job /\ Call("result", "failed").phase = "failed"
    BY <1>12, CallIsRequest DEF ReportFailed, Call, Finished
  <2>2. Told'
    BY <1>12, <2>1, CallTold DEF ReportFailed, InstalledInv, Package, historyVars
  <2> QED
    BY <1>12, <2>2 DEF ReportFailed, Told, GoTo, agentVars, diskVars, historyVars, InstalledInv
<1>13. CASE ExitAgent
  <2>1. Told'
    BY <1>13, QuietTold DEF ExitAgent, historyVars
  <2> QED
    BY <1>13, <2>1 DEF ExitAgent, Told, AgentInv, GoTo, agentVars, diskVars, historyVars, InstalledInv
<1>14. CASE SendHeartbeat
  <2>1. UNCHANGED target \/ \A q \in Package : target'[Me][q] = "applied" => target[Me][q] = "applied"
    BY <1>14, OtherServerStep DEF SendHeartbeat, WireInv, AgentInv, serverVars
  <2>2. Told'
    BY <1>14, <2>1 DEF SendHeartbeat, Told, AppliedWasInstalled, historyVars
  <2> QED
    BY <1>14, <2>2 DEF SendHeartbeat, Told, GoTo, agentVars, diskVars, historyVars, InstalledInv
<1>15. CASE HandleLate
  <2>1. PICK m \in late : Handle(m) /\ late' = late \ {m}
    BY <1>15 DEF HandleLate
  <2>2. m \in Request /\ (m.phase = "applied" => m.version \in installed)
    BY DEF WireInv, Told
  <2>3. UNCHANGED installed
    BY <1>15 DEF HandleLate, historyVars
  <2>4. Told'
    BY <2>1, <2>2, <2>3, HandleApplied DEF Told, WireInv, AppliedWasInstalled
  <2> QED
    BY <1>15, <2>4 DEF HandleLate, Told, GoTo, agentVars, diskVars, historyVars, InstalledInv
<1>16. CASE \E p \in Package : Validate(p)
  <2> SUFFICES ASSUME NEW p \in Package, Validate(p) PROVE InstalledInv'
    BY <1>16
  <2>1. Told'
    BY QuietTold DEF Validate, historyVars
  <2> QED
    BY <2>1 DEF Validate, Moves, Mishap, Told, AgentInv, GoTo, agentVars, diskVars, historyVars, InstalledInv
<1>17. CASE \E p \in Package : StopAgent(p)
  <2> SUFFICES ASSUME NEW p \in Package, StopAgent(p) PROVE InstalledInv'
    BY <1>17
  <2>1. Told'
    BY QuietTold DEF StopAgent, historyVars
  <2> QED
    BY <2>1, StopMoves DEF Told, AgentInv, InstalledInv
<1>18. CASE \E p \in Package : BackupAgent(p)
  <2> SUFFICES ASSUME NEW p \in Package, BackupAgent(p) PROVE InstalledInv'
    BY <1>18
  <2>1. Told'
    BY QuietTold DEF BackupAgent, historyVars
  <2> QED
    BY <2>1 DEF BackupAgent, Moves, Mishap, Told, AgentInv, GoTo, agentVars, diskVars, historyVars, InstalledInv
<1>19. CASE \E p \in Package : Replace(p)
  <2> SUFFICES ASSUME NEW p \in Package, Replace(p) PROVE InstalledInv'
    BY <1>19
  <2>1. Told'
    BY QuietTold DEF Replace
  <2>2. updater[p] = "replace" => staged[p] \in {p, Missing}
    BY DEF CustodyInv
  <2>3. installed \subseteq installed' /\ (exe' = exe \/ exe' \in installed')
    BY <2>2 DEF Replace, Moves
  <2>4. \A q \in Package : updater'[q] \in {"start", "write"} => q \in installed'
    BY <2>2, <2>3 DEF Replace, Moves, Mishap, AgentInv, InstalledInv
  <2> QED
    BY <2>1, <2>3, <2>4 DEF Replace, Told, GoTo, agentVars, diskVars, historyVars, InstalledInv
<1>20. CASE \E p \in Package : Start(p)
  <2> SUFFICES ASSUME NEW p \in Package, Start(p) PROVE InstalledInv'
    BY <1>20
  <2>1. Told'
    BY QuietTold DEF Start, historyVars
  <2> QED
    BY <2>1 DEF Start, Moves, Mishap, StartAgent, Told, AgentInv, GoTo, agentVars, diskVars, historyVars, InstalledInv
<1>21. CASE \E p \in Package : Restart(p)
  <2> SUFFICES ASSUME NEW p \in Package, Restart(p) PROVE InstalledInv'
    BY <1>21
  <2>1. Told'
    BY QuietTold DEF Restart, historyVars
  <2> QED
    BY <2>1 DEF Restart, Moves, StartAgent, Told, AgentInv, GoTo, agentVars, diskVars, historyVars, InstalledInv
<1>22. CASE \E p \in Package : WriteResult(p)
  <2> SUFFICES ASSUME NEW p \in Package, WriteResult(p) PROVE InstalledInv'
    BY <1>22
  <2>1. Told'
    BY QuietTold DEF WriteResult, historyVars
  <2> QED
    BY <2>1 DEF WriteResult, Moves, Mishap, Told, AgentInv, GoTo, agentVars, diskVars, historyVars, InstalledInv
<1>23. CASE \E p \in Package : TimePasses(p)
  <2> SUFFICES ASSUME NEW p \in Package, TimePasses(p) PROVE InstalledInv'
    BY <1>23
  <2>1. UNCHANGED target \/ \A q \in Package : target'[Me][q] = "applied" => target[Me][q] = "applied"
    BY OtherServerStep DEF TimePasses, WireInv, AgentInv, serverVars
  <2>2. Told'
    BY <2>1 DEF TimePasses, Told, AppliedWasInstalled, historyVars
  <2> QED
    BY <2>2 DEF TimePasses, Told, GoTo, agentVars, diskVars, historyVars, InstalledInv
<1>24. CASE \E p \in Package : Administer(p)
  <2> SUFFICES ASSUME NEW p \in Package, Administer(p) PROVE InstalledInv'
    BY <1>24
  <2>1. Told'
    BY AdministerType DEF Administer, WireInv, Told, AppliedWasInstalled, historyVars
  <2> QED
    BY <2>1 DEF Administer, Told, GoTo, agentVars, diskVars, historyVars, InstalledInv
<1>25. CASE RestartByWindows
  <2>1. Told'
    BY <1>25, QuietTold DEF RestartByWindows, historyVars
  <2> QED
    BY <1>25, <2>1 DEF RestartByWindows, StartAgent, Told, AgentInv, GoTo, agentVars, diskVars, historyVars, InstalledInv
<1>26. CASE Reboot
  <2>1. Told'
    BY <1>26, QuietTold DEF Reboot, historyVars
  <2> QED
    BY <1>26, <2>1 DEF Reboot, StartAgent, Unreadable, Told, AgentInv, GoTo, agentVars, diskVars, historyVars, InstalledInv
<1>27. CASE View
  <2>1. UNCHANGED target \/ \A q \in Package : target'[Me][q] = "applied" => target[Me][q] = "applied"
    BY <1>27, OtherServerStep DEF View, WireInv, AgentInv, serverVars
  <2>2. Told'
    BY <1>27, <2>1 DEF View, Told, AppliedWasInstalled, historyVars
  <2> QED
    BY <1>27, <2>2 DEF View, Told, GoTo, agentVars, diskVars, historyVars, InstalledInv
<1>28. CASE UNCHANGED vars
  <2>1. Told'
    BY <1>28, QuietTold DEF vars, historyVars
  <2> QED
    BY <1>28, <2>1 DEF vars, Told, AgentInv, GoTo, agentVars, diskVars, historyVars, InstalledInv
<1> QED
  BY <1>1, <1>2, <1>3, <1>4, <1>5, <1>6, <1>7, <1>8, <1>9, <1>10,
     <1>11, <1>12, <1>13, <1>14, <1>15, <1>16, <1>17, <1>18, <1>19, <1>20,
     <1>21, <1>22, <1>23, <1>24, <1>25, <1>26, <1>27, <1>28
  DEF Next, Loop, Updater

---------------------------------------------------------------------------
(* The theorems.                                                           *)

\* The invariant holds at the start.
LEMMA InitIInv == Init => IInv
<1> SUFFICES ASSUME Init PROVE IInv
  OBVIOUS
<1> USE MeAssumption, TargetAssumption DEF Init, ServerInit, Package, Version, Missing, NoResult
<1>1. WireInv
  BY DEF WireInv, ServerTypeOK, Status
<1>2. AgentInv
  BY DEF AgentInv, AttemptSteps, LoopSteps
<1>3. CustodyInv
  BY DEF CustodyInv, ExecutableIsVerified
<1>4. InstalledInv
  BY DEF InstalledInv, AppliedWasInstalled
<1> QED
  BY <1>1, <1>2, <1>3, <1>4 DEF IInv, TypeInv

\* The invariant holds in every reachable state, for every value of the constants.
THEOREM Invariance == Spec => []IInv
<1>1. IInv /\ [Next]_vars => IInv'
  BY WireStep, AgentStep, CustodyStep, InstalledStep DEF IInv, TypeInv
<1> QED
  BY InitIInv, <1>1, PTL DEF Spec

\* Every variable keeps its type, whatever is lost, late, killed or fails.
THEOREM TypeCorrect == Spec => []TypeOK
<1>1. IInv => TypeOK
  BY DEF IInv, TypeInv, WireInv, AgentInv, TypeOK
<1> QED
  BY Invariance, <1>1, PTL

\* atm-agent.exe is never a partial or unverified file: retries, restarts and
\* updaters that outlive the agent never hand each other a file being written.
THEOREM ExecutableVerified == Spec => []ExecutableIsVerified
<1>1. IInv => ExecutableIsVerified
  BY DEF IInv, CustodyInv
<1> QED
  BY Invariance, <1>1, PTL

\* The server calls a package applied only if its executable was put in place,
\* in whatever order the calls of old and new attempts are handled.
THEOREM AppliedIsInstalled == Spec => []AppliedWasInstalled
<1>1. IInv => AppliedWasInstalled
  BY DEF IInv, InstalledInv
<1> QED
  BY Invariance, <1>1, PTL

---------------------------------------------------------------------------
(* The rollout to the fleet.                                               *)

\* An agent that holds an offer or works on one has a package.
RolloutInv ==
    /\ Rollout!TypeOK
    /\ \A a \in Fleet : attempt[a] \in {"offered", "working"} => package[a] \in Package

\* What the server does for one ATM of the fleet keeps its rows well typed.
LEMMA RolloutCall ==
    ASSUME Rollout!ServerTypeOK, NEW a \in Fleet, NEW p \in Package,
           \/ Rollout!DownloadRequested(a, p)
           \/ \E phase \in Active : Rollout!Progress(a, p, phase)
           \/ \E outcome \in Finished : Rollout!Result(a, p, outcome)
           \/ Rollout!FallSilent(a, p)
    PROVE  Rollout!ServerTypeOK'
<1> USE TargetAssumption, FleetAssumption
    DEF Rollout!ServerTypeOK, Rollout!Package, Rollout!Version, Rollout!Status, Rollout!Active,
        Rollout!Finished, Package, Active, Finished
<1>1. CASE Rollout!DownloadRequested(a, p)
  BY <1>1 DEF Rollout!DownloadRequested
<1>2. CASE \E phase \in Active : Rollout!Progress(a, p, phase)
  BY <1>2 DEF Rollout!Progress
<1>3. CASE \E outcome \in Finished : Rollout!Result(a, p, outcome)
  BY <1>3 DEF Rollout!Result
<1>4. CASE Rollout!FallSilent(a, p)
  BY <1>4 DEF Rollout!FallSilent
<1> QED
  BY <1>1, <1>2, <1>3, <1>4

\* So does marking what is stale.
LEMMA RolloutMarks ==
    ASSUME Rollout!ServerTypeOK, NEW S, fleetTarget' = Rollout!Marked(S),
           UNCHANGED <<fleetSilent, fleetVersion, fleetResets>>
    PROVE  Rollout!ServerTypeOK'
BY DEF Rollout!ServerTypeOK, Rollout!Marked, Rollout!Status, Rollout!Finished

\* So does assigning a package to a part of the fleet, or trying it again.
LEMMA RolloutAssigns ==
    ASSUME Rollout!ServerTypeOK, NEW S, NEW p, Rollout!ToPending(S, p)
    PROVE  Rollout!ServerTypeOK'
<1>1. fleetResets' \in 0 .. FleetResets
  BY TargetAssumption, FleetAssumption DEF Rollout!ToPending, Rollout!ServerTypeOK
<1>2. fleetTarget' \in [Fleet -> [Rollout!Package -> Rollout!Status]]
  BY DEF Rollout!ToPending, Rollout!ServerTypeOK, Rollout!Status
<1> QED
  BY <1>1, <1>2 DEF Rollout!ToPending, Rollout!ServerTypeOK

\* Every variable of the rollout keeps its type, for every fleet and limit, and
\* an agent at work always has a package.
THEOREM RolloutTypeCorrect == Rollout!Spec => []RolloutInv
<1> USE DEF RolloutInv
<1>1. Rollout!Init => RolloutInv
  <2> SUFFICES ASSUME Rollout!Init
               PROVE  RolloutInv
    OBVIOUS
  <2>1. unseen \in BOOLEAN
    BY DEF Rollout!Init
  <2> QED
    BY <2>1, TargetAssumption, FleetAssumption
       DEF Rollout!Init, Rollout!ServerInit, Rollout!TypeOK, Rollout!ServerTypeOK,
           Rollout!Status, Rollout!Version
<1>2. RolloutInv /\ [Rollout!Next]_Rollout!vars => RolloutInv'
  <2> SUFFICES ASSUME RolloutInv, [Rollout!Next]_Rollout!vars
               PROVE  RolloutInv'
    OBVIOUS
  <2> USE DEF Rollout!TypeOK, Rollout!fleetVars
  <2>p. Package = Rollout!Package /\ Active = Rollout!Active /\ Finished = Rollout!Finished
    BY DEF Package, Rollout!Package, Active, Rollout!Active, Finished, Rollout!Finished
  <2>1. ASSUME NEW a \in Fleet, Rollout!Check(a)
        PROVE  RolloutInv'
    <3>1. Rollout!ServerTypeOK'
      BY <2>1, RolloutMarks DEF Rollout!Check, Rollout!CheckMarks
    <3>2. unseen' \in BOOLEAN
      BY <2>1 DEF Rollout!Check
    <3> QED
      BY <2>1, <3>1, <3>2, TargetAssumption, FleetAssumption
         DEF Rollout!Check, Package, Rollout!Package, Rollout!Version
  <2>2. ASSUME NEW a \in Fleet, Rollout!Begin(a)
        PROVE  RolloutInv'
    BY <2>2, RolloutCall DEF Rollout!Begin
  <2>3. ASSUME NEW a \in Fleet, Rollout!Work(a)
        PROVE  RolloutInv'
    BY <2>3, <2>p, RolloutCall DEF Rollout!Work
  <2>4. ASSUME NEW a \in Fleet, Rollout!Finish(a)
        PROVE  RolloutInv'
    <3>1. Rollout!ServerTypeOK'
      BY <2>4, <2>p, RolloutCall DEF Rollout!Finish
    <3> QED
      BY <2>4, <3>1, TargetAssumption, FleetAssumption DEF Rollout!Finish, Rollout!Version
  <2>5. ASSUME NEW a \in Fleet, Rollout!Die(a) \/ Rollout!Revive(a)
        PROVE  RolloutInv'
    <3>1. Rollout!ServerTypeOK'
      BY <2>5 DEF Rollout!Die, Rollout!Revive, Rollout!serverVars, Rollout!ServerTypeOK
    <3> QED
      BY <2>5, <3>1, TargetAssumption, FleetAssumption DEF Rollout!Die, Rollout!Revive, Rollout!Version
  <2>6. ASSUME NEW a \in Fleet, Rollout!TimePasses(a)
        PROVE  RolloutInv'
    BY <2>6, <2>p, RolloutCall DEF Rollout!TimePasses
  <2>7. CASE Rollout!Administer
    BY <2>7, RolloutAssigns DEF Rollout!Administer, Rollout!RetryFailed, Rollout!Assign
  <2>8. CASE Rollout!View
    BY <2>8, RolloutMarks DEF Rollout!View, Rollout!ViewPackages
  <2>9. CASE UNCHANGED Rollout!vars
    BY <2>9 DEF Rollout!vars, Rollout!serverVars, Rollout!ServerTypeOK
  <2> QED
    BY <2>1, <2>2, <2>3, <2>4, <2>5, <2>6, <2>7, <2>8, <2>9 DEF Rollout!Next, Rollout!Agent
<1> QED
  BY <1>1, <1>2, PTL DEF Rollout!Spec

\* The ATMs that have a place below the limit, or will take one.
Claims(p) == Rollout!Holders(p) \cup Rollout!Downloads(p)

\* While no package is offered over the head of an ATM that has it, the limit
\* holds for the claims, too.
ClaimsInv ==
    ~unseen /\ FleetActive > 0 =>
        \A p \in Package : Cardinality(Claims(p)) <= FleetActive

\* The instance counts as the standard module does.
LEMMA RolloutCounts == \A S : Rollout!Cardinality(S) = Cardinality(S)
BY DEF Rollout!Cardinality, Cardinality

\* A step adds no claim, but for the ATM that is offered a package, and then
\* those that have claims are counted and fewer than the limit.
LEMMA ClaimsStep ==
    ASSUME RolloutInv, [Rollout!Next]_Rollout!vars, ~unseen', FleetActive > 0, NEW p \in Package
    PROVE  /\ ~unseen
           /\ \/ Claims(p)' \subseteq Claims(p)
              \/ /\ \E a \in Fleet : Claims(p)' \subseteq Rollout!Downloads(p) \cup {a}
                 /\ Cardinality(Rollout!Downloads(p)) < FleetActive
<1> DEFINE Fewer == Claims(p)' \subseteq Claims(p)
<1> USE DEF Rollout!TypeOK, Rollout!ServerTypeOK, Claims, Rollout!Holders, Rollout!Downloads,
            Rollout!Active, Rollout!Finished, Rollout!fleetVars, Rollout!serverVars
<1>0. RolloutInv /\ Package = Rollout!Package /\ Rollout!TypeOK
  BY DEF RolloutInv, Package, Rollout!Package
<1>1. ASSUME NEW a \in Fleet, Rollout!Check(a)
      PROVE  /\ ~unseen
             /\ \/ Fewer
                \/ /\ Claims(p)' \subseteq Rollout!Downloads(p) \cup {a}
                   /\ Cardinality(Rollout!Downloads(p)) < FleetActive
  <2>1. \A b \in Fleet : \A q \in Package :
            fleetTarget'[b][q] \in Active => fleetTarget'[b][q] = fleetTarget[b][q]
    BY <1>0, <1>1 DEF Rollout!Check, Rollout!CheckMarks, Rollout!Marked, Active
  <2>2. Rollout!Downloads(p)' \subseteq Rollout!Downloads(p)
    BY <1>1, <2>1 DEF Rollout!Check, Rollout!CheckMarks, Active
  <2>3. CASE UNCHANGED <<attempt, package, unseen>>
    BY <2>2, <2>3
  <2>4. ASSUME NEW q \in Package, Rollout!IsOffered(a, q),
               attempt' = [attempt EXCEPT ![a] = "offered"],
               package' = [package EXCEPT ![a] = q],
               unseen' = (unseen \/ ~(Rollout!Holders(q) \subseteq Rollout!Downloads(q)))
        PROVE  /\ ~unseen
               /\ \/ Fewer
                  \/ /\ Claims(p)' \subseteq Rollout!Downloads(p) \cup {a}
                     /\ Cardinality(Rollout!Downloads(p)) < FleetActive
    <3>1. ~unseen /\ Rollout!Holders(q) \subseteq Rollout!Downloads(q)
      BY <2>4
    <3>2. attempt[a] = "idle"
      BY <1>1 DEF Rollout!Check
    <3>3. CASE q = p
      <4>1. Rollout!Holders(p)' \subseteq Rollout!Holders(p) \cup {a}
        BY <1>0, <2>4, <3>3
      <4>2. Cardinality(Rollout!Downloads(p)) < FleetActive
        BY <2>4, <3>3, RolloutCounts, FleetAssumption DEF Rollout!IsOffered
      <4> QED
        BY <2>2, <3>1, <3>3, <4>1, <4>2
    <3>4. CASE q # p
      <4>1. Rollout!Holders(p)' \subseteq Rollout!Holders(p)
        BY <1>0, <2>4, <3>2, <3>4
      <4> QED
        BY <2>2, <3>1, <4>1
    <3> QED
      BY <3>3, <3>4
  <2> QED
    BY <1>0, <1>1, <2>3, <2>4 DEF Rollout!Check
<1>2. ASSUME NEW a \in Fleet, Rollout!Begin(a)
      PROVE  ~unseen /\ Fewer
  BY <1>0, <1>2 DEF Rollout!Begin, Rollout!DownloadRequested, RolloutInv
<1>3. ASSUME NEW a \in Fleet, Rollout!Work(a)
      PROVE  ~unseen /\ Fewer
  BY <1>0, <1>3 DEF Rollout!Work, Rollout!Progress, RolloutInv
<1>4. ASSUME NEW a \in Fleet, Rollout!Finish(a)
      PROVE  ~unseen /\ Fewer
  BY <1>0, <1>4 DEF Rollout!Finish, Rollout!Result, RolloutInv
<1>5. ASSUME NEW a \in Fleet, Rollout!Die(a) \/ Rollout!Revive(a)
      PROVE  ~unseen /\ Fewer
  BY <1>0, <1>5 DEF Rollout!Die, Rollout!Revive
<1>6. ASSUME NEW a \in Fleet, Rollout!TimePasses(a)
      PROVE  ~unseen /\ Fewer
  BY <1>0, <1>6 DEF Rollout!TimePasses, Rollout!FallSilent
<1>7. ASSUME NEW q \in Package, NEW S, Rollout!ToPending(S, q), UNCHANGED Rollout!fleetVars
      PROVE  ~unseen /\ Fewer
  BY <1>0, <1>7 DEF Rollout!ToPending
<1>8. CASE Rollout!View
  <2>1. \A b \in Fleet : \A q \in Package :
            fleetTarget'[b][q] \in Active => fleetTarget'[b][q] = fleetTarget[b][q]
    BY <1>0, <1>8 DEF Rollout!View, Rollout!ViewPackages, Rollout!Marked, Active
  <2> QED
    BY <1>8, <2>1 DEF Rollout!View, Rollout!ViewPackages, Active
<1>9. CASE UNCHANGED Rollout!vars
  BY <1>9 DEF Rollout!vars
<1>10. CASE Rollout!Administer
  BY <1>0, <1>7, <1>10 DEF Rollout!Administer, Rollout!RetryFailed, Rollout!Assign
<1> QED
  BY <1>1, <1>2, <1>3, <1>4, <1>5, <1>6, <1>8, <1>9, <1>10 DEF Rollout!Next, Rollout!Agent

\* The limit on downloads holds, for every fleet and limit, until a package is
\* offered while an ATM has it that is not counted
\* (active_agent_update_download_count).
THEOREM ThrottledUntilUnseen == Rollout!Spec => []FleetThrottled
<1> DEFINE Inv == RolloutInv /\ ClaimsInv
<1>1. Rollout!Init => ClaimsInv
  <2> SUFFICES ASSUME Rollout!Init, FleetActive > 0, NEW p \in Package
               PROVE  Cardinality(Claims(p)) <= FleetActive
    BY DEF ClaimsInv
  <2>1. Claims(p) = {}
    BY DEF Claims, Rollout!Holders, Rollout!Downloads, Rollout!Active, Rollout!Init, Rollout!ServerInit,
           Package, Rollout!Package
  <2>2. Cardinality(Claims(p)) = 0
    BY <2>1, FS_EmptySet
  <2> QED
    BY <2>2, FleetAssumption
<1>2. RolloutInv /\ ClaimsInv /\ [Rollout!Next]_Rollout!vars => ClaimsInv'
  <2> SUFFICES ASSUME RolloutInv, ClaimsInv, [Rollout!Next]_Rollout!vars, ~unseen', FleetActive > 0,
                      NEW p \in Package
               PROVE  Cardinality(Claims(p)') <= FleetActive
    BY DEF ClaimsInv
  <2> DEFINE now == Claims(p)
             next == Claims(p)'
             counted == Rollout!Downloads(p)
  <2>1. IsFiniteSet(Fleet) /\ now \subseteq Fleet /\ counted \subseteq Fleet
    BY FleetAssumption DEF Claims, Rollout!Holders, Rollout!Downloads
  <2>2. IsFiniteSet(now) /\ Cardinality(now) \in Nat /\ IsFiniteSet(counted) /\ Cardinality(counted) \in Nat
    BY <2>1, FS_Subset, FS_CardinalityType
  <2>3. FleetActive \in Nat
    BY FleetAssumption
  <2>4. CASE next \subseteq now
    <3>1. Cardinality(now) <= FleetActive
      BY ClaimsStep DEF ClaimsInv
    <3>2. Cardinality(next) \in Nat /\ Cardinality(next) <= Cardinality(now)
      BY <2>2, <2>4, FS_Subset, FS_CardinalityType
    <3> QED
      BY <2>2, <2>3, <3>1, <3>2
  <2>5. ASSUME NEW a \in Fleet, next \subseteq counted \cup {a}, Cardinality(counted) < FleetActive
        PROVE  Cardinality(next) <= FleetActive
    <3>1. IsFiniteSet(counted \cup {a}) /\ Cardinality(counted \cup {a}) <= Cardinality(counted) + 1
          /\ Cardinality(counted \cup {a}) \in Nat
      <4>1. IsFiniteSet(counted \cup {a})
            /\ \/ Cardinality(counted \cup {a}) = Cardinality(counted)
               \/ Cardinality(counted \cup {a}) = Cardinality(counted) + 1
        BY <2>2, FS_AddElement, Zenon
      <4> HIDE DEF counted
      <4> QED
        BY <2>2, <4>1
    <3>2. Cardinality(next) \in Nat /\ Cardinality(next) <= Cardinality(counted \cup {a})
      BY <3>1, <2>5, FS_Subset, FS_CardinalityType
    <3> QED
      BY <2>2, <2>3, <2>5, <3>1, <3>2
  <2> QED
    BY <2>4, <2>5, ClaimsStep
<1>3. ClaimsInv => FleetThrottled
  <2> SUFFICES ASSUME ClaimsInv, ~unseen, FleetActive > 0, NEW p \in Package
               PROVE  Cardinality(Rollout!Downloads(p)) <= FleetActive
    BY RolloutCounts DEF FleetThrottled, Rollout!ThrottledInTurn, Rollout!DownloadsThrottled, Package, Rollout!Package
  <2> DEFINE now == Claims(p)
             counted == Rollout!Downloads(p)
  <2>1. IsFiniteSet(now) /\ counted \in SUBSET now
    BY FleetAssumption, FS_Subset DEF Claims, Rollout!Holders, Rollout!Downloads
  <2>2. Cardinality(now) <= FleetActive
    BY DEF ClaimsInv
  <2>3. Cardinality(now) \in Nat /\ Cardinality(counted) \in Nat /\ Cardinality(counted) <= Cardinality(now)
    BY <2>1, FS_Subset, FS_CardinalityType
  <2> QED
    BY <2>2, <2>3, FleetAssumption
<1> QED
  BY <1>1, <1>2, <1>3, RolloutTypeCorrect, PTL DEF Rollout!Spec

\* Every variable of the self-update and of the rollout keeps its type.
THEOREM TypesCorrect == Spec /\ Rollout!Spec => []TypesOK
<1>1. TypeOK /\ RolloutInv => TypesOK
  BY DEF TypesOK, RolloutInv
<1> QED
  BY <1>1, TypeCorrect, RolloutTypeCorrect, PTL

=============================================================================
