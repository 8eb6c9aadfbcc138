--------------------------- MODULE MediaTargets ---------------------------
(***************************************************************************)
(* The server's record of the media (image) packages assigned to one ATM:  *)
(* the update_targets rows of that ATM and the image version the ATM row   *)
(* carries.  Every request handler commits once, so each is one action.    *)
(* Routers: backend/app/routers/agent.py (the agent's calls) and           *)
(* backend/app/routers/packages.py (the administrator's calls).            *)
(*                                                                         *)
(* Packages are numbered in the order they were uploaded (created_at).     *)
(* Package versions are unique (models.py, UpdatePackage.version), so a    *)
(* package number also stands for its version string.                      *)
(***************************************************************************)
EXTENDS Integers

CONSTANTS
    NumPackages,   \* how many media packages exist
    MaxResets      \* bound: times the administrator puts targets back to pending

ASSUME TargetAssumption == NumPackages \in Nat /\ MaxResets \in Nat

VARIABLES
    target,        \* UpdateTarget.status per package, "none" when not assigned
    imageVersion,  \* ATM.current_package_version, 0 for NULL
    resets         \* history: targets put back to pending so far, for the bound

serverVars == <<target, imageVersion, resets>>

Package  == 1 .. NumPackages
Version  == 0 .. NumPackages          \* 0: no version, the images first installed
Finished == {"applied", "failed"}
Status   == {"none", "pending", "downloading"} \cup Finished

ServerTypeOK ==
    /\ target \in [Package -> Status]
    /\ imageVersion \in Version
    /\ resets \in 0 .. MaxResets

ServerInit ==
    /\ target = [p \in Package |-> "none"]
    /\ imageVersion = 0
    /\ resets = 0

---------------------------------------------------------------------------
(* The administrator's calls.                                              *)

\* reset_target_for_retry: the row goes back to pending, whatever the agent
\* is doing with that package.
ResetForRetry(S) ==
    /\ resets < MaxResets
    /\ resets' = resets + 1
    /\ target' = [p \in Package |-> IF p \in S THEN "pending" ELSE target[p]]
    /\ UNCHANGED imageVersion

Assign(p) ==
    \/ /\ target[p] = "none"
       /\ target' = [target EXCEPT ![p] = "pending"]
       /\ UNCHANGED <<imageVersion, resets>>
    \/ /\ target[p] \in {"failed", "downloading"}
       /\ ResetForRetry({p})

RetryFailed(p) == target[p] = "failed" /\ ResetForRetry({p})

---------------------------------------------------------------------------
(* The agent's calls.                                                      *)

Pending == {p \in Package : target[p] = "pending"}

\* check_update offers the oldest pending package and leaves it pending.
IsOffered(p) == p \in Pending /\ \A q \in Pending : p <= q

\* download_package does not look at the status it overwrites.
DownloadRequested(p) ==
    /\ target' = [target EXCEPT ![p] = "downloading"]
    /\ UNCHANGED <<imageVersion, resets>>

\* report_progress: the working phases never leave a finished status, the
\* final phases overwrite any.
ProgressAppliesFailed(p, phase) ==
    /\ target' = [target EXCEPT ![p] =
                    IF phase = "working" THEN "downloading" ELSE "applied"]
    /\ UNCHANGED <<imageVersion, resets>>
Progress(p, phase) ==
    /\ target' = [target EXCEPT ![p] =
                    IF phase # "working" THEN phase
                    ELSE IF @ \in Finished THEN @ ELSE "downloading"]
    /\ UNCHANGED <<imageVersion, resets>>

\* report_result is unconditional; a success also moves the ATM's version.
ResultUnmapped(p, outcome) ==
    /\ target' = [target EXCEPT ![p] = IF outcome = "applied" THEN "success" ELSE outcome]
    /\ imageVersion' = IF outcome = "applied" THEN p ELSE imageVersion
    /\ UNCHANGED resets
ResultMovesVersion(p, outcome) ==
    /\ target' = [target EXCEPT ![p] = outcome]
    /\ imageVersion' = p
    /\ UNCHANGED resets
Result(p, outcome) ==
    /\ target' = [target EXCEPT ![p] = outcome]
    /\ imageVersion' = IF outcome = "applied" THEN p ELSE imageVersion
    /\ UNCHANGED resets

\* heartbeat: a version the agent does not know leaves the old one standing.
Heartbeat(v) ==
    /\ imageVersion' = IF v # 0 THEN v ELSE imageVersion
    /\ UNCHANGED <<target, resets>>

---------------------------------------------------------------------------
(* The agent's calls as requests on the wire.                              *)

Request == [call : {"download", "heartbeat"}, version : Package, phase : {"working"}]
      \cup [call : {"progress"}, version : Package, phase : {"working"} \cup Finished]
      \cup [call : {"result"},   version : Package, phase : Finished]

Handle(m) ==
    \/ m.call = "download"  /\ DownloadRequested(m.version)
    \/ m.call = "heartbeat" /\ Heartbeat(m.version)
    \/ m.call = "progress"  /\ Progress(m.version, m.phase)
    \/ m.call = "result"    /\ Result(m.version, m.phase)

===========================================================================
