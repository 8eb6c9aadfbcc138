--------------------------- MODULE AgentTargets ---------------------------
(***************************************************************************)
(* The server's record of the agent packages (new agent executables)       *)
(* assigned to the ATMs: the agent_update_targets rows, and the agent      *)
(* version each ATM row shows.  Every request handler commits once, so     *)
(* each is one action.  Routers: backend/app/routers/agent.py (the agent's *)
(* calls) and backend/app/routers/agent_packages.py (the dashboard's).     *)
(*                                                                         *)
(* Packages are numbered in the order they were uploaded; their versions   *)
(* are unique, so a number also stands for a version string.  The progress *)
(* columns are display data and left out, but for the time of the last     *)
(* activity, of which only "within the last half hour or not" is kept: the *)
(* window of the download limit and the age at which a target counts as    *)
(* stale are both thirty minutes by default.                               *)
(***************************************************************************)
EXTENDS Integers, FiniteSets

CONSTANTS
    ATMs,          \* the ATMs
    NumPackages,   \* how many agent packages exist
    MaxActive,     \* settings.agent_update_max_active_downloads, 0 for no limit
    MaxResets      \* bound: times the administrator puts targets back to pending

ASSUME TargetAssumption ==
    NumPackages \in Nat /\ MaxActive \in Nat /\ MaxResets \in Nat /\ IsFiniteSet(ATMs)

VARIABLES
    target,        \* AgentUpdateTarget.status per ATM and package, "none" if not assigned
    silent,        \* no progress or download of that target for half an hour
    agentVersion,  \* ATM.agent_version, 0 for a version of no package
    resets         \* history: times targets were put back to pending, for the bound

serverVars == <<target, silent, agentVersion, resets>>

Package  == 1 .. NumPackages
Version  == 0 .. NumPackages
Active   == {"downloading", "applying"}
Finished == {"applied", "failed"}
Status   == {"none", "pending"} \cup Active \cup Finished

ServerTypeOK ==
    /\ target \in [ATMs -> [Package -> Status]]
    /\ silent \in [ATMs -> [Package -> BOOLEAN]]
    /\ agentVersion \in [ATMs -> Version]
    /\ resets \in 0 .. MaxResets

ServerInit ==
    /\ target = [a \in ATMs |-> [p \in Package |-> "none"]]
    /\ silent = [a \in ATMs |-> [p \in Package |-> FALSE]]
    /\ agentVersion = [a \in ATMs |-> 0]
    /\ resets = 0

\* Half an hour passes without a call about an active target.
FallSilent(a, p) ==
    /\ target[a][p] \in Active
    /\ ~silent[a][p]
    /\ silent' = [silent EXCEPT ![a][p] = TRUE]
    /\ UNCHANGED <<target, agentVersion, resets>>

Stale == {t \in ATMs \X Package : target[t[1]][t[2]] \in Active /\ silent[t[1]][t[2]]}

\* mark_stale_agent_update_targets, for the targets in S.
Marked(S) ==
    [a \in ATMs |-> [p \in Package |->
        IF <<a, p>> \in S \cap Stale THEN "failed" ELSE target[a][p]]]

---------------------------------------------------------------------------
(* The dashboard's calls.                                                  *)

\* The targets of the ATMs in S are created, or go through
\* reset_agent_target_for_retry.
ToPending(S, p) ==
    /\ LET again == {a \in S : target[a][p] # "none"}
       IN  /\ again # {} => resets < MaxResets
           /\ resets' = IF again = {} THEN resets ELSE resets + 1
    /\ target' = [a \in ATMs |-> [target[a] EXCEPT ![p] = IF a \in S THEN "pending" ELSE @]]
    /\ UNCHANGED <<silent, agentVersion>>

Assign(S, p) == ToPending({a \in S : target[a][p] \in {"none", "failed"} \cup Active}, p)

RetryFailed(p) == ToPending({a \in ATMs : target[a][p] = "failed"}, p)

\* Looking at the list of packages, or at one package, marks what is stale.
ViewPackages ==
    /\ \E P \in {Package} \cup {{p} : p \in Package} : target' = Marked(ATMs \X P)
    /\ UNCHANGED <<silent, agentVersion, resets>>

---------------------------------------------------------------------------
(* The agent's calls.                                                      *)

\* active_agent_update_download_count, among the targets as the check left them.
DownloadsEver(p) == {a \in ATMs : target[a][p] \in Active}
Downloads(p) == {a \in ATMs : target[a][p] \in Active /\ ~silent[a][p]}

Pending(a) == {p \in Package : target[a][p] = "pending"}

\* The package check_agent_update would offer: the oldest pending one, while
\* the number of its downloads is below the limit.  An offer reserves nothing.
IsOfferedAtLimit(a, p) ==
    /\ p \in Pending(a)
    /\ \A q \in Pending(a) : p <= q
    /\ MaxActive = 0 \/ Cardinality(Downloads(p)) <= MaxActive
IsOffered(a, p) ==
    /\ p \in Pending(a)
    /\ \A q \in Pending(a) : p <= q
    /\ MaxActive = 0 \/ Cardinality(Downloads(p)) < MaxActive

NothingOffered(a) == \A p \in Package : ~IsOffered(a, p)

\* What every check does first: the ATM's own stale targets fail.
CheckNoMark(a) == UNCHANGED serverVars
CheckMarks(a) ==
    /\ target' = Marked({a} \X Package)
    /\ UNCHANGED <<silent, agentVersion, resets>>

\* download_agent_update_file does not look at the status it overwrites.
DownloadRequested(a, p) ==
    /\ target' = [target EXCEPT ![a][p] = "downloading"]
    /\ silent' = [silent EXCEPT ![a][p] = FALSE]
    /\ UNCHANGED <<agentVersion, resets>>

\* report_agent_update_progress: the working phases never leave a finished
\* status, the final phases overwrite any.
Progress(a, p, phase) ==
    /\ target' = [target EXCEPT ![a][p] =
                    IF phase \in Finished \/ @ \notin Finished THEN phase ELSE @]
    /\ silent' = [silent EXCEPT ![a][p] = FALSE]
    /\ UNCHANGED <<agentVersion, resets>>

\* report_agent_update_result is unconditional; a success shows the version.
ResultUnmapped(a, p, outcome) ==
    /\ target' = [target EXCEPT ![a][p] = IF outcome = "applied" THEN "success" ELSE outcome]
    /\ silent' = [silent EXCEPT ![a][p] = FALSE]
    /\ agentVersion' = IF outcome = "applied" THEN [agentVersion EXCEPT ![a] = p] ELSE agentVersion
    /\ UNCHANGED resets
Result(a, p, outcome) ==
    /\ target' = [target EXCEPT ![a][p] = outcome]
    /\ silent' = [silent EXCEPT ![a][p] = FALSE]
    /\ agentVersion' = IF outcome = "applied" THEN [agentVersion EXCEPT ![a] = p] ELSE agentVersion
    /\ UNCHANGED resets

\* heartbeat carries the version compiled into the running agent.
Heartbeat(a, v) ==
    /\ agentVersion' = [agentVersion EXCEPT ![a] = v]
    /\ UNCHANGED <<target, silent, resets>>

===========================================================================
