--------------------------- MODULE MCAgentUpdate ---------------------------
(***************************************************************************)
(* The instances of AgentSelfUpdate, and that of AgentRollout, that TLC    *)
(* checks; a run takes one of them at its start.  The bounds of "faults",  *)
(* one package retried twice with every kind of fault, are in the .cfg     *)
(* files.                                                                  *)
(***************************************************************************)
EXTENDS AgentUpdates

CONSTANT
    Instances      \* those of the run

VARIABLE
    instance

\* The attempts at two packages overlap; a power loss.
Overlap == INSTANCE AgentSelfUpdate WITH
    MaxResets <- 1, MaxLost <- 0, MaxRestarts <- 0, MaxMishaps <- 0
\* A fault of each kind, but for those that leave the agent down.
Settles == INSTANCE AgentSelfUpdate WITH
    MishapSteps <- MishapSteps \ {"validate", "stop", "restart"}
\* The updater fails before it stops the agent.
Unvalidated == INSTANCE AgentSelfUpdate WITH
    MaxLost <- 0, MaxReboots <- 0, MaxRestarts <- 0, MishapSteps <- {"validate"}
\* The report of a result gets no reply.
Unreported == INSTANCE AgentSelfUpdate WITH
    MaxResets <- 0, MaxLost <- 1, MaxReboots <- 0, MaxRestarts <- 0, MaxMishaps <- 0
MCInit == instance \in Instances /\ Init /\ Rollout!Init

OnePackage == \A p \in Package \ {1} :
    target'[Me][p] = "none" /\ \A a \in Fleet : fleetTarget'[a][p] = "none"

MCNext ==
    /\ UNCHANGED instance
    /\ \/ /\ UNCHANGED fleetVars
          /\ \/ instance = "faults" /\ Next /\ OnePackage
             \/ instance = "overlap" /\ Overlap!Next
             \/ instance = "settles" /\ Settles!Next /\ OnePackage
             \/ instance = "unvalidated" /\ Unvalidated!Next /\ OnePackage
             \/ instance = "unreported" /\ Unreported!Next
       \/ instance = "rollout" /\ Rollout!Next /\ UNCHANGED vars /\ OnePackage

\* The fairness of FairSpec, in the instances with liveness, of one package.
MCSpec ==
    /\ MCInit /\ [][MCNext]_<<vars, fleetVars, instance>>
    /\ WF_vars(\/ instance = "settles" /\ Settles!Loop
               \/ instance = "unvalidated" /\ Unvalidated!Loop)
    /\ WF_vars(\/ instance = "settles" /\ Settles!Updater(1)
               \/ instance = "unvalidated" /\ Unvalidated!Updater(1))
    /\ WF_vars(instance = "settles" /\ Settles!TimePasses(1))
    /\ \A a \in Fleet :
        /\ WF_fleetVars(instance = "rollout" /\ Rollout!Agent(a))
        /\ WF_fleetVars(instance = "rollout" /\ Rollout!TimePasses(a))

\* AgentComesBack (AgentSelfUpdate) with a fault of each kind, unless the
\* updater fails before it has stopped the agent or cannot start it again.
ComesBack == instance = "settles" => AgentComesBack

\* AssignmentSettles (AgentSelfUpdate) under the same faults, of the package.
Settled == instance = "settles" => Finishes(1)

\* EveryATMServed (AgentRollout): ATMs that die while they hold the only
\* place for a download block nobody for ever.  The ATMs are interchangeable:
\* what holds of one holds of each.
ATMServed == instance = "rollout" => Rollout!Served(CHOOSE a \in Fleet : TRUE, 1)

\* DownloadsThrottled (AgentRollout): the test that "agent update downloads
\* are throttled" expects at most the limit of ATMs at work on a package.
DownloadsThrottled == instance = "rollout" => Rollout!DownloadsThrottled
===========================================================================
