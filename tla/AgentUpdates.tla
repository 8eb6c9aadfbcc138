----------------------------- MODULE AgentUpdates -----------------------------
(***************************************************************************)
(* A new agent, as one ATM installs it (AgentSelfUpdate) and, beside that, *)
(* as a fleet takes it up under the limit on downloads (AgentRollout).     *)
(***************************************************************************)
EXTENDS AgentSelfUpdate

CONSTANTS
    Fleet,                                     \* the ATMs of the rollout
    FleetActive, FleetResets, MaxDeaths        \* MaxActive and bounds of AgentRollout

ASSUME FleetAssumption ==
    IsFiniteSet(Fleet) /\ {FleetActive, FleetResets, MaxDeaths} \subseteq Nat

VARIABLES
    fleetTarget, fleetSilent, fleetVersion, fleetResets,   \* the server's of the rollout
    attempt, package, deaths, unseen

fleetVars ==
    <<fleetTarget, fleetSilent, fleetVersion, fleetResets, attempt, package, deaths,
      unseen>>

Rollout == INSTANCE AgentRollout WITH
    ATMs <- Fleet, MaxActive <- FleetActive, MaxResets <- FleetResets,
    target <- fleetTarget, silent <- fleetSilent,
    agentVersion <- fleetVersion, resets <- fleetResets

\* Every variable of either system keeps its type.
TypesOK == TypeOK /\ Rollout!TypeOK

\* ThrottledInTurn (AgentRollout): no more ATMs download than the limit allows
\* until one of them has a package and is not counted when it is offered again.
FleetThrottled == Rollout!ThrottledInTurn

===============================================================================
