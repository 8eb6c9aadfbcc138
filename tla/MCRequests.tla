----------------------------- MODULE MCRequests -----------------------------
(***************************************************************************)
(* What a user asks of an agent: the instances of SwitchProbe and of       *)
(* CashCommands that TLC checks.  A run takes one of them at its start.    *)
(* The largest bounds are in the .cfg files.                               *)
(***************************************************************************)
EXTENDS Requests

CONSTANT
    Instances      \* those of the run

VARIABLE
    instance

\* Two dashboards, and two requests of the agent that go wrong.
Probes == INSTANCE SwitchProbe WITH MaxEdits <- 0
\* Nothing goes wrong, but outages and edits do happen.
Answered == INSTANCE SwitchProbe WITH MaxFaults <- 0
\* The reply that hands out a probe is lost.
Lost == INSTANCE SwitchProbe WITH MaxEdits <- 0, MaxOutages <- 0, MaxFaults <- 1

MCInit == instance \in Instances /\ Init /\ Commands!Init

First == CHOOSE u \in Users : TRUE
OneAsks == \A u \in Users \ {First} : wanting'[u] = << >>

MCNext ==
    /\ UNCHANGED instance
    /\ \/ /\ UNCHANGED commandVars
          /\ \/ instance = "probes" /\ Probes!Next
             \/ instance = "answered" /\ Answered!Next
             \/ instance = "lost" /\ Lost!Next
       \/ /\ UNCHANGED vars
          /\ \/ instance = "commands" /\ Commands!Next
             \/ instance = "one asks" /\ Commands!Next /\ OneAsks

Probing(Answering, Losing) ==
    \/ instance = "answered" /\ Answering
    \/ instance = "lost" /\ Losing

\* The fairness of the two FairSpecs, in the instances with liveness.
MCSpec ==
    /\ MCInit /\ [][MCNext]_<<vars, commandVars, instance>>
    /\ WF_vars(Probing(Answered!Turn, Lost!Turn))
    /\ \A u \in Users : WF_vars(Probing(Answered!Answer(u), Lost!Answer(u)))
    /\ WF_commandVars(instance = "one asks" /\ Commands!Look(First))
    /\ WF_commandVars(instance = "one asks" /\ Commands!Answer(First))
    /\ WF_commandVars(instance = "one asks" /\ Commands!Tick)
    /\ WF_commandVars(instance = "one asks" /\ Commands!LateAck)

\* ProbesSettle (SwitchProbe) when no request goes wrong.
ProbesEnd == instance = "answered" => ProbesSettle

\* CommandsSettle (CashCommands) when one dashboard goes on asking.
CommandsEnd == instance = "one asks" => Commands!CommandsSettle

\* ProbeIsMade (SwitchProbe), once the reply that hands it out was lost.
ProbeIsMadeThough == instance = "lost" => ProbeIsMade
=============================================================================
