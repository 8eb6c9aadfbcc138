------------------------------ MODULE SwitchProbe ------------------------------
(***************************************************************************)
(* Is the switch reachable from the ATM?  The agent tries a TCP connection *)
(* when a user asks for it (request_switch_probe in                        *)
(* backend/app/routers/atms.py, handle_switch_probe in agent/atm_agent.py) *)
(* and from time to time of itself (handle_periodic_switch_probe); the     *)
(* server keeps the last outcome and alerts when it turns to failed        *)
(* (report_periodic_switch_probe in backend/app/routers/agent.py).         *)
(*                                                                         *)
(* A user's request reads the database before it writes it, so that others *)
(* come in between.  The row that a periodic probe adds is final when it   *)
(* is made and is left out.  The alert is on and has a recipient; what     *)
(* becomes of it is the subject of NotificationDelivery.                   *)
(***************************************************************************)
EXTENDS Naturals, Sequences, FiniteSets, SequencesExt, FiniteSetsExt

CONSTANTS
    Users,             \* dashboards that ask
    Targets,           \* addresses of the switch
    MaxProbes,         \* bound: probes asked for
    MaxEdits,          \* bound: edits of the ATM's settings
    MaxOutages,        \* bound: changes of what is reachable
    MaxFaults          \* bound: requests of the agent that go wrong, restarts

ASSUME ProbeAssumption ==
    /\ MaxProbes \in Nat \ {0} /\ MaxEdits \in Nat /\ MaxOutages \in Nat /\ MaxFaults \in Nat

VARIABLES
    probes,            \* atm_switch_probes: in the order of their creation
    target,            \* the ATM's switch_probe_host and port
    last,              \* last_switch_probe_status
    asking,            \* user -> the request in progress
    agent,             \* the agent: where it is in its loop
    configured,        \* the agent: the target of its configuration
    reach,             \* the targets that answer
    late,              \* results the agent no longer waits for
    measured,          \* history: probe -> the outcomes the agent had for it
    alerted,           \* history: an alert was sent since a success was recorded
    edits, outages, faults     \* counted up to their bounds

serverVars == <<probes, target, last, asking, alerted, edits>>
agentVars  == <<agent, configured, late, measured, faults>>
vars == <<serverVars, agentVars, reach, outages>>

Ids == 1 .. MaxProbes
Active == {"pending", "running"}
Outcomes == {"success", "failed"}
At(place, id, outcome) == [place |-> place, id |-> id, outcome |-> outcome]
Home == At("ask", 0, "none")

Probe == [target : Targets, status : Active \cup Outcomes \cup {"cancelled"}]

TypeOK ==
    /\ probes \in Seq(Probe) /\ Len(probes) <= MaxProbes
    /\ target \in Targets /\ configured \in Targets /\ reach \subseteq Targets
    /\ last \in Outcomes \cup {"none"}
    /\ asking \in [Users -> {<< >>} \cup
                    [wanted : Targets, loaded : Targets, existing : {0} \cup DOMAIN probes]]
    /\ agent \in [place : {"ask", "holding", "measured", "periodic", "sampled"},
                  id : {0} \cup DOMAIN probes, outcome : Outcomes \cup {"none"}]
    /\ late \subseteq ({0} \cup DOMAIN probes) \X Outcomes
    /\ measured \in [Ids -> {m \in Seq(Outcomes) : Len(m) <= 2}]
    /\ alerted \in BOOLEAN
    /\ edits \in 0 .. MaxEdits /\ outages \in 0 .. MaxOutages /\ faults \in 0 .. MaxFaults

Init ==
    /\ probes = << >> /\ target \in Targets /\ last = "none"
    /\ asking = [u \in Users |-> << >>]
    /\ agent = Home /\ configured = target /\ reach = Targets
    /\ late = {} /\ measured = [i \in Ids |-> << >>] /\ alerted = FALSE
    /\ edits = 0 /\ outages = 0 /\ faults = 0

---------------------------------------------------------------------------
(* The dashboard.                                                          *)

\* The newest probe that has not ended; 0 if there is none.
Existing ==
    LET active == {i \in DOMAIN probes : probes[i].status \in Active}
    IN  IF active = {} THEN 0 ELSE Max(active)

\* request_switch_probe reads the ATM and its probes, for a target of the
\* user's or the ATM's own ...
Look(u) ==
    /\ asking[u] = << >> /\ Len(probes) < MaxProbes
    /\ \E t \in Targets :
        asking' = [asking EXCEPT ![u] = [wanted |-> t, loaded |-> target, existing |-> Existing]]
    /\ UNCHANGED <<probes, target, last, alerted, edits, agentVars, reach, outages>>

\* ... and returns a probe under way to that target, with nothing committed,
\* or supersedes it.
Answer(u) ==
    /\ asking[u] # << >>
    /\ LET q == asking[u] IN
        \/ /\ q.existing # 0 /\ probes[q.existing].target = q.wanted
           /\ UNCHANGED <<probes, target>>
        \/ /\ q.existing # 0 => probes[q.existing].target # q.wanted
           /\ Len(probes) < MaxProbes
           /\ probes' = Append(
                [i \in DOMAIN probes |->
                    IF i = q.existing THEN [probes[i] EXCEPT !.status = "cancelled"] ELSE probes[i]],
                [target |-> q.wanted, status |-> "pending"])
           /\ target' = IF q.wanted # q.loaded THEN q.wanted ELSE target
    /\ asking' = [asking EXCEPT ![u] = << >>]
    /\ UNCHANGED <<last, alerted, edits, agentVars, reach, outages>>

\* update_atm.
Edit ==
    /\ edits < MaxEdits
    /\ edits' = edits + 1
    /\ \E t \in Targets \ {target} : target' = t
    /\ UNCHANGED <<probes, last, asking, alerted, agentVars, reach, outages>>

---------------------------------------------------------------------------
(* The server's side of the agent's reports.                               *)

\* Keeps the outcome; an alert is due when it was not failed before.
Keep(outcome) ==
    /\ last' = outcome
    /\ UNCHANGED <<target, asking, edits>>

\* report_switch_probe_result, whatever the probe's status was.
ResultOfNewest(id, outcome) ==
    /\ probes' = [probes EXCEPT ![Len(probes)].status = outcome]
    /\ Keep(outcome)
    /\ alerted' = (alerted /\ outcome = "failed")
Result(id, outcome) ==
    /\ probes' = [probes EXCEPT ![id].status = outcome]
    /\ Keep(outcome)
    /\ alerted' = (alerted /\ outcome = "failed")

\* report_periodic_switch_probe.
Snapshot(outcome) ==
    /\ Keep(outcome)
    /\ alerted' = (outcome = "failed" /\ (alerted \/ last # "failed"))
    /\ UNCHANGED probes

Received(id, outcome) == IF id = 0 THEN Snapshot(outcome) ELSE Result(id, outcome)

---------------------------------------------------------------------------
(* The agent.  In every turn of run_forever it asks for a probe, then makes *)
(* its own if that is due.  A failing request ends the turn.               *)

Pending == {i \in DOMAIN probes : probes[i].status = "pending"}

\* get_switch_probe_request hands out the oldest pending probe.
HandOut ==
    /\ Pending # {}
    /\ probes' = [probes EXCEPT ![Min(Pending)].status = "running"]
    /\ UNCHANGED <<target, last, asking, alerted, edits, configured, late, measured, reach, outages>>

Ask ==
    /\ agent = Home
    /\ \/ HandOut /\ agent' = At("holding", Min(Pending), "none") /\ UNCHANGED faults
       \/ /\ Pending = {}
          /\ agent' = At("periodic", 0, "none")
          /\ UNCHANGED <<serverVars, configured, late, measured, faults, reach, outages>>

\* A request the agent gave up on is handled, at once or when the agent is
\* further on: it never hears which probe it was handed.
AskUnheard ==
    /\ HandOut
    /\ faults < MaxFaults /\ faults' = faults + 1
    /\ UNCHANGED agent

\* tcp_connect_probe.
OutcomeNamed(t) == IF t \in reach THEN "success" ELSE "timed out"
Outcome(t) == IF t \in reach THEN "success" ELSE "failed"

Measure ==
    /\ agent.place = "holding"
    /\ LET outcome == Outcome(probes[agent.id].target) IN
        /\ agent' = At("measured", agent.id, outcome)
        /\ measured' = [measured EXCEPT ![agent.id] = IF Len(@) < 2 THEN Append(@, outcome) ELSE @]
    /\ UNCHANGED <<serverVars, configured, late, faults, reach, outages>>

\* The interval has passed, or it has not.
Periodic ==
    /\ agent.place = "periodic"
    /\ agent' \in {Home, At("sampled", 0, Outcome(configured))}
    /\ UNCHANGED <<serverVars, configured, late, measured, faults, reach, outages>>

\* report_switch_probe, report_switch_probe_snapshot: handled and answered, or
\* an error although handled, still to be handled, or never.
Report ==
    /\ agent.place \in {"measured", "sampled"}
    /\ \/ /\ Received(agent.id, agent.outcome)
          /\ agent' = IF agent.place = "measured" THEN At("periodic", 0, "none") ELSE Home
          /\ UNCHANGED <<late, faults>>
       \/ /\ faults < MaxFaults /\ faults' = faults + 1
          /\ agent' = Home
          /\ \/ Received(agent.id, agent.outcome) /\ UNCHANGED late
             \/ late' = late \cup {<<agent.id, agent.outcome>>} /\ UNCHANGED serverVars
             \/ UNCHANGED <<late, serverVars>>
    /\ UNCHANGED <<configured, measured, reach, outages>>

LateReport ==
    /\ \E m \in late : Received(m[1], m[2]) /\ late' = late \ {m}
    /\ UNCHANGED <<agent, configured, measured, faults, reach, outages>>

\* sync_config, between two turns.
SyncConfig ==
    /\ agent = Home /\ configured # target
    /\ configured' = target
    /\ UNCHANGED <<serverVars, agent, late, measured, faults, reach, outages>>

Restart ==
    /\ faults < MaxFaults /\ faults' = faults + 1
    /\ agent # Home
    /\ agent' = Home
    /\ UNCHANGED <<serverVars, configured, late, measured, reach, outages>>

Outage ==
    /\ outages < MaxOutages
    /\ outages' = outages + 1
    /\ \E t \in Targets : reach' = (reach \ {t}) \cup ({t} \ reach)
    /\ UNCHANGED <<serverVars, agentVars>>

Turn == Ask \/ Measure \/ Periodic \/ Report

Next ==
    \/ \E u \in Users : Look(u) \/ Answer(u)
    \/ Edit \/ Turn \/ AskUnheard \/ LateReport \/ SyncConfig \/ Restart \/ Outage

Spec == Init /\ [][Next]_vars

\* The agent's loop goes on; a request that has begun ends.
FairSpec == Spec /\ WF_vars(Turn) /\ \A u \in Users : WF_vars(Answer(u))

---------------------------------------------------------------------------
(* Properties.                                                             *)

\* The outcome a probe shows is the one the agent had for it, at its own
\* target, whatever was superseded, late or repeated.
OutcomeIsItsOwn ==
    \A i \in DOMAIN probes : probes[i].status \in Outcomes => <<probes[i].status>> = measured[i]

\* Without faults every probe asked for ends, also those that others supersede.
ProbesSettle ==
    \A i \in Ids : i \in DOMAIN probes ~> (i \in DOMAIN probes /\ probes[i].status \notin Active)

\* "From the ATMs screen a check of the switch can be asked for.  The agent
\* makes a TCP connection" (README): a probe asked for is made or superseded.
ProbeIsMade ==
    \A i \in Ids : i \in DOMAIN probes ~> (measured[i] # << >> \/ (i \in DOMAIN probes /\ probes[i].status = "cancelled"))

\* "Alert when the ATM is cut off from the switch" (the settings page): while
\* failed is on record, an alert was sent, once the agent made its own probe.
FailureAlerted ==
    [][\A o \in Outcomes : (agent.place = "sampled" /\ agent'.place # "sampled" /\ agent.outcome = "failed"
                            /\ last' = "failed" /\ faults' = faults) => alerted']_vars

\* A request with a target leaves it as the ATM's (the test of superseded
\* probes asserts it).
TargetIsKept ==
    [][\A u \in Users :
        (asking[u] # << >> /\ asking'[u] = << >> /\ asking[u].wanted # asking[u].loaded)
            => target' = asking[u].wanted]_vars

================================================================================
