----------------------------- MODULE RequestsProofs -----------------------------
(***************************************************************************)
(* Theorems about SwitchProbe and CashCommands, as Requests joins them,    *)
(* for every number of dashboards, targets, probes, commands, edits,       *)
(* outages and faults, every timeout and any limit of what is handed out   *)
(* at once: the types, that a probe shows the outcome that the agent had   *)
(* for it, and that no command makes the agent read twice.                 *)
(***************************************************************************)
EXTENDS Requests, RowLemmas, TLAPS

---------------------------------------------------------------------------
(* The inductive invariant.                                                *)

\* The agent holds one of the probes, and reports only what it has measured.
PlaceInv ==
    /\ agent.place \in {"holding", "measured"} => agent.id \in DOMAIN probes
    /\ agent.place = "sampled" => agent.id = 0
    /\ agent.place \in {"measured", "sampled"} => agent.outcome \in Outcomes

TypeInv == TypeOK /\ PlaceInv

\* A probe is handed out once, so that it is measured once: the result the
\* agent holds, the results under way and the result on record are that one.
OutcomeInv ==
    /\ OutcomeIsItsOwn
    /\ \A i \in Ids : measured[i] # << >> => i \in DOMAIN probes /\ probes[i].status # "pending"
    /\ agent.place = "holding" =>
        measured[agent.id] = << >> /\ probes[agent.id].status # "pending"
    /\ agent.place = "measured" => measured[agent.id] = <<agent.outcome>>
    /\ \A m \in late : m[1] # 0 => measured[m[1]] = <<m[2]>>

IInv == TypeInv /\ OutcomeInv

---------------------------------------------------------------------------
(* The types.                                                              *)

\* What a step may do to the table of probes: rows are added, never removed,
\* and no row becomes pending again.
TableKept ==
    /\ probes' \in Seq(Probe) /\ Len(probes') <= MaxProbes
    /\ DOMAIN probes \subseteq DOMAIN probes'
    /\ \A i \in DOMAIN probes : probes[i].status # "pending" => probes'[i].status # "pending"

\* Without a change of the table it is kept.
LEMMA SameTable ==
    ASSUME TypeOK, UNCHANGED probes
    PROVE  TableKept
BY DEF TypeOK, TableKept

\* Writing the status of one row.
LEMMA StatusWritten ==
    ASSUME TypeOK, NEW i \in DOMAIN probes,
           NEW s \in {"running"} \cup Outcomes \cup {"cancelled"},
           probes' = [probes EXCEPT ![i].status = s]
    PROVE  /\ TableKept
           /\ DOMAIN probes' = DOMAIN probes
           /\ \A j \in DOMAIN probes : probes'[j].status = IF j = i THEN s ELSE probes[j].status
<1> DEFINE r == [probes[i] EXCEPT !.status = s]
<1>1. probes \in Seq(Probe) /\ probes[i] \in Probe
  BY SeqParts DEF TypeOK
<1>2. r \in Probe /\ r.status = s
  BY <1>1 DEF Probe, Active, Outcomes
<1>3. probes' = [probes EXCEPT ![i] = r]
  OBVIOUS
<1> HIDE DEF r
<1>4. s # "pending"
  BY DEF Outcomes
<1>5. /\ probes' \in Seq(Probe) /\ Len(probes') = Len(probes) /\ DOMAIN probes' = DOMAIN probes
      /\ \A j \in DOMAIN probes : probes'[j] = IF j = i THEN r ELSE probes[j]
  BY <1>1, <1>2, <1>3, SeqExcept
<1>6. Len(probes') <= MaxProbes
  BY <1>5 DEF TypeOK
<1> QED
  BY <1>2, <1>4, <1>5, <1>6 DEF TableKept

\* The probe a dashboard finds under way is one of the probes, or there is none.
LEMMA ExistingIsThere ==
    ASSUME TypeOK
    PROVE  Existing \in {0} \cup DOMAIN probes
<1> DEFINE active == {i \in DOMAIN probes : probes[i].status \in Active}
<1>1. /\ active \in SUBSET Int /\ Len(probes) \in Int
      /\ \A y \in active : y <= Len(probes)
  BY SeqParts DEF TypeOK
<1>2. CASE active = {}
  BY <1>2 DEF Existing
<1>3. CASE active # {}
  <2>1. Max(active) \in active
    BY <1>1, <1>3, MaxIsGreatest
  <2> QED
    BY <2>1, <1>3 DEF Existing
<1> QED
  BY <1>2, <1>3

\* The oldest pending probe is one of the pending ones.
LEMMA OldestIsPending ==
    ASSUME TypeOK, NEW pending, pending = {i \in DOMAIN probes : probes[i].status = "pending"},
           pending # {}
    PROVE  Min(pending) \in DOMAIN probes /\ probes[Min(pending)].status = "pending"
<1>1. pending \in SUBSET Nat
  BY SeqParts DEF TypeOK
<1> QED
  BY <1>1, MinIsLeast

\* A dashboard's answer cancels at most one probe and adds one.
LEMMA AnswerKeeps ==
    ASSUME TypeOK, NEW u \in Users, Answer(u)
    PROVE  /\ TableKept
           /\ \A i \in DOMAIN probes :
                probes'[i].status = probes[i].status \/ probes'[i].status = "cancelled"
           /\ \A i \in DOMAIN probes' \ DOMAIN probes : probes'[i].status = "pending"
<1> DEFINE q == asking[u]
           e == [i \in DOMAIN probes |->
                    IF i = q.existing THEN [probes[i] EXCEPT !.status = "cancelled"] ELSE probes[i]]
           r == [target |-> q.wanted, status |-> "pending"]
<1>1. probes \in Seq(Probe) /\ \A j \in DOMAIN probes : probes[j] \in Probe
  BY SeqParts DEF TypeOK
<1>2. q \in [wanted : Targets, loaded : Targets, existing : {0} \cup DOMAIN probes]
  BY DEF TypeOK, Answer
<1>3. r \in Probe /\ r.status = "pending"
  BY <1>2 DEF Probe, Active
<1>4. \A p \in Probe : /\ [p EXCEPT !.status = "cancelled"] \in Probe
                       /\ [p EXCEPT !.status = "cancelled"].status = "cancelled"
  BY DEF Probe
<1>5. /\ DOMAIN e = DOMAIN probes /\ e = [j \in DOMAIN e |-> e[j]]
      /\ \A j \in DOMAIN probes :
            e[j] \in Probe /\ (e[j].status = probes[j].status \/ e[j].status = "cancelled")
  BY <1>1, <1>4
<1>6. \/ UNCHANGED probes
      \/ Len(probes) < MaxProbes /\ probes' = Append(e, r)
  BY DEF Answer
<1> HIDE DEF e, r
<1>7. CASE UNCHANGED probes
  BY <1>7, SameTable
<1>8. CASE Len(probes) < MaxProbes /\ probes' = Append(e, r)
  <2>1. e \in Seq(Probe) /\ Len(e) = Len(probes)
    BY <1>1, <1>5, SeqMapped
  <2>2. /\ probes' \in Seq(Probe) /\ Len(probes') = Len(probes) + 1
        /\ DOMAIN probes' = DOMAIN probes \cup {Len(probes) + 1}
        /\ \A j \in DOMAIN probes : probes'[j] = e[j]
        /\ probes'[Len(probes) + 1] = r
    BY <1>3, <1>5, <1>8, <2>1, SeqAppend
  <2>3. Len(probes') <= MaxProbes
    BY <1>1, <1>8, <2>2, SeqParts, ProbeAssumption
  <2> QED
    BY <1>3, <1>5, <2>2, <2>3 DEF TableKept
<1> QED
  BY <1>6, <1>7, <1>8

\* A report that the server handles writes at most the row it is about.
LEMMA ReceivedKeeps ==
    ASSUME TypeOK, NEW i \in {0} \cup DOMAIN probes, NEW o \in Outcomes, Received(i, o)
    PROVE  /\ TableKept
           /\ \A j \in DOMAIN probes : probes'[j].status = IF j = i THEN o ELSE probes[j].status
           /\ DOMAIN probes' = DOMAIN probes
           /\ last' \in Outcomes /\ alerted' \in BOOLEAN
           /\ UNCHANGED <<target, asking, edits>>
<1>1. last' \in Outcomes /\ alerted' \in BOOLEAN /\ UNCHANGED <<target, asking, edits>>
  BY DEF Received, Result, Snapshot, Keep, TypeOK
<1>2. 0 \notin DOMAIN probes
  BY SeqParts DEF TypeOK
<1>3. CASE i = 0
  BY <1>1, <1>2, <1>3, SameTable DEF Received, Snapshot
<1>4. CASE i # 0
  BY <1>1, <1>4, StatusWritten DEF Received, Result
<1> QED
  BY <1>3, <1>4

\* Asking for a probe keeps the table, too; the one the agent then holds was
\* pending and is so no longer.
LEMMA AskKeeps ==
    ASSUME TypeOK, Ask \/ AskUnheard
    PROVE  /\ TableKept /\ DOMAIN probes' = DOMAIN probes
           /\ \A j \in DOMAIN probes :
                probes'[j].status = probes[j].status \/ probes'[j].status = "running"
           /\ \/ agent' = At("periodic", 0, "none") \/ agent' = agent
              \/ \E i \in DOMAIN probes :
                    /\ agent' = At("holding", i, "none")
                    /\ probes[i].status = "pending" /\ probes'[i].status = "running"
           /\ faults' \in 0 .. MaxFaults
           /\ UNCHANGED <<target, last, asking, alerted, edits, configured, late,
                          measured, reach, outages>>
<1>1. /\ faults' \in 0 .. MaxFaults
      /\ UNCHANGED <<target, last, asking, alerted, edits, configured, late,
                     measured, reach, outages>>
  BY ProbeAssumption DEF Ask, AskUnheard, HandOut, TypeOK, serverVars
<1>2. CASE Pending = {}
  BY <1>1, <1>2, SameTable DEF Ask, AskUnheard, HandOut, serverVars
<1>3. CASE Pending # {}
  <2> DEFINE i == Min(Pending)
  <2>1. i \in DOMAIN probes /\ probes[i].status = "pending"
    BY <1>3, OldestIsPending DEF Pending
  <2>2. probes' = [probes EXCEPT ![i].status = "running"]
    BY <1>3 DEF Ask, AskUnheard, HandOut
  <2>3. agent' = At("holding", i, "none") \/ agent' = agent
    BY <1>3 DEF Ask, AskUnheard
  <2> HIDE DEF i
  <2>4. /\ TableKept /\ DOMAIN probes' = DOMAIN probes
        /\ \A j \in DOMAIN probes :
                probes'[j].status = IF j = i THEN "running" ELSE probes[j].status
    BY <2>1, <2>2, StatusWritten
  <2> QED
    BY <1>1, <2>1, <2>3, <2>4
<1> QED
  BY <1>2, <1>3

LEMMA InitType == ASSUME Init PROVE TypeInv
<1>1. probes = << >> /\ probes \in Seq(Probe) /\ DOMAIN probes = {} /\ Len(probes) = 0
  BY DEF Init
<1>2. asking \in [Users -> {<< >>} \cup
                    [wanted : Targets, loaded : Targets, existing : {0} \cup DOMAIN probes]]
  BY DEF Init
<1>3. measured \in [Ids -> {m \in Seq(Outcomes) : Len(m) <= 2}]
  BY DEF Init
<1>4. agent \in [place : {"ask", "holding", "measured", "periodic", "sampled"},
                 id : {0} \cup DOMAIN probes, outcome : Outcomes \cup {"none"}]
  BY DEF Init, Home, At
<1>5. PlaceInv
  BY DEF Init, PlaceInv, Home, At
<1>6. /\ edits \in 0 .. MaxEdits /\ outages \in 0 .. MaxOutages /\ faults \in 0 .. MaxFaults
      /\ Len(probes) <= MaxProbes
  BY <1>1, ProbeAssumption DEF Init
<1>7. /\ target \in Targets /\ configured \in Targets /\ reach \subseteq Targets
      /\ last \in Outcomes \cup {"none"} /\ alerted \in BOOLEAN
      /\ late \subseteq ({0} \cup DOMAIN probes) \X Outcomes
  BY DEF Init
<1> QED
  BY <1>1, <1>2, <1>3, <1>4, <1>5, <1>6, <1>7 DEF TypeInv, TypeOK

\* Whatever becomes of the agent's report.
LEMMA ReportKeeps ==
    ASSUME TypeInv, Report
    PROVE  /\ TableKept /\ DOMAIN probes' = DOMAIN probes
           /\ \A j \in DOMAIN probes :
                probes'[j].status = probes[j].status \/ (j = agent.id /\ probes'[j].status = agent.outcome)
           /\ agent' = At("periodic", 0, "none") \/ agent' = Home
           /\ late' \subseteq late \cup {<<agent.id, agent.outcome>>}
           /\ agent.id \in {0} \cup DOMAIN probes /\ agent.outcome \in Outcomes
           /\ agent.place \in {"measured", "sampled"}
           /\ last' \in Outcomes \cup {"none"} /\ alerted' \in BOOLEAN
           /\ faults' \in 0 .. MaxFaults
           /\ UNCHANGED <<target, asking, edits, configured, measured, reach, outages>>
<1>1. /\ agent.id \in {0} \cup DOMAIN probes /\ agent.outcome \in Outcomes
      /\ agent.place \in {"measured", "sampled"}
  BY DEF TypeInv, TypeOK, PlaceInv, Report
<1>2. TypeOK
  BY DEF TypeInv
<1>3. /\ agent' = At("periodic", 0, "none") \/ agent' = Home
      /\ late' \subseteq late \cup {<<agent.id, agent.outcome>>}
      /\ faults' \in 0 .. MaxFaults
      /\ UNCHANGED <<configured, measured, reach, outages>>
  BY <1>2, ProbeAssumption DEF Report, TypeOK
<1>4. CASE Received(agent.id, agent.outcome)
  BY <1>1, <1>2, <1>3, <1>4, ReceivedKeeps
<1>5. CASE UNCHANGED serverVars
  BY <1>1, <1>2, <1>3, <1>5, SameTable DEF serverVars, TypeOK
<1> QED
  BY <1>4, <1>5 DEF Report

LEMMA TypeStep ==
    ASSUME TypeInv, [Next]_vars
    PROVE  TypeInv'
<1> USE DEF TypeInv, TypeOK, PlaceInv
<1>0. \A p \in {"ask", "holding", "measured", "periodic", "sampled"},
         i \in {0} \cup DOMAIN probes, o \in Outcomes \cup {"none"} :
            /\ At(p, i, o) \in [place : {"ask", "holding", "measured", "periodic", "sampled"},
                                id : {0} \cup DOMAIN probes, outcome : Outcomes \cup {"none"}]
            /\ At(p, i, o).place = p /\ At(p, i, o).id = i /\ At(p, i, o).outcome = o
  BY DEF At
<1>1. ASSUME NEW u \in Users, Look(u) PROVE TypeInv'
  <2>1. \A t \in Targets :
            [wanted |-> t, loaded |-> target, existing |-> Existing]
                \in [wanted : Targets, loaded : Targets, existing : {0} \cup DOMAIN probes]
    BY ExistingIsThere
  <2>2. asking' \in [Users -> {<< >>} \cup
                        [wanted : Targets, loaded : Targets, existing : {0} \cup DOMAIN probes]]
    BY <1>1, <2>1 DEF Look
  <2> QED
    BY <1>1, <2>2 DEF Look, agentVars
<1>2. ASSUME NEW u \in Users, Answer(u) PROVE TypeInv'
  <2>1. TableKept
    BY <1>2, AnswerKeeps
  <2>2. target' \in Targets
    BY <1>2 DEF Answer
  <2>3. asking' \in [Users -> {<< >>} \cup
                        [wanted : Targets, loaded : Targets, existing : {0} \cup DOMAIN probes']]
    BY <1>2, <2>1 DEF Answer, TableKept
  <2> QED
    BY <1>2, <2>1, <2>2, <2>3 DEF Answer, agentVars, TableKept
<1>3. CASE Edit
  BY <1>3, ProbeAssumption DEF Edit, agentVars
<1>4. CASE Ask \/ AskUnheard
  <2>1. /\ TableKept /\ DOMAIN probes' = DOMAIN probes /\ faults' \in 0 .. MaxFaults
        /\ agent' = At("periodic", 0, "none") \/ agent' = agent
              \/ \E i \in DOMAIN probes : agent' = At("holding", i, "none")
    BY <1>4, AskKeeps
  <2>2. UNCHANGED <<target, last, asking, alerted, edits, configured, late, measured, reach, outages>>
    BY <1>4, AskKeeps
  <2>3. CASE agent' = agent
    BY <1>0, <2>1, <2>2, <2>3 DEF TableKept
  <2>4. CASE agent' = At("periodic", 0, "none")
    BY <1>0, <2>1, <2>2, <2>4 DEF TableKept
  <2>5. CASE \E i \in DOMAIN probes : agent' = At("holding", i, "none")
    BY <1>0, <2>1, <2>2, <2>5 DEF TableKept
  <2> QED
    BY <2>1, <2>3, <2>4, <2>5
<1>5. CASE Measure
  <2>1. agent.id \in DOMAIN probes /\ agent.id \in Ids
    BY <1>5, SeqParts, ProbeAssumption DEF Measure, Ids
  <2> DEFINE outcome == Outcome(probes[agent.id].target)
  <2>2. outcome \in Outcomes
    BY DEF Outcome, Outcomes
  <2> HIDE DEF outcome
  <2>3. agent' = At("measured", agent.id, outcome)
    BY <1>5 DEF Measure, outcome
  <2>4. measured' = [measured EXCEPT ![agent.id] = IF Len(@) < 2 THEN Append(@, outcome) ELSE @]
    BY <1>5 DEF Measure, outcome
  <2>5. ASSUME NEW m \in Seq(Outcomes), Len(m) <= 2
        PROVE  (IF Len(m) < 2 THEN Append(m, outcome) ELSE m) \in {n \in Seq(Outcomes) : Len(n) <= 2}
    BY <2>2, <2>5, SeqAppend, SeqParts
  <2>6. measured' \in [Ids -> {m \in Seq(Outcomes) : Len(m) <= 2}]
    BY <2>1, <2>4, <2>5
  <2> QED
    BY <1>0, <1>5, <2>1, <2>2, <2>3, <2>6 DEF Measure, serverVars
<1>6. CASE Periodic
  <2>1. Outcome(configured) \in Outcomes
    BY DEF Outcome, Outcomes
  <2> QED
    BY <1>0, <1>6, <2>1 DEF Periodic, serverVars, Home
<1>7. CASE Report
  BY <1>0, <1>7, ReportKeeps DEF TableKept, Home
<1>8. CASE LateReport
  <2>1. PICK m \in late : Received(m[1], m[2]) /\ late' = late \ {m}
    BY <1>8 DEF LateReport
  <2>2. m[1] \in {0} \cup DOMAIN probes /\ m[2] \in Outcomes
    OBVIOUS
  <2>3. /\ TableKept /\ DOMAIN probes' = DOMAIN probes
        /\ last' \in Outcomes /\ alerted' \in BOOLEAN
        /\ UNCHANGED <<target, asking, edits>>
    BY <2>1, <2>2, ReceivedKeeps
  <2> QED
    BY <1>8, <2>1, <2>3 DEF LateReport, TableKept
<1>9. CASE SyncConfig
  BY <1>9 DEF SyncConfig, serverVars
<1>10. CASE Restart
  BY <1>0, <1>10, ProbeAssumption DEF Restart, serverVars, Home
<1>11. CASE Outage
  <2>1. reach' \subseteq Targets
    BY <1>11 DEF Outage
  <2> QED
    BY <1>11, <2>1, ProbeAssumption DEF Outage, serverVars, agentVars
<1>12. CASE UNCHANGED vars
  BY <1>12 DEF vars, serverVars, agentVars
<1> QED
  BY <1>1, <1>2, <1>3, <1>4, <1>5, <1>6, <1>7, <1>8, <1>9, <1>10, <1>11, <1>12 DEF Next, Turn

---------------------------------------------------------------------------
(* OutcomeIsItsOwn.                                                        *)

LEMMA InitOutcome == ASSUME Init PROVE OutcomeInv
<1>1. DOMAIN probes = {} /\ late = {} /\ \A i \in Ids : measured[i] = << >>
  BY DEF Init
<1>2. agent.place = "ask"
  BY DEF Init, Home, At
<1> QED
  BY <1>1, <1>2 DEF OutcomeInv, OutcomeIsItsOwn

\* A step that neither measures nor takes a row to an outcome keeps what is
\* known of the rows.
LEMMA RowsKept ==
    ASSUME TypeInv, OutcomeInv, TableKept, UNCHANGED measured,
           \A i \in DOMAIN probes' : probes'[i].status \in Outcomes =>
                i \in Ids /\ measured[i] = <<probes'[i].status>>
    PROVE  /\ OutcomeIsItsOwn'
           /\ \A i \in Ids : measured'[i] # << >> => i \in DOMAIN probes' /\ probes'[i].status # "pending"
BY DEF OutcomeInv, OutcomeIsItsOwn, TableKept

LEMMA OutcomeStep ==
    ASSUME TypeInv, OutcomeInv, [Next]_vars
    PROVE  OutcomeInv'
<1>0. /\ TypeOK /\ PlaceInv /\ DOMAIN probes \subseteq Ids /\ 0 \notin DOMAIN probes
      /\ \A i \in DOMAIN probes : probes[i].status \in Outcomes => measured[i] = <<probes[i].status>>
      /\ UNCHANGED probes => TableKept
  BY SeqParts, SameTable, ProbeAssumption DEF TypeInv, TypeOK, Ids, OutcomeInv, OutcomeIsItsOwn
<1>1. ASSUME UNCHANGED <<probes, agent, late, measured>> PROVE OutcomeInv'
  BY <1>1 DEF OutcomeInv, OutcomeIsItsOwn
<1>2. ASSUME NEW u \in Users, Look(u) PROVE OutcomeInv'
  BY <1>1, <1>2 DEF Look, agentVars
<1>3. ASSUME NEW u \in Users, Answer(u) PROVE OutcomeInv'
  <2>1. UNCHANGED <<agent, late, measured>>
    BY <1>3 DEF Answer, agentVars
  <2>2. /\ TableKept
        /\ \A i \in DOMAIN probes' : probes'[i].status \in Outcomes =>
                i \in DOMAIN probes /\ probes'[i].status = probes[i].status
    BY <1>0, <1>3, AnswerKeeps DEF Outcomes
  <2>3. /\ OutcomeIsItsOwn'
        /\ \A i \in Ids : measured'[i] # << >> => i \in DOMAIN probes' /\ probes'[i].status # "pending"
    BY <1>0, <2>1, <2>2, RowsKept
  <2> QED
    BY <1>0, <2>1, <2>2, <2>3 DEF OutcomeInv, PlaceInv, TableKept
<1>4. CASE Ask \/ AskUnheard
  <2>1. UNCHANGED <<late, measured>>
    BY <1>0, <1>4, AskKeeps
  <2>2. /\ TableKept /\ DOMAIN probes' = DOMAIN probes
        /\ \A j \in DOMAIN probes : probes'[j].status \in Outcomes => probes'[j].status = probes[j].status
    BY <1>0, <1>4, AskKeeps DEF Outcomes
  <2>3. /\ OutcomeIsItsOwn'
        /\ \A i \in Ids : measured'[i] # << >> => i \in DOMAIN probes' /\ probes'[i].status # "pending"
    BY <1>0, <2>1, <2>2, RowsKept
  <2>4. \A m \in late' : m[1] # 0 => measured'[m[1]] = <<m[2]>>
    BY <2>1 DEF OutcomeInv
  <2>5. CASE agent' = agent
    <3>1. agent.place = "holding" => probes'[agent.id].status # "pending"
      BY <1>0, <2>2 DEF OutcomeInv, PlaceInv, TableKept
    <3> QED
      BY <2>1, <2>3, <2>4, <2>5, <3>1 DEF OutcomeInv
  <2>6. CASE agent' = At("periodic", 0, "none")
    BY <2>1, <2>3, <2>4, <2>6 DEF OutcomeInv, At
  <2>7. CASE \E i \in DOMAIN probes :
                /\ agent' = At("holding", i, "none")
                /\ probes[i].status = "pending" /\ probes'[i].status = "running"
    <3>1. PICK i \in DOMAIN probes :
                /\ agent' = At("holding", i, "none")
                /\ probes[i].status = "pending" /\ probes'[i].status = "running"
      BY <2>7
    <3>2. i \in Ids
      BY <1>0, SeqParts DEF Ids, TypeOK
    <3>3. measured[i] = << >>
      BY <3>1, <3>2 DEF OutcomeInv
    <3> QED
      BY <2>1, <2>3, <2>4, <3>1, <3>3 DEF OutcomeInv, At
  <2> QED
    BY <1>0, <1>4, <2>5, <2>6, <2>7, AskKeeps
<1>5. CASE Measure
  <2>1. /\ agent.id \in DOMAIN probes /\ agent.id \in Ids /\ agent.id # 0
        /\ measured[agent.id] = << >> /\ probes[agent.id].status # "pending"
        /\ UNCHANGED <<probes, late>>
    BY <1>0, <1>5 DEF Measure, PlaceInv, OutcomeInv, serverVars
  <2>2. PICK o : /\ agent' = At("measured", agent.id, o)
                 /\ measured' = [measured EXCEPT ![agent.id] = IF Len(@) < 2 THEN Append(@, o) ELSE @]
    BY <1>5 DEF Measure
  <2>3. \A i \in Ids : measured'[i] = IF i = agent.id THEN <<o>> ELSE measured[i]
    BY <1>0, <2>1, <2>2 DEF TypeOK
  <2>4. agent'.place = "measured" /\ agent'.id = agent.id /\ agent'.outcome = o
    BY <2>2 DEF At
  <2>5. \A i \in DOMAIN probes : probes[i].status \in Outcomes => i # agent.id
    BY <1>0, <2>1
  <2>6. \A m \in late : m[1] # 0 => m[1] # agent.id /\ m[1] \in Ids
    <3> SUFFICES ASSUME NEW m \in late, m[1] # 0
                 PROVE  m[1] # agent.id /\ m[1] \in Ids
      OBVIOUS
    <3>1. measured[m[1]] = <<m[2]>> /\ <<m[2]>> # << >>
      BY DEF OutcomeInv
    <3>2. m[1] \in DOMAIN probes
      BY <1>0 DEF TypeOK
    <3> QED
      BY <1>0, <2>1, <3>1, <3>2
  <2> QED
    BY <1>0, <2>1, <2>3, <2>4, <2>5, <2>6 DEF OutcomeInv, OutcomeIsItsOwn
<1>6. CASE Periodic
  <2>1. UNCHANGED <<probes, late, measured>> /\ agent'.place \in {"ask", "sampled"}
    BY <1>6 DEF Periodic, serverVars, Home, At
  <2> QED
    BY <2>1 DEF OutcomeInv, OutcomeIsItsOwn
<1>7. CASE Report
  <2>1. /\ TableKept /\ DOMAIN probes' = DOMAIN probes
        /\ \A j \in DOMAIN probes :
                probes'[j].status = probes[j].status \/ (j = agent.id /\ probes'[j].status = agent.outcome)
        /\ agent'.place \in {"periodic", "ask"}
        /\ late' \subseteq late \cup {<<agent.id, agent.outcome>>}
        /\ agent.place \in {"measured", "sampled"}
        /\ UNCHANGED measured
    BY <1>7, ReportKeeps DEF At, Home
  <2>2. agent.id # 0 => measured[agent.id] = <<agent.outcome>>
    BY <1>0, <2>1 DEF PlaceInv, OutcomeInv
  <2>3. \A i \in DOMAIN probes' : probes'[i].status \in Outcomes =>
            i \in Ids /\ measured[i] = <<probes'[i].status>>
    BY <1>0, <2>1, <2>2
  <2>4. /\ OutcomeIsItsOwn'
        /\ \A i \in Ids : measured'[i] # << >> => i \in DOMAIN probes' /\ probes'[i].status # "pending"
    BY <2>1, <2>3, RowsKept
  <2>5. \A m \in late' : m[1] # 0 => measured'[m[1]] = <<m[2]>>
    BY <2>1, <2>2 DEF OutcomeInv
  <2> QED
    BY <2>1, <2>4, <2>5 DEF OutcomeInv
<1>8. CASE LateReport
  <2>1. PICK m \in late : Received(m[1], m[2]) /\ late' = late \ {m}
    BY <1>8 DEF LateReport
  <2>2. m[1] \in {0} \cup DOMAIN probes /\ m[2] \in Outcomes
    BY <1>0 DEF TypeOK
  <2>3. /\ TableKept /\ DOMAIN probes' = DOMAIN probes
        /\ \A j \in DOMAIN probes : probes'[j].status = IF j = m[1] THEN m[2] ELSE probes[j].status
    BY <1>0, <2>1, <2>2, ReceivedKeeps
  <2>4. m[1] # 0 => measured[m[1]] = <<m[2]>>
    BY DEF OutcomeInv
  <2>5. UNCHANGED <<agent, measured>>
    BY <1>8 DEF LateReport
  <2>6. \A i \in DOMAIN probes' : probes'[i].status \in Outcomes =>
            i \in Ids /\ measured[i] = <<probes'[i].status>>
    BY <1>0, <2>3, <2>4
  <2>7. /\ OutcomeIsItsOwn'
        /\ \A i \in Ids : measured'[i] # << >> => i \in DOMAIN probes' /\ probes'[i].status # "pending"
    BY <2>3, <2>5, <2>6, RowsKept
  <2> QED
    BY <1>0, <2>1, <2>3, <2>5, <2>7 DEF OutcomeInv, PlaceInv, TableKept
<1>9. CASE Edit \/ SyncConfig \/ Outage \/ UNCHANGED vars
  BY <1>1, <1>9 DEF Edit, SyncConfig, Outage, vars, serverVars, agentVars
<1>10. CASE Restart
  <2>1. agent'.place = "ask" /\ UNCHANGED <<probes, late, measured>>
    BY <1>10 DEF Restart, Home, At, serverVars
  <2> QED
    BY <2>1 DEF OutcomeInv, OutcomeIsItsOwn
<1> QED
  BY <1>2, <1>3, <1>4, <1>5, <1>6, <1>7, <1>8, <1>9, <1>10 DEF Next, Turn

---------------------------------------------------------------------------
(* Theorems.                                                               *)

\* The inductive invariant holds in every reachable state.
THEOREM Invariance == Spec => []IInv
<1>1. Init => IInv
  BY InitType, InitOutcome DEF IInv
<1>2. IInv /\ [Next]_vars => IInv'
  BY TypeStep, OutcomeStep DEF IInv
<1> QED
  BY <1>1, <1>2, PTL DEF Spec

\* Every variable keeps its type.
THEOREM TypeCorrect == Spec => []TypeOK
<1>1. IInv => TypeOK
  BY DEF IInv, TypeInv
<1> QED
  BY <1>1, Invariance, PTL

\* A probe shows the outcome the agent had for it and no other one, whatever
\* is superseded, late, repeated or restarted: get_switch_probe_request hands
\* a probe out once, and a result names its probe.
THEOREM OutcomesAreTheirOwn == Spec => []OutcomeIsItsOwn
<1>1. IInv => OutcomeIsItsOwn
  BY DEF IInv, OutcomeInv
<1> QED
  BY <1>1, Invariance, PTL

---------------------------------------------------------------------------
(* The commands beside the probes.                                         *)

\* The least number is the one that RowLemmas speaks of.
LEMMA CommandsMin == \A S : Commands!Min(S) = Min(S)
BY DEF Commands!Min, Min

\* A command that was read is no longer pending, so that it is not handed out
\* again; of the commands the agent holds, only the first may have been read,
\* and only when it is past reading.
ReadInv ==
    /\ Commands!ReadOnce
    /\ \A i \in Commands!Ids : reads[i] # 0 => i \in DOMAIN commands /\ commands[i].status # "pending"
    /\ \A i \in queue : i # Commands!Current => reads[i] = 0
    /\ queue # {} /\ step \in {"ack", "read"} => reads[Commands!Current] = 0
    /\ queue # {} /\ step = "read" => commands[Commands!Current].status # "pending"
    /\ queue = {} => step = "ack"

CommandInv == Commands!TypeOK /\ ReadInv

\* The first of the commands the agent holds is one of them.
LEMMA CurrentIsHeld ==
    ASSUME Commands!TypeOK, queue # {}
    PROVE  Commands!Current \in queue /\ Commands!Current \in DOMAIN commands
<1>1. queue \in SUBSET Nat
  BY DEF Commands!TypeOK
<1> QED
  BY <1>1, MinIsLeast, CommandsMin DEF Commands!Current, Commands!TypeOK

\* The command that a dashboard finds is one of the commands, or there is none.
LEMMA FoundIsThere ==
    ASSUME Commands!TypeOK
    PROVE  Commands!Found \in {0} \cup DOMAIN commands
<1> DEFINE fresh == {i \in DOMAIN commands : commands[i].status \in Commands!Active /\ ~Commands!Stale(commands[i])}
<1>1. fresh \in SUBSET Nat
  BY DEF Commands!TypeOK
<1>2. CASE fresh = {}
  BY <1>2 DEF Commands!Found
<1>3. CASE fresh # {}
  <2>1. Commands!Min(fresh) \in fresh
    BY <1>1, <1>3, MinIsLeast, CommandsMin
  <2> QED
    BY <2>1, <1>3 DEF Commands!Found
<1> QED
  BY <1>2, <1>3


\* The types hold at the start.
LEMMA CommandInitType == ASSUME Commands!BoundsOK PROVE Commands!Init => Commands!TypeOK
<1> SUFFICES ASSUME Commands!Init PROVE Commands!TypeOK
  OBVIOUS
<1> QED
  BY DEF Commands!BoundsOK, Commands!Init, Commands!TypeOK, Commands!Ids

\* What the server keeps when one command changes its status and age.
LEMMA AcknowledgedType ==
    ASSUME Commands!TypeOK, Commands!BoundsOK, NEW i \in DOMAIN commands,
           NEW s \in {"acknowledged", "completed", "failed"},
           commands' = Commands!Acknowledged(i, s)
    PROVE  /\ commands' \in Seq(Commands!Command)
           /\ Len(commands') = Len(commands)
           /\ DOMAIN commands' = DOMAIN commands
           /\ \A j \in DOMAIN commands :
                commands'[j].status = IF j = i THEN s ELSE commands[j].status
<1>1. commands \in Seq(Commands!Command)
  BY DEF Commands!TypeOK
<1>2. commands[i] \in Commands!Command
  BY <1>1, SeqParts
<1> DEFINE r == [status |-> s, age |-> IF s = "acknowledged" THEN 0 ELSE commands[i].age]
<1>3. r \in Commands!Command
  BY <1>2 DEF Commands!Command, Commands!Active, Commands!Settled, Commands!BoundsOK
<1>4. commands' = [commands EXCEPT ![i] = r]
  BY DEF Commands!Acknowledged
<1>5. r.status = s
  OBVIOUS
<1> HIDE DEF r
<1> QED
  BY <1>1, <1>3, <1>4, <1>5, SeqExcept

\* Failing the stale commands changes no other one.
LEMMA ExpireType ==
    ASSUME Commands!TypeOK, NEW ids \in SUBSET DOMAIN commands
    PROVE  /\ Commands!Expire(commands, ids) \in Seq(Commands!Command)
           /\ Len(Commands!Expire(commands, ids)) = Len(commands)
           /\ DOMAIN Commands!Expire(commands, ids) = DOMAIN commands
           /\ \A j \in DOMAIN commands :
                Commands!Expire(commands, ids)[j].status = IF j \in ids THEN "failed" ELSE commands[j].status
<1> DEFINE e == Commands!Expire(commands, ids)
<1>1. commands \in Seq(Commands!Command) /\ \A j \in DOMAIN commands : commands[j] \in Commands!Command
  BY SeqParts DEF Commands!TypeOK
<1>2. \A c \in Commands!Command : /\ [c EXCEPT !.status = "failed"] \in Commands!Command
                         /\ [c EXCEPT !.status = "failed"].status = "failed"
  BY DEF Commands!Command, Commands!Settled
<1>3. /\ DOMAIN e = DOMAIN commands /\ e = [j \in DOMAIN e |-> e[j]]
      /\ \A j \in DOMAIN commands :
            /\ e[j] \in Commands!Command
            /\ e[j].status = IF j \in ids THEN "failed" ELSE commands[j].status
  BY <1>1, <1>2 DEF Commands!Expire
<1> HIDE DEF e
<1>4. e \in Seq(Commands!Command) /\ Len(e) = Len(commands)
  BY <1>1, <1>3, SeqMapped
<1> QED
  BY <1>3, <1>4 DEF e

---------------------------------------------------------------------------
(* The types.                                                              *)

\* What a step may do to the table of commands: rows are added, never removed,
\* and no row becomes pending again.
CommandsKept ==
    /\ commands' \in Seq(Commands!Command)
    /\ Len(commands') <= MaxCommands
    /\ DOMAIN commands \subseteq DOMAIN commands'
    /\ \A i \in DOMAIN commands :
        commands[i].status # "pending" => commands'[i].status # "pending"

\* A dashboard's answer only fails commands and adds one.
LEMMA CommandAnswerKeeps ==
    ASSUME Commands!TypeOK, Commands!BoundsOK, NEW u \in Users, Commands!Answer(u)
    PROVE  CommandsKept
<1> DEFINE e == Commands!Expire(commands, wanting[u][1])
           r == [status |-> "pending", age |-> 0]
<1>1. wanting[u][1] \in SUBSET DOMAIN commands
  BY DEF Commands!TypeOK, Commands!Answer
<1>2. /\ e \in Seq(Commands!Command) /\ Len(e) = Len(commands) /\ DOMAIN e = DOMAIN commands
      /\ \A j \in DOMAIN commands : commands[j].status # "pending" => e[j].status # "pending"
  BY <1>1, ExpireType
<1>3. r \in Commands!Command
  BY DEF Commands!Command, Commands!Active, Commands!BoundsOK
<1>4. Len(commands) \in Nat /\ Len(commands) <= MaxCommands
  BY SeqParts DEF Commands!TypeOK
<1>5. CASE commands' = e
  BY <1>2, <1>4, <1>5 DEF CommandsKept
<1>6. CASE commands' = Append(e, r) /\ Len(commands) # MaxCommands
  <2> HIDE DEF e, r
  <2>1. /\ Append(e, r) \in Seq(Commands!Command) /\ Len(Append(e, r)) = Len(e) + 1
        /\ DOMAIN Append(e, r) = DOMAIN e \cup {Len(e) + 1}
        /\ \A j \in DOMAIN e : Append(e, r)[j] = e[j]
    BY <1>2, <1>3, SeqAppend
  <2>2. Len(commands') <= MaxCommands
    <3>1. Len(commands') = Len(commands) + 1
      BY <1>2, <1>6, <2>1
    <3>2. Len(commands) < MaxCommands
      BY <1>4, <1>6 DEF Commands!BoundsOK
    <3> QED
      BY <1>4, <3>1, <3>2 DEF Commands!BoundsOK
  <2>3. \A i \in DOMAIN commands :
            commands[i].status # "pending" => commands'[i].status # "pending"
    BY <1>2, <1>6, <2>1
  <2> QED
    BY <1>2, <1>6, <2>1, <2>2, <2>3 DEF CommandsKept
<1>7. commands' = IF wanting[u][2] # 0 \/ Len(commands) = MaxCommands THEN e ELSE Append(e, r)
  BY DEF Commands!Answer
<1> QED
  BY <1>5, <1>6, <1>7

\* Time only makes commands older.
LEMMA TickKeeps ==
    ASSUME Commands!TypeOK, Commands!BoundsOK, Commands!Tick
    PROVE  CommandsKept
<1>1. commands \in Seq(Commands!Command) /\ \A j \in DOMAIN commands : commands[j] \in Commands!Command
  BY SeqParts DEF Commands!TypeOK
<1>2. ASSUME NEW c \in Commands!Command
      PROVE  /\ [c EXCEPT !.age = Commands!Min({@ + 1, MaxAge})] \in Commands!Command
             /\ [c EXCEPT !.age = Commands!Min({@ + 1, MaxAge})].status = c.status
  <2>1. c.age \in 0 .. MaxAge /\ MaxAge \in Nat
    BY DEF Commands!Command, Commands!BoundsOK
  <2>2. Commands!Min({c.age + 1, MaxAge}) \in 0 .. MaxAge
    BY <2>1, MinOfTwo, CommandsMin
  <2> QED
    BY <2>2 DEF Commands!Command
<1>3. /\ DOMAIN commands' = DOMAIN commands /\ commands' = [j \in DOMAIN commands' |-> commands'[j]]
      /\ \A j \in DOMAIN commands :
            commands'[j] \in Commands!Command /\ commands'[j].status = commands[j].status
  BY <1>1, <1>2 DEF Commands!Tick
<1>4. commands' \in Seq(Commands!Command) /\ Len(commands') = Len(commands)
  BY <1>1, <1>3, SeqMapped
<1> QED
  BY <1>3, <1>4 DEF CommandsKept, Commands!TypeOK

\* An acknowledgement, on time or late, keeps the table.
LEMMA AcknowledgedKeeps ==
    ASSUME Commands!TypeOK, Commands!BoundsOK, NEW i \in DOMAIN commands,
           NEW s \in {"acknowledged", "completed", "failed"},
           commands' = Commands!Acknowledged(i, s)
    PROVE  CommandsKept
BY AcknowledgedType DEF CommandsKept, Commands!TypeOK

\* So does one request of the agent, whatever becomes of it.
LEMMA CommandReportKeeps ==
    ASSUME Commands!TypeOK, Commands!BoundsOK, queue # {}, NEW s \in {"acknowledged", "completed", "failed"},
           \/ commands' = Commands!Acknowledged(Commands!Current, s) /\ UNCHANGED lateAcks
           \/ UNCHANGED commands /\ lateAcks' = lateAcks \cup {<<Commands!Current, s>>}
           \/ UNCHANGED <<commands, lateAcks>>
    PROVE  /\ CommandsKept
           /\ lateAcks' \subseteq ((DOMAIN commands') \X {"acknowledged", "completed", "failed"})
<1>1. Commands!Current \in DOMAIN commands
  BY CurrentIsHeld
<1>2. CASE UNCHANGED commands
  BY <1>1, <1>2, SeqParts DEF CommandsKept, Commands!TypeOK
<1>3. CASE commands' = Commands!Acknowledged(Commands!Current, s) /\ UNCHANGED lateAcks
  BY <1>1, <1>3, AcknowledgedKeeps, AcknowledgedType DEF Commands!TypeOK
<1> QED
  BY <1>2, <1>3

LEMMA CommandTypeStep ==
    ASSUME Commands!TypeOK, Commands!BoundsOK, [Commands!Next]_(Commands!vars)
    PROVE  Commands!TypeOK'
<1> USE DEF Commands!TypeOK
<1>0. commands \in Seq(Commands!Command) /\ DOMAIN commands \in SUBSET Nat /\ Len(commands) \in Nat
  BY SeqParts
<1>1. ASSUME NEW u \in Users, Commands!Look(u) PROVE Commands!TypeOK'
  <2>1. Commands!Found \in {0} \cup DOMAIN commands /\ Commands!ExpiredOf(Commands!Found) \in SUBSET DOMAIN commands
    BY FoundIsThere DEF Commands!ExpiredOf
  <2> QED
    BY <1>1, <2>1 DEF Commands!Look, Commands!agentVars
<1>2. ASSUME NEW u \in Users, Commands!Answer(u) PROVE Commands!TypeOK'
  BY <1>2, CommandAnswerKeeps DEF Commands!Answer, Commands!agentVars, CommandsKept
<1>3. CASE Commands!Tick
  BY <1>3, TickKeeps DEF Commands!Tick, Commands!agentVars, CommandsKept
<1>4. CASE Commands!Fetch
  <2>1. Commands!HandedOut({i \in DOMAIN commands : commands[i].status = "pending"}) \subseteq DOMAIN commands
    BY DEF Commands!HandedOut
  <2> QED
    BY <1>4, <2>1 DEF Commands!Fetch
<1>5. CASE Commands!Acknowledge
  BY <1>5, CommandReportKeeps DEF Commands!Acknowledge, Commands!Report, Commands!Then, CommandsKept, Commands!BoundsOK
<1>6. CASE Commands!ReadNow
  <2>1. Commands!Current \in Commands!Ids
    BY <1>0, <1>6, CurrentIsHeld DEF Commands!ReadNow, Commands!Ids, Commands!BoundsOK
  <2>2. reads[Commands!Current] \in 0 .. 2
    BY <2>1
  <2>3. Commands!Min({reads[Commands!Current] + 1, 2}) \in 0 .. 2
    BY <2>2, MinOfTwo, CommandsMin
  <2>4. reads' \in [Commands!Ids -> 0 .. 2]
    BY <1>6, <2>3 DEF Commands!ReadNow
  <2> QED
    BY <1>6, <2>4 DEF Commands!ReadNow, Commands!Then
<1>7. CASE Commands!ReportCompleted
  BY <1>7, CommandReportKeeps DEF Commands!ReportCompleted, Commands!Report, Commands!NextCommand, Commands!Then, CommandsKept, Commands!BoundsOK
<1>8. CASE Commands!ReportFailed
  BY <1>8, CommandReportKeeps DEF Commands!ReportFailed, Commands!Report, Commands!NextCommand, CommandsKept, Commands!BoundsOK
<1>9. CASE Commands!LateAck
  <2>1. PICK m \in lateAcks : commands' = Commands!Acknowledged(m[1], m[2]) /\ lateAcks' = lateAcks \ {m}
    BY <1>9 DEF Commands!LateAck
  <2>2. CommandsKept
    BY <2>1, AcknowledgedKeeps
  <2> QED
    BY <1>9, <2>1, <2>2 DEF Commands!LateAck, CommandsKept
<1>10. CASE Commands!Restart
  BY <1>10 DEF Commands!Restart, Commands!BoundsOK
<1>11. CASE UNCHANGED Commands!vars
  BY <1>11 DEF Commands!vars, Commands!agentVars
<1> QED
  BY <1>1, <1>2, <1>3, <1>4, <1>5, <1>6, <1>7, <1>8, <1>9, <1>10, <1>11 DEF Commands!Next, Commands!Agent

---------------------------------------------------------------------------
(* ReadOnce.                                                               *)

LEMMA InitRead == ASSUME Commands!Init PROVE ReadInv
BY DEF Commands!Init, ReadInv, Commands!ReadOnce, Commands!Ids

\* After a request of the agent for its first command, the rest of what it
\* holds is as unread as before.
LEMMA RestUnread ==
    ASSUME Commands!TypeOK, ReadInv, queue # {}, UNCHANGED reads,
           queue' = queue \ {Commands!Current}, queue' # {}
    PROVE  /\ \A i \in queue' : reads'[i] = 0
           /\ Commands!Current' \in queue'
<1>1. queue' \in SUBSET Nat
  BY DEF Commands!TypeOK
<1>2. Commands!Current' \in queue'
  BY <1>1, MinIsLeast, CommandsMin DEF Commands!Current
<1> QED
  BY <1>2 DEF ReadInv

\* The same invariant, for a step that keeps the table and what was read.
LEMMA TableKeepsRead ==
    ASSUME Commands!TypeOK, ReadInv, CommandsKept, UNCHANGED reads
    PROVE  /\ Commands!ReadOnce'
           /\ \A i \in Commands!Ids : reads'[i] # 0 =>
                i \in DOMAIN commands' /\ commands'[i].status # "pending"
BY DEF ReadInv, Commands!ReadOnce, CommandsKept, Commands!TypeOK

\* Nothing that the agent holds or has read changes but the table.
LEMMA AgentIdleKeepsRead ==
    ASSUME Commands!TypeOK, ReadInv, CommandsKept, UNCHANGED <<queue, step, reads>>
    PROVE  ReadInv'
<1>1. Commands!Current' = Commands!Current /\ (queue # {} => Commands!Current \in DOMAIN commands)
  BY CurrentIsHeld DEF Commands!Current
<1> QED
  BY <1>1, TableKeepsRead DEF ReadInv, CommandsKept

LEMMA ReadStep ==
    ASSUME Commands!TypeOK, Commands!BoundsOK, ReadInv, [Commands!Next]_(Commands!vars)
    PROVE  ReadInv'
<1>0. /\ commands \in Seq(Commands!Command) /\ DOMAIN commands \in SUBSET Nat
      /\ UNCHANGED commands => CommandsKept
      /\ queue # {} => Commands!Current \in queue /\ Commands!Current \in DOMAIN commands /\ Commands!Current \in Commands!Ids
  BY SeqParts, CurrentIsHeld DEF CommandsKept, Commands!TypeOK, Commands!BoundsOK, Commands!Ids
<1>1. ASSUME NEW u \in Users, Commands!Look(u) \/ Commands!Answer(u) PROVE ReadInv'
  <2>1. CommandsKept
    BY <1>0, <1>1, CommandAnswerKeeps DEF Commands!Look
  <2> QED
    BY <1>1, <2>1, AgentIdleKeepsRead DEF Commands!Look, Commands!Answer, Commands!agentVars
<1>2. CASE Commands!Tick
  BY <1>2, TickKeeps, AgentIdleKeepsRead DEF Commands!Tick, Commands!agentVars
<1>3. CASE Commands!Fetch
  <2>1. \A i \in queue' : i \in DOMAIN commands /\ commands[i].status = "pending"
    BY <1>3 DEF Commands!Fetch, Commands!HandedOut
  <2>2. queue' # {} /\ queue' \in SUBSET Nat
    BY <1>0, <1>3, <2>1 DEF Commands!Fetch
  <2>3. Commands!Current' \in queue'
    BY <2>2, MinIsLeast, CommandsMin DEF Commands!Current
  <2>4. \A i \in queue' : reads[i] = 0
    <3> SUFFICES ASSUME NEW i \in queue' PROVE reads[i] = 0
      OBVIOUS
    <3>1. i \in Commands!Ids /\ commands[i].status = "pending"
      BY <1>0, <2>1, SeqParts DEF Commands!Ids, Commands!TypeOK, Commands!BoundsOK
    <3> QED
      BY <3>1 DEF ReadInv
  <2>5. step' = "ack"
    BY <1>3 DEF Commands!Fetch, ReadInv
  <2> QED
    BY <1>0, <1>3, <2>2, <2>3, <2>4, <2>5, TableKeepsRead DEF Commands!Fetch, ReadInv
<1>4. CASE Commands!Acknowledge
  <2>1. queue # {} /\ queue' = queue /\ Commands!Current' = Commands!Current /\ UNCHANGED reads
    BY <1>4 DEF Commands!Acknowledge, Commands!Report, Commands!Then, Commands!Current
  <2>2. CommandsKept
    BY <1>4, <2>1, CommandReportKeeps DEF Commands!Acknowledge, Commands!Report
  <2>3. step' = "read" => commands' = Commands!Acknowledged(Commands!Current, "acknowledged")
    BY <1>4 DEF Commands!Acknowledge, Commands!Report, Commands!Then
  <2>4. step' = "read" => commands'[Commands!Current].status # "pending"
    BY <1>0, <2>1, <2>3, AcknowledgedType
  <2>5. step' \in {"read", "failed"} /\ reads[Commands!Current] = 0
    BY <1>4 DEF Commands!Acknowledge, Commands!Report, Commands!Then, ReadInv
  <2> QED
    BY <2>1, <2>2, <2>4, <2>5, TableKeepsRead DEF ReadInv
<1>5. CASE Commands!ReadNow
  <2>1. queue # {} /\ queue' = queue /\ Commands!Current' = Commands!Current /\ UNCHANGED commands
    BY <1>5 DEF Commands!ReadNow, Commands!Then, Commands!Current
  <2>2. reads[Commands!Current] = 0 /\ commands[Commands!Current].status # "pending"
    BY <1>5, <2>1 DEF Commands!ReadNow, ReadInv
  <2>3. Commands!Min({reads[Commands!Current] + 1, 2}) = 1
    BY <2>2, MinOfTwo, CommandsMin
  <2>4. UNCHANGED reads \/ reads' = [reads EXCEPT ![Commands!Current] = 1]
    BY <1>5, <2>3 DEF Commands!ReadNow
  <2>5. step' \in {"completed", "failed"}
    BY <1>5 DEF Commands!ReadNow, Commands!Then
  <2>6. \A i \in Commands!Ids : reads'[i] = reads[i] \/ (i = Commands!Current /\ reads'[i] = 1)
    BY <2>4 DEF Commands!TypeOK
  <2>7. Commands!ReadOnce'
    BY <2>6 DEF ReadInv, Commands!ReadOnce
  <2>8. \A i \in Commands!Ids : reads'[i] # 0 => i \in DOMAIN commands' /\ commands'[i].status # "pending"
    BY <1>0, <2>1, <2>2, <2>6 DEF ReadInv
  <2>9. \A i \in queue' : i # Commands!Current' => reads'[i] = 0
    <3>1. queue \subseteq Commands!Ids
      BY <1>0, SeqParts DEF Commands!TypeOK, Commands!BoundsOK, Commands!Ids
    <3> QED
      BY <2>1, <2>6, <3>1 DEF ReadInv
  <2> QED
    BY <2>1, <2>5, <2>7, <2>8, <2>9 DEF ReadInv
<1>6. CASE Commands!ReportCompleted
  <2>1. queue # {} /\ UNCHANGED reads
    BY <1>6 DEF Commands!ReportCompleted
  <2>2. CommandsKept
    BY <1>6, <2>1, CommandReportKeeps DEF Commands!ReportCompleted, Commands!Report
  <2>3. CASE Commands!NextCommand
    BY <2>1, <2>2, <2>3, RestUnread, TableKeepsRead DEF Commands!NextCommand, ReadInv
  <2>4. CASE Commands!Then("failed")
    BY <2>1, <2>2, <2>4, TableKeepsRead DEF Commands!Then, ReadInv, Commands!Current
  <2> QED
    BY <1>6, <2>3, <2>4 DEF Commands!ReportCompleted, Commands!Report
<1>7. CASE Commands!ReportFailed
  <2>1. queue # {} /\ UNCHANGED reads /\ Commands!NextCommand
    BY <1>7 DEF Commands!ReportFailed, Commands!Report
  <2>2. CommandsKept
    BY <1>7, <2>1, CommandReportKeeps DEF Commands!ReportFailed, Commands!Report
  <2> QED
    BY <2>1, <2>2, RestUnread, TableKeepsRead DEF Commands!NextCommand, ReadInv
<1>8. CASE Commands!LateAck
  <2>1. PICK m \in lateAcks : commands' = Commands!Acknowledged(m[1], m[2])
    BY <1>8 DEF Commands!LateAck
  <2>2. m[1] \in DOMAIN commands /\ m[2] \in {"acknowledged", "completed", "failed"}
    BY DEF Commands!TypeOK
  <2>3. CommandsKept
    BY <2>1, <2>2, AcknowledgedKeeps
  <2> QED
    BY <1>8, <2>3, AgentIdleKeepsRead DEF Commands!LateAck
<1>9. CASE Commands!Restart
  BY <1>0, <1>9, TableKeepsRead DEF Commands!Restart, ReadInv
<1>10. CASE UNCHANGED Commands!vars
  BY <1>0, <1>10, AgentIdleKeepsRead DEF Commands!vars, Commands!agentVars
<1> QED
  BY <1>1, <1>2, <1>3, <1>4, <1>5, <1>6, <1>7, <1>8, <1>9, <1>10 DEF Commands!Next, Commands!Agent

---------------------------------------------------------------------------
(* Theorems.                                                               *)

\* The inductive invariant holds in every reachable state.
THEOREM CommandInvariance == ASSUME Commands!BoundsOK PROVE Commands!Spec => []CommandInv
<1>1. Commands!Init => CommandInv
  BY CommandInitType, InitRead DEF CommandInv
<1>2. CommandInv /\ [Commands!Next]_(Commands!vars) => CommandInv'
  BY CommandTypeStep, ReadStep DEF CommandInv
<1> QED
  BY <1>1, <1>2, PTL DEF Commands!Spec

\* Every variable of the probes and of the commands keeps its type.
THEOREM TypesCorrect == Spec /\ Commands!Spec => []TypesOK
<1>1. TypeOK /\ CommandInv => TypesOK
  BY DEF TypesOK, CommandInv
<1> QED
  BY <1>1, TypeCorrect, CommandInvariance, CommandsAssumption, PTL

\* No command makes the agent read twice, whatever is lost, late or restarted
\* and however many dashboards ask: handle_agent_commands reads only after an
\* acknowledgement the server has answered, and list_agent_commands hands out
\* only what is pending.
THEOREM CommandsReadOnce == Commands!Spec => []ReadOnce
<1>1. CommandInv => ReadOnce
  BY DEF ReadOnce, CommandInv, ReadInv
<1> QED
  BY <1>1, CommandInvariance, CommandsAssumption, PTL

================================================================================
