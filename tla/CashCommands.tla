----------------------------- MODULE CashCommands -----------------------------
(***************************************************************************)
(* "Read now": a user asks for a reading of an ATM's cash                  *)
(* (request_cash_read_now in backend/app/routers/cash.py), the agent       *)
(* fetches the command, acknowledges it, reads, and reports the outcome    *)
(* (handle_agent_commands in agent/atm_agent.py, list_agent_commands and   *)
(* acknowledge_agent_command in backend/app/routers/agent.py).  A command  *)
(* that is not taken up or not finished in time is failed by the next      *)
(* request.                                                                *)
(*                                                                         *)
(* Requests of the agent may be lost, may be handled without the agent     *)
(* learning of it, and may be handled after it gave up waiting.            *)
(***************************************************************************)
EXTENDS Integers, Sequences, SequencesExt, FiniteSets, FiniteSetsExt

CONSTANTS
    Users,             \* dashboards that ask
    PendingTimeout,    \* READ_NOW_PENDING_TIMEOUT, in ticks
    AckTimeout,        \* READ_NOW_ACKNOWLEDGED_TIMEOUT
    FetchLimit,        \* commands handed out at once: 5
    MaxAge,            \* bound: ages are told apart up to this one
    MaxCommands,       \* bound: commands created
    LateRequests,      \* TRUE: the server may handle a request the agent gave up on
    MaxFaults          \* bound: requests of the agent that go wrong, restarts

VARIABLES
    commands,          \* agent_commands: in the order of their creation
    asking,            \* user -> the request in progress
    queue,             \* the agent: the commands it fetched and has not finished
    step,              \* the agent: what it does next for the first of them
    late,              \* acknowledgements the agent no longer waits for
    reads,             \* history: command -> snapshots sent for it
    faults             \* faults so far (bound)

agentVars == <<queue, step, late, reads, faults>>
vars == <<commands, asking, agentVars>>

\* What the theorems take of the bounds.
BoundsOK == MaxCommands \in Nat /\ MaxAge \in Nat /\ MaxFaults \in Nat

Ids == 1 .. MaxCommands
Active == {"pending", "acknowledged"}
Settled == {"completed", "failed"}

Command == [status : Active \cup Settled, age : 0 .. MaxAge]

TypeOK ==
    /\ commands \in Seq(Command)
    /\ Len(commands) <= MaxCommands
    /\ asking \in [Users -> {<< >>} \cup ((SUBSET DOMAIN commands) \X ({0} \cup DOMAIN commands))]
    /\ queue \subseteq DOMAIN commands
    /\ step \in {"ack", "read", "completed", "failed"}
    /\ late \subseteq ((DOMAIN commands) \X {"acknowledged", "completed", "failed"})
    /\ reads \in [Ids -> 0 .. 2]
    /\ faults \in 0 .. MaxFaults

Init ==
    /\ commands = << >>
    /\ asking = [u \in Users |-> << >>]
    /\ queue = {} /\ step = "ack" /\ late = {}
    /\ reads = [i \in Ids |-> 0]
    /\ faults = 0

---------------------------------------------------------------------------
(* The dashboard.                                                          *)

\* is_stale_cash_read_command.  The age is that of the creation, then that of
\* the acknowledgement.
StalePending(c) == c.status = "pending" /\ c.age > PendingTimeout
Stale(c) ==
    \/ c.status = "pending" /\ c.age > PendingTimeout
    \/ c.status = "acknowledged" /\ c.age > AckTimeout

\* active_cash_read_command: the oldest active command that is not stale, and
\* the stale ones before it, which are failed.
Found == LET fresh == {i \in DOMAIN commands : commands[i].status \in Active /\ ~Stale(commands[i])}
         IN  IF fresh = {} THEN 0 ELSE Min(fresh)
ExpiredOf(found) ==
    {i \in DOMAIN commands : Stale(commands[i]) /\ (found = 0 \/ i < found)}

\* request_cash_read_now reads the commands ...
Look(u) ==
    /\ asking[u] = << >>
    /\ asking' = [asking EXCEPT ![u] = <<ExpiredOf(Found), Found>>]
    /\ UNCHANGED <<commands, agentVars>>

Expire(cs, ids) == [i \in DOMAIN cs |-> IF i \in ids THEN [cs[i] EXCEPT !.status = "failed"] ELSE cs[i]]

\* ... and commits: it returns the command found, or creates one.
Answer(u) ==
    /\ asking[u] # << >>
    /\ LET expired == Expire(commands, asking[u][1]) IN
        commands' = IF asking[u][2] # 0 \/ Len(commands) = MaxCommands THEN expired
                    ELSE Append(expired, [status |-> "pending", age |-> 0])
    /\ asking' = [asking EXCEPT ![u] = << >>]
    /\ UNCHANGED agentVars

Tick ==
    /\ \E i \in DOMAIN commands : commands[i].status \in Active /\ commands[i].age < MaxAge
    /\ commands' = [i \in DOMAIN commands |-> [commands[i] EXCEPT !.age = Min({@ + 1, MaxAge})]]
    /\ UNCHANGED <<asking, agentVars>>

---------------------------------------------------------------------------
(* The agent.                                                              *)

\* acknowledge_agent_command, whatever the command's status was.
Acknowledged(i, status) ==
    [commands EXCEPT ![i] =
        [status |-> status, age |-> IF status = "acknowledged" THEN 0 ELSE @.age]]

\* list_agent_commands hands out the oldest few; the agent takes the oldest first.
HandedOut(S) == {i \in S : Cardinality({j \in S : j < i}) < FetchLimit}
Current == Min(queue)

FetchActive ==
    /\ queue = {}
    /\ queue' = HandedOut({i \in DOMAIN commands : commands[i].status \in Active})
    /\ queue' # {}
    /\ UNCHANGED <<commands, asking, step, late, reads, faults>>
Fetch ==
    /\ queue = {}
    /\ queue' = HandedOut({i \in DOMAIN commands : commands[i].status = "pending"})
    /\ queue' # {}
    /\ UNCHANGED <<commands, asking, step, late, reads, faults>>

\* One request to ack_command: the agent learns that it was handled, or it has
\* an error although it was, will be, or never will be handled.
Report(status, next, onError) ==
    \/ /\ commands' = Acknowledged(Current, status)
       /\ next
       /\ UNCHANGED <<late, faults>>
    \/ /\ faults < MaxFaults /\ faults' = faults + 1
       /\ onError
       /\ \/ commands' = Acknowledged(Current, status) /\ UNCHANGED late
          \/ LateRequests /\ late' = late \cup {<<Current, status>>} /\ UNCHANGED commands
          \/ UNCHANGED <<commands, late>>

NextCommand == queue' = queue \ {Current} /\ step' = "ack"
Then(s) == step' = s /\ UNCHANGED queue

Acknowledge ==
    /\ queue # {} /\ step = "ack"
    /\ Report("acknowledged", Then("read"), Then("failed"))
    /\ UNCHANGED <<asking, reads>>

\* read_now: the snapshot is sent and the server says so, or something fails
\* before or after it got there.
ReadNow ==
    /\ queue # {} /\ step = "read"
    /\ \/ Then("completed") /\ reads' = [reads EXCEPT ![Current] = Min({@ + 1, 2})]
       \/ Then("failed") /\ (reads' = [reads EXCEPT ![Current] = Min({@ + 1, 2})] \/ UNCHANGED reads)
    /\ UNCHANGED <<commands, asking, late, faults>>

ReportCompleted ==
    /\ queue # {} /\ step = "completed"
    /\ Report("completed", NextCommand, Then("failed"))
    /\ UNCHANGED <<asking, reads>>

ReportFailed ==
    /\ queue # {} /\ step = "failed"
    /\ Report("failed", NextCommand, NextCommand)
    /\ UNCHANGED <<asking, reads>>

LateAck ==
    /\ \E m \in late : commands' = Acknowledged(m[1], m[2]) /\ late' = late \ {m}
    /\ UNCHANGED <<asking, queue, step, reads, faults>>

Restart ==
    /\ faults < MaxFaults /\ faults' = faults + 1
    /\ queue # {}
    /\ queue' = {} /\ step' = "ack"
    /\ UNCHANGED <<commands, asking, late, reads>>

Agent == Fetch \/ Acknowledge \/ ReadNow \/ ReportCompleted \/ ReportFailed

Next == (\E u \in Users : Look(u) \/ Answer(u)) \/ Tick \/ Agent \/ LateAck \/ Restart

Spec == Init /\ [][Next]_vars

\* Somebody goes on asking, time passes, and late requests are not late forever.
\* The agent owes nothing.
FairSpec ==
    /\ Spec
    /\ \A u \in Users : WF_vars(Look(u)) /\ WF_vars(Answer(u))
    /\ WF_vars(Tick) /\ WF_vars(LateAck)

---------------------------------------------------------------------------
(* Properties.                                                             *)

\* No command makes the agent read twice, whatever is lost or late.
ReadOnce == \A i \in Ids : reads[i] <= 1

\* A dashboard that keeps asking does not wait forever for a command, whatever
\* becomes of the agent.
CommandsSettle ==
    <>[](Len(commands) = MaxCommands /\ \A i \in DOMAIN commands : commands[i].status \notin Active)

================================================================================
