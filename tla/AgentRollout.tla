---------------------------- MODULE AgentRollout ----------------------------
(***************************************************************************)
(* A new agent rolled out to a fleet: several ATMs check for it, the       *)
(* server limits how many download it at once (check_agent_update in       *)
(* backend/app/routers/agent.py), and ATMs may die in the middle.  What    *)
(* one ATM does with the package is AgentSelfUpdate; here an agent only    *)
(* holds an offer, works on it, and reports or dies.  A dead ATM may come  *)
(* back, or not.  No call is lost.                                         *)
(***************************************************************************)
EXTENDS AgentTargets

CONSTANT
    MaxDeaths      \* bound: times an ATM dies

VARIABLES
    attempt,       \* what each agent is doing: nothing, holding an offer, working on it
    package,       \* with which package, 0 with none
    deaths,        \* history: times an ATM died so far, for the bound
    unseen         \* history: a package was offered while an ATM had it uncounted

fleetVars == <<attempt, package, deaths, unseen>>
vars == <<serverVars, fleetVars>>

TypeOK ==
    /\ ServerTypeOK
    /\ attempt \in [ATMs -> {"idle", "offered", "working", "dead"}]
    /\ package \in [ATMs -> Version]
    /\ deaths \in 0 .. MaxDeaths
    /\ unseen \in BOOLEAN

Init ==
    /\ ServerInit
    /\ attempt = [a \in ATMs |-> "idle"]
    /\ package = [a \in ATMs |-> 0]
    /\ deaths = 0
    /\ unseen = FALSE

\* The ATMs that were offered a package and have not reported on it.
Holders(p) == {a \in ATMs : attempt[a] \in {"offered", "working"} /\ package[a] = p}

\* check_agent_update: the answer reaches the agent after the check is over.
Check(a) ==
    /\ attempt[a] = "idle"
    /\ CheckMarks(a)
    /\ \/ \E p \in Package :
            /\ IsOffered(a, p)
            /\ attempt' = [attempt EXCEPT ![a] = "offered"]
            /\ package' = [package EXCEPT ![a] = p]
            /\ unseen' = (unseen \/ ~(Holders(p) \subseteq Downloads(p)))
       \/ NothingOffered(a) /\ UNCHANGED <<attempt, package, unseen>>
    /\ UNCHANGED deaths

\* The first progress call and the first download of an attempt.
Begin(a) ==
    /\ attempt[a] = "offered"
    /\ DownloadRequested(a, package[a])
    /\ attempt' = [attempt EXCEPT ![a] = "working"]
    /\ UNCHANGED <<package, deaths, unseen>>

Work(a) ==
    /\ attempt[a] = "working"
    /\ \E phase \in Active : Progress(a, package[a], phase)
    /\ UNCHANGED fleetVars

Finish(a) ==
    /\ attempt[a] = "working"
    /\ \E outcome \in Finished : Result(a, package[a], outcome)
    /\ attempt' = [attempt EXCEPT ![a] = "idle"]
    /\ package' = [package EXCEPT ![a] = 0]
    /\ UNCHANGED <<deaths, unseen>>

\* Power loss, a cut line, or an updater that never starts the agent again.
Die(a) ==
    /\ attempt[a] # "dead"
    /\ deaths < MaxDeaths
    /\ deaths' = deaths + 1
    /\ attempt' = [attempt EXCEPT ![a] = "dead"]
    /\ package' = [package EXCEPT ![a] = 0]
    /\ UNCHANGED <<serverVars, unseen>>

Revive(a) ==
    /\ attempt[a] = "dead"
    /\ attempt' = [attempt EXCEPT ![a] = "idle"]
    /\ UNCHANGED <<serverVars, package, deaths, unseen>>

Administer ==
    /\ \E p \in Package : RetryFailed(p) \/ \E S \in SUBSET ATMs : Assign(S, p)
    /\ UNCHANGED fleetVars

TimePasses(a) ==
    /\ \E p \in Package : FallSilent(a, p)
    /\ UNCHANGED fleetVars

View == ViewPackages /\ UNCHANGED fleetVars

Agent(a) == Check(a) \/ Begin(a) \/ Finish(a)

Next ==
    \/ \E a \in ATMs :
        Agent(a) \/ Work(a) \/ Die(a) \/ Revive(a) \/ TimePasses(a)
    \/ Administer \/ View

Spec == Init /\ [][Next]_vars

\* Every living agent goes on checking and ends what it began; a target
\* nobody reports on grows old.  Nobody comes back for certain.
FairSpec ==
    /\ Spec
    /\ \A a \in ATMs : WF_vars(Agent(a)) /\ WF_vars(TimePasses(a))

---------------------------------------------------------------------------
(* Properties.                                                             *)

\* agent_update_max_active_downloads, and the test that "agent update downloads
\* are throttled": never more ATMs at work on a package than the limit.
DownloadsThrottled ==
    MaxActive > 0 => \A p \in Package : Cardinality(Downloads(p)) <= MaxActive

\* The limit holds until a package is offered while an ATM has it that is not
\* counted: one that has not begun yet, has been silent for long, or was put
\* back to pending at work (active_agent_update_download_count).
ThrottledInTurn == ~unseen => DownloadsThrottled

Served(a, p) == target[a][p] = "pending" ~> target[a][p] \in Finished \/ attempt[a] = "dead"

\* Every living ATM gets its package or a failure in the end: ATMs that die
\* while they hold the places below the limit block nobody for ever.
EveryATMServed == \A a \in ATMs : \A p \in Package : Served(a, p)

=============================================================================
