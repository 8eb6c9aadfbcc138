--------------------------- MODULE MCMediaUpdate ---------------------------
(***************************************************************************)
(* The instances of MediaUpdate that TLC checks; a run takes one of them   *)
(* at its start.  The largest bounds are in the .cfg files.                *)
(***************************************************************************)
EXTENDS MediaUpdate

CONSTANT Instances   \* those of the run

VARIABLES
    instance,
    untold,    \* history: the attempt that is about to report its failure has so
               \* far told the server nothing final that still stands there
    unheard    \* history: packages the server was left wrongly informed of

\* Everything happens, and one call is lost or late.
Faults == INSTANCE MediaUpdate WITH MaxLost <- 1
\* No call is lost and the agent is not killed, every other failure happens.
Reliable == INSTANCE MediaUpdate WITH MaxLost <- 0, MaxCrashes <- 0
\* One package: the call that fails an attempt and the two that tell of the
\* failure may be lost, the agent is killed, the package is retried.
Settles == INSTANCE MediaUpdate WITH MaxResets <- 2, MaxLost <- 3, MaxCrashes <- 1
\* The connection is away for two calls, and that is all that happens.
Outage == INSTANCE MediaUpdate WITH MaxResets <- 0, MaxLost <- 2, MaxCrashes <- 0

\* The steps of an attempt at which the server may have it as downloading.
AtWork == Working \ {"download"}

\* A call of a working phase handled in this step although the agent gave up on it.
OvertakenBy(p) ==
    \E m \in late \ late' : m.version = p /\ m.call # "heartbeat" /\ m.phase = "working"

NoReply == lost' > lost

\* The three ways in which the server is left wrongly informed of a package:
\* neither of the calls its failed attempt ends with was answered; a late call
\* was handled that says the agent is at work when it is not; or the agent was
\* killed at work.
LeftUninformed(p) ==
    \/ job = p /\ pc = "reportFailed" /\ pc' = "idle" /\ untold /\ NoReply
    \/ OvertakenBy(p) /\ ~(job = p /\ pc \in AtWork)
    \/ job = p /\ pc \in AtWork /\ pc' = "down"

Remember ==
    /\ untold' = \/ pc = "tellFailed" /\ pc' = "reportFailed" /\ NoReply
                 \/ pc = "reportFailed" /\ pc' = pc /\ (untold \/ OvertakenBy(job))
    /\ unheard' = unheard \cup {p \in Package : LeftUninformed(p)}

Forget == UNCHANGED <<untold, unheard>>

\* Only the first package is ever assigned.
OnlyOne == \A p \in Package \ {1} : target'[p] = "none"

MCInit == instance \in Instances /\ untold = FALSE /\ unheard = {} /\ Init

MCNext ==
    /\ UNCHANGED instance
    /\ \/ instance = "faults" /\ Faults!Next /\ Forget
       \/ instance = "reliable" /\ Reliable!Next /\ Forget
       \/ instance = "settles" /\ Settles!Next /\ OnlyOne /\ Remember
       \/ instance = "outage" /\ Outage!Next /\ Forget

MCSpec ==
    /\ MCInit /\ [][MCNext]_<<vars, instance, untold, unheard>>
    /\ WF_vars(instance = "reliable" /\ Reliable!Attempt)
    /\ WF_vars(instance = "settles" /\ Settles!Attempt)
    /\ WF_vars(instance = "settles" /\ Settles!Start)
    /\ WF_vars(instance = "outage" /\ Outage!Attempt)

\* Every assignment gets a final status and keeps it, also when it is put back
\* to pending in the middle of an attempt, unless the server was left wrongly
\* informed of the package (apply_update, report_progress, report_result).
SettlesUnlessUnheard ==
    instance \in {"reliable", "settles"} =>
        \A p \in Package : <>[](IsSettled(p) \/ p \in unheard)

\* README.md:196, "on failure it rolls back from the last backup and sends the
\* reason to the server": an outage during the download does not leave the
\* package downloading for ever.
SettlesAfterOutage == instance = "outage" => AssignmentSettles
===========================================================================
