-------------------------- MODULE MCNotification --------------------------
(***************************************************************************)
(* The instances of NotificationDelivery, and those of WhatsAppGateway,    *)
(* that TLC checks; a run takes one of them at its start.  The largest     *)
(* bounds are in the .cfg files.                                           *)
(***************************************************************************)
EXTENDS Notifications

CONSTANT
    Instances      \* those of the run

VARIABLE
    instance

\* Every fault, on a database where writing transactions overlap.
Faults == INSTANCE NotificationDelivery WITH MaxAttempts <- 2, Sqlite <- FALSE
\* One snapshot after the other, to two addresses; no fault.
Serial == INSTANCE NotificationDelivery WITH
    MaxAttempts <- 3, MaxFaults <- 0, MaxUnanswered <- 0
\* The attempts of the code; one snapshot after the other.
Attempts == INSTANCE NotificationDelivery WITH MaxFaults <- 0
\* A restart while two snapshots are handled.
Restarts == INSTANCE NotificationDelivery WITH MaxAttempts <- 2, MaxUnanswered <- 0
\* Two snapshots at a time, nothing else.
Duplicate == INSTANCE NotificationDelivery WITH
    MaxAttempts <- 2, MaxFaults <- 0, MaxUnanswered <- 0

\* The client starts within a reconnection's delay, not as slowly as it likes.
Prompt == INSTANCE WhatsAppGateway WITH status <- session, SlowStart <- FALSE

MCInit ==
    /\ instance \in Instances
    /\ Init /\ Gateway!Init
    /\ instance # "serial" => defaults \cap Emails = {}

First == CHOOSE r \in Requests : TRUE

OneAddress == defaults' \cap Emails = {} /\ custom' = {}
OneSnapshot == \A r \in Requests \ {First} : step'[r] = "idle"

MCNext ==
    /\ UNCHANGED instance
    /\ \/ /\ UNCHANGED gatewayVars
          /\ \/ instance = "faults" /\ Faults!Next /\ OneAddress
             \/ instance = "serial" /\ Serial!Next /\ OneSnapshot
             \/ instance = "attempts" /\ Attempts!Next /\ OneAddress /\ OneSnapshot
             \/ instance = "restarts" /\ Restarts!Next /\ OneAddress
             \/ instance = "duplicate" /\ Duplicate!Next /\ OneAddress
       \/ /\ UNCHANGED vars
          /\ \/ instance = "slow" /\ Gateway!Next
             \/ instance = "prompt" /\ Prompt!Next

Live(Attempting, Restarting) ==
    \/ instance = "attempts" /\ Attempting
    \/ instance = "restarts" /\ Restarting

\* The fairness of FairSpec, in the instances with liveness.
MCSpec ==
    /\ MCInit /\ [][MCNext]_<<vars, gatewayVars, instance>>
    /\ \A r \in Requests :
        SF_vars(Live(Attempts!Proceed(r), Restarts!Proceed(r)))
    /\ \A a \in Alerts :
        SF_vars(Live(Attempts!Begin(First) /\ alert'[First] = a,
                     \E r \in Requests : Restarts!Begin(r) /\ alert'[r] = a))
    /\ SF_vars(Live(Attempts!StartRetry("monitor"), Restarts!StartRetry("monitor")))
    /\ \A t \in Retriers : SF_vars(Live(Attempts!Continue(t), Restarts!Continue(t)))
    /\ \A d \in Delivery : WF_vars(Live(Attempts!BecomesDue(d), Restarts!BecomesDue(d)))

\* DeliveriesSettle (NotificationDelivery) with the five attempts of the code,
\* unless the server restarts.  The deliveries are interchangeable.
DeliverySettles ==
    instance = "attempts" => Settles(CHOOSE d \in Delivery : d[2] \notin Emails /\ d[3] = First)

\* AlertsAreDelivered (NotificationDelivery) across a restart and the waits
\* for SQLite's lock.
AlertIsDelivered ==
    instance = "restarts" => IsDelivered(CHOOSE p \in Alerts \X Recipients : p[2] \notin Emails)

\* DisconnectionAlerted (WhatsAppGateway).
DisconnectionAlerted == Prompt!DisconnectionAlerted
===========================================================================
