------------------------------- MODULE Requests -------------------------------
(***************************************************************************)
(* What a user asks of an agent: probes of the switch (SwitchProbe) and,   *)
(* beside them, readings of the cash (CashCommands).                       *)
(***************************************************************************)
EXTENDS SwitchProbe

CONSTANTS
    PendingTimeout, AckTimeout, FetchLimit, MaxAge, MaxCommands, LateRequests   \* of CashCommands

VARIABLES
    commands, wanting, queue, step, lateAcks, reads, mishaps

commandVars == <<commands, wanting, queue, step, lateAcks, reads, mishaps>>

Commands == INSTANCE CashCommands WITH
    asking <- wanting, late <- lateAcks, faults <- mishaps

ASSUME CommandsAssumption == Commands!BoundsOK

---------------------------------------------------------------------------
(* Properties.                                                             *)

\* Every variable of either system keeps its type.
TypesOK == TypeOK /\ Commands!TypeOK

\* ReadOnce (CashCommands): no command makes the agent read twice.
ReadOnce == Commands!ReadOnce

===============================================================================
