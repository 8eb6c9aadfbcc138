---------------------------- MODULE Notifications ----------------------------
(***************************************************************************)
(* What carries a notification: the deliveries, and beside them the        *)
(* WhatsApp gateway whose session the server watches.                      *)
(***************************************************************************)
EXTENDS NotificationDelivery

CONSTANTS
    Checkers, SlowStart                        \* of WhatsAppGateway

VARIABLES
    session, client, start, timer, last, checking, previous, answer, alerts, owed

gatewayVars == <<session, client, start, timer, last, checking, previous, answer, alerts, owed>>

Gateway == INSTANCE WhatsAppGateway WITH status <- session

---------------------------------------------------------------------------
(* Properties.                                                             *)

\* Every variable of either keeps its type.
TypesOK == TypeOK /\ Gateway!TypeOK

\* AlertedOnce (WhatsAppGateway): one disconnection, one alert, while no two
\* checks of the session's status overlap.
DisconnectionAlertedOnce == Gateway!AlertedOnce

==============================================================================
