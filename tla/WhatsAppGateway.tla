------------------------- MODULE WhatsAppGateway -------------------------
(***************************************************************************)
(* The WhatsApp gateway's session (whatsapp-gateway/server.js) and the     *)
(* checks of its status by the server (sync_whatsapp_gateway_status in     *)
(* backend/app/services/notification_service.py), made by the background   *)
(* monitor once a minute and by the dashboard's status call.               *)
(*                                                                         *)
(* The whatsapp-web.js client is a library: which of its events may come   *)
(* next is taken from the handlers the gateway registers for them.         *)
(***************************************************************************)
EXTENDS Naturals

CONSTANTS
    Checkers,      \* who checks the status: the monitor, the dashboard
    SlowStart      \* TRUE: a start of the client may outlast a reconnection delay

VARIABLES
    status,        \* the gateway's status
    client,        \* how far its client's session is
    start,         \* initializeClient: not running, destroying the old client, starting a new one
    timer,         \* reconnectTimer is set
    last,          \* settings.last_whatsapp_gateway_status
    checking,      \* per checker: where it is
    previous,      \* per checker: the status it compares with
    answer,        \* per checker: the status the gateway answered
    alerts,        \* history: alerts since a ready status was recorded, two for "more"
    owed           \* history: ready was recorded and no alert since

gatewayVars == <<status, client, start, timer>>
serverVars  == <<last, checking, previous, answer, alerts, owed>>
vars == <<gatewayVars, serverVars>>

Down    == {"disconnected", "auth_failure", "error"}
Problem == Down \cup {"unreachable", "qr"}          \* WHATSAPP_PROBLEM_STATUSES
Live    == {"starting", "authenticated", "ready", "qr"}
Known   == Down \cup Live \cup {"unreachable", "none"}

TypeOK ==
    /\ status \in Down \cup Live
    /\ client \in {"none", "launching", "paired", "ready", "gone"}
    /\ start \in {"no", "destroy", "launch"}
    /\ timer \in BOOLEAN
    /\ last \in Known
    /\ checking \in [Checkers -> {"idle", "asked", "answered"}]
    /\ previous \in [Checkers -> Known]
    /\ answer \in [Checkers -> Known]
    /\ alerts \in 0 .. 2
    /\ owed \in BOOLEAN

Init ==
    /\ status = "starting" /\ client = "launching" /\ start = "launch" /\ timer = FALSE
    /\ last = "none"
    /\ checking = [c \in Checkers |-> "idle"]
    /\ previous = [c \in Checkers |-> "none"]
    /\ answer = [c \in Checkers |-> "none"]
    /\ alerts = 0 /\ owed = FALSE

---------------------------------------------------------------------------
(* The gateway.  Its flag "ready" is true exactly in the status ready.     *)

\* scheduleReconnect: one timer at a time.
ScheduleReconnect == timer' = TRUE

OnQr ==
    /\ client = "launching"
    /\ status' = "qr"
    /\ UNCHANGED <<client, start, timer, serverVars>>

OnAuthenticated ==
    /\ client = "launching"
    /\ client' = "paired"
    /\ status' = "authenticated"
    /\ UNCHANGED <<start, timer, serverVars>>

OnReady ==
    /\ client = "paired"
    /\ client' = "ready"
    /\ status' = "ready"
    /\ UNCHANGED <<start, timer, serverVars>>

OnFailure ==
    /\ \/ client = "launching" /\ status' = "auth_failure"
       \/ client \in {"paired", "ready"} /\ status' = "disconnected"
    /\ client' = "gone"
    /\ ScheduleReconnect
    /\ UNCHANGED <<start, serverVars>>

\* The timer's callback; initializeClient returns at once while it is running.
OnTimer ==
    /\ timer
    /\ timer' = FALSE
    /\ \/ start # "no" /\ SlowStart /\ UNCHANGED <<status, start>>
       \/ start = "no" /\ start' = "destroy" /\ status' = "starting"
    /\ UNCHANGED <<client, serverVars>>

\* The old client is destroyed, failing or not, and a new one created.
NewClient ==
    /\ start = "destroy"
    /\ start' = "launch"
    /\ client' = "launching"
    /\ UNCHANGED <<status, timer, serverVars>>

StartEnds ==
    /\ start = "launch"
    /\ start' = "no"
    /\ \/ UNCHANGED <<status, client, timer>>
       \/ status' = "error" /\ client' = "gone" /\ ScheduleReconnect
    /\ UNCHANGED serverVars

---------------------------------------------------------------------------
(* sync_whatsapp_gateway_status.                                           *)

\* The settings row is read before the gateway is asked.
Ask(c) ==
    /\ checking[c] = "idle"
    /\ checking' = [checking EXCEPT ![c] = "asked"]
    /\ previous' = [previous EXCEPT ![c] = last]
    /\ UNCHANGED <<gatewayVars, last, answer, alerts, owed>>

\* get_whatsapp_gateway_status.
Answer(c) ==
    /\ checking[c] = "asked"
    /\ checking' = [checking EXCEPT ![c] = "answered"]
    /\ \E s \in {status, "unreachable"} : answer' = [answer EXCEPT ![c] = s]
    /\ UNCHANGED <<gatewayVars, last, previous, alerts, owed>>

MustAlertAlways(c) == answer[c] \in Problem
MustAlert(c) == previous[c] = "ready" /\ answer[c] \in Problem

\* The new status and the alert's delivery are committed together.
Record(c) ==
    /\ checking[c] = "answered"
    /\ checking' = [checking EXCEPT ![c] = "idle"]
    /\ last' = answer[c]
    /\ owed' = (answer[c] = "ready" \/ (owed /\ ~MustAlert(c)))
    /\ alerts' = IF answer[c] = "ready" THEN 0
                 ELSE IF MustAlert(c) /\ alerts < 2 THEN alerts + 1 ELSE alerts
    /\ UNCHANGED <<gatewayVars, previous, answer>>

Session == OnQr \/ OnAuthenticated \/ OnReady \/ OnFailure
Reconnect == OnTimer \/ NewClient \/ StartEnds

Next ==
    \/ Session \/ Reconnect
    \/ \E c \in Checkers : Ask(c) \/ Answer(c) \/ Record(c)

Spec == Init /\ [][Next]_vars

---------------------------------------------------------------------------
(* Properties.                                                             *)

\* One disconnection, one alert: a second comes only after the session was
\* seen ready again.
AlertedOnce == alerts <= 1

\* No check begins while another is under way.
OneCheck == \A c, d \in Checkers : checking[c] # "idle" /\ checking[d] # "idle" => c = d

\* "Alert when the WhatsApp session is disconnected" (the settings page): a
\* session that was ready, and now has a problem on record, was alerted.
DisconnectionAlerted == last \in Problem => ~owed

==========================================================================
