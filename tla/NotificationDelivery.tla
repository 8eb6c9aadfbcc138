----------------------- MODULE NotificationDelivery -----------------------
(***************************************************************************)
(* Delivery of the notifications about open cash alerts                    *)
(* (backend/app/services/notification_service.py).  A snapshot request     *)
(* notifies an alert inside its own transaction: it inserts a delivery,    *)
(* sends it, and commits with the rest of the snapshot.  What failed is    *)
(* retried by two threads, the background monitor and the dashboard's      *)
(* retry call, which exclude each other by a lock and commit before each   *)
(* send.  Sessions do not flush by themselves (autoflush=False): what a    *)
(* retry found out is not in the database before its next flush.           *)
(*                                                                         *)
(* A delivery is named by its alert, its recipient (channel and address)   *)
(* and the request that made it: a request makes at most one of them,      *)
(* since it makes none when one is committed.  Messages are not modelled.  *)
(***************************************************************************)
EXTENDS Integers, FiniteSets

CONSTANTS
    Alerts,        \* open cash alerts
    Recipients,    \* addresses a notification can go to
    Emails,        \* those that are e-mail addresses, the others are WhatsApp numbers
    Requests,      \* server threads that can handle a snapshot at the same time
    MaxAttempts,   \* MAX_DELIVERY_ATTEMPTS
    Sqlite,        \* TRUE: one writing transaction at a time, as in SQLite
    MaxFaults,     \* bound: restarts of the server, retries that lose the database
    MaxUnanswered  \* bound: messages that went out though the send failed

ASSUME DeliveryAssumption ==
    /\ Emails \subseteq Recipients
    /\ IsFiniteSet(Alerts) /\ IsFiniteSet(Recipients) /\ IsFiniteSet(Requests)
    /\ MaxAttempts \in Nat \ {0} /\ MaxFaults \in Nat /\ MaxUnanswered \in Nat
    /\ Sqlite \in BOOLEAN

VARIABLES
    defaults,      \* default addresses of the channels that are configured
    custom,        \* addresses of the ATM's own row, at most one of each kind
    enabled,       \* that row and the alert's kind are switched on
    status,        \* committed NotificationDelivery.status, "none" without a row
    attempts,      \* committed attempt_count
    due,           \* deliveries whose next_retry_at has come
    writer,        \* the request that holds SQLite's write lock, or Nobody
    step,          \* per request: where it is
    alert,         \* per request: the alert it notifies
    todo,          \* per request: recipients it has not come to yet
    at,            \* per request: the recipient it is working on
    mine,          \* per request: status of its own rows, not yet committed
    lock,          \* DELIVERY_RETRY_LOCK: the thread that holds it, or Nobody
    phase,         \* per retry thread: where it is
    batch,         \* per retry thread: failed deliveries still to be retried
    sending,       \* per retry thread: the deliveries, at most one, being sent
    unflushed,     \* per retry thread: outcomes not yet in the database
    received,      \* history: messages that reached each recipient, two for "more"
    faults,        \* history: such faults so far, for the bound
    unanswered,    \* history: such messages so far, for the bound
    overlapped     \* history: a snapshot was begun while another was notified

settingVars == <<defaults, custom, enabled>>
tableVars   == <<status, attempts, due>>
requestVars == <<writer, step, alert, todo, at, mine>>
retryVars   == <<lock, phase, batch, sending, unflushed>>
worldVars   == <<received, faults, unanswered, overlapped>>
vars == <<settingVars, tableVars, requestVars, retryVars, worldVars>>

Nobody    == "nobody"
Retriers  == {"monitor", "dashboard"}
Delivery  == Alerts \X Recipients \X Requests
Outcome   == {"sent", "failed", "skipped"}
Status    == {"none", "pending"} \cup Outcome

TypeOK ==
    /\ defaults \subseteq Recipients /\ custom \subseteq Recipients /\ enabled \in BOOLEAN
    /\ status \in [Delivery -> Status]
    /\ attempts \in [Delivery -> 0 .. MaxAttempts]
    /\ due \subseteq Delivery
    /\ writer \in Requests \cup {Nobody}
    /\ step \in [Requests -> {"idle", "check", "insert", "send"}]
    /\ alert \in [Requests -> Alerts]
    /\ todo \in [Requests -> SUBSET Recipients]
    /\ at \in [Requests -> SUBSET Recipients]
    /\ mine \in [Requests -> [Recipients -> Status]]
    /\ lock \in Retriers \cup {Nobody}
    /\ phase \in [Retriers -> {"idle", "next", "send", "commit"}]
    /\ batch \in [Retriers -> SUBSET Delivery]
    /\ sending \in [Retriers -> SUBSET Delivery]
    /\ unflushed \in [Retriers -> [Delivery -> Outcome \cup {"none"}]]
    /\ received \in [Alerts \X Recipients -> 0 .. 2]
    /\ faults \in 0 .. MaxFaults
    /\ unanswered \in 0 .. MaxUnanswered
    /\ overlapped \in BOOLEAN

Unnamed == [to \in Recipients |-> "none"]
Flushed == [d \in Delivery |-> "none"]

Init ==
    /\ defaults \in SUBSET Recipients /\ custom = {} /\ enabled = TRUE
    /\ status = [d \in Delivery |-> "none"]
    /\ attempts = [d \in Delivery |-> 0]
    /\ due = {}
    /\ writer = Nobody
    /\ step = [r \in Requests |-> "idle"]
    /\ alert \in [Requests -> Alerts]
    /\ todo = [r \in Requests |-> {}]
    /\ at = [r \in Requests |-> {}]
    /\ mine = [r \in Requests |-> Unnamed]
    /\ lock = Nobody
    /\ phase = [t \in Retriers |-> "idle"]
    /\ batch = [t \in Retriers |-> {}]
    /\ sending = [t \in Retriers |-> {}]
    /\ unflushed = [t \in Retriers |-> Flushed]
    /\ received = [p \in Alerts \X Recipients |-> 0]
    /\ faults = 0
    /\ unanswered = 0
    /\ overlapped = FALSE

---------------------------------------------------------------------------
(* The gateway and the mail server.                                        *)

\* send_whatsapp or send_email for alert a: the message goes out or not, and
\* the caller learns of it or not.
Send(a, to, outcome) ==
    \/ /\ outcome = "sent"
       /\ received' = [received EXCEPT ![<<a, to>>] = IF @ = 0 THEN 1 ELSE 2]
       /\ UNCHANGED unanswered
    \/ /\ outcome = "failed"
       /\ UNCHANGED <<received, unanswered>>
    \/ /\ outcome = "failed"
       /\ unanswered < MaxUnanswered
       /\ unanswered' = unanswered + 1
       /\ received' = [received EXCEPT ![<<a, to>>] = IF @ = 0 THEN 1 ELSE 2]

\* same_notification_sent_exists, on the committed rows.
SameSentExists(d) == \E r \in Requests \ {d[3]} : status[<<d[1], d[2], r>>] = "sent"

\* tracked_alert_delivery_exists: the request's own rows are of recipients it
\* is done with.
TrackedSent(a, to) == \E r \in Requests : status[<<a, to, r>>] = "sent"
Tracked(a, to) == \E r \in Requests : status[<<a, to, r>>] # "none"

---------------------------------------------------------------------------
(* notify_cash_alert_opened, in a snapshot request.                        *)

\* notification_recipient_for_atm: the ATM's own address replaces the default
\* one.  whatsapp_recipients_for_atm: its own number is added to the defaults.
EmailRecipient == IF custom \cap Emails # {} THEN custom \cap Emails ELSE defaults \cap Emails
WhatsAppRecipients == (defaults \cup custom) \ Emails
Effective == IF enabled THEN EmailRecipient \cup WhatsAppRecipients ELSE {}

\* sync_alert comes to an open alert: the settings are read once.
Begin(r) ==
    /\ step[r] = "idle"
    /\ \E a \in Alerts : alert' = [alert EXCEPT ![r] = a]
    /\ todo' = [todo EXCEPT ![r] = Effective]
    /\ step' = [step EXCEPT ![r] = "check"]
    /\ overlapped' = (overlapped \/ \E q \in Requests \ {r} : step[q] # "idle")
    /\ UNCHANGED <<settingVars, tableVars, writer, at, mine, retryVars, received, faults, unanswered>>

\* A recipient who has a delivery of this alert already gets no other.
Check(r) ==
    /\ step[r] = "check"
    /\ \E to \in todo[r] :
        /\ todo' = [todo EXCEPT ![r] = @ \ {to}]
        /\ IF Tracked(alert[r], to)
           THEN UNCHANGED <<step, at>>
           ELSE /\ step' = [step EXCEPT ![r] = "insert"]
                /\ at' = [at EXCEPT ![r] = {to}]
    /\ UNCHANGED <<settingVars, tableVars, writer, alert, mine, retryVars, worldVars>>

\* create_email_delivery or create_whatsapp_delivery up to the send: the
\* insert waits for the write lock.
Insert(r) ==
    /\ step[r] = "insert"
    /\ Sqlite => writer \in {Nobody, r}
    /\ writer' = IF Sqlite THEN r ELSE writer
    /\ \E to \in at[r] :
        IF SameSentExists(<<alert[r], to, r>>)
        THEN /\ mine' = [mine EXCEPT ![r][to] = "skipped"]
             /\ at' = [at EXCEPT ![r] = {}]
             /\ step' = [step EXCEPT ![r] = "check"]
        ELSE /\ mine' = [mine EXCEPT ![r][to] = "pending"]
             /\ step' = [step EXCEPT ![r] = "send"]
             /\ UNCHANGED at
    /\ UNCHANGED <<settingVars, tableVars, alert, todo, retryVars, worldVars>>

\* The wait for SQLite's lock runs out, the request fails and is rolled back.
LockTimeout(r) ==
    /\ Sqlite /\ step[r] = "insert" /\ writer \notin {Nobody, r}
    /\ step' = [step EXCEPT ![r] = "idle"]
    /\ todo' = [todo EXCEPT ![r] = {}]
    /\ at' = [at EXCEPT ![r] = {}]
    /\ mine' = [mine EXCEPT ![r] = Unnamed]
    /\ UNCHANGED <<settingVars, tableVars, writer, alert, retryVars, worldVars>>

\* The send inside the request's transaction, and what it comes to.
SendOwn(r) ==
    /\ step[r] = "send"
    /\ \E to \in at[r], outcome \in {"sent", "failed"} :
        /\ Send(alert[r], to, outcome)
        /\ mine' = [mine EXCEPT ![r][to] = outcome]
    /\ at' = [at EXCEPT ![r] = {}]
    /\ step' = [step EXCEPT ![r] = "check"]
    /\ UNCHANGED <<settingVars, tableVars, writer, alert, todo, retryVars, faults, overlapped>>

\* The snapshot is done and its transaction committed.
CommitSent(r) ==
    /\ step[r] = "check" /\ todo[r] = {}
    /\ LET Own == {d \in Delivery : d[1] = alert[r] /\ d[3] = r /\ mine[r][d[2]] = "sent"}
       IN  /\ status' = [d \in Delivery |-> IF d \in Own THEN mine[r][d[2]] ELSE status[d]]
           /\ attempts' = [d \in Delivery |-> IF d \in Own THEN 1 ELSE attempts[d]]
    /\ mine' = [mine EXCEPT ![r] = Unnamed]
    /\ step' = [step EXCEPT ![r] = "idle"]
    /\ writer' = IF writer = r THEN Nobody ELSE writer
    /\ UNCHANGED <<settingVars, due, alert, todo, at, retryVars, worldVars>>
Commit(r) ==
    /\ step[r] = "check" /\ todo[r] = {}
    /\ LET Own == {d \in Delivery : d[1] = alert[r] /\ d[3] = r /\ mine[r][d[2]] # "none"}
       IN  /\ status' = [d \in Delivery |-> IF d \in Own THEN mine[r][d[2]] ELSE status[d]]
           /\ attempts' = [d \in Delivery |->
                            IF d \in Own /\ mine[r][d[2]] # "skipped" THEN 1 ELSE attempts[d]]
    /\ mine' = [mine EXCEPT ![r] = Unnamed]
    /\ step' = [step EXCEPT ![r] = "idle"]
    /\ writer' = IF writer = r THEN Nobody ELSE writer
    /\ UNCHANGED <<settingVars, due, alert, todo, at, retryVars, worldVars>>

Proceed(r) == Check(r) \/ Insert(r) \/ SendOwn(r) \/ Commit(r)

---------------------------------------------------------------------------
(* retry_failed_notification_deliveries, in two threads.                   *)

RetryableOnceMore == {d \in Delivery : status[d] = "failed" /\ attempts[d] <= MaxAttempts}
Retryable == {d \in Delivery : status[d] = "failed" /\ attempts[d] < MaxAttempts}

\* DELIVERY_RETRY_DELAY_SECONDS have passed: next_retry_at is in the past.
BecomesDue(d) ==
    /\ d \in Retryable \ due
    /\ due' = due \cup {d}
    /\ UNCHANGED <<settingVars, status, attempts, requestVars, retryVars, worldVars>>

\* The candidates are read once; the dashboard's call does not wait for them
\* to be due.  A thread that finds the lock taken retries nothing.
StartRetryUnlocked(t) ==
    /\ phase[t] = "idle"
    /\ batch' = [batch EXCEPT ![t] = IF t = "dashboard" THEN Retryable ELSE Retryable \cap due]
    /\ batch'[t] # {}
    /\ lock' = t
    /\ phase' = [phase EXCEPT ![t] = "next"]
    /\ UNCHANGED <<settingVars, tableVars, requestVars, sending, unflushed, worldVars>>
StartRetry(t) ==
    /\ phase[t] = "idle" /\ lock = Nobody
    /\ batch' = [batch EXCEPT ![t] = IF t = "dashboard" THEN Retryable ELSE Retryable \cap due]
    /\ batch'[t] # {}
    /\ lock' = t
    /\ phase' = [phase EXCEPT ![t] = "next"]
    /\ UNCHANGED <<settingVars, tableVars, requestVars, sending, unflushed, worldVars>>

\* The status in the database once thread t has flushed.
AfterFlush(t) ==
    [d \in Delivery |-> IF unflushed[t][d] = "none" THEN status[d] ELSE unflushed[t][d]]

\* send_notification_delivery up to the commit that releases the database.
\* A skipped delivery waits for a later flush.
TakeUp(t) ==
    /\ phase[t] = "next"
    /\ \E d \in batch[t] :
        /\ batch' = [batch EXCEPT ![t] = @ \ {d}]
        /\ IF SameSentExists(d)
           THEN /\ unflushed' = [unflushed EXCEPT ![t][d] = "skipped"]
                /\ UNCHANGED <<tableVars, phase, sending>>
           ELSE /\ writer = Nobody
                /\ status' = [AfterFlush(t) EXCEPT ![d] = "pending"]
                /\ attempts' = [attempts EXCEPT ![d] = @ + 1]
                /\ due' = due \ {d}
                /\ unflushed' = [unflushed EXCEPT ![t] = Flushed]
                /\ sending' = [sending EXCEPT ![t] = {d}]
                /\ phase' = [phase EXCEPT ![t] = "send"]
    /\ UNCHANGED <<settingVars, requestVars, lock, worldVars>>

\* The send with no transaction open; mark_delivery_failed or sent.
SendAgain(t) ==
    /\ phase[t] = "send"
    /\ \E d \in sending[t], outcome \in {"sent", "failed"} :
        /\ Send(d[1], d[2], outcome)
        /\ unflushed' = [unflushed EXCEPT ![t][d] = outcome]
    /\ sending' = [sending EXCEPT ![t] = {}]
    /\ phase' = [phase EXCEPT ![t] = "next"]
    /\ UNCHANGED <<settingVars, tableVars, requestVars, lock, batch, faults, overlapped>>

\* The lock is given back before the caller commits.
EndRetry(t) ==
    /\ phase[t] = "next" /\ batch[t] = {}
    /\ lock' = Nobody
    /\ phase' = [phase EXCEPT ![t] = "commit"]
    /\ UNCHANGED <<settingVars, tableVars, requestVars, batch, sending, unflushed, worldVars>>

\* The commit of retry_failed_notification_deliveries_once or the router.
CommitRetryLost(t) ==
    /\ phase[t] = "commit" /\ writer = Nobody
    /\ unflushed' = [unflushed EXCEPT ![t] = Flushed]
    /\ phase' = [phase EXCEPT ![t] = "idle"]
    /\ UNCHANGED <<settingVars, tableVars, requestVars, lock, batch, sending, worldVars>>
CommitRetry(t) ==
    /\ phase[t] = "commit" /\ writer = Nobody
    /\ status' = AfterFlush(t)
    /\ unflushed' = [unflushed EXCEPT ![t] = Flushed]
    /\ phase' = [phase EXCEPT ![t] = "idle"]
    /\ UNCHANGED <<settingVars, attempts, due, requestVars, lock, batch, sending, worldVars>>

\* The wait for SQLite's lock runs out: what was not flushed is rolled back.
LoseDatabase(t) ==
    /\ phase[t] \in {"next", "commit"} /\ writer # Nobody
    /\ faults < MaxFaults
    /\ faults' = faults + 1
    /\ lock' = IF lock = t THEN Nobody ELSE lock
    /\ phase' = [phase EXCEPT ![t] = "idle"]
    /\ batch' = [batch EXCEPT ![t] = {}]
    /\ unflushed' = [unflushed EXCEPT ![t] = Flushed]
    /\ UNCHANGED <<settingVars, tableVars, requestVars, sending, received, unanswered, overlapped>>

Continue(t) == TakeUp(t) \/ SendAgain(t) \/ EndRetry(t) \/ CommitRetry(t)

---------------------------------------------------------------------------
(* The rest of the world.                                                  *)

\* update_notification_settings.
EditSettings ==
    /\ \E R \in SUBSET Recipients, on \in BOOLEAN : defaults' = R /\ enabled' = on
    /\ UNCHANGED <<custom, tableVars, requestVars, retryVars, worldVars>>

\* update_notification_recipients keeps one number of those it is given.
EditRecipients ==
    /\ \E R \in SUBSET Recipients, on \in BOOLEAN :
        /\ Cardinality(R \cap Emails) <= 1 /\ Cardinality(R \ Emails) <= 1
        /\ custom' = R /\ enabled' = on
    /\ UNCHANGED <<defaults, tableVars, requestVars, retryVars, worldVars>>

\* The server restarts: transactions are rolled back, locks and threads gone.
Crash ==
    /\ faults < MaxFaults
    /\ faults' = faults + 1
    /\ writer' = Nobody
    /\ step' = [r \in Requests |-> "idle"]
    /\ todo' = [r \in Requests |-> {}]
    /\ at' = [r \in Requests |-> {}]
    /\ mine' = [r \in Requests |-> Unnamed]
    /\ lock' = Nobody
    /\ phase' = [t \in Retriers |-> "idle"]
    /\ batch' = [t \in Retriers |-> {}]
    /\ sending' = [t \in Retriers |-> {}]
    /\ unflushed' = [t \in Retriers |-> Flushed]
    /\ UNCHANGED <<settingVars, tableVars, alert, received, unanswered, overlapped>>

Next ==
    \/ \E r \in Requests : Begin(r) \/ Proceed(r) \/ LockTimeout(r)
    \/ \E t \in Retriers : StartRetry(t) \/ Continue(t) \/ LoseDatabase(t)
    \/ \E d \in Delivery : BecomesDue(d)
    \/ EditSettings \/ EditRecipients
    \/ Crash

Spec == Init /\ [][Next]_vars

\* The ATM goes on sending snapshots while an alert is open, requests and
\* retries come to their end (every send has a timeout), and time passes.
\* Who waits for SQLite's lock gets it, as the transactions are short and far
\* between.  Nobody has to press the dashboard's button.
FairSpec ==
    /\ Spec
    /\ \A r \in Requests : SF_vars(Proceed(r))
    /\ \A a \in Alerts : SF_vars(\E r \in Requests : Begin(r) /\ alert'[r] = a)
    /\ SF_vars(StartRetry("monitor"))
    /\ \A t \in Retriers : SF_vars(Continue(t))
    /\ \A d \in Delivery : WF_vars(BecomesDue(d))

---------------------------------------------------------------------------
(* Properties.                                                             *)

\* One retry at a time sends, and none sends what a request still holds.
RetriesExclude ==
    /\ \A t \in Retriers : phase[t] \in {"next", "send"} => lock = t
    /\ \A t \in Retriers : \A d \in batch[t] \cup sending[t] :
            status[d] # "none" /\ attempts[d] > 0

\* "Skipped because this notification was already sent successfully to this
\* recipient": nobody is sent the same alert twice.
NoDuplicate == \A p \in Alerts \X Recipients : received[p] < 2

\* So it is when snapshots come one after the other, every send is answered and
\* neither the server nor its database fails.
NoDuplicateInTurn == ~overlapped /\ unanswered = 0 /\ faults = 0 => NoDuplicate

Settles(d) ==
    status[d] # "none" ~>
        status[d] \in {"sent", "skipped"} \/ (status[d] = "failed" /\ attempts[d] = MaxAttempts)

\* Every delivery ends: sent, skipped, or failed for the last time.
DeliveriesSettle == \A d \in Delivery : Settles(d)

IsDelivered(p) == <>[](p[2] \in Effective) => <>Tracked(p[1], p[2])

\* Whoever stays a recipient gets a delivery of every open alert, whatever
\* transactions were rolled back.
AlertsAreDelivered == \A p \in Alerts \X Recipients : IsDelivered(p)

===========================================================================
