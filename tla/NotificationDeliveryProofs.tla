---------------------- MODULE NotificationDeliveryProofs ----------------------
(***************************************************************************)
(* Theorems about NotificationDelivery for every number of alerts,         *)
(* recipients, requests, attempts and faults, on SQLite and elsewhere: its *)
(* types, that the two retry threads exclude each other, and that nobody   *)
(* gets an alert twice while snapshots come one after the other and        *)
(* nothing fails.                                                          *)
(***************************************************************************)
EXTENDS Notifications, TLAPS

---------------------------------------------------------------------------
(* The inductive invariant.                                                *)

\* A request's own rows are not yet in the table, and it has none when it is
\* not at work.
OwnInv ==
    \A r \in Requests :
        /\ step[r] = "idle" => mine[r] = Unnamed
        /\ step[r] \in {"idle", "check"} => at[r] = {}
        /\ \A to \in Recipients :
            mine[r][to] # "none" \/ to \in at[r] => status[<<alert[r], to, r>>] = "none"

\* What a retry holds was tried before, and fewer times than are allowed.
RetryInv ==
    /\ RetriesExclude
    /\ \A t \in Retriers :
        /\ phase[t] \in {"idle", "commit"} => batch[t] = {}
        /\ phase[t] # "send" => sending[t] = {}
        /\ \A d \in batch[t] : attempts[d] < MaxAttempts
        /\ \A d \in Delivery : unflushed[t][d] # "none" => status[d] # "none" /\ attempts[d] > 0
    /\ \A d \in Delivery : status[d] = "failed" => attempts[d] > 0

TypeInv == TypeOK /\ OwnInv /\ RetryInv

---------------------------------------------------------------------------
(* TypeInv.                                                                *)

\* A message changes nothing but what was received.
LEMMA SendType ==
    ASSUME TypeOK, NEW a \in Alerts, NEW to \in Recipients, NEW outcome, Send(a, to, outcome)
    PROVE  /\ received' \in [Alerts \X Recipients -> 0 .. 2]
           /\ unanswered' \in 0 .. MaxUnanswered
<1>1. received \in [Alerts \X Recipients -> 0 .. 2] /\ unanswered \in 0 .. MaxUnanswered
      /\ MaxUnanswered \in Nat
  BY DeliveryAssumption DEF TypeOK
<1> QED
  BY <1>1 DEF Send

\* The recipients an alert goes to are recipients.
LEMMA EffectiveType == TypeOK => Effective \in SUBSET Recipients
BY DEF TypeOK, Effective, EmailRecipient, WhatsAppRecipients

LEMMA InitType == ASSUME Init PROVE TypeInv
<1>1. MaxAttempts \in Nat /\ MaxFaults \in Nat /\ MaxUnanswered \in Nat
  BY DeliveryAssumption
<1>2. /\ Unnamed \in [Recipients -> Status]
      /\ Flushed \in [Delivery -> Outcome \cup {"none"}]
      /\ status \in [Delivery -> Status]
  BY DEF Init, Unnamed, Flushed, Status, Outcome
<1>3. TypeOK
  <2>1. /\ defaults \subseteq Recipients /\ custom \subseteq Recipients /\ enabled \in BOOLEAN
        /\ overlapped \in BOOLEAN
    BY DEF Init
  <2>2. /\ attempts \in [Delivery -> 0 .. MaxAttempts] /\ due \subseteq Delivery
        /\ received \in [Alerts \X Recipients -> 0 .. 2]
        /\ faults \in 0 .. MaxFaults /\ unanswered \in 0 .. MaxUnanswered
    BY <1>1 DEF Init
  <2> QED
    BY <1>2, <2>1, <2>2 DEF Init, TypeOK
<1>4. OwnInv
  BY DEF Init, OwnInv, Unnamed, Delivery
<1>5. RetryInv
  BY DEF Init, RetryInv, RetriesExclude, Flushed
<1> QED
  BY <1>3, <1>4, <1>5 DEF TypeInv

\* A step of a request that commits nothing.
LEMMA RequestStep ==
    ASSUME TypeInv, NEW r \in Requests,
           Begin(r) \/ Check(r) \/ Insert(r) \/ LockTimeout(r) \/ SendOwn(r)
    PROVE  TypeInv'
<1>1. UNCHANGED <<settingVars, tableVars, retryVars, faults>>
  BY DEF Begin, Check, Insert, LockTimeout, SendOwn, worldVars
<1>2. RetryInv'
  BY <1>1 DEF TypeInv, RetryInv, RetriesExclude, tableVars, retryVars
<1>3. CASE Begin(r)
  <2>1. Effective \in SUBSET Recipients
    BY EffectiveType DEF TypeInv
  <2>2. TypeOK'
    BY <1>1, <1>3, <2>1 DEF TypeInv, TypeOK, Begin, settingVars, tableVars, retryVars
  <2>3. OwnInv'
    BY <1>1, <1>3 DEF TypeInv, TypeOK, OwnInv, Begin, settingVars, tableVars, retryVars, Unnamed
  <2> QED
    BY <1>2, <2>2, <2>3 DEF TypeInv
<1>4. CASE Check(r)
  <2>1. PICK to \in todo[r] :
          /\ todo' = [todo EXCEPT ![r] = @ \ {to}]
          /\ \/ Tracked(alert[r], to) /\ step' = step /\ at' = at
             \/ /\ ~Tracked(alert[r], to)
                /\ step' = [step EXCEPT ![r] = "insert"]
                /\ at' = [at EXCEPT ![r] = {to}]
    BY <1>4 DEF Check
  <2>2. to \in Recipients /\ <<writer, alert, mine, worldVars>>' = <<writer, alert, mine, worldVars>>
    BY <1>4 DEF TypeInv, TypeOK, Check
  <2>3. /\ todo' \in [Requests -> SUBSET Recipients]
        /\ at' \in [Requests -> SUBSET Recipients]
        /\ step' \in [Requests -> {"idle", "check", "insert", "send"}]
    <3>1. todo[r] \ {to} \in SUBSET Recipients /\ {to} \in SUBSET Recipients
      BY <2>2 DEF TypeInv, TypeOK
    <3>2. todo' \in [Requests -> SUBSET Recipients]
      BY <2>1, <3>1 DEF TypeInv, TypeOK
    <3>3. at' \in [Requests -> SUBSET Recipients]
      BY <2>1, <3>1 DEF TypeInv, TypeOK
    <3>4. step' \in [Requests -> {"idle", "check", "insert", "send"}]
      BY <2>1 DEF TypeInv, TypeOK
    <3> QED
      BY <3>2, <3>3, <3>4
  <2>4. TypeOK'
    BY <1>1, <2>2, <2>3 DEF TypeInv, TypeOK, settingVars, tableVars, retryVars, worldVars
  <2>5. OwnInv'
    <3> SUFFICES ASSUME NEW q \in Requests
                 PROVE  /\ step'[q] = "idle" => mine'[q] = Unnamed
                        /\ step'[q] \in {"idle", "check"} => at'[q] = {}
                        /\ \A x \in Recipients :
                             mine'[q][x] # "none" \/ x \in at'[q] => status'[<<alert'[q], x, q>>] = "none"
      BY DEF OwnInv, Unnamed
    <3>1. status' = status /\ mine' = mine /\ alert' = alert /\ step[r] = "check"
      BY <1>1, <1>4, <2>2 DEF tableVars, Check
    <3>2. /\ step[q] = "idle" => mine[q] = Unnamed
          /\ step[q] \in {"idle", "check"} => at[q] = {}
          /\ \A x \in Recipients : mine[q][x] # "none" \/ x \in at[q] => status[<<alert[q], x, q>>] = "none"
      BY DEF TypeInv, OwnInv
    <3>3. ~Tracked(alert[r], to) => status[<<alert[r], to, r>>] = "none"
      BY DEF Tracked
    <3>4. CASE q = r
      <4>1. CASE at' = at /\ step' = step
        BY <3>1, <3>2, <4>1
      <4>2. CASE step'[r] = "insert" /\ at'[r] = {to} /\ status[<<alert[r], to, r>>] = "none"
        BY <3>1, <3>2, <3>4, <4>2
      <4> QED
        BY <2>1, <3>3, <4>1, <4>2 DEF TypeInv, TypeOK
    <3>5. CASE q # r
      BY <2>1, <3>1, <3>2, <3>5 DEF TypeInv, TypeOK
    <3> QED
      BY <3>4, <3>5
  <2> QED
    BY <1>2, <2>4, <2>5 DEF TypeInv
<1>5. CASE Insert(r)
  <2>1. PICK to \in at[r] :
          \/ /\ mine' = [mine EXCEPT ![r][to] = "skipped"]
             /\ at' = [at EXCEPT ![r] = {}]
             /\ step' = [step EXCEPT ![r] = "check"]
          \/ /\ mine' = [mine EXCEPT ![r][to] = "pending"]
             /\ step' = [step EXCEPT ![r] = "send"]
             /\ at' = at
    BY <1>5 DEF Insert
  <2>2. to \in Recipients /\ <<alert, todo, worldVars>>' = <<alert, todo, worldVars>>
        /\ writer' \in Requests \cup {Nobody}
    BY <1>5 DEF TypeInv, TypeOK, Insert
  <2>3. mine' \in [Requests -> [Recipients -> Status]]
    <3>1. mine \in [Requests -> [Recipients -> Status]] /\ "skipped" \in Status /\ "pending" \in Status
      BY DEF TypeInv, TypeOK, Status, Outcome
    <3> QED
      BY <2>1, <2>2, <3>1
  <2>4. at' \in [Requests -> SUBSET Recipients]
        /\ step' \in [Requests -> {"idle", "check", "insert", "send"}]
    BY <2>1, <2>2 DEF TypeInv, TypeOK
  <2>5. TypeOK'
    BY <1>1, <2>2, <2>3, <2>4 DEF TypeInv, TypeOK, settingVars, tableVars, retryVars, worldVars
  <2>6. OwnInv'
    BY <1>1, <1>5, <2>1, <2>2 DEF TypeInv, TypeOK, OwnInv, Insert, tableVars
  <2> QED
    BY <1>2, <2>5, <2>6 DEF TypeInv
<1>6. CASE LockTimeout(r)
  <2>1. TypeOK'
    BY <1>1, <1>6 DEF TypeInv, TypeOK, LockTimeout, settingVars, tableVars, retryVars, worldVars, Status, Unnamed
  <2>2. OwnInv'
    BY <1>1, <1>6 DEF TypeInv, TypeOK, OwnInv, LockTimeout, settingVars, tableVars, retryVars, Unnamed
  <2> QED
    BY <1>2, <2>1, <2>2 DEF TypeInv
<1>7. CASE SendOwn(r)
  <2>1. PICK to \in at[r], outcome \in {"sent", "failed"} :
            Send(alert[r], to, outcome) /\ mine' = [mine EXCEPT ![r][to] = outcome]
    BY <1>7 DEF SendOwn
  <2>2. to \in Recipients /\ alert[r] \in Alerts
    BY DEF TypeInv, TypeOK
  <2>3. TypeOK'
    BY <1>1, <1>7, <2>1, <2>2, SendType
    DEF TypeInv, TypeOK, SendOwn, settingVars, tableVars, retryVars, Status, Outcome
  <2>4. OwnInv'
    BY <1>1, <1>7, <2>1, <2>2 DEF TypeInv, TypeOK, OwnInv, SendOwn, settingVars, tableVars, retryVars
  <2> QED
    BY <1>2, <2>3, <2>4 DEF TypeInv
<1> QED
  BY <1>3, <1>4, <1>5, <1>6, <1>7

\* A request's commit writes its own rows, which nobody else has seen.
LEMMA CommitStep == ASSUME TypeInv, NEW r \in Requests, Commit(r) PROVE TypeInv'
<1> DEFINE Own == {d \in Delivery : d[1] = alert[r] /\ d[3] = r /\ mine[r][d[2]] # "none"}
<1>1. /\ step[r] = "check"
      /\ status' = [d \in Delivery |-> IF d \in Own THEN mine[r][d[2]] ELSE status[d]]
      /\ attempts' = [d \in Delivery |->
                       IF d \in Own /\ mine[r][d[2]] # "skipped" THEN 1 ELSE attempts[d]]
      /\ mine' = [mine EXCEPT ![r] = Unnamed]
      /\ step' = [step EXCEPT ![r] = "idle"]
      /\ writer' = IF writer = r THEN Nobody ELSE writer
      /\ UNCHANGED <<settingVars, due, alert, todo, at, retryVars, worldVars>>
  BY DEF Commit
<1>2. \A d \in Own : d[1] \in Alerts /\ d[2] \in Recipients /\ mine[r][d[2]] \in Status \ {"none"}
  BY DEF Delivery, TypeInv, TypeOK
<1>3. \A d \in Own : status[d] = "none"
  <2> SUFFICES ASSUME NEW d \in Own PROVE status[d] = "none"
    OBVIOUS
  <2>1. d = <<alert[r], d[2], r>> /\ d[2] \in Recipients
    BY DEF Delivery
  <2> QED
    BY <2>1 DEF TypeInv, OwnInv
<1> HIDE DEF Own
<1>4. TypeOK'
  <2>1. status' \in [Delivery -> Status]
    BY <1>1, <1>2 DEF TypeInv, TypeOK
  <2>2. attempts' \in [Delivery -> 0 .. MaxAttempts]
    BY <1>1, DeliveryAssumption DEF TypeInv, TypeOK
  <2>3. mine' \in [Requests -> [Recipients -> Status]]
    BY <1>1 DEF TypeInv, TypeOK, Unnamed, Status
  <2>4. step' \in [Requests -> {"idle", "check", "insert", "send"}]
        /\ writer' \in Requests \cup {Nobody}
    BY <1>1 DEF TypeInv, TypeOK
  <2> QED
    BY <1>1, <2>1, <2>2, <2>3, <2>4 DEF TypeInv, TypeOK, settingVars, retryVars, worldVars
<1>5. OwnInv'
  <2> SUFFICES ASSUME NEW q \in Requests
               PROVE  /\ step'[q] = "idle" => mine'[q] = Unnamed
                      /\ step'[q] \in {"idle", "check"} => at'[q] = {}
                      /\ \A x \in Recipients :
                           mine'[q][x] # "none" \/ x \in at'[q] => status'[<<alert'[q], x, q>>] = "none"
    BY DEF OwnInv, Unnamed
  <2>1. /\ step[q] = "idle" => mine[q] = Unnamed
        /\ step[q] \in {"idle", "check"} => at[q] = {}
        /\ \A x \in Recipients : mine[q][x] # "none" \/ x \in at[q] => status[<<alert[q], x, q>>] = "none"
    BY DEF TypeInv, OwnInv
  <2>2. CASE q = r
    BY <1>1, <2>1, <2>2 DEF TypeInv, TypeOK, Unnamed
  <2>3. CASE q # r
    <3>1. \A x \in Recipients : <<alert[q], x, q>> \in Delivery \ Own
      BY <2>3 DEF Delivery, Own, TypeInv, TypeOK
    <3> QED
      BY <1>1, <2>1, <2>3, <3>1 DEF TypeInv, TypeOK
  <2> QED
    BY <2>2, <2>3
<1>6. RetryInv'
  <2>1. \A d \in Delivery : status[d] # "none" =>
            d \notin Own /\ status'[d] = status[d] /\ attempts'[d] = attempts[d]
    BY <1>1, <1>3
  <2>2. \A d \in Own : status'[d] = "failed" => attempts'[d] > 0
    BY <1>1, <1>2 DEF Own
  <2>3. \A d \in Delivery : status'[d] = "failed" => attempts'[d] > 0
    BY <1>1, <2>1, <2>2 DEF TypeInv, RetryInv
  <2>4. \A t \in Retriers : batch[t] \subseteq Delivery /\ sending[t] \subseteq Delivery
    BY DEF TypeInv, TypeOK
  <2> QED
    BY <1>1, <2>1, <2>3, <2>4 DEF TypeInv, RetryInv, RetriesExclude, retryVars
<1> QED
  BY <1>4, <1>5, <1>6 DEF TypeInv

\* What a retry thread puts into the table: rows that are there already.
LEMMA AfterFlushType ==
    ASSUME TypeInv, NEW t \in Retriers
    PROVE  /\ AfterFlush(t) \in [Delivery -> Status]
           /\ \A d \in Delivery : AfterFlush(t)[d] = "none" <=> status[d] = "none"
           /\ \A d \in Delivery : AfterFlush(t)[d] = "failed" => attempts[d] > 0
<1>1. unflushed[t] \in [Delivery -> Outcome \cup {"none"}] /\ status \in [Delivery -> Status]
  BY DEF TypeInv, TypeOK
<1>2. \A d \in Delivery : unflushed[t][d] # "none" => status[d] # "none" /\ attempts[d] > 0
  BY DEF TypeInv, RetryInv
<1>3. \A d \in Delivery : status[d] = "failed" => attempts[d] > 0
  BY DEF TypeInv, RetryInv
<1> QED
  BY <1>1, <1>2, <1>3 DEF AfterFlush, Status, Outcome

\* A request's own rows stay its own while the table gains no row.
LEMMA OwnKept ==
    ASSUME TypeInv, requestVars' = requestVars,
           \A d \in Delivery : status[d] = "none" => status'[d] = "none"
    PROVE  OwnInv'
<1>1. \A r \in Requests, to \in Recipients : <<alert[r], to, r>> \in Delivery
  BY DEF TypeInv, TypeOK, Delivery
<1> QED
  BY <1>1 DEF TypeInv, OwnInv, requestVars, Unnamed

\* Whoever finds the lock free finds the other thread with nothing in hand.
LEMMA OtherIdle ==
    ASSUME TypeInv, NEW t \in Retriers, NEW u \in Retriers, u # t, lock \in {t, Nobody}
    PROVE  phase[u] \in {"idle", "commit"} /\ batch[u] = {} /\ sending[u] = {}
<1>1. lock # u
  BY DEF Retriers, Nobody
<1>2. phase[u] \in {"idle", "next", "send", "commit"}
  BY DEF TypeInv, TypeOK
<1> QED
  BY <1>1, <1>2 DEF TypeInv, RetryInv, RetriesExclude

\* A retry begins, on failed deliveries that were tried before.
LEMMA StartRetryStep == ASSUME TypeInv, NEW t \in Retriers, StartRetry(t) PROVE TypeInv'
<1> DEFINE B == IF t = "dashboard" THEN Retryable ELSE Retryable \cap due
<1>1. /\ lock = Nobody /\ lock' = t
      /\ batch' = [batch EXCEPT ![t] = B]
      /\ phase' = [phase EXCEPT ![t] = "next"]
      /\ phase[t] = "idle"
      /\ UNCHANGED <<settingVars, tableVars, requestVars, sending, unflushed, worldVars>>
  BY DEF StartRetry
<1>2. B \subseteq Delivery /\ \A d \in B : status[d] # "none" /\ attempts[d] \in 1 .. (MaxAttempts - 1)
  BY DeliveryAssumption DEF Retryable, TypeInv, TypeOK, RetryInv
<1> HIDE DEF B
<1>3. batch' \in [Retriers -> SUBSET Delivery] /\ batch'[t] = B
      /\ phase' \in [Retriers -> {"idle", "next", "send", "commit"}] /\ phase'[t] = "next"
  BY <1>1, <1>2 DEF TypeInv, TypeOK
<1>4. TypeOK'
  BY <1>1, <1>3 DEF TypeInv, TypeOK, settingVars, tableVars, requestVars, worldVars
<1>5. OwnInv'
  BY <1>1, OwnKept DEF tableVars
<1>6. \A u \in Retriers \ {t} :
        phase'[u] = phase[u] /\ batch'[u] = {} /\ sending[u] = {} /\ phase[u] \in {"idle", "commit"}
  BY <1>1, OtherIdle DEF TypeInv, TypeOK
<1>7. sending[t] = {}
  BY <1>1 DEF TypeInv, RetryInv
<1>8. RetriesExclude'
  BY <1>1, <1>2, <1>3, <1>6, <1>7 DEF RetriesExclude, tableVars
<1>9. RetryInv'
  BY <1>1, <1>2, <1>3, <1>6, <1>7, <1>8, DeliveryAssumption DEF RetryInv, TypeInv, tableVars
<1> QED
  BY <1>4, <1>5, <1>9 DEF TypeInv

\* A retry takes a delivery up: skipped, or committed as pending and counted.
LEMMA TakeUpStep == ASSUME TypeInv, NEW t \in Retriers, TakeUp(t) PROVE TypeInv'
<1>1. PICK d \in batch[t] :
        /\ batch' = [batch EXCEPT ![t] = @ \ {d}]
        /\ \/ /\ unflushed' = [unflushed EXCEPT ![t][d] = "skipped"]
              /\ UNCHANGED <<tableVars, phase, sending>>
           \/ /\ status' = [AfterFlush(t) EXCEPT ![d] = "pending"]
              /\ attempts' = [attempts EXCEPT ![d] = @ + 1]
              /\ due' = due \ {d}
              /\ unflushed' = [unflushed EXCEPT ![t] = Flushed]
              /\ sending' = [sending EXCEPT ![t] = {d}]
              /\ phase' = [phase EXCEPT ![t] = "send"]
  BY DEF TakeUp
<1>2. phase[t] = "next" /\ lock = t
      /\ UNCHANGED <<settingVars, requestVars, lock, worldVars>>
  BY DEF TakeUp, TypeInv, RetryInv, RetriesExclude
<1>3. d \in Delivery /\ status[d] # "none" /\ attempts[d] > 0 /\ attempts[d] < MaxAttempts
      /\ attempts[d] \in 0 .. MaxAttempts /\ MaxAttempts \in Nat
  BY DeliveryAssumption DEF TypeInv, TypeOK, RetryInv, RetriesExclude
<1>4. batch' \in [Retriers -> SUBSET Delivery] /\ batch'[t] = batch[t] \ {d}
      /\ \A u \in Retriers \ {t} : batch'[u] = {} /\ sending[u] = {} /\ phase[u] \in {"idle", "commit"}
  BY <1>1, <1>2, OtherIdle DEF TypeInv, TypeOK
<1>5. sending[t] = {}
  BY <1>2 DEF TypeInv, RetryInv
<1>6. /\ \A e \in batch[t] : status[e] # "none" /\ attempts[e] > 0 /\ attempts[e] < MaxAttempts
      /\ \A u \in Retriers : \A e \in Delivery :
            unflushed[u][e] # "none" => status[e] # "none" /\ attempts[e] > 0
      /\ \A e \in Delivery : status[e] = "failed" => attempts[e] > 0
      /\ \A u \in Retriers : (phase[u] \in {"idle", "commit"} => batch[u] = {})
      /\ batch[t] \subseteq Delivery
  BY DEF TypeInv, TypeOK, RetryInv, RetriesExclude
<1>7. CASE /\ unflushed' = [unflushed EXCEPT ![t][d] = "skipped"]
           /\ UNCHANGED <<tableVars, phase, sending>>
  <2>1. unflushed' \in [Retriers -> [Delivery -> Outcome \cup {"none"}]]
    <3>1. unflushed \in [Retriers -> [Delivery -> Outcome \cup {"none"}]] /\ "skipped" \in Outcome
      BY DEF TypeInv, TypeOK, Outcome
    <3> QED
      BY <1>3, <1>7, <3>1
  <2>2. TypeOK'
    BY <1>2, <1>4, <1>7, <2>1 DEF TypeInv, TypeOK, settingVars, tableVars, requestVars, worldVars
  <2>3. OwnInv'
    BY <1>2, <1>7, OwnKept DEF tableVars
  <2>4. RetriesExclude'
    BY <1>2, <1>4, <1>5, <1>6, <1>7 DEF RetriesExclude, tableVars
  <2>5. \A u \in Retriers : \A e \in Delivery :
            unflushed'[u][e] # "none" => status[e] # "none" /\ attempts[e] > 0
    BY <1>3, <1>6, <1>7 DEF TypeInv, TypeOK
  <2>6. RetryInv'
    BY <1>2, <1>4, <1>5, <1>6, <1>7, <2>4, <2>5 DEF RetryInv, tableVars
  <2> QED
    BY <2>2, <2>3, <2>6 DEF TypeInv
<1>8. CASE /\ status' = [AfterFlush(t) EXCEPT ![d] = "pending"]
           /\ attempts' = [attempts EXCEPT ![d] = @ + 1]
           /\ due' = due \ {d}
           /\ unflushed' = [unflushed EXCEPT ![t] = Flushed]
           /\ sending' = [sending EXCEPT ![t] = {d}]
           /\ phase' = [phase EXCEPT ![t] = "send"]
  <2>1. /\ AfterFlush(t) \in [Delivery -> Status]
        /\ \A e \in Delivery : AfterFlush(t)[e] = "none" <=> status[e] = "none"
        /\ \A e \in Delivery : AfterFlush(t)[e] = "failed" => attempts[e] > 0
    BY AfterFlushType
  <2>2. /\ status' \in [Delivery -> Status]
        /\ \A e \in Delivery : status'[e] = "none" <=> status[e] = "none"
        /\ \A e \in Delivery : status'[e] = "failed" => attempts[e] > 0
    BY <1>3, <1>8, <2>1 DEF Status
  <2>3. /\ attempts' \in [Delivery -> 0 .. MaxAttempts]
        /\ \A e \in Delivery : attempts[e] > 0 => attempts'[e] > 0
        /\ \A e \in Delivery \ {d} : attempts'[e] = attempts[e]
        /\ attempts'[d] > 0
    <3>1. attempts \in [Delivery -> 0 .. MaxAttempts]
      BY DEF TypeInv, TypeOK
    <3> QED
      BY <1>3, <1>8, <3>1
  <2>4. Flushed \in [Delivery -> Outcome \cup {"none"}] /\ \A e \in Delivery : Flushed[e] = "none"
    BY DEF Flushed
  <2>5. unflushed' \in [Retriers -> [Delivery -> Outcome \cup {"none"}]]
    BY <1>8, <2>4 DEF TypeInv, TypeOK
  <2>6. \A u \in Retriers : \A e \in Delivery :
            unflushed'[u][e] # "none" => status'[e] # "none" /\ attempts'[e] > 0
    BY <1>6, <1>8, <2>2, <2>3, <2>4 DEF TypeInv, TypeOK
  <2>7. /\ sending' \in [Retriers -> SUBSET Delivery] /\ sending'[t] = {d}
        /\ phase' \in [Retriers -> {"idle", "next", "send", "commit"}] /\ phase'[t] = "send"
        /\ \A u \in Retriers \ {t} : sending'[u] = {} /\ phase'[u] = phase[u]
    BY <1>3, <1>4, <1>8 DEF TypeInv, TypeOK
  <2>8. TypeOK'
    BY <1>2, <1>4, <1>8, <2>2, <2>3, <2>5, <2>7 DEF TypeInv, TypeOK, settingVars, requestVars, worldVars
  <2>9. OwnInv'
    BY <1>2, <2>2, OwnKept
  <2>10. RetriesExclude'
    BY <1>2, <1>3, <1>4, <1>6, <2>2, <2>3, <2>7 DEF RetriesExclude
  <2>11. RetryInv'
    BY <1>2, <1>3, <1>4, <1>6, <2>2, <2>3, <2>6, <2>7, <2>10 DEF RetryInv
  <2> QED
    BY <2>8, <2>9, <2>11 DEF TypeInv
<1> QED
  BY <1>1, <1>7, <1>8

\* The retry's send is noted in the thread, not in the table.
LEMMA SendAgainStep == ASSUME TypeInv, NEW t \in Retriers, SendAgain(t) PROVE TypeInv'
<1>1. PICK d \in sending[t], outcome \in {"sent", "failed"} :
        Send(d[1], d[2], outcome) /\ unflushed' = [unflushed EXCEPT ![t][d] = outcome]
  BY DEF SendAgain
<1>2. /\ phase[t] = "send"
      /\ sending' = [sending EXCEPT ![t] = {}]
      /\ phase' = [phase EXCEPT ![t] = "next"]
      /\ UNCHANGED <<settingVars, tableVars, requestVars, lock, batch, faults, overlapped>>
  BY DEF SendAgain
<1>3. /\ d \in Delivery /\ d[1] \in Alerts /\ d[2] \in Recipients
      /\ lock = t /\ status[d] # "none" /\ attempts[d] > 0
  BY <1>2 DEF TypeInv, TypeOK, RetryInv, RetriesExclude, Delivery
<1>4. received' \in [Alerts \X Recipients -> 0 .. 2] /\ unanswered' \in 0 .. MaxUnanswered
  BY <1>1, <1>3, SendType DEF TypeInv
<1>5. unflushed' \in [Retriers -> [Delivery -> Outcome \cup {"none"}]]
  <2>1. unflushed \in [Retriers -> [Delivery -> Outcome \cup {"none"}]] /\ outcome \in Outcome
    BY DEF TypeInv, TypeOK, Outcome
  <2> QED
    BY <1>1, <1>3, <2>1
<1>6. /\ sending' \in [Retriers -> SUBSET Delivery] /\ sending'[t] = {}
      /\ phase' \in [Retriers -> {"idle", "next", "send", "commit"}] /\ phase'[t] = "next"
      /\ \A u \in Retriers \ {t} : sending'[u] = sending[u] /\ phase'[u] = phase[u]
  BY <1>2 DEF TypeInv, TypeOK
<1>7. TypeOK'
  BY <1>2, <1>4, <1>5, <1>6 DEF TypeInv, TypeOK, settingVars, tableVars, requestVars
<1>8. OwnInv'
  BY <1>2, OwnKept DEF tableVars
<1>9. RetriesExclude'
  BY <1>2, <1>3, <1>6 DEF TypeInv, RetryInv, RetriesExclude, tableVars
<1>10. \A u \in Retriers : \A e \in Delivery :
            unflushed'[u][e] # "none" => status[e] # "none" /\ attempts[e] > 0
  <2>1. \A u \in Retriers : \A e \in Delivery :
            unflushed[u][e] # "none" => status[e] # "none" /\ attempts[e] > 0
    BY DEF TypeInv, RetryInv
  <2> QED
    BY <1>1, <1>3, <2>1 DEF TypeInv, TypeOK
<1>11. RetryInv'
  BY <1>2, <1>6, <1>9, <1>10 DEF TypeInv, RetryInv, tableVars
<1> QED
  BY <1>7, <1>8, <1>11 DEF TypeInv

\* A thread comes to its end: the lock goes first, what it found out after it.
LEMMA EndStep ==
    ASSUME TypeInv, NEW t \in Retriers, EndRetry(t) \/ CommitRetry(t) \/ LoseDatabase(t)
    PROVE  TypeInv'
<1>1. CASE EndRetry(t)
  <2>1. /\ phase[t] = "next" /\ batch[t] = {} /\ sending[t] = {} /\ lock = t
        /\ lock' = Nobody /\ phase' = [phase EXCEPT ![t] = "commit"]
        /\ UNCHANGED <<settingVars, tableVars, requestVars, batch, sending, unflushed, worldVars>>
    BY <1>1 DEF EndRetry, TypeInv, RetryInv, RetriesExclude
  <2>2. /\ phase' \in [Retriers -> {"idle", "next", "send", "commit"}] /\ phase'[t] = "commit"
        /\ \A u \in Retriers \ {t} : phase'[u] = phase[u] /\ phase[u] \in {"idle", "commit"}
    BY <2>1, OtherIdle DEF TypeInv, TypeOK
  <2>3. TypeOK'
    BY <2>1, <2>2 DEF TypeInv, TypeOK, settingVars, tableVars, requestVars, worldVars
  <2>4. OwnInv'
    BY <2>1, OwnKept DEF tableVars
  <2>5. RetryInv'
    BY <2>1, <2>2 DEF TypeInv, RetryInv, RetriesExclude, tableVars
  <2> QED
    BY <2>3, <2>4, <2>5 DEF TypeInv
<1>2. Flushed \in [Delivery -> Outcome \cup {"none"}] /\ \A e \in Delivery : Flushed[e] = "none"
  BY DEF Flushed
<1>3. CASE CommitRetry(t)
  <2>1. /\ phase[t] = "commit" /\ batch[t] = {} /\ sending[t] = {}
        /\ status' = AfterFlush(t)
        /\ unflushed' = [unflushed EXCEPT ![t] = Flushed] /\ phase' = [phase EXCEPT ![t] = "idle"]
        /\ UNCHANGED <<settingVars, attempts, due, requestVars, lock, batch, sending, worldVars>>
    BY <1>3 DEF CommitRetry, TypeInv, RetryInv
  <2>2. /\ status' \in [Delivery -> Status]
        /\ \A e \in Delivery : status'[e] = "none" <=> status[e] = "none"
        /\ \A e \in Delivery : status'[e] = "failed" => attempts[e] > 0
    BY <2>1, AfterFlushType
  <2>3. /\ phase' \in [Retriers -> {"idle", "next", "send", "commit"}] /\ phase'[t] = "idle"
        /\ \A u \in Retriers \ {t} : phase'[u] = phase[u]
    BY <2>1 DEF TypeInv, TypeOK
  <2>4. /\ unflushed' \in [Retriers -> [Delivery -> Outcome \cup {"none"}]]
        /\ \A u \in Retriers : \A e \in Delivery : unflushed'[u][e] # "none" => unflushed[u][e] # "none"
    BY <1>2, <2>1 DEF TypeInv, TypeOK
  <2>5. TypeOK'
    BY <2>1, <2>2, <2>3, <2>4 DEF TypeInv, TypeOK, settingVars, requestVars, worldVars
  <2>6. OwnInv'
    BY <2>1, <2>2, OwnKept
  <2>7. RetriesExclude'
    BY <2>1, <2>2, <2>3 DEF TypeInv, TypeOK, RetryInv, RetriesExclude
  <2>8. RetryInv'
    BY <2>1, <2>2, <2>3, <2>4, <2>7 DEF TypeInv, RetryInv
  <2> QED
    BY <2>5, <2>6, <2>8 DEF TypeInv
<1>4. CASE LoseDatabase(t)
  <2>1. /\ phase[t] \in {"next", "commit"} /\ sending[t] = {}
        /\ faults' \in 0 .. MaxFaults
        /\ lock' = IF lock = t THEN Nobody ELSE lock
        /\ phase' = [phase EXCEPT ![t] = "idle"] /\ batch' = [batch EXCEPT ![t] = {}]
        /\ unflushed' = [unflushed EXCEPT ![t] = Flushed]
        /\ UNCHANGED <<settingVars, tableVars, requestVars, sending, received, unanswered, overlapped>>
    BY <1>4, DeliveryAssumption DEF LoseDatabase, TypeInv, TypeOK, RetryInv
  <2>2. /\ phase' \in [Retriers -> {"idle", "next", "send", "commit"}] /\ phase'[t] = "idle"
        /\ batch' \in [Retriers -> SUBSET Delivery] /\ batch'[t] = {}
        /\ \A u \in Retriers \ {t} : phase'[u] = phase[u] /\ batch'[u] = batch[u]
    BY <2>1 DEF TypeInv, TypeOK
  <2>3. /\ unflushed' \in [Retriers -> [Delivery -> Outcome \cup {"none"}]]
        /\ \A u \in Retriers : \A e \in Delivery : unflushed'[u][e] # "none" => unflushed[u][e] # "none"
    BY <1>2, <2>1 DEF TypeInv, TypeOK
  <2>4. TypeOK'
    BY <2>1, <2>2, <2>3 DEF TypeInv, TypeOK, settingVars, tableVars, requestVars
  <2>5. OwnInv'
    BY <2>1, OwnKept DEF tableVars
  <2>6. RetriesExclude'
    BY <2>1, <2>2 DEF TypeInv, RetryInv, RetriesExclude, tableVars
  <2>7. RetryInv'
    BY <2>1, <2>2, <2>3, <2>6 DEF TypeInv, RetryInv, tableVars
  <2> QED
    BY <2>4, <2>5, <2>7 DEF TypeInv
<1> QED
  BY <1>1, <1>3, <1>4

\* The rest of the world.
LEMMA WorldStep ==
    ASSUME TypeInv,
           (\E d \in Delivery : BecomesDue(d)) \/ EditSettings \/ EditRecipients \/ Crash
    PROVE  TypeInv'
<1>1. CASE \E d \in Delivery : BecomesDue(d)
  <2>1. due' \subseteq Delivery
        /\ UNCHANGED <<settingVars, status, attempts, requestVars, retryVars, worldVars>>
    BY <1>1 DEF BecomesDue, TypeInv, TypeOK
  <2>2. TypeOK'
    BY <2>1 DEF TypeInv, TypeOK, settingVars, requestVars, retryVars, worldVars
  <2>3. OwnInv' /\ RetryInv'
    BY <2>1, OwnKept DEF TypeInv, RetryInv, RetriesExclude, retryVars
  <2> QED
    BY <2>2, <2>3 DEF TypeInv
<1>2. CASE EditSettings \/ EditRecipients
  <2>1. /\ defaults' \subseteq Recipients /\ custom' \subseteq Recipients /\ enabled' \in BOOLEAN
        /\ UNCHANGED <<tableVars, requestVars, retryVars, worldVars>>
    BY <1>2 DEF EditSettings, EditRecipients, TypeInv, TypeOK
  <2>2. TypeOK'
    BY <2>1 DEF TypeInv, TypeOK, tableVars, requestVars, retryVars, worldVars
  <2>3. OwnInv' /\ RetryInv'
    BY <2>1, OwnKept DEF TypeInv, RetryInv, RetriesExclude, tableVars, retryVars
  <2> QED
    BY <2>2, <2>3 DEF TypeInv
<1>3. CASE Crash
  <2>1. Unnamed \in [Recipients -> Status] /\ Flushed \in [Delivery -> Outcome \cup {"none"}]
    BY DEF Unnamed, Flushed, Status
  <2>2. faults' \in 0 .. MaxFaults
    BY <1>3, DeliveryAssumption DEF Crash, TypeInv, TypeOK
  <2>3. TypeOK'
    BY <1>3, <2>1, <2>2 DEF Crash, TypeInv, TypeOK, settingVars, tableVars
  <2>4. OwnInv'
    BY <1>3 DEF Crash, OwnInv, Unnamed
  <2>5. RetryInv'
    BY <1>3 DEF Crash, TypeInv, RetryInv, RetriesExclude, tableVars, Flushed
  <2> QED
    BY <2>3, <2>4, <2>5 DEF TypeInv
<1> QED
  BY <1>1, <1>2, <1>3

LEMMA StepType == ASSUME TypeInv, [Next]_vars PROVE TypeInv'
<1>1. CASE Next
  BY <1>1, RequestStep, CommitStep, StartRetryStep, TakeUpStep, SendAgainStep, EndStep, WorldStep
  DEF Next, Proceed, Continue
<1>2. CASE UNCHANGED vars
  BY <1>2, OwnKept DEF vars, settingVars, tableVars, requestVars, retryVars, worldVars,
     TypeInv, TypeOK, RetryInv, RetriesExclude
<1> QED
  BY <1>1, <1>2

\* In every reachable state a request's rows are its own until it commits, and
\* a retry holds only what was tried before.
THEOREM Invariance == Spec => []TypeInv
BY InitType, StepType, PTL DEF Spec

\* Every variable keeps its type; no delivery is tried more than
\* MAX_DELIVERY_ATTEMPTS times.
THEOREM TypeCorrect == Spec => []TypeOK
BY Invariance, PTL DEF TypeInv

\* DELIVERY_RETRY_LOCK: one retry at a time sends, and only what was tried in
\* a request that has committed.
THEOREM RetriesAreExclusive == Spec => []RetriesExclude
BY Invariance, PTL DEF TypeInv, RetryInv

---------------------------------------------------------------------------
(* Nobody is sent an alert twice in turn: the inductive invariant.         *)

Calm == ~overlapped /\ unanswered = 0 /\ faults = 0

\* One request at a time is at work, and holds the write lock if anybody does.
OneRequest ==
    /\ \A q, r \in Requests : step[q] # "idle" /\ step[r] # "idle" => q = r
    /\ writer # Nobody => step[writer] # "idle"

\* A recipient has at most one row of an alert, and a request makes one only
\* for a recipient who has none and whom it will not come to again.
OneRow ==
    /\ \A d, e \in Delivery :
        status[d] # "none" /\ status[e] # "none" /\ d[1] = e[1] /\ d[2] = e[2] => d = e
    /\ \A r \in Requests : \A to \in Recipients :
        mine[r][to] # "none" \/ to \in at[r] =>
            to \notin todo[r] /\ \A q \in Requests : status[<<alert[r], to, q>>] = "none"
    /\ \A r \in Requests : \A to \in at[r] : mine[r][to] \in {"none", "pending"}

\* The table says "failed" of what is still to be retried, and "pending" of
\* what is being sent or was sent and not written down; no two threads have
\* the same delivery.
OneHolder ==
    /\ \A t \in Retriers : \A d \in batch[t] : status[d] = "failed"
    /\ \A t \in Retriers : \A d \in sending[t] :
        status[d] = "pending" /\ \A u \in Retriers : unflushed[u][d] = "none"
    /\ \A t \in Retriers : \A d \in Delivery :
        unflushed[t][d] # "none" =>
            /\ status[d] = "pending"
            /\ \A u \in Retriers \ {t} : unflushed[u][d] = "none"

\* What reached a recipient is on record: in the table, with the thread that
\* sent it or with the request that did.
Recorded(a, to) ==
    \/ \E r \in Requests : status[<<a, to, r>>] = "sent"
    \/ \E r \in Requests, t \in Retriers : unflushed[t][<<a, to, r>>] = "sent"
    \/ \E r \in Requests : alert[r] = a /\ mine[r][to] = "sent"

OnRecord ==
    \A a \in Alerts, to \in Recipients :
        received[<<a, to>>] # 0 => received[<<a, to>>] = 1 /\ Recorded(a, to)

Turn == OneRequest /\ OneRow /\ OneHolder /\ OnRecord

TurnInv == Calm => Turn

\* A fault or an overlap is never forgotten.
LEMMA CalmBefore == ASSUME TypeInv, [Next]_vars, Calm' PROVE Calm
<1>1. unanswered \in Nat /\ faults \in Nat /\ overlapped \in BOOLEAN
  BY DeliveryAssumption DEF TypeInv, TypeOK
<1> USE <1>1 DEF Calm
<1>2. CASE \E r \in Requests : Begin(r) \/ Check(r) \/ Insert(r) \/ Commit(r) \/ LockTimeout(r)
  BY <1>2 DEF Begin, Check, Insert, Commit, LockTimeout, worldVars
<1>3. CASE \E r \in Requests : SendOwn(r)
  BY <1>3 DEF SendOwn, Send
<1>4. CASE \E t \in Retriers : StartRetry(t) \/ TakeUp(t) \/ EndRetry(t) \/ CommitRetry(t)
  BY <1>4 DEF StartRetry, TakeUp, EndRetry, CommitRetry, worldVars
<1>5. CASE \E t \in Retriers : SendAgain(t)
  BY <1>5 DEF SendAgain, Send
<1>6. CASE (\E t \in Retriers : LoseDatabase(t)) \/ Crash
  BY <1>6 DEF LoseDatabase, Crash
<1>7. CASE (\E d \in Delivery : BecomesDue(d)) \/ EditSettings \/ EditRecipients
  BY <1>7 DEF BecomesDue, EditSettings, EditRecipients, worldVars
<1>8. CASE UNCHANGED vars
  BY <1>8 DEF vars, worldVars
<1> QED
  BY <1>2, <1>3, <1>4, <1>5, <1>6, <1>7, <1>8 DEF Next, Proceed, Continue

\* What is on record stays so while nothing is sent and no record is lost.
LEMMA RecordKept ==
    ASSUME OnRecord, received' = received,
           \A a \in Alerts, to \in Recipients : Recorded(a, to) => Recorded(a, to)'
    PROVE  OnRecord'
BY DEF OnRecord

\* Nothing has reached a recipient of whom there is no record.
LEMMA NotReceived ==
    ASSUME TypeInv, OnRecord, NEW a \in Alerts, NEW to \in Recipients, ~Recorded(a, to)
    PROVE  received[<<a, to>>] = 0
BY DEF OnRecord

\* An idle request has no row and works on nobody.
LEMMA IdleOwns ==
    ASSUME TypeInv, NEW r \in Requests, NEW to \in Recipients,
           mine[r][to] # "none" \/ to \in at[r]
    PROVE  step[r] # "idle"
BY DEF TypeInv, OwnInv, Unnamed

LEMMA BeginTurn == ASSUME TypeInv, Turn, NEW r \in Requests, Begin(r), Calm' PROVE Turn'
<1>1. /\ step[r] = "idle" /\ \A q \in Requests \ {r} : step[q] = "idle"
      /\ step' = [step EXCEPT ![r] = "check"]
      /\ \E a \in Alerts : alert' = [alert EXCEPT ![r] = a]
      /\ todo' = [todo EXCEPT ![r] = Effective]
      /\ UNCHANGED <<status, writer, at, mine, retryVars, received>>
  BY DEF Begin, Calm, tableVars
<1>2. mine[r] = Unnamed /\ at[r] = {} /\ \A to \in Recipients : mine[r][to] = "none"
  BY <1>1 DEF TypeInv, OwnInv, Unnamed
<1>3. OneRequest'
  BY <1>1 DEF Turn, OneRequest, TypeInv, TypeOK
<1>4. OneRow'
  <2>1. \A q \in Requests, to \in Recipients :
          mine'[q][to] # "none" \/ to \in at'[q] =>
            q # r /\ alert'[q] = alert[q] /\ todo'[q] = todo[q]
    BY <1>1, <1>2 DEF TypeInv, TypeOK
  <2> QED
    BY <1>1, <2>1 DEF Turn, OneRow
<1>5. OneHolder'
  BY <1>1 DEF Turn, OneHolder, retryVars
<1>6. OnRecord'
  <2>1. \A q \in Requests, to \in Recipients : mine[q][to] = "sent" => alert'[q] = alert[q]
    BY <1>1, <1>2 DEF TypeInv, TypeOK
  <2>2. \A a \in Alerts, to \in Recipients : Recorded(a, to) => Recorded(a, to)'
    BY <1>1, <2>1 DEF Recorded, retryVars
  <2> QED
    BY <1>1, <2>2, RecordKept DEF Turn
<1> QED
  BY <1>3, <1>4, <1>5, <1>6 DEF Turn

LEMMA CheckTurn == ASSUME TypeInv, Turn, NEW r \in Requests, Check(r) PROVE Turn'
<1>1. PICK to \in todo[r] :
        /\ todo' = [todo EXCEPT ![r] = @ \ {to}]
        /\ \/ Tracked(alert[r], to) /\ step' = step /\ at' = at
           \/ /\ ~Tracked(alert[r], to)
              /\ step' = [step EXCEPT ![r] = "insert"]
              /\ at' = [at EXCEPT ![r] = {to}]
  BY DEF Check
<1>2. /\ step[r] = "check" /\ at[r] = {} /\ to \in Recipients
      /\ UNCHANGED <<status, writer, alert, mine, retryVars, received>>
  BY DEF Check, TypeInv, TypeOK, OwnInv, tableVars, worldVars
<1>3. OneRequest'
  BY <1>1, <1>2 DEF Turn, OneRequest, TypeInv, TypeOK
<1>4. OneRow'
  <2>1. \A q \in Requests : todo'[q] \subseteq todo[q] /\ to \notin todo'[r]
    BY <1>1 DEF TypeInv, TypeOK
  <2>2. \A q \in Requests : \A x \in at'[q] :
            x \in at[q] \/ (q = r /\ x = to /\ ~Tracked(alert[r], to))
    BY <1>1 DEF TypeInv, TypeOK
  <2>3. ~Tracked(alert[r], to) => \A q \in Requests : status[<<alert[r], to, q>>] = "none"
    BY DEF Tracked
  <2>4. ~Tracked(alert[r], to) => mine[r][to] \in {"none", "pending"}
    <3>1. mine[r][to] # "none" => to \notin todo[r]
      BY <1>2 DEF Turn, OneRow
    <3> QED
      BY <1>1, <3>1
  <2>5. \A q \in Requests : \A x \in Recipients :
          mine'[q][x] # "none" \/ x \in at'[q] =>
            x \notin todo'[q] /\ \A p \in Requests : status'[<<alert'[q], x, p>>] = "none"
    BY <1>2, <2>1, <2>2, <2>3 DEF Turn, OneRow
  <2>6. \A q \in Requests : \A x \in at'[q] : mine'[q][x] \in {"none", "pending"}
    BY <1>2, <2>2, <2>4 DEF Turn, OneRow
  <2> QED
    BY <1>2, <2>5, <2>6 DEF Turn, OneRow
<1>5. OneHolder'
  BY <1>2 DEF Turn, OneHolder, retryVars
<1>6. OnRecord'
  BY <1>2, RecordKept DEF Turn, Recorded, retryVars
<1> QED
  BY <1>3, <1>4, <1>5, <1>6 DEF Turn

LEMMA InsertTurn == ASSUME TypeInv, Turn, NEW r \in Requests, Insert(r) PROVE Turn'
<1>1. PICK to \in at[r] :
          \/ /\ mine' = [mine EXCEPT ![r][to] = "skipped"]
             /\ at' = [at EXCEPT ![r] = {}]
             /\ step' = [step EXCEPT ![r] = "check"]
          \/ /\ mine' = [mine EXCEPT ![r][to] = "pending"]
             /\ step' = [step EXCEPT ![r] = "send"]
             /\ at' = at
  BY DEF Insert
<1>2. /\ step[r] = "insert" /\ to \in Recipients
      /\ writer' \in {writer, r}
      /\ UNCHANGED <<status, alert, todo, retryVars, received>>
  BY DEF Insert, TypeInv, TypeOK, tableVars, worldVars
<1>3. OneRequest'
  BY <1>1, <1>2 DEF Turn, OneRequest, TypeInv, TypeOK
<1>4. /\ \A q \in Requests, x \in Recipients :
            mine'[q][x] = mine[q][x] \/ (q = r /\ x = to /\ mine'[q][x] \in {"skipped", "pending"})
      /\ \A q \in Requests : at'[q] \subseteq at[q]
      /\ to \in at'[r] => mine'[r][to] = "pending"
  BY <1>1, <1>2 DEF TypeInv, TypeOK
<1>5. mine[r][to] \in {"none", "pending"}
  BY <1>1 DEF Turn, OneRow
<1>6. OneRow'
  <2>1. \A q \in Requests : \A x \in Recipients :
          mine'[q][x] # "none" \/ x \in at'[q] =>
            x \notin todo'[q] /\ \A p \in Requests : status'[<<alert'[q], x, p>>] = "none"
    BY <1>1, <1>2, <1>4 DEF Turn, OneRow
  <2>2. \A q \in Requests : \A x \in at'[q] : mine'[q][x] \in {"none", "pending"}
    BY <1>2, <1>4 DEF Turn, OneRow, TypeInv, TypeOK
  <2> QED
    BY <1>2, <2>1, <2>2 DEF Turn, OneRow
<1>7. OneHolder'
  BY <1>2 DEF Turn, OneHolder, retryVars
<1>8. OnRecord'
  <2>1. \A q \in Requests, x \in Recipients : mine[q][x] = "sent" => mine'[q][x] = "sent"
    BY <1>4, <1>5
  <2> QED
    BY <1>2, <2>1, RecordKept DEF Turn, Recorded, retryVars
<1> QED
  BY <1>3, <1>6, <1>7, <1>8 DEF Turn

\* The write lock is free for the only request at work.
LEMMA NoLockTimeout == ASSUME Turn, NEW r \in Requests, LockTimeout(r), writer \in Requests \cup {Nobody}
                       PROVE FALSE
BY DEF LockTimeout, Turn, OneRequest

LEMMA SendOwnTurn == ASSUME TypeInv, Turn, NEW r \in Requests, SendOwn(r), Calm, Calm' PROVE Turn'
<1>1. PICK to \in at[r], outcome \in {"sent", "failed"} :
          Send(alert[r], to, outcome) /\ mine' = [mine EXCEPT ![r][to] = outcome]
  BY DEF SendOwn
<1>2. /\ step[r] = "send" /\ to \in Recipients /\ alert[r] \in Alerts
      /\ at' = [at EXCEPT ![r] = {}] /\ step' = [step EXCEPT ![r] = "check"]
      /\ UNCHANGED <<status, writer, alert, todo, retryVars>>
  BY DEF SendOwn, TypeInv, TypeOK, tableVars
<1>3. /\ \A q \in Requests, x \in Recipients :
            mine'[q][x] = IF q = r /\ x = to THEN outcome ELSE mine[q][x]
      /\ at'[r] = {} /\ \A q \in Requests \ {r} : at'[q] = at[q]
  BY <1>1, <1>2 DEF TypeInv, TypeOK
<1>4. /\ mine[r][to] \in {"none", "pending"} /\ to \notin todo[r]
      /\ \A q \in Requests : status[<<alert[r], to, q>>] = "none"
  BY <1>1, <1>2 DEF Turn, OneRow
<1>5. OneRequest'
  BY <1>2 DEF Turn, OneRequest, TypeInv, TypeOK
<1>6. OneRow'
  <2>1. \A q \in Requests : \A x \in Recipients :
          mine'[q][x] # "none" \/ x \in at'[q] =>
            x \notin todo'[q] /\ \A p \in Requests : status'[<<alert'[q], x, p>>] = "none"
    BY <1>2, <1>3, <1>4 DEF Turn, OneRow
  <2>2. \A q \in Requests : \A x \in at'[q] : mine'[q][x] \in {"none", "pending"}
    BY <1>2, <1>3 DEF Turn, OneRow, TypeInv, TypeOK
  <2> QED
    BY <1>2, <2>1, <2>2 DEF Turn, OneRow
<1>7. OneHolder'
  BY <1>2 DEF Turn, OneHolder, retryVars
<1>8. \A a \in Alerts, x \in Recipients : Recorded(a, x) => Recorded(a, x)'
  <2>1. \A q \in Requests, x \in Recipients : mine[q][x] = "sent" => mine'[q][x] = "sent"
    BY <1>3, <1>4
  <2> QED
    BY <1>2, <2>1 DEF Recorded, retryVars
<1>9. OnRecord'
  <2>1. CASE outcome = "failed"
    <3>1. received' = received
      BY <1>1, <2>1 DEF Send, Calm
    <3> QED
      BY <1>8, <3>1, RecordKept DEF Turn
  <2>2. CASE outcome = "sent"
    <3>1. ~Recorded(alert[r], to)
      <4>1. \A q \in Requests, t \in Retriers : unflushed[t][<<alert[r], to, q>>] = "none"
        <5> SUFFICES ASSUME NEW q \in Requests, NEW t \in Retriers
                     PROVE  unflushed[t][<<alert[r], to, q>>] = "none"
          OBVIOUS
        <5>1. <<alert[r], to, q>> \in Delivery
          BY <1>2 DEF Delivery
        <5> QED
          BY <1>4, <5>1 DEF Turn, OneHolder
      <4>2. \A q \in Requests : mine[q][to] = "sent" => q = r
        BY <1>2, IdleOwns DEF Turn, OneRequest
      <4> QED
        BY <1>4, <4>1, <4>2 DEF Recorded
    <3>2. received[<<alert[r], to>>] = 0
      BY <1>2, <3>1, NotReceived DEF Turn
    <3>3. received' = [received EXCEPT ![<<alert[r], to>>] = 1]
      BY <1>1, <2>2, <3>2 DEF Send
    <3>4. Recorded(alert[r], to)'
      BY <1>2, <1>3, <2>2 DEF Recorded
    <3>5. \A a \in Alerts, x \in Recipients :
            received'[<<a, x>>] = IF a = alert[r] /\ x = to THEN 1 ELSE received[<<a, x>>]
      BY <1>2, <3>3 DEF TypeInv, TypeOK
    <3> QED
      BY <1>2, <1>8, <3>4, <3>5 DEF Turn, OnRecord
  <2> QED
    BY <2>1, <2>2
<1> QED
  BY <1>5, <1>6, <1>7, <1>9 DEF Turn

\* A request's rows are the first of their recipients.
LEMMA CommitTurn == ASSUME TypeInv, Turn, NEW r \in Requests, Commit(r) PROVE Turn'
<1> DEFINE Own == {d \in Delivery : d[1] = alert[r] /\ d[3] = r /\ mine[r][d[2]] # "none"}
<1>1. /\ step[r] = "check"
      /\ status' = [d \in Delivery |-> IF d \in Own THEN mine[r][d[2]] ELSE status[d]]
      /\ mine' = [mine EXCEPT ![r] = Unnamed]
      /\ step' = [step EXCEPT ![r] = "idle"]
      /\ writer' = IF writer = r THEN Nobody ELSE writer
      /\ UNCHANGED <<alert, todo, at, retryVars, received>>
  BY DEF Commit, worldVars
<1>2. /\ alert[r] \in Alerts /\ at[r] = {}
      /\ \A q \in Requests \ {r} : step[q] = "idle"
  BY <1>1 DEF TypeInv, TypeOK, OwnInv, Turn, OneRequest
<1>3. \A q \in Requests, x \in Recipients : mine[q][x] # "none" \/ x \in at[q] => q = r /\ x \notin at[q]
  BY <1>2, IdleOwns
<1>4. \A q \in Requests, x \in Recipients : mine'[q][x] = "none" /\ x \notin at[q]
  BY <1>1, <1>2, <1>3 DEF Unnamed, TypeInv, TypeOK
<1>5. \A d \in Own : \A e \in Delivery : e[1] = d[1] /\ e[2] = d[2] => status[e] = "none"
  <2> SUFFICES ASSUME NEW d \in Own, NEW e \in Delivery, e[1] = d[1], e[2] = d[2]
               PROVE  status[e] = "none"
    OBVIOUS
  <2>1. e = <<alert[r], d[2], e[3]>> /\ d[2] \in Recipients /\ e[3] \in Requests
    BY DEF Delivery
  <2> QED
    BY <2>1 DEF Turn, OneRow
<1>6. \A d \in Own : d[1] = alert[r] /\ d[3] = r /\ d \in Delivery
  OBVIOUS
<1>7. \A d \in Delivery : status'[d] = IF d \in Own THEN mine[r][d[2]] ELSE status[d]
  BY <1>1
<1>8. \A x \in Recipients : mine[r][x] = "sent" => <<alert[r], x, r>> \in Own
  BY <1>2 DEF Delivery
<1>9. \A d \in Own : status[d] = "none"
  BY <1>5
<1> HIDE DEF Own
<1>10. OneRequest'
  BY <1>1, <1>2 DEF OneRequest, TypeInv, TypeOK, Turn
<1>11. OneRow'
  <2>1. \A d, e \in Delivery :
          status'[d] # "none" /\ status'[e] # "none" /\ d[1] = e[1] /\ d[2] = e[2] => d = e
    <3> SUFFICES ASSUME NEW d \in Delivery, NEW e \in Delivery, d[1] = e[1], d[2] = e[2],
                        status'[d] # "none", status'[e] # "none"
                 PROVE  d = e
      OBVIOUS
    <3>1. CASE d \in Own /\ e \in Own
      <4>1. d[3] = e[3] /\ d = <<d[1], d[2], d[3]>> /\ e = <<e[1], e[2], e[3]>>
        BY <1>6, <3>1 DEF Delivery
      <4> QED
        BY <4>1
    <3>2. CASE d \notin Own /\ e \notin Own
      BY <1>7, <3>2 DEF Turn, OneRow
    <3>3. CASE d \in Own /\ e \notin Own
      BY <1>5, <1>7, <3>3
    <3>4. CASE d \notin Own /\ e \in Own
      BY <1>5, <1>7, <3>4
    <3> QED
      BY <3>1, <3>2, <3>3, <3>4
  <2> QED
    BY <1>1, <1>4, <2>1 DEF OneRow, TypeInv, TypeOK
<1>12. \A d \in Delivery : status[d] # "none" => status'[d] = status[d]
  BY <1>7, <1>9
<1>13. OneHolder'
  <2>1. \A t \in Retriers : batch[t] \subseteq Delivery /\ sending[t] \subseteq Delivery
    BY DEF TypeInv, TypeOK
  <2> QED
    BY <1>1, <1>12, <2>1 DEF Turn, OneHolder, retryVars
<1>14. OnRecord'
  <2> SUFFICES ASSUME NEW a \in Alerts, NEW to \in Recipients, Recorded(a, to)
               PROVE  Recorded(a, to)'
    BY <1>1, RecordKept DEF Turn
  <2>1. CASE \E q \in Requests : status[<<a, to, q>>] = "sent"
    <3>1. PICK q \in Requests : status[<<a, to, q>>] = "sent"
      BY <2>1
    <3>2. <<a, to, q>> \in Delivery
      BY DEF Delivery
    <3> QED
      BY <1>12, <3>1, <3>2 DEF Recorded
  <2>2. CASE \E q \in Requests, t \in Retriers : unflushed[t][<<a, to, q>>] = "sent"
    BY <1>1, <2>2 DEF Recorded, retryVars
  <2>3. CASE \E q \in Requests : alert[q] = a /\ mine[q][to] = "sent"
    <3>1. alert[r] = a /\ mine[r][to] = "sent"
      BY <1>3, <2>3
    <3>2. <<a, to, r>> \in Own /\ <<a, to, r>> \in Delivery
      BY <1>6, <1>8, <3>1
    <3>3. status'[<<a, to, r>>] = "sent"
      BY <1>7, <3>1, <3>2
    <3> QED
      BY <3>3 DEF Recorded
  <2> QED
    BY <2>1, <2>2, <2>3 DEF Recorded
<1> QED
  BY <1>10, <1>11, <1>13, <1>14 DEF Turn

\* There is only one row to look at: a retry skips nothing.
LEMMA NothingSkipped ==
    ASSUME TypeInv, Turn, NEW d \in Delivery, status[d] # "none"
    PROVE  ~SameSentExists(d)
<1> SUFFICES ASSUME NEW r \in Requests \ {d[3]}, status[<<d[1], d[2], r>>] = "sent" PROVE FALSE
  BY DEF SameSentExists
<1>1. <<d[1], d[2], r>> \in Delivery
  BY DEF Delivery
<1>2. d = <<d[1], d[2], r>>
  BY <1>1 DEF Turn, OneRow
<1> QED
  BY <1>2

\* What a flush does to the table: the thread's outcomes replace "pending".
LEMMA FlushTurn ==
    ASSUME TypeInv, Turn, NEW t \in Retriers
    PROVE  \A d \in Delivery :
            /\ unflushed[t][d] = "none" => AfterFlush(t)[d] = status[d]
            /\ unflushed[t][d] # "none" =>
                AfterFlush(t)[d] = unflushed[t][d] /\ status[d] = "pending"
BY DEF AfterFlush, Turn, OneHolder

\* The table's rows are the same ones after a flush.
LEMMA RowsKept ==
    ASSUME TypeInv, Turn, UNCHANGED <<alert, todo, at, mine>>,
           \A d \in Delivery : status'[d] = "none" <=> status[d] = "none"
    PROVE  OneRow'
<1>1. \A r \in Requests, to \in Recipients, q \in Requests : <<alert[r], to, q>> \in Delivery
  BY DEF TypeInv, TypeOK, Delivery
<1>2. \A r \in Requests : at[r] \subseteq Recipients
  BY DEF TypeInv, TypeOK
<1> QED
  BY <1>1, <1>2 DEF Turn, OneRow

LEMMA StartRetryTurn == ASSUME TypeInv, Turn, NEW t \in Retriers, StartRetry(t) PROVE Turn'
<1>1. /\ batch' = [batch EXCEPT ![t] = IF t = "dashboard" THEN Retryable ELSE Retryable \cap due]
      /\ UNCHANGED <<status, requestVars, sending, unflushed, received>>
  BY DEF StartRetry, tableVars, worldVars
<1>2. \A d \in batch'[t] : status[d] = "failed"
  BY <1>1 DEF Retryable, TypeInv, TypeOK
<1>3. OneRequest' /\ OneRow'
  BY <1>1, RowsKept DEF Turn, OneRequest, requestVars
<1>4. OneHolder'
  BY <1>1, <1>2 DEF Turn, OneHolder, TypeInv, TypeOK
<1>5. OnRecord'
  BY <1>1, RecordKept DEF Turn, Recorded, requestVars
<1> QED
  BY <1>3, <1>4, <1>5 DEF Turn

LEMMA TakeUpTurn == ASSUME TypeInv, Turn, NEW t \in Retriers, TakeUp(t) PROVE Turn'
<1>1. PICK d \in batch[t] :
        /\ batch' = [batch EXCEPT ![t] = @ \ {d}]
        /\ \/ SameSentExists(d)
           \/ /\ status' = [AfterFlush(t) EXCEPT ![d] = "pending"]
              /\ unflushed' = [unflushed EXCEPT ![t] = Flushed]
              /\ sending' = [sending EXCEPT ![t] = {d}]
  BY DEF TakeUp
<1>2. d \in Delivery /\ status[d] = "failed" /\ UNCHANGED <<requestVars, received>>
  BY DEF TakeUp, TypeInv, TypeOK, Turn, OneHolder, worldVars
<1>3. /\ status' = [AfterFlush(t) EXCEPT ![d] = "pending"]
      /\ unflushed' = [unflushed EXCEPT ![t] = Flushed]
      /\ sending' = [sending EXCEPT ![t] = {d}]
  BY <1>1, <1>2, NothingSkipped
<1>4. \A u \in Retriers : unflushed[u][d] = "none"
  BY <1>2 DEF Turn, OneHolder
<1>5. /\ status'[d] = "pending"
      /\ \A e \in Delivery \ {d} : status'[e] = AfterFlush(t)[e]
      /\ \A e \in Delivery : status'[e] = "none" <=> status[e] = "none"
  BY <1>2, <1>3, AfterFlushType
<1>6. /\ \A e \in Delivery : unflushed'[t][e] = "none"
      /\ \A u \in Retriers \ {t} : unflushed'[u] = unflushed[u]
  BY <1>3 DEF TypeInv, TypeOK, Flushed
<1>7. /\ sending'[t] = {d} /\ batch'[t] = batch[t] \ {d}
      /\ \A u \in Retriers \ {t} : sending'[u] = {} /\ batch'[u] = {}
  <2>1. lock = t
    BY DEF TakeUp, TypeInv, RetryInv, RetriesExclude
  <2> QED
    BY <1>1, <1>3, <2>1, OtherIdle DEF TypeInv, TypeOK
<1>8. OneRequest' /\ OneRow'
  BY <1>2, <1>5, RowsKept DEF Turn, OneRequest, requestVars
<1>9. OneHolder'
  <2>1. \A e \in batch[t] \ {d} : status'[e] = "failed"
    <3> SUFFICES ASSUME NEW e \in batch[t] \ {d} PROVE status'[e] = "failed"
      OBVIOUS
    <3>1. e \in Delivery /\ status[e] = "failed" /\ unflushed[t][e] = "none"
      BY DEF TypeInv, TypeOK, Turn, OneHolder
    <3> QED
      BY <1>5, <3>1, FlushTurn
  <2>2. \A u \in Retriers : unflushed'[u][d] = "none"
    BY <1>2, <1>4, <1>6
  <2>3. \A u \in Retriers : \A e \in Delivery :
          unflushed'[u][e] # "none" =>
            /\ status'[e] = "pending"
            /\ \A v \in Retriers \ {u} : unflushed'[v][e] = "none"
    <3> SUFFICES ASSUME NEW u \in Retriers, NEW e \in Delivery, unflushed'[u][e] # "none"
                 PROVE  /\ status'[e] = "pending"
                        /\ \A v \in Retriers \ {u} : unflushed'[v][e] = "none"
      OBVIOUS
    <3>1. u # t /\ unflushed[u][e] # "none"
      BY <1>6
    <3>2. status[e] = "pending" /\ \A v \in Retriers \ {u} : unflushed[v][e] = "none"
      BY <3>1 DEF Turn, OneHolder
    <3>3. e # d /\ AfterFlush(t)[e] = status[e]
      BY <1>2, <3>1, <3>2, FlushTurn
    <3> QED
      BY <1>5, <1>6, <3>2, <3>3
  <2> QED
    BY <1>5, <1>7, <2>1, <2>2, <2>3 DEF OneHolder
<1>10. OnRecord'
  <2> SUFFICES ASSUME NEW a \in Alerts, NEW to \in Recipients, Recorded(a, to)
               PROVE  Recorded(a, to)'
    BY <1>2, RecordKept DEF Turn
  <2>1. \A r \in Requests : <<a, to, r>> \in Delivery
    BY DEF Delivery
  <2>2. CASE \E r \in Requests : status[<<a, to, r>>] = "sent"
    <3>1. PICK r \in Requests : status[<<a, to, r>>] = "sent"
      BY <2>2
    <3>2. <<a, to, r>> # d /\ AfterFlush(t)[<<a, to, r>>] = "sent"
      BY <1>2, <2>1, <3>1, FlushTurn
    <3> QED
      BY <1>5, <2>1, <3>2 DEF Recorded
  <2>3. CASE \E r \in Requests, u \in Retriers : unflushed[u][<<a, to, r>>] = "sent"
    <3>1. PICK r \in Requests, u \in Retriers : unflushed[u][<<a, to, r>>] = "sent"
      BY <2>3
    <3>2. <<a, to, r>> # d
      BY <1>4, <3>1
    <3>3. CASE u = t
      <4>1. status'[<<a, to, r>>] = "sent"
        BY <1>5, <2>1, <3>1, <3>2, <3>3, FlushTurn
      <4> QED
        BY <4>1 DEF Recorded
    <3>4. CASE u # t
      BY <1>6, <3>1, <3>4 DEF Recorded
    <3> QED
      BY <3>3, <3>4
  <2>4. CASE \E r \in Requests : alert[r] = a /\ mine[r][to] = "sent"
    BY <1>2, <2>4 DEF Recorded, requestVars
  <2> QED
    BY <2>2, <2>3, <2>4 DEF Recorded
<1> QED
  BY <1>8, <1>9, <1>10 DEF Turn

LEMMA SendAgainTurn ==
    ASSUME TypeInv, Turn, NEW t \in Retriers, SendAgain(t), Calm, Calm' PROVE Turn'
<1>1. PICK d \in sending[t], outcome \in {"sent", "failed"} :
        Send(d[1], d[2], outcome) /\ unflushed' = [unflushed EXCEPT ![t][d] = outcome]
  BY DEF SendAgain
<1>2. /\ phase[t] = "send" /\ lock = t
      /\ sending' = [sending EXCEPT ![t] = {}]
      /\ UNCHANGED <<status, requestVars, batch>>
  BY DEF SendAgain, TypeInv, RetryInv, RetriesExclude, tableVars
<1>3. /\ d \in Delivery /\ d[1] \in Alerts /\ d[2] \in Recipients /\ d[3] \in Requests
      /\ d = <<d[1], d[2], d[3]>>
      /\ status[d] = "pending" /\ \A u \in Retriers : unflushed[u][d] = "none"
  BY DEF TypeInv, TypeOK, Delivery, Turn, OneHolder
<1>4. \A u \in Retriers, e \in Delivery :
        unflushed'[u][e] = IF u = t /\ e = d THEN outcome ELSE unflushed[u][e]
  BY <1>1, <1>3 DEF TypeInv, TypeOK
<1>5. \A u \in Retriers : sending'[u] = {}
  BY <1>2, OtherIdle DEF TypeInv, TypeOK
<1>6. OneRequest' /\ OneRow'
  BY <1>2, RowsKept DEF Turn, OneRequest, requestVars
<1>7. OneHolder'
  BY <1>2, <1>3, <1>4, <1>5 DEF Turn, OneHolder
<1>8. \A a \in Alerts, x \in Recipients : Recorded(a, x) => Recorded(a, x)'
  <2>1. \A a \in Alerts, x \in Recipients, r \in Requests : <<a, x, r>> \in Delivery
    BY DEF Delivery
  <2>2. \A u \in Retriers, e \in Delivery : unflushed[u][e] = "sent" => unflushed'[u][e] = "sent"
    BY <1>3, <1>4
  <2> QED
    BY <1>2, <2>1, <2>2 DEF Recorded, requestVars
<1>9. OnRecord'
  <2>1. CASE outcome = "failed"
    <3>1. received' = received
      BY <1>1, <2>1 DEF Send, Calm
    <3> QED
      BY <1>8, <3>1, RecordKept DEF Turn
  <2>2. CASE outcome = "sent"
    <3>1. ~Recorded(d[1], d[2])
      <4>1. \A q \in Requests : status[<<d[1], d[2], q>>] # "none" => q = d[3]
        <5> SUFFICES ASSUME NEW q \in Requests, status[<<d[1], d[2], q>>] # "none" PROVE q = d[3]
          OBVIOUS
        <5>1. <<d[1], d[2], q>> \in Delivery
          BY <1>3 DEF Delivery
        <5>2. <<d[1], d[2], q>> = d
          BY <1>3, <5>1 DEF Turn, OneRow
        <5> QED
          BY <5>2
      <4>2. \A q \in Requests : status[<<d[1], d[2], q>>] # "sent"
        BY <1>3, <4>1
      <4>3. \A q \in Requests, u \in Retriers : unflushed[u][<<d[1], d[2], q>>] = "none"
        <5> SUFFICES ASSUME NEW q \in Requests, NEW u \in Retriers,
                            unflushed[u][<<d[1], d[2], q>>] # "none"
                     PROVE  FALSE
          OBVIOUS
        <5>1. <<d[1], d[2], q>> \in Delivery
          BY <1>3 DEF Delivery
        <5>2. status[<<d[1], d[2], q>>] = "pending"
          BY <5>1 DEF Turn, OneHolder
        <5> QED
          BY <1>3, <4>1, <5>2
      <4>4. \A q \in Requests : ~(alert[q] = d[1] /\ mine[q][d[2]] = "sent")
        <5> SUFFICES ASSUME NEW q \in Requests, alert[q] = d[1], mine[q][d[2]] = "sent" PROVE FALSE
          OBVIOUS
        <5>1. status[<<d[1], d[2], d[3]>>] = "none"
          BY <1>3 DEF Turn, OneRow
        <5> QED
          BY <1>3, <5>1
      <4> QED
        BY <4>2, <4>3, <4>4 DEF Recorded
    <3>2. received[<<d[1], d[2]>>] = 0
      BY <1>3, <3>1, NotReceived DEF Turn
    <3>3. received' = [received EXCEPT ![<<d[1], d[2]>>] = 1]
      BY <1>1, <2>2, <3>2 DEF Send
    <3>4. Recorded(d[1], d[2])'
      BY <1>3, <1>4, <2>2 DEF Recorded
    <3>5. \A a \in Alerts, x \in Recipients :
            received'[<<a, x>>] = IF a = d[1] /\ x = d[2] THEN 1 ELSE received[<<a, x>>]
      BY <1>3, <3>3 DEF TypeInv, TypeOK
    <3> QED
      BY <1>8, <3>4, <3>5 DEF Turn, OnRecord
  <2> QED
    BY <2>1, <2>2
<1> QED
  BY <1>6, <1>7, <1>9 DEF Turn

LEMMA CommitRetryTurn == ASSUME TypeInv, Turn, NEW t \in Retriers, CommitRetry(t) PROVE Turn'
<1>1. /\ phase[t] = "commit" /\ batch[t] = {} /\ sending[t] = {}
      /\ status' = AfterFlush(t)
      /\ unflushed' = [unflushed EXCEPT ![t] = Flushed]
      /\ UNCHANGED <<requestVars, batch, sending, received>>
  BY DEF CommitRetry, TypeInv, RetryInv, worldVars
<1>2. /\ \A e \in Delivery : status'[e] = AfterFlush(t)[e]
      /\ \A e \in Delivery : status'[e] = "none" <=> status[e] = "none"
  BY <1>1, AfterFlushType
<1>3. /\ \A e \in Delivery : unflushed'[t][e] = "none"
      /\ \A u \in Retriers \ {t} : unflushed'[u] = unflushed[u]
  BY <1>1 DEF TypeInv, TypeOK, Flushed
<1>4. \A e \in Delivery : unflushed[t][e] = "none" => status'[e] = status[e]
  BY <1>2, FlushTurn
<1>5. OneRequest' /\ OneRow'
  BY <1>1, <1>2, RowsKept DEF Turn, OneRequest, requestVars
<1>6. OneHolder'
  <2>1. \A u \in Retriers : \A e \in batch[u] : e \in Delivery /\ unflushed[t][e] = "none"
    BY DEF TypeInv, TypeOK, Turn, OneHolder
  <2>2. \A u \in Retriers : \A e \in sending[u] : e \in Delivery /\ unflushed[t][e] = "none"
    BY DEF TypeInv, TypeOK, Turn, OneHolder
  <2>3. \A u \in Retriers : \A e \in Delivery : unflushed[u][e] = "none" => unflushed'[u][e] = "none"
    BY <1>3
  <2>4. \A u \in Retriers : \A e \in Delivery :
          unflushed'[u][e] # "none" =>
            /\ status'[e] = "pending"
            /\ \A v \in Retriers \ {u} : unflushed'[v][e] = "none"
    BY <1>3, <1>4 DEF Turn, OneHolder
  <2> QED
    BY <1>1, <1>4, <2>1, <2>2, <2>3, <2>4 DEF Turn, OneHolder
<1>7. OnRecord'
  <2> SUFFICES ASSUME NEW a \in Alerts, NEW to \in Recipients, Recorded(a, to)
               PROVE  Recorded(a, to)'
    BY <1>1, RecordKept DEF Turn
  <2>1. \A r \in Requests : <<a, to, r>> \in Delivery
    BY DEF Delivery
  <2>2. CASE \E r \in Requests : status[<<a, to, r>>] = "sent"
    BY <1>2, <2>1, <2>2, FlushTurn DEF Recorded
  <2>3. CASE \E r \in Requests, u \in Retriers : unflushed[u][<<a, to, r>>] = "sent"
    <3>1. PICK r \in Requests, u \in Retriers : unflushed[u][<<a, to, r>>] = "sent"
      BY <2>3
    <3>2. CASE u = t
      <4>1. status'[<<a, to, r>>] = "sent"
        BY <1>2, <2>1, <3>1, <3>2, FlushTurn
      <4> QED
        BY <4>1 DEF Recorded
    <3>3. CASE u # t
      BY <1>3, <3>1, <3>3 DEF Recorded
    <3> QED
      BY <3>2, <3>3
  <2>4. CASE \E r \in Requests : alert[r] = a /\ mine[r][to] = "sent"
    BY <1>1, <2>4 DEF Recorded, requestVars
  <2> QED
    BY <2>2, <2>3, <2>4 DEF Recorded
<1> QED
  BY <1>5, <1>6, <1>7 DEF Turn

\* A step that touches neither the table nor the records.
LEMMA OtherTurn ==
    ASSUME TypeInv, Turn,
           UNCHANGED <<status, requestVars, batch, sending, unflushed, received>>
    PROVE  Turn'
<1>1. OneRequest' /\ OneRow'
  BY RowsKept DEF Turn, OneRequest, requestVars
<1>2. OneHolder' /\ OnRecord'
  BY RecordKept DEF Turn, OneHolder, Recorded, requestVars
<1> QED
  BY <1>1, <1>2 DEF Turn

LEMMA TurnStep == ASSUME TypeInv, TurnInv, [Next]_vars PROVE TurnInv'
<1> SUFFICES ASSUME Calm' PROVE Turn'
  BY DEF TurnInv
<1>1. Calm
  BY CalmBefore
<1>2. Turn
  BY <1>1 DEF TurnInv
<1>3. CASE \E r \in Requests : Begin(r) \/ Check(r) \/ Insert(r) \/ SendOwn(r) \/ Commit(r)
  BY <1>1, <1>2, <1>3, BeginTurn, CheckTurn, InsertTurn, SendOwnTurn, CommitTurn
<1>4. CASE \E r \in Requests : LockTimeout(r)
  BY <1>2, <1>4, NoLockTimeout DEF TypeInv, TypeOK
<1>5. CASE \E t \in Retriers : StartRetry(t) \/ TakeUp(t) \/ SendAgain(t) \/ CommitRetry(t)
  BY <1>1, <1>2, <1>5, StartRetryTurn, TakeUpTurn, SendAgainTurn, CommitRetryTurn
<1>6. CASE \E t \in Retriers : EndRetry(t)
  <2>1. UNCHANGED <<status, requestVars, batch, sending, unflushed, received>>
    BY <1>6 DEF EndRetry, tableVars, worldVars
  <2> QED
    BY <1>2, <2>1, OtherTurn
<1>7. CASE (\E t \in Retriers : LoseDatabase(t)) \/ Crash
  <2>1. faults \in Nat /\ faults' = faults + 1
    BY <1>7 DEF LoseDatabase, Crash, TypeInv, TypeOK
  <2> QED
    BY <2>1 DEF Calm
<1>8. CASE (\E d \in Delivery : BecomesDue(d)) \/ EditSettings \/ EditRecipients \/ UNCHANGED vars
  <2>1. UNCHANGED <<status, requestVars, batch, sending, unflushed, received>>
    BY <1>8 DEF BecomesDue, EditSettings, EditRecipients, vars, tableVars, retryVars, worldVars
  <2> QED
    BY <1>2, <2>1, OtherTurn
<1> QED
  BY <1>3, <1>4, <1>5, <1>6, <1>7, <1>8 DEF Next, Proceed, Continue

LEMMA InitTurn == ASSUME Init PROVE TurnInv
<1>1. OneRequest
  BY DEF Init, OneRequest
<1>2. OneRow
  BY DEF Init, OneRow, Unnamed
<1>3. OneHolder
  BY DEF Init, OneHolder, Flushed
<1>4. OnRecord
  BY DEF Init, OnRecord
<1> QED
  BY <1>1, <1>2, <1>3, <1>4 DEF TurnInv, Turn

\* While snapshots come one after the other and nothing fails, whatever reached
\* a recipient is on record and nobody takes up what another holds.
THEOREM TurnInvariance == Spec => []TurnInv
<1>1. Init => TurnInv
  BY InitTurn
<1>2. TypeInv /\ TurnInv /\ [Next]_vars => TurnInv'
  BY TurnStep
<1> QED
  BY <1>1, <1>2, Invariance, PTL DEF Spec

\* "Skipped because this notification was already sent successfully": nobody is
\* sent the same alert twice, whatever is retried and however often, as long as
\* snapshots come one after the other, every send is answered and nothing fails.
THEOREM SentOnceInTurn == Spec => []NoDuplicateInTurn
<1>1. TypeInv /\ TurnInv => NoDuplicateInTurn
  <2> SUFFICES ASSUME TypeInv, TurnInv, Calm, NEW p \in Alerts \X Recipients
               PROVE  received[p] < 2
    BY DEF NoDuplicateInTurn, NoDuplicate, Calm
  <2>1. p = <<p[1], p[2]>> /\ p[1] \in Alerts /\ p[2] \in Recipients
    OBVIOUS
  <2>2. received[p] = 0 \/ received[p] = 1
    BY <2>1 DEF TurnInv, Turn, OnRecord
  <2> QED
    BY <2>2
<1> QED
  BY <1>1, Invariance, TurnInvariance, PTL

---------------------------------------------------------------------------
(* The WhatsApp gateway, beside the deliveries: every checker and however  *)
(* slowly its client starts.                                               *)

\* A check under way compares with what is on record; no alert was sent since a
\* ready session was recorded.
AlertInv ==
    /\ \A c \in Checkers : checking[c] # "idle" => previous[c] = last
    /\ last = "ready" => alerts = 0
    /\ Gateway!AlertedOnce

\* The session's and the checkers' steps keep the types.
LEMMA GatewayType ==
    ASSUME Gateway!TypeOK, [Gateway!Next]_Gateway!vars
    PROVE  Gateway!TypeOK'
<1> USE DEF Gateway!TypeOK, Gateway!Known, Gateway!Down, Gateway!Live
<1>1. CASE Gateway!Session
  BY <1>1 DEF Gateway!Session, Gateway!OnQr, Gateway!OnAuthenticated, Gateway!OnReady,
              Gateway!OnFailure, Gateway!ScheduleReconnect, Gateway!serverVars
<1>2. CASE Gateway!Reconnect
  <2>1. timer' \in BOOLEAN
    BY <1>2, Zenon DEF Gateway!Reconnect, Gateway!OnTimer, Gateway!NewClient, Gateway!StartEnds,
                       Gateway!ScheduleReconnect
  <2>2. CASE Gateway!OnTimer
    BY <2>1, <2>2 DEF Gateway!OnTimer, Gateway!serverVars
  <2>3. CASE Gateway!NewClient
    BY <2>1, <2>3 DEF Gateway!NewClient, Gateway!serverVars
  <2>4. CASE Gateway!StartEnds
    BY <2>1, <2>4 DEF Gateway!StartEnds, Gateway!serverVars
  <2> QED
    BY <1>2, <2>2, <2>3, <2>4 DEF Gateway!Reconnect
<1>3. ASSUME NEW c \in Checkers, Gateway!Ask(c)
      PROVE  Gateway!TypeOK'
  BY <1>3 DEF Gateway!Ask, Gateway!gatewayVars
<1>4. ASSUME NEW c \in Checkers, Gateway!Answer(c)
      PROVE  Gateway!TypeOK'
  BY <1>4 DEF Gateway!Answer, Gateway!gatewayVars
<1>5. ASSUME NEW c \in Checkers, Gateway!Record(c)
      PROVE  Gateway!TypeOK'
  BY <1>5 DEF Gateway!Record, Gateway!gatewayVars
<1>6. CASE UNCHANGED Gateway!vars
  BY <1>6 DEF Gateway!vars, Gateway!gatewayVars, Gateway!serverVars
<1> QED
  BY <1>1, <1>2, <1>3, <1>4, <1>5, <1>6 DEF Gateway!Next

\* Only the end of a check touches what is on record, and no other is under way.
LEMMA GatewayAlerts ==
    ASSUME Gateway!TypeOK, AlertInv, Gateway!OneCheck, [Gateway!Next]_Gateway!vars
    PROVE  AlertInv'
<1> USE DEF AlertInv, Gateway!AlertedOnce
<1>1. CASE Gateway!Session \/ Gateway!Reconnect
  BY <1>1 DEF Gateway!Session, Gateway!OnQr, Gateway!OnAuthenticated, Gateway!OnReady,
              Gateway!OnFailure, Gateway!Reconnect, Gateway!OnTimer, Gateway!NewClient,
              Gateway!StartEnds, Gateway!serverVars
<1>2. ASSUME NEW c \in Checkers, Gateway!Ask(c)
      PROVE  AlertInv'
  BY <1>2 DEF Gateway!Ask, Gateway!TypeOK
<1>3. ASSUME NEW c \in Checkers, Gateway!Answer(c)
      PROVE  AlertInv'
  BY <1>3 DEF Gateway!Answer, Gateway!TypeOK
<1>4. ASSUME NEW c \in Checkers, Gateway!Record(c)
      PROVE  AlertInv'
  <2>1. \A d \in Checkers : checking'[d] = "idle"
    BY <1>4 DEF Gateway!Record, Gateway!OneCheck, Gateway!TypeOK
  <2>2. CASE Gateway!MustAlert(c)
    <3>1. alerts = 0 /\ last' # "ready"
      BY <1>4, <2>2 DEF Gateway!Record, Gateway!MustAlert, Gateway!Problem, Gateway!Down
    <3> QED
      BY <1>4, <2>1, <3>1 DEF Gateway!Record, Gateway!TypeOK
  <2>3. CASE ~Gateway!MustAlert(c)
    BY <1>4, <2>1, <2>3 DEF Gateway!Record, Gateway!TypeOK
  <2> QED
    BY <2>2, <2>3
<1>5. CASE UNCHANGED Gateway!vars
  BY <1>5 DEF Gateway!vars, Gateway!serverVars
<1> QED
  BY <1>1, <1>2, <1>3, <1>4, <1>5 DEF Gateway!Next

\* Every variable of the gateway and of its checkers keeps its type.
THEOREM GatewayTypeCorrect == Gateway!Spec => []Gateway!TypeOK
<1>1. Gateway!Init => Gateway!TypeOK
  <2> SUFFICES ASSUME Gateway!Init
               PROVE  Gateway!TypeOK
    OBVIOUS
  <2>1. timer \in BOOLEAN /\ owed \in BOOLEAN
    BY Zenon DEF Gateway!Init
  <2> QED
    BY <2>1 DEF Gateway!Init, Gateway!TypeOK, Gateway!Known, Gateway!Down, Gateway!Live
<1>2. Gateway!TypeOK /\ [Gateway!Next]_Gateway!vars => Gateway!TypeOK'
  BY GatewayType
<1> QED
  BY <1>1, <1>2, PTL DEF Gateway!Spec

\* Every variable of the deliveries and of the gateway beside them keeps its type.
THEOREM TypesCorrect == Spec /\ Gateway!Spec => []TypesOK
<1>1. TypeOK /\ Gateway!TypeOK => TypesOK
  BY DEF TypesOK
<1> QED
  BY <1>1, TypeCorrect, GatewayTypeCorrect, PTL

\* One disconnection, one alert, whoever checks the gateway's status and
\* whatever the session does meanwhile, as long as no two checks overlap: each
\* compares what it saw with what the one before it recorded.
THEOREM DisconnectionsAlertedOnce == Gateway!Spec /\ []Gateway!OneCheck => []DisconnectionAlertedOnce
<1>1. Gateway!Init => AlertInv
  BY DEF Gateway!Init, AlertInv, Gateway!AlertedOnce
<1>2. Gateway!TypeOK /\ AlertInv /\ Gateway!OneCheck /\ [Gateway!Next]_Gateway!vars => AlertInv'
  BY GatewayAlerts
<1>3. AlertInv => DisconnectionAlertedOnce
  BY DEF AlertInv, DisconnectionAlertedOnce
<1> QED
  BY <1>1, <1>2, <1>3, GatewayTypeCorrect, PTL DEF Gateway!Spec

===============================================================================
