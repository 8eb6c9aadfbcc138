------------------------- MODULE CashMonitoringProofs -------------------------
(***************************************************************************)
(* Theorems about CashMonitoring for every number of cassettes, every      *)
(* threshold, window, clock error and bound.  For any number of requests   *)
(* at once: the types, and how long a fresh reading may be refused.  When  *)
(* requests do not overlap: one open alert of a type per cassette, and the *)
(* refinement of CashBoard.                                                *)
(***************************************************************************)
EXTENDS CashMonitoring, CashReadings, RowLemmas, TLAPS

---------------------------------------------------------------------------
(* The inductive invariant.                                                *)

\* What was sent is not from the future, and lags by no more than the ATM's
\* clock may; the board's readings are no newer than the last commit and the
\* grace.
TimeInv ==
    /\ clock >= 1 + Behind
    /\ listed # {}
    /\ accepted <= clock
    /\ \A s \in sent : s.sentAt <= clock /\ s.at >= s.sentAt - Behind
    /\ \A w \in Workers : handling[w].state = "writing" => handling[w].at <= clock + Grace
    /\ \A u \in Units : shown[u].at <= accepted + Grace
    /\ BlindnessEnds

IInv == TypeOK /\ TimeInv

\* What a request that writes has made of the tables is still true of them:
\* its reading is newer than every one it replaces, and its rows to open and
\* to close are those the open alerts call for.
RowsFit(h) ==
    /\ \A r \in h.opens :
        /\ r.unit \in DOMAIN h.read /\ r.type \in Active(r.unit, h.read[r.unit])
        /\ ~ \E o \in rows : o.unit = r.unit /\ o.type = r.type
    /\ \A r, q \in h.opens : r.unit = q.unit /\ r.type = q.type => r = q
    /\ \A u \in DOMAIN h.read : \A t \in Active(u, h.read[u]) :
        \E o \in rows \cup h.opens : o.unit = u /\ o.type = t
    /\ \A o \in rows : o \in h.closes <=>
        o.unit \in DOMAIN h.read /\ o.type \notin Active(o.unit, h.read[o.unit])

TurnInv ==
    /\ \A w \in Workers : handling[w].state = "writing" =>
        /\ \A u \in DOMAIN handling[w].read : handling[w].at > shown[u].at
        /\ handling[w].loaded = shown
        /\ RowsFit(handling[w])
    /\ shown[Bin].at = shown[1].at
    /\ CassetteCountedOnce

---------------------------------------------------------------------------
(* Numbers and clocks.                                                     *)

\* The ATM's clock is never further behind than Behind.
LEMMA BehindBounds == Behind \in Nat /\ \A k \in Skews : k >= 0 - Behind
<1>1. {0} \cup Skews \in SUBSET Int /\ {0} \cup Skews # {} /\ IsFiniteSet({0} \cup Skews)
  <2>1. IsFiniteSet({0})
    BY FS_Singleton
  <2>2. IsFiniteSet({0} \cup Skews)
    BY <2>1, FS_Union, CashAssumption
  <2> QED
    BY <2>2, CashAssumption
<1>2. /\ Min({0} \cup Skews) \in {0} \cup Skews
      /\ \A k \in {0} \cup Skews : Min({0} \cup Skews) <= k
  BY <1>1, MinOfFinite
<1>3. Min({0} \cup Skews) \in Int /\ Min({0} \cup Skews) <= 0
  BY <1>1, <1>2
<1>4. \A k \in Skews : k \in Int /\ Min({0} \cup Skews) <= k
  BY <1>1, <1>2
<1> QED
  BY <1>3, <1>4 DEF Behind

\* The cassettes and the bin are numbers.
LEMMA UnitsType ==
    /\ Cardinality(Cassettes) \in Nat /\ Cassettes \subseteq Nat \ {0}
    /\ Units \subseteq Nat /\ Bin \in Units /\ Bin = 0
<1>1. Cardinality(Cassettes) \in Nat
  BY CashAssumption, FS_CardinalityType
<1> QED
  BY <1>1, CashAssumption DEF Units, Bin

\* A reading has the bin and at least the first cassette.
LEMMA ReadingType ==
    ASSUME TypeOK, listed # {}
    PROVE  Reading \in Readings
<1> DEFINE n == Cardinality(listed)
           f == [u \in {Bin} \cup 1 .. n |-> IF u = Bin THEN cash[Bin] ELSE cash[Position(u)]]
<1>1. /\ IsFiniteSet(listed) /\ n \in Nat /\ n <= Cardinality(Cassettes) /\ n # 0
  <2>1. listed \in SUBSET Cassettes /\ IsFiniteSet(Cassettes)
    BY CashAssumption DEF TypeOK
  <2>2. IsFiniteSet(listed) /\ n <= Cardinality(Cassettes)
    BY <2>1, FS_Subset
  <2> QED
    BY <2>2, FS_CardinalityType, FS_EmptySet
<1>2. ASSUME NEW i \in 1 .. n PROVE Position(i) \in Cassettes
  <2>1. listed \in SUBSET (1 .. Cardinality(Cassettes))
    BY CashAssumption DEF TypeOK
  <2>2. \E c \in listed : Cardinality({d \in listed : d <= c}) = i
    <3>1. Cardinality(Cassettes) \in Nat /\ i \in 1 .. Cardinality(listed)
      BY UnitsType
    <3> QED
      BY <2>1, <3>1, Numbered, Zenon
  <2>3. Position(i) \in listed
    BY <2>2 DEF Position
  <2> QED
    BY <2>3 DEF TypeOK
<1> HIDE DEF n
<1>3. 1 \in 1 .. n /\ {Bin} \cup 1 .. n \in SUBSET Units /\ 1 .. n \subseteq Cassettes
  BY <1>1, UnitsType, CashAssumption DEF Units
<1>4. \A u \in {Bin} \cup 1 .. n : f[u] \in Count
  BY <1>2, UnitsType DEF TypeOK, Units
<1>5. f \in [{Bin} \cup 1 .. n -> Count]
  BY <1>4
<1>6. f \in Readings
  BY <1>3, <1>5 DEF Readings
<1> QED
  BY <1>6 DEF Reading, n

---------------------------------------------------------------------------
(* What the server makes of a snapshot.                                    *)

\* The alerts a count asks for are of the known types.
LEMMA ActiveType ==
    ASSUME NEW u, NEW n
    PROVE  Active(u, n) \subseteq AlertTypes
BY DEF Active, BinAlerts, CountAlerts, AlertTypes

\* A snapshot that was sent: its parts.
LEMMA SentType ==
    ASSUME IInv, NEW s \in sent
    PROVE  /\ s.at \in Nat \ {0} /\ s.sentAt \in 1 .. MaxClock /\ s.sentAt <= clock
           /\ s.at >= s.sentAt - Behind
           /\ s.read \in Readings
           /\ DOMAIN s.read \subseteq Units /\ Bin \in DOMAIN s.read /\ 1 \in DOMAIN s.read
           /\ \A u \in DOMAIN s.read : s.read[u] \in Count
BY DEF IInv, TypeOK, TimeInv, Readings

\* The time a reading is stored under is neither before 1 nor beyond the grace,
\* and a fresh one is not older than the ATM's clock is behind.
LEMMA ReadAtType ==
    ASSUME IInv, NEW s \in sent
    PROVE  /\ ReadAt(s) \in 1 .. MaxClock + Grace
           /\ ReadAt(s) <= clock + Grace
           /\ s.sentAt = clock => ReadAt(s) >= clock - Behind
<1>1. s.at \in Nat \ {0} /\ s.at >= s.sentAt - Behind
  BY SentType
<1>2. clock \in 1 .. MaxClock /\ Grace \in Nat /\ MaxClock \in Nat /\ Behind \in Nat
  BY CashAssumption, BehindBounds DEF IInv, TypeOK
<1> QED
  BY <1>1, <1>2 DEF ReadAt

\* The cassettes of a snapshot that have a row.
LEMMA KnownType ==
    ASSUME IInv, NEW s \in sent
    PROVE  /\ Known(s) \subseteq Units
           /\ \A c \in Known(s) : shown[c].at \in 0 .. MaxClock + Grace /\ shown[c].at <= accepted + Grace
BY SentType DEF Known, IInv, TypeOK, TimeInv

\* A fresh reading is refused only a short time after the last commit.
LEMMA FreshRefused ==
    ASSUME IInv, NEW s \in sent, Suspicious(s), s.sentAt = clock
    PROVE  clock - accepted <= Window + Grace + Behind
<1>1. /\ clock \in Nat /\ accepted \in Nat /\ Grace \in Nat /\ Window \in Nat /\ Behind \in Nat
      /\ MaxClock \in Nat /\ ReadAt(s) \in Nat /\ ReadAt(s) >= clock - Behind
  BY ReadAtType, BehindBounds, CashAssumption DEF IInv, TypeOK
<1>2. CASE Older(s)
  <2>1. PICK c \in Known(s) : ReadAt(s) <= shown[c].at
    BY <1>2 DEF Older
  <2>2. shown[c].at \in Nat /\ shown[c].at <= accepted + Grace
    BY <1>1, KnownType
  <2> QED
    BY <1>1, <2>1, <2>2
<1>3. CASE Known(s) # {} /\ Elapsed(s) \in 0 .. Window
  <2> DEFINE T == {shown[c].at : c \in Known(s)}
  <2>1. T \in SUBSET Int /\ T # {} /\ \A t \in T : t <= accepted + Grace
    BY <1>1, <1>3, KnownType
  <2>2. Max(T) \in T
    <3> HIDE DEF T
    <3>1. accepted + Grace \in Int
      BY <1>1
    <3> QED
      BY <2>1, <3>1, MaxIsGreatest
  <2>3. Max(T) \in Int /\ Max(T) <= accepted + Grace
    BY <2>1, <2>2
  <2>4. ReadAt(s) - Max(T) <= Window
    BY <1>1, <1>3, <2>3 DEF Elapsed
  <2> HIDE DEF T
  <2> QED
    BY <1>1, <2>3, <2>4
<1> QED
  BY <1>2, <1>3 DEF Suspicious

\* The rows a snapshot opens.
LEMMA ToOpenType ==
    ASSUME IInv, NEW s \in sent
    PROVE  /\ ToOpen(s) \subseteq Alerts
           /\ \A r \in ToOpen(s) :
                /\ r.unit \in DOMAIN s.read /\ r.type \in Active(r.unit, s.read[r.unit])
                /\ r.by = s.sentAt
                /\ ~ \E o \in rows : o.unit = r.unit /\ o.type = r.type
           /\ \A u \in DOMAIN s.read : \A t \in Active(u, s.read[u]) :
                \E o \in rows \cup ToOpen(s) : o.unit = u /\ o.type = t
<1>1. /\ DOMAIN s.read \subseteq Units /\ s.sentAt \in 1 .. MaxClock
      /\ \A u \in DOMAIN s.read : Active(u, s.read[u]) \subseteq AlertTypes
  BY SentType, ActiveType
<1> DEFINE A(u) == [unit : {u}, type : Active(u, s.read[u]), by : {s.sentAt}]
<1>2. \A u \in DOMAIN s.read : \A r \in A(u) :
        /\ r.unit = u /\ r.type \in Active(u, s.read[u]) /\ r.by = s.sentAt
        /\ r \in Alerts
  BY <1>1 DEF Alerts
<1>3. \A r : r \in ToOpen(s) <=>
        /\ \E u \in DOMAIN s.read : r \in A(u)
        /\ ~ \E o \in rows : o.unit = r.unit /\ o.type = r.type
  BY DEF ToOpen
<1>4. ASSUME NEW u \in DOMAIN s.read, NEW t \in Active(u, s.read[u])
      PROVE  \E o \in rows \cup ToOpen(s) : o.unit = u /\ o.type = t
  <2> DEFINE r == [unit |-> u, type |-> t, by |-> s.sentAt]
  <2>1. r \in A(u) /\ r.unit = u /\ r.type = t
    OBVIOUS
  <2> HIDE DEF r, A
  <2>2. CASE \E o \in rows : o.unit = u /\ o.type = t
    BY <2>2
  <2>3. CASE ~ \E o \in rows : o.unit = u /\ o.type = t
    BY <1>3, <2>1, <2>3
  <2> QED
    BY <2>2, <2>3
<1> HIDE DEF A
<1> QED
  BY <1>2, <1>3, <1>4

---------------------------------------------------------------------------
(* IInv.                                                                   *)

LEMMA InitInv == ASSUME Init PROVE IInv
<1>1. /\ Behind \in Nat /\ Behind < MaxClock /\ MaxClock \in Nat /\ MaxCount \in Nat
      /\ Grace \in Nat /\ Window \in Nat /\ MaxChanges \in Nat
  BY BehindBounds, CashAssumption
<1>2. /\ clock = 1 + Behind /\ accepted = clock /\ blind = 0 /\ changes = 0
      /\ sent = {} /\ rows = {} /\ newest = {}
      /\ handling = [w \in Workers |-> Idle]
      /\ listed \in (SUBSET Cassettes) \ {{}} /\ skew \in Skews
  BY DEF Init
<1>3. cash \in [Units -> Count]
  BY <1>1 DEF Init, Count
<1>4. /\ shown \in [Units -> [at : 0 .. MaxClock + Grace, count : Count]]
      /\ \A u \in Units : shown[u].at = 0
  BY <1>1 DEF Init, NoRow, Count
<1>5. TypeOK
  BY <1>1, <1>2, <1>3, <1>4 DEF TypeOK
<1>6. TimeInv
  <2>1. /\ \A w \in Workers : handling[w].state = "writing" => handling[w].at <= clock + Grace
        /\ \A s \in sent : s.sentAt <= clock /\ s.at >= s.sentAt - Behind
        /\ listed # {}
    BY <1>2 DEF Idle
  <2>2. \A u \in Units : shown[u].at <= accepted + Grace
    BY <1>1, <1>2, <1>4
  <2>3. clock >= 1 + Behind /\ accepted <= clock /\ BlindnessEnds
    BY <1>1, <1>2 DEF BlindnessEnds
  <2> QED
    BY <2>1, <2>2, <2>3 DEF TimeInv
<1> QED
  BY <1>5, <1>6 DEF IInv

\* A request that begins is refused, or will write what was read.
LEMMA ReceiveKeeps ==
    ASSUME IInv, NEW w \in Workers, NEW s \in sent, Receive(w, s)
    PROVE  IInv'
<1>1. /\ sent' \subseteq sent /\ UNCHANGED <<clock, atmVars, boardRows>>
  BY DEF Receive
<1>2. /\ clock \in 1 .. MaxClock /\ accepted \in 0 .. MaxClock /\ blind \in 0 .. MaxClock
      /\ MaxClock \in Nat /\ accepted <= clock
      /\ Window \in Nat /\ Grace \in Nat /\ Behind \in Nat
      /\ blind <= Window + Grace + Behind
  BY CashAssumption, BehindBounds DEF IInv, TypeOK, TimeInv, BlindnessEnds
<1>3. CASE Suspicious(s) /\ UNCHANGED handling
  <2>1. /\ blind' \in 0 .. MaxClock /\ blind' <= Window + Grace + Behind
    <3>1. CASE s.sentAt = clock
      <4>1. blind' = Max({blind, clock - accepted})
        BY <1>3, <3>1 DEF Receive
      <4>2. clock - accepted <= Window + Grace + Behind /\ clock - accepted \in 0 .. MaxClock
        BY <1>2, <1>3, <3>1, FreshRefused
      <4> DEFINE T == {blind, clock - accepted}
      <4>3. T \in SUBSET Int /\ T # {} /\ MaxClock \in Int /\ \A t \in T : t <= MaxClock
        BY <1>2, <4>2
      <4>4. Max(T) \in T
        <5> HIDE DEF T
        <5> QED
          BY <4>3, MaxIsGreatest
      <4> QED
        BY <1>2, <4>1, <4>2, <4>4
    <3>2. CASE s.sentAt # clock
      BY <1>2, <1>3, <3>2 DEF Receive
    <3> QED
      BY <3>1, <3>2
  <2> QED
    BY <1>1, <1>3, <2>1 DEF IInv, TypeOK, TimeInv, BlindnessEnds, atmVars, boardRows
<1>4. CASE ~Suspicious(s) /\ UNCHANGED blind
  <2> DEFINE h == [state |-> "writing", at |-> ReadAt(s), read |-> s.read, loaded |-> shown,
                   opens |-> ToOpen(s), closes |-> ToClose(s)]
  <2>1. handling' = [handling EXCEPT ![w] = h]
    BY <1>4 DEF Receive, Idle
  <2>2. /\ h.state = "writing" /\ h.at \in 1 .. MaxClock + Grace /\ h.at <= clock + Grace
        /\ h.read \in Readings /\ h.opens \subseteq Alerts
    BY SentType, ReadAtType, ToOpenType
  <2> HIDE DEF h
  <2>0. /\ DOMAIN handling' = Workers
        /\ \A v \in Workers : handling'[v] = handling[v] \/ handling'[v] = h
    BY <2>1 DEF IInv, TypeOK
  <2>3. TypeOK'
    BY <1>1, <1>4, <2>0, <2>2 DEF IInv, TypeOK, atmVars, boardRows
  <2>4. TimeInv'
    BY <1>1, <1>4, <2>0, <2>2 DEF IInv, TimeInv, BlindnessEnds, atmVars, boardRows
  <2> QED
    BY <2>3, <2>4 DEF IInv
<1> QED
  BY <1>3, <1>4 DEF Receive

\* A commit writes the reading, at a time no later than now and the grace.
LEMMA CommitKeeps ==
    ASSUME IInv, NEW w \in Workers, Commit(w)
    PROVE  IInv'
<1> DEFINE h == handling[w]
<1>1. /\ h.state = "writing" /\ UNCHANGED <<clock, atmVars, sent, blind>>
      /\ accepted' = clock
      /\ DOMAIN handling' = Workers
      /\ \A v \in Workers : handling'[v] = handling[v] \/ handling'[v] = Idle
  BY DEF Commit, IInv, TypeOK
<1>2. /\ h.at \in 1 .. MaxClock + Grace /\ h.at <= clock + Grace
      /\ h.read \in Readings /\ h.opens \subseteq Alerts
  BY <1>1 DEF IInv, TypeOK, TimeInv, Idle
<1>3. /\ DOMAIN h.read \subseteq Units /\ \A u \in DOMAIN h.read : h.read[u] \in Count
  BY <1>2 DEF Readings
<1>4. rows' \subseteq Alerts /\ newest' \subseteq Units
  BY <1>2, <1>3 DEF Commit, IInv, TypeOK
<1>5. ASSUME NEW u \in Units
      PROVE  /\ shown'[u] \in [at : 0 .. MaxClock + Grace, count : Count]
             /\ shown'[u].at = shown[u].at \/ shown'[u].at = h.at
  <2>1. shown'[u] = IF u \notin DOMAIN h.read THEN shown[u]
              ELSE [at |-> Stored(h.at, h.loaded[u].at, shown[u].at),
                    count |-> Stored(h.read[u], h.loaded[u].count, shown[u].count)]
    BY DEF Commit
  <2>2. shown[u] \in [at : 0 .. MaxClock + Grace, count : Count]
    BY DEF IInv, TypeOK
  <2> QED
    BY <1>2, <1>3, <2>1, <2>2 DEF Stored
<1>6. shown' \in [Units -> [at : 0 .. MaxClock + Grace, count : Count]]
  <2>1. shown' = [u \in Units |-> shown'[u]]
    BY DEF Commit
  <2> QED
    BY <1>5, <2>1
<1> HIDE DEF h
<1>7. TypeOK'
  BY <1>1, <1>4, <1>6 DEF IInv, TypeOK, atmVars
<1>8. TimeInv'
  <2>1. clock \in Nat /\ accepted \in Nat /\ Grace \in Nat /\ accepted <= clock
    BY CashAssumption DEF IInv, TypeOK, TimeInv
  <2>2. \A u \in Units : shown'[u].at <= clock + Grace
    <3> SUFFICES ASSUME NEW u \in Units PROVE shown'[u].at <= clock + Grace
      OBVIOUS
    <3>1. shown[u].at \in Nat /\ shown[u].at <= accepted + Grace
      BY CashAssumption DEF IInv, TypeOK, TimeInv
    <3> QED
      BY <1>2, <1>5, <2>1, <3>1
  <2> QED
    BY <1>1, <2>1, <2>2 DEF IInv, TimeInv, BlindnessEnds, atmVars, Idle
<1> QED
  BY <1>7, <1>8 DEF IInv

LEMMA IInvStep ==
    ASSUME IInv, [Next]_vars
    PROVE  IInv'
<1>1. /\ clock \in 1 .. MaxClock /\ clock >= 1 + Behind /\ skew \in Skews
      /\ MaxClock \in Nat /\ MaxChanges \in Nat /\ changes \in 0 .. MaxChanges
      /\ accepted \in 0 .. MaxClock /\ accepted <= clock /\ Grace \in Nat
      /\ Behind \in Nat /\ Skews \subseteq Int
  BY CashAssumption, BehindBounds DEF IInv, TypeOK, TimeInv
<1>2. CASE Tick
  <2>1. /\ clock' = clock + 1 /\ clock < MaxClock
        /\ UNCHANGED <<cash, listed, skew, changes, sent, handling, shown, newest, rows, accepted, blind>>
    BY <1>2 DEF Tick, atmVars, boardRows
  <2>2. TypeOK'
    BY <1>1, <2>1 DEF IInv, TypeOK
  <2>3. TimeInv'
    <3>1. \A s \in sent : s.sentAt \in Nat /\ s.sentAt <= clock
      BY SentType
    <3>2. \A w \in Workers : handling[w].state = "writing" =>
                handling[w].at \in Nat /\ handling[w].at <= clock + Grace
      BY <1>1 DEF IInv, TypeOK, TimeInv, Idle
    <3> QED
      BY <1>1, <2>1, <3>1, <3>2 DEF IInv, TimeInv, BlindnessEnds
  <2> QED
    BY <2>2, <2>3 DEF IInv
<1>3. CASE Change
  <2>1. /\ cash' \in [Units -> Count] /\ listed' \subseteq Cassettes /\ listed' # {}
        /\ skew' \in Skews /\ changes' \in 0 .. MaxChanges
    <3>1. changes' \in 0 .. MaxChanges
      BY <1>1, <1>3 DEF Change
    <3> QED
      BY <1>3, <3>1 DEF Change, IInv, TypeOK, TimeInv
  <2>2. UNCHANGED <<clock, sent, handling, shown, newest, rows, accepted, blind>>
    BY <1>3 DEF Change, boardRows
  <2> QED
    BY <2>1, <2>2 DEF IInv, TypeOK, TimeInv, BlindnessEnds
<1>4. CASE Read
  <2> DEFINE s == [at |-> clock + skew, sentAt |-> clock, read |-> Reading]
  <2>1. /\ sent' = sent \cup {s}
        /\ UNCHANGED <<clock, cash, listed, skew, changes, handling, shown, newest, rows, accepted, blind>>
    BY <1>4 DEF Read, atmVars, boardRows
  <2>2. skew \in Int /\ skew >= 0 - Behind
    BY <1>1, BehindBounds
  <2>3. Reading \in Readings
    BY ReadingType DEF IInv, TimeInv
  <2>4. s.at \in Nat \ {0} /\ s.sentAt \in 1 .. MaxClock /\ s.sentAt <= clock /\ s.at >= s.sentAt - Behind
    BY <1>1, <2>2
  <2>5. s \in [at : Nat \ {0}, sentAt : 1 .. MaxClock, read : Readings]
    BY <2>3, <2>4
  <2> HIDE DEF s
  <2> QED
    BY <2>1, <2>4, <2>5 DEF IInv, TypeOK, TimeInv, BlindnessEnds
<1>5. CASE Lose
  <2>1. /\ sent' \subseteq sent
        /\ UNCHANGED <<clock, cash, listed, skew, changes, handling, shown, newest, rows, accepted, blind>>
    BY <1>5 DEF Lose, atmVars, boardRows
  <2> QED
    BY <2>1 DEF IInv, TypeOK, TimeInv, BlindnessEnds
<1>6. ASSUME NEW w \in Workers, NEW s \in sent, Receive(w, s) PROVE IInv'
  BY <1>6, ReceiveKeeps
<1>7. ASSUME NEW w \in Workers, Commit(w) PROVE IInv'
  BY <1>7, CommitKeeps
<1>8. ASSUME NEW w \in Workers, Rollback(w) PROVE IInv'
  <2>1. /\ DOMAIN handling' = Workers
        /\ \A v \in Workers : handling'[v] = handling[v] \/ handling'[v] = Idle
        /\ UNCHANGED <<clock, cash, listed, skew, changes, sent, shown, newest, rows, accepted, blind>>
    BY <1>8 DEF Rollback, atmVars, boardRows, IInv, TypeOK
  <2> QED
    BY <2>1 DEF IInv, TypeOK, TimeInv, BlindnessEnds, Idle
<1>9. CASE UNCHANGED vars
  BY <1>9 DEF vars, atmVars, boardRows, IInv, TypeOK, TimeInv, BlindnessEnds
<1> QED
  BY <1>2, <1>3, <1>4, <1>5, <1>6, <1>7, <1>8, <1>9 DEF Next, Server

---------------------------------------------------------------------------
(* Requests that do not overlap.                                           *)

LEMMA InitTurn == ASSUME Init PROVE TurnInv
<1>1. rows = {} /\ \A w \in Workers : handling[w].state # "writing"
  BY DEF Init, Idle
<1>2. 1 \in Units /\ Bin \in Units
  <2>1. Cassettes # {}
    BY DEF Init
  <2> QED
    BY <2>1, UnitsType, CashAssumption DEF Units
<1>3. shown[Bin].at = shown[1].at
  BY <1>2 DEF Init
<1> QED
  BY <1>1, <1>3 DEF TurnInv, CassetteCountedOnce

\* A request that is not refused has a reading newer than all it replaces.
LEMMA NotRefused ==
    ASSUME IInv, TurnInv, NEW s \in sent, ~Suspicious(s), NEW u \in DOMAIN s.read
    PROVE  ReadAt(s) > shown[u].at
<1>1. /\ ReadAt(s) \in Nat /\ ReadAt(s) > 0
      /\ \A v \in Units : shown[v].at \in Nat
      /\ DOMAIN s.read \subseteq Units /\ 1 \in DOMAIN s.read /\ Bin \in DOMAIN s.read /\ Bin # 1
  <2>1. MaxClock \in Nat /\ Grace \in Nat
    BY CashAssumption
  <2>2. ReadAt(s) \in 1 .. MaxClock + Grace
    BY ReadAtType
  <2>3. \A v \in Units : shown[v].at \in Nat
    BY <2>1 DEF IInv, TypeOK
  <2>4. Bin # 1
    BY DEF Bin
  <2> QED
    BY <2>1, <2>2, <2>3, <2>4, SentType
<1>2. ASSUME NEW c \in DOMAIN s.read \ {Bin} PROVE ReadAt(s) > shown[c].at
  <2>1. c \in Known(s) => ~(ReadAt(s) <= shown[c].at)
    BY DEF Suspicious, Older
  <2>2. c \notin Known(s) => shown[c].at = 0
    BY DEF Known
  <2> QED
    BY <1>1, <2>1, <2>2
<1>3. ReadAt(s) > shown[1].at
  BY <1>1, <1>2
<1> QED
  BY <1>2, <1>3 DEF TurnInv

\* What a request makes of the tables it has just read fits them.
LEMMA ReceivedFits ==
    ASSUME IInv, NEW s \in sent, NEW h,
           h.read = s.read, h.opens = ToOpen(s), h.closes = ToClose(s)
    PROVE  RowsFit(h)
<1>1. \A r, q \in h.opens : r.unit = q.unit /\ r.type = q.type => r = q
  <2> SUFFICES ASSUME NEW r \in ToOpen(s), NEW q \in ToOpen(s), r.unit = q.unit, r.type = q.type
               PROVE  r = q
    OBVIOUS
  <2>1. r \in Alerts /\ q \in Alerts /\ r.by = q.by
    BY ToOpenType
  <2> QED
    BY <2>1 DEF Alerts
<1>2. \A o \in rows : o \in h.closes <=>
        o.unit \in DOMAIN h.read /\ o.type \notin Active(o.unit, h.read[o.unit])
  BY DEF ToClose
<1> QED
  BY <1>1, <1>2, ToOpenType DEF RowsFit

\* A commit whose rows fit leaves one row of a type for each unit, and open
\* just the alerts that the shown counts ask for.
LEMMA CommitFits ==
    ASSUME IInv, TurnInv, NEW w \in Workers, Commit(w)
    PROVE  /\ CassetteCountedOnce'
           /\ OpenTypes' = [u \in Units |-> IF u \in DOMAIN handling[w].read
                                           THEN Active(u, handling[w].read[u]) ELSE OpenTypes[u]]
           /\ shown' = [u \in Units |-> IF u \in DOMAIN handling[w].read
                                       THEN [at |-> handling[w].at, count |-> handling[w].read[u]]
                                       ELSE shown[u]]
<1> DEFINE h == handling[w]
<1>1. /\ h.state = "writing" /\ rows' = (rows \ h.closes) \cup h.opens
      /\ RowsFit(h) /\ h.loaded = shown
  BY DEF Commit, TurnInv
<1>2. \A u \in Units : shown[u] \in [at : 0 .. MaxClock + Grace, count : Count]
  BY DEF IInv, TypeOK
<1>3. shown' = [u \in Units |-> IF u \notin DOMAIN h.read THEN shown[u]
              ELSE [at |-> Stored(h.at, h.loaded[u].at, shown[u].at),
                    count |-> Stored(h.read[u], h.loaded[u].count, shown[u].count)]]
  BY DEF Commit
<1> HIDE DEF h
<1>4. shown' = [u \in Units |-> IF u \in DOMAIN h.read
                              THEN [at |-> h.at, count |-> h.read[u]] ELSE shown[u]]
  BY <1>1, <1>2, <1>3 DEF Stored
<1>5. CassetteCountedOnce'
  BY <1>1 DEF CassetteCountedOnce, RowsFit, TurnInv
<1>6. ASSUME NEW u \in Units, u \in DOMAIN h.read
      PROVE  {r.type : r \in {o \in rows' : o.unit = u}} = Active(u, h.read[u])
  <2>1. ASSUME NEW r \in rows', r.unit = u PROVE r.type \in Active(u, h.read[u])
    BY <1>1, <1>6, <2>1 DEF RowsFit
  <2>2. ASSUME NEW t \in Active(u, h.read[u]) PROVE \E o \in rows' : o.unit = u /\ o.type = t
    <3>1. PICK o \in rows \cup h.opens : o.unit = u /\ o.type = t
      BY <1>1, <1>6 DEF RowsFit
    <3>2. o \in rows => o \notin h.closes
      BY <1>1, <1>6, <3>1 DEF RowsFit
    <3> QED
      BY <1>1, <3>1, <3>2
  <2> QED
    BY <2>1, <2>2
<1>7. ASSUME NEW u \in Units, u \notin DOMAIN h.read
      PROVE  {o \in rows' : o.unit = u} = {o \in rows : o.unit = u}
  BY <1>1, <1>7 DEF RowsFit
<1>8. OpenTypes' = [u \in Units |-> IF u \in DOMAIN h.read THEN Active(u, h.read[u]) ELSE OpenTypes[u]]
  BY <1>6, <1>7 DEF OpenTypes
<1> QED
  BY <1>4, <1>5, <1>8 DEF h

LEMMA TurnStep ==
    ASSUME IInv, TurnInv, OneAtATime, [Next]_vars
    PROVE  TurnInv'
<1>1. ASSUME UNCHANGED <<shown, rows>>,
             \A w \in Workers : handling'[w] = handling[w] \/ handling'[w] = Idle
      PROVE  TurnInv'
  BY <1>1 DEF TurnInv, CassetteCountedOnce, RowsFit, Idle
<1>2. CASE Tick \/ Change \/ Read \/ Lose \/ UNCHANGED vars
  BY <1>1, <1>2 DEF Tick, Change, Read, Lose, vars, boardRows
<1>3. ASSUME NEW w \in Workers, NEW s \in sent, Receive(w, s) PROVE TurnInv'
  <2>1. UNCHANGED <<shown, rows>>
    BY <1>3 DEF Receive, boardRows
  <2>2. CASE UNCHANGED handling
    BY <1>1, <2>1, <2>2
  <2>3. CASE ~Suspicious(s)
    <3> DEFINE h == [state |-> "writing", at |-> ReadAt(s), read |-> s.read, loaded |-> shown,
                     opens |-> ToOpen(s), closes |-> ToClose(s)]
    <3>1. handling' = [handling EXCEPT ![w] = h]
      BY <1>3, <2>3 DEF Receive, Idle
    <3>2. /\ h.read = s.read /\ h.at = ReadAt(s) /\ h.loaded = shown
          /\ h.opens = ToOpen(s) /\ h.closes = ToClose(s)
      OBVIOUS
    <3> HIDE DEF h
    <3>3. RowsFit(h) /\ \A u \in DOMAIN h.read : h.at > shown[u].at
      BY <2>3, <3>2, ReceivedFits, NotRefused
    <3>4. \A v \in Workers : handling'[v] = handling[v] \/ handling'[v] = h
      BY <3>1 DEF IInv, TypeOK
    <3>5. \A v \in Workers : handling'[v].state = "writing" =>
            /\ \A u \in DOMAIN handling'[v].read : handling'[v].at > shown[u].at
            /\ handling'[v].loaded = shown
            /\ RowsFit(handling'[v])
      BY <3>2, <3>3, <3>4 DEF TurnInv
    <3>6. \A v \in Workers : RowsFit(handling'[v]) => RowsFit(handling[v])'
      BY <2>1 DEF RowsFit
    <3>7. shown'[Bin].at = shown'[1].at /\ CassetteCountedOnce'
      BY <2>1 DEF TurnInv, CassetteCountedOnce
    <3> QED
      BY <2>1, <3>5, <3>6, <3>7 DEF TurnInv
  <2> QED
    BY <1>3, <2>2, <2>3 DEF Receive
<1>4. ASSUME NEW w \in Workers, Commit(w) PROVE TurnInv'
  <2>1. \A v \in Workers : handling'[v] = Idle
    BY <1>4 DEF Commit, OneAtATime, Idle, IInv, TypeOK
  <2>2. shown'[Bin].at = shown'[1].at
    <3>1. handling[w].state = "writing" /\ handling[w] # Idle
      BY <1>4 DEF Commit, Idle
    <3>2. handling[w].read \in Readings
      BY <3>1 DEF IInv, TypeOK
    <3>3. Bin \in DOMAIN handling[w].read /\ 1 \in DOMAIN handling[w].read
          /\ Bin \in Units /\ 1 \in Units
      BY <3>2 DEF Readings
    <3> QED
      BY <1>4, <3>3, CommitFits
  <2> QED
    BY <1>4, <2>1, <2>2, CommitFits DEF TurnInv, Idle
<1>5. ASSUME NEW w \in Workers, Rollback(w) PROVE TurnInv'
  BY <1>1, <1>5 DEF Rollback, boardRows, IInv, TypeOK
<1> QED
  BY <1>2, <1>3, <1>4, <1>5 DEF Next, Server

---------------------------------------------------------------------------
(* The board.                                                              *)

LEMMA InitBoard == ASSUME Init PROVE Board!BoardInit
BY DEF Init, Board!BoardInit, OpenTypes, NoRow

\* A commit shows a newer reading on the board; nothing else changes the board.
LEMMA BoardStep ==
    ASSUME IInv, TurnInv, [Next]_vars
    PROVE  [Board!BoardNext]_(Board!boardVars)
<1>1. ASSUME UNCHANGED <<shown, rows>> PROVE UNCHANGED Board!boardVars
  BY <1>1 DEF Board!boardVars, OpenTypes
<1>2. CASE Tick \/ Change \/ Read \/ Lose \/ UNCHANGED vars
  BY <1>1, <1>2 DEF Tick, Change, Read, Lose, vars, boardRows
<1>3. ASSUME NEW w \in Workers, NEW s \in sent, Receive(w, s) PROVE UNCHANGED Board!boardVars
  BY <1>1, <1>3 DEF Receive, boardRows
<1>4. ASSUME NEW w \in Workers, Rollback(w) PROVE UNCHANGED Board!boardVars
  BY <1>1, <1>4 DEF Rollback, boardRows
<1>5. ASSUME NEW w \in Workers, Commit(w) PROVE Board!BoardNext
  <2> DEFINE read == handling[w].read
             at == handling[w].at
  <2>1. handling[w].state = "writing" /\ handling[w] # Idle
    BY <1>5 DEF Commit, Idle
  <2>2. read \in Readings /\ at \in 1 .. MaxClock + Grace
    BY <2>1 DEF IInv, TypeOK
  <2>3. DOMAIN read \in SUBSET Units /\ read \in [DOMAIN read -> Count]
    BY <2>2 DEF Readings
  <2>4. \A u \in DOMAIN read : at > shown[u].at
    BY <2>1 DEF TurnInv
  <2>5. /\ OpenTypes' = [u \in Units |-> IF u \in DOMAIN read THEN Active(u, read[u]) ELSE OpenTypes[u]]
        /\ shown' = [u \in Units |-> IF u \in DOMAIN read
                                    THEN [at |-> at, count |-> read[u]] ELSE shown[u]]
    BY <1>5, CommitFits
  <2> HIDE DEF read, at
  <2>6. Board!Show(read)
    BY <2>2, <2>4, <2>5 DEF Board!Show
  <2> QED
    BY <2>3, <2>6 DEF Board!BoardNext
<1> QED
  BY <1>2, <1>3, <1>4, <1>5 DEF Next, Server

---------------------------------------------------------------------------
(* Theorems.                                                               *)

\* The inductive invariant holds in every reachable state, however many
\* requests are handled at once.
THEOREM Invariance == Spec => []IInv
<1>1. Init => IInv
  BY InitInv
<1>2. IInv /\ [Next]_vars => IInv'
  BY IInvStep
<1> QED
  BY <1>1, <1>2, PTL DEF Spec

\* Every variable keeps its type; no reading is stored beyond the grace.
THEOREM TypeCorrect == Spec => []TypeOK
<1>1. IInv => TypeOK
  BY DEF IInv
<1> QED
  BY <1>1, Invariance, PTL

\* A fresh reading is refused as suspicious for no longer than the window, the
\* grace and the ATM's clock error after the last commit, whatever is late or
\* overlaps, and whatever the clocks do within their bounds.
THEOREM BlindnessIsBounded == Spec => []BlindnessEnds
<1>1. IInv => BlindnessEnds
  BY DEF IInv, TimeInv
<1> QED
  BY <1>1, Invariance, PTL

\* While requests do not overlap, what a request is about to write fits the
\* tables it will find.
THEOREM TurnInvariance == Spec /\ []OneAtATime => []TurnInv
<1>1. Init => TurnInv
  BY InitTurn
<1>2. IInv /\ TurnInv /\ OneAtATime /\ [Next]_vars => TurnInv'
  BY TurnStep
<1> QED
  BY <1>1, <1>2, Invariance, PTL DEF Spec

\* Then every cassette has at most one open alert of a type, ...
THEOREM CountedOnce == Spec /\ []OneAtATime => []CassetteCountedOnce
<1>1. TurnInv => CassetteCountedOnce
  BY DEF TurnInv
<1> QED
  BY <1>1, TurnInvariance, PTL

\* ... and submit_cash_snapshot implements the board: an earlier reading never
\* replaces a later one, and the open alerts are those of the shown counts.
THEOREM Refinement == Spec /\ []OneAtATime => ImplementsBoard
<1>1. Init => Board!BoardInit
  BY InitBoard
<1>2. IInv /\ TurnInv /\ [Next]_vars => [Board!BoardNext]_(Board!boardVars)
  BY BoardStep
<1> QED
  BY <1>1, <1>2, Invariance, TurnInvariance, PTL DEF Spec, ImplementsBoard, Board!BoardSpec

---------------------------------------------------------------------------
(* The rules, for every reading and every history.                         *)

\* The layouts both sides read alike: no cassette is critical before it is low,
\* and no low threshold is zero.  The code refuses no other.
Ordered(map) ==
    \A no \in DOMAIN map :
        /\ map[no] \in [cassette_no : Nat, currency : {"YER", "USD", "SAR"}, denomination : Nat,
                        max_capacity : Nat, low_threshold : Nat \ {0}, critical_threshold : Nat]
        /\ map[no].critical_threshold <= map[no].low_threshold

\* What the agent reports of a cassette.
LEMMA ReportedUnit ==
    ASSUME NEW units, NEW map, NEW i \in DOMAIN Reported(units, map)
    PROVE  LET u == Reported(units, map)[i]
               item == AgentLayoutFor(map, i)
           IN  \E unit : u = [cassette_no |-> i, count |-> unit.count,
                              currency |-> item.currency, denomination |-> item.denomination,
                              status |-> CashStatus(unit.count, item, unit.status),
                              physical |-> PhysicalStatus(unit.status)]
BY DEF Reported

\* The agent and the server judge a cassette alike, whatever its count, its
\* state and its place in or outside the layout, if the layout is ordered.
THEOREM JudgedAlike ==
    ASSUME Ordered(Map),
           \A i \in DOMAIN Reported(case.units, Map) :
               Reported(case.units, Map)[i].count \in Int
    PROVE  AgentAndServerAgree
<1> DEFINE map == Map
           reported == Reported(case.units, map)
<1> SUFFICES ASSUME NEW i \in DOMAIN reported, reported[i].status \in {"OK", "LOW"}
             PROVE  LET alerts == ActiveAlerts(reported[i], map, Atm)
                    IN  /\ "CASH_EMPTY" \notin alerts
                        /\ reported[i].status = "LOW" <=> alerts \cap {"CASH_CRITICAL", "CASH_LOW"} # {}
  BY DEF AgentAndServerAgree
<1> DEFINE u == reported[i]
           item == AgentLayoutFor(map, i)
           judged == ItemFor(u, map, Atm)
<1>1. PICK unit : u = [cassette_no |-> i, count |-> unit.count,
                       currency |-> item.currency, denomination |-> item.denomination,
                       status |-> CashStatus(unit.count, item, unit.status),
                       physical |-> PhysicalStatus(unit.status)]
  BY ReportedUnit
<1>2. u.count \in Int /\ u.cassette_no = i /\ u.status = CashStatus(u.count, item, unit.status)
  BY <1>1
<1>3. /\ item.low_threshold = judged.low_threshold
      /\ judged.low_threshold \in Nat /\ judged.critical_threshold \in Nat
      /\ judged.critical_threshold <= judged.low_threshold
  <2>1. CASE i \in DOMAIN map
    BY <1>2, <2>1 DEF Ordered, AgentLayoutFor, AgentItem, OrDefault, ItemFor
  <2>2. CASE i \notin DOMAIN map
    BY <1>2, <2>2 DEF AgentLayoutFor, DefaultItem, ItemFor, Atm
  <2> QED
    BY <2>1, <2>2
<1>4. u.count > 0 /\ (u.status = "LOW" <=> u.count <= judged.low_threshold)
  BY <1>2, <1>3 DEF CashStatus
<1>5. HealthAlerts(u.status, u.physical) \subseteq {"CASSETTE_MISSING", "CASSETTE_INOP"}
  BY DEF HealthAlerts
<1>6. ActiveAlerts(u, map, Atm) =
        CountAlerts(u.count, judged.low_threshold, judged.critical_threshold)
        \cup HealthAlerts(u.status, u.physical)
  BY DEF ActiveAlerts
<1> QED
  BY <1>2, <1>3, <1>4, <1>5, <1>6 DEF CountAlerts

\* What is reported is a record of the six fields the server stores.
IsUnit(u) ==
    u = [cassette_no |-> u.cassette_no, count |-> u.count, currency |-> u.currency,
         denomination |-> u.denomination, status |-> u.status, physical |-> u.physical]

LEMMA ReportedIsUnit ==
    ASSUME NEW units, NEW map, NEW i \in DOMAIN Reported(units, map)
    PROVE  IsUnit(Reported(units, map)[i])
<1> DEFINE item == AgentLayoutFor(map, i)
<1>1. PICK unit : Reported(units, map)[i] =
                     [cassette_no |-> i, count |-> unit.count,
                      currency |-> item.currency, denomination |-> item.denomination,
                      status |-> CashStatus(unit.count, item, unit.status),
                      physical |-> PhysicalStatus(unit.status)]
  BY ReportedUnit
<1> HIDE DEF item
<1> QED
  BY <1>1 DEF IsUnit

LEMMA ProductEmpty ==
    ASSUME NEW x, NEW S
    PROVE  {x} \X S = {} <=> S = {}
<1>1. ASSUME NEW y \in S
      PROVE  <<x, y>> \in {x} \X S
  OBVIOUS
<1>2. ASSUME NEW z \in {x} \X S
      PROVE  z[2] \in S
  OBVIOUS
<1> QED
  BY <1>1, <1>2

\* A unit is found in order exactly if it is configured and has no alert: a
\* stored unit is compared with the layout it is displayed under.
LEMMA UnitInOrder ==
    ASSUME NEW map, NEW atm, NEW u, IsUnit(u)
    PROVE  LET stored == UnderLayout(u, map)
           IN  /\ stored.cassette_no = u.cassette_no
               /\ UnitIssues(stored, map) = {} <=>
                    u.cassette_no \in DOMAIN map /\ ActiveAlerts(u, map, atm) = {}
<1> DEFINE no == u.cassette_no
           stored == UnderLayout(u, map)
<1>1. CASE no \notin DOMAIN map
  <2>1. stored = u
    BY <1>1 DEF UnderLayout
  <2>2. UnitIssues(u, map) = {<<no, "UNCONFIGURED_CASSETTE">>}
    BY <1>1 DEF UnitIssues
  <2> QED
    BY <1>1, <2>1, <2>2
<1>2. CASE no \in DOMAIN map
  <2> DEFINE item == map[no]
             alerts == HealthAlerts(u.status, u.physical)
                       \cup CountAlerts(u.count, item.low_threshold, item.critical_threshold)
  <2>1. stored = [u EXCEPT !.currency = item.currency, !.denomination = item.denomination]
    BY <1>2 DEF UnderLayout
  <2>2. /\ stored.cassette_no = no /\ stored.count = u.count
        /\ stored.status = u.status /\ stored.physical = u.physical
        /\ stored.currency = item.currency /\ stored.denomination = item.denomination
    BY <2>1 DEF IsUnit
  <2>3. Mismatches(stored.currency, stored.denomination, item) = {}
    BY <2>2 DEF Mismatches
  <2>4. UnitIssues(stored, map) = {no} \X alerts
    BY <1>2, <2>2, <2>3 DEF UnitIssues
  <2>5. ActiveAlerts(u, map, atm) = alerts
    BY <1>2 DEF ActiveAlerts, ItemFor
  <2> HIDE DEF alerts
  <2> QED
    BY <1>2, <2>2, <2>4, <2>5, ProductEmpty
<1> QED
  BY <1>1, <1>2

\* A layout is never empty: an ATM without one has the default cassettes.
LEMMA LayoutNotEmpty ==
    ASSUME NEW S, NEW layout \in Seq(S)
    PROVE  DOMAIN LayoutMap(layout) # {}
<1>1. DOMAIN Normalized(layout) # {}
  <2>1. CASE layout = << >>
    <3>1. 1 \in 1 .. 4
      OBVIOUS
    <3> QED
      BY <2>1, <3>1 DEF Normalized
  <2>2. CASE layout # << >>
    <3>1. 1 \in DOMAIN layout
      BY <2>2
    <3> QED
      BY <2>2, <3>1 DEF Normalized
  <2> QED
    BY <2>1, <2>2
<1> QED
  BY <1>1 DEF LayoutMap

\* The verification says "matched" exactly when every configured cassette was
\* reported and no other, nothing is to be alerted, the bins are in order and
\* the agent has the present configuration, whatever the layout and the units.
THEOREM MatchedIsSound ==
    ASSUME NEW S, case.layout \in Seq(S), case.enabled \in BOOLEAN, case.pending \in BOOLEAN
    PROVE  MatchedMeansSound
<1> DEFINE map == Map
           units == ReportedUnits
           stored == {UnderLayout(u, map) : u \in units}
           bin == ReportedBins
           sound(u) == u.cassette_no \in DOMAIN map /\ ActiveAlerts(u, map, Atm) = {}
           config == IF case.pending THEN {<<0, "CONFIG_PENDING">>} ELSE {}
           issues == config \cup MissingIssues(stored, map) \cup BinIssues(bin)
                     \cup UNION {UnitIssues(u, map) : u \in stored}
<1>1. DOMAIN map # {}
  BY LayoutNotEmpty DEF Map
<1>2. \A u \in units :
        /\ UnderLayout(u, map).cassette_no = u.cassette_no
        /\ UnitIssues(UnderLayout(u, map), map) = {} <=> sound(u)
  <2> SUFFICES ASSUME NEW u \in units
               PROVE  /\ UnderLayout(u, map).cassette_no = u.cassette_no
                      /\ UnitIssues(UnderLayout(u, map), map) = {} <=> sound(u)
    OBVIOUS
  <2>1. PICK i \in DOMAIN Reported(case.units, map) : u = Reported(case.units, map)[i]
    BY DEF ReportedUnits, Range
  <2>2. IsUnit(u)
    BY <2>1, ReportedIsUnit
  <2> QED
    BY <2>2, UnitInOrder
<1>3. MissingIssues(stored, map) = {} <=> DOMAIN map \subseteq {u.cassette_no : u \in units}
  <2>1. {u.cassette_no : u \in stored} = {u.cassette_no : u \in units}
    BY <1>2
  <2> QED
    BY <2>1 DEF MissingIssues
<1>4. BinIssues(bin) = {} <=> BinAlerts(bin) = {} /\ bin.rejectStatus \in {"OK", "LOW"}
  <2>1. bin.retractStatus = "OK"
    BY DEF ReportedBins, RejectRetract
  <2>2. StatusIssuesOf(bin) = {} <=> bin.rejectStatus \in {"OK", "LOW"}
    BY <2>1 DEF StatusIssuesOf
  <2> QED
    BY <2>2, ProductEmpty DEF BinIssues
<1>5. UNION {UnitIssues(u, map) : u \in stored} = {} <=> \A u \in units : sound(u)
  BY <1>2
<1>6. issues = {} <=>
        /\ ~case.pending
        /\ {u.cassette_no : u \in units} = DOMAIN map
        /\ \A u \in units : ActiveAlerts(u, map, Atm) = {}
        /\ BinAlerts(bin) = {} /\ bin.rejectStatus \in {"OK", "LOW"}
  <2> HIDE DEF map, units, stored, bin
  <2>1. (DOMAIN map \subseteq {u.cassette_no : u \in units} /\ \A u \in units : sound(u)) <=>
            /\ {u.cassette_no : u \in units} = DOMAIN map
            /\ \A u \in units : ActiveAlerts(u, map, Atm) = {}
    OBVIOUS
  <2> HIDE DEF sound
  <2> QED
    BY <1>3, <1>4, <1>5, <2>1
<1>7. Verdict.status = "matched" <=> case.enabled /\ stored # {} /\ issues = {}
  <2> HIDE DEF map, units, stored, bin
  <2>1. Verdict = Verification(case.enabled, case.pending, stored, bin, map)
    BY DEF Verdict, map, units, stored, bin
  <2> QED
    BY <2>1 DEF Verification
<1>8. stored # {} <=> units # {}
  OBVIOUS
<1>9. {u.cassette_no : u \in units} = DOMAIN map => units # {}
  BY <1>1
<1> HIDE DEF map, units, stored, bin, issues
<1>10. Verdict.status = "matched" <=>
        /\ case.enabled /\ ~case.pending
        /\ {u.cassette_no : u \in units} = DOMAIN map
        /\ \A u \in units : ActiveAlerts(u, map, Atm) = {}
        /\ BinAlerts(bin) = {} /\ bin.rejectStatus \in {"OK", "LOW"}
  BY <1>6, <1>7, <1>8, <1>9
<1> QED
  BY <1>10 DEF MatchedMeansSound, map, units, bin

\* The risk is never below what the open alert says, for every threshold, count
\* and history.
THEOREM RiskIsCovered == RiskCoversAlert
<1> SUFFICES ASSUME NEW n \in 0 .. MaxNotes, NEW low \in 0 .. MaxNotes, NEW critical \in 0 .. MaxNotes
             PROVE  LET risk == Risk(n, low, critical, DaysTo(0, n, readings))
                        alerts == CountAlerts(n, low, critical)
                    IN  /\ alerts \cap {"CASH_EMPTY", "CASH_CRITICAL"} # {} => HighestRisk({"OK", risk}) = "CRITICAL"
                        /\ alerts # {} => HighestRisk({"OK", risk}) # "OK"
  BY DEF RiskCoversAlert
<1> DEFINE risk == Risk(n, low, critical, DaysTo(0, n, readings))
<1>1. HighestRisk({"OK", "CRITICAL"}) = "CRITICAL" /\ HighestRisk({"OK", "LOW"}) = "LOW"
  BY DEF HighestRisk, RiskRank
<1>2. n <= critical => risk = "CRITICAL"
  BY DEF Risk
<1>3. n <= low => risk \in {"CRITICAL", "LOW"}
  BY DEF Risk
<1>4. CountAlerts(n, low, critical) \cap {"CASH_EMPTY", "CASH_CRITICAL"} # {} => n <= critical
  BY DEF CountAlerts
<1>5. CountAlerts(n, low, critical) # {} => n <= critical \/ n <= low
  BY DEF CountAlerts
<1> QED
  BY <1>1, <1>2, <1>3, <1>4, <1>5

---------------------------------------------------------------------------
(* The forecast.                                                           *)

\* The sum of a function's values is taken one by one.
First(T) == CHOOSE x \in T : TRUE
IsSum(h, D, v) ==
    /\ h[{}] = 0 /\ SumFunction(v) = h[D] /\ \A T \in SUBSET D : h[T] \in Int
    /\ \A T \in SUBSET D : T # {} => h[T] = v[First(T)] + h[T \ {First(T)}]

LEMMA SumTaken ==
    ASSUME NEW D, IsFiniteSet(D), NEW v \in [D -> Int]
    PROVE  \E h : IsSum(h, D, v)
<1> DEFINE c == [T \in SUBSET D |-> First(T)]
           g == [z \in D \X Int |-> v[z[1]] + z[2]]
           Folds(h) == h = [T \in SUBSET D |-> IF T = {} THEN 0 ELSE v[First(T)] + h[T \ {First(T)}]]
<1>1. Chooses(c, D) /\ Steps(g, D, Int)
  <2>1. \A T : T # {} => First(T) \in T
    BY DEF First
  <2>2. \A T \in SUBSET D : T # {} => c[T] \in T
    BY <2>1
  <2>3. g \in [D \X Int -> Int]
    OBVIOUS
  <2> QED
    BY <2>2, <2>3 DEF Chooses, Steps
<1>2. \A x \in D, n \in Int : g[<<x, n>>] = v[x] + n
  OBVIOUS
<1>3. \A T \in SUBSET D : c[T] = First(T)
  OBVIOUS
<1> HIDE DEF c, g
<1>4. PICK h : IsFold(h, D, Int, 0, c, g)
  <2>1. 0 \in Int
    OBVIOUS
  <2> QED
    BY <1>1, <2>1, FoldExists
<1>5. \A T \in SUBSET D : T # {} => First(T) \in T
  BY DEF First
<1>6. ASSUME NEW T \in SUBSET D, T # {} PROVE h[T] = v[First(T)] + h[T \ {First(T)}]
  <2>1. h[T] = g[<<First(T), h[T \ {First(T)}]>>]
    BY <1>3, <1>4, <1>6 DEF IsFold
  <2>2. First(T) \in D /\ h[T \ {First(T)}] \in Int
    BY <1>4, <1>5, <1>6 DEF IsFold
  <2> QED
    BY <1>2, <2>1, <2>2
<1>7. h \in [SUBSET D -> Int] /\ h[{}] = 0
  BY <1>4 DEF IsFold
<1>8. Folds(h)
  <2>1. h = [T \in SUBSET D |-> h[T]]
    BY <1>7
  <2>2. \A T \in SUBSET D : h[T] = IF T = {} THEN 0 ELSE v[First(T)] + h[T \ {First(T)}]
    BY <1>6, <1>7
  <2> QED
    BY <2>1, <2>2
<1>9. SumFunction(v) = (CHOOSE k : Folds(k))[D]
  <2>1. DOMAIN v = D
    OBVIOUS
  <2> QED
    BY <2>1 DEF SumFunction, SumFunctionOnSet, FoldFunctionOnSet, MapThenFoldSet, First
<1>10. PICK k : Folds(k) /\ SumFunction(v) = k[D]
  BY <1>8, <1>9
<1>11. k[{}] = 0 /\ \A T \in SUBSET D : T # {} => k[T] = v[First(T)] + k[T \ {First(T)}]
  BY <1>10
<1>12. \A T \in SUBSET D : k[T] \in Int
  <2> DEFINE G == {T \in SUBSET D : k[T] \in Int}
  <2>1. {} \in G
    BY <1>11
  <2>2. ASSUME NEW T \in SUBSET D, T # {}, T \ {c[T]} \in G PROVE T \in G
    <3>1. First(T) \in D /\ k[T \ {First(T)}] \in Int /\ v[First(T)] \in Int
      BY <1>3, <1>5, <2>2
    <3> QED
      BY <1>11, <2>2, <3>1
  <2> HIDE DEF G
  <2>3. \A T \in SUBSET D : T \in G
    BY <1>1, <2>1, <2>2, SubsetByOne
  <2> QED
    BY <2>3 DEF G
<1> QED
  BY <1>10, <1>11, <1>12 DEF IsSum

\* When of every value one is weightier than the other, so are their sums.
LEMMA SumsWeighed ==
    ASSUME NEW D, IsFiniteSet(D), D # {}, NEW v \in [D -> Int], NEW w \in [D -> Int],
           NEW p \in Int, NEW q \in Int, \A x \in D : p * v[x] > q * w[x]
    PROVE  /\ SumFunction(v) \in Int /\ SumFunction(w) \in Int
           /\ p * SumFunction(v) > q * SumFunction(w)
<1> DEFINE c == [T \in SUBSET D |-> First(T)]
<1>0. PICK h : IsSum(h, D, v)
  BY SumTaken
<1>00. PICK k : IsSum(k, D, w)
  BY SumTaken
<1>1. /\ h[{}] = 0 /\ SumFunction(v) = h[D] /\ \A T \in SUBSET D : h[T] \in Int
      /\ \A T \in SUBSET D : T # {} => h[T] = v[First(T)] + h[T \ {First(T)}]
  BY <1>0 DEF IsSum
<1>2. /\ k[{}] = 0 /\ SumFunction(w) = k[D] /\ \A T \in SUBSET D : k[T] \in Int
      /\ \A T \in SUBSET D : T # {} => k[T] = w[First(T)] + k[T \ {First(T)}]
  BY <1>00 DEF IsSum
<1>3. /\ \A T \in SUBSET D : T # {} => First(T) \in T
      /\ \A T \in SUBSET D : c[T] = First(T)
  BY DEF First
<1>4. Chooses(c, D)
  BY <1>3 DEF Chooses
<1> HIDE DEF c
<1> DEFINE G == {T \in SUBSET D : p * h[T] >= q * k[T] /\ (T # {} => p * h[T] > q * k[T])}
<1>5. {} \in G
  BY <1>1, <1>2
<1>6. ASSUME NEW T \in SUBSET D, T # {}, T \ {c[T]} \in G PROVE T \in G
  <2> DEFINE x == First(T)
             R == T \ {x}
             a == v[x]
             b == w[x]
             m == h[R]
             n == k[R]
  <2>1. x \in D /\ R \in SUBSET D /\ R = T \ {c[T]}
    BY <1>3, <1>6
  <2>2. a \in Int /\ b \in Int /\ m \in Int /\ n \in Int /\ p * a > q * b /\ p * m >= q * n
    BY <1>1, <1>2, <1>6, <2>1
  <2>3. h[T] = a + m /\ k[T] = b + n
    BY <1>1, <1>2, <1>6
  <2> HIDE DEF a, b, m, n
  <2>4. p * (a + m) = p * a + p * m /\ q * (b + n) = q * b + q * n
    BY <2>2
  <2>5. p * (a + m) > q * (b + n)
    <3> DEFINE pa == p * a
               pm == p * m
               qb == q * b
               qn == q * n
    <3>1. pa \in Int /\ pm \in Int /\ qb \in Int /\ qn \in Int /\ pa > qb /\ pm >= qn
      BY <2>2
    <3> HIDE DEF pa, pm, qb, qn
    <3>2. pa + pm > qb + qn
      BY <3>1
    <3> QED
      BY <2>4, <3>2 DEF pa, pm, qb, qn
  <2>6. p * h[T] > q * k[T] /\ p * h[T] \in Int /\ q * k[T] \in Int
    BY <2>2, <2>3, <2>5
  <2> QED
    BY <2>6
<1> HIDE DEF G
<1>7. \A T \in SUBSET D : T \in G
  BY <1>4, <1>5, <1>6, SubsetByOne
<1>8. D \in G
  BY <1>7
<1> QED
  BY <1>1, <1>2, <1>8 DEF G

\* What is rounded lies within a half, on it only when the result is even.
LEMMA Rounded ==
    ASSUME NEW a \in Nat, NEW b \in Nat \ {0}
    PROVE  LET m == Hundredths(a, b) IN
           /\ m \in Nat
           /\ (2 * m - 1) * b <= 200 * a /\ ((2 * m - 1) * b = 200 * a => m % 2 = 0)
           /\ 200 * a <= (2 * m + 1) * b /\ ((2 * m + 1) * b = 200 * a => m % 2 = 0)
<1> DEFINE x == 100 * a
           q == x \div b
           r == x % b
           m == Hundredths(a, b)
<1>1. x \in Nat /\ 200 * a = 2 * x
  OBVIOUS
<1>2. m = IF 2 * r > b \/ (2 * r = b /\ q % 2 = 1) THEN q + 1 ELSE q
  BY DEF Hundredths
<1> HIDE DEF x, m
<1>3. q \in Nat /\ r \in Nat /\ r < b /\ x = q * b + r
  BY <1>1
<1> HIDE DEF q, r
<1> DEFINE p == q * b
<1>4. p \in Nat /\ x = p + r
  BY <1>3
<1>5. /\ (2 * q - 1) * b = 2 * p - b /\ (2 * q + 1) * b = 2 * p + b
      /\ (2 * (q + 1) - 1) * b = 2 * p + b /\ (2 * (q + 1) + 1) * b = 2 * p + b + b + b
  BY <1>3
<1> HIDE DEF p
<1>6. CASE 2 * r > b \/ (2 * r = b /\ q % 2 = 1)
  <2>1. m = q + 1
    BY <1>2, <1>6
  <2>2. /\ 2 * p + b <= 2 * x /\ (2 * p + b = 2 * x => q % 2 = 1)
        /\ 2 * x < 2 * p + b + b + b
    BY <1>3, <1>4, <1>6
  <2>3. q % 2 = 1 => (q + 1) % 2 = 0
    BY <1>3
  <2> QED
    BY <1>1, <1>3, <1>5, <2>1, <2>2, <2>3 DEF m
<1>7. CASE ~(2 * r > b \/ (2 * r = b /\ q % 2 = 1))
  <2>1. m = q
    BY <1>2, <1>7
  <2>2. /\ 2 * p - b < 2 * x /\ 2 * x <= 2 * p + b
        /\ 2 * x = 2 * p + b => q % 2 = 0
    BY <1>3, <1>4, <1>7
  <2> QED
    BY <1>1, <1>3, <1>5, <2>1, <2>2 DEF m
<1> QED
  BY <1>6, <1>7

\* A smaller quotient is not rounded to a greater one.
LEMMA RoundedInOrder ==
    ASSUME NEW a \in Nat, NEW b \in Nat \ {0}, NEW c \in Nat, NEW d \in Nat \ {0}, a * d <= c * b
    PROVE  Hundredths(a, b) <= Hundredths(c, d)
<1> DEFINE m == Hundredths(a, b)
           n == Hundredths(c, d)
           k == 2 * m - 1
           l == 2 * n + 1
<1>1. /\ m \in Nat /\ k * b <= 200 * a /\ (k * b = 200 * a => m % 2 = 0)
      /\ n \in Nat /\ 200 * c <= l * d /\ (l * d = 200 * c => n % 2 = 0)
  BY Rounded
<1> SUFFICES ASSUME m > n PROVE FALSE
  BY <1>1
<1> HIDE DEF m, n
<1>2. k \in Int /\ l \in Int /\ l <= k /\ (k = l => m = n + 1)
  BY <1>1
<1> HIDE DEF k, l
<1> DEFINE bd == b * d
<1>3. bd \in Nat \ {0}
  BY DEF bd
<1>4. /\ (k * b) * d <= (200 * a) * d /\ (k * b # 200 * a => (k * b) * d < (200 * a) * d)
      /\ (200 * c) * b <= (l * d) * b /\ (l * d # 200 * c => (200 * c) * b < (l * d) * b)
  <2>1. \A s \in Int, t \in Int, u \in Nat \ {0} : s <= t => s * u <= t * u /\ (s # t => s * u < t * u)
    OBVIOUS
  <2>2. k * b \in Int /\ 200 * a \in Int /\ 200 * c \in Int /\ l * d \in Int
    BY <1>2
  <2> QED
    BY <1>1, <2>1, <2>2
<1>5. /\ (k * b) * d = k * bd /\ (l * d) * b = l * bd
      /\ (200 * a) * d = 200 * (a * d) /\ (200 * c) * b = 200 * (c * b)
  BY <1>2 DEF bd
<1>6. l * bd <= k * bd /\ (l # k => l * bd < k * bd)
  <2>1. \A s \in Int, t \in Int, u \in Nat \ {0} : s <= t => s * u <= t * u /\ (s # t => s * u < t * u)
    OBVIOUS
  <2> QED
    BY <1>2, <1>3, <2>1
<1>7. k = l /\ k * b = 200 * a /\ l * d = 200 * c
  <2> DEFINE e1 == k * bd
             e2 == l * bd
             e3 == a * d
             e4 == c * b
  <2>1. e1 \in Int /\ e2 \in Int /\ e3 \in Int /\ e4 \in Int /\ e3 <= e4
    BY <1>2, <1>3
  <2>2. /\ e1 <= 200 * e3 /\ (k * b # 200 * a => e1 < 200 * e3)
        /\ 200 * e4 <= e2 /\ (l * d # 200 * c => 200 * e4 < e2)
    BY <1>4, <1>5
  <2>3. e2 <= e1 /\ (l # k => e2 < e1)
    BY <1>6
  <2> HIDE DEF e1, e2, e3, e4
  <2> QED
    BY <2>1, <2>2, <2>3
<1>8. m % 2 = 0 /\ n % 2 = 0 /\ m = n + 1
  BY <1>1, <1>2, <1>7
<1> QED
  BY <1>1, <1>8

\* The rate of several withdrawals is between those of the slowest and of the
\* fastest.
LEMMA RateBetween ==
    ASSUME NEW D, IsFiniteSet(D), D # {}, NEW v \in [D -> Nat \ {0}], NEW t \in [D -> Nat \ {0}]
    PROVE  LET rate == Hundredths(24 * SumFunction(v), SumFunction(t)) IN
           /\ rate \in Nat
           /\ \E x \in D : Hundredths(24 * v[x], t[x]) <= rate
           /\ \E x \in D : rate <= Hundredths(24 * v[x], t[x])
<1> DEFINE V == SumFunction(v)
           T == SumFunction(t)
<1>0. v \in [D -> Int] /\ t \in [D -> Int] /\ 0 \in Int /\ 1 \in Int
  OBVIOUS
<1>1. V \in Nat \ {0} /\ T \in Nat \ {0}
  <2> DEFINE z == [x \in D |-> 0]
  <2>1. z \in [D -> Int]
    OBVIOUS
  <2>2. \A x \in D : 1 * v[x] > 0 * z[x] /\ 1 * t[x] > 0 * z[x]
    OBVIOUS
  <2> HIDE DEF z
  <2>3. V \in Int /\ 1 * V > 0 * SumFunction(z) /\ SumFunction(z) \in Int
    BY <1>0, <2>1, <2>2, SumsWeighed
  <2>4. T \in Int /\ 1 * T > 0 * SumFunction(z)
    BY <1>0, <2>1, <2>2, SumsWeighed
  <2> HIDE DEF V, T
  <2> QED
    BY <2>3, <2>4
<1>2. ASSUME NEW x \in D
      PROVE  /\ v[x] \in Nat \ {0} /\ t[x] \in Nat \ {0}
             /\ T * v[x] <= V * t[x] => Hundredths(24 * v[x], t[x]) <= Hundredths(24 * V, T)
             /\ V * t[x] <= T * v[x] => Hundredths(24 * V, T) <= Hundredths(24 * v[x], t[x])
  <2> DEFINE a == v[x]
             b == t[x]
  <2>1. a \in Nat \ {0} /\ b \in Nat \ {0}
    OBVIOUS
  <2> HIDE DEF a, b, V, T
  <2>2. /\ 24 * a \in Nat /\ 24 * V \in Nat
        /\ (24 * a) * T = 24 * (T * a) /\ (24 * V) * b = 24 * (V * b)
        /\ T * a \in Nat /\ V * b \in Nat
    BY <1>1, <2>1
  <2>3. T * a <= V * b => Hundredths(24 * a, b) <= Hundredths(24 * V, T)
    <3>1. T * a <= V * b => (24 * a) * T <= (24 * V) * b
      BY <2>2
    <3> QED
      BY <1>1, <2>1, <2>2, <3>1, RoundedInOrder
  <2>4. V * b <= T * a => Hundredths(24 * V, T) <= Hundredths(24 * a, b)
    <3>1. V * b <= T * a => (24 * V) * b <= (24 * a) * T
      BY <2>2
    <3> QED
      BY <1>1, <2>1, <2>2, <3>1, RoundedInOrder
  <2> QED
    BY <2>1, <2>3, <2>4 DEF a, b
<1>3. \E x \in D : T * v[x] <= V * t[x]
  <2> SUFFICES ASSUME \A x \in D : ~(T * v[x] <= V * t[x]) PROVE FALSE
    OBVIOUS
  <2>1. \A x \in D : T * v[x] > V * t[x]
    <3> HIDE DEF T, V
    <3> QED
      BY <1>1, <1>2
  <2>2. T * V > V * T
    <3> DEFINE p == T
               q == V
    <3>1. p \in Int /\ q \in Int
      BY <1>1
    <3>2. \A x \in D : p * v[x] > q * t[x]
      BY <2>1
    <3> HIDE DEF p, q
    <3>3. p * SumFunction(v) > q * SumFunction(t)
      BY <1>0, <3>1, <3>2, SumsWeighed
    <3> QED
      BY <3>3 DEF p, q
  <2> HIDE DEF T, V
  <2> QED
    BY <1>1, <2>2
<1>4. \E x \in D : V * t[x] <= T * v[x]
  <2> SUFFICES ASSUME \A x \in D : ~(V * t[x] <= T * v[x]) PROVE FALSE
    OBVIOUS
  <2>1. \A x \in D : V * t[x] > T * v[x]
    <3> HIDE DEF T, V
    <3> QED
      BY <1>1, <1>2
  <2>2. V * T > T * V
    <3> DEFINE p == V
               q == T
    <3>1. p \in Int /\ q \in Int
      BY <1>1
    <3>2. \A x \in D : p * t[x] > q * v[x]
      BY <2>1
    <3> HIDE DEF p, q
    <3>3. p * SumFunction(t) > q * SumFunction(v)
      BY <1>0, <3>1, <3>2, SumsWeighed
    <3> QED
      BY <3>3 DEF p, q
  <2> HIDE DEF T, V
  <2> QED
    BY <1>1, <2>2
<1>5. Hundredths(24 * V, T) \in Nat
  <2> HIDE DEF T, V
  <2>1. 24 * V \in Nat
    BY <1>1
  <2> QED
    BY <1>1, <2>1, Rounded
<1> QED
  BY <1>2, <1>3, <1>4, <1>5

\* There is a rate exactly when notes were seen to leave the cassette, and it
\* lies between those of the slowest and of the fastest withdrawals, rounded as
\* they are, for every history of whole hours and counts (forecast_for_unit).
THEOREM RateIsBetween ==
    ASSUME readings \in Seq([at : Int, count : Int])
    PROVE  RateIsObserved
<1> DEFINE D == Drops(readings)
           v == [i \in D |-> readings[i].count - readings[i + 1].count]
           t == [i \in D |-> readings[i + 1].at - readings[i].at]
<1>1. D = Emptying
  BY DEF Drops, Emptying
<1>2. Len(readings) \in Nat /\ \A i \in 1 .. Len(readings) : readings[i].at \in Int /\ readings[i].count \in Int
  <2> DEFINE R == [at : Int, count : Int]
             s == readings
  <2>1. s \in Seq(R)
    OBVIOUS
  <2> HIDE DEF R, s
  <2>2. Len(s) \in Nat /\ \A i \in 1 .. Len(s) : s[i] \in R
    BY <2>1, SeqParts
  <2> QED
    BY <2>2 DEF R, s
<1>3. IsFiniteSet(D)
  <2>1. D \subseteq 1 .. Len(readings) - 1
    BY DEF Drops
  <2>2. IsFiniteSet(1 .. Len(readings) - 1)
    BY <1>2, FS_Interval
  <2> QED
    BY <2>1, <2>2, FS_Subset
<1>4. ASSUME NEW i \in D PROVE v[i] \in Nat \ {0} /\ t[i] \in Nat \ {0}
  <2>1. /\ i \in 1 .. Len(readings) /\ i + 1 \in 1 .. Len(readings)
        /\ readings[i + 1].at > readings[i].at /\ readings[i].count > readings[i + 1].count
    BY <1>2 DEF Drops
  <2>2. v[i] = readings[i].count - readings[i + 1].count /\ t[i] = readings[i + 1].at - readings[i].at
    OBVIOUS
  <2> DEFINE a == readings[i].count
             b == readings[i + 1].count
             c == readings[i].at
             d == readings[i + 1].at
  <2>3. a \in Int /\ b \in Int /\ c \in Int /\ d \in Int /\ a > b /\ d > c
    BY <1>2, <2>1
  <2>4. v[i] = a - b /\ t[i] = d - c
    BY <2>2
  <2> HIDE DEF v, t, D, a, b, c, d
  <2>5. a - b \in Nat \ {0} /\ d - c \in Nat \ {0}
    BY <2>3
  <2> QED
    BY <2>4, <2>5
<1>5. v \in [D -> Nat \ {0}] /\ t \in [D -> Nat \ {0}]
  BY <1>4
<1>6. Rate = IF D = {} THEN None ELSE Hundredths(24 * SumFunction(v), SumFunction(t))
  BY DEF Rate, NotesPerDay, NotesDropped, HoursOfDrops
<1>7. \A i \in D : RateOf(i) = Hundredths(24 * v[i], t[i])
  BY DEF RateOf
<1> HIDE DEF D, v, t
<1>8. CASE D = {}
  BY <1>1, <1>6, <1>8 DEF RateIsObserved
<1>9. CASE D # {}
  <2> DEFINE rate == Hundredths(24 * SumFunction(v), SumFunction(t))
  <2>1. /\ rate \in Nat
        /\ \E x \in D : Hundredths(24 * v[x], t[x]) <= rate
        /\ \E x \in D : rate <= Hundredths(24 * v[x], t[x])
    BY <1>3, <1>5, <1>9, RateBetween
  <2>2. Rate = rate
    BY <1>6, <1>9
  <2> HIDE DEF rate
  <2>3. Rate # None
    BY <2>1, <2>2 DEF None
  <2> QED
    BY <1>1, <1>7, <1>9, <2>1, <2>2, <2>3 DEF RateIsObserved
<1> QED
  BY <1>8, <1>9

\* Both for one history: what the forecast says of it was observed, and the risk
\* in the report is not below the open alert.
THEOREM ForecastSound ==
    ASSUME readings \in Seq([at : Int, count : Int])
    PROVE  ForecastIsSound
BY RateIsBetween, RiskIsCovered DEF ForecastIsSound

================================================================================
