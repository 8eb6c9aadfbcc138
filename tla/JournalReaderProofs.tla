-------------------------- MODULE JournalReaderProofs --------------------------
(***************************************************************************)
(* Theorems about JournalReader for every set of journals, whatever is     *)
(* written to them, any batch size and number of faults: its types; that   *)
(* no out-of-service line of a GRG journal is passed over; that none is    *)
(* alerted of twice; that the transactions on the server are those of the  *)
(* journals read at once, in every format.                                 *)
(***************************************************************************)
EXTENDS JournalReader, RowLemmas, TLAPS

---------------------------------------------------------------------------
(* What a parser gives for a line.                                         *)

Told == [type : Types, rrn : Nat, money : BOOLEAN]

\* A parser gives events of different types.
Apart(events) == \A i, j \in DOMAIN events : events[i].type = events[j].type => i = j

GivesWell(r) ==
    /\ r.parser \in Parser /\ r.events \in Seq(Told) /\ Apart(r.events)

LEMMA EventType ==
    ASSUME NEW p \in Parser, NEW t \in Types
    PROVE  Event(t, p) \in Told /\ Event(t, p).type = t
BY DEF Event, Told, Parser

LEMMA ParserKept ==
    ASSUME NEW p \in Parser, NEW rrn \in Nat
    PROVE  /\ Opened(p, rrn) \in Parser /\ Closed(p) \in Parser /\ Paid(p) \in Parser
           /\ [p EXCEPT !.receipt = TRUE] \in Parser /\ [p EXCEPT !.dated = TRUE] \in Parser
           /\ [p EXCEPT !.rrn = rrn] \in Parser
BY DEF Opened, Closed, Paid, Parser

LEMMA NoEvent ==
    << >> \in Seq(Told) /\ Apart(<< >>)
BY DEF Apart

LEMMA OneEvent ==
    ASSUME NEW e \in Told
    PROVE  <<e>> \in Seq(Told) /\ Apart(<<e>>)
BY DEF Apart

LEMMA TwoEvents ==
    ASSUME NEW d \in Told, NEW e \in Told, d.type # e.type
    PROVE  <<d>> \o <<e>> \in Seq(Told) /\ Apart(<<d>> \o <<e>>)
<1> DEFINE s == <<d>> \o <<e>>
<1>1. <<d>> \in Seq(Told) /\ <<e>> \in Seq(Told) /\ Len(<<d>>) = 1 /\ Len(<<e>>) = 1
  OBVIOUS
<1>2. s \in Seq(Told) /\ Len(s) = 2 /\ s[1] = d /\ s[2] = e
  BY <1>1, SeqJoined
<1> HIDE DEF s
<1>3. DOMAIN s = 1 .. 2
  BY <1>2
<1> QED
  BY <1>2, <1>3 DEF Apart

LEMMA EmptyJoined ==
    ASSUME NEW s \in Seq(Told)
    PROVE  << >> \o s = s /\ s \o << >> = s
OBVIOUS

LEMMA GrgGives ==
    ASSUME NEW p \in Parser, NEW l \in JournalLine
    PROVE  GivesWell(Grg(p, l))
<1>1. l.rrn \in Nat /\ l.kind \in Kinds /\ 0 \in Nat
  BY DEF JournalLine
<1> DEFINE S == <<Event("start", Opened(p, 0))>>
           T == <<Event("taken", Paid(p))>>
           E == <<Event("end", p)>>
           O == <<Event("out", p)>>
<1>2. \A s \in {S, T, E, O, << >>} : s \in Seq(Told) /\ Apart(s)
  <2>1. /\ Event("start", Opened(p, 0)) \in Told /\ Event("taken", Paid(p)) \in Told
        /\ Event("end", p) \in Told /\ Event("out", p) \in Told
    BY <1>1, EventType, ParserKept DEF Types
  <2> QED
    BY <2>1, OneEvent, NoEvent
<1> HIDE DEF S, T, E, O
<1>3. Grg(p, l) \in {Gives(Opened(p, 0), S), Gives(Paid(p), T), Gives([p EXCEPT !.receipt = TRUE], << >>),
                     Gives([p EXCEPT !.rrn = l.rrn], << >>), Gives(Closed(p), E), Gives(p, O), Gives(p, << >>)}
  BY DEF Grg, S, T, E, O
<1>4. \A q \in Parser, s \in {S, T, E, O, << >>} : GivesWell(Gives(q, s))
  BY <1>2 DEF GivesWell, Gives
<1> QED
  BY <1>1, <1>3, <1>4, ParserKept

LEMMA NcrGives ==
    ASSUME NEW p \in Parser, NEW l \in JournalLine
    PROVE  GivesWell(Ncr(p, l))
<1>1. l.rrn \in Nat /\ l.kind \in Kinds /\ 0 \in Nat
  BY DEF JournalLine
<1> DEFINE F == Finalized(p)
           S == <<Event("start", Opened(p, 0))>>
           T == <<Event("taken", Paid(p))>>
           O == <<Event("out", p)>>
<1>2. /\ Event("start", Opened(p, 0)) \in Told /\ Event("taken", Paid(p)) \in Told
      /\ Event("end", p) \in Told /\ Event("out", p) \in Told
      /\ Event("end", p).type = "end" /\ Event("start", Opened(p, 0)).type = "start"
  BY <1>1, EventType, ParserKept DEF Types
<1>3. F = << >> \/ F = <<Event("end", p)>>
  BY DEF Finalized
<1>4. F \o S \in Seq(Told) /\ Apart(F \o S)
  <2>1. S \in Seq(Told) /\ Apart(S)
    BY <1>2, OneEvent
  <2>2. CASE F = << >>
    BY <2>1, <2>2, EmptyJoined
  <2>3. CASE F = <<Event("end", p)>>
    BY <1>2, <2>3, TwoEvents
  <2> QED
    BY <1>3, <2>2, <2>3
<1>5. \A s \in {F, T, O, << >>} : s \in Seq(Told) /\ Apart(s)
  BY <1>2, <1>3, OneEvent, NoEvent
<1> DEFINE FS == F \o S
<1> HIDE DEF FS, F, S, T, O
<1>6. Ncr(p, l) \in {Gives([p EXCEPT !.dated = TRUE], << >>), Gives(Opened(p, 0), FS), Gives(Paid(p), T),
                     Gives([p EXCEPT !.rrn = l.rrn], << >>), Gives(Closed(p), F), Gives(p, O), Gives(p, << >>)}
  BY DEF Ncr, FS, F, S, T, O
<1>7. \A q \in Parser, s \in {FS, F, T, O, << >>} : GivesWell(Gives(q, s))
  BY <1>4, <1>5 DEF GivesWell, Gives, FS
<1> QED
  BY <1>1, <1>6, <1>7, ParserKept

LEMMA TraceGives ==
    ASSUME NEW p \in Parser, NEW l \in JournalLine
    PROVE  GivesWell(Trace(p, l))
<1>1. l.rrn \in Nat /\ l.kind \in Kinds
  BY DEF JournalLine
<1> DEFINE s1 == Event("start", Opened(p, l.rrn))
           t1 == Event("taken", Paid(p))
           e1 == Event("end", p)
           e2 == Event("end", Paid(p))
           Before == IF p.open /\ p.money THEN <<e1>> ELSE << >>
           After == IF p.open THEN <<e2>> ELSE << >>
           BS == Before \o <<s1>>
           TA == <<t1>> \o After
<1>2. /\ s1 \in Told /\ t1 \in Told /\ e1 \in Told /\ e2 \in Told
      /\ s1.type = "start" /\ t1.type = "taken" /\ e1.type = "end" /\ e2.type = "end"
  BY <1>1, EventType, ParserKept DEF Types
<1>3. Trace(p, l) \in {Gives(Opened(p, l.rrn), BS), Gives(Closed(p), TA), Gives(p, << >>)}
  BY DEF Trace
<1> HIDE DEF s1, t1, e1, e2
<1>4. BS \in Seq(Told) /\ Apart(BS)
  <2>1. CASE Before = << >>
    BY <1>2, <2>1, OneEvent, EmptyJoined
  <2>2. CASE Before = <<e1>>
    BY <1>2, <2>2, TwoEvents
  <2> QED
    BY <2>1, <2>2
<1>5. TA \in Seq(Told) /\ Apart(TA)
  <2>1. CASE After = << >>
    BY <1>2, <2>1, OneEvent, EmptyJoined
  <2>2. CASE After = <<e2>>
    BY <1>2, <2>2, TwoEvents
  <2> QED
    BY <2>1, <2>2
<1> HIDE DEF BS, TA
<1>6. \A q \in Parser, s \in {BS, TA, << >>} : GivesWell(Gives(q, s))
  BY <1>4, <1>5, NoEvent DEF GivesWell, Gives
<1> QED
  BY <1>1, <1>3, <1>6, ParserKept

\* Whatever the format.
LEMMA ParseGives ==
    ASSUME NEW f \in Files, NEW p \in Parser, NEW l \in JournalLine
    PROVE  GivesWell(Parse(f, p, l))
BY GrgGives, NcrGives, TraceGives DEF Parse

\* A GRG journal tells of an out-of-service line by itself.
LEMMA OutIsGiven ==
    ASSUME NEW f \in Files, Format[f] = "grg", NEW p \in Parser, NEW l \in JournalLine, l.kind = "out"
    PROVE  \E i \in DOMAIN Parse(f, p, l).events : Parse(f, p, l).events[i].type = "out"
<1> DEFINE O == <<Event("out", p)>>
<1>1. Parse(f, p, l) = Gives(p, O)
  BY DEF Parse, Grg
<1>2. Parse(f, p, l).events = O
  BY <1>1 DEF Gives
<1>3. 1 \in DOMAIN O /\ O[1].type = "out"
  BY DEF Event
<1> QED
  BY <1>2, <1>3

---------------------------------------------------------------------------
(* What is made of a chunk, line by line.                                  *)

Entry == [place : Nat, line : JournalLine]
Progress == [parser : Parser, number : Nat, events : Seq(Stored)]

\* The events of one line, and what one line adds to those before it.
Numbered1(f, number, place, told) ==
    [k \in DOMAIN told |->
        [uid |-> <<f, number, place, told[k].type>>, type |-> told[k].type,
         rrn |-> told[k].rrn, money |-> told[k].money]]
ParseOne(f, acc, c) ==
    LET r == Parse(f, acc.parser, c.line) IN
    [parser |-> r.parser, number |-> acc.number + 1,
     events |-> acc.events \o Numbered1(f, acc.number, c.place, r.events)]

LEMMA LineNumbered ==
    ASSUME NEW f \in Files, NEW number \in Nat, NEW place \in Nat, NEW told \in Seq(Told)
    PROVE  /\ Numbered1(f, number, place, told) \in Seq(Stored)
           /\ Len(Numbered1(f, number, place, told)) = Len(told)
           /\ \A k \in 1 .. Len(told) :
                /\ Numbered1(f, number, place, told)[k].uid = <<f, number, place, told[k].type>>
                /\ Numbered1(f, number, place, told)[k].type = told[k].type
<1> DEFINE t == Numbered1(f, number, place, told)
           Row(k) == [uid |-> <<f, number, place, told[k].type>>, type |-> told[k].type,
                      rrn |-> told[k].rrn, money |-> told[k].money]
<1>1. DOMAIN told = 1 .. Len(told) /\ \A k \in DOMAIN told : told[k] \in Told
  BY SeqParts
<1>2. /\ DOMAIN t = DOMAIN told /\ t = [k \in DOMAIN t |-> t[k]]
      /\ \A k \in DOMAIN told : t[k] = Row(k)
  BY DEF Numbered1
<1>3. ASSUME NEW k \in DOMAIN told
      PROVE  /\ Row(k) \in Stored
             /\ Row(k).uid = <<f, number, place, told[k].type>> /\ Row(k).type = told[k].type
  <2>1. told[k].type \in Types /\ told[k].rrn \in Nat /\ told[k].money \in BOOLEAN
    BY <1>1 DEF Told
  <2>2. <<f, number, place, told[k].type>> \in Files \X Nat \X Nat \X Types
    BY <2>1
  <2> QED
    BY <2>1, <2>2 DEF Stored
<1> HIDE DEF t, Row
<1>4. \A k \in DOMAIN told : t[k] \in Stored
  BY <1>2, <1>3
<1>5. t \in Seq(Stored) /\ Len(t) = Len(told)
  BY <1>2, <1>4, SeqMapped
<1>6. \A k \in 1 .. Len(told) : t[k].uid = <<f, number, place, told[k].type>> /\ t[k].type = told[k].type
  BY <1>1, <1>2, <1>3
<1> QED
  BY <1>5, <1>6 DEF t

\* One line more.
LEMMA OneMore ==
    ASSUME NEW f \in Files, NEW acc \in Progress, NEW c \in Entry
    PROVE  LET r == Parse(f, acc.parser, c.line)
               new == Numbered1(f, acc.number, c.place, r.events)
           IN  /\ GivesWell(r)
               /\ ParseOne(f, acc, c) \in Progress
               /\ ParseOne(f, acc, c).number = acc.number + 1
               /\ ParseOne(f, acc, c).events = acc.events \o new
               /\ new \in Seq(Stored)
               /\ Len(new) = Len(r.events)
               /\ \A k \in 1 .. Len(r.events) :
                    /\ new[k].uid = <<f, acc.number, c.place, r.events[k].type>>
                    /\ new[k].type = r.events[k].type
<1> DEFINE r == Parse(f, acc.parser, c.line)
           new == Numbered1(f, acc.number, c.place, r.events)
<1>1. acc.parser \in Parser /\ acc.number \in Nat /\ acc.events \in Seq(Stored)
      /\ c.place \in Nat /\ c.line \in JournalLine
  BY DEF Progress, Entry
<1>2. GivesWell(r)
  BY <1>1, ParseGives
<1>3. r.parser \in Parser /\ r.events \in Seq(Told)
  BY <1>2 DEF GivesWell
<1> HIDE DEF r
<1>4. /\ new \in Seq(Stored) /\ Len(new) = Len(r.events)
      /\ \A k \in 1 .. Len(r.events) :
            /\ new[k].uid = <<f, acc.number, c.place, r.events[k].type>>
            /\ new[k].type = r.events[k].type
  BY <1>1, <1>3, LineNumbered
<1> HIDE DEF new
<1>5. acc.events \o new \in Seq(Stored)
  BY <1>1, <1>4, SeqJoined
<1>6. ParseOne(f, acc, c) = [parser |-> r.parser, number |-> acc.number + 1, events |-> acc.events \o new]
  BY DEF ParseOne, r, new
<1>7. ParseOne(f, acc, c) \in Progress
  BY <1>1, <1>3, <1>5, <1>6 DEF Progress
<1>8. /\ ParseOne(f, acc, c).number = acc.number + 1
      /\ ParseOne(f, acc, c).events = acc.events \o new
  BY <1>6
<1> QED
  BY <1>2, <1>4, <1>7, <1>8 DEF r, new

\* The chunk is worked through line by line.
LEMMA ParseFold ==
    ASSUME NEW f \in Files, NEW p \in Parser, NEW number \in Nat, NEW chunk \in Seq(Entry)
    PROVE  \E h : /\ ParseLines(f, p, chunk, number) = h[1 .. Len(chunk)]
                  /\ h[{}] = [parser |-> p, number |-> number, events |-> << >>]
                  /\ \A k \in 1 .. Len(chunk) : h[1 .. k] = ParseOne(f, h[1 .. k - 1], chunk[k])
<1> DEFINE n == Len(chunk)
           b == [parser |-> p, number |-> number, events |-> << >>]
           g == [x \in (1 .. n) \X Progress |-> ParseOne(f, x[2], chunk[x[1]])]
           Folds(h) == h = [s \in SUBSET DOMAIN chunk |->
                        IF s = {} THEN b ELSE ParseOne(f, h[s \ {Max(s)}], chunk[Max(s)])]
<1>1. n \in Nat /\ DOMAIN chunk = 1 .. n /\ \A k \in 1 .. n : chunk[k] \in Entry
  BY SeqParts
<1>2. b \in Progress
  BY DEF Progress
<1>3. \A x \in (1 .. n) \X Progress : ParseOne(f, x[2], chunk[x[1]]) \in Progress
  BY <1>1, OneMore
<1>4. g \in [(1 .. n) \X Progress -> Progress]
  BY <1>3
<1>5. \A i \in 1 .. n, a \in Progress : g[<<i, a>>] = ParseOne(f, a, chunk[i])
  OBVIOUS
<1> HIDE DEF b, g
<1>6. \E h : Folds(h)
  <2>0. PICK h : IsFoldLeft(h, n, Progress, b, g)
    <3> HIDE DEF n
    <3> QED
      BY <1>1, <1>2, <1>4, FoldLeftExists DEF Steps
  <2>1. /\ h \in [SUBSET (1 .. n) -> Progress] /\ h[{}] = b
        /\ \A T \in SUBSET (1 .. n) :
                T # {} => Max(T) \in T /\ h[T] = g[<<Max(T), h[T \ {Max(T)}]>>]
    BY <2>0 DEF IsFoldLeft
  <2>2. \A T \in SUBSET (1 .. n) : T # {} => h[T] = ParseOne(f, h[T \ {Max(T)}], chunk[Max(T)])
    BY <1>5, <2>1
  <2>3. h = [s \in SUBSET (1 .. n) |-> h[s]]
    BY <2>1
  <2>4. \A s \in SUBSET (1 .. n) : h[s] = IF s = {} THEN b ELSE ParseOne(f, h[s \ {Max(s)}], chunk[Max(s)])
    BY <2>1, <2>2
  <2>5. Folds(h)
    BY <1>1, <2>3, <2>4
  <2> QED
    BY <2>5
<1>7. ParseLines(f, p, chunk, number) = (CHOOSE h : Folds(h))[DOMAIN chunk]
  BY DEF ParseLines, FoldLeft, MapThenFoldSet, ParseOne, Numbered1, b
<1>8. PICK h : Folds(h) /\ ParseLines(f, p, chunk, number) = h[DOMAIN chunk]
  BY <1>6, <1>7
<1>9. h[{}] = b
  BY <1>8
<1>10. ASSUME NEW k \in 1 .. n PROVE h[1 .. k] = ParseOne(f, h[1 .. k - 1], chunk[k])
  <2>1. k \in Nat \ {0} /\ 1 .. k \in SUBSET DOMAIN chunk /\ 1 .. k # {}
    <3> HIDE DEF n
    <3>1. k \in Nat \ {0} /\ k \in 1 .. k
      BY <1>1
    <3>2. \A y \in 1 .. k : y \in 1 .. n
      BY <1>1
    <3> QED
      BY <1>1, <3>1, <3>2
  <2>2. Max(1 .. k) = k /\ (1 .. k) \ {k} = 1 .. k - 1
    BY <2>1, LastOfFirst
  <2> QED
    BY <1>8, <2>1, <2>2
<1> QED
  BY <1>1, <1>8, <1>9, <1>10 DEF b

\* No two events of a batch have one uid.
Single(batch) == \A i, j \in DOMAIN batch : batch[i].uid = batch[j].uid => i = j

\* What was made of the first m lines of a chunk: each event bears its line's
\* number and place, no two are alike, and a GRG journal tells of every
\* out-of-service line.
MadeOf(f, number, chunk, m, a) ==
    /\ a \in Progress
    /\ a.number = number + m
    /\ \A i \in DOMAIN a.events : \E k \in 1 .. m :
            a.events[i].uid = <<f, number + k - 1, chunk[k].place, a.events[i].type>>
    /\ Single(a.events)
    /\ Format[f] = "grg" => \A k \in 1 .. m : chunk[k].line.kind = "out" =>
            \E i \in DOMAIN a.events : /\ a.events[i].uid[1] = f /\ a.events[i].uid[3] = chunk[k].place
                                       /\ a.events[i].type = "out"

LEMMA MadeOfNext ==
    ASSUME NEW f \in Files, NEW number \in Nat, NEW chunk \in Seq(Entry),
           NEW m \in 1 .. Len(chunk), NEW a, MadeOf(f, number, chunk, m - 1, a)
    PROVE  MadeOf(f, number, chunk, m, ParseOne(f, a, chunk[m]))
<1> DEFINE c == chunk[m]
           b == ParseOne(f, a, c)
           r == Parse(f, a.parser, c.line)
           new == Numbered1(f, a.number, c.place, r.events)
           q == Len(a.events)
<1>1. a \in Progress /\ c \in Entry /\ m \in Nat \ {0} /\ a.events \in Seq(Stored) /\ a.parser \in Parser
      /\ a.number = number + m - 1 /\ a.number \in Nat
  <2>1. a \in Progress /\ a.number = number + (m - 1)
    BY DEF MadeOf
  <2>2. m \in Nat \ {0} /\ c \in Entry
    BY SeqParts
  <2> QED
    BY <2>1, <2>2 DEF Progress
<1>2. /\ GivesWell(r) /\ b \in Progress /\ b.number = a.number + 1 /\ b.events = a.events \o new
      /\ new \in Seq(Stored) /\ Len(new) = Len(r.events)
      /\ \A k \in 1 .. Len(r.events) :
            new[k].uid = <<f, a.number, c.place, r.events[k].type>> /\ new[k].type = r.events[k].type
  <2> HIDE DEF c
  <2> QED
    BY <1>1, OneMore
<1>3. r.events \in Seq(Told) /\ Apart(r.events) /\ DOMAIN r.events = 1 .. Len(r.events) /\ Len(r.events) \in Nat
  BY <1>2 DEF GivesWell
<1> HIDE DEF b, new, r
<1>4. /\ q \in Nat /\ DOMAIN b.events \in SUBSET Nat
      /\ \A i \in DOMAIN b.events : i <= q => i \in DOMAIN a.events /\ b.events[i] = a.events[i]
      /\ \A i \in DOMAIN b.events : i > q => i - q \in DOMAIN new /\ b.events[i] = new[i - q]
      /\ \A i \in DOMAIN a.events : i \in DOMAIN b.events /\ b.events[i] = a.events[i]
      /\ \A i \in DOMAIN new : q + i \in DOMAIN b.events /\ b.events[q + i] = new[i]
  <2>1. a.events \in Seq(Stored) /\ new \in Seq(Stored) /\ b.events = a.events \o new
    BY <1>1, <1>2
  <2> DEFINE s == a.events
             u == b.events
  <2>2. s \in Seq(Stored) /\ new \in Seq(Stored) /\ u = s \o new
    BY <2>1
  <2> HIDE DEF s, u
  <2>3. /\ Len(s) \in Nat /\ DOMAIN u \in SUBSET Nat
        /\ \A i \in DOMAIN u : i <= Len(s) => i \in DOMAIN s /\ u[i] = s[i]
        /\ \A i \in DOMAIN u : i > Len(s) => i - Len(s) \in DOMAIN new /\ u[i] = new[i - Len(s)]
        /\ \A i \in DOMAIN s : i \in DOMAIN u /\ u[i] = s[i]
        /\ \A i \in DOMAIN new : Len(s) + i \in DOMAIN u /\ u[Len(s) + i] = new[i]
    BY <2>2, SeqSides
  <2> QED
    BY <2>3 DEF s, u
<1>0. DOMAIN new = DOMAIN r.events /\ DOMAIN new = 1 .. Len(r.events)
  BY <1>2, <1>3
<1> HIDE DEF q
<1>5. ASSUME NEW i \in DOMAIN b.events, i > q
      PROVE  /\ i - q \in DOMAIN r.events
             /\ b.events[i] = new[i - q]
             /\ b.events[i].uid = <<f, number + m - 1, c.place, b.events[i].type>>
             /\ b.events[i].type = r.events[i - q].type
  <2>1. i - q \in DOMAIN r.events /\ b.events[i] = new[i - q]
    BY <1>0, <1>4, <1>5
  <2> QED
    BY <1>0, <1>1, <1>2, <2>1
<1>6. ASSUME NEW i \in DOMAIN b.events, i <= q
      PROVE  /\ i \in DOMAIN a.events /\ b.events[i] = a.events[i]
             /\ \E k \in 1 .. m - 1 :
                    b.events[i].uid = <<f, number + k - 1, chunk[k].place, b.events[i].type>>
  <2>1. i \in DOMAIN a.events /\ b.events[i] = a.events[i]
    BY <1>4, <1>6
  <2> QED
    BY <2>1 DEF MadeOf
<1>7. \A i \in DOMAIN b.events : i \in Nat /\ (i <= q \/ i > q)
  BY <1>4
<1>8. \A i \in DOMAIN b.events : \E k \in 1 .. m :
            b.events[i].uid = <<f, number + k - 1, chunk[k].place, b.events[i].type>>
  <2> SUFFICES ASSUME NEW i \in DOMAIN b.events
               PROVE  \E k \in 1 .. m :
                        b.events[i].uid = <<f, number + k - 1, chunk[k].place, b.events[i].type>>
    OBVIOUS
  <2>1. CASE i <= q
    <3>1. PICK k \in 1 .. m - 1 : b.events[i].uid = <<f, number + k - 1, chunk[k].place, b.events[i].type>>
      BY <1>6, <2>1
    <3>2. k \in 1 .. m
      BY <1>1
    <3> QED
      BY <3>1, <3>2
  <2>2. CASE i > q
    BY <1>1, <1>5, <2>2
  <2> QED
    BY <1>7, <2>1, <2>2
<1>9. Single(b.events)
  <2> SUFFICES ASSUME NEW i \in DOMAIN b.events, NEW j \in DOMAIN b.events,
                      b.events[i].uid = b.events[j].uid
               PROVE  i = j
    BY DEF Single
  <2>1. CASE i <= q /\ j <= q
    BY <1>6, <2>1 DEF MadeOf, Single
  <2>2. CASE i > q /\ j > q
    <3>1. b.events[i].type = b.events[j].type
      BY <1>5, <2>2
    <3>2. i - q = j - q
      BY <1>3, <1>5, <2>2, <3>1 DEF Apart
    <3> QED
      BY <1>4, <1>7, <3>2
  <2>3. \A k \in 1 .. m - 1 : number + k - 1 # number + m - 1
    BY <1>1
  <2>4. CASE i <= q /\ j > q
    BY <1>5, <1>6, <2>3, <2>4
  <2>5. CASE i > q /\ j <= q
    BY <1>5, <1>6, <2>3, <2>5
  <2> QED
    BY <1>7, <2>1, <2>2, <2>4, <2>5
<1>10. ASSUME Format[f] = "grg", NEW k \in 1 .. m, chunk[k].line.kind = "out"
       PROVE  \E i \in DOMAIN b.events : /\ b.events[i].uid[1] = f /\ b.events[i].uid[3] = chunk[k].place
                                         /\ b.events[i].type = "out"
  <2>1. CASE k # m
    <3>1. k \in 1 .. m - 1
      BY <1>1, <2>1
    <3>2. PICK i \in DOMAIN a.events : /\ a.events[i].uid[1] = f /\ a.events[i].uid[3] = chunk[k].place
                                       /\ a.events[i].type = "out"
      BY <1>10, <3>1 DEF MadeOf
    <3>3. i \in DOMAIN b.events /\ b.events[i] = a.events[i]
      BY <1>4
    <3> QED
      BY <3>2, <3>3
  <2>2. CASE k = m
    <3>1. c.line \in JournalLine /\ c.line.kind = "out"
      BY <1>1, <1>10, <2>2 DEF Entry
    <3>2. PICK i \in DOMAIN r.events : r.events[i].type = "out"
      BY <1>1, <1>10, <3>1, OutIsGiven DEF r
    <3>3. q + i \in DOMAIN b.events /\ b.events[q + i] = new[i]
      BY <1>0, <1>4
    <3>4. new[i].uid = <<f, a.number, c.place, r.events[i].type>> /\ new[i].type = "out"
      BY <1>0, <1>2, <3>2
    <3> QED
      BY <2>2, <3>3, <3>4
  <2> QED
    BY <2>1, <2>2
<1>11. b.number = number + m
  BY <1>1, <1>2
<1> QED
  BY <1>2, <1>8, <1>9, <1>10, <1>11 DEF MadeOf, b

LEMMA ParsedWell ==
    ASSUME NEW f \in Files, NEW p \in Parser, NEW number \in Nat, NEW chunk \in Seq(Entry)
    PROVE  MadeOf(f, number, chunk, Len(chunk), ParseLines(f, p, chunk, number))
<1>1. PICK h : /\ ParseLines(f, p, chunk, number) = h[1 .. Len(chunk)]
               /\ h[{}] = [parser |-> p, number |-> number, events |-> << >>]
               /\ \A k \in 1 .. Len(chunk) : h[1 .. k] = ParseOne(f, h[1 .. k - 1], chunk[k])
  BY ParseFold
<1> DEFINE Good == {k \in 0 .. Len(chunk) : MadeOf(f, number, chunk, k, h[1 .. k])}
<1>2. Len(chunk) \in Nat
  BY SeqParts
<1>3. 0 \in Good
  <2>1. 1 .. 0 = {}
    OBVIOUS
  <2>2. MadeOf(f, number, chunk, 0, [parser |-> p, number |-> number, events |-> << >>])
    BY DEF MadeOf, Progress, Single
  <2> QED
    BY <1>1, <1>2, <2>1, <2>2
<1>4. ASSUME NEW k \in 1 .. Len(chunk), k - 1 \in Good PROVE k \in Good
  <2>1. MadeOf(f, number, chunk, k - 1, h[1 .. k - 1])
    BY <1>4
  <2>2. MadeOf(f, number, chunk, k, ParseOne(f, h[1 .. k - 1], chunk[k]))
    BY <2>1, MadeOfNext
  <2>3. k \in 0 .. Len(chunk)
    BY <1>2
  <2> QED
    BY <1>1, <2>2, <2>3
<1>5. \A k \in 0 .. Len(chunk) : k \in Good
  <2> HIDE DEF Good
  <2> QED
    BY <1>2, <1>3, <1>4, UpTo
<1>6. Len(chunk) \in Good
  BY <1>2, <1>5
<1> QED
  BY <1>1, <1>6

---------------------------------------------------------------------------
(* What the server makes of a batch, event by event.                       *)

Alert == Files \X Nat
Tally == [rows : SUBSET Stored, added : SUBSET Stored, alerts : Seq(Alert)]
Unlike(rows) == \A r, s \in rows : r.uid = s.uid => r = s

Merged(acc, row, m) ==
    [rows |-> (acc.rows \ {row}) \cup {m}, added |-> acc.added, alerts |-> acc.alerts]
Flushed(acc, e) ==
    [rows |-> acc.rows \cup acc.added \cup {e}, added |-> {},
     alerts |-> Append(acc.alerts, <<e.uid[1], e.uid[3]>>)]
Added(acc, e) ==
    [rows |-> acc.rows, added |-> acc.added \cup {e}, alerts |-> acc.alerts]

\* An event is recognised and merged into a row, or alerted of, or added.
LEMMA TakeCases ==
    ASSUME NEW acc \in Tally, NEW e \in Stored
    PROVE  \/ \E row \in acc.rows, m \in Stored :
                /\ m.uid = row.uid /\ m.type = row.type
                /\ e.type = "out" => row.uid = e.uid
                /\ Take(acc, e) = Merged(acc, row, m)
           \/ /\ \A r \in acc.rows : r.uid # e.uid
              /\ e.type = "out" /\ Take(acc, e) = Flushed(acc, e)
           \/ /\ \A r \in acc.rows : r.uid # e.uid
              /\ e.type # "out" /\ Take(acc, e) = Added(acc, e)
<1> DEFINE existing == Existing(acc.rows, e)
           row == CHOOSE r \in existing : TRUE
           same == {r \in acc.rows : r.uid = e.uid}
<1>0. acc = [rows |-> acc.rows, added |-> acc.added, alerts |-> acc.alerts] /\ acc.rows \subseteq Stored
  BY DEF Tally
<1>1. existing \subseteq acc.rows /\ same \subseteq existing /\ (e.type # "end" => existing = same)
  BY DEF Existing
<1>2. Take(acc, e) = IF existing # {}
        THEN [acc EXCEPT !.rows = (@ \ {row}) \cup {Merge(row, e)}]
        ELSE IF e.type = "out"
        THEN [rows |-> acc.rows \cup acc.added \cup {e}, added |-> {},
              alerts |-> Append(acc.alerts, <<e.uid[1], e.uid[3]>>)]
        ELSE [acc EXCEPT !.added = @ \cup {e}]
  BY DEF Take
<1>3. CASE existing # {}
  <2> DEFINE m == Merge(row, e)
  <2>1. row \in existing
    BY <1>3
  <2> HIDE DEF existing, row
  <2>2. row \in acc.rows /\ row \in Stored /\ (e.type = "out" => row.uid = e.uid)
    BY <1>0, <1>1, <2>1
  <2>3. m \in Stored /\ m.uid = row.uid /\ m.type = row.type
    BY <2>2 DEF Merge, Stored
  <2>4. Take(acc, e) = Merged(acc, row, m)
    BY <1>0, <1>2, <1>3 DEF Merged
  <2> HIDE DEF m
  <2> QED
    BY <2>2, <2>3, <2>4
<1>4. CASE existing = {}
  <2>1. \A r \in acc.rows : r.uid # e.uid
    BY <1>1, <1>4
  <2> HIDE DEF existing, row, same
  <2>2. CASE e.type = "out"
    BY <1>2, <1>4, <2>1, <2>2 DEF Flushed
  <2>3. CASE e.type # "out"
    <3>1. Take(acc, e) = [acc EXCEPT !.added = @ \cup {e}]
      BY <1>2, <1>4, <2>3
    <3>2. [acc EXCEPT !.added = @ \cup {e}] = Added(acc, e)
      BY <1>0 DEF Added
    <3> QED
      BY <2>1, <2>3, <3>1, <3>2
  <2> QED
    BY <2>2, <2>3
<1> QED
  BY <1>3, <1>4

LEMMA TakeTyped ==
    ASSUME NEW acc \in Tally, NEW e \in Stored
    PROVE  Take(acc, e) \in Tally
<1>1. acc.rows \in SUBSET Stored /\ acc.added \in SUBSET Stored /\ acc.alerts \in Seq(Alert)
  BY DEF Tally
<1>2. <<e.uid[1], e.uid[3]>> \in Alert
  BY DEF Stored, Alert
<1>3. Append(acc.alerts, <<e.uid[1], e.uid[3]>>) \in Seq(Alert)
  BY <1>1, <1>2, SeqAppend
<1>4. Flushed(acc, e) \in Tally /\ Added(acc, e) \in Tally
  BY <1>1, <1>3 DEF Flushed, Added, Tally
<1>5. \A row \in acc.rows, m \in Stored : Merged(acc, row, m) \in Tally
  BY <1>1 DEF Merged, Tally
<1> QED
  BY <1>4, <1>5, TakeCases

\* The batch is worked through event by event.
LEMMA TakenFold ==
    ASSUME store \subseteq Stored, alerts \in Seq(Alert), NEW batch \in Seq(Stored)
    PROVE  \E h : /\ Taken(batch) = h[1 .. Len(batch)]
                  /\ h[{}] = [rows |-> store, added |-> {}, alerts |-> alerts]
                  /\ \A k \in 1 .. Len(batch) : h[1 .. k] = Take(h[1 .. k - 1], batch[k])
<1> DEFINE n == Len(batch)
           b == [rows |-> store, added |-> {}, alerts |-> alerts]
           g == [x \in (1 .. n) \X Tally |-> Take(x[2], batch[x[1]])]
           Folds(h) == h = [s \in SUBSET DOMAIN batch |->
                        IF s = {} THEN b ELSE Take(h[s \ {Max(s)}], batch[Max(s)])]
<1>1. n \in Nat /\ DOMAIN batch = 1 .. n /\ \A k \in 1 .. n : batch[k] \in Stored
  BY SeqParts
<1>2. b \in Tally
  BY DEF Tally
<1>3. \A x \in (1 .. n) \X Tally : Take(x[2], batch[x[1]]) \in Tally
  BY <1>1, TakeTyped
<1>4. g \in [(1 .. n) \X Tally -> Tally]
  BY <1>3
<1>5. \A i \in 1 .. n, a \in Tally : g[<<i, a>>] = Take(a, batch[i])
  OBVIOUS
<1> HIDE DEF b, g
<1>6. \E h : Folds(h)
  <2>0. PICK h : IsFoldLeft(h, n, Tally, b, g)
    <3> HIDE DEF n
    <3> QED
      BY <1>1, <1>2, <1>4, FoldLeftExists DEF Steps
  <2>1. /\ h \in [SUBSET (1 .. n) -> Tally] /\ h[{}] = b
        /\ \A T \in SUBSET (1 .. n) :
                T # {} => Max(T) \in T /\ h[T] = g[<<Max(T), h[T \ {Max(T)}]>>]
    BY <2>0 DEF IsFoldLeft
  <2>2. \A T \in SUBSET (1 .. n) : T # {} => h[T] = Take(h[T \ {Max(T)}], batch[Max(T)])
    BY <1>5, <2>1
  <2>3. h = [s \in SUBSET (1 .. n) |-> h[s]]
    BY <2>1
  <2>4. \A s \in SUBSET (1 .. n) : h[s] = IF s = {} THEN b ELSE Take(h[s \ {Max(s)}], batch[Max(s)])
    BY <2>1, <2>2
  <2>5. Folds(h)
    BY <1>1, <2>3, <2>4
  <2> QED
    BY <2>5
<1>7. Taken(batch) = (CHOOSE h : Folds(h))[DOMAIN batch]
  BY DEF Taken, FoldLeft, MapThenFoldSet, b
<1>8. PICK h : Folds(h) /\ Taken(batch) = h[DOMAIN batch]
  BY <1>6, <1>7
<1>9. h[{}] = b
  BY <1>8
<1>10. ASSUME NEW k \in 1 .. n PROVE h[1 .. k] = Take(h[1 .. k - 1], batch[k])
  <2>1. k \in Nat \ {0} /\ 1 .. k \in SUBSET DOMAIN batch /\ 1 .. k # {}
    <3> HIDE DEF n
    <3>1. k \in Nat \ {0} /\ k \in 1 .. k
      BY <1>1
    <3>2. \A y \in 1 .. k : y \in 1 .. n
      BY <1>1
    <3> QED
      BY <1>1, <3>1, <3>2
  <2>2. Max(1 .. k) = k /\ (1 .. k) \ {k} = 1 .. k - 1
    BY <2>1, LastOfFirst
  <2> QED
    BY <1>8, <2>1, <2>2
<1> QED
  BY <1>1, <1>8, <1>9, <1>10 DEF b

\* The rows have different uids, and so have those added; an added row is the
\* first of its uid.
TalliedRows(batch, k, acc) ==
    /\ acc \in Tally
    /\ Unlike(acc.rows) /\ Unlike(acc.added)
    /\ \A r \in acc.rows, s \in acc.added : r.uid # s.uid
    /\ \A s \in acc.added : \E j \in 1 .. k : s.uid = batch[j].uid

\* Every row is from the table or from the batch, the rows of the table are
\* kept, and an out-of-service event is among them when it was taken.
SameEvent(d, e) == d.uid = e.uid /\ d.type = e.type
Origin(batch, k, r) ==
    (\E o \in store : SameEvent(o, r)) \/ (\E j \in 1 .. k : SameEvent(batch[j], r))
TalliedOrigins(batch, k, acc) ==
    /\ \A r \in acc.rows \cup acc.added : Origin(batch, k, r)
    /\ \A o \in store : \E r \in acc.rows : SameEvent(o, r)
    /\ \A j \in 1 .. k : batch[j].type = "out" => \E r \in acc.rows : r.uid = batch[j].uid

\* No line is alerted of twice, and of each there is a row; two events of one
\* line and type are one event.
Told1(list) == \A i, j \in DOMAIN list : list[i] = list[j] => i = j
AlertsFit(rows, list) ==
    /\ Told1(list)
    /\ \A i \in DOMAIN list : \E r \in rows : r.type = "out" /\ list[i] = <<r.uid[1], r.uid[3]>>
Alike(d, e) ==
    d.uid[1] = e.uid[1] /\ d.uid[3] = e.uid[3] /\ d.type = e.type => d.uid = e.uid
AllAlike(batch) ==
    \A j \in DOMAIN batch :
        (\A o \in store : Alike(o, batch[j])) /\ (\A i \in DOMAIN batch : Alike(batch[i], batch[j]))

LEMMA RowsNext ==
    ASSUME NEW batch \in Seq(Stored), Single(batch), NEW k \in DOMAIN batch, NEW acc,
           TalliedRows(batch, k - 1, acc)
    PROVE  TalliedRows(batch, k, Take(acc, batch[k]))
<1> DEFINE e == batch[k]
           new == Take(acc, e)
<1>1. e \in Stored /\ acc \in Tally /\ k \in Nat
  BY SeqParts DEF TalliedRows
<1>2. new \in Tally
  BY <1>1, TakeTyped
<1>3. /\ \A s \in acc.added : \E j \in 1 .. k : s.uid = batch[j].uid
      /\ \E j \in 1 .. k : e.uid = batch[j].uid
  <2>1. \A j \in 1 .. k - 1 : j \in 1 .. k
    BY <1>1
  <2>2. k \in 1 .. k
    BY SeqParts
  <2> QED
    BY <2>1, <2>2 DEF TalliedRows
<1>4. \A s \in acc.added : s.uid # e.uid
  <2> SUFFICES ASSUME NEW s \in acc.added, s.uid = e.uid PROVE FALSE
    OBVIOUS
  <2>1. PICK j \in 1 .. k - 1 : s.uid = batch[j].uid
    BY DEF TalliedRows
  <2>2. j \in DOMAIN batch /\ j # k
    BY SeqParts
  <2> QED
    BY <2>1, <2>2 DEF Single
<1> HIDE DEF e
<1>5. CASE \E row \in acc.rows, m \in Stored : m.uid = row.uid /\ new = Merged(acc, row, m)
  <2>1. PICK row \in acc.rows, m \in Stored : m.uid = row.uid /\ new = Merged(acc, row, m)
    BY <1>5
  <2>2. new.rows = (acc.rows \ {row}) \cup {m} /\ new.added = acc.added
    BY <2>1 DEF Merged
  <2> QED
    BY <1>2, <1>3, <2>1, <2>2 DEF TalliedRows, Unlike, e
<1>6. CASE (\A r \in acc.rows : r.uid # e.uid) /\ new = Flushed(acc, e)
  <2>1. new.rows = acc.rows \cup acc.added \cup {e} /\ new.added = {}
    BY <1>6 DEF Flushed
  <2> QED
    BY <1>2, <1>3, <1>4, <1>6, <2>1 DEF TalliedRows, Unlike, e
<1>7. CASE (\A r \in acc.rows : r.uid # e.uid) /\ new = Added(acc, e)
  <2>1. new.rows = acc.rows /\ new.added = acc.added \cup {e}
    BY <1>7 DEF Added
  <2> QED
    BY <1>2, <1>3, <1>4, <1>7, <2>1 DEF TalliedRows, Unlike, e
<1> QED
  BY <1>1, <1>5, <1>6, <1>7, TakeCases

LEMMA OriginsNext ==
    ASSUME NEW batch \in Seq(Stored), NEW k \in DOMAIN batch, NEW acc \in Tally,
           TalliedOrigins(batch, k - 1, acc)
    PROVE  TalliedOrigins(batch, k, Take(acc, batch[k]))
<1> DEFINE e == batch[k]
           new == Take(acc, e)
<1>1. e \in Stored /\ k \in Nat /\ k \in 1 .. k /\ (\A j \in 1 .. k : j \in 1 .. k - 1 \/ j = k)
      /\ (\A j \in 1 .. k - 1 : j \in 1 .. k)
  BY SeqParts
<1>2. /\ \A r \in acc.rows \cup acc.added : Origin(batch, k, r)
      /\ Origin(batch, k, e)
  BY <1>1 DEF TalliedOrigins, Origin, SameEvent
<1>3. ASSUME \A r \in acc.rows : \E s \in new.rows : SameEvent(r, s),
             e.type = "out" => \E s \in new.rows : s.uid = e.uid,
             \A s \in new.rows \cup new.added :
                \E r \in acc.rows \cup acc.added \cup {e} : SameEvent(r, s)
      PROVE  TalliedOrigins(batch, k, new)
  <2> HIDE DEF new
  <2>1. ASSUME NEW s \in new.rows \cup new.added PROVE Origin(batch, k, s)
    <3>1. PICK r \in acc.rows \cup acc.added \cup {e} : SameEvent(r, s)
      BY <1>3
    <3>2. Origin(batch, k, r)
      BY <1>2
    <3> QED
      BY <3>1, <3>2 DEF Origin, SameEvent
  <2>2. \A o \in store : \E s \in new.rows : SameEvent(o, s)
    BY <1>3 DEF TalliedOrigins, SameEvent
  <2>3. ASSUME NEW j \in 1 .. k, batch[j].type = "out" PROVE \E s \in new.rows : s.uid = batch[j].uid
    <3>1. CASE j = k
      BY <1>3, <2>3, <3>1
    <3>2. CASE j \in 1 .. k - 1
      <4>1. PICK r \in acc.rows : r.uid = batch[j].uid
        BY <2>3, <3>2 DEF TalliedOrigins
      <4> QED
        BY <1>3, <4>1 DEF SameEvent
    <3> QED
      BY <1>1, <3>1, <3>2
  <2> QED
    BY <2>1, <2>2, <2>3 DEF TalliedOrigins
<1> SUFFICES TalliedOrigins(batch, k, new)
  OBVIOUS
<1> HIDE DEF e
<1>4. CASE \E row \in acc.rows, m \in Stored :
                /\ m.uid = row.uid /\ m.type = row.type
                /\ e.type = "out" => row.uid = e.uid
                /\ new = Merged(acc, row, m)
  <2>1. PICK row \in acc.rows, m \in Stored :
                /\ m.uid = row.uid /\ m.type = row.type
                /\ e.type = "out" => row.uid = e.uid
                /\ new = Merged(acc, row, m)
    BY <1>4
  <2>2. new.rows = (acc.rows \ {row}) \cup {m} /\ new.added = acc.added
    BY <2>1 DEF Merged
  <2> QED
    BY <1>3, <2>1, <2>2 DEF SameEvent
<1>5. CASE new = Flushed(acc, e)
  <2>1. new.rows = acc.rows \cup acc.added \cup {e} /\ new.added = {}
    BY <1>5 DEF Flushed
  <2> QED
    BY <1>3, <2>1 DEF SameEvent
<1>6. CASE e.type # "out" /\ new = Added(acc, e)
  <2>1. new.rows = acc.rows /\ new.added = acc.added \cup {e}
    BY <1>6 DEF Added
  <2> QED
    BY <1>3, <1>6, <2>1 DEF SameEvent
<1> QED
  BY <1>1, <1>4, <1>5, <1>6, TakeCases

LEMMA AlertsNext ==
    ASSUME NEW batch \in Seq(Stored), NEW k \in DOMAIN batch, NEW acc \in Tally,
           TalliedOrigins(batch, k - 1, acc), AllAlike(batch), AlertsFit(acc.rows, acc.alerts)
    PROVE  AlertsFit(Take(acc, batch[k]).rows, Take(acc, batch[k]).alerts)
<1> DEFINE e == batch[k]
           new == Take(acc, e)
           a == <<e.uid[1], e.uid[3]>>
<1>1. e \in Stored
  BY SeqParts
<1>2. CASE \E row \in acc.rows, m \in Stored : m.uid = row.uid /\ m.type = row.type /\ new = Merged(acc, row, m)
  <2>1. PICK row \in acc.rows, m \in Stored : m.uid = row.uid /\ m.type = row.type /\ new = Merged(acc, row, m)
    BY <1>2
  <2>2. new.rows = (acc.rows \ {row}) \cup {m} /\ new.alerts = acc.alerts
    BY <2>1 DEF Merged
  <2> HIDE DEF new
  <2>3. \A r \in acc.rows : \E s \in new.rows : s.uid = r.uid /\ s.type = r.type
    BY <2>1, <2>2
  <2> QED
    BY <2>2, <2>3 DEF AlertsFit, new
<1>3. CASE (\A r \in acc.rows : r.uid # e.uid) /\ e.type = "out" /\ new = Flushed(acc, e)
  <2>1. new.rows = acc.rows \cup acc.added \cup {e} /\ new.alerts = Append(acc.alerts, a)
    BY <1>3 DEF Flushed
  <2>2. \A i \in DOMAIN acc.alerts : acc.alerts[i] # a
    <3> SUFFICES ASSUME NEW i \in DOMAIN acc.alerts, acc.alerts[i] = a PROVE FALSE
      OBVIOUS
    <3>1. PICK r \in acc.rows : r.type = "out" /\ acc.alerts[i] = <<r.uid[1], r.uid[3]>>
      BY DEF AlertsFit
    <3>2. Origin(batch, k - 1, r)
      BY DEF TalliedOrigins
    <3>3. \A j \in 1 .. k - 1 : j \in DOMAIN batch
      BY SeqParts
    <3>4. Alike(r, e)
      BY <3>2, <3>3 DEF Origin, SameEvent, AllAlike, Alike
    <3>5. r.uid = e.uid
      BY <1>3, <3>1, <3>4 DEF Alike
    <3> QED
      BY <1>3, <3>5
  <2>3. acc.alerts \in Seq(Alert) /\ a \in Alert
    BY <1>1 DEF Tally, Stored, Alert
  <2> HIDE DEF new, e, a
  <2>4. /\ DOMAIN new.alerts = DOMAIN acc.alerts \cup {Len(acc.alerts) + 1}
        /\ \A j \in DOMAIN acc.alerts : new.alerts[j] = acc.alerts[j]
        /\ new.alerts[Len(acc.alerts) + 1] = a
    BY <2>1, <2>3, SeqAppend
  <2>5. Told1(new.alerts)
    BY <2>2, <2>4 DEF AlertsFit, Told1
  <2>6. \A i \in DOMAIN new.alerts : \E r \in new.rows : r.type = "out" /\ new.alerts[i] = <<r.uid[1], r.uid[3]>>
    BY <1>3, <2>1, <2>4 DEF AlertsFit, a
  <2> QED
    BY <2>5, <2>6 DEF AlertsFit, new, e
<1>4. CASE new = Added(acc, e)
  <2>1. new.rows = acc.rows /\ new.alerts = acc.alerts
    BY <1>4 DEF Added
  <2> QED
    BY <2>1
<1> HIDE DEF e
<1> QED
  BY <1>1, <1>2, <1>3, <1>4, TakeCases DEF e

LEMMA TakenWell ==
    ASSUME store \subseteq Stored, Unlike(store), alerts \in Seq(Alert),
           NEW batch \in Seq(Stored), Single(batch)
    PROVE  LET end == Taken(batch) IN
           /\ TalliedRows(batch, Len(batch), end)
           /\ TalliedOrigins(batch, Len(batch), end)
           /\ AllAlike(batch) /\ AlertsFit(store, alerts) => AlertsFit(end.rows, end.alerts)
<1>1. PICK h : /\ Taken(batch) = h[1 .. Len(batch)]
               /\ h[{}] = [rows |-> store, added |-> {}, alerts |-> alerts]
               /\ \A k \in 1 .. Len(batch) : h[1 .. k] = Take(h[1 .. k - 1], batch[k])
  BY TakenFold
<1> DEFINE Well(k, acc) ==
              /\ TalliedRows(batch, k, acc) /\ TalliedOrigins(batch, k, acc)
              /\ AllAlike(batch) /\ AlertsFit(store, alerts) => AlertsFit(acc.rows, acc.alerts)
           Good == {k \in 0 .. Len(batch) : Well(k, h[1 .. k])}
<1>2. Len(batch) \in Nat /\ DOMAIN batch = 1 .. Len(batch)
  BY SeqParts
<1>3. 0 \in Good
  <2> DEFINE b == [rows |-> store, added |-> {}, alerts |-> alerts]
  <2>1. 1 .. 0 = {} /\ 0 \in 0 .. Len(batch)
    BY <1>2
  <2>2. TalliedRows(batch, 0, b)
    BY DEF TalliedRows, Tally, Unlike
  <2>3. TalliedOrigins(batch, 0, b)
    BY <2>1 DEF TalliedOrigins, Origin, SameEvent
  <2>4. Well(0, b)
    BY <2>2, <2>3
  <2> QED
    BY <1>1, <2>1, <2>4
<1>4. ASSUME NEW k \in 1 .. Len(batch), k - 1 \in Good PROVE k \in Good
  <2> DEFINE acc == h[1 .. k - 1]
  <2>1. k \in DOMAIN batch /\ k \in 0 .. Len(batch)
    BY <1>2
  <2>2. Well(k - 1, acc)
    BY <1>4
  <2>3. acc \in Tally
    BY <2>2 DEF TalliedRows
  <2> HIDE DEF acc
  <2>4. Well(k, Take(acc, batch[k]))
    BY <2>1, <2>2, <2>3, RowsNext, OriginsNext, AlertsNext
  <2> QED
    BY <1>1, <2>1, <2>4 DEF acc
<1>5. \A k \in 0 .. Len(batch) : k \in Good
  <2> HIDE DEF Good
  <2> QED
    BY <1>2, <1>3, <1>4, UpTo
<1>6. Len(batch) \in Good
  BY <1>2, <1>5
<1> QED
  BY <1>1, <1>6

\* What handling a batch does to the table and to the alerts.
HandledWell(batch) ==
    /\ store' \subseteq Stored /\ Unlike(store') /\ alerts' \in Seq(Alert)
    /\ \A r \in store' : Origin(batch, Len(batch), r)
    /\ \A o \in store : \E r \in store' : SameEvent(o, r)
    /\ \A j \in DOMAIN batch : batch[j].type = "out" => \E r \in store' : r.uid = batch[j].uid
    /\ AllAlike(batch) /\ AlertsFit(store, alerts) => AlertsFit(store', alerts')

LEMMA HandledKeeps ==
    ASSUME store \subseteq Stored, Unlike(store), alerts \in Seq(Alert),
           NEW batch \in Seq(Stored), Single(batch), Handled(batch)
    PROVE  HandledWell(batch)
<1> DEFINE end == Taken(batch)
<1>1. /\ TalliedRows(batch, Len(batch), end) /\ TalliedOrigins(batch, Len(batch), end)
      /\ AllAlike(batch) /\ AlertsFit(store, alerts) => AlertsFit(end.rows, end.alerts)
  BY TakenWell
<1>2. store' = end.rows \cup end.added /\ alerts' = end.alerts
  BY DEF Handled
<1> HIDE DEF end
<1>3. store' \subseteq Stored /\ Unlike(store') /\ alerts' \in Seq(Alert)
  BY <1>1, <1>2 DEF TalliedRows, Tally, Unlike
<1>4. DOMAIN batch = 1 .. Len(batch)
  BY SeqParts
<1>5. /\ \A r \in store' : Origin(batch, Len(batch), r)
      /\ \A o \in store : \E r \in store' : SameEvent(o, r)
      /\ \A j \in DOMAIN batch : batch[j].type = "out" => \E r \in store' : r.uid = batch[j].uid
  BY <1>1, <1>2, <1>4 DEF TalliedOrigins
<1>6. AlertsFit(end.rows, end.alerts) => AlertsFit(store', alerts')
  BY <1>2 DEF AlertsFit
<1> QED
  BY <1>1, <1>3, <1>5, <1>6 DEF HandledWell

\* The alerts of a batch whose commit fails.
LEMMA AlertsTyped ==
    ASSUME store \subseteq Stored, Unlike(store), alerts \in Seq(Alert),
           NEW batch \in Seq(Stored), Single(batch)
    PROVE  Taken(batch).alerts \in Seq(Alert)
<1>1. Taken(batch) \in Tally
  BY TakenWell DEF TalliedRows
<1> QED
  BY <1>1 DEF Tally

---------------------------------------------------------------------------
(* The chunk that is read.                                                 *)

\* Nothing is written but the script.
FilesOK ==
    /\ written \in [Files -> Nat] /\ base \in [Files -> Nat]
    /\ \A f \in Files : 2 * base[f] + written[f] <= 2 * Len(Script[f])

LEMMA ScriptTyped ==
    ASSUME NEW f \in Files
    PROVE  /\ Script[f] \in Seq(JournalLine) /\ Len(Script[f]) \in Nat
           /\ \A i \in 1 .. Len(Script[f]) : Script[f][i] \in JournalLine
<1>1. Script[f] \in Seq(JournalLine)
  BY JournalAssumption
<1> QED
  BY <1>1, SeqParts

LEMMA ChunkTyped ==
    ASSUME FilesOK, NEW f \in Files, NEW from \in Nat, from <= written[f]
    PROVE  /\ Chunk(f, from, written[f]) \in Seq(Entry)
           /\ Len(Chunk(f, from, written[f])) = (written[f] + 1) \div 2 - from \div 2
           /\ \A k \in DOMAIN Chunk(f, from, written[f]) :
                Chunk(f, from, written[f])[k].place = base[f] + from \div 2 + k
<1> DEFINE to == written[f]
           first == from \div 2 + 1
           last == (to + 1) \div 2
           n == last - first + 1
           half(i) == from > 2 * i - 2 \/ to < 2 * i
           Line1(i) == IF half(i) THEN Line("half") ELSE Script[f][base[f] + i]
           c == Chunk(f, from, to)
<1>0. to \in Nat /\ base[f] \in Nat /\ 2 * base[f] + to <= 2 * Len(Script[f]) /\ Len(Script[f]) \in Nat
  BY ScriptTyped DEF FilesOK
<1>1. /\ first \in Nat \ {0} /\ last \in Nat /\ n \in Nat /\ n = (to + 1) \div 2 - from \div 2
      /\ from \div 2 \in Nat /\ first = from \div 2 + 1
  <2> HIDE DEF to
  <2> QED
    BY <1>0 DEF to
<1>2. c = [k \in 1 .. n |-> [place |-> base[f] + (first + k - 1), line |-> Line1(first + k - 1)]]
  BY DEF Chunk
<1> HIDE DEF n, first, last, to, c
<1>3. ASSUME NEW i \in Nat \ {0} PROVE Line1(i) \in JournalLine
  <2>1. CASE half(i)
    <3>1. Line1(i) = Line("half")
      BY <2>1
    <3>2. Line("half") \in JournalLine
      BY DEF Line, Kinds, JournalLine
    <3> HIDE DEF Line1
    <3> QED
      BY <3>1, <3>2
  <2>2. CASE ~half(i)
    <3>1. 2 * i <= to
      BY <1>0, <2>2
    <3>2. base[f] + i \in 1 .. Len(Script[f])
      BY <1>0, <3>1
    <3>3. Line1(i) = Script[f][base[f] + i]
      BY <2>2
    <3> QED
      BY <3>2, <3>3, ScriptTyped
  <2> QED
    BY <2>1, <2>2
<1> HIDE DEF half, Line1
<1>4. \A k \in 1 .. n : c[k] = [place |-> base[f] + (first + k - 1), line |-> Line1(first + k - 1)]
  BY <1>2
<1>5. ASSUME NEW k \in 1 .. n PROVE c[k] \in Entry /\ c[k].place = base[f] + from \div 2 + k
  <2>1. first + k - 1 \in Nat \ {0}
    BY <1>1
  <2>2. base[f] + (first + k - 1) \in Nat /\ base[f] + (first + k - 1) = base[f] + from \div 2 + k
    BY <1>0, <1>1
  <2>3. Line1(first + k - 1) \in JournalLine
    BY <1>3, <2>1
  <2> DEFINE entry == [place |-> base[f] + (first + k - 1), line |-> Line1(first + k - 1)]
  <2>4. entry \in Entry /\ entry.place = base[f] + (first + k - 1)
    BY <2>2, <2>3 DEF Entry
  <2>5. c[k] = entry
    BY <1>4
  <2> HIDE DEF entry
  <2> QED
    BY <2>2, <2>4, <2>5
<1>6. c \in [1 .. n -> Entry]
  BY <1>2, <1>5
<1>7. c \in Seq(Entry) /\ Len(c) = n /\ DOMAIN c = 1 .. n
  BY <1>1, <1>6
<1> QED
  BY <1>1, <1>5, <1>7 DEF c, to

---------------------------------------------------------------------------
(* The types.                                                              *)

Reading == [todo : SUBSET Files, batch : Seq(Stored), state : [Files -> Position]]

\* No batch has two events of one uid, and of the files still to be read it
\* has none.
SingleInv ==
    /\ \A batch \in late : Single(batch)
    /\ pass # Nothing => /\ Single(pass.batch)
                         /\ \A k \in DOMAIN pass.batch : pass.batch[k].uid[1] \notin pass.todo

TypeInv == TypeOK /\ SingleInv

ChunkOf(f) == Chunk(f, Continue(f).offset, written[f])
ResultOf(f) == ParseLines(f, ParserAt(f, Continue(f)), ChunkOf(f), Continue(f).line)

\* What is read of a file and what is made of it.
LEMMA ReadWell ==
    ASSUME TypeOK, pass # Nothing, NEW f \in Files
    PROVE  /\ Continue(f) \in Position /\ Continue(f).offset \in Nat
           /\ Continue(f).offset <= written[f] /\ Continue(f).line \in Nat \ {0}
           /\ ChunkOf(f) \in Seq(Entry)
           /\ Len(ChunkOf(f)) \in Nat /\ DOMAIN ChunkOf(f) = 1 .. Len(ChunkOf(f))
           /\ Len(ChunkOf(f)) = (written[f] + 1) \div 2 - Continue(f).offset \div 2
           /\ \A k \in DOMAIN ChunkOf(f) :
                ChunkOf(f)[k].place = base[f] + Continue(f).offset \div 2 + k
           /\ MadeOf(f, Continue(f).line, ChunkOf(f), Len(ChunkOf(f)), ResultOf(f))
           /\ ResultOf(f).parser \in Parser /\ ResultOf(f).events \in Seq(Stored)
           /\ ResultOf(f).number = Continue(f).line + Len(ChunkOf(f))
<1> DEFINE at == Continue(f)
<1>1. pass \in Reading /\ pass.state[f] \in Position /\ FilesOK /\ parser[f] \in Parser /\ written[f] \in Nat
  BY DEF TypeOK, Reading, FilesOK
<1>2. at \in Position /\ at.offset \in Nat /\ at.offset <= written[f] /\ at.line \in Nat \ {0}
  BY <1>1 DEF Continue, Start, Position
<1>3. Idle \in Parser
  BY DEF Idle, Parser
<1>4. ParserAt(f, at) \in Parser
  BY <1>1, <1>3 DEF ParserAt
<1> HIDE DEF at
<1>5. /\ Chunk(f, at.offset, written[f]) \in Seq(Entry)
      /\ Len(Chunk(f, at.offset, written[f])) = (written[f] + 1) \div 2 - at.offset \div 2
      /\ \A k \in DOMAIN Chunk(f, at.offset, written[f]) :
            Chunk(f, at.offset, written[f])[k].place = base[f] + at.offset \div 2 + k
  BY <1>1, <1>2, ChunkTyped
<1> DEFINE c == Chunk(f, at.offset, written[f])
           r == ParseLines(f, ParserAt(f, at), c, at.line)
<1>6. c \in Seq(Entry) /\ Len(c) \in Nat /\ DOMAIN c = 1 .. Len(c)
  BY <1>5
<1> HIDE DEF c
<1>7. MadeOf(f, at.line, c, Len(c), r)
  BY <1>2, <1>4, <1>6, ParsedWell
<1> HIDE DEF r
<1>8. r.parser \in Parser /\ r.events \in Seq(Stored) /\ r.number = at.line + Len(c)
  BY <1>7 DEF MadeOf, Progress
<1>9. c = ChunkOf(f) /\ r = ResultOf(f)
  BY DEF c, r, ChunkOf, ResultOf, at
<1> QED
  BY <1>2, <1>5, <1>6, <1>7, <1>8, <1>9 DEF c, at

\* What reading a file adds to the batch is single again.
LEMMA ReadSingle ==
    ASSUME TypeInv, pass # Nothing, NEW f \in pass.todo
    PROVE  /\ pass.batch \o ResultOf(f).events \in Seq(Stored)
           /\ Single(pass.batch \o ResultOf(f).events)
           /\ \A k \in DOMAIN (pass.batch \o ResultOf(f).events) :
                (pass.batch \o ResultOf(f).events)[k].uid[1] \notin pass.todo \ {f}
<1> DEFINE s == pass.batch
           t == ResultOf(f).events
           u == s \o t
<1>1. f \in Files /\ s \in Seq(Stored)
  BY DEF TypeInv, TypeOK
<1>2. t \in Seq(Stored) /\ Single(t) /\ \A i \in DOMAIN t : t[i].uid[1] = f
  <2>1. MadeOf(f, Continue(f).line, ChunkOf(f), Len(ChunkOf(f)), ResultOf(f)) /\ t \in Seq(Stored)
    BY <1>1, ReadWell DEF TypeInv
  <2>2. \A i \in DOMAIN t : \E k \in 1 .. Len(ChunkOf(f)) :
            t[i].uid = <<f, Continue(f).line + k - 1, ChunkOf(f)[k].place, t[i].type>>
    BY <2>1 DEF MadeOf
  <2> HIDE DEF t
  <2>3. \A i \in DOMAIN t : t[i].uid[1] = f
    BY <2>2
  <2> QED
    BY <2>1, <2>3 DEF MadeOf, t
<1>3. Single(s) /\ \A i \in DOMAIN s : s[i].uid[1] \notin pass.todo
  BY DEF TypeInv, SingleInv
<1> HIDE DEF s, t, u
<1>4. /\ u \in Seq(Stored) /\ Len(s) \in Nat /\ DOMAIN u \in SUBSET Nat
      /\ \A i \in DOMAIN u : i <= Len(s) => i \in DOMAIN s /\ u[i] = s[i]
      /\ \A i \in DOMAIN u : i > Len(s) => i - Len(s) \in DOMAIN t /\ u[i] = t[i - Len(s)]
  BY <1>1, <1>2, SeqSides DEF u
<1>5. Single(u)
  <2> SUFFICES ASSUME NEW i \in DOMAIN u, NEW j \in DOMAIN u, u[i].uid = u[j].uid PROVE i = j
    BY DEF Single
  <2>1. CASE i <= Len(s) /\ j <= Len(s)
    BY <1>3, <1>4, <2>1 DEF Single
  <2>2. CASE i > Len(s) /\ j > Len(s)
    <3>1. i - Len(s) = j - Len(s)
      BY <1>2, <1>4, <2>2 DEF Single
    <3> QED
      BY <1>4, <3>1
  <2>3. CASE i <= Len(s) /\ j > Len(s)
    BY <1>2, <1>3, <1>4, <2>3
  <2>4. CASE i > Len(s) /\ j <= Len(s)
    BY <1>2, <1>3, <1>4, <2>4
  <2> QED
    BY <1>4, <2>1, <2>2, <2>3, <2>4
<1>6. \A k \in DOMAIN u : u[k].uid[1] \notin pass.todo \ {f}
  BY <1>2, <1>3, <1>4
<1> QED
  BY <1>4, <1>5, <1>6 DEF s, t, u

\* The part of the batch that is sent, and the rest.
Rest == SubSeq(pass.batch, Len(FirstBatch) + 1, Len(pass.batch))

LEMMA BatchDivided ==
    ASSUME TypeInv, pass # Nothing
    PROVE  /\ FirstBatch \in Seq(Stored) /\ Single(FirstBatch)
           /\ \A k \in DOMAIN FirstBatch : k \in DOMAIN pass.batch /\ FirstBatch[k] = pass.batch[k]
           /\ Rest \in Seq(Stored) /\ Single(Rest)
           /\ \A k \in DOMAIN Rest : \E j \in DOMAIN pass.batch : Rest[k] = pass.batch[j]
           /\ \A j \in DOMAIN pass.batch :
                (\E k \in DOMAIN FirstBatch : FirstBatch[k] = pass.batch[j])
                \/ (\E k \in DOMAIN Rest : Rest[k] = pass.batch[j])
<1> DEFINE b == pass.batch
           n == IF Len(b) < BatchSize THEN Len(b) ELSE BatchSize
           first == SubSeq(b, 1, n)
           rest == SubSeq(b, n + 1, Len(b))
<1>1. b \in Seq(Stored) /\ Single(b) /\ Len(b) \in Nat /\ DOMAIN b = 1 .. Len(b)
  BY SeqParts DEF TypeInv, TypeOK, SingleInv
<1>2. n \in 0 .. Len(b)
  BY <1>1, JournalAssumption
<1>3. FirstBatch = first
  BY DEF FirstBatch
<1> HIDE DEF b, n
<1>4. /\ first \in Seq(Stored) /\ Len(first) = n
      /\ rest \in Seq(Stored) /\ Len(rest) = Len(b) - n
      /\ \A k \in 1 .. n : first[k] = b[k]
      /\ \A k \in 1 .. Len(b) - n : rest[k] = b[n + k]
  BY <1>1, <1>2, SeqDivided
<1>5. DOMAIN first = 1 .. n /\ DOMAIN rest = 1 .. Len(b) - n
  BY <1>4
<1>0. Rest = rest
  BY <1>3, <1>4 DEF Rest, b
<1> HIDE DEF first, rest
<1> DEFINE m == Len(b)
<1>6. m \in Nat /\ n \in 0 .. m /\ DOMAIN b = 1 .. m /\ DOMAIN rest = 1 .. m - n
      /\ \A k \in 1 .. m - n : rest[k] = b[n + k]
  BY <1>1, <1>2, <1>4, <1>5
<1> HIDE DEF m
<1>7. \A k \in DOMAIN first : k \in DOMAIN b /\ first[k] = b[k]
  BY <1>4, <1>5, <1>6
<1>8. \A k \in DOMAIN rest : n + k \in DOMAIN b /\ rest[k] = b[n + k]
  BY <1>6
<1>9. Single(first)
  BY <1>1, <1>7 DEF Single
<1>10. Single(rest)
  <2> SUFFICES ASSUME NEW i \in DOMAIN rest, NEW j \in DOMAIN rest, rest[i].uid = rest[j].uid PROVE i = j
    BY DEF Single
  <2>1. n + i = n + j
    BY <1>1, <1>8 DEF Single
  <2> QED
    BY <1>6, <2>1
<1>11. ASSUME NEW j \in DOMAIN b
       PROVE  (\E k \in DOMAIN first : first[k] = b[j]) \/ (\E k \in DOMAIN rest : rest[k] = b[j])
  <2>1. CASE j <= n
    <3>1. j \in DOMAIN first
      BY <1>5, <1>6, <2>1
    <3> QED
      BY <1>7, <3>1
  <2>2. CASE j > n
    <3>1. j - n \in DOMAIN rest /\ n + (j - n) = j
      BY <1>6, <2>2
    <3> QED
      BY <1>8, <3>1
  <2> QED
    BY <1>6, <2>1, <2>2
<1> QED
  BY <1>0, <1>3, <1>4, <1>7, <1>8, <1>9, <1>10, <1>11 DEF b

LEMMA InitType == Init => TypeInv
<1> SUFFICES ASSUME Init PROVE TypeInv
  OBVIOUS
<1>1. Start \in Position /\ Idle \in Parser
  BY DEF Start, Position, Idle, Parser
<1>2. \A f \in Files : Len(Script[f]) \in Nat
  BY ScriptTyped
<1>3. MaxFaults \in Nat
  BY JournalAssumption
<1> QED
  BY <1>1, <1>2, <1>3 DEF Init, TypeInv, TypeOK, SingleInv, Counted

LEMMA FaultCounted ==
    ASSUME faults \in Counted, NEW kind, Fault(kind)
    PROVE  faults' \in Counted
BY JournalAssumption DEF Fault, Counted

\* What is left as it is stays typed.
LEMMA WroteTyped ==
    ASSUME TypeInv, FilesOK', faults' \in Counted,
           UNCHANGED <<saved, parser, pass, store, late, alerts>>
    PROVE  TypeInv'
BY DEF TypeInv, TypeOK, SingleInv, FilesOK, Single

LEMMA PassTyped ==
    ASSUME TypeInv, UNCHANGED <<written, base, store, late, alerts>>,
           saved' \in [Files -> Position], parser' \in [Files -> Parser],
           faults' \in Counted,
           \/ pass' = Nothing
           \/ /\ pass' \in Reading /\ Single(pass'.batch)
              /\ \A k \in DOMAIN pass'.batch : pass'.batch[k].uid[1] \notin pass'.todo
    PROVE  TypeInv'
<1> HIDE DEF Nothing
<1> QED
  BY DEF TypeInv, TypeOK, SingleInv, Single, Reading

LEMMA SentTyped ==
    ASSUME TypeInv, UNCHANGED <<written, base, saved, parser>>, faults' \in Counted,
           store' \subseteq Stored, Unlike(store'), alerts' \in Seq(Alert),
           late' \subseteq {batch \in Seq(Stored) : Single(batch)},
           \/ pass' = pass
           \/ pass' = Nothing
           \/ /\ pass' \in Reading /\ Single(pass'.batch)
              /\ \A k \in DOMAIN pass'.batch : pass'.batch[k].uid[1] \notin pass'.todo
    PROVE  TypeInv'
<1> HIDE DEF Nothing
<1> QED
  BY DEF TypeInv, TypeOK, SingleInv, Single, Reading, Unlike, Alert

LEMMA WriteType ==
    ASSUME TypeInv, NEW f \in Files, Write(f) \/ WriteHalf(f) \/ Rotate(f)
    PROVE  TypeInv'
<1>1. FilesOK /\ faults \in Counted
  BY DEF TypeInv, TypeOK, FilesOK
<1>2. /\ written[f] \in Nat /\ base[f] \in Nat /\ Len(Script[f]) \in Nat
      /\ 2 * base[f] + written[f] <= 2 * Len(Script[f])
  BY <1>1, ScriptTyped DEF FilesOK
<1>3. CASE Write(f)
  <2>1. FilesOK'
    BY <1>1, <1>2, <1>3 DEF Write, MayWrite, FilesOK
  <2> QED
    BY <1>1, <1>3, <2>1, WroteTyped DEF Write
<1>4. CASE WriteHalf(f)
  <2>1. written' = [written EXCEPT ![f] = @ + 1] /\ base' = base
        /\ UNCHANGED <<saved, parser, pass, store, late, alerts>>
    BY <1>4 DEF WriteHalf
  <2>2. CASE written[f] % 2 = 1
    <3>1. 2 * base[f] + written[f] + 1 <= 2 * Len(Script[f])
      BY <1>2, <2>2
    <3>2. FilesOK'
      BY <1>1, <1>2, <2>1, <3>1 DEF FilesOK
    <3>3. faults' = faults
      BY <1>4, <2>2 DEF WriteHalf
    <3> QED
      BY <1>1, <2>1, <3>2, <3>3, WroteTyped
  <2>3. CASE written[f] % 2 # 1
    <3>1. MayWrite(f, 2) /\ Fault("split")
      BY <1>4, <2>3 DEF WriteHalf
    <3>2. 2 * base[f] + written[f] + 2 <= 2 * Len(Script[f])
      BY <3>1 DEF MayWrite
    <3>3. FilesOK'
      BY <1>1, <1>2, <2>1, <3>2 DEF FilesOK
    <3> QED
      BY <1>1, <2>1, <3>1, <3>3, WroteTyped, FaultCounted
  <2> QED
    BY <2>2, <2>3
<1>5. CASE Rotate(f)
  <2>1. /\ base' = [base EXCEPT ![f] = @ + written[f] \div 2] /\ written' = [written EXCEPT ![f] = 0]
        /\ Fault("rotate") /\ UNCHANGED <<saved, parser, pass, store, late, alerts>>
    BY <1>5 DEF Rotate
  <2>2. written[f] \div 2 \in Nat /\ 2 * (written[f] \div 2) <= written[f]
    BY <1>2
  <2>3. /\ base[f] + written[f] \div 2 \in Nat
        /\ 2 * (base[f] + written[f] \div 2) + 0 <= 2 * Len(Script[f])
    <3> DEFINE w == written[f] \div 2
               x == written[f]
    <3>1. w \in Nat /\ 2 * w <= x /\ x \in Nat /\ 2 * base[f] + x <= 2 * Len(Script[f])
      BY <1>2, <2>2
    <3> HIDE DEF w, x
    <3>2. base[f] + w \in Nat /\ 2 * (base[f] + w) + 0 <= 2 * Len(Script[f])
      BY <1>2, <3>1
    <3> QED
      BY <3>2 DEF w
  <2>4. FilesOK'
    <3> DEFINE w == written[f] \div 2
    <3>1. base' = [base EXCEPT ![f] = @ + w] /\ base[f] + w \in Nat
          /\ 2 * (base[f] + w) + 0 <= 2 * Len(Script[f])
      BY <2>1, <2>3
    <3> HIDE DEF w
    <3> QED
      BY <1>1, <2>1, <3>1 DEF FilesOK
  <2> QED
    BY <1>1, <2>1, <2>4, WroteTyped, FaultCounted
<1> QED
  BY <1>3, <1>4, <1>5

LEMMA ReadType ==
    ASSUME TypeInv, NEW f \in Files, ReadFile(f)
    PROVE  TypeInv'
<1> DEFINE at == Continue(f)
           r == ResultOf(f)
           u == pass.batch \o r.events
<1>1. /\ pass # Nothing /\ f \in pass.todo /\ TypeOK /\ SingleInv /\ pass \in Reading
      /\ saved \in [Files -> Position] /\ parser \in [Files -> Parser] /\ faults \in Counted
  BY DEF ReadFile, TypeInv, TypeOK, Reading
<1>2. UNCHANGED <<written, base, saved, store, late, alerts, faults>>
  BY DEF ReadFile
<1>3. /\ at \in Position /\ written[f] \in Nat /\ r.parser \in Parser /\ r.number \in Nat \ {0}
  <2>1. /\ Continue(f) \in Position /\ Continue(f).line \in Nat \ {0} /\ Len(ChunkOf(f)) \in Nat
        /\ ResultOf(f).parser \in Parser /\ ResultOf(f).number = Continue(f).line + Len(ChunkOf(f))
    BY <1>1, ReadWell
  <2>2. written[f] \in Nat
    BY <1>1 DEF TypeOK
  <2> QED
    BY <2>1, <2>2
<1>4. /\ u \in Seq(Stored) /\ Single(u)
      /\ \A k \in DOMAIN u : u[k].uid[1] \notin pass.todo \ {f}
  BY <1>1, ReadSingle
<1>5. CASE at.offset = written[f]
  <2>1. pass' = [pass EXCEPT !.todo = @ \ {f}, !.state[f] = at] /\ parser' = parser
    BY <1>5 DEF ReadFile
  <2> HIDE DEF at
  <2>2. pass' \in Reading /\ pass'.batch = pass.batch /\ pass'.todo = pass.todo \ {f}
    BY <1>1, <1>3, <2>1 DEF Reading
  <2>3. Single(pass'.batch) /\ \A k \in DOMAIN pass'.batch : pass'.batch[k].uid[1] \notin pass'.todo
    BY <1>1, <2>2 DEF SingleInv, Single
  <2> QED
    BY <1>1, <1>2, <2>1, <2>2, <2>3, PassTyped
<1>6. CASE at.offset # written[f]
  <2>1. /\ pass' = [todo |-> pass.todo \ {f}, batch |-> u,
                    state |-> [pass.state EXCEPT ![f] = [offset |-> written[f], line |-> r.number]]]
        /\ parser' = [parser EXCEPT ![f] = r.parser]
    BY <1>6 DEF ReadFile, ResultOf, ChunkOf
  <2> HIDE DEF at, r, u
  <2>2. pass' \in Reading
    BY <1>1, <1>3, <1>4, <2>1 DEF Reading, Position
  <2>3. parser' \in [Files -> Parser]
    BY <1>1, <1>3, <2>1
  <2>4. pass'.batch = u /\ pass'.todo = pass.todo \ {f}
    BY <2>1
  <2>5. Single(pass'.batch) /\ \A k \in DOMAIN pass'.batch : pass'.batch[k].uid[1] \notin pass'.todo
    BY <1>4, <2>4 DEF Single
  <2> QED
    BY <1>1, <1>2, <2>2, <2>3, <2>5, PassTyped
<1> QED
  BY <1>5, <1>6

LEMMA SendType ==
    ASSUME TypeInv, Send
    PROVE  TypeInv'
<1>1. /\ pass # Nothing /\ pass \in Reading /\ store \subseteq Stored /\ Unlike(store)
      /\ alerts \in Seq(Alert) /\ faults \in Counted
      /\ late \subseteq {batch \in Seq(Stored) : Single(batch)}
      /\ \A k \in DOMAIN pass.batch : pass.batch[k].uid[1] \notin pass.todo
  BY DEF Send, TypeInv, TypeOK, SingleInv, Reading, Unlike, Alert
<1>2. UNCHANGED <<written, base, saved, parser>>
  BY DEF Send
<1>3. /\ FirstBatch \in Seq(Stored) /\ Single(FirstBatch) /\ Rest \in Seq(Stored) /\ Single(Rest)
      /\ \A k \in DOMAIN Rest : \E j \in DOMAIN pass.batch : Rest[k] = pass.batch[j]
  BY <1>1, BatchDivided
<1>4. Handled(FirstBatch) => store' \subseteq Stored /\ Unlike(store') /\ alerts' \in Seq(Alert)
  BY <1>1, <1>3, HandledKeeps DEF HandledWell
<1>5. CASE /\ Handled(FirstBatch)
           /\ pass' = [pass EXCEPT !.batch = SubSeq(@, Len(FirstBatch) + 1, Len(@))]
           /\ UNCHANGED <<late, faults>>
  <2>1. pass' = [pass EXCEPT !.batch = Rest]
    BY <1>5 DEF Rest
  <2> HIDE DEF Nothing
  <2>2. pass' \in Reading /\ pass'.batch = Rest /\ pass'.todo = pass.todo
    BY <1>1, <1>3, <2>1 DEF Reading
  <2>3. Single(pass'.batch) /\ \A k \in DOMAIN pass'.batch : pass'.batch[k].uid[1] \notin pass'.todo
    BY <1>1, <1>3, <2>2 DEF Single
  <2> QED
    BY <1>1, <1>2, <1>4, <1>5, <2>2, <2>3, SentTyped
<1>6. CASE pass' = Nothing /\ Fault("lost") /\ Handled(FirstBatch) /\ UNCHANGED late
  BY <1>1, <1>2, <1>4, <1>6, SentTyped, FaultCounted
<1>7. CASE pass' = Nothing /\ Fault("lost") /\ UNCHANGED <<store, alerts, late>>
  BY <1>1, <1>2, <1>7, SentTyped, FaultCounted DEF Unlike
<1>8. CASE /\ pass' = Nothing /\ Fault("late") /\ late' = late \cup {FirstBatch}
           /\ UNCHANGED <<store, alerts>>
  BY <1>1, <1>2, <1>3, <1>8, SentTyped, FaultCounted DEF Unlike
<1>9. CASE /\ pass' = Nothing /\ Fault("rollback") /\ alerts' = Taken(FirstBatch).alerts
           /\ UNCHANGED <<store, late>>
  <2>1. alerts' \in Seq(Alert)
    BY <1>1, <1>3, <1>9, AlertsTyped
  <2> QED
    BY <1>1, <1>2, <1>9, <2>1, SentTyped, FaultCounted DEF Unlike
<1> QED
  BY <1>5, <1>6, <1>7, <1>8, <1>9 DEF Send

LEMMA LateType ==
    ASSUME TypeInv, LateBatch
    PROVE  TypeInv'
<1>1. /\ store \subseteq Stored /\ Unlike(store)
      /\ alerts \in Seq(Alert) /\ faults \in Counted
      /\ late \subseteq {batch \in Seq(Stored) : Single(batch)}
  BY DEF TypeInv, TypeOK, SingleInv, Unlike, Alert
<1>2. PICK batch \in late : Handled(batch) /\ late' = late \ {batch}
  BY DEF LateBatch
<1>3. store' \subseteq Stored /\ Unlike(store') /\ alerts' \in Seq(Alert)
  BY <1>1, <1>2, HandledKeeps DEF HandledWell
<1>4. UNCHANGED <<written, base, saved, parser, pass, faults>>
  BY DEF LateBatch
<1> QED
  BY <1>1, <1>2, <1>3, <1>4, SentTyped

LEMMA TypeStep == TypeInv /\ [Next]_vars => TypeInv'
<1> SUFFICES ASSUME TypeInv, [Next]_vars PROVE TypeInv'
  OBVIOUS
<1>0. /\ TypeOK /\ SingleInv /\ saved \in [Files -> Position] /\ parser \in [Files -> Parser]
      /\ faults \in Counted
      /\ pass # Nothing => pass \in Reading
  BY DEF TypeInv, TypeOK, Reading
<1>1. ASSUME NEW f \in Files, Write(f) \/ WriteHalf(f) \/ Rotate(f) PROVE TypeInv'
  BY <1>1, WriteType
<1>2. CASE BeginPass
  <2>1. pass' = [todo |-> Files, batch |-> << >>, state |-> saved]
    BY <1>2 DEF BeginPass
  <2>2. pass' \in Reading /\ Single(pass'.batch)
        /\ \A k \in DOMAIN pass'.batch : pass'.batch[k].uid[1] \notin pass'.todo
    BY <1>0, <2>1 DEF Reading, Single
  <2> QED
    BY <1>0, <1>2, <2>2, PassTyped DEF BeginPass
<1>3. ASSUME NEW f \in Files, ReadFile(f) PROVE TypeInv'
  BY <1>3, ReadType
<1>4. CASE Send
  BY <1>4, SendType
<1>5. CASE Save
  <2>1. pass' = Nothing /\ saved' = pass.state /\ pass \in Reading
        /\ UNCHANGED <<written, base, parser, store, late, alerts, faults>>
    BY <1>0, <1>5 DEF Save
  <2>2. saved' \in [Files -> Position]
    BY <2>1 DEF Reading
  <2> QED
    BY <1>0, <2>1, <2>2, PassTyped
<1>6. CASE LateBatch
  BY <1>6, LateType
<1>7. CASE Restart
  <2>1. pass' = Nothing /\ parser' = [f \in Files |-> Idle]
        /\ UNCHANGED <<written, base, store, late, alerts>>
    BY <1>7 DEF Restart
  <2>2. Start \in Position /\ Idle \in Parser
    BY DEF Start, Position, Idle, Parser
  <2>3. parser' \in [Files -> Parser] /\ saved' \in [Files -> Position]
    BY <1>0, <1>7, <2>1, <2>2 DEF Restart
  <2>4. faults' \in Counted
    BY <1>0, <1>7, FaultCounted DEF Restart
  <2> QED
    BY <2>1, <2>3, <2>4, PassTyped
<1>8. CASE UNCHANGED vars
  <2>1. FilesOK' /\ faults' \in Counted
    BY <1>0, <1>8 DEF FilesOK, TypeOK, vars
  <2> QED
    BY <1>8, <2>1, WroteTyped DEF vars
<1> QED
  BY <1>1, <1>2, <1>3, <1>4, <1>5, <1>6, <1>7, <1>8 DEF Next, Reader

\* Whatever goes wrong, everything stays what it is meant to be; of the events
\* that are stored no two have one uid (submit_journal_events).
THEOREM TypeCorrect == Spec => []TypeOK
<1>1. TypeInv => TypeOK
  BY DEF TypeInv
<1> QED
  BY <1>1, InitType, TypeStep, PTL DEF Spec

---------------------------------------------------------------------------
(* The positions, when no line is read half written.                       *)

Unsplit == "split" \notin faults.kinds

\* What has gone wrong has gone wrong.
LEMMA FaultsKept == [Next]_vars => faults.kinds \subseteq faults'.kinds
<1>0. ASSUME faults' = faults \/ \E kind \in AllFaults : Fault(kind)
      PROVE  faults.kinds \subseteq faults'.kinds
  BY <1>0 DEF Fault
<1>1. ASSUME NEW f \in Files, Write(f) \/ WriteHalf(f) \/ Rotate(f) \/ ReadFile(f)
      PROVE  faults.kinds \subseteq faults'.kinds
  BY <1>0, <1>1 DEF Write, WriteHalf, Rotate, ReadFile, AllFaults
<1>2. CASE Send
  <2> HIDE DEF Nothing
  <2>1. UNCHANGED faults \/ Fault("lost") \/ Fault("late") \/ Fault("rollback")
    BY <1>2, Zenon DEF Send
  <2> QED
    BY <1>0, <2>1 DEF AllFaults
<1>3. CASE BeginPass \/ Save \/ LateBatch \/ Restart \/ UNCHANGED vars
  BY <1>0, <1>3 DEF BeginPass, Save, LateBatch, Restart, vars, AllFaults
<1> QED
  BY <1>1, <1>2, <1>3 DEF Next, Reader

\* Whole lines are written and read, and the number of the next line is known
\* from the offset.
Aligned(pos) == pos.offset = 2 * (pos.line - 1)
PosInv ==
    \A f \in Files : /\ written[f] % 2 = 0 /\ Aligned(saved[f])
                     /\ pass # Nothing => Aligned(pass.state[f])

\* A pass begins at the saved positions and goes on from there, unless the file
\* has been replaced.
Onward(f) ==
    /\ pass.state[f].offset <= written[f]
    /\ saved[f].offset > written[f] \/ saved[f].offset <= pass.state[f].offset
PassInv ==
    pass # Nothing => \A f \in Files :
        pass.state[f] = saved[f] \/ (f \notin pass.todo /\ Onward(f))

\* The lines that a position leaves behind.
BehindPos(f, pos) == base[f] + (IF pos.offset <= written[f] THEN pos.offset \div 2 ELSE 0)
OutLine(f, i) == i \in DOMAIN Script[f] /\ Script[f][i].kind = "out" /\ Format[f] = "grg"
IsOut(r, f, i) == r.uid[1] = f /\ r.uid[3] = i /\ r.type = "out"

\* An out-of-service line that is behind is on the server or on its way.
SkipInv ==
    \A f \in Files : \A i \in Nat : OutLine(f, i) =>
        /\ i <= BehindPos(f, saved[f]) => \E r \in store : IsOut(r, f, i)
        /\ pass # Nothing /\ i <= BehindPos(f, pass.state[f]) =>
                \/ \E r \in store : IsOut(r, f, i)
                \/ \E k \in DOMAIN pass.batch : IsOut(pass.batch[k], f, i)

\* The events that there are.
Events ==
    {e \in Stored : \/ e \in store
                    \/ pass # Nothing /\ \E k \in DOMAIN pass.batch : e = pass.batch[k]
                    \/ \E batch \in late : \E k \in DOMAIN batch : e = batch[k]}

\* An event bears the number of its line in the file that has it; the numbers
\* of a file that was replaced are as they were.
Known(e) ==
    /\ e.uid[4] = e.type
    /\ e.uid[3] <= base[e.uid[1]] + written[e.uid[1]] \div 2
    /\ e.uid[3] > base[e.uid[1]] => e.uid[2] = e.uid[3] - base[e.uid[1]]
NumberedOnce(d, e) == d.uid[1] = e.uid[1] /\ d.uid[3] = e.uid[3] => d.uid[2] = e.uid[2]
UidInv == (\A e \in Events : Known(e)) /\ \A d, e \in Events : NumberedOnce(d, e)

AlertInv == "rollback" \notin faults.kinds => AlertsFit(store, alerts)

LEMMA Halves ==
    ASSUME NEW n \in Nat, n % 2 = 0
    PROVE  n \div 2 \in Nat /\ n = 2 * (n \div 2) /\ (n + 1) \div 2 = n \div 2
OBVIOUS

\* Whole lines are read as they were written.
LEMMA ChunkWhole ==
    ASSUME FilesOK, NEW f \in Files, NEW from \in Nat, from <= written[f],
           from % 2 = 0, written[f] % 2 = 0
    PROVE  \A k \in DOMAIN Chunk(f, from, written[f]) :
                Chunk(f, from, written[f])[k].line = Script[f][base[f] + from \div 2 + k]
<1> DEFINE to == written[f]
           first == from \div 2 + 1
           last == (to + 1) \div 2
           n == last - first + 1
           half(i) == from > 2 * i - 2 \/ to < 2 * i
           Line1(i) == IF half(i) THEN Line("half") ELSE Script[f][base[f] + i]
           c == Chunk(f, from, to)
           h == from \div 2
           g == to \div 2
<1>0. to \in Nat /\ base[f] \in Nat
  BY DEF FilesOK
<1>1. h \in Nat /\ g \in Nat /\ from = 2 * h /\ to = 2 * g /\ last = g /\ first = h + 1
  BY <1>0, Halves
<1>2. c = [k \in 1 .. n |-> [place |-> base[f] + (first + k - 1), line |-> Line1(first + k - 1)]]
  BY DEF Chunk
<1>3. n = g - h
  <2> HIDE DEF g, h, first, last
  <2> QED
    BY <1>1
<1> HIDE DEF n, first, last, to, c, g, h
<1>4. ASSUME NEW k \in 1 .. n PROVE c[k].line = Script[f][base[f] + h + k]
  <2>1. k \in Nat \ {0} /\ k <= g - h /\ first + k - 1 = h + k
    BY <1>1, <1>3
  <2>2. ~half(h + k)
    BY <1>1, <2>1
  <2>3. Line1(h + k) = Script[f][base[f] + (h + k)]
    BY <2>2
  <2> HIDE DEF Line1, half
  <2>4. c[k].line = Line1(h + k)
    BY <1>2, <2>1
  <2>5. base[f] + (h + k) = base[f] + h + k
    BY <1>0, <1>1, <2>1
  <2> QED
    BY <2>3, <2>4, <2>5
<1>5. DOMAIN c = 1 .. n
  BY <1>2
<1> QED
  BY <1>4, <1>5 DEF c, to, h

\* What the actions do to a pass.
LEMMA ReadEffect ==
    ASSUME TypeInv, NEW f \in Files, ReadFile(f)
    PROVE  /\ pass # Nothing /\ f \in pass.todo
           /\ UNCHANGED <<written, base, saved, store, late, alerts, faults>>
           /\ pass'.todo = pass.todo \ {f}
           /\ \A g \in Files \ {f} : pass'.state[g] = pass.state[g]
           /\ \/ /\ Continue(f).offset = written[f]
                 /\ pass'.state[f] = Continue(f) /\ pass'.batch = pass.batch
              \/ /\ Continue(f).offset # written[f]
                 /\ pass'.state[f] = [offset |-> written[f], line |-> ResultOf(f).number]
                 /\ pass'.batch = pass.batch \o ResultOf(f).events
<1> DEFINE at == Continue(f)
           r == ResultOf(f)
           u == pass.batch \o r.events
<1>1. pass # Nothing /\ f \in pass.todo /\ pass \in Reading
      /\ UNCHANGED <<written, base, saved, store, late, alerts, faults>>
  BY DEF ReadFile, TypeInv, TypeOK, Reading
<1>2. CASE at.offset = written[f]
  <2>1. pass' = [pass EXCEPT !.todo = @ \ {f}, !.state[f] = at]
    BY <1>2 DEF ReadFile
  <2> HIDE DEF at
  <2>2. /\ pass'.todo = pass.todo \ {f} /\ pass'.batch = pass.batch /\ pass'.state[f] = at
        /\ \A g \in Files \ {f} : pass'.state[g] = pass.state[g]
    BY <1>1, <2>1 DEF Reading
  <2> QED
    BY <1>1, <1>2, <2>2 DEF at
<1>3. CASE at.offset # written[f]
  <2>1. pass' = [todo |-> pass.todo \ {f}, batch |-> u,
                 state |-> [pass.state EXCEPT ![f] = [offset |-> written[f], line |-> r.number]]]
    BY <1>3 DEF ReadFile, ResultOf, ChunkOf
  <2> HIDE DEF at, r, u
  <2>2. /\ pass'.todo = pass.todo \ {f} /\ pass'.batch = u
        /\ pass'.state[f] = [offset |-> written[f], line |-> r.number]
        /\ \A g \in Files \ {f} : pass'.state[g] = pass.state[g]
    BY <1>1, <2>1 DEF Reading
  <2> QED
    BY <1>1, <1>3, <2>2 DEF at, r, u
<1> QED
  BY <1>2, <1>3

LEMMA SendEffect ==
    ASSUME TypeInv, Send
    PROVE  /\ pass # Nothing /\ UNCHANGED <<written, base, saved, parser>>
           /\ \/ pass' = Nothing
              \/ /\ pass'.todo = pass.todo /\ pass'.state = pass.state /\ pass'.batch = Rest
                 /\ Handled(FirstBatch) /\ UNCHANGED <<late, faults>>
           /\ \/ Handled(FirstBatch) /\ UNCHANGED late
              \/ UNCHANGED <<store, alerts, late>>
              \/ late' = late \cup {FirstBatch} /\ UNCHANGED <<store, alerts>>
              \/ "rollback" \in faults'.kinds /\ UNCHANGED <<store, late>>
<1>1. pass # Nothing /\ pass \in Reading /\ UNCHANGED <<written, base, saved, parser>>
  BY DEF Send, TypeInv, TypeOK, Reading
<1>2. CASE /\ Handled(FirstBatch)
           /\ pass' = [pass EXCEPT !.batch = SubSeq(@, Len(FirstBatch) + 1, Len(@))]
           /\ UNCHANGED <<late, faults>>
  <2>1. pass' = [pass EXCEPT !.batch = Rest]
    BY <1>2 DEF Rest
  <2>2. pass'.batch = Rest /\ pass'.todo = pass.todo /\ pass'.state = pass.state
    BY <1>1, <2>1 DEF Reading
  <2> QED
    BY <1>1, <1>2, <2>2
<1>3. CASE /\ pass' = Nothing
           /\ \/ Fault("lost") /\ Handled(FirstBatch) /\ UNCHANGED late
              \/ Fault("lost") /\ UNCHANGED <<store, alerts, late>>
              \/ Fault("late") /\ late' = late \cup {FirstBatch} /\ UNCHANGED <<store, alerts>>
              \/ Fault("rollback") /\ alerts' = Taken(FirstBatch).alerts /\ UNCHANGED <<store, late>>
  BY <1>1, <1>3 DEF Fault
<1> QED
  BY <1>2, <1>3 DEF Send

LEMMA InitPositions == Init => PosInv /\ PassInv
BY DEF Init, PosInv, PassInv, Aligned, Start

\* Without half lines: what is written, and which positions there are.
LEMMA WriteEffect ==
    ASSUME TypeInv, PosInv, Unsplit', NEW f \in Files,
           Write(f) \/ WriteHalf(f) \/ Rotate(f)
    PROVE  /\ UNCHANGED <<saved, parser, pass, store, late, alerts>>
           /\ \A g \in Files \ {f} : written'[g] = written[g] /\ base'[g] = base[g]
           /\ \/ /\ written'[f] = written[f] + 2 /\ base'[f] = base[f]
                 /\ saved[f].offset > written[f] => saved[f].offset > written[f] + 2
              \/ /\ written[f] > 0 /\ saved[f].offset = written[f]
                 /\ written'[f] = 0 /\ base'[f] = base[f] + written[f] \div 2
<1>1. /\ written \in [Files -> Nat] /\ base \in [Files -> Nat] /\ saved[f].offset \in Nat
      /\ written[f] \in Nat
  BY DEF TypeInv, TypeOK, Position
<1>2. CASE Write(f)
  BY <1>1, <1>2 DEF Write, MayWrite
<1>3. ~WriteHalf(f)
  <2>1. written[f] % 2 # 1
    BY <1>1 DEF PosInv
  <2> QED
    BY <2>1 DEF WriteHalf, Fault, Unsplit
<1>4. CASE Rotate(f)
  BY <1>1, <1>4 DEF Rotate
<1> QED
  BY <1>2, <1>3, <1>4

\* Where reading leaves off.
LEMMA ReadPosition ==
    ASSUME TypeInv, PosInv, NEW f \in Files, ReadFile(f)
    PROVE  /\ Aligned(Continue(f)) /\ Continue(f).offset % 2 = 0
           /\ Aligned(pass'.state[f]) /\ pass'.state[f].offset = written[f]
<1> DEFINE at == Continue(f)
           w == written[f]
           g == w \div 2
<1>1. pass # Nothing /\ TypeOK /\ Aligned(pass.state[f]) /\ w % 2 = 0 /\ w \in Nat
  BY ReadEffect DEF TypeInv, TypeOK, PosInv
<1>2. Aligned(at) /\ at.offset \in Nat /\ at.line \in Nat \ {0}
  <2>1. Continue(f).offset \in Nat /\ Continue(f).line \in Nat \ {0}
    BY <1>1, ReadWell
  <2>2. Aligned(Start)
    BY DEF Aligned, Start
  <2> QED
    BY <1>1, <2>1, <2>2 DEF Continue
<1>3. at.offset = 2 * (at.line - 1) /\ at.offset % 2 = 0 /\ at.offset \div 2 = at.line - 1
  BY <1>2 DEF Aligned
<1>4. ResultOf(f).number = at.line + ((w + 1) \div 2 - at.offset \div 2)
  <2>1. /\ ResultOf(f).number = Continue(f).line + Len(ChunkOf(f))
        /\ Len(ChunkOf(f)) = (written[f] + 1) \div 2 - Continue(f).offset \div 2
    BY <1>1, ReadWell
  <2> QED
    BY <2>1
<1>5. g \in Nat /\ w = 2 * g /\ (w + 1) \div 2 = g
  BY <1>1, Halves
<1>6. \/ at.offset = w /\ pass'.state[f] = at
      \/ pass'.state[f] = [offset |-> w, line |-> ResultOf(f).number]
  BY ReadEffect
<1> HIDE DEF at, w, g
<1>7. ResultOf(f).number = g + 1
  BY <1>2, <1>3, <1>4, <1>5
<1>8. Aligned([offset |-> w, line |-> ResultOf(f).number])
  BY <1>5, <1>7 DEF Aligned
<1>9. Aligned(pass'.state[f]) /\ pass'.state[f].offset = w
  BY <1>2, <1>6, <1>8
<1> QED
  BY <1>2, <1>3, <1>9 DEF at, w

LEMMA PosStep ==
    ASSUME TypeInv, PosInv, Unsplit', [Next]_vars
    PROVE  PosInv'
<1>1. ASSUME NEW f \in Files, Write(f) \/ WriteHalf(f) \/ Rotate(f) PROVE PosInv'
  <2>1. /\ saved' = saved /\ pass' = pass
        /\ \A g \in Files \ {f} : written'[g] = written[g]
        /\ written'[f] = written[f] + 2 \/ written'[f] = 0
    BY <1>1, WriteEffect
  <2>2. written[f] \in Nat /\ written[f] % 2 = 0
    BY DEF TypeInv, TypeOK, PosInv
  <2>3. written'[f] % 2 = 0
    BY <2>1, <2>2
  <2> QED
    BY <2>1, <2>3 DEF PosInv
<1>2. CASE BeginPass
  <2>1. written' = written /\ saved' = saved /\ pass'.state = saved
    BY <1>2 DEF BeginPass
  <2> QED
    BY <2>1 DEF PosInv
<1>3. ASSUME NEW f \in Files, ReadFile(f) PROVE PosInv'
  <2>1. /\ written' = written /\ saved' = saved /\ pass # Nothing
        /\ \A g \in Files \ {f} : pass'.state[g] = pass.state[g]
    BY <1>3, ReadEffect
  <2>2. Aligned(pass'.state[f])
    BY <1>3, ReadPosition
  <2> QED
    BY <2>1, <2>2 DEF PosInv
<1>4. CASE Send
  <2>1. /\ written' = written /\ saved' = saved /\ pass # Nothing
        /\ pass' = Nothing \/ pass'.state = pass.state
    BY <1>4, SendEffect
  <2> QED
    BY <2>1 DEF PosInv
<1>5. CASE Save
  <2>1. written' = written /\ saved' = pass.state /\ pass # Nothing /\ pass' = Nothing
    BY <1>5 DEF Save
  <2> QED
    BY <2>1 DEF PosInv
<1>6. CASE LateBatch
  BY <1>6 DEF LateBatch, PosInv
<1>7. CASE Restart
  <2>1. written' = written /\ pass' = Nothing /\ (saved' = saved \/ saved' = [f \in Files |-> Start])
    BY <1>7 DEF Restart
  <2>2. Aligned(Start)
    BY DEF Aligned, Start
  <2> QED
    BY <2>1, <2>2 DEF PosInv
<1>8. CASE UNCHANGED vars
  BY <1>8 DEF vars, PosInv
<1> QED
  BY <1>1, <1>2, <1>3, <1>4, <1>5, <1>6, <1>7, <1>8 DEF Next, Reader

LEMMA PassStep ==
    ASSUME TypeInv, PosInv, PassInv, Unsplit', [Next]_vars
    PROVE  PassInv'
<1>0. pass # Nothing => pass \in Reading /\ \A g \in Files :
            /\ saved[g] \in Position /\ pass.state[g] \in Position /\ written[g] \in Nat
            /\ Aligned(saved[g]) /\ Aligned(pass.state[g])
  BY DEF TypeInv, TypeOK, Reading, PosInv
<1>1. ASSUME NEW f \in Files, Write(f) \/ WriteHalf(f) \/ Rotate(f) PROVE PassInv'
  <2> SUFFICES ASSUME pass # Nothing, NEW g \in Files
               PROVE  pass.state[g] = saved[g] \/ (g \notin pass.todo /\ Onward(g)')
    BY <1>1, WriteEffect DEF PassInv, Onward
  <2>0. saved' = saved /\ pass' = pass
    BY <1>1, WriteEffect
  <2>1. CASE pass.state[g] = saved[g]
    BY <2>1
  <2>2. CASE pass.state[g] # saved[g]
    <3>1. /\ g \notin pass.todo /\ pass.state[g].offset <= written[g]
          /\ saved[g].offset > written[g] \/ saved[g].offset <= pass.state[g].offset
      BY <2>2 DEF PassInv, Onward
    <3>2. pass.state[g].offset \in Nat /\ saved[g].offset \in Nat /\ written[g] \in Nat
          /\ pass.state[g].line \in Nat /\ saved[g].line \in Nat
      BY <1>0 DEF Position
    <3>3. CASE written'[g] = written[g]
      BY <2>0, <3>1, <3>3 DEF Onward
    <3>4. CASE /\ written'[g] = written[g] + 2
               /\ saved[g].offset > written[g] => saved[g].offset > written[g] + 2
      BY <2>0, <3>1, <3>2, <3>4 DEF Onward
    <3>5. saved[g].offset # written[g]
      <4> SUFFICES ASSUME saved[g].offset = written[g] PROVE FALSE
        OBVIOUS
      <4>1. pass.state[g].offset = saved[g].offset
        BY <3>1, <3>2
      <4>2. pass.state[g].line = saved[g].line
        BY <1>0, <3>2, <4>1 DEF Aligned
      <4> QED
        BY <1>0, <2>2, <4>1, <4>2 DEF Position
    <3> QED
      BY <1>1, <3>1, <3>3, <3>4, <3>5, WriteEffect
  <2> QED
    BY <2>1, <2>2
<1>2. CASE BeginPass
  <2>1. saved' = saved /\ pass'.state = saved
    BY <1>2 DEF BeginPass
  <2> QED
    BY <2>1 DEF PassInv
<1>3. ASSUME NEW f \in Files, ReadFile(f) PROVE PassInv'
  <2>1. /\ written' = written /\ saved' = saved /\ pass # Nothing /\ f \in pass.todo
        /\ pass'.todo = pass.todo \ {f}
        /\ \A g \in Files \ {f} : pass'.state[g] = pass.state[g]
    BY <1>3, ReadEffect
  <2>2. pass'.state[f].offset = written[f]
    BY <1>3, ReadPosition
  <2>3. Onward(f)' /\ f \notin pass'.todo
    <3>1. saved[f].offset \in Nat /\ written[f] \in Nat
      BY <1>0, <2>1 DEF Position
    <3> QED
      BY <2>1, <2>2, <3>1 DEF Onward
  <2>4. ASSUME NEW g \in Files \ {f}
        PROVE  pass'.state[g] = saved'[g] \/ (g \notin pass'.todo /\ Onward(g)')
    BY <2>1 DEF PassInv, Onward
  <2> QED
    BY <2>3, <2>4 DEF PassInv
<1>4. CASE Send
  <2>1. /\ written' = written /\ saved' = saved /\ pass # Nothing
        /\ pass' = Nothing \/ (pass'.state = pass.state /\ pass'.todo = pass.todo)
    BY <1>4, SendEffect
  <2> QED
    BY <2>1 DEF PassInv, Onward
<1>5. CASE Save \/ Restart
  BY <1>5 DEF Save, Restart, PassInv
<1>6. CASE LateBatch
  BY <1>6 DEF LateBatch, PassInv, Onward
<1>7. CASE UNCHANGED vars
  BY <1>7 DEF vars, PassInv, Onward
<1> QED
  BY <1>1, <1>2, <1>3, <1>4, <1>5, <1>6, <1>7 DEF Next, Reader

---------------------------------------------------------------------------
(* The uids and the alerts.                                                *)

LEMMA EventParts ==
    ASSUME NEW e \in Events
    PROVE  /\ e \in Stored /\ e.uid[1] \in Files /\ e.uid[2] \in Nat /\ e.uid[3] \in Nat
           /\ e.uid = <<e.uid[1], e.uid[2], e.uid[3], e.uid[4]>>
BY DEF Events, Stored

LEMMA EventsThere ==
    ASSUME TypeInv
    PROVE  /\ \A e \in store : e \in Events
           /\ pass # Nothing => \A k \in DOMAIN pass.batch : pass.batch[k] \in Events
           /\ \A batch \in late : \A k \in DOMAIN batch : batch[k] \in Events
<1>1. /\ store \subseteq Stored /\ late \subseteq Seq(Stored)
      /\ pass # Nothing => pass.batch \in Seq(Stored)
  BY DEF TypeInv, TypeOK
<1>2. \A batch \in late : \A k \in DOMAIN batch : batch[k] \in Stored
  BY <1>1, SeqParts
<1>3. pass # Nothing => \A k \in DOMAIN pass.batch : pass.batch[k] \in Stored
  BY <1>1, SeqParts
<1> QED
  BY <1>1, <1>2, <1>3 DEF Events

\* Two events of one line and type are one.
LEMMA EventsAlike ==
    ASSUME UidInv, NEW d \in Events, NEW e \in Events
    PROVE  Alike(d, e)
<1>1. Known(d) /\ Known(e) /\ NumberedOnce(d, e)
  BY DEF UidInv
<1>2. /\ d.uid = <<d.uid[1], d.uid[2], d.uid[3], d.uid[4]>>
      /\ e.uid = <<e.uid[1], e.uid[2], e.uid[3], e.uid[4]>>
  BY EventParts
<1> QED
  BY <1>1, <1>2 DEF Known, NumberedOnce, Alike

\* Nothing new is told of.
LEMMA UidsKept ==
    ASSUME UidInv, UNCHANGED <<written, base>>,
           \A e \in Events' : \E d \in Events : SameEvent(d, e)
    PROVE  UidInv'
<1>1. ASSUME NEW e \in Events' PROVE Known(e)'
  <2>1. PICK d \in Events : SameEvent(d, e)
    OBVIOUS
  <2>2. Known(d)
    BY DEF UidInv
  <2> QED
    BY <2>1, <2>2 DEF Known, SameEvent
<1>2. ASSUME NEW d \in Events', NEW e \in Events' PROVE NumberedOnce(d, e)
  <2>1. PICK c \in Events : SameEvent(c, d)
    OBVIOUS
  <2>2. PICK b \in Events : SameEvent(b, e)
    OBVIOUS
  <2>3. NumberedOnce(c, b)
    BY DEF UidInv
  <2> QED
    BY <2>1, <2>2, <2>3 DEF NumberedOnce, SameEvent
<1> QED
  BY <1>1, <1>2 DEF UidInv

LEMMA SameSelf == \A e : SameEvent(e, e)
BY DEF SameEvent

LEMMA InitUids == Init => UidInv
<1> SUFFICES ASSUME Init PROVE UidInv
  OBVIOUS
<1>1. Events = {}
  BY DEF Init, Events
<1> QED
  BY <1>1 DEF UidInv

LEMMA UidsWritten ==
    ASSUME TypeInv, PosInv, UidInv, Unsplit', NEW f \in Files,
           Write(f) \/ WriteHalf(f) \/ Rotate(f)
    PROVE  UidInv'
<1>1. /\ UNCHANGED <<pass, store, late>>
      /\ \A g \in Files \ {f} : written'[g] = written[g] /\ base'[g] = base[g]
      /\ \/ written'[f] = written[f] + 2 /\ base'[f] = base[f]
         \/ written'[f] = 0 /\ base'[f] = base[f] + written[f] \div 2
  BY WriteEffect
<1>2. Events' = Events
  BY <1>1 DEF Events
<1>3. written[f] \in Nat /\ base[f] \in Nat
  BY DEF TypeInv, TypeOK
<1>4. ASSUME NEW e \in Events PROVE Known(e)'
  <2>1. e.uid[1] \in Files /\ e.uid[2] \in Nat /\ e.uid[3] \in Nat /\ Known(e)
    BY EventParts DEF UidInv
  <2>2. CASE e.uid[1] # f
    BY <1>1, <2>1, <2>2 DEF Known
  <2>3. CASE e.uid[1] = f
    <3> DEFINE h == written[f] \div 2
               n == e.uid[3]
    <3>1. h \in Nat /\ n \in Nat /\ e.uid[4] = e.type /\ n <= base[f] + h
          /\ (n > base[f] => e.uid[2] = n - base[f])
      BY <1>3, <2>1, <2>3 DEF Known
    <3>2. CASE written'[f] = written[f] + 2 /\ base'[f] = base[f]
      <4>1. written'[f] \div 2 = h + 1
        BY <1>3, <3>2
      <4> HIDE DEF h
      <4> QED
        BY <1>3, <2>3, <3>1, <3>2, <4>1 DEF Known
    <3>3. CASE written'[f] = 0 /\ base'[f] = base[f] + h
      <4>1. written'[f] \div 2 = 0
        BY <3>3
      <4> HIDE DEF h
      <4> QED
        BY <1>3, <2>3, <3>1, <3>3, <4>1 DEF Known
    <3> QED
      BY <1>1, <3>2, <3>3
  <2> QED
    BY <2>2, <2>3
<1> QED
  BY <1>2, <1>4 DEF UidInv

LEMMA UidsRead ==
    ASSUME TypeInv, PosInv, UidInv, NEW f \in Files, ReadFile(f)
    PROVE  UidInv'
<1> DEFINE New(e) == Known(e) /\ e.uid[1] = f /\ e.uid[3] > base[f]
           t == ResultOf(f).events
           s == pass.batch
<1>1. /\ pass # Nothing /\ UNCHANGED <<written, base, store, late>>
      /\ f \in pass.todo /\ TypeOK
      /\ pass'.batch = pass.batch \/ pass'.batch = pass.batch \o ResultOf(f).events
  BY ReadEffect DEF TypeInv
<1>2. s \in Seq(Stored) /\ t \in Seq(Stored)
  BY <1>1, ReadWell DEF TypeOK
<1>3. ASSUME NEW i \in DOMAIN t PROVE New(t[i])
  <2> DEFINE at == Continue(f)
             c == ChunkOf(f)
  <2>1. /\ at.offset \in Nat /\ at.line \in Nat \ {0} /\ Len(c) \in Nat /\ DOMAIN c = 1 .. Len(c)
        /\ Len(c) = (written[f] + 1) \div 2 - at.offset \div 2
        /\ \A k \in DOMAIN c : c[k].place = base[f] + at.offset \div 2 + k
        /\ MadeOf(f, at.line, c, Len(c), ResultOf(f))
    BY <1>1, ReadWell
  <2>2. Aligned(at)
    BY ReadPosition
  <2>3. written[f] \in Nat /\ base[f] \in Nat /\ written[f] % 2 = 0
    BY <1>1 DEF TypeOK, PosInv
  <2>4. at.offset \div 2 = at.line - 1 /\ (written[f] + 1) \div 2 = written[f] \div 2
    <3>1. at.offset = 2 * (at.line - 1)
      BY <2>2 DEF Aligned
    <3> HIDE DEF at
    <3>2. at.offset \div 2 = at.line - 1
      BY <2>1, <3>1
    <3> QED
      BY <2>3, <3>2, Halves
  <2>5. PICK k \in 1 .. Len(c) : t[i].uid = <<f, at.line + k - 1, c[k].place, t[i].type>>
    BY <2>1 DEF MadeOf
  <2>6. c[k].place = base[f] + at.offset \div 2 + k
    BY <2>1
  <2> DEFINE h == written[f] \div 2
             p == at.offset \div 2
             n == Len(c)
             m == at.line
             q == c[k].place
             b == base[f]
  <2>7. /\ h \in Nat /\ p = m - 1 /\ n = h - p /\ q = b + p + k /\ k \in 1 .. n
        /\ n \in Nat /\ m \in Nat \ {0} /\ b \in Nat
    <3>1. h \in Nat
      BY <2>3, Halves
    <3>2. n = h - p
      BY <2>1, <2>4
    <3> QED
      BY <2>1, <2>3, <2>4, <2>6, <3>1, <3>2
  <2> HIDE DEF h, p, n, m, q, b
  <2>8. q > b /\ m + k - 1 = q - b /\ q <= b + h /\ q \in Nat
    BY <2>7
  <2>9. t[i].uid = <<f, m + k - 1, q, t[i].type>>
    BY <2>5 DEF m, q
  <2> HIDE DEF t
  <2> QED
    BY <2>8, <2>9 DEF Known, h, b
<1>4. ASSUME NEW e \in Events' PROVE e \in Events \/ New(e)
  <2>1. \/ e \in store
        \/ \E k \in DOMAIN pass'.batch : e = pass'.batch[k]
        \/ \E batch \in late : \E k \in DOMAIN batch : e = batch[k]
    BY <1>1 DEF Events
  <2>2. ASSUME NEW k \in DOMAIN pass'.batch, e = pass'.batch[k]
        PROVE  (\E j \in DOMAIN s : e = s[j]) \/ (\E j \in DOMAIN t : e = t[j])
    <3>1. CASE pass'.batch = s
      BY <2>2, <3>1
    <3>2. CASE pass'.batch = s \o t
      <4> DEFINE u == s \o t
      <4>1. s \in Seq(Stored) /\ t \in Seq(Stored) /\ u = s \o t /\ k \in DOMAIN u /\ e = u[k]
        BY <1>2, <2>2, <3>2
      <4> HIDE DEF s, t, u
      <4>2. /\ Len(s) \in Nat /\ DOMAIN u \in SUBSET Nat
            /\ k <= Len(s) => k \in DOMAIN s /\ u[k] = s[k]
            /\ k > Len(s) => k - Len(s) \in DOMAIN t /\ u[k] = t[k - Len(s)]
        BY <4>1, SeqSides
      <4> QED
        BY <4>1, <4>2
    <3> QED
      BY <1>1, <3>1, <3>2
  <2>3. e \in Stored
    BY DEF Events
  <2> QED
    BY <1>1, <1>3, <2>1, <2>2, <2>3 DEF Events
<1> HIDE DEF t, s
<1>5. \A e \in Events' : Known(e) /\ e.uid[1] \in Files
  BY <1>4, EventParts DEF UidInv
<1>6. ASSUME NEW d \in Events', NEW e \in Events' PROVE NumberedOnce(d, e)
  <2>1. CASE d \in Events /\ e \in Events
    BY <2>1 DEF UidInv
  <2>2. CASE New(d) \/ New(e)
    BY <1>5, <2>2 DEF Known, NumberedOnce
  <2> QED
    BY <1>4, <2>1, <2>2
<1>7. \A e \in Events' : Known(e)'
  BY <1>1, <1>5 DEF Known
<1> QED
  BY <1>6, <1>7 DEF UidInv

\* The server tells of nothing new.
LEMMA OriginsOld ==
    ASSUME TypeInv, NEW batch \in Seq(Stored), \A k \in DOMAIN batch : batch[k] \in Events,
           HandledWell(batch)
    PROVE  \A r \in store' : \E d \in Events : SameEvent(d, r)
<1> SUFFICES ASSUME NEW r \in store' PROVE \E d \in Events : SameEvent(d, r)
  OBVIOUS
<1>1. Origin(batch, Len(batch), r)
  BY DEF HandledWell
<1>2. DOMAIN batch = 1 .. Len(batch)
  BY SeqParts
<1>3. \A o \in store : o \in Events
  BY EventsThere
<1> QED
  BY <1>1, <1>2, <1>3 DEF Origin

LEMMA FirstWell ==
    ASSUME TypeInv, pass # Nothing
    PROVE  /\ Handled(FirstBatch) => HandledWell(FirstBatch)
           /\ \A k \in DOMAIN FirstBatch : FirstBatch[k] \in Events
<1>1. store \subseteq Stored /\ Unlike(store) /\ alerts \in Seq(Alert)
  BY DEF TypeInv, TypeOK, Unlike, Alert
<1>2. /\ FirstBatch \in Seq(Stored) /\ Single(FirstBatch)
      /\ \A k \in DOMAIN FirstBatch : k \in DOMAIN pass.batch /\ FirstBatch[k] = pass.batch[k]
  BY BatchDivided
<1>3. \A k \in DOMAIN pass.batch : pass.batch[k] \in Events
  BY EventsThere
<1>4. Handled(FirstBatch) => HandledWell(FirstBatch)
  BY <1>1, <1>2, HandledKeeps
<1>5. \A k \in DOMAIN FirstBatch : FirstBatch[k] \in Events
  BY <1>2, <1>3
<1> QED
  BY <1>4, <1>5

LEMMA LateWell ==
    ASSUME TypeInv, NEW batch \in late
    PROVE  /\ Handled(batch) => HandledWell(batch)
           /\ batch \in Seq(Stored) /\ \A k \in DOMAIN batch : batch[k] \in Events
<1>1. store \subseteq Stored /\ Unlike(store) /\ alerts \in Seq(Alert)
  BY DEF TypeInv, TypeOK, Unlike, Alert
<1>2. batch \in Seq(Stored) /\ Single(batch)
  BY DEF TypeInv, TypeOK, SingleInv
<1>3. Handled(batch) => HandledWell(batch)
  BY <1>1, <1>2, HandledKeeps
<1> QED
  BY <1>2, <1>3, EventsThere

LEMMA UidsSent ==
    ASSUME TypeInv, UidInv, Send
    PROVE  UidInv'
<1>1. /\ pass # Nothing /\ UNCHANGED <<written, base>>
      /\ pass' = Nothing \/ pass'.batch = Rest
      /\ \/ Handled(FirstBatch) /\ UNCHANGED late
         \/ UNCHANGED <<store, late>>
         \/ late' = late \cup {FirstBatch} /\ UNCHANGED store
  BY SendEffect
<1>2. /\ Handled(FirstBatch) => HandledWell(FirstBatch)
      /\ FirstBatch \in Seq(Stored)
      /\ \A k \in DOMAIN FirstBatch : FirstBatch[k] \in Events
      /\ \A k \in DOMAIN Rest : \E j \in DOMAIN pass.batch : Rest[k] = pass.batch[j]
  BY <1>1, BatchDivided, FirstWell
<1>3. /\ \A e \in store : e \in Events
      /\ \A k \in DOMAIN pass.batch : pass.batch[k] \in Events
      /\ \A batch \in late : \A k \in DOMAIN batch : batch[k] \in Events
  BY <1>1, EventsThere
<1>4. \A r \in store' : \E d \in Events : SameEvent(d, r)
  <2>1. CASE Handled(FirstBatch)
    BY <1>2, <2>1, OriginsOld
  <2>2. CASE UNCHANGED store
    BY <1>3, <2>2, SameSelf
  <2> QED
    BY <1>1, <2>1, <2>2
<1>5. pass' # Nothing => \A k \in DOMAIN pass'.batch : pass'.batch[k] \in Events
  BY <1>1, <1>2, <1>3
<1>6. \A batch \in late' : \A k \in DOMAIN batch : batch[k] \in Events
  BY <1>1, <1>2, <1>3
<1>7. \A e \in Events' : \E d \in Events : SameEvent(d, e)
  <2> SUFFICES ASSUME NEW e \in Events' PROVE \E d \in Events : SameEvent(d, e)
    OBVIOUS
  <2>1. \/ e \in store'
        \/ pass' # Nothing /\ \E k \in DOMAIN pass'.batch : e = pass'.batch[k]
        \/ \E batch \in late' : \E k \in DOMAIN batch : e = batch[k]
    BY DEF Events
  <2> QED
    BY <1>4, <1>5, <1>6, <2>1, SameSelf
<1> QED
  BY <1>1, <1>7, UidsKept

LEMMA UidsLate ==
    ASSUME TypeInv, UidInv, LateBatch
    PROVE  UidInv'
<1>1. PICK batch \in late : Handled(batch) /\ late' = late \ {batch}
  BY DEF LateBatch
<1>2. UNCHANGED <<written, base, pass>>
  BY DEF LateBatch
<1>3. \A r \in store' : \E d \in Events : SameEvent(d, r)
  BY <1>1, LateWell, OriginsOld
<1>4. \A e \in Events' : e \in store' \/ e \in Events
  BY <1>1, <1>2 DEF Events
<1>5. \A e \in Events' : \E d \in Events : SameEvent(d, e)
  BY <1>3, <1>4, SameSelf
<1> QED
  BY <1>2, <1>5, UidsKept

LEMMA UidStep ==
    ASSUME TypeInv, PosInv, UidInv, Unsplit', [Next]_vars
    PROVE  UidInv'
<1>1. ASSUME UNCHANGED <<written, base, store, late>>,
             pass' = pass \/ pass' = Nothing \/ pass'.batch = << >>
      PROVE  UidInv'
  <2>1. \A e \in Events' : e \in Events
    BY <1>1 DEF Events
  <2>2. \A e \in Events' : \E d \in Events : SameEvent(d, e)
    BY <2>1, SameSelf
  <2> QED
    BY <1>1, <2>2, UidsKept
<1>2. CASE BeginPass
  <2>1. pass'.batch = << >>
    BY <1>2 DEF BeginPass
  <2> QED
    BY <1>1, <1>2, <2>1 DEF BeginPass
<1>3. CASE Save \/ Restart
  <2>1. pass' = Nothing /\ UNCHANGED <<written, base, store, late>>
    BY <1>3 DEF Save, Restart
  <2> QED
    BY <1>1, <2>1
<1>4. CASE UNCHANGED vars
  <2>1. UNCHANGED <<written, base, store, late, pass>>
    BY <1>4 DEF vars
  <2> QED
    BY <1>1, <2>1
<1> QED
  BY <1>2, <1>3, <1>4, UidsWritten, UidsRead, UidsSent, UidsLate DEF Next, Reader

LEMMA InitAlerts == Init => AlertInv
BY DEF Init, AlertInv, AlertsFit, Told1

LEMMA AlertStep ==
    ASSUME TypeInv, UidInv, AlertInv, [Next]_vars
    PROVE  AlertInv'
<1> SUFFICES ASSUME "rollback" \notin faults'.kinds PROVE AlertsFit(store', alerts')
  BY DEF AlertInv
<1>1. AlertsFit(store, alerts)
  BY FaultsKept DEF AlertInv
<1>2. ASSUME NEW batch, \A k \in DOMAIN batch : batch[k] \in Events
      PROVE  AllAlike(batch)
  <2>1. \A o \in store : o \in Events
    BY EventsThere
  <2> QED
    BY <1>2, <2>1, EventsAlike DEF AllAlike
<1>3. CASE Send
  <2>1. CASE Handled(FirstBatch)
    <3>1. HandledWell(FirstBatch) /\ AllAlike(FirstBatch)
      BY <1>2, <1>3, <2>1, FirstWell, SendEffect
    <3> QED
      BY <1>1, <3>1 DEF HandledWell
  <2>2. CASE UNCHANGED <<store, alerts>>
    BY <1>1, <2>2
  <2> QED
    BY <1>3, <2>1, <2>2, SendEffect
<1>4. CASE LateBatch
  <2>1. PICK batch \in late : Handled(batch)
    BY <1>4 DEF LateBatch
  <2>2. HandledWell(batch) /\ AllAlike(batch)
    BY <1>2, <2>1, LateWell
  <2> QED
    BY <1>1, <2>2 DEF HandledWell
<1>5. CASE UNCHANGED <<store, alerts>>
  BY <1>1, <1>5
<1>6. ASSUME NEW f \in Files, Write(f) \/ WriteHalf(f) \/ Rotate(f) \/ ReadFile(f)
      PROVE  UNCHANGED <<store, alerts>>
  BY <1>6 DEF Write, WriteHalf, Rotate, ReadFile
<1>7. BeginPass \/ Save \/ Restart \/ UNCHANGED vars => UNCHANGED <<store, alerts>>
  BY DEF BeginPass, Save, Restart, vars
<1> QED
  BY <1>3, <1>4, <1>5, <1>6, <1>7 DEF Next, Reader

---------------------------------------------------------------------------
(* The out-of-service lines.                                               *)

\* Where it is read in a sent or a stored event.
SkipOf(f, i) ==
    /\ i <= BehindPos(f, saved[f]) => \E r \in store : IsOut(r, f, i)
    /\ pass # Nothing /\ i <= BehindPos(f, pass.state[f]) =>
            \/ \E r \in store : IsOut(r, f, i)
            \/ \E k \in DOMAIN pass.batch : IsOut(pass.batch[k], f, i)

LEMMA InitSkip == Init => SkipInv
<1> SUFFICES ASSUME Init, NEW f \in Files, NEW i \in Nat, OutLine(f, i)
             PROVE  SkipOf(f, i)
  BY DEF SkipInv, SkipOf
<1>1. i >= 1
  <2>1. Script[f] \in Seq(JournalLine)
    BY ScriptTyped
  <2> QED
    BY <2>1 DEF OutLine
<1>2. BehindPos(f, saved[f]) = 0
  BY DEF Init, Start, BehindPos
<1> QED
  BY <1>1, <1>2 DEF SkipOf, Init

LEMMA SkipWritten ==
    ASSUME TypeInv, PosInv, PassInv, SkipInv, Unsplit', NEW f \in Files,
           Write(f) \/ WriteHalf(f) \/ Rotate(f)
    PROVE  SkipInv'
<1>1. /\ UNCHANGED <<saved, pass, store>>
      /\ \A g \in Files \ {f} : written'[g] = written[g] /\ base'[g] = base[g]
      /\ \/ /\ written'[f] = written[f] + 2 /\ base'[f] = base[f]
            /\ saved[f].offset > written[f] => saved[f].offset > written[f] + 2
         \/ /\ written[f] > 0 /\ saved[f].offset = written[f]
            /\ written'[f] = 0 /\ base'[f] = base[f] + written[f] \div 2
  BY WriteEffect
<1>2. /\ written[f] \in Nat /\ base[f] \in Nat /\ saved[f].offset \in Nat
  BY DEF TypeInv, TypeOK, Position
<1>3. ASSUME NEW pos, pos.offset \in Nat, pos.offset <= written[f] \/ pos = saved[f],
             pos = saved[f] \/ saved[f].offset # written[f]
      PROVE  base'[f] + (IF pos.offset <= written'[f] THEN pos.offset \div 2 ELSE 0) = BehindPos(f, pos)
  <2> DEFINE h == pos.offset \div 2
             w == written[f]
             g == w \div 2
  <2>1. CASE written'[f] = 0
    <3>1. pos.offset = w /\ w > 0 /\ base'[f] = base[f] + g
      BY <1>1, <1>2, <1>3, <2>1
    <3>2. h = g
      BY <3>1
    <3>3. BehindPos(f, pos) = base[f] + h
      BY <1>2, <3>1 DEF BehindPos
    <3>4. base'[f] + (IF pos.offset <= written'[f] THEN pos.offset \div 2 ELSE 0) = base[f] + g + 0
      <4> HIDE DEF g
      <4> QED
        BY <1>2, <2>1, <3>1
    <3>5. g \in Nat
      BY <1>2
    <3> HIDE DEF h, g
    <3> QED
      BY <1>2, <3>2, <3>3, <3>4, <3>5
  <2>2. CASE written'[f] = w + 2 /\ base'[f] = base[f]
    <3>1. (pos.offset <= w) <=> (pos.offset <= w + 2)
      BY <1>1, <1>2, <1>3, <2>2
    <3> QED
      BY <2>2, <3>1 DEF BehindPos
  <2> QED
    BY <1>1, <2>1, <2>2
<1>4. ASSUME NEW g \in Files
      PROVE  /\ BehindPos(g, saved[g])' = BehindPos(g, saved[g])
             /\ pass # Nothing => BehindPos(g, pass.state[g])' = BehindPos(g, pass.state[g])
  <2>1. CASE g # f
    BY <1>1, <2>1 DEF BehindPos
  <2>2. BehindPos(f, saved[f])' = BehindPos(f, saved[f])
    BY <1>1, <1>2, <1>3 DEF BehindPos
  <2>3. ASSUME pass # Nothing PROVE BehindPos(f, pass.state[f])' = BehindPos(f, pass.state[f])
    <3>0. BehindPos(f, pass.state[f])'
            = base'[f] + (IF pass.state[f].offset <= written'[f] THEN pass.state[f].offset \div 2 ELSE 0)
      BY <1>1 DEF BehindPos
    <3>1. pass.state[f].offset \in Nat
      BY <2>3 DEF TypeInv, TypeOK, Position
    <3>2. CASE pass.state[f] = saved[f]
      BY <1>3, <3>0, <3>1, <3>2
    <3>3. CASE pass.state[f] # saved[f]
      <4>1. Onward(f)
        BY <2>3, <3>3 DEF PassInv
      <4>2. saved[f].offset # written[f]
        <5> SUFFICES ASSUME saved[f].offset = written[f] PROVE FALSE
          OBVIOUS
        <5>1. pass.state[f].offset = saved[f].offset
          BY <1>2, <3>1, <4>1 DEF Onward
        <5>2. /\ saved[f] \in Position /\ pass.state[f] \in Position
              /\ Aligned(saved[f]) /\ Aligned(pass.state[f])
          BY <2>3 DEF TypeInv, TypeOK, PosInv
        <5>3. pass.state[f].line = saved[f].line
          BY <5>1, <5>2 DEF Aligned, Position
        <5> QED
          BY <3>3, <5>1, <5>2, <5>3 DEF Position
      <4>3. pass.state[f].offset <= written[f]
        BY <4>1 DEF Onward
      <4> QED
        BY <1>3, <3>0, <3>1, <4>2, <4>3
    <3> QED
      BY <3>2, <3>3
  <2> QED
    BY <2>1, <2>2, <2>3
<1>5. ASSUME NEW g \in Files, NEW i \in Nat, OutLine(g, i) PROVE SkipOf(g, i)'
  <2>1. SkipOf(g, i)
    BY <1>5 DEF SkipInv, SkipOf
  <2> QED
    BY <1>1, <1>4, <2>1 DEF SkipOf
<1> QED
  BY <1>5 DEF SkipInv, SkipOf, OutLine

\* The rows of the server are kept.
LEMMA OutsKept ==
    ASSUME TypeInv, UidInv', NEW batch, HandledWell(batch)
    PROVE  /\ \A f, i : (\E r \in store : IsOut(r, f, i)) => \E r \in store' : IsOut(r, f, i)
           /\ \A k \in DOMAIN batch : \A f, i :
                batch[k].uid[4] = batch[k].type /\ IsOut(batch[k], f, i)
                    => \E r \in store' : IsOut(r, f, i)
<1>1. ASSUME NEW f, NEW i, NEW o \in store, IsOut(o, f, i)
      PROVE  \E r \in store' : IsOut(r, f, i)
  <2>1. PICK r \in store' : SameEvent(o, r)
    BY DEF HandledWell
  <2> QED
    BY <1>1, <2>1 DEF SameEvent, IsOut
<1>2. ASSUME NEW k \in DOMAIN batch, NEW f, NEW i,
             batch[k].uid[4] = batch[k].type, IsOut(batch[k], f, i)
      PROVE  \E r \in store' : IsOut(r, f, i)
  <2>1. PICK r \in store' : r.uid = batch[k].uid
    BY <1>2 DEF HandledWell, IsOut
  <2>2. r \in Events'
    BY DEF HandledWell, Events
  <2>3. r.uid[4] = r.type
    BY <2>2 DEF UidInv, Known
  <2> QED
    BY <1>2, <2>1, <2>3 DEF IsOut
<1> QED
  BY <1>1, <1>2

LEMMA SkipRead ==
    ASSUME TypeInv, PosInv, PassInv, SkipInv, NEW f \in Files, ReadFile(f)
    PROVE  SkipInv'
<1> DEFINE at == Continue(f)
           c == ChunkOf(f)
           s == pass.batch
           t == ResultOf(f).events
<1>1. /\ pass # Nothing /\ f \in pass.todo /\ TypeOK
      /\ UNCHANGED <<written, base, saved, store>>
      /\ \A g \in Files \ {f} : pass'.state[g] = pass.state[g]
      /\ \/ at.offset = written[f] /\ pass'.state[f] = at /\ pass'.batch = s
         \/ /\ pass'.state[f] = [offset |-> written[f], line |-> ResultOf(f).number]
            /\ pass'.batch = s \o t
  BY ReadEffect DEF TypeInv
<1>2. s \in Seq(Stored) /\ t \in Seq(Stored)
  BY <1>1, ReadWell DEF TypeOK
<1>3. /\ \A k \in DOMAIN s : k \in DOMAIN pass'.batch /\ pass'.batch[k] = s[k]
      /\ pass'.batch = s \o t => \A k \in DOMAIN t : \E j \in DOMAIN pass'.batch : pass'.batch[j] = t[k]
  <2>1. CASE pass'.batch = s \o t
    <3> DEFINE u == s \o t
    <3>1. s \in Seq(Stored) /\ t \in Seq(Stored) /\ u = s \o t /\ pass'.batch = u
      BY <1>2, <2>1
    <3> HIDE DEF s, t, u
    <3>2. /\ \A k \in DOMAIN s : k \in DOMAIN u /\ u[k] = s[k]
          /\ \A k \in DOMAIN t : Len(s) + k \in DOMAIN u /\ u[Len(s) + k] = t[k]
      BY <3>1, SeqSides
    <3> QED
      BY <3>1, <3>2
  <2>2. CASE pass'.batch = s /\ s # s \o t
    BY <2>2
  <2> QED
    BY <1>1, <2>1, <2>2
<1>4. /\ written[f] \in Nat /\ base[f] \in Nat /\ written[f] % 2 = 0 /\ at.offset % 2 = 0
      /\ at.offset \in Nat /\ at.offset <= written[f] /\ FilesOK
      /\ DOMAIN c = 1 .. Len(c) /\ Len(c) = (written[f] + 1) \div 2 - at.offset \div 2
      /\ MadeOf(f, at.line, c, Len(c), ResultOf(f))
      /\ \A k \in DOMAIN c : c[k].place = base[f] + at.offset \div 2 + k
  BY <1>1, ReadPosition, ReadWell DEF TypeOK, PosInv, FilesOK
<1>5. \A k \in DOMAIN c : c[k].line = Script[f][base[f] + at.offset \div 2 + k]
  BY <1>4, ChunkWhole DEF ChunkOf
<1>6. written[f] \div 2 \in Nat /\ at.offset \div 2 \in Nat /\ (written[f] + 1) \div 2 = written[f] \div 2
  BY <1>4, Halves
<1>7. ASSUME NEW i \in Nat, OutLine(f, i), i <= base[f] + at.offset \div 2
      PROVE  (\E r \in store : IsOut(r, f, i)) \/ \E k \in DOMAIN s : IsOut(s[k], f, i)
  <2>1. SkipOf(f, i) /\ pass.state[f] = saved[f] /\ saved[f].offset \in Nat
    BY <1>1, <1>7 DEF SkipInv, SkipOf, PassInv, TypeOK, Position
  <2>2. CASE written[f] < pass.state[f].offset
    <3>1. at.offset = 0
      BY <2>2 DEF Continue, Start
    <3>2. base[f] + at.offset \div 2 = base[f] + 0
      BY <3>1
    <3>3. BehindPos(f, pass.state[f]) = base[f] + 0
      BY <1>4, <2>1, <2>2 DEF BehindPos
    <3> QED
      BY <1>1, <1>7, <2>1, <3>2, <3>3 DEF SkipOf
  <2>3. CASE ~(written[f] < pass.state[f].offset)
    <3>1. at = pass.state[f]
      BY <2>3 DEF Continue
    <3>2. BehindPos(f, pass.state[f]) = base[f] + at.offset \div 2
      <4> HIDE DEF at
      <4> QED
        BY <1>4, <3>1 DEF BehindPos
    <3> QED
      BY <1>1, <1>7, <2>1, <3>2 DEF SkipOf
  <2> QED
    BY <2>2, <2>3
<1>8. ASSUME NEW i \in Nat, OutLine(f, i), i > base[f] + at.offset \div 2,
             i <= base[f] + written[f] \div 2
      PROVE  \E k \in DOMAIN t : IsOut(t[k], f, i)
  <2> DEFINE h == at.offset \div 2
             g == written[f] \div 2
             k == i - base[f] - h
  <2>1. Len(c) = g - h /\ h \in Nat /\ g \in Nat /\ base[f] \in Nat
    BY <1>4, <1>6
  <2>2. k \in 1 .. Len(c) /\ base[f] + h + k = i
    <3> HIDE DEF h, g
    <3> QED
      BY <1>8, <2>1 DEF h, g
  <2> HIDE DEF k, h
  <2>3. c[k].line = Script[f][i] /\ c[k].place = i
    BY <1>4, <1>5, <2>2 DEF h
  <2>4. c[k].line.kind = "out" /\ Format[f] = "grg"
    BY <1>8, <2>3 DEF OutLine
  <2> HIDE DEF c, t
  <2>5. \E j \in DOMAIN t : t[j].uid[1] = f /\ t[j].uid[3] = c[k].place /\ t[j].type = "out"
    BY <1>4, <2>2, <2>4 DEF MadeOf, t
  <2> QED
    BY <2>3, <2>5 DEF IsOut
<1>9. ASSUME NEW i \in Nat, OutLine(f, i), i <= BehindPos(f, pass'.state[f])
      PROVE  (\E r \in store : IsOut(r, f, i)) \/ \E k \in DOMAIN pass'.batch : IsOut(pass'.batch[k], f, i)
  <2>1. CASE at.offset = written[f] /\ pass'.state[f] = at /\ pass'.batch = s
    <3>1. BehindPos(f, pass'.state[f]) = base[f] + at.offset \div 2
      BY <1>4, <2>1 DEF BehindPos
    <3> HIDE DEF at, s
    <3> QED
      BY <1>7, <1>9, <2>1, <3>1
  <2>2. CASE pass'.state[f] = [offset |-> written[f], line |-> ResultOf(f).number] /\ pass'.batch = s \o t
    <3>1. BehindPos(f, pass'.state[f]) = base[f] + written[f] \div 2
      BY <1>4, <2>2 DEF BehindPos
    <3>2. i <= base[f] + at.offset \div 2 \/ i > base[f] + at.offset \div 2
      BY <1>4, <1>6
    <3> HIDE DEF at, s, t
    <3> QED
      BY <1>3, <1>7, <1>8, <1>9, <2>2, <3>1, <3>2
  <2> QED
    BY <1>1, <2>1, <2>2
<1>10. ASSUME NEW g \in Files, NEW i \in Nat, OutLine(g, i) PROVE SkipOf(g, i)'
  <2>1. SkipOf(g, i)
    BY <1>10 DEF SkipInv, SkipOf
  <2>2. BehindPos(g, saved[g])' = BehindPos(g, saved[g])
        /\ BehindPos(g, pass.state[g])' = BehindPos(g, pass'.state[g])
    BY <1>1 DEF BehindPos
  <2> HIDE DEF s, t, at
  <2>3. CASE g = f
    BY <1>1, <1>9, <1>10, <2>1, <2>2, <2>3 DEF SkipOf
  <2>4. CASE g # f
    BY <1>1, <1>3, <2>1, <2>2, <2>4 DEF SkipOf, s
  <2> QED
    BY <2>3, <2>4
<1> QED
  BY <1>10 DEF SkipInv, SkipOf, OutLine

LEMMA SkipSent ==
    ASSUME TypeInv, UidInv, UidInv', SkipInv, Send
    PROVE  SkipInv'
<1>1. /\ pass # Nothing /\ UNCHANGED <<written, base, saved>>
      /\ \/ pass' = Nothing
         \/ pass'.state = pass.state /\ pass'.batch = Rest /\ Handled(FirstBatch)
      /\ Handled(FirstBatch) \/ UNCHANGED store
  BY SendEffect
<1>2. /\ Handled(FirstBatch) => HandledWell(FirstBatch)
      /\ \A k \in DOMAIN FirstBatch : FirstBatch[k].uid[4] = FirstBatch[k].type
  BY <1>1, FirstWell DEF UidInv, Known
<1>3. \A f, i : (\E r \in store : IsOut(r, f, i)) => \E r \in store' : IsOut(r, f, i)
  BY <1>1, <1>2, OutsKept
<1>4. ASSUME Handled(FirstBatch), NEW f, NEW i, NEW j \in DOMAIN pass.batch, IsOut(pass.batch[j], f, i)
      PROVE  (\E r \in store' : IsOut(r, f, i)) \/ \E k \in DOMAIN Rest : IsOut(Rest[k], f, i)
  <2>1. \/ \E k \in DOMAIN FirstBatch : FirstBatch[k] = pass.batch[j]
        \/ \E k \in DOMAIN Rest : Rest[k] = pass.batch[j]
    BY <1>1, BatchDivided
  <2>2. CASE \E k \in DOMAIN FirstBatch : FirstBatch[k] = pass.batch[j]
    <3>1. PICK k \in DOMAIN FirstBatch : FirstBatch[k] = pass.batch[j]
      BY <2>2
    <3>2. HandledWell(FirstBatch) /\ FirstBatch[k].uid[4] = FirstBatch[k].type /\ IsOut(FirstBatch[k], f, i)
      BY <1>2, <1>4, <3>1
    <3> QED
      BY <3>2, OutsKept
  <2>3. CASE \E k \in DOMAIN Rest : Rest[k] = pass.batch[j]
    BY <1>4, <2>3
  <2> QED
    BY <2>1, <2>2, <2>3
<1>5. ASSUME NEW f \in Files, NEW i \in Nat, OutLine(f, i) PROVE SkipOf(f, i)'
  <2>1. SkipOf(f, i)
    BY <1>5 DEF SkipInv, SkipOf
  <2>2. BehindPos(f, saved[f])' = BehindPos(f, saved[f])
    BY <1>1 DEF BehindPos
  <2>3. CASE pass' = Nothing
    BY <1>3, <2>1, <2>2, <2>3 DEF SkipOf
  <2>4. CASE pass'.state = pass.state /\ pass'.batch = Rest /\ Handled(FirstBatch)
    <3>1. BehindPos(f, pass.state[f])' = BehindPos(f, pass.state[f])
      BY <1>1, <2>4 DEF BehindPos
    <3> QED
      BY <1>1, <1>3, <1>4, <2>1, <2>2, <2>4, <3>1 DEF SkipOf
  <2> QED
    BY <1>1, <2>3, <2>4
<1> QED
  BY <1>5 DEF SkipInv, SkipOf, OutLine

LEMMA SkipStep ==
    ASSUME TypeInv, PosInv, PassInv, UidInv, UidInv', SkipInv, Unsplit', [Next]_vars
    PROVE  SkipInv'
<1>1. ASSUME \A f \in Files, i \in Nat : OutLine(f, i) => SkipOf(f, i)' PROVE SkipInv'
  BY <1>1 DEF SkipInv, SkipOf, OutLine
<1>2. \A f \in Files, i \in Nat : OutLine(f, i) => SkipOf(f, i)
  BY DEF SkipInv, SkipOf
<1>3. CASE BeginPass
  <2>1. UNCHANGED <<written, base, saved, store>> /\ pass'.state = saved
    BY <1>3 DEF BeginPass
  <2>2. \A f \in Files : /\ BehindPos(f, saved[f])' = BehindPos(f, saved[f])
                         /\ BehindPos(f, pass.state[f])' = BehindPos(f, saved[f])
    BY <2>1 DEF BehindPos
  <2> QED
    BY <1>1, <1>2, <2>1, <2>2 DEF SkipOf
<1>4. CASE Save
  <2>1. /\ UNCHANGED <<written, base, store>> /\ saved' = pass.state
        /\ pass # Nothing /\ pass' = Nothing /\ pass.batch = << >>
    BY <1>4 DEF Save
  <2>2. \A f \in Files : BehindPos(f, saved[f])' = BehindPos(f, pass.state[f])
    BY <2>1 DEF BehindPos
  <2>3. \A f, i : ~ \E k \in DOMAIN pass.batch : IsOut(pass.batch[k], f, i)
    BY <2>1
  <2> QED
    BY <1>1, <1>2, <2>1, <2>2, <2>3 DEF SkipOf
<1>5. CASE Restart
  <2>1. UNCHANGED <<written, base, store>> /\ pass' = Nothing
        /\ (saved' = saved \/ saved' = [f \in Files |-> Start])
    BY <1>5 DEF Restart
  <2>2. ASSUME NEW f \in Files, NEW i \in Nat, i <= BehindPos(f, saved[f])'
        PROVE  i <= BehindPos(f, saved[f])
    <3>1. CASE saved' = saved
      BY <2>1, <2>2, <3>1 DEF BehindPos
    <3>2. CASE saved' = [g \in Files |-> Start]
      <4>1. BehindPos(f, saved[f])' = base[f]
        <5>1. base[f] \in Nat /\ written[f] \in Nat /\ saved'[f].offset = 0
          BY <3>2 DEF TypeInv, TypeOK, Start
        <5>2. BehindPos(f, saved[f])' = base[f] + (IF saved'[f].offset <= written[f] THEN saved'[f].offset \div 2 ELSE 0)
          BY <2>1 DEF BehindPos
        <5> QED
          BY <5>1, <5>2
      <4>2. BehindPos(f, saved[f]) \in Nat /\ BehindPos(f, saved[f]) >= base[f]
        <5>1. base[f] \in Nat /\ saved[f].offset \in Nat
          BY DEF TypeInv, TypeOK, Position
        <5>2. saved[f].offset \div 2 \in Nat
          BY <5>1
        <5> QED
          BY <5>1, <5>2 DEF BehindPos
      <4>3. base[f] \in Nat
        BY DEF TypeInv, TypeOK
      <4> QED
        BY <2>2, <4>1, <4>2, <4>3
    <3> QED
      BY <2>1, <3>1, <3>2
  <2> QED
    BY <1>1, <1>2, <2>1, <2>2 DEF SkipOf
<1>6. CASE LateBatch
  <2>1. PICK batch \in late : Handled(batch)
    BY <1>6 DEF LateBatch
  <2>2. UNCHANGED <<written, base, saved, pass>>
    BY <1>6 DEF LateBatch
  <2>3. \A f, i : (\E r \in store : IsOut(r, f, i)) => \E r \in store' : IsOut(r, f, i)
    BY <2>1, LateWell, OutsKept
  <2>4. \A f \in Files : /\ BehindPos(f, saved[f])' = BehindPos(f, saved[f])
                         /\ BehindPos(f, pass.state[f])' = BehindPos(f, pass.state[f])
    BY <2>2 DEF BehindPos
  <2> QED
    BY <1>1, <1>2, <2>2, <2>3, <2>4 DEF SkipOf
<1>7. CASE UNCHANGED vars
  BY <1>7 DEF vars, SkipInv, BehindPos, OutLine
<1> QED
  BY <1>3, <1>4, <1>5, <1>6, <1>7, SkipWritten, SkipRead, SkipSent DEF Next, Reader

---------------------------------------------------------------------------

\* Beside the types, while no line was found half written: the positions, the
\* pass, the uids, the alerts, what is behind.
UnsplitInv == PosInv /\ PassInv /\ UidInv /\ AlertInv /\ SkipInv

LEMMA SkippedNothing ==
    ASSUME TypeInv, SkipInv, NEW f \in Files, Format[f] = "grg"
    PROVE  NothingSkipped(f)
<1> SUFFICES ASSUME NEW i \in Behind(f), Script[f][i].kind = "out"
             PROVE  \E r \in store : IsOut(r, f, i)
  BY DEF NothingSkipped, IsOut
<1>1. Behind(f) = 1 .. BehindPos(f, saved[f])
  BY DEF Behind, BehindPos
<1>2. BehindPos(f, saved[f]) \in Nat /\ BehindPos(f, saved[f]) <= Len(Script[f])
  <2> DEFINE o == saved[f].offset
             h == o \div 2
             w == written[f]
  <2>1. /\ base[f] \in Nat /\ w \in Nat /\ o \in Nat /\ 2 * base[f] + w <= 2 * Len(Script[f])
        /\ Len(Script[f]) \in Nat
    BY ScriptTyped DEF TypeInv, TypeOK, Position
  <2>2. h \in Nat /\ 2 * h <= o
    BY <2>1
  <2>3. BehindPos(f, saved[f]) = base[f] + (IF o <= w THEN h ELSE 0)
    BY DEF BehindPos
  <2> HIDE DEF h, o, w
  <2> QED
    BY <2>1, <2>2, <2>3
<1>3. i \in Nat /\ i <= BehindPos(f, saved[f]) /\ i \in 1 .. Len(Script[f])
  BY <1>1, <1>2, ScriptTyped
<1>4. OutLine(f, i)
  <2>1. DOMAIN Script[f] = 1 .. Len(Script[f])
    BY ScriptTyped
  <2> QED
    BY <1>3, <2>1 DEF OutLine
<1> QED
  BY <1>3, <1>4 DEF SkipInv

\* As long as no line was found half written: an out-of-service line of a GRG
\* journal is on the server before the saved position is past it, whatever is
\* lost, late, restarted, torn or replaced (read_and_send); and, unless a commit
\* failed after its alert, no line of any journal is alerted of twice
\* (find_existing_journal_event).
THEOREM OutHandledOnce == Spec => []OutIsHandledOnce
<1> DEFINE Inv == TypeInv /\ (Unsplit => UnsplitInv)
<1>1. Init => Inv
  BY InitType, InitPositions, InitUids, InitAlerts, InitSkip DEF UnsplitInv
<1>2. Inv /\ [Next]_vars => Inv'
  <2> SUFFICES ASSUME Inv, [Next]_vars PROVE Inv'
    OBVIOUS
  <2>1. TypeInv'
    BY TypeStep
  <2>2. ASSUME Unsplit' PROVE UnsplitInv'
    <3>1. PosInv /\ PassInv /\ UidInv /\ AlertInv /\ SkipInv
      BY <2>2, FaultsKept DEF Unsplit, UnsplitInv
    <3>2. PosInv' /\ PassInv' /\ UidInv' /\ AlertInv'
      BY <2>2, <3>1, PosStep, PassStep, UidStep, AlertStep
    <3>3. SkipInv'
      BY <2>2, <3>1, <3>2, SkipStep
    <3> QED
      BY <3>2, <3>3 DEF UnsplitInv
  <2> QED
    BY <2>1, <2>2
<1>3. Inv => OutIsHandledOnce
  <2> SUFFICES ASSUME TypeInv, UnsplitInv
               PROVE  /\ \A f \in Files : Format[f] = "grg" => NothingSkipped(f)
                      /\ "rollback" \notin faults.kinds => AlertedOnce
    BY DEF OutIsHandledOnce, Unsplit
  <2>1. \A f \in Files : Format[f] = "grg" => NothingSkipped(f)
    BY SkippedNothing DEF UnsplitInv
  <2>2. "rollback" \notin faults.kinds => AlertedOnce
    BY DEF UnsplitInv, AlertInv, AlertsFit, Told1, AlertedOnce
  <2> QED
    BY <2>1, <2>2
<1> QED
  BY <1>1, <1>2, <1>3, PTL DEF Spec

---------------------------------------------------------------------------
(* The transactions, when only the positions may be lost.                  *)

\* A file that is read at once, up to a line (Whole gives its events).
LineAt(f, i) == [place |-> i, line |-> Script[f][i]]
FirstLines(f, n) == [k \in 1 .. n |-> LineAt(f, k)]
AtOnce(f, n) == ParseLines(f, Idle, FirstLines(f, n), 1)

LEMMA WholeAtOnce ==
    ASSUME NEW f, NEW n
    PROVE  Whole(f, n) = ToSet(AtOnce(f, n).events)
BY DEF Whole, AtOnce, FirstLines, LineAt

LEMMA FirstLinesTyped ==
    ASSUME NEW f \in Files, NEW n \in 0 .. Len(Script[f])
    PROVE  /\ n \in Nat /\ FirstLines(f, n) \in Seq(Entry) /\ Len(FirstLines(f, n)) = n
           /\ \A k \in 1 .. n : FirstLines(f, n)[k] = LineAt(f, k) /\ LineAt(f, k) \in Entry
<1>1. n \in Nat
  BY ScriptTyped
<1>2. ASSUME NEW k \in 1 .. n PROVE LineAt(f, k) \in Entry
  <2>1. k \in 1 .. Len(Script[f]) /\ k \in Nat
    BY ScriptTyped
  <2>2. Script[f][k] \in JournalLine
    BY <2>1, ScriptTyped
  <2> QED
    BY <2>1, <2>2 DEF LineAt, Entry
<1>3. FirstLines(f, n) \in [1 .. n -> Entry]
  BY <1>2 DEF FirstLines
<1>4. \A k \in 1 .. n : FirstLines(f, n)[k] = LineAt(f, k)
  BY DEF FirstLines
<1> QED
  BY <1>1, <1>2, <1>3, <1>4

\* Two ways through the same lines end alike.
Follows(f, n, c, h) == \A k \in 1 .. n : h[1 .. k] = ParseOne(f, h[1 .. k - 1], c[k])

LEMMA FoldsAgree ==
    ASSUME NEW f, NEW n \in Nat, NEW c, NEW g, NEW h, g[{}] = h[{}],
           Follows(f, n, c, g), Follows(f, n, c, h)
    PROVE  g[1 .. n] = h[1 .. n]
<1> DEFINE Good == {k \in 0 .. n : g[1 .. k] = h[1 .. k]}
<1>1. 0 \in Good
  <2>1. 1 .. 0 = {}
    OBVIOUS
  <2> QED
    BY <2>1
<1>2. ASSUME NEW k \in 1 .. n, k - 1 \in Good PROVE k \in Good
  <2>1. k \in 0 .. n /\ g[1 .. k - 1] = h[1 .. k - 1]
    BY <1>2
  <2> QED
    BY <2>1 DEF Follows
<1>3. \A k \in 0 .. n : k \in Good
  <2> HIDE DEF Good
  <2> QED
    BY <1>1, <1>2, UpTo
<1>4. n \in Good
  BY <1>3
<1> QED
  BY <1>4

\* One line more is read.
LEMMA AtOnceNext ==
    ASSUME NEW f \in Files
    PROVE  /\ AtOnce(f, 0) = [parser |-> Idle, number |-> 1, events |-> << >>]
           /\ \A n \in 1 .. Len(Script[f]) :
                AtOnce(f, n) = ParseOne(f, AtOnce(f, n - 1), LineAt(f, n))
           /\ \A n \in 0 .. Len(Script[f]) : MadeOf(f, 1, FirstLines(f, n), n, AtOnce(f, n))
<1>0. Idle \in Parser /\ 1 \in Nat
  BY DEF Idle, Parser
<1> DEFINE Path(n, h) ==
        /\ AtOnce(f, n) = h[1 .. n]
        /\ h[{}] = [parser |-> Idle, number |-> 1, events |-> << >>]
        /\ \A k \in 1 .. n : h[1 .. k] = ParseOne(f, h[1 .. k - 1], LineAt(f, k))
<1>1. ASSUME NEW n \in 0 .. Len(Script[f])
      PROVE  /\ \E h : Path(n, h)
             /\ MadeOf(f, 1, FirstLines(f, n), n, AtOnce(f, n))
  <2>1. /\ n \in Nat /\ FirstLines(f, n) \in Seq(Entry) /\ Len(FirstLines(f, n)) = n
        /\ \A k \in 1 .. n : FirstLines(f, n)[k] = LineAt(f, k)
    BY FirstLinesTyped
  <2> DEFINE c == FirstLines(f, n)
  <2>2. c \in Seq(Entry) /\ Len(c) = n /\ AtOnce(f, n) = ParseLines(f, Idle, c, 1)
        /\ \A k \in 1 .. n : c[k] = LineAt(f, k)
    BY <2>1 DEF AtOnce
  <2> HIDE DEF c
  <2>3. PICK h : /\ ParseLines(f, Idle, c, 1) = h[1 .. Len(c)]
                 /\ h[{}] = [parser |-> Idle, number |-> 1, events |-> << >>]
                 /\ \A k \in 1 .. Len(c) : h[1 .. k] = ParseOne(f, h[1 .. k - 1], c[k])
    BY <1>0, <2>2, ParseFold
  <2>4. Path(n, h)
    BY <2>2, <2>3
  <2>5. MadeOf(f, 1, c, n, AtOnce(f, n))
    BY <1>0, <2>2, ParsedWell
  <2> QED
    BY <2>4, <2>5 DEF c
<1>2. Len(Script[f]) \in Nat
  BY ScriptTyped
<1>3. AtOnce(f, 0) = [parser |-> Idle, number |-> 1, events |-> << >>]
  <2>1. PICK h : Path(0, h)
    BY <1>1, <1>2
  <2>2. 1 .. 0 = {}
    OBVIOUS
  <2> QED
    BY <2>1, <2>2
<1>4. ASSUME NEW n \in 1 .. Len(Script[f])
      PROVE  AtOnce(f, n) = ParseOne(f, AtOnce(f, n - 1), LineAt(f, n))
  <2>1. n \in 0 .. Len(Script[f]) /\ n - 1 \in 0 .. Len(Script[f]) /\ n - 1 \in Nat /\ n \in 1 .. n
        /\ \A k \in 1 .. n - 1 : k \in 1 .. n
    BY <1>2
  <2>2. PICK h : Path(n, h)
    BY <1>1, <2>1
  <2>3. PICK g : Path(n - 1, g)
    BY <1>1, <2>1
  <2> DEFINE c == [k \in 1 .. n |-> LineAt(f, k)]
             m == n - 1
  <2>4. /\ m \in Nat /\ g[{}] = h[{}] /\ g[1 .. m] = AtOnce(f, n - 1)
        /\ Follows(f, m, c, g) /\ Follows(f, m, c, h)
    BY <2>1, <2>2, <2>3 DEF Follows
  <2> HIDE DEF c, m
  <2>5. g[1 .. m] = h[1 .. m]
    BY <2>4, FoldsAgree
  <2>6. h[1 .. n] = ParseOne(f, h[1 .. n - 1], LineAt(f, n)) /\ AtOnce(f, n) = h[1 .. n]
    BY <2>1, <2>2
  <2> QED
    BY <2>4, <2>5, <2>6 DEF m
<1> QED
  BY <1>1, <1>3, <1>4

LEMMA EventsTogether ==
    ASSUME NEW S, NEW s \in Seq(S), NEW t \in Seq(S)
    PROVE  ToSet(s \o t) = ToSet(s) \cup ToSet(t)
<1> DEFINE u == s \o t
<1>1. u = s \o t
  OBVIOUS
<1> HIDE DEF u
<1>2. /\ DOMAIN u \in SUBSET Nat /\ Len(s) \in Nat
      /\ \A i \in DOMAIN u : i <= Len(s) => i \in DOMAIN s /\ u[i] = s[i]
      /\ \A i \in DOMAIN u : i > Len(s) => i - Len(s) \in DOMAIN t /\ u[i] = t[i - Len(s)]
      /\ \A i \in DOMAIN s : i \in DOMAIN u /\ u[i] = s[i]
      /\ \A i \in DOMAIN t : Len(s) + i \in DOMAIN u /\ u[Len(s) + i] = t[i]
  BY <1>1, SeqSides
<1>3. ToSet(u) \subseteq ToSet(s) \cup ToSet(t)
  <2>1. \A i \in DOMAIN u : i <= Len(s) \/ i > Len(s)
    BY <1>2
  <2> QED
    BY <1>2, <2>1 DEF ToSet
<1>4. ToSet(s) \subseteq ToSet(u) /\ ToSet(t) \subseteq ToSet(u)
  BY <1>2 DEF ToSet
<1> QED
  BY <1>1, <1>3, <1>4

\* Reading goes on from a line as it would have gone on at once.
LEMMA ReadOn ==
    ASSUME NEW f \in Files, NEW n \in Nat, NEW chunk \in Seq(Entry),
           n + Len(chunk) <= Len(Script[f]),
           \A k \in DOMAIN chunk : chunk[k] = LineAt(f, n + k)
    PROVE  LET r == ParseLines(f, AtOnce(f, n).parser, chunk, n + 1) IN
           /\ r.parser = AtOnce(f, n + Len(chunk)).parser
           /\ Whole(f, n + Len(chunk)) = Whole(f, n) \cup ToSet(r.events)
<1> DEFINE m == Len(chunk)
           p == AtOnce(f, n).parser
           r == ParseLines(f, p, chunk, n + 1)
<1>1. m \in Nat /\ DOMAIN chunk = 1 .. m /\ Len(Script[f]) \in Nat /\ n \in 0 .. Len(Script[f])
      /\ \A k \in 0 .. m : n + k \in 0 .. Len(Script[f]) /\ k \in Nat
  BY ScriptTyped
<1>2. \A k \in 0 .. m : AtOnce(f, n + k) \in Progress /\ AtOnce(f, n + k).number = 1 + (n + k)
  BY <1>1, AtOnceNext DEF MadeOf
<1>3. AtOnce(f, n) \in Progress /\ p \in Parser
  <2>1. 0 \in 0 .. m /\ n + 0 = n
    BY <1>1
  <2> QED
    BY <1>2, <2>1 DEF Progress
<1> HIDE DEF p
<1>4. PICK h : /\ r = h[1 .. m]
               /\ h[{}] = [parser |-> p, number |-> n + 1, events |-> << >>]
               /\ \A k \in 1 .. m : h[1 .. k] = ParseOne(f, h[1 .. k - 1], chunk[k])
  <2>1. n + 1 \in Nat
    OBVIOUS
  <2> QED
    BY <1>3, <2>1, ParseFold, Zenon
<1> DEFINE Same(k, a, b) ==
              /\ a \in Progress /\ a.number = n + k + 1 /\ a.parser = b.parser
              /\ ToSet(b.events) = Whole(f, n) \cup ToSet(a.events)
           Good == {k \in 0 .. m : Same(k, h[1 .. k], AtOnce(f, n + k))}
<1> HIDE DEF m, r
<1>5. 0 \in Good
  <2>1. 1 .. 0 = {} /\ n + 0 = n /\ 0 \in 0 .. m
    BY <1>1
  <2> DEFINE b == [parser |-> p, number |-> n + 1, events |-> << >>]
  <2>2. b \in Progress /\ b.number = n + 0 + 1 /\ b.parser = AtOnce(f, n).parser
    BY <1>3 DEF Progress, p
  <2>3. ToSet(AtOnce(f, n).events) = Whole(f, n) \cup ToSet(b.events)
    BY WholeAtOnce DEF ToSet
  <2> QED
    BY <1>4, <2>1, <2>2, <2>3
<1>6. ASSUME NEW k \in 1 .. m, k - 1 \in Good PROVE k \in Good
  <2> DEFINE a == h[1 .. k - 1]
             b == AtOnce(f, n + (k - 1))
             c == chunk[k]
             new == Numbered1(f, a.number, c.place, Parse(f, a.parser, c.line).events)
             also == Numbered1(f, b.number, c.place, Parse(f, b.parser, c.line).events)
  <2>1. k \in 0 .. m /\ k - 1 \in 0 .. m /\ n + k - 1 = n + (k - 1) /\ n + k \in 1 .. Len(Script[f])
        /\ n + (k - 1) + 1 = n + k /\ c \in Entry
    <3>1. k \in DOMAIN chunk
      BY <1>1
    <3> QED
      BY <1>1, <3>1, SeqParts
  <2>2. Same(k - 1, a, b)
    BY <1>6
  <2>3. b \in Progress /\ b.number = 1 + (n + (k - 1))
    BY <1>2, <2>1
  <2>4. a.number = b.number /\ a.parser = b.parser
    BY <1>1, <2>1, <2>2, <2>3
  <2>5. h[1 .. k] = ParseOne(f, a, c)
    BY <1>4
  <2>6. AtOnce(f, n + k) = ParseOne(f, b, c)
    <3>1. AtOnce(f, n + k) = ParseOne(f, AtOnce(f, n + k - 1), LineAt(f, n + k))
      BY <2>1, AtOnceNext
    <3>2. c = LineAt(f, n + k)
      BY <1>1
    <3> QED
      BY <2>1, <3>1, <3>2
  <2>7. /\ ParseOne(f, a, c) \in Progress /\ ParseOne(f, a, c).number = a.number + 1
        /\ ParseOne(f, a, c).events = a.events \o new /\ new \in Seq(Stored)
        /\ ParseOne(f, a, c).parser = Parse(f, a.parser, c.line).parser
    <3>1. a \in Progress
      BY <2>2
    <3> HIDE DEF a, c
    <3> QED
      BY <2>1, <3>1, OneMore DEF ParseOne
  <2>8. /\ ParseOne(f, b, c).events = b.events \o also
        /\ ParseOne(f, b, c).parser = Parse(f, b.parser, c.line).parser
    <3> HIDE DEF b, c
    <3> QED
      BY <2>1, <2>3, OneMore DEF ParseOne
  <2>9. also = new
    BY <2>4
  <2> HIDE DEF a, b, c, new, also
  <2>10. /\ ToSet(ParseOne(f, a, c).events) = ToSet(a.events) \cup ToSet(new)
         /\ ToSet(ParseOne(f, b, c).events) = ToSet(b.events) \cup ToSet(new)
    BY <2>2, <2>3, <2>7, <2>8, <2>9, EventsTogether DEF Progress
  <2>11. a.number + 1 = n + k + 1
    BY <1>1, <2>1, <2>2
  <2> QED
    BY <2>1, <2>2, <2>4, <2>5, <2>6, <2>7, <2>8, <2>10, <2>11
<1>7. \A k \in 0 .. m : k \in Good
  <2> HIDE DEF Good
  <2> QED
    BY <1>1, <1>5, <1>6, UpTo
<1>8. Same(m, h[1 .. m], AtOnce(f, n + m))
  <2>1. m \in 0 .. m
    BY <1>1
  <2>2. m \in Good
    BY <1>7, <2>1
  <2> HIDE DEF Same
  <2> QED
    BY <2>2
<1>9. r.parser = AtOnce(f, n + m).parser /\ Whole(f, n + m) = Whole(f, n) \cup ToSet(r.events)
  BY <1>4, <1>8, WholeAtOnce
<1> QED
  BY <1>9 DEF m, r, p

\* So a file tells of more the further it is read.
LEMMA WholeGrows ==
    ASSUME NEW f \in Files, NEW m \in 0 .. Len(Script[f]), NEW n \in 0 .. m
    PROVE  Whole(f, n) \subseteq Whole(f, m)
<1> DEFINE c == [k \in 1 .. m - n |-> LineAt(f, n + k)]
<1>1. m \in Nat /\ n \in Nat /\ m - n \in Nat /\ n + (m - n) = m /\ Len(Script[f]) \in Nat
      /\ m <= Len(Script[f]) /\ \A k \in 1 .. m - n : n + k \in 1 .. m
  BY ScriptTyped
<1>2. \A k \in 1 .. m - n : LineAt(f, n + k) \in Entry
  BY <1>1, FirstLinesTyped
<1>3. c \in [1 .. m - n -> Entry]
  BY <1>2
<1>4. c \in Seq(Entry) /\ Len(c) = m - n /\ \A k \in DOMAIN c : c[k] = LineAt(f, n + k)
  BY <1>1, <1>3
<1> HIDE DEF c
<1>5. Whole(f, n + Len(c)) = Whole(f, n) \cup ToSet(ParseLines(f, AtOnce(f, n).parser, c, n + 1).events)
  <2>1. n + Len(c) <= Len(Script[f])
    BY <1>1, <1>4
  <2> QED
    BY <1>1, <1>4, <2>1, ReadOn
<1> QED
  BY <1>1, <1>4, <1>5

\* All that the journals tell; no two events of it have one uid.
All == UNION {Whole(f, Len(Script[f])) : f \in Files}

LEMMA AllUnlike ==
    /\ All \subseteq Stored /\ Unlike(All)
    /\ \A f \in Files : \A e \in All : e.uid[1] = f => e \in Whole(f, Len(Script[f]))
<1>1. ASSUME NEW f \in Files
      PROVE  \A e \in Whole(f, Len(Script[f])) : e \in Stored /\ e.uid[1] = f
  <2> DEFINE n == Len(Script[f])
             a == AtOnce(f, n)
  <2>1. MadeOf(f, 1, FirstLines(f, n), n, a)
    <3>1. n \in 0 .. Len(Script[f])
      BY ScriptTyped
    <3> QED
      BY <3>1, AtOnceNext
  <2>2. Whole(f, n) = {a.events[i] : i \in DOMAIN a.events}
    BY WholeAtOnce DEF ToSet
  <2> HIDE DEF a, n
  <2>3. a.events \in Seq(Stored)
    BY <2>1 DEF MadeOf, Progress
  <2>4. \A i \in DOMAIN a.events : a.events[i] \in Stored
    BY <2>3, SeqParts
  <2>5. \A i \in DOMAIN a.events : a.events[i].uid[1] = f
    <3>1. \A i \in DOMAIN a.events : \E k \in 1 .. n :
            a.events[i].uid = <<f, 1 + k - 1, FirstLines(f, n)[k].place, a.events[i].type>>
      BY <2>1 DEF MadeOf
    <3> QED
      BY <3>1
  <2> QED
    BY <2>2, <2>4, <2>5 DEF n
<1>2. ASSUME NEW f \in Files
      PROVE  Unlike(Whole(f, Len(Script[f])))
  <2> DEFINE n == Len(Script[f])
             a == AtOnce(f, n)
  <2>1. Single(a.events)
    <3>1. n \in 0 .. Len(Script[f])
      BY ScriptTyped
    <3> QED
      BY <3>1, AtOnceNext DEF MadeOf
  <2>2. Whole(f, n) = {a.events[i] : i \in DOMAIN a.events}
    BY WholeAtOnce DEF ToSet
  <2> HIDE DEF a, n
  <2> QED
    BY <2>1, <2>2 DEF Single, Unlike, n
<1> QED
  BY <1>1, <1>2 DEF All, Unlike

\* Every transaction has an RRN of its own.
OwnRRN ==
    \A d, e \in All : d.type = "end" /\ e.type = "end" /\ d.rrn # 0 /\ d.rrn = e.rrn => d = e

\* Then what is taken becomes a row, as it is; merged, it is with itself.
LEMMA TakeWhole ==
    ASSUME OwnRRN, NEW acc \in Tally, acc.rows \cup acc.added \subseteq All, NEW e \in All
    PROVE  /\ Take(acc, e) \in Tally
           /\ Take(acc, e).rows \cup Take(acc, e).added = acc.rows \cup acc.added \cup {e}
<1> DEFINE existing == Existing(acc.rows, e)
           row == CHOOSE r \in existing : TRUE
<1>0. /\ acc = [rows |-> acc.rows, added |-> acc.added, alerts |-> acc.alerts]
      /\ e \in Stored /\ acc.rows \subseteq All
  BY AllUnlike DEF Tally
<1>1. Take(acc, e) = IF existing # {}
        THEN [acc EXCEPT !.rows = (@ \ {row}) \cup {Merge(row, e)}]
        ELSE IF e.type = "out"
        THEN [rows |-> acc.rows \cup acc.added \cup {e}, added |-> {},
              alerts |-> Append(acc.alerts, <<e.uid[1], e.uid[3]>>)]
        ELSE [acc EXCEPT !.added = @ \cup {e}]
  BY DEF Take
<1>2. \A r \in existing : r \in acc.rows /\ r = e
  <2> SUFFICES ASSUME NEW r \in existing PROVE r \in acc.rows /\ r = e
    OBVIOUS
  <2>1. r \in acc.rows /\ (r.uid = e.uid \/ (r.type = "end" /\ e.type = "end" /\ e.rrn # 0 /\ r.rrn = e.rrn))
    BY DEF Existing
  <2>2. r \in All
    BY <1>0, <2>1
  <2>3. CASE r.uid = e.uid
    BY <2>1, <2>2, <2>3, AllUnlike DEF Unlike
  <2>4. CASE r.type = "end" /\ e.type = "end" /\ e.rrn # 0 /\ r.rrn = e.rrn
    BY <2>1, <2>2, <2>4 DEF OwnRRN
  <2> QED
    BY <2>1, <2>3, <2>4
<1>3. Merge(e, e) = e
  BY <1>0 DEF Merge, Stored
<1>4. Take(acc, e) \in Tally
  BY <1>0, TakeTyped
<1>5. CASE existing # {}
  <2>1. row \in existing
    BY <1>5
  <2> HIDE DEF existing, row
  <2>2. row = e /\ e \in acc.rows
    BY <1>2, <2>1
  <2>3. Take(acc, e) = [acc EXCEPT !.rows = (@ \ {e}) \cup {e}]
    BY <1>1, <1>3, <1>5, <2>2
  <2>4. Take(acc, e).rows = (acc.rows \ {e}) \cup {e} /\ Take(acc, e).added = acc.added
    BY <1>0, <2>3
  <2> QED
    BY <1>4, <2>2, <2>4
<1>6. CASE existing = {}
  <2> HIDE DEF existing, row
  <2>1. CASE e.type = "out"
    <3>1. Take(acc, e).rows = acc.rows \cup acc.added \cup {e} /\ Take(acc, e).added = {}
      BY <1>1, <1>6, <2>1
    <3> QED
      BY <1>4, <3>1
  <2>2. CASE e.type # "out"
    <3>1. Take(acc, e) = [acc EXCEPT !.added = @ \cup {e}]
      BY <1>1, <1>6, <2>2
    <3>2. Take(acc, e).rows = acc.rows /\ Take(acc, e).added = acc.added \cup {e}
      BY <1>0, <3>1
    <3> QED
      BY <1>4, <3>2
  <2> QED
    BY <2>1, <2>2
<1> QED
  BY <1>5, <1>6

\* So a batch adds its events to the table, as they are.
LEMMA HandledWhole ==
    ASSUME OwnRRN, store \subseteq All, alerts \in Seq(Alert),
           NEW batch \in Seq(Stored), ToSet(batch) \subseteq All, Handled(batch)
    PROVE  store' = store \cup ToSet(batch)
<1>1. store \subseteq Stored
  BY AllUnlike
<1>2. PICK h : /\ Taken(batch) = h[1 .. Len(batch)]
               /\ h[{}] = [rows |-> store, added |-> {}, alerts |-> alerts]
               /\ \A k \in 1 .. Len(batch) : h[1 .. k] = Take(h[1 .. k - 1], batch[k])
  BY <1>1, TakenFold
<1> DEFINE First(k) == {batch[j] : j \in 1 .. k}
           Whole1(k, acc) == acc \in Tally /\ acc.rows \cup acc.added = store \cup First(k)
           Good == {k \in 0 .. Len(batch) : Whole1(k, h[1 .. k])}
<1>3. /\ Len(batch) \in Nat /\ DOMAIN batch = 1 .. Len(batch)
      /\ \A k \in 1 .. Len(batch) : batch[k] \in All
  <2>1. DOMAIN batch = 1 .. Len(batch) /\ Len(batch) \in Nat
    BY SeqParts
  <2> QED
    BY <2>1 DEF ToSet
<1>4. 0 \in Good
  <2> DEFINE b == [rows |-> store, added |-> {}, alerts |-> alerts]
  <2>1. 1 .. 0 = {} /\ 0 \in 0 .. Len(batch)
    BY <1>3
  <2>2. b \in Tally /\ b.rows \cup b.added = store
    BY <1>1 DEF Tally
  <2> QED
    BY <1>2, <2>1, <2>2
<1>5. ASSUME NEW k \in 1 .. Len(batch), k - 1 \in Good PROVE k \in Good
  <2> DEFINE acc == h[1 .. k - 1]
             new == Take(acc, batch[k])
  <2>1. k \in 0 .. Len(batch) /\ \A j : j \in 1 .. k <=> j \in 1 .. k - 1 \/ j = k
    BY <1>3
  <2>2. \A j \in 1 .. k - 1 : j \in 1 .. Len(batch)
    BY <1>3
  <2>3. First(k) = First(k - 1) \cup {batch[k]}
    BY <2>1
  <2>4. acc \in Tally /\ acc.rows \cup acc.added = store \cup First(k - 1)
    BY <1>5
  <2>5. First(k - 1) \subseteq All /\ batch[k] \in All
    BY <1>3, <2>2
  <2> HIDE DEF acc, First
  <2>6. acc.rows \cup acc.added \subseteq All
    BY <2>4, <2>5
  <2>7. new \in Tally /\ new.rows \cup new.added = acc.rows \cup acc.added \cup {batch[k]}
    BY <2>4, <2>5, <2>6, TakeWhole
  <2>8. h[1 .. k] = new
    BY <1>2 DEF acc
  <2> HIDE DEF new
  <2> QED
    BY <2>1, <2>3, <2>4, <2>7, <2>8
<1>6. \A k \in 0 .. Len(batch) : k \in Good
  <2> HIDE DEF Good
  <2> QED
    BY <1>3, <1>4, <1>5, UpTo
<1>7. Whole1(Len(batch), Taken(batch))
  <2>1. Len(batch) \in Good
    BY <1>3, <1>6
  <2> HIDE DEF Whole1
  <2> QED
    BY <1>2, <2>1
<1>8. First(Len(batch)) = ToSet(batch)
  BY <1>3 DEF ToSet
<1> QED
  BY <1>7, <1>8 DEF Handled

\* So far nothing but the positions was lost.
OnlyTorn == faults.kinds \subseteq {"torn"}

\* The lines before a position were read to the end of the file at most, and
\* what they tell is among the rows.
Came(pos, f, rows) == pos.offset <= written[f] /\ Whole(f, pos.line - 1) \subseteq rows

\* Where the reader is in a file.
Now(f) == IF pass = Nothing THEN saved[f] ELSE pass.state[f]

\* The table has what the lines before the saved positions tell, the table and
\* the batch what those before the reader tell, and nothing else; and a parser
\* is as it would be if it had read the file at once.
WholeInv ==
    /\ late = {} /\ \A f \in Files : base[f] = 0
    /\ store \subseteq All
    /\ \A f \in Files : Came(saved[f], f, store)
    /\ pass # Nothing => /\ ToSet(pass.batch) \subseteq All
                         /\ \A f \in Files : Came(pass.state[f], f, store \cup ToSet(pass.batch))
    /\ \A f \in Files : parser[f] = AtOnce(f, Now(f).line - 1).parser

LEMMA FromStart ==
    ASSUME NEW f \in Files
    PROVE  /\ Whole(f, Start.line - 1) = {} /\ Start.offset = 0
           /\ AtOnce(f, Start.line - 1).parser = Idle
<1>1. Start.line - 1 = 0 /\ Start.offset = 0
  BY DEF Start
<1>2. AtOnce(f, 0) = [parser |-> Idle, number |-> 1, events |-> << >>]
  BY AtOnceNext
<1>3. Whole(f, 0) = {}
  BY <1>2, WholeAtOnce DEF ToSet
<1> QED
  BY <1>1, <1>2, <1>3

LEMMA InitWhole == Init => WholeInv
<1> SUFFICES ASSUME Init PROVE WholeInv
  OBVIOUS
<1>1. /\ late = {} /\ store = {} /\ pass = Nothing
      /\ \A f \in Files : base[f] = 0 /\ written[f] = 0 /\ saved[f] = Start /\ parser[f] = Idle
  BY DEF Init
<1>2. \A f \in Files : Came(Start, f, {}) /\ Now(f) = Start
  BY <1>1, FromStart DEF Came, Now
<1> HIDE DEF Nothing
<1> QED
  BY <1>1, <1>2, FromStart DEF WholeInv

\* What may happen then.
LEMMA TornSteps ==
    ASSUME TypeInv, PosInv, WholeInv, OnlyTorn', [Next]_vars
    PROVE  \/ \E f \in Files : Write(f)
           \/ BeginPass
           \/ \E f \in Files : ReadFile(f)
           \/ /\ pass # Nothing /\ Handled(FirstBatch) /\ UNCHANGED <<written, base, saved, parser, late>>
              /\ pass' # Nothing /\ pass'.state = pass.state /\ pass'.batch = Rest
           \/ Save
           \/ /\ pass' = Nothing /\ UNCHANGED <<written, base, store, late>>
              /\ saved' = [f \in Files |-> Start] /\ parser' = [f \in Files |-> Idle]
           \/ UNCHANGED vars
<1>1. \A kind \in AllFaults \ {"torn"} : ~Fault(kind)
  BY DEF Fault, OnlyTorn
<1>2. /\ ~Fault("split") /\ ~Fault("rotate") /\ ~Fault("lost") /\ ~Fault("late") /\ ~Fault("rollback")
      /\ ~Fault("restart")
  BY <1>1 DEF AllFaults
<1>3. ASSUME NEW f \in Files PROVE ~WriteHalf(f) /\ ~Rotate(f)
  <2>1. written[f] % 2 # 1
    BY DEF PosInv
  <2> QED
    BY <1>2, <2>1 DEF WriteHalf, Rotate
<1>4. ~LateBatch
  BY DEF LateBatch, WholeInv
<1>5. CASE Send
  <2>1. pass # Nothing /\ UNCHANGED <<written, base, saved, parser>> /\ pass \in Reading
    BY <1>5 DEF Send, TypeInv, TypeOK, Reading
  <2>2. /\ Handled(FirstBatch) /\ UNCHANGED <<late, faults>>
        /\ pass' = [pass EXCEPT !.batch = SubSeq(@, Len(FirstBatch) + 1, Len(@))]
    BY <1>2, <1>5 DEF Send
  <2>3. pass' = [pass EXCEPT !.batch = Rest]
    BY <2>2 DEF Rest
  <2>4. pass'.state = pass.state /\ pass'.batch = Rest
    BY <2>1, <2>3 DEF Reading
  <2>5. pass' # Nothing
    <3>1. "state" \in DOMAIN pass /\ DOMAIN pass' = DOMAIN pass
      BY <2>1, <2>3 DEF Reading
    <3>2. DOMAIN Nothing = {}
      BY DEF Nothing
    <3> HIDE DEF Nothing
    <3> QED
      BY <3>1, <3>2
  <2> QED
    BY <2>1, <2>2, <2>4, <2>5
<1>6. CASE Restart
  BY <1>2, <1>6 DEF Restart
<1> QED
  BY <1>3, <1>4, <1>5, <1>6 DEF Next, Reader

\* The table that a step leaves as it is.
LEMMA WholeWritten ==
    ASSUME TypeInv, WholeInv, NEW f \in Files, Write(f)
    PROVE  WholeInv'
<1>1. /\ UNCHANGED <<base, saved, parser, pass, store, late>>
      /\ written' = [written EXCEPT ![f] = @ + 2]
  BY DEF Write
<1>2. \A g \in Files : written[g] \in Nat /\ written'[g] \in Nat /\ written[g] <= written'[g]
  BY <1>1 DEF TypeInv, TypeOK
<1>3. \A g \in Files : saved[g].offset \in Nat /\ (pass # Nothing => pass.state[g].offset \in Nat)
  BY DEF TypeInv, TypeOK, Position
<1>4. \A g \in Files : Now(g)' = Now(g)
  BY <1>1 DEF Now
<1> HIDE DEF Nothing
<1>5. ASSUME NEW g \in Files
      PROVE  /\ Came(saved[g], g, store)'
             /\ pass' # Nothing => Came(pass.state[g], g, store \cup ToSet(pass.batch))'
  BY <1>1, <1>2, <1>3 DEF WholeInv, Came
<1> QED
  BY <1>1, <1>4, <1>5 DEF WholeInv

LEMMA WholeSent ==
    ASSUME TypeInv, WholeInv, OwnRRN, pass # Nothing, Handled(FirstBatch),
           UNCHANGED <<written, base, saved, parser, late>>,
           pass' # Nothing, pass'.state = pass.state, pass'.batch = Rest
    PROVE  WholeInv'
<1>1. FirstBatch \in Seq(Stored) /\ Rest \in Seq(Stored) /\ alerts \in Seq(Alert)
  BY BatchDivided DEF TypeInv, TypeOK, Alert
<1>2. ToSet(FirstBatch) \cup ToSet(Rest) = ToSet(pass.batch)
  <2>1. /\ \A k \in DOMAIN FirstBatch : k \in DOMAIN pass.batch /\ FirstBatch[k] = pass.batch[k]
        /\ \A k \in DOMAIN Rest : \E j \in DOMAIN pass.batch : Rest[k] = pass.batch[j]
        /\ \A j \in DOMAIN pass.batch :
                (\E k \in DOMAIN FirstBatch : FirstBatch[k] = pass.batch[j])
                \/ (\E k \in DOMAIN Rest : Rest[k] = pass.batch[j])
    BY BatchDivided
  <2> HIDE DEF Rest
  <2>2. ToSet(FirstBatch) \subseteq ToSet(pass.batch) /\ ToSet(Rest) \subseteq ToSet(pass.batch)
    BY <2>1 DEF ToSet
  <2>3. ToSet(pass.batch) \subseteq ToSet(FirstBatch) \cup ToSet(Rest)
    BY <2>1 DEF ToSet
  <2> QED
    BY <2>2, <2>3
<1>3. store' = store \cup ToSet(FirstBatch)
  BY <1>1, <1>2, HandledWhole DEF WholeInv
<1> HIDE DEF Rest, FirstBatch
<1>4. store' \subseteq All /\ store \subseteq store' /\ ToSet(pass'.batch) \subseteq All
      /\ store' \cup ToSet(pass'.batch) = store \cup ToSet(pass.batch)
  BY <1>2, <1>3 DEF WholeInv
<1>5. ASSUME NEW f \in Files
      PROVE  /\ Came(saved[f], f, store)'
             /\ Came(pass.state[f], f, store \cup ToSet(pass.batch))'
             /\ parser'[f] = AtOnce(f, Now(f)'.line - 1).parser
  <2>1. Came(saved[f], f, store) /\ Came(pass.state[f], f, store \cup ToSet(pass.batch))
        /\ parser[f] = AtOnce(f, Now(f).line - 1).parser
    BY DEF WholeInv
  <2>2. Now(f) = pass.state[f] /\ Now(f)' = pass.state[f]
    BY DEF Now
  <2> QED
    BY <1>4, <2>1, <2>2 DEF Came
<1> QED
  BY <1>4, <1>5 DEF WholeInv

\* A file that is read goes on where it was left.
LEMMA WholeRead ==
    ASSUME TypeInv, PosInv, WholeInv, NEW f \in Files, ReadFile(f)
    PROVE  WholeInv'
<1> DEFINE at == Continue(f)
           c == ChunkOf(f)
           r == ResultOf(f)
           n == at.line - 1
           L == Len(Script[f])
<1>1. /\ pass # Nothing /\ TypeOK
      /\ UNCHANGED <<written, base, saved, store, late>>
      /\ \A g \in Files \ {f} : pass'.state[g] = pass.state[g]
      /\ \/ /\ at.offset = written[f] /\ pass'.state[f] = at /\ pass'.batch = pass.batch
         \/ /\ at.offset # written[f]
            /\ pass'.state[f] = [offset |-> written[f], line |-> r.number]
            /\ pass'.batch = pass.batch \o r.events
  BY ReadEffect DEF TypeInv
<1>2. /\ pass # Nothing /\ pass' # Nothing
      /\ at.offset = written[f] => parser' = parser
      /\ at.offset # written[f] => parser' = [parser EXCEPT ![f] = r.parser]
  <2>1. /\ pass # Nothing /\ pass \in Reading
        /\ at.offset = written[f] => /\ pass' = [pass EXCEPT !.todo = @ \ {f}, !.state[f] = at]
                                     /\ parser' = parser
        /\ at.offset # written[f] =>
                /\ pass' = [todo |-> pass.todo \ {f}, batch |-> pass.batch \o r.events,
                            state |-> [pass.state EXCEPT ![f] = [offset |-> written[f], line |-> r.number]]]
                /\ parser' = [parser EXCEPT ![f] = r.parser]
    BY <1>1 DEF ReadFile, ResultOf, ChunkOf, TypeOK, Reading
  <2> HIDE DEF at, r
  <2>2. "state" \in DOMAIN pass'
    BY <2>1 DEF Reading
  <2>3. DOMAIN Nothing = {}
    BY DEF Nothing
  <2> HIDE DEF Nothing
  <2> QED
    BY <2>1, <2>2, <2>3
<1>3. at = pass.state[f] /\ base[f] = 0
  BY <1>1 DEF Continue, WholeInv, Came, TypeOK, Position
<1>4. /\ at.offset \in Nat /\ at.offset <= written[f] /\ written[f] \in Nat /\ written[f] % 2 = 0
      /\ at.line \in Nat \ {0} /\ c \in Seq(Entry) /\ DOMAIN c = 1 .. Len(c) /\ Len(c) \in Nat
      /\ Len(c) = (written[f] + 1) \div 2 - at.offset \div 2
      /\ \A k \in DOMAIN c : c[k].place = base[f] + at.offset \div 2 + k
      /\ r.events \in Seq(Stored) /\ r.number = at.line + Len(c)
      /\ Aligned(at) /\ at.offset % 2 = 0 /\ FilesOK /\ parser \in [Files -> Parser]
  BY <1>1, ReadWell, ReadPosition DEF PosInv, TypeOK, FilesOK
<1>5. \A k \in DOMAIN c : c[k].line = Script[f][base[f] + at.offset \div 2 + k]
  BY <1>4, ChunkWhole DEF ChunkOf
<1> HIDE DEF at, c, r, n, L
<1>6. /\ n \in Nat /\ at.offset \div 2 = n /\ n + 1 = at.line /\ at.offset = 2 * n
      /\ Len(c) = written[f] \div 2 - n /\ n + Len(c) <= L /\ L \in Nat
  <2>1. at.offset = 2 * n /\ n \in Nat /\ n + 1 = at.line
    BY <1>4 DEF Aligned, n
  <2>2. at.offset = 2 * (at.offset \div 2) /\ at.offset \div 2 \in Nat
    BY <1>4, Halves
  <2>3. (written[f] + 1) \div 2 = written[f] \div 2 /\ written[f] = 2 * (written[f] \div 2)
        /\ written[f] \div 2 \in Nat
    BY <1>4, Halves
  <2>4. 2 * base[f] + written[f] <= 2 * L /\ L \in Nat
    BY <1>4, ScriptTyped DEF FilesOK, L
  <2> DEFINE a == at.offset \div 2
             w == written[f] \div 2
  <2>5. a = n
    <3>1. 2 * a = 2 * n /\ a \in Nat
      BY <2>1, <2>2
    <3> HIDE DEF a
    <3> QED
      BY <2>1, <3>1
  <2>6. w <= L
    <3>1. 2 * w <= 2 * L /\ w \in Nat
      BY <1>3, <2>3, <2>4
    <3> HIDE DEF w
    <3> QED
      BY <2>4, <3>1
  <2>7. Len(c) = w - a
    BY <1>4, <2>3
  <2> HIDE DEF a, w
  <2> QED
    BY <2>1, <2>3, <2>4, <2>5, <2>6, <2>7 DEF a, w
<1>7. \A k \in DOMAIN c : c[k] = LineAt(f, n + k)
  <2> SUFFICES ASSUME NEW k \in DOMAIN c PROVE c[k] = LineAt(f, n + k)
    OBVIOUS
  <2>1. c[k] \in Entry /\ k \in Nat
    BY <1>4, SeqParts
  <2>2. base[f] + at.offset \div 2 + k = n + k
    BY <1>3, <1>6, <2>1
  <2>3. c[k].place = n + k /\ c[k].line = Script[f][n + k]
    BY <1>4, <1>5, <2>2
  <2> QED
    BY <2>1, <2>3 DEF Entry, LineAt
<1>8. ParserAt(f, at) = AtOnce(f, n).parser
  <2>1. CASE at.offset = 0
    <3>1. n = 0
      BY <1>6, <2>1
    <3> QED
      BY <2>1, <3>1, AtOnceNext DEF ParserAt
  <2>2. CASE at.offset # 0
    <3>1. Now(f) = at
      BY <1>1, <1>3 DEF Now
    <3> QED
      BY <2>2, <3>1 DEF ParserAt, WholeInv, n
  <2> QED
    BY <2>1, <2>2
<1>9. r.parser = AtOnce(f, n + Len(c)).parser /\ Whole(f, n + Len(c)) = Whole(f, n) \cup ToSet(r.events)
  <2>1. r = ParseLines(f, AtOnce(f, n).parser, c, n + 1)
    BY <1>6, <1>8 DEF r, ResultOf, c, at
  <2> QED
    BY <1>4, <1>6, <1>7, <2>1, ReadOn DEF L
<1>10. ToSet(r.events) \subseteq All
  <2>1. n + Len(c) \in 0 .. L /\ L \in 0 .. L
    BY <1>4, <1>6
  <2>2. Whole(f, n + Len(c)) \subseteq Whole(f, L)
    BY <2>1, WholeGrows DEF L
  <2> QED
    BY <1>9, <2>2 DEF All, L
<1>11. pass.batch \in Seq(Stored) /\ ToSet(pass.batch) \subseteq All
  BY <1>1 DEF TypeOK, WholeInv
<1>12. /\ ToSet(pass'.batch) \subseteq All /\ ToSet(pass.batch) \subseteq ToSet(pass'.batch)
       /\ pass'.batch = pass.batch \o r.events => ToSet(r.events) \subseteq ToSet(pass'.batch)
  <2>1. ToSet(pass.batch \o r.events) = ToSet(pass.batch) \cup ToSet(r.events)
    BY <1>4, <1>11, EventsTogether
  <2>2. CASE pass'.batch = pass.batch \o r.events
    BY <1>10, <1>11, <2>1, <2>2
  <2>3. CASE pass'.batch = pass.batch /\ pass'.batch # pass.batch \o r.events
    BY <1>11, <2>3
  <2> QED
    BY <1>1, <2>2, <2>3
<1> DEFINE rows == store \cup ToSet(pass.batch)
<1>13. /\ Came(pass.state[f], f, rows)'
       /\ parser'[f] = AtOnce(f, pass'.state[f].line - 1).parser
  <2>1. CASE at.offset = written[f] /\ pass'.state[f] = at
    <3>1. Whole(f, at.line - 1) \subseteq store \cup ToSet(pass.batch) /\ Now(f) = at
      BY <1>1, <1>3 DEF WholeInv, Came, Now
    <3>2. parser[f] = AtOnce(f, at.line - 1).parser
      BY <3>1 DEF WholeInv
    <3> QED
      BY <1>1, <1>2, <1>4, <1>12, <2>1, <3>1, <3>2 DEF Came
  <2>2. CASE /\ at.offset # written[f] /\ pass'.batch = pass.batch \o r.events
             /\ pass'.state[f] = [offset |-> written[f], line |-> r.number]
    <3>1. pass'.state[f].line - 1 = n + Len(c) /\ pass'.state[f].offset = written'[f]
      BY <1>1, <1>4, <1>6, <2>2
    <3>2. Whole(f, n) \subseteq store \cup ToSet(pass.batch)
      BY <1>1, <1>3 DEF WholeInv, Came, n
    <3>3. Whole(f, n + Len(c)) \subseteq rows'
      BY <1>1, <1>9, <1>12, <2>2, <3>2
    <3>4. parser'[f] = r.parser
      BY <1>2, <1>4, <2>2
    <3>5. written'[f] <= written'[f]
      BY <1>1, <1>4
    <3> HIDE DEF rows
    <3> QED
      BY <1>9, <3>1, <3>3, <3>4, <3>5 DEF Came
  <2> QED
    BY <1>1, <2>1, <2>2
<1>14. ASSUME NEW g \in Files \ {f}
       PROVE  /\ Came(pass.state[g], g, rows)'
              /\ parser'[g] = AtOnce(g, pass'.state[g].line - 1).parser
  <2>1. /\ Came(pass.state[g], g, store \cup ToSet(pass.batch))
        /\ parser[g] = AtOnce(g, pass.state[g].line - 1).parser
    BY <1>1 DEF WholeInv, Now
  <2>2. parser'[g] = parser[g] /\ pass'.state[g] = pass.state[g]
    BY <1>1, <1>2, <1>4
  <2> QED
    BY <1>1, <1>12, <2>1, <2>2 DEF Came
<1>15. \A g \in Files : Came(saved[g], g, store)'
  BY <1>1 DEF WholeInv, Came
<1>16. \A g \in Files : Now(g)' = pass'.state[g]
  BY <1>2 DEF Now
<1> QED
  BY <1>1, <1>2, <1>12, <1>13, <1>14, <1>15, <1>16 DEF WholeInv

LEMMA WholeStep ==
    ASSUME TypeInv, PosInv, WholeInv, OnlyTorn', OwnRRN, [Next]_vars
    PROVE  WholeInv'
<1>1. CASE BeginPass
  <2>1. /\ UNCHANGED <<written, base, saved, parser, store, late>> /\ pass = Nothing
        /\ pass' = [todo |-> Files, batch |-> << >>, state |-> saved]
    BY <1>1 DEF BeginPass
  <2>2. pass' # Nothing
    <3>1. "state" \in DOMAIN pass'
      BY <2>1
    <3>2. DOMAIN Nothing = {}
      BY DEF Nothing
    <3> HIDE DEF Nothing
    <3> QED
      BY <3>1, <3>2
  <2>3. pass'.state = saved /\ ToSet(pass'.batch) = {}
    BY <2>1 DEF ToSet
  <2> HIDE DEF Nothing
  <2>4. \A f \in Files : Now(f)' = Now(f)
    BY <2>1, <2>2, <2>3 DEF Now
  <2> QED
    BY <2>1, <2>3, <2>4 DEF WholeInv, Came
<1>2. CASE Save
  <2>1. /\ UNCHANGED <<written, base, parser, store, late>> /\ saved' = pass.state
        /\ pass # Nothing /\ pass' = Nothing /\ pass.batch = << >>
    BY <1>2 DEF Save
  <2>2. ToSet(pass.batch) = {}
    BY <2>1 DEF ToSet
  <2> HIDE DEF Nothing
  <2>3. \A f \in Files : Now(f)' = Now(f)
    BY <2>1 DEF Now
  <2> QED
    BY <2>1, <2>2, <2>3 DEF WholeInv, Came
<1>3. CASE /\ pass' = Nothing /\ UNCHANGED <<written, base, store, late>>
           /\ saved' = [f \in Files |-> Start] /\ parser' = [f \in Files |-> Idle]
  <2> HIDE DEF Nothing
  <2>1. \A f \in Files : saved'[f] = Start /\ parser'[f] = Idle /\ Now(f)' = Start /\ written[f] \in Nat
    BY <1>3 DEF Now, TypeInv, TypeOK
  <2>2. \A f \in Files : Came(saved[f], f, store)'
    BY <1>3, <2>1, FromStart DEF Came
  <2> QED
    BY <1>3, <2>1, <2>2, FromStart DEF WholeInv
<1>4. CASE UNCHANGED vars
  BY <1>4 DEF vars, WholeInv, Came, Now
<1> QED
  BY <1>1, <1>2, <1>3, <1>4, TornSteps, WholeWritten, WholeRead, WholeSent

\* While nothing fails but that the positions are lost, now and then, and every
\* transaction has an RRN of its own: the transactions on the server are those
\* that a journal tells of when it is read at once, in every format and however
\* reading and sending divide it (TransactionContext, read_and_send).
THEOREM TransactionsAreWhole ==
    ASSUME OwnRRN
    PROVE  Spec => []DividedIsWhole
<1> DEFINE Inv == TypeInv /\ (OnlyTorn => PosInv /\ WholeInv)
<1>1. Init => Inv
  BY InitType, InitPositions, InitWhole
<1>2. Inv /\ [Next]_vars => Inv'
  <2> SUFFICES ASSUME Inv, [Next]_vars PROVE Inv'
    OBVIOUS
  <2>1. TypeInv'
    BY TypeStep
  <2>2. ASSUME OnlyTorn' PROVE (PosInv /\ WholeInv)'
    <3>1. PosInv /\ WholeInv
      BY <2>2, FaultsKept DEF OnlyTorn
    <3>2. Unsplit'
      BY <2>2 DEF OnlyTorn, Unsplit
    <3> QED
      BY <2>2, <3>1, <3>2, PosStep, WholeStep
  <2> QED
    BY <2>1, <2>2
<1>3. Inv => DividedIsWhole
  <2> SUFFICES ASSUME TypeInv, PosInv, WholeInv, NEW f \in Files
               PROVE  /\ \A e \in Whole(f, Cardinality(Behind(f))) : e.type = "end" => e \in store
                      /\ \A r \in store : r.uid[1] = f /\ r.type = "end" => r \in Whole(f, Len(Script[f]))
    BY DEF DividedIsWhole, SummariesAreWhole, OnlyTorn
  <2> DEFINE n == saved[f].line - 1
  <2>1. /\ base[f] = 0 /\ saved[f].offset <= written[f] /\ Whole(f, n) \subseteq store
        /\ saved[f].offset = 2 * n /\ n \in Nat
    <3>1. saved[f] \in Position
      BY DEF TypeInv, TypeOK
    <3>2. n \in Nat
      BY <3>1 DEF Position
    <3>3. base[f] = 0 /\ Came(saved[f], f, store) /\ Aligned(saved[f])
      BY DEF WholeInv, PosInv
    <3> QED
      BY <3>2, <3>3 DEF Came, Aligned
  <2> HIDE DEF n
  <2>2. Behind(f) = 1 .. n
    <3>1. (2 * n) \div 2 = n
      BY <2>1
    <3> QED
      BY <2>1, <3>1 DEF Behind
  <2>3. Cardinality(1 .. n) = n
    <3>1. 1 \in Int /\ n \in Int /\ n - 1 + 1 = n
      BY <2>1
    <3> QED
      BY <2>1, <3>1, FS_Interval
  <2>4. \A r \in store : r.uid[1] = f => r \in Whole(f, Len(Script[f]))
    BY AllUnlike DEF WholeInv
  <2> QED
    BY <2>1, <2>2, <2>3, <2>4
<1> QED
  BY <1>1, <1>2, <1>3, PTL DEF Spec

================================================================================
