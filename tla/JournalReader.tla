----------------------------- MODULE JournalReader -----------------------------
(***************************************************************************)
(* The electronic journal.  The ATM's own software appends lines to its    *)
(* journal files; the agent reads what is new, parses it and sends the     *)
(* events (agent/journal_reader_module.py, agent/journal_reader.py); the   *)
(* server recognises the events it has, merges a transaction that comes    *)
(* from two files and alerts when the ATM goes out of service              *)
(* (submit_journal_events in backend/app/routers/agent.py).                *)
(*                                                                         *)
(* The position in a file is on the agent's disk, the transaction that a   *)
(* parser has begun is in its memory.  Of a line, its kind is kept and the *)
(* RRN that a receipt bears.  Positions count half lines: the reader may   *)
(* find the last line half written.                                        *)
(***************************************************************************)
EXTENDS Naturals, Sequences, FiniteSets, SequencesExt

CONSTANTS
    Files,             \* the journal files
    Script,            \* file -> the lines that the ATM writes to it, in order
    Format,            \* file -> "grg", "ncr" (EJDATA) or "trace" (MergedTrace)
    BatchSize,         \* DEFAULT_BATCH_SIZE
    Faults,            \* what may go wrong
    MaxFaults          \* bound: how often

AllFaults == {"lost", "late", "rollback", "restart", "torn", "split", "rotate"}

\* What a line may tell; of one kind are the lines that no parser knows.
Kinds == {"header", "start", "receipt", "data", "taken", "end", "out", "half"}
JournalLine == [kind : Kinds, rrn : Nat]

ASSUME JournalAssumption ==
    /\ DOMAIN Script = Files /\ DOMAIN Format = Files
    /\ \A f \in Files : /\ Script[f] \in Seq(JournalLine)
                       /\ Format[f] \in {"grg", "ncr", "trace"}
    /\ BatchSize \in Nat \ {0} /\ Faults \subseteq AllFaults /\ MaxFaults \in Nat

VARIABLES
    written,           \* file -> half lines in it
    base,              \* file -> lines of its script that a new file has replaced
    saved,             \* journal-reader-state.json: file -> offset and line number
    parser,            \* the agent: file -> the parser's state
    pass,              \* the agent: the read_and_send in progress
    store,             \* atm_journal_events
    late,              \* batches the agent no longer waits for
    alerts,            \* history: lines of which an alert was sent, in order
    faults             \* history: how many so far, for the bound, and of which kinds

vars == <<written, base, saved, parser, pass, store, late, alerts, faults>>

Nothing == << >>
Start == [offset |-> 0, line |-> 1]
Idle == [open |-> FALSE, rrn |-> 0, money |-> FALSE, receipt |-> FALSE, dated |-> FALSE]
Line(kind) == [kind |-> kind, rrn |-> 0]

Init ==
    /\ written = [f \in Files |-> 0] /\ base = [f \in Files |-> 0]
    /\ saved = [f \in Files |-> Start] /\ parser = [f \in Files |-> Idle]
    /\ pass = Nothing /\ store = {} /\ late = {} /\ alerts = << >>
    /\ faults = [number |-> 0, kinds |-> {}]

Fault(kind) ==
    /\ kind \in Faults /\ faults.number < MaxFaults
    /\ faults' = [number |-> faults.number + 1, kinds |-> faults.kinds \cup {kind}]

---------------------------------------------------------------------------
(* The parsers.  A parser takes a line and gives events; type, and what the *)
(* transaction under way has to say.                                       *)

Event(type, p) == [type |-> type, rrn |-> p.rrn, money |-> p.money]
Gives(p, events) == [parser |-> p, events |-> events]
Opened(p, rrn) == [p EXCEPT !.open = TRUE, !.rrn = rrn, !.money = FALSE, !.receipt = FALSE]
Closed(p) == [p EXCEPT !.open = FALSE, !.rrn = 0, !.money = FALSE, !.receipt = FALSE]
Paid(p) == [p EXCEPT !.money = @ \/ p.open]

\* GrgJournalParser: an end without a beginning is an empty transaction.
Grg(p, l) ==
    CASE l.kind = "start"   -> Gives(Opened(p, 0), <<Event("start", Opened(p, 0))>>)
      [] l.kind = "taken"   -> Gives(Paid(p), <<Event("taken", Paid(p))>>)
      [] l.kind = "receipt" -> Gives([p EXCEPT !.receipt = TRUE], << >>)
      [] l.kind = "data" /\ p.open /\ p.receipt -> Gives([p EXCEPT !.rrn = l.rrn], << >>)
      [] l.kind = "end"     -> Gives(Closed(p), <<Event("end", p)>>)
      [] l.kind = "out"     -> Gives(p, <<Event("out", p)>>)
      [] OTHER              -> Gives(p, << >>)

\* NcrJournalParser: the date comes from a header; a transaction without a
\* receipt has no end, the next beginning ends one that has none.
Finalized(p) == IF p.open /\ p.rrn # 0 THEN <<Event("end", p)>> ELSE << >>
Ncr(p, l) ==
    CASE l.kind = "header" -> Gives([p EXCEPT !.dated = TRUE], << >>)
      [] l.kind = "start" /\ p.dated ->
            Gives(Opened(p, 0), Finalized(p) \o <<Event("start", Opened(p, 0))>>)
      [] l.kind = "taken" /\ p.dated -> Gives(Paid(p), <<Event("taken", Paid(p))>>)
      [] l.kind = "data" /\ p.open   -> Gives([p EXCEPT !.rrn = l.rrn], << >>)
      [] l.kind = "end" /\ p.dated   -> Gives(Closed(p), Finalized(p))
      [] l.kind = "out" /\ p.dated   -> Gives(p, <<Event("out", p)>>)
      [] OTHER                       -> Gives(p, << >>)

\* NcrMergedTraceParser: the receipt comes first, the money ends it.
Trace(p, l) ==
    CASE l.kind = "data" ->
            Gives(Opened(p, l.rrn),
                  (IF p.open /\ p.money THEN <<Event("end", p)>> ELSE << >>)
                    \o <<Event("start", Opened(p, l.rrn))>>)
      [] l.kind = "taken" ->
            Gives(Closed(p), <<Event("taken", Paid(p))>>
                    \o (IF p.open THEN <<Event("end", Paid(p))>> ELSE << >>))
      [] OTHER -> Gives(p, << >>)

Parse(f, p, l) ==
    CASE Format[f] = "grg" -> Grg(p, l) [] Format[f] = "ncr" -> Ncr(p, l) [] OTHER -> Trace(p, l)

\* parse_lines, and event_uid: file, line number, the line itself, type.
\* A chunk is a sequence of lines with their places in the script.
ParseLines(f, p, chunk, number) ==
    FoldLeft(LAMBDA acc, c :
                LET r == Parse(f, acc.parser, c.line) IN
                [parser |-> r.parser, number |-> acc.number + 1,
                 events |-> acc.events \o
                    [k \in DOMAIN r.events |->
                        [uid |-> <<f, acc.number, c.place, r.events[k].type>>, type |-> r.events[k].type,
                         rrn |-> r.events[k].rrn, money |-> r.events[k].money]]],
             [parser |-> p, number |-> number, events |-> << >>], chunk)

\* read_new_text: what stands from an offset to the end of the file.  Of a line
\* in two halves neither is a line the parser knows.
Chunk(f, from, to) ==
    LET first == from \div 2 + 1
        last  == (to + 1) \div 2
        half(i) == from > 2 * i - 2 \/ to < 2 * i
    IN  [k \in 1 .. last - first + 1 |->
            LET i == first + k - 1 IN
            [place |-> base[f] + i,
             line |-> IF half(i) THEN Line("half") ELSE Script[f][base[f] + i]]]

---------------------------------------------------------------------------
(* The ATM's software.                                                     *)

\* A new file is found before it is as long as the old one was read.
MayWrite(f, n) ==
    /\ 2 * base[f] + written[f] + n <= 2 * Len(Script[f])
    /\ saved[f].offset > written[f] => written[f] + n < saved[f].offset

Write(f) ==
    /\ written[f] % 2 = 0 /\ MayWrite(f, 2)
    /\ written' = [written EXCEPT ![f] = @ + 2]
    /\ UNCHANGED <<base, saved, parser, pass, store, late, alerts, faults>>

WriteHalf(f) ==
    /\ IF written[f] % 2 = 1 THEN UNCHANGED faults ELSE MayWrite(f, 2) /\ Fault("split")
    /\ written' = [written EXCEPT ![f] = @ + 1]
    /\ UNCHANGED <<base, saved, parser, pass, store, late, alerts>>

\* The file is replaced by a new one, everything in it having been read.
Rotate(f) ==
    /\ written[f] > 0 /\ saved[f].offset = written[f]
    /\ Fault("rotate")
    /\ base' = [base EXCEPT ![f] = @ + written[f] \div 2]
    /\ written' = [written EXCEPT ![f] = 0]
    /\ UNCHANGED <<saved, parser, pass, store, late, alerts>>

---------------------------------------------------------------------------
(* The agent.  read_and_send goes through the files, sends a batch when it *)
(* has one and what is left at the end, and saves the positions last.      *)

BeginPass ==
    /\ pass = Nothing
    /\ pass' = [todo |-> Files, batch |-> << >>, state |-> saved]
    /\ UNCHANGED <<written, base, saved, parser, store, late, alerts, faults>>

\* A file shorter than the offset is read from its beginning; there the parser
\* is a new one.
ContinueBehind(f) == [pass.state[f] EXCEPT !.offset = IF written[f] < @ THEN written[f] ELSE @]
ContinueAtEnd(f) ==
    IF pass.state[f].offset = 0 THEN [offset |-> written[f], line |-> 1] ELSE pass.state[f]
Continue(f) == IF written[f] < pass.state[f].offset THEN Start ELSE pass.state[f]
ParserOfPass(f, at) == Idle
ParserAt(f, at) == IF at.offset = 0 THEN Idle ELSE parser[f]

ReadFile(f) ==
    /\ pass # Nothing /\ f \in pass.todo /\ Len(pass.batch) < BatchSize
    /\ LET at == Continue(f)
           result == ParseLines(f, ParserAt(f, at), Chunk(f, at.offset, written[f]), at.line)
       IN  IF at.offset = written[f]
           THEN /\ pass' = [pass EXCEPT !.todo = @ \ {f}, !.state[f] = at]
                /\ UNCHANGED parser
           ELSE /\ pass' = [todo |-> pass.todo \ {f}, batch |-> pass.batch \o result.events,
                            state |-> [pass.state EXCEPT ![f] =
                                        [offset |-> written[f], line |-> result.number]]]
                /\ parser' = [parser EXCEPT ![f] = result.parser]
    /\ UNCHANGED <<written, base, saved, store, late, alerts, faults>>

\* The server takes a batch: rows are what its queries see, added what it has
\* not flushed.
Merge(row, e) == [row EXCEPT !.rrn = IF @ = 0 THEN e.rrn ELSE @, !.money = @ \/ e.money]

\* find_existing_journal_event: by its uid; the end of a transaction by its RRN.
Existing(rows, e) ==
    LET same == {r \in rows : r.uid = e.uid} IN
    IF same # {} \/ e.type # "end" \/ e.rrn = 0 THEN same
    ELSE {r \in rows : r.type = "end" /\ r.rrn = e.rrn}

\* An alert flushes what was added before it is sent.
Take(acc, e) ==
    LET existing == Existing(acc.rows, e)
        row == CHOOSE r \in existing : TRUE
    IN  IF existing # {}
        THEN [acc EXCEPT !.rows = (@ \ {row}) \cup {Merge(row, e)}]
        ELSE IF e.type = "out"
        THEN [rows |-> acc.rows \cup acc.added \cup {e}, added |-> {},
              alerts |-> Append(acc.alerts, <<e.uid[1], e.uid[3]>>)]
        ELSE [acc EXCEPT !.added = @ \cup {e}]

Taken(batch) == FoldLeft(Take, [rows |-> store, added |-> {}, alerts |-> alerts], batch)

Handled(batch) ==
    LET end == Taken(batch) IN store' = end.rows \cup end.added /\ alerts' = end.alerts

\* The batch is handled and answered; or it fails, having been handled, to be
\* handled yet, or after alerts and before the commit.
FirstBatch == SubSeq(pass.batch, 1, IF Len(pass.batch) < BatchSize THEN Len(pass.batch) ELSE BatchSize)

Send ==
    /\ pass # Nothing /\ pass.batch # << >>
    /\ pass.todo = {} \/ Len(pass.batch) >= BatchSize
    /\ \/ /\ Handled(FirstBatch)
          /\ pass' = [pass EXCEPT !.batch = SubSeq(@, Len(FirstBatch) + 1, Len(@))]
          /\ UNCHANGED <<late, faults>>
       \/ /\ pass' = Nothing
          /\ \/ Fault("lost") /\ Handled(FirstBatch) /\ UNCHANGED late
             \/ Fault("lost") /\ UNCHANGED <<store, alerts, late>>
             \/ Fault("late") /\ late' = late \cup {FirstBatch} /\ UNCHANGED <<store, alerts>>
             \/ Fault("rollback") /\ alerts' = Taken(FirstBatch).alerts /\ UNCHANGED <<store, late>>
    /\ UNCHANGED <<written, base, saved, parser>>

LateBatch ==
    /\ \E batch \in late : Handled(batch) /\ late' = late \ {batch}
    /\ UNCHANGED <<written, base, saved, parser, pass, faults>>

\* _save_state.
Save ==
    /\ pass # Nothing /\ pass.todo = {} /\ pass.batch = << >>
    /\ saved' = pass.state /\ pass' = Nothing
    /\ UNCHANGED <<written, base, parser, store, late, alerts, faults>>

\* The agent stops, perhaps while it writes the positions: a file that cannot
\* be read is an empty one to _load_state.
Restart ==
    /\ pass' = Nothing /\ parser' = [f \in Files |-> Idle]
    /\ \/ Fault("restart") /\ UNCHANGED saved
       \/ /\ pass # Nothing /\ pass.todo = {} /\ pass.batch = << >>
          /\ Fault("torn") /\ saved' = [f \in Files |-> Start]
    /\ UNCHANGED <<written, base, store, late, alerts>>

---------------------------------------------------------------------------

Reader == BeginPass \/ (\E f \in Files : ReadFile(f)) \/ Send \/ Save
Next ==
    \/ \E f \in Files : Write(f) \/ WriteHalf(f) \/ Rotate(f)
    \/ Reader \/ LateBatch \/ Restart

Spec == Init /\ [][Next]_vars

\* The agent goes on; a line that was begun is finished.
FairSpec ==
    /\ Spec /\ WF_vars(Reader)
    /\ \A f \in Files : WF_vars(written[f] % 2 = 1 /\ WriteHalf(f))

---------------------------------------------------------------------------
(* Properties.                                                             *)

Position == [offset : Nat, line : Nat \ {0}]
Parser == [open : BOOLEAN, rrn : Nat, money : BOOLEAN, receipt : BOOLEAN, dated : BOOLEAN]
Types == {"start", "taken", "end", "out"}
Counted == [number : 0 .. MaxFaults, kinds : SUBSET Faults]
Stored == [uid : Files \X Nat \X Nat \X Types, type : Types, rrn : Nat, money : BOOLEAN]

\* Of the events that are stored no two have one uid.
TypeOK ==
    /\ written \in [Files -> Nat] /\ base \in [Files -> Nat]
    /\ \A f \in Files : 2 * base[f] + written[f] <= 2 * Len(Script[f])
    /\ saved \in [Files -> Position] /\ parser \in [Files -> Parser]
    /\ pass # Nothing => pass \in [todo : SUBSET Files, batch : Seq(Stored), state : [Files -> Position]]
    /\ store \subseteq Stored
    /\ \A r, s \in store : r.uid = s.uid => r = s
    /\ late \subseteq Seq(Stored) /\ alerts \in Seq(Files \X Nat)
    /\ faults \in Counted

\* The lines the saved positions leave behind.
Behind(f) ==
    1 .. base[f] + (IF saved[f].offset <= written[f] THEN saved[f].offset \div 2 ELSE 0)

\* A line that says by itself that the ATM goes out of service is on the
\* server before the reader's saved position is past it (read_and_send).
NothingSkipped(f) ==
    \A i \in Behind(f) :
        Script[f][i].kind = "out" => \E r \in store : r.uid[1] = f /\ r.uid[3] = i /\ r.type = "out"

\* What the parser makes of the lines up to n when it reads them at once.
Whole(f, n) ==
    ToSet(ParseLines(f, Idle, [k \in 1 .. n |-> [place |-> k, line |-> Script[f][k]]], 1).events)

\* The transactions on the server are those that the file tells of when it is
\* read at once, however reading divides it (TransactionContext in
\* agent/journal_reader.py).
SummariesAreWhole ==
    \A f \in Files :
        /\ \A e \in Whole(f, Cardinality(Behind(f))) : e.type = "end" => e \in store
        /\ \A r \in store : r.uid[1] = f /\ r.type = "end" => r \in Whole(f, Len(Script[f]))

\* One line is alerted of at most once (find_existing_journal_event,
\* notify_journal_out_of_service).
AlertedOnce ==
    \A i, j \in DOMAIN alerts : alerts[i] = alerts[j] => i = j

\* While no line was found half written: an out-of-service line of a GRG journal
\* is handled before it is behind, and, unless a commit failed after its alert,
\* no line of any journal is alerted of twice.
OutIsHandledOnce ==
    "split" \notin faults.kinds =>
        /\ \A f \in Files : Format[f] = "grg" => NothingSkipped(f)
        /\ "rollback" \notin faults.kinds => AlertedOnce

\* The transactions are whole as long as nothing fails but that the positions
\* are lost, and everything is read again (_load_state).
DividedIsWhole == faults.kinds \subseteq {"torn"} => SummariesAreWhole

\* A transaction with an RRN is one event on the server, though two files tell
\* of it: the withdrawal report adds its amount once
\* (find_existing_journal_event).
CountedOnce ==
    \A r, s \in store : r.type = "end" /\ s.type = "end" /\ r.rrn # 0 /\ r.rrn = s.rrn => r = s

\* Every out-of-service line that was written is alerted of in the end.
OutIsAlerted ==
    \A f \in Files : \A i \in {j \in DOMAIN Script[f] : Script[f][j].kind = "out"} :
        2 * base[f] + written[f] >= 2 * i ~> \E k \in DOMAIN alerts : alerts[k] = <<f, i>>
=============================================================================
