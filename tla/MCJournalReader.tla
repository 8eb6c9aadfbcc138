---------------------------- MODULE MCJournalReader ----------------------------
(***************************************************************************)
(* The instances of JournalReader that TLC checks; a run takes one of them *)
(* at its start.  An instance is what the ATM writes to its journals, and  *)
(* what may go wrong.                                                      *)
(***************************************************************************)
EXTENDS JournalReader

CONSTANT Instances   \* those of the run

VARIABLE instance

ScriptOf(kinds, rrn) ==
    [i \in DOMAIN kinds |-> [kind |-> kinds[i], rrn |-> IF kinds[i] = "data" THEN rrn ELSE 0]]

AllFiles    == {"ej", "trace", "grg"}
AllScript   == [ej |-> ScriptOf(<<"header", "start", "data", "taken", "end">>, 1),
                trace |-> ScriptOf(<<"data", "taken">>, 2),
                grg |-> ScriptOf(<<"start", "out", "receipt", "data", "taken", "end">>, 3)]
AllFormat   == [ej |-> "ncr", trace |-> "trace", grg |-> "grg"]
NcrScript   == [ej |-> ScriptOf(<<"header", "start", "data", "taken", "end", "start", "out">>, 1)]
NcrFormat   == [ej |-> "ncr"]
BothScript  == [ej |-> ScriptOf(<<"header", "start", "data", "taken", "end">>, 1),
                trace |-> ScriptOf(<<"data", "taken", "data">>, 1)]
BothFormat  == [ej |-> "ncr", trace |-> "trace"]

\* A GRG journal; calls, positions and files are lost.
Faulty == INSTANCE JournalReader WITH Faults <- {"lost", "late", "restart", "torn", "rotate"}
\* All three journals; the positions are lost once.
Divided == INSTANCE JournalReader WITH Faults <- {"torn"}, MaxFaults <- 1
\* Its out-of-service line; a commit may fail after the alert.
Out == INSTANCE JournalReader WITH Faults <- {"lost", "late", "rollback", "restart", "torn"}
\* An NCR batch that fails after its transaction was parsed.
Retry == INSTANCE JournalReader WITH
    Files <- {"ej"}, Script <- NcrScript, Format <- NcrFormat,
    BatchSize <- 200, Faults <- {"lost"}, MaxFaults <- 1
\* A restart behind the header that bears the date.
Undated == INSTANCE JournalReader WITH
    Files <- {"ej"}, Script <- NcrScript, Format <- NcrFormat,
    BatchSize <- 200, Faults <- {"restart"}, MaxFaults <- 1
\* The last line is found half written.
Split == INSTANCE JournalReader WITH
    BatchSize <- 200, Faults <- {"split"}, MaxFaults <- 1
\* Two files tell of one transaction in one batch.
Twice == INSTANCE JournalReader WITH
    Files <- {"ej", "trace"}, Script <- BothScript, Format <- BothFormat,
    BatchSize <- 200, Faults <- {}, MaxFaults <- 0

MCInit ==
    /\ instance \in Instances
    /\ \/ instance \in {"faults", "divided", "out", "split"} /\ Init
       \/ instance = "retry" /\ Retry!Init
       \/ instance = "undated" /\ Undated!Init
       \/ instance = "twice" /\ Twice!Init

\* Of the journals the ATM writes one, so many lines of it; the empty ones are
\* read first.
Lines(f, n) ==
    /\ \A g \in Files : written'[g] <= IF g = f THEN 2 * n ELSE 0
    /\ pass' # Nothing => pass'.todo = {} \/ f \in pass'.todo

MCNext ==
    /\ UNCHANGED instance
    /\ \/ instance = "faults" /\ Faulty!Next /\ Lines("grg", 6)
       \/ instance = "divided" /\ Divided!Next
       \/ instance = "out" /\ Out!Next /\ Lines("grg", 2)
       \/ instance = "split" /\ Split!Next /\ Lines("grg", 2)
       \/ instance = "retry" /\ Retry!Next
       \/ instance = "undated" /\ Undated!Next
       \/ instance = "twice" /\ Twice!Next

\* The fairness of FairSpec, in the instances with liveness.
Finishing(f) == Split!WriteHalf(f) /\ written[f] % 2 = 1

MCSpec ==
    /\ MCInit /\ [][MCNext]_<<vars, instance>>
    /\ WF_vars(\/ instance = "out" /\ Out!Reader
               \/ instance = "split" /\ Split!Reader)
    /\ WF_vars(instance = "split" /\ Finishing("grg"))

\* OutIsAlerted (JournalReader), whatever four faults do.
EveryOutIsAlerted == instance = "out" => Out!OutIsAlerted

\* SummariesAreWhole (JournalReader), when a batch fails and its lines are
\* parsed again.
RetriedIsWhole == instance = "retry" => Retry!SummariesAreWhole

\* NothingSkipped (JournalReader) after a restart.
RestartSkipsNothing == instance = "undated" => Undated!NothingSkipped("ej")

\* OutIsAlerted (JournalReader) of a line that is found half written.
HalvesAreAlerted == instance = "split" => Split!OutIsAlerted

\* CountedOnce (JournalReader), when one batch tells of a transaction twice.
TwiceIsCountedOnce == instance = "twice" => Twice!CountedOnce
================================================================================
