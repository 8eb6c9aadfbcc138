---------------------------- MODULE MCRemoteConfig ----------------------------
(***************************************************************************)
(* The instances of RemoteConfig that TLC checks; a run takes one of them  *)
(* at its start.  The largest bounds are in the .cfg files.                *)
(***************************************************************************)
EXTENDS RemoteConfig

CONSTANT Instances   \* those of the run

VARIABLE instance

\* One user, whose backup path may lie inside the media path.
Single == INSTANCE RemoteConfig WITH HeartbeatTurns <- 1, MaxOutages <- 0
\* Two users whose edits overlap; cash monitoring is off.
Overlap == INSTANCE RemoteConfig WITH
    HeartbeatTurns <- 1, Backups <- {"outside"}, MaxOutages <- 0
\* The dispenser breaks.
Broken == INSTANCE RemoteConfig WITH
    HeartbeatTurns <- 1, Backups <- {"outside"}, MaxEdits <- 1
\* Heartbeats are as far between as synchronisations.
Hidden == INSTANCE RemoteConfig WITH
    Backups <- {"outside"}, MaxEdits <- 0, MaxFaults <- 0

MCInit ==
    /\ instance \in Instances /\ Init
    /\ instance # "single" => row.config.backup = "outside"
    /\ instance = "overlap" => ~row.config.cash

First == CHOOSE u \in Users : TRUE
OneEdits == \A u \in Users \ {First} : asking'[u] = << >>

CashStaysOff == \A u \in Users : asking'[u] = << >> \/ asking'[u].field # "cash"

\* Where reading on command plays no part.
NoneAsked == ~asked'

MCNext ==
    /\ UNCHANGED instance
    /\ \/ instance = "single" /\ Single!Next /\ OneEdits /\ NoneAsked
       \/ instance = "overlap" /\ Overlap!Next /\ CashStaysOff
       \/ instance = "broken" /\ Broken!Next /\ OneEdits
       \/ instance = "hidden" /\ Hidden!Next /\ OneEdits

Live(overlapping, breaking, hiding) ==
    \/ instance = "overlap" /\ overlapping
    \/ instance = "broken" /\ breaking
    \/ instance = "hidden" /\ hiding

\* The fairness of FairSpec, in the instances with liveness.
MCSpec ==
    /\ MCInit /\ [][MCNext]_<<vars, instance>>
    /\ WF_vars(Live(Overlap!Turn, Broken!Turn, Hidden!Turn))
    /\ WF_vars(Live(Overlap!Age, Broken!Age, Hidden!Age))
    /\ \A u \in Users : WF_vars(Live(Overlap!SaveEdit(u), Broken!SaveEdit(u), Hidden!SaveEdit(u)))

\* Converges (RemoteConfig) although edits overlap.
ConvergesAfterOverlap == instance = "overlap" => Converges

\* BrokenIsShown (RemoteConfig) with more heartbeats than synchronisations.
BrokenComesToLight == instance \in {"broken", "hidden"} => BrokenIsShown
===============================================================================
