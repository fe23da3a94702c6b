------------------------------ MODULE MCModeling ------------------------------
(* Instances for TLC of the parts of the simulator and its gateway that work on  *)
(* one portfolio, history, corpus, split or window each: they share no state, so *)
(* each initial state runs one of the Parts and leaves the others where they are.*)
EXTENDS Planning, TLC

CONSTANTS
    Parts,
    Interval, Lateness, HorizonDays, MaxAmendments, MaxObservations,
    Watermark, Step, Delay,
    Cutoff, Horizon, Boundaries, MaxRecords, MaxAtCutoff, MaxPolicies,
    Thread, Key, ResolvedAt, Prediction, ScoreWindow, MinimumDrift,
    CalibrationWindow, MinimumCalibration, MaxRequests

VARIABLES
    part,
    history, amendments, watermark, records,
    events, cutoff, nextDue, terminal, observations,
    labelled, boundaries, accepted,
    context, scores, outcomes, recorded, worker, report, requests

lives == <<history, amendments, watermark, records>>
corpus == <<events, cutoff, nextDue, terminal, observations>>
split == <<labelled, boundaries, accepted>>
monitor == <<context, scores, outcomes, recorded, worker, report, requests>>

(* Two actions of the catalogue: the reminder by SMS and the outreach by phone. *)
Actions == {0, 1, 2}
Costs == (0 :> [cost |-> 0, seconds |-> 0]) @@ (1 :> [cost |-> 1, seconds |-> 0])
            @@ (2 :> [cost |-> 2, seconds |-> 1])
Catalogue == (1 :> [channel |-> "sms", coolingOff |-> 30, tenure |-> 30, grace |-> FALSE])
                @@ (2 :> [channel |-> "phone", coolingOff |-> 30, tenure |-> 60, grace |-> TRUE])

Clear ==
    [fact |-> [f \in {"claim", "hold", "dispute", "sms", "phone", "dnc"} |-> "clear"],
     status |-> "active", grace |-> TRUE, tenure |-> 60, sinceContact |-> 30]

(* One thing at a time that the rules look at. *)
Contexts ==
    {Clear, [Clear EXCEPT !.grace = FALSE], [Clear EXCEPT !.grace = FALSE, !.status = "grace_period"],
     [Clear EXCEPT !.tenure = 59, !.sinceContact = 29], [Clear EXCEPT !.status = "lapsed"],
     [Clear EXCEPT !.fact["hold"] = "blocked", !.fact["claim"] = "unknown"]}
        \cup {[Clear EXCEPT !.fact[f] = "unknown"] : f \in {"claim", "sms", "dnc"}}

(* Training ends at 3, validation runs from 4 to 6, the test starts at 8. *)
OneSplit == {<<3, 4, 6, 8>>}

Values == {(1 :> 2) @@ (2 :> 2), (1 :> -1) @@ (2 :> 3)}
Cases == [context : Contexts, value : Values]
Life == INSTANCE PolicyHistory
Corpus == INSTANCE RecurringCorpus
Split == INSTANCE TemporalSplit WITH records <- labelled, Specification <- Boundaries
Monitor == INSTANCE DriftMonitor

ASSUME WindowsAssumption == Monitor!WindowAssumption /\ Monitor!PoolAssumption
ASSUME DataAssumption ==
    Life!HistoryAssumption /\ Corpus!CorpusAssumption /\ Split!SplitAssumption

Symmetry == Permutations(Key)

MCInit ==
    /\ part \in Parts
    /\ Life!Init /\ Corpus!Init /\ Split!Init /\ Monitor!Init /\ Init
    /\ part # "history" => history = CHOOSE h \in Life!Generated : TRUE
    /\ part # "corpus" => events = {Corpus!Event("issued", 0, 0, 0)}
    /\ part # "monitor" => context = "serial"

MCNext ==
    /\ UNCHANGED part
    /\ \/ part = "history" /\ Life!Next /\ UNCHANGED <<corpus, split, monitor, vars>>
       \/ part = "corpus" /\ Corpus!Next /\ UNCHANGED <<lives, split, monitor, vars>>
       \/ part = "split" /\ Split!Next /\ UNCHANGED <<lives, corpus, monitor, vars>>
       \/ part = "monitor" /\ Monitor!Next /\ UNCHANGED <<lives, corpus, split, vars>>
       \/ part = "planning" /\ Next /\ UNCHANGED <<lives, corpus, split, monitor>>

MCSpec == MCInit /\ [][MCNext]_<<part, lives, corpus, split, monitor, vars>>

(* PolicyHistory: the readings of a history agree. *)
ReplayAgrees == part = "history" => Life!ReplayAgrees

(* PolicyHistory: censoring ends. *)
CensoringEnds == part = "history" => Life!CensoringEnds

(* PolicyHistory: a label once observed is never taken back. *)
LabelsSettle == Life!LabelsSettle

(* RecurringCorpus: an observation has the same features when cut again. *)
FeaturesReproduce == part = "corpus" => Corpus!FeaturesReproduce

(* RecurringCorpus: an observation of a policy that ended is not negative. *)
NegativesAreNegative == Corpus!NegativesAreNegative

(* TemporalSplit: an accepted split never learns from the future. *)
NoFutureLearned == part = "split" => Split!NoFutureLearned

(* DriftMonitor: the window of scores is back within its size. *)
WindowHolds == part = "monitor" => Monitor!WindowHolds

(* DriftMonitor: an outcome is joined once to a retained score. *)
JoinedOnce == part = "monitor" => Monitor!JoinedOnce

(* DriftMonitor: the parts of a report agree. *)
ReportAgrees == part = "monitor" => Monitor!ReportAgrees
===============================================================================
