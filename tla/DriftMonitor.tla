---------------------------- MODULE DriftMonitor ----------------------------
(***************************************************************************)
(* The monitor of the serving gateway (src/serving/monitoring): a window   *)
(* of the last scores, the resolved outcomes joined to them, the rolling   *)
(* calibration window, and the diagnostics report drawn from all three.    *)
(* No lock guards any of it. The route handlers are plain functions, which *)
(* FastAPI runs on a pool of threads; calibration.py says the serving      *)
(* context is single-worker. Both contexts are modelled: in "serial" a     *)
(* request begins when no other runs, in "pool" requests interleave        *)
(* wherever the interpreter may switch threads, after each call into a     *)
(* shared container.                                                       *)
(***************************************************************************)
EXTENDS Integers, Sequences, FiniteSets, SequencesExt

CONSTANTS
    Thread,
    Key,                    \* <<policy_id, observation_id>> of one model version
    ResolvedAt,             \* the times an outcome is said to be resolved at
    Prediction,             \* predicted probabilities, in tenths
    ScoreWindow,            \* _score_window_size
    MinimumDrift,           \* _minimum_drift_observations
    CalibrationWindow,      \* _window_size of the calibration tracker
    MinimumCalibration,     \* its _minimum_observations
    MaxRequests             \* bound on the requests of one behaviour

WindowAssumption ==
    /\ MinimumDrift \in 1 .. ScoreWindow
    /\ MinimumCalibration \in 1 .. CalibrationWindow
    /\ ScoreWindow \in Nat /\ CalibrationWindow \in Nat

(* The pool has 40 threads and the window 500 scores. *)
PoolAssumption == IsFiniteSet(Thread) /\ Cardinality(Thread) <= ScoreWindow + 1

VARIABLES
    context,        \* "serial" or "pool"
    scores,         \* _scores, oldest first: key, prediction, and since when it is retained
    outcomes,       \* _outcomes: key -> payload
    recorded,       \* everything CalibrationTracker.record ever took; its buffer is the tail
    worker,         \* what each thread is doing
    report,         \* the last diagnostics report
    requests        \* how many requests began

vars == <<context, scores, outcomes, recorded, worker, report, requests>>

Payload == [outcome : {0, 1}, resolved_at : ResolvedAt]
Idle == [at |-> "idle"]
NoReport == [overall |-> "none"]

Retained(k) == \E i \in DOMAIN scores : scores[i].key = k
Place(k) == CHOOSE i \in DOMAIN scores : scores[i].key = k
ScoreOf(k) == scores[Place(k)]
Keys == [i \in DOMAIN scores |-> scores[i].key]

(* move_to_end after the assignment: a score taken again keeps its place in
   time (since), as its outcome does. *)
Insert(k, p) ==
    IF Retained(k)
    THEN Append(RemoveAt(scores, Place(k)), [ScoreOf(k) EXCEPT !.prediction = p])
    ELSE Append(scores, [key |-> k, prediction |-> p, since |-> requests])

(* The deque of the tracker drops the oldest beyond its length. *)
Buffer ==
    LET n == Len(recorded) IN
    SubSeq(recorded, IF n > CalibrationWindow THEN n - CalibrationWindow + 1 ELSE 1, n)

Absolute(n) == IF n < 0 THEN -n ELSE n

(* Expected calibration error, times ten and the number of observations: the
   predictions are bins of their own. *)
EceSum(buffer) ==
    MapThenSumSet(
        LAMBDA p : Absolute(MapThenSumSet(
            LAMBDA i : 10 * buffer[i].outcome - p,
            {i \in DOMAIN buffer : buffer[i].prediction = p})), Prediction)

EceStatus(buffer) ==
    LET n == Len(buffer) IN
    IF n < MinimumCalibration THEN "insufficient_data"
    ELSE IF 10 * EceSum(buffer) <= 3 * n THEN "well_calibrated"
    ELSE IF 10 * EceSum(buffer) <= 6 * n THEN "moderate_decay"
    ELSE "significant_decay"

(* The skill score is below -0.05 when the Brier score exceeds 1.05 * 0.1211. *)
Degraded(buffer) ==
    LET squares == MapThenSumSet(
            LAMBDA i : (buffer[i].prediction - 10 * buffer[i].outcome) ^ 2, DOMAIN buffer)
    IN  Len(buffer) >= MinimumCalibration /\ 10000 * squares > 127155 * Len(buffer)

DriftStatus == {"stable", "moderate_shift", "significant_drift", "unseen"}

Overall(drift, buffer) ==
    IF EceStatus(buffer) = "insufficient_data" \/ drift = "none" THEN "insufficient_data"
    ELSE IF drift \in {"significant_drift", "unseen"} \/ EceStatus(buffer) = "significant_decay"
    THEN "red"
    ELSE IF drift = "stable" /\ EceStatus(buffer) = "well_calibrated" /\ ~Degraded(buffer)
    THEN "green" ELSE "yellow"
-----------------------------------------------------------------------------
Init ==
    /\ context \in {"serial", "pool"}
    /\ scores = <<>> /\ outcomes = << >> /\ recorded = <<>>
    /\ worker = [t \in Thread |-> Idle]
    /\ report = NoReport
    /\ requests = 0

Goto(t, state) == worker' = [worker EXCEPT ![t] = state]

Begin(t) ==
    /\ worker[t] = Idle
    /\ context = "serial" => \A u \in Thread : worker[u] = Idle
    /\ requests < MaxRequests
    /\ requests' = requests + 1

(* POST /v1/score: the handler retains the score it computed, ... *)
RecordScore(t) ==
    /\ Begin(t)
    /\ \E k \in Key, p \in Prediction : scores' = Insert(k, p)
    /\ Goto(t, [at |-> "window"])
    /\ UNCHANGED <<context, outcomes, recorded, report>>

CompareWindow_OneTooMany(t) ==
    /\ worker[t].at = "window"
    /\ Goto(t, IF Len(scores) > ScoreWindow + 1 THEN [at |-> "evict"] ELSE Idle)
    /\ UNCHANGED <<context, scores, outcomes, recorded, report, requests>>

(* ... compares the length of the window with its size, ... *)
CompareWindow(t) ==
    /\ worker[t].at = "window"
    /\ Goto(t, IF Len(scores) > ScoreWindow THEN [at |-> "evict"] ELSE Idle)
    /\ UNCHANGED <<context, scores, outcomes, recorded, report, requests>>

(* ... pops the oldest score, ... *)
Evict(t) ==
    /\ worker[t].at = "evict"
    /\ scores' = Tail(scores)
    /\ Goto(t, [at |-> "forget", key |-> Head(scores).key])
    /\ UNCHANGED <<context, outcomes, recorded, report, requests>>

ForgetOutcome_OfNewest(t) ==
    /\ worker[t].at = "forget"
    /\ outcomes' = Restrict(outcomes, DOMAIN outcomes \ {scores[Len(scores)].key})
    /\ Goto(t, [at |-> "window"])
    /\ UNCHANGED <<context, scores, recorded, report, requests>>

(* ... and its outcome, and compares again. *)
ForgetOutcome(t) ==
    /\ worker[t].at = "forget"
    /\ outcomes' = Restrict(outcomes, DOMAIN outcomes \ {worker[t].key})
    /\ Goto(t, [at |-> "window"])
    /\ UNCHANGED <<context, scores, recorded, report, requests>>

(* POST /v1/monitoring/outcomes: the score must be retained, ... *)
IngestOutcome(t) ==
    /\ Begin(t)
    /\ \E k \in Key, payload \in Payload :
          Goto(t, IF Retained(k)
                  THEN [at |-> "existing", key |-> k, score |-> ScoreOf(k), payload |-> payload]
                  ELSE Idle)
    /\ UNCHANGED <<context, scores, outcomes, recorded, report>>

(* ... an outcome joined before is a replay or a conflict, and nothing changes, ... *)
ReadExisting(t) ==
    /\ worker[t].at = "existing"
    /\ Goto(t, IF worker[t].key \in DOMAIN outcomes THEN Idle
               ELSE [worker[t] EXCEPT !.at = "join"])
    /\ UNCHANGED <<context, scores, outcomes, recorded, report, requests>>

(* ... the outcome is stored, ... *)
JoinOutcome(t) ==
    /\ worker[t].at = "join"
    /\ outcomes' = [k \in DOMAIN outcomes \cup {worker[t].key} |->
                      IF k = worker[t].key THEN worker[t].payload ELSE outcomes[k]]
    /\ Goto(t, [worker[t] EXCEPT !.at = "calibrate"])
    /\ UNCHANGED <<context, scores, recorded, report, requests>>

(* ... and counted with the prediction read at the start. *)
RecordCalibration(t) ==
    /\ worker[t].at = "calibrate"
    /\ recorded' = Append(recorded,
            [key |-> worker[t].key, since |-> worker[t].score.since,
             prediction |-> worker[t].score.prediction, outcome |-> worker[t].payload.outcome])
    /\ Goto(t, Idle)
    /\ UNCHANGED <<context, scores, outcomes, report, requests>>

BeginReport_AnyScore(t) ==
    /\ Begin(t)
    /\ Goto(t, IF scores = <<>> THEN [at |-> "report", drift |-> "none"]
               ELSE [at |-> "iterate", keys |-> Keys])
    /\ UNCHANGED <<context, scores, outcomes, recorded, report>>

(* GET /v1/diagnostics: too few scores are no drift evidence; otherwise the
   handler iterates over the window, ... *)
BeginReport(t) ==
    /\ Begin(t)
    /\ Goto(t, IF Len(scores) >= MinimumDrift THEN [at |-> "iterate", keys |-> Keys]
               ELSE [at |-> "report", drift |-> "none"])
    /\ UNCHANGED <<context, scores, outcomes, recorded, report>>

(* ... which fails when another thread changed it meanwhile, ... *)
ComputeDrift(t) ==
    /\ worker[t].at = "iterate"
    /\ IF Keys # worker[t].keys THEN Goto(t, Idle)
       ELSE \E drift \in DriftStatus : Goto(t, [at |-> "report", drift |-> drift])
    /\ UNCHANGED <<context, scores, outcomes, recorded, report, requests>>

(* ... and the calibration, the alerts and the retained counts are read last. *)
FinishReport(t) ==
    /\ worker[t].at = "report"
    /\ report' = [overall |-> Overall(worker[t].drift, Buffer),
                  drift |-> worker[t].drift,
                  calibration |-> Len(Buffer),
                  retained |-> Len(scores),
                  ready |-> Len(scores) >= MinimumDrift]
    /\ Goto(t, Idle)
    /\ UNCHANGED <<context, scores, outcomes, recorded, requests>>

Next == \E t \in Thread :
    \/ RecordScore(t) \/ CompareWindow(t) \/ Evict(t) \/ ForgetOutcome(t)
    \/ IngestOutcome(t) \/ ReadExisting(t) \/ JoinOutcome(t) \/ RecordCalibration(t)
    \/ BeginReport(t) \/ ComputeDrift(t) \/ FinishReport(t)

Spec == Init /\ [][Next]_vars
-----------------------------------------------------------------------------
Settled == \A t \in Thread : worker[t] = Idle
Scoring(t) == worker[t].at \in {"window", "evict", "forget"}

(* However the scorers interleave, the window is back within its size once none
   of them is still evicting, it holds a key once, and no scorer pops from an
   empty window. *)
WindowHolds ==
    /\ (\A t \in Thread : ~Scoring(t)) => Len(scores) <= ScoreWindow
    /\ \A i, j \in DOMAIN scores : scores[i].key = scores[j].key => i = j
    /\ \A t \in Thread : worker[t].at = "evict" => scores # <<>>

Joins(k, since) == {i \in DOMAIN recorded : recorded[i].key = k /\ recorded[i].since = since}

(* monitor.py:116, in the context its tracker assumes: an outcome is joined once
   to a retained score, however often it is delivered, the score taken again or
   others evicted; and an outcome leaves with its score. *)
JoinedOnce ==
    context = "serial" =>
        /\ \A i \in DOMAIN recorded : Cardinality(Joins(recorded[i].key, recorded[i].since)) = 1
        /\ Settled => \A k \in DOMAIN outcomes :
                         Retained(k) /\ Joins(k, ScoreOf(k).since) # {}

(* In that context the parts of a report are of one moment: it is ready exactly
   when it has drift evidence. In any context it is green only when both windows
   are full enough and neither has moved. *)
ReportAgrees ==
    report # NoReport =>
        /\ context = "serial" => (report.ready <=> report.drift # "none")
        /\ report.overall = "green" =>
              report.drift = "stable" /\ report.calibration >= MinimumCalibration
=============================================================================
