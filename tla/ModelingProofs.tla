----------------------------- MODULE ModelingProofs -----------------------------
(***************************************************************************)
(* Proofs about the data of the model, its monitor and the planning, for   *)
(* every value of their constants: an accepted split learns nothing from   *)
(* the future, an observation of a generated policy is reproduced by its   *)
(* history, labels once observed stand, censoring ends, the readings of a  *)
(* history agree, the parts of a diagnostics report agree, the window of   *)
(* scores holds and an outcome is joined once, and an allocation gives up  *)
(* no value and contacts only whom it may. Each part is proved of its own  *)
(* specification.                                                          *)
(***************************************************************************)
EXTENDS MCModeling, SumTheorems, SequenceTheorems, FiniteSetTheorems, TLAPS
-----------------------------------------------------------------------------
(* TemporalSplit: what was accepted was validated, and changes no more. *)
SplitInv ==
    /\ \A r \in labelled : r.asOf \in Nat
    /\ accepted => Split!Validated

LEMMA SplitStarts == Split!Init => SplitInv
  BY DEF Split!Init, SplitInv

LEMMA SplitStep ==
    ASSUME SplitInv, [Split!Next]_Split!vars
    PROVE  SplitInv'
<1>1. CASE Split!Observe
  BY <1>1, DataAssumption DEF Split!Observe, SplitInv, Split!SplitAssumption
<1>2. CASE Split!Assign
  <2>1. Split!Validated'
    BY <1>2 DEF Split!Assign, Split!Validated, Split!Populated, Split!Isolated, Split!Embargoed,
       Split!Partition, Split!Expected
  <2> QED
    BY <1>2, <2>1 DEF Split!Assign, SplitInv
<1>3. CASE UNCHANGED Split!vars
  BY <1>3 DEF Split!vars, SplitInv, Split!Validated, Split!Populated, Split!Isolated,
     Split!Embargoed, Split!Partition, Split!Expected
<1> QED
  BY <1>1, <1>2, <1>3 DEF Split!Next

(* The training and the test are kept apart by the validation between them, which
   a validated split does not leave empty. *)
LEMMA SplitSafe == ASSUME SplitInv PROVE Split!NoFutureLearned
<1> SUFFICES ASSUME Split!Validated,
             NEW pair \in {<<"train", "validation">>, <<"validation", "test">>, <<"train", "test">>},
             NEW r \in Split!Partition(pair[1]), NEW s \in Split!Partition(pair[2])
    PROVE  r.asOf + Horizon < s.asOf /\ r.policy # s.policy
  BY DEF SplitInv, Split!NoFutureLearned
<1>1. \A name : Split!Partition(name) \subseteq labelled
  BY DEF Split!Partition
<1>2. r.policy # s.policy
  BY DEF Split!Validated, Split!Isolated, Split!Modeling
<1>3. CASE pair = <<"train", "test">>
  <2>1. PICK v \in Split!Partition("validation") : TRUE
    BY DEF Split!Validated, Split!Populated, Split!Modeling
  <2>2. r.asOf + Horizon < v.asOf /\ v.asOf + Horizon < s.asOf
    BY <1>3 DEF Split!Validated, Split!Embargoed
  <2>3. r.asOf \in Nat /\ v.asOf \in Nat /\ s.asOf \in Nat /\ Horizon \in Nat
    BY <1>1, DataAssumption DEF SplitInv, Split!SplitAssumption
  <2> QED
    BY <1>2, <2>2, <2>3
<1>4. CASE pair # <<"train", "test">>
  BY <1>2, <1>4 DEF Split!Validated, Split!Embargoed
<1> QED
  BY <1>3, <1>4

(* TemporalSplit: an accepted split never learns from the future, for any boundaries,
   horizon and observations: the test is a horizon behind the training too. *)
THEOREM NothingIsLearnedFromTheFuture == Split!Spec => []NoFutureLearned
<1>1. SplitInv => NoFutureLearned
  BY SplitSafe DEF NoFutureLearned
<1> QED
  BY <1>1, SplitStarts, SplitStep, PTL DEF Split!Spec
-----------------------------------------------------------------------------
(* DriftMonitor: in the serial context one request is served at a time, so what a
   report found of the scores still holds when it is finished. *)
Served(t) ==
    /\ worker[t].at = "iterate" => Len(scores) >= MinimumDrift
    /\ worker[t].at = "report" => (worker[t].drift # "none" <=> Len(scores) >= MinimumDrift)

OneAtATime == \A t, u \in Thread : t # u => worker[t] = Monitor!Idle \/ worker[u] = Monitor!Idle

MonitorInv ==
    /\ DOMAIN worker = Thread /\ \A t \in Thread : "at" \in DOMAIN worker[t]
    /\ \E S : recorded \in Seq(S)
    /\ context = "serial" => OneAtATime /\ \A t \in Thread : Served(t)
    /\ Monitor!ReportAgrees

LEMMA GreenNeedsBoth ==
    ASSUME NEW drift, NEW buffer, Monitor!Overall(drift, buffer) = "green"
    PROVE  drift = "stable" /\ ~(Len(buffer) < MinimumCalibration)
<1>1. drift = "stable" /\ Monitor!EceStatus(buffer) # "insufficient_data"
  BY DEF Monitor!Overall
<1>2. Len(buffer) < MinimumCalibration => Monitor!EceStatus(buffer) = "insufficient_data"
  BY DEF Monitor!EceStatus
<1> QED
  BY <1>1, <1>2

LEMMA MonitorStarts == Monitor!Init => MonitorInv
<1> SUFFICES ASSUME Monitor!Init PROVE MonitorInv
  OBVIOUS
<1>1. recorded \in Seq({})
  BY DEF Monitor!Init
<1> QED
  BY <1>1 DEF Monitor!Init, MonitorInv, Monitor!Idle, OneAtATime, Served, Monitor!ReportAgrees

Steps(t) ==
    /\ DOMAIN worker' = Thread /\ "at" \in DOMAIN worker'[t]
    /\ \A u \in Thread \ {t} : worker'[u] = worker[u]

LEMMA GotoSteps ==
    ASSUME MonitorInv, NEW t \in Thread, NEW state, Monitor!Goto(t, state), "at" \in DOMAIN state
    PROVE  Steps(t) /\ worker'[t] = state
BY DEF MonitorInv, Monitor!Goto, Steps

(* A thread that goes on, or begins when no other is served, keeps what holds of the
   others. *)
LEMMA ServedStep ==
    ASSUME MonitorInv, NEW t \in Thread, Steps(t), context' = context,
           worker[t] # Monitor!Idle \/ Monitor!Begin(t),
           context = "serial" => Served(t)'
    PROVE  /\ DOMAIN worker' = Thread /\ \A u \in Thread : "at" \in DOMAIN worker'[u]
           /\ context' = "serial" => OneAtATime' /\ \A u \in Thread : Served(u)'
<1>1. ASSUME context = "serial", NEW u \in Thread \ {t} PROVE worker[u] = Monitor!Idle
  BY <1>1 DEF MonitorInv, OneAtATime, Monitor!Begin
<1>2. ASSUME context = "serial", NEW u \in Thread \ {t} PROVE worker'[u] = Monitor!Idle
  BY <1>1, <1>2 DEF Steps
<1>3. ASSUME context = "serial" PROVE OneAtATime'
  BY <1>2, <1>3 DEF OneAtATime
<1>4. ASSUME context = "serial", NEW u \in Thread \ {t} PROVE Served(u)'
  BY <1>2, <1>4 DEF Served, Monitor!Idle
<1> QED
  BY <1>3, <1>4 DEF Steps, MonitorInv

(* So do the steps that neither record nor report. *)
LEMMA OtherStep ==
    ASSUME MonitorInv, NEW t \in Thread, Steps(t),
           worker'[t].at # "iterate", worker'[t].at # "report",
           UNCHANGED <<context, recorded, report>>,
           worker[t] # Monitor!Idle \/ Monitor!Begin(t)
    PROVE  MonitorInv'
<1>1. Served(t)'
  BY DEF Served
<1>2. Monitor!ReportAgrees'
  BY DEF MonitorInv, Monitor!ReportAgrees
<1> QED
  BY <1>1, <1>2, ServedStep DEF MonitorInv

LEMMA MonitorStep ==
    ASSUME MonitorInv, [Monitor!Next]_Monitor!vars
    PROVE  MonitorInv'
<1> USE DEF Monitor!Idle
<1>1. ASSUME NEW t \in Thread, Monitor!RecordScore(t) PROVE MonitorInv'
  <2>1. Monitor!Begin(t) /\ UNCHANGED <<context, recorded, report>>
    BY <1>1 DEF Monitor!RecordScore
  <2>2. Steps(t) /\ worker'[t].at # "iterate" /\ worker'[t].at # "report"
    BY <1>1, GotoSteps DEF Monitor!RecordScore
  <2> QED
    BY <2>1, <2>2, OtherStep
<1>2. ASSUME NEW t \in Thread, Monitor!CompareWindow(t) PROVE MonitorInv'
  <2>1. worker[t] # Monitor!Idle /\ UNCHANGED <<context, recorded, report>>
    BY <1>2 DEF Monitor!CompareWindow
  <2>2. Steps(t) /\ worker'[t].at # "iterate" /\ worker'[t].at # "report"
    BY <1>2, GotoSteps DEF Monitor!CompareWindow
  <2> QED
    BY <2>1, <2>2, OtherStep
<1>3. ASSUME NEW t \in Thread, Monitor!Evict(t) PROVE MonitorInv'
  <2>1. worker[t] # Monitor!Idle /\ UNCHANGED <<context, recorded, report>>
    BY <1>3 DEF Monitor!Evict
  <2>2. Steps(t) /\ worker'[t].at # "iterate" /\ worker'[t].at # "report"
    BY <1>3, GotoSteps DEF Monitor!Evict
  <2> QED
    BY <2>1, <2>2, OtherStep
<1>4. ASSUME NEW t \in Thread, Monitor!ForgetOutcome(t) PROVE MonitorInv'
  <2>1. worker[t] # Monitor!Idle /\ UNCHANGED <<context, recorded, report>>
    BY <1>4 DEF Monitor!ForgetOutcome
  <2>2. Steps(t) /\ worker'[t].at # "iterate" /\ worker'[t].at # "report"
    BY <1>4, GotoSteps DEF Monitor!ForgetOutcome
  <2> QED
    BY <2>1, <2>2, OtherStep
<1>5. ASSUME NEW t \in Thread, Monitor!IngestOutcome(t) PROVE MonitorInv'
  <2>1. Monitor!Begin(t) /\ UNCHANGED <<context, recorded, report>>
    BY <1>5 DEF Monitor!IngestOutcome
  <2>2. Steps(t) /\ worker'[t].at # "iterate" /\ worker'[t].at # "report"
    BY <1>5, GotoSteps DEF Monitor!IngestOutcome
  <2> QED
    BY <2>1, <2>2, OtherStep
<1>6. ASSUME NEW t \in Thread, Monitor!ReadExisting(t) PROVE MonitorInv'
  <2>1. worker[t] # Monitor!Idle /\ UNCHANGED <<context, recorded, report>>
    BY <1>6 DEF Monitor!ReadExisting
  <2>2. LET next == [worker[t] EXCEPT !.at = "join"] IN
          "at" \in DOMAIN next /\ next.at = "join"
    BY DEF MonitorInv
  <2>3. Steps(t) /\ worker'[t].at # "iterate" /\ worker'[t].at # "report"
    BY <1>6, <2>2, GotoSteps DEF Monitor!ReadExisting
  <2> QED
    BY <2>1, <2>3, OtherStep
<1>7. ASSUME NEW t \in Thread, Monitor!JoinOutcome(t) PROVE MonitorInv'
  <2>1. worker[t] # Monitor!Idle /\ UNCHANGED <<context, recorded, report>>
    BY <1>7 DEF Monitor!JoinOutcome
  <2>2. LET next == [worker[t] EXCEPT !.at = "calibrate"] IN
          "at" \in DOMAIN next /\ next.at = "calibrate"
    BY DEF MonitorInv
  <2>3. Steps(t) /\ worker'[t].at # "iterate" /\ worker'[t].at # "report"
    BY <1>7, <2>2, GotoSteps DEF Monitor!JoinOutcome
  <2> QED
    BY <2>1, <2>3, OtherStep
<1>8. ASSUME NEW t \in Thread, Monitor!RecordCalibration(t) PROVE MonitorInv'
  <2>1. PICK S : recorded \in Seq(S)
    BY DEF MonitorInv
  <2>2. PICK e : recorded' = Append(recorded, e)
    BY <1>8 DEF Monitor!RecordCalibration
  <2>3. recorded' \in Seq(S \cup {e})
    BY <2>1, <2>2
  <2>4. Steps(t) /\ worker[t] # Monitor!Idle /\ Served(t)' /\ UNCHANGED <<context, report>>
    BY <1>8, GotoSteps DEF Monitor!RecordCalibration, Served
  <2>5. Monitor!ReportAgrees'
    BY <2>4 DEF MonitorInv, Monitor!ReportAgrees
  <2> QED
    BY <2>3, <2>4, <2>5, ServedStep DEF MonitorInv
<1>9. ASSUME NEW t \in Thread, Monitor!BeginReport(t) PROVE MonitorInv'
  <2>1. Monitor!Begin(t) /\ UNCHANGED <<context, recorded, report>>
    BY <1>9 DEF Monitor!BeginReport
  <2>2. Steps(t) /\ Served(t)'
    BY <1>9, GotoSteps DEF Monitor!BeginReport, Served
  <2>3. Monitor!ReportAgrees'
    BY <2>1 DEF MonitorInv, Monitor!ReportAgrees
  <2> QED
    BY <2>1, <2>2, <2>3, ServedStep DEF MonitorInv
<1>10. ASSUME NEW t \in Thread, Monitor!ComputeDrift(t) PROVE MonitorInv'
  <2>1. worker[t] # Monitor!Idle /\ worker[t].at = "iterate" /\ UNCHANGED <<context, recorded, report>>
    BY <1>10 DEF Monitor!ComputeDrift
  <2>2. Steps(t) /\ worker'[t].at # "iterate"
        /\ (worker'[t].at = "report" => worker'[t].drift # "none")
    BY <1>10, GotoSteps DEF Monitor!ComputeDrift, Monitor!DriftStatus
  <2>3. context = "serial" => Served(t)'
    BY <1>10, <2>1, <2>2 DEF Monitor!ComputeDrift, MonitorInv, Served
  <2>4. Monitor!ReportAgrees'
    BY <2>1 DEF MonitorInv, Monitor!ReportAgrees
  <2> QED
    BY <2>1, <2>2, <2>3, <2>4, ServedStep DEF MonitorInv
<1>11. ASSUME NEW t \in Thread, Monitor!FinishReport(t) PROVE MonitorInv'
  <2>1. worker[t].at = "report"
    BY <1>11 DEF Monitor!FinishReport
  <2>2. report'.overall = Monitor!Overall(worker[t].drift, Monitor!Buffer)
        /\ report'.drift = worker[t].drift /\ report'.calibration = Len(Monitor!Buffer)
        /\ report'.ready = (Len(scores) >= MinimumDrift)
    BY <1>11 DEF Monitor!FinishReport
  <2>3. Len(Monitor!Buffer) \in Nat
    BY WindowsAssumption DEF MonitorInv, Monitor!Buffer, Monitor!WindowAssumption
  <2>4. report'.overall = "green" =>
           report'.drift = "stable" /\ report'.calibration >= MinimumCalibration
    <3>1. MinimumCalibration \in Nat
      BY WindowsAssumption DEF Monitor!WindowAssumption
    <3> HAVE report'.overall = "green"
    <3>2. worker[t].drift = "stable" /\ ~(Len(Monitor!Buffer) < MinimumCalibration)
      BY <2>2, GreenNeedsBoth
    <3> QED
      BY <2>2, <2>3, <3>1, <3>2
  <2>5. context' = context /\ (context = "serial" => (report'.ready <=> report'.drift # "none"))
    BY <1>11, <2>1, <2>2 DEF Monitor!FinishReport, MonitorInv, Served
  <2>6. Monitor!ReportAgrees'
    BY <2>4, <2>5 DEF Monitor!ReportAgrees
  <2>7. Steps(t) /\ worker[t] # Monitor!Idle /\ Served(t)' /\ UNCHANGED <<context, recorded>>
    BY <1>11, <2>1, GotoSteps DEF Monitor!FinishReport, Served
  <2> QED
    BY <2>6, <2>7, ServedStep DEF MonitorInv
<1>12. CASE UNCHANGED Monitor!vars
  BY <1>12 DEF Monitor!vars, MonitorInv, OneAtATime, Served, Monitor!ReportAgrees
<1> QED
  BY <1>1, <1>2, <1>3, <1>4, <1>5, <1>6, <1>7, <1>8, <1>9, <1>10, <1>11, <1>12
  DEF Monitor!Next

(* DriftMonitor: the parts of a report agree, for any windows and requests: drift and
   readiness in the serial context, and green with both windows full enough in any. *)
THEOREM ReportsAgree == Monitor!Spec => []ReportAgrees
<1>1. MonitorInv => ReportAgrees
  BY DEF MonitorInv, ReportAgrees
<1> QED
  BY <1>1, MonitorStarts, MonitorStep, PTL DEF Monitor!Spec
-----------------------------------------------------------------------------
(* DriftMonitor: the window holds a key once, at most a score too many for each thread
   that is scoring, and enough of them for every thread that is about to evict one. *)
Score == [key : Key, prediction : Prediction, since : Nat]
Distinct(s) == \A i, j \in DOMAIN s : s[i].key = s[j].key => i = j
Members(s) == {s[i] : i \in DOMAIN s}

WorkerState ==
    [at : {"idle", "window", "evict"}] \cup [at : {"forget"}, key : Key]
    \cup [at : {"existing", "join", "calibrate"}, key : Key, score : Score, payload : Monitor!Payload]
    \cup [at : {"iterate"}, keys : Seq(Key)]
    \cup [at : {"report"}, drift : Monitor!DriftStatus \cup {"none"}]

Scorers == {t \in Thread : Monitor!Scoring(t)}
Evicting == {t \in Thread : worker[t].at = "evict"}

WindowType ==
    /\ scores \in Seq(Score) /\ Distinct(scores)
    /\ worker \in [Thread -> WorkerState]
    /\ requests \in Nat

WindowInv ==
    /\ WindowType
    /\ Len(scores) <= ScoreWindow + Cardinality(Scorers)
    /\ Evicting # {} =>
          Len(scores) + Cardinality(Thread) >= ScoreWindow + 1 + Cardinality(Evicting)

LEMMA WithoutOne ==
    ASSUME NEW S, NEW s \in Seq(S), NEW n \in DOMAIN s
    PROVE  LET r == Monitor!RemoveAt(s, n) IN
           /\ r \in Seq(S) /\ Len(r) = Len(s) - 1
           /\ \A i \in 1 .. Len(r) : r[i] = s[IF i < n THEN i ELSE i + 1]
<1> DEFINE a == SubSeq(s, 1, n - 1)
           b == SubSeq(s, n + 1, Len(s))
<1>1. n \in 1 .. Len(s) /\ Len(s) \in Nat
  OBVIOUS
<1>2. a \in Seq(S) /\ Len(a) = n - 1 /\ \A i \in 1 .. n - 1 : a[i] = s[i]
  BY <1>1
<1>3. b \in Seq(S) /\ Len(b) = Len(s) - n /\ \A i \in 1 .. Len(s) - n : b[i] = s[n + i]
  BY <1>1
<1>4. Monitor!RemoveAt(s, n) = a \o b
  BY DEF Monitor!RemoveAt
<1> HIDE DEF a, b
<1>5. a \o b \in Seq(S) /\ Len(a \o b) = Len(s) - 1
  BY <1>1, <1>2, <1>3
<1>6. ASSUME NEW i \in 1 .. Len(s) - 1
      PROVE  (a \o b)[i] = s[IF i < n THEN i ELSE i + 1]
  <2>1. CASE i < n
    BY <1>1, <1>2, <1>3, <2>1
  <2>2. CASE ~(i < n)
    <3>1. (a \o b)[i] = b[i - (n - 1)]
      <4>1. i \in 1 .. Len(a) + Len(b) /\ ~ (i <= Len(a)) /\ Len(a) = n - 1
        BY <1>1, <1>2, <1>3, <2>2
      <4>2. a \in Seq(S) /\ b \in Seq(S)
        BY <1>2, <1>3
      <4> QED
        BY <4>1, <4>2, ConcatProperties
    <3>2. i - (n - 1) \in 1 .. Len(s) - n /\ n + (i - (n - 1)) = i + 1
      BY <1>1, <2>2
    <3> QED
      BY <1>3, <2>2, <3>1, <3>2
  <2> QED
    BY <2>1, <2>2
<1> QED
  BY <1>4, <1>5, <1>6

(* A score retained before leaves its place, so no key is twice in the window. *)
LEMMA WithoutKey ==
    ASSUME scores \in Seq(Score), Distinct(scores), NEW n \in DOMAIN scores
    PROVE  LET r == Monitor!RemoveAt(scores, n) IN
           /\ r \in Seq(Score) /\ Distinct(r) /\ Len(r) = Len(scores) - 1
           /\ Members(r) = {s \in Members(scores) : s.key # scores[n].key}
<1> DEFINE r == Monitor!RemoveAt(scores, n)
           from(i) == IF i < n THEN i ELSE i + 1
<1>1. r \in Seq(Score) /\ Len(r) = Len(scores) - 1 /\ \A i \in 1 .. Len(r) : r[i] = scores[from(i)]
  BY WithoutOne
<1>2. DOMAIN scores = 1 .. Len(scores) /\ DOMAIN r = 1 .. Len(scores) - 1 /\ Len(scores) \in Nat
      /\ n \in Nat
  BY <1>1
<1> HIDE DEF r
<1>3. \A i \in DOMAIN r : from(i) \in DOMAIN scores \ {n}
  BY <1>2
<1>4. \A i, j \in DOMAIN r : from(i) = from(j) => i = j
  BY <1>2
<1>5. Distinct(r)
  <2> SUFFICES ASSUME NEW i \in DOMAIN r, NEW j \in DOMAIN r, r[i].key = r[j].key PROVE i = j
    BY DEF Distinct
  <2>1. scores[from(i)].key = scores[from(j)].key
    BY <1>1, <1>2
  <2> QED
    BY <1>3, <1>4, <2>1 DEF Distinct
<1>6. ASSUME NEW s \in Members(r) PROVE s \in Members(scores) /\ s.key # scores[n].key
  <2>1. PICK i \in DOMAIN r : s = r[i]
    BY DEF Members
  <2>2. s = scores[from(i)]
    BY <1>1, <1>2, <2>1
  <2> QED
    BY <1>3, <2>2 DEF Members, Distinct
<1>7. ASSUME NEW s \in Members(scores), s.key # scores[n].key PROVE s \in Members(r)
  <2>1. PICK i \in DOMAIN scores : s = scores[i]
    BY DEF Members
  <2>2. PICK j \in DOMAIN r : from(j) = i
    <3>1. i # n
      BY <1>7, <2>1
    <3>2. CASE i < n
      <4>1. i \in DOMAIN r /\ from(i) = i
        BY <1>2, <3>2
      <4> QED
        BY <4>1
    <3>3. CASE i > n
      <4>1. i - 1 \in DOMAIN r /\ from(i - 1) = i
        BY <1>2, <3>3
      <4> QED
        BY <4>1
    <3> QED
      BY <1>2, <3>1, <3>2, <3>3
  <2> QED
    BY <1>1, <1>2, <2>1, <2>2 DEF Members
<1> QED
  BY <1>1, <1>5, <1>6, <1>7 DEF r

LEMMA WithOneMore ==
    ASSUME NEW s \in Seq(Score), Distinct(s), NEW x \in Score, \A y \in Members(s) : y.key # x.key
    PROVE  LET n == Append(s, x) IN
           /\ n \in Seq(Score) /\ Distinct(n) /\ Len(n) = Len(s) + 1
           /\ Members(n) = Members(s) \cup {x}
<1> DEFINE n == Append(s, x)
<1>1. n \in Seq(Score) /\ Len(n) = Len(s) + 1 /\ DOMAIN n = 1 .. Len(s) + 1
      /\ DOMAIN s = 1 .. Len(s) /\ Len(s) \in Nat
  OBVIOUS
<1>2. n[Len(s) + 1] = x /\ \A i \in DOMAIN s : n[i] = s[i]
  OBVIOUS
<1> HIDE DEF n
<1>3. DOMAIN n = DOMAIN s \cup {Len(s) + 1} /\ Len(s) + 1 \notin DOMAIN s
  BY <1>1
<1>4. Distinct(n)
  BY <1>2, <1>3 DEF Distinct, Members
<1>5. Members(n) = Members(s) \cup {x}
  BY <1>2, <1>3 DEF Members
<1> QED
  BY <1>1, <1>4, <1>5 DEF n

LEMMA PlaceOf ==
    ASSUME NEW k, Monitor!Retained(k)
    PROVE  /\ Monitor!Place(k) \in DOMAIN scores /\ scores[Monitor!Place(k)].key = k
           /\ Monitor!ScoreOf(k) \in Members(scores) /\ Monitor!ScoreOf(k).key = k
<1>1. Monitor!Place(k) \in DOMAIN scores /\ scores[Monitor!Place(k)].key = k
  BY DEF Monitor!Retained, Monitor!Place
<1> QED
  BY <1>1 DEF Monitor!ScoreOf, Members

LEMMA MembersType ==
    ASSUME NEW s \in Seq(Score)
    PROVE  \A x \in Members(s) : x \in Score
BY DEF Members

(* What Insert leaves: the others, and the score with the time its key has been retained
   since. *)
LEMMA InsertLeaves ==
    ASSUME WindowType, NEW k \in Key, NEW p \in Prediction
    PROVE  LET n == Monitor!Insert(k, p)
               since == IF Monitor!Retained(k) THEN Monitor!ScoreOf(k).since ELSE requests
           IN  /\ n \in Seq(Score) /\ Distinct(n)
               /\ Len(scores) <= Len(n) /\ Len(n) <= Len(scores) + 1
               /\ Members(n) = {s \in Members(scores) : s.key # k}
                                  \cup {[key |-> k, prediction |-> p, since |-> since]}
<1> USE DEF WindowType
<1>1. CASE Monitor!Retained(k)
  <2> DEFINE x == [Monitor!ScoreOf(k) EXCEPT !.prediction = p]
             r == Monitor!RemoveAt(scores, Monitor!Place(k))
  <2>1. Monitor!Place(k) \in DOMAIN scores /\ scores[Monitor!Place(k)].key = k
        /\ Monitor!ScoreOf(k) \in Score /\ Monitor!ScoreOf(k).key = k
    BY <1>1, PlaceOf, MembersType
  <2>2. /\ r \in Seq(Score) /\ Distinct(r) /\ Len(r) = Len(scores) - 1
        /\ Members(r) = {s \in Members(scores) : s.key # k}
    BY <2>1, WithoutKey
  <2>3. x = [key |-> k, prediction |-> p, since |-> Monitor!ScoreOf(k).since] /\ x \in Score
    BY <2>1 DEF Score
  <2>4. Monitor!Insert(k, p) = Append(r, x)
    BY <1>1 DEF Monitor!Insert
  <2> HIDE DEF r, x
  <2>5. \A y \in Members(r) : y.key # x.key
    BY <2>2, <2>3
  <2>6. LET n == Append(r, x) IN
        /\ n \in Seq(Score) /\ Distinct(n) /\ Len(n) = Len(r) + 1 /\ Members(n) = Members(r) \cup {x}
    BY <2>2, <2>3, <2>5, WithOneMore
  <2>7. Len(scores) \in Nat
    OBVIOUS
  <2> QED
    BY <1>1, <2>2, <2>3, <2>4, <2>6, <2>7
<1>2. CASE ~Monitor!Retained(k)
  <2> DEFINE x == [key |-> k, prediction |-> p, since |-> requests]
  <2>1. \A y \in Members(scores) : y.key # k
    BY <1>2 DEF Members, Monitor!Retained
  <2>2. x \in Score /\ x.key = k
    BY DEF Score
  <2>3. Monitor!Insert(k, p) = Append(scores, x)
    BY <1>2 DEF Monitor!Insert
  <2> HIDE DEF x
  <2>4. LET n == Append(scores, x) IN
        /\ n \in Seq(Score) /\ Distinct(n) /\ Len(n) = Len(scores) + 1
        /\ Members(n) = Members(scores) \cup {x}
    BY <2>1, <2>2, WithOneMore
  <2>5. Len(scores) \in Nat /\ Members(scores) = {s \in Members(scores) : s.key # k}
    BY <2>1
  <2> QED
    BY <1>2, <2>3, <2>4, <2>5 DEF x
<1> QED
  BY <1>1, <1>2

(* What popping the oldest leaves. *)
LEMMA TailLeaves ==
    ASSUME WindowType, scores # <<>>
    PROVE  /\ Tail(scores) \in Seq(Score) /\ Distinct(Tail(scores))
           /\ Len(Tail(scores)) = Len(scores) - 1
           /\ Head(scores) \in Members(scores)
           /\ Members(Tail(scores)) = {s \in Members(scores) : s.key # Head(scores).key}
<1> USE DEF WindowType
<1>1. 1 \in DOMAIN scores /\ Head(scores) = scores[1] /\ Len(scores) \in Nat
  OBVIOUS
<1>2. Monitor!RemoveAt(scores, 1) = Tail(scores)
  <2>1. /\ Monitor!RemoveAt(scores, 1) \in Seq(Score)
        /\ Len(Monitor!RemoveAt(scores, 1)) = Len(scores) - 1
        /\ \A i \in 1 .. Len(Monitor!RemoveAt(scores, 1)) :
              Monitor!RemoveAt(scores, 1)[i] = scores[IF i < 1 THEN i ELSE i + 1]
    BY <1>1, WithoutOne
  <2>2. Tail(scores) \in Seq(Score) /\ Len(Tail(scores)) = Len(scores) - 1
        /\ \A i \in 1 .. Len(scores) - 1 : Tail(scores)[i] = scores[i + 1]
    BY <1>1
  <2>3. \A i \in 1 .. Len(scores) - 1 : ~(i < 1)
    BY <1>1
  <2> DEFINE r == Monitor!RemoveAt(scores, 1)
             l == Tail(scores)
  <2> HIDE DEF r, l
  <2>4. r \in Seq(Score) /\ l \in Seq(Score) /\ Len(r) = Len(l)
        /\ \A i \in 1 .. Len(l) : r[i] = l[i]
    BY <2>1, <2>2, <2>3 DEF r, l
  <2>5. r = l
    BY <2>4
  <2> QED
    BY <2>5 DEF r, l
<1>3. LET r == Monitor!RemoveAt(scores, 1) IN
      /\ r \in Seq(Score) /\ Distinct(r) /\ Len(r) = Len(scores) - 1
      /\ Members(r) = {s \in Members(scores) : s.key # scores[1].key}
  BY <1>1, WithoutKey
<1> QED
  BY <1>1, <1>2, <1>3 DEF Members

LEMMA MonitorCardinality == ASSUME NEW S PROVE Monitor!Cardinality(S) = Cardinality(S)
BY DEF Monitor!Cardinality, Cardinality

LEMMA Pool ==
    /\ IsFiniteSet(Thread) /\ Cardinality(Thread) \in Nat
    /\ Cardinality(Thread) <= ScoreWindow + 1
    /\ ScoreWindow \in Nat
<1>1. IsFiniteSet(Thread) /\ Cardinality(Thread) <= ScoreWindow + 1 /\ ScoreWindow \in Nat
  BY WindowsAssumption, MonitorCardinality
  DEF Monitor!PoolAssumption, Monitor!WindowAssumption, Monitor!IsFiniteSet, IsFiniteSet
<1> QED
  BY <1>1, FS_CardinalityType

LEMMA PartOfPool ==
    ASSUME NEW T \in SUBSET Thread
    PROVE  /\ Cardinality(T) \in Nat /\ Cardinality(T) <= Cardinality(Thread)
           /\ T # {} => Cardinality(T) >= 1
           /\ \A t \in Thread \ T : Cardinality(T \cup {t}) = Cardinality(T) + 1
           /\ \A t \in T : Cardinality(T \ {t}) = Cardinality(T) - 1
<1>1. IsFiniteSet(T) /\ Cardinality(T) <= Cardinality(Thread)
  BY Pool, FS_Subset
<1>2. Cardinality(T) \in Nat /\ (Cardinality(T) = 0 <=> T = {})
  BY <1>1, FS_CardinalityType, FS_EmptySet
<1> QED
  BY <1>1, <1>2, FS_AddElement, FS_RemoveElement

(* A thread that goes to another state leaves the others where they are. *)
LEMMA Goes ==
    ASSUME WindowType, NEW t \in Thread, NEW state \in WorkerState, Monitor!Goto(t, state)
    PROVE  /\ worker' \in [Thread -> WorkerState] /\ worker'[t] = state
           /\ \A u \in Thread \ {t} : worker'[u] = worker[u]
           /\ Scorers' = IF state.at \in {"window", "evict", "forget"} THEN Scorers \cup {t}
                         ELSE Scorers \ {t}
           /\ Evicting' = IF state.at = "evict" THEN Evicting \cup {t} ELSE Evicting \ {t}
<1>1. /\ worker' \in [Thread -> WorkerState] /\ worker'[t] = state
      /\ \A u \in Thread \ {t} : worker'[u] = worker[u]
  BY DEF WindowType, Monitor!Goto
<1> QED
  BY <1>1 DEF Scorers, Evicting, Monitor!Scoring

LEMMA WindowRests ==
    ASSUME WindowInv, NEW t \in Thread, NEW state \in WorkerState, Monitor!Goto(t, state),
           ~Monitor!Scoring(t), state.at \notin {"window", "evict", "forget"},
           scores' = scores, requests' \in Nat
    PROVE  WindowInv'
<1>1. WindowType /\ t \notin Scorers /\ t \notin Evicting
  BY DEF WindowInv, Scorers, Evicting, Monitor!Scoring
<1>2. worker' \in [Thread -> WorkerState] /\ Scorers' = Scorers /\ Evicting' = Evicting
  BY <1>1, Goes
<1> QED
  BY <1>2 DEF WindowInv, WindowType

LEMMA WindowStarts == Monitor!Init => WindowInv
<1> SUFFICES ASSUME Monitor!Init PROVE WindowInv
  OBVIOUS
<1>1. \A t \in Thread : worker[t] = [at |-> "idle"]
  BY DEF Monitor!Init, Monitor!Idle
<1>2. worker \in [Thread -> WorkerState]
  BY <1>1 DEF Monitor!Init, WorkerState, Monitor!Idle
<1>3. Scorers = {} /\ Evicting = {}
  BY <1>1 DEF Scorers, Evicting, Monitor!Scoring
<1>4. scores = <<>> /\ scores \in Seq(Score) /\ Distinct(scores) /\ Len(scores) = 0 /\ requests = 0
  BY DEF Monitor!Init, Distinct
<1> QED
  BY <1>2, <1>3, <1>4, Pool, FS_EmptySet DEF WindowInv, WindowType

(* Whoever is about to evict finds a score. *)
LEMMA SomeToEvict ==
    ASSUME WindowInv, NEW t \in Evicting
    PROVE  scores # <<>>
<1>1. Evicting \in SUBSET Thread
  BY DEF Evicting
<1>2. Cardinality(Evicting) \in Nat /\ Cardinality(Evicting) >= 1
  BY <1>1, PartOfPool
<1>3. Len(scores) + Cardinality(Thread) >= ScoreWindow + 1 + Cardinality(Evicting)
  BY DEF WindowInv
<1>4. Len(scores) \in Nat
  BY DEF WindowInv, WindowType
<1>5. Len(scores) >= 1
  BY <1>2, <1>3, <1>4, Pool
<1> QED
  BY <1>5

LEMMA RecordScoreInWindow ==
    ASSUME WindowInv, NEW t \in Thread, Monitor!RecordScore(t)
    PROVE  WindowInv'
<1>1. PICK k \in Key, p \in Prediction : scores' = Monitor!Insert(k, p)
  BY DEF Monitor!RecordScore
<1>2. /\ scores' \in Seq(Score) /\ Distinct(scores')
      /\ Len(scores) <= Len(scores') /\ Len(scores') <= Len(scores) + 1
  BY <1>1, InsertLeaves DEF WindowInv
<1>3. [at |-> "window"] \in WorkerState /\ requests' = requests + 1 /\ requests \in Nat
      /\ t \notin Scorers /\ t \notin Evicting
  BY DEF WorkerState, Monitor!RecordScore, Monitor!Begin, Monitor!Idle, Scorers, Evicting,
     Monitor!Scoring, WindowInv, WindowType
<1>4. worker' \in [Thread -> WorkerState] /\ Scorers' = Scorers \cup {t} /\ Evicting' = Evicting
  <2> DEFINE state == [at |-> "window"]
  <2>1. state.at = "window" /\ state \in WorkerState /\ Monitor!Goto(t, state) /\ WindowType
    BY <1>3 DEF Monitor!RecordScore, WindowInv
  <2> HIDE DEF state
  <2>2. /\ worker' \in [Thread -> WorkerState] /\ Scorers' = Scorers \cup {t}
        /\ Evicting' = Evicting \ {t}
    BY <2>1, Goes
  <2> QED
    BY <1>3, <2>2
<1>5. Cardinality(Scorers') = Cardinality(Scorers) + 1 /\ Cardinality(Scorers) \in Nat
      /\ Cardinality(Evicting) \in Nat
  BY <1>3, <1>4, PartOfPool DEF Scorers, Evicting
<1>6. Len(scores) \in Nat /\ Len(scores') \in Nat
  BY <1>2 DEF WindowInv, WindowType
<1>7. Len(scores') <= ScoreWindow + Cardinality(Scorers')
  BY <1>2, <1>5, <1>6, Pool DEF WindowInv
<1>8. Evicting' # {} => Len(scores') + Cardinality(Thread) >= ScoreWindow + 1 + Cardinality(Evicting')
  BY <1>2, <1>4, <1>5, <1>6, Pool DEF WindowInv
<1> QED
  BY <1>2, <1>3, <1>4, <1>7, <1>8 DEF WindowInv, WindowType

LEMMA CompareInWindow ==
    ASSUME WindowInv, NEW t \in Thread, Monitor!CompareWindow(t)
    PROVE  WindowInv'
<1>1. scores' = scores /\ requests' = requests /\ t \in Scorers /\ t \notin Evicting
  BY DEF Monitor!CompareWindow, Scorers, Evicting, Monitor!Scoring
<1>2. [at |-> "evict"] \in WorkerState /\ Monitor!Idle \in WorkerState
  BY DEF WorkerState, Monitor!Idle
<1>3. Len(scores) \in Nat /\ Cardinality(Scorers') \in Nat
  BY PartOfPool DEF WindowInv, WindowType, Scorers
<1>4. CASE Len(scores) > ScoreWindow
  <2>1. worker' \in [Thread -> WorkerState] /\ Scorers' = Scorers \cup {t}
        /\ Evicting' = Evicting \cup {t}
    BY <1>2, <1>4, Goes DEF Monitor!CompareWindow, WindowInv
  <2>2. Cardinality(Evicting') <= Cardinality(Thread) /\ Cardinality(Evicting') \in Nat
    BY PartOfPool DEF Evicting
  <2>3. Scorers' = Scorers
    BY <1>1, <2>1
  <2>4. Len(scores) + Cardinality(Thread) >= ScoreWindow + 1 + Cardinality(Evicting')
    BY <1>3, <1>4, <2>2, Pool
  <2> QED
    BY <1>1, <2>1, <2>3, <2>4 DEF WindowInv, WindowType
<1>5. CASE ~(Len(scores) > ScoreWindow)
  <2>1. worker' \in [Thread -> WorkerState] /\ Evicting' = Evicting
    <3>1. Monitor!Idle.at = "idle" /\ Monitor!Goto(t, Monitor!Idle) /\ WindowType
      BY <1>5 DEF Monitor!CompareWindow, WindowInv, Monitor!Idle
    <3>2. worker' \in [Thread -> WorkerState] /\ Evicting' = Evicting \ {t}
      BY <1>2, <3>1, Goes
    <3> QED
      BY <1>1, <3>2
  <2>2. Len(scores) <= ScoreWindow + Cardinality(Scorers')
    BY <1>3, <1>5, Pool
  <2> QED
    BY <1>1, <2>1, <2>2 DEF WindowInv, WindowType
<1> QED
  BY <1>4, <1>5

LEMMA EvictInWindow ==
    ASSUME WindowInv, NEW t \in Thread, Monitor!Evict(t)
    PROVE  WindowInv'
<1>1. t \in Scorers /\ t \in Evicting /\ scores' = Tail(scores) /\ requests' = requests
  BY DEF Monitor!Evict, Scorers, Evicting, Monitor!Scoring
<1>2. scores # <<>>
  BY <1>1, SomeToEvict
<1>3. /\ scores' \in Seq(Score) /\ Distinct(scores') /\ Len(scores') = Len(scores) - 1
      /\ Head(scores) \in Members(scores)
  BY <1>1, <1>2, TailLeaves DEF WindowInv
<1>4. [at |-> "forget", key |-> Head(scores).key] \in WorkerState
  BY <1>3, MembersType DEF WindowInv, WindowType, WorkerState, Score
<1>5. worker' \in [Thread -> WorkerState] /\ Scorers' = Scorers /\ Evicting' = Evicting \ {t}
  <2> DEFINE state == [at |-> "forget", key |-> Head(scores).key]
  <2>1. state.at = "forget" /\ state \in WorkerState /\ Monitor!Goto(t, state) /\ WindowType
    BY <1>4 DEF Monitor!Evict, WindowInv
  <2> HIDE DEF state
  <2>2. /\ worker' \in [Thread -> WorkerState] /\ Scorers' = Scorers \cup {t}
        /\ Evicting' = Evicting \ {t}
    BY <2>1, Goes
  <2> QED
    BY <1>1, <2>2
<1>6. Cardinality(Evicting') = Cardinality(Evicting) - 1 /\ Cardinality(Evicting) \in Nat
      /\ Cardinality(Scorers) \in Nat
  BY <1>1, <1>5, PartOfPool DEF Evicting, Scorers
<1>7. Len(scores) \in Nat
  BY DEF WindowInv, WindowType
<1>8. Len(scores') <= ScoreWindow + Cardinality(Scorers')
  BY <1>3, <1>5, <1>6, <1>7, Pool DEF WindowInv
<1>9. Len(scores') + Cardinality(Thread) >= ScoreWindow + 1 + Cardinality(Evicting')
  BY <1>1, <1>3, <1>6, <1>7, Pool DEF WindowInv
<1> QED
  BY <1>1, <1>3, <1>5, <1>8, <1>9 DEF WindowInv, WindowType

LEMMA ForgetInWindow ==
    ASSUME WindowInv, NEW t \in Thread, Monitor!ForgetOutcome(t)
    PROVE  WindowInv'
<1>1. t \in Scorers /\ t \notin Evicting /\ UNCHANGED <<scores, requests>>
  BY DEF Monitor!ForgetOutcome, Scorers, Evicting, Monitor!Scoring
<1>2. [at |-> "window"] \in WorkerState
  BY DEF WorkerState
<1>3. worker' \in [Thread -> WorkerState] /\ Scorers' = Scorers /\ Evicting' = Evicting
  <2> DEFINE state == [at |-> "window"]
  <2>1. state.at = "window" /\ state \in WorkerState /\ Monitor!Goto(t, state) /\ WindowType
    BY <1>2 DEF Monitor!ForgetOutcome, WindowInv
  <2> HIDE DEF state
  <2>2. /\ worker' \in [Thread -> WorkerState] /\ Scorers' = Scorers \cup {t}
        /\ Evicting' = Evicting \ {t}
    BY <2>1, Goes
  <2> QED
    BY <1>1, <2>2
<1> QED
  BY <1>1, <1>3 DEF WindowInv, WindowType

(* The requests that deliver outcomes or report leave the window as it is. *)
LEMMA OutcomeInWindow ==
    ASSUME WindowInv, NEW t \in Thread,
           Monitor!IngestOutcome(t) \/ Monitor!ReadExisting(t) \/ Monitor!JoinOutcome(t)
              \/ Monitor!RecordCalibration(t)
    PROVE  WindowInv'
<1>1. ~Monitor!Scoring(t) /\ scores' = scores /\ requests' \in Nat
  BY DEF Monitor!IngestOutcome, Monitor!ReadExisting, Monitor!JoinOutcome, Monitor!RecordCalibration,
     Monitor!Begin, Monitor!Idle, Monitor!Scoring, WindowInv, WindowType
<1>2. Monitor!Idle \in WorkerState
  BY DEF Monitor!Idle, WorkerState
<1>3. \A state \in [at : {"existing", "join", "calibrate"}, key : Key, score : Score,
                    payload : Monitor!Payload] :
        /\ state \in WorkerState /\ state.at \notin {"window", "evict", "forget"}
        /\ state.score \in Score
        /\ \A at \in {"join", "calibrate"} :
              LET next == [state EXCEPT !.at = at] IN
              next \in WorkerState /\ next.at \notin {"window", "evict", "forget"}
  BY DEF WorkerState
<1>4. worker[t].at \in {"existing", "join", "calibrate"} =>
        worker[t] \in [at : {"existing", "join", "calibrate"}, key : Key, score : Score,
                       payload : Monitor!Payload]
  BY DEF WindowInv, WindowType, WorkerState
<1>5. \E state \in WorkerState :
        Monitor!Goto(t, state) /\ state.at \notin {"window", "evict", "forget"}
  <2>1. CASE Monitor!IngestOutcome(t)
    <3>1. PICK k \in Key, payload \in Monitor!Payload :
            Monitor!Goto(t, IF Monitor!Retained(k)
                            THEN [at |-> "existing", key |-> k, score |-> Monitor!ScoreOf(k),
                                  payload |-> payload]
                            ELSE Monitor!Idle)
      BY <2>1 DEF Monitor!IngestOutcome
    <3>2. Monitor!Retained(k) => Monitor!ScoreOf(k) \in Score
      BY PlaceOf, MembersType DEF WindowInv, WindowType
    <3>3. Monitor!Retained(k) =>
            [at |-> "existing", key |-> k, score |-> Monitor!ScoreOf(k), payload |-> payload]
              \in [at : {"existing", "join", "calibrate"}, key : Key, score : Score,
                   payload : Monitor!Payload]
      BY <3>2
    <3> QED
      BY <1>2, <1>3, <3>1, <3>3 DEF Monitor!Idle
  <2>2. CASE Monitor!ReadExisting(t)
    BY <1>2, <1>3, <1>4, <2>2 DEF Monitor!ReadExisting, Monitor!Idle
  <2>3. CASE Monitor!JoinOutcome(t)
    BY <1>3, <1>4, <2>3 DEF Monitor!JoinOutcome
  <2>4. CASE Monitor!RecordCalibration(t)
    BY <1>2, <2>4 DEF Monitor!RecordCalibration, Monitor!Idle
  <2> QED
    BY <2>1, <2>2, <2>3, <2>4
<1> QED
  BY <1>1, <1>5, WindowRests

LEMMA ReportInWindow ==
    ASSUME WindowInv, NEW t \in Thread,
           Monitor!BeginReport(t) \/ Monitor!ComputeDrift(t) \/ Monitor!FinishReport(t)
    PROVE  WindowInv'
<1>1. ~Monitor!Scoring(t) /\ scores' = scores /\ requests' \in Nat
  BY DEF Monitor!BeginReport, Monitor!ComputeDrift, Monitor!FinishReport, Monitor!Begin, Monitor!Idle,
     Monitor!Scoring, WindowInv, WindowType
<1>2. Monitor!Idle \in WorkerState /\ Monitor!Idle.at = "idle"
  BY DEF Monitor!Idle, WorkerState
<1>3. \A drift \in Monitor!DriftStatus \cup {"none"} :
        [at |-> "report", drift |-> drift] \in WorkerState
  BY DEF WorkerState
<1>4. Monitor!Keys \in Seq(Key)
  <2>1. scores \in Seq(Score) /\ DOMAIN scores = 1 .. Len(scores) /\ Len(scores) \in Nat
    BY DEF WindowInv, WindowType
  <2>2. \A i \in 1 .. Len(scores) : scores[i] \in Score
    BY <2>1
  <2>3. \A i \in 1 .. Len(scores) : scores[i].key \in Key
    BY <2>2 DEF Score
  <2>4. Monitor!Keys = [i \in 1 .. Len(scores) |-> scores[i].key]
    BY <2>1 DEF Monitor!Keys
  <2> QED
    BY <2>1, <2>3, <2>4
<1>5. [at |-> "iterate", keys |-> Monitor!Keys] \in WorkerState
  BY <1>4 DEF WorkerState
<1>6. \E state \in WorkerState :
        Monitor!Goto(t, state) /\ state.at \notin {"window", "evict", "forget"}
  <2>1. CASE Monitor!BeginReport(t)
    BY <1>3, <1>5, <2>1 DEF Monitor!BeginReport
  <2>2. CASE Monitor!ComputeDrift(t)
    <3>1. CASE Monitor!Keys # worker[t].keys
      BY <1>2, <2>2, <3>1 DEF Monitor!ComputeDrift
    <3>2. CASE ~(Monitor!Keys # worker[t].keys)
      <4>1. PICK drift \in Monitor!DriftStatus : Monitor!Goto(t, [at |-> "report", drift |-> drift])
        BY <2>2, <3>2 DEF Monitor!ComputeDrift
      <4> QED
        BY <1>3, <4>1
    <3> QED
      BY <3>1, <3>2
  <2>3. CASE Monitor!FinishReport(t)
    BY <1>2, <2>3 DEF Monitor!FinishReport
  <2> QED
    BY <2>1, <2>2, <2>3
<1> QED
  BY <1>1, <1>6, WindowRests

LEMMA WindowStep ==
    ASSUME WindowInv, [Monitor!Next]_Monitor!vars
    PROVE  WindowInv'
<1>1. CASE UNCHANGED Monitor!vars
  BY <1>1 DEF Monitor!vars, WindowInv, WindowType, Scorers, Evicting, Monitor!Scoring
<1>2. CASE Monitor!Next
  BY <1>2, RecordScoreInWindow, CompareInWindow, EvictInWindow, ForgetInWindow, OutcomeInWindow,
     ReportInWindow DEF Monitor!Next
<1> QED
  BY <1>1, <1>2

LEMMA WindowSafe == ASSUME WindowInv PROVE Monitor!WindowHolds
<1>1. ASSUME \A t \in Thread : ~Monitor!Scoring(t) PROVE Len(scores) <= ScoreWindow
  <2>1. Scorers = {}
    BY <1>1 DEF Scorers
  <2> QED
    BY <2>1, FS_EmptySet, Pool DEF WindowInv
<1>2. \A t \in Thread : worker[t].at = "evict" => scores # <<>>
  BY SomeToEvict DEF Evicting
<1> QED
  BY <1>1, <1>2 DEF Monitor!WindowHolds, WindowInv, WindowType, Distinct

(* DriftMonitor: for any window and any pool of at most a thread more than it holds scores,
   however the scorers interleave, the window is back within its size when none of them is
   at work, holds a key once, and nobody pops from an empty one. *)
THEOREM TheWindowHolds == Monitor!Spec => []WindowHolds
<1>1. WindowInv => WindowHolds
  BY WindowSafe DEF WindowHolds
<1> QED
  BY <1>1, WindowStarts, WindowStep, PTL DEF Monitor!Spec
-----------------------------------------------------------------------------
(* DriftMonitor: with one request at a time, a retained score has its outcome exactly when
   it was counted, but for the moment between the two; and an outcome has its score, but for
   the moment in which both leave. *)
Counts(k, since) == \E i \in DOMAIN recorded : recorded[i].key = k /\ recorded[i].since = since
Counted == [key : Key, since : Nat, prediction : Prediction, outcome : {0, 1}]
Calibrating(k) == \E t \in Thread : worker[t].at = "calibrate" /\ worker[t].key = k
Forgetting(k) == \E t \in Thread : worker[t].at = "forget" /\ worker[t].key = k

Delivers(t) ==
    /\ worker[t].at \in {"existing", "join", "calibrate"} =>
          worker[t].score \in Members(scores) /\ worker[t].score.key = worker[t].key
    /\ worker[t].at = "join" => worker[t].key \notin DOMAIN outcomes
    /\ worker[t].at = "calibrate" => worker[t].key \in DOMAIN outcomes
    /\ worker[t].at = "forget" => \A s \in Members(scores) : s.key # worker[t].key

CountedOnce ==
    \A i, j \in DOMAIN recorded :
        recorded[i].key = recorded[j].key /\ recorded[i].since = recorded[j].since => i = j

JoinHolds ==
    /\ CountedOnce
    /\ \A i \in DOMAIN recorded : recorded[i].since < requests
    /\ \A s \in Members(scores) : s.since < requests
    /\ \A s \in Members(scores) :
          Counts(s.key, s.since) <=> s.key \in DOMAIN outcomes /\ ~Calibrating(s.key)
    /\ \A k \in DOMAIN outcomes : Monitor!Retained(k) \/ Forgetting(k)
    /\ \A t \in Thread : Delivers(t)

JoinInv ==
    /\ MonitorInv /\ WindowInv
    /\ recorded \in Seq(Counted)
    /\ context = "serial" => JoinHolds

RetainedMembers == \A k : Monitor!Retained(k) <=> \E s \in Members(scores) : s.key = k

LEMMA RetainedAre == RetainedMembers
BY DEF RetainedMembers, Monitor!Retained, Members

LEMMA OneScore ==
    ASSUME Distinct(scores), NEW r \in Members(scores), NEW s \in Members(scores), r.key = s.key
    PROVE  r = s
BY DEF Distinct, Members

(* The request that is served is the only one. *)
Alone(t) ==
    /\ \A u \in Thread \ {t} : worker[u] = Monitor!Idle /\ worker'[u] = Monitor!Idle
    /\ \A k : Calibrating(k) <=> worker[t].at = "calibrate" /\ worker[t].key = k
    /\ \A k : Forgetting(k) <=> worker[t].at = "forget" /\ worker[t].key = k
    /\ \A k : Calibrating(k)' <=> worker'[t].at = "calibrate" /\ worker'[t].key = k
    /\ \A k : Forgetting(k)' <=> worker'[t].at = "forget" /\ worker'[t].key = k

LEMMA ServedAlone ==
    ASSUME MonitorInv, context = "serial", NEW t \in Thread,
           \A u \in Thread \ {t} : worker'[u] = worker[u],
           worker[t] # Monitor!Idle \/ Monitor!Begin(t)
    PROVE  Alone(t)
<1>1. ASSUME NEW u \in Thread \ {t} PROVE worker[u] = Monitor!Idle
  BY <1>1 DEF MonitorInv, OneAtATime, Monitor!Begin
<1>2. Monitor!Idle.at = "idle"
  BY DEF Monitor!Idle
<1> QED
  BY <1>1, <1>2 DEF Alone, Calibrating, Forgetting

(* What every step gives: t went to some state of its own. *)
Moves(t, state) ==
    /\ Monitor!Goto(t, state)
    /\ context' = context
    /\ worker[t] # Monitor!Idle \/ Monitor!Begin(t)
    /\ "at" \in DOMAIN state

LEMMA MovesAlone ==
    ASSUME MonitorInv, context = "serial", NEW t \in Thread, NEW state, Moves(t, state)
    PROVE  Alone(t) /\ worker'[t] = state
<1>1. Steps(t) /\ worker'[t] = state
  BY GotoSteps DEF Moves
<1> QED
  BY <1>1, ServedAlone DEF Moves, Steps

LEMMA OthersDeliver ==
    ASSUME NEW t \in Thread, Alone(t), Delivers(t)'
    PROVE  \A u \in Thread : Delivers(u)'
BY DEF Alone, Delivers, Monitor!Idle

(* A step that neither stores nor counts nor changes the window. *)
LEMMA JoinRests ==
    ASSUME JoinHolds, NEW t \in Thread, Alone(t),
           UNCHANGED <<scores, outcomes, recorded>>, requests \in Nat,
           requests' = requests \/ requests' = requests + 1,
           recorded \in Seq(Counted),
           scores \in Seq(Score),
           worker[t].at \notin {"calibrate", "forget"}, worker'[t].at \notin {"calibrate", "forget"},
           Delivers(t)'
    PROVE  JoinHolds'
<1>1. \A k : ~Calibrating(k) /\ ~Forgetting(k) /\ ~Calibrating(k)' /\ ~Forgetting(k)'
  BY DEF Alone
<1>2. \A u \in Thread : Delivers(u)'
  BY OthersDeliver
<1>3. \A k, since : Counts(k, since)' <=> Counts(k, since)
  BY DEF Counts
<1>4. \A s \in Members(scores) : s.since < requests'
  <2>1. \A s \in Members(scores) : s.since \in Nat
    BY MembersType DEF Score
  <2> QED
    BY <2>1 DEF JoinHolds
<1>5. \A i \in DOMAIN recorded : recorded[i].since < requests'
  <2>1. \A i \in DOMAIN recorded : recorded[i].since \in Nat
    <3>1. \A i \in DOMAIN recorded : recorded[i] \in Counted
      OBVIOUS
    <3> QED
      BY <3>1 DEF Counted
  <2> QED
    BY <2>1 DEF JoinHolds
<1>6. CountedOnce' /\ Members(scores)' = Members(scores)
  BY DEF JoinHolds, CountedOnce, Members
<1>7. \A k \in DOMAIN outcomes : Monitor!Retained(k)'
  BY <1>1 DEF JoinHolds, Monitor!Retained
<1> QED
  BY <1>1, <1>2, <1>3, <1>4, <1>5, <1>6, <1>7 DEF JoinHolds

LEMMA JoinTypes ==
    ASSUME JoinInv
    PROVE  /\ MonitorInv /\ WindowInv /\ WindowType
           /\ recorded \in Seq(Counted) /\ scores \in Seq(Score) /\ Distinct(scores)
           /\ requests \in Nat /\ worker \in [Thread -> WorkerState]
           /\ \A s \in Members(scores) : s.since \in Nat /\ s.key \in Key
           /\ \A i \in DOMAIN recorded : recorded[i].since \in Nat
<1>1. \A s \in Members(scores) : s \in Score
  BY MembersType DEF JoinInv, WindowInv, WindowType
<1>2. \A i \in DOMAIN recorded : recorded[i] \in Counted
  BY DEF JoinInv
<1> QED
  BY <1>1, <1>2 DEF JoinInv, WindowInv, WindowType, Score, Counted

LEMMA RecordScoreJoins ==
    ASSUME JoinInv, JoinHolds, NEW t \in Thread, Monitor!RecordScore(t),
           Moves(t, [at |-> "window"]), context = "serial"
    PROVE  JoinHolds'
<1>1. Alone(t) /\ worker'[t].at = "window" /\ worker[t].at = "idle"
  BY JoinTypes, MovesAlone DEF Monitor!RecordScore, Monitor!Begin, Monitor!Idle
<1>2. \A k : ~Calibrating(k) /\ ~Forgetting(k) /\ ~Calibrating(k)' /\ ~Forgetting(k)'
  BY <1>1 DEF Alone
<1>3. PICK key \in Key, p \in Prediction : scores' = Monitor!Insert(key, p)
  BY DEF Monitor!RecordScore
<1> DEFINE since == IF Monitor!Retained(key) THEN Monitor!ScoreOf(key).since ELSE requests
           new == [key |-> key, prediction |-> p, since |-> since]
<1>4. Members(scores') = {s \in Members(scores) : s.key # key} \cup {new}
  BY <1>3, InsertLeaves, JoinTypes
<1>5. new.key = key /\ new.since = since /\ since \in Nat /\ since < requests + 1
  <2>1. Monitor!Retained(key) => Monitor!ScoreOf(key) \in Members(scores)
    BY PlaceOf
  <2>2. Monitor!Retained(key) => since \in Nat /\ since < requests
    BY <2>1, JoinTypes DEF JoinHolds
  <2> QED
    BY <2>2, JoinTypes
<1>6. requests' = requests + 1 /\ outcomes' = outcomes /\ recorded' = recorded /\ requests \in Nat
  BY JoinTypes DEF Monitor!RecordScore, Monitor!Begin
<1>7. Counts(key, since) <=> key \in DOMAIN outcomes
  <2>1. CASE Monitor!Retained(key)
    BY <1>2, <2>1, PlaceOf DEF JoinHolds
  <2>2. CASE ~Monitor!Retained(key)
    <3>1. key \notin DOMAIN outcomes
      BY <1>2, <2>2 DEF JoinHolds
    <3>2. \A i \in DOMAIN recorded : recorded[i].since \in Nat /\ recorded[i].since < requests
      BY JoinTypes DEF JoinHolds
    <3>3. ~Counts(key, requests)
      BY <1>6, <3>2 DEF Counts
    <3> QED
      BY <2>2, <3>1, <3>3
  <2> QED
    BY <2>1, <2>2
<1> HIDE DEF new, since
<1>8. Members(scores)' = {s \in Members(scores) : s.key # key} \cup {new}
  BY <1>4 DEF Members
<1>9. \A k, from : Counts(k, from)' <=> Counts(k, from)
  BY <1>6 DEF Counts
<1>10. \A s \in Members(scores)' : Counts(s.key, s.since)' <=> s.key \in DOMAIN outcomes'
  BY <1>2, <1>5, <1>6, <1>7, <1>8, <1>9 DEF JoinHolds
<1>11. \A k \in DOMAIN outcomes' : Monitor!Retained(k)'
  <2> SUFFICES ASSUME NEW k \in DOMAIN outcomes PROVE \E s \in Members(scores)' : s.key = k
    BY <1>6 DEF Members, Monitor!Retained
  <2>1. PICK s \in Members(scores) : s.key = k
    BY <1>2, RetainedAre DEF JoinHolds, RetainedMembers
  <2> QED
    BY <1>5, <1>8, <2>1
<1>12. \A s \in Members(scores)' : s.since < requests'
  <2>1. \A s \in Members(scores) : s.since \in Nat /\ s.since < requests
    BY JoinTypes DEF JoinHolds
  <2> QED
    BY <1>5, <1>6, <1>8, <2>1
<1>13. \A i \in DOMAIN recorded' : recorded'[i].since < requests'
  <2>1. \A i \in DOMAIN recorded : recorded[i].since \in Nat /\ recorded[i].since < requests
    BY JoinTypes DEF JoinHolds
  <2> QED
    BY <1>6, <2>1
<1>14. \A u \in Thread : Delivers(u)'
  BY <1>1, OthersDeliver DEF Delivers
<1>15. CountedOnce'
  BY <1>6 DEF JoinHolds, CountedOnce
<1> QED
  BY <1>2, <1>10, <1>11, <1>12, <1>13, <1>14, <1>15 DEF JoinHolds

LEMMA EvictJoins ==
    ASSUME JoinInv, JoinHolds, NEW t \in Thread, Monitor!Evict(t),
           Moves(t, [at |-> "forget", key |-> Head(scores).key]), context = "serial"
    PROVE  JoinHolds'
<1> DEFINE gone == Head(scores).key
<1>1. Alone(t) /\ worker'[t].at = "forget" /\ worker'[t].key = gone /\ worker[t].at = "evict"
  BY JoinTypes, MovesAlone DEF Monitor!Evict
<1>2. \A k : ~Calibrating(k) /\ ~Forgetting(k) /\ ~Calibrating(k)' /\ (Forgetting(k)' <=> k = gone)
  BY <1>1 DEF Alone
<1>3. Members(scores)' = {s \in Members(scores) : s.key # gone}
  <2>1. scores # <<>>
    BY <1>1, SomeToEvict, JoinTypes DEF Evicting
  <2>2. Members(Tail(scores)) = {s \in Members(scores) : s.key # gone}
    BY <2>1, TailLeaves, JoinTypes
  <2> QED
    BY <2>2 DEF Monitor!Evict, Members
<1> HIDE DEF gone
<1>4. UNCHANGED <<outcomes, recorded, requests>>
  BY DEF Monitor!Evict
<1>5. \A k, from : Counts(k, from)' <=> Counts(k, from)
  BY <1>4 DEF Counts
<1>6. \A s \in Members(scores)' : Counts(s.key, s.since)' <=> s.key \in DOMAIN outcomes'
  BY <1>2, <1>3, <1>4, <1>5 DEF JoinHolds
<1>7. \A k \in DOMAIN outcomes' : Monitor!Retained(k)' \/ Forgetting(k)'
  <2> SUFFICES ASSUME NEW k \in DOMAIN outcomes, k # gone PROVE \E s \in Members(scores)' : s.key = k
    BY <1>2, <1>4 DEF Members, Monitor!Retained
  <2>1. PICK s \in Members(scores) : s.key = k
    BY <1>2, RetainedAre DEF JoinHolds, RetainedMembers
  <2> QED
    BY <1>3, <2>1
<1>8. \A u \in Thread : Delivers(u)'
  <2>1. Delivers(t)'
    BY <1>1, <1>3 DEF Delivers
  <2> QED
    BY <1>1, <2>1, OthersDeliver
<1>9. CountedOnce' /\ (\A i \in DOMAIN recorded' : recorded'[i].since < requests')
      /\ \A s \in Members(scores)' : s.since < requests'
  BY <1>3, <1>4 DEF JoinHolds, CountedOnce
<1> QED
  BY <1>2, <1>6, <1>7, <1>8, <1>9 DEF JoinHolds

LEMMA ForgetJoins ==
    ASSUME JoinInv, JoinHolds, NEW t \in Thread, Monitor!ForgetOutcome(t),
           Moves(t, [at |-> "window"]), context = "serial"
    PROVE  JoinHolds'
<1> DEFINE gone == worker[t].key
<1>1. Alone(t) /\ worker'[t].at = "window" /\ worker[t].at = "forget"
  BY JoinTypes, MovesAlone DEF Monitor!ForgetOutcome
<1>2. \A k : ~Calibrating(k) /\ (Forgetting(k) <=> k = gone) /\ ~Calibrating(k)' /\ ~Forgetting(k)'
  BY <1>1 DEF Alone
<1>3. UNCHANGED <<scores, recorded, requests>> /\ DOMAIN outcomes' = DOMAIN outcomes \ {gone}
  BY DEF Monitor!ForgetOutcome, Monitor!Restrict
<1>4. \A s \in Members(scores) : s.key # gone
  BY <1>1 DEF JoinHolds, Delivers
<1> HIDE DEF gone
<1>5. Members(scores)' = Members(scores) /\ \A k : Monitor!Retained(k)' <=> Monitor!Retained(k)
  BY <1>3 DEF Members, Monitor!Retained
<1>6. \A k, from : Counts(k, from)' <=> Counts(k, from)
  BY <1>3 DEF Counts
<1>7. \A s \in Members(scores)' : Counts(s.key, s.since)' <=> s.key \in DOMAIN outcomes'
  BY <1>2, <1>3, <1>4, <1>5, <1>6 DEF JoinHolds
<1>8. \A k \in DOMAIN outcomes' : Monitor!Retained(k)'
  BY <1>2, <1>3, <1>5 DEF JoinHolds
<1>9. \A u \in Thread : Delivers(u)'
  BY <1>1, OthersDeliver DEF Delivers
<1>10. CountedOnce' /\ (\A i \in DOMAIN recorded' : recorded'[i].since < requests')
      /\ \A s \in Members(scores)' : s.since < requests'
  BY <1>3, <1>5 DEF JoinHolds, CountedOnce
<1> QED
  BY <1>2, <1>7, <1>8, <1>9, <1>10 DEF JoinHolds

LEMMA JoinOutcomeJoins ==
    ASSUME JoinInv, JoinHolds, NEW t \in Thread, Monitor!JoinOutcome(t),
           Moves(t, [worker[t] EXCEPT !.at = "calibrate"]), context = "serial"
    PROVE  JoinHolds'
<1> DEFINE key == worker[t].key
           score == worker[t].score
<1>1. worker[t].at = "join"
      /\ worker[t] \in [at : {"existing", "join", "calibrate"}, key : Key, score : Score,
                        payload : Monitor!Payload]
  BY JoinTypes DEF Monitor!JoinOutcome, WorkerState
<1>2. Alone(t) /\ worker'[t].at = "calibrate" /\ worker'[t].key = key /\ worker'[t].score = score
  BY <1>1, JoinTypes, MovesAlone
<1>3. \A k : ~Calibrating(k) /\ ~Forgetting(k) /\ (Calibrating(k)' <=> k = key) /\ ~Forgetting(k)'
  BY <1>1, <1>2 DEF Alone
<1>4. UNCHANGED <<scores, recorded, requests>> /\ DOMAIN outcomes' = DOMAIN outcomes \cup {key}
  BY DEF Monitor!JoinOutcome
<1>5. key \notin DOMAIN outcomes /\ score \in Members(scores) /\ score.key = key
  BY <1>1 DEF JoinHolds, Delivers
<1> HIDE DEF key, score
<1>6. Members(scores)' = Members(scores) /\ \A k : Monitor!Retained(k)' <=> Monitor!Retained(k)
  BY <1>4 DEF Members, Monitor!Retained
<1>7. \A k, from : Counts(k, from)' <=> Counts(k, from)
  BY <1>4 DEF Counts
<1>8. \A s \in Members(scores)' :
        Counts(s.key, s.since)' <=> s.key \in DOMAIN outcomes' /\ ~Calibrating(s.key)'
  BY <1>3, <1>4, <1>5, <1>6, <1>7 DEF JoinHolds
<1>9. \A k \in DOMAIN outcomes' : Monitor!Retained(k)'
  BY <1>3, <1>4, <1>5, <1>6, RetainedAre DEF JoinHolds, RetainedMembers
<1>10. \A u \in Thread : Delivers(u)'
  <2>1. Delivers(t)'
    BY <1>2, <1>4, <1>5, <1>6 DEF Delivers
  <2> QED
    BY <1>2, <2>1, OthersDeliver
<1>11. CountedOnce' /\ (\A i \in DOMAIN recorded' : recorded'[i].since < requests')
      /\ \A s \in Members(scores)' : s.since < requests'
  BY <1>4, <1>6 DEF JoinHolds, CountedOnce
<1> QED
  BY <1>8, <1>9, <1>10, <1>11 DEF JoinHolds

LEMMA CalibrationJoins ==
    ASSUME JoinInv, JoinHolds, NEW t \in Thread, Monitor!RecordCalibration(t),
           Moves(t, Monitor!Idle), context = "serial"
    PROVE  JoinHolds'
<1> DEFINE key == worker[t].key
           since == worker[t].score.since
           counted == [key |-> key, since |-> since, prediction |-> worker[t].score.prediction,
                       outcome |-> worker[t].payload.outcome]
<1>1. worker[t].at = "calibrate" /\ UNCHANGED <<scores, outcomes, requests>>
      /\ recorded' = Append(recorded, counted)
  BY DEF Monitor!RecordCalibration
<1>2. Alone(t) /\ worker'[t].at = "idle"
  BY JoinTypes, MovesAlone DEF Monitor!Idle
<1>3. \A k : (Calibrating(k) <=> k = key) /\ ~Forgetting(k) /\ ~Calibrating(k)' /\ ~Forgetting(k)'
  BY <1>1, <1>2 DEF Alone
<1>4. key \in DOMAIN outcomes /\ worker[t].score \in Members(scores) /\ worker[t].score.key = key
  BY <1>1 DEF JoinHolds, Delivers
<1>5. ~Counts(key, since)
  BY <1>3, <1>4 DEF JoinHolds
<1>6. counted.key = key /\ counted.since = since
  OBVIOUS
<1>7. \A s \in Members(scores) : s.key = key => s.since = since
  BY <1>4, OneScore, JoinTypes
<1> HIDE DEF counted, key, since
<1>8. /\ DOMAIN recorded' = DOMAIN recorded \cup {Len(recorded) + 1}
      /\ Len(recorded) + 1 \notin DOMAIN recorded
      /\ recorded'[Len(recorded) + 1] = counted
      /\ \A i \in DOMAIN recorded : recorded'[i] = recorded[i]
  <2>1. recorded \in Seq(Counted) /\ Len(recorded) \in Nat /\ DOMAIN recorded = 1 .. Len(recorded)
    BY JoinTypes
  <2>2. DOMAIN recorded' = 1 .. Len(recorded) + 1
    BY <1>1, <2>1
  <2> QED
    BY <1>1, <2>1, <2>2
<1>9. CountedOnce'
  BY <1>5, <1>6, <1>8 DEF JoinHolds, CountedOnce, Counts
<1>10. \A k, from : Counts(k, from)' <=> Counts(k, from) \/ (k = key /\ from = since)
  BY <1>6, <1>8 DEF Counts
<1>11. Members(scores)' = Members(scores) /\ \A k : Monitor!Retained(k)' <=> Monitor!Retained(k)
  BY <1>1 DEF Members, Monitor!Retained
<1>12. \A s \in Members(scores)' : Counts(s.key, s.since)' <=> s.key \in DOMAIN outcomes'
  <2> SUFFICES ASSUME NEW s \in Members(scores)
               PROVE  Counts(s.key, s.since)' <=> s.key \in DOMAIN outcomes
    BY <1>1, <1>11
  <2>1. CASE s.key = key
    BY <1>4, <1>7, <1>10, <2>1
  <2>2. CASE s.key # key
    <3>1. Counts(s.key, s.since)' <=> Counts(s.key, s.since)
      BY <1>10, <2>2
    <3> QED
      BY <1>3, <2>2, <3>1 DEF JoinHolds
  <2> QED
    BY <2>1, <2>2
<1>13. since < requests'
  BY <1>1, <1>4, <1>7 DEF JoinHolds
<1>14. \A i \in DOMAIN recorded' : recorded'[i].since < requests'
  BY <1>1, <1>6, <1>8, <1>13 DEF JoinHolds
<1>15. \A u \in Thread : Delivers(u)'
  BY <1>2, OthersDeliver DEF Delivers
<1>16. \A k \in DOMAIN outcomes' : Monitor!Retained(k)'
  BY <1>1, <1>3, <1>11 DEF JoinHolds
<1>17. \A s \in Members(scores)' : s.since < requests'
  BY <1>1, <1>11 DEF JoinHolds
<1> QED
  BY <1>3, <1>9, <1>12, <1>14, <1>15, <1>16, <1>17 DEF JoinHolds

(* Requests that only read, and those that change nothing more. *)
LEMMA ReadsJoin ==
    ASSUME JoinInv, JoinHolds, NEW t \in Thread, context = "serial",
           Monitor!CompareWindow(t) \/ Monitor!IngestOutcome(t) \/ Monitor!ReadExisting(t)
              \/ Monitor!BeginReport(t) \/ Monitor!ComputeDrift(t) \/ Monitor!FinishReport(t)
    PROVE  JoinHolds'
<1>1. UNCHANGED <<scores, outcomes, recorded, context>>
      /\ (requests' = requests \/ requests' = requests + 1)
      /\ worker[t].at \notin {"calibrate", "forget"}
      /\ (worker[t] # Monitor!Idle \/ Monitor!Begin(t))
  BY DEF Monitor!CompareWindow, Monitor!IngestOutcome, Monitor!ReadExisting, Monitor!BeginReport,
     Monitor!ComputeDrift, Monitor!FinishReport, Monitor!Begin, Monitor!Idle
<1>2. Members(scores)' = Members(scores)
  BY <1>1 DEF Members
<1>3. ASSUME NEW state, Monitor!Goto(t, state), "at" \in DOMAIN state,
             state.at \notin {"calibrate", "forget"},
             state.at \in {"existing", "join"} =>
                state.score \in Members(scores) /\ state.score.key = state.key,
             state.at = "join" => state.key \notin DOMAIN outcomes
      PROVE  JoinHolds'
  <2>1. Moves(t, state)
    BY <1>1, <1>3 DEF Moves
  <2>2. Alone(t) /\ worker'[t] = state
    BY <2>1, MovesAlone, JoinTypes
  <2>3. Delivers(t)'
    BY <1>1, <1>2, <1>3, <2>2 DEF Delivers
  <2> QED
    BY <1>1, <1>3, <2>2, <2>3, JoinRests, JoinTypes
<1>4. ASSUME NEW at \in {"idle", "evict", "iterate", "report"}, NEW state, Monitor!Goto(t, state),
             "at" \in DOMAIN state, state.at = at
      PROVE  JoinHolds'
  BY <1>3, <1>4
<1>5. Monitor!Idle.at = "idle" /\ "at" \in DOMAIN Monitor!Idle
  BY DEF Monitor!Idle
<1>6. CASE Monitor!CompareWindow(t)
  <2>1. CASE Monitor!Goto(t, Monitor!Idle)
    BY <1>4, <1>5, <2>1
  <2>2. CASE Monitor!Goto(t, [at |-> "evict"])
    BY <1>4, <2>2
  <2> QED
    BY <1>6, <2>1, <2>2 DEF Monitor!CompareWindow
<1>7. CASE Monitor!IngestOutcome(t)
  <2>1. PICK k \in Key, payload \in Monitor!Payload :
          Monitor!Goto(t, IF Monitor!Retained(k)
                          THEN [at |-> "existing", key |-> k, score |-> Monitor!ScoreOf(k),
                                payload |-> payload]
                          ELSE Monitor!Idle)
    BY <1>7 DEF Monitor!IngestOutcome
  <2>2. CASE ~Monitor!Retained(k)
    BY <1>4, <1>5, <2>1, <2>2
  <2>3. CASE Monitor!Retained(k)
    <3> DEFINE state == [at |-> "existing", key |-> k, score |-> Monitor!ScoreOf(k),
                         payload |-> payload]
    <3>1. Monitor!ScoreOf(k) \in Members(scores) /\ Monitor!ScoreOf(k).key = k
      BY <2>3, PlaceOf
    <3>2. Monitor!Goto(t, state) /\ "at" \in DOMAIN state /\ state.at = "existing"
          /\ state.score = Monitor!ScoreOf(k) /\ state.key = k
      BY <2>1, <2>3
    <3> HIDE DEF state
    <3> QED
      BY <1>3, <3>1, <3>2
  <2> QED
    BY <2>2, <2>3
<1>8. CASE Monitor!ReadExisting(t)
  <2>1. CASE Monitor!Goto(t, Monitor!Idle)
    BY <1>4, <1>5, <2>1
  <2>2. CASE worker[t].key \notin DOMAIN outcomes
    <3> DEFINE state == [worker[t] EXCEPT !.at = "join"]
    <3>1. worker[t] \in [at : {"existing", "join", "calibrate"}, key : Key, score : Score,
                         payload : Monitor!Payload] /\ worker[t].at = "existing"
      BY <1>8, JoinTypes DEF Monitor!ReadExisting, WorkerState
    <3>2. Monitor!Goto(t, state)
      BY <1>8, <2>2 DEF Monitor!ReadExisting
    <3>3. "at" \in DOMAIN state /\ state.at = "join" /\ state.key = worker[t].key
          /\ state.score = worker[t].score
      BY <3>1
    <3>4. worker[t].score \in Members(scores) /\ worker[t].score.key = worker[t].key
      BY <3>1 DEF JoinHolds, Delivers
    <3> HIDE DEF state
    <3> QED
      BY <1>3, <2>2, <3>2, <3>3, <3>4
  <2> QED
    BY <1>8, <2>1, <2>2 DEF Monitor!ReadExisting
<1>9. CASE Monitor!BeginReport(t)
  <2>1. CASE Monitor!Goto(t, [at |-> "iterate", keys |-> Monitor!Keys])
    BY <1>4, <2>1
  <2>2. CASE Monitor!Goto(t, [at |-> "report", drift |-> "none"])
    BY <1>4, <2>2
  <2> QED
    BY <1>9, <2>1, <2>2 DEF Monitor!BeginReport
<1>10. CASE Monitor!ComputeDrift(t)
  <2>1. CASE Monitor!Goto(t, Monitor!Idle)
    BY <1>4, <1>5, <2>1
  <2>2. CASE \E drift \in Monitor!DriftStatus : Monitor!Goto(t, [at |-> "report", drift |-> drift])
    BY <1>4, <2>2
  <2> QED
    BY <1>10, <2>1, <2>2 DEF Monitor!ComputeDrift
<1>11. CASE Monitor!FinishReport(t)
  BY <1>4, <1>5, <1>11 DEF Monitor!FinishReport
<1> QED
  BY <1>6, <1>7, <1>8, <1>9, <1>10, <1>11

LEMMA JoinStarts == Monitor!Init => JoinInv
<1> SUFFICES ASSUME Monitor!Init PROVE JoinInv
  OBVIOUS
<1>1. MonitorInv /\ WindowInv
  BY MonitorStarts, WindowStarts
<1>2. recorded = <<>> /\ recorded \in Seq(Counted) /\ scores = <<>> /\ DOMAIN outcomes = {}
  BY DEF Monitor!Init
<1>3. Members(scores) = {} /\ DOMAIN recorded = {}
  BY <1>2 DEF Members
<1>4. \A t \in Thread : worker[t].at = "idle"
  BY DEF Monitor!Init, Monitor!Idle
<1>5. JoinHolds
  BY <1>2, <1>3, <1>4 DEF JoinHolds, CountedOnce, Delivers
<1> QED
  BY <1>1, <1>2, <1>5 DEF JoinInv

LEMMA JoinStep ==
    ASSUME JoinInv, [Monitor!Next]_Monitor!vars
    PROVE  JoinInv'
<1>1. MonitorInv' /\ WindowInv'
  BY MonitorStep, WindowStep DEF JoinInv
<1>2. recorded' \in Seq(Counted)
  <2>1. CASE UNCHANGED recorded
    BY <2>1 DEF JoinInv
  <2>2. CASE \E t \in Thread : Monitor!RecordCalibration(t)
    <3>1. PICK t \in Thread : Monitor!RecordCalibration(t)
      BY <2>2
    <3>2. worker[t].at = "calibrate"
          /\ worker[t] \in [at : {"existing", "join", "calibrate"}, key : Key, score : Score,
                            payload : Monitor!Payload]
      BY <3>1, JoinTypes DEF Monitor!RecordCalibration, WorkerState
    <3>3. [key |-> worker[t].key, since |-> worker[t].score.since,
           prediction |-> worker[t].score.prediction, outcome |-> worker[t].payload.outcome]
            \in Counted
      BY <3>2 DEF Counted, Score, Monitor!Payload
    <3> QED
      BY <3>1, <3>3 DEF JoinInv, Monitor!RecordCalibration
  <2> QED
    BY <2>1, <2>2 DEF Monitor!Next, Monitor!vars, Monitor!RecordScore, Monitor!CompareWindow,
       Monitor!Evict, Monitor!ForgetOutcome, Monitor!IngestOutcome, Monitor!ReadExisting,
       Monitor!JoinOutcome, Monitor!BeginReport, Monitor!ComputeDrift, Monitor!FinishReport
<1>3. ASSUME context' = "serial" PROVE JoinHolds'
  <2>1. CASE UNCHANGED Monitor!vars
    <3>1. JoinHolds
      BY <1>3, <2>1 DEF JoinInv, Monitor!vars
    <3> QED
      BY <2>1, <3>1 DEF JoinHolds, CountedOnce, Delivers, Counts, Calibrating, Forgetting, Members,
         Monitor!Retained, Monitor!vars
  <2>2. ASSUME NEW t \in Thread, Monitor!RecordScore(t) PROVE JoinHolds'
    <3>1. context' = context /\ Moves(t, [at |-> "window"])
      BY <2>2 DEF Monitor!RecordScore, Moves
    <3> QED
      BY <1>3, <2>2, <3>1, RecordScoreJoins DEF JoinInv
  <2>3. ASSUME NEW t \in Thread, Monitor!Evict(t) PROVE JoinHolds'
    <3>1. context' = context /\ Moves(t, [at |-> "forget", key |-> Head(scores).key])
      BY <2>3 DEF Monitor!Evict, Moves, Monitor!Idle
    <3> QED
      BY <1>3, <2>3, <3>1, EvictJoins DEF JoinInv
  <2>4. ASSUME NEW t \in Thread, Monitor!ForgetOutcome(t) PROVE JoinHolds'
    <3>1. context' = context /\ Moves(t, [at |-> "window"])
      BY <2>4 DEF Monitor!ForgetOutcome, Moves, Monitor!Idle
    <3> QED
      BY <1>3, <2>4, <3>1, ForgetJoins DEF JoinInv
  <2>5. ASSUME NEW t \in Thread, Monitor!JoinOutcome(t) PROVE JoinHolds'
    <3> DEFINE state == [worker[t] EXCEPT !.at = "calibrate"]
    <3>1. "at" \in DOMAIN state
      BY JoinTypes DEF MonitorInv
    <3>2. context' = context /\ Monitor!Goto(t, state) /\ worker[t] # Monitor!Idle
      BY <2>5 DEF Monitor!JoinOutcome, Monitor!Idle
    <3>3. Moves(t, state)
      BY <3>1, <3>2 DEF Moves
    <3> QED
      BY <1>3, <2>5, <3>2, <3>3, JoinOutcomeJoins DEF JoinInv
  <2>6. ASSUME NEW t \in Thread, Monitor!RecordCalibration(t) PROVE JoinHolds'
    <3>1. context' = context /\ Moves(t, Monitor!Idle)
      BY <2>6 DEF Monitor!RecordCalibration, Moves, Monitor!Idle
    <3> QED
      BY <1>3, <2>6, <3>1, CalibrationJoins DEF JoinInv
  <2>7. ASSUME NEW t \in Thread,
               Monitor!CompareWindow(t) \/ Monitor!IngestOutcome(t) \/ Monitor!ReadExisting(t)
                  \/ Monitor!BeginReport(t) \/ Monitor!ComputeDrift(t) \/ Monitor!FinishReport(t)
        PROVE  JoinHolds'
    <3>1. context' = context
      BY <2>7 DEF Monitor!CompareWindow, Monitor!IngestOutcome, Monitor!ReadExisting,
         Monitor!BeginReport, Monitor!ComputeDrift, Monitor!FinishReport
    <3> QED
      BY <1>3, <2>7, <3>1, ReadsJoin DEF JoinInv
  <2> QED
    BY <2>1, <2>2, <2>3, <2>4, <2>5, <2>6, <2>7 DEF Monitor!Next
<1> QED
  BY <1>1, <1>2, <1>3 DEF JoinInv

LEMMA JoinSafe == ASSUME JoinInv PROVE Monitor!JoinedOnce
<1> SUFFICES ASSUME context = "serial"
    PROVE  /\ \A i \in DOMAIN recorded :
                 Monitor!Cardinality(Monitor!Joins(recorded[i].key, recorded[i].since)) = 1
           /\ Monitor!Settled => \A k \in DOMAIN outcomes :
                 Monitor!Retained(k) /\ Monitor!Joins(k, Monitor!ScoreOf(k).since) # {}
  BY DEF Monitor!JoinedOnce
<1>1. JoinHolds
  BY DEF JoinInv
<1>2. ASSUME NEW i \in DOMAIN recorded
      PROVE  Monitor!Cardinality(Monitor!Joins(recorded[i].key, recorded[i].since)) = 1
  <2>1. Monitor!Joins(recorded[i].key, recorded[i].since) = {i}
    BY <1>1 DEF Monitor!Joins, JoinHolds, CountedOnce
  <2> QED
    BY <2>1, MonitorCardinality, FS_Singleton
<1>3. ASSUME Monitor!Settled, NEW k \in DOMAIN outcomes
      PROVE  Monitor!Retained(k) /\ Monitor!Joins(k, Monitor!ScoreOf(k).since) # {}
  <2>1. ~Forgetting(k) /\ ~Calibrating(k)
    BY <1>3 DEF Monitor!Settled, Monitor!Idle, Forgetting, Calibrating
  <2>2. Monitor!Retained(k)
    BY <1>1, <2>1 DEF JoinHolds
  <2>3. Counts(k, Monitor!ScoreOf(k).since)
    BY <1>1, <2>1, <2>2, PlaceOf DEF JoinHolds
  <2> QED
    BY <2>2, <2>3 DEF Counts, Monitor!Joins
<1> QED
  BY <1>2, <1>3

(* DriftMonitor: for any windows and requests, served one at a time, an outcome is counted
   once for a retained score, however often it is delivered, and leaves with it. *)
THEOREM OutcomesJoinOnce == Monitor!Spec => []JoinedOnce
<1>1. JoinInv => JoinedOnce
  BY JoinSafe DEF JoinedOnce
<1> QED
  BY <1>1, JoinStarts, JoinStep, PTL DEF Monitor!Spec
-----------------------------------------------------------------------------
(* PolicyHistory: the records are what its history says at the watermark, and the
   history ends a policy exactly with its outcome. *)
Kind ==
    {"issued", "billing", "payment.received", "payment.failed", "payment_reminder", "contact",
     "surrender_inquiry", "lapse_warning", "status_changed", "outcome"}
Status == {"none", "active", "grace_period", "lapsed", "surrendered"}

EventType ==
    [id : Int, kind : Kind, from : Status, to : Status, occurred : Int,
     effective : Int, ingested : Int, due : Int]

EndsWithOutcome(h) ==
    \A s \in Life!Terminal :
        LET changes == {e \in Life!Changes(h) : e.to = s}
            outs == {o \in Life!Outcomes(h) : o.to = s}
        IN  /\ changes = {} <=> outs = {}
            /\ \A e \in changes, o \in outs : e.effective = o.effective

HistoryHolds(h) ==
    /\ h \subseteq EventType
    /\ \A o \in Life!Outcomes(h) : o.to \in Life!Terminal
    /\ \A a, b \in Life!OfKind(h, "billing") : a = b
    /\ EndsWithOutcome(h)

LifeInv ==
    /\ HistoryHolds(history)
    /\ watermark \in Int
    /\ \A r \in records : r.asOf \in Int /\ r = Life!Observation(history, r.asOf, watermark)

LEMMA DaysType == ASSUME NEW n \in Int PROVE Life!Days(n) \in Int
BY DEF Life!Days

LEMMA EventFields ==
    ASSUME NEW id \in Int, NEW kind \in Kind, NEW from \in Status, NEW to \in Status, NEW day \in Int
    PROVE  LET e == Life!Event(id, kind, from, to, day) IN
           e \in EventType /\ e.kind = kind /\ e.to = to /\ e.effective = Life!Days(day)
BY DaysType DEF Life!Event, EventType

LEMMA Names ==
    /\ {"status_changed", "outcome", "billing"} \subseteq Kind
    /\ "none" \in Status /\ Life!Terminal \subseteq Status
BY DEF Kind, Status, Life!Terminal

LEMMA FactFields ==
    ASSUME NEW id \in Int, NEW kind \in Kind, NEW day \in Int
    PROVE  Life!Fact(id, kind, day) \in EventType /\ Life!Fact(id, kind, day).kind = kind
BY EventFields, Names DEF Life!Fact

LEMMA OutcomeFields ==
    ASSUME NEW id \in Int, NEW to \in Status, NEW day \in Int
    PROVE  LET o == Life!Outcome(id, to, day) IN
           o \in EventType /\ o.kind = "outcome" /\ o.to = to /\ o.effective = Life!Days(day)
BY EventFields, Names DEF Life!Outcome

LEMMA ChangeFields ==
    ASSUME NEW id \in Int, NEW from \in Status, NEW to \in Status, NEW day \in Int
    PROVE  LET c == Life!Change(id, from, to, day) IN
           c \in EventType /\ c.kind = "status_changed" /\ c.to = to /\ c.effective = Life!Days(day)
BY EventFields, Names DEF Life!Change

(* Facts of any kind but these leave the policy as it is. *)
Plain(e) == e \in EventType /\ e.kind \notin {"status_changed", "outcome", "billing"}

(* A history of one bill and facts, and perhaps an end: an outcome and a change. *)
LEMMA EndedHolds ==
    ASSUME NEW h, NEW bill \in EventType, bill.kind = "billing", NEW more, NEW end,
           h = {bill} \cup more \cup end,
           \A e \in more : Plain(e) \/ (e \in EventType /\ e.kind = "status_changed"
                                            /\ e.to \notin Life!Terminal),
           end # {} => \E o, c \in EventType :
              /\ end = {o, c} /\ o.kind = "outcome" /\ c.kind = "status_changed"
              /\ o.to = c.to /\ o.effective = c.effective /\ o.to \in Life!Terminal
    PROVE  HistoryHolds(h)
<1> USE DEF Life!Outcomes, Life!Changes, Life!OfKind, Plain
<1>1. h \subseteq EventType
  OBVIOUS
<1>2. Life!Outcomes(h) \subseteq end /\ \A c \in Life!Changes(h) : c.to \in Life!Terminal => c \in end
  OBVIOUS
<1>3. \A a, b \in Life!OfKind(h, "billing") : a = b
  <2>1. Life!OfKind(h, "billing") \subseteq {bill}
    OBVIOUS
  <2> QED
    BY <2>1
<1>4. CASE end = {}
  BY <1>1, <1>2, <1>3, <1>4 DEF HistoryHolds, EndsWithOutcome
<1>5. CASE end # {}
  <2>1. PICK o \in EventType : \E c \in EventType :
          /\ end = {o, c} /\ o.kind = "outcome" /\ c.kind = "status_changed"
          /\ o.to = c.to /\ o.effective = c.effective /\ o.to \in Life!Terminal
    BY <1>5
  <2>2. PICK c \in EventType :
          /\ end = {o, c} /\ o.kind = "outcome" /\ c.kind = "status_changed"
          /\ o.to = c.to /\ o.effective = c.effective /\ o.to \in Life!Terminal
    BY <2>1
  <2>3. Life!Outcomes(h) = {o}
    BY <1>2, <2>2
  <2>4. {e \in Life!Changes(h) : e.to \in Life!Terminal} = {c}
    BY <1>2, <2>2
  <2>5. EndsWithOutcome(h)
    <3> SUFFICES ASSUME NEW s \in Life!Terminal
        PROVE  LET changes == {e \in Life!Changes(h) : e.to = s}
                   outs == {p \in Life!Outcomes(h) : p.to = s}
               IN  /\ changes = {} <=> outs = {}
                   /\ \A e \in changes, p \in outs : e.effective = p.effective
      BY DEF EndsWithOutcome
    <3>1. CASE s = c.to
      BY <2>2, <2>3, <2>4, <3>1
    <3>2. CASE s # c.to
      BY <2>2, <2>3, <2>4, <3>2
    <3> QED
      BY <3>1, <3>2
  <2> QED
    BY <1>1, <1>3, <2>2, <2>3, <2>5 DEF HistoryHolds
<1> QED
  BY <1>4, <1>5

LEMMA ScenarioHolds ==
    ASSUME NEW due \in Nat, NEW rest \in Life!Scenario(due),
           NEW h, h = {Life!Fact(1, "issued", 0), Life!Fact(2, "billing", due)} \cup rest
    PROVE  HistoryHolds(h)
<1> DEFINE bill == Life!Fact(2, "billing", due)
<1> DEFINE grace == Life!Change(5, "active", "grace_period", due + 5)
<1> DEFINE back == Life!Change(7, "grace_period", "active", due + 12)
<1> DEFINE Ended(end) == end # {} => \E o, c \in EventType :
              /\ end = {o, c} /\ o.kind = "outcome" /\ c.kind = "status_changed"
              /\ o.to = c.to /\ o.effective = c.effective /\ o.to \in Life!Terminal
<1> DEFINE Harmless(e) == Plain(e) \/ (e \in EventType /\ e.kind = "status_changed"
                                           /\ e.to \notin Life!Terminal)
<1>1. bill \in EventType /\ bill.kind = "billing"
  BY FactFields, Names
<1>2. \A id \in Int, day \in Int, kind \in Kind \ {"status_changed", "outcome", "billing"} :
        Harmless(Life!Fact(id, kind, day))
  BY FactFields DEF Plain
<1>3. Harmless(grace) /\ Harmless(back)
  <2>1. {"active", "grace_period"} \subseteq Status \ Life!Terminal
    BY DEF Status, Life!Terminal
  <2> QED
    BY <2>1, ChangeFields
<1>4. \A id, k, day \in Int, from \in Status, to \in Life!Terminal :
        Ended({Life!Outcome(id, to, day), Life!Change(k, from, to, day)})
  <2> TAKE id, k, day \in Int, from \in Status, to \in Life!Terminal
  <2> DEFINE o == Life!Outcome(id, to, day)
             c == Life!Change(k, from, to, day)
  <2>1. o \in EventType /\ o.kind = "outcome" /\ o.to = to /\ o.effective = Life!Days(day)
    BY OutcomeFields, Names
  <2>2. c \in EventType /\ c.kind = "status_changed" /\ c.to = to /\ c.effective = Life!Days(day)
    BY ChangeFields, Names
  <2> HIDE DEF o, c
  <2>3. Ended({o, c})
    BY <2>1, <2>2
  <2> QED
    BY <2>3 DEF o, c
<1>5. {"issued", "payment.received", "payment.failed", "payment_reminder", "contact",
       "surrender_inquiry", "lapse_warning"} \subseteq Kind \ {"status_changed", "outcome", "billing"}
  BY DEF Kind
<1>6. Harmless(Life!Fact(1, "issued", 0)) /\ \A e \in Life!Overdue(due) : Harmless(e)
  BY <1>2, <1>3, <1>5 DEF Life!Overdue
<1>7. ASSUME NEW more, NEW end, rest = more \cup end, \A e \in more : Harmless(e), Ended(end)
      PROVE  HistoryHolds(h)
  <2> DEFINE facts == {Life!Fact(1, "issued", 0)} \cup more
  <2>1. h = {bill} \cup facts \cup end
    BY <1>7
  <2>2. \A e \in facts : Harmless(e)
    BY <1>6, <1>7
  <2> HIDE DEF facts, bill
  <2> QED
    BY <1>1, <1>7, <2>1, <2>2, EndedHolds
<1> HIDE DEF Harmless, Ended
<1>8. Ended({})
  BY DEF Ended
<1>9. CASE rest = {Life!Fact(3, "payment.received", due + 1)}
  <2>1. \A e \in rest : Harmless(e)
    BY <1>2, <1>5, <1>9
  <2> QED
    BY <1>7, <1>8, <2>1
<1>10. CASE rest = {Life!Fact(3, "payment.received", due + 1), Life!Fact(4, "contact", due + 8)}
  <2>1. \A e \in rest : Harmless(e)
    BY <1>2, <1>5, <1>10
  <2> QED
    BY <1>7, <1>8, <2>1
<1>11. CASE rest = {Life!Fact(3, "payment.received", due + 1),
                    Life!Fact(4, "surrender_inquiry", due + 15),
                    Life!Outcome(5, "surrendered", due + 20),
                    Life!Change(6, "active", "surrendered", due + 20)}
  <2> DEFINE more == {Life!Fact(3, "payment.received", due + 1),
                      Life!Fact(4, "surrender_inquiry", due + 15)}
  <2> DEFINE end == {Life!Outcome(5, "surrendered", due + 20),
                     Life!Change(6, "active", "surrendered", due + 20)}
  <2>1. \A e \in more : Harmless(e)
    BY <1>2, <1>5
  <2>2. Ended(end)
    <3>1. "active" \in Status /\ "surrendered" \in Life!Terminal /\ due + 20 \in Int
      BY DEF Status, Life!Terminal
    <3> QED
      BY <1>4, <3>1
  <2>3. rest = more \cup end
    BY <1>11
  <2> HIDE DEF more, end
  <2> QED
    BY <1>7, <2>1, <2>2, <2>3
<1>12. CASE rest = Life!Overdue(due) \cup {Life!Fact(6, "payment.received", due + 12), back}
  <2>1. \A e \in rest : Harmless(e)
    BY <1>2, <1>3, <1>5, <1>6, <1>12
  <2> QED
    BY <1>7, <1>8, <2>1
<1>13. CASE rest = Life!Overdue(due) \cup
                   {Life!Fact(6, "lapse_warning", due + 25), Life!Outcome(7, "lapsed", due + 35),
                    Life!Change(8, "grace_period", "lapsed", due + 35)}
  <2> DEFINE more == Life!Overdue(due) \cup {Life!Fact(6, "lapse_warning", due + 25)}
  <2> DEFINE end == {Life!Outcome(7, "lapsed", due + 35),
                     Life!Change(8, "grace_period", "lapsed", due + 35)}
  <2>1. \A e \in more : Harmless(e)
    BY <1>2, <1>5, <1>6
  <2>2. Ended(end)
    <3>1. "grace_period" \in Status /\ "lapsed" \in Life!Terminal /\ due + 35 \in Int
      BY DEF Status, Life!Terminal
    <3> QED
      BY <1>4, <3>1
  <2>3. rest = more \cup end
    BY <1>13
  <2> HIDE DEF more, end
  <2> QED
    BY <1>7, <2>1, <2>2, <2>3
<1> QED
  BY <1>9, <1>10, <1>11, <1>12, <1>13 DEF Life!Scenario

LEMMA LifeStarts == Life!Init => LifeInv
<1> SUFFICES ASSUME Life!Init PROVE LifeInv
  OBVIOUS
<1>1. PICK due \in Interval : \E rest \in Life!Scenario(due) :
        history = {Life!Fact(1, "issued", 0), Life!Fact(2, "billing", due)} \cup rest
  BY DEF Life!Init, Life!Generated
<1>2. HistoryHolds(history)
  BY <1>1, ScenarioHolds, DataAssumption DEF Life!HistoryAssumption
<1> QED
  BY <1>2 DEF Life!Init, LifeInv

LEMMA AmendHolds == ASSUME LifeInv, Life!Amend PROVE HistoryHolds(history')
<1>1. PICK e \in history :
        \/ history' = history \ {e}
        \/ \E d \in Lateness : history' = (history \ {e}) \cup {[e EXCEPT !.ingested = @ + d]}
        \/ \E t \in Life!Times(history) : history' = (history \ {e}) \cup {[e EXCEPT !.effective = t]}
  BY DEF Life!Amend
<1>2. e \in EventType /\ history \subseteq EventType
  BY DEF LifeInv, HistoryHolds
<1>3. Life!Times(history) \subseteq Int
  BY <1>2 DEF Life!Times, EventType
<1>4. \A d \in Lateness : [e EXCEPT !.ingested = @ + d] \in EventType
  BY <1>2, DataAssumption DEF EventType, Life!HistoryAssumption
<1>5. \A t \in Life!Times(history) : [e EXCEPT !.effective = t] \in EventType
  BY <1>2, <1>3 DEF EventType
<1>6. history' \subseteq EventType
  BY <1>1, <1>2, <1>4, <1>5
<1>7. \A f \in history' : \E g \in history : f.kind = g.kind /\ f.to = g.to
  BY <1>1, <1>2 DEF EventType
<1>8. \A o \in Life!Outcomes(history') : o.to \in Life!Terminal
  BY <1>7 DEF LifeInv, HistoryHolds, Life!Outcomes, Life!OfKind
<1>9. \A a, b \in Life!OfKind(history', "billing") : a = b
  <2>1. \A d \in Lateness : [e EXCEPT !.ingested = @ + d].kind = e.kind
    BY <1>2 DEF EventType
  <2>2. \A t \in Life!Times(history) : [e EXCEPT !.effective = t].kind = e.kind
    BY <1>2 DEF EventType
  <2>3. PICK f : f.kind = e.kind /\ history' \subseteq (history \ {e}) \cup {f}
    BY <1>1, <2>1, <2>2
  <2> QED
    BY <2>3 DEF LifeInv, HistoryHolds, Life!OfKind
<1>10. EndsWithOutcome(history')
  BY DEF Life!Amend, Life!Valid, Life!StatusesHold, EndsWithOutcome
<1> QED
  BY <1>6, <1>8, <1>9, <1>10 DEF HistoryHolds

LEMMA LifeStep ==
    ASSUME LifeInv, [Life!Next]_Life!vars
    PROVE  LifeInv'
<1>1. CASE Life!Amend
  BY <1>1, AmendHolds DEF Life!Amend, LifeInv
<1>2. CASE Life!Observe
  <2>1. PICK at \in Life!Times(history) \cup {Life!FirstBilling(history)} :
          records' = records \cup {Life!Observation(history, at, watermark)}
    BY <1>2 DEF Life!Observe
  <2>2. Life!Times(history) \subseteq Int
    BY DEF LifeInv, HistoryHolds, EventType, Life!Times
  <2>3. Life!FirstBilling(history) \in Int
    <3>1. PICK b \in Life!OfKind(history, "billing") : TRUE
      BY <1>2 DEF Life!Observe
    <3>2. Life!OfKind(history, "billing") \ {b} = {}
      BY <3>1 DEF LifeInv, HistoryHolds
    <3>3. PICK c \in Life!OfKind(history, "billing") : Life!FirstBilling(history) = c.ingested
      BY <3>1, <3>2 DEF Life!FirstBilling
    <3> QED
      BY <3>3 DEF LifeInv, HistoryHolds, EventType, Life!OfKind
  <2>4. Life!Observation(history, at, watermark).asOf = at
    BY DEF Life!Observation
  <2> HIDE DEF Life!Observation
  <2> QED
    BY <1>2, <2>1, <2>2, <2>3, <2>4 DEF LifeInv, Life!Observe
<1>3. CASE Life!Follow
  <2>1. watermark' \in Int
    <3>1. Life!Times(history) \subseteq Int
      BY DEF LifeInv, HistoryHolds, EventType, Life!Times
    <3>2. \A r \in records : Life!HorizonEnd(r.asOf) \in Int
      BY DataAssumption DEF LifeInv, Life!HorizonEnd, Life!Days, Life!HistoryAssumption
    <3> QED
      BY <1>3, <3>1, <3>2 DEF Life!Follow
  <2>2. \A r \in records' : \E q \in records :
          r = Life!Observation(history, q.asOf, watermark') /\ r.asOf = q.asOf
    BY <1>3 DEF Life!Follow, Life!Observation
  <2> QED
    BY <1>3, <2>1, <2>2 DEF Life!Follow, LifeInv
<1>4. CASE UNCHANGED Life!vars
  BY <1>4 DEF Life!vars, LifeInv
<1> QED
  BY <1>1, <1>2, <1>3, <1>4 DEF Life!Next

(* PolicyHistory: what is observed of an outcome is what is known up to the watermark. *)
LEMMA LabelSettles ==
    ASSUME LifeInv, NEW asOf \in Int, NEW w \in Int, watermark < w,
           Life!Label(history, asOf, watermark) # "right_censored"
    PROVE  Life!Label(history, asOf, w) = Life!Label(history, asOf, watermark)
<1> DEFINE inHorizon == {o \in Life!Outcomes(history) :
                asOf < o.effective /\ o.effective <= Life!HorizonEnd(asOf)}
<1>1. \A o \in inHorizon : o.ingested \in Int
  BY DEF LifeInv, HistoryHolds, EventType, Life!Outcomes, Life!OfKind
<1>2. Life!HorizonEnd(asOf) \in Int /\ watermark \in Int
  BY DataAssumption DEF LifeInv, Life!HorizonEnd, Life!Days, Life!HistoryAssumption
<1>3. \A o \in inHorizon : o.ingested <= watermark => o.ingested <= w
  BY <1>1, <1>2
<1>4. ~(watermark < Life!HorizonEnd(asOf)) => ~(w < Life!HorizonEnd(asOf))
  BY <1>2
<1> QED
  BY <1>3, <1>4 DEF Life!Label

LEMMA LifeSettles ==
    ASSUME LifeInv, [Life!Next]_Life!vars
    PROVE  \A r \in records : r.label # "right_censored" =>
              \E s \in records' : s.asOf = r.asOf /\ s.label = r.label
<1> SUFFICES ASSUME NEW r \in records, r.label # "right_censored"
    PROVE  \E s \in records' : s.asOf = r.asOf /\ s.label = r.label
  OBVIOUS
<1>1. CASE Life!Amend
  BY <1>1 DEF Life!Amend
<1>2. CASE Life!Observe
  BY <1>2 DEF Life!Observe
<1>3. CASE Life!Follow
  <2> DEFINE s == Life!Observation(history, r.asOf, watermark')
  <2>1. s \in records' /\ s.asOf = r.asOf /\ s.label = Life!Label(history, r.asOf, watermark')
    BY <1>3 DEF Life!Follow, Life!Observation
  <2>2. r.label = Life!Label(history, r.asOf, watermark)
    BY DEF LifeInv, Life!Observation
  <2>3. watermark < watermark' /\ watermark' \in Int /\ r.asOf \in Int
    BY <1>3, LifeStep DEF Life!Next, Life!Follow, LifeInv
  <2>4. s.label = r.label
    BY <2>1, <2>2, <2>3, LabelSettles
  <2> QED
    BY <2>1, <2>4
<1>4. CASE UNCHANGED Life!vars
  BY <1>4 DEF Life!vars
<1> QED
  BY <1>1, <1>2, <1>3, <1>4 DEF Life!Next

(* PolicyHistory: a label once observed is never taken back, for any bills, delays,
   amendments and horizon. *)
THEOREM LabelsStand == Life!Spec => LabelsSettle
<1>1. LifeInv /\ [Life!Next]_Life!vars =>
        [\A r \in records : r.label # "right_censored" =>
            \E s \in records' : s.asOf = r.asOf /\ s.label = r.label]_Life!vars
  BY LifeSettles
<1> QED
  BY <1>1, LifeStarts, LifeStep, PTL DEF Life!Spec, LabelsSettle, Life!LabelsSettle

(* An end in the horizon is an outcome in the horizon. *)
LEMMA LifeEnds == ASSUME LifeInv PROVE Life!CensoringEnds
<1> SUFFICES ASSUME NEW r \in records, watermark >= Life!HorizonEnd(r.asOf),
             \A e \in history : e.ingested <= watermark, r.status = "active"
    PROVE  r.label = IF \E e \in Life!Changes(history) :
                            /\ e.to \in Life!Terminal
                            /\ r.asOf < e.effective /\ e.effective <= Life!HorizonEnd(r.asOf)
                     THEN "observed_positive" ELSE "observed_negative"
  BY DEF Life!CensoringEnds
<1> DEFINE In(e) == r.asOf < e.effective /\ e.effective <= Life!HorizonEnd(r.asOf)
<1>1. r.label = Life!Label(history, r.asOf, watermark)
      /\ Life!VisibleStatus(history, r.asOf) = "active" /\ r.asOf \in Int
  BY DEF LifeInv, Life!Observation
<1>2. ~(watermark < Life!HorizonEnd(r.asOf))
  <2>1. Life!HorizonEnd(r.asOf) \in Int /\ watermark \in Int
    BY <1>1, DataAssumption DEF LifeInv, Life!HorizonEnd, Life!Days, Life!HistoryAssumption
  <2> QED
    BY <2>1
<1>3. Life!Outcomes(history) \subseteq history
  BY DEF Life!Outcomes, Life!OfKind
<1>4. r.label = IF \E o \in Life!Outcomes(history) : In(o)
                THEN "observed_positive" ELSE "observed_negative"
  <2> DEFINE inHorizon == {o \in Life!Outcomes(history) : In(o)}
  <2>1. r.label = IF \E o \in inHorizon : o.ingested <= watermark THEN "observed_positive"
                  ELSE IF inHorizon # {} \/ watermark < Life!HorizonEnd(r.asOf)
                  THEN "right_censored" ELSE "observed_negative"
    BY <1>1 DEF Life!Label
  <2>2. \A o \in inHorizon : o.ingested <= watermark
    BY <1>3
  <2> QED
    BY <1>2, <2>1, <2>2
<1>5. ASSUME NEW o \in Life!Outcomes(history), In(o)
      PROVE  \E e \in Life!Changes(history) : e.to \in Life!Terminal /\ In(e)
  <2>1. o.to \in Life!Terminal
    BY DEF LifeInv, HistoryHolds
  <2>2. PICK e \in Life!Changes(history) : e.to = o.to
    BY <2>1 DEF LifeInv, HistoryHolds, EndsWithOutcome
  <2>3. e.effective = o.effective
    BY <2>1, <2>2 DEF LifeInv, HistoryHolds, EndsWithOutcome
  <2> QED
    BY <1>5, <2>1, <2>2, <2>3
<1>6. ASSUME NEW e \in Life!Changes(history), e.to \in Life!Terminal, In(e)
      PROVE  \E o \in Life!Outcomes(history) : In(o)
  <2>1. PICK o \in Life!Outcomes(history) : o.to = e.to
    BY <1>6 DEF LifeInv, HistoryHolds, EndsWithOutcome
  <2>2. e.effective = o.effective
    BY <1>6, <2>1 DEF LifeInv, HistoryHolds, EndsWithOutcome
  <2> QED
    BY <1>6, <2>1, <2>2
<1> QED
  BY <1>4, <1>5, <1>6

(* PolicyHistory: censoring ends with the horizon and the last ingestion, for any
   bills, delays, amendments and horizon: the label then says how the policy ended. *)
THEOREM CensoringIsTemporary == Life!Spec => []CensoringEnds
<1>1. LifeInv => CensoringEnds
  BY LifeEnds DEF CensoringEnds
<1> QED
  BY <1>1, LifeStarts, LifeStep, PTL DEF Life!Spec
-----------------------------------------------------------------------------
(* PolicyHistory: what the replay needs of a history beside its outcomes: its events are
   ordered, begin with the issuance, and no change of status follows a terminal one. *)
TerminalIsLast(h) ==
    \A e, c \in Life!Changes(h) : e.to \in Life!Terminal /\ c # e => Life!Before(c, e)

Sound(h) ==
    /\ IsFiniteSet(h)
    /\ \A a, b \in h : a.id = b.id => a = b
    /\ \E i \in Life!OfKind(h, "issued") : \A e \in h : i.effective <= e.effective
    /\ \A a, b \in Life!Outcomes(h) : a = b
    /\ TerminalIsLast(h)

ReplayInv == LifeInv /\ Sound(history)

(* Nothing in a finite set comes before one of its elements. *)
LEMMA HasLeast ==
    ASSUME NEW U, IsFiniteSet(U), NEW R \in SUBSET (U \X U), NEW r \in U,
           \A x \in U : <<x, x>> \notin R,
           \A x, y, z \in U : <<x, y>> \in R /\ <<y, z>> \in R => <<x, z>> \in R
    PROVE  \E x \in U : \A y \in U : <<y, x>> \notin R
BY FiniteHasGreatest

(* Events with identifiers of their own are ordered. *)
LEMMA BeforeOrder ==
    ASSUME NEW h, h \subseteq EventType, \A a, b \in h : a.id = b.id => a = b,
           NEW a \in h, NEW b \in h, NEW c \in h
    PROVE  /\ ~ Life!Before(a, a)
           /\ Life!Before(a, b) /\ Life!Before(b, c) => Life!Before(a, c)
           /\ a = b \/ Life!Before(a, b) \/ Life!Before(b, a)
<1>1. /\ a.id \in Int /\ a.occurred \in Int /\ a.effective \in Int
      /\ b.id \in Int /\ b.occurred \in Int /\ b.effective \in Int
      /\ c.id \in Int /\ c.occurred \in Int /\ c.effective \in Int
  BY DEF EventType
<1>2. a.id = b.id => a = b
  OBVIOUS
<1> QED
  BY <1>1, <1>2 DEF Life!Before

(* Of finitely many changes there is a last one, and it gives the status. *)
LEMMA StatusOfLast ==
    ASSUME NEW h, h \subseteq EventType, IsFiniteSet(h), \A a, b \in h : a.id = b.id => a = b,
           NEW s, s \subseteq h
    PROVE  IF Life!Changes(s) = {} THEN Life!StatusOf(s) = "active"
           ELSE \E e \in Life!Changes(s) :
                   /\ \A f \in Life!Changes(s) \ {e} : Life!Before(f, e)
                   /\ Life!StatusOf(s) = e.to
<1> DEFINE U == Life!Changes(s)
           R == {p \in U \X U : Life!Before(p[2], p[1])}
<1>1. CASE U = {}
  BY <1>1 DEF Life!StatusOf
<1>2. CASE U # {}
  <2>1. U \subseteq h /\ U \subseteq s
    BY DEF Life!Changes, Life!OfKind
  <2>2. IsFiniteSet(U)
    BY <2>1, FS_Subset
  <2> HIDE DEF U
  <2>3. \A x, y \in U : <<x, y>> \in R <=> Life!Before(y, x)
    OBVIOUS
  <2>4. R \in SUBSET (U \X U)
    OBVIOUS
  <2> HIDE DEF R
  <2>5. \A x \in U : <<x, x>> \notin R
    BY <2>1, <2>3, BeforeOrder
  <2>6. \A x, y, z \in U : <<x, y>> \in R /\ <<y, z>> \in R => <<x, z>> \in R
    BY <2>1, <2>3, BeforeOrder
  <2>7. PICK r \in U : TRUE
    BY <1>2
  <2>8. PICK e \in U : \A y \in U : <<y, e>> \notin R
    BY <2>2, <2>4, <2>5, <2>6, HasLeast
  <2>9. \A f \in U \ {e} : Life!Before(f, e)
    BY <2>1, <2>3, <2>8, BeforeOrder
  <2> DEFINE last == CHOOSE g \in U : \A f \in U \ {g} : Life!Before(f, g)
  <2>10. last \in U /\ \A f \in U \ {last} : Life!Before(f, last)
    BY <2>9
  <2>11. Life!StatusOf(s) = last.to
    BY <1>2 DEF Life!StatusOf, U
  <2> HIDE DEF last
  <2> QED
    BY <1>2, <2>10, <2>11 DEF U
<1> QED
  BY <1>1, <1>2

(* In a chain of supported changes none follows a terminal one: the first that did
   would start from a terminal status. *)
LEMMA ChainEnds ==
    ASSUME NEW h, h \subseteq EventType, IsFiniteSet(h), \A a, b \in h : a.id = b.id => a = b,
           Life!ChainHolds(h)
    PROVE  TerminalIsLast(h)
<1> SUFFICES ASSUME NEW e \in Life!Changes(h), NEW c \in Life!Changes(h), e.to \in Life!Terminal,
                    c # e, ~ Life!Before(c, e)
             PROVE  FALSE
  BY DEF TerminalIsLast
<1> DEFINE U == {x \in Life!Changes(h) : Life!Before(e, x)}
           R == {p \in U \X U : Life!Before(p[1], p[2])}
<1>1. Life!Changes(h) \subseteq h
  BY DEF Life!Changes, Life!OfKind
<1>2. U \subseteq h /\ IsFiniteSet(U) /\ c \in U
  <2>1. c \in U
    BY <1>1, BeforeOrder
  <2>2. U \subseteq h
    BY <1>1
  <2> QED
    BY <2>1, <2>2, FS_Subset
<1>3. U \subseteq Life!Changes(h) /\ \A x \in Life!Changes(h) : x \in U <=> Life!Before(e, x)
  OBVIOUS
<1> HIDE DEF U
<1>4. \A x, y \in U : <<x, y>> \in R <=> Life!Before(x, y)
  OBVIOUS
<1>5. R \in SUBSET (U \X U)
  OBVIOUS
<1> HIDE DEF R
<1>6. \A x \in U : <<x, x>> \notin R
  BY <1>2, <1>4, BeforeOrder
<1>7. \A x, y, z \in U : <<x, y>> \in R /\ <<y, z>> \in R => <<x, z>> \in R
  BY <1>2, <1>4, BeforeOrder
<1>8. PICK x \in U : \A y \in U : <<y, x>> \notin R
  BY <1>2, <1>5, <1>6, <1>7, HasLeast
<1>9. x \in Life!Changes(h) /\ x \in h /\ Life!Before(e, x) /\ e \in h
  BY <1>1, <1>3
<1> DEFINE s == {f \in h : Life!Before(f, x)}
<1>10. x.from = Life!StatusOf(s) /\ <<x.from, x.to>> \in Life!SupportedTransitions
  BY <1>9 DEF Life!ChainHolds
<1>11. s \subseteq h /\ e \in Life!Changes(s)
  BY <1>9 DEF Life!Changes, Life!OfKind
<1>12. \A f \in Life!Changes(s) : f \in Life!Changes(h) /\ f \in h /\ Life!Before(f, x)
  BY DEF Life!Changes, Life!OfKind
<1>13. \A f \in Life!Changes(s) : f = e \/ Life!Before(f, e)
  <2> SUFFICES ASSUME NEW f \in Life!Changes(s), f # e, ~ Life!Before(f, e) PROVE FALSE
    OBVIOUS
  <2>1. f \in Life!Changes(h) /\ f \in h /\ Life!Before(f, x)
    BY <1>12
  <2>2. Life!Before(e, f)
    BY <1>9, <2>1, BeforeOrder
  <2>3. f \in U /\ <<f, x>> \in R
    BY <1>3, <1>4, <2>1, <2>2
  <2> QED
    BY <1>8, <2>3
<1> HIDE DEF s
<1>14. PICK g \in Life!Changes(s) :
          /\ \A f \in Life!Changes(s) \ {g} : Life!Before(f, g)
          /\ Life!StatusOf(s) = g.to
  BY <1>11, StatusOfLast
<1>15. g = e
  <2>1. g \in h /\ e \in h
    BY <1>9, <1>12
  <2> QED
    BY <1>11, <1>13, <1>14, <2>1, BeforeOrder
<1>16. x.from \in Life!Terminal
  BY <1>10, <1>14, <1>15
<1> QED
  BY <1>10, <1>16 DEF Life!SupportedTransitions, Life!Terminal

LEMMA LifeCardinality == ASSUME NEW S PROVE Life!Cardinality(S) = Cardinality(S)
BY DEF Life!Cardinality, Cardinality

LEMMA AmendSound ==
    ASSUME LifeInv, Sound(history), Life!Amend
    PROVE  Sound(history')
<1>1. PICK e \in history :
        \/ history' = history \ {e}
        \/ \E d \in Lateness : history' = (history \ {e}) \cup {[e EXCEPT !.ingested = @ + d]}
        \/ \E t \in Life!Times(history) : history' = (history \ {e}) \cup {[e EXCEPT !.effective = t]}
  BY DEF Life!Amend
<1>2. history' \subseteq EventType
  BY AmendHolds DEF HistoryHolds
<1>3. e \in EventType
  BY DEF LifeInv, HistoryHolds
<1>4. PICK f : f.id = e.id /\ history' \subseteq (history \ {e}) \cup {f}
  <2>1. \A d \in Lateness : [e EXCEPT !.ingested = @ + d].id = e.id
    BY <1>3 DEF EventType
  <2>2. \A t \in Life!Times(history) : [e EXCEPT !.effective = t].id = e.id
    BY <1>3 DEF EventType
  <2> QED
    BY <1>1, <2>1, <2>2
<1>5. IsFiniteSet(history')
  <2>1. IsFiniteSet(history \cup {f})
    BY FS_AddElement DEF Sound
  <2> QED
    BY <1>4, <2>1, FS_Subset
<1>6. \A a, b \in history' : a.id = b.id => a = b
  <2> SUFFICES ASSUME NEW a \in history', NEW b \in history', a.id = b.id PROVE a = b
    OBVIOUS
  <2>1. \A x \in history \ {e} : x.id # e.id
    BY DEF Sound
  <2>2. (a \in history \ {e} \/ a = f) /\ (b \in history \ {e} \/ b = f)
    BY <1>4
  <2> QED
    BY <1>4, <2>1, <2>2 DEF Sound
<1>7. /\ Cardinality(Life!OfKind(history', "issued")) = 1
      /\ \A i \in Life!OfKind(history', "issued"), x \in history' : Life!NotAfter(i, x)
      /\ Life!ChainHolds(history') /\ Cardinality(Life!Outcomes(history')) <= 1
  <2>1. Life!TimelineHolds(history') /\ Life!StatusesHold(history')
    BY DEF Life!Amend, Life!Valid
  <2>2. /\ Cardinality(Life!OfKind(history', "issued")) = 1
        /\ \A i \in Life!OfKind(history', "issued"), x \in history' : Life!NotAfter(i, x)
    BY <2>1, LifeCardinality DEF Life!TimelineHolds
  <2>3. Life!ChainHolds(history')
    BY <2>1 DEF Life!StatusesHold
  <2>4. Cardinality(Life!Outcomes(history')) <= 1
    BY <2>3, LifeCardinality DEF Life!ChainHolds
  <2> QED
    BY <2>2, <2>3, <2>4
<1>8. \E i \in Life!OfKind(history', "issued") : \A x \in history' : i.effective <= x.effective
  <2>1. Life!OfKind(history', "issued") # {}
    BY <1>7, FS_EmptySet
  <2> QED
    BY <1>7, <2>1 DEF Life!NotAfter
<1>9. \A a, b \in Life!Outcomes(history') : a = b
  <2> DEFINE outs == Life!Outcomes(history')
  <2>1. outs \subseteq history'
    BY DEF Life!Outcomes, Life!OfKind
  <2>2. IsFiniteSet(outs) /\ Cardinality(outs) <= 1
    BY <1>5, <1>7, <2>1, FS_Subset
  <2> HIDE DEF outs
  <2> SUFFICES ASSUME NEW a \in outs, NEW b \in outs, a # b PROVE FALSE
    BY DEF outs
  <2>3. {a, b} \subseteq outs
    OBVIOUS
  <2>4. Cardinality({a, b}) = 2
    <3>1. IsFiniteSet({a}) /\ Cardinality({a}) = 1
      BY FS_Singleton
    <3>2. b \notin {a} /\ {a, b} = {a} \cup {b}
      OBVIOUS
    <3> QED
      BY <3>1, <3>2, FS_AddElement
  <2>5. Cardinality({a, b}) <= Cardinality(outs) /\ Cardinality(outs) \in Nat
    BY <2>2, <2>3, FS_Subset, FS_CardinalityType
  <2> QED
    BY <2>2, <2>4, <2>5
<1>10. TerminalIsLast(history')
  BY <1>2, <1>5, <1>6, <1>7, ChainEnds
<1> QED
  BY <1>5, <1>6, <1>8, <1>9, <1>10 DEF Sound

(* The readings agree. *)
LEMMA ReplaySafe ==
    ASSUME LifeInv, Sound(history)
    PROVE  Life!ReplayAgrees
<1>1. history \subseteq EventType /\ IsFiniteSet(history) /\ \A a, b \in history : a.id = b.id => a = b
  BY DEF LifeInv, HistoryHolds, Sound
<1>2. PICK i \in Life!OfKind(history, "issued") : \A e \in history : i.effective <= e.effective
  BY DEF Sound
<1>3. i \in history /\ i.kind = "issued"
  BY DEF Life!OfKind
<1>4. \A e \in history : e.effective \in Int /\ e.ingested \in Int
  BY <1>1 DEF EventType
<1>5. Life!Times(history) \subseteq Int
  BY <1>4 DEF Life!Times
(* A set of events that holds a terminal change has its status. *)
<1>6. ASSUME NEW s, s \subseteq history, NEW e \in Life!Changes(s), e.to \in Life!Terminal
      PROVE  Life!StatusOf(s) = e.to
  <2>1. PICK g \in Life!Changes(s) :
           /\ \A f \in Life!Changes(s) \ {g} : Life!Before(f, g)
           /\ Life!StatusOf(s) = g.to
    BY <1>1, <1>6, StatusOfLast
  <2>2. g \in Life!Changes(history) /\ e \in Life!Changes(history) /\ g \in history /\ e \in history
    BY <1>6 DEF Life!Changes, Life!OfKind
  <2>3. g = e
    <3> SUFFICES ASSUME g # e PROVE FALSE
      OBVIOUS
    <3>1. Life!Before(g, e)
      BY <1>6, <2>2 DEF Sound, TerminalIsLast
    <3>2. Life!Before(e, g)
      BY <1>6, <2>1
    <3> QED
      BY <1>1, <2>2, <3>1, <3>2, BeforeOrder
  <2> QED
    BY <2>1, <2>3
(* And a terminal status is that of a terminal change. *)
<1>7. ASSUME NEW s, s \subseteq history, Life!StatusOf(s) \in Life!Terminal
      PROVE  \E e \in Life!Changes(s) : e.to = Life!StatusOf(s)
  <2>1. Life!StatusOf(s) # "active"
    BY <1>7 DEF Life!Terminal
  <2> QED
    BY <1>1, <1>7, <2>1, StatusOfLast
<1>8. ASSUME NEW t \in Life!Times(history), \A e \in history : e.effective <= t => e.ingested <= t
      PROVE  Life!VisibleStatus(history, t) = Life!Reconstructed(history, t)
  <2> DEFINE selected == {e \in history : e.effective <= t}
  <2>1. Life!Visible(history, t) = selected
    BY <1>8 DEF Life!Visible
  <2>2. selected # {} => i \in selected
    <3> SUFFICES ASSUME NEW e \in selected PROVE i \in selected
      OBVIOUS
    <3>1. e \in history /\ e.effective <= t /\ t \in Int
      BY <1>5, <1>8
    <3>2. i.effective <= e.effective /\ i.effective \in Int /\ e.effective \in Int
      BY <1>2, <1>3, <1>4, <3>1
    <3> QED
      BY <1>3, <3>1, <3>2
  <2> HIDE DEF selected
  <2>3. Life!OfKind(selected, "issued") = {} <=> selected = {}
    BY <1>3, <2>2 DEF Life!OfKind
  <2>4. Life!Reconstructed(history, t) = IF selected = {} THEN "none" ELSE Life!StatusOf(selected)
    BY DEF Life!Reconstructed, selected
  <2> QED
    BY <2>1, <2>3, <2>4 DEF Life!VisibleStatus
<1>9. ASSUME NEW t \in Life!Times(history), Life!VisibleStatus(history, t) \in Life!Terminal
      PROVE  Life!Reconstructed(history, t) = Life!VisibleStatus(history, t)
  <2> DEFINE visible == Life!Visible(history, t)
             selected == {e \in history : e.effective <= t}
  <2>1. visible \subseteq selected /\ visible \subseteq history /\ selected \subseteq history
    BY DEF Life!Visible
  <2>2. Life!Reconstructed(history, t) = IF selected = {} THEN "none" ELSE Life!StatusOf(selected)
    BY DEF Life!Reconstructed
  <2>3. Life!VisibleStatus(history, t) = Life!StatusOf(visible)
    BY <1>9 DEF Life!VisibleStatus, Life!Terminal
  <2> HIDE DEF visible, selected
  <2>4. PICK e \in Life!Changes(visible) : e.to = Life!StatusOf(visible)
    BY <1>7, <1>9, <2>1, <2>3
  <2>5. e \in Life!Changes(selected) /\ selected # {}
    BY <2>1 DEF Life!Changes, Life!OfKind
  <2>6. Life!StatusOf(selected) = e.to
    BY <1>6, <1>9, <2>1, <2>3, <2>4, <2>5
  <2> QED
    BY <2>2, <2>3, <2>4, <2>5, <2>6
<1> DEFINE last == CHOOSE t \in Life!Times(history) : \A u \in Life!Times(history) : u <= t
           final == Life!Reconstructed(history, last)
<1>10. final = Life!StatusOf(history)
  <2>1. last \in Life!Times(history) /\ \A u \in Life!Times(history) : u <= last
    <3> DEFINE T == Life!Times(history)
               R == {p \in T \X T : p[1] > p[2]}
    <3>1. IsFiniteSet(T)
      <4> DEFINE E == {e.effective : e \in history}
                 G == {e.ingested : e \in history}
                 fe == [e \in history |-> e.effective]
                 fg == [e \in history |-> e.ingested]
      <4>1. fe \in Surjection(history, E) /\ fg \in Surjection(history, G)
        BY DEF Surjection
      <4>2. T = E \cup G
        BY DEF Life!Times
      <4> HIDE DEF E, G, fe, fg, T
      <4>3. IsFiniteSet(E) /\ IsFiniteSet(G)
        BY <1>1, <4>1, FS_Surjection
      <4> QED
        BY <4>2, <4>3, FS_Union
    <3>2. i.effective \in T
      BY <1>3 DEF Life!Times
    <3>3. \A x, y \in T : <<x, y>> \in R <=> x > y
      OBVIOUS
    <3>4. R \in SUBSET (T \X T)
      OBVIOUS
    <3>5. T \subseteq Int
      BY <1>5
    <3> HIDE DEF T, R
    <3>6. \A x \in T : <<x, x>> \notin R
      BY <3>3, <3>5
    <3>7. \A x, y, z \in T : <<x, y>> \in R /\ <<y, z>> \in R => <<x, z>> \in R
      <4> SUFFICES ASSUME NEW x \in T, NEW y \in T, NEW z \in T, <<x, y>> \in R, <<y, z>> \in R
                   PROVE  <<x, z>> \in R
        OBVIOUS
      <4>1. x > y /\ y > z
        BY <3>3
      <4>2. x > z
        BY <3>5, <4>1
      <4> QED
        BY <3>3, <4>2
    <3>8. PICK x \in T : \A y \in T : <<y, x>> \notin R
      BY <3>1, <3>2, <3>4, <3>6, <3>7, HasLeast
    <3>9. ASSUME NEW y \in T PROVE y <= x
      <4>1. ~ (y > x)
        BY <3>3, <3>8
      <4> QED
        BY <3>5, <4>1
    <3> QED
      BY <3>9 DEF T
  <2> HIDE DEF last
  <2>2. {e \in history : e.effective <= last} = history
    BY <2>1 DEF Life!Times
  <2>3. history # {}
    BY <1>3
  <2> QED
    BY <2>2, <2>3 DEF Life!Reconstructed
<1>11. IF final \in Life!Terminal THEN {o.to : o \in Life!Outcomes(history)} = {final}
       ELSE Life!Outcomes(history) = {}
  <2> HIDE DEF final
  <2>1. EndsWithOutcome(history) /\ \A o \in Life!Outcomes(history) : o.to \in Life!Terminal
    BY DEF LifeInv, HistoryHolds
  <2>2. CASE final \in Life!Terminal
    <3>1. PICK e \in Life!Changes(history) : e.to = final
      BY <1>7, <1>10, <2>2
    <3>2. {c \in Life!Changes(history) : c.to = final} # {}
      BY <3>1
    <3>3. {o \in Life!Outcomes(history) : o.to = final} # {}
      BY <2>1, <2>2, <3>2 DEF EndsWithOutcome
    <3>4. PICK o \in Life!Outcomes(history) : o.to = final
      BY <3>3
    <3>5. \A p \in Life!Outcomes(history) : p = o
      BY DEF Sound
    <3> QED
      BY <2>2, <3>4, <3>5
  <2>3. CASE final \notin Life!Terminal
    <3> SUFFICES ASSUME NEW o \in Life!Outcomes(history) PROVE FALSE
      BY <2>3
    <3>1. {p \in Life!Outcomes(history) : p.to = o.to} # {} /\ o.to \in Life!Terminal
      BY <2>1
    <3>2. {c \in Life!Changes(history) : c.to = o.to} # {}
      BY <2>1, <3>1 DEF EndsWithOutcome
    <3>3. PICK e \in Life!Changes(history) : e.to = o.to
      BY <3>2
    <3>4. Life!StatusOf(history) = e.to
      BY <1>6, <3>1, <3>3
    <3> QED
      BY <1>10, <2>3, <3>1, <3>3, <3>4
  <2> QED
    BY <2>2, <2>3
<1> QED
  BY <1>8, <1>9, <1>11 DEF Life!ReplayAgrees

LEMMA EventTimes ==
    ASSUME NEW id, NEW kind, NEW from, NEW to, NEW day \in Int
    PROVE  LET e == Life!Event(id, kind, from, to, day) IN
           /\ e.id = id /\ e.kind = kind /\ e.to = to
           /\ e.effective = 24 * day /\ e.occurred = 24 * day
BY DEF Life!Event, Life!Days

(* Every generated history is sound: the scenarios bill after the issuance, and change
   the status for the last time when they end the policy. *)
LEMMA ScenarioSound ==
    ASSUME NEW due \in Nat, NEW rest \in Life!Scenario(due),
           NEW h, h = {Life!Fact(1, "issued", 0), Life!Fact(2, "billing", due)} \cup rest
    PROVE  Sound(h)
<1> DEFINE issue == Life!Fact(1, "issued", 0)
           bill == Life!Fact(2, "billing", due)
           paid == Life!Fact(3, "payment.received", due + 1)
           failed == Life!Fact(3, "payment.failed", due + 1)
           contact == Life!Fact(4, "contact", due + 8)
           inquiry == Life!Fact(4, "surrender_inquiry", due + 15)
           reminder == Life!Fact(4, "payment_reminder", due + 3)
           grace == Life!Change(5, "active", "grace_period", due + 5)
           surrender == Life!Outcome(5, "surrendered", due + 20)
           surrendered == Life!Change(6, "active", "surrendered", due + 20)
           cured == Life!Fact(6, "payment.received", due + 12)
           back == Life!Change(7, "grace_period", "active", due + 12)
           warning == Life!Fact(6, "lapse_warning", due + 25)
           lapse == Life!Outcome(7, "lapsed", due + 35)
           lapsed == Life!Change(8, "grace_period", "lapsed", due + 35)
           Is(e, id, kind, to, day) ==
              e.id = id /\ e.kind = kind /\ e.to = to /\ e.effective = 24 * day /\ e.occurred = 24 * day
<1>1. /\ Is(issue, 1, "issued", "none", 0) /\ Is(bill, 2, "billing", "none", due)
      /\ Is(paid, 3, "payment.received", "none", due + 1)
      /\ Is(failed, 3, "payment.failed", "none", due + 1)
      /\ Is(contact, 4, "contact", "none", due + 8)
      /\ Is(inquiry, 4, "surrender_inquiry", "none", due + 15)
      /\ Is(reminder, 4, "payment_reminder", "none", due + 3)
      /\ Is(cured, 6, "payment.received", "none", due + 12)
      /\ Is(warning, 6, "lapse_warning", "none", due + 25)
  BY EventTimes DEF Life!Fact
<1>2. /\ Is(grace, 5, "status_changed", "grace_period", due + 5)
      /\ Is(surrendered, 6, "status_changed", "surrendered", due + 20)
      /\ Is(back, 7, "status_changed", "active", due + 12)
      /\ Is(lapsed, 8, "status_changed", "lapsed", due + 35)
  BY EventTimes DEF Life!Change
<1>3. /\ Is(surrender, 5, "outcome", "surrendered", due + 20)
      /\ Is(lapse, 7, "outcome", "lapsed", due + 35)
  BY EventTimes DEF Life!Outcome
<1>a. /\ issue.id = 1 /\ bill.id = 2 /\ paid.id = 3 /\ failed.id = 3
      /\ contact.id = 4 /\ inquiry.id = 4 /\ reminder.id = 4
      /\ grace.id = 5 /\ surrender.id = 5
      /\ surrendered.id = 6 /\ cured.id = 6 /\ warning.id = 6
      /\ back.id = 7 /\ lapse.id = 7 /\ lapsed.id = 8
  BY <1>1, <1>2, <1>3
<1> HIDE DEF issue, bill, paid, failed, contact, inquiry, reminder, grace, surrender, surrendered,
       cured, back, warning, lapse, lapsed
<1>4. ASSUME \A e \in h : e.id \in 1 .. 8 /\ 0 <= e.effective,
             \A a, b \in h : a.id = b.id => a = b,
             \A a, b \in Life!Outcomes(h) : a = b, TerminalIsLast(h)
      PROVE  Sound(h)
  <2>1. IsFiniteSet(h)
    <3> DEFINE f == [e \in h |-> e.id]
    <3>1. PICK n \in Int : n = 8
      OBVIOUS
    <3>2. f \in [h -> 1 .. n] /\ \A a, b \in h : f[a] = f[b] => a = b
      BY <1>4, <3>1
    <3> HIDE DEF f
    <3>3. f \in Injection(h, 1 .. n)
      BY <3>2 DEF Injection, IsInjective
    <3>4. IsFiniteSet(1 .. n)
      BY FS_Interval
    <3> QED
      BY <3>3, <3>4, FS_Injection
  <2>2. issue \in Life!OfKind(h, "issued") /\ issue.effective = 0
    BY <1>1 DEF Life!OfKind, issue
  <2> QED
    BY <1>4, <2>1, <2>2 DEF Sound
<1>5. Life!Terminal = {"lapsed", "surrendered"}
  BY DEF Life!Terminal
<1>6. CASE h = {issue, bill, paid}
  <2>1. Life!Changes(h) = {} /\ Life!Outcomes(h) = {}
    BY <1>1, <1>6 DEF Life!Changes, Life!Outcomes, Life!OfKind
  <2>2. \A e \in h : e.id \in 1 .. 8 /\ 0 <= e.effective
    BY <1>1, <1>6
  <2>3. \A a, b \in h : a.id = b.id => a = b
    BY <1>a, <1>6
  <2> QED
    BY <1>4, <2>1, <2>2, <2>3 DEF TerminalIsLast
<1>7. CASE h = {issue, bill, paid, contact}
  <2>1. Life!Changes(h) = {} /\ Life!Outcomes(h) = {}
    BY <1>1, <1>7 DEF Life!Changes, Life!Outcomes, Life!OfKind
  <2>2. \A e \in h : e.id \in 1 .. 8 /\ 0 <= e.effective
    BY <1>1, <1>7
  <2>3. \A a, b \in h : a.id = b.id => a = b
    BY <1>a, <1>7
  <2> QED
    BY <1>4, <2>1, <2>2, <2>3 DEF TerminalIsLast
<1>8. CASE h = {issue, bill, paid, inquiry, surrender, surrendered}
  <2>1. Life!Changes(h) = {surrendered} /\ Life!Outcomes(h) = {surrender}
    BY <1>1, <1>2, <1>3, <1>8 DEF Life!Changes, Life!Outcomes, Life!OfKind
  <2>2. \A e \in h : e.id \in 1 .. 8 /\ 0 <= e.effective
    BY <1>1, <1>2, <1>3, <1>8
  <2>3. \A a, b \in h : a.id = b.id => a = b
    BY <1>a, <1>8
  <2> QED
    BY <1>4, <2>1, <2>2, <2>3 DEF TerminalIsLast
<1>9. CASE h = {issue, bill, failed, reminder, grace, cured, back}
  <2>1. Life!Changes(h) = {grace, back} /\ Life!Outcomes(h) = {}
    BY <1>1, <1>2, <1>9 DEF Life!Changes, Life!Outcomes, Life!OfKind
  <2>2. \A e \in h : e.id \in 1 .. 8 /\ 0 <= e.effective
    <3>1. \A e \in {issue, bill, failed, reminder} : e.id \in 1 .. 8 /\ 0 <= e.effective
      BY <1>1
    <3>2. \A e \in {grace, cured, back} : e.id \in 1 .. 8 /\ 0 <= e.effective
      BY <1>1, <1>2
    <3> QED
      BY <1>9, <3>1, <3>2
  <2>3. \A a, b \in h : a.id = b.id => a = b
    BY <1>a, <1>9
  <2>4. TerminalIsLast(h)
    BY <1>2, <1>5, <2>1 DEF TerminalIsLast
  <2> QED
    BY <1>4, <2>1, <2>2, <2>3, <2>4
<1>10. CASE h = {issue, bill, failed, reminder, grace, warning, lapse, lapsed}
  <2>1. Life!Changes(h) = {grace, lapsed} /\ Life!Outcomes(h) = {lapse}
    BY <1>1, <1>2, <1>3, <1>10 DEF Life!Changes, Life!Outcomes, Life!OfKind
  <2>2. \A e \in h : e.id \in 1 .. 8 /\ 0 <= e.effective
    BY <1>1, <1>2, <1>3, <1>10
  <2>3. \A a, b \in h : a.id = b.id => a = b
    BY <1>a, <1>10
  <2>4. Life!Before(grace, lapsed)
    BY <1>2 DEF Life!Before
  <2>5. TerminalIsLast(h)
    BY <1>2, <1>5, <2>1, <2>4 DEF TerminalIsLast
  <2> QED
    BY <1>4, <2>1, <2>2, <2>3, <2>5
<1>11. Life!Overdue(due) = {failed, reminder, grace}
  BY DEF Life!Overdue, failed, reminder, grace
<1>12. \/ rest = {paid} \/ rest = {paid, contact} \/ rest = {paid, inquiry, surrender, surrendered}
       \/ rest = Life!Overdue(due) \cup {cured, back}
       \/ rest = Life!Overdue(due) \cup {warning, lapse, lapsed}
  BY DEF Life!Scenario, paid, contact, inquiry, surrender, surrendered, cured, back, warning, lapse, lapsed
<1>13. h = {issue, bill} \cup rest
  BY DEF issue, bill
<1> QED
  <2>1. CASE rest = {paid}
    BY <1>6, <1>13, <2>1
  <2>2. CASE rest = {paid, contact}
    BY <1>7, <1>13, <2>2
  <2>3. CASE rest = {paid, inquiry, surrender, surrendered}
    BY <1>8, <1>13, <2>3
  <2>4. CASE rest = Life!Overdue(due) \cup {cured, back}
    BY <1>9, <1>11, <1>13, <2>4
  <2>5. CASE rest = Life!Overdue(due) \cup {warning, lapse, lapsed}
    BY <1>10, <1>11, <1>13, <2>5
  <2> QED
    BY <1>12, <2>1, <2>2, <2>3, <2>4, <2>5

(* PolicyHistory: for any intervals, delays and horizon, of every history that validates the
   replay, the outcome and what an observation sees agree. *)
THEOREM ReadingsAgree == Life!Spec => []ReplayAgrees
<1>1. Life!Init => ReplayInv
  <2> SUFFICES ASSUME Life!Init PROVE Sound(history)
    BY LifeStarts DEF ReplayInv
  <2>1. PICK due \in Interval : \E rest \in Life!Scenario(due) :
          history = {Life!Fact(1, "issued", 0), Life!Fact(2, "billing", due)} \cup rest
    BY DEF Life!Init, Life!Generated
  <2> QED
    BY <2>1, ScenarioSound, DataAssumption DEF Life!HistoryAssumption
<1>2. ReplayInv /\ [Life!Next]_Life!vars => ReplayInv'
  <2> SUFFICES ASSUME ReplayInv, [Life!Next]_Life!vars PROVE Sound(history)'
    BY LifeStep DEF ReplayInv
  <2>1. CASE Life!Amend
    <3>1. Sound(history')
      BY <2>1, AmendSound DEF ReplayInv
    <3> QED
      BY <3>1 DEF Sound, TerminalIsLast
  <2>2. CASE history' = history
    BY <2>2 DEF ReplayInv, Sound, TerminalIsLast
  <2> QED
    BY <2>1, <2>2 DEF Life!Next, Life!Observe, Life!Follow, Life!vars
<1>3. ReplayInv => ReplayAgrees
  BY ReplaySafe DEF ReplayInv, ReplayAgrees
<1> QED
  BY <1>1, <1>2, <1>3, PTL DEF Life!Spec
-----------------------------------------------------------------------------
(* RecurringCorpus: whatever is still to be scheduled comes after every observation. *)
CorpusInv ==
    /\ cutoff \in Nat /\ nextDue \in Nat
    /\ \A n \in Nat : n >= nextDue => n * Step > cutoff - 90
    /\ \A o \in observations : o.asOf \in Nat /\ o.asOf <= cutoff - 90
    /\ \A o \in observations : Corpus!Features(events, o.asOf) = o.features
    /\ \A e \in events : e.effective \in Int /\ e.ingested \in Int
    /\ \E e \in events : e.kind = "issued" /\ e.effective <= cutoff /\ e.ingested <= cutoff

LEMMA TimesGrow ==
    ASSUME NEW m \in Nat, NEW n \in Nat, m <= n
    PROVE  m * Step \in Nat /\ m * Step <= n * Step /\ n <= n * Step
<1>1. Step \in Nat /\ Step >= 1
  BY DataAssumption DEF Corpus!CorpusAssumption
<1>2. n * Step = m * Step + (n - m) * Step /\ (n - m) * Step >= 0 /\ m * Step \in Nat
  BY <1>1
<1>3. n * Step = n + n * (Step - 1) /\ n * (Step - 1) >= 0
  BY <1>1
<1> QED
  BY <1>1, <1>2, <1>3

(* The instance has a Cardinality of its own, defined as the library's. *)
LEMMA SameCardinality == ASSUME NEW S PROVE Corpus!Cardinality(S) = Cardinality(S)
BY DEF Corpus!Cardinality, Cardinality

LEMMA DueIsFinite ==
    ASSUME CorpusInv
    PROVE  IsFiniteSet(Corpus!Due) /\ Cardinality(Corpus!Due) \in Nat
<1>1. IsFiniteSet(nextDue .. cutoff)
  BY FS_Interval DEF CorpusInv
<1>2. Corpus!Due \subseteq nextDue .. cutoff
  BY DEF Corpus!Due
<1> QED
  BY <1>1, <1>2, FS_Subset, FS_CardinalityType

(* The payments due are the next ones, so the next one not due is late enough. *)
LEMMA NextIsLater ==
    ASSUME CorpusInv, NEW n \in Nat, n >= nextDue + Cardinality(Corpus!Due)
    PROVE  n * Step > cutoff
<1>2. IsFiniteSet(Corpus!Due) /\ Cardinality(Corpus!Due) \in Nat
  BY DueIsFinite
<1>3. ASSUME n * Step <= cutoff PROVE FALSE
  <2>1. nextDue .. n \subseteq Corpus!Due
    <3> SUFFICES ASSUME NEW m \in nextDue .. n PROVE m \in Corpus!Due
      OBVIOUS
    <3>1. m \in Nat /\ m <= n
      BY DEF CorpusInv
    <3>2. m * Step <= n * Step /\ n <= n * Step /\ m * Step \in Nat /\ n * Step \in Nat
      BY <3>1, TimesGrow
    <3> QED
      BY <1>3, <3>1, <3>2 DEF CorpusInv, Corpus!Due
  <2>2. Cardinality(nextDue .. n) <= Cardinality(Corpus!Due)
    BY <1>2, <2>1, FS_Subset
  <2>3. Cardinality(nextDue .. n) = n - nextDue + 1
    BY <1>2, FS_Interval DEF CorpusInv
  <2> QED
    BY <1>2, <2>2, <2>3 DEF CorpusInv
<1> QED
  BY <1>2, <1>3, TimesGrow DEF CorpusInv

(* What becomes effective later is not seen. *)
LEMMA FeaturesStand ==
    ASSUME NEW es, NEW more, NEW t \in Int,
           \A e \in more : e.effective \in Int /\ e.effective > t
    PROVE  Corpus!Features(es \cup more, t) = Corpus!Features(es, t)
<1>1. Corpus!Visible(es \cup more, t) = Corpus!Visible(es, t)
  BY DEF Corpus!Visible
<1> QED
  BY <1>1 DEF Corpus!Features

LEMMA CorpusStarts == Corpus!Init => CorpusInv
<1> SUFFICES ASSUME Corpus!Init PROVE CorpusInv
  OBVIOUS
<1>1. PICK d \in Delay : events = {Corpus!Event("issued", 0, 0, d)}
  BY DEF Corpus!Init
<1>2. d \in 0 .. 29
  BY DataAssumption DEF Corpus!CorpusAssumption
<1>3. cutoff = 30 /\ nextDue = 1 /\ observations = {}
  BY DEF Corpus!Init
<1>4. \A n \in Nat : n * Step > cutoff - 90
  BY <1>3, TimesGrow
<1>5. \A e \in events :
        e.kind = "issued" /\ e.effective = 0 /\ e.ingested \in Int /\ e.ingested <= 30
  BY <1>1, <1>2 DEF Corpus!Event
<1>6. events # {}
  BY <1>1
<1> QED
  BY <1>3, <1>4, <1>5, <1>6 DEF CorpusInv

LEMMA EpisodeStep == ASSUME CorpusInv, Corpus!Episode PROVE CorpusInv'
<1>1. PICK paid \in Corpus!Payments(Corpus!Due) : \E service \in Corpus!Service, end \in Corpus!Ends :
        LET before == events \cup paid \cup service IN
        /\ events' = before \cup end
        /\ observations' = observations \cup
              {[asOf |-> cutoff, horizon |-> cutoff + 90,
                features |-> Corpus!Features(before, cutoff), positive |-> Corpus!Label(end)]}
  BY DEF Corpus!Episode
<1>2. PICK service \in Corpus!Service : \E end \in Corpus!Ends :
        LET before == events \cup paid \cup service IN
        /\ events' = before \cup end
        /\ observations' = observations \cup
              {[asOf |-> cutoff, horizon |-> cutoff + 90,
                features |-> Corpus!Features(before, cutoff), positive |-> Corpus!Label(end)]}
  BY <1>1
<1> DEFINE before == events \cup paid \cup service
<1>3. PICK end \in Corpus!Ends :
        /\ events' = before \cup end
        /\ observations' = observations \cup
              {[asOf |-> cutoff, horizon |-> cutoff + 90,
                features |-> Corpus!Features(before, cutoff), positive |-> Corpus!Label(end)]}
  BY <1>2
<1>4. cutoff' = cutoff + 90 /\ nextDue' = nextDue + Cardinality(Corpus!Due) /\ cutoff \in Nat
  <2>1. cutoff' = cutoff + 90 /\ nextDue' = nextDue + Cardinality(Corpus!Due)
    BY SameCardinality, Zenon DEF Corpus!Episode
  <2> QED
    BY <2>1 DEF CorpusInv
<1>5. \A e \in paid : e.effective \in Int /\ e.effective > cutoff - 90 /\ e.ingested \in Int
  <2>1. \A n \in Corpus!Due : n \in Nat /\ n * Step \in Int /\ n * Step > cutoff - 90
    BY TimesGrow DEF CorpusInv, Corpus!Due
  <2>2. \A e \in paid : \E n \in Corpus!Due, d \in Delay \cup {-1} :
           /\ e.effective = n * Step \/ e.effective = n * Step + 2
           /\ e.ingested = e.effective + d
    BY DEF Corpus!Payments, Corpus!Event
  <2> QED
    BY <1>4, <2>1, <2>2, DataAssumption DEF Corpus!CorpusAssumption
<1>6. \A e \in service : e.effective \in Int /\ e.effective > cutoff - 90 /\ e.ingested \in Int
  BY <1>4, DataAssumption DEF Corpus!Service, Corpus!Event, Corpus!CorpusAssumption
<1>7. \A e \in end : e.effective \in Int /\ e.effective > cutoff /\ e.ingested \in Int
  BY <1>4, DataAssumption DEF Corpus!Ends, Corpus!Event, Corpus!CorpusAssumption
<1>8. nextDue' \in Nat /\ \A n \in Nat : n >= nextDue' => n * Step > cutoff' - 90
  <2>1. Cardinality(Corpus!Due) \in Nat
    BY DueIsFinite
  <2> QED
    BY <1>4, <2>1, NextIsLater DEF CorpusInv
<1>9. ASSUME NEW o \in observations PROVE Corpus!Features(events', o.asOf) = o.features
  <2> DEFINE more == paid \cup service \cup end
  <2>1. o.asOf \in Nat /\ o.asOf <= cutoff - 90 /\ Corpus!Features(events, o.asOf) = o.features
    BY DEF CorpusInv
  <2>2. \A e \in more : e.effective \in Int /\ e.effective > o.asOf
    BY <1>4, <1>5, <1>6, <1>7, <2>1
  <2>3. events' = events \cup more
    BY <1>3
  <2> HIDE DEF more
  <2>4. Corpus!Features(events \cup more, o.asOf) = Corpus!Features(events, o.asOf)
    <3>1. o.asOf \in Int
      BY <2>1
    <3> QED
      BY <2>2, <3>1, FeaturesStand, Zenon
  <2> QED
    BY <2>1, <2>3, <2>4
<1>10. Corpus!Features(events', cutoff) = Corpus!Features(before, cutoff)
  <2> HIDE DEF before
  <2>1. Corpus!Features(before \cup end, cutoff) = Corpus!Features(before, cutoff)
    <3>1. cutoff \in Int
      BY <1>4
    <3> QED
      BY <1>7, <3>1, FeaturesStand, Zenon
  <2> QED
    BY <1>3, <2>1
<1>11. \A o \in observations' :
          /\ o.asOf \in Nat /\ o.asOf <= cutoff' - 90
          /\ Corpus!Features(events', o.asOf) = o.features
  <2> DEFINE new == [asOf |-> cutoff, horizon |-> cutoff + 90,
                     features |-> Corpus!Features(before, cutoff), positive |-> Corpus!Label(end)]
  <2>1. new.asOf = cutoff /\ new.features = Corpus!Features(before, cutoff)
    OBVIOUS
  <2>2. \A o \in observations' : o \in observations \/ o = new
    BY <1>3
  <2> HIDE DEF new, before
  <2> QED
    BY <1>4, <1>9, <1>10, <2>1, <2>2 DEF CorpusInv
<1>12. \E e \in events' : e.kind = "issued" /\ e.effective <= cutoff' /\ e.ingested <= cutoff'
  <2>1. PICK e \in events : e.kind = "issued" /\ e.effective <= cutoff /\ e.ingested <= cutoff
    BY DEF CorpusInv
  <2>2. e.effective \in Int /\ e.ingested \in Int
    BY <2>1 DEF CorpusInv
  <2> QED
    BY <1>3, <1>4, <2>1, <2>2
<1>13. \A e \in events' : e.effective \in Int /\ e.ingested \in Int
  BY <1>3, <1>5, <1>6, <1>7 DEF CorpusInv
<1> QED
  BY <1>4, <1>8, <1>11, <1>12, <1>13 DEF CorpusInv

LEMMA CorpusStep ==
    ASSUME CorpusInv, [Corpus!Next]_Corpus!vars
    PROVE  CorpusInv'
<1>1. CASE Corpus!Episode
  BY <1>1, EpisodeStep
<1>2. CASE UNCHANGED Corpus!vars
  BY <1>2 DEF Corpus!vars, CorpusInv, Corpus!Features, Corpus!Visible
<1> QED
  BY <1>1, <1>2 DEF Corpus!Next

(* RecurringCorpus: the finished history reproduces every observation, and never hides
   the issuance, for any watermark, payment interval and delays below 30 days. *)
THEOREM ObservationsReproduce == Corpus!Spec => []FeaturesReproduce
<1>1. CorpusInv => FeaturesReproduce
  BY DEF CorpusInv, FeaturesReproduce, Corpus!FeaturesReproduce, Corpus!Visible
<1> QED
  BY <1>1, CorpusStarts, CorpusStep, PTL DEF Corpus!Spec
-----------------------------------------------------------------------------
(* Planning: the choices for the first m policies, and what each adds up to. *)
Options(m) ==
    {v \in [1 .. m -> Action] : \A i \in 1 .. m : v[i] \in Eligible(cases[i].context)}
Choice(v) == [used |-> UsedBy(v), objective |-> WorthOf(v), chosen |-> v]

Use == [cost : Nat, seconds : Nat]
PlanState == [used : Use, objective : Int, chosen : Seq(Nat)]

LEMMA EligibleActions ==
    /\ \A c : Eligible(c) \subseteq Action /\ 0 \in Eligible(c)
    /\ \A a \in Action : a \in Nat /\ Economics[a] \in Use
    /\ IsFiniteSet(Action) /\ 0 \in Action
    /\ Economics[0].cost = 0 /\ Economics[0].seconds = 0
<1>1. \A c : Eligible(c) \subseteq Action /\ 0 \in Eligible(c)
  BY PlanningAssumption DEF Eligible, Contact
<1> QED
  BY <1>1, PlanningAssumption DEF Use

LEMMA WorthType ==
    ASSUME cases \in Seq(Case), NEW i \in 1 .. Len(cases), NEW a \in Action
    PROVE  Worth(cases[i], a) \in Int /\ Worth(cases[i], 0) = 0
<1>1. cases[i] \in Case
  OBVIOUS
<1>2. a # 0 => cases[i].value[a] \in Int
  BY <1>1, PlanningAssumption DEF Contact
<1> QED
  BY <1>2 DEF Worth

LEMMA SumExtends ==
    ASSUME NEW m \in Nat, NEW f \in [1 .. m -> Int], NEW g \in [1 .. m + 1 -> Int],
           \A i \in 1 .. m : g[i] = f[i]
    PROVE  SumFunction(g) = SumFunction(f) + g[m + 1]
<1>1. IsFiniteSet(1 .. m + 1) /\ IsFiniteSet(1 .. m)
  BY FS_Interval
<1>2. m + 1 \in 1 .. m + 1 /\ (1 .. m + 1) \ {m + 1} = 1 .. m /\ 1 .. m \subseteq 1 .. m + 1
  OBVIOUS
<1>3. SumFunctionOnSet(g, 1 .. m + 1) = g[m + 1] + SumFunctionOnSet(g, (1 .. m + 1) \ {m + 1})
  BY <1>1, <1>2, SumOfIntegers
<1>4. SumFunctionOnSet(g, 1 .. m) = SumFunctionOnSet(f, 1 .. m)
  BY <1>1, SumCongruent
<1>5. SumFunctionOnSet(f, 1 .. m) \in Int /\ g[m + 1] \in Int
  BY <1>1, <1>2, SumOfIntegers
<1>6. SumFunction(g) = SumFunctionOnSet(g, 1 .. m + 1)
  BY DEF SumFunction
<1>7. SumFunction(f) = SumFunctionOnSet(f, 1 .. m)
  BY DEF SumFunction
<1>8. SumFunction(g) = g[m + 1] + SumFunction(f)
  BY <1>2, <1>3, <1>4, <1>6, <1>7
<1>9. \A a, b \in Int : a + b = b + a
  OBVIOUS
<1> QED
  BY <1>5, <1>7, <1>8, <1>9

(* A list with one more at its end. *)
LEMMA AppendMaps ==
    ASSUME NEW m \in Nat, NEW f \in [1 .. m -> Action], NEW a \in Action
    PROVE  /\ Append(f, a) \in [1 .. m + 1 -> Action] /\ Append(f, a)[m + 1] = a
           /\ \A i \in 1 .. m : Append(f, a)[i] = f[i]
<1>1. f \in Seq(Action) /\ Len(f) = m
  OBVIOUS
<1>2. Append(f, a) \in Seq(Action) /\ Len(Append(f, a)) = m + 1
  BY <1>1, AppendProperties
<1>3. Append(f, a) \in [1 .. m + 1 -> Action]
  BY <1>2, LenProperties
<1>4. Append(f, a)[m + 1] = a /\ \A i \in 1 .. m : Append(f, a)[i] = f[i]
  BY <1>1, AppendProperties
<1> QED
  BY <1>3, <1>4

(* The sums of a choice are numbers. *)
LEMMA ChoiceType ==
    ASSUME cases \in Seq(Case), NEW m \in 0 .. Len(cases), NEW v \in [1 .. m -> Action]
    PROVE  /\ UsedBy(v) \in Use /\ WorthOf(v) \in Int /\ v \in Seq(Nat) /\ Len(v) = m
           /\ Choice(v) \in PlanState
<1> DEFINE c == [i \in DOMAIN v |-> Economics[v[i]].cost]
           d == [i \in DOMAIN v |-> Economics[v[i]].seconds]
           w == [i \in DOMAIN v |-> Worth(cases[i], v[i])]
<1>1. DOMAIN v = 1 .. m /\ m \in Nat /\ Len(cases) \in Nat
      /\ \A i \in 1 .. m : v[i] \in Action /\ i \in 1 .. Len(cases)
  OBVIOUS
<1>2. \A a \in Action : Economics[a].cost \in Nat /\ Economics[a].seconds \in Nat
  BY EligibleActions DEF Use
<1>3. c \in [1 .. m -> Nat] /\ d \in [1 .. m -> Nat]
  BY <1>1, <1>2
<1>4. w \in [1 .. m -> Int]
  BY <1>1, WorthType
<1>5. SumFunction(c) = SumFunctionOnSet(c, 1 .. m) /\ SumFunction(d) = SumFunctionOnSet(d, 1 .. m)
      /\ SumFunction(w) = SumFunctionOnSet(w, 1 .. m)
  BY <1>1 DEF SumFunction
<1>6. UsedBy(v) = [cost |-> SumFunction(c), seconds |-> SumFunction(d)] /\ WorthOf(v) = SumFunction(w)
  BY DEF UsedBy, WorthOf
<1> HIDE DEF c, d, w
<1>7. IsFiniteSet(1 .. m)
  BY <1>1, FS_Interval
<1>8. SumFunction(c) \in Nat /\ SumFunction(d) \in Nat /\ SumFunction(w) \in Int
  <2>1. (1 .. m) \in SUBSET (1 .. m)
    OBVIOUS
  <2>2. SumFunctionOnSet(c, 1 .. m) \in Nat
    BY <1>3, <1>7, <2>1, SumAny
  <2>3. SumFunctionOnSet(d, 1 .. m) \in Nat
    BY <1>3, <1>7, <2>1, SumAny
  <2>4. SumFunctionOnSet(w, 1 .. m) \in Int
    BY <1>4, <1>7, <2>1, SumOfIntegers
  <2> QED
    BY <1>5, <2>2, <2>3, <2>4
<1>9. v \in Seq(Nat) /\ Len(v) = m
  <2>1. \A i \in 1 .. m : v[i] \in Nat
    BY <1>1, EligibleActions
  <2>2. v \in [1 .. m -> Nat]
    BY <1>1, <2>1
  <2> QED
    BY <1>1, <2>2
<1> QED
  BY <1>6, <1>8, <1>9 DEF Use, PlanState, Choice

LEMMA ChoicesArePlans ==
    ASSUME cases \in Seq(Case), NEW m \in 0 .. Len(cases), NEW v \in Options(m)
    PROVE  /\ UsedBy(v) \in Use /\ WorthOf(v) \in Int /\ v \in Seq(Nat) /\ Len(v) = m
           /\ Choice(v) \in PlanState /\ v \in [1 .. m -> Action]
BY ChoiceType DEF Options

(* One more policy. *)
LEMMA ChoiceExtends ==
    ASSUME cases \in Seq(Case), NEW m \in Nat, m + 1 <= Len(cases), NEW v \in Options(m),
           NEW a \in Eligible(cases[m + 1].context)
    PROVE  /\ Append(v, a) \in Options(m + 1)
           /\ UsedBy(Append(v, a)) = Plus(UsedBy(v), a)
           /\ WorthOf(Append(v, a)) = WorthOf(v) + Worth(cases[m + 1], a)
<1> DEFINE x == Append(v, a)
<1>1. a \in Action /\ v \in [1 .. m -> Action] /\ Len(cases) \in Nat
  BY EligibleActions DEF Options
<1>2. v \in Seq(Action) /\ Len(v) = m /\ DOMAIN v = 1 .. m
  BY <1>1
<1>3. /\ x \in [1 .. m + 1 -> Action] /\ DOMAIN x = 1 .. m + 1 /\ x[m + 1] = a
      /\ \A i \in 1 .. m : x[i] = v[i]
  <2>1. /\ Append(v, a) \in [1 .. m + 1 -> Action] /\ Append(v, a)[m + 1] = a
        /\ \A i \in 1 .. m : Append(v, a)[i] = v[i]
    BY <1>1, AppendMaps, Zenon
  <2> QED
    BY <2>1
<1> HIDE DEF x
<1>4. x \in Options(m + 1)
  <2> SUFFICES ASSUME NEW i \in 1 .. m + 1 PROVE x[i] \in Eligible(cases[i].context)
    BY <1>3 DEF Options
  <2>1. CASE i = m + 1
    BY <1>3, <2>1
  <2>2. CASE i # m + 1
    BY <1>3, <2>2 DEF Options
  <2> QED
    BY <2>1, <2>2
<1>5. \A b \in Action : Economics[b].cost \in Int /\ Economics[b].seconds \in Int
  BY EligibleActions DEF Use
<1>6. \A i \in 1 .. m + 1 : i \in 1 .. Len(cases)
  BY <1>1
<1>7. SumFunction([i \in DOMAIN x |-> Economics[x[i]].cost]) =
         SumFunction([i \in DOMAIN v |-> Economics[v[i]].cost]) + Economics[a].cost
  <2> DEFINE f == [i \in DOMAIN v |-> Economics[v[i]].cost]
             g == [i \in DOMAIN x |-> Economics[x[i]].cost]
  <2>1. f \in [1 .. m -> Int]
    BY <1>1, <1>2, <1>5
  <2>2. g \in [1 .. m + 1 -> Int]
    BY <1>3, <1>5
  <2>3. \A i \in 1 .. m : g[i] = f[i]
    BY <1>2, <1>3
  <2>4. g[m + 1] = Economics[a].cost
    BY <1>3
  <2> HIDE DEF f, g
  <2> QED
    BY <2>1, <2>2, <2>3, <2>4, SumExtends DEF f, g
<1>8. SumFunction([i \in DOMAIN x |-> Economics[x[i]].seconds]) =
         SumFunction([i \in DOMAIN v |-> Economics[v[i]].seconds]) + Economics[a].seconds
  <2> DEFINE f == [i \in DOMAIN v |-> Economics[v[i]].seconds]
             g == [i \in DOMAIN x |-> Economics[x[i]].seconds]
  <2>1. f \in [1 .. m -> Int]
    BY <1>1, <1>2, <1>5
  <2>2. g \in [1 .. m + 1 -> Int]
    BY <1>3, <1>5
  <2>3. \A i \in 1 .. m : g[i] = f[i]
    BY <1>2, <1>3
  <2>4. g[m + 1] = Economics[a].seconds
    BY <1>3
  <2> HIDE DEF f, g
  <2> QED
    BY <2>1, <2>2, <2>3, <2>4, SumExtends DEF f, g
<1>9. WorthOf(x) = WorthOf(v) + Worth(cases[m + 1], a)
  <2> DEFINE f == [i \in DOMAIN v |-> Worth(cases[i], v[i])]
             g == [i \in DOMAIN x |-> Worth(cases[i], x[i])]
  <2>1. f \in [1 .. m -> Int]
    <3>1. \A i \in 1 .. m : Worth(cases[i], v[i]) \in Int
      BY <1>1, <1>6, WorthType
    <3> QED
      BY <1>2, <3>1
  <2>2. g \in [1 .. m + 1 -> Int]
    <3>1. \A i \in 1 .. m + 1 : Worth(cases[i], x[i]) \in Int
      BY <1>3, <1>6, WorthType
    <3> QED
      BY <1>3, <3>1
  <2>3. \A i \in 1 .. m : g[i] = f[i]
    BY <1>2, <1>3
  <2>4. g[m + 1] = Worth(cases[m + 1], a)
    BY <1>3
  <2>5. WorthOf(v) = SumFunction(f) /\ WorthOf(x) = SumFunction(g)
    BY DEF WorthOf
  <2> HIDE DEF f, g
  <2> QED
    BY <2>1, <2>2, <2>3, <2>4, <2>5, SumExtends
<1>10. UsedBy(x) = Plus(UsedBy(v), a)
  BY <1>7, <1>8 DEF UsedBy, Plus
<1> QED
  BY <1>4, <1>9, <1>10 DEF x

LEMMA ChoiceShrinks ==
    ASSUME cases \in Seq(Case), NEW m \in Nat, m + 1 <= Len(cases), NEW v \in Options(m + 1)
    PROVE  \E w \in Options(m), a \in Eligible(cases[m + 1].context) : v = Append(w, a)
<1> DEFINE w == [i \in 1 .. m |-> v[i]]
<1>1. v \in [1 .. m + 1 -> Action] /\ \A i \in 1 .. m + 1 : v[i] \in Eligible(cases[i].context)
  BY DEF Options
<1>2. w \in [1 .. m -> Action] /\ \A i \in 1 .. m : w[i] = v[i]
  BY <1>1
<1> HIDE DEF w
<1>3. w \in Options(m)
  BY <1>1, <1>2 DEF Options
<1>4. w \in Seq(Action) /\ Len(w) = m /\ DOMAIN w = 1 .. m /\ v[m + 1] \in Action
  BY <1>1, <1>2
<1>5. v = Append(w, v[m + 1])
  <2>1. /\ Append(w, v[m + 1]) \in [1 .. m + 1 -> Action]
        /\ Append(w, v[m + 1])[m + 1] = v[m + 1]
        /\ \A i \in 1 .. m : Append(w, v[m + 1])[i] = w[i]
    BY <1>2, <1>4, AppendMaps, Zenon
  <2>2. \A i \in 1 .. m + 1 : Append(w, v[m + 1])[i] = v[i]
    BY <1>2, <2>1
  <2> QED
    BY <1>1, <2>1, <2>2
<1> QED
  BY <1>1, <1>3, <1>5
-----------------------------------------------------------------------------
(* The order of tuples, and that of states. *)
LEMMA PrecedesOrder ==
    ASSUME NEW r \in Seq(Nat), NEW s \in Seq(Nat), NEW t \in Seq(Nat)
    PROVE  /\ ~ Precedes(r, r)
           /\ Precedes(r, s) /\ Precedes(s, t) => Precedes(r, t)
<1>1. /\ \A i \in 1 .. Len(r) : r[i] \in Nat
      /\ \A i \in 1 .. Len(s) : s[i] \in Nat
      /\ \A i \in 1 .. Len(t) : t[i] \in Nat
      /\ Len(r) \in Nat /\ Len(s) \in Nat /\ Len(t) \in Nat
  OBVIOUS
<1>2. ~ Precedes(r, r)
  BY <1>1 DEF Precedes
<1>3. ASSUME Precedes(r, s), Precedes(s, t)
      PROVE  Precedes(r, t)
  <2>1. PICK k \in 1 .. Len(s) :
           /\ k <= Len(r) + 1
           /\ \A j \in 1 .. k - 1 : r[j] = s[j]
           /\ k <= Len(r) => r[k] < s[k]
    BY <1>3 DEF Precedes
  <2>2. PICK l \in 1 .. Len(t) :
           /\ l <= Len(s) + 1
           /\ \A j \in 1 .. l - 1 : s[j] = t[j]
           /\ l <= Len(s) => s[l] < t[l]
    BY <1>3 DEF Precedes
  <2>3. ASSUME NEW n \in 1 .. Len(t), n <= Len(r) + 1, \A j \in 1 .. n - 1 : r[j] = t[j],
               n <= Len(r) => r[n] < t[n]
        PROVE  Precedes(r, t)
    BY <2>3 DEF Precedes
  <2>4. CASE k < l
    <3>1. k \in 1 .. Len(t) /\ k \in 1 .. l - 1 /\ \A j \in 1 .. k - 1 : j \in 1 .. l - 1
      BY <1>1, <2>4
    <3>2. s[k] = t[k] /\ \A j \in 1 .. k - 1 : r[j] = t[j]
      BY <2>1, <2>2, <3>1
    <3> QED
      BY <2>1, <2>3, <3>1, <3>2
  <2>5. CASE k = l
    <3>1. \A j \in 1 .. l - 1 : r[j] = t[j]
      BY <2>1, <2>2, <2>5
    <3>2. l <= Len(r) => r[l] < t[l]
      <4>1. s[l] < t[l]
        BY <1>1, <2>2, <2>5
      <4>2. l <= Len(r) => r[l] < s[l]
        BY <2>1, <2>5
      <4>3. t[l] \in Nat /\ s[l] \in Nat /\ (l <= Len(r) => r[l] \in Nat)
        BY <1>1, <2>1, <2>5
      <4>4. \A x, y, z \in Nat : x < y /\ y < z => x < z
        OBVIOUS
      <4> QED
        BY <4>1, <4>2, <4>3, <4>4, Zenon
    <3>3. l <= Len(r) + 1
      BY <2>1, <2>5
    <3> QED
      BY <2>3, <3>1, <3>2, <3>3
  <2>6. CASE l < k
    <3>4. k \in Int /\ l \in Int /\ Len(r) \in Int /\ Len(s) \in Int /\ 1 <= l /\ l < k
          /\ k <= Len(s) /\ k <= Len(r) + 1
      BY <1>1, <2>1, <2>6
    <3>1. l <= Len(s) /\ l <= Len(r) /\ l \in 1 .. k - 1 /\ \A j \in 1 .. l - 1 : j \in 1 .. k - 1
      BY <3>4
    <3>2. r[l] = s[l] /\ s[l] < t[l] /\ \A j \in 1 .. l - 1 : r[j] = t[j]
      BY <2>1, <2>2, <3>1
    <3>3. l <= Len(r) + 1
      BY <1>1, <3>1
    <3> QED
      BY <2>3, <3>2, <3>3
  <2> QED
    BY <1>1, <2>4, <2>5, <2>6
<1> QED
  BY <1>2, <1>3

(* Two different tuples of one length are ordered. *)
LEMMA PrecedesTotal ==
    ASSUME NEW s \in Seq(Nat), NEW t \in Seq(Nat), Len(s) = Len(t), s # t
    PROVE  Precedes(s, t) \/ Precedes(t, s)
<1> DEFINE U == {i \in 1 .. Len(s) : s[i] # t[i]}
           R == {p \in U \X U : p[1] < p[2]}
<1>1. Len(s) \in Nat /\ \A i \in 1 .. Len(s) : s[i] \in Nat /\ t[i] \in Nat
  OBVIOUS
<1>2. U # {}
  <2> SUFFICES ASSUME \A i \in 1 .. Len(s) : s[i] = t[i] PROVE s = t
    OBVIOUS
  <2>1. s \in [1 .. Len(s) -> Nat] /\ t \in [1 .. Len(s) -> Nat]
    BY LenProperties
  <2> QED
    BY <2>1
<1>3. IsFiniteSet(U)
  <2>1. IsFiniteSet(1 .. Len(s))
    BY <1>1, FS_Interval
  <2> QED
    BY <2>1, FS_Subset
<1>4. PICK u \in U : TRUE
  BY <1>2
<1>5. /\ \A x \in U : <<x, x>> \notin R
      /\ \A x, y, z \in U : <<x, y>> \in R /\ <<y, z>> \in R => <<x, z>> \in R
  <2>1. \A x, y \in U : <<x, y>> \in R <=> x < y
    OBVIOUS
  <2>2. \A x \in U : x \in Int
    OBVIOUS
  <2> HIDE DEF U, R
  <2>3. ASSUME NEW x \in U PROVE <<x, x>> \notin R
    BY <2>1, <2>2
  <2>4. ASSUME NEW x \in U, NEW y \in U, NEW z \in U, <<x, y>> \in R, <<y, z>> \in R
        PROVE  <<x, z>> \in R
    <3>1. x < y /\ y < z
      BY <2>1, <2>2, <2>4
    <3>2. x < z
      BY <2>2, <3>1
    <3> QED
      BY <2>1, <2>2, <3>2
  <2> QED
    BY <2>3, <2>4
<1>6. PICK k \in U : \A y \in U : <<y, k>> \notin R
  <2>1. R \in SUBSET (U \X U)
    OBVIOUS
  <2> HIDE DEF U, R
  <2> QED
    BY <1>3, <1>4, <1>5, <2>1, FiniteHasGreatest
<1>7. k \in 1 .. Len(s) /\ \A j \in 1 .. k - 1 : s[j] = t[j]
  <2>1. k \in 1 .. Len(s)
    OBVIOUS
  <2>2. ASSUME NEW j \in 1 .. k - 1, s[j] # t[j] PROVE FALSE
    <3>1. j \in 1 .. Len(s) /\ j < k
      BY <1>1, <2>1
    <3>2. j \in U /\ <<j, k>> \in R
      BY <2>2, <3>1
    <3> QED
      BY <1>6, <3>2
  <2> QED
    BY <2>1, <2>2
<1>8. s[k] < t[k] \/ t[k] < s[k]
  <2>1. s[k] # t[k]
    OBVIOUS
  <2>2. s[k] \in Nat /\ t[k] \in Nat
    BY <1>1, <1>7
  <2>3. \A x, y \in Nat : x # y => x < y \/ y < x
    OBVIOUS
  <2> HIDE DEF U, R
  <2> QED
    BY <2>1, <2>2, <2>3, Zenon
<1>11. k \in 1 .. Len(t) /\ k <= Len(s) + 1 /\ k <= Len(t) + 1
  BY <1>1, <1>7
<1> HIDE DEF U, R
<1>9. CASE s[k] < t[k]
  BY <1>7, <1>9, <1>11 DEF Precedes
<1>10. CASE t[k] < s[k]
  BY <1>7, <1>10, <1>11 DEF Precedes
<1> QED
  BY <1>8, <1>9, <1>10

(* The same action at the end of both decides nothing. *)
LEMMA PrecedesDrop ==
    ASSUME NEW m \in Nat, NEW v \in [1 .. m -> Action], NEW w \in [1 .. m -> Action],
           NEW a \in Action, Precedes(Append(v, a), Append(w, a))
    PROVE  Precedes(v, w)
<1> DEFINE x == Append(v, a)
           y == Append(w, a)
<1>1. v \in Seq(Action) /\ w \in Seq(Action) /\ Len(v) = m /\ Len(w) = m
  OBVIOUS
<1>2. Len(x) = m + 1 /\ Len(y) = m + 1
  BY <1>1, AppendProperties
<1>3. /\ x[m + 1] = a /\ y[m + 1] = a
      /\ \A i \in 1 .. m : x[i] = v[i] /\ y[i] = w[i]
  BY AppendMaps
<1>4. Precedes(x, y)
  OBVIOUS
<1> HIDE DEF x, y
<1>5. PICK k \in 1 .. m + 1 : (\A j \in 1 .. k - 1 : x[j] = y[j]) /\ x[k] < y[k]
  BY <1>2, <1>4 DEF Precedes
<1>6. a \in Nat
  BY EligibleActions
<1>7. k \in 1 .. m /\ \A j \in 1 .. k - 1 : j \in 1 .. m
  BY <1>3, <1>5, <1>6
<1>8. v[k] < w[k] /\ \A j \in 1 .. k - 1 : v[j] = w[j]
  BY <1>3, <1>5, <1>7
<1> QED
  BY <1>1, <1>7, <1>8 DEF Precedes

LEMMA BetterOrder ==
    ASSUME NEW r \in PlanState, NEW s \in PlanState, NEW t \in PlanState
    PROVE  /\ ~ Better(r, r)
           /\ Better(r, s) /\ Better(s, t) => Better(r, t)
           /\ Len(s.chosen) = Len(t.chosen) /\ ~ Better(s, t) /\ ~ Better(t, s) =>
                 s.objective = t.objective /\ s.chosen = t.chosen
<1>1. /\ r.objective \in Int /\ s.objective \in Int /\ t.objective \in Int
      /\ r.chosen \in Seq(Nat) /\ s.chosen \in Seq(Nat) /\ t.chosen \in Seq(Nat)
  BY DEF PlanState
<1>2. ~ Better(r, r)
  BY <1>1, PrecedesOrder DEF Better
<1>3. Better(r, s) /\ Better(s, t) => Better(r, t)
  <2>1. Precedes(r.chosen, s.chosen) /\ Precedes(s.chosen, t.chosen) => Precedes(r.chosen, t.chosen)
    BY <1>1, PrecedesOrder
  <2> QED
    BY <1>1, <2>1 DEF Better
<1>4. ASSUME Len(s.chosen) = Len(t.chosen), ~ Better(s, t), ~ Better(t, s)
      PROVE  s.objective = t.objective /\ s.chosen = t.chosen
  <2>1. s.objective = t.objective
    BY <1>1, <1>4 DEF Better
  <2>2. s.chosen = t.chosen
    BY <1>1, <1>4, <2>1, PrecedesTotal DEF Better
  <2> QED
    BY <2>1, <2>2
<1> QED
  BY <1>2, <1>3, <1>4

(* Keeping the best state of each use loses none that something better does not replace. *)
LEMMA KeepKeeps ==
    ASSUME NEW states \in SUBSET PlanState, IsFiniteSet(states), NEW r \in states, Within(r.used)
    PROVE  \E s \in Keep(states) : s.used = r.used /\ (s = r \/ Better(s, r))
<1> DEFINE U == {t \in states : t.used = r.used}
           R == {p \in U \X U : Better(p[1], p[2])}
<1>1. IsFiniteSet(U) /\ r \in U
  BY FS_Subset
<1>2. \A x \in U : <<x, x>> \notin R
  BY BetterOrder
<1>3. \A x, y, z \in U : <<x, y>> \in R /\ <<y, z>> \in R => <<x, z>> \in R
  BY BetterOrder
<1>4. PICK s \in U : (s = r \/ <<s, r>> \in R) /\ \A y \in U : <<y, s>> \notin R
  <2>1. R \in SUBSET (U \X U)
    OBVIOUS
  <2> HIDE DEF U, R
  <2> QED
    BY <1>1, <1>2, <1>3, <2>1, FiniteHasGreatest
<1>5. s \in states /\ s.used = r.used /\ (s = r \/ Better(s, r))
  BY <1>4
<1>6. \A t \in states : t.used = s.used => ~ Better(t, s)
  BY <1>4, <1>5
<1> QED
  BY <1>5, <1>6 DEF Keep

(* Some state of finitely many has none that is better. *)
LEMMA BestIsBest ==
    ASSUME NEW states \in SUBSET PlanState, IsFiniteSet(states), states # {}
    PROVE  Best(states) \in states /\ \A t \in states : ~ Better(t, Best(states))
<1> DEFINE R == {p \in states \X states : Better(p[1], p[2])}
<1>1. PICK r \in states : TRUE
  OBVIOUS
<1>2. \A x \in states : <<x, x>> \notin R
  BY BetterOrder
<1>3. \A x, y, z \in states : <<x, y>> \in R /\ <<y, z>> \in R => <<x, z>> \in R
  BY BetterOrder
<1>4. PICK s \in states : \A y \in states : <<y, s>> \notin R
  <2>1. R \in SUBSET (states \X states)
    OBVIOUS
  <2> HIDE DEF R
  <2> QED
    BY <1>1, <1>2, <1>3, <2>1, FiniteHasGreatest
<1>5. \A t \in states : ~ Better(t, s)
  BY <1>4
<1> QED
  BY <1>5 DEF Best

(* What a state becomes with an action more. *)
Taken(s, case, a, mark) ==
    [used |-> Plus(s.used, a), objective |-> s.objective + Worth(case, a),
     chosen |-> Append(s.chosen, mark[a])]

LEMMA ReachIs ==
    ASSUME NEW states, NEW case, NEW mark
    PROVE  Reach(states, case, mark) =
             {Taken(s, case, a, mark) : s \in states, a \in Eligible(case.context)}
BY DEF Reach, Taken

(* Finitely many states reach finitely many. *)
LEMMA ReachIsFinite ==
    ASSUME NEW states, IsFiniteSet(states), NEW case, NEW mark
    PROVE  IsFiniteSet(Reach(states, case, mark))
<1> DEFINE P == states \X Eligible(case.context)
           f == [p \in P |-> Taken(p[1], case, p[2], mark)]
<1>1. IsFiniteSet(Eligible(case.context))
  BY EligibleActions, FS_Subset
<1>2. IsFiniteSet(P)
  BY <1>1, FS_Product
<1>3. f \in Surjection(P, Reach(states, case, mark))
  <2>1. \A s \in states, a \in Eligible(case.context) :
          <<s, a>> \in P /\ f[<<s, a>>] = Taken(s, case, a, mark)
    OBVIOUS
  <2>2. \A p \in P : \E s \in states, a \in Eligible(case.context) : f[p] = Taken(s, case, a, mark)
    OBVIOUS
  <2>3. DOMAIN f = P
    OBVIOUS
  <2>4. f = [p \in P |-> f[p]]
    OBVIOUS
  <2> HIDE DEF P, f
  <2>5. f \in [P -> Reach(states, case, mark)]
    BY <2>2, <2>4, ReachIs
  <2>6. ASSUME NEW r \in Reach(states, case, mark) PROVE \E p \in P : f[p] = r
    <3>1. PICK s \in states, a \in Eligible(case.context) : r = Taken(s, case, a, mark)
      BY ReachIs
    <3>2. <<s, a>> \in P /\ f[<<s, a>>] = r
      BY <2>1, <3>1
    <3> QED
      BY <3>2
  <2> QED
    BY <2>5, <2>6 DEF Surjection
<1> HIDE DEF P, f
<1> QED
  BY <1>2, <1>3, FS_Surjection
-----------------------------------------------------------------------------
(* What the dynamic programs have after m policies. The Python one has, of each use,
   a choice that none with that use is better than; the Java one has of each use one
   that none is worth more than, among the choices that abstain where it leaves out. *)
PythonHolds(states, m) ==
    /\ IsFiniteSet(states)
    /\ \A s \in states : s.chosen \in Options(m) /\ s = Choice(s.chosen) /\ Within(s.used)
    /\ \A v \in Options(m) : Within(UsedBy(v)) =>
          \E s \in states : s.used = UsedBy(v) /\ ~ Better(Choice(v), s)
JavaHolds(states, m) ==
    /\ IsFiniteSet(states)
    /\ \A s \in states :
          /\ s \in PlanState /\ Within(s.used)
          /\ \E v \in Options(m) : s.used = UsedBy(v) /\ s.objective = WorthOf(v)
    /\ \A v \in Options(m) : Within(UsedBy(v)) =>
          \E s \in states : s.used = UsedBy(v) /\ s.objective >= WorthOf(v)

LEMMA UseOfPlus ==
    ASSUME NEW u \in Use, NEW a \in Action
    PROVE  Plus(u, a) \in Use /\ (Within(Plus(u, a)) => Within(u)) /\ Plus(u, 0) = u
<1>1. Economics[a].cost \in Nat /\ Economics[a].seconds \in Nat /\ Budget \in Int /\ Seconds \in Int
  BY EligibleActions, PlanningAssumption DEF Use
<1>2. u.cost \in Nat /\ u.seconds \in Nat /\ u = [cost |-> u.cost, seconds |-> u.seconds]
  BY DEF Use
<1> QED
  BY <1>1, <1>2, EligibleActions DEF Use, Plus, Within

(* What is taken of a choice is a choice of one policy more. *)
LEMMA TakenIsChoice ==
    ASSUME cases \in Seq(Case), NEW m \in Nat, m + 1 <= Len(cases), NEW v \in Options(m),
           NEW a \in Eligible(cases[m + 1].context)
    PROVE  Taken(Choice(v), cases[m + 1], a, [b \in Action |-> b]) = Choice(Append(v, a))
<1>1. a \in Action
  BY EligibleActions
<1> QED
  BY <1>1, ChoiceExtends DEF Taken, Choice

LEMMA PythonFolds ==
    ASSUME cases \in Seq(Case), NEW m \in Nat, m + 1 <= Len(cases), NEW states, PythonHolds(states, m)
    PROVE  PythonHolds(Keep(Reach(states, cases[m + 1], [a \in Action |-> a])), m + 1)
<1> DEFINE case == cases[m + 1]
           itself == [a \in Action |-> a]
           reached == Reach(states, case, itself)
           kept == Keep(reached)
<1>1. m \in 0 .. Len(cases) /\ m + 1 \in 0 .. Len(cases)
  OBVIOUS
<1>2. reached = {Taken(s, case, a, itself) : s \in states, a \in Eligible(case.context)}
  BY ReachIs
<1>3. \A v \in Options(m), a \in Eligible(case.context) :
         /\ Taken(Choice(v), case, a, itself) = Choice(Append(v, a))
         /\ Append(v, a) \in Options(m + 1) /\ UsedBy(Append(v, a)) = Plus(UsedBy(v), a)
         /\ WorthOf(Append(v, a)) = WorthOf(v) + Worth(case, a)
  BY TakenIsChoice, ChoiceExtends
<1>4. IsFiniteSet(reached)
  BY ReachIsFinite DEF PythonHolds
<1>5. kept \subseteq reached /\ \A s \in kept : Within(s.used)
  BY DEF Keep
<1>6. IsFiniteSet(kept)
  BY <1>4, <1>5, FS_Subset
<1> HIDE DEF reached, kept, itself, case
<1>7. \A s \in reached : s.chosen \in Options(m + 1) /\ s = Choice(s.chosen)
  <2> SUFFICES ASSUME NEW r \in reached PROVE r.chosen \in Options(m + 1) /\ r = Choice(r.chosen)
    OBVIOUS
  <2>1. PICK s \in states, a \in Eligible(case.context) : r = Taken(s, case, a, itself)
    BY <1>2
  <2>2. s.chosen \in Options(m) /\ s = Choice(s.chosen)
    BY DEF PythonHolds
  <2>3. r = Choice(Append(s.chosen, a)) /\ Append(s.chosen, a) \in Options(m + 1)
    BY <1>3, <2>1, <2>2
  <2>4. \A v : Choice(v).chosen = v
    BY DEF Choice
  <2> QED
    BY <2>3, <2>4
<1>8. reached \subseteq PlanState
  BY <1>1, <1>7, ChoicesArePlans
<1>9. ASSUME NEW w \in Options(m + 1), Within(UsedBy(w))
      PROVE  \E s \in kept : s.used = UsedBy(w) /\ ~ Better(Choice(w), s)
  <2>1. PICK v \in Options(m), a \in Eligible(case.context) : w = Append(v, a)
    BY ChoiceShrinks DEF case
  <2>2. /\ UsedBy(w) = Plus(UsedBy(v), a) /\ WorthOf(w) = WorthOf(v) + Worth(case, a)
        /\ UsedBy(v) \in Use /\ WorthOf(v) \in Int /\ Choice(v) \in PlanState
        /\ a \in Action /\ Choice(w) \in PlanState /\ v \in [1 .. m -> Action]
    BY <1>1, <1>3, <2>1, ChoicesArePlans, EligibleActions
  <2>3. Within(UsedBy(v))
    BY <1>9, <2>2, UseOfPlus
  <2>4. PICK s \in states : s.used = UsedBy(v) /\ ~ Better(Choice(v), s)
    BY <2>3 DEF PythonHolds
  <2>5. s.chosen \in Options(m) /\ s = Choice(s.chosen)
    BY DEF PythonHolds
  <2>6. /\ WorthOf(s.chosen) \in Int /\ s.chosen \in [1 .. m -> Action]
        /\ UsedBy(s.chosen) = UsedBy(v) /\ s.objective = WorthOf(s.chosen)
    BY <1>1, <2>4, <2>5, ChoicesArePlans DEF Choice
  <2> DEFINE x == Append(s.chosen, a)
             r == Choice(x)
  <2>7. /\ r = Taken(s, case, a, itself) /\ r \in reached
        /\ UsedBy(x) = UsedBy(w) /\ WorthOf(x) = WorthOf(s.chosen) + Worth(case, a)
        /\ x \in Options(m + 1)
    BY <1>2, <1>3, <2>2, <2>5, <2>6
  <2>8. r.used = UsedBy(w) /\ r.objective = WorthOf(x) /\ r.chosen = x /\ r \in PlanState
    BY <1>8, <2>7 DEF Choice
  <2>9. ~ Better(Choice(w), r)
    <3>1. WorthOf(w) > WorthOf(x) => WorthOf(v) > WorthOf(s.chosen)
      <4>1. Worth(case, a) \in Int
        BY <1>1, <2>2, WorthType DEF case
      <4> QED
        BY <2>2, <2>6, <2>7, <4>1
    <3>2. WorthOf(w) = WorthOf(x) => WorthOf(v) = WorthOf(s.chosen)
      <4>1. Worth(case, a) \in Int
        BY <1>1, <2>2, WorthType DEF case
      <4> QED
        BY <2>2, <2>6, <2>7, <4>1
    <3>3. Precedes(w, x) => Precedes(v, s.chosen)
      BY <2>1, <2>2, <2>6, PrecedesDrop
    <3>4. ~ (WorthOf(v) > WorthOf(s.chosen)) /\ ~ (WorthOf(v) = WorthOf(s.chosen) /\ Precedes(v, s.chosen))
      BY <2>4, <2>6 DEF Better, Choice
    <3>5. Choice(w).objective = WorthOf(w) /\ Choice(w).chosen = w
      BY DEF Choice
    <3> HIDE DEF x, r
    <3> QED
      BY <2>8, <3>1, <3>2, <3>3, <3>4, <3>5 DEF Better
  <2> HIDE DEF x, r
  <2>10. PICK t \in kept : t.used = r.used /\ (t = r \/ Better(t, r))
    BY <1>4, <1>8, <1>9, <2>7, <2>8, KeepKeeps DEF kept
  <2>11. t \in PlanState
    BY <1>5, <1>8
  <2>12. ~ Better(Choice(w), t)
    BY <2>2, <2>8, <2>9, <2>10, <2>11, BetterOrder
  <2> QED
    BY <2>8, <2>10, <2>12
<1> QED
  BY <1>5, <1>6, <1>7, <1>9 DEF PythonHolds, kept, reached, case, itself

LEMMA JavaFolds ==
    ASSUME cases \in Seq(Case), NEW m \in Nat, m + 1 <= Len(cases), NEW states, JavaHolds(states, m),
           NEW mark \in [Action -> Nat]
    PROVE  JavaHolds(Keep(states \cup Reach(states, cases[m + 1], mark)), m + 1)
<1> DEFINE case == cases[m + 1]
           reached == Reach(states, case, mark)
           all == states \cup reached
           kept == Keep(all)
<1>1. m \in 0 .. Len(cases) /\ m + 1 \in 0 .. Len(cases) /\ m + 1 \in 1 .. Len(cases)
  OBVIOUS
<1>2. reached = {Taken(s, case, a, mark) : s \in states, a \in Eligible(case.context)}
  BY ReachIs
<1>3. \A v \in Options(m), a \in Eligible(case.context) :
         /\ Append(v, a) \in Options(m + 1) /\ UsedBy(Append(v, a)) = Plus(UsedBy(v), a)
         /\ WorthOf(Append(v, a)) = WorthOf(v) + Worth(case, a)
  BY ChoiceExtends
<1>4. IsFiniteSet(reached)
  BY ReachIsFinite DEF JavaHolds
<1>5. kept \subseteq all /\ IsFiniteSet(all) /\ \A s \in kept : Within(s.used)
  BY <1>4, FS_Union DEF Keep, JavaHolds
<1>6. IsFiniteSet(kept)
  BY <1>5, FS_Subset
<1> HIDE DEF reached, kept, case, all
<1>7. \A s \in states : s \in PlanState /\ s.used \in Use /\ s.objective \in Int /\ s.chosen \in Seq(Nat)
  BY DEF JavaHolds, PlanState
<1>8. \A a \in Action : Worth(case, a) \in Int /\ Worth(case, 0) = 0
  BY <1>1, WorthType DEF case
<1>9. \A r \in reached : r \in PlanState /\ \E v \in Options(m + 1) :
          r.used = UsedBy(v) /\ r.objective = WorthOf(v)
  <2> SUFFICES ASSUME NEW r \in reached
               PROVE  r \in PlanState /\ \E v \in Options(m + 1) :
                         r.used = UsedBy(v) /\ r.objective = WorthOf(v)
    OBVIOUS
  <2>1. PICK s \in states, a \in Eligible(case.context) : r = Taken(s, case, a, mark)
    BY <1>2
  <2>2. PICK v \in Options(m) : s.used = UsedBy(v) /\ s.objective = WorthOf(v)
    BY DEF JavaHolds
  <2>3. /\ r.used = Plus(s.used, a) /\ r.objective = s.objective + Worth(case, a)
        /\ r.chosen = Append(s.chosen, mark[a])
        /\ r = [used |-> r.used, objective |-> r.objective, chosen |-> r.chosen]
    BY <2>1 DEF Taken
  <2>4. a \in Action /\ mark[a] \in Nat
    BY EligibleActions
  <2>5. r.used \in Use /\ r.objective \in Int /\ r.chosen \in Seq(Nat)
    BY <1>7, <1>8, <2>3, <2>4, UseOfPlus, AppendProperties
  <2>6. r \in PlanState
    BY <2>3, <2>5 DEF PlanState
  <2>7. r.used = UsedBy(Append(v, a)) /\ r.objective = WorthOf(Append(v, a))
    BY <1>3, <2>2, <2>3
  <2> QED
    BY <1>3, <2>6, <2>7
(* To leave a policy out is to abstain from it. *)
<1>10. \A s \in states : \E v \in Options(m + 1) : s.used = UsedBy(v) /\ s.objective = WorthOf(v)
  <2> SUFFICES ASSUME NEW s \in states
               PROVE  \E v \in Options(m + 1) : s.used = UsedBy(v) /\ s.objective = WorthOf(v)
    OBVIOUS
  <2>1. PICK v \in Options(m) : s.used = UsedBy(v) /\ s.objective = WorthOf(v)
    BY DEF JavaHolds
  <2>2. 0 \in Eligible(case.context) /\ 0 \in Action
    BY EligibleActions
  <2>3. UsedBy(Append(v, 0)) = UsedBy(v)
    BY <1>3, <1>7, <2>1, <2>2, UseOfPlus
  <2>4. WorthOf(Append(v, 0)) = WorthOf(v)
    BY <1>3, <1>7, <1>8, <2>1, <2>2
  <2> QED
    BY <1>3, <2>1, <2>2, <2>3, <2>4
<1>11. all \in SUBSET PlanState
  BY <1>7, <1>9 DEF all
<1>12. ASSUME NEW w \in Options(m + 1), Within(UsedBy(w))
       PROVE  \E s \in kept : s.used = UsedBy(w) /\ s.objective >= WorthOf(w)
  <2>1. PICK v \in Options(m), a \in Eligible(case.context) : w = Append(v, a)
    BY ChoiceShrinks DEF case
  <2>2. /\ UsedBy(w) = Plus(UsedBy(v), a) /\ WorthOf(w) = WorthOf(v) + Worth(case, a)
        /\ UsedBy(v) \in Use /\ WorthOf(v) \in Int /\ a \in Action /\ WorthOf(w) \in Int
    BY <1>1, <1>3, <2>1, ChoicesArePlans, EligibleActions
  <2>3. Within(UsedBy(v))
    BY <1>12, <2>2, UseOfPlus
  <2>4. PICK s \in states : s.used = UsedBy(v) /\ s.objective >= WorthOf(v)
    BY <2>3 DEF JavaHolds
  <2>5. PICK r \in reached : r = Taken(s, case, a, mark)
    BY <1>2
  <2>6. r.used = UsedBy(w) /\ r.objective = s.objective + Worth(case, a) /\ r \in all
    BY <2>2, <2>4, <2>5 DEF Taken, all
  <2>7. r.objective >= WorthOf(w) /\ r.objective \in Int
    BY <1>7, <1>8, <2>2, <2>4, <2>6
  <2>8. PICK t \in kept : t.used = r.used /\ (t = r \/ Better(t, r))
    BY <1>5, <1>11, <1>12, <2>6, KeepKeeps DEF kept
  <2>9. t.objective \in Int
    BY <1>5, <1>11 DEF PlanState
  <2>10. t.objective >= r.objective
    BY <2>7, <2>8, <2>9 DEF Better
  <2> QED
    BY <2>2, <2>6, <2>7, <2>8, <2>9, <2>10
<1>13. \A s \in kept : s \in PlanState /\ \E v \in Options(m + 1) :
          s.used = UsedBy(v) /\ s.objective = WorthOf(v)
  BY <1>5, <1>9, <1>10, <1>11 DEF all
<1> QED
  BY <1>5, <1>6, <1>12, <1>13 DEF JavaHolds, kept, all, reached, case

(* Of no policy there is one choice, and it uses nothing. *)
LEMMA ChoiceOfNone ==
    /\ Options(0) = {<<>>}
    /\ UsedBy(<<>>) = Nothing.used /\ WorthOf(<<>>) = 0 /\ Choice(<<>>) = Nothing
<1>1. Options(0) = {<<>>}
  <2>1. 1 .. 0 = {}
    OBVIOUS
  <2>2. ASSUME NEW v \in [1 .. 0 -> Action] PROVE v = <<>>
    <3>1. v \in Seq(Action) /\ Len(v) = 0
      OBVIOUS
    <3> QED
      BY <3>1, EmptySeq
  <2>3. <<>> \in [1 .. 0 -> Action]
    BY <2>1
  <2>4. <<>> \in Options(0)
    BY <2>1, <2>3 DEF Options
  <2>5. \A v \in Options(0) : v = <<>>
    BY <2>2 DEF Options
  <2> QED
    BY <2>4, <2>5
<1>2. DOMAIN <<>> = {}
  OBVIOUS
<1>3. \A f : DOMAIN f = {} => SumFunction(f) = 0
  BY SumNothing DEF SumFunction
<1>4. UsedBy(<<>>) = Nothing.used
  BY <1>2, <1>3 DEF UsedBy, Nothing
<1>5. WorthOf(<<>>) = 0
  BY <1>2, <1>3 DEF WorthOf
<1> QED
  BY <1>1, <1>4, <1>5 DEF Choice, Nothing

LEMMA NothingHolds == PythonHolds({Nothing}, 0) /\ JavaHolds({Nothing}, 0)
<1>1. IsFiniteSet({Nothing})
  BY FS_Singleton
<1>2. Within(Nothing.used) /\ Nothing \in PlanState /\ Nothing.chosen = <<>> /\ Nothing.objective = 0
  BY PlanningAssumption DEF Nothing, Within, PlanState, Use
<1>3. ~ Better(Nothing, Nothing)
  BY <1>2, BetterOrder
<1> QED
  BY <1>1, <1>2, <1>3, ChoiceOfNone DEF PythonHolds, JavaHolds
-----------------------------------------------------------------------------
(* The dynamic programs have what they should of the policies taken, and the
   heuristic a selection that may be made, to which what it considers may be added. *)
Offered(x) ==
    /\ x.occurrence \in 1 .. Len(cases)
    /\ x.action \in Contact /\ x.action \in Eligible(cases[x.occurrence].context)
    /\ Worth(cases[x.occurrence], x.action) > 0
Candidates == [occurrence : 1 .. Len(cases), action : Contact]

PlanInv ==
    /\ cases \in Seq(Case) /\ folded \in 0 .. Len(cases)
    /\ folded = 0 => python = {Nothing} /\ java = {Nothing} /\ candidates = {}
    /\ JavaHolds(java, folded)
    /\ Heuristic \/ PythonHolds(python, folded)
    /\ IsFiniteSet(candidates) /\ candidates \subseteq Candidates
    /\ \A x \in candidates : Offered(x)
    /\ folded > 0 =>
          /\ greedy \in Options(Len(cases)) /\ Within(UsedBy(greedy))
          /\ \A i \in 1 .. Len(cases) : Worth(cases[i], greedy[i]) >= 0

LEMMA NothingHoldsAlways == [](PythonHolds({Nothing}, 0) /\ JavaHolds({Nothing}, 0))
BY NothingHolds, PTL

LEMMA HoldsStay ==
    ASSUME cases' = cases
    PROVE  /\ PythonHolds(python', folded') => PythonHolds(python, folded)'
           /\ JavaHolds(java', folded') => JavaHolds(java, folded)'
<1>1. ASSUME NEW v PROVE WorthOf(v)' = WorthOf(v)
  BY DEF WorthOf
<1>2. PythonHolds(python', folded') => PythonHolds(python, folded)'
  BY <1>1 DEF PythonHolds, Options, Choice
<1>3. JavaHolds(java', folded') => JavaHolds(java, folded)'
  BY <1>1 DEF JavaHolds, Options
<1> QED
  BY <1>2, <1>3

(* To abstain from all is a choice, and uses nothing. *)
Abstention == [i \in 1 .. Len(cases) |-> 0]

LEMMA AbstentionIsChoice ==
    ASSUME cases \in Seq(Case)
    PROVE  /\ Abstention \in Options(Len(cases)) /\ UsedBy(Abstention) = Nothing.used
           /\ Within(UsedBy(Abstention)) /\ WorthOf(Abstention) = 0
<1> DEFINE n == Len(cases)
           zero == [i \in 1 .. n |-> 0]
<1>1. n \in Nat /\ DOMAIN Abstention = 1 .. n /\ \A i \in 1 .. n : Abstention[i] = 0
  BY DEF Abstention
<1>2. Abstention \in Options(n)
  BY <1>1, EligibleActions DEF Options, Abstention
<1>3. /\ [i \in DOMAIN Abstention |-> Economics[Abstention[i]].cost] = zero
      /\ [i \in DOMAIN Abstention |-> Economics[Abstention[i]].seconds] = zero
      /\ [i \in DOMAIN Abstention |-> Worth(cases[i], Abstention[i])] = zero
  BY <1>1, EligibleActions DEF Worth
<1>4. SumFunction(zero) = 0
  <2>1. IsFiniteSet(1 .. n) /\ zero \in [1 .. n -> Nat] /\ 1 .. n \in SUBSET (1 .. n)
    BY <1>1, FS_Interval
  <2>2. \A i \in 1 .. n : zero[i] = 0
    OBVIOUS
  <2>3. DOMAIN zero = 1 .. n
    OBVIOUS
  <2> HIDE DEF zero, n
  <2>4. SumFunctionOnSet(zero, 1 .. n) = 0
    BY <2>1, <2>2, SumZero
  <2> QED
    BY <2>3, <2>4 DEF SumFunction
<1> HIDE DEF zero
<1>5. UsedBy(Abstention) = Nothing.used
  BY <1>3, <1>4 DEF UsedBy, Nothing
<1>6. WorthOf(Abstention) = 0
  BY <1>3, <1>4 DEF WorthOf
<1>7. Within(Nothing.used)
  BY PlanningAssumption DEF Nothing, Within
<1> QED
  BY <1>2, <1>5, <1>6, <1>7

LEMMA FirstIsOne ==
    ASSUME cases \in Seq(Case), IsFiniteSet(candidates), candidates \subseteq Candidates,
           candidates # {}
    PROVE  First \in candidates
<1> DEFINE gain(x) == Worth(cases[x.occurrence], x.action)
           before(x, y) == \/ gain(x) > gain(y)
                           \/ gain(x) = gain(y) /\ x.occurrence < y.occurrence
                           \/ gain(x) = gain(y) /\ x.occurrence = y.occurrence /\ x.action < y.action
           R == {p \in candidates \X candidates : before(p[1], p[2])}
<1>1. \A x \in candidates : gain(x) \in Int /\ x.occurrence \in Int /\ x.action \in Int
  <2> SUFFICES ASSUME NEW x \in candidates
               PROVE  gain(x) \in Int /\ x.occurrence \in Int /\ x.action \in Int
    OBVIOUS
  <2>1. x.occurrence \in 1 .. Len(cases) /\ x.action \in Contact
    BY DEF Candidates
  <2>2. x.action \in Action /\ x.action \in Int
    BY <2>1, EligibleActions DEF Contact
  <2> QED
    BY <2>1, <2>2, WorthType
<1> HIDE DEF gain
<1>2. \A x \in candidates : ~ before(x, x)
  BY <1>1
<1>3. \A x, y, z \in candidates : before(x, y) /\ before(y, z) => before(x, z)
  BY <1>1
<1>4. \A x, y \in candidates : <<x, y>> \in R <=> before(x, y)
  OBVIOUS
<1>5. R \in SUBSET (candidates \X candidates)
  OBVIOUS
<1>6. PICK r \in candidates : TRUE
  OBVIOUS
<1>7. PICK x \in candidates : \A y \in candidates : <<y, x>> \notin R
  <2> HIDE DEF R, before
  <2>1. \A a \in candidates : <<a, a>> \notin R
    BY <1>2, <1>4
  <2>2. \A a, b, c \in candidates : <<a, b>> \in R /\ <<b, c>> \in R => <<a, c>> \in R
    BY <1>3, <1>4
  <2> QED
    BY <1>5, <1>6, <2>1, <2>2, FiniteHasGreatest
<1>8. \A y \in candidates :
         \/ gain(x) > gain(y)
         \/ gain(x) = gain(y) /\ x.occurrence < y.occurrence
         \/ gain(x) = gain(y) /\ x.occurrence = y.occurrence /\ x.action <= y.action
  <2> SUFFICES ASSUME NEW y \in candidates
               PROVE  \/ gain(x) > gain(y)
                      \/ gain(x) = gain(y) /\ x.occurrence < y.occurrence
                      \/ gain(x) = gain(y) /\ x.occurrence = y.occurrence /\ x.action <= y.action
    OBVIOUS
  <2>1. ~ before(y, x)
    <3> HIDE DEF R, before
    <3> QED
      BY <1>4, <1>7
  <2>2. /\ gain(x) \in Int /\ x.occurrence \in Int /\ x.action \in Int
        /\ gain(y) \in Int /\ y.occurrence \in Int /\ y.action \in Int
    BY <1>1
  <2> QED
    BY <2>1, <2>2
<1> QED
  BY <1>8 DEF First, gain

LEMMA PlanStarts == Init => PlanInv
<1> SUFFICES ASSUME Init PROVE PlanInv
  OBVIOUS
<1>1. cases = <<>> /\ Len(cases) = 0 /\ cases \in Seq(Case) /\ folded = 0
  BY EmptySeq DEF Init
<1>2. python = {Nothing} /\ java = {Nothing} /\ candidates = {} /\ IsFiniteSet({})
  BY FS_EmptySet DEF Init
<1> QED
  BY <1>1, <1>2, NothingHolds DEF PlanInv

LEMMA PlanReceive ==
    ASSUME PlanInv, Receive
    PROVE  PlanInv'
<1>1. PICK c \in Case : cases' = Append(cases, c)
  BY DEF Receive
<1>2. cases' \in Seq(Case) /\ folded' = 0 /\ folded = 0 /\ Len(cases') \in Nat
  BY <1>1, AppendProperties DEF Receive, PlanInv
<1>3. python' = {Nothing} /\ java' = {Nothing} /\ candidates' = {} /\ IsFiniteSet({})
  BY <1>2, FS_EmptySet DEF Receive, PlanInv
<1>4. (PythonHolds({Nothing}, 0) /\ JavaHolds({Nothing}, 0))'
  BY NothingHoldsAlways, PTL
<1>5. PythonHolds(python, folded)' /\ JavaHolds(java, folded)'
  BY <1>2, <1>3, <1>4 DEF PythonHolds, JavaHolds
<1> QED
  BY <1>2, <1>3, <1>5 DEF PlanInv

LEMMA PlanFold ==
    ASSUME PlanInv, Fold
    PROVE  PlanInv'
<1> DEFINE n == Len(cases)
           itself == [a \in Action |-> a]
           number == [a \in Action |-> 10 * (folded + 1) + a]
<1>1. cases \in Seq(Case) /\ cases' = cases /\ folded' = folded + 1 /\ n \in Nat /\ folded \in Nat
      /\ folded + 1 <= n /\ folded' \in 0 .. n
  BY DEF PlanInv, Fold
<1>2. number \in [Action -> Nat]
  BY <1>1, EligibleActions
<1>3. java' = Keep(java \cup Reach(java, cases[folded + 1], number))
  BY DEF Fold
<1>4. JavaHolds(java', folded')
  <2> HIDE DEF number
  <2> QED
    BY <1>1, <1>2, <1>3, JavaFolds DEF PlanInv
<1>5. Heuristic \/ PythonHolds(python', folded')
  <2> SUFFICES ASSUME ~ Heuristic PROVE PythonHolds(python', folded')
    OBVIOUS
  <2>1. python' = Keep(Reach(python, cases[folded + 1], itself))
    BY DEF Fold
  <2> QED
    BY <1>1, <2>1, PythonFolds DEF PlanInv
<1>6. JavaHolds(java, folded)' /\ (Heuristic \/ PythonHolds(python, folded))'
  BY <1>1, <1>4, <1>5, HoldsStay DEF Heuristic
<1>7. candidates' = {x \in Candidates : /\ Heuristic /\ x.action \in Eligible(cases[x.occurrence].context)
                                        /\ Worth(cases[x.occurrence], x.action) > 0}
  BY DEF Fold, Candidates
<1>8. IsFiniteSet(candidates')
  <2>1. IsFiniteSet(1 .. n) /\ IsFiniteSet(Contact)
    BY <1>1, FS_Interval, FS_Subset, EligibleActions DEF Contact
  <2>2. IsFiniteSet((1 .. n) \X Contact)
    BY <2>1, FS_Product
  <2> DEFINE P == (1 .. n) \X Contact
             f == [p \in P |-> [occurrence |-> p[1], action |-> p[2]]]
  <2>3. f \in Surjection(P, Candidates)
    <3>1. f \in [P -> Candidates]
      BY DEF Candidates
    <3>2. ASSUME NEW x \in Candidates PROVE \E p \in P : f[p] = x
      <4>1. <<x.occurrence, x.action>> \in P /\ f[<<x.occurrence, x.action>>] = x
        BY DEF Candidates
      <4> QED
        BY <4>1
    <3> QED
      BY <3>1, <3>2 DEF Surjection
  <2> HIDE DEF P, f
  <2>4. IsFiniteSet(Candidates)
    BY <2>2, <2>3, FS_Surjection DEF P
  <2> QED
    BY <1>7, <2>4, FS_Subset
<1>9. (candidates \subseteq Candidates)' /\ (\A x \in candidates : Offered(x))'
  <2>1. Candidates' = Candidates
    BY <1>1 DEF Candidates
  <2>2. candidates' \subseteq Candidates'
    BY <1>7, <2>1
  <2>3. ASSUME NEW x \in candidates' PROVE Offered(x)'
    BY <1>1, <1>7 DEF Offered, Candidates
  <2> QED
    BY <2>2, <2>3
<1>10. greedy' = Abstention
  BY DEF Fold, Abstention
<1>11. /\ greedy' \in Options(n) /\ Within(UsedBy(greedy'))
       /\ \A i \in 1 .. n : Worth(cases[i], greedy'[i]) >= 0
  <2>1. \A i \in 1 .. n : greedy'[i] = 0
    BY <1>10 DEF Abstention
  <2> QED
    BY <1>1, <1>10, <2>1, AbstentionIsChoice DEF Worth
<1>12. (folded > 0 =>
          /\ greedy \in Options(Len(cases)) /\ Within(UsedBy(greedy))
          /\ \A i \in 1 .. Len(cases) : Worth(cases[i], greedy[i]) >= 0)'
  BY <1>1, <1>11 DEF Options, UsedBy, Within, Worth
<1>13. folded' # 0
  BY <1>1
<1> QED
  BY <1>1, <1>6, <1>8, <1>9, <1>12, <1>13 DEF PlanInv

(* A candidate that fits makes a selection of the selection. *)
LEMMA PlanConsider ==
    ASSUME PlanInv, Consider
    PROVE  PlanInv'
<1> DEFINE n == Len(cases)
           taken == [greedy EXCEPT ![First.occurrence] = First.action]
<1>1. /\ cases \in Seq(Case) /\ cases' = cases /\ folded' = folded /\ folded = n /\ n \in Nat
      /\ python' = python /\ java' = java /\ candidates # {} /\ folded # 0
  BY DEF PlanInv, Consider
<1>2. First \in candidates
  BY <1>1, FirstIsOne DEF PlanInv
<1>3. Offered(First)
  BY <1>2 DEF PlanInv
<1>4. candidates' = candidates \ {First} /\ candidates' \subseteq candidates /\ IsFiniteSet(candidates')
  BY FS_Subset DEF PlanInv, Consider
<1>5. greedy' = IF greedy[First.occurrence] = 0 /\ Within(UsedBy(taken)) THEN taken ELSE greedy
  BY DEF Consider
<1>6. /\ greedy \in Options(n) /\ Within(UsedBy(greedy)) /\ greedy \in [1 .. n -> Action]
      /\ \A i \in 1 .. n : Worth(cases[i], greedy[i]) >= 0
  BY <1>1 DEF PlanInv, Options
<1>7. /\ taken \in Options(n) /\ \A i \in 1 .. n : Worth(cases[i], taken[i]) >= 0
  <2>1. First.action \in Action /\ First.occurrence \in 1 .. n
    BY <1>3, EligibleActions DEF Offered
  <2>2. taken \in [1 .. n -> Action]
    BY <1>6, <2>1
  <2>3. taken[First.occurrence] = First.action
        /\ \A i \in 1 .. n : i # First.occurrence => taken[i] = greedy[i]
    BY <1>6, <2>1
  <2>4. Worth(cases[First.occurrence], First.action) >= 0
    <3>1. Worth(cases[First.occurrence], First.action) \in Int
      BY <1>1, <2>1, WorthType
    <3> QED
      BY <1>3, <3>1 DEF Offered
  <2> HIDE DEF taken
  <2>5. ASSUME NEW i \in 1 .. n
        PROVE  taken[i] \in Eligible(cases[i].context) /\ Worth(cases[i], taken[i]) >= 0
    <3>1. CASE i = First.occurrence
      BY <1>3, <2>3, <2>4, <3>1 DEF Offered
    <3>2. CASE i # First.occurrence
      BY <1>6, <2>3, <3>2 DEF Options
    <3> QED
      BY <3>1, <3>2
  <2> QED
    BY <2>2, <2>5 DEF Options
<1> HIDE DEF taken
<1>8. /\ greedy' \in Options(n) /\ Within(UsedBy(greedy'))
      /\ \A i \in 1 .. n : Worth(cases[i], greedy'[i]) >= 0
  BY <1>5, <1>6, <1>7
<1>9. (folded > 0 =>
          /\ greedy \in Options(Len(cases)) /\ Within(UsedBy(greedy))
          /\ \A i \in 1 .. Len(cases) : Worth(cases[i], greedy[i]) >= 0)'
  BY <1>1, <1>8 DEF Options, UsedBy, Within, Worth
<1>10. JavaHolds(java, folded)' /\ (Heuristic \/ PythonHolds(python, folded))'
  BY <1>1, HoldsStay DEF PlanInv, Heuristic
<1>11. (candidates \subseteq Candidates)' /\ (\A x \in candidates : Offered(x))'
  BY <1>1, <1>4 DEF PlanInv, Candidates, Offered
<1> QED
  BY <1>1, <1>4, <1>9, <1>10, <1>11 DEF PlanInv

LEMMA PlanIdle ==
    ASSUME PlanInv, UNCHANGED vars
    PROVE  PlanInv'
<1>1. cases' = cases /\ folded' = folded /\ python' = python /\ java' = java
      /\ candidates' = candidates /\ greedy' = greedy
  BY DEF vars
<1>2. JavaHolds(java, folded)' /\ (Heuristic \/ PythonHolds(python, folded))'
  BY <1>1, HoldsStay DEF PlanInv, Heuristic
<1>3. (folded > 0 =>
          /\ greedy \in Options(Len(cases)) /\ Within(UsedBy(greedy))
          /\ \A i \in 1 .. Len(cases) : Worth(cases[i], greedy[i]) >= 0)'
  BY <1>1 DEF PlanInv, Options, UsedBy, Within, Worth
<1>4. (candidates \subseteq Candidates)' /\ (\A x \in candidates : Offered(x))'
  BY <1>1 DEF PlanInv, Candidates, Offered
<1> QED
  BY <1>1, <1>2, <1>3, <1>4 DEF PlanInv

LEMMA PlanStep == PlanInv /\ [Next]_vars => PlanInv'
BY PlanReceive, PlanFold, PlanConsider, PlanIdle DEF Next

LEMMA PlanAlways == Spec => []PlanInv
BY PlanStarts, PlanStep, PTL DEF Spec

(* What is selected is a choice within the capacities. *)
LEMMA PortfoliosAreChoices == Portfolios = {Choice(v) : v \in Options(Len(cases))}
BY DEF Portfolios, Options, Choice

LEMMA PythonIsBest ==
    ASSUME PlanInv, Allocated, ~ Heuristic
    PROVE  /\ Selection \in Options(Len(cases)) /\ Within(UsedBy(Selection))
           /\ Choice(Selection).objective >= 0
           /\ \A v \in Options(Len(cases)) : Within(UsedBy(v)) => ~ Better(Choice(v), Choice(Selection))
<1> DEFINE n == Len(cases)
           best == Best(python)
<1>1. cases \in Seq(Case) /\ n \in Nat /\ n \in 0 .. n /\ PythonHolds(python, n) /\ Selection = best.chosen
  BY DEF PlanInv, Allocated, Selection
<1>2. python \in SUBSET PlanState /\ IsFiniteSet(python)
      /\ \A s \in python : s.chosen \in Options(n) /\ s = Choice(s.chosen) /\ Len(s.chosen) = n
  <2>1. \A s \in python : s.chosen \in Options(n) /\ s = Choice(s.chosen)
    BY <1>1 DEF PythonHolds
  <2>2. \A s \in python : s \in PlanState /\ Len(s.chosen) = n
    BY <1>1, <2>1, ChoicesArePlans
  <2> QED
    BY <1>1, <2>1, <2>2 DEF PythonHolds
<1>3. PICK z \in python : z.used = UsedBy(Abstention) /\ ~ Better(Choice(Abstention), z)
  BY <1>1, AbstentionIsChoice DEF PythonHolds
<1>4. best \in python /\ \A t \in python : ~ Better(t, best)
  BY <1>2, <1>3, BestIsBest
<1> HIDE DEF best
<1>5. Selection \in Options(n) /\ Choice(Selection) = best /\ Within(UsedBy(Selection))
  <2>1. Selection \in Options(n) /\ Choice(Selection) = best /\ Within(best.used)
    BY <1>1, <1>2, <1>4 DEF PythonHolds
  <2>2. Choice(Selection).used = UsedBy(Selection)
    BY DEF Choice
  <2> QED
    BY <2>1, <2>2
<1>6. \A s \in python : s.objective \in Int /\ s \in PlanState
  BY <1>2 DEF PlanState
<1>7. best.objective >= 0
  <2>1. Choice(Abstention).objective = 0
    BY <1>1, AbstentionIsChoice DEF Choice
  <2>2. z.objective >= 0
    BY <1>3, <1>6, <2>1 DEF Better
  <2>3. ~ (z.objective > best.objective)
    BY <1>4 DEF Better
  <2> QED
    BY <1>4, <1>6, <2>2, <2>3
<1>8. ASSUME NEW v \in Options(n), Within(UsedBy(v)), Better(Choice(v), best)
      PROVE  FALSE
  <2>1. PICK s \in python : s.used = UsedBy(v) /\ ~ Better(Choice(v), s)
    BY <1>1, <1>8 DEF PythonHolds
  <2>2. Choice(v) \in PlanState
    BY <1>1, ChoicesArePlans
  <2>3. CASE Better(best, s)
    BY <1>4, <1>6, <1>8, <2>1, <2>2, <2>3, BetterOrder
  <2>4. CASE ~ Better(best, s)
    <3>1. s.objective = best.objective /\ s.chosen = best.chosen
      BY <1>2, <1>4, <1>6, <2>4, BetterOrder
    <3> QED
      BY <1>8, <2>1, <3>1 DEF Better
  <2> QED
    BY <2>3, <2>4
<1> QED
  BY <1>5, <1>7, <1>8

LEMMA HeuristicIsSafe ==
    ASSUME PlanInv, Allocated, Heuristic
    PROVE  /\ Selection \in Options(Len(cases)) /\ Within(UsedBy(Selection))
           /\ Choice(Selection).objective >= 0
<1> DEFINE n == Len(cases)
           w == [i \in DOMAIN greedy |-> Worth(cases[i], greedy[i])]
<1>1. /\ cases \in Seq(Case) /\ n \in Nat /\ Selection = greedy
      /\ greedy \in Options(n) /\ Within(UsedBy(greedy)) /\ greedy \in [1 .. n -> Action]
      /\ \A i \in 1 .. n : Worth(cases[i], greedy[i]) >= 0
  BY DEF PlanInv, Allocated, Selection, Options
<1>2. \A i \in 1 .. n : Worth(cases[i], greedy[i]) \in Nat
  BY <1>1, WorthType
<1>3. w \in [1 .. n -> Nat] /\ DOMAIN w = 1 .. n
  BY <1>1, <1>2
<1>4. WorthOf(greedy) = SumFunction(w)
  BY DEF WorthOf
<1> HIDE DEF w
<1>5. SumFunction(w) \in Nat
  <2>1. IsFiniteSet(1 .. n) /\ (1 .. n) \in SUBSET (1 .. n)
    BY <1>1, FS_Interval
  <2> QED
    BY <1>3, <2>1, SumAny DEF SumFunction
<1> QED
  BY <1>1, <1>4, <1>5 DEF Choice

LEMMA SelectionIsChoice ==
    ASSUME PlanInv, Allocated
    PROVE  /\ Selection \in Options(Len(cases)) /\ Within(UsedBy(Selection))
           /\ Choice(Selection).objective >= 0
BY PythonIsBest, HeuristicIsSafe

LEMMA JavaIsBest ==
    ASSUME PlanInv, Allocated
    PROVE  /\ \A v \in Options(Len(cases)) : Within(UsedBy(v)) => WorthOf(v) <= Best(java).objective
           /\ \E v \in Options(Len(cases)) : /\ Within(UsedBy(v))
                 /\ WorthOf(v) = Best(java).objective /\ UsedBy(v) = Best(java).used
<1> DEFINE n == Len(cases)
           best == Best(java)
<1>1. cases \in Seq(Case) /\ n \in Nat /\ n \in 0 .. n /\ JavaHolds(java, n)
  BY DEF PlanInv, Allocated
<1>2. java \in SUBSET PlanState /\ IsFiniteSet(java) /\ \A s \in java : s.objective \in Int
  BY <1>1 DEF JavaHolds, PlanState
<1>3. java # {}
  BY <1>1, AbstentionIsChoice DEF JavaHolds
<1>4. best \in java /\ \A t \in java : ~ Better(t, best)
  BY <1>2, <1>3, BestIsBest
<1> HIDE DEF best
<1>5. ASSUME NEW v \in Options(n), Within(UsedBy(v)) PROVE WorthOf(v) <= best.objective
  <2>1. PICK s \in java : s.used = UsedBy(v) /\ s.objective >= WorthOf(v)
    BY <1>1, <1>5 DEF JavaHolds
  <2>2. WorthOf(v) \in Int
    BY <1>1, ChoicesArePlans
  <2>3. ~ (s.objective > best.objective)
    BY <1>4 DEF Better
  <2> QED
    BY <1>2, <1>4, <2>1, <2>2, <2>3
<1>6. \E v \in Options(n) : Within(UsedBy(v)) /\ WorthOf(v) = best.objective /\ UsedBy(v) = best.used
  BY <1>1, <1>4 DEF JavaHolds
<1> QED
  BY <1>5, <1>6 DEF best

(* Both allocators give up no value: the Python selection is the first of the best
   portfolios, the Java one is worth as much, and the heuristic stays within the
   capacities and does no worse than to abstain. *)
THEOREM NoValueGivenUp == Spec => []AllocationExact
<1>1. PlanInv => AllocationExact
  <2> SUFFICES ASSUME PlanInv, Allocated PROVE AllocationExact
    BY DEF AllocationExact
  <2> DEFINE feasible == {p \in Portfolios : Within(p.used)}
             mine == CHOOSE p \in Portfolios : p.chosen = Selection
             n == Len(cases)
  <2>1. \A v : Choice(v).used = UsedBy(v) /\ Choice(v).objective = WorthOf(v) /\ Choice(v).chosen = v
    BY DEF Choice
  <2>2. \A p \in Portfolios : \E v \in Options(n) : p = Choice(v)
    BY PortfoliosAreChoices
  <2>3. \A v \in Options(n) : Choice(v) \in Portfolios
    BY PortfoliosAreChoices
  <2>4. Selection \in Options(n) /\ Within(UsedBy(Selection)) /\ Choice(Selection).objective >= 0
    BY SelectionIsChoice
  <2>5. mine = Choice(Selection)
    <3>1. Choice(Selection) \in Portfolios /\ Choice(Selection).chosen = Selection
      BY <2>1, <2>3, <2>4
    <3>2. mine \in Portfolios /\ mine.chosen = Selection
      BY <3>1
    <3> HIDE DEF mine
    <3> QED
      BY <2>1, <2>2, <3>2
  <2> HIDE DEF mine, n
  <2>6. mine \in feasible /\ mine.objective >= 0
    BY <2>1, <2>3, <2>4, <2>5
  <2>7. ASSUME NEW p \in feasible
        PROVE  (~ Heuristic => ~ Better(p, mine)) /\ p.objective <= Best(java).objective
    <3>1. PICK v \in Options(n) : p = Choice(v)
      BY <2>2, <2>7
    <3>2. Within(UsedBy(v)) /\ p.objective = WorthOf(v)
      BY <2>1, <2>7, <3>1
    <3> QED
      BY <2>5, <3>1, <3>2, PythonIsBest, JavaIsBest DEF n
  <2>8. \E p \in feasible : p.objective = Best(java).objective /\ p.used = Best(java).used
    <3>1. PICK v \in Options(n) :
            Within(UsedBy(v)) /\ WorthOf(v) = Best(java).objective /\ UsedBy(v) = Best(java).used
      BY JavaIsBest DEF n
    <3>2. Choice(v) \in feasible
      BY <2>1, <2>3, <3>1
    <3> QED
      BY <2>1, <3>1, <3>2
  <2> QED
    BY <2>6, <2>7, <2>8 DEF AllocationExact, mine
<1> QED
  BY <1>1, PlanAlways, PTL

(* Whoever an allocation contacts was confirmed clear, in force and not contacted lately,
   whichever allocator chose it. *)
THEOREM OnlyTheClearAreContacted == Spec => []ContactedAreClear
<1>1. PlanInv => ContactedAreClear
  <2> SUFFICES ASSUME PlanInv, Allocated, NEW i \in 1 .. Len(cases), Selection[i] # 0
               PROVE  LET c == cases[i].context  rule == Rules[Selection[i]] IN
                      /\ \A f \in Global \cup Evidence(rule.channel) : c.fact[f] = "clear"
                      /\ c.status \notin {"lapsed", "surrendered"}
                      /\ c.sinceContact >= rule.coolingOff
    BY DEF ContactedAreClear
  <2> DEFINE c == cases[i].context
             a == Selection[i]
  <2>1. a \in Eligible(c)
    BY SelectionIsChoice DEF Options
  <2>2. ~ Blocked(c) /\ ~ Unavailable(c) /\ Viable(c) /\ Permitted(c, a)
    BY <2>1 DEF Eligible
  <2>3. cases[i] \in Case
    BY DEF PlanInv
  <2>4. \A f \in Global : c.fact[f] \in {"clear", "blocked", "unknown"}
    BY <2>3, PlanningAssumption
  <2>5. \A f \in Global : c.fact[f] = "clear"
    BY <2>2, <2>4 DEF Blocked, Unavailable
  <2>6. \A f \in Evidence(Rules[a].channel) : c.fact[f] = "clear"
    BY <2>2 DEF Permitted, Consented
  <2>7. c.status \notin {"lapsed", "surrendered"} /\ c.sinceContact >= Rules[a].coolingOff
    BY <2>2 DEF Viable, Permitted
  <2> QED
    BY <2>5, <2>6, <2>7
<1> QED
  BY <1>1, PlanAlways, PTL
=============================================================================
