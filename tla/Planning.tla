------------------------------- MODULE Planning -------------------------------
(***************************************************************************)
(* From evidence to an allocation: the rules decide which actions a policy *)
(* may be offered, and the two allocators, the simulator's in Python and   *)
(* the control plane's in Java, choose one action for each policy of a     *)
(* portfolio under a budget and a personnel capacity. Both are dynamic     *)
(* programs that take a policy at a time; beyond ExactLimit policies the   *)
(* Python one takes the best candidate that still fits instead.            *)
(***************************************************************************)
EXTENDS Integers, Sequences, FiniteSets, SequencesExt

CONSTANTS
    Case,               \* [context, value]: what is known of a policy and what each action is worth
    Action,             \* the catalogue, numbered in the order of the action ids; 0 is to abstain
    Economics,          \* what an action costs and how long it takes: [cost, seconds]
    Rules,              \* what an action requires: [channel, coolingOff, tenure, grace]
    Budget, Seconds,
    ExactLimit,         \* occurrences the dynamic program takes: 6
    MaxCases

VARIABLES
    cases,              \* the portfolio, in the order of the occurrence ids
    folded,             \* how many the dynamic programs have taken
    python, java,       \* their states: [used, objective, chosen], the best for each use
    candidates,         \* what the heuristic has still to consider: [occurrence, action]
    greedy              \* its selection so far: an action for each occurrence

vars == <<cases, folded, python, java, candidates, greedy>>

Contact == Action \ {0}
Global == {"claim", "hold", "dispute"}

(* Costs, durations and capacities are not negative, values may be; a fact is clear,
   blocked or unknown. *)
ASSUME PlanningAssumption ==
    /\ {ExactLimit, Budget, Seconds} \subseteq Nat
    /\ Action \subseteq Nat /\ IsFiniteSet(Action) /\ 0 \in Action
    /\ Economics \in [Action -> [cost : Nat, seconds : Nat]]
    /\ Economics[0] = [cost |-> 0, seconds |-> 0]
    /\ \A c \in Case :
          /\ c.value \in [Contact -> Int]
          /\ \A f \in Global : c.context.fact[f] \in {"clear", "blocked", "unknown"}

(* required_safety_evidence *)
Evidence(channel) == IF channel = "phone" THEN {"phone", "dnc"} ELSE {channel}

Blocked(c) == \E f \in Global : c.fact[f] = "blocked"
Unavailable(c) == ~Blocked(c) /\ \E f \in Global : c.fact[f] = "unknown"
Viable(c) == c.status \in {"active", "grace_period"}

Consented_UnlessBlocked(c, a) == \A f \in Evidence(Rules[a].channel) : c.fact[f] # "blocked"

(* evaluate_channel_consent, behind the guard that refuses what is not known. *)
Consented(c, a) == \A f \in Evidence(Rules[a].channel) : c.fact[f] = "clear"

Permitted(c, a) ==
    /\ Consented(c, a)
    /\ c.sinceContact >= Rules[a].coolingOff
    /\ Rules[a].grace => c.grace \/ c.status = "grace_period"
    /\ c.tenure >= Rules[a].tenure

(* evaluate and evaluate_action_utilities: to abstain is always a choice of the
   allocation, even when the rules list no action at all. *)
Eligible(c) ==
    {0} \cup {a \in Contact : ~Blocked(c) /\ ~Unavailable(c) /\ Viable(c) /\ Permitted(c, a)}
-----------------------------------------------------------------------------
Worth(case, a) == IF a = 0 THEN 0 ELSE case.value[a]
Nothing == [used |-> [cost |-> 0, seconds |-> 0], objective |-> 0, chosen |-> <<>>]
Within(used) == used.cost <= Budget /\ used.seconds <= Seconds
Plus(used, a) ==
    [cost |-> used.cost + Economics[a].cost, seconds |-> used.seconds + Economics[a].seconds]

(* The order of two tuples of numbers, a proper prefix first. *)
Precedes(s, t) ==
    \E k \in 1 .. Len(t) :
        /\ k <= Len(s) + 1
        /\ \A j \in 1 .. k - 1 : s[j] = t[j]
        /\ k <= Len(s) => s[k] < t[k]

Better(s, t) ==
    \/ s.objective > t.objective
    \/ s.objective = t.objective /\ Precedes(s.chosen, t.chosen)

Reach(states, case, mark) ==
    {[used |-> Plus(s.used, a), objective |-> s.objective + Worth(case, a),
      chosen |-> Append(s.chosen, mark[a])] : s \in states, a \in Eligible(case.context)}

Keep_PerSeconds(states) ==
    {s \in states : Within(s.used) /\ \A t \in states : t.used.seconds = s.used.seconds => ~Better(t, s)}

(* Only the best state of each use is kept. *)
Keep(states) ==
    {s \in states : Within(s.used) /\ \A t \in states : t.used = s.used => ~Better(t, s)}

Best(states) == CHOOSE s \in states : \A t \in states : ~Better(t, s)

Init ==
    /\ cases = <<>> /\ folded = 0
    /\ python = {Nothing} /\ java = {Nothing}
    /\ candidates = {} /\ greedy = <<>>

Receive ==
    /\ folded = 0 /\ Len(cases) < MaxCases
    /\ \E c \in Case : cases' = Append(cases, c)
    /\ UNCHANGED <<folded, python, java, candidates, greedy>>

Heuristic == Len(cases) > ExactLimit

(* A policy more for both programs. Java numbers what it selects by policy and
   action, and leaving a policy out is a state of its own beside abstaining. The
   heuristic starts from abstention and every choice that is worth something. *)
Fold ==
    /\ folded < Len(cases)
    /\ LET case == cases[folded + 1]
           itself == [a \in Action |-> a]
           number == [a \in Action |-> 10 * (folded + 1) + a]
       IN  /\ python' = IF Heuristic THEN python ELSE Keep(Reach(python, case, itself))
           /\ java' = Keep(java \cup Reach(java, case, number))
    /\ folded' = folded + 1
    /\ greedy' = [i \in 1 .. Len(cases) |-> 0]
    /\ candidates' = {x \in [occurrence : 1 .. Len(cases), action : Contact] :
          /\ Heuristic /\ x.action \in Eligible(cases[x.occurrence].context)
          /\ Worth(cases[x.occurrence], x.action) > 0}
    /\ UNCHANGED cases

UsedBy(selection) ==
    [cost |-> SumFunction([i \in DOMAIN selection |-> Economics[selection[i]].cost]),
     seconds |-> SumFunction([i \in DOMAIN selection |-> Economics[selection[i]].seconds])]

WorthOf(selection) == SumFunction([i \in DOMAIN selection |-> Worth(cases[i], selection[i])])

First ==
    CHOOSE x \in candidates : \A y \in candidates :
        LET gain(z) == Worth(cases[z.occurrence], z.action) IN
        \/ gain(x) > gain(y)
        \/ gain(x) = gain(y) /\ x.occurrence < y.occurrence
        \/ gain(x) = gain(y) /\ x.occurrence = y.occurrence /\ x.action <= y.action

(* The next candidate, in the order of what it is worth, is taken if its occurrence
   has none and it fits. *)
Consider ==
    /\ folded = Len(cases) /\ candidates # {}
    /\ candidates' = candidates \ {First}
    /\ LET taken == [greedy EXCEPT ![First.occurrence] = First.action] IN
       greedy' = IF greedy[First.occurrence] = 0 /\ Within(UsedBy(taken)) THEN taken ELSE greedy
    /\ UNCHANGED <<cases, folded, python, java>>

Next == Receive \/ Fold \/ Consider
Spec == Init /\ [][Next]_vars
-----------------------------------------------------------------------------
Allocated == folded = Len(cases) /\ folded > 0 /\ candidates = {}
Selection == IF Heuristic THEN greedy ELSE Best(python).chosen

(* The reference: every choice for every policy, added up. *)
Portfolios ==
    {[used |-> UsedBy(chosen), objective |-> WorthOf(chosen), chosen |-> chosen] :
        chosen \in {v \in [1 .. Len(cases) -> Action] :
                       \A i \in 1 .. Len(cases) : v[i] \in Eligible(cases[i].context)}}

(* What an allocator may not do is give up value: up to ExactLimit policies the
   Python selection is the first, in the order of the action ids, of those worth
   most; what the Java one selects is worth as much for every portfolio; and the
   heuristic keeps the capacities and never does worse than to abstain. *)
AllocationExact ==
    Allocated =>
        LET feasible == {p \in Portfolios : Within(p.used)}
            mine == CHOOSE p \in Portfolios : p.chosen = Selection
        IN  /\ mine \in feasible
            /\ mine.objective >= 0
            /\ \A p \in feasible :
                  /\ ~Heuristic => ~Better(p, mine)
                  /\ p.objective <= Best(java).objective
            /\ \E p \in feasible :
                  p.objective = Best(java).objective /\ p.used = Best(java).used

(* The matrix of rh-02-safety-evidence-contract.md: whoever an allocation contacts
   has every global fact and every fact of the channel confirmed clear, is in force,
   and was not contacted within the cooling-off of the action. *)
ContactedAreClear ==
    Allocated => \A i \in 1 .. Len(cases) : Selection[i] # 0 =>
        LET c == cases[i].context  rule == Rules[Selection[i]] IN
        /\ \A f \in Global \cup Evidence(rule.channel) : c.fact[f] = "clear"
        /\ c.status \notin {"lapsed", "surrendered"}
        /\ c.sinceContact >= rule.coolingOff
=============================================================================
