------------------------- MODULE MCWorkflowService -------------------------
(* Small instances of WorkflowService for TLC. *)
EXTENDS WorkflowService, TLC

(* One action and abstention. *)
OneAction == "call" :> 1 @@ "abstain" :> 0

(* A cheap and a dear action. *)
TwoActions == "call" :> 1 @@ "visit" :> 2 @@ "abstain" :> 0

CONSTANTS c1, c2

NoCase == <<>>
OneCase == <<c1>>
BothCases == <<c1, c2>>

(* Interchangeable callers. *)
Symmetry == Permutations(Caller)
=============================================================================
