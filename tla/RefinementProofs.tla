-------------------------- MODULE RefinementProofs --------------------------
(***************************************************************************)
(* Every behaviour of the graph is one of TaskLifecycle, for every value   *)
(* of the constants.  The one step that could fail is HumanModifiesPlan: a *)
(* replan needs ~ ran, which is PristineAtPlan of the inductive invariant. *)
(* Its checkpoints follow one another as GraphStages says.                 *)
(***************************************************************************)
EXTENDS OrchestratorRefinement, ExecutionProofs

USE DEF dispatch, results, reviewing, escalating, ending, history

LEMMA InitRefines == Init => Lifecycle!Init
  BY DEF Init, Lifecycle!Init, Phase, TaskOutcome

LEMMA StepRefines ==
  Typed /\ Work /\ Ending /\ [Next]_vars => [Lifecycle!Next]_(Lifecycle!vars)
<1> SUFFICES ASSUME Typed, Work, Ending, [Next]_vars
             PROVE  [Lifecycle!Next]_(Lifecycle!vars)
  OBVIOUS
<1> USE DEF Phase, TaskOutcome, Ending, StatusAtEnd, Lifecycle!vars
\* Steps within a phase
<1>1. CASE Intake \/ ApplyBatch \/ ApplyReviewFeedback \/ NotifyHuman \/ Synthesize
           \/ HumanEscalation
  BY <1>1 DEF Intake, ApplyBatch, ApplyReviewFeedback, NotifyHuman, Synthesize, HumanEscalation
<1>2. ASSUME NEW s \in Subtask, NEW r \in {"ok", "failed"}, RunSpecialist(s, r)
      PROVE  UNCHANGED Lifecycle!vars
  BY <1>2 DEF RunSpecialist
<1>3. ASSUME NEW d \in DecisionAction, Resume(d)
      PROVE  UNCHANGED Lifecycle!vars
  BY <1>3 DEF Resume
<1>4. CASE ExpireWorkingMemory \/ UNCHANGED vars \/ Finished
  BY <1>4 DEF ExpireWorkingMemory, Finished, vars
\* Steps from a phase to the next
<1>5. CASE PlanTask
  BY <1>5 DEF PlanTask, RouteAfterPlan, Lifecycle!Next, Lifecycle!Plan
<1>6. CASE RouteBatch
  <2>1. CASE DecideNextBatch = "run_specialist"
    BY <1>6, <2>1 DEF RouteBatch, Lifecycle!Next, Lifecycle!Start
  <2>2. CASE DecideNextBatch = "human_escalation"
    BY <1>6, <2>2 DEF RouteBatch, Typed, TypeOK, Lifecycle!Next, Lifecycle!LeaveWork
  <2>3. CASE DecideNextBatch = "review"
    BY <1>6, <2>3 DEF RouteBatch, Typed, TypeOK
  <2> QED
    BY <2>1, <2>2, <2>3 DEF DecideNextBatch
<1>7. CASE Review
  <2>1. next' \in {"human_escalation", "notify_human", "synthesize", "apply_review_feedback"}
    BY <1>7 DEF Review, RouteAfterReview
  <2> QED
    BY <1>7, <2>1 DEF Review, Lifecycle!Next, Lifecycle!LeaveWork
<1>8. CASE Deliver
  BY <1>8 DEF Deliver, Lifecycle!Next, Lifecycle!Deliver, Lifecycle!End
<1>9. CASE RejectTask
  BY <1>9 DEF RejectTask, Lifecycle!Next, Lifecycle!Reject, Lifecycle!End
<1>10. CASE ApplyHumanDecision
  <2> USE DEF Deciding, UnchangedByDecision
  <2>1. CASE HumanRejects
    BY <2>1 DEF HumanRejects
  <2>2. CASE HumanModifiesPlan
    <3>1. ~ ran
      BY <2>2 DEF HumanModifiesPlan, Work, PristineAtPlan, Pristine
    <3> QED
      BY <2>2, <3>1 DEF HumanModifiesPlan, Lifecycle!Next, Lifecycle!Replan
  <2>3. CASE HumanApprovesPlan \/ HumanRetriesStuck \/ HumanGuidesStuck \/ HumanSuppliesStuck
             \/ HumanApprovesReviewed \/ HumanGuidesReviewed \/ HumanWritesOutput
    BY <2>3 DEF HumanApprovesPlan, HumanRetriesStuck, HumanGuidesStuck, HumanSuppliesStuck,
       HumanApprovesReviewed, HumanGuidesReviewed, HumanWritesOutput,
       Lifecycle!Next, Lifecycle!Answered
  <2> QED
    BY <1>10, <2>1, <2>2, <2>3 DEF ApplyHumanDecision
<1>11. CASE Raise
  BY <1>11 DEF Raise, CanRaise, Lifecycle!Next, Lifecycle!Fail, Lifecycle!End
<1> QED
  BY <1>1, <1>2, <1>3, <1>4, <1>5, <1>6, <1>7, <1>8, <1>9, <1>10, <1>11 DEF Next, GraphStep

\* The graph of build_graph implements the lifecycle: no new plan once work has
\* started, no work after the end, and one outcome.
THEOREM GraphRefinesLifecycle == Spec => RefinesLifecycle
  BY InitRefines, StepRefines, EndingInvariant, PTL
     DEF Spec, RefinesLifecycle, Lifecycle!Spec

StageStep ==
    LET from == StageOf(next)
        to == StageOf(next')
    IN  next' # "error" /\ from # to =>
            to \in After(from) /\ status' = StatusAfter(from, status)

LEMMA StepFollowsStages == Typed /\ [Next]_vars => StageStep
<1> SUFFICES ASSUME Typed, [Next]_vars PROVE StageStep
  OBVIOUS
<1> USE DEF StageStep, StageOf, After, StatusAfter
\* Steps within a stage
<1>1. CASE ApplyBatch \/ ApplyReviewFeedback \/ HumanEscalation
  BY <1>1 DEF ApplyBatch, ApplyReviewFeedback, HumanEscalation
<1>2. ASSUME NEW s \in Subtask, NEW r \in {"ok", "failed"}, RunSpecialist(s, r)
      PROVE  StageStep
  BY <1>2 DEF RunSpecialist
<1>3. ASSUME NEW d \in DecisionAction, Resume(d)
      PROVE  StageStep
  BY <1>3 DEF Resume
<1>4. CASE ExpireWorkingMemory \/ UNCHANGED vars \/ Finished
  BY <1>4 DEF ExpireWorkingMemory, Finished, vars
\* Edges without a choice
<1>5. CASE Intake \/ NotifyHuman \/ Synthesize \/ Deliver \/ RejectTask
  BY <1>5 DEF Intake, NotifyHuman, Synthesize, Deliver, RejectTask
\* Conditional edges
<1>6. CASE PlanTask
  BY <1>6 DEF PlanTask, RouteAfterPlan
<1>7. CASE RouteBatch
  <2>1. next = "route_batch" /\ next' \in {"human_escalation", "run_specialist", "review"}
        /\ status' = status
    BY <1>7 DEF RouteBatch, DecideNextBatch
  <2> QED
    BY <2>1
<1>8. CASE Review
  <2>1. /\ next = "review" /\ status' = status
        /\ next' \in {"human_escalation", "notify_human", "synthesize", "apply_review_feedback"}
    BY <1>8 DEF Review, RouteAfterReview
  <2> QED
    BY <2>1
<1>9. CASE ApplyHumanDecision
  <2> USE DEF Deciding, UnchangedByDecision
  <2>1. CASE HumanRejects \/ HumanModifiesPlan \/ HumanWritesOutput
    BY <2>1 DEF HumanRejects, HumanModifiesPlan, HumanWritesOutput
  <2>2. CASE HumanApprovesPlan \/ HumanRetriesStuck \/ HumanGuidesStuck \/ HumanSuppliesStuck
             \/ HumanApprovesReviewed \/ HumanGuidesReviewed
    BY <2>2 DEF HumanApprovesPlan, HumanRetriesStuck, HumanGuidesStuck, HumanSuppliesStuck,
       HumanApprovesReviewed, HumanGuidesReviewed
  <2> QED
    BY <1>9, <2>1, <2>2 DEF ApplyHumanDecision
<1>10. CASE Raise
  BY <1>10 DEF Raise
<1> QED
  BY <1>1, <1>2, <1>3, <1>4, <1>5, <1>6, <1>7, <1>8, <1>9, <1>10 DEF Next, GraphStep

\* Between two stages the graph takes an edge of GraphStages and sets the status
\* that goes with it: what replays and the trace recorder are modelled to see of a
\* task is what build_graph does (build.py:625-650).
THEOREM FollowsStagesAlways == Spec => FollowsStages
<1>1. Typed /\ [Next]_vars => [StageStep]_vars
  BY StepFollowsStages
<1> QED
  BY <1>1, WorkInvariant, PTL DEF Spec, FollowsStages, StageStep
=============================================================================
