------------------------- MODULE OrchestratorProofs -------------------------
(***************************************************************************)
(* Safety of Orchestrator for every set of subtasks, plans and reviews and *)
(* every limit.  Typed is inductive by itself; Work, which needs it, says  *)
(* what history a position in the graph implies.                           *)
(***************************************************************************)
EXTENDS Orchestrator, FiniteSetTheorems, TLAPS

\* The channels a node reads without a default are written before it runs
PlanKnown == plan = NoPlan => next \in {"intake", "plan_task", "error"}
ReviewKnown ==
    next = "apply_review_feedback" \/ source \in ReviewSources => review # NoReview

Typed == TypeOK /\ PlanKnown /\ ReviewKnown

\* No work was done on any plan
Pristine == Completed = {} /\ review = NoReview /\ ~ ran

Gate == NeedsHuman(plan) => vetted

\* Positions reached only through the gate, and traces only gated work leaves
GateByPosition ==
    /\ next \in {"route_batch", "run_specialist", "review", "notify_human", "synthesize",
                 "apply_review_feedback"} => Gate
    /\ next = "apply_human_decision" /\ source \notin PlanSources => Gate
GateByTrace == Completed # {} \/ review # NoReview \/ ran => Gate

\* The planner is only ever called on a pristine state
PristineAtPlan ==
    /\ next \in {"intake", "plan_task"} => Pristine
    /\ next = "apply_human_decision" /\ source \in PlanSources => Pristine

\* An empty completed does mean that nothing ran: a plan that was dispatched
\* has a subtask without dependencies, which would be ready again
EmptyMeansNotRun ==
    next \in {"human_escalation", "paused"} /\ Completed = {} /\ review = NoReview => ~ ran
HasRoot == ran => \E s \in plan.ids : plan.deps[s] = {}
ResultsMeanRun ==
    /\ Completed # {} => ran
    /\ next = "run_specialist" => ran
    /\ next = "apply_human_decision" /\ source = "specialist_retry" => ran

\* Results, dispatched and stuck subtasks are the plan's
WithinPlan ==
    /\ plan # NoPlan => Completed \subseteq plan.ids
    /\ next = "run_specialist" => batch \subseteq plan.ids
    /\ next = "apply_human_decision" /\ source = "specialist_retry" => stuckIds \subseteq plan.ids

Work == /\ GateByPosition /\ GateByTrace /\ PristineAtPlan
        /\ EmptyMeansNotRun /\ HasRoot /\ ResultsMeanRun /\ WithinPlan
        /\ ReviewSeesEveryResult

\* A synthesized output exists only past synthesize, which only an approval reaches
ByReviewer == review # NoReview /\ review.verdict # "rejected" /\ ~ review.sensitive
ByPerson == decision = "approve" /\ source \in ReviewSources
Approved == ByReviewer \/ ByPerson
Outcome ==
    /\ next = "notify_human" => ByReviewer
    /\ next = "synthesize" => Approved
    /\ finalOutput = "synthesized" => Approved
    /\ finalOutput # "none" => next \in {"deliver", "END", "error"}
    /\ next = "deliver" => finalOutput # "none"

-----------------------------------------------------------------------------
USE DEF dispatch, results, reviewing, escalating, ending, history

LEMMA InitTyped == Init => Typed
<1> SUFFICES ASSUME Init PROVE Typed
  OBVIOUS
<1>1. TypeOK
  BY DEF Init, TypeOK, None, Nodes, ResultState
<1>2. PlanKnown /\ ReviewKnown
  BY DEF Init, PlanKnown, ReviewKnown, ReviewSources
<1> QED
  BY <1>1, <1>2 DEF Typed

LEMMA ForgetType ==
  ASSUME TypeOK, NEW ids
  PROVE  Forget(ids) \in [Subtask -> ResultState]
  BY DEF Forget, TypeOK, ResultState

LEMMA GuidedType ==
  ASSUME TypeOK, NEW ids, NEW author \in {"none", "reviewer", "human"}
  PROVE  Guided(ids, author) \in [Subtask -> {"none", "reviewer", "human"}]
  BY DEF Guided, TypeOK

LEMMA ResetRetriesType ==
  ASSUME TypeOK, NEW ids
  PROVE  ResetRetries(ids) \in [Subtask -> Nat]
  BY DEF ResetRetries, TypeOK

LEMMA RedoIdsType ==
  ASSUME TypeOK, plan # NoPlan, review # NoReview
  PROVE  RedoIds \in SUBSET Subtask
  BY DEF RedoIds, TypeOK, PlanShape, ReviewShape

LEMMA SourceCases ==
  /\ EscalationSource \in PlanSources \union ReviewSources \union {"specialist_retry"}
  /\ EscalationSource \in PlanSources <=> Completed = {} /\ review = NoReview
  /\ EscalationSource \in ReviewSources <=> review # NoReview
  /\ EscalationSource = "specialist_retry" <=> Completed # {} /\ review = NoReview
  BY DEF EscalationSource, PlanSource, PlanSources, ReviewSources

LEMMA StepTyped == Typed /\ [Next]_vars => Typed'
<1> SUFFICES ASSUME Typed, [Next]_vars PROVE Typed'
  OBVIOUS
<1> USE PlansAssumption, ReviewsAssumption, LimitsAssumption, SwitchesAssumption
<1>t. TypeOK /\ PlanKnown /\ ReviewKnown
  BY DEF Typed
<1>1. CASE Intake
  BY <1>t, <1>1 DEF Intake, SaveWorkingMemory, Typed, TypeOK, PlanKnown, ReviewKnown, Nodes
<1>2. CASE PlanTask
  <2>1. PICK p \in Plans : plan' = p /\ next' = RouteAfterPlan(p)
    BY <1>2 DEF PlanTask
  <2>2. plan' \in PlanShape /\ plan' # NoPlan /\ next' \in {"human_escalation", "route_batch"}
    BY <2>1 DEF RouteAfterPlan
  <2>3. vetted' \in BOOLEAN /\ workingMemory' \in BOOLEAN /\ reviewCycles' \in Nat
    BY <1>t, <1>2 DEF PlanTask, SaveWorkingMemory, TypeOK
  <2>4. UNCHANGED <<batch, writes, completed, retryCounts, feedback, review,
                    source, stuckIds, decision, finalOutput, status, memories,
                    requireApproval, ran, owed>>
    BY <1>2 DEF PlanTask
  <2> QED
    BY <1>t, <2>2, <2>3, <2>4 DEF Typed, TypeOK, PlanKnown, ReviewKnown, Nodes
<1>3. CASE RouteBatch
  <2>1. plan \in PlanShape /\ Ready \in SUBSET Subtask
    BY <1>t, <1>3 DEF RouteBatch, Ready, TypeOK, PlanKnown, PlanShape
  <2>2. DecideNextBatch \in {"human_escalation", "run_specialist", "review"}
        /\ (DecideNextBatch = "run_specialist" => Ready # {})
    BY DEF DecideNextBatch
  <2> QED
    BY <1>t, <1>3, <2>1, <2>2 DEF RouteBatch, Typed, TypeOK, PlanKnown, ReviewKnown, Nodes
<1>4. ASSUME NEW s \in Subtask, NEW r \in {"ok", "failed"}, RunSpecialist(s, r) PROVE Typed'
  BY <1>t, <1>4 DEF RunSpecialist, SaveWorkingMemory, Typed, TypeOK, PlanKnown, ReviewKnown,
                    Nodes, ResultState
<1>5. CASE ApplyBatch
  BY <1>t, <1>5 DEF ApplyBatch, None, Typed, TypeOK, PlanKnown, ReviewKnown, Nodes, ResultState
<1>6. CASE Review
  BY <1>t, <1>6 DEF Review, RouteAfterReview, SaveWorkingMemory, Typed, TypeOK, PlanKnown,
                    ReviewKnown, Nodes
<1>7. CASE ApplyReviewFeedback
  BY <1>t, <1>7, ForgetType, GuidedType
     DEF ApplyReviewFeedback, Typed, TypeOK, PlanKnown, ReviewKnown, Nodes
<1>8. CASE NotifyHuman
  BY <1>t, <1>8 DEF NotifyHuman, SaveWorkingMemory, Typed, TypeOK, PlanKnown, ReviewKnown,
                    Nodes, ReviewSources
<1>9. CASE Synthesize \/ Deliver \/ RejectTask \/ HumanEscalation
  <2> USE <1>t DEF SaveWorkingMemory, Typed, TypeOK, PlanKnown, ReviewKnown, Nodes
  <2>1. CASE Synthesize
    BY <2>1 DEF Synthesize
  <2>2. CASE Deliver
    BY <2>2 DEF Deliver
  <2>3. CASE RejectTask
    BY <2>3 DEF RejectTask
  <2>4. CASE HumanEscalation
    BY <2>4 DEF HumanEscalation
  <2> QED
    BY <1>9, <2>1, <2>2, <2>3, <2>4
<1>10. ASSUME NEW d \in DecisionAction, Resume(d) PROVE Typed'
  <2>1. EscalationStuckIds \in SUBSET Subtask
    BY DEF EscalationStuckIds, Completed
  <2> QED
    BY <1>t, <1>10, <2>1, SourceCases
       DEF Resume, SaveWorkingMemory, Typed, TypeOK, PlanKnown, ReviewKnown, Nodes
<1>11. CASE ApplyHumanDecision
  <2> USE <1>t DEF Deciding, UnchangedByDecision
  <2>1. CASE HumanRejects \/ HumanApprovesPlan \/ HumanModifiesPlan \/ HumanApprovesReviewed
             \/ HumanWritesOutput
    <3> USE DEF Typed, TypeOK, PlanKnown, ReviewKnown, Nodes
    <3>1. CASE HumanRejects \/ HumanModifiesPlan \/ HumanApprovesReviewed
      BY <3>1 DEF HumanRejects, HumanModifiesPlan, HumanApprovesReviewed
    <3>2. CASE HumanApprovesPlan
      BY <3>2 DEF HumanApprovesPlan
    <3>3. CASE HumanWritesOutput
      BY <3>3 DEF HumanWritesOutput
    <3> QED
      BY <2>1, <3>1, <3>2, <3>3
  <2>2. CASE HumanRetriesStuck
    BY <2>2, ForgetType, ResetRetriesType
       DEF HumanRetriesStuck, Typed, TypeOK, PlanKnown, ReviewKnown, Nodes
  <2>3. CASE HumanGuidesStuck
    BY <2>3, ForgetType, ResetRetriesType, GuidedType
       DEF HumanGuidesStuck, Typed, TypeOK, PlanKnown, ReviewKnown, Nodes
  <2>4. CASE HumanSuppliesStuck
    BY <2>4 DEF HumanSuppliesStuck, Typed, TypeOK, PlanKnown, ReviewKnown, Nodes, ResultState
  <2>5. CASE HumanGuidesReviewed
    <3>1. review # NoReview /\ plan # NoPlan
      BY <2>5 DEF HumanGuidesReviewed, ReviewKnown, PlanKnown
    <3> QED
      BY <2>5, <3>1, ForgetType, GuidedType, RedoIdsType
         DEF HumanGuidesReviewed, Typed, TypeOK, PlanKnown, ReviewKnown, Nodes
  <2> QED
    BY <1>11, <2>1, <2>2, <2>3, <2>4, <2>5 DEF ApplyHumanDecision
<1>12. CASE ExpireWorkingMemory
  <2>1. workingMemory' \in BOOLEAN
    BY <1>12 DEF ExpireWorkingMemory
  <2>2. UNCHANGED <<next, batch, writes, plan, completed, retryCounts, feedback, review,
                    reviewCycles, source, stuckIds, decision, finalOutput, status, memories,
                    requireApproval, vetted, ran, owed>>
    BY <1>12 DEF ExpireWorkingMemory
  <2> QED
    BY <1>t, <2>1, <2>2 DEF Typed, TypeOK, PlanKnown, ReviewKnown, Nodes
<1>13. CASE Raise
  BY <1>t, <1>13 DEF Raise, None, Typed, TypeOK, PlanKnown, ReviewKnown, Nodes, ResultState
<1>14. CASE UNCHANGED vars \/ Finished
  BY <1>t, <1>14 DEF Finished, vars, Typed, TypeOK, PlanKnown, ReviewKnown, Nodes
<1> QED
  BY <1>1, <1>2, <1>3, <1>4, <1>5, <1>6, <1>7, <1>8, <1>9, <1>10, <1>11, <1>12, <1>13, <1>14
     DEF Next, GraphStep

\* Every variable keeps its type, a dispatched superstep is never empty, and a
\* node never reads a plan or a review that does not exist.
THEOREM TypeCorrect == Spec => []TypeOK
<1>1. Typed => TypeOK
  BY DEF Typed
<1> QED
  BY <1>1, InitTyped, StepTyped, PTL DEF Spec

-----------------------------------------------------------------------------
LEMMA InitWork == Init => Work
  BY DEF Init, Work, GateByPosition, GateByTrace, PristineAtPlan, EmptyMeansNotRun, HasRoot,
         ResultsMeanRun, WithinPlan, ReviewSeesEveryResult, Pristine, Completed, None, PlanSources

\* What a step that leaves plan, results, review and history alone preserves
LEMMA Frame ==
  ASSUME UNCHANGED <<plan, completed, review, ran, vetted, requireApproval>>
  PROVE  /\ Completed' = Completed
         /\ Gate' <=> Gate
         /\ HasRoot' <=> HasRoot
         /\ Pristine' <=> Pristine
  BY DEF Completed, Gate, NeedsHuman, HasRoot, Pristine

\* A dispatched plan has a root, and a root without a result is ready
LEMMA RootIsReady ==
  ASSUME Typed, plan # NoPlan, HasRoot, ran, Completed = {}
  PROVE  DecideNextBatch = "run_specialist"
<1>1. PICK s \in plan.ids : plan.deps[s] = {}
  BY DEF HasRoot
<1>2. \A t \in plan.ids : completed[t] = "none"
  BY DEF Completed, Typed, TypeOK, PlanShape
<1>3. Stuck = {} /\ s \in Ready
  BY <1>1, <1>2 DEF Stuck, Ready, Exhausted
<1> QED
  BY <1>3 DEF DecideNextBatch

\* The first dispatch finds a root: nothing has a result yet
LEMMA FirstDispatchHasRoot ==
  ASSUME Typed, plan # NoPlan, Completed = {}, DecideNextBatch = "run_specialist"
  PROVE  \E s \in plan.ids : plan.deps[s] = {}
<1>1. PICK s \in plan.ids : \A d \in plan.deps[s] : completed[d] = "ok"
  BY DEF DecideNextBatch, Ready
<1>2. plan.deps[s] \subseteq Subtask
  BY DEF Typed, TypeOK, PlanShape
<1>3. \A d \in Subtask : completed[d] # "ok"
  BY DEF Completed
<1> QED
  BY <1>1, <1>2, <1>3

\* decide_next_batch turns to the review only when the plan is done: the count
\* comparison is exact because completed holds subtasks of the plan only
LEMMA ReviewWhenDone ==
  ASSUME Typed, plan # NoPlan, Completed \subseteq plan.ids, DecideNextBatch = "review"
  PROVE  \A s \in plan.ids : completed[s] = "ok"
<1>1. plan.ids \subseteq Subtask /\ completed \in [Subtask -> ResultState]
  BY DEF Typed, TypeOK, PlanShape
<1>2. IsFiniteSet(plan.ids)
  BY <1>1, SubtaskAssumption, FS_Subset
<1>3. Failed = {} /\ ~ (Cardinality(Completed) < Cardinality(plan.ids))
  BY DEF DecideNextBatch, Unfinished
<1>4. IsFiniteSet(Completed) /\ Cardinality(Completed) \in Nat /\ Cardinality(plan.ids) \in Nat
  BY <1>2, FS_Subset, FS_CardinalityType
<1>5. Completed = plan.ids
  BY <1>2, <1>3, <1>4, FS_Subset
<1> QED
  BY <1>1, <1>3, <1>5 DEF Completed, Failed, ResultState

LEMMA StepWork == Typed /\ Typed' /\ Work /\ [Next]_vars => Work'
<1> SUFFICES ASSUME Typed, Typed', Work, [Next]_vars PROVE Work'
  OBVIOUS
<1> USE DEF Work, GateByPosition, GateByTrace, PristineAtPlan, EmptyMeansNotRun,
            ResultsMeanRun, WithinPlan, ReviewSeesEveryResult
<1>t. TypeOK /\ PlanKnown /\ ReviewKnown
  BY DEF Typed
\* Steps that only move on: the positions they lead to claim nothing new
<1>1. CASE Intake
  BY <1>1, Frame DEF Intake, Pristine, HasRoot
<1>2. CASE PlanTask
  <2>1. Completed = {} /\ review = NoReview /\ ~ ran
    BY <1>2 DEF PlanTask, Pristine
  <2>2. Completed' = {} /\ review' = NoReview /\ ~ ran'
    BY <2>1, <1>2 DEF PlanTask, Completed
  <2>3. /\ next' \in {"human_escalation", "route_batch"}
        /\ next' = "route_batch" => Gate'
    BY <1>2 DEF PlanTask, RouteAfterPlan, Gate, NeedsHuman
  <2> QED
    BY <2>2, <2>3 DEF HasRoot
<1>3. CASE RouteBatch
  <2>1. Gate /\ plan # NoPlan
    BY <1>t, <1>3 DEF RouteBatch, PlanKnown
  <2>2. Completed' = Completed /\ Gate'
    BY <1>3, <2>1 DEF RouteBatch, Completed, Gate, NeedsHuman
  <2>3. next' = DecideNextBatch
        /\ next' \in {"human_escalation", "run_specialist", "review"}
    BY <1>3 DEF RouteBatch, DecideNextBatch
  <2>4. HasRoot'
    BY <1>3, <2>1, FirstDispatchHasRoot DEF RouteBatch, HasRoot
  <2>5. next' = "human_escalation" /\ Completed = {} => ~ ran'
    BY <1>3, <2>1, RootIsReady DEF RouteBatch
  <2>6. next' = "review" => \A s \in plan'.ids : completed'[s] = "ok"
    BY <1>3, <2>1, <2>3, ReviewWhenDone DEF RouteBatch
  <2>7. next' = "run_specialist" => ran' /\ batch' \subseteq plan'.ids
    BY <1>3 DEF RouteBatch, Ready
  <2> QED
    BY <1>3, <2>1, <2>2, <2>3, <2>4, <2>5, <2>6, <2>7 DEF RouteBatch
<1>4. ASSUME NEW s \in Subtask, NEW r \in {"ok", "failed"}, RunSpecialist(s, r) PROVE Work'
  BY <1>4, Frame DEF RunSpecialist
<1>5. CASE ApplyBatch
  <2>1. Gate /\ ran /\ plan # NoPlan /\ batch \subseteq plan.ids /\ Completed \subseteq plan.ids
    BY <1>t, <1>5 DEF ApplyBatch, PlanKnown
  <2>2. Completed' \subseteq plan.ids
    BY <1>5, <2>1 DEF ApplyBatch, Completed
  <2>3. Gate' /\ HasRoot'
    BY <1>5, <2>1 DEF ApplyBatch, Gate, NeedsHuman, HasRoot
  <2> QED
    BY <1>5, <2>1, <2>2, <2>3 DEF ApplyBatch
<1>6. CASE Review
  <2>1. Gate /\ plan # NoPlan
    BY <1>t, <1>6 DEF Review, PlanKnown
  <2>2. Completed' = Completed /\ Gate' /\ HasRoot' /\ review' # NoReview
    BY <1>6, <2>1, ReviewsAssumption DEF Review, Completed, Gate, NeedsHuman, HasRoot
  <2>3. next' \in {"human_escalation", "notify_human", "synthesize", "apply_review_feedback"}
    BY <1>6 DEF Review, RouteAfterReview
  <2> QED
    BY <1>6, <2>1, <2>2, <2>3 DEF Review
<1>7. CASE ApplyReviewFeedback
  <2>1. Gate /\ plan # NoPlan
    BY <1>t, <1>7 DEF ApplyReviewFeedback, PlanKnown
  <2>2. Completed' \subseteq Completed
    BY <1>7 DEF ApplyReviewFeedback, Forget, Completed
  <2>3. Gate' /\ HasRoot'
    BY <1>7, <2>1 DEF ApplyReviewFeedback, Gate, NeedsHuman, HasRoot
  <2> QED
    BY <1>7, <2>1, <2>2, <2>3 DEF ApplyReviewFeedback
<1>8. CASE NotifyHuman \/ Synthesize \/ Deliver \/ RejectTask \/ HumanEscalation
  BY <1>8, Frame DEF NotifyHuman, Synthesize, Deliver, RejectTask, HumanEscalation
<1>9. ASSUME NEW d \in DecisionAction, Resume(d) PROVE Work'
  <2>1. plan # NoPlan
    BY <1>t, <1>9 DEF Resume, PlanKnown
  <2>2. source' \in PlanSources => Pristine
    BY <1>9, SourceCases DEF Resume, Pristine
  <2>3. source' \notin PlanSources => Gate
    BY <1>9, SourceCases DEF Resume
  <2>4. source' = "specialist_retry" => ran /\ stuckIds' \subseteq plan.ids
    BY <1>9, <2>1, SourceCases DEF Resume, EscalationStuckIds
  <2> QED
    BY <1>9, <2>1, <2>2, <2>3, <2>4, Frame DEF Resume
<1>10. CASE ApplyHumanDecision
  <2> USE DEF Deciding, UnchangedByDecision
  <2>0. next = "apply_human_decision" /\ plan # NoPlan
    BY <1>t, <1>10 DEF ApplyHumanDecision, HumanRejects, HumanApprovesPlan, HumanModifiesPlan,
      HumanRetriesStuck, HumanGuidesStuck, HumanSuppliesStuck, HumanApprovesReviewed,
      HumanGuidesReviewed, HumanWritesOutput, PlanKnown
  <2>r. "specialist_retry" \notin PlanSources /\ PlanSources \intersect ReviewSources = {}
    BY DEF PlanSources, ReviewSources
  <2>1. CASE HumanRejects \/ HumanModifiesPlan \/ HumanApprovesReviewed \/ HumanWritesOutput
    BY <2>0, <2>1, <2>r, Frame
       DEF HumanRejects, HumanModifiesPlan, HumanApprovesReviewed, HumanWritesOutput
  <2>2. CASE HumanApprovesPlan
    <3>1. Completed' = Completed /\ Gate' /\ HasRoot'
      BY <2>2 DEF HumanApprovesPlan, Completed, Gate, HasRoot
    <3> QED
      BY <2>0, <2>2, <3>1 DEF HumanApprovesPlan
  <2>3. CASE HumanRetriesStuck \/ HumanGuidesStuck \/ HumanGuidesReviewed
    <3>1. Completed' \subseteq Completed /\ Gate' /\ HasRoot'
      BY <2>0, <2>3, <2>r DEF HumanRetriesStuck, HumanGuidesStuck, HumanGuidesReviewed, Forget,
        Completed, Gate, NeedsHuman, HasRoot
    <3> QED
      BY <2>0, <2>3, <2>r, <3>1 DEF HumanRetriesStuck, HumanGuidesStuck, HumanGuidesReviewed
  <2>4. CASE HumanSuppliesStuck
    <3>1. Gate /\ ran /\ stuckIds \subseteq plan.ids /\ Completed \subseteq plan.ids
      BY <2>0, <2>4, <2>r DEF HumanSuppliesStuck
    <3>2. Completed' \subseteq plan.ids /\ Gate' /\ HasRoot'
      BY <2>4, <3>1 DEF HumanSuppliesStuck, Completed, Gate, NeedsHuman, HasRoot
    <3> QED
      BY <2>0, <2>4, <3>1, <3>2 DEF HumanSuppliesStuck
  <2> QED
    BY <1>10, <2>1, <2>2, <2>3, <2>4 DEF ApplyHumanDecision
<1>11. CASE ExpireWorkingMemory \/ Raise
  BY <1>11, Frame DEF ExpireWorkingMemory, Raise
<1>12. CASE UNCHANGED vars \/ Finished
  BY <1>12, Frame DEF Finished, vars
<1> QED
  BY <1>1, <1>2, <1>3, <1>4, <1>5, <1>6, <1>7, <1>8, <1>9, <1>10, <1>11, <1>12
     DEF Next, GraphStep

LEMMA WorkInvariant == Spec => [](Typed /\ Work)
  BY InitTyped, StepTyped, InitWork, StepWork, PTL DEF Spec

\* No work before the approval a plan needs: the gate holds at every position
\* past it, and whatever leads back to dispatching carries a trace of the gate.
THEOREM PlanVettedAlways == Spec => []PlanVetted
<1>1. Work => PlanVetted
  BY DEF Work, GateByPosition, Gate, PlanVetted
<1> QED
  BY <1>1, WorkInvariant, PTL

\* A question on the plan is asked only before any work on it: an empty
\* completed means that nothing ran, because a dispatched plan has a root.
THEOREM ApprovePlanBeforeWorkAlways == Spec => []ApprovePlanBeforeWork
<1>1. Work => ApprovePlanBeforeWork
  BY SourceCases DEF Work, EmptyMeansNotRun, ApprovePlanBeforeWork
<1> QED
  BY <1>1, WorkInvariant, PTL

\* The reviewer sees a success for every subtask, for plans of any size.
THEOREM ReviewSeesEveryResultAlways == Spec => []ReviewSeesEveryResult
<1>1. Work => ReviewSeesEveryResult
  BY DEF Work
<1> QED
  BY <1>1, WorkInvariant, PTL

-----------------------------------------------------------------------------
LEMMA InitOutcome == Init => Outcome
  BY DEF Init, Outcome

LEMMA StepOutcome == Typed /\ Outcome /\ [Next]_vars => Outcome'
<1> SUFFICES ASSUME Typed, Outcome, [Next]_vars PROVE Outcome'
  OBVIOUS
<1> USE DEF Outcome, Approved, ByReviewer, ByPerson
<1>t. ReviewKnown
  BY DEF Typed
\* Before any output exists, an approval still has to be won
<1>1. CASE Intake \/ PlanTask \/ RouteBatch
  BY <1>1 DEF Intake, PlanTask, RouteAfterPlan, RouteBatch, DecideNextBatch
<1>2. ASSUME NEW s \in Subtask, NEW r \in {"ok", "failed"}, RunSpecialist(s, r) PROVE Outcome'
  BY <1>2 DEF RunSpecialist
<1>3. CASE ApplyBatch \/ ApplyReviewFeedback
  BY <1>3 DEF ApplyBatch, ApplyReviewFeedback
\* The reviewer's approval, and its trace past notify_human
<1>4. CASE Review
  <2>1. PICK r \in Reviews : review' = r /\ next' = RouteAfterReview(r, reviewCycles + 1)
    BY <1>4 DEF Review
  <2>2. r # NoReview /\ r.verdict \in {"approved", "low_score", "rejected"}
    BY ReviewsAssumption DEF ReviewShape
  <2>3. /\ next' \in {"human_escalation", "notify_human", "synthesize", "apply_review_feedback"}
        /\ next' \in {"notify_human", "synthesize"} => ByReviewer'
    BY <2>1, <2>2 DEF RouteAfterReview
  <2> QED
    BY <1>4, <2>3 DEF Review
<1>5. CASE NotifyHuman \/ Synthesize \/ Deliver \/ RejectTask \/ HumanEscalation
  BY <1>5 DEF NotifyHuman, Synthesize, Deliver, RejectTask, HumanEscalation
\* The person's approval
<1>6. ASSUME NEW d \in DecisionAction, Resume(d) PROVE Outcome'
  BY <1>6 DEF Resume
<1>7. CASE ApplyHumanDecision
  BY <1>7, <1>t DEF ApplyHumanDecision, Deciding, UnchangedByDecision, HumanRejects,
     HumanApprovesPlan, HumanModifiesPlan, HumanRetriesStuck, HumanGuidesStuck,
     HumanSuppliesStuck, HumanApprovesReviewed, HumanGuidesReviewed, HumanWritesOutput
<1>8. CASE ExpireWorkingMemory \/ Raise
  BY <1>8 DEF ExpireWorkingMemory, Raise
<1>9. CASE UNCHANGED vars \/ Finished
  BY <1>9 DEF Finished, vars
<1> QED
  BY <1>1, <1>2, <1>3, <1>4, <1>5, <1>6, <1>7, <1>8, <1>9 DEF Next, GraphStep

\* A synthesized output rests on an approval, the reviewer's or a person's: the
\* channels the approval is read from are not rewritten while the output exists.
THEOREM OutputWasApprovedAlways == Spec => []OutputWasApproved
<1>1. Outcome => OutputWasApproved
  BY DEF Outcome, OutputWasApproved, Approved, ByReviewer, ByPerson
<1> QED
  BY <1>1, InitTyped, StepTyped, InitOutcome, StepOutcome, PTL DEF Spec
=============================================================================
