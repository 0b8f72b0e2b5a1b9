--------------------------- MODULE ExecutionProofs ---------------------------
(***************************************************************************)
(* What Orchestrator does with the results, the limits and the guidance,   *)
(* for every value of the constants: a task stops being retried, rests on  *)
(* finished inputs, hears the person and ends one way.                     *)
(***************************************************************************)
EXTENDS OrchestratorProofs

\* A superstep in progress was sent what was ready, and nothing it reads has changed
BatchIsReady == next = "run_specialist" => batch \subseteq Ready

\* What human_escalation found stuck is still so when the decision is applied
StuckAreExhausted ==
    next = "apply_human_decision" /\ source = "specialist_retry" =>
        \A s \in stuckIds : Exhausted(s)

\* Only a review, which leaves its trace, replaces a person's guidance
GuidanceKept == review = NoReview => \A s \in owed : feedback[s] = "human"

Execution == BatchIsReady /\ StuckAreExhausted /\ GuidanceKept /\ ResultsRestOnInputs

\* No person has been asked about the execution, nor told about it
Calm == source \in PlanSources \union {"none"}
CalmEnds == ~ Calm => ran \/ review # NoReview

\* Without a retry or a review at all, the first one still happens
Cap(limit) == IF limit = 0 THEN 1 ELSE limit

\* A count is at its cap only of a failed subtask, which is then exhausted, and no
\* review forgets a failed one: so it is not dispatched again
BelowCap(s) ==
    \/ retryCounts[s] < Cap(MaxSpecialistRetries)
    \/ retryCounts[s] = Cap(MaxSpecialistRetries) /\ completed[s] = "failed"
RetriesBounded ==
    Calm => /\ \A s \in Subtask : BelowCap(s)
            /\ next = "apply_review_feedback" => Failed = {}

\* Where a review can still follow, there is one left
CyclesBounded ==
    /\ review = NoReview => reviewCycles = 0
    /\ Calm =>
        /\ reviewCycles <= Cap(MaxReviewCycles)
        /\ next \in {"route_batch", "run_specialist", "review", "apply_review_feedback"} =>
               reviewCycles < Cap(MaxReviewCycles)

Effort == CalmEnds /\ RetriesBounded /\ CyclesBounded

\* Only deliver and reject_task write the status, and END follows both; only
\* deliver learns from the task, and both clear its working memory
StatusAtEnd == status # "none" => next = "END"
Ending ==
    /\ StatusAtEnd
    /\ memories # 0 => next = "error" \/ status = "completed"
    /\ OutcomeConsistent

-----------------------------------------------------------------------------
USE DEF dispatch, results, reviewing, escalating, ending, history

LEMMA InitExecution == Init => Execution
  BY DEF Init, Execution, BatchIsReady, StuckAreExhausted, GuidanceKept, ResultsRestOnInputs,
         Completed, None

\* What is ready, exhausted or completed depends on these channels only
LEMMA ReadyFrame ==
  ASSUME UNCHANGED <<plan, completed, retryCounts>>
  PROVE  /\ Ready' = Ready /\ Completed' = Completed /\ Failed' = Failed
         /\ \A s : Exhausted(s)' <=> Exhausted(s)
  BY DEF Ready, Completed, Failed, Exhausted

LEMMA StepExecution ==
  Typed /\ Typed' /\ Work /\ Execution /\ [Next]_vars => Execution'
<1> SUFFICES ASSUME Typed, Typed', Work, Execution, [Next]_vars PROVE Execution'
  OBVIOUS
<1>t. TypeOK /\ PlanKnown /\ ReviewKnown /\ TypeOK'
  BY DEF Typed
<1> USE DEF Execution, BatchIsReady, StuckAreExhausted, GuidanceKept, ResultsRestOnInputs
\* Steps that leave the results, and what was said about them, alone
<1>1. CASE Intake \/ NotifyHuman \/ Synthesize \/ Deliver \/ RejectTask \/ HumanEscalation
  BY <1>1, ReadyFrame DEF Intake, NotifyHuman, Synthesize, Deliver, RejectTask, HumanEscalation
<1>2. CASE PlanTask
  <2>1. Completed' = {} /\ UNCHANGED <<review, feedback, owed>>
    BY <1>2 DEF PlanTask, Work, PristineAtPlan, Pristine, Completed
  <2>2. next' \in {"human_escalation", "route_batch"}
    BY <1>2 DEF PlanTask, RouteAfterPlan
  <2> QED
    BY <2>1, <2>2
<1>3. CASE RouteBatch
  <2>1. Ready' = Ready /\ Completed' = Completed
    BY <1>3, ReadyFrame DEF RouteBatch
  <2>2. next' \in {"human_escalation", "run_specialist", "review"}
        /\ (next' = "run_specialist" => batch' = Ready)
    BY <1>3 DEF RouteBatch, DecideNextBatch
  <2> QED
    BY <1>3, <2>1, <2>2 DEF RouteBatch
<1>4. ASSUME NEW s \in Subtask, NEW r \in {"ok", "failed"}, RunSpecialist(s, r)
      PROVE  Execution'
  BY <1>4, ReadyFrame DEF RunSpecialist
\* A success is an input of others and never in the batch again
<1>5. CASE ApplyBatch
  <2>1. batch \subseteq Ready /\ plan # NoPlan
    BY <1>t, <1>5 DEF ApplyBatch, PlanKnown
  <2>2. \A d \in Subtask : completed[d] = "ok" => completed'[d] = "ok"
    BY <2>1, <1>5 DEF ApplyBatch, Ready
  <2>3. \A s \in Subtask : plan.deps[s] \subseteq Subtask
    BY <1>t, <2>1 DEF TypeOK, PlanShape
  <2>4. ASSUME review = NoReview, NEW s \in Completed', NEW d \in plan.deps[s]
        PROVE  completed'[d] = "ok"
    <3>1. CASE s \in batch
      BY <2>1, <2>2, <2>3, <2>4, <3>1, <1>t DEF Ready, Completed
    <3>2. CASE s \notin batch
      BY <2>2, <2>3, <2>4, <3>2, <1>5 DEF ApplyBatch, Completed
    <3> QED
      BY <3>1, <3>2
  <2> QED
    BY <2>4, <1>5 DEF ApplyBatch
<1>6. CASE Review
  <2>1. review' # NoReview
    BY <1>6, ReviewsAssumption DEF Review
  <2>2. next' \in {"human_escalation", "notify_human", "synthesize", "apply_review_feedback"}
    BY <1>6 DEF Review, RouteAfterReview
  <2> QED
    BY <2>1, <2>2
<1>7. CASE ApplyReviewFeedback
  BY <1>t, <1>7 DEF ApplyReviewFeedback, ReviewKnown
<1>8. ASSUME NEW d \in DecisionAction, Resume(d) PROVE Execution'
  BY <1>8, ReadyFrame DEF Resume, EscalationStuckIds
<1>9. CASE ApplyHumanDecision
  <2> USE DEF Deciding, UnchangedByDecision
  <2>1. CASE HumanRejects \/ HumanApprovesPlan \/ HumanModifiesPlan \/ HumanApprovesReviewed
             \/ HumanWritesOutput
    BY <2>1, ReadyFrame
       DEF HumanRejects, HumanApprovesPlan, HumanModifiesPlan, HumanApprovesReviewed,
           HumanWritesOutput
  <2>2. CASE HumanGuidesReviewed
    BY <1>t, <2>2 DEF HumanGuidesReviewed, ReviewKnown
  <2>3. CASE HumanRetriesStuck \/ HumanGuidesStuck \/ HumanSuppliesStuck
    <3>1. /\ plan # NoPlan /\ next = "apply_human_decision"
          /\ \A s \in stuckIds : completed[s] = "failed"
      BY <1>t, <2>3
         DEF HumanRetriesStuck, HumanGuidesStuck, HumanSuppliesStuck, PlanKnown, Exhausted
    <3>2. \A s \in Subtask : plan.deps[s] \subseteq Subtask
      BY <1>t, <3>1 DEF TypeOK, PlanShape
    <3>3. Completed' \subseteq Completed /\ next' = "route_batch"
      BY <2>3, <3>1
         DEF HumanRetriesStuck, HumanGuidesStuck, HumanSuppliesStuck, Completed, Forget
    <3>4. \A d \in Subtask : completed[d] = "ok" => completed'[d] = "ok"
      BY <2>3, <3>1 DEF HumanRetriesStuck, HumanGuidesStuck, HumanSuppliesStuck, Forget
    <3>5. UNCHANGED <<plan, review>>
      BY <2>3 DEF HumanRetriesStuck, HumanGuidesStuck, HumanSuppliesStuck
    <3>6. GuidanceKept'
      <4>1. CASE HumanGuidesStuck
        <5>1. \A s \in owed' : s \in Subtask /\ (s \in owed \/ s \in stuckIds)
          BY <1>t, <4>1 DEF HumanGuidesStuck, TypeOK
        <5> QED
          BY <4>1, <5>1 DEF HumanGuidesStuck, Guided
      <4>2. CASE HumanRetriesStuck \/ HumanSuppliesStuck
        BY <4>2 DEF HumanRetriesStuck, HumanSuppliesStuck
      <4> QED
        BY <2>3, <4>1, <4>2
    <3>7. ResultsRestOnInputs'
      BY <3>2, <3>3, <3>4, <3>5 DEF Completed
    <3> QED
      BY <3>3, <3>6, <3>7
  <2> QED
    BY <1>9, <2>1, <2>2, <2>3 DEF ApplyHumanDecision
<1>10. CASE ExpireWorkingMemory \/ Raise
  BY <1>10, ReadyFrame DEF ExpireWorkingMemory, Raise
<1>11. CASE UNCHANGED vars \/ Finished
  BY <1>11, ReadyFrame DEF Finished, vars
<1> QED
  BY <1>1, <1>2, <1>3, <1>4, <1>5, <1>6, <1>7, <1>8, <1>9, <1>10, <1>11 DEF Next, GraphStep

LEMMA ExecutionInvariant == Spec => [](Typed /\ Work /\ Execution)
  BY InitTyped, StepTyped, InitWork, StepWork, InitExecution, StepExecution, PTL DEF Spec

\* A result was made from finished inputs: whatever is deleted was failed, and what
\* is dispatched was ready.
THEOREM ResultsRestOnInputsAlways == Spec => []ResultsRestOnInputs
<1>1. Execution => ResultsRestOnInputs
  BY DEF Execution
<1> QED
  BY <1>1, ExecutionInvariant, PTL

\* The next run of a stuck subtask is given what the person said about it, and not
\* what a reviewer said of an earlier one.
THEOREM RetryGuidanceHonouredAlways == Spec => []RetryGuidanceHonoured
<1>1. Execution => RetryGuidanceHonoured
  BY DEF Execution, GuidanceKept, RetryGuidanceHonoured
<1> QED
  BY <1>1, ExecutionInvariant, PTL

SuccessStays == \A s \in Subtask : completed[s] = "ok" => completed'[s] # "failed"

LEMMA StepKeepsSuccess == Typed /\ Execution /\ [Next]_vars => SuccessStays
<1> SUFFICES ASSUME Typed, Execution, [Next]_vars PROVE SuccessStays
  OBVIOUS
<1> USE DEF SuccessStays
<1>1. CASE completed' = completed
  BY <1>1
<1>2. CASE ApplyBatch
  BY <1>2 DEF ApplyBatch, Execution, BatchIsReady, Ready
<1>3. CASE ApplyReviewFeedback
  BY <1>3 DEF ApplyReviewFeedback, Forget
<1>4. CASE ApplyHumanDecision
  BY <1>4
     DEF ApplyHumanDecision, UnchangedByDecision, Forget, HumanRejects, HumanApprovesPlan,
         HumanModifiesPlan, HumanRetriesStuck, HumanGuidesStuck, HumanSuppliesStuck,
         HumanApprovesReviewed, HumanGuidesReviewed, HumanWritesOutput
<1>5. [Next]_vars => ApplyBatch \/ ApplyReviewFeedback \/ ApplyHumanDecision
                     \/ completed' = completed
  BY DEF Next, GraphStep, Intake, PlanTask, RouteBatch, RunSpecialist, Review, NotifyHuman,
         Synthesize, Deliver, RejectTask, HumanEscalation, Resume, ExpireWorkingMemory, Raise,
         Finished, vars
<1> QED
  BY <1>1, <1>2, <1>3, <1>4, <1>5

\* No barrier turns a success into a failure: what succeeded is never in a batch.
THEOREM SuccessIsKeptAlways == Spec => SuccessIsKept
<1>1. Typed /\ Work /\ Execution /\ [Next]_vars => [SuccessStays]_vars
  BY StepKeepsSuccess
<1> QED
  BY <1>1, ExecutionInvariant, PTL DEF Spec, SuccessIsKept, SuccessStays

-----------------------------------------------------------------------------
LEMMA CapType ==
  ASSUME NEW limit \in Nat
  PROVE  Cap(limit) \in Nat /\ limit <= Cap(limit) /\ 0 < Cap(limit)
  BY DEF Cap

LEMMA InitEffort == Init => Effort
  BY CapType, LimitsAssumption
     DEF Init, Effort, CalmEnds, RetriesBounded, BelowCap, CyclesBounded, Calm

\* Calm does not come back: a question on the plan is only asked before any work
LEMMA ResumeCalm ==
  ASSUME Work, CalmEnds, NEW d \in DecisionAction, Resume(d), Calm'
  PROVE  Calm /\ review = NoReview
<1>1. source' = EscalationSource /\ next = "paused"
  BY DEF Resume
<1>2. EscalationSource \in PlanSources
  BY <1>1, SourceCases DEF Calm, PlanSources, ReviewSources
<1>3. Completed = {} /\ review = NoReview /\ ~ ran
  BY <1>1, <1>2, SourceCases DEF Work, EmptyMeansNotRun
<1> QED
  BY <1>3 DEF CalmEnds

LEMMA StepEffort ==
  Typed /\ Typed' /\ Work /\ Execution /\ Outcome /\ Effort /\ [Next]_vars => Effort'
<1> SUFFICES ASSUME Typed, Typed', Work, Execution, Outcome, Effort, [Next]_vars PROVE Effort'
  OBVIOUS
<1>t. TypeOK /\ PlanKnown /\ ReviewKnown
  BY DEF Typed
<1>c. /\ Cap(MaxSpecialistRetries) \in Nat /\ MaxSpecialistRetries <= Cap(MaxSpecialistRetries)
      /\ Cap(MaxReviewCycles) \in Nat /\ MaxReviewCycles <= Cap(MaxReviewCycles)
      /\ 0 < Cap(MaxReviewCycles)
  BY CapType, LimitsAssumption
<1>e. CalmEnds /\ RetriesBounded /\ CyclesBounded
  BY DEF Effort
<1> USE DEF Effort, CalmEnds, RetriesBounded, CyclesBounded, BelowCap, Calm
\* Steps that count nothing and lead to no review
<1>1. CASE Intake \/ Synthesize \/ Deliver \/ RejectTask \/ HumanEscalation
  BY <1>1, <1>e, ReadyFrame DEF Intake, Synthesize, Deliver, RejectTask, HumanEscalation
<1>2. CASE PlanTask
  BY <1>2, <1>c, <1>e, ReadyFrame DEF PlanTask, RouteAfterPlan
<1>3. CASE RouteBatch
  <2>1. next' \in {"human_escalation", "run_specialist", "review"} /\ (ran => ran')
    BY <1>3 DEF RouteBatch, DecideNextBatch
  <2> QED
    BY <1>3, <1>e, <2>1 DEF RouteBatch
<1>4. ASSUME NEW s \in Subtask, NEW r \in {"ok", "failed"}, RunSpecialist(s, r) PROVE Effort'
  BY <1>4, <1>e DEF RunSpecialist
\* A subtask that is run again has not used up its retries
<1>5. CASE ApplyBatch
  <2>1. ASSUME Calm, NEW s \in Subtask PROVE BelowCap(s)'
    <3>1. BelowCap(s) /\ retryCounts[s] \in Nat
      BY <2>1, <1>e, <1>t DEF TypeOK
    <3>2. s \in batch => retryCounts[s] < Cap(MaxSpecialistRetries)
      BY <3>1, <1>5, <1>c, LimitsAssumption
         DEF ApplyBatch, Execution, BatchIsReady, Ready, Exhausted
    <3>3. /\ retryCounts'[s] = IF s \in batch /\ writes[s] = "failed"
                               THEN retryCounts[s] + 1 ELSE retryCounts[s]
          /\ completed'[s] = IF s \in batch THEN writes[s] ELSE completed[s]
      BY <1>5 DEF ApplyBatch
    <3> QED
      BY <3>1, <3>2, <3>3, <1>c
  <2> QED
    BY <1>5, <1>e, <2>1 DEF ApplyBatch
\* One review more, and another one only below the limit
<1>6. CASE Review
  <2>1. PICK r \in Reviews : review' = r /\ next' = RouteAfterReview(r, reviewCycles + 1)
    BY <1>6 DEF Review
  <2>2. review' # NoReview
    BY <2>1, ReviewsAssumption
  <2>3. /\ next' \in {"human_escalation", "notify_human", "synthesize", "apply_review_feedback"}
        /\ next' = "apply_review_feedback" => reviewCycles + 1 < MaxReviewCycles
    BY <2>1, <1>t, LimitsAssumption DEF RouteAfterReview, TypeOK
  <2>4. UNCHANGED <<completed, retryCounts, source, ran>> /\ reviewCycles' = reviewCycles + 1
    BY <1>6 DEF Review
  <2>5. Failed' = {}
    <3>1. plan # NoPlan /\ Completed \subseteq plan.ids /\ \A s \in plan.ids : completed[s] = "ok"
      BY <1>t, <1>6 DEF Review, PlanKnown, Work, WithinPlan, ReviewSeesEveryResult
    <3> QED
      BY <2>4, <3>1 DEF Failed, Completed
  <2>6. Calm => reviewCycles < Cap(MaxReviewCycles)
    BY <1>6, <1>e DEF Review
  <2> QED
    BY <1>c, <1>e, <1>t, <2>2, <2>3, <2>4, <2>5, <2>6, LimitsAssumption DEF TypeOK
<1>7. CASE ApplyReviewFeedback
  <2>1. Calm => \A s \in Subtask : retryCounts[s] < Cap(MaxSpecialistRetries)
    BY <1>7, <1>e DEF ApplyReviewFeedback, Failed
  <2> QED
    BY <1>7, <1>e, <2>1 DEF ApplyReviewFeedback
<1>8. CASE NotifyHuman
  <2>1. source' \notin PlanSources \union {"none"} /\ review' # NoReview
    BY <1>8 DEF NotifyHuman, PlanSources, Outcome, ByReviewer
  <2> QED
    BY <1>8, <2>1
\* A decision on the execution ends the calm, one on the plan precedes all work
<1>9. ASSUME NEW d \in DecisionAction, Resume(d) PROVE Effort'
  <2>1. Calm' => Calm /\ review = NoReview
    BY <1>9, <1>e, ResumeCalm
  <2>2. ~ Calm' => ran \/ review # NoReview
    BY <1>9, <1>t, SourceCases DEF Resume, Work, EmptyMeansNotRun, ResultsMeanRun
  <2> QED
    BY <1>9, <1>e, <2>1, <2>2 DEF Resume
<1>10. CASE ApplyHumanDecision
  <2> USE DEF Deciding, UnchangedByDecision
  <2>r. /\ "specialist_retry" \notin PlanSources /\ "none" # "specialist_retry"
        /\ PlanSources \intersect ReviewSources = {} /\ "none" \notin ReviewSources
    BY DEF PlanSources, ReviewSources
  <2>1. CASE HumanRejects \/ HumanWritesOutput
    BY <1>e, <2>1 DEF HumanRejects, HumanWritesOutput
  <2>2. CASE HumanApprovesPlan \/ HumanModifiesPlan
    <3>1. review = NoReview
      BY <2>2 DEF HumanApprovesPlan, HumanModifiesPlan, Work, PristineAtPlan, Pristine
    <3> QED
      BY <1>c, <1>e, <2>2, <3>1 DEF HumanApprovesPlan, HumanModifiesPlan
  <2>3. CASE HumanRetriesStuck \/ HumanGuidesStuck \/ HumanSuppliesStuck
             \/ HumanApprovesReviewed \/ HumanGuidesReviewed
    BY <1>e, <2>3, <2>r
       DEF HumanRetriesStuck, HumanGuidesStuck, HumanSuppliesStuck, HumanApprovesReviewed,
           HumanGuidesReviewed
  <2> QED
    BY <1>10, <2>1, <2>2, <2>3 DEF ApplyHumanDecision
<1>11. CASE ExpireWorkingMemory \/ Raise
  BY <1>11, <1>e, ReadyFrame DEF ExpireWorkingMemory, Raise
<1>12. CASE UNCHANGED vars \/ Finished
  BY <1>12, <1>e, ReadyFrame DEF Finished, vars
<1> QED
  BY <1>1, <1>2, <1>3, <1>4, <1>5, <1>6, <1>7, <1>8, <1>9, <1>10, <1>11, <1>12
     DEF Next, GraphStep

\* Before a person intervenes, the limits are hard, for every value of them: what is
\* exhausted is never dispatched, whatever the reviews send back in between.
THEOREM EffortIsBoundedAlways == Spec => []EffortIsBounded
<1>1. Typed /\ Effort => EffortIsBounded
  <2> SUFFICES ASSUME Typed, Effort PROVE EffortIsBounded
    OBVIOUS
  <2>1. \A s \in Subtask : retryCounts[s] \in Nat
    BY DEF Typed, TypeOK
  <2> QED
    BY <2>1, LimitsAssumption
       DEF Effort, EffortIsBounded, RetriesBounded, BelowCap, CyclesBounded, Calm, Cap
<1> QED
  BY <1>1, InitTyped, StepTyped, InitWork, StepWork, InitExecution, StepExecution,
     InitOutcome, StepOutcome, InitEffort, StepEffort, PTL DEF Spec

-----------------------------------------------------------------------------
LEMMA InitEnding == Init => Ending
  BY DEF Init, Ending, StatusAtEnd, OutcomeConsistent

LEMMA StepEnding == Typed /\ Outcome /\ Ending /\ [Next]_vars => Ending'
<1> SUFFICES ASSUME Typed, Outcome, Ending, [Next]_vars PROVE Ending'
  OBVIOUS
<1> USE DEF Ending, StatusAtEnd, OutcomeConsistent
<1>t. memories \in Nat /\ workingMemory \in BOOLEAN /\ UseMemory \in BOOLEAN
  BY SwitchesAssumption DEF Typed, TypeOK
\* Steps between two nodes of a running task
<1>1. CASE Intake \/ PlanTask \/ RouteBatch \/ ApplyBatch \/ Review \/ ApplyReviewFeedback
           \/ NotifyHuman \/ Synthesize \/ HumanEscalation
  <2>1. next' # "END" /\ UNCHANGED <<status, memories>> /\ next \notin {"END", "error"}
    BY <1>1
       DEF Intake, PlanTask, RouteAfterPlan, RouteBatch, DecideNextBatch, ApplyBatch, Review,
           RouteAfterReview, ApplyReviewFeedback, NotifyHuman, Synthesize, HumanEscalation
  <2> QED
    BY <2>1
<1>2. ASSUME NEW s \in Subtask, NEW r \in {"ok", "failed"}, RunSpecialist(s, r) PROVE Ending'
  BY <1>2 DEF RunSpecialist
<1>3. ASSUME NEW d \in DecisionAction, Resume(d) PROVE Ending'
  BY <1>3 DEF Resume
<1>4. CASE ApplyHumanDecision
  BY <1>4 DEF ApplyHumanDecision, Deciding, UnchangedByDecision, HumanRejects,
     HumanApprovesPlan, HumanModifiesPlan, HumanRetriesStuck, HumanGuidesStuck,
     HumanSuppliesStuck, HumanApprovesReviewed, HumanGuidesReviewed, HumanWritesOutput
\* The two ends
<1>5. CASE Deliver
  BY <1>5, <1>t DEF Deliver, Outcome
<1>6. CASE RejectTask
  BY <1>6, <1>t DEF RejectTask, Outcome
<1>7. CASE ExpireWorkingMemory
  BY <1>7 DEF ExpireWorkingMemory
<1>8. CASE Raise
  <2>1. next \notin {"END", "error"} /\ next' = "error" /\ UNCHANGED <<status, finalOutput>>
    BY <1>8 DEF Raise, CanRaise
  <2> QED
    BY <2>1
<1>9. CASE UNCHANGED vars \/ Finished
  BY <1>9 DEF Finished, vars
<1> QED
  BY <1>1, <1>2, <1>3, <1>4, <1>5, <1>6, <1>7, <1>8, <1>9 DEF Next, GraphStep

LEMMA EndingInvariant == Spec => [](Typed /\ Work /\ Ending)
  BY InitTyped, StepTyped, InitWork, StepWork, InitOutcome, StepOutcome, InitEnding, StepEnding,
     PTL DEF Spec

\* A task ends one way: an output with a completed one, nothing learnt from a
\* rejected one, and no working memory left of either.
THEOREM OutcomeConsistentAlways == Spec => []OutcomeConsistent
<1>1. Ending => OutcomeConsistent
  BY DEF Ending
<1> QED
  BY <1>1, EndingInvariant, PTL
-----------------------------------------------------------------------------
\* What an invocation uses up

LEMMA LimitTypes == MaxSpecialistRetries \in Nat /\ MaxReviewCycles \in Nat
  BY LimitsAssumption

\* A subtask has one attempt more than the limit of retries at most, and each of the
\* numbers that NearsAPause compares is a number.
LEMMA LeftTypes ==
  ASSUME TypeOK
  PROVE  /\ PartsLeft \in Nat /\ RoundsLeft \in Nat
         /\ IsFiniteSet(AttemptsLeft) /\ Cardinality(AttemptsLeft) \in Nat
         /\ IsFiniteSet(Running) /\ Cardinality(Running) \in Nat
         /\ Cardinality(Subtask) \in Nat /\ NodesLeft \in Nat
         /\ \A s \in Subtask : Attempts(s) \in 0 .. (MaxSpecialistRetries + 1)
<1>1. PartsLeft \in Nat
  BY DEF PartsLeft
<1>2. RoundsLeft \in Nat
  <2>1. Under(reviewCycles, MaxReviewCycles) \in Nat
    BY LimitTypes DEF TypeOK, Under
  <2> QED
    BY <2>1 DEF RoundsLeft
<1>3. IsFiniteSet(AttemptsLeft)
  <2>1. IsFiniteSet(1 .. (MaxSpecialistRetries + 1))
    BY LimitTypes, FS_Interval
  <2>2. IsFiniteSet(Subtask \X (1 .. (MaxSpecialistRetries + 1)))
    BY <2>1, SubtaskAssumption, FS_Product
  <2> QED
    BY <2>2, FS_Subset DEF AttemptsLeft
<1>4. IsFiniteSet(Running)
  BY SubtaskAssumption, FS_Subset DEF Running, TypeOK
<1>5. /\ Cardinality(AttemptsLeft) \in Nat /\ Cardinality(Running) \in Nat
      /\ Cardinality(Subtask) \in Nat
  BY <1>3, <1>4, SubtaskAssumption, FS_CardinalityType
<1>6. NodesLeft \in Nat
  BY <1>5 DEF NodesLeft
<1>7. ASSUME NEW s \in Subtask PROVE Attempts(s) \in 0 .. (MaxSpecialistRetries + 1)
  BY LimitTypes DEF TypeOK, Attempts, Exhausted, Under
<1> QED
  BY <1>1, <1>2, <1>3, <1>4, <1>5, <1>6, <1>7

\* Where no result and no count of retries changes, no attempt is used up.
LEMMA AttemptsFrame ==
  ASSUME UNCHANGED <<completed, retryCounts>>
  PROVE  AttemptsLeft' = AttemptsLeft
<1>1. \A s : Attempts(s)' = Attempts(s)
  BY DEF Attempts, Exhausted
<1> QED
  BY <1>1 DEF AttemptsLeft

\* What ends at the barrier of a superstep has used an attempt: a success needs no
\* more, a failure is counted, and the last one exhausts its subtask.
LEMMA BatchUsesAttempts ==
  ASSUME Typed, Execution, ApplyBatch
  PROVE  Cardinality(AttemptsLeft)' < Cardinality(AttemptsLeft)
<1>1. /\ next = "run_specialist" /\ \A s \in batch : writes[s] # "none"
      /\ completed' = [s \in Subtask |-> IF s \in batch THEN writes[s] ELSE completed[s]]
      /\ retryCounts' = [s \in Subtask |-> IF s \in batch /\ writes[s] = "failed"
                                           THEN retryCounts[s] + 1 ELSE retryCounts[s]]
  BY DEF ApplyBatch
<1>2. /\ TypeOK /\ batch # {} /\ batch \subseteq Subtask /\ batch \subseteq Ready
      /\ \A s \in Subtask : /\ retryCounts[s] \in Nat
                            /\ completed[s] \in ResultState /\ writes[s] \in ResultState
  BY <1>1 DEF Typed, TypeOK, Execution, BatchIsReady
<1>3. ASSUME NEW s \in batch PROVE Attempts(s)' \in Nat /\ Attempts(s)' < Attempts(s)
  <2>1. s \in Subtask /\ completed[s] # "ok" /\ ~ Exhausted(s)
    BY <1>2 DEF Ready
  <2>2. retryCounts[s] \in Nat /\ completed[s] \in {"none", "failed"}
    BY <1>2, <2>1 DEF ResultState
  <2>3. CASE writes[s] = "ok"
    <3>1. completed'[s] = "ok"
      BY <1>1, <2>1, <2>3
    <3>2. Attempts(s)' = 0
      BY <3>1 DEF Attempts
    <3>3. Attempts(s) > 0
      BY <2>1, <2>2, LimitTypes DEF Attempts, Under, Exhausted
    <3> QED
      BY <3>2, <3>3
  <2>4. CASE writes[s] = "failed"
    <3>1. completed'[s] = "failed" /\ retryCounts'[s] = retryCounts[s] + 1
      BY <1>1, <2>1, <2>4
    <3>2. Attempts(s)' = Under(retryCounts[s] + 1, MaxSpecialistRetries)
      BY <2>2, <3>1, LimitTypes DEF Attempts, Exhausted, Under
    <3>3. Attempts(s) = Under(retryCounts[s], MaxSpecialistRetries)
                        + (IF completed[s] = "none" THEN 1 ELSE 0)
      BY <2>1 DEF Attempts
    <3>4. completed[s] = "none" \/ retryCounts[s] < MaxSpecialistRetries
      BY <2>1, <2>2, LimitTypes DEF Exhausted
    <3> QED
      BY <2>2, <3>2, <3>3, <3>4, LimitTypes DEF Under
  <2> QED
    BY <1>1, <1>2, <2>1, <2>3, <2>4 DEF ResultState
<1>4. ASSUME NEW s \in Subtask \ batch PROVE Attempts(s)' = Attempts(s)
  BY <1>1, <1>4 DEF Attempts, Exhausted
<1>5. \A s \in Subtask : Attempts(s) \in 0 .. (MaxSpecialistRetries + 1)
  BY <1>2, LeftTypes
<1>6. ASSUME NEW s \in Subtask, NEW n \in 1 .. (MaxSpecialistRetries + 1), n <= Attempts(s)'
      PROVE  n <= Attempts(s)
  <2>1. CASE s \in batch
    <3>1. Attempts(s)' \in Nat /\ Attempts(s)' < Attempts(s) /\ Attempts(s) \in Nat /\ n \in Nat
      BY <1>3, <1>5, <2>1, LimitTypes
    <3> QED
      BY <1>6, <3>1
  <2>2. CASE s \notin batch
    BY <1>4, <1>6, <2>2
  <2> QED
    BY <2>1, <2>2
<1>7. AttemptsLeft' \subseteq AttemptsLeft
  BY <1>6 DEF AttemptsLeft
<1>8. PICK s \in batch : TRUE
  BY <1>2
<1>9. <<s, Attempts(s)>> \in AttemptsLeft /\ <<s, Attempts(s)>> \notin AttemptsLeft'
  <2>1. s \in Subtask /\ Attempts(s)' \in Nat /\ Attempts(s)' < Attempts(s)
        /\ Attempts(s) \in 0 .. (MaxSpecialistRetries + 1)
    BY <1>2, <1>3, <1>5
  <2>2. Attempts(s) \in 1 .. (MaxSpecialistRetries + 1) /\ Attempts(s) <= Attempts(s)
        /\ ~ (Attempts(s) <= Attempts(s)')
    BY <2>1, LimitTypes
  <2> QED
    BY <2>1, <2>2 DEF AttemptsLeft
<1>10. IsFiniteSet(AttemptsLeft) /\ Cardinality(AttemptsLeft) \in Nat
  BY <1>2, LeftTypes
<1>11. /\ IsFiniteSet(AttemptsLeft') /\ Cardinality(AttemptsLeft') <= Cardinality(AttemptsLeft)
       /\ Cardinality(AttemptsLeft) # Cardinality(AttemptsLeft')
  BY <1>7, <1>9, <1>10, FS_Subset
<1>12. Cardinality(AttemptsLeft') \in Nat
  BY <1>11, FS_CardinalityType
<1> QED
  BY <1>10, <1>11, <1>12

\* Each step of the graph is a step towards the next pause.
LEMMA StepNearsAPause ==
  Typed /\ Execution /\ [Next]_vars => [next # "paused" => Nearer]_<<next, writes>>
<1> SUFFICES ASSUME Typed, Execution, [Next]_vars, next # "paused",
                    ~ UNCHANGED <<next, writes>>
             PROVE  Nearer
  OBVIOUS
<1>t. TypeOK
  BY DEF Typed
<1>n. /\ Cardinality(Running) \in Nat /\ Cardinality(Subtask) \in Nat /\ IsFiniteSet(Running)
  BY <1>t, LeftTypes
\* Planning and deciding come before the work, and it before the way out
<1>1. CASE Intake \/ PlanTask \/ ApplyHumanDecision
  <2>1. CASE Intake
    BY <2>1 DEF Intake, Nearer, PartsLeft
  <2>2. CASE PlanTask
    BY <2>2 DEF PlanTask, RouteAfterPlan, Nearer, PartsLeft
  <2>3. CASE ApplyHumanDecision
    <3>1. next = "apply_human_decision"
          /\ next' \in {"reject_task", "route_batch", "plan_task", "synthesize",
                        "apply_review_feedback", "deliver"}
      BY <2>3
         DEF ApplyHumanDecision, Deciding, HumanRejects, HumanApprovesPlan, HumanModifiesPlan,
             HumanRetriesStuck, HumanGuidesStuck, HumanSuppliesStuck, HumanApprovesReviewed,
             HumanGuidesReviewed, HumanWritesOutput
    <3> QED
      BY <3>1 DEF Nearer, PartsLeft
  <2> QED
    BY <1>1, <2>1, <2>2, <2>3
<1>2. CASE RouteBatch
  <2>1. /\ next = "route_batch" /\ next' \in {"human_escalation", "run_specialist", "review"}
        /\ batch' \subseteq Subtask /\ UNCHANGED <<completed, retryCounts, reviewCycles>>
    <3>1. next' \in {"human_escalation", "run_specialist", "review"}
      BY <1>2 DEF RouteBatch, DecideNextBatch
    <3>2. /\ next = "route_batch" /\ UNCHANGED <<completed, retryCounts, reviewCycles>>
          /\ batch' \subseteq Subtask
      BY <1>2, StepTyped DEF RouteBatch, Typed, TypeOK
    <3> QED
      BY <3>1, <3>2
  <2>2. AttemptsLeft' = AttemptsLeft
    BY <2>1, AttemptsFrame
  <2>3. CASE next' = "human_escalation"
    BY <2>1, <2>3 DEF Nearer, PartsLeft
  <2>4. CASE next' # "human_escalation"
    <3>1. PartsLeft' = PartsLeft
      BY <2>1, <2>4 DEF PartsLeft
    <3>2. RoundsLeft' = RoundsLeft
      BY <2>1, <2>4 DEF RoundsLeft
    <3>3. NodesLeft' < NodesLeft
      <4>1. Running' \in SUBSET Subtask
        BY <2>1 DEF Running
      <4>2. Cardinality(Running') <= Cardinality(Subtask) /\ Cardinality(Running') \in Nat
        BY <4>1, SubtaskAssumption, FS_Subset, FS_CardinalityType
      <4>3. NodesLeft = 2 + Cardinality(Subtask)
        BY <2>1 DEF NodesLeft
      <4>4. NodesLeft' = IF next' = "review" THEN 0 ELSE 1 + Cardinality(Running')
        BY <2>1, <2>4 DEF NodesLeft
      <4> QED
        BY <1>n, <4>2, <4>3, <4>4
    <3> QED
      BY <2>2, <3>1, <3>2, <3>3 DEF Nearer, NearerByAttempts
  <2> QED
    BY <2>3, <2>4
\* The branches of a superstep end one by one
<1>3. ASSUME NEW s \in Subtask, NEW r \in {"ok", "failed"}, RunSpecialist(s, r)
      PROVE  Nearer
  <2>1. /\ next = "run_specialist" /\ next' = next /\ s \in batch /\ writes[s] = "none"
        /\ writes' = [writes EXCEPT ![s] = r]
        /\ UNCHANGED <<batch, completed, retryCounts, reviewCycles>>
    BY <1>3 DEF RunSpecialist
  <2>2. s \in Running /\ Running' = Running \ {s}
    BY <1>t, <2>1 DEF Running, TypeOK
  <2>3. Cardinality(Running') = Cardinality(Running) - 1
    BY <1>n, <2>2, FS_RemoveElement
  <2>4. NodesLeft' < NodesLeft
    BY <1>n, <2>1, <2>3 DEF NodesLeft
  <2>5. AttemptsLeft' = AttemptsLeft
    BY <2>1, AttemptsFrame
  <2>6. PartsLeft' = PartsLeft /\ RoundsLeft' = RoundsLeft
    BY <2>1 DEF PartsLeft, RoundsLeft
  <2> QED
    BY <2>4, <2>5, <2>6 DEF Nearer, NearerByAttempts
<1>4. CASE ApplyBatch
  <2>1. next = "run_specialist" /\ next' = "route_batch" /\ UNCHANGED reviewCycles
    BY <1>4 DEF ApplyBatch
  <2>2. PartsLeft' = PartsLeft /\ RoundsLeft' = RoundsLeft
    BY <2>1 DEF PartsLeft, RoundsLeft
  <2> QED
    BY <1>4, <2>2, BatchUsesAttempts DEF Nearer, NearerByAttempts
\* Work is sent back only while a cycle of reviews is left
<1>5. CASE Review
  <2>1. PICK r \in Reviews : next' = RouteAfterReview(r, reviewCycles + 1)
    BY <1>5 DEF Review
  <2>2. next = "review" /\ reviewCycles' = reviewCycles + 1 /\ reviewCycles \in Nat
    BY <1>5, <1>t DEF Review, TypeOK
  <2>3. CASE next' = "apply_review_feedback"
    <3>1. reviewCycles + 1 < MaxReviewCycles
      BY <2>1, <2>2, <2>3, LimitTypes DEF RouteAfterReview
    <3>2. Under(reviewCycles, MaxReviewCycles) = Under(reviewCycles', MaxReviewCycles) + 1
          /\ Under(reviewCycles', MaxReviewCycles) \in Nat
      BY <2>2, <3>1, LimitTypes DEF Under
    <3>3. RoundsLeft = 2 * Under(reviewCycles, MaxReviewCycles)
          /\ RoundsLeft' = 2 * Under(reviewCycles', MaxReviewCycles) + 1
      BY <2>2, <2>3, <3>2, LimitTypes DEF RoundsLeft
    <3>4. PartsLeft' = PartsLeft
      BY <2>2, <2>3 DEF PartsLeft
    <3>5. RoundsLeft' < RoundsLeft
      BY <3>2, <3>3
    <3> QED
      BY <3>4, <3>5 DEF Nearer
  <2>4. CASE next' # "apply_review_feedback"
    <3>1. next' \in {"human_escalation", "notify_human", "synthesize"}
      BY <2>1, <2>4 DEF RouteAfterReview
    <3> QED
      BY <2>2, <3>1 DEF Nearer, PartsLeft
  <2> QED
    BY <2>3, <2>4
<1>6. CASE ApplyReviewFeedback
  <2>1. next = "apply_review_feedback" /\ next' = "route_batch" /\ UNCHANGED reviewCycles
    BY <1>6 DEF ApplyReviewFeedback
  <2>2. Under(reviewCycles, MaxReviewCycles) \in Nat
    BY <1>t, LimitTypes DEF Under, TypeOK
  <2>3. RoundsLeft = 2 * Under(reviewCycles, MaxReviewCycles) + 1
        /\ RoundsLeft' = 2 * Under(reviewCycles, MaxReviewCycles)
    BY <2>1, <2>2 DEF RoundsLeft
  <2>4. PartsLeft' = PartsLeft
    BY <2>1 DEF PartsLeft
  <2>5. RoundsLeft' < RoundsLeft
    BY <2>2, <2>3
  <2> QED
    BY <2>4, <2>5 DEF Nearer
\* The nodes after the work
<1>7. CASE NotifyHuman \/ Synthesize \/ Deliver \/ RejectTask \/ HumanEscalation
  <2>1. /\ \/ next = "notify_human" /\ next' = "synthesize"
           \/ next = "synthesize" /\ next' = "deliver"
           \/ next \in {"deliver", "reject_task"} /\ next' = "END"
           \/ next = "human_escalation" /\ next' = "paused"
        /\ UNCHANGED <<completed, retryCounts, reviewCycles>>
    BY <1>7 DEF NotifyHuman, Synthesize, Deliver, RejectTask, HumanEscalation
  <2>2. PartsLeft' = PartsLeft /\ RoundsLeft' = RoundsLeft
    BY <2>1 DEF PartsLeft, RoundsLeft
  <2>3. NodesLeft' < NodesLeft
    BY <2>1 DEF NodesLeft
  <2>4. AttemptsLeft' = AttemptsLeft
    BY <2>1, AttemptsFrame
  <2> QED
    BY <2>2, <2>3, <2>4 DEF Nearer, NearerByAttempts
<1>8. CASE Raise
  <2>1. /\ next \in {"plan_task", "review", "synthesize", "run_specialist", "intake",
                     "notify_human", "human_escalation", "deliver", "reject_task"}
        /\ next' = "error" /\ UNCHANGED <<completed, retryCounts, reviewCycles>>
    BY <1>8 DEF Raise, CanRaise
  <2>2. CASE next \in {"plan_task", "review", "run_specialist", "intake"}
    BY <2>1, <2>2 DEF Nearer, PartsLeft
  <2>3. CASE next \in {"notify_human", "synthesize", "deliver", "reject_task", "human_escalation"}
    <3>1. PartsLeft' = PartsLeft /\ RoundsLeft' = RoundsLeft
      BY <2>1, <2>3 DEF PartsLeft, RoundsLeft
    <3>2. NodesLeft' < NodesLeft
      BY <2>1, <2>3 DEF NodesLeft
    <3>3. AttemptsLeft' = AttemptsLeft
      BY <2>1, AttemptsFrame
    <3> QED
      BY <3>1, <3>2, <3>3 DEF Nearer, NearerByAttempts
  <2> QED
    BY <2>1, <2>2, <2>3
\* Steps that are not the graph's
<1>9. ASSUME NEW d \in DecisionAction, Resume(d) PROVE FALSE
  BY <1>9 DEF Resume
<1>10. CASE ExpireWorkingMemory \/ Finished \/ UNCHANGED vars
  BY <1>10 DEF ExpireWorkingMemory, Finished, vars
<1> QED
  BY <1>1, <1>2, <1>3, <1>4, <1>5, <1>6, <1>7, <1>8, <1>9, <1>10 DEF Next, GraphStep

\* NearsAPause, with the bounds that make it a reason to come back: an invocation
\* takes a bounded number of steps before it ends or asks a person, for any plan,
\* any answers of the models and any limits of retries and reviews.
THEOREM NearsAPauseAlways ==
  Spec => /\ [](PartsLeft \in Nat /\ RoundsLeft \in Nat
                /\ Cardinality(AttemptsLeft) \in Nat /\ NodesLeft \in Nat)
          /\ NearsAPause
<1>1. Typed => PartsLeft \in Nat /\ RoundsLeft \in Nat
               /\ Cardinality(AttemptsLeft) \in Nat /\ NodesLeft \in Nat
  BY LeftTypes DEF Typed
<1> QED
  BY <1>1, StepNearsAPause, ExecutionInvariant, PTL DEF Spec, NearsAPause
=============================================================================
