---------------------------- MODULE Orchestrator ----------------------------
(***************************************************************************)
(* One task moving through the LangGraph state machine that                *)
(* graph/build.py compiles: plan, dispatch the subtasks whose dependencies *)
(* are done as one parallel superstep, review, and pause for a person      *)
(* wherever the code escalates.                                            *)
(*                                                                         *)
(* An action is one node function together with the conditional edge that  *)
(* LangGraph evaluates right after it.  run_specialist alone takes several *)
(* steps: its branches run in any order, and their writes reach the shared *)
(* state only at the barrier that ends the superstep (ApplyBatch).         *)
(*                                                                         *)
(* What the models answer (plan, success of a specialist, review) and what *)
(* a person decides is chosen freely.  Texts are abstracted to their       *)
(* author: a subtask's feedback is the reviewer's or a person's, the final *)
(* output is synthesized or written by a person.                           *)
(***************************************************************************)
EXTENDS Naturals, FiniteSets

CONSTANTS
    Subtask,              \* ids a plan, a dependency or a review may mention
    Plans,                \* plans the supervisor may return
    Reviews,              \* reviews the reviewer may return
    NoPlan, NoReview,     \* state["plan"], state["review"] before they exist
    MaxSpecialistRetries, \* settings.max_specialist_retries
    MaxReviewCycles,      \* settings.max_review_cycles
    UseMemory,            \* working and long-term memory are configured
    UseCelery,            \* specialists run on the Celery worker pool
    RetryCap, ReviewCap   \* exploration bounds, see Explored

ResultState == {"none", "ok", "failed"}
DecisionAction == {"approve", "reject", "modify", "take_over"}

PlanShape == [ids : SUBSET Subtask,
              deps : [Subtask -> SUBSET Subtask],
              lowConfidence : BOOLEAN,
              sensitive : BOOLEAN]

\* verdict: approved with a good score, approved below the notify threshold,
\* or not approved
ReviewShape == [verdict : {"approved", "low_score", "rejected"},
                sensitive : BOOLEAN,
                redo : SUBSET Subtask]

ASSUME SubtaskAssumption == IsFiniteSet(Subtask)
ASSUME PlansAssumption == Plans \subseteq PlanShape /\ NoPlan \notin PlanShape
ASSUME ReviewsAssumption == Reviews \subseteq ReviewShape /\ NoReview \notin ReviewShape
ASSUME LimitsAssumption == /\ MaxSpecialistRetries \in Nat
                           /\ MaxReviewCycles \in Nat
                           /\ RetryCap \in Nat
                           /\ ReviewCap \in Nat
ASSUME SwitchesAssumption == UseMemory \in BOOLEAN /\ UseCelery \in BOOLEAN

VARIABLES
    next,            \* the node to run next; "paused", "END", "error" besides
    batch,           \* subtasks sent to run_specialist in this superstep
    writes,          \* results of the batch not applied yet
    plan,
    completed,       \* result of each subtask, "none" when it has no entry
    retryCounts,     \* retry_counts, 0 when a subtask has no entry
    feedback,        \* author of subtask_feedback: "none", "reviewer", "human"
    review,
    reviewCycles,
    source,          \* escalation_source
    stuckIds,        \* stuck_subtask_ids of the escalation's context
    decision,        \* human_decision
    finalOutput,     \* "none", "synthesized", "human"
    status,
    requireApproval, \* require_human_approval of the initial state
    workingMemory,   \* the task's hash exists in Redis
    memories,        \* records this task added to long-term memory
    vetted,          \* history: a person approved the current plan
    ran,             \* history: a specialist was dispatched
    owed             \* history: subtasks a person gave guidance for, not run since

results == <<completed, retryCounts, feedback>>
reviewing == <<review, reviewCycles>>
escalating == <<source, stuckIds, decision>>
ending == <<finalOutput, status, memories>>
dispatch == <<batch, writes>>
history == <<vetted, ran, owed>>
vars == <<next, dispatch, plan, results, reviewing, escalating, ending,
          requireApproval, workingMemory, history>>

-----------------------------------------------------------------------------
\* Reading the state: what the routing functions and human_escalation compute

None == [s \in Subtask |-> "none"]
Completed == {s \in Subtask : completed[s] # "none"}
Failed == {s \in Subtask : completed[s] = "failed"}

PlanSources == {"plan_low_confidence", "plan_sensitive", "plan_requested"}
ReviewSources == {"review_sensitive", "review_exhausted"}

NeedsHuman(p) == p.lowConfidence \/ p.sensitive \/ requireApproval

RouteAfterPlan(p) == IF NeedsHuman(p) THEN "human_escalation" ELSE "route_batch"

\* mutant: one attempt more than the limit
ExhaustedOneLater(s) == completed[s] = "failed" /\ retryCounts[s] > MaxSpecialistRetries

Exhausted(s) == completed[s] = "failed" /\ retryCounts[s] >= MaxSpecialistRetries

Stuck == {s \in plan.ids : Exhausted(s)}

\* mutant: a dependency that ran counts as done, whatever its result
ReadyAfterAnyResult ==
    {s \in plan.ids : /\ completed[s] # "ok"
                      /\ ~ Exhausted(s)
                      /\ \A d \in plan.deps[s] : completed[d] # "none"}

\* mutant: a subtask that already succeeded is dispatched again
ReadyAgain == {s \in plan.ids : /\ ~ Exhausted(s)
                                /\ \A d \in plan.deps[s] : completed[d] = "ok"}

Ready == {s \in plan.ids : /\ completed[s] # "ok"
                           /\ ~ Exhausted(s)
                           /\ \A d \in plan.deps[s] : completed[d] = "ok"}

\* mutant: subtasks that never ran are not counted
UnfinishedOnlyIfFailed == Failed # {}

\* Some dependency can never be met
Unfinished == Failed # {} \/ Cardinality(Completed) < Cardinality(plan.ids)

\* mutant: the list of Sends is returned even when it is empty
DecideNextBatchEmptySend ==
    IF Stuck # {} THEN "human_escalation"
    ELSE IF Ready # {} \/ Unfinished THEN "run_specialist"
    ELSE "review"

DecideNextBatch ==
    IF Stuck # {} THEN "human_escalation"
    ELSE IF Ready # {} THEN "run_specialist"
    ELSE IF Unfinished THEN "human_escalation"
    ELSE "review"

\* mutant: approval is looked at before requires_human_review
RouteAfterReviewApprovedFirst(r, cycles) ==
    IF r.verdict = "approved" THEN "synthesize"
    ELSE IF r.sensitive THEN "human_escalation"
    ELSE IF r.verdict = "low_score" THEN "notify_human"
    ELSE IF cycles >= MaxReviewCycles THEN "human_escalation"
    ELSE "apply_review_feedback"

RouteAfterReview(r, cycles) ==
    IF r.sensitive THEN "human_escalation"
    ELSE IF r.verdict = "low_score" THEN "notify_human"
    ELSE IF r.verdict = "approved" THEN "synthesize"
    ELSE IF cycles >= MaxReviewCycles THEN "human_escalation"
    ELSE "apply_review_feedback"

PlanSource(p) ==
    IF p.lowConfidence THEN "plan_low_confidence"
    ELSE IF p.sensitive THEN "plan_sensitive"
    ELSE "plan_requested"

\* mutant: anything before the first review counts as a question on the plan
EscalationSourceByReview ==
    IF review = NoReview THEN PlanSource(plan)
    ELSE IF review.sensitive THEN "review_sensitive"
    ELSE "review_exhausted"

\* The source human_escalation works out from the state, its cascade of tests
EscalationSource ==
    IF Completed = {} /\ review = NoReview THEN PlanSource(plan)
    ELSE IF review = NoReview THEN "specialist_retry"
    ELSE IF review.sensitive THEN "review_sensitive"
    ELSE "review_exhausted"

EscalationStuckIds ==
    IF EscalationSource = "specialist_retry" THEN {s \in Completed : Exhausted(s)} ELSE {}

RedoIds == IF review.redo = {} THEN plan.ids ELSE review.redo

Forget(ids) == [s \in Subtask |-> IF s \in ids THEN "none" ELSE completed[s]]
Guided(ids, author) == [s \in Subtask |-> IF s \in ids THEN author ELSE feedback[s]]
ResetRetries(ids) == [s \in Subtask |-> IF s \in ids THEN 0 ELSE retryCounts[s]]

\* A save into working memory creates the task's hash when there is one to create
SaveWorkingMemory == workingMemory' = (UseMemory \/ workingMemory)

-----------------------------------------------------------------------------
\* The nodes

Init ==
    /\ next = "intake"
    /\ batch = {} /\ writes = None
    /\ plan = NoPlan
    /\ completed = None /\ retryCounts = [s \in Subtask |-> 0] /\ feedback = None
    /\ review = NoReview /\ reviewCycles = 0
    /\ source = "none" /\ stuckIds = {} /\ decision = "none"
    /\ finalOutput = "none" /\ status = "none" /\ memories = 0
    /\ requireApproval \in BOOLEAN
    /\ workingMemory = FALSE
    /\ vetted = FALSE /\ ran = FALSE /\ owed = {}

Intake ==
    /\ next = "intake"
    /\ next' = "plan_task"
    /\ SaveWorkingMemory
    /\ UNCHANGED <<dispatch, plan, results, reviewing, escalating, ending,
                   requireApproval, history>>

\* plan_task also returns {} for completed and retry_counts; through the merge
\* reducer of graph/state.py an empty update changes nothing
PlanTask ==
    /\ next = "plan_task"
    /\ \E p \in Plans : plan' = p /\ next' = RouteAfterPlan(p)
    /\ reviewCycles' = 0
    /\ SaveWorkingMemory
    /\ vetted' = FALSE
    /\ UNCHANGED <<dispatch, results, review, escalating, ending,
                   requireApproval, ran, owed>>

RouteBatch ==
    /\ next = "route_batch"
    /\ next' = DecideNextBatch
    /\ batch' = IF DecideNextBatch = "run_specialist" THEN Ready ELSE {}
    /\ ran' = (ran \/ DecideNextBatch = "run_specialist")
    /\ UNCHANGED <<writes, plan, results, reviewing, escalating, ending,
                   requireApproval, workingMemory, vetted, owed>>

\* One branch of the superstep ends: its result waits for the barrier
RunSpecialist(s, result) ==
    /\ next = "run_specialist"
    /\ s \in batch /\ writes[s] = "none"
    /\ writes' = [writes EXCEPT ![s] = result]
    /\ SaveWorkingMemory
    /\ UNCHANGED <<next, batch, plan, results, reviewing, escalating, ending,
                   requireApproval, history>>

\* Every branch has ended: the reducers merge their writes in one step
ApplyBatch ==
    /\ next = "run_specialist"
    /\ \A s \in batch : writes[s] # "none"
    /\ next' = "route_batch"
    /\ completed' = [s \in Subtask |-> IF s \in batch THEN writes[s] ELSE completed[s]]
    /\ retryCounts' = [s \in Subtask |-> IF s \in batch /\ writes[s] = "failed"
                                         THEN retryCounts[s] + 1 ELSE retryCounts[s]]
    /\ batch' = {} /\ writes' = None
    /\ owed' = owed \ batch
    /\ UNCHANGED <<plan, feedback, reviewing, escalating, ending,
                   requireApproval, workingMemory, vetted, ran>>

\* mutant: review_cycles is routed on but not written back
ReviewNotCounted ==
    /\ next = "review"
    /\ \E r \in Reviews : review' = r /\ next' = RouteAfterReview(r, reviewCycles + 1)
    /\ SaveWorkingMemory
    /\ UNCHANGED <<dispatch, plan, results, reviewCycles, escalating, ending,
                   requireApproval, history>>

Review ==
    /\ next = "review"
    /\ \E r \in Reviews : review' = r /\ next' = RouteAfterReview(r, reviewCycles + 1)
    /\ reviewCycles' = reviewCycles + 1
    /\ SaveWorkingMemory
    /\ UNCHANGED <<dispatch, plan, results, escalating, ending, requireApproval, history>>

ApplyReviewFeedback ==
    /\ next = "apply_review_feedback"
    /\ next' = "route_batch"
    /\ completed' = Forget(review.redo)
    /\ feedback' = Guided(review.redo, "reviewer")
    /\ UNCHANGED <<dispatch, plan, retryCounts, reviewing, escalating, ending,
                   requireApproval, workingMemory, history>>

\* mutant: after its notice the task is delivered
NotifyHumanDelivers ==
    /\ next = "notify_human"
    /\ next' = "deliver"
    /\ source' = "review_low_score_notify" /\ stuckIds' = {}
    /\ SaveWorkingMemory
    /\ UNCHANGED <<dispatch, plan, results, reviewing, decision, ending,
                   requireApproval, history>>

NotifyHuman ==
    /\ next = "notify_human"
    /\ next' = "synthesize"
    /\ source' = "review_low_score_notify" /\ stuckIds' = {}
    /\ SaveWorkingMemory
    /\ UNCHANGED <<dispatch, plan, results, reviewing, decision, ending,
                   requireApproval, history>>

Synthesize ==
    /\ next = "synthesize"
    /\ next' = "deliver"
    /\ finalOutput' = "synthesized"
    /\ SaveWorkingMemory
    /\ UNCHANGED <<dispatch, plan, results, reviewing, escalating, status, memories,
                   requireApproval, history>>

Deliver ==
    /\ next = "deliver"
    /\ next' = "END"
    /\ status' = "completed"
    /\ memories' = IF UseMemory THEN memories + 1 ELSE memories
    /\ workingMemory' = (workingMemory /\ ~ UseMemory)
    /\ UNCHANGED <<dispatch, plan, results, reviewing, escalating, finalOutput,
                   requireApproval, history>>

RejectTask ==
    /\ next = "reject_task"
    /\ next' = "END"
    /\ status' = "rejected"
    /\ workingMemory' = (workingMemory /\ ~ UseMemory)
    /\ UNCHANGED <<dispatch, plan, results, reviewing, escalating, finalOutput,
                   memories, requireApproval, history>>

\* human_escalation up to its interrupt(): nothing of its return is written yet
HumanEscalation ==
    /\ next = "human_escalation"
    /\ next' = "paused"
    /\ SaveWorkingMemory
    /\ UNCHANGED <<dispatch, plan, results, reviewing, escalating, ending,
                   requireApproval, history>>

\* Bound: guidance on a review is explored until a counter reaches its cap
Explored(d) ==
    d = "modify" /\ review # NoReview =>
        reviewCycles < ReviewCap /\ \A s \in Subtask : retryCounts[s] < RetryCap

\* Command(resume=decision): the node runs again from its top and returns
Resume(d) ==
    /\ next = "paused"
    /\ Explored(d)
    /\ next' = "apply_human_decision"
    /\ source' = EscalationSource
    /\ stuckIds' = EscalationStuckIds
    /\ decision' = d
    /\ SaveWorkingMemory
    /\ UNCHANGED <<dispatch, plan, results, reviewing, ending, requireApproval, history>>

-----------------------------------------------------------------------------
\* apply_human_decision with route_after_decision, one action per outcome

Deciding(d, sources) ==
    /\ next = "apply_human_decision"
    /\ decision = d
    /\ source \in sources

UnchangedByDecision == UNCHANGED <<dispatch, plan, reviewing, escalating, status, memories,
                                   requireApproval, workingMemory, ran>>

HumanRejects ==
    /\ Deciding("reject", PlanSources \union ReviewSources \union {"specialist_retry"})
    /\ next' = "reject_task"
    /\ UnchangedByDecision
    /\ UNCHANGED <<results, finalOutput, vetted, owed>>

HumanApprovesPlan ==
    /\ Deciding("approve", PlanSources)
    /\ next' = "route_batch"
    /\ vetted' = TRUE
    /\ UnchangedByDecision
    /\ UNCHANGED <<results, finalOutput, owed>>

\* mutant: the guidance is kept for later and the plan goes ahead
HumanModifiesPlanInPlace ==
    /\ Deciding("modify", PlanSources)
    /\ next' = "route_batch"
    /\ UnchangedByDecision
    /\ UNCHANGED <<results, finalOutput, vetted, owed>>

HumanModifiesPlan ==
    /\ Deciding("modify", PlanSources)
    /\ next' = "plan_task"
    /\ UnchangedByDecision
    /\ UNCHANGED <<results, finalOutput, vetted, owed>>

HumanRetriesStuck ==
    /\ Deciding("approve", {"specialist_retry"})
    /\ next' = "route_batch"
    /\ completed' = Forget(stuckIds)
    /\ retryCounts' = ResetRetries(stuckIds)
    /\ UnchangedByDecision
    /\ UNCHANGED <<feedback, finalOutput, vetted, owed>>

\* mutant: the guidance never reaches subtask_feedback
HumanGuidesStuckInVain ==
    /\ Deciding("modify", {"specialist_retry"})
    /\ next' = "route_batch"
    /\ completed' = Forget(stuckIds)
    /\ retryCounts' = ResetRetries(stuckIds)
    /\ owed' = owed \union stuckIds
    /\ UnchangedByDecision
    /\ UNCHANGED <<feedback, finalOutput, vetted>>

HumanGuidesStuck ==
    /\ Deciding("modify", {"specialist_retry"})
    /\ next' = "route_batch"
    /\ completed' = Forget(stuckIds)
    /\ retryCounts' = ResetRetries(stuckIds)
    /\ feedback' = Guided(stuckIds, "human")
    /\ owed' = owed \union stuckIds
    /\ UnchangedByDecision
    /\ UNCHANGED <<finalOutput, vetted>>

HumanSuppliesStuck ==
    /\ Deciding("take_over", {"specialist_retry"})
    /\ next' = "route_batch"
    /\ completed' = [s \in Subtask |-> IF s \in stuckIds THEN "ok" ELSE completed[s]]
    /\ UnchangedByDecision
    /\ UNCHANGED <<retryCounts, feedback, finalOutput, vetted, owed>>

\* mutant: an approved deliverable goes straight to deliver
HumanApprovesReviewedDirectly ==
    /\ Deciding("approve", ReviewSources)
    /\ next' = "deliver"
    /\ UnchangedByDecision
    /\ UNCHANGED <<results, finalOutput, vetted, owed>>

HumanApprovesReviewed ==
    /\ Deciding("approve", ReviewSources)
    /\ next' = "synthesize"
    /\ UnchangedByDecision
    /\ UNCHANGED <<results, finalOutput, vetted, owed>>

HumanGuidesReviewed ==
    /\ Deciding("modify", ReviewSources)
    /\ next' = "apply_review_feedback"
    /\ completed' = Forget(RedoIds)
    /\ feedback' = Guided(RedoIds, "human")
    /\ owed' = owed \union RedoIds
    /\ UnchangedByDecision
    /\ UNCHANGED <<retryCounts, finalOutput, vetted>>

HumanWritesOutput ==
    /\ Deciding("take_over", PlanSources \union ReviewSources)
    /\ next' = "deliver"
    /\ finalOutput' = "human"
    /\ UnchangedByDecision
    /\ UNCHANGED <<results, vetted, owed>>

ApplyHumanDecision ==
    \/ HumanRejects
    \/ HumanApprovesPlan \/ HumanModifiesPlan
    \/ HumanRetriesStuck \/ HumanGuidesStuck \/ HumanSuppliesStuck
    \/ HumanApprovesReviewed \/ HumanGuidesReviewed
    \/ HumanWritesOutput

-----------------------------------------------------------------------------
\* The environment

\* settings.working_memory_ttl_seconds after the last save, Redis drops the hash
ExpireWorkingMemory ==
    /\ workingMemory
    /\ workingMemory' = FALSE
    /\ UNCHANGED <<next, dispatch, plan, results, reviewing, escalating, ending,
                   requireApproval, history>>

\* Nodes that call a model, the worker pool or Redis outside a try block.
\* "paused" stands for human_escalation running again at a resume.
CanRaise ==
    {"plan_task", "review", "synthesize"}
    \union (IF UseMemory \/ UseCelery THEN {"run_specialist"} ELSE {})
    \union (IF UseMemory THEN {"intake", "notify_human", "human_escalation", "paused",
                               "deliver", "reject_task"} ELSE {})

\* An exception leaves app.invoke: the superstep writes nothing, and nothing in
\* the repository invokes the thread again.  What the node had already saved
\* into the memories stays.
Raise ==
    /\ next \in CanRaise
    /\ next' = "error"
    /\ batch' = {} /\ writes' = None
    /\ workingMemory' \in {workingMemory, UseMemory}
    /\ memories' \in IF next = "deliver" THEN {memories, memories + 1} ELSE {memories}
    /\ UNCHANGED <<plan, results, reviewing, escalating, finalOutput, status,
                   requireApproval, history>>

\* The run is over; a state without this step would be a real deadlock
Finished == next \in {"END", "error"} /\ UNCHANGED vars

\* What LangGraph does on its own once invoked
GraphStep ==
    \/ Intake \/ PlanTask \/ RouteBatch
    \/ \E s \in Subtask, r \in {"ok", "failed"} : RunSpecialist(s, r)
    \/ ApplyBatch \/ Review \/ ApplyReviewFeedback \/ NotifyHuman
    \/ Synthesize \/ Deliver \/ RejectTask
    \/ HumanEscalation \/ ApplyHumanDecision

Next ==
    \/ GraphStep
    \/ \E d \in DecisionAction : Resume(d)
    \/ ExpireWorkingMemory
    \/ Raise
    \/ Finished

Spec == Init /\ [][Next]_vars

\* app.invoke does not stop by itself between two nodes.  A person need not answer.
FairSpec == Spec /\ WF_vars(GraphStep)

-----------------------------------------------------------------------------
\* Properties

Nodes == {"intake", "plan_task", "route_batch", "run_specialist", "review",
          "apply_review_feedback", "notify_human", "synthesize", "deliver",
          "reject_task", "human_escalation", "apply_human_decision",
          "paused", "END", "error"}

\* Every variable keeps its type, and a dispatched superstep is never empty: an
\* empty list of Sends would end the graph with nothing delivered.
TypeOK ==
    /\ next \in Nodes
    /\ batch \in SUBSET Subtask
    /\ next = "run_specialist" => batch # {}
    /\ writes \in [Subtask -> ResultState]
    /\ plan \in PlanShape \union {NoPlan}
    /\ completed \in [Subtask -> ResultState]
    /\ retryCounts \in [Subtask -> Nat]
    /\ feedback \in [Subtask -> {"none", "reviewer", "human"}]
    /\ review \in ReviewShape \union {NoReview}
    /\ reviewCycles \in Nat
    /\ source \in PlanSources \union ReviewSources
                  \union {"none", "specialist_retry", "review_low_score_notify"}
    /\ stuckIds \in SUBSET Subtask
    /\ decision \in DecisionAction \union {"none"}
    /\ finalOutput \in {"none", "synthesized", "human"}
    /\ status \in {"none", "completed", "rejected"}
    /\ requireApproval \in BOOLEAN
    /\ workingMemory \in BOOLEAN
    /\ memories \in Nat
    /\ vetted \in BOOLEAN
    /\ ran \in BOOLEAN
    /\ owed \in SUBSET Subtask

\* A plan below the confidence threshold, with a sensitive subtask, or of a task
\* submitted with require_human_approval is never worked on before a person has
\* approved that very plan, however often it was replanned, retried or reviewed
\* since (route_after_plan, route_after_decision).
PlanVetted ==
    next \in {"run_specialist", "review", "synthesize"} /\ NeedsHuman(plan) => vetted

\* A person is asked to approve a plan only before any work was done on it:
\* human_escalation tells this case from the others by an empty completed, which
\* deleted results must never counterfeit.
ApprovePlanBeforeWork ==
    next = "paused" /\ EscalationSource \in PlanSources => ~ ran

\* The reviewer is given a successful result for every subtask of the plan: the
\* exits of decide_next_batch leave nothing failed or unresolvable behind.
ReviewSeesEveryResult ==
    next = "review" => \A s \in plan.ids : completed[s] = "ok"

\* Until a review sends work back, a subtask has a result only when all the
\* subtasks it depends on have succeeded, through retries and through outputs
\* a person supplied or deleted.
ResultsRestOnInputs ==
    review = NoReview =>
        \A s \in Completed : \A d \in plan.deps[s] : completed[d] = "ok"

\* A succeeded subtask leaves its state only by being put back into the pool:
\* no barrier ever turns a success into a failure.
SuccessIsKept ==
    [][\A s \in Subtask : completed[s] = "ok" => completed'[s] # "failed"]_vars

\* The guidance of a person on a stuck subtask is what its next run is given, as
\* long as no review has happened (with one, see GuidanceHonoured).
RetryGuidanceHonoured ==
    next = "run_specialist" /\ review = NoReview =>
        \A s \in batch \intersect owed : feedback[s] = "human"

\* The retry limit is hard: before a person intervenes in the execution, a
\* subtask fails at most max_specialist_retries times however reviews send it
\* back, and the reviewer is asked at most max_review_cycles times.
EffortIsBounded ==
    source \in PlanSources \union {"none"} =>
        /\ \A s \in Subtask : retryCounts[s] <= IF MaxSpecialistRetries = 0 THEN 1
                                                ELSE MaxSpecialistRetries
        /\ reviewCycles <= IF MaxReviewCycles = 0 THEN 1 ELSE MaxReviewCycles

\* A synthesized output is delivered only when the last review approved it and
\* did not ask for a person, or when a person approved it.
OutputWasApproved ==
    finalOutput = "synthesized" =>
        \/ review # NoReview /\ review.verdict # "rejected" /\ ~ review.sensitive
        \/ decision = "approve" /\ source \in ReviewSources

\* A task ends one way: completed with an output, or rejected with none and with
\* nothing learnt from it; its working memory is cleared either way.
OutcomeConsistent ==
    /\ status = "completed" => finalOutput # "none"
    /\ status = "rejected" => finalOutput = "none" /\ memories = 0
    /\ next = "END" /\ UseMemory => ~ workingMemory

\* Every invocation comes back: to a person, to the end or with an exception,
\* whatever the models answer.
Settles == []<>(next \in {"paused", "END", "error"})

\* What an invocation has before it at most, the largest unit first: planning, the
\* work, or the way out; reviews that send work back; attempts of the subtasks
\* at their next result; nodes
PartsLeft ==
    CASE next \in {"intake", "apply_human_decision"} -> 3
      [] next = "plan_task" -> 2
      [] next \in {"route_batch", "run_specialist", "review", "apply_review_feedback"} -> 1
      [] OTHER -> 0

Under(n, limit) == IF n < limit THEN limit - n ELSE 0

RoundsLeft == 2 * Under(reviewCycles, MaxReviewCycles)
              + (IF next = "apply_review_feedback" THEN 1 ELSE 0)

Attempts(s) ==
    IF completed[s] = "ok" \/ Exhausted(s) THEN 0
    ELSE Under(retryCounts[s], MaxSpecialistRetries) + (IF completed[s] = "none" THEN 1 ELSE 0)

AttemptsLeft == {x \in Subtask \X (1 .. MaxSpecialistRetries + 1) : x[2] <= Attempts(x[1])}

Running == {s \in batch : writes[s] = "none"}

NodesLeft ==
    CASE next = "route_batch" -> 2 + Cardinality(Subtask)
      [] next = "run_specialist" -> 1 + Cardinality(Running)
      [] next = "notify_human" -> 3
      [] next = "synthesize" -> 2
      [] next \in {"deliver", "reject_task", "human_escalation"} -> 1
      [] OTHER -> 0

NearerByAttempts ==
    \/ Cardinality(AttemptsLeft)' < Cardinality(AttemptsLeft)
    \/ AttemptsLeft' = AttemptsLeft /\ NodesLeft' < NodesLeft

Nearer ==
    \/ PartsLeft' < PartsLeft
    \/ PartsLeft' = PartsLeft /\ RoundsLeft' < RoundsLeft
    \/ PartsLeft' = PartsLeft /\ RoundsLeft' = RoundsLeft /\ NearerByAttempts

\* Why every invocation comes back: only a person's answer puts off the end of one;
\* each node that runs, and each branch that ends, uses up a part of what
\* the limits of retries and reviews leave (decide_next_batch,
\* route_after_review), whatever the plan, its results and the reviews are.
NearsAPause == [][next # "paused" => Nearer]_<<next, writes>>

-----------------------------------------------------------------------------
\* What the documentation says and the code does not do

\* README.md: modify gives the agents the person's feedback.
GuidanceHonoured ==
    next = "run_specialist" => \A s \in batch \intersect owed : feedback[s] = "human"
=============================================================================
