----------------------- MODULE OrchestratorRefinement -----------------------
(***************************************************************************)
(* The graph implements TaskLifecycle, and goes through its checkpoints as *)
(* GraphStages says: phase and stage of a task are a matter of the node    *)
(* that runs next.                                                         *)
(***************************************************************************)
EXTENDS Orchestrator, GraphStages

Phase ==
    IF next \in {"intake", "plan_task"} THEN "planning"
    ELSE IF next \in {"route_batch", "run_specialist", "review", "apply_review_feedback"}
         THEN "working"
    ELSE IF next \in {"human_escalation", "paused", "apply_human_decision", "reject_task"}
         THEN "asking"
    ELSE IF next \in {"notify_human", "synthesize", "deliver"} THEN "closing"
    ELSE "over"

StageOf(node) ==
    CASE node = "intake" -> "intake"
      [] node = "plan_task" -> "planning"
      [] node \in {"human_escalation", "paused", "apply_human_decision"} -> "asking"
      [] node = "synthesize" -> "synthesizing"
      [] node = "deliver" -> "delivering"
      [] node = "reject_task" -> "rejecting"
      [] node = "END" -> "over"
      [] OTHER -> "working"

TaskOutcome ==
    IF next = "error" THEN "failed"
    ELSE IF status = "completed" THEN "delivered"
    ELSE IF status = "rejected" THEN "rejected"
    ELSE "none"

Lifecycle == INSTANCE TaskLifecycle
                 WITH phase <- Phase, started <- ran, outcome <- TaskOutcome

\* A task is replanned only before any work on it, ends once, and ends with the
\* outcome its last node stands for (the edges of build_graph, human_escalation's
\* way of telling a question on the plan from the others).
RefinesLifecycle == Lifecycle!Spec

\* Work does not go on for ever between two pauses, through retries, reviews and
\* redone subtasks, and an accepted result is delivered (the limits that
\* decide_next_batch and route_after_review apply).
KeepsLifecycleMoving == Lifecycle!Fairness

\* The edges taken between two stages, and the status at their end, are those that
\* whoever forks or resumes a checkpoint can rely on; a task that is over stays so
\* and nothing but planning comes before work (the edges of build_graph,
\* route_after_plan, decide_next_batch, route_after_review, route_after_decision).
FollowsStages ==
    [][LET from == StageOf(next)
           to == StageOf(next')
       IN  next' # "error" /\ from # to =>
               to \in After(from) /\ status' = StatusAfter(from, status)]_vars
=============================================================================
