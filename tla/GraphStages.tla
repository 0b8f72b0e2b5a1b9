------------------------------ MODULE GraphStages ------------------------------
(***************************************************************************)
(* The graph of graph/build.py as those see it who only handle its         *)
(* checkpoints.  A stage is a node, or nodes that follow each other:       *)
(* working is route_batch, run_specialist, review and what leads from the  *)
(* review back to work or on to synthesize; asking is human_escalation and *)
(* apply_human_decision.                                                   *)
(***************************************************************************)

Stage == {"planning", "working", "asking", "synthesizing", "delivering", "rejecting",
          "over"}

\* mutant: a person also looks at the synthesized output
AfterWithLastLook(stage) ==
    CASE stage = "intake" -> {"planning"}
      [] stage = "planning" -> {"asking", "working"}
      [] stage = "working" -> {"asking", "synthesizing"}
      [] stage = "asking" ->
            {"planning", "working", "synthesizing", "delivering", "rejecting"}
      [] stage = "synthesizing" -> {"asking", "delivering"}
      [] stage \in {"delivering", "rejecting"} -> {"over"}
      [] OTHER -> {}

\* What the nodes of a stage may be followed by: the edges of build_graph
After(stage) ==
    CASE stage = "intake" -> {"planning"}
      [] stage = "planning" -> {"asking", "working"}
      [] stage = "working" -> {"asking", "synthesizing"}
      [] stage = "asking" ->
            {"planning", "working", "synthesizing", "delivering", "rejecting"}
      [] stage = "synthesizing" -> {"delivering"}
      [] stage \in {"delivering", "rejecting"} -> {"over"}
      [] OTHER -> {}

\* mutant: reject_task forgets the status
StatusAfterUnset(stage, status) == IF stage = "delivering" THEN "completed" ELSE status

\* The status channel after the nodes of a stage
StatusAfter(stage, status) ==
    CASE stage = "delivering" -> "completed"
      [] stage = "rejecting" -> "rejected"
      [] OTHER -> status
=============================================================================
