---------------------------- MODULE TaskLifecycle ----------------------------
(***************************************************************************)
(* What the orchestrator promises about a task, without how it gets there: *)
(* planning is over once work has started, a person is asked in between,   *)
(* and the task ends once, in one of three ways.                           *)
(***************************************************************************)

VARIABLES
    phase,    \* "planning", "working", "asking", "closing", "over"
    started,  \* some subtask was dispatched
    outcome   \* "none", "delivered", "rejected", "failed"

vars == <<phase, started, outcome>>

Init == phase = "planning" /\ started = FALSE /\ outcome = "none"

\* A plan either needs a person or goes to work
Plan ==
    /\ phase = "planning"
    /\ phase' \in {"asking", "working"}
    /\ UNCHANGED <<started, outcome>>

Start ==
    /\ phase = "working"
    /\ started' = TRUE
    /\ UNCHANGED <<phase, outcome>>

\* Work stops at a question or at an accepted result
LeaveWork ==
    /\ phase = "working"
    /\ phase' \in {"asking", "closing"}
    /\ UNCHANGED <<started, outcome>>

\* The answer of a person: go on, or finish with what there is
Answered ==
    /\ phase = "asking"
    /\ phase' \in {"working", "closing"}
    /\ UNCHANGED <<started, outcome>>

\* A plan is given up for a new one only before any work on it
Replan ==
    /\ phase = "asking" /\ ~ started
    /\ phase' = "planning"
    /\ UNCHANGED <<started, outcome>>

End(from, how) ==
    /\ phase = from
    /\ phase' = "over"
    /\ outcome' = how
    /\ UNCHANGED started

Deliver == End("closing", "delivered")
Reject == End("asking", "rejected")
Fail == \E p \in {"planning", "working", "asking", "closing"} : End(p, "failed")

Next == Plan \/ Start \/ LeaveWork \/ Answered \/ Replan \/ Deliver \/ Reject \/ Fail

Spec == Init /\ [][Next]_vars

\* Work and closing do not last for ever; a person may
Fairness ==
    /\ WF_vars(LeaveWork \/ (phase = "working" /\ Fail))
    /\ WF_vars(Deliver \/ (phase = "closing" /\ Fail))
=============================================================================
