------------------------------ MODULE Handover ------------------------------
(***************************************************************************)
(* What a queue between a task and its reviewers promises, without how it  *)
(* keeps its records: a task asks one question at a time, a decision is    *)
(* about the question that is open, and the task goes on with it, once.    *)
(***************************************************************************)
EXTENDS Naturals

VARIABLES
    asked,    \* questions of the task
    decided,  \* those with a decision
    used,     \* decisions the task went on with
    over      \* the task has ended

vars == <<asked, decided, used, over>>

Init == asked = 0 /\ decided = 0 /\ used = 0 /\ over = FALSE

Ask ==
    /\ ~ over /\ used = asked
    /\ asked' = asked + 1
    /\ UNCHANGED <<decided, used, over>>

Decide ==
    /\ decided < asked
    /\ decided' = asked
    /\ UNCHANGED <<asked, used, over>>

Use ==
    /\ used < decided
    /\ used' = used + 1
    /\ UNCHANGED <<asked, decided, over>>

\* A task does not end with a question open
End ==
    /\ ~ over /\ used = asked
    /\ over' = TRUE
    /\ UNCHANGED <<asked, decided, used>>

Next == Ask \/ Decide \/ Use \/ End

\* A decision is not left lying; people may take for ever to make it
Spec == Init /\ [][Next]_vars /\ WF_vars(Use)
=============================================================================
