--------------------------- MODULE MCOrchestrator ---------------------------
(***************************************************************************)
(* Instances of Orchestrator for TLC.                                      *)
(***************************************************************************)
EXTENDS Orchestrator

CONSTANTS a, b, c

NoDeps == [s \in Subtask |-> {}]
OnlyDeps(ids, deps) == [s \in Subtask |-> IF s \in ids THEN deps ELSE {}]

PlanOf(ids, deps, low, sensitiveOp) ==
    [ids |-> ids, deps |-> deps, lowConfidence |-> low, sensitive |-> sensitiveOp]

Plain(ids, deps) == PlanOf(ids, deps, FALSE, FALSE)

Independent == Plain({a, b}, NoDeps)
Chain == Plain({a, b}, OnlyDeps({b}, {a}))
UnknownDependency == Plain({a}, OnlyDeps({a}, {b}))
Cycle == Plain({a, b}, [s \in Subtask |-> {a, b} \ {s}])
SelfDependent == Plain({a, b}, OnlyDeps({b}, {b}))
Empty == Plain({}, NoDeps)

\* Every shape of two subtasks, and the plans that need a person
PairPlans ==
    {Independent, Chain, UnknownDependency, Cycle, SelfDependent, Empty,
     [Chain EXCEPT !.lowConfidence = TRUE],
     [Independent EXCEPT !.sensitive = TRUE]}

PairReviews == ReviewShape

\* Two subtasks in parallel before a third, and a third that nothing waits for
Join == Plain({a, b, c}, OnlyDeps({c}, {a, b}))
Fork == Plain({a, b, c}, OnlyDeps({b, c}, {a}))

TriplePlans == {Join, [Fork EXCEPT !.sensitive = TRUE]}

\* What the reviewer sends back: nothing, one subtask, or everything
TripleReviews ==
    [verdict : {"approved", "rejected"}, sensitive : {FALSE}, redo : {{}, {a}, {c}, {a, b, c}}]
    \union [verdict : {"low_score"}, sensitive : BOOLEAN, redo : {{}}]
=============================================================================
