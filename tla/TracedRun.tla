------------------------------- MODULE TracedRun -------------------------------
(***************************************************************************)
(* One task as run_traced_task (tracing/recorder.py) drives it over its    *)
(* checkpointed thread, while requests replay the same thread              *)
(* (tracing/replay.py, from api.py and ui/pages/replay.py) and processes   *)
(* fail.                                                                   *)
(*                                                                         *)
(* The graph is seen here by its checkpoints: every superstep of an        *)
(* invocation saves a child of the checkpoint it started from and adds one *)
(* entry to trace_events, named by that checkpoint.  The supersteps of a   *)
(* stage of GraphStages are one.                                           *)
(*                                                                         *)
(* A checkpoint names its parent; line is that chain, the numbers of the   *)
(* checkpoints it comes from with its own.                                 *)
(*                                                                         *)
(* A configuration without a checkpoint id means the thread's newest       *)
(* checkpoint, whoever saved it; one with an id means that checkpoint.     *)
(***************************************************************************)
EXTENDS Naturals, Sequences, FiniteSets, SequencesExt, GraphStages

CONSTANTS
    Runner,        \* the process in run_traced_task
    Replay,        \* replay requests, all in the process of the API or the page
    StepLimit,     \* LangGraph's recursion_limit: supersteps of one invocation
    MaxInterventions,  \* exploration bound: decisions and replays together
    Faults         \* invocations may raise and processes die

ASSUME ProcessAssumption == Runner \notin Replay
ASSUME LimitsAssumption == /\ StepLimit \in Nat /\ MaxInterventions \in Nat
                           /\ Faults \in BOOLEAN

VARIABLES
    saved,     \* the thread's checkpoints, oldest first
    pc,        \* where the runner and each request are
    at,        \* the checkpoint each invocation has come to, 0 before any
    steps,     \* supersteps of the invocation in progress
    prompt,    \* system prompt of the supervisor object of each process
    spans,     \* rows of the table spans, of graph nodes
    recorded,  \* how many events the recorder believes it has recorded
    entry,     \* the task's record in the approval queue
    reviewed,  \* the escalation whose waiting time finish_task is given
    row,       \* the task's row of the table tasks
    asked,     \* escalations the runner has submitted
    fork,      \* the checkpoint update_state made for each request
    diverted   \* history: the runner resumed another checkpoint than its own

process == <<pc, at, steps>>
tables == <<spans, recorded, reviewed, row>>
queue == <<entry, asked>>
vars == <<saved, process, prompt, tables, queue, fork, diverted>>

Proc == Replay \union {Runner}
App(p) == IF p = Runner THEN "runner" ELSE "api"

Latest == Len(saved)
Here(p) == saved[at[p]]
Events(p) == IF at[p] = 0 THEN <<>> ELSE Here(p).events

NoRow == [status |-> "none", spans |-> 0, escalations |-> 0, reviewed |-> 0]
NoEntry == [number |-> 0, status |-> "none"]

\* The first checkpoint anything has run before
AfterIntake == [line |-> {1}, by |-> "intake", stage |-> "planning", status |-> "none",
                events |-> <<1>>, rules |-> "none"]

Init ==
    /\ saved = <<>>
    /\ pc = [p \in Proc |-> IF p = Runner THEN "starting" ELSE "idle"]
    /\ at = [p \in Proc |-> 0] /\ steps = [p \in Proc |-> 0]
    /\ prompt = [a \in {"runner", "api"} |-> "planning"]
    /\ spans = <<>> /\ recorded = 0 /\ reviewed = 0 /\ row = NoRow
    /\ entry = NoEntry /\ asked = 0
    /\ fork = [r \in Replay |-> 0] /\ diverted = FALSE

\* What people have done so far: escalations decided, replays asked for
Interventions ==
    asked - (IF entry.status = "pending" THEN 1 ELSE 0)
    + Cardinality({r \in Replay : pc[r] # "idle"})

Go(p, place) == pc' = [pc EXCEPT ![p] = place]

-----------------------------------------------------------------------------
\* app.invoke, in the runner or in a replay

\* Nothing left to run, or a question and no decision to answer it with
Returns(stage, decision) == stage = "over" \/ (stage = "asking" /\ ~ decision)

\* Where p is when its invocation has come to a checkpoint
Reaches(p, stage, decision) ==
    pc' = [pc EXCEPT ![p] = IF ~ Returns(stage, decision) THEN "invoking"
                            ELSE IF p = Runner THEN "recording" ELSE "returned"]

\* plan_task asks with the supervisor's system prompt, whichever it is by now
Rules(p) == IF Here(p).stage = "planning" THEN prompt[App(p)] ELSE Here(p).rules

Child(p, stage) ==
    [line |-> Here(p).line \union {Latest + 1}, by |-> Here(p).stage, stage |-> stage,
     status |-> StatusAfter(Here(p).stage, Here(p).status),
     events |-> Append(Here(p).events, Latest + 1),
     rules |-> Rules(p)]

\* synthesize leaves its own system prompt in the supervisor object
PromptsAfter(p) ==
    IF Here(p).stage = "synthesizing" THEN [prompt EXCEPT ![App(p)] = "synthesis"]
    ELSE prompt

\* The nodes of one stage run and their superstep is saved; a decision is used or
\* dropped by the first one
Superstep(p) ==
    /\ pc[p] = "invoking"
    /\ steps[p] < StepLimit
    /\ \E stage \in After(Here(p).stage) :
        /\ saved' = Append(saved, Child(p, stage))
        /\ Reaches(p, stage, FALSE)
    /\ at' = [at EXCEPT ![p] = Latest + 1]
    /\ steps' = [steps EXCEPT ![p] = IF pc'[p] = "invoking" THEN @ + 1 ELSE 0]
    /\ prompt' = PromptsAfter(p)
    /\ UNCHANGED <<tables, queue, fork, diverted>>

\* An exception leaves app.invoke: it ends the runner's process, or the request
Broken(p) ==
    /\ Go(p, IF p = Runner THEN "dead" ELSE "failed")
    /\ steps' = [steps EXCEPT ![p] = 0]
    /\ UNCHANGED <<saved, at, prompt, tables, queue, fork, diverted>>

Raise(p) == Faults /\ pc[p] = "invoking" /\ Broken(p)

\* GraphRecursionError
OutOfSteps(p) ==
    /\ pc[p] = "invoking" /\ steps[p] >= StepLimit
    /\ Broken(p)

-----------------------------------------------------------------------------
\* run_traced_task

StartTask ==
    /\ pc[Runner] = "starting"
    /\ row' = [NoRow EXCEPT !.status = "running"]
    /\ Go(Runner, "started")
    /\ UNCHANGED <<saved, at, steps, prompt, spans, recorded, reviewed,
                   queue, fork, diverted>>

Invoke ==
    /\ pc[Runner] = "started"
    /\ saved' = <<AfterIntake>>
    /\ at' = [at EXCEPT ![Runner] = 1]
    /\ Go(Runner, "invoking")
    /\ UNCHANGED <<steps, prompt, tables, queue, fork, diverted>>

\* mutant: events[recorded:-1]
UnrecordedButLast == SubSeq(Events(Runner), recorded + 1, Len(Events(Runner)) - 1)

\* events[recorded:]
Unrecorded == SubSeq(Events(Runner), recorded + 1, Len(Events(Runner)))

\* add_span for each, one row and one transaction
WithSpans(events) == spans \o events

\* mutant: the count is that of the last slice
RecordAllAndCountLast ==
    /\ spans' = WithSpans(Unrecorded)
    /\ recorded' = Len(Unrecorded)

\* A transaction per event.  Nobody else reads or writes these rows, so the loop
\* is one step, which a crash may cut short.
RecordAll ==
    /\ spans' = WithSpans(Unrecorded)
    /\ recorded' = Len(Events(Runner))

CrashWhileRecording ==
    /\ Faults
    /\ pc[Runner] = "recording"
    /\ \E k \in 0 .. Len(Unrecorded) : spans' = WithSpans(SubSeq(Unrecorded, 1, k))
    /\ Go(Runner, "dead")
    /\ UNCHANGED <<saved, at, steps, prompt, recorded, reviewed, row, queue, fork,
                   diverted>>

Submit ==
    /\ pc[Runner] = "recording"
    /\ RecordAll
    /\ Here(Runner).stage = "asking"
    /\ entry' = [number |-> asked + 1, status |-> "pending"]
    /\ asked' = asked + 1
    /\ Go(Runner, "waiting")
    /\ UNCHANGED <<saved, at, steps, prompt, reviewed, row, fork, diverted>>

\* A person, with or without a runner that still waits
Decide ==
    /\ entry.status = "pending"
    /\ Interventions < MaxInterventions
    /\ entry' = [entry EXCEPT !.status = "resolved"]
    /\ UNCHANGED <<saved, process, prompt, tables, asked, fork, diverted>>

\* Command(resume=...) with the thread's configuration
Resume ==
    /\ pc[Runner] = "waiting"
    /\ entry.status = "resolved"
    /\ at' = [at EXCEPT ![Runner] = Latest]
    /\ diverted' = (diverted \/ at[Runner] # Latest)
    /\ Reaches(Runner, saved[Latest].stage, TRUE)
    /\ UNCHANGED <<saved, steps, prompt, tables, queue, fork>>

PollAgain == pc[Runner] = "waiting" /\ entry.status = "pending" /\ UNCHANGED vars

ReviewedNumber(e) == IF e.status = "resolved" THEN e.number ELSE 0

\* mutant: the notice is put in the queue before the record is read
CloseReviewNotifyFirst ==
    /\ pc[Runner] = "recording"
    /\ RecordAll
    /\ Here(Runner).stage = "over"
    /\ \E last \in {entry, [number |-> asked, status |-> "notified"]} :
        /\ entry' = last
        /\ reviewed' = ReviewedNumber(last)
    /\ Go(Runner, "finishing")
    /\ UNCHANGED <<saved, at, steps, prompt, row, asked,
                   fork, diverted>>

\* approval_queue.get, then notify if the result's escalation is a notice
CloseReview ==
    /\ pc[Runner] = "recording"
    /\ RecordAll
    /\ Here(Runner).stage = "over"
    /\ reviewed' = ReviewedNumber(entry)
    /\ entry' \in {entry, [number |-> asked, status |-> "notified"]}
    /\ Go(Runner, "finishing")
    /\ UNCHANGED <<saved, at, steps, prompt, row, asked,
                   fork, diverted>>

Escalations(events) ==
    Cardinality({k \in DOMAIN events : saved[events[k]].by = "asking"})

\* finish_task, whose totals are sums over the spans of the table
FinishedRow(status, escalations, review) ==
    [status |-> status, spans |-> Len(spans), escalations |-> escalations,
     reviewed |-> review]

Finish ==
    /\ pc[Runner] = "finishing"
    /\ row' = FinishedRow(Here(Runner).status, Escalations(Events(Runner)), reviewed)
    /\ Go(Runner, "done")
    /\ UNCHANGED <<saved, at, steps, prompt, spans, recorded, reviewed,
                   queue, fork, diverted>>

\* The process dies between two invocations (an invocation that is cut short is
\* Raise, a recording CrashWhileRecording); nothing in the repository invokes its thread again
Crash ==
    /\ Faults
    /\ pc[Runner] \notin {"done", "dead", "invoking", "recording"}
    /\ Broken(Runner)

-----------------------------------------------------------------------------
\* replay_task of the API, and the page's button

ListCheckpoints == DOMAIN saved

\* A checkpoint of the list, and update_state on it: a child with the same last
\* node, whose edges are followed again from the changed values.
Fork(r) ==
    /\ pc[r] = "idle"
    /\ Interventions < MaxInterventions
    /\ \E i \in ListCheckpoints, stage \in Stage :
        /\ stage \in After(saved[i].by)
        /\ saved' = Append(saved, [saved[i] EXCEPT !.line = @ \union {Latest + 1},
                                                   !.stage = stage])
    /\ fork' = [fork EXCEPT ![r] = Latest + 1]
    /\ Go(r, "forked")
    /\ UNCHANGED <<at, steps, prompt, tables, queue, diverted>>

\* mutant: the fork is invoked with the configuration of the thread
InvokeNewest(r) ==
    /\ pc[r] = "forked"
    /\ at' = [at EXCEPT ![r] = Latest]
    /\ Reaches(r, saved[Latest].stage, FALSE)
    /\ UNCHANGED <<saved, steps, prompt, tables, queue, fork, diverted>>

\* app.invoke(None, forked_config)
InvokeFork(r) ==
    /\ pc[r] = "forked"
    /\ at' = [at EXCEPT ![r] = fork[r]]
    /\ Reaches(r, saved[fork[r]].stage, FALSE)
    /\ UNCHANGED <<saved, steps, prompt, tables, queue, fork, diverted>>

\* The API's process is restarted: its requests fail, and a new app is built
Restart ==
    /\ Faults
    /\ \E r \in Replay : pc[r] \in {"forked", "invoking"}
    /\ pc' = [p \in Proc |-> IF pc[p] \in {"forked", "invoking"} /\ p # Runner
                             THEN "failed" ELSE pc[p]]
    /\ steps' = [p \in Proc |-> IF p = Runner THEN steps[p] ELSE 0]
    /\ prompt' = [prompt EXCEPT !["api"] = "planning"]
    /\ UNCHANGED <<saved, at, tables, queue, fork, diverted>>

-----------------------------------------------------------------------------
RunnerStep ==
    \/ StartTask \/ Invoke
    \/ Superstep(Runner) \/ OutOfSteps(Runner)
    \/ Submit \/ Resume \/ CloseReview \/ Finish

ReplayStep(r) == InvokeFork(r) \/ Superstep(r) \/ OutOfSteps(r)

Stopped ==
    /\ pc[Runner] \in {"done", "dead", "waiting"}
    /\ \A r \in Replay : pc[r] \in {"idle", "returned", "failed"}
    /\ UNCHANGED vars

Next ==
    \/ RunnerStep \/ Decide \/ PollAgain
    \/ \E r \in Replay : Fork(r) \/ ReplayStep(r)
    \/ (\E p \in Proc : Raise(p)) \/ Crash \/ CrashWhileRecording \/ Restart
    \/ Stopped

Spec == Init /\ [][Next]_vars

\* The runner's loop runs while its process lives; nobody has to decide, and a
\* replay is asked for by a person
FairSpec == Spec /\ WF_vars(RunnerStep) /\ \A r \in Replay : WF_vars(ReplayStep(r))

-----------------------------------------------------------------------------
\* Properties

Checkpoint ==
    [line : SUBSET Nat, by : Stage \union {"intake"}, stage : Stage,
     status : {"none", "completed", "rejected"}, events : Seq(Nat),
     rules : {"none", "planning", "synthesis"}]

Settled == pc[Runner] \in {"waiting", "finishing", "done"}
Finished == pc[Runner] = "done"

\* Types; what a checkpoint comes from is older, and the events of a checkpoint
\* were saved with it or before it; and a row has an outcome once its run is over.
TypeOK ==
    /\ saved \in Seq(Checkpoint)
    /\ \A i \in DOMAIN saved :
        /\ i \in saved[i].line /\ saved[i].line \subseteq 1 .. i
        /\ \A k \in DOMAIN saved[i].events : saved[i].events[k] \in 1 .. i
    /\ pc \in [Proc -> {"starting", "started", "invoking", "recording",
                        "waiting", "finishing", "done", "dead",
                        "idle", "forked", "returned", "failed"}]
    /\ at \in [Proc -> 0 .. Latest] /\ steps \in [Proc -> 0 .. StepLimit]
    /\ \A p \in Proc : pc[p] = "invoking" => at[p] # 0
    /\ diverted \in BOOLEAN
    /\ prompt \in [{"runner", "api"} -> {"planning", "synthesis"}]
    /\ spans \in Seq(1 .. Latest) /\ recorded \in Nat
    /\ reviewed \in 0 .. asked /\ asked \in Nat
    /\ entry \in [number : 0 .. asked, status : {"none", "pending", "resolved", "notified"}]
    /\ row \in [status : {"none", "running", "completed", "rejected"}, spans : Nat,
                escalations : Nat, reviewed : Nat]
    /\ row.status \in {"completed", "rejected"} <=> Finished
    /\ fork \in [Replay -> 0 .. Latest]

\* Whatever fails, and whatever replays add to the thread, the spans of a run are
\* a beginning of the trace of the checkpoint it has come to, each node once and
\* in order, and between two invocations they are all of it (the slice
\* events[recorded:], recorder.py:115-122).
SpansFollowTrace ==
    ~ diverted => /\ IsPrefix(spans, Events(Runner))
                  /\ Settled => spans = Events(Runner)

\* The row of a finished task agrees with the spans, with the outcome of the
\* graph, with how often the run paused, and has the time of its last review,
\* through pauses, notices and other people's replays (recorder.py:146-169).
FinishedRowIsWhole ==
    Finished /\ ~ diverted =>
        row = [status |-> Here(Runner).status, spans |-> Len(Events(Runner)),
               escalations |-> asked, reviewed |-> asked]

\* The answer to a replay request comes from the fork made for it, however many
\* requests and the runner extend the thread meanwhile (replay.py:54-55).
ReplayAnswersForItsFork ==
    \A r \in Replay : pc[r] = "returned" => fork[r] \in Here(r).line

\* A run of the CLI, the only one of its process, plans and replans with the
\* planner's rules: it synthesizes only when no planning can follow
\* (supervisor.py:40,50; route_after_decision).
RunPlansByTheRules ==
    at[Runner] # 0 /\ ~ diverted => Here(Runner).rules # "synthesis"

\* What an invocation of the run executed is recorded, unless the process ends.
EveryInvocationIsRecorded ==
    pc[Runner] = "invoking" ~>
        \/ pc[Runner] = "dead" \/ diverted
        \/ Settled /\ spans = Events(Runner)

Forks == {fork[r] : r \in Replay}

\* The final state of a run is its own: no replay changed the path to it.
RunEndsOnItsOwnPath == Finished => Here(Runner).line \intersect Forks = {}

\* Every plan is made with the planner's rules, in every process.
PlansByTheRules == \A i \in DOMAIN saved : saved[i].rules # "synthesis"
=============================================================================
