# A verification model of the agent orchestration system

TLA+ modules that follow the Python code of this repository, the TLC runs that
check them on small instances, and theorems about them checked by TLAPS. Paths
below are relative to the repository; `build.py` is
`src/agent_orchestrator/graph/build.py`.

## Inventory of the system

| Component | State it keeps | Operations | Interacts with |
|---|---|---|---|
| Task graph (`graph/build.py`, `graph/state.py`) | the channels of one thread: plan, completed, retry counts, feedback, review, escalation, decision, output | twelve node functions, four routing functions, the merge reducer | models, working and long-term memory, a person through `interrupt()` |
| Checkpointing (`graph/checkpointing.py`) | every superstep's channels per thread | opened by the runner, the API | LangGraph writes it |
| Runner (`run.py`, and its traced twin in `tracing/recorder.py`) | its own loop only, in memory | invoke, submit, wait, resume, notify | graph, approval queue |
| Approval queue (`human_loop/`) | Redis hash of records, set of pending ids | submit, get, list, resolve, append_message, notify, wait | runner, API sessions, the demo's watcher |
| API and pages (`api.py`, `ui/`) | none of their own | decide, ask, replay, memory and trace endpoints | queue, memory, traces, graph |
| Tool registry and specialists (`tools/`, `agents/specialists.py`) | rate-limit timestamps, call log, last usage and prompt of each agent | invoke, tool loop with a forced last turn | parallel branches of one superstep |
| Celery dispatch (`tasks.py`) | broker and result backend | delay, get with a timeout | the graph's run_specialist |
| Working memory (`memory/working.py`) | Redis hash per task with a TTL | save, clear | nodes of the graph |
| Long-term memory (`memory/long_term.py`) | Chroma collection | add, query with access counting, consolidate, expire, delete | intake, deliver, the API |
| Trace recorder and store (`tracing/`) | SQLite tables tasks and spans | start, add span, finish | runner |
| Replay (`tracing/replay.py`) | forks among a thread's checkpoints | list, fork and invoke | the same threads the runner resumes |

### What is hard in it

* **Several owners of one decision.** The gate before work, the retry limit and
  the review limit each live in a different routing function and read channels
  that earlier nodes left behind. `review` and `escalation_source` are never
  cleared, `completed` loses entries on purpose, and what a pause is *about* is
  worked out again from these traces.
* **Parallel branches.** A superstep's results are applied together at its end;
  an exception in one branch discards all of them.
* **The queue has no transactions.** Records are read and written back whole,
  and a record and its membership in the pending set change one after the
  other, while the same task may already be escalating again.
* **Nobody times out.** The runner polls for ever, so a lost decision is a hang.
* **Crashes.** The thread is checkpointed but the loop that would resume it is not.
* **One agent, several threads.** Independent subtasks of one specialist run at once
  on the same agent object and overwrite its last usage, prompt and answer.
* **One thread, several writers.** Replays add checkpoints to the thread of the run
  they replay; a runner that resumes means the newest checkpoint, whoever saved it.
* **One app, several tasks.** The supervisor's system prompt, the specialists' last
  usage and the registry's log outlive the task that wrote them.

### What makes each component correct

| Component | Properties |
|---|---|
| Task graph | a plan that needs a person waits for one; dependencies are respected; reviewers and synthesis see finished work; limits are hard; a person's guidance and output are used; a task ends one way; every invocation comes back |
| Queue and runner | a decision reaches the runner that waits for it, once and for the escalation it was made on; what waits is listed; the transcript is kept; what is over is not listed |
| Replay | a replay answers for the fork it was asked for; the original run ends on its own path; every plan is made with the planner's rules |
| Recorder | each executed node is recorded once and in order through pauses, replays and crashes; a finished task's totals agree with its spans |
| Specialist loop | usage, prompt, answer and tool calls are attributed to their own subtask as far as what the subtasks share allows; no tool call is missed; the rate limit holds; every subtask gets a result |
| Long-term memory | consolidation loses no fact and no access; what was erased does not come back |

`PROJECT.json` lists every hazard at its line, with the properties aimed at it.

## Modules

### `Orchestrator`: one task in the graph

State. `next` is the node LangGraph runs next, with three more positions:
`paused` (the invocation returned `__interrupt__`), `END`, and `error` (an
exception left `app.invoke`). The other variables are the channels of
`OrchestratorState`. A dictionary whose values the code deletes and adds is a
function with the value `"none"` for an absent key: `completed[s]` is `"none"`,
`"ok"` or `"failed"`; `retryCounts[s]` is 0 without an entry, as
`retry_counts.get(sid, 0)`; `feedback[s]` and `finalOutput` keep who wrote the
text. A plan keeps its ids, its dependencies (which may name unknown ids), and
whether its confidence or a subtask makes it need a person. A review keeps its
verdict against the two thresholds, `requires_human_review` and the ids to redo.
`workingMemory` is the existence of the task's Redis hash, `memories` the records
the task added. Three history variables serve the properties: `vetted`, `ran`
and `owed`.

Actions. One per node, each with the conditional edge that follows it:
`PlanTask` with `route_after_plan`, `RouteBatch` with `decide_next_batch`,
`Review` with `route_after_review`. `apply_human_decision` and
`route_after_decision` are nine actions, one for each pair of branches.
`RunSpecialist` ends one branch; `ApplyBatch` is the barrier, where the reducers
merge what the branches wrote. `HumanEscalation` runs up to `interrupt()` and
`Resume` runs the node again, as LangGraph does, so the source and the stuck ids
are worked out from the state at the resume. `plan_task` returns `{}` for
`completed` and `retry_counts`; through the merge reducer that changes nothing,
and the action leaves them unchanged (the proofs show that they are empty then).

Environment. `Raise` is an exception in a node that calls a model, Redis or the
worker pool; in-process specialists catch their own. `ExpireWorkingMemory` is
the TTL. A person may answer with any of the four actions at every level, as
README.md says, or never.

### `ApprovalQueue`: runner, queue and reviewers of one task

An action is one Redis round trip. `runner` walks `submit` (hset, then sadd),
`wait_for_decision` and the resume; escalations are numbered by `current`, and
`resumed` records the decision each interrupt was resumed with. A session is a
reviewer's browser with one request in progress: it lists (smembers, then hget),
decides (hget, hset, srem) or asks (twice hget and hset, with the clarifier's
model call in between). `viewed` is the escalation the reviewer has in front of
them; a decision is represented by that number, so that a stale one shows.
Different task ids share no key of the hash and no member of the set, so one task
is enough. The graph between two interrupts is the single step from
`executing`; its behaviour is `Orchestrator`'s.

`Handover` is its abstract specification: a task asks one question at a time, a
decision is about the open question, and the task goes on with it, once and
eventually. `RefinesHandover` maps the queue to it: a question is decided when the
record holds a decision on the current escalation that the runner can take.

### `TaskLifecycle` and `OrchestratorRefinement`: what a task promises

`TaskLifecycle` is the abstract specification: a task is planned, asked about,
worked on, closed and over; it is planned again only before any work, and ends
once, delivered, rejected or failed. `OrchestratorRefinement` maps `Orchestrator`
to it: the phase is a matter of the node that runs next, `started` is the history
variable `ran`, the outcome is the status the last node wrote.

`GraphStages` is the graph as whoever handles its checkpoints sees it: which stage
may follow which, and the status a stage leaves. `FollowsStages` says that
`Orchestrator` takes no other edge, so that `TracedRun`, which is built on
`GraphStages`, replays and records the same graph.

### `LongTermMemory`: one user's records in Chroma

An action is one call of the collection. A memory's number is its id, the order of
its listing and what it taught; a record is the set of memories it holds and its
access count. A client is any process that uses the collection; `copy` holds the
records it read, `todo` those it still has to write, merge or delete, `consumed`
those a consolidation has merged into others. A sum of access counts (`Total`) is the
size of the set that has an element for each access. `consolidate` takes the records in
the order of its list, searches the collection as it is by then, writes the merged
record and deletes the duplicates in one call at the end; a neighbour that was added
after the listing is the `KeyError` of line 183. `Fail` is an exception of any call
or the end of the process. Similarity, age and importance are free choices. Users
share no record, so there is one.

### `SpecialistLoop`: subtasks of one batch in their tool loops

A branch is one `run_specialist`. Its steps are the points where it reads or writes
what threads share: `last_usage`, `last_prompt` and `last_response_text` of the
specialist object, the registry's `call_log` and the time stamps of the rate limit.
The model may ask for tools in every answer, name an unknown tool, misuse one or
raise. A token count is replaced by whose model calls it sums up, a text by whose it
is. The registry pops the time stamps that have left its window; the history variable
`called` keeps those of all calls, and `RateLimitHolds` is about these. A setup says which agent and which registry each branch works with: one agent for
two subtasks that depend on each other, so that the graph runs them in successive
supersteps; two agents and one registry in parallel threads; one agent and one
registry in parallel threads, for two independent subtasks of the same type, which
the graph sends out together and gives the one agent of that type; an agent and a
registry each in Celery workers (`tasks.py`). With workers, `GiveUp` is `.get(timeout=180)`
raising while the worker goes on; nobody traces what a late worker returns.

### `TracedRun`: the recorder, the store and replays on one thread

`saved` is the thread's list of checkpoints, each with its `line` (itself and the
checkpoints it comes from, the chain that LangGraph keeps as parents), the stage that made it (`by`) and the one that comes next, the status and the list
`trace_events` as the numbers of the checkpoints its entries were saved with.
`Superstep` is one superstep of any `app.invoke`, the runner's or a replay's; `at` is
the checkpoint an invocation has come to. The runner walks `run_traced_task`: start
the row, invoke, record `events[recorded:]`, submit, wait, resume, read the last
review's time, notify, finish. A request forks a checkpoint of the list
(`update_state`, which follows the edges of the node that made the checkpoint again)
and invokes the fork. `prompt` is the system prompt of the supervisor in each process.

Faults. `Raise` is an exception that leaves `app.invoke`, `OutOfSteps` LangGraph's
limit on supersteps, `Crash` and `CrashWhileRecording` the death of the runner's
process, `Restart` that of the API. `diverted` is a history variable: the runner
resumed another checkpoint than the one it paused at.

### MC modules and proof modules

`MCOrchestrator`, `MCRefinement`, `MCApprovalQueue`, `MCLongTermMemory`,
`MCSpecialistLoop` and `MCTracedRun` hold the instances: the plans, reviews,
reviewers, clients, batches and requests the runs use. `OrchestratorProofs`,
`ExecutionProofs`, `RefinementProofs`, `ApprovalQueueProofs`, `LongTermMemoryProofs`,
`ConsolidationProofs`, `SpecialistLoopProofs` and `TracedRunProofs` hold the theorems;
see below.

A definition marked "mutant" is a plausible bug of the definition after it. It is
used by no specification; each shows that some property would notice it.

## Runs

| Run | Shows |
|---|---|
| `orchestrator_pairs` | the safety of the graph on every shape of plan over two subtasks: `PlanVetted`, `ApprovePlanBeforeWork`, `ReviewSeesEveryResult`, `ResultsRestOnInputs`, `SuccessIsKept`, `RetryGuidanceHonoured`, `EffortIsBounded`, `OutputWasApproved`, `OutcomeConsistent`; and that each step of an invocation uses up a part of what the limits leave (`NearsAPause`) |
| `orchestrator_triples` | on a fan-in and a fan-out of three subtasks: every invocation comes back (`Settles`), the graph implements `TaskLifecycle` (`RefinesLifecycle`) and its fairness (`KeepsLifecycleMoving`), and its checkpoints follow `GraphStages` (`FollowsStages`) |
| `queue_reviewers` | with one reviewer who decides, through three escalations, or two who decide the only one, possibly at once: the queue implements `Handover` (`RefinesHandover`), decisions, transcript and listing are right (`DecisionIsForThisEscalation`, `DecisionSurvives`, `TranscriptKept`, `DoneIsUnlisted`), and attentive reviewers answer the first question (`FirstEscalationIsAnswered`) |
| `memory_maintenance` | queries, consolidations, expiry and deletes one after the other, each of which may fail half way, with tasks adding memories and a person erasing everything at any point: `FactsKept`, `AccessesKept`, `EraseIsFinal` |
| `loop_batches` | two subtasks in sequence, in threads with an agent each and with one for both, and in Celery workers: `UsageIsOwn` and `AnswerIsOwn` (exact where nobody else uses the agent at the time, else nothing but the sharers'), `OwnCallsCollected`, `NearsItsEnd` and `EveryBranchEnds` in all of them, `CallsAreOwn` and `RateLimitHolds` over a sliding window wherever no two branches share a registry at once |
| `traced_run` | a run next to a replay of its thread, with every fault: `SpansFollowTrace`, `FinishedRowIsWhole`, `ReplayAnswersForItsFork`, `RunPlansByTheRules`, `EveryInvocationIsRecorded` |
| `orchestrator_guidance` | violation: guidance on a reviewed deliverable is overwritten before the specialist runs |
| `queue_ask_while_deciding` | violation: a question answered while someone decides loses the decision |
| `queue_late_srem` | violation: a late srem hides the next escalation |
| `memory_stale_bump` | violation: a query's write-back undoes a consolidation whose duplicates are already deleted |
| `replay_diverts` | violation: a replay of a run that waits becomes the path the run itself ends on |
| `replay_rules` | violation: a replay plans under the synthesis prompt an earlier one left behind |

### Where the properties stop

The passing runs say what holds; these neighbours of theirs do not, and no run is
spent on them.

* Two reviewers and several escalations: a decision on an earlier one resumes a later
  (`DecisionIsForThisEscalation`), and two questions asked at once keep one of
  them (`TranscriptKept`). `queue_reviewers` therefore has two deciders for one
  escalation only, and none who ask. Even a single reviewer's later escalation may go
  unanswered: the srem of their own decision before can hide it (`queue_late_srem`).
* `review` is never cleared: a subtask that gets stuck after a review sent it back is
  reported as the review's failure and without its id, where README.md's table of
  triggers says `TAKE_OVER` for that subtask.
* Approving an escalation of a subtask that got stuck after a review synthesizes
  with the failed subtask among the results, and `take_over` where no subtask is
  stuck but none can run drops what the person wrote.
* Parallel subtasks of one specialist report each other's usage, prompt and answer.
  README.md:20 says a trace has the cost and the actual prompt and response of every
  step; `base.py:62-64` says the agent is not thread-safe across tasks that share it,
  and fine for one task at a time, but subtasks of one task are enough
  (`build.py:216-230` sends them out together, `build.py:245` gives them one agent).
  `UsageIsOwn` and `AnswerIsOwn` hold with one agent because `AtAgentOf` lets the span
  show any of the sharers; with the subtask itself in place of that set, TLC finds
  each of the two violated in the setup `InThreadsOfOne`. Parallel subtasks of any specialists may collect each
  other's tool calls (`CallsAreOwn`) and pass the rate limit together
  (`RateLimitHolds`). A call the rate limit refuses is not in the log, where
  `registry.py:55` says every call is and README.md:251 that each invocation is
  logged. A failed subtask is traced with its specialist's previous
  answer, which is why `AnswerIsOwn` asks only a success for its answer.
* A consolidation that fails half way counts the accesses of the duplicates twice,
  so `AccessesKept` is an inequality. A single delete does not follow facts that
  were merged into another record.
* What a run recorded before an exception or the end of its process is right, and
  all there is: the events of the invocation that raised stay in the checkpoints, the
  row says `running` for ever, and nothing invokes a thread whose runner died. A
  decision on its pending escalation goes nowhere, where README.md:18 says a pause
  resumes even after a restart. `OutcomeConsistent` is about tasks that were delivered
  or rejected, not about those an exception ended.
* `human_review_ms` is the time of the last review only, where `store.py:5-7` says
  the task's "human review time". The replay page shows the newest checkpoint as the
  original's final state. A diverted run slices another path's events with its own
  count. A replay that pauses is never resumed.
* A worker that is late for its caller ends the run, where `tasks.py:7-8` says a slow
  specialist cannot take down the orchestrator; and workers do not share the rate
  limit, which `tasks.py:15-16` accepts.

### Bounds

* Two subtasks give every relation the code tests for (independent, dependent,
  mutually dependent, self-dependent, unknown), and all 24 reviews. Three
  subtasks give the joins and forks two cannot. The limits are the defaults of
  `config.py`, 2 and 2: a subtask can fail once and be retried, or get stuck, and
  a review can be repeated once before it is exhausted.
* `RetryCap` and `ReviewCap` stop `modify` on a review once a subtask has failed,
  or the reviewer was asked, that often. Nothing in the code stops a person from
  doing so again; the caps only cut how often it is explored. No other decision
  needs a bound.
* Three memories are the smallest number with a chain of merges (a record merged
  into one that is merged itself, and one whose turn never comes); two accesses
  let a merged sum differ from each of its parts. `AccessCap` keeps a consolidation
  from being explored on counts that aborted ones have doubled beyond it.
* Two branches, two of the four turns with tools (the last of the loop and one
  that is not), up to two tool calls in an answer, and a limit of 2 calls in a window
  of one tick. Each setup bounds the ticks of the clock and the tool calls of an
  answer: the clock moves where the limit can be reached in sequence, so that the
  window slides past old stamps.
  Two threads with one agent ask for no tools: a tool call does not
  touch the agent, a turn and the final call are two model calls of each whose
  accounting interleaves, and the shared log is that of the threads with two agents.
  The proofs cover them with any tool calls.
* `MaxInterventions` counts decisions and replays together: with two, a run meets two
  pauses, or one and a replay before, during or after it. Two replay requests are
  needed only for a prompt that one leaves to the other. `StepLimit` is 4 stages of
  the graph in one invocation: a run without questions needs exactly four, from
  planning to delivering, and an answered one can go over. LangGraph's limit depends
  on its version and counts supersteps; what matters here is that it may strike.
* One task in the queue. With one reviewer, three escalations (two are enough for each
  stale write, the third shows that the handover repeats) and four messages, next to
  a session that only looks; with two, one escalation and no messages. A setup has at
  least one escalation, as a task that never asks does not reach the queue.

### Fairness

* `FairSpec` of `Orchestrator`: weak fairness of the graph's own steps.
  `app.invoke` runs node after node in one call. A person's answer, an exception
  and the TTL have none.
* `FairSpec` of `ApprovalQueue`: weak fairness of the runner's loop and of the
  handler of a request in progress. `FirstEscalationIsAnswered` has a reviewer who
  looks at what is listed and decides it as its hypothesis.
* `FairSpec` of `SpecialistLoop`: weak fairness of each branch. The threads of a
  superstep run, and calls of models and tools return or raise. Nobody need give up.
* `FairSpec` of `TracedRun`: weak fairness of the runner's loop while its process
  lives, and of each replay once it was asked for. Nobody has to decide or replay.
* `Fairness` of `TaskLifecycle` is what the graph is shown to provide: work and
  closing come to an end; a person may take for ever.

The runner's loop in `wait_for_decision` is a step that changes nothing
(`PollAgain`), and a finished run stutters (`Finished`), so deadlock stays
checked in every run.

## Proofs

Each theorem is proved for every value of the constants that satisfies the named
ASSUMEs of its module (finite sets of subtasks or branches, the shape of plans,
reviews and setups, limits that are natural numbers); a further hypothesis is in the
table. Where a run checks the property, it checks it under the same hypothesis or
a narrower instance.

| Theorem | Property | Hypothesis |
|---|---|---|
| **`OrchestratorProofs`**: `TypeCorrect` | `TypeOK` | |
| `PlanVettedAlways` | `PlanVetted` | |
| `ApprovePlanBeforeWorkAlways` | `ApprovePlanBeforeWork` | |
| `ReviewSeesEveryResultAlways` | `ReviewSeesEveryResult` | |
| `OutputWasApprovedAlways` | `OutputWasApproved` | |
| **`ExecutionProofs`**: `ResultsRestOnInputsAlways` | `ResultsRestOnInputs` | |
| `RetryGuidanceHonouredAlways` | `RetryGuidanceHonoured` | |
| `SuccessIsKeptAlways` | `SuccessIsKept` | |
| `EffortIsBoundedAlways` | `EffortIsBounded` | |
| `OutcomeConsistentAlways` | `OutcomeConsistent` | |
| `NearsAPauseAlways` | `NearsAPause` | |
| **`RefinementProofs`**: `GraphRefinesLifecycle` | `RefinesLifecycle` | |
| `FollowsStagesAlways` | `FollowsStages` | |
| **`ApprovalQueueProofs`**: `TypeCorrect` | `TypeOK` | |
| `DecisionIsForThisEscalationAlways` | `DecisionIsForThisEscalation` | every setup is `Orderly` |
| `TranscriptKeptAlways` | `TranscriptKept` | every setup is `Orderly` |
| `QueueHandsOver` | the safety of `RefinesHandover` | every setup is `Orderly` |
| **`LongTermMemoryProofs`**: `TypeCorrect` | `TypeOK` | |
| `EraseIsFinalAlways` | `EraseIsFinal` | |
| **`ConsolidationProofs`**: `FactsKeptAlways` | `FactsKept` | a `SoleKeeper`, or `NobodyConsolidates` |
| `AccessesKeptAlways` | `AccessesKept` | a `SoleKeeper` |
| **`SpecialistLoopProofs`**: `TypeCorrect` | `TypeOK` | |
| `UsageIsOwnAlways`, `AnswerIsOwnAlways` | `UsageIsOwn`, `AnswerIsOwn` | in the properties |
| `OwnCallsCollectedAlways` | `OwnCallsCollected` | |
| `CallsAreOwnAlways` | `CallsAreOwn` | in the property |
| `RateLimitHoldsAlways` | `RateLimitHolds` | in the property |
| `NearsItsEndAlways` | `NearsItsEnd` | |
| **`TracedRunProofs`**: `TypeCorrect` | `TypeOK` | |
| `ReplayAnswersForItsForkAlways` | `ReplayAnswersForItsFork` | |
| `SpansFollowTraceAlways` | `SpansFollowTrace` | `~ diverted`, in the property |
| `FinishedRowIsWholeAlways` | `FinishedRowIsWhole` | `~ diverted`, in the property |
| `RunPlansByTheRulesAlways` | `RunPlansByTheRules` | `~ diverted`, in the property |

The hypotheses are not there for the provers. Without each of them the property is
false of the code, as the violation runs and "Where the properties stop" say:

* `Orderly(x)`: one session at most writes to the task's record (it may decide and
  ask, through any number of escalations, next to any number that only look), or
  the task escalates once and nobody asks (any number may decide, at once).
* `SoleKeeper(k)`: the clients other than `k` only erase, while `k` does anything in
  turn, consolidations that fail half way included. `NobodyConsolidates`: any number
  of clients query, expire, delete and erase at once. A consolidation next to a
  query's write-back loses facts (`memory_stale_bump`). Access counts need the sole
  keeper: two queries that write the same record back count one access for two.
* In `UsageIsOwn` and `AnswerIsOwn`, a hypothesis per subtask and not on the setups:
  that no other uses its agent at the same time. The theorems also cover batches in
  which some do.
* `~ diverted`: no replay became the newest checkpoint of the run while it waited
  (`replay_diverts`).

### The graph: `OrchestratorProofs`, `ExecutionProofs`, `RefinementProofs`

`Typed` is inductive alone: types, plus the fact that the nodes that read the
plan or the review run after the node that writes it. `Work` is the inductive
invariant behind the properties about the order of approval, work and review. None
of them is inductive: the
gate is passed at one node and relied on many nodes later, so `Work` says which
positions lie past the gate (`GateByPosition`), which traces in the channels only
gated work can leave (`GateByTrace`, which is what carries the gate through a
pause, whose own position says nothing), that the planner only runs before any
trace (`PristineAtPlan`), and that a pause with no results means that nothing ran
(`EmptyMeansNotRun`). The last one rests on `HasRoot`: a plan that was ever
dispatched has a subtask without dependencies, so when `completed` is empty
`decide_next_batch` dispatches and never escalates. `WithinPlan` makes the code's
comparison of `len(completed)` with the number of subtasks exact, which gives
`ReviewSeesEveryResult`. `Outcome` carries the approval from the node that wins
it to the output.

`Execution` adds what the dispatch leaves true while a batch runs (`BatchIsReady`),
that what `human_escalation` found stuck is still exhausted when the decision is
applied (`StuckAreExhausted`; the second run of the node after the resume has read
the same channels), and that only a review replaces a person's guidance
(`GuidanceKept`). `Effort` says when a count is at its cap: a failed subtask at its cap
is exhausted, so it is not dispatched again, and a review cycle is only begun below
the limit. The source of the last escalation stays in its channel, so "before a
person intervenes" must itself survive a pause (`CalmEnds`). `Ending` says that the
status is written only by the two nodes before `END`, and that only a delivery
teaches.

`NearsAPause` orders what is left of an invocation: planning before work before the
way out (`PartsLeft`), then the reviews that can still send work back (`RoundsLeft`),
the attempts that subtasks still have (`AttemptsLeft`, a set of pairs of a subtask and
a number), and the branches and nodes before the next of these is used up
(`NodesLeft`). A step lowers one of them and raises none before it, except the
resume, which is a person's. The step that could fail is the barrier: that a batch
holds nothing that has succeeded or is exhausted (`BatchIsReady`) makes each of its
results cost an attempt, also where a review has reset a subtask but not its
count. The theorem adds that all four are numbers, so a run that went on for ever
between two pauses would descend for ever in a lexicographic order of numbers.

`GraphRefinesLifecycle`: initial states map to initial states, and each action
to a step of `TaskLifecycle` or a stutter. The step that could fail is a replan,
which is allowed only before any work: `HumanModifiesPlan` is enabled by the code's
reading of an empty `completed`, and that nothing ran then is a part of `Work`. That
an outcome is there only at the end is `Ending`. `FollowsStagesAlways` goes through
the edges one by one.

### The queue: `ApprovalQueueProofs`

`Typed` includes what a handler in progress has in its hands (a copy of a record,
with room for the messages it adds) and that resumes and escalations count each other.
`InOrder` is `Sole` or `Single`, by the setup. In `Sole` the one writer sees the record
it will write back, as long as it is past its read (`WriterSees`), and what is listed
is open but for the moment between a decision and its srem, in which the runner may
resume, escalate again and be listed. In `Single` nothing was said and nothing happened
before the record was listed; all deciders write a decision on the same escalation.
`QueueHandsOver` takes each action to a step of `Handover`: the runner
asks when it writes the record and uses the decision when its poll finds one, which
must be the decision of this question; of the deciders the first to write decides, and
those who write the same decision after it stutter.

### Long-term memory: `LongTermMemoryProofs`, `ConsolidationProofs`

`EraseIsFinal` is not
inductive, because clients keep copies of erased records. `Clean` says where the
copies can go: no record has an id from before the erase, a copy is written only to
the id it was read from, and an update of a missing id creates nothing; so a copy
of a newer id never holds an erased fact. `Numbered` (ids are given out in order)
makes the ids of later memories new.

`KeeperInv` follows a consolidation through its calls: each fact still to be known is in
a record that is not going to be deleted, or in the copy that is about to be written
to one (`Spared`), and the store is as it was read but for that (`Fresh`). When an
erase overtakes it, all it has is older than the erase (`Stale`), and `Clean` says
that nothing comes of that. `Unmerged`: while nobody consolidates, a record holds the
fact it was added with, whichever client writes it back.

`TypeCorrect` needs to know that an access sum is a number, `AccessesKept` what it is
after a merge. `Total` counts a union of disjoint sets, so the sum over two disjoint
sets of records is the sum of the sums (`TotalOfBoth`), and what a merge moves from
some records to one stays the same, without an induction over the records. `Balanced`
says what the accesses are worth at each call of the keeper: what it has read of a
record that is still there is what is stored, unless it is about to write the record
(`Due`), and the records it will not delete will have all accesses once it has
written (`Worth`). An aborted consolidation leaves sums counted twice, so `Worth` may
exceed what was used and never falls short of it.

### Specialists: `SpecialistLoopProofs`

A step of a branch changes no other branch's own variables (`OthersUntouched`) and no
agent or registry that is not its own (`SharedUntouched`), so each invariant is shown
for the branch that moves and for the shared objects. `Sequential`: without
parallelism one branch is under way at most.

* `Carried` says where a model call's usage is between the call and the sum, and that
  the agent shows the branch's total at the end. It holds of a branch that has its
  agent to itself (`AloneAtAgent`).
* `Mixed` holds of every branch: what it has added up, and what it reads from its
  agent, was written by itself or by a branch that uses the agent at the same time.
  Another branch's step either leaves the agent alone or writes something of the same
  group (`AgentWritten`, `AgentsOfOthers`), so nothing of an earlier subtask gets in.
* `Limited` is what the queue of stamps is: the end of the list of all calls, with
  everything popped before the window (`Suffix`), and, where only one branch uses the
  registry at a time, room for the call it has let pass (`Room`). The number of
  calls in the window is then at most the length of the queue. That the queue never
  drops a stamp the window still counts is the part a test of `registry.py` would
  not reach.
* `Collected` splits a branch's calls in the log into those it has collected and
  those its next slice will add, whatever others append in between; `Pure` says the
  slices have nothing else where nobody else appends.
* `StepsLeft` counts the steps to a branch's end, with every turn and every tool call
  it can still begin. `NearsItsEnd` needs of the state only that the turns are within
  their limit and that a call is outstanding in a tool call (`LoopOK`): no step of
  another branch, and no failure, adds to it. A branch takes at most
  `7 + MaxToolIterations * (2 + 5 * calls)` steps.

### Traced runs: `TracedRunProofs`

Checkpoints are only added, so all that is known of an old one stays (`Grows`).
`Typed` says what each checkpoint holds (`SavedOK`: its line and its events are of
checkpoints before it, and its stage and status follow from its maker by `GraphStages`), and
what the checkpoint of a process is by where the process is (`PlacesOK`); a request
works on the line of its fork, which is `ReplayAnswersForItsFork`. `Own` is about
the runner while it is not diverted: its spans are the first `recorded` events of
its checkpoint (`Recorded`), its pauses and last review are those its events have
(`Counted`), and its line was planned with the rules, and the synthesis prompt
is only there where no planning can follow (`Planned`). A resume takes the newest checkpoint, so
either that is the one it paused at or the run is diverted.

### Left to TLC

* Liveness, and that fairness is implemented: `Settles`, `KeepsLifecycleMoving`,
  `DecisionSurvives`, `DoneIsUnlisted`, `FirstEscalationIsAnswered`, the fairness of
  `RefinesHandover`, `EveryBranchEnds`, `EveryInvocationIsRecorded`.
  `NearsAPause` and `NearsItsEnd` are the safety behind `Settles` and
  `EveryBranchEnds`, `QueueHandsOver` that behind `DecisionSurvives`; what they leave
  to TLC is that there is a next step and that it is taken.

Every invariant and every action property that a passing run checks is proved.

## Plan

Done: the graph with its refinement of `TaskLifecycle` and its stages, the queue with
its runner and its refinement of `Handover`, the long-term memory, the specialist
loop with the tool registry and the Celery workers, the traced runner with the store,
replays, crashes and the superstep limit; the theorems above. Next:

1. Versions of results in `Orchestrator`, for what a redone subtask does to those
   that used its old output.
2. The safety behind `EveryInvocationIsRecorded`, as `NearsAPause` is for the graph.

New runs should ask new questions: where a run's instance serves another property
too, the property joins that run.

## Not modelled

* Price tables, OpenTelemetry export, settings and the read-only pages and endpoints
  have no state another component depends on.
* Built-in tools keep files in the sandbox directory, which parallel subtasks and
  tasks share without any order of their own (`write_text` empties a file before it
  fills it). The code promises nothing about them that could be stated.
* Texts, prompts, confidence values, ages, importance, timestamps and ids are
  abstracted as described above. So are tokens, costs and the spans of tool calls:
  they are written in the same loop as their node's span.
* `TracedRun` takes the supersteps of a stage for one, so a batch of parallel
  specialists, or `human_escalation` with `apply_human_decision`, is one entry of the
  trace. A superstep that adds several entries, or none (`route_batch`), adds nothing
  to how lists of them are sliced.
* The values a replay changes are represented by the edge taken after them.
* Choosing and opening a checkpointer, and its serialisation.
* LangGraph, Redis, Celery and Chroma are modelled by how this code uses them.
