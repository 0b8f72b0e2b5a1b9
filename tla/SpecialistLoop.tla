---------------------------- MODULE SpecialistLoop ----------------------------
(***************************************************************************)
(* The subtasks of one batch in their specialists' tool loops              *)
(* (agents/specialists.py), which run in threads of one process and share  *)
(* the tool registry (tools/registry.py) and, when two of them have the    *)
(* same type, the agent object with its last_usage, last_prompt and        *)
(* last_response_text (agents/base.py); or in Celery workers (tasks.py),   *)
(* each with an agent and a registry made for the one call.                *)
(*                                                                         *)
(* A thread may be interrupted between any two steps below: between the    *)
(* recording of a call's usage and its accumulation, between the test of   *)
(* the rate limit and the time stamp, around a tool that runs.  Token      *)
(* counts are replaced by whose model calls they count, texts by whose     *)
(* they are.  The registry holds one tool.                                 *)
(***************************************************************************)
EXTENDS Naturals, Sequences, FiniteSets

CONSTANTS
    Branch,            \* subtasks of the batch
    Agent,             \* specialist objects
    Registry,          \* tool registries
    Setups,            \* who shares what, see IsSetup
    MaxToolIterations, \* _MAX_TOOL_ITERATIONS
    RateLimit,         \* rate_limit_per_minute of the tool
    Window,            \* its minute, in ticks of the clock
    NoBranch

ASSUME BranchAssumption == IsFiniteSet(Branch) /\ NoBranch \notin Branch
ASSUME LimitsAssumption == /\ MaxToolIterations \in Nat \ {0}
                           /\ RateLimit \in Nat /\ Window \in Nat

\* A batch: the objects each subtask works with, whether the subtasks are
\* independent, whether Celery workers run them; and exploration bounds: ticks of
\* the clock, tool calls in one answer of the model
IsSetup(x) ==
    /\ x.agentOf \in [Branch -> Agent] /\ x.registryOf \in [Branch -> Registry]
    /\ x.parallel \in BOOLEAN /\ x.celery \in BOOLEAN
    /\ x.ticks \in Nat /\ x.calls \in Nat

ASSUME SetupsAssumption == \A x \in Setups : IsSetup(x)

VARIABLES
    setup,        \* the batch
    late,         \* branches that stopped waiting for their worker
    pc,           \* where each branch is
    turns,        \* turns of the tool loop it has begun
    pending,      \* tool calls of the current turn still to execute
    total,        \* total_usage: model calls of each branch counted in it
    before,       \* length of the call log read before the tool call
    stampAt,      \* time read by _check_rate_limit
    toolCalls,    \* tool_calls_made: whose log entries they are
    event,        \* what run_specialist puts into its trace event
    lastUsage,    \* fields of the agents
    lastPrompt,
    lastResponse,
    callLog,      \* of each registry: who made each call
    stamps,       \* _call_timestamps of the tool
    now,
    called,       \* history: time stamps of all calls that passed the rate limit
    modelCalls    \* history: model calls of each branch that returned

batch == <<setup, late>>
loop == <<turns, pending, total>>
toolCall == <<before, stampAt, toolCalls>>
agent == <<lastUsage, lastPrompt, lastResponse>>
registry == <<callLog, stamps, called>>
vars == <<batch, pc, loop, toolCall, event, agent, registry, now, modelCalls>>

AgentOf(b) == setup.agentOf[b]
RegistryOf(b) == setup.registryOf[b]
Log(b) == callLog[RegistryOf(b)]
Stamps(b) == stamps[RegistryOf(b)]

None == [b \in Branch |-> 0]
One(b) == [None EXCEPT ![b] = 1]
Plus(u, v) == [b \in Branch |-> u[b] + v[b]]
NoEvent == [usage |-> None, prompt |-> NoBranch, response |-> NoBranch, success |-> FALSE]

Go(b, place) == pc' = [pc EXCEPT ![b] = place]

Init ==
    /\ setup \in Setups /\ late = {}
    /\ pc = [b \in Branch |-> "ready"]
    /\ turns = None /\ pending = None /\ total = [b \in Branch |-> None]
    /\ before = None /\ stampAt = None /\ toolCalls = [b \in Branch |-> <<>>]
    /\ event = [b \in Branch |-> NoEvent]
    /\ lastUsage = [a \in Agent |-> None]
    /\ lastPrompt = [a \in Agent |-> NoBranch]
    /\ lastResponse = [a \in Agent |-> NoBranch]
    /\ callLog = [g \in Registry |-> <<>>] /\ now = 0
    /\ stamps = [g \in Registry |-> <<>>] /\ called = stamps
    /\ modelCalls = None

-----------------------------------------------------------------------------
\* The loop of SpecialistAgent.run

\* mutant: only structured and respond note the prompt
StartUnnoted(b) ==
    /\ pc[b] = "ready"
    /\ setup.parallel \/ \A other \in Branch : pc[other] \in {"ready", "done"}
    /\ Go(b, "turn")
    /\ UNCHANGED <<batch, loop, toolCall, event, agent, registry, now, modelCalls>>

Start(b) ==
    /\ pc[b] = "ready"
    /\ setup.parallel \/ \A other \in Branch : pc[other] \in {"ready", "done"}
    /\ lastPrompt' = [lastPrompt EXCEPT ![AgentOf(b)] = b]
    /\ Go(b, "turn")
    /\ UNCHANGED <<batch, loop, toolCall, event, lastUsage, lastResponse, registry, now, modelCalls>>

\* A call of the model returns and _record_usage notes its usage
CallModel(b) ==
    /\ lastUsage' = [lastUsage EXCEPT ![AgentOf(b)] = One(b)]
    /\ modelCalls' = [modelCalls EXCEPT ![b] = @ + 1]
    /\ UNCHANGED <<lastPrompt, lastResponse>>

Accumulate(b) == total' = [total EXCEPT ![b] = Plus(@, lastUsage[AgentOf(b)])]

Turn(b) ==
    /\ pc[b] = "turn"
    /\ CallModel(b)
    /\ turns' = [turns EXCEPT ![b] = @ + 1]
    /\ Go(b, "turn answered")
    /\ UNCHANGED <<batch, pending, total, toolCall, event, registry, now>>

\* The answer asks for tools, or is the end of the loop
TurnAnswered(b) ==
    /\ pc[b] = "turn answered"
    /\ Accumulate(b)
    /\ \E n \in 0..setup.calls :
        /\ pending' = [pending EXCEPT ![b] = n]
        /\ Go(b, IF n = 0 THEN "final" ELSE "tool")
    /\ UNCHANGED <<batch, turns, toolCall, event, agent, registry, now, modelCalls>>

\* mutant: one turn more than the limit
AfterToolOneMore(b) ==
    IF pending[b] > 1 THEN "tool"
    ELSE IF turns[b] <= MaxToolIterations THEN "turn" ELSE "forced"

\* for ... else: the turns are used up and the model has not settled
AfterTool(b) ==
    IF pending[b] > 1 THEN "tool"
    ELSE IF turns[b] < MaxToolIterations THEN "turn" ELSE "forced"

Forced(b) ==
    /\ pc[b] = "forced"
    /\ CallModel(b)
    /\ Go(b, "forced answered")
    /\ UNCHANGED <<batch, loop, toolCall, event, registry, now>>

ForcedAnswered(b) ==
    /\ pc[b] = "forced answered"
    /\ Accumulate(b)
    /\ Go(b, "final")
    /\ UNCHANGED <<batch, turns, pending, toolCall, event, agent, registry, now, modelCalls>>

-----------------------------------------------------------------------------
\* One tool call, through ToolRegistry.invoke

\* mutant: the log is taken from its start
ToolBeforeFromStart(b) ==
    /\ pc[b] = "tool"
    /\ Go(b, "invoke")
    /\ UNCHANGED <<batch, loop, toolCall, event, agent, registry, now, modelCalls>>

ToolBefore(b) ==
    /\ pc[b] = "tool"
    /\ before' = [before EXCEPT ![b] = Len(Log(b))]
    /\ Go(b, "invoke")
    /\ UNCHANGED <<batch, loop, stampAt, toolCalls, event, agent, registry, now, modelCalls>>

\* mutant: a call of an unknown tool stays the next call
ToolUnknownRetried(b) ==
    /\ pc[b] = "invoke"
    /\ Go(b, "tool")
    /\ UNCHANGED <<batch, loop, toolCall, event, agent, registry, now, modelCalls>>

\* A hallucinated name becomes an error text, and the log is not looked at
ToolUnknown(b) ==
    /\ pc[b] = "invoke"
    /\ pending' = [pending EXCEPT ![b] = @ - 1]
    /\ Go(b, AfterTool(b))
    /\ UNCHANGED <<batch, turns, total, toolCall, event, agent, registry, now, modelCalls>>

\* Arguments that do not fit the tool's schema fail before the registry
ToolMisused(b) ==
    /\ pc[b] = "invoke"
    /\ Go(b, "collect")
    /\ UNCHANGED <<batch, loop, toolCall, event, agent, registry, now, modelCalls>>

\* mutant: a stamp on the edge of the minute is popped with the older ones
RecentWithoutEdge(s, start) ==
    IF \E i \in DOMAIN s : s[i] > start
    THEN SubSeq(s, CHOOSE i \in DOMAIN s : /\ s[i] > start
                                           /\ \A j \in 1..(i - 1) : s[j] <= start, Len(s))
    ELSE <<>>

\* The time stamps are popped from the left while they are too old
Recent(s, start) ==
    IF \E i \in DOMAIN s : s[i] >= start
    THEN SubSeq(s, CHOOSE i \in DOMAIN s : /\ s[i] >= start
                                           /\ \A j \in 1..(i - 1) : s[j] < start, Len(s))
    ELSE <<>>

WindowStart == IF now > Window THEN now - Window ELSE 0

Full(s) == Len(s) >= RateLimit

\* RateLimitExceeded leaves invoke before anything is logged
ToolCheck(b) ==
    /\ pc[b] = "invoke"
    /\ stamps' = [stamps EXCEPT ![RegistryOf(b)] = Recent(@, WindowStart)]
    /\ stampAt' = [stampAt EXCEPT ![b] = now]
    /\ Go(b, IF Full(Recent(Stamps(b), WindowStart)) THEN "collect" ELSE "admitted")
    /\ UNCHANGED <<batch, loop, before, toolCalls, event, agent, callLog, called, now, modelCalls>>

ToolStamp(b) ==
    /\ pc[b] = "admitted"
    /\ stamps' = [stamps EXCEPT ![RegistryOf(b)] = Append(@, stampAt[b])]
    /\ called' = [called EXCEPT ![RegistryOf(b)] = Append(@, stampAt[b])]
    /\ Go(b, "tool running")
    /\ UNCHANGED <<batch, loop, toolCall, event, agent, callLog, now, modelCalls>>

\* The tool succeeds or fails, and is logged either way
ToolLogged(b) ==
    /\ pc[b] = "tool running"
    /\ callLog' = [callLog EXCEPT ![RegistryOf(b)] = Append(@, b)]
    /\ Go(b, "collect")
    /\ UNCHANGED <<batch, loop, toolCall, event, agent, stamps, called, now, modelCalls>>

\* mutant: the slice ends at the first new entry
NewEntriesFirst(b) ==
    IF Len(Log(b)) > before[b] THEN <<Log(b)[before[b] + 1]>> ELSE <<>>

\* call_log[before:]
NewEntries(b) == SubSeq(Log(b), before[b] + 1, Len(Log(b)))

ToolCollect(b) ==
    /\ pc[b] = "collect"
    /\ toolCalls' = [toolCalls EXCEPT ![b] = @ \o NewEntries(b)]
    /\ pending' = [pending EXCEPT ![b] = @ - 1]
    /\ Go(b, AfterTool(b))
    /\ UNCHANGED <<batch, turns, total, before, stampAt, event, agent, registry, now, modelCalls>>

-----------------------------------------------------------------------------
\* The structured answer and the trace event

Final(b) ==
    /\ pc[b] = "final"
    /\ CallModel(b)
    /\ Go(b, "final answered")
    /\ UNCHANGED <<batch, loop, toolCall, event, registry, now>>

FinalAnswered(b) ==
    /\ pc[b] = "final answered"
    /\ Accumulate(b)
    /\ Go(b, "settle")
    /\ UNCHANGED <<batch, turns, pending, toolCall, event, agent, registry, now, modelCalls>>

Succeed(b, success) == event' = [event EXCEPT ![b].success = success]

\* mutant: the usage of the last call is left for that of the loop
SettleLastCall(b) ==
    /\ pc[b] = "settle"
    /\ lastResponse' = [lastResponse EXCEPT ![AgentOf(b)] = b]
    /\ Succeed(b, TRUE)
    /\ Go(b, "trace")
    /\ UNCHANGED <<batch, loop, toolCall, lastUsage, lastPrompt, registry, now, modelCalls>>

Settle(b) ==
    /\ pc[b] = "settle"
    /\ lastUsage' = [lastUsage EXCEPT ![AgentOf(b)] = total[b]]
    /\ lastResponse' = [lastResponse EXCEPT ![AgentOf(b)] = b]
    /\ Succeed(b, TRUE)
    /\ Go(b, "trace")
    /\ UNCHANGED <<batch, loop, toolCall, lastPrompt, registry, now, modelCalls>>

\* A call of the model raises, or its final answer does not parse: a failed
\* result, and no response of its own
Fail(b) ==
    /\ pc[b] \in {"turn", "forced", "final", "settle"}
    /\ lastUsage' = [lastUsage EXCEPT ![AgentOf(b)] = total[b]]
    /\ pending' = [pending EXCEPT ![b] = 0]
    /\ Succeed(b, FALSE)
    /\ Go(b, "trace")
    /\ UNCHANGED <<batch, turns, total, toolCall, lastPrompt, lastResponse, registry, now, modelCalls>>

\* .get(timeout=180) raises, and with it the superstep; the worker goes on
GiveUp(b) ==
    /\ setup.celery
    /\ b \notin late /\ pc[b] # "done"
    /\ pc[b] = "ready" => setup.parallel
    /\ late' = late \union {b}
    /\ UNCHANGED <<setup, pc, loop, toolCall, event, agent, registry, now, modelCalls>>

\* The worker leaves a result behind that nobody reads
TraceLate(b) ==
    /\ pc[b] = "trace" /\ b \in late
    /\ Go(b, "done")
    /\ UNCHANGED <<batch, loop, toolCall, event, agent, registry, now, modelCalls>>

\* run_specialist of graph/build.py, after specialist.run has returned here, or
\* the worker's payload is there
Trace(b) ==
    /\ pc[b] = "trace" /\ b \notin late
    /\ event' = [event EXCEPT ![b].usage = lastUsage[AgentOf(b)],
                              ![b].prompt = lastPrompt[AgentOf(b)],
                              ![b].response = lastResponse[AgentOf(b)]]
    /\ Go(b, "done")
    /\ UNCHANGED <<batch, loop, toolCall, agent, registry, now, modelCalls>>

-----------------------------------------------------------------------------

Tick ==
    /\ now < setup.ticks
    /\ now' = now + 1
    /\ UNCHANGED <<batch, pc, loop, toolCall, event, agent, registry, modelCalls>>

Step(b) ==
    \/ Start(b) \/ Turn(b) \/ TurnAnswered(b) \/ Forced(b) \/ ForcedAnswered(b)
    \/ ToolBefore(b) \/ ToolUnknown(b) \/ ToolMisused(b) \/ ToolCheck(b)
    \/ ToolStamp(b) \/ ToolLogged(b) \/ ToolCollect(b)
    \/ Final(b) \/ FinalAnswered(b) \/ Settle(b) \/ Fail(b) \/ Trace(b) \/ TraceLate(b)

Done == \A b \in Branch : pc[b] = "done"

Next ==
    \/ \E b \in Branch : Step(b) \/ GiveUp(b)
    \/ Tick
    \/ Done /\ UNCHANGED vars

Spec == Init /\ [][Next]_vars

\* Threads of the pool run; calls of models and tools return or raise
FairSpec == Spec /\ \A b \in Branch : WF_vars(Step(b))

-----------------------------------------------------------------------------
\* Properties

Places == {"ready", "turn", "turn answered", "forced", "forced answered", "tool",
           "invoke", "admitted", "tool running", "collect", "final",
           "final answered", "settle", "trace", "done"}
InTool == {"tool", "invoke", "admitted", "tool running", "collect"}

Usage == [Branch -> Nat]

\* Types, and the loop within its limits: the model gets at most
\* _MAX_TOOL_ITERATIONS turns with tools, and is in a tool call exactly while
\* one of its answer is outstanding.
TypeOK ==
    /\ setup \in Setups /\ late \subseteq Branch
    /\ pc \in [Branch -> Places]
    /\ turns \in [Branch -> 0..MaxToolIterations]
    /\ pending \in [Branch -> 0..setup.calls]
    /\ \A b \in Branch : pc[b] \in InTool <=> pending[b] > 0
    /\ total \in [Branch -> Usage]
    /\ before \in [Branch -> Nat] /\ stampAt \in [Branch -> 0..setup.ticks]
    /\ toolCalls \in [Branch -> Seq(Branch)]
    /\ event \in [Branch -> [usage : Usage, prompt : Branch \union {NoBranch},
                             response : Branch \union {NoBranch}, success : BOOLEAN]]
    /\ lastUsage \in [Agent -> Usage]
    /\ lastPrompt \in [Agent -> Branch \union {NoBranch}]
    /\ lastResponse \in [Agent -> Branch \union {NoBranch}]
    /\ callLog \in [Registry -> Seq(Branch)]
    /\ stamps \in [Registry -> Seq(0..setup.ticks)] /\ now \in 0..setup.ticks
    /\ called \in [Registry -> Seq(0..setup.ticks)]
    /\ modelCalls \in Usage

Traced(b) == pc[b] = "done" /\ b \notin late

\* The subtasks that use the agent of b while b runs: b, and with independent
\* subtasks all others of its type (graph/build.py sends them out together and
\* looks the agent up by type)
AtAgentOf(b) == {b} \union {c \in Branch : setup.parallel /\ AgentOf(c) = AgentOf(b)}

\* The tokens a subtask's span reports are those of all its own model calls, the
\* failed ones' loop included, and of no other subtask's, unless another one uses
\* its agent at the same time: agents/base.py says it is not thread-safe, and then
\* nothing is left but that the tokens are of subtasks that share the agent so.
UsageIsOwn ==
    \A b \in Branch : Traced(b) =>
        /\ \A c \in Branch : event[b].usage[c] > 0 => c \in AtAgentOf(b)
        /\ AtAgentOf(b) = {b} => event[b].usage = [None EXCEPT ![b] = modelCalls[b]]

\* A span shows the prompt of its own subtask, and one with an answer the answer of
\* its own, unless another subtask uses the agent at the same time: then of one of
\* those, but never of a subtask that had the agent earlier.
AnswerIsOwn ==
    \A b \in Branch : Traced(b) =>
        /\ event[b].prompt \in AtAgentOf(b)
        /\ event[b].success => event[b].response \in AtAgentOf(b)

MadeBy(b, log) == Cardinality({i \in DOMAIN log : log[i] = b})

\* A result misses none of the tool calls its subtask made, whatever other
\* branches append to the shared log in between, and whether or not it failed.
OwnCallsCollected ==
    \A b \in Branch : pc[b] \notin InTool => MadeBy(b, toolCalls[b]) = MadeBy(b, Log(b))

\* Two branches that may run at once with the same registry
Overlap(b, c) == b # c /\ setup.parallel /\ RegistryOf(b) = RegistryOf(c)

\* Nor has it any call of another subtask, unless two of them share a registry at
\* the same time; an agent does not carry the calls of the one before over.
CallsAreOwn ==
    \A b \in Branch : ~ (\E c \in Branch : Overlap(b, c)) =>
        MadeBy(b, toolCalls[b]) = Len(toolCalls[b])

\* No more calls within a minute than the tool allows, unless two branches pass
\* its check at the same time: the stamps that are popped are of no call that
\* still counts (registry.py:31-37).
RateLimitHolds ==
    \A g \in Registry : ~ (\E b, c \in Branch : RegistryOf(b) = g /\ Overlap(b, c)) =>
        Cardinality({i \in DOMAIN called[g] : called[g][i] >= WindowStart}) <= RateLimit

\* The steps a branch has before it at most: TurnsLeft for the turns it has not
\* begun, with every call of their answers, and what follows the turn it is in
TurnsLeft(b) == (MaxToolIterations - turns[b]) * (2 + 5 * setup.calls)

StepsLeft(b) ==
    CASE pc[b] = "ready"           -> TurnsLeft(b) + 7
      [] pc[b] = "turn"            -> TurnsLeft(b) + 6
      [] pc[b] = "turn answered"   -> TurnsLeft(b) + 7 + 5 * setup.calls
      [] pc[b] = "tool"            -> TurnsLeft(b) + 6 + 5 * pending[b]
      [] pc[b] = "invoke"          -> TurnsLeft(b) + 5 + 5 * pending[b]
      [] pc[b] = "admitted"        -> TurnsLeft(b) + 4 + 5 * pending[b]
      [] pc[b] = "tool running"    -> TurnsLeft(b) + 3 + 5 * pending[b]
      [] pc[b] = "collect"         -> TurnsLeft(b) + 2 + 5 * pending[b]
      [] pc[b] = "forced"          -> 6
      [] pc[b] = "forced answered" -> 5
      [] pc[b] = "final"           -> 4
      [] pc[b] = "final answered"  -> 3
      [] pc[b] = "settle"          -> 2
      [] pc[b] = "trace"           -> 1
      [] pc[b] = "done"            -> 0

\* Each step of a subtask brings it nearer to its result and no step of another
\* takes it away from it, whatever tools the model asks for and however they end:
\* the loop of run() has a bound, and so have its calls of models and tools.
NearsItsEnd ==
    [][\A b \in Branch :
          \/ pc'[b] = pc[b] /\ StepsLeft(b)' = StepsLeft(b)
          \/ StepsLeft(b)' < StepsLeft(b)]_vars

\* Every subtask gets a result, whatever the model keeps asking for, and a worker
\* comes free again also when nobody waits for it any more.
EveryBranchEnds == \A b \in Branch : <>(pc[b] = "done")
=============================================================================
