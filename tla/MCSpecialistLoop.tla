--------------------------- MODULE MCSpecialistLoop ---------------------------
(***************************************************************************)
(* Two subtasks in the ways the graph runs them: one after the other, at   *)
(* the same time in threads for two specialists or for one, in workers.    *)
(***************************************************************************)
EXTENDS SpecialistLoop

CONSTANTS s, t, writer, researcher, shared, own

OneOf(x) == [b \in {s, t} |-> x]
Two(x, y) == [b \in {s, t} |-> IF b = s THEN x ELSE y]

\* One depends on the other and both are for the same specialist
InSequence ==
    [agentOf |-> OneOf(writer), registryOf |-> OneOf(shared), parallel |-> FALSE,
     celery |-> FALSE, ticks |-> 3, calls |-> 2]

\* Independent, for two specialists, in threads of the graph's process
InThreads ==
    [agentOf |-> Two(writer, researcher), registryOf |-> OneOf(shared),
     parallel |-> TRUE, celery |-> FALSE, ticks |-> 0, calls |-> 1]

\* Independent, for the same specialist: the threads share its agent too.  The
\* model asks for no tools here, as a tool call does not touch the agent.
InThreadsOfOne ==
    [agentOf |-> OneOf(writer), registryOf |-> OneOf(shared),
     parallel |-> TRUE, celery |-> FALSE, ticks |-> 0, calls |-> 0]

\* Independent, each in a worker with objects of its own
InWorkers ==
    [agentOf |-> Two(writer, researcher), registryOf |-> Two(shared, own),
     parallel |-> TRUE, celery |-> TRUE, ticks |-> 0, calls |-> 1]

AllSetups == {InSequence, InThreads, InThreadsOfOne, InWorkers}
=============================================================================
