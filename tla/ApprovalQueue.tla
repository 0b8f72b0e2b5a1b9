---------------------------- MODULE ApprovalQueue ----------------------------
(***************************************************************************)
(* The Redis-backed approval queue of human_loop/approval_queue.py, with   *)
(* the runner that submits to it (run.py, run_task) and the reviewers who  *)
(* look, ask and decide through api.py, for one task.                      *)
(*                                                                         *)
(* An action is one Redis round trip.  resolve and append_message read the *)
(* record with hget and write it back whole with hset, submit and resolve  *)
(* touch the hash and the pending set one after the other, and no          *)
(* operation of the queue is a transaction; FastAPI runs its handlers on a *)
(* thread pool, so the sessions and the runner interleave between any two  *)
(* round trips.                                                            *)
(*                                                                         *)
(* A task may escalate several times under the same task_id.  Escalations  *)
(* are numbered, and a decision is abstracted to the number of the         *)
(* escalation its author was looking at.                                   *)
(***************************************************************************)
EXTENDS Naturals, Sequences

CONSTANTS
    Session,   \* reviewers' browsers, each with one request at a time
    Setups     \* who does what, see IsSetup

\* The sessions that use the clarifying-question chat and those that decide; and
\* exploration bounds: interrupts of the task, messages on one record
IsSetup(x) ==
    /\ x.askers \subseteq Session /\ x.deciders \subseteq Session
    /\ x.escalations \in Nat \ {0} /\ x.messages \in Nat

ASSUME SetupsAssumption == \A x \in Setups : IsSetup(x)

VARIABLES
    setup,     \* what its reviewers do with the task
    entry,     \* the task's field of the approvals hash, NoEntry before any
    listed,    \* the task is a member of approvals:pending
    runner,    \* where run_task is
    current,   \* escalations the task has raised
    resumed,   \* the decisions the graph was resumed with, in order
    pc,        \* where each session is
    viewed,    \* the escalation each reviewer has before their eyes
    copy       \* the record each session's handler has read

queue == <<entry, listed>>
running == <<runner, current, resumed>>
sessions == <<pc, viewed, copy>>
vars == <<setup, queue, running, sessions>>

NoDecision == 0
Escalations == 1 .. setup.escalations

Entry == [esc : Escalations,
          status : {"pending", "resolved", "notified"},
          decision : {NoDecision} \union Escalations,
          messages : 0 .. setup.messages]

\* hget of a missing field; no operation removes a field once it is there
NoEntry == [esc |-> 0, status |-> "missing", decision |-> NoDecision, messages |-> 0]

\* mutant: a new escalation keeps the rest of the task's previous record
FreshOverOld(n) ==
    IF entry = NoEntry
    THEN [esc |-> n, status |-> "pending", decision |-> NoDecision, messages |-> 0]
    ELSE [entry EXCEPT !.esc = n]

Fresh(n) == [esc |-> n, status |-> "pending", decision |-> NoDecision, messages |-> 0]

Init ==
    /\ setup \in Setups
    /\ entry = NoEntry
    /\ listed = FALSE
    /\ runner = "executing" /\ current = 0 /\ resumed = <<>>
    /\ pc = [s \in Session |-> "idle"]
    /\ viewed = [s \in Session |-> 0]
    /\ copy = [s \in Session |-> NoEntry]

-----------------------------------------------------------------------------
\* The runner: while "__interrupt__" in result

\* mutant: the set of pending ids is updated and the record never stored
SubmitNoHset ==
    /\ runner = "executing"
    /\ current < setup.escalations
    /\ current' = current + 1
    /\ runner' = "submit_sadd"
    /\ UNCHANGED <<setup, entry, listed, resumed, sessions>>

\* app.invoke returned an interrupt; the first half of submit
SubmitHset ==
    /\ runner = "executing"
    /\ current < setup.escalations
    /\ current' = current + 1
    /\ entry' = Fresh(current + 1)
    /\ runner' = "submit_sadd"
    /\ UNCHANGED <<setup, listed, resumed, sessions>>

\* mutant: submit stores the record and leaves the pending set alone
SubmitWithoutSadd ==
    /\ runner = "submit_sadd"
    /\ runner' = "waiting"
    /\ UNCHANGED <<setup, entry, listed, current, resumed, sessions>>

SubmitSadd ==
    /\ runner = "submit_sadd"
    /\ listed' = TRUE
    /\ runner' = "waiting"
    /\ UNCHANGED <<setup, entry, current, resumed, sessions>>

Decided(e) == e.status = "resolved" /\ e.decision # NoDecision

\* mutant: wait_for_decision gives up after a while and the task goes on
TakeDecisionOrNone ==
    /\ runner = "waiting"
    /\ resumed' = Append(resumed, entry.decision)
    /\ runner' = "executing"
    /\ UNCHANGED <<setup, queue, current, sessions>>

\* A poll of wait_for_decision that finds a decision, and the resume with it
TakeDecision ==
    /\ runner = "waiting"
    /\ Decided(entry)
    /\ resumed' = Append(resumed, entry.decision)
    /\ runner' = "executing"
    /\ UNCHANGED <<setup, queue, current, sessions>>

\* A poll that finds none; with no timeout the loop goes on for ever
PollAgain == runner = "waiting" /\ ~ Decided(entry) /\ UNCHANGED vars

\* app.invoke returned a final state
Complete ==
    /\ runner = "executing"
    /\ runner' = "done"
    /\ UNCHANGED <<setup, queue, current, resumed, sessions>>

\* ... whose last escalation was the reviewer's low-score notice
CompleteNotify ==
    /\ runner = "executing"
    /\ entry' = [Fresh(IF current = 0 THEN 1 ELSE current) EXCEPT !.status = "notified"]
    /\ runner' = "done"
    /\ UNCHANGED <<setup, listed, current, resumed, sessions>>

-----------------------------------------------------------------------------
\* A reviewer's session

Goto(s, from, to) == pc[s] = from /\ pc' = [pc EXCEPT ![s] = to]
ReadCopy(s) == copy' = [copy EXCEPT ![s] = entry]

\* list_pending: the members of the set, then the record of each
ListMembers(s) ==
    /\ pc[s] \in {"idle", "viewing"}
    /\ listed
    /\ pc' = [pc EXCEPT ![s] = "listing"]
    /\ UNCHANGED <<setup, queue, running, viewed, copy>>

ListGet(s) ==
    /\ entry # NoEntry
    /\ Goto(s, "listing", "viewing")
    /\ viewed' = [viewed EXCEPT ![s] = entry.esc]
    /\ UNCHANGED <<setup, queue, running, copy>>

\* decide_approval: get for the 404, which cannot miss here, then resolve
ResolveGet(s) ==
    /\ s \in setup.deciders
    /\ Goto(s, "viewing", "resolve_hset")
    /\ ReadCopy(s)
    /\ UNCHANGED <<setup, queue, running, viewed>>

\* mutant: the decision is stored and the status forgotten
ResolvedStatusKept(e, n) == [e EXCEPT !.decision = n]

\* mutant: resolve builds a new record instead of updating the one it read
ResolvedAnew(e, n) == [Fresh(e.esc) EXCEPT !.decision = n, !.status = "resolved"]

Resolved(e, n) == [e EXCEPT !.decision = n, !.status = "resolved"]

ResolveHset(s) ==
    /\ Goto(s, "resolve_hset", "resolve_srem")
    /\ entry' = Resolved(copy[s], viewed[s])
    /\ UNCHANGED <<setup, listed, running, viewed, copy>>

\* mutant: resolve leaves the task in the pending set
ResolveWithoutSrem(s) ==
    /\ Goto(s, "resolve_srem", "idle")
    /\ UNCHANGED <<setup, queue, running, viewed, copy>>

ResolveSrem(s) ==
    /\ Goto(s, "resolve_srem", "idle")
    /\ listed' = FALSE
    /\ UNCHANGED <<setup, entry, running, viewed, copy>>

\* ask_about_approval: append_message for the question; the clarifier's answer
\* takes a model call; append_message again for the answer
AskGet(s) ==
    /\ s \in setup.askers
    /\ entry.messages + 2 <= setup.messages
    /\ Goto(s, "viewing", "question_hset")
    /\ ReadCopy(s)
    /\ UNCHANGED <<setup, queue, running, viewed>>

WithMessage(e) == [e EXCEPT !.messages = @ + 1]

QuestionHset(s) ==
    /\ Goto(s, "question_hset", "answering")
    /\ entry' = WithMessage(copy[s])
    /\ UNCHANGED <<setup, listed, running, viewed, copy>>

\* Bound: an answer is added to a record that has room for it
AnswerGet(s) ==
    /\ entry.messages < setup.messages
    /\ Goto(s, "answering", "answer_hset")
    /\ ReadCopy(s)
    /\ UNCHANGED <<setup, queue, running, viewed>>

AnswerHset(s) ==
    /\ Goto(s, "answer_hset", "viewing")
    /\ entry' = WithMessage(copy[s])
    /\ UNCHANGED <<setup, listed, running, viewed, copy>>

-----------------------------------------------------------------------------
RunnerStep == SubmitHset \/ SubmitSadd \/ TakeDecision \/ Complete \/ CompleteNotify

\* A request in progress: the handler goes on by itself
Handling(s) ==
    \/ ListGet(s)
    \/ ResolveHset(s) \/ ResolveSrem(s)
    \/ QuestionHset(s) \/ AnswerGet(s) \/ AnswerHset(s)

\* A reviewer starts a request when and if they want to
Requesting(s) == ListMembers(s) \/ ResolveGet(s) \/ AskGet(s)

Finished == runner = "done" /\ UNCHANGED vars

Next ==
    \/ RunnerStep \/ PollAgain
    \/ \E s \in Session : Handling(s) \/ Requesting(s)
    \/ Finished

Spec == Init /\ [][Next]_vars

\* The runner polls for ever and a handler runs to its end; nobody has to look,
\* to ask or to decide.
FairSpec ==
    /\ Spec
    /\ WF_vars(RunnerStep)
    /\ \A s \in Session : WF_vars(Handling(s))

\* An attentive reviewer: a task that stays listed is looked at and decided
Attentive(s) == WF_vars(ListMembers(s) /\ pc[s] = "idle") /\ SF_vars(ResolveGet(s))

-----------------------------------------------------------------------------
\* Properties

Waiting == runner = "waiting"

\* Every variable keeps its type, and the runner only waits on a record that
\* exists and is about an escalation the task did raise.
TypeOK ==
    /\ setup \in Setups
    /\ entry \in Entry \union {NoEntry}
    /\ listed \in BOOLEAN
    /\ runner \in {"executing", "submit_sadd", "waiting", "done"}
    /\ current \in 0 .. setup.escalations
    /\ resumed \in Seq({NoDecision} \union Escalations)
    /\ pc \in [Session -> {"idle", "listing", "viewing", "resolve_hset", "resolve_srem",
                           "question_hset", "answering", "answer_hset"}]
    /\ viewed \in [Session -> 0 .. setup.escalations]
    /\ copy \in [Session -> Entry \union {NoEntry}]
    /\ runner \in {"submit_sadd", "waiting"} => 1 <= entry.esc /\ entry.esc <= current
    /\ \A s \in Session : pc[s] = "viewing" => viewed[s] # 0

\* The graph is resumed from its n-th interrupt with the decision of someone who
\* was looking at that interrupt, never with an earlier one's: submit must wipe
\* the decision that the task's record still carries.
DecisionIsForThisEscalation ==
    \A n \in 1 .. Len(resumed) : resumed[n] = n

\* The transcript of an escalation only grows: what was asked and answered is
\* there for whoever decides.
TranscriptKept ==
    [][entry'.esc = entry.esc /\ entry'.status # "notified"
       => entry'.messages >= entry.messages]_vars

\* A decision made on the escalation the task is paused on resumes it.
DecisionSurvives ==
    \A s \in Session :
        pc[s] = "resolve_srem" /\ Waiting /\ viewed[s] = current
            ~> Len(resumed) >= viewed[s]

\* A task that is over does not stay in the review queue.
DoneIsUnlisted == runner = "done" ~> ~ listed

\* A paused task with no decision is in the pending set, where reviewers look.
WaitingIsListed == Waiting /\ ~ Decided(entry) => listed

\* The first question of a task is answered and the task resumed, as long as its
\* reviewers are attentive: submit puts it where they look, and resolve where the
\* runner polls.  Of a later one only WaitingIsListed can be asked: the srem of
\* the decision before may still be on its way.
FirstEscalationIsAnswered ==
    (\A s \in Session : Attentive(s)) => (Waiting /\ current = 1 ~> ~ Waiting)

\* Questions with a decision of their own: those that were, and the open one
DecidedQuestions ==
    Len(resumed) + (IF Waiting /\ Decided(entry) /\ entry.decision = current THEN 1 ELSE 0)

Promise == INSTANCE Handover
               WITH asked <- current, decided <- DecidedQuestions,
                    used <- Len(resumed), over <- runner = "done"

\* The record, the pending set and the polling together hand every question over
\* and every decision back, in their order (submit, resolve, wait_for_decision).
RefinesHandover == Promise!Spec
=============================================================================
