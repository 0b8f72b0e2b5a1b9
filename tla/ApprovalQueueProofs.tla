------------------------- MODULE ApprovalQueueProofs -------------------------
(***************************************************************************)
(* The approval queue for any number of sessions, escalations and          *)
(* messages.  Types hold whatever the sessions do.  That decisions and     *)
(* transcripts reach their question is proved where it is true: as long as *)
(* one session at most writes to the task's record (Sole), or the task     *)
(* escalates once and nobody chats (Single).                               *)
(***************************************************************************)
EXTENDS ApprovalQueue, SequenceTheorems, TLAPS

\* What the sessions of a setup are for, and when they stay out of each other's way
OneWriter(x) == \A c, d \in x.askers \union x.deciders : c = d
Orderly(x) == OneWriter(x) \/ (x.escalations = 1 /\ x.askers = {})
Writers == setup.askers \union setup.deciders

Asking == {"question_hset", "answering", "answer_hset"}
Holding == {"resolve_hset", "question_hset", "answer_hset"}
Viewing == {"viewing", "resolve_hset"} \union Asking
Paused == runner \in {"submit_sadd", "waiting"}

\* A handler works on a record it has seen, with room for its message
HandlerTyped(s) ==
    /\ pc[s] \in Viewing => viewed[s] # 0 /\ entry # NoEntry
    /\ pc[s] \in Holding => copy[s] # NoEntry
    /\ pc[s] = "question_hset" => copy[s].messages + 2 <= setup.messages
    /\ pc[s] = "answer_hset" => copy[s].messages + 1 <= setup.messages
    /\ pc[s] \in {"resolve_hset", "resolve_srem"} => s \in setup.deciders
    /\ pc[s] \in Asking => s \in setup.askers

\* Until the end nothing is known of escalations to come, and the graph was
\* resumed from all those before the one it is paused on
Counted ==
    /\ runner # "done" => entry.esc <= current /\ \A s \in Session : copy[s].esc <= current
    /\ current = Len(resumed) + (IF Paused THEN 1 ELSE 0)

Typed == TypeOK /\ Counted /\ \A s \in Session : HandlerTyped(s)

\* The only session that writes: while it looks at a question, the question is
\* open and the record does not change under its hands
WriterSees(w) ==
    /\ pc[w] \notin {"idle", "resolve_srem"} => runner = "waiting" /\ entry.decision = NoDecision
    /\ pc[w] \in Viewing => viewed[w] = current
    /\ pc[w] \in Holding => copy[w] = entry

\* What is listed is open, but for the moment between a decision and its srem
Sole ==
    /\ listed => \/ runner = "waiting" /\ entry.decision = NoDecision
                 \/ \E w \in Writers : pc[w] = "resolve_srem"
    /\ \A w \in Writers : WriterSees(w)
    /\ runner = "submit_sadd" => entry.decision = NoDecision
    /\ Paused => entry.esc = current /\ entry.decision \in {NoDecision, current}

\* The only escalation: no session does anything before it is listed
Single ==
    /\ entry.messages = 0 /\ \A s \in Session : copy[s].messages = 0
    /\ current = 0 \/ runner = "submit_sadd" =>
           /\ ~ listed /\ entry.decision = NoDecision
           /\ \A s \in Session : pc[s] = "idle"

InOrder ==
    \/ OneWriter(setup) /\ Sole
    \/ setup.escalations = 1 /\ setup.askers = {} /\ Single

-----------------------------------------------------------------------------
USE DEF queue, running, sessions, NoDecision

\* The record's type is that of the setup, which never changes
LEMMA SetupShape ==
  ASSUME TypeOK
  PROVE  /\ setup.askers \subseteq Session /\ setup.deciders \subseteq Session
         /\ setup.escalations \in Nat \ {0} /\ setup.messages \in Nat
  BY SetupsAssumption DEF TypeOK, IsSetup

LEMMA SetupKept == [Next]_vars => UNCHANGED <<setup, Entry, Escalations>>
<1> SUFFICES ASSUME [Next]_vars PROVE setup' = setup
  BY DEF Entry, Escalations
<1> QED
  BY DEF Next, RunnerStep, PollAgain, Handling, Requesting, Finished, SubmitHset, SubmitSadd,
     TakeDecision, Complete, CompleteNotify, ListMembers, ListGet, ResolveGet, ResolveHset,
     ResolveSrem, AskGet, QuestionHset, AnswerGet, AnswerHset, vars

LEMMA NoEntryShape ==
  /\ NoEntry.esc = 0 /\ NoEntry.messages = 0 /\ NoEntry.decision = 0
  /\ NoEntry \notin Entry
  BY DEF NoEntry, Entry, Escalations

LEMMA RecordShape ==
  ASSUME TypeOK, NEW e \in Entry \union {NoEntry}
  PROVE  e.esc \in Nat /\ e.messages \in Nat /\ e.decision \in {0} \union Escalations
  BY SetupShape, NoEntryShape DEF Entry, Escalations

LEMMA FreshType ==
  ASSUME TypeOK, NEW n \in Escalations
  PROVE  /\ Fresh(n) \in Entry
         /\ Fresh(n).esc = n /\ Fresh(n).decision = 0 /\ Fresh(n).messages = 0
  BY SetupShape DEF Fresh, Entry

LEMMA ResolvedType ==
  ASSUME NEW e \in Entry, NEW n \in Escalations
  PROVE  /\ Resolved(e, n) \in Entry
         /\ Resolved(e, n).esc = e.esc /\ Resolved(e, n).messages = e.messages
         /\ Resolved(e, n).decision = n /\ Resolved(e, n).status = "resolved"
  BY DEF Resolved, Entry

LEMMA WithMessageType ==
  ASSUME TypeOK, NEW e \in Entry, e.messages + 1 <= setup.messages
  PROVE  /\ WithMessage(e) \in Entry
         /\ WithMessage(e).esc = e.esc /\ WithMessage(e).messages = e.messages + 1
         /\ WithMessage(e).decision = e.decision /\ WithMessage(e).status = e.status
  BY SetupShape DEF WithMessage, Entry

LEMMA InitTyped == Init => Typed
<1> SUFFICES ASSUME Init PROVE Typed
  OBVIOUS
<1>1. setup.escalations \in Nat \ {0} /\ setup \in Setups
  BY SetupsAssumption DEF Init, IsSetup
<1>2. TypeOK
  <2>1. resumed \in Seq({NoDecision} \union Escalations)
    BY DEF Init
  <2>2. runner = "executing" /\ \A s \in Session : pc[s] = "idle"
    BY DEF Init
  <2>3. setup \in Setups /\ entry \in Entry \union {NoEntry} /\ listed \in BOOLEAN
    BY <1>1 DEF Init
  <2>4. /\ pc \in [Session -> {"idle", "listing", "viewing", "resolve_hset", "resolve_srem",
                               "question_hset", "answering", "answer_hset"}]
        /\ viewed \in [Session -> 0 .. setup.escalations]
        /\ copy \in [Session -> Entry \union {NoEntry}]
    BY <1>1 DEF Init
  <2>5. current \in 0 .. setup.escalations
    BY <1>1 DEF Init
  <2> QED
    BY <2>1, <2>2, <2>3, <2>4, <2>5 DEF TypeOK
<1>3. Counted
  BY NoEntryShape DEF Init, Counted, Paused
<1>4. \A s \in Session : HandlerTyped(s)
  BY DEF Init, HandlerTyped, Asking, Viewing, Holding
<1> QED
  BY <1>2, <1>3, <1>4 DEF Typed

\* A step of the runner keeps what the sessions know
LEMMA RunnerTyped == Typed /\ RunnerStep => Typed'
<1> SUFFICES ASSUME Typed, RunnerStep PROVE Typed'
  OBVIOUS
<1>s. setup' = setup /\ Entry' = Entry /\ Escalations' = Escalations
  BY SetupKept DEF Next
<1>t. /\ setup.escalations \in Nat \ {0} /\ setup.messages \in Nat /\ current \in Nat
      /\ Len(resumed) \in Nat /\ NoEntry \notin Entry
  BY SetupShape, NoEntryShape DEF Typed, TypeOK
<1>c. \A s \in Session : copy[s].esc \in Nat
  BY RecordShape DEF Typed, TypeOK
<1> USE DEF Typed, TypeOK, Counted, HandlerTyped, Paused
<1>1. CASE SubmitHset
  <2>1. current + 1 \in Escalations
    BY <1>1, <1>t DEF SubmitHset, Escalations
  <2>2. entry' \in Entry /\ entry'.esc = current + 1
    BY <1>1, <2>1, FreshType DEF SubmitHset
  <2>3. entry' # NoEntry /\ current' \in 0 .. setup.escalations /\ entry'.esc = current'
    BY <1>1, <1>t, <2>1, <2>2 DEF SubmitHset, Escalations
  <2>4. TypeOK'
    BY <1>1, <1>s, <1>t, <2>2, <2>3 DEF SubmitHset
  <2>5. Counted'
    BY <1>1, <1>t, <1>c, <2>3 DEF SubmitHset
  <2>6. ASSUME NEW s \in Session PROVE HandlerTyped(s)'
    BY <1>1, <1>s, <2>3 DEF SubmitHset
  <2> QED
    BY <2>4, <2>5, <2>6
<1>2. CASE SubmitSadd
  BY <1>2, <1>s, <1>t DEF SubmitSadd
<1>3. CASE TakeDecision
  <2>1. entry.decision \in {0} \union Escalations
    BY <1>3, NoEntryShape DEF TakeDecision, Entry
  <2>2. /\ resumed' \in Seq({0} \union Escalations)
        /\ Len(resumed') = Len(resumed) + 1
    BY <1>3, <2>1, AppendProperties DEF TakeDecision
  <2> QED
    BY <1>3, <1>s, <1>t, <2>2 DEF TakeDecision
<1>4. CASE Complete
  BY <1>4, <1>s, <1>t DEF Complete
<1>5. CASE CompleteNotify
  <2> DEFINE n == IF current = 0 THEN 1 ELSE current
  <2>1. n \in Escalations
    BY <1>t DEF Escalations
  <2>2. entry' \in Entry
    BY <1>5, <2>1, FreshType DEF CompleteNotify, Entry
  <2> QED
    BY <1>5, <1>s, <1>t, <2>2 DEF CompleteNotify
<1> QED
  BY <1>1, <1>2, <1>3, <1>4, <1>5 DEF RunnerStep

\* A round trip of a session
LEMMA SessionTyped ==
  ASSUME Typed, NEW s \in Session, Handling(s) \/ Requesting(s)
  PROVE  Typed'
<1>s. setup' = setup /\ Entry' = Entry /\ Escalations' = Escalations
  BY SetupKept DEF Next
<1>t. /\ setup.escalations \in Nat \ {0} /\ setup.messages \in Nat /\ current \in Nat
      /\ NoEntry \notin Entry
      /\ entry \in Entry \union {NoEntry} /\ copy[s] \in Entry \union {NoEntry}
      /\ viewed[s] \in 0 .. setup.escalations
  BY SetupShape, NoEntryShape DEF Typed, TypeOK
<1>e. entry.esc \in 0 .. setup.escalations /\ (entry # NoEntry => entry.esc # 0)
  BY <1>t, NoEntryShape DEF Entry, Escalations
<1>p. entry # NoEntry => entry \in Entry /\ entry.messages \in Nat
  BY <1>t, RecordShape DEF Typed
<1> USE DEF Typed, TypeOK, Counted, HandlerTyped, Paused, Goto, ReadCopy,
            Asking, Viewing, Holding
<1>1. CASE ListMembers(s)
  BY <1>1, <1>s, <1>t DEF ListMembers
<1>2. CASE ListGet(s)
  BY <1>2, <1>s, <1>t, <1>e DEF ListGet
<1>3. CASE ResolveGet(s) \/ AskGet(s)
  BY <1>3, <1>s, <1>t, <1>p DEF ResolveGet, AskGet
<1>4. CASE AnswerGet(s)
  BY <1>4, <1>s, <1>t, <1>p DEF AnswerGet
<1>5. CASE ResolveHset(s)
  <2>1. copy[s] \in Entry /\ viewed[s] \in Escalations
    BY <1>5, <1>t DEF ResolveHset, Escalations
  <2>2. entry' \in Entry /\ entry'.esc = copy[s].esc
    BY <1>5, <2>1, ResolvedType DEF ResolveHset
  <2> QED
    BY <1>5, <1>s, <1>t, <2>1, <2>2 DEF ResolveHset, Entry, Escalations
<1>6. CASE QuestionHset(s) \/ AnswerHset(s)
  <2>1. copy[s] \in Entry /\ copy[s].messages \in Nat /\ copy[s].messages + 1 <= setup.messages
    BY <1>6, <1>t, RecordShape DEF QuestionHset, AnswerHset
  <2>2. entry' \in Entry /\ entry'.esc = copy[s].esc
    BY <1>6, <2>1, WithMessageType DEF QuestionHset, AnswerHset
  <2>3. 1 <= copy[s].esc
    BY <2>1, <1>t DEF Entry, Escalations
  <2> QED
    BY <1>6, <1>s, <1>t, <2>2, <2>3 DEF QuestionHset, AnswerHset
<1>7. CASE ResolveSrem(s)
  BY <1>7, <1>s, <1>t DEF ResolveSrem
<1> QED
  BY <1>1, <1>2, <1>3, <1>4, <1>5, <1>6, <1>7 DEF Handling, Requesting

LEMMA StepTyped == Typed /\ [Next]_vars => Typed'
<1>1. Typed /\ UNCHANGED vars => Typed'
  BY DEF vars, Typed, TypeOK, Counted, HandlerTyped, Entry, Escalations, Paused
<1> QED
  BY <1>1, RunnerTyped, SessionTyped DEF Next, PollAgain, Finished

\* Every variable keeps its type: there is room for every message, and the runner
\* waits on a record that exists and is about an escalation the task did raise.
THEOREM TypeCorrect == Spec => []TypeOK
<1>1. Typed => TypeOK
  BY DEF Typed
<1> QED
  BY <1>1, InitTyped, StepTyped, PTL DEF Spec

-----------------------------------------------------------------------------
LEMMA InitInOrder ==
  ASSUME \A x \in Setups : Orderly(x)
  PROVE  Init => InOrder
<1> SUFFICES ASSUME Init PROVE InOrder
  OBVIOUS
<1>1. Orderly(setup) /\ Writers \subseteq Session
  BY InitTyped, SetupShape DEF Init, Typed, Writers
<1>2. Sole
  BY <1>1 DEF Init, Sole, WriterSees, Paused, Viewing, Holding, Asking
<1>3. Single
  BY NoEntryShape DEF Init, Single
<1> QED
  BY <1>1, <1>2, <1>3 DEF InOrder, Orderly

\* Only a writer gets past viewing
LEMMA WritersOnly ==
  ASSUME Typed, NEW s \in Session, pc[s] \notin {"idle", "listing", "viewing"}
  PROVE  s \in Writers
  BY DEF Typed, TypeOK, HandlerTyped, Writers, Asking

LEMMA RunnerSole == Typed /\ Sole /\ RunnerStep => Sole'
<1> SUFFICES ASSUME Typed, Sole, RunnerStep PROVE Sole'
  OBVIOUS
<1>t. current \in Nat /\ Writers' = Writers /\ pc' = pc /\ viewed' = viewed /\ copy' = copy
  BY SetupShape, SetupKept
     DEF Typed, TypeOK, Next, Writers, RunnerStep, SubmitHset, SubmitSadd, TakeDecision,
         Complete, CompleteNotify
<1> USE DEF Sole, WriterSees, Paused
\* An open question stays open, so the runner only moves while no writer looks
<1>1. CASE SubmitHset
  <2>1. current + 1 \in Escalations
    BY <1>1, <1>t, SetupShape DEF SubmitHset, Escalations, Typed, TypeOK
  <2>2. entry'.esc = current + 1 /\ entry'.decision = 0
    BY <1>1, <2>1, FreshType DEF SubmitHset, Typed
  <2> QED
    BY <1>1, <1>t, <2>2 DEF SubmitHset, Viewing, Holding, Asking
<1>2. CASE SubmitSadd
  BY <1>2, <1>t DEF SubmitSadd, Viewing, Holding, Asking
<1>3. CASE TakeDecision
  BY <1>3, <1>t DEF TakeDecision, Decided, Viewing, Holding, Asking
<1>4. CASE Complete \/ CompleteNotify
  BY <1>4, <1>t DEF Complete, CompleteNotify, Viewing, Holding, Asking
<1> QED
  BY <1>1, <1>2, <1>3, <1>4 DEF RunnerStep

LEMMA SessionSole ==
  ASSUME Typed, Sole, OneWriter(setup), NEW s \in Session, Handling(s) \/ Requesting(s)
  PROVE  Sole'
<1>t. /\ setup' = setup /\ Writers' = Writers /\ Writers \subseteq Session
      /\ current \in Nat /\ UNCHANGED <<runner, current>>
      /\ DOMAIN pc = Session /\ DOMAIN viewed = Session /\ DOMAIN copy = Session
  <2>1. setup' = setup
    BY SetupKept DEF Next
  <2>2. UNCHANGED <<runner, current>>
    BY DEF Handling, Requesting, ListMembers, ListGet, ResolveGet, ResolveHset, ResolveSrem,
       AskGet, QuestionHset, AnswerGet, AnswerHset
  <2> QED
    BY <2>1, <2>2, SetupShape DEF Typed, TypeOK, Writers
<1>w. \A w \in Writers : s \in Writers => w = s
  BY DEF OneWriter, Writers
<1>n. s \in Writers \/ pc[s] \in {"idle", "listing", "viewing"}
  BY WritersOnly
<1> USE DEF Sole, WriterSees, Paused, Goto, ReadCopy, Viewing, Holding, Asking
\* A writer finds the task listed only while its question is open
<1>1. CASE ListMembers(s)
  <2>1. s \in Writers => runner = "waiting" /\ entry.decision = NoDecision
    BY <1>1, <1>w DEF ListMembers
  <2> QED
    BY <1>1, <1>t, <1>w, <2>1 DEF ListMembers
<1>2. CASE ListGet(s)
  BY <1>2, <1>t, <1>w DEF ListGet
<1>3. CASE ResolveGet(s) \/ AskGet(s) \/ AnswerGet(s)
  BY <1>3, <1>t, <1>w DEF ResolveGet, AskGet, AnswerGet
<1>4. CASE ResolveHset(s)
  <2>1. s \in Writers /\ runner = "waiting" /\ viewed[s] = current /\ copy[s] = entry
    BY <1>4, <1>n DEF ResolveHset
  <2>2. entry \in Entry /\ viewed[s] \in Escalations
    BY <1>4, <2>1 DEF ResolveHset, Typed, TypeOK, HandlerTyped, Escalations
  <2>3. entry'.esc = current /\ entry'.decision = current
    BY <1>4, <2>1, <2>2, ResolvedType DEF ResolveHset
  <2> QED
    BY <1>4, <1>t, <1>w, <2>1, <2>3 DEF ResolveHset
<1>5. CASE QuestionHset(s) \/ AnswerHset(s)
  <2>1. s \in Writers /\ runner = "waiting" /\ viewed[s] = current /\ copy[s] = entry
    BY <1>5, <1>n DEF QuestionHset, AnswerHset
  <2>2. entry \in Entry /\ entry.messages \in Nat /\ entry.messages + 1 <= setup.messages
    BY <1>5, <2>1, RecordShape, SetupShape
       DEF QuestionHset, AnswerHset, Typed, TypeOK, HandlerTyped
  <2>3. entry'.esc = entry.esc /\ entry'.decision = entry.decision
    BY <1>5, <2>1, <2>2, WithMessageType DEF QuestionHset, AnswerHset, Typed
  <2> QED
    BY <1>5, <1>t, <1>w, <2>1, <2>3 DEF QuestionHset, AnswerHset
<1>6. CASE ResolveSrem(s)
  BY <1>6, <1>t, <1>w DEF ResolveSrem
<1> QED
  BY <1>1, <1>2, <1>3, <1>4, <1>5, <1>6 DEF Handling, Requesting

LEMMA RunnerSingle == Typed /\ setup.escalations = 1 /\ Single /\ RunnerStep => Single'
<1> SUFFICES ASSUME Typed, setup.escalations = 1, Single, RunnerStep PROVE Single'
  OBVIOUS
<1>t. /\ current \in {0, 1} /\ (Paused => current = 1) /\ 1 \in Escalations
      /\ TypeOK
  BY DEF Typed, TypeOK, Counted, Escalations
<1> USE DEF Single, Paused
<1>1. CASE SubmitHset
  BY <1>1, <1>t, FreshType DEF SubmitHset
<1>2. CASE SubmitSadd \/ TakeDecision \/ Complete
  BY <1>2, <1>t DEF SubmitSadd, TakeDecision, Complete
<1>3. CASE CompleteNotify
  <2>1. entry' = [Fresh(1) EXCEPT !.status = "notified"]
    BY <1>3, <1>t DEF CompleteNotify
  <2>2. entry'.decision = 0 /\ entry'.messages = 0
    BY <2>1 DEF Fresh
  <2> QED
    BY <1>3, <2>2 DEF CompleteNotify
<1> QED
  BY <1>1, <1>2, <1>3 DEF RunnerStep

LEMMA SessionSingle ==
  ASSUME Typed, setup.askers = {}, Single, NEW s \in Session, Handling(s) \/ Requesting(s)
  PROVE  Single'
<1> USE DEF Single, Goto, ReadCopy
<1>1. CASE ListMembers(s) \/ ListGet(s) \/ ResolveSrem(s)
  BY <1>1 DEF ListMembers, ListGet, ResolveSrem
<1>2. CASE ResolveGet(s)
  BY <1>2 DEF ResolveGet
<1>3. CASE ResolveHset(s)
  <2>1. copy[s] \in Entry /\ viewed[s] \in Escalations
    BY <1>3 DEF ResolveHset, Typed, TypeOK, HandlerTyped, Holding, Viewing, Escalations
  <2>2. entry'.messages = 0
    BY <1>3, <2>1, ResolvedType DEF ResolveHset
  <2> QED
    BY <1>3, <2>2 DEF ResolveHset
<1>4. CASE AskGet(s) \/ QuestionHset(s) \/ AnswerGet(s) \/ AnswerHset(s)
  BY <1>4 DEF AskGet, QuestionHset, AnswerGet, AnswerHset, Typed, HandlerTyped, Asking
<1> QED
  BY <1>1, <1>2, <1>3, <1>4 DEF Handling, Requesting

LEMMA StepInOrder == Typed /\ InOrder /\ [Next]_vars => InOrder'
<1> SUFFICES ASSUME Typed, InOrder, [Next]_vars PROVE InOrder'
  OBVIOUS
<1>1. OneWriter(setup)' = OneWriter(setup) /\ setup' = setup
  BY SetupKept DEF OneWriter
<1>2. UNCHANGED vars => (Sole' <=> Sole) /\ (Single' <=> Single)
  BY DEF vars, Sole, Single, WriterSees, Paused, Writers
<1>3. CASE OneWriter(setup) /\ Sole
  BY <1>1, <1>2, <1>3, RunnerSole, SessionSole DEF InOrder, Next, PollAgain, Finished
<1>4. CASE setup.escalations = 1 /\ setup.askers = {} /\ Single
  BY <1>1, <1>2, <1>4, RunnerSingle, SessionSingle DEF InOrder, Next, PollAgain, Finished
<1> QED
  BY <1>3, <1>4 DEF InOrder

LEMMA OrderInvariant ==
  ASSUME \A x \in Setups : Orderly(x)
  PROVE  Spec => [](Typed /\ InOrder)
  BY InitTyped, StepTyped, InitInOrder, StepInOrder, PTL DEF Spec

\* What the runner finds decided is decided about the question it asked
LEMMA DecisionIsCurrent ==
  ASSUME Typed, InOrder, runner = "waiting", entry.decision # NoDecision
  PROVE  entry.decision = current
<1>1. CASE Sole
  BY <1>1 DEF Sole, Paused
<1>2. CASE setup.escalations = 1
  <2>1. entry.decision \in {0, 1} /\ current \in {0, 1} /\ current # 0
    BY <1>2, RecordShape DEF Typed, TypeOK, Counted, Paused, Escalations
  <2> QED
    BY <2>1
<1> QED
  BY <1>1, <1>2 DEF InOrder

LEMMA InitDecisions == Init => DecisionIsForThisEscalation
  BY DEF Init, DecisionIsForThisEscalation

LEMMA StepDecisions ==
  Typed /\ InOrder /\ DecisionIsForThisEscalation /\ [Next]_vars => DecisionIsForThisEscalation'
<1> SUFFICES ASSUME Typed, InOrder, DecisionIsForThisEscalation, [Next]_vars
             PROVE  DecisionIsForThisEscalation'
  OBVIOUS
<1> USE DEF DecisionIsForThisEscalation
<1>1. CASE TakeDecision
  <2>1. entry.decision = current /\ current = Len(resumed) + 1
    BY <1>1, DecisionIsCurrent DEF TakeDecision, Decided, Typed, Counted, Paused
  <2>2. /\ resumed \in Seq({0} \union Escalations) /\ Len(resumed) \in Nat
        /\ entry.decision \in {0} \union Escalations
    BY RecordShape DEF Typed, TypeOK
  <2>3. /\ Len(resumed') = Len(resumed) + 1
        /\ \A n \in 1 .. Len(resumed) : resumed'[n] = resumed[n]
        /\ resumed'[Len(resumed) + 1] = entry.decision
    BY <1>1, <2>2, AppendProperties DEF TakeDecision
  <2> QED
    BY <2>1, <2>2, <2>3
<1>2. resumed' = resumed \/ TakeDecision
  BY DEF Next, RunnerStep, PollAgain, Handling, Requesting, Finished, SubmitHset, SubmitSadd,
     Complete, CompleteNotify, ListMembers, ListGet, ResolveGet, ResolveHset,
     ResolveSrem, AskGet, QuestionHset, AnswerGet, AnswerHset, vars
<1> QED
  BY <1>1, <1>2

\* However often a task escalates under its one id, each interrupt is resumed with a
\* decision on that very question, although no operation of the queue is a
\* transaction: a question that somebody looks at is open and stays so.
THEOREM DecisionIsForThisEscalationAlways ==
  ASSUME \A x \in Setups : Orderly(x)
  PROVE  Spec => []DecisionIsForThisEscalation
  BY OrderInvariant, InitDecisions, StepDecisions, PTL DEF Spec

-----------------------------------------------------------------------------
\* A record is written by the runner, with a question or a notice, or by a session
\* that holds what it read; in order, a session's write is about that same record
LEMMA SessionWrites ==
  ASSUME Typed, InOrder, NEW s \in Session,
         ResolveHset(s) \/ QuestionHset(s) \/ AnswerHset(s)
  PROVE  /\ entry'.messages >= entry.messages
         /\ \/ entry'.decision = entry.decision /\ entry'.status = entry.status
            \/ entry'.decision = viewed[s] /\ Decided(entry')
         /\ runner = "waiting" => viewed[s] = current
<1> USE DEF Goto
<1>t. /\ TypeOK /\ setup.escalations \in Nat \ {0} /\ setup.messages \in Nat
      /\ s \in Writers /\ viewed[s] \in Escalations
      /\ copy[s] \in Entry /\ copy[s].messages \in Nat /\ entry.messages \in Nat
  <2>1. s \in Writers
    BY WritersOnly DEF ResolveHset, QuestionHset, AnswerHset
  <2>2. TypeOK /\ copy[s] \in Entry /\ viewed[s] \in Escalations
    BY DEF ResolveHset, QuestionHset, AnswerHset, Typed, TypeOK, HandlerTyped, Viewing, Holding,
           Asking, Escalations
  <2>3. entry \in Entry \union {NoEntry}
    BY <2>2 DEF TypeOK
  <2> QED
    BY <2>1, <2>2, <2>3, SetupShape, RecordShape
<1>1. ResolveHset(s) => /\ entry'.messages = copy[s].messages
                        /\ entry'.decision = viewed[s] /\ entry'.status = "resolved"
  BY <1>t, ResolvedType DEF ResolveHset
<1>2. QuestionHset(s) \/ AnswerHset(s) => /\ entry'.messages = copy[s].messages + 1
                                          /\ entry'.decision = copy[s].decision
                                          /\ entry'.status = copy[s].status
  <2>1. QuestionHset(s) \/ AnswerHset(s) => copy[s].messages + 1 <= setup.messages
    BY <1>t DEF QuestionHset, AnswerHset, Typed, HandlerTyped
  <2> QED
    BY <1>t, <2>1, WithMessageType DEF QuestionHset, AnswerHset
<1>3. viewed[s] # NoDecision
  BY <1>t DEF Escalations
<1>4. CASE Sole
  <2>1. copy[s] = entry /\ viewed[s] = current
    BY <1>4, <1>t DEF ResolveHset, QuestionHset, AnswerHset, Sole, WriterSees, Viewing, Holding,
                      Asking
  <2> QED
    BY <1>t, <1>1, <1>2, <1>3, <2>1 DEF Decided
<1>5. CASE setup.escalations = 1 /\ setup.askers = {} /\ Single
  <2>1. ResolveHset(s)
    BY <1>5 DEF QuestionHset, AnswerHset, Typed, HandlerTyped, Asking
  <2>2. entry.messages = 0 /\ copy[s].messages = 0 /\ viewed[s] = 1
    BY <1>5, <1>t DEF Single, Escalations
  <2>3. runner = "waiting" => current = 1
    BY <1>5 DEF Typed, TypeOK, Counted, Paused
  <2> QED
    BY <1>1, <1>3, <2>1, <2>2, <2>3 DEF Decided
<1> QED
  BY <1>4, <1>5 DEF InOrder

MessagesStay ==
    entry'.esc = entry.esc /\ entry'.status # "notified" => entry'.messages >= entry.messages

LEMMA StepKeepsMessages == Typed /\ InOrder /\ [Next]_vars => MessagesStay
<1> SUFFICES ASSUME Typed, InOrder, [Next]_vars PROVE MessagesStay
  OBVIOUS
<1> USE DEF MessagesStay
<1>1. CASE SubmitHset
  <2>1. entry.esc <= current /\ entry.esc \in Nat /\ current \in Nat
    BY <1>1, SetupShape, RecordShape DEF SubmitHset, Typed, TypeOK, Counted
  <2>2. entry'.esc = current + 1
    BY <1>1 DEF SubmitHset, Fresh
  <2> QED
    BY <2>1, <2>2
<1>2. CASE CompleteNotify
  BY <1>2 DEF CompleteNotify, Fresh
<1>3. ASSUME NEW s \in Session, ResolveHset(s) \/ QuestionHset(s) \/ AnswerHset(s)
      PROVE  MessagesStay
  BY <1>3, SessionWrites
<1>4. CASE entry' = entry
  <2>1. entry.messages \in Nat
    BY RecordShape DEF Typed, TypeOK
  <2> QED
    BY <1>4, <2>1
<1>5. \/ SubmitHset \/ CompleteNotify \/ entry' = entry
      \/ \E s \in Session : ResolveHset(s) \/ QuestionHset(s) \/ AnswerHset(s)
  BY DEF Next, RunnerStep, PollAgain, Handling, Requesting, Finished, SubmitSadd, TakeDecision,
     Complete, ListMembers, ListGet, ResolveGet, ResolveSrem, AskGet, AnswerGet, vars
<1> QED
  BY <1>1, <1>2, <1>3, <1>4, <1>5

\* Of what was asked and answered about a question nothing is lost, although every
\* message and the decision rewrite the whole record from a copy.
THEOREM TranscriptKeptAlways ==
  ASSUME \A x \in Setups : Orderly(x)
  PROVE  Spec => TranscriptKept
<1>1. Typed /\ InOrder /\ [Next]_vars => [MessagesStay]_vars
  BY StepKeepsMessages
<1> QED
  BY <1>1, OrderInvariant, PTL DEF Spec, TranscriptKept, MessagesStay

-----------------------------------------------------------------------------
LEMMA InitHandsOver == Init => Promise!Init
  BY DEF Init, Promise!Init, DecidedQuestions, Waiting

\* A step of the runner asks, uses a decision, ends, or is none of the reviewers' business
LEMMA RunnerHandsOver ==
  Typed /\ InOrder /\ RunnerStep => [Promise!Next]_(Promise!vars)
<1> SUFFICES ASSUME Typed, InOrder, RunnerStep PROVE [Promise!Next]_(Promise!vars)
  OBVIOUS
<1>t. /\ current \in Nat /\ Len(resumed) \in Nat
      /\ current = Len(resumed) + (IF Paused THEN 1 ELSE 0)
  BY SetupShape DEF Typed, TypeOK, Counted
<1> USE DEF Promise!vars, Promise!Next, DecidedQuestions, Waiting, Paused
<1>1. CASE SubmitHset
  BY <1>1, <1>t DEF SubmitHset, Promise!Ask
<1>2. CASE SubmitSadd
  <2>1. entry.decision = NoDecision
    BY <1>2 DEF SubmitSadd, InOrder, Sole, Single
  <2> QED
    BY <1>2, <2>1 DEF SubmitSadd, Decided
<1>3. CASE TakeDecision
  <2>1. entry.decision = current
    BY <1>3, DecisionIsCurrent DEF TakeDecision, Decided
  <2>2. Len(resumed') = Len(resumed) + 1
    BY <1>3, RecordShape, AppendProperties DEF TakeDecision, Typed, TypeOK
  <2> QED
    BY <1>3, <1>t, <2>1, <2>2 DEF TakeDecision, Promise!Use
<1>4. CASE Complete \/ CompleteNotify
  BY <1>4, <1>t DEF Complete, CompleteNotify, Promise!End
<1> QED
  BY <1>1, <1>2, <1>3, <1>4 DEF RunnerStep

LEMMA SessionHandsOver ==
  ASSUME Typed, InOrder, NEW s \in Session, Handling(s) \/ Requesting(s)
  PROVE  [Promise!Next]_(Promise!vars)
<1>t. current \in Nat /\ Len(resumed) \in Nat
      /\ current = Len(resumed) + (IF Paused THEN 1 ELSE 0)
  BY SetupShape DEF Typed, TypeOK, Counted
<1>r. UNCHANGED <<runner, current, resumed>>
  BY DEF Handling, Requesting, ListMembers, ListGet, ResolveGet, ResolveHset, ResolveSrem,
     AskGet, QuestionHset, AnswerGet, AnswerHset
<1>1. CASE entry' = entry
  BY <1>1, <1>r DEF Promise!vars, DecidedQuestions, Waiting, Decided
\* On an open question the decision is made; on one that is closed nothing changes
<1>2. CASE ResolveHset(s) \/ QuestionHset(s) \/ AnswerHset(s)
  <2>1. CASE runner # "waiting"
    BY <2>1, <1>r DEF Promise!vars, DecidedQuestions, Waiting
  <2>2. CASE runner = "waiting"
    <3>1. \/ entry'.decision = entry.decision /\ entry'.status = entry.status
          \/ entry'.decision = current /\ Decided(entry')
      BY <1>2, <2>2, SessionWrites
    <3>2. current = Len(resumed) + 1
      BY <1>t, <2>2 DEF Paused
    <3> QED
      BY <1>r, <1>t, <2>2, <3>1, <3>2
         DEF Promise!vars, Promise!Next, Promise!Decide, DecidedQuestions, Waiting, Decided
  <2> QED
    BY <2>1, <2>2
<1>3. \/ entry' = entry
      \/ ResolveHset(s) \/ QuestionHset(s) \/ AnswerHset(s)
  BY DEF Handling, Requesting, ListMembers, ListGet, ResolveGet, ResolveSrem, AskGet, AnswerGet
<1> QED
  BY <1>1, <1>2, <1>3

LEMMA StepHandsOver == Typed /\ InOrder /\ [Next]_vars => [Promise!Next]_(Promise!vars)
<1>1. UNCHANGED vars => UNCHANGED Promise!vars
  BY DEF vars, Promise!vars, DecidedQuestions, Waiting, Decided
<1> QED
  BY <1>1, RunnerHandsOver, SessionHandsOver DEF Next, PollAgain, Finished

\* Record, pending set and polling hand over one question at a time and one decision
\* for each: every step of the queue is one of Handover or none.
THEOREM QueueHandsOver ==
  ASSUME \A x \in Setups : Orderly(x)
  PROVE  Spec => Promise!Init /\ [][Promise!Next]_(Promise!vars)
  BY OrderInvariant, InitHandsOver, StepHandsOver, PTL DEF Spec
=============================================================================
