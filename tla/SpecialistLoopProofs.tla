------------------------- MODULE SpecialistLoopProofs -------------------------
(***************************************************************************)
(* The tool loops of any finite batch, for any limits, any answers of the  *)
(* models and any sharing of agents and registries.  A step of a branch    *)
(* touches no other branch's own variables (OthersUntouched): what is left *)
(* is what the two share, the agent, the call log and the time stamps.     *)
(***************************************************************************)
EXTENDS SpecialistLoop, SequenceTheorems, FiniteSetTheorems, WellFoundedInduction, TLAPS

Active(b) == pc[b] \notin {"ready", "done"}

\* TypeOK in parts.  The turns with tools stay within their limit, as a turn is
\* only begun below it.
LoopOK(b) ==
    /\ turns[b] <= MaxToolIterations /\ pending[b] <= setup.calls
    /\ pc[b] \in InTool <=> pending[b] > 0
    /\ pc[b] = "ready" => turns[b] = 0
    /\ pc[b] = "turn" => turns[b] < MaxToolIterations

Control ==
    /\ setup \in Setups /\ late \subseteq Branch
    /\ now \in Nat /\ now <= setup.ticks
    /\ pc \in [Branch -> Places]
    /\ turns \in [Branch -> Nat] /\ pending \in [Branch -> Nat]
    /\ \A b \in Branch : LoopOK(b)

Counts ==
    /\ total \in [Branch -> Usage] /\ modelCalls \in Usage
    /\ lastUsage \in [Agent -> Usage]

Calls ==
    /\ before \in [Branch -> Nat] /\ stampAt \in [Branch -> 0..setup.ticks]
    /\ toolCalls \in [Branch -> Seq(Branch)]
    /\ callLog \in [Registry -> Seq(Branch)]
    /\ stamps \in [Registry -> Seq(0..setup.ticks)]
    /\ called \in [Registry -> Seq(0..setup.ticks)]

Texts ==
    /\ event \in [Branch -> [usage : Usage, prompt : Branch \union {NoBranch},
                             response : Branch \union {NoBranch}, success : BOOLEAN]]
    /\ lastPrompt \in [Agent -> Branch \union {NoBranch}]
    /\ lastResponse \in [Agent -> Branch \union {NoBranch}]

Typed == Control /\ Counts /\ Calls /\ Texts

\* One after the other, where the batch is not parallel
Sequential == setup.parallel \/ \A b, c \in Branch : Active(b) /\ Active(c) => b = c

-----------------------------------------------------------------------------
\* Types

\* The arithmetic of usages stays among the usages.
LEMMA UsageTypes ==
    /\ None \in Usage
    /\ \A b \in Branch : One(b) \in Usage
    /\ \A u, v \in Usage : Plus(u, v) \in Usage
BY DEF None, One, Plus, Usage

\* After a tool call comes the next one of the turn, the next turn while there is
\* one, or the forced answer (agents/specialists.py).
LEMMA AfterToolPlaces ==
    ASSUME Control, NEW b \in Branch
    PROVE  /\ AfterTool(b) \in Places
           /\ AfterTool(b) \in {"tool", "turn", "forced"}
           /\ AfterTool(b) = "tool" <=> pending[b] > 1
           /\ AfterTool(b) = "turn" => turns[b] < MaxToolIterations
BY DEF AfterTool, Places

\* Where there is one of them there is a first one.
LEMMA LeastNatural ==
    ASSUME NEW S, S \subseteq Nat, S # {}
    PROVE  \E x \in S : \A y \in S : x <= y
<1>. DEFINE R == OpToRel(<, Nat)
<1>1. IsWellFoundedOn(R, Nat) BY NatLessThanWellFounded
<1>2. \A x, y \in Nat : y < x => <<y, x>> \in R BY DEF OpToRel
<1>. HIDE DEF R
<1>3. PICK x \in S : \A y \in S : ~ (<<y, x>> \in R) BY <1>1, WFMin
<1>4. \A y \in S : ~ (y < x) BY <1>2, <1>3
<1>5. \A y \in S : y \in Nat /\ x \in Nat OBVIOUS
<1>. QED BY <1>4, <1>5

\* Popping leaves the end of the stamps, and what goes is too old (registry.py:31).
LEMMA RecentIsSuffix ==
    ASSUME NEW n \in Nat, NEW q \in Seq(0..n), NEW start \in Nat
    PROVE  /\ Recent(q, start) \in Seq(0..n)
           /\ Len(Recent(q, start)) <= Len(q)
           /\ \A i \in DOMAIN Recent(q, start) :
                 Recent(q, start)[i] = q[Len(q) - Len(Recent(q, start)) + i]
           /\ \A i \in 1 .. (Len(q) - Len(Recent(q, start))) : q[i] < start
<1>q. /\ Len(q) \in Nat /\ DOMAIN q = 1..Len(q) /\ \A i \in 1..Len(q) : q[i] \in 0..n
  BY LenProperties, ElementOfSeq
<1>1. CASE ~ \E i \in DOMAIN q : q[i] >= start
  <2>1. Recent(q, start) = <<>> BY <1>1 DEF Recent
  <2>2. <<>> \in Seq(0..n) /\ Len(<<>>) = 0 /\ DOMAIN <<>> = {} BY EmptySeq
  <2>3. \A i \in 1..Len(q) : q[i] < start BY <1>1, <1>q
  <2>. QED BY <2>1, <2>2, <2>3, <1>q
<1>2. CASE \E i \in DOMAIN q : q[i] >= start
  <2>. DEFINE P(i) == /\ q[i] >= start
                      /\ \A j \in 1..(i - 1) : q[j] < start
              first == CHOOSE i \in DOMAIN q : P(i)
  <2>1. \E i \in DOMAIN q : P(i)
    <3>. DEFINE S == {i \in DOMAIN q : q[i] >= start}
    <3>1. S \in SUBSET Nat /\ S # {} BY <1>2, <1>q
    <3>2. PICK i \in S : \A j \in S : i <= j
      <4>. HIDE DEF S
      <4>. QED BY <3>1, LeastNatural
    <3>3. P(i) BY <3>2, <1>q
    <3>. QED BY <3>2, <3>3
  <2>2. first \in DOMAIN q /\ P(first) BY <2>1
  <2>3. Recent(q, start) = SubSeq(q, first, Len(q)) BY <1>2 DEF Recent
  <2>4. first \in 1..Len(q) /\ \A j \in 1..(first - 1) : q[j] < start BY <2>2, <1>q
  <2>. HIDE DEF first
  <2>5. /\ SubSeq(q, first, Len(q)) \in Seq(0..n)
        /\ Len(SubSeq(q, first, Len(q))) = Len(q) - first + 1
        /\ \A i \in 1 .. (Len(q) - first + 1) : SubSeq(q, first, Len(q))[i] = q[first + i - 1]
    <3>1. \A i \in first..Len(q) : q[i] \in 0..n BY <2>4, <1>q
    <3>2. first \in Int /\ Len(q) \in Int /\ first <= Len(q) BY <2>4, <1>q
    <3>. QED BY <3>1, <3>2, SubSeqProperties
  <2>6. DOMAIN SubSeq(q, first, Len(q)) = 1 .. (Len(q) - first + 1) BY <2>5, LenProperties
  <2>. DEFINE r == Recent(q, start)
  <2>7. /\ r \in Seq(0..n) /\ Len(r) = Len(q) - first + 1
        /\ DOMAIN r = 1 .. (Len(q) - first + 1)
        /\ \A i \in 1 .. (Len(q) - first + 1) : r[i] = q[first + i - 1]
    BY <2>3, <2>5, <2>6
  <2>. HIDE DEF r
  <2>8. Len(r) <= Len(q) /\ Len(q) - Len(r) = first - 1 BY <2>7, <2>4, <1>q
  <2>9. \A i \in DOMAIN r : r[i] = q[Len(q) - Len(r) + i]
    <3>1. TAKE i \in DOMAIN r
    <3>2. first + i - 1 = Len(q) - Len(r) + i BY <2>7, <2>8, <2>4, <1>q
    <3>. QED BY <2>7, <3>2
  <2>. QED BY <2>7, <2>8, <2>9, <2>4 DEF r
<1>. QED BY <1>1, <1>2


LEMMA SetupTypes ==
    ASSUME setup \in Setups
    PROVE  /\ setup.ticks \in Nat /\ setup.calls \in Nat
           /\ setup.parallel \in BOOLEAN /\ setup.celery \in BOOLEAN
           /\ \A b \in Branch : AgentOf(b) \in Agent /\ RegistryOf(b) \in Registry
BY SetupsAssumption DEF AgentOf, RegistryOf, IsSetup

LEMMA NewEntriesTypes ==
    ASSUME Control, Calls, NEW b \in Branch
    PROVE  NewEntries(b) \in Seq(Branch)
<1>1. Log(b) \in Seq(Branch) /\ before[b] \in Nat BY SetupTypes DEF Control, Calls, Log
<1>2. Len(Log(b)) \in Nat /\ \A i \in 1..Len(Log(b)) : Log(b)[i] \in Branch
  BY <1>1, LenProperties, ElementOfSeq
<1>3. \A i \in (before[b] + 1) .. Len(Log(b)) : Log(b)[i] \in Branch BY <1>1, <1>2
<1>. QED BY <1>1, <1>2, <1>3, SubSeqProperties DEF NewEntries

LEMMA LimitTypes == MaxToolIterations \in Nat /\ 0 < MaxToolIterations
BY LimitsAssumption

LEMMA TypedInit == Init => Typed
<1>. SUFFICES ASSUME Init PROVE Typed OBVIOUS
<1>1. setup.ticks \in Nat /\ setup.calls \in Nat BY SetupTypes DEF Init
<1>2. NoEvent \in [usage : Usage, prompt : Branch \union {NoBranch},
                   response : Branch \union {NoBranch}, success : BOOLEAN]
  BY UsageTypes DEF NoEvent
<1>3. <<>> \in Seq(Branch) /\ <<>> \in Seq(0..setup.ticks) BY EmptySeq
<1>4. None \in Usage /\ None = [b \in Branch |-> 0] BY UsageTypes DEF None
<1>5. Control BY <1>1, <1>4, LimitTypes DEF Init, Control, LoopOK, Places, InTool
<1>6. Counts BY <1>4 DEF Init, Counts
<1>7. Calls BY <1>1, <1>3, <1>4 DEF Init, Calls
<1>8. Texts BY <1>2 DEF Init, Texts
<1>. QED BY <1>5, <1>6, <1>7, <1>8 DEF Typed

LEMMA ControlStep == Control /\ [Next]_vars => Control'
<1>. SUFFICES ASSUME Control, [Next]_vars PROVE Control' OBVIOUS
<1>. USE DEF Go, batch, loop
<1>1. ASSUME NEW b \in Branch, Start(b) PROVE Control'
  BY <1>1, LimitTypes DEF Start, Control, LoopOK, Places, InTool
<1>2. ASSUME NEW b \in Branch, Turn(b) PROVE Control'
  <2>1. /\ pc' = [pc EXCEPT ![b] = "turn answered"] /\ pc[b] = "turn"
        /\ turns' = [turns EXCEPT ![b] = turns[b] + 1]
        /\ UNCHANGED <<setup, late, now, pending>>
    BY <1>2 DEF Turn
  <2>2. turns[b] \in Nat /\ turns[b] < MaxToolIterations BY <2>1 DEF Control, LoopOK
  <2>3. turns[b] + 1 \in Nat /\ turns[b] + 1 <= MaxToolIterations BY <2>2, LimitTypes
  <2>4. \A c \in Branch : LoopOK(c)' BY <2>1, <2>3 DEF Control, LoopOK, Places, InTool
  <2>. QED BY <2>1, <2>3, <2>4 DEF Control, Places
<1>3. ASSUME NEW b \in Branch, TurnAnswered(b) PROVE Control'
  <2>1. PICK n \in 0..setup.calls :
            /\ pending' = [pending EXCEPT ![b] = n]
            /\ pc' = [pc EXCEPT ![b] = IF n = 0 THEN "final" ELSE "tool"]
    BY <1>3 DEF TurnAnswered
  <2>2. pc[b] = "turn answered" /\ UNCHANGED <<setup, late, now, turns>>
    BY <1>3 DEF TurnAnswered
  <2>3. n \in Nat /\ n <= setup.calls /\ (n = 0 \/ n > 0) BY SetupTypes DEF Control
  <2>4. LoopOK(b)'
    <3>1. LoopOK(b) /\ turns[b] \in Nat /\ setup.calls \in Nat BY SetupTypes DEF Control
    <3>2. /\ pending'[b] = n /\ pc'[b] = IF n = 0 THEN "final" ELSE "tool"
          /\ turns'[b] = turns[b] /\ setup'.calls = setup.calls
      BY <2>1, <2>2 DEF Control
    <3>3. turns'[b] <= MaxToolIterations /\ pending'[b] <= setup'.calls BY <2>3, <3>1, <3>2 DEF LoopOK
    <3>4. pc'[b] \in InTool <=> pending'[b] > 0 BY <2>3, <3>2 DEF InTool
    <3>5. pc'[b] # "ready" /\ pc'[b] # "turn" BY <3>2
    <3>. QED BY <3>3, <3>4, <3>5 DEF LoopOK
  <2>5. \A c \in Branch \ {b} : LoopOK(c)' BY <2>1, <2>2 DEF Control, LoopOK, Places, InTool
  <2>. QED BY <2>1, <2>2, <2>3, <2>4, <2>5 DEF Control, Places
<1>4. ASSUME NEW b \in Branch, Forced(b) PROVE Control'
  BY <1>4 DEF Forced, Control, LoopOK, Places, InTool
<1>5. ASSUME NEW b \in Branch, ForcedAnswered(b) PROVE Control'
  BY <1>5 DEF ForcedAnswered, Control, LoopOK, Places, InTool
<1>6. ASSUME NEW b \in Branch, ToolBefore(b) PROVE Control'
  BY <1>6 DEF ToolBefore, Control, LoopOK, Places, InTool
<1>7. ASSUME NEW b \in Branch, ToolUnknown(b) PROVE Control'
  <2>1. /\ pc' = [pc EXCEPT ![b] = AfterTool(b)] /\ pc[b] \in {"invoke", "collect"}
        /\ pending' = [pending EXCEPT ![b] = pending[b] - 1]
        /\ UNCHANGED <<setup, late, now, turns>>
    BY <1>7 DEF ToolUnknown
  <2>2. pending[b] \in Nat /\ pending[b] > 0 /\ pending[b] <= setup.calls
    BY <2>1 DEF Control, LoopOK, InTool
  <2>3. /\ AfterTool(b) \in {"tool", "turn", "forced"}
        /\ AfterTool(b) = "tool" <=> pending[b] > 1
        /\ AfterTool(b) = "turn" => turns[b] < MaxToolIterations
    BY AfterToolPlaces
  <2>4. pending[b] - 1 \in Nat /\ (pending[b] - 1 > 0 <=> pending[b] > 1) BY <2>2
  <2>5. pending[b] - 1 <= setup.calls BY <2>2, SetupTypes DEF Control
  <2>6. \A c \in Branch : LoopOK(c)' BY <2>1, <2>3, <2>4, <2>5 DEF Control, LoopOK, Places, InTool
  <2>. QED BY <2>1, <2>3, <2>4, <2>6 DEF Control, Places
<1>8. ASSUME NEW b \in Branch, ToolMisused(b) PROVE Control'
  BY <1>8 DEF ToolMisused, Control, LoopOK, Places, InTool
<1>9. ASSUME NEW b \in Branch, ToolCheck(b) PROVE Control'
  BY <1>9 DEF ToolCheck, Control, LoopOK, Places, InTool
<1>10. ASSUME NEW b \in Branch, ToolStamp(b) PROVE Control'
  BY <1>10 DEF ToolStamp, Control, LoopOK, Places, InTool
<1>11. ASSUME NEW b \in Branch, ToolLogged(b) PROVE Control'
  BY <1>11 DEF ToolLogged, Control, LoopOK, Places, InTool
<1>12. ASSUME NEW b \in Branch, ToolCollect(b) PROVE Control'
  <2>1. /\ pc' = [pc EXCEPT ![b] = AfterTool(b)] /\ pc[b] \in {"invoke", "collect"}
        /\ pending' = [pending EXCEPT ![b] = pending[b] - 1]
        /\ UNCHANGED <<setup, late, now, turns>>
    BY <1>12 DEF ToolCollect
  <2>2. pending[b] \in Nat /\ pending[b] > 0 /\ pending[b] <= setup.calls
    BY <2>1 DEF Control, LoopOK, InTool
  <2>3. /\ AfterTool(b) \in {"tool", "turn", "forced"}
        /\ AfterTool(b) = "tool" <=> pending[b] > 1
        /\ AfterTool(b) = "turn" => turns[b] < MaxToolIterations
    BY AfterToolPlaces
  <2>4. pending[b] - 1 \in Nat /\ (pending[b] - 1 > 0 <=> pending[b] > 1) BY <2>2
  <2>5. pending[b] - 1 <= setup.calls BY <2>2, SetupTypes DEF Control
  <2>6. \A c \in Branch : LoopOK(c)' BY <2>1, <2>3, <2>4, <2>5 DEF Control, LoopOK, Places, InTool
  <2>. QED BY <2>1, <2>3, <2>4, <2>6 DEF Control, Places
<1>13. ASSUME NEW b \in Branch, Final(b) PROVE Control'
  BY <1>13 DEF Final, Control, LoopOK, Places, InTool
<1>14. ASSUME NEW b \in Branch, FinalAnswered(b) PROVE Control'
  BY <1>14 DEF FinalAnswered, Control, LoopOK, Places, InTool
<1>15. ASSUME NEW b \in Branch, Settle(b) PROVE Control'
  BY <1>15 DEF Settle, Control, LoopOK, Places, InTool
<1>16. ASSUME NEW b \in Branch, Fail(b) PROVE Control'
  <2>1. /\ pc' = [pc EXCEPT ![b] = "trace"] /\ pc[b] \in {"turn", "forced", "final", "settle"}
        /\ pending' = [pending EXCEPT ![b] = 0]
        /\ UNCHANGED <<setup, late, now, turns>>
    BY <1>16 DEF Fail
  <2>2. 0 <= setup.calls BY SetupTypes DEF Control
  <2>3. LoopOK(b)'
    <3>1. LoopOK(b) /\ turns[b] \in Nat /\ setup.calls \in Nat BY SetupTypes DEF Control
    <3>2. /\ pending'[b] = 0 /\ pc'[b] = "trace"
          /\ turns'[b] = turns[b] /\ setup'.calls = setup.calls
      BY <2>1 DEF Control
    <3>3. turns'[b] <= MaxToolIterations /\ pending'[b] <= setup'.calls BY <2>2, <3>1, <3>2 DEF LoopOK
    <3>4. pc'[b] \in InTool <=> pending'[b] > 0 BY <3>2 DEF InTool
    <3>5. pc'[b] # "ready" /\ pc'[b] # "turn" BY <3>2
    <3>. QED BY <3>3, <3>4, <3>5 DEF LoopOK
  <2>4. \A c \in Branch \ {b} : LoopOK(c)' BY <2>1 DEF Control, LoopOK, Places, InTool
  <2>. QED BY <2>1, <2>3, <2>4 DEF Control, Places
<1>17. ASSUME NEW b \in Branch, Trace(b) PROVE Control'
  BY <1>17 DEF Trace, Control, LoopOK, Places, InTool
<1>18. ASSUME NEW b \in Branch, TraceLate(b) PROVE Control'
  BY <1>18 DEF TraceLate, Control, LoopOK, Places, InTool
<1>19. ASSUME NEW b \in Branch, GiveUp(b) PROVE Control'
  <2>1. late' \subseteq Branch BY <1>19 DEF GiveUp, Control
  <2>2. UNCHANGED <<setup, pc, turns, pending, now>> BY <1>19 DEF GiveUp
  <2>. QED BY <2>1, <2>2 DEF Control, LoopOK
<1>20. CASE Tick
  <2>1. setup.ticks \in Nat BY SetupTypes DEF Control
  <2>2. now' \in Nat /\ now' <= setup.ticks BY <1>20, <2>1 DEF Tick, Control
  <2>3. UNCHANGED <<setup, late, pc, turns, pending>> BY <1>20 DEF Tick
  <2>. QED BY <2>2, <2>3 DEF Control, LoopOK
<1>21. CASE UNCHANGED vars BY <1>21 DEF vars, Control, LoopOK, Places, InTool
<1>. QED
  BY <1>1, <1>2, <1>3, <1>4, <1>5, <1>6, <1>7, <1>8, <1>9, <1>10, <1>11, <1>12, <1>13, <1>14, <1>15, <1>16, <1>17, <1>18, <1>19, <1>20, <1>21 DEF Next, Step

LEMMA CountsStep == Control /\ Counts /\ [Next]_vars => Counts'
<1>. SUFFICES ASSUME Control, Counts, [Next]_vars PROVE Counts' OBVIOUS
<1>. USE DEF Counts, batch, loop, agent
<1>1. ASSUME NEW b \in Branch, CallModel(b), total' = total PROVE Counts'
  <2>1. AgentOf(b) \in Agent /\ One(b) \in Usage BY SetupTypes, UsageTypes DEF Control
  <2>2. modelCalls' \in Usage BY <1>1 DEF CallModel, Usage
  <2>. QED BY <1>1, <2>1, <2>2 DEF CallModel
<1>2. ASSUME NEW b \in Branch, Accumulate(b), UNCHANGED <<lastUsage, modelCalls>>
      PROVE Counts'
  <2>1. AgentOf(b) \in Agent BY SetupTypes DEF Control
  <2>2. Plus(total[b], lastUsage[AgentOf(b)]) \in Usage BY <2>1, UsageTypes
  <2>. QED BY <1>2, <2>2 DEF Accumulate
<1>3. ASSUME NEW b \in Branch, lastUsage' = [lastUsage EXCEPT ![AgentOf(b)] = total[b]],
             UNCHANGED <<total, modelCalls>>
      PROVE Counts'
  BY <1>3, SetupTypes DEF Control
<1>4. CASE UNCHANGED <<total, modelCalls, lastUsage>> BY <1>4
<1>5. ASSUME NEW b \in Branch, Step(b) PROVE Counts'
  <2>1. CASE Turn(b) \/ Forced(b) \/ Final(b) BY <2>1, <1>1 DEF Turn, Forced, Final
  <2>2. CASE TurnAnswered(b) \/ ForcedAnswered(b) \/ FinalAnswered(b)
    BY <2>2, <1>2 DEF TurnAnswered, ForcedAnswered, FinalAnswered
  <2>3. CASE Settle(b) \/ Fail(b) BY <2>3, <1>3 DEF Settle, Fail
  <2>4. CASE Start(b) \/ ToolBefore(b) \/ ToolUnknown(b) \/ ToolMisused(b) \/ ToolCheck(b)
    BY <2>4, <1>4 DEF Start, ToolBefore, ToolUnknown, ToolMisused, ToolCheck
  <2>5. CASE ToolStamp(b) \/ ToolLogged(b) \/ ToolCollect(b) \/ Trace(b) \/ TraceLate(b)
    BY <2>5, <1>4 DEF ToolStamp, ToolLogged, ToolCollect, Trace, TraceLate
  <2>. QED BY <1>5, <2>1, <2>2, <2>3, <2>4, <2>5 DEF Step
<1>6. ASSUME NEW b \in Branch, GiveUp(b) PROVE Counts' BY <1>4, <1>6 DEF GiveUp
<1>7. CASE Tick \/ UNCHANGED vars BY <1>4, <1>7 DEF Tick, vars
<1>. QED BY <1>5, <1>6, <1>7 DEF Next

LEMMA CallsStep == Control /\ Calls /\ [Next]_vars => Calls'
<1>. SUFFICES ASSUME Control, Calls, [Next]_vars PROVE Calls' OBVIOUS
<1>. USE DEF Calls, batch, loop, toolCall, registry
<1>. DEFINE Time == 0..setup.ticks
<1>1. setup' = setup /\ now \in Time /\ setup.ticks \in Nat
  <2>1. setup' = setup
    BY DEF Next, Step, Start, Turn, TurnAnswered, Forced, ForcedAnswered, ToolBefore,
           ToolUnknown, ToolMisused, ToolCheck, ToolStamp, ToolLogged, ToolCollect, Final,
           FinalAnswered, Settle, Fail, Trace, TraceLate, GiveUp, Tick, vars
  <2>2. setup.ticks \in Nat BY SetupTypes DEF Control
  <2>. QED BY <2>1, <2>2 DEF Control
<1>2. Time' = Time BY <1>1
<1>. HIDE DEF Time
<1>3. /\ stampAt \in [Branch -> Time] /\ stamps \in [Registry -> Seq(Time)]
      /\ called \in [Registry -> Seq(Time)]
  BY DEF Time
<1>4. CASE UNCHANGED <<before, stampAt, toolCalls, callLog, stamps, called>>
  BY <1>1, <1>4
<1>5. ASSUME NEW b \in Branch, ToolBefore(b) PROVE Calls'
  <2>1. Log(b) \in Seq(Branch) BY SetupTypes DEF Control, Log
  <2>2. Len(Log(b)) \in Nat BY <2>1, LenProperties
  <2>. QED BY <1>5, <1>1, <2>2 DEF ToolBefore
<1>6. ASSUME NEW b \in Branch, ToolCheck(b) PROVE Calls'
  <2>1. RegistryOf(b) \in Registry BY SetupTypes DEF Control
  <2>2. WindowStart \in Nat BY LimitsAssumption DEF Control, WindowStart
  <2>3. stamps[RegistryOf(b)] \in Seq(0..setup.ticks) BY <2>1
  <2>4. Recent(stamps[RegistryOf(b)], WindowStart) \in Seq(0..setup.ticks)
    BY <1>1, <2>2, <2>3, RecentIsSuffix
  <2>5. stamps' \in [Registry -> Seq(0..setup.ticks)] BY <1>6, <2>4 DEF ToolCheck
  <2>6. stampAt' \in [Branch -> 0..setup.ticks] BY <1>6, <1>1 DEF ToolCheck, Time
  <2>7. UNCHANGED <<before, toolCalls, callLog, called>> BY <1>6 DEF ToolCheck
  <2>. QED BY <1>1, <2>5, <2>6, <2>7
<1>7. ASSUME NEW b \in Branch, ToolStamp(b) PROVE Calls'
  <2>1. RegistryOf(b) \in Registry BY SetupTypes DEF Control
  <2>2. /\ Append(stamps[RegistryOf(b)], stampAt[b]) \in Seq(Time)
        /\ Append(called[RegistryOf(b)], stampAt[b]) \in Seq(Time)
    BY <1>3, <2>1, AppendProperties
  <2>3. stamps' \in [Registry -> Seq(Time)] BY <1>7, <1>3, <2>2 DEF ToolStamp
  <2>4. called' \in [Registry -> Seq(Time)] BY <1>7, <1>3, <2>2 DEF ToolStamp
  <2>5. UNCHANGED <<before, stampAt, toolCalls, callLog>> BY <1>7 DEF ToolStamp
  <2>. QED BY <1>1, <2>3, <2>4, <2>5 DEF Time
<1>8. ASSUME NEW b \in Branch, ToolLogged(b) PROVE Calls'
  <2>1. RegistryOf(b) \in Registry BY SetupTypes DEF Control
  <2>2. Append(callLog[RegistryOf(b)], b) \in Seq(Branch) BY <2>1, AppendProperties
  <2>3. callLog' \in [Registry -> Seq(Branch)] BY <1>8, <2>2 DEF ToolLogged
  <2>4. UNCHANGED <<before, stampAt, toolCalls, stamps, called>> BY <1>8 DEF ToolLogged
  <2>. QED BY <1>1, <2>3, <2>4
<1>9. ASSUME NEW b \in Branch, ToolCollect(b) PROVE Calls'
  <2>1. toolCalls[b] \o NewEntries(b) \in Seq(Branch)
    BY NewEntriesTypes, ConcatProperties
  <2>2. toolCalls' \in [Branch -> Seq(Branch)] BY <1>9, <2>1 DEF ToolCollect
  <2>3. UNCHANGED <<before, stampAt, callLog, stamps, called>> BY <1>9 DEF ToolCollect
  <2>. QED BY <1>1, <2>2, <2>3
<1>10. ASSUME NEW b \in Branch, Step(b) PROVE Calls'
  <2>1. CASE ToolBefore(b) \/ ToolCheck(b) \/ ToolStamp(b) \/ ToolLogged(b) \/ ToolCollect(b)
    BY <2>1, <1>5, <1>6, <1>7, <1>8, <1>9
  <2>2. CASE Start(b) \/ Turn(b) \/ TurnAnswered(b) \/ Forced(b) \/ ForcedAnswered(b)
    BY <2>2, <1>4 DEF Start, Turn, TurnAnswered, Forced, ForcedAnswered
  <2>3. CASE ToolUnknown(b) \/ ToolMisused(b) \/ Final(b) \/ FinalAnswered(b) \/ Settle(b)
    BY <2>3, <1>4 DEF ToolUnknown, ToolMisused, Final, FinalAnswered, Settle
  <2>4. CASE Fail(b) \/ Trace(b) \/ TraceLate(b) BY <2>4, <1>4 DEF Fail, Trace, TraceLate
  <2>. QED BY <1>10, <2>1, <2>2, <2>3, <2>4 DEF Step
<1>11. ASSUME NEW b \in Branch, GiveUp(b) PROVE Calls' BY <1>4, <1>11 DEF GiveUp
<1>12. CASE Tick \/ UNCHANGED vars BY <1>4, <1>12 DEF Tick, vars
<1>. QED BY <1>10, <1>11, <1>12 DEF Next

LEMMA TextsStep == Control /\ Counts /\ Texts /\ [Next]_vars => Texts'
<1>. SUFFICES ASSUME Control, Counts, Texts, [Next]_vars PROVE Texts' OBVIOUS
<1>. USE DEF Texts, batch, agent
<1>1. CASE UNCHANGED <<event, lastPrompt, lastResponse>> BY <1>1
<1>2. ASSUME NEW b \in Branch, Start(b) PROVE Texts'
  BY <1>2, SetupTypes DEF Start, Control
<1>3. ASSUME NEW b \in Branch, NEW success \in BOOLEAN, Succeed(b, success)
      PROVE event' \in [Branch -> [usage : Usage, prompt : Branch \union {NoBranch},
                             response : Branch \union {NoBranch}, success : BOOLEAN]]
  BY <1>3 DEF Succeed
<1>4. ASSUME NEW b \in Branch, Settle(b) PROVE Texts'
  <2>1. Succeed(b, TRUE) /\ UNCHANGED lastPrompt BY <1>4 DEF Settle
  <2>2. lastResponse' \in [Agent -> Branch \union {NoBranch}]
    BY <1>4, SetupTypes DEF Settle, Control
  <2>. QED BY <1>3, <2>1, <2>2
<1>5. ASSUME NEW b \in Branch, Fail(b) PROVE Texts'
  <2>1. Succeed(b, FALSE) /\ UNCHANGED <<lastPrompt, lastResponse>> BY <1>5 DEF Fail
  <2>. QED BY <1>3, <2>1
<1>6. ASSUME NEW b \in Branch, Trace(b) PROVE Texts'
  <2>1. /\ lastUsage[AgentOf(b)] \in Usage
        /\ lastPrompt[AgentOf(b)] \in Branch \union {NoBranch}
        /\ lastResponse[AgentOf(b)] \in Branch \union {NoBranch}
    BY SetupTypes DEF Control, Counts
  <2>. DEFINE T == [usage : Usage, prompt : Branch \union {NoBranch},
                    response : Branch \union {NoBranch}, success : BOOLEAN]
              e1 == [event EXCEPT ![b].usage = lastUsage[AgentOf(b)]]
              e2 == [e1 EXCEPT ![b].prompt = lastPrompt[AgentOf(b)]]
              e3 == [e2 EXCEPT ![b].response = lastResponse[AgentOf(b)]]
  <2>2. e1 \in [Branch -> T] BY <2>1
  <2>3. e2 \in [Branch -> T]
    <3>. HIDE DEF e1
    <3>. QED BY <2>1, <2>2
  <2>4. e3 \in [Branch -> T]
    <3>. HIDE DEF e2
    <3>. QED BY <2>1, <2>3
  <2>5. event' = e3 /\ UNCHANGED <<lastPrompt, lastResponse>> BY <1>6 DEF Trace
  <2>. QED BY <2>4, <2>5
<1>7. ASSUME NEW b \in Branch, Step(b) PROVE Texts'
  <2>1. CASE Start(b) \/ Settle(b) \/ Fail(b) \/ Trace(b) BY <2>1, <1>2, <1>4, <1>5, <1>6
  <2>2. CASE Turn(b) \/ TurnAnswered(b) \/ Forced(b) \/ ForcedAnswered(b) \/ Final(b)
    BY <2>2, <1>1 DEF Turn, TurnAnswered, Forced, ForcedAnswered, Final, CallModel
  <2>3. CASE ToolBefore(b) \/ ToolUnknown(b) \/ ToolMisused(b) \/ ToolCheck(b) \/ ToolStamp(b)
    BY <2>3, <1>1 DEF ToolBefore, ToolUnknown, ToolMisused, ToolCheck, ToolStamp
  <2>4. CASE ToolLogged(b) \/ ToolCollect(b) \/ FinalAnswered(b) \/ TraceLate(b)
    BY <2>4, <1>1 DEF ToolLogged, ToolCollect, FinalAnswered, TraceLate
  <2>. QED BY <1>7, <2>1, <2>2, <2>3, <2>4 DEF Step
<1>8. ASSUME NEW b \in Branch, GiveUp(b) PROVE Texts' BY <1>1, <1>8 DEF GiveUp
<1>9. CASE Tick \/ UNCHANGED vars BY <1>1, <1>9 DEF Tick, vars
<1>. QED BY <1>7, <1>8, <1>9 DEF Next

LEMMA TypesStep == Typed /\ [Next]_vars => Typed'
BY ControlStep, CountsStep, CallsStep, TextsStep DEF Typed

LEMMA TypedIsTypeOK == Typed => TypeOK
<1>. SUFFICES ASSUME Typed PROVE TypeOK OBVIOUS
<1>1. /\ setup.ticks \in Nat /\ setup.calls \in Nat /\ MaxToolIterations \in Nat
  BY SetupTypes, LimitTypes DEF Typed, Control
<1>2. now \in 0..setup.ticks BY <1>1 DEF Typed, Control
<1>3. /\ \A b \in Branch : turns[b] \in 0..MaxToolIterations
      /\ \A b \in Branch : pending[b] \in 0..setup.calls
      /\ \A b \in Branch : pc[b] \in InTool <=> pending[b] > 0
  BY <1>1 DEF Typed, Control, LoopOK
<1>4. turns \in [Branch -> 0..MaxToolIterations] /\ pending \in [Branch -> 0..setup.calls]
  BY <1>3 DEF Typed, Control
<1>. QED BY <1>2, <1>3, <1>4 DEF Typed, Control, Counts, Calls, Texts, TypeOK

\* TypeOK: the tables keep their types, no more than _MAX_TOOL_ITERATIONS turns
\* with tools begin, and a branch is in a tool call exactly while one of the
\* answer's calls is outstanding (agents/specialists.py), in any batch.
THEOREM TypeCorrect == Spec => []TypeOK
<1>1. Spec => []Typed BY TypedInit, TypesStep, PTL DEF Spec
<1>. QED BY <1>1, TypedIsTypeOK, PTL

-----------------------------------------------------------------------------
\* What branches share

\* A step is of a branch that runs or starts, and leaves alone what other branches
\* keep for themselves.
LEMMA OthersUntouched ==
    ASSUME Typed, NEW b \in Branch, Step(b)
    PROVE  /\ UNCHANGED <<setup, late, now>>
           /\ pc[b] = "ready" => Start(b)
           /\ pc[b] # "done"
           /\ \A c \in Branch \ {b} :
                 /\ pc'[c] = pc[c] /\ total'[c] = total[c] /\ before'[c] = before[c]
                 /\ toolCalls'[c] = toolCalls[c] /\ event'[c] = event[c]
                 /\ modelCalls'[c] = modelCalls[c]
<1>. USE DEF Go, batch, loop, toolCall, Succeed, CallModel, Accumulate
<1>1. /\ pc \in [Branch -> Places] /\ total \in [Branch -> Usage]
      /\ before \in [Branch -> Nat] /\ toolCalls \in [Branch -> Seq(Branch)]
      /\ modelCalls \in [Branch -> Nat] /\ DOMAIN event = Branch
  BY DEF Typed, Control, Counts, Calls, Texts, Usage
<1>2. CASE Start(b) \/ Turn(b) \/ Forced(b) \/ Final(b)
  BY <1>1, <1>2 DEF Start, Turn, Forced, Final
<1>3. CASE TurnAnswered(b) \/ ForcedAnswered(b) \/ FinalAnswered(b)
  BY <1>1, <1>3 DEF TurnAnswered, ForcedAnswered, FinalAnswered
<1>4. CASE ToolBefore(b) \/ ToolUnknown(b) \/ ToolMisused(b) \/ ToolCheck(b)
  BY <1>1, <1>4 DEF ToolBefore, ToolUnknown, ToolMisused, ToolCheck
<1>5. CASE ToolStamp(b) \/ ToolLogged(b) \/ ToolCollect(b) \/ TraceLate(b)
  BY <1>1, <1>5 DEF ToolStamp, ToolLogged, ToolCollect, TraceLate
<1>6. CASE Settle(b) BY <1>1, <1>6 DEF Settle
<1>7. CASE Fail(b) BY <1>1, <1>7 DEF Fail
<1>8. CASE Trace(b) BY <1>1, <1>8 DEF Trace
<1>. QED BY <1>2, <1>3, <1>4, <1>5, <1>6, <1>7, <1>8 DEF Step

\* Nor does it touch the agents and registries of others.
LEMMA SharedUntouched ==
    ASSUME Typed, NEW b \in Branch, Step(b)
    PROVE  /\ \A a \in Agent \ {AgentOf(b)} :
                 /\ lastUsage'[a] = lastUsage[a] /\ lastPrompt'[a] = lastPrompt[a]
                 /\ lastResponse'[a] = lastResponse[a]
           /\ \A g \in Registry \ {RegistryOf(b)} :
                 /\ callLog'[g] = callLog[g] /\ stamps'[g] = stamps[g]
                 /\ called'[g] = called[g]
<1>. USE DEF agent, registry, CallModel
<1>1. /\ DOMAIN lastUsage = Agent /\ DOMAIN lastPrompt = Agent /\ DOMAIN lastResponse = Agent
      /\ DOMAIN callLog = Registry /\ DOMAIN stamps = Registry /\ DOMAIN called = Registry
  BY DEF Typed, Counts, Calls, Texts
<1>2. CASE Start(b) \/ Turn(b) \/ Forced(b) \/ Final(b) \/ Settle(b) \/ Fail(b)
  BY <1>1, <1>2 DEF Start, Turn, Forced, Final, Settle, Fail
<1>3. CASE TurnAnswered(b) \/ ForcedAnswered(b) \/ FinalAnswered(b) \/ Trace(b) \/ TraceLate(b)
  BY <1>3 DEF TurnAnswered, ForcedAnswered, FinalAnswered, Trace, TraceLate
<1>4. CASE ToolBefore(b) \/ ToolUnknown(b) \/ ToolMisused(b) \/ ToolCollect(b)
  BY <1>4 DEF ToolBefore, ToolUnknown, ToolMisused, ToolCollect
<1>5. CASE ToolCheck(b) \/ ToolStamp(b) \/ ToolLogged(b)
  BY <1>1, <1>5 DEF ToolCheck, ToolStamp, ToolLogged
<1>. QED BY <1>2, <1>3, <1>4, <1>5 DEF Step

\* A batch that is not parallel runs one branch after the other (graph/build.py,
\* the supersteps).
LEMMA SequentialStep == Typed /\ Sequential /\ [Next]_vars => Sequential'
<1>. SUFFICES ASSUME Typed, Sequential, [Next]_vars PROVE Sequential' OBVIOUS
<1>1. ASSUME NEW b \in Branch, Step(b) PROVE Sequential'
  <2>. SUFFICES ASSUME ~ setup.parallel, NEW c \in Branch, NEW d \in Branch,
                       Active(c)', Active(d)'
                PROVE  c = d
    BY <1>1, OthersUntouched DEF Sequential
  <2>1. CASE pc[b] = "ready"
    <3>1. \A other \in Branch : ~ Active(other)
      BY <1>1, <2>1, OthersUntouched DEF Start, Active
    <3>2. \A other \in Branch \ {b} : ~ Active(other)'
      BY <1>1, <3>1, OthersUntouched DEF Active
    <3>. QED BY <3>2
  <2>2. CASE pc[b] # "ready"
    <3>1. Active(b) BY <1>1, <2>2, OthersUntouched DEF Active
    <3>2. \A other \in Branch \ {b} : ~ Active(other)'
      BY <1>1, <3>1, OthersUntouched DEF Active, Sequential
    <3>. QED BY <3>2
  <2>. QED BY <2>1, <2>2
<1>2. ASSUME NEW b \in Branch, GiveUp(b) PROVE Sequential'
  BY <1>2 DEF GiveUp, Sequential, Active
<1>3. CASE Tick \/ UNCHANGED vars BY <1>3 DEF Tick, vars, batch, Sequential, Active
<1>. QED BY <1>1, <1>2, <1>3 DEF Next

LEMMA SequentialInit == Init => Sequential
BY DEF Init, Sequential, Active

-----------------------------------------------------------------------------
\* The rate limit (tools/registry.py:27-39)

\* q is the end of k, and what is before it in k is past
SuffixOf(q, k, start) ==
    /\ Len(q) <= Len(k)
    /\ \A i \in 1 .. Len(q) : q[i] = k[(Len(k) - Len(q)) + i]
    /\ \A i \in 1 .. (Len(k) - Len(q)) : k[i] < start

\* The stamps a registry has are the last of the calls it let pass, and the calls
\* before these are past their minute
Suffix(g) == SuffixOf(stamps[g], called[g], WindowStart)

\* A registry no two branches use at once
Unshared(g) == ~ (\E b, c \in Branch : RegistryOf(b) = g /\ Overlap(b, c))

\* There is room for every stamp, and for that of the call that was let pass
Room(g) ==
    /\ Len(stamps[g]) <= RateLimit
    /\ \A b \in Branch :
          RegistryOf(b) = g /\ pc[b] = "admitted" => Len(stamps[g]) < RateLimit

Limited == \A g \in Registry : Suffix(g) /\ (Unshared(g) => Room(g))

LEMMA StampTypes ==
    ASSUME Typed, NEW g \in Registry
    PROVE  /\ stamps[g] \in Seq(0..setup.ticks) /\ called[g] \in Seq(0..setup.ticks)
           /\ Len(stamps[g]) \in Nat /\ Len(called[g]) \in Nat
           /\ DOMAIN stamps[g] = 1..Len(stamps[g]) /\ DOMAIN called[g] = 1..Len(called[g])
           /\ \A i \in 1..Len(called[g]) : called[g][i] \in Nat
           /\ WindowStart \in Nat /\ RateLimit \in Nat /\ setup.ticks \in Nat
<1>1. stamps[g] \in Seq(0..setup.ticks) /\ called[g] \in Seq(0..setup.ticks)
  BY DEF Typed, Calls
<1>2. setup.ticks \in Nat BY SetupTypes DEF Typed, Control
<1>3. \A i \in 1..Len(called[g]) : called[g][i] \in 0..setup.ticks BY <1>1, ElementOfSeq
<1>4. WindowStart \in Nat /\ RateLimit \in Nat
  BY LimitsAssumption DEF Typed, Control, WindowStart
<1>5. /\ Len(stamps[g]) \in Nat /\ Len(called[g]) \in Nat
      /\ DOMAIN stamps[g] = 1..Len(stamps[g]) /\ DOMAIN called[g] = 1..Len(called[g])
  BY <1>1, LenProperties
<1>6. \A i \in 1..Len(called[g]) : called[g][i] \in Nat BY <1>2, <1>3
<1>. QED BY <1>1, <1>2, <1>4, <1>5, <1>6

LEMMA LimitedInit == Init => Limited
<1>. SUFFICES ASSUME Init, NEW g \in Registry PROVE Suffix(g) /\ Room(g)
  BY DEF Limited
<1>1. stamps[g] = <<>> /\ called[g] = <<>> /\ \A b \in Branch : pc[b] = "ready" BY DEF Init
<1>2. Len(<<>>) = 0 BY EmptySeq
<1>3. Suffix(g) BY <1>1, <1>2 DEF Suffix, SuffixOf
<1>4. Room(g) BY <1>1, <1>2, LimitsAssumption DEF Room
<1>. QED BY <1>3, <1>4

\* Popping from the left what is too old keeps the suffix.
LEMMA SuffixPopped ==
    ASSUME Typed, NEW g \in Registry, Suffix(g), called'[g] = called[g], now' = now,
           stamps'[g] = Recent(stamps[g], WindowStart)
    PROVE  Suffix(g)' /\ Len(stamps'[g]) <= Len(stamps[g]) /\ Len(stamps'[g]) \in Nat
<1>. DEFINE q == stamps[g]
            r == Recent(stamps[g], WindowStart)
            k == called[g]
<1>1. /\ r \in Seq(0..setup.ticks) /\ Len(r) <= Len(q)
      /\ \A i \in DOMAIN r : r[i] = q[Len(q) - Len(r) + i]
      /\ \A i \in 1 .. (Len(q) - Len(r)) : q[i] < WindowStart
  BY StampTypes, RecentIsSuffix
<1>2. Len(r) \in Nat /\ DOMAIN r = 1..Len(r) BY <1>1, LenProperties
<1>3. Len(q) \in Nat /\ Len(k) \in Nat BY StampTypes
<1>4. /\ Len(q) <= Len(k)
      /\ \A i \in 1 .. Len(q) : q[i] = k[(Len(k) - Len(q)) + i]
      /\ \A i \in 1 .. (Len(k) - Len(q)) : k[i] < WindowStart
  BY DEF Suffix, SuffixOf
<1>5. WindowStart' = WindowStart BY DEF WindowStart
<1>6. stamps'[g] = r /\ called'[g] = k OBVIOUS
<1>. HIDE DEF q, r, k
<1>7. Len(r) <= Len(k) BY <1>1, <1>2, <1>3, <1>4
<1>8. ASSUME NEW i \in 1 .. Len(r) PROVE r[i] = k[(Len(k) - Len(r)) + i]
  <2>1. r[i] = q[Len(q) - Len(r) + i] BY <1>1, <1>2
  <2>2. Len(q) - Len(r) + i \in 1 .. Len(q) BY <1>1, <1>2, <1>3
  <2>3. q[Len(q) - Len(r) + i] = k[(Len(k) - Len(q)) + (Len(q) - Len(r) + i)]
    BY <2>2, <1>4
  <2>4. (Len(k) - Len(q)) + (Len(q) - Len(r) + i) = (Len(k) - Len(r)) + i
    BY <1>2, <1>3
  <2>. QED BY <2>1, <2>3, <2>4
<1>9. ASSUME NEW i \in 1 .. (Len(k) - Len(r)) PROVE k[i] < WindowStart
  <2>1. CASE i <= Len(k) - Len(q) BY <2>1, <1>2, <1>3, <1>4
  <2>2. CASE i > Len(k) - Len(q)
    <3>. DEFINE j == i - (Len(k) - Len(q))
    <3>1. j \in 1 .. (Len(q) - Len(r)) /\ j \in 1 .. Len(q) BY <2>2, <1>1, <1>2, <1>3, <1>4
    <3>2. q[j] < WindowStart /\ q[j] = k[(Len(k) - Len(q)) + j] BY <3>1, <1>1, <1>4
    <3>3. (Len(k) - Len(q)) + j = i BY <1>3
    <3>. QED BY <3>2, <3>3
  <2>. QED BY <2>1, <2>2, <1>2, <1>3
<1>10. \A i \in 1 .. Len(r) : r[i] = k[(Len(k) - Len(r)) + i] BY <1>8
<1>11. SuffixOf(r, k, WindowStart) BY <1>7, <1>9, <1>10 DEF SuffixOf
<1>12. Suffix(g)' BY <1>5, <1>6, <1>11 DEF Suffix
<1>. QED BY <1>1, <1>2, <1>6, <1>12 DEF q

\* So does the stamp of a new call.
LEMMA SuffixStamped ==
    ASSUME Typed, NEW g \in Registry, Suffix(g), now' = now, NEW t \in 0..setup.ticks,
           stamps'[g] = Append(stamps[g], t), called'[g] = Append(called[g], t)
    PROVE  Suffix(g)' /\ Len(stamps'[g]) = Len(stamps[g]) + 1
<1>. DEFINE q == stamps[g]
            k == called[g]
            r == Append(stamps[g], t)
            m == Append(called[g], t)
<1>1. /\ Len(r) = Len(q) + 1 /\ r[Len(q) + 1] = t
      /\ \A i \in 1 .. Len(q) : r[i] = q[i]
  BY StampTypes, AppendProperties
<1>2. /\ Len(m) = Len(k) + 1 /\ m[Len(k) + 1] = t
      /\ \A i \in 1 .. Len(k) : m[i] = k[i]
  BY StampTypes, AppendProperties
<1>3. Len(q) \in Nat /\ Len(k) \in Nat BY StampTypes
<1>4. /\ Len(q) <= Len(k)
      /\ \A i \in 1 .. Len(q) : q[i] = k[(Len(k) - Len(q)) + i]
      /\ \A i \in 1 .. (Len(k) - Len(q)) : k[i] < WindowStart
  BY DEF Suffix, SuffixOf
<1>5. WindowStart' = WindowStart BY DEF WindowStart
<1>6. stamps'[g] = r /\ called'[g] = m OBVIOUS
<1>. HIDE DEF q, r, k, m
<1>7. Len(r) <= Len(m) /\ Len(m) - Len(r) = Len(k) - Len(q) BY <1>1, <1>2, <1>3, <1>4
<1>8. ASSUME NEW i \in 1 .. Len(r) PROVE r[i] = m[(Len(m) - Len(r)) + i]
  <2>1. CASE i = Len(q) + 1
    <3>1. (Len(m) - Len(r)) + i = Len(k) + 1 BY <2>1, <1>3, <1>7
    <3>. QED BY <3>1, <2>1, <1>1, <1>2
  <2>2. CASE i # Len(q) + 1
    <3>1. i \in 1 .. Len(q) BY <2>2, <1>1, <1>3
    <3>2. (Len(k) - Len(q)) + i \in 1 .. Len(k) BY <3>1, <1>3, <1>4
    <3>3. r[i] = q[i] /\ q[i] = k[(Len(k) - Len(q)) + i] BY <3>1, <1>1, <1>4
    <3>4. m[(Len(k) - Len(q)) + i] = k[(Len(k) - Len(q)) + i] BY <3>2, <1>2
    <3>. QED BY <3>3, <3>4, <1>7
  <2>. QED BY <2>1, <2>2
<1>9. ASSUME NEW i \in 1 .. (Len(m) - Len(r)) PROVE m[i] < WindowStart
  <2>1. i \in 1 .. (Len(k) - Len(q)) /\ i \in 1 .. Len(k) BY <1>3, <1>4, <1>7
  <2>. QED BY <2>1, <1>2, <1>4
<1>10. \A i \in 1 .. Len(r) : r[i] = m[(Len(m) - Len(r)) + i] BY <1>8
<1>11. SuffixOf(r, m, WindowStart) BY <1>7, <1>9, <1>10 DEF SuffixOf
<1>12. Suffix(g)' BY <1>5, <1>6, <1>11 DEF Suffix
<1>. QED BY <1>1, <1>6, <1>12 DEF q

\* Only the check and the stamp of a call touch its registry's stamps, and only
\* the check lets a branch pass.
LEMMA StampsUntouched ==
    ASSUME Typed, NEW b \in Branch, Step(b), ~ ToolCheck(b), ~ ToolStamp(b)
    PROVE  UNCHANGED <<stamps, called>> /\ pc'[b] # "admitted"
<1>. USE DEF registry, Go
<1>1. pc \in [Branch -> Places] BY DEF Typed, Control
<1>2. CASE Start(b) \/ Turn(b) \/ TurnAnswered(b) \/ Forced(b) \/ ForcedAnswered(b)
  BY <1>1, <1>2 DEF Start, Turn, TurnAnswered, Forced, ForcedAnswered
<1>3. CASE ToolBefore(b) \/ ToolUnknown(b) \/ ToolMisused(b) \/ ToolLogged(b) \/ ToolCollect(b)
  BY <1>1, <1>3 DEF ToolBefore, ToolUnknown, ToolMisused, ToolLogged, ToolCollect, AfterTool
<1>4. CASE Final(b) \/ FinalAnswered(b) \/ Settle(b) \/ Fail(b) \/ Trace(b) \/ TraceLate(b)
  BY <1>1, <1>4 DEF Final, FinalAnswered, Settle, Fail, Trace, TraceLate
<1>. QED BY <1>2, <1>3, <1>4 DEF Step

\* Where a registry is not shared at a time, the branch at it is alone there.
LEMMA AloneAtRegistry ==
    ASSUME Typed, Sequential, NEW b \in Branch, NEW c \in Branch, Active(b), Active(c),
           RegistryOf(b) = RegistryOf(c), Unshared(RegistryOf(b))
    PROVE  b = c
BY DEF Sequential, Unshared, Overlap

LEMMA LimitedStep == Typed /\ Sequential /\ Limited /\ [Next]_vars => Limited'
<1>. SUFFICES ASSUME Typed, Sequential, Limited, [Next]_vars, NEW g \in Registry
              PROVE  Suffix(g)' /\ (Unshared(g)' => Room(g)')
  BY DEF Limited
<1>1. Suffix(g) /\ (Unshared(g) => Room(g)) BY DEF Limited
<1>2. ASSUME NEW b \in Branch, Step(b) PROVE Suffix(g)' /\ (Unshared(g)' => Room(g)')
  <2>1. /\ setup' = setup /\ now' = now
        /\ \A c \in Branch \ {b} : pc'[c] = pc[c]
    BY <1>2, OthersUntouched
  <2>2. /\ Unshared(g)' <=> Unshared(g)
        /\ \A c \in Branch : RegistryOf(c)' = RegistryOf(c)
    BY <2>1 DEF Unshared, Overlap, RegistryOf
  <2>3. WindowStart' = WindowStart BY <2>1 DEF WindowStart
  <2>4. CASE ToolCheck(b) /\ RegistryOf(b) = g
    <3>1. stamps'[g] = Recent(stamps[g], WindowStart) /\ called'[g] = called[g]
      BY <2>4 DEF ToolCheck, Typed, Calls
    <3>2. Suffix(g)' /\ Len(stamps'[g]) <= Len(stamps[g]) /\ Len(stamps'[g]) \in Nat
      BY <1>1, <2>1, <3>1, SuffixPopped
    <3>3. ASSUME Unshared(g)' PROVE Room(g)'
      <4>1. Unshared(g) /\ Room(g) BY <1>1, <2>2, <3>3
      <4>2. Len(stamps'[g]) <= RateLimit BY <3>2, <4>1, StampTypes DEF Room
      <4>3. ASSUME NEW c \in Branch, RegistryOf(c)' = g, pc'[c] = "admitted"
            PROVE  Len(stamps'[g]) < RateLimit
        <5>1. CASE c = b
          <6>1. ~ Full(Recent(stamps[g], WindowStart))
            BY <2>4, <4>3, <5>1 DEF ToolCheck, Go, Typed, Control, Stamps
          <6>. QED BY <6>1, <3>1, <3>2, StampTypes DEF Full
        <5>2. CASE c # b
          <6>1. pc[c] = "admitted" /\ pc[b] = "invoke" BY <2>1, <2>4, <4>3, <5>2 DEF ToolCheck
          <6>2. Active(b) /\ Active(c) BY <6>1 DEF Active
          <6>3. RegistryOf(c) = RegistryOf(b) BY <2>2, <2>4, <4>3
          <6>. QED BY <2>4, <4>1, <5>2, <6>2, <6>3, AloneAtRegistry
        <5>. QED BY <5>1, <5>2
      <4>. QED BY <4>2, <4>3 DEF Room
    <3>. QED BY <3>2, <3>3
  <2>5. CASE ToolStamp(b) /\ RegistryOf(b) = g
    <3>1. /\ stamps'[g] = Append(stamps[g], stampAt[b])
          /\ called'[g] = Append(called[g], stampAt[b])
          /\ stampAt[b] \in 0..setup.ticks /\ pc[b] = "admitted" /\ pc'[b] = "tool running"
      BY <2>5 DEF ToolStamp, Typed, Calls, Control, Go
    <3>2. Suffix(g)' /\ Len(stamps'[g]) = Len(stamps[g]) + 1
      BY <1>1, <2>1, <3>1, SuffixStamped
    <3>3. ASSUME Unshared(g)' PROVE Room(g)'
      <4>1. Unshared(g) /\ Room(g) BY <1>1, <2>2, <3>3
      <4>2. Len(stamps[g]) < RateLimit BY <2>5, <3>1, <4>1 DEF Room
      <4>3. Len(stamps'[g]) <= RateLimit BY <3>2, <4>2, StampTypes
      <4>4. ASSUME NEW c \in Branch, RegistryOf(c)' = g, pc'[c] = "admitted" PROVE FALSE
        <5>1. c # b BY <3>1, <4>4
        <5>2. Active(b) /\ Active(c) BY <2>1, <3>1, <4>4, <5>1 DEF Active
        <5>3. RegistryOf(c) = RegistryOf(b) BY <2>2, <2>5, <4>4
        <5>. QED BY <2>5, <4>1, <5>1, <5>2, <5>3, AloneAtRegistry
      <4>. QED BY <4>3, <4>4 DEF Room
    <3>. QED BY <3>2, <3>3
  <2>6. CASE ~ (ToolCheck(b) /\ RegistryOf(b) = g) /\ ~ (ToolStamp(b) /\ RegistryOf(b) = g)
    <3>1. stamps'[g] = stamps[g] /\ called'[g] = called[g]
      BY <1>2, <2>6, StampsUntouched, SharedUntouched
    <3>2. Suffix(g)' BY <1>1, <2>3, <3>1 DEF Suffix
    <3>3. ASSUME NEW c \in Branch, RegistryOf(c)' = g, pc'[c] = "admitted"
          PROVE  pc[c] = "admitted" /\ RegistryOf(c) = g
      <4>1. RegistryOf(c) = g BY <2>2, <3>3
      <4>2. CASE c = b
        <5>1. ~ ToolCheck(b) BY <2>6, <4>1, <4>2
        <5>2. ~ ToolStamp(b) BY <2>6, <4>1, <4>2
        <5>. QED BY <1>2, <3>3, <4>2, <5>1, <5>2, StampsUntouched
      <4>3. CASE c # b BY <2>1, <3>3, <4>1, <4>3
      <4>. QED BY <4>2, <4>3
    <3>4. Room(g) => Room(g)' BY <3>1, <3>3 DEF Room
    <3>. QED BY <1>1, <2>2, <3>2, <3>4
  <2>. QED BY <2>4, <2>5, <2>6
<1>3. CASE Tick
  <2>1. UNCHANGED <<setup, pc, stamps, called>> /\ now' = now + 1
    BY <1>3 DEF Tick, batch, registry
  <2>2. WindowStart' \in Nat /\ WindowStart <= WindowStart'
    BY <2>1, LimitsAssumption DEF WindowStart, Typed, Control
  <2>3. \A i \in 1 .. (Len(called[g]) - Len(stamps[g])) : called[g][i] < WindowStart'
    <3>1. TAKE i \in 1 .. (Len(called[g]) - Len(stamps[g]))
    <3>2. called[g][i] < WindowStart BY <1>1 DEF Suffix, SuffixOf
    <3>3. called[g][i] \in Nat BY StampTypes
    <3>. QED BY <2>2, <3>2, <3>3, StampTypes
  <2>4. SuffixOf(stamps[g], called[g], WindowStart')
    BY <1>1, <2>3 DEF Suffix, SuffixOf
  <2>5. Suffix(g)' BY <2>1, <2>4 DEF Suffix
  <2>6. Unshared(g)' => Room(g)'
    BY <1>1, <2>1 DEF Unshared, Overlap, RegistryOf, Room
  <2>. QED BY <2>5, <2>6
<1>4. CASE UNCHANGED vars \/ \E b \in Branch : GiveUp(b)
  <2>1. UNCHANGED <<setup, pc, stamps, called, now>>
    BY <1>4 DEF GiveUp, vars, batch, registry
  <2>2. Suffix(g)' BY <1>1, <2>1 DEF Suffix, WindowStart
  <2>3. Unshared(g)' => Room(g)'
    BY <1>1, <2>1 DEF Unshared, Overlap, RegistryOf, Room
  <2>. QED BY <2>2, <2>3
<1>. QED BY <1>2, <1>3, <1>4 DEF Next

\* No more entries are past a start than there are after those before it.
LEMMA RecentAreFew ==
    ASSUME NEW n \in Nat, NEW popped \in 0..n, NEW k \in [1..n -> Nat], NEW start \in Nat,
           \A i \in 1 .. popped : k[i] < start
    PROVE  /\ Cardinality({i \in 1..n : k[i] >= start}) \in Nat
           /\ Cardinality({i \in 1..n : k[i] >= start}) <= n - popped
<1>. DEFINE counted == {i \in 1..n : k[i] >= start}
            kept == (popped + 1) .. n
<1>1. counted \subseteq kept
  <2>. SUFFICES ASSUME NEW i \in 1..n, k[i] >= start PROVE i \in kept OBVIOUS
  <2>1. i \notin 1 .. popped OBVIOUS
  <2>. QED BY <2>1
<1>2. IsFiniteSet(kept) /\ Cardinality(kept) = n - popped
  <2>1. /\ IsFiniteSet(kept)
        /\ Cardinality(kept) = IF popped + 1 > n THEN 0 ELSE n - (popped + 1) + 1
    BY FS_Interval
  <2>. QED BY <2>1
<1>3. IsFiniteSet(counted) /\ Cardinality(counted) <= Cardinality(kept)
  BY <1>1, <1>2, FS_Subset
<1>. QED BY <1>2, <1>3, FS_CardinalityType

LEMMA LimitedHolds == Typed /\ Limited => RateLimitHolds
<1>. SUFFICES ASSUME Typed, Limited, NEW g \in Registry, Unshared(g)
              PROVE  Cardinality({i \in DOMAIN called[g] : called[g][i] >= WindowStart}) <= RateLimit
  BY DEF RateLimitHolds, Unshared
<1>. DEFINE k == called[g]
            n == Len(called[g])
            m == Len(stamps[g])
            counted == {i \in 1..n : k[i] >= WindowStart}
<1>1. /\ n \in Nat /\ m \in Nat /\ k \in [1..n -> Nat] /\ DOMAIN k = 1..n
      /\ RateLimit \in Nat /\ WindowStart \in Nat
  <2>1. k \in [1..n -> 0..setup.ticks] BY StampTypes, LenProperties
  <2>2. \A i \in 1..n : k[i] \in Nat BY StampTypes
  <2>. QED BY <2>1, <2>2, StampTypes
<1>2. m <= n /\ \A i \in 1 .. (n - m) : k[i] < WindowStart
  BY DEF Limited, Suffix, SuffixOf
<1>3. m <= RateLimit BY DEF Limited, Room
<1>. HIDE DEF k, n, m
<1>4. n - m \in 0..n BY <1>1, <1>2
<1>5. Cardinality(counted) \in Nat /\ Cardinality(counted) <= n - (n - m)
  BY <1>1, <1>2, <1>4, RecentAreFew
<1>. HIDE DEF counted
<1>6. Cardinality(counted) <= RateLimit BY <1>1, <1>3, <1>5
<1>. QED BY <1>1, <1>6 DEF counted, k

\* RateLimitHolds: a registry lets no more calls of the tool pass within its minute
\* than the limit, for any limit and minute, unless two branches use the registry at
\* once (tools/registry.py:27-39 tests and stamps without a lock).
THEOREM RateLimitHoldsAlways == Spec => []RateLimitHolds
<1>1. Init => Typed /\ Sequential /\ Limited
  BY TypedInit, SequentialInit, LimitedInit
<1>2. Typed /\ Sequential /\ Limited /\ [Next]_vars => (Typed /\ Sequential /\ Limited)'
  BY TypesStep, SequentialStep, LimitedStep
<1>3. Spec => [](Typed /\ Sequential /\ Limited) BY <1>1, <1>2, PTL DEF Spec
<1>. QED BY <1>3, LimitedHolds, PTL

-----------------------------------------------------------------------------
\* What an agent object carries from one step of a branch to a later one

\* n model calls of b, and no others
Own(b, n) == [None EXCEPT ![b] = n]

Answered == {"turn answered", "forced answered", "final answered"}

\* total_usage has all of a branch's model calls but the last, while that one's
\* usage is still to be added; what the agent shows at the end is what the trace
\* event takes
Carried(b) ==
    /\ pc[b] \in Answered =>
          /\ modelCalls[b] > 0 /\ total[b] = Own(b, modelCalls[b] - 1)
          /\ lastUsage[AgentOf(b)] = Own(b, 1)
    /\ pc[b] \notin Answered => total[b] = Own(b, modelCalls[b])
    /\ pc[b] = "trace" => lastUsage[AgentOf(b)] = total[b]
    /\ Traced(b) => event[b].usage = Own(b, modelCalls[b])

\* No other branch uses the agent of b while b runs
AloneAtAgent(b) == AtAgentOf(b) = {b}

OwnResults == \A b \in Branch : AloneAtAgent(b) => Carried(b)

LEMMA UsageSums ==
    ASSUME NEW b \in Branch
    PROVE  /\ One(b) = Own(b, 1) /\ None = Own(b, 0)
           /\ \A n \in Nat : n > 0 => Plus(Own(b, n - 1), Own(b, 1)) = Own(b, n)
BY DEF One, None, Own, Plus

\* A branch whose agent another branch's step is on, while it runs itself, shares
\* the agent with that branch.
LEMMA AgentsOfOthers ==
    ASSUME Typed, Sequential, NEW b \in Branch, Step(b),
           NEW c \in Branch, c # b, Active(c)
    PROVE  /\ AgentOf(c) \in Agent
           /\ AgentOf(c) = AgentOf(b) => AtAgentOf(c) = AtAgentOf(b) /\ b \in AtAgentOf(c)
<1>1. setup \in Setups /\ AgentOf(c) \in Agent BY SetupTypes DEF Typed, Control
<1>2. setup.parallel
  <2>1. CASE pc[b] = "ready" BY <2>1, OthersUntouched DEF Start, Active
  <2>2. CASE pc[b] # "ready"
    <3>1. Active(b) BY <2>2, OthersUntouched DEF Active
    <3>. QED BY <3>1 DEF Sequential
  <2>. QED BY <2>1, <2>2
<1>. QED BY <1>1, <1>2 DEF AtAgentOf

LEMMA OwnResultsInit == Init => OwnResults
<1>. SUFFICES ASSUME Init, NEW b \in Branch PROVE Carried(b) BY DEF OwnResults
<1>1. pc[b] = "ready" /\ total[b] = None /\ modelCalls[b] = 0 BY DEF Init, None
<1>. QED BY <1>1, UsageSums DEF Carried, Answered, Traced

\* A call of the model and what is noted of it
LEMMA ModelCalled ==
    ASSUME Typed, NEW b \in Branch, Carried(b), CallModel(b), setup' = setup,
           total' = total, pc[b] \in {"turn", "forced", "final"}, pc'[b] \in Answered
    PROVE  Carried(b)'
<1>1. /\ modelCalls[b] \in Nat /\ AgentOf(b) \in Agent
      /\ modelCalls' = [modelCalls EXCEPT ![b] = modelCalls[b] + 1]
      /\ lastUsage' = [lastUsage EXCEPT ![AgentOf(b)] = Own(b, 1)]
      /\ AgentOf(b)' = AgentOf(b)
  BY UsageSums, SetupTypes DEF Typed, Control, Counts, Usage, CallModel, AgentOf
<1>2. /\ modelCalls'[b] = modelCalls[b] + 1 /\ lastUsage'[AgentOf(b)] = Own(b, 1)
  BY <1>1 DEF Typed, Counts, Usage
<1>3. modelCalls'[b] > 0 /\ modelCalls'[b] - 1 = modelCalls[b] BY <1>1, <1>2
<1>4. total[b] = Own(b, modelCalls[b]) BY DEF Carried, Answered
<1>5. total'[b] = Own(b, modelCalls'[b] - 1) BY <1>3, <1>4
<1>. QED BY <1>1, <1>2, <1>3, <1>4, <1>5 DEF Carried, Answered, Traced

LEMMA ModelCounted ==
    ASSUME Typed, NEW b \in Branch, Carried(b), Accumulate(b), setup' = setup,
           UNCHANGED <<modelCalls, agent>>, pc[b] \in Answered,
           pc'[b] \in {"tool", "final", "settle"}
    PROVE  Carried(b)'
<1>1. total'[b] = Plus(total[b], lastUsage[AgentOf(b)]) BY DEF Accumulate, Typed, Counts
<1>2. /\ modelCalls[b] > 0 /\ total[b] = Own(b, modelCalls[b] - 1)
      /\ lastUsage[AgentOf(b)] = Own(b, 1)
  BY DEF Carried, Answered
<1>3. modelCalls[b] \in Nat BY DEF Typed, Counts, Usage
<1>4. total'[b] = Own(b, modelCalls[b]) BY <1>1, <1>2, <1>3, UsageSums
<1>5. AgentOf(b)' = AgentOf(b) BY DEF AgentOf
<1>. QED BY <1>2, <1>4, <1>5 DEF Carried, Answered, Traced, agent

\* The steps of a tool call do not touch the agent.
LEMMA AgentIdle ==
    ASSUME Typed, NEW b \in Branch, Carried(b), setup' = setup, total' = total,
           UNCHANGED <<modelCalls, agent>>, pc[b] \in InTool,
           pc'[b] \in InTool \union {"turn", "forced"}
    PROVE  Carried(b)'
<1>1. total[b] = Own(b, modelCalls[b]) BY DEF Carried, Answered, InTool
<1>2. AgentOf(b)' = AgentOf(b) BY DEF AgentOf
<1>. QED BY <1>1, <1>2 DEF Carried, Answered, Traced, InTool, agent

LEMMA OwnStepCarries ==
    ASSUME Typed, NEW b \in Branch, Carried(b), Step(b)
    PROVE  Carried(b)'
<1>. USE DEF Go, batch, loop, agent
<1>1. /\ pc \in [Branch -> Places] /\ AgentOf(b) \in Agent
      /\ setup' = setup /\ late' = late /\ AgentOf(b)' = AgentOf(b)
      /\ DOMAIN lastUsage = Agent
  BY SetupTypes, OthersUntouched DEF Typed, Control, Counts, AgentOf
<1>2. CASE Start(b)
  <2>1. /\ pc'[b] = "turn" /\ pc[b] = "ready"
        /\ total' = total /\ modelCalls' = modelCalls
    BY <1>1, <1>2 DEF Start
  <2>2. total[b] = Own(b, modelCalls[b]) BY <2>1 DEF Carried, Answered
  <2>. QED BY <1>1, <2>1, <2>2 DEF Carried, Answered, Traced
<1>3. CASE Turn(b) \/ Forced(b) \/ Final(b)
  <2>1. /\ CallModel(b) /\ total' = total
        /\ pc[b] \in {"turn", "forced", "final"} /\ pc'[b] \in Answered
    BY <1>1, <1>3 DEF Turn, Forced, Final, Answered
  <2>. QED BY <1>1, <2>1, ModelCalled
<1>4. CASE TurnAnswered(b) \/ ForcedAnswered(b) \/ FinalAnswered(b)
  <2>1. /\ Accumulate(b) /\ UNCHANGED <<modelCalls, agent>>
        /\ pc[b] \in Answered /\ pc'[b] \in {"tool", "final", "settle"}
    BY <1>1, <1>4 DEF TurnAnswered, ForcedAnswered, FinalAnswered, Answered
  <2>. QED BY <1>1, <2>1, ModelCounted
<1>5. CASE \/ ToolBefore(b) \/ ToolUnknown(b) \/ ToolMisused(b) \/ ToolCheck(b)
           \/ ToolStamp(b) \/ ToolLogged(b) \/ ToolCollect(b)
  <2>1. CASE ToolUnknown(b) \/ ToolCollect(b)
    <3>1. /\ total' = total /\ UNCHANGED <<modelCalls, agent>>
          /\ pc[b] \in InTool /\ pc'[b] = AfterTool(b)
      BY <1>1, <2>1 DEF ToolUnknown, ToolCollect, InTool
    <3>2. AfterTool(b) \in InTool \union {"turn", "forced"} BY DEF AfterTool, InTool
    <3>. QED BY <1>1, <3>1, <3>2, AgentIdle
  <2>2. CASE ToolBefore(b) \/ ToolMisused(b) \/ ToolCheck(b) \/ ToolStamp(b) \/ ToolLogged(b)
    <3>1. /\ total' = total /\ UNCHANGED <<modelCalls, agent>>
          /\ pc[b] \in InTool /\ pc'[b] \in InTool
      BY <1>1, <2>2 DEF ToolBefore, ToolMisused, ToolCheck, ToolStamp, ToolLogged, InTool
    <3>. QED BY <1>1, <3>1, AgentIdle
  <2>. QED BY <1>5, <2>1, <2>2
<1>6. CASE Settle(b)
  <2>1. /\ lastUsage'[AgentOf(b)] = total[b]
        /\ pc[b] = "settle" /\ pc'[b] = "trace"
        /\ total' = total /\ modelCalls' = modelCalls
    BY <1>1, <1>6 DEF Settle
  <2>2. total[b] = Own(b, modelCalls[b]) BY <2>1 DEF Carried, Answered
  <2>. QED BY <1>1, <2>1, <2>2 DEF Carried, Answered, Traced
<1>7. CASE Fail(b)
  <2>1. /\ lastUsage'[AgentOf(b)] = total[b]
        /\ pc[b] \in {"turn", "forced", "final", "settle"} /\ pc'[b] = "trace"
        /\ total' = total /\ modelCalls' = modelCalls
    BY <1>1, <1>7 DEF Fail
  <2>2. total[b] = Own(b, modelCalls[b]) BY <2>1 DEF Carried, Answered
  <2>. QED BY <1>1, <2>1, <2>2 DEF Carried, Answered, Traced
<1>8. CASE Trace(b)
  <2>1. /\ pc[b] = "trace" /\ pc'[b] = "done" /\ total' = total /\ modelCalls' = modelCalls
        /\ event' = [event EXCEPT ![b].usage = lastUsage[AgentOf(b)],
                                  ![b].prompt = lastPrompt[AgentOf(b)],
                                  ![b].response = lastResponse[AgentOf(b)]]
    BY <1>1, <1>8 DEF Trace
  <2>2. event'[b].usage = lastUsage[AgentOf(b)] BY <2>1 DEF Typed, Texts
  <2>3. total[b] = Own(b, modelCalls[b]) /\ lastUsage[AgentOf(b)] = total[b]
    BY <2>1 DEF Carried, Answered
  <2>. QED BY <1>1, <2>1, <2>2, <2>3 DEF Carried, Answered
<1>9. CASE TraceLate(b)
  <2>1. /\ pc[b] = "trace" /\ pc'[b] = "done" /\ total' = total /\ modelCalls' = modelCalls
        /\ b \in late
    BY <1>1, <1>9 DEF TraceLate
  <2>2. total[b] = Own(b, modelCalls[b]) BY <2>1 DEF Carried, Answered
  <2>. QED BY <1>1, <2>1, <2>2 DEF Carried, Answered, Traced
<1>. QED BY <1>2, <1>3, <1>4, <1>5, <1>6, <1>7, <1>8, <1>9 DEF Step

LEMMA OwnResultsStep == Typed /\ Sequential /\ OwnResults /\ [Next]_vars => OwnResults'
<1>. SUFFICES ASSUME Typed, Sequential, OwnResults, [Next]_vars PROVE OwnResults' OBVIOUS
<1>1. ASSUME NEW b \in Branch, Step(b), NEW c \in Branch, AloneAtAgent(c)'
      PROVE  Carried(c)'
  <2>1. setup' = setup BY <1>1, OthersUntouched
  <2>2. AloneAtAgent(c) /\ AgentOf(c)' = AgentOf(c)
    BY <1>1, <2>1 DEF AloneAtAgent, AtAgentOf, AgentOf
  <2>3. Carried(c) BY <2>2 DEF OwnResults
  <2>4. CASE c = b BY <1>1, <2>3, <2>4, OwnStepCarries
  <2>5. CASE c # b
    <3>1. /\ late' = late /\ pc'[c] = pc[c] /\ total'[c] = total[c] /\ event'[c] = event[c]
          /\ modelCalls'[c] = modelCalls[c]
      BY <1>1, <2>5, OthersUntouched
    <3>2. CASE Active(c)
      <4>1. AgentOf(c) \in Agent \ {AgentOf(b)}
        BY <1>1, <2>2, <2>5, <3>2, AgentsOfOthers DEF AloneAtAgent
      <4>2. lastUsage'[AgentOf(c)] = lastUsage[AgentOf(c)] BY <1>1, <4>1, SharedUntouched
      <4>. QED BY <2>2, <2>3, <3>1, <4>2 DEF Carried, Traced
    <3>3. CASE ~ Active(c)
      BY <2>3, <3>1, <3>3 DEF Carried, Active, Answered, Traced
    <3>. QED BY <3>2, <3>3
  <2>. QED BY <2>4, <2>5
<1>2. ASSUME NEW b \in Branch, GiveUp(b), NEW c \in Branch, AloneAtAgent(c)'
      PROVE  Carried(c)'
  <2>1. /\ UNCHANGED <<setup, pc, total, event, lastUsage, modelCalls>> /\ late \subseteq late'
    BY <1>2 DEF GiveUp, loop, agent
  <2>2. Carried(c) BY <1>2, <2>1 DEF OwnResults, AloneAtAgent, AtAgentOf, AgentOf
  <2>. QED BY <2>1, <2>2 DEF Carried, Traced, AgentOf
<1>3. CASE Tick \/ UNCHANGED vars
  <2>1. UNCHANGED <<setup, late, pc, total, event, lastUsage, modelCalls>>
    BY <1>3 DEF Tick, vars, batch, loop, agent
  <2>. QED BY <2>1 DEF OwnResults, AloneAtAgent, AtAgentOf, Carried, Traced, AgentOf
<1>. QED BY <1>1, <1>2, <1>3 DEF Next, OwnResults

-----------------------------------------------------------------------------
\* An agent that several branches use at the same time

\* A usage with model calls of these branches only
Within(u, group) == \A c \in Branch : u[c] > 0 => c \in group

\* Whatever the branches at one agent overwrite and add up, it is theirs: what b
\* reads from the agent has been written by b itself or by one of those after b
\* began.
Mixed(b) ==
    /\ Within(total[b], AtAgentOf(b))
    /\ pc[b] \in Answered \union {"trace"} => Within(lastUsage[AgentOf(b)], AtAgentOf(b))
    /\ Active(b) => lastPrompt[AgentOf(b)] \in AtAgentOf(b)
    /\ pc[b] = "trace" /\ event[b].success => lastResponse[AgentOf(b)] \in AtAgentOf(b)
    /\ Traced(b) =>
          /\ Within(event[b].usage, AtAgentOf(b)) /\ event[b].prompt \in AtAgentOf(b)
          /\ event[b].success => event[b].response \in AtAgentOf(b)

MixedResults == \A b \in Branch : Mixed(b)

LEMMA WithinSums ==
    ASSUME NEW b \in Branch
    PROVE  /\ b \in AtAgentOf(b)
           /\ Within(None, AtAgentOf(b)) /\ Within(One(b), AtAgentOf(b))
           /\ \A u, v \in Usage : Within(u, AtAgentOf(b)) /\ Within(v, AtAgentOf(b))
                                    => Within(Plus(u, v), AtAgentOf(b))
<1>1. b \in AtAgentOf(b) BY DEF AtAgentOf
<1>2. \A c \in Branch : None[c] = 0 /\ One(b)[c] = IF c = b THEN 1 ELSE 0
  BY DEF None, One
<1>3. Within(None, AtAgentOf(b)) /\ Within(One(b), AtAgentOf(b)) BY <1>1, <1>2 DEF Within
<1>4. ASSUME NEW u \in Usage, NEW v \in Usage, Within(u, AtAgentOf(b)), Within(v, AtAgentOf(b))
      PROVE  Within(Plus(u, v), AtAgentOf(b))
  <2>. SUFFICES ASSUME NEW c \in Branch, Plus(u, v)[c] > 0 PROVE c \in AtAgentOf(b)
    BY DEF Within
  <2>1. u[c] \in Nat /\ v[c] \in Nat /\ Plus(u, v)[c] = u[c] + v[c] BY DEF Usage, Plus
  <2>2. u[c] > 0 \/ v[c] > 0 BY <2>1
  <2>. QED BY <1>4, <2>2 DEF Within
<1>. QED BY <1>1, <1>3, <1>4

LEMMA MixedInit == Init => MixedResults
<1>. SUFFICES ASSUME Init, NEW b \in Branch PROVE Mixed(b) BY DEF MixedResults
<1>1. pc[b] = "ready" /\ total[b] = None BY DEF Init
<1>. QED BY <1>1, WithinSums DEF Mixed, Answered, Active, Traced

\* What a step of b leaves in its agent
LEMMA AgentWritten ==
    ASSUME Typed, NEW b \in Branch, Mixed(b), Step(b)
    PROVE  /\ \/ lastUsage'[AgentOf(b)] = lastUsage[AgentOf(b)]
              \/ Within(lastUsage'[AgentOf(b)], AtAgentOf(b))
           /\ lastPrompt'[AgentOf(b)] \in {lastPrompt[AgentOf(b)], b}
           /\ lastResponse'[AgentOf(b)] \in {lastResponse[AgentOf(b)], b}
<1>. USE DEF agent, CallModel
<1>1. /\ AgentOf(b) \in Agent /\ DOMAIN lastUsage = Agent /\ DOMAIN lastPrompt = Agent
      /\ DOMAIN lastResponse = Agent
  BY SetupTypes DEF Typed, Control, Counts, Texts
<1>2. CASE Start(b) BY <1>1, <1>2 DEF Start
<1>3. CASE Turn(b) \/ Forced(b) \/ Final(b)
  BY <1>1, <1>3, WithinSums DEF Turn, Forced, Final
<1>4. CASE Settle(b) \/ Fail(b) BY <1>1, <1>4 DEF Settle, Fail, Mixed
<1>5. CASE TurnAnswered(b) \/ ForcedAnswered(b) \/ FinalAnswered(b)
  BY <1>5 DEF TurnAnswered, ForcedAnswered, FinalAnswered
<1>6. CASE \/ ToolBefore(b) \/ ToolUnknown(b) \/ ToolMisused(b) \/ ToolCheck(b)
           \/ ToolStamp(b) \/ ToolLogged(b) \/ ToolCollect(b)
  BY <1>6 DEF ToolBefore, ToolUnknown, ToolMisused, ToolCheck, ToolStamp, ToolLogged, ToolCollect
<1>7. CASE Trace(b) \/ TraceLate(b) BY <1>7 DEF Trace, TraceLate
<1>. QED BY <1>2, <1>3, <1>4, <1>5, <1>6, <1>7 DEF Step

\* The part of Mixed(b) that is about b's own total
LEMMA TotalStaysWithin ==
    ASSUME Typed, NEW b \in Branch, Mixed(b), Step(b)
    PROVE  Within(total'[b], AtAgentOf(b))
<1>. USE DEF loop
<1>1. CASE TurnAnswered(b) \/ ForcedAnswered(b) \/ FinalAnswered(b)
  <2>1. Accumulate(b) /\ pc[b] \in Answered
    BY <1>1 DEF TurnAnswered, ForcedAnswered, FinalAnswered, Answered
  <2>2. /\ total[b] \in Usage /\ lastUsage[AgentOf(b)] \in Usage
        /\ total'[b] = Plus(total[b], lastUsage[AgentOf(b)])
    BY <2>1, SetupTypes DEF Accumulate, Typed, Control, Counts
  <2>3. Within(total[b], AtAgentOf(b)) /\ Within(lastUsage[AgentOf(b)], AtAgentOf(b))
    BY <2>1 DEF Mixed
  <2>. QED BY <2>2, <2>3, WithinSums
<1>2. CASE ~ (TurnAnswered(b) \/ ForcedAnswered(b) \/ FinalAnswered(b))
  <2>1. total' = total
    BY <1>2 DEF Step, Start, Turn, Forced, ToolBefore, ToolUnknown, ToolMisused, ToolCheck,
                ToolStamp, ToolLogged, ToolCollect, Final, Settle, Fail, Trace, TraceLate
  <2>. QED BY <2>1 DEF Mixed
<1>. QED BY <1>1, <1>2

LEMMA OwnStepMixes ==
    ASSUME Typed, NEW b \in Branch, Mixed(b), Step(b)
    PROVE  Mixed(b)'
<1>. USE DEF Go
<1>1. /\ pc \in [Branch -> Places] /\ AgentOf(b) \in Agent /\ setup' = setup /\ late' = late
      /\ AgentOf(b)' = AgentOf(b) /\ AtAgentOf(b)' = AtAgentOf(b)
      /\ DOMAIN lastUsage = Agent /\ DOMAIN lastPrompt = Agent /\ DOMAIN lastResponse = Agent
  BY SetupTypes, OthersUntouched DEF Typed, Control, Counts, Texts, AgentOf, AtAgentOf
<1>2. Within(total'[b], AtAgentOf(b)) BY TotalStaysWithin
<1>3. lastPrompt'[AgentOf(b)] \in AtAgentOf(b)
  <2>1. CASE Start(b) BY <1>1, <2>1, WithinSums DEF Start
  <2>2. CASE ~ Start(b)
    <3>1. Active(b) BY <2>2, OthersUntouched DEF Active
    <3>. QED BY <3>1, AgentWritten, WithinSums DEF Mixed
  <2>. QED BY <2>1, <2>2
<1>4. CASE Settle(b) \/ Fail(b)
  <2>1. /\ pc'[b] = "trace" /\ lastUsage'[AgentOf(b)] = total[b]
    BY <1>1, <1>4 DEF Settle, Fail
  <2>2. event'[b].success => lastResponse'[AgentOf(b)] = b
    BY <1>1, <1>4 DEF Settle, Fail, Succeed, Typed, Texts
  <2>3. Within(lastUsage'[AgentOf(b)], AtAgentOf(b)) BY <2>1 DEF Mixed
  <2>. QED BY <1>1, <1>2, <1>3, <2>1, <2>2, <2>3, WithinSums DEF Mixed, Traced, Active
<1>5. CASE Trace(b)
  <2>1. /\ pc[b] = "trace" /\ pc'[b] = "done"
        /\ event'[b].usage = lastUsage[AgentOf(b)] /\ event'[b].prompt = lastPrompt[AgentOf(b)]
        /\ event'[b].response = lastResponse[AgentOf(b)]
        /\ event'[b].success = event[b].success
    BY <1>1, <1>5 DEF Trace, Typed, Texts
  <2>2. /\ Within(lastUsage[AgentOf(b)], AtAgentOf(b)) /\ lastPrompt[AgentOf(b)] \in AtAgentOf(b)
        /\ event[b].success => lastResponse[AgentOf(b)] \in AtAgentOf(b)
    BY <2>1 DEF Mixed, Active
  <2>. QED BY <1>1, <1>2, <2>1, <2>2 DEF Mixed, Answered, Active
<1>6. CASE TraceLate(b)
  <2>1. pc'[b] = "done" /\ b \in late BY <1>1, <1>6 DEF TraceLate
  <2>. QED BY <1>1, <1>2, <2>1 DEF Mixed, Answered, Active, Traced
<1>7. CASE Turn(b) \/ Forced(b) \/ Final(b)
  <2>1. lastUsage'[AgentOf(b)] = One(b) /\ pc'[b] \in Answered
    BY <1>1, <1>7 DEF Turn, Forced, Final, CallModel, Answered
  <2>. QED BY <1>1, <1>2, <1>3, <2>1, WithinSums DEF Mixed, Answered, Traced
<1>8. CASE \/ Start(b) \/ TurnAnswered(b) \/ ForcedAnswered(b) \/ FinalAnswered(b)
           \/ ToolBefore(b) \/ ToolUnknown(b) \/ ToolMisused(b) \/ ToolCheck(b)
           \/ ToolStamp(b) \/ ToolLogged(b) \/ ToolCollect(b)
  <2>1. pc'[b] \in InTool \union {"turn", "forced", "final", "settle"}
    <3>1. AfterTool(b) \in {"tool", "turn", "forced"} BY DEF AfterTool
    <3>2. CASE Start(b) \/ TurnAnswered(b) \/ ForcedAnswered(b) \/ FinalAnswered(b)
      BY <1>1, <3>2 DEF Start, TurnAnswered, ForcedAnswered, FinalAnswered, InTool
    <3>3. CASE ToolUnknown(b) \/ ToolCollect(b)
      BY <1>1, <3>1, <3>3 DEF ToolUnknown, ToolCollect, InTool
    <3>4. CASE ToolBefore(b) \/ ToolMisused(b) \/ ToolCheck(b) \/ ToolStamp(b) \/ ToolLogged(b)
      BY <1>1, <3>4 DEF ToolBefore, ToolMisused, ToolCheck, ToolStamp, ToolLogged, InTool
    <3>. QED BY <1>8, <3>2, <3>3, <3>4
  <2>. QED BY <1>1, <1>2, <1>3, <2>1 DEF Mixed, Answered, InTool, Traced
<1>. QED BY <1>4, <1>5, <1>6, <1>7, <1>8 DEF Step

LEMMA MixedStep == Typed /\ Sequential /\ MixedResults /\ [Next]_vars => MixedResults'
<1>. SUFFICES ASSUME Typed, Sequential, MixedResults, [Next]_vars PROVE MixedResults' OBVIOUS
<1>1. ASSUME NEW b \in Branch, Step(b), NEW c \in Branch PROVE Mixed(c)'
  <2>1. Mixed(b) /\ Mixed(c) BY DEF MixedResults
  <2>2. CASE c = b BY <1>1, <2>1, <2>2, OwnStepMixes
  <2>3. CASE c # b
    <3>1. /\ setup' = setup /\ late' = late /\ pc'[c] = pc[c] /\ total'[c] = total[c]
          /\ event'[c] = event[c]
      BY <1>1, <2>3, OthersUntouched
    <3>2. AgentOf(c)' = AgentOf(c) /\ AtAgentOf(c)' = AtAgentOf(c)
      BY <3>1 DEF AgentOf, AtAgentOf
    <3>3. CASE ~ Active(c)
      BY <2>1, <3>1, <3>2, <3>3 DEF Mixed, Active, Answered, Traced
    <3>4. CASE Active(c) /\ AgentOf(c) # AgentOf(b)
      <4>1. AgentOf(c) \in Agent \ {AgentOf(b)} BY <1>1, <2>3, <3>4, AgentsOfOthers
      <4>2. /\ lastUsage'[AgentOf(c)] = lastUsage[AgentOf(c)]
            /\ lastPrompt'[AgentOf(c)] = lastPrompt[AgentOf(c)]
            /\ lastResponse'[AgentOf(c)] = lastResponse[AgentOf(c)]
        BY <1>1, <4>1, SharedUntouched
      <4>. QED BY <2>1, <3>1, <3>2, <4>2 DEF Mixed, Active, Traced
    <3>5. CASE Active(c) /\ AgentOf(c) = AgentOf(b)
      <4>1. AtAgentOf(c) = AtAgentOf(b) /\ b \in AtAgentOf(c)
        BY <1>1, <2>3, <3>5, AgentsOfOthers
      <4>2. /\ \/ lastUsage'[AgentOf(c)] = lastUsage[AgentOf(c)]
               \/ Within(lastUsage'[AgentOf(c)], AtAgentOf(c))
            /\ lastPrompt'[AgentOf(c)] \in {lastPrompt[AgentOf(c)], b}
            /\ lastResponse'[AgentOf(c)] \in {lastResponse[AgentOf(c)], b}
        BY <1>1, <2>1, <3>5, <4>1, AgentWritten
      <4>. QED BY <2>1, <3>1, <3>2, <4>1, <4>2 DEF Mixed, Active, Traced
    <3>. QED BY <3>3, <3>4, <3>5
  <2>. QED BY <2>2, <2>3
<1>2. ASSUME NEW b \in Branch, GiveUp(b), NEW c \in Branch PROVE Mixed(c)'
  <2>1. /\ UNCHANGED <<setup, pc, total, event, lastUsage, lastPrompt, lastResponse>>
        /\ late \subseteq late'
    BY <1>2 DEF GiveUp, loop, agent
  <2>2. Mixed(c) BY DEF MixedResults
  <2>. QED BY <2>1, <2>2 DEF Mixed, Active, Traced, AgentOf, AtAgentOf
<1>3. CASE Tick \/ UNCHANGED vars
  <2>1. UNCHANGED <<setup, late, pc, total, event, lastUsage, lastPrompt, lastResponse>>
    BY <1>3 DEF Tick, vars, batch, loop, agent
  <2>. QED BY <2>1 DEF MixedResults, Mixed, Active, Traced, AgentOf, AtAgentOf
<1>. QED BY <1>1, <1>2, <1>3 DEF Next, MixedResults

LEMMA ResultsHold == Spec => [](OwnResults /\ MixedResults)
<1>1. Init => Typed /\ Sequential /\ OwnResults /\ MixedResults
  BY TypedInit, SequentialInit, OwnResultsInit, MixedInit
<1>2. Typed /\ Sequential /\ OwnResults /\ MixedResults /\ [Next]_vars
        => (Typed /\ Sequential /\ OwnResults /\ MixedResults)'
  BY TypesStep, SequentialStep, OwnResultsStep, MixedStep
<1>. QED BY <1>1, <1>2, PTL DEF Spec

\* UsageIsOwn: the usage a subtask's trace event takes from its agent
\* (graph/build.py, run_specialist) is that of all its own model calls, on success,
\* on failure and after a forced answer, when no other subtask uses the agent at the
\* same time; when others do (graph/build.py looks the agent up by type), it is made
\* of their model calls and its own, and of no earlier subtask's.
THEOREM UsageIsOwnAlways == Spec => []UsageIsOwn
<1>1. OwnResults /\ MixedResults => UsageIsOwn
  BY DEF OwnResults, AloneAtAgent, Carried, MixedResults, Mixed, Within, UsageIsOwn, Own
<1>. QED BY <1>1, ResultsHold, PTL

\* AnswerIsOwn: so is the prompt of a subtask, and the response of one that
\* succeeded: its own, or that of a subtask using the agent at the same time.
THEOREM AnswerIsOwnAlways == Spec => []AnswerIsOwn
<1>1. MixedResults => AnswerIsOwn BY DEF MixedResults, Mixed, AnswerIsOwn
<1>. QED BY <1>1, ResultsHold, PTL

-----------------------------------------------------------------------------
\* The slice of the call log

LEMMA MadeByType ==
    ASSUME NEW q \in Seq(Branch), NEW b
    PROVE  /\ MadeBy(b, q) \in Nat
           /\ IsFiniteSet({i \in DOMAIN q : q[i] = b})
<1>1. IsFiniteSet(1..Len(q)) /\ DOMAIN q = 1..Len(q) BY FS_Interval, LenProperties
<1>2. IsFiniteSet({i \in DOMAIN q : q[i] = b}) BY <1>1, FS_Subset
<1>. QED BY <1>2, FS_CardinalityType DEF MadeBy

LEMMA MadeByEmpty == \A b : MadeBy(b, <<>>) = 0
<1>. SUFFICES ASSUME NEW b PROVE MadeBy(b, <<>>) = 0 OBVIOUS
<1>1. DOMAIN <<>> = {} OBVIOUS
<1>2. {i \in DOMAIN <<>> : <<>>[i] = b} = {} BY <1>1
<1>. QED BY <1>2, FS_EmptySet DEF MadeBy

\* An entry appended counts for the branch that made it.
LEMMA MadeByAppend ==
    ASSUME NEW q \in Seq(Branch), NEW c \in Branch, NEW b
    PROVE  MadeBy(b, Append(q, c)) = IF c = b THEN MadeBy(b, q) + 1 ELSE MadeBy(b, q)
<1>. DEFINE r == Append(q, c)
            n == Len(q)
            A == {i \in DOMAIN q : q[i] = b}
            B == {i \in DOMAIN r : r[i] = b}
<1>1. /\ r \in Seq(Branch) /\ Len(r) = n + 1 /\ n \in Nat
      /\ DOMAIN q = 1..n /\ r[n + 1] = c /\ \A i \in 1..n : r[i] = q[i]
  BY AppendProperties, LenProperties
<1>2. DOMAIN r = 1..(n + 1) BY <1>1, LenProperties
<1>3. MadeBy(b, q) = Cardinality(A) /\ MadeBy(b, r) = Cardinality(B) BY DEF MadeBy
<1>4. IsFiniteSet(A) BY MadeByType
<1>5. n + 1 \notin A BY <1>1
<1>6. CASE c = b
  <2>1. B = A \cup {n + 1} BY <1>1, <1>2, <1>6
  <2>. HIDE DEF A, B, n, r
  <2>2. Cardinality(B) = Cardinality(A) + 1 BY <1>4, <1>5, <2>1, FS_AddElement
  <2>. QED BY <1>3, <1>6, <2>2 DEF r
<1>7. CASE c # b
  <2>1. B = A BY <1>1, <1>2, <1>7
  <2>. QED BY <1>3, <1>7, <2>1
<1>. QED BY <1>6, <1>7

\* Two lists joined have the calls of both.
LEMMA MadeByConcat ==
    ASSUME NEW q \in Seq(Branch), NEW r \in Seq(Branch), NEW b
    PROVE  MadeBy(b, q \o r) = MadeBy(b, q) + MadeBy(b, r)
<1>. DEFINE s == q \o r
            n == Len(q)
            m == Len(r)
            A == {i \in DOMAIN q : q[i] = b}
            B == {i \in DOMAIN r : r[i] = b}
            C == {i \in (n + 1)..(n + m) : r[i - n] = b}
            shift == [i \in B |-> i + n]
<1>1. /\ s \in Seq(Branch) /\ Len(s) = n + m /\ n \in Nat /\ m \in Nat
      /\ DOMAIN q = 1..n /\ DOMAIN r = 1..m
      /\ \A i \in 1..(n + m) : s[i] = IF i <= n THEN q[i] ELSE r[i - n]
  BY ConcatProperties, LenProperties
<1>2. DOMAIN s = 1..(n + m) BY <1>1, LenProperties
<1>3. {i \in DOMAIN s : s[i] = b} = A \cup C
  <2>. HIDE DEF s, n, m
  <2>. QED BY <1>1, <1>2
<1>4. IsFiniteSet(A) /\ IsFiniteSet(B) BY MadeByType
<1>5. shift \in Bijection(B, C)
  <2>. HIDE DEF s, n, m
  <2>1. shift \in [B -> C]
    <3>. SUFFICES ASSUME NEW i \in B PROVE i + n \in C OBVIOUS
    <3>1. i \in 1..m /\ r[i] = b /\ i + n - n = i BY <1>1
    <3>. QED BY <1>1, <3>1
  <2>2. \A i, j \in B : shift[i] = shift[j] => i = j BY <1>1
  <2>3. \A k \in C : \E i \in B : shift[i] = k
    <3>. SUFFICES ASSUME NEW k \in C PROVE \E i \in B : shift[i] = k OBVIOUS
    <3>1. k - n \in B /\ k - n + n = k BY <1>1
    <3>. QED BY <3>1
  <2>. QED BY <2>1, <2>2, <2>3 DEF Bijection, Injection, Surjection, IsInjective
<1>6. IsFiniteSet(C) /\ Cardinality(C) = Cardinality(B)
  BY <1>4, <1>5, FS_Bijection DEF ExistsBijection
<1>7. A \cap C = {} BY <1>1
<1>8. /\ MadeBy(b, s) = Cardinality(A \cup C)
      /\ MadeBy(b, q) = Cardinality(A) /\ MadeBy(b, r) = Cardinality(B)
  BY <1>3 DEF MadeBy
<1>. HIDE DEF A, B, C, s
<1>9. Cardinality(A) \in Nat /\ Cardinality(C) \in Nat BY <1>4, <1>6, FS_CardinalityType
<1>10. Cardinality(A \cup C) = Cardinality(A) + Cardinality(C) - Cardinality(A \cap C)
  BY <1>4, <1>6, FS_Union
<1>11. Cardinality(A \cap C) = 0 BY <1>7, FS_EmptySet
<1>12. MadeBy(b, s) = MadeBy(b, q) + MadeBy(b, r) BY <1>6, <1>8, <1>9, <1>10, <1>11
<1>. QED BY <1>12 DEF s

\* Every entry of a list is of b
AllOf(b, q) == \A i \in DOMAIN q : q[i] = b

LEMMA AllOfLists ==
    ASSUME NEW b \in Branch, NEW q \in Seq(Branch), AllOf(b, q)
    PROVE  /\ MadeBy(b, q) = Len(q)
           /\ AllOf(b, Append(q, b))
           /\ \A r \in Seq(Branch) : AllOf(b, r) => AllOf(b, q \o r)
<1>1. Len(q) \in Nat /\ DOMAIN q = 1..Len(q) BY LenProperties
<1>2. MadeBy(b, q) = Len(q)
  <2>1. {i \in DOMAIN q : q[i] = b} = 1..Len(q) BY <1>1 DEF AllOf
  <2>2. Cardinality(1..Len(q)) = Len(q) BY <1>1, FS_Interval
  <2>. QED BY <2>1, <2>2 DEF MadeBy
<1>3. AllOf(b, Append(q, b))
  <2>. DEFINE r == Append(q, b)
  <2>1. /\ r \in Seq(Branch) /\ Len(r) = Len(q) + 1
        /\ r[Len(q) + 1] = b /\ \A i \in 1..Len(q) : r[i] = q[i]
    BY AppendProperties
  <2>2. DOMAIN r = 1..(Len(q) + 1) BY <2>1, LenProperties
  <2>. HIDE DEF r
  <2>3. \A i \in 1..(Len(q) + 1) : r[i] = b BY <1>1, <2>1 DEF AllOf
  <2>. QED BY <2>2, <2>3 DEF AllOf, r
<1>4. ASSUME NEW r \in Seq(Branch), AllOf(b, r) PROVE AllOf(b, q \o r)
  <2>. DEFINE s == q \o r
  <2>1. /\ s \in Seq(Branch) /\ Len(s) = Len(q) + Len(r)
        /\ \A i \in 1..(Len(q) + Len(r)) :
              s[i] = IF i <= Len(q) THEN q[i] ELSE r[i - Len(q)]
    BY ConcatProperties
  <2>2. DOMAIN s = 1..(Len(q) + Len(r)) BY <2>1, LenProperties
  <2>3. Len(r) \in Nat /\ DOMAIN r = 1..Len(r) BY LenProperties
  <2>. HIDE DEF s
  <2>4. ASSUME NEW i \in 1..(Len(q) + Len(r)) PROVE s[i] = b
    <3>1. CASE i <= Len(q) BY <1>1, <2>1, <3>1 DEF AllOf
    <3>2. CASE ~ (i <= Len(q))
      <4>1. i - Len(q) \in 1..Len(r) BY <1>1, <2>3, <3>2
      <4>2. r[i - Len(q)] = b BY <1>4, <2>3, <4>1 DEF AllOf
      <4>. QED BY <2>1, <3>2, <4>2
    <3>. QED BY <3>1, <3>2
  <2>5. AllOf(b, s) BY <2>2, <2>4 DEF AllOf
  <2>. QED BY <2>5 DEF s
<1>. QED BY <1>2, <1>3, <1>4

\* call_log[before:]
Since(q, n) == SubSeq(q, n + 1, Len(q))

LEMMA SinceLists ==
    ASSUME NEW q \in Seq(Branch), NEW n \in 0..Len(q)
    PROVE  /\ Since(q, n) \in Seq(Branch)
           /\ Since(q, Len(q)) = <<>>
           /\ \A c \in Branch : Since(Append(q, c), n) = Append(Since(q, n), c)
<1>. DEFINE m == Len(q)
            s == Since(q, n)
<1>1. m \in Nat /\ \A i \in 1..m : q[i] \in Branch BY LenProperties, ElementOfSeq
<1>2. /\ s \in Seq(Branch) /\ Len(s) = m - n
      /\ \A i \in 1..(m - n) : s[i] = q[n + i]
  <2>1. n + 1 \in Int /\ m \in Int /\ \A i \in (n + 1)..m : q[i] \in Branch BY <1>1
  <2>2. /\ s \in Seq(Branch)
        /\ Len(s) = IF n + 1 <= m THEN m - (n + 1) + 1 ELSE 0
        /\ \A i \in 1..(m - (n + 1) + 1) : s[i] = q[(n + 1) + i - 1]
    BY <2>1, SubSeqProperties DEF Since
  <2>. HIDE DEF s, m
  <2>3. n \in Nat /\ n <= m BY <1>1 DEF m
  <2>4. m - (n + 1) + 1 = m - n /\ \A i \in Nat : (n + 1) + i - 1 = n + i BY <1>1, <2>3
  <2>. QED BY <1>1, <2>2, <2>3, <2>4
<1>3. Since(q, Len(q)) = <<>> BY <1>1, SubSeqEmpty DEF Since
<1>4. ASSUME NEW c \in Branch PROVE Since(Append(q, c), n) = Append(s, c)
  <2>. DEFINE a == Append(q, c)
              t == Since(a, n)
              u == Append(s, c)
  <2>1. /\ a \in Seq(Branch) /\ Len(a) = m + 1
        /\ a[m + 1] = c /\ \A i \in 1..m : a[i] = q[i]
    BY AppendProperties
  <2>2. /\ u \in Seq(Branch) /\ Len(u) = Len(s) + 1
        /\ u[Len(s) + 1] = c /\ \A i \in 1..Len(s) : u[i] = s[i]
    BY <1>2, AppendProperties
  <2>3. n \in Nat /\ n <= m BY <1>1
  <2>4. /\ t \in Seq(Branch) /\ Len(t) = (m + 1) - n
        /\ \A i \in 1..((m + 1) - n) : t[i] = a[n + i]
    <3>1. n + 1 \in Int /\ Len(a) \in Int /\ \A i \in (n + 1)..Len(a) : a[i] \in Branch
      BY <1>1, <2>1, <2>3
    <3>2. /\ t \in Seq(Branch)
          /\ Len(t) = IF n + 1 <= Len(a) THEN Len(a) - (n + 1) + 1 ELSE 0
          /\ \A i \in 1..(Len(a) - (n + 1) + 1) : t[i] = a[(n + 1) + i - 1]
      BY <3>1, SubSeqProperties DEF Since
    <3>. HIDE DEF t, a, m
    <3>3. Len(a) - (n + 1) + 1 = (m + 1) - n /\ \A i \in Nat : (n + 1) + i - 1 = n + i
      BY <1>1, <2>1, <2>3
    <3>4. Len(t) = (m + 1) - n BY <1>1, <2>1, <2>3, <3>2, <3>3
    <3>5. \A i \in 1..((m + 1) - n) : t[i] = a[(n + 1) + i - 1] BY <3>2, <3>3
    <3>6. \A i \in 1..((m + 1) - n) : i \in Nat BY <1>1, <2>3
    <3>. QED BY <3>2, <3>3, <3>4, <3>5, <3>6
  <2>. HIDE DEF a, t, u, s, m
  <2>5. Len(t) = Len(u) /\ Len(t) \in Nat BY <1>1, <1>2, <2>2, <2>3, <2>4
  <2>6. ASSUME NEW i \in 1..Len(t) PROVE t[i] = u[i]
    <3>1. CASE i = Len(s) + 1
      <4>1. n + i = m + 1 BY <1>1, <1>2, <2>3, <3>1
      <4>. QED BY <2>1, <2>2, <2>4, <2>6, <3>1, <4>1
    <3>2. CASE i # Len(s) + 1
      <4>1. i \in 1..Len(s) /\ n + i \in 1..m BY <1>1, <1>2, <2>3, <2>4, <3>2
      <4>2. t[i] = a[n + i] /\ a[n + i] = q[n + i] BY <2>1, <2>4, <2>6, <4>1
      <4>3. u[i] = s[i] /\ s[i] = q[n + i] BY <1>2, <2>2, <4>1
      <4>. QED BY <4>2, <4>3
    <3>. QED BY <3>1, <3>2
  <2>7. t = u BY <2>2, <2>4, <2>5, <2>6, SeqEqual
  <2>. QED BY <2>7 DEF t, u, a
<1>. QED BY <1>2, <1>3, <1>4

-----------------------------------------------------------------------------
\* The tool calls of a branch

Calling == {"invoke", "admitted", "tool running"}
Collecting == Calling \union {"collect"}

\* What is collected and what the slice will add are all the calls of the branch
Collected(b) ==
    /\ pc[b] \notin Collecting => MadeBy(b, toolCalls[b]) = MadeBy(b, Log(b))
    /\ pc[b] \in Collecting =>
          /\ before[b] \in 0..Len(Log(b))
          /\ MadeBy(b, toolCalls[b]) + MadeBy(b, NewEntries(b)) = MadeBy(b, Log(b))
    /\ pc[b] \in Calling => MadeBy(b, NewEntries(b)) = 0

\* Alone at its registry, a branch collects its own calls only
Pure(b) ==
    ~ (\E c \in Branch : Overlap(b, c)) =>
        /\ AllOf(b, toolCalls[b])
        /\ pc[b] \in Collecting => AllOf(b, NewEntries(b))

CallsCollected == \A b \in Branch : Collected(b) /\ Pure(b)

LEMMA LogTypes ==
    ASSUME Typed, NEW b \in Branch
    PROVE  /\ Log(b) \in Seq(Branch) /\ toolCalls[b] \in Seq(Branch)
           /\ NewEntries(b) \in Seq(Branch) /\ NewEntries(b) = Since(Log(b), before[b])
           /\ MadeBy(b, Log(b)) \in Nat /\ MadeBy(b, toolCalls[b]) \in Nat
           /\ MadeBy(b, NewEntries(b)) \in Nat /\ Len(Log(b)) \in Nat
<1>1. Log(b) \in Seq(Branch) /\ toolCalls[b] \in Seq(Branch)
  BY SetupTypes DEF Typed, Control, Calls, Log
<1>2. NewEntries(b) \in Seq(Branch) BY NewEntriesTypes DEF Typed
<1>. QED BY <1>1, <1>2, MadeByType, LenProperties DEF NewEntries, Since

LEMMA CallsCollectedInit == Init => CallsCollected
<1>. SUFFICES ASSUME Init, NEW b \in Branch PROVE Collected(b) /\ Pure(b)
  BY DEF CallsCollected
<1>1. /\ pc[b] = "ready" /\ toolCalls[b] = <<>> /\ Log(b) = <<>>
  BY SetupTypes DEF Init, Log
<1>2. AllOf(b, <<>>) BY DEF AllOf
<1>. QED BY <1>1, <1>2 DEF Collected, Pure, Collecting, Calling

\* An entry of another branch changes nothing, and there is none where a branch is
\* alone.
LEMMA OthersCollect ==
    ASSUME Typed, Sequential, NEW b \in Branch, Step(b), NEW c \in Branch, c # b,
           Collected(c), Pure(c)
    PROVE  Collected(c)' /\ Pure(c)'
<1>1. /\ pc'[c] = pc[c] /\ before'[c] = before[c] /\ toolCalls'[c] = toolCalls[c]
      /\ setup' = setup
  BY OthersUntouched
<1>2. /\ RegistryOf(c)' = RegistryOf(c)
      /\ (\E d \in Branch : Overlap(c, d))' <=> \E d \in Branch : Overlap(c, d)
  BY <1>1 DEF RegistryOf, Overlap
<1>3. CASE callLog'[RegistryOf(c)] = callLog[RegistryOf(c)]
  <2>1. Log(c)' = Log(c) BY <1>2, <1>3 DEF Log
  <2>2. NewEntries(c)' = NewEntries(c) BY <1>1, <2>1 DEF NewEntries
  <2>. QED BY <1>1, <1>2, <2>1, <2>2 DEF Collected, Pure
<1>4. CASE callLog'[RegistryOf(c)] # callLog[RegistryOf(c)]
  <2>1. ToolLogged(b) /\ RegistryOf(b) = RegistryOf(c)
    <3>1. RegistryOf(c) \in Registry BY SetupTypes DEF Typed, Control
    <3>2. RegistryOf(b) = RegistryOf(c) BY <1>4, <3>1, SharedUntouched
    <3>3. ASSUME ~ ToolLogged(b) PROVE UNCHANGED callLog
      BY <3>3 DEF Step, Start, Turn, TurnAnswered, Forced, ForcedAnswered, ToolBefore,
                  ToolUnknown, ToolMisused, ToolCheck, ToolStamp, ToolCollect, Final,
                  FinalAnswered, Settle, Fail, Trace, TraceLate, registry
    <3>. QED BY <1>4, <3>2, <3>3
  <2>2. Log(c)' = Append(Log(c), b)
    BY <1>2, <2>1, SetupTypes DEF ToolLogged, Log, Typed, Control, Calls
  <2>3. pc[c] \in Collecting => NewEntries(c)' = Append(NewEntries(c), b)
    <3>. SUFFICES ASSUME pc[c] \in Collecting PROVE NewEntries(c)' = Append(NewEntries(c), b)
      OBVIOUS
    <3>1. before[c] \in 0..Len(Log(c)) BY DEF Collected
    <3>2. Since(Append(Log(c), b), before[c]) = Append(NewEntries(c), b)
      BY <3>1, LogTypes, SinceLists
    <3>3. NewEntries(c)' = Since(Append(Log(c), b), before[c])
      BY <1>1, <2>2 DEF NewEntries, Since
    <3>. QED BY <3>2, <3>3
  <2>4. MadeBy(c, Log(c)') = MadeBy(c, Log(c)) BY <2>2, LogTypes, MadeByAppend
  <2>5. pc[c] \in Collecting => MadeBy(c, NewEntries(c)') = MadeBy(c, NewEntries(c))
    <3>1. MadeBy(c, Append(NewEntries(c), b)) = MadeBy(c, NewEntries(c))
      BY LogTypes, MadeByAppend
    <3>. QED BY <2>3, <3>1
  <2>6. pc[c] \in Collecting => before[c] \in 0..Len(Log(c)')
    <3>1. Len(Log(c)') = Len(Log(c)) + 1 BY <2>2, LogTypes, AppendProperties
    <3>. QED BY <3>1, LogTypes DEF Collected
  <2>7. Collected(c)'
    <3>1. MadeBy(c, toolCalls[c])' = MadeBy(c, toolCalls[c]) BY <1>1
    <3>2. MadeBy(c, Log(c))' = MadeBy(c, Log(c)) BY <2>4 DEF MadeBy
    <3>3. pc[c] \in Collecting => MadeBy(c, NewEntries(c))' = MadeBy(c, NewEntries(c))
      BY <2>5 DEF MadeBy
    <3>4. pc[c] \in Calling => pc[c] \in Collecting BY DEF Collecting
    <3>. QED BY <1>1, <2>6, <3>1, <3>2, <3>3, <3>4 DEF Collected
  <2>8. Pure(c)'
    <3>. SUFFICES ASSUME ~ \E d \in Branch : Overlap(c, d)
                  PROVE  AllOf(c, toolCalls[c]) /\ pc[c] \notin Collecting
      BY <1>1, <1>2 DEF Pure
    <3>1. ~ setup.parallel BY <2>1 DEF Overlap
    <3>2. Active(b) BY <2>1 DEF ToolLogged, Active
    <3>3. ~ Active(c) BY <3>1, <3>2 DEF Sequential
    <3>. QED BY <3>3 DEF Pure, Active, Collecting, Calling
  <2>. QED BY <2>7, <2>8
<1>. QED BY <1>3, <1>4

\* The steps of a branch's own calls
LEMMA OwnCollect ==
    ASSUME Typed, NEW b \in Branch, Step(b), Collected(b), Pure(b)
    PROVE  Collected(b)' /\ Pure(b)'
<1>. USE DEF Go, batch, loop, toolCall, registry
<1>1. /\ setup' = setup /\ pc \in [Branch -> Places] /\ DOMAIN before = Branch
      /\ DOMAIN toolCalls = Branch
  BY OthersUntouched DEF Typed, Control, Calls
<1>2. /\ RegistryOf(b)' = RegistryOf(b) /\ RegistryOf(b) \in Registry
      /\ (\E d \in Branch : Overlap(b, d))' <=> \E d \in Branch : Overlap(b, d)
  BY <1>1, SetupTypes DEF RegistryOf, Overlap, Typed, Control
<1>3. ASSUME callLog' = callLog
      PROVE  Log(b)' = Log(b) /\ MadeBy(b, Log(b))' = MadeBy(b, Log(b))
  BY <1>2, <1>3 DEF Log, MadeBy
<1>4. ASSUME toolCalls'[b] = toolCalls[b]
      PROVE  /\ MadeBy(b, toolCalls[b])' = MadeBy(b, toolCalls[b])
             /\ AllOf(b, toolCalls[b])' <=> AllOf(b, toolCalls[b])
  BY <1>4 DEF MadeBy, AllOf
<1>5. ASSUME callLog' = callLog, before'[b] = before[b]
      PROVE  /\ NewEntries(b)' = NewEntries(b)
             /\ MadeBy(b, NewEntries(b))' = MadeBy(b, NewEntries(b))
             /\ AllOf(b, NewEntries(b))' <=> AllOf(b, NewEntries(b))
  BY <1>3, <1>5 DEF NewEntries, MadeBy, AllOf
<1>6. pc[b] \in Calling => pc[b] \in Collecting BY DEF Collecting
<1>7. CASE pc[b] \notin Collecting /\ ~ ToolBefore(b)
  <2>1. callLog' = callLog /\ toolCalls'[b] = toolCalls[b] /\ pc'[b] \notin Collecting
    <3>1. CASE Start(b) \/ Turn(b) \/ TurnAnswered(b) \/ Forced(b) \/ ForcedAnswered(b)
      BY <1>1, <3>1 DEF Start, Turn, TurnAnswered, Forced, ForcedAnswered, Collecting, Calling
    <3>2. CASE Final(b) \/ FinalAnswered(b) \/ Settle(b) \/ Fail(b) \/ Trace(b) \/ TraceLate(b)
      BY <1>1, <3>2 DEF Final, FinalAnswered, Settle, Fail, Trace, TraceLate,
                        Collecting, Calling
    <3>3. CASE ToolUnknown(b) \/ ToolMisused(b) \/ ToolCheck(b) \/ ToolStamp(b)
               \/ ToolLogged(b) \/ ToolCollect(b)
      BY <1>7, <3>3 DEF ToolUnknown, ToolMisused, ToolCheck, ToolStamp, ToolLogged,
                        ToolCollect, Collecting, Calling
    <3>. QED BY <1>7, <3>1, <3>2, <3>3 DEF Step
  <2>2. pc'[b] \notin Calling BY <2>1 DEF Collecting
  <2>. QED BY <1>2, <1>3, <1>4, <1>7, <2>1, <2>2 DEF Collected, Pure
<1>8. CASE ToolBefore(b)
  <2>1. /\ callLog' = callLog /\ toolCalls'[b] = toolCalls[b] /\ pc[b] = "tool"
        /\ pc'[b] = "invoke" /\ before'[b] = Len(Log(b))
    BY <1>1, <1>8 DEF ToolBefore
  <2>2. NewEntries(b)' = <<>>
    <3>1. NewEntries(b)' = Since(Log(b), Len(Log(b))) BY <1>3, <2>1 DEF NewEntries, Since
    <3>2. Log(b) \in Seq(Branch) /\ Len(Log(b)) \in 0..Len(Log(b)) BY LogTypes
    <3>. QED BY <3>1, <3>2, SinceLists
  <2>3. MadeBy(b, NewEntries(b))' = 0 /\ AllOf(b, NewEntries(b))'
    BY <2>2, MadeByEmpty DEF MadeBy, AllOf
  <2>4. before'[b] \in 0..Len(Log(b)') BY <1>3, <2>1, LogTypes
  <2>5. MadeBy(b, toolCalls[b]) = MadeBy(b, Log(b))
    BY <2>1 DEF Collected, Collecting, Calling
  <2>6. MadeBy(b, toolCalls[b])' + MadeBy(b, NewEntries(b))' = MadeBy(b, Log(b))'
    BY <1>3, <1>4, <2>1, <2>3, <2>5, LogTypes
  <2>7. Collected(b)' BY <2>1, <2>3, <2>4, <2>6 DEF Collected, Collecting, Calling
  <2>8. Pure(b)' BY <1>2, <1>4, <2>1, <2>3 DEF Pure
  <2>. QED BY <2>7, <2>8
<1>9. CASE ToolUnknown(b)
  <2>1. /\ callLog' = callLog /\ toolCalls'[b] = toolCalls[b] /\ pc[b] \in Calling
        /\ pc'[b] = AfterTool(b)
    BY <1>1, <1>9 DEF ToolUnknown, Calling
  <2>2. pc'[b] \notin Collecting /\ pc'[b] \notin Calling
    BY <2>1 DEF AfterTool, Collecting, Calling
  <2>3. MadeBy(b, toolCalls[b]) = MadeBy(b, Log(b))
    BY <1>6, <2>1, LogTypes DEF Collected
  <2>. QED BY <1>2, <1>3, <1>4, <2>1, <2>2, <2>3 DEF Collected, Pure
<1>10. CASE ToolMisused(b) \/ ToolCheck(b) \/ ToolStamp(b)
  <2>1. /\ callLog' = callLog /\ toolCalls'[b] = toolCalls[b] /\ before'[b] = before[b]
        /\ pc[b] \in Calling /\ pc'[b] \in Collecting
    BY <1>1, <1>10 DEF ToolMisused, ToolCheck, ToolStamp, Calling, Collecting
  <2>. QED BY <1>2, <1>3, <1>4, <1>5, <1>6, <2>1 DEF Collected, Pure
<1>11. CASE ToolLogged(b)
  <2>1. /\ callLog'[RegistryOf(b)] = Append(Log(b), b) /\ toolCalls'[b] = toolCalls[b]
        /\ before'[b] = before[b] /\ pc[b] = "tool running" /\ pc'[b] = "collect"
    BY <1>1, <1>2, <1>11 DEF ToolLogged, Log, Typed, Calls
  <2>2. Log(b)' = Append(Log(b), b) BY <1>2, <2>1 DEF Log
  <2>3. before[b] \in 0..Len(Log(b)) BY <2>1 DEF Collected, Collecting, Calling
  <2>4. NewEntries(b)' = Append(NewEntries(b), b)
    <3>1. NewEntries(b)' = Since(Append(Log(b), b), before[b])
      BY <2>1, <2>2 DEF NewEntries, Since
    <3>. QED BY <2>3, <3>1, LogTypes, SinceLists
  <2>5. /\ MadeBy(b, Append(Log(b), b)) = MadeBy(b, Log(b)) + 1
        /\ MadeBy(b, Append(NewEntries(b), b)) = MadeBy(b, NewEntries(b)) + 1
    BY LogTypes, MadeByAppend
  <2>6. /\ MadeBy(b, Log(b))' = MadeBy(b, Log(b)) + 1
        /\ MadeBy(b, NewEntries(b))' = MadeBy(b, NewEntries(b)) + 1
    BY <2>2, <2>4, <2>5 DEF MadeBy
  <2>7. Len(Log(b)') = Len(Log(b)) + 1 BY <2>2, LogTypes, AppendProperties
  <2>8. before'[b] \in 0..Len(Log(b)')
    <3>1. Len(Log(b)) \in Nat BY LogTypes
    <3>2. before[b] \in 0..(Len(Log(b)) + 1) BY <2>3, <3>1
    <3>. QED BY <2>1, <2>7, <3>2
  <2>9. MadeBy(b, toolCalls[b]) + MadeBy(b, NewEntries(b)) = MadeBy(b, Log(b))
    BY <2>1 DEF Collected, Collecting, Calling
  <2>10. MadeBy(b, toolCalls[b])' + MadeBy(b, NewEntries(b))' = MadeBy(b, Log(b))'
    <3>1. /\ MadeBy(b, toolCalls[b]) \in Nat /\ MadeBy(b, NewEntries(b)) \in Nat
          /\ MadeBy(b, Log(b)) \in Nat
      BY LogTypes
    <3>2. MadeBy(b, toolCalls[b]) + (MadeBy(b, NewEntries(b)) + 1) = MadeBy(b, Log(b)) + 1
      BY <2>9, <3>1
    <3>. QED BY <1>4, <2>1, <2>6, <3>2
  <2>11. Collected(b)' BY <2>1, <2>8, <2>10 DEF Collected, Collecting, Calling
  <2>12. AllOf(b, NewEntries(b)) => AllOf(b, NewEntries(b))'
    <3>1. AllOf(b, NewEntries(b)) => AllOf(b, Append(NewEntries(b), b))
      BY LogTypes, AllOfLists
    <3>. QED BY <2>4, <3>1 DEF AllOf
  <2>13. Pure(b)' BY <1>2, <1>4, <1>6, <2>1, <2>12 DEF Pure, Calling
  <2>. QED BY <2>11, <2>13
<1>12. CASE ToolCollect(b)
  <2>1. /\ callLog' = callLog /\ toolCalls'[b] = toolCalls[b] \o NewEntries(b)
        /\ pc[b] = "collect" /\ pc'[b] = AfterTool(b)
    BY <1>1, <1>12 DEF ToolCollect
  <2>2. pc'[b] \notin Collecting /\ pc'[b] \notin Calling
    BY <2>1 DEF AfterTool, Collecting, Calling
  <2>3. MadeBy(b, toolCalls[b] \o NewEntries(b)) = MadeBy(b, toolCalls[b]) + MadeBy(b, NewEntries(b))
    BY LogTypes, MadeByConcat
  <2>4. MadeBy(b, toolCalls[b])' = MadeBy(b, toolCalls[b]) + MadeBy(b, NewEntries(b))
    BY <2>1, <2>3 DEF MadeBy
  <2>5. MadeBy(b, toolCalls[b]) + MadeBy(b, NewEntries(b)) = MadeBy(b, Log(b))
    BY <2>1 DEF Collected, Collecting
  <2>6. Collected(b)' BY <1>3, <2>1, <2>2, <2>4, <2>5 DEF Collected
  <2>7. AllOf(b, toolCalls[b]) /\ AllOf(b, NewEntries(b)) => AllOf(b, toolCalls[b])'
    <3>1. AllOf(b, toolCalls[b]) /\ AllOf(b, NewEntries(b))
             => AllOf(b, toolCalls[b] \o NewEntries(b))
      BY LogTypes, AllOfLists
    <3>. QED BY <2>1, <3>1 DEF AllOf
  <2>8. pc[b] \in Collecting BY <2>1 DEF Collecting
  <2>9. Pure(b)' BY <1>2, <2>2, <2>7, <2>8 DEF Pure
  <2>. QED BY <2>6, <2>9
<1>13. CASE pc[b] \in Collecting
  BY <1>9, <1>10, <1>11, <1>12, <1>13
  DEF Step, Start, Turn, TurnAnswered, Forced, ForcedAnswered, ToolBefore, Final,
      FinalAnswered, Settle, Fail, Trace, TraceLate, Collecting, Calling
<1>. QED BY <1>7, <1>8, <1>13

LEMMA CallsCollectedStep ==
    Typed /\ Sequential /\ CallsCollected /\ [Next]_vars => CallsCollected'
<1>. SUFFICES ASSUME Typed, Sequential, CallsCollected, [Next]_vars,
                     NEW c \in Branch
              PROVE  Collected(c)' /\ Pure(c)'
  BY DEF CallsCollected
<1>1. Collected(c) /\ Pure(c) BY DEF CallsCollected
<1>2. ASSUME NEW b \in Branch, Step(b) PROVE Collected(c)' /\ Pure(c)'
  BY <1>1, <1>2, OwnCollect, OthersCollect
<1>3. CASE Tick \/ UNCHANGED vars \/ \E b \in Branch : GiveUp(b)
  <2>1. UNCHANGED <<setup, pc, before, toolCalls, callLog>>
    BY <1>3 DEF Tick, vars, GiveUp, batch, toolCall, registry
  <2>2. RegistryOf(c)' = RegistryOf(c) /\ Log(c)' = Log(c) BY <2>1 DEF RegistryOf, Log
  <2>3. NewEntries(c)' = NewEntries(c) BY <2>1, <2>2 DEF NewEntries
  <2>4. (\E d \in Branch : Overlap(c, d))' <=> \E d \in Branch : Overlap(c, d)
    BY <2>1 DEF RegistryOf, Overlap
  <2>. QED BY <1>1, <2>1, <2>2, <2>3, <2>4 DEF Collected, Pure
<1>. QED BY <1>2, <1>3 DEF Next

LEMMA CallsCollectedHold == Spec => [](Typed /\ CallsCollected)
<1>1. Init => Typed /\ Sequential /\ CallsCollected
  BY TypedInit, SequentialInit, CallsCollectedInit
<1>2. Typed /\ Sequential /\ CallsCollected /\ [Next]_vars
        => (Typed /\ Sequential /\ CallsCollected)'
  BY TypesStep, SequentialStep, CallsCollectedStep
<1>. QED BY <1>1, <1>2, PTL DEF Spec

\* OwnCallsCollected: the slice of the shared call log that a tool call adds to the
\* result (agents/specialists.py, registry.call_log[before:]) misses none of the
\* branch's own entries, however many branches append to the log in between.
THEOREM OwnCallsCollectedAlways == Spec => []OwnCallsCollected
<1>1. ASSUME NEW b \in Branch, pc[b] \notin InTool PROVE pc[b] \notin Collecting
  BY <1>1 DEF InTool, Collecting, Calling
<1>2. CallsCollected => OwnCallsCollected
  BY <1>1 DEF CallsCollected, Collected, OwnCallsCollected
<1>. QED BY <1>2, CallsCollectedHold, PTL

\* CallsAreOwn: and it has no other branch's entries, unless two branches use the
\* registry at once.
THEOREM CallsAreOwnAlways == Spec => []CallsAreOwn
<1>1. Typed /\ CallsCollected => CallsAreOwn
  <2>. SUFFICES ASSUME Typed, CallsCollected, NEW b \in Branch,
                       ~ \E c \in Branch : Overlap(b, c)
                PROVE  MadeBy(b, toolCalls[b]) = Len(toolCalls[b])
    BY DEF CallsAreOwn
  <2>1. AllOf(b, toolCalls[b]) BY DEF CallsCollected, Pure
  <2>. QED BY <2>1, LogTypes, AllOfLists
<1>. QED BY <1>1, CallsCollectedHold, PTL
-----------------------------------------------------------------------------
\* Every step is a step towards the end

\* StepsLeft place by place, before a step and after it
LEMMA StepsLeftHere ==
    ASSUME NEW b \in Branch
    PROVE  /\ pc[b] = "ready" => StepsLeft(b) = TurnsLeft(b) + 7
           /\ pc[b] = "turn" => StepsLeft(b) = TurnsLeft(b) + 6
           /\ pc[b] = "turn answered" => StepsLeft(b) = TurnsLeft(b) + 7 + 5 * setup.calls
           /\ pc[b] = "tool" => StepsLeft(b) = TurnsLeft(b) + 6 + 5 * pending[b]
           /\ pc[b] = "invoke" => StepsLeft(b) = TurnsLeft(b) + 5 + 5 * pending[b]
           /\ pc[b] = "admitted" => StepsLeft(b) = TurnsLeft(b) + 4 + 5 * pending[b]
           /\ pc[b] = "tool running" => StepsLeft(b) = TurnsLeft(b) + 3 + 5 * pending[b]
           /\ pc[b] = "collect" => StepsLeft(b) = TurnsLeft(b) + 2 + 5 * pending[b]
           /\ pc[b] = "forced" => StepsLeft(b) = 6
           /\ pc[b] = "forced answered" => StepsLeft(b) = 5
           /\ pc[b] = "final" => StepsLeft(b) = 4
           /\ pc[b] = "final answered" => StepsLeft(b) = 3
           /\ pc[b] = "settle" => StepsLeft(b) = 2
           /\ pc[b] = "trace" => StepsLeft(b) = 1
           /\ pc[b] = "done" => StepsLeft(b) = 0
BY DEF StepsLeft

LEMMA StepsLeftNext ==
    ASSUME NEW b \in Branch
    PROVE  /\ pc'[b] = "ready" => StepsLeft(b)' = TurnsLeft(b)' + 7
           /\ pc'[b] = "turn" => StepsLeft(b)' = TurnsLeft(b)' + 6
           /\ pc'[b] = "turn answered" => StepsLeft(b)' = TurnsLeft(b)' + 7 + 5 * setup'.calls
           /\ pc'[b] = "tool" => StepsLeft(b)' = TurnsLeft(b)' + 6 + 5 * pending'[b]
           /\ pc'[b] = "invoke" => StepsLeft(b)' = TurnsLeft(b)' + 5 + 5 * pending'[b]
           /\ pc'[b] = "admitted" => StepsLeft(b)' = TurnsLeft(b)' + 4 + 5 * pending'[b]
           /\ pc'[b] = "tool running" => StepsLeft(b)' = TurnsLeft(b)' + 3 + 5 * pending'[b]
           /\ pc'[b] = "collect" => StepsLeft(b)' = TurnsLeft(b)' + 2 + 5 * pending'[b]
           /\ pc'[b] = "forced" => StepsLeft(b)' = 6
           /\ pc'[b] = "forced answered" => StepsLeft(b)' = 5
           /\ pc'[b] = "final" => StepsLeft(b)' = 4
           /\ pc'[b] = "final answered" => StepsLeft(b)' = 3
           /\ pc'[b] = "settle" => StepsLeft(b)' = 2
           /\ pc'[b] = "trace" => StepsLeft(b)' = 1
           /\ pc'[b] = "done" => StepsLeft(b)' = 0
BY DEF StepsLeft

\* StepsLeft by the turns, which a step leaves alone but for the one it begins.
LEMMA StepsLeftTypes ==
    ASSUME Control, NEW b \in Branch
    PROVE  /\ setup.calls \in Nat /\ turns[b] \in Nat /\ pending[b] \in Nat
           /\ MaxToolIterations - turns[b] \in Nat
           /\ TurnsLeft(b) \in Nat /\ StepsLeft(b) \in Nat
<1>1. /\ setup.calls \in Nat /\ turns[b] \in Nat /\ pending[b] \in Nat
      /\ pc[b] \in Places /\ turns[b] <= MaxToolIterations /\ MaxToolIterations \in Nat
  BY SetupTypes, LimitTypes DEF Control, LoopOK
<1>2. MaxToolIterations - turns[b] \in Nat BY <1>1
<1>3. TurnsLeft(b) \in Nat
  <2>. DEFINE k == MaxToolIterations - turns[b]
              w == 2 + 5 * setup.calls
  <2>1. k \in Nat /\ w \in Nat BY <1>1, <1>2
  <2>2. TurnsLeft(b) = k * w BY DEF TurnsLeft
  <2>. HIDE DEF k, w
  <2>. QED BY <2>1, <2>2
<1>4. StepsLeft(b) \in Nat
  <2>1. 5 * setup.calls \in Nat /\ 5 * pending[b] \in Nat BY <1>1
  <2>. DEFINE t == TurnsLeft(b)
              c == 5 * setup.calls
              p == 5 * pending[b]
  <2>2. StepsLeft(b) \in {t + 7, t + 6, t + 7 + c, t + 6 + p, t + 5 + p, t + 4 + p, t + 3 + p,
                         t + 2 + p, 6, 5, 4, 3, 2, 1, 0}
    BY <1>1, StepsLeftHere, Zenon DEF Places
  <2>3. t \in Nat /\ c \in Nat /\ p \in Nat BY <1>3, <2>1
  <2>. HIDE DEF t, c, p
  <2>. QED BY <2>2, <2>3
<1>. QED BY <1>1, <1>2, <1>3, <1>4

\* A step that begins no turn and stays nearer in its turn is nearer.
LEMMA NearerInTheTurn ==
    ASSUME Control, NEW b \in Branch, UNCHANGED <<setup, turns>>
    PROVE  \A c \in Branch : /\ TurnsLeft(c)' = TurnsLeft(c)
                             /\ pc'[c] = pc[c] /\ pending'[c] = pending[c]
                                   => StepsLeft(c)' = StepsLeft(c)
BY DEF TurnsLeft, StepsLeft

\* All that the other branches keep stays, so only the branch that moves counts.
LEMMA StepNears ==
    ASSUME Control, NEW b \in Branch, Step(b)
    PROVE  /\ StepsLeft(b)' < StepsLeft(b)
           /\ \A c \in Branch \ {b} : pc'[c] = pc[c] /\ StepsLeft(c)' = StepsLeft(c)
<1>. DEFINE Other == \A c \in Branch \ {b} : pc'[c] = pc[c] /\ StepsLeft(c)' = StepsLeft(c)
            Goal == StepsLeft(b)' < StepsLeft(b) /\ Other
<1>. SUFFICES Goal OBVIOUS
<1>. USE DEF Go, batch, loop
<1>1. /\ pc \in [Branch -> Places] /\ turns \in [Branch -> Nat] /\ pending \in [Branch -> Nat]
  BY DEF Control
<1>2. /\ setup.calls \in Nat /\ turns[b] \in Nat /\ pending[b] \in Nat
      /\ TurnsLeft(b) \in Nat /\ StepsLeft(b) \in Nat
  BY StepsLeftTypes
\* Steps that begin no turn
<1>3. ASSUME NEW place, NEW n \in Nat, UNCHANGED <<setup, turns>>,
             pc' = [pc EXCEPT ![b] = place], pending' = [pending EXCEPT ![b] = n]
      PROVE  /\ pc'[b] = place /\ pending'[b] = n /\ setup'.calls = setup.calls
             /\ TurnsLeft(b)' = TurnsLeft(b) /\ Other
  BY <1>1, <1>3, NearerInTheTurn
<1>4. ASSUME NEW place, UNCHANGED <<setup, turns, pending>>, pc' = [pc EXCEPT ![b] = place]
      PROVE  /\ pc'[b] = place /\ pending'[b] = pending[b] /\ setup'.calls = setup.calls
             /\ TurnsLeft(b)' = TurnsLeft(b) /\ Other
  BY <1>1, <1>4, NearerInTheTurn
<1>. HIDE DEF Other
<1>5. CASE Start(b)
  <2>1. pc[b] = "ready" /\ pc' = [pc EXCEPT ![b] = "turn"] /\ UNCHANGED <<setup, turns, pending>>
    BY <1>5 DEF Start
  <2>2. pc'[b] = "turn" /\ TurnsLeft(b)' = TurnsLeft(b) /\ Other BY <2>1, <1>4
  <2>3. StepsLeft(b) = TurnsLeft(b) + 7 /\ StepsLeft(b)' = TurnsLeft(b)' + 6
    BY <2>1, <2>2, StepsLeftHere, StepsLeftNext, Zenon
  <2>. QED BY <1>2, <2>2, <2>3
<1>6. CASE Turn(b)
  <2>1. /\ pc[b] = "turn" /\ pc' = [pc EXCEPT ![b] = "turn answered"]
        /\ turns' = [turns EXCEPT ![b] = turns[b] + 1] /\ UNCHANGED <<setup, pending>>
    BY <1>6 DEF Turn
  <2>2. Other
    <3>1. \A c \in Branch \ {b} : pc'[c] = pc[c] /\ turns'[c] = turns[c] /\ pending'[c] = pending[c]
      BY <1>1, <2>1
    <3>. QED BY <2>1, <3>1 DEF Other, StepsLeft, TurnsLeft
  <2>3. turns[b] < MaxToolIterations /\ MaxToolIterations \in Nat
    BY <2>1, LimitTypes DEF Control, LoopOK
  <2>4. TurnsLeft(b) = TurnsLeft(b)' + (2 + 5 * setup.calls) /\ TurnsLeft(b)' \in Nat
    <3>. DEFINE k == MaxToolIterations - (turns[b] + 1)
                w == 2 + 5 * setup.calls
    <3>1. k \in Nat /\ w \in Nat /\ MaxToolIterations - turns[b] = k + 1 BY <1>2, <2>3
    <3>2. TurnsLeft(b)' = k * w BY <1>1, <2>1 DEF TurnsLeft
    <3>3. TurnsLeft(b) = (k + 1) * w BY <3>1 DEF TurnsLeft
    <3>. HIDE DEF k, w
    <3>4. (k + 1) * w = k * w + w BY <3>1
    <3>5. w = 2 + 5 * setup.calls BY DEF w
    <3>6. TurnsLeft(b)' \in Nat BY <3>1, <3>2
    <3>. QED BY <3>2, <3>3, <3>4, <3>5, <3>6
  <2>5. /\ StepsLeft(b) = TurnsLeft(b) + 6
        /\ StepsLeft(b)' = TurnsLeft(b)' + 7 + 5 * setup'.calls
    <3>1. pc'[b] = "turn answered" BY <1>1, <2>1
    <3>. QED BY <2>1, <3>1, StepsLeftHere, StepsLeftNext, Zenon
  <2>6. setup'.calls = setup.calls BY <2>1
  <2>. QED BY <1>2, <2>2, <2>4, <2>5, <2>6
<1>7. CASE TurnAnswered(b)
  <2>1. PICK n \in 0..setup.calls :
            /\ pending' = [pending EXCEPT ![b] = n]
            /\ pc' = [pc EXCEPT ![b] = IF n = 0 THEN "final" ELSE "tool"]
    BY <1>7 DEF TurnAnswered
  <2>2. pc[b] = "turn answered" /\ UNCHANGED <<setup, turns>> BY <1>7 DEF TurnAnswered
  <2>3. n \in Nat /\ n <= setup.calls BY <1>2
  <2>4. /\ pc'[b] = IF n = 0 THEN "final" ELSE "tool"
        /\ pending'[b] = n /\ TurnsLeft(b)' = TurnsLeft(b) /\ Other
    BY <1>3, <2>1, <2>2, <2>3
  <2>5. StepsLeft(b) = TurnsLeft(b) + 7 + 5 * setup.calls BY <2>2, StepsLeftHere, Zenon
  <2>6. CASE n = 0
    <3>1. pc'[b] = "final" BY <2>4, <2>6
    <3>2. StepsLeft(b)' = 4 BY <3>1, StepsLeftNext, Zenon
    <3>. QED BY <1>2, <2>4, <2>5, <3>2
  <2>7. CASE n # 0
    <3>1. pc'[b] = "tool" BY <2>4, <2>7
    <3>2. StepsLeft(b)' = TurnsLeft(b)' + 6 + 5 * pending'[b] BY <3>1, StepsLeftNext, Zenon
    <3>. QED BY <1>2, <2>3, <2>4, <2>5, <3>2
  <2>. QED BY <2>6, <2>7
<1>8. CASE Forced(b) \/ ForcedAnswered(b) \/ Final(b) \/ FinalAnswered(b) \/ Settle(b)
  <2>1. PICK place :
            /\ pc' = [pc EXCEPT ![b] = place] /\ UNCHANGED <<setup, turns, pending>>
            /\ \/ pc[b] = "forced" /\ place = "forced answered"
               \/ pc[b] = "forced answered" /\ place = "final"
               \/ pc[b] = "final" /\ place = "final answered"
               \/ pc[b] = "final answered" /\ place = "settle"
               \/ pc[b] = "settle" /\ place = "trace"
    BY <1>8 DEF Forced, ForcedAnswered, Final, FinalAnswered, Settle
  <2>2. pc'[b] = place /\ Other BY <2>1, <1>4
  <2>3. \/ StepsLeft(b) = 6 /\ StepsLeft(b)' = 5
        \/ StepsLeft(b) = 5 /\ StepsLeft(b)' = 4
        \/ StepsLeft(b) = 4 /\ StepsLeft(b)' = 3
        \/ StepsLeft(b) = 3 /\ StepsLeft(b)' = 2
        \/ StepsLeft(b) = 2 /\ StepsLeft(b)' = 1
    BY <2>1, <2>2, StepsLeftHere, StepsLeftNext, Zenon
  <2>4. StepsLeft(b)' < StepsLeft(b) BY <2>3
  <2>. QED BY <2>2, <2>4
<1>9. CASE Fail(b)
  <2>1. /\ pc[b] \in {"turn", "forced", "final", "settle"} /\ pc' = [pc EXCEPT ![b] = "trace"]
        /\ pending' = [pending EXCEPT ![b] = 0] /\ UNCHANGED <<setup, turns>>
    BY <1>9 DEF Fail
  <2>2. pc'[b] = "trace" /\ Other BY <2>1, <1>3
  <2>3. StepsLeft(b)' = 1 /\ StepsLeft(b) \in {TurnsLeft(b) + 6, 6, 4, 2}
    BY <2>1, <2>2, StepsLeftHere, StepsLeftNext, Zenon
  <2>. QED BY <1>2, <2>2, <2>3
<1>10. CASE Trace(b) \/ TraceLate(b)
  <2>1. pc[b] = "trace" /\ pc' = [pc EXCEPT ![b] = "done"] /\ UNCHANGED <<setup, turns, pending>>
    BY <1>10 DEF Trace, TraceLate
  <2>2. pc'[b] = "done" /\ Other BY <2>1, <1>4
  <2>3. StepsLeft(b) = 1 /\ StepsLeft(b)' = 0 BY <2>1, <2>2, StepsLeftHere, StepsLeftNext, Zenon
  <2>. QED BY <2>2, <2>3
<1>11. CASE ToolBefore(b) \/ ToolMisused(b) \/ ToolCheck(b) \/ ToolStamp(b) \/ ToolLogged(b)
  <2>1. PICK place :
            /\ pc' = [pc EXCEPT ![b] = place] /\ UNCHANGED <<setup, turns, pending>>
            /\ \/ pc[b] = "tool" /\ place = "invoke"
               \/ pc[b] = "invoke" /\ place \in {"admitted", "collect"}
               \/ pc[b] = "admitted" /\ place = "tool running"
               \/ pc[b] = "tool running" /\ place = "collect"
    BY <1>11 DEF ToolBefore, ToolMisused, ToolCheck, ToolStamp, ToolLogged
  <2>2. /\ pc'[b] = place /\ pending'[b] = pending[b]
        /\ TurnsLeft(b)' = TurnsLeft(b) /\ Other
    BY <2>1, <1>4
  <2>. DEFINE t == TurnsLeft(b)
              p == 5 * pending[b]
  <2>3. /\ pc[b] = "tool" => StepsLeft(b) = t + 6 + p
        /\ pc[b] = "invoke" => StepsLeft(b) = t + 5 + p
        /\ pc[b] = "admitted" => StepsLeft(b) = t + 4 + p
        /\ pc[b] = "tool running" => StepsLeft(b) = t + 3 + p
    BY StepsLeftHere, Zenon
  <2>4. /\ place = "invoke" => StepsLeft(b)' = TurnsLeft(b)' + 5 + 5 * pending'[b]
        /\ place = "admitted" => StepsLeft(b)' = TurnsLeft(b)' + 4 + 5 * pending'[b]
        /\ place = "tool running" => StepsLeft(b)' = TurnsLeft(b)' + 3 + 5 * pending'[b]
        /\ place = "collect" => StepsLeft(b)' = TurnsLeft(b)' + 2 + 5 * pending'[b]
    BY <2>2, StepsLeftNext, Zenon
  <2>5. /\ place = "invoke" => StepsLeft(b)' = t + 5 + p
        /\ place = "admitted" => StepsLeft(b)' = t + 4 + p
        /\ place = "tool running" => StepsLeft(b)' = t + 3 + p
        /\ place = "collect" => StepsLeft(b)' = t + 2 + p
    BY <2>2, <2>4, Zenon
  <2>6. t \in Nat /\ p \in Nat
    <3>1. 5 * pending[b] \in Nat BY <1>2
    <3>. QED BY <1>2, <3>1
  <2>. HIDE DEF t, p
  <2>7. \/ StepsLeft(b) = t + 6 + p /\ StepsLeft(b)' = t + 5 + p
        \/ StepsLeft(b) = t + 5 + p /\ StepsLeft(b)' \in {t + 4 + p, t + 2 + p}
        \/ StepsLeft(b) = t + 4 + p /\ StepsLeft(b)' = t + 3 + p
        \/ StepsLeft(b) = t + 3 + p /\ StepsLeft(b)' = t + 2 + p
    BY <2>1, <2>3, <2>5, Zenon
  <2>8. StepsLeft(b)' < StepsLeft(b) BY <2>6, <2>7
  <2>. QED BY <2>2, <2>8
<1>12. CASE ToolUnknown(b) \/ ToolCollect(b)
  <2>1. /\ pc' = [pc EXCEPT ![b] = AfterTool(b)] /\ pc[b] \in {"invoke", "collect"}
        /\ pending' = [pending EXCEPT ![b] = pending[b] - 1] /\ UNCHANGED <<setup, turns>>
    BY <1>12 DEF ToolUnknown, ToolCollect
  <2>2. pending[b] > 0 BY <2>1 DEF Control, LoopOK, InTool
  <2>3. pending[b] - 1 \in Nat BY <1>2, <2>2
  <2>4. /\ pc'[b] = AfterTool(b) /\ pending'[b] = pending[b] - 1
        /\ TurnsLeft(b)' = TurnsLeft(b) /\ Other
    BY <1>3, <2>1, <2>3
  <2>5. AfterTool(b) \in {"tool", "turn", "forced"} BY AfterToolPlaces
  <2>6. StepsLeft(b) \in {TurnsLeft(b) + 5 + 5 * pending[b], TurnsLeft(b) + 2 + 5 * pending[b]}
    BY <2>1, StepsLeftHere, Zenon
  <2>7. StepsLeft(b)' \in {TurnsLeft(b)' + 6 + 5 * pending'[b], TurnsLeft(b)' + 6, 6}
    BY <2>4, <2>5, StepsLeftNext, Zenon
  <2>. QED BY <1>2, <2>2, <2>4, <2>6, <2>7
<1>. QED BY <1>5, <1>6, <1>7, <1>8, <1>9, <1>10, <1>11, <1>12 DEF Step, Goal, Other

\* NearsItsEnd, and that the steps left are always a number of steps: a branch of any
\* batch ends after at most as many steps as it has left when it is ready, for
\* any limit of turns and any number of tool calls in an answer.
THEOREM NearsItsEndAlways ==
    Spec => [](\A b \in Branch : StepsLeft(b) \in Nat) /\ NearsItsEnd
<1>. DEFINE Nearer == \A b \in Branch : \/ pc'[b] = pc[b] /\ StepsLeft(b)' = StepsLeft(b)
                                        \/ StepsLeft(b)' < StepsLeft(b)
            Counted == \A b \in Branch : StepsLeft(b) \in Nat
<1>1. Control => Counted BY StepsLeftTypes
<1>2. Control /\ [Next]_vars => [Nearer]_vars
  <2>. SUFFICES ASSUME Control, Next, vars' # vars PROVE Nearer OBVIOUS
  <2>1. ASSUME NEW b \in Branch, Step(b) PROVE Nearer BY <2>1, StepNears
  <2>2. ASSUME NEW b \in Branch, GiveUp(b) PROVE Nearer
    BY <2>2 DEF GiveUp, loop, StepsLeft, TurnsLeft
  <2>3. CASE Tick BY <2>3 DEF Tick, batch, loop, StepsLeft, TurnsLeft
  <2>. QED BY <2>1, <2>2, <2>3 DEF Next
<1>3. Typed => Control BY DEF Typed
<1>. QED BY <1>1, <1>2, <1>3, TypedInit, TypesStep, PTL DEF Spec, NearsItsEnd
=============================================================================
