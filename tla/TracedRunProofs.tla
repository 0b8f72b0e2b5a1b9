---------------------------- MODULE TracedRunProofs ----------------------------
(***************************************************************************)
(* A traced run for any number of replay requests, any step limit and any  *)
(* number of interventions, with exceptions and crashes.  Checkpoints are  *)
(* only added, so what the runner knows of its own stays true while        *)
(* replays extend the thread (Grows); what it has recorded, counted and    *)
(* planned with holds until it resumes from another's checkpoint.          *)
(***************************************************************************)
EXTENDS TracedRun, SequenceTheorems, FiniteSetTheorems, TLAPS

Places == {"starting", "started", "invoking", "recording", "waiting", "finishing", "done",
           "dead", "idle", "forked", "returned", "failed"}

\* The n-th checkpoint: an edge of the graph leads on from the nodes it was saved
\* after, and these set its status
Sound(c, n) ==
    /\ c \in Checkpoint
    /\ n \in c.line /\ c.line \subseteq 1 .. n
    /\ \A k \in DOMAIN c.events : c.events[k] \in 1 .. n
    /\ c.stage \in After(c.by)
    /\ c.status = StatusAfter(c.by, "none")

SavedOK == saved \in Seq(Checkpoint) /\ \A i \in DOMAIN saved : Sound(saved[i], i)

\* What the checkpoint of the runner is by where the runner is; nothing is saved
\* or replayed before its first invocation
RunnerPlaced ==
    /\ pc[Runner] \notin {"idle", "forked", "returned", "failed"}
    /\ pc[Runner] \in {"starting", "started"} =>
          saved = <<>> /\ at[Runner] = 0 /\ \A r \in Replay : pc[r] = "idle"
    /\ pc[Runner] \notin {"starting", "started", "dead"} => at[Runner] # 0
    /\ pc[Runner] = "recording" => Here(Runner).stage \in {"asking", "over"}
    /\ pc[Runner] = "waiting" => Here(Runner).stage = "asking"
    /\ pc[Runner] \in {"finishing", "done"} => Here(Runner).stage = "over"

\* A request works on the line of its fork
ReplayPlaced(r) ==
    /\ pc[r] \in {"idle", "forked", "invoking", "returned", "failed"}
    /\ pc[r] \in {"forked", "invoking", "returned"} => fork[r] # 0
    /\ pc[r] \in {"invoking", "returned"} => at[r] # 0 /\ fork[r] \in Here(r).line

PlacesOK ==
    /\ pc \in [Proc -> Places]
    /\ at \in [Proc -> 0 .. Latest] /\ fork \in [Replay -> 0 .. Latest]
    /\ steps \in [Proc -> 0 .. StepLimit]
    /\ prompt \in [{"runner", "api"} -> {"planning", "synthesis"}]
    /\ diverted \in BOOLEAN
    /\ RunnerPlaced /\ \A r \in Replay : ReplayPlaced(r)

TablesOK ==
    /\ spans \in Seq(1 .. Latest) /\ recorded \in Nat
    /\ asked \in Nat /\ reviewed \in 0 .. asked
    /\ entry \in [number : {asked}, status : {"none", "pending", "resolved", "notified"}]
    /\ row \in [status : {"none", "running", "completed", "rejected"}, spans : Nat,
                escalations : Nat, reviewed : Nat]
    /\ row.status \in {"completed", "rejected"} <=> Finished

Typed == SavedOK /\ PlacesOK /\ TablesOK

-----------------------------------------------------------------------------
USE DEF process, tables, queue, Latest

LEMMA Procs == /\ Runner \in Proc /\ Runner \notin Replay
               /\ \A p \in Proc : p = Runner \/ p \in Replay
               /\ \A r \in Replay : r \in Proc /\ r # Runner
  BY ProcessAssumption DEF Proc

LEMMA Edges ==
  /\ \A s \in Stage \union {"intake"} :
        /\ After(s) \subseteq Stage
        /\ "over" \in After(s) => s \in {"delivering", "rejecting"}
        /\ s \in {"delivering", "rejecting"} => After(s) = {"over"}
        /\ StatusAfter(s, "none") \in {"none", "completed", "rejected"}
        /\ s \notin {"delivering", "rejecting"} <=> StatusAfter(s, "none") = "none"
  /\ After("over") = {}
  BY DEF Stage, After, StatusAfter

LEMMA TypedShows == Typed => TypeOK
<1> SUFFICES ASSUME Typed PROVE TypeOK
  OBVIOUS
<1>1. /\ saved \in Seq(Checkpoint)
      /\ \A i \in DOMAIN saved :
          /\ i \in saved[i].line /\ saved[i].line \subseteq 1 .. i
          /\ \A k \in DOMAIN saved[i].events : saved[i].events[k] \in 1 .. i
  BY DEF Typed, SavedOK, Sound
<1>2. \A p \in Proc : pc[p] = "invoking" => at[p] # 0
  BY Procs DEF Typed, PlacesOK, RunnerPlaced, ReplayPlaced
<1>3. entry \in [number : 0 .. asked, status : {"none", "pending", "resolved", "notified"}]
  BY DEF Typed, TablesOK
<1> QED
  BY <1>1, <1>2, <1>3 DEF Typed, PlacesOK, TablesOK, TypeOK, Places

LEMMA InitTyped == Init => Typed
<1> SUFFICES ASSUME Init PROVE Typed
  OBVIOUS
<1>1. SavedOK /\ Latest = 0
  BY DEF Init, SavedOK
<1>2. /\ pc[Runner] = "starting" /\ at[Runner] = 0 /\ saved = <<>>
      /\ \A r \in Replay : pc[r] = "idle"
  BY Procs DEF Init
<1>3. PlacesOK
  <2>1. pc \in [Proc -> Places] /\ at \in [Proc -> 0 .. Latest] /\ fork \in [Replay -> 0 .. Latest]
    BY <1>1 DEF Init, Places
  <2>2. steps \in [Proc -> 0 .. StepLimit]
    BY LimitsAssumption DEF Init
  <2>3. prompt \in [{"runner", "api"} -> {"planning", "synthesis"}] /\ diverted \in BOOLEAN
    BY DEF Init
  <2>4. RunnerPlaced /\ \A r \in Replay : ReplayPlaced(r)
    BY <1>2 DEF RunnerPlaced, ReplayPlaced
  <2> QED
    BY <2>1, <2>2, <2>3, <2>4 DEF PlacesOK
<1>4. TablesOK
  <2>1. spans \in Seq(1 .. Latest) /\ recorded \in Nat /\ asked \in Nat /\ reviewed \in 0 .. asked
    BY DEF Init
  <2>2. entry \in [number : {asked}, status : {"none", "pending", "resolved", "notified"}]
    BY DEF Init, NoEntry
  <2> QED
    BY <1>2, <2>1, <2>2 DEF Init, TablesOK, NoRow, Finished
<1> QED
  BY <1>1, <1>3, <1>4 DEF Typed

-----------------------------------------------------------------------------
\* Checkpoints are added, never changed

LEMMA HereType ==
  ASSUME Typed, NEW i \in 1 .. Latest
  PROVE  /\ i \in DOMAIN saved /\ saved[i] \in Checkpoint /\ Sound(saved[i], i)
         /\ saved[i].events \in Seq(1 .. Latest) /\ saved[i].stage \in Stage
         /\ Latest \in Nat
<1>1. i \in DOMAIN saved /\ Latest \in Nat
  BY DEF Typed, SavedOK
<1>2. saved[i] \in Checkpoint /\ Sound(saved[i], i)
  BY <1>1 DEF Typed, SavedOK
<1>3. saved[i].events \in Seq(Nat) /\ saved[i].stage \in Stage
  BY <1>2 DEF Checkpoint
<1>4. \A k \in 1 .. Len(saved[i].events) : saved[i].events[k] \in 1 .. Latest
  BY <1>1, <1>2, <1>3 DEF Sound
<1> QED
  BY <1>1, <1>2, <1>3, <1>4

LEMMA Grows ==
  ASSUME Typed, NEW c, Sound(c, Latest + 1), saved' = Append(saved, c)
  PROVE  /\ SavedOK' /\ Latest' = Latest + 1 /\ Latest \in Nat
         /\ \A i \in 1 .. Latest : saved'[i] = saved[i]
         /\ saved'[Latest + 1] = c
<1>1. saved \in Seq(Checkpoint) /\ c \in Checkpoint
  BY DEF Typed, SavedOK, Sound
<1>2. /\ saved' \in Seq(Checkpoint) /\ Latest' = Latest + 1 /\ Latest \in Nat
      /\ \A i \in 1 .. Latest : saved'[i] = saved[i]
      /\ saved'[Latest + 1] = c
  BY <1>1
<1>3. \A i \in 1 .. Latest : Sound(saved[i], i)
  BY DEF Typed, SavedOK
<1>4. ASSUME NEW i \in DOMAIN saved' PROVE Sound(saved'[i], i)
  <2>1. i \in 1 .. Latest \/ i = Latest + 1
    BY <1>2
  <2> QED
    BY <2>1, <1>2, <1>3
<1>5. SavedOK'
  BY <1>2, <1>4 DEF SavedOK, Sound, Checkpoint
<1> QED
  BY <1>2, <1>5

LEMMA ChildSound ==
  ASSUME Typed, NEW p \in Proc, at[p] # 0, NEW stage \in After(Here(p).stage)
  PROVE  Sound(Child(p, stage), Latest + 1)
<1>1. at[p] \in 1 .. Latest /\ Latest \in Nat
  BY DEF Typed, PlacesOK, SavedOK
<1> DEFINE h == Here(p)
<1>2. h \in Checkpoint /\ Sound(h, at[p])
  BY <1>1, HereType DEF Here
<1> HIDE DEF h
<1>3. stage \in After(h.stage)
  BY DEF h
<1>4. stage \in Stage /\ h.by \notin {"delivering", "rejecting"}
  BY <1>2, <1>3, Edges DEF Sound, Checkpoint
<1>5. h.status = "none"
  BY <1>2, <1>4, Edges DEF Sound, Checkpoint
<1>6. StatusAfter(h.stage, h.status) \in {"none", "completed", "rejected"}
  BY <1>2, <1>5, Edges DEF Checkpoint
<1>7. Rules(p) \in {"none", "planning", "synthesis"}
  BY <1>2 DEF Rules, h, Checkpoint, Typed, PlacesOK, App
<1> DEFINE c == Child(p, stage)
<1>8. /\ c = [line |-> h.line \union {Latest + 1}, by |-> h.stage, stage |-> stage,
              status |-> StatusAfter(h.stage, "none"),
              events |-> Append(h.events, Latest + 1), rules |-> Rules(p)]
  BY <1>5 DEF Child, h
<1> HIDE DEF c
<1>9. c.events \in Seq(Nat) /\ \A k \in DOMAIN c.events : c.events[k] \in 1 .. (Latest + 1)
  BY <1>1, <1>2, <1>8 DEF Sound, Checkpoint
<1>10. Latest + 1 \in c.line /\ c.line \subseteq 1 .. (Latest + 1)
  BY <1>1, <1>2, <1>8 DEF Sound, Checkpoint
<1>11. c \in Checkpoint
  BY <1>2, <1>4, <1>5, <1>6, <1>7, <1>8, <1>9, <1>10, <1>1 DEF Checkpoint
<1> QED
  BY <1>3, <1>8, <1>9, <1>10, <1>11 DEF Sound, c

LEMMA ForkSound ==
  ASSUME Typed, NEW i \in DOMAIN saved, NEW stage \in After(saved[i].by)
  PROVE  Sound([saved[i] EXCEPT !.line = @ \union {Latest + 1}, !.stage = stage], Latest + 1)
<1>1. i \in 1 .. Latest /\ Latest \in Nat
  BY DEF Typed, SavedOK
<1>2. saved[i] \in Checkpoint /\ Sound(saved[i], i)
  BY <1>1, HereType
<1>3. stage \in Stage
  BY <1>2, Edges DEF Checkpoint
<1> DEFINE c == [saved[i] EXCEPT !.line = @ \union {Latest + 1}, !.stage = stage]
<1>4. /\ c = [line |-> saved[i].line \union {Latest + 1}, by |-> saved[i].by, stage |-> stage,
              status |-> saved[i].status, events |-> saved[i].events, rules |-> saved[i].rules]
  <2> HIDE DEF c
  <2>1. saved[i] \in Checkpoint /\ c = [saved[i] EXCEPT !.line = @ \union {Latest + 1}, !.stage = stage]
    BY <1>2 DEF c
  <2> DEFINE o == saved[i]
  <2> HIDE DEF o
  <2>2. o \in Checkpoint
    BY <2>1 DEF o
  <2>3. c = [[o EXCEPT !.line = o.line \union {Latest + 1}] EXCEPT !.stage = stage]
    BY <2>1, <2>2 DEF o, Checkpoint
  <2>4. c = [line |-> o.line \union {Latest + 1}, by |-> o.by, stage |-> stage,
             status |-> o.status, events |-> o.events, rules |-> o.rules]
    BY <2>2, <2>3 DEF Checkpoint
  <2> QED
    BY <2>4 DEF o
<1> HIDE DEF c
<1>5. \A k \in DOMAIN c.events : c.events[k] \in 1 .. (Latest + 1)
  BY <1>1, <1>2, <1>4 DEF Sound, Checkpoint
<1>6. Latest + 1 \in c.line /\ c.line \subseteq 1 .. (Latest + 1)
  BY <1>1, <1>2, <1>4 DEF Sound, Checkpoint
<1>7. c \in Checkpoint
  BY <1>1, <1>2, <1>3, <1>4, <1>6 DEF Checkpoint
<1> QED
  BY <1>2, <1>4, <1>5, <1>6, <1>7 DEF Sound, c

-----------------------------------------------------------------------------
\* Whoever does nothing is where he was, while others add checkpoints
Kept == /\ Latest <= Latest' /\ Latest \in Nat /\ Latest' \in Nat
        /\ \A i \in 1 .. Latest : saved'[i] = saved[i]

LEMMA ReplayStays ==
  ASSUME Typed, Kept, NEW r \in Replay, pc'[r] = pc[r], at'[r] = at[r], fork'[r] = fork[r]
  PROVE  ReplayPlaced(r)'
<1>1. ReplayPlaced(r) /\ at[r] \in 0 .. Latest
  BY Procs DEF Typed, PlacesOK
<1> QED
  BY <1>1 DEF ReplayPlaced, Kept, Here

LEMMA RunnerStays ==
  ASSUME Typed, Kept, pc'[Runner] = pc[Runner], at'[Runner] = at[Runner],
         pc[Runner] \notin {"starting", "started"}
  PROVE  RunnerPlaced'
<1>1. RunnerPlaced /\ at[Runner] \in 0 .. Latest
  BY Procs DEF Typed, PlacesOK
<1> QED
  BY <1>1 DEF RunnerPlaced, Kept, Here

LEMMA Wider ==
  ASSUME Typed, Kept
  PROVE  /\ at \in [Proc -> 0 .. Latest'] /\ fork \in [Replay -> 0 .. Latest']
         /\ spans \in Seq(1 .. Latest')
<1>1. at \in [Proc -> 0 .. Latest] /\ fork \in [Replay -> 0 .. Latest]
  BY DEF Typed, PlacesOK
<1>2. 0 .. Latest \subseteq 0 .. Latest' /\ 1 .. Latest \subseteq 1 .. Latest'
  BY DEF Kept
<1>3. spans \in Seq(1 .. Latest)
  BY DEF Typed, TablesOK
<1>4. spans \in Seq(1 .. Latest')
  BY <1>2, <1>3, SeqMonotonic
<1> QED
  BY <1>1, <1>2, <1>4

LEMMA Still == ASSUME Typed, UNCHANGED saved PROVE SavedOK' /\ Kept
  BY DEF Typed, SavedOK, Kept, Sound, Checkpoint

\* Tables that a step leaves alone, wherever it takes the runner short of the end
LEMMA TablesStay ==
  ASSUME Typed, Kept, UNCHANGED <<tables, queue>>, Finished' <=> Finished
  PROVE  TablesOK'
<1>1. spans' \in Seq(1 .. Latest')
  BY Wider
<1>2. entry' \in [number : {asked'}, status : {"none", "pending", "resolved", "notified"}]
  BY DEF Typed, TablesOK
<1> QED
  BY <1>1, <1>2 DEF Typed, TablesOK

-----------------------------------------------------------------------------
\* Steps of an invocation

LEMMA InvokingHere ==
  ASSUME Typed, NEW p \in Proc, pc[p] = "invoking"
  PROVE  /\ at[p] \in 1 .. Latest /\ Here(p).stage \in Stage
         /\ pc[Runner] \notin {"starting", "started"}
<1>1. at[p] # 0 /\ pc[Runner] \notin {"starting", "started"}
  BY Procs DEF Typed, PlacesOK, RunnerPlaced, ReplayPlaced
<1>2. at[p] \in 1 .. Latest
  BY <1>1 DEF Typed, PlacesOK, SavedOK
<1> QED
  BY <1>1, <1>2, HereType DEF Here

LEMMA SuperstepTyped == ASSUME Typed, NEW p \in Proc, Superstep(p) PROVE Typed'
<1>1. PICK stage \in After(Here(p).stage) :
        saved' = Append(saved, Child(p, stage)) /\ Reaches(p, stage, FALSE)
  BY DEF Superstep
<1>2. /\ pc[p] = "invoking" /\ at[p] \in 1 .. Latest /\ stage \in Stage
      /\ pc[Runner] \notin {"starting", "started"}
  BY InvokingHere, Edges DEF Superstep
<1>3. Sound(Child(p, stage), Latest + 1)
  BY <1>2, ChildSound
<1>4. SavedOK' /\ Kept /\ Latest' = Latest + 1 /\ saved'[Latest + 1] = Child(p, stage)
  BY <1>1, <1>3, Grows DEF Kept
<1>5. PlacesOK'
  <2>1. /\ pc \in [Proc -> Places] /\ at \in [Proc -> 0 .. Latest'] /\ fork \in [Replay -> 0 .. Latest']
        /\ steps \in [Proc -> 0 .. StepLimit] /\ UNCHANGED <<fork, diverted>>
        /\ at' = [at EXCEPT ![p] = Latest + 1]
    BY <1>4, Wider DEF Superstep, Typed, PlacesOK
  <2>2. pc' \in [Proc -> Places] /\ at' \in [Proc -> 0 .. Latest'] /\ fork' \in [Replay -> 0 .. Latest']
    BY <1>1, <1>4, <2>1 DEF Reaches, Places, Kept
  <2>3. steps' \in [Proc -> 0 .. StepLimit]
    BY <2>1, LimitsAssumption DEF Superstep
  <2>4. prompt' \in [{"runner", "api"} -> {"planning", "synthesis"}]
    BY DEF Superstep, PromptsAfter, App, Typed, PlacesOK
  <2>5. /\ saved'[at'[p]] = Child(p, stage) /\ at'[p] # 0
        /\ Child(p, stage).stage = stage /\ Child(p, stage).line = Here(p).line \union {Latest + 1}
    BY <1>4, <2>1 DEF Child, Kept
  <2>6. RunnerPlaced'
    <3>1. CASE p = Runner
      BY <1>1, <1>2, <2>1, <2>2, <2>5, <3>1, Procs
         DEF Reaches, Returns, RunnerPlaced, Here, Typed, PlacesOK
    <3>2. CASE p # Runner
      BY <1>1, <1>2, <1>4, <2>1, <3>2, RunnerStays, Procs DEF Reaches
    <3> QED
      BY <3>1, <3>2
  <2>7. ASSUME NEW r \in Replay PROVE ReplayPlaced(r)'
    <3>1. CASE p = r
      BY <1>1, <1>2, <2>1, <2>5, <3>1, Procs DEF Reaches, ReplayPlaced, Here, Typed, PlacesOK
    <3>2. CASE p # r
      BY <1>1, <1>4, <2>1, <3>2, ReplayStays, Procs DEF Reaches
    <3> QED
      BY <3>1, <3>2
  <2> QED
    BY <2>1, <2>2, <2>3, <2>4, <2>6, <2>7 DEF Typed, PlacesOK
<1>6. TablesOK'
  <2>1. Finished' <=> Finished
    BY <1>1, <1>2, Procs DEF Reaches, Finished, Typed, PlacesOK
  <2> QED
    BY <1>4, <2>1, TablesStay DEF Superstep
<1> QED
  BY <1>4, <1>5, <1>6 DEF Typed

LEMMA BrokenTyped ==
  ASSUME Typed, NEW p \in Proc, Broken(p),
         pc[p] \notin {"done", "idle"} /\ (p = Runner \/ pc[p] = "invoking")
  PROVE  Typed'
<1>1. SavedOK' /\ Kept
  BY Still DEF Broken
<1>2. UNCHANGED <<saved, at, fork, prompt, diverted>>
  BY DEF Broken
<1>3. pc' = [pc EXCEPT ![p] = IF p = Runner THEN "dead" ELSE "failed"]
  BY DEF Broken, Go
<1>4. pc' \in [Proc -> Places] /\ steps' \in [Proc -> 0 .. StepLimit]
  BY <1>3, LimitsAssumption DEF Broken, Typed, PlacesOK, Places
<1>5. RunnerPlaced'
  <2>1. CASE p = Runner
    BY <1>2, <1>3, <2>1, Procs DEF Typed, PlacesOK, RunnerPlaced
  <2>2. CASE p # Runner
    BY <1>1, <1>2, <1>3, <2>2, Procs, RunnerStays, InvokingHere
  <2> QED
    BY <2>1, <2>2
<1>6. ASSUME NEW r \in Replay PROVE ReplayPlaced(r)'
  <2>1. CASE p = r
    BY <1>3, <2>1, Procs DEF ReplayPlaced, Typed, PlacesOK
  <2>2. CASE p # r
    BY <1>1, <1>2, <1>3, <2>2, Procs, ReplayStays
  <2> QED
    BY <2>1, <2>2
<1>7. PlacesOK'
  BY <1>2, <1>4, <1>5, <1>6 DEF Typed, PlacesOK
<1>8. Finished' <=> Finished
  BY <1>3, Procs DEF Finished, Typed, PlacesOK
<1>9. TablesOK'
  BY <1>1, <1>8, TablesStay DEF Broken
<1> QED
  BY <1>1, <1>7, <1>9 DEF Typed

-----------------------------------------------------------------------------
\* Steps of the runner between its invocations

LEMMA RunnerMoves ==
  ASSUME Typed, UNCHANGED <<saved, at, steps, prompt, fork, diverted>>,
         NEW place \in Places, Go(Runner, place), RunnerPlaced'
  PROVE  SavedOK' /\ PlacesOK' /\ Kept
<1>1. SavedOK' /\ Kept
  BY Still
<1>2. pc' \in [Proc -> Places]
  BY DEF Go, Typed, PlacesOK
<1>3. ASSUME NEW r \in Replay PROVE ReplayPlaced(r)'
  BY <1>1, Procs, ReplayStays DEF Go
<1> QED
  BY <1>1, <1>2, <1>3 DEF Typed, PlacesOK

LEMMA StartTaskTyped == Typed /\ StartTask => Typed'
<1> SUFFICES ASSUME Typed, StartTask PROVE Typed'
  OBVIOUS
<1>1. pc[Runner] = "starting" /\ pc'[Runner] = "started" /\ \A r \in Replay : pc'[r] = pc[r]
  BY Procs DEF StartTask, Go, Typed, PlacesOK
<1>2. RunnerPlaced'
  BY <1>1 DEF StartTask, RunnerPlaced, Typed, PlacesOK
<1>3. SavedOK' /\ PlacesOK' /\ Kept
  BY <1>2, RunnerMoves DEF StartTask, Places
<1>4. TablesOK'
  <2>1. row'.status = "running" /\ row' \in [status : {"none", "running", "completed", "rejected"},
           spans : Nat, escalations : Nat, reviewed : Nat]
    BY DEF StartTask, NoRow
  <2>2. spans' \in Seq(1 .. Latest')
    BY DEF StartTask, Typed, TablesOK
  <2> QED
    BY <1>1, <2>1, <2>2 DEF StartTask, Typed, TablesOK, Finished
<1> QED
  BY <1>3, <1>4 DEF Typed

LEMMA InvokeTyped == Typed /\ Invoke => Typed'
<1> SUFFICES ASSUME Typed, Invoke PROVE Typed'
  OBVIOUS
<1>1. pc[Runner] = "started" /\ saved = <<>> /\ \A r \in Replay : pc[r] = "idle"
  BY DEF Invoke, RunnerPlaced, Typed, PlacesOK
<1>2. Sound(AfterIntake, 1) /\ AfterIntake.stage = "planning"
  BY DEF AfterIntake, Sound, Checkpoint, Stage, After, StatusAfter
<1>3. saved' = Append(saved, AfterIntake) /\ Latest = 0
  BY <1>1 DEF Invoke
<1>4. SavedOK' /\ Kept /\ saved'[1] = AfterIntake /\ Latest' = 1
  BY <1>2, <1>3, Grows DEF Kept
<1>5. PlacesOK'
  <2>1. at \in [Proc -> 0 .. Latest'] /\ fork \in [Replay -> 0 .. Latest'] /\ pc' \in [Proc -> Places]
    BY <1>4, Wider DEF Invoke, Go, Places, Typed, PlacesOK
  <2>2. at' \in [Proc -> 0 .. Latest']
    <3>1. 1 \in 0 .. Latest'
      BY <1>4
    <3> QED
      BY <2>1, <3>1 DEF Invoke
  <2>3. RunnerPlaced'
    BY <1>1, <1>2, <1>4, <2>2, Procs DEF Invoke, Go, RunnerPlaced, Here, Typed, PlacesOK
  <2>4. ASSUME NEW r \in Replay PROVE ReplayPlaced(r)'
    BY <1>4, Procs, ReplayStays DEF Invoke, Go
  <2> QED
    BY <2>1, <2>2, <2>3, <2>4 DEF Invoke, Typed, PlacesOK
<1>6. Finished' <=> Finished
  BY <1>1, Procs DEF Invoke, Go, Finished, Typed, PlacesOK
<1> QED
  BY <1>4, <1>5, <1>6, TablesStay DEF Typed, Invoke

LEMMA EventsType ==
  ASSUME Typed
  PROVE  Events(Runner) \in Seq(1 .. Latest) /\ at[Runner] \in 0 .. Latest
<1>1. at[Runner] \in 0 .. Latest
  BY Procs DEF Typed, PlacesOK
<1>2. CASE at[Runner] = 0
  BY <1>1, <1>2 DEF Events
<1>3. CASE at[Runner] # 0
  BY <1>1, <1>3, HereType DEF Events, Here, Typed, SavedOK
<1> QED
  BY <1>2, <1>3

LEMMA PartType ==
  ASSUME NEW S, NEW e \in Seq(S), NEW m \in Nat \ {0}, NEW n \in 0 .. Len(e)
  PROVE  SubSeq(e, m, n) \in Seq(S)
  BY SubSeqProperties

LEMMA UnrecordedType == Typed => Unrecorded \in Seq(1 .. Latest)
<1> SUFFICES ASSUME Typed PROVE Unrecorded \in Seq(1 .. Latest)
  OBVIOUS
<1>1. recorded + 1 \in Nat \ {0} /\ Len(Events(Runner)) \in 0 .. Len(Events(Runner))
  BY EventsType DEF Typed, TablesOK
<1> QED
  BY <1>1, EventsType, PartType DEF Unrecorded

LEMMA RecordAllTyped ==
  ASSUME Typed, RecordAll PROVE spans' \in Seq(1 .. Latest) /\ recorded' \in Nat
  BY UnrecordedType, EventsType, ConcatProperties DEF RecordAll, WithSpans, Typed, TablesOK

LEMMA SubmitTyped == Typed /\ Submit => Typed'
<1> SUFFICES ASSUME Typed, Submit PROVE Typed'
  OBVIOUS
<1>1. pc[Runner] = "recording" /\ pc'[Runner] = "waiting" /\ at[Runner] # 0
  BY Procs DEF Submit, Go, Typed, PlacesOK, RunnerPlaced
<1>2. RunnerPlaced'
  BY <1>1 DEF Submit, RunnerPlaced, Here
<1>3. SavedOK' /\ PlacesOK' /\ Kept
  BY <1>2, RunnerMoves DEF Submit, Places
<1>4. spans' \in Seq(1 .. Latest') /\ recorded' \in Nat
  BY RecordAllTyped DEF Submit
<1>5. entry' \in [number : {asked'}, status : {"none", "pending", "resolved", "notified"}]
  BY DEF Submit
<1>6. TablesOK'
  BY <1>1, <1>4, <1>5 DEF Submit, Finished, Typed, TablesOK
<1> QED
  BY <1>3, <1>6 DEF Typed

LEMMA CloseReviewTyped == Typed /\ CloseReview => Typed'
<1> SUFFICES ASSUME Typed, CloseReview PROVE Typed'
  OBVIOUS
<1>1. pc[Runner] = "recording" /\ pc'[Runner] = "finishing" /\ at[Runner] # 0
  BY Procs DEF CloseReview, Go, Typed, PlacesOK, RunnerPlaced
<1>2. RunnerPlaced'
  BY <1>1 DEF CloseReview, RunnerPlaced, Here
<1>3. SavedOK' /\ PlacesOK' /\ Kept
  BY <1>2, RunnerMoves DEF CloseReview, Places
<1>4. spans' \in Seq(1 .. Latest') /\ recorded' \in Nat
  BY RecordAllTyped DEF CloseReview
<1>5. entry' \in [number : {asked'}, status : {"none", "pending", "resolved", "notified"}]
  BY DEF CloseReview, Typed, TablesOK
<1>6. reviewed' \in 0 .. asked
  BY DEF CloseReview, ReviewedNumber, Typed, TablesOK
<1>7. TablesOK'
  BY <1>1, <1>4, <1>5, <1>6 DEF CloseReview, Finished, Typed, TablesOK
<1> QED
  BY <1>3, <1>7 DEF Typed

LEMMA ResumeTyped == Typed /\ Resume => Typed'
<1> SUFFICES ASSUME Typed, Resume PROVE Typed'
  OBVIOUS
<1>1. pc[Runner] = "waiting" /\ at[Runner] \in 1 .. Latest /\ Latest \in 1 .. Latest
  BY EventsType DEF Resume, Typed, PlacesOK, RunnerPlaced, SavedOK
<1>2. SavedOK' /\ Kept
  BY Still DEF Resume
<1>3. at' = [at EXCEPT ![Runner] = Latest] /\ at' \in [Proc -> 0 .. Latest'] /\ at'[Runner] # 0
  BY <1>1, Procs DEF Resume, Typed, PlacesOK
<1>4. pc' \in [Proc -> Places]
  BY DEF Resume, Reaches, Places, Typed, PlacesOK
<1>5. RunnerPlaced'
  BY <1>1, <1>3, Procs DEF Resume, Reaches, Returns, RunnerPlaced, Here, Typed, PlacesOK
<1>6. ASSUME NEW r \in Replay PROVE ReplayPlaced(r)'
  <2>1. pc'[r] = pc[r] /\ at'[r] = at[r] /\ fork'[r] = fork[r]
    BY Procs DEF Resume, Reaches, Typed, PlacesOK
  <2> QED
    BY <1>2, <2>1, ReplayStays
<1>7. PlacesOK'
  BY <1>3, <1>4, <1>5, <1>6 DEF Resume, Typed, PlacesOK
<1>8. Finished' <=> Finished
  BY <1>1, Procs DEF Resume, Reaches, Finished, Typed, PlacesOK
<1> QED
  BY <1>2, <1>7, <1>8, TablesStay DEF Resume, Typed

LEMMA CrashWhileRecordingTyped == Typed /\ CrashWhileRecording => Typed'
<1> SUFFICES ASSUME Typed, CrashWhileRecording PROVE Typed'
  OBVIOUS
<1>1. pc[Runner] = "recording" /\ pc'[Runner] = "dead"
  BY Procs DEF CrashWhileRecording, Go, Typed, PlacesOK
<1>2. RunnerPlaced'
  BY <1>1 DEF RunnerPlaced
<1>3. SavedOK' /\ PlacesOK' /\ Kept
  BY <1>2, RunnerMoves DEF CrashWhileRecording, Places
<1>4. PICK k \in 0 .. Len(Unrecorded) : spans' = spans \o SubSeq(Unrecorded, 1, k)
  BY DEF CrashWhileRecording, WithSpans
<1>5. SubSeq(Unrecorded, 1, k) \in Seq(1 .. Latest)
  <2>1. Unrecorded \in Seq(1 .. Latest) /\ 1 \in Nat \ {0}
    BY UnrecordedType
  <2> QED
    BY <2>1, PartType
<1>6. spans' \in Seq(1 .. Latest')
  BY <1>4, <1>5, ConcatProperties DEF CrashWhileRecording, Typed, TablesOK
<1>7. entry' \in [number : {asked'}, status : {"none", "pending", "resolved", "notified"}]
  BY DEF CrashWhileRecording, Typed, TablesOK
<1>8. TablesOK'
  BY <1>1, <1>6, <1>7 DEF CrashWhileRecording, Finished, Typed, TablesOK
<1> QED
  BY <1>3, <1>8 DEF Typed

LEMMA DecideTyped == Typed /\ Decide => Typed'
<1> SUFFICES ASSUME Typed, Decide PROVE Typed'
  OBVIOUS
<1>1. SavedOK' /\ Kept
  BY Still DEF Decide
<1>2. PlacesOK'
  BY DEF Decide, Typed, PlacesOK, RunnerPlaced, ReplayPlaced, Here
<1>3. entry' \in [number : {asked'}, status : {"none", "pending", "resolved", "notified"}]
  BY DEF Decide, Typed, TablesOK
<1>4. TablesOK'
  BY <1>3 DEF Decide, Finished, Typed, TablesOK
<1> QED
  BY <1>1, <1>2, <1>4 DEF Typed

\* A run is over with an outcome
LEMMA OverHasOutcome ==
  ASSUME Typed, at[Runner] # 0, Here(Runner).stage = "over"
  PROVE  Here(Runner).status \in {"completed", "rejected"}
<1>1. at[Runner] \in 1 .. Latest
  BY EventsType DEF Typed, SavedOK
<1> DEFINE h == Here(Runner)
<1>2. h \in Checkpoint /\ Sound(h, at[Runner])
  BY <1>1, HereType DEF Here
<1> HIDE DEF h
<1>3. h.stage = "over"
  BY DEF h
<1>4. h.by \in {"delivering", "rejecting"}
  BY <1>2, <1>3, Edges DEF Sound, Checkpoint
<1>5. h.status \in {"completed", "rejected"}
  BY <1>2, <1>4, Edges DEF Sound, Checkpoint
<1> QED
  BY <1>5 DEF h

LEMMA EscalationsType ==
  ASSUME NEW S, NEW events \in Seq(S)
  PROVE  IsFiniteSet({k \in DOMAIN events : saved[events[k]].by = "asking"})
         /\ Escalations(events) \in Nat
<1>1. IsFiniteSet(1 .. Len(events))
  BY FS_Interval
<1>2. IsFiniteSet({k \in DOMAIN events : saved[events[k]].by = "asking"})
  BY <1>1, FS_Subset
<1> QED
  BY <1>2, FS_CardinalityType DEF Escalations

LEMMA FinishTyped == Typed /\ Finish => Typed'
<1> SUFFICES ASSUME Typed, Finish PROVE Typed'
  OBVIOUS
<1>1. /\ pc[Runner] = "finishing" /\ pc'[Runner] = "done" /\ at[Runner] # 0
      /\ Here(Runner).stage = "over"
  BY Procs DEF Finish, Go, Typed, PlacesOK, RunnerPlaced
<1>2. RunnerPlaced'
  BY <1>1 DEF Finish, RunnerPlaced, Here
<1>3. SavedOK' /\ PlacesOK' /\ Kept
  BY <1>2, RunnerMoves DEF Finish, Places
<1>4. row'.status \in {"completed", "rejected"}
  BY <1>1, OverHasOutcome DEF Finish, FinishedRow
<1>5. row' \in [status : {"completed", "rejected"}, spans : Nat, escalations : Nat, reviewed : Nat]
  <2>1. Escalations(Events(Runner)) \in Nat
    BY EventsType, EscalationsType
  <2>2. Len(spans) \in Nat /\ reviewed \in Nat
    BY DEF Typed, TablesOK
  <2> QED
    BY <1>1, <2>1, <2>2, OverHasOutcome DEF Finish, FinishedRow
<1>6. spans' \in Seq(1 .. Latest')
  BY DEF Finish, Typed, TablesOK
<1>7. TablesOK'
  BY <1>1, <1>4, <1>5, <1>6 DEF Finish, Finished, Typed, TablesOK
<1> QED
  BY <1>3, <1>7 DEF Typed

-----------------------------------------------------------------------------
\* Steps of the replays

LEMMA ForkTyped == ASSUME Typed, NEW r \in Replay, Fork(r) PROVE Typed'
<1>1. PICK i \in DOMAIN saved, stage \in Stage :
        /\ stage \in After(saved[i].by)
        /\ saved' = Append(saved, [saved[i] EXCEPT !.line = @ \union {Latest + 1}, !.stage = stage])
  BY DEF Fork, ListCheckpoints
<1>2. SavedOK' /\ Kept /\ Latest' = Latest + 1
  <2>1. Sound([saved[i] EXCEPT !.line = @ \union {Latest + 1}, !.stage = stage], Latest + 1)
    BY <1>1, ForkSound
  <2> QED
    BY <1>1, <2>1, Grows DEF Kept
<1>3. pc[Runner] \notin {"starting", "started"} /\ pc[r] = "idle"
  BY <1>1 DEF Fork, RunnerPlaced, Typed, PlacesOK
<1>4. /\ pc'[r] = "forked" /\ fork'[r] = Latest + 1
      /\ \A p \in Proc \ {r} : pc'[p] = pc[p]
      /\ \A q \in Replay \ {r} : fork'[q] = fork[q]
  BY Procs DEF Fork, Go, Typed, PlacesOK
<1>5. at \in [Proc -> 0 .. Latest'] /\ fork \in [Replay -> 0 .. Latest']
  BY <1>2, Wider
<1>6. pc' \in [Proc -> Places] /\ fork' \in [Replay -> 0 .. Latest']
  <2>1. Latest + 1 \in 0 .. Latest'
    BY <1>2 DEF Kept
  <2> QED
    BY <2>1, <1>5 DEF Fork, Go, Places, Typed, PlacesOK
<1>7. RunnerPlaced'
  BY <1>2, <1>3, <1>4, Procs, RunnerStays DEF Fork
<1>8. ASSUME NEW q \in Replay PROVE ReplayPlaced(q)'
  <2>1. CASE q = r
    BY <1>2, <1>4, <2>1 DEF ReplayPlaced, Kept
  <2>2. CASE q # r
    BY <1>2, <1>4, <2>2, Procs, ReplayStays DEF Fork
  <2> QED
    BY <2>1, <2>2
<1>9. PlacesOK'
  BY <1>5, <1>6, <1>7, <1>8 DEF Fork, Typed, PlacesOK
<1>10. Finished' <=> Finished
  BY <1>4, Procs DEF Finished
<1> QED
  BY <1>2, <1>9, <1>10, TablesStay DEF Fork, Typed

LEMMA InvokeForkTyped == ASSUME Typed, NEW r \in Replay, InvokeFork(r) PROVE Typed'
<1>1. /\ pc[r] = "forked" /\ fork[r] \in 1 .. Latest /\ at' = [at EXCEPT ![r] = fork[r]]
      /\ UNCHANGED <<saved, steps, prompt, fork, diverted>>
  BY DEF InvokeFork, ReplayPlaced, Typed, PlacesOK, SavedOK
<1>2. SavedOK' /\ Kept
  BY <1>1, Still
<1>3. pc'[r] \in {"invoking", "returned"} /\ \A p \in Proc \ {r} : pc'[p] = pc[p] /\ at'[p] = at[p]
  BY <1>1, Procs DEF InvokeFork, Reaches, Typed, PlacesOK
<1>4. pc' \in [Proc -> Places] /\ at' \in [Proc -> 0 .. Latest]
  BY <1>1 DEF InvokeFork, Reaches, Places, Typed, PlacesOK
<1>5. RunnerPlaced'
  <2>1. pc[Runner] \notin {"starting", "started"}
    BY <1>1 DEF RunnerPlaced, Typed, PlacesOK
  <2> QED
    BY <1>2, <1>3, <2>1, Procs, RunnerStays
<1>6. ASSUME NEW q \in Replay PROVE ReplayPlaced(q)'
  <2>1. CASE q = r
    <3>1. at'[r] = fork[r] /\ fork[r] \in saved[fork[r]].line /\ fork[r] # 0
      BY <1>1, Procs, HereType DEF Sound, Typed, PlacesOK
    <3> QED
      BY <1>1, <1>3, <2>1, <3>1 DEF ReplayPlaced, Here
  <2>2. CASE q # r
    BY <1>1, <1>2, <1>3, <2>2, Procs, ReplayStays
  <2> QED
    BY <2>1, <2>2
<1>7. PlacesOK'
  BY <1>1, <1>4, <1>5, <1>6 DEF Typed, PlacesOK
<1>8. Finished' <=> Finished
  BY <1>3, Procs DEF Finished
<1> QED
  BY <1>2, <1>7, <1>8, TablesStay DEF InvokeFork, Typed

LEMMA RestartTyped == Typed /\ Restart => Typed'
<1> SUFFICES ASSUME Typed, Restart PROVE Typed'
  OBVIOUS
<1>1. SavedOK' /\ Kept
  BY Still DEF Restart
<1>2. pc'[Runner] = pc[Runner] /\ \A r \in Replay : pc'[r] \in {pc[r], "failed"}
  BY Procs DEF Restart
<1>3. pc[Runner] \notin {"starting", "started"}
  BY DEF Restart, RunnerPlaced, Typed, PlacesOK
<1>4. pc' \in [Proc -> Places] /\ steps' \in [Proc -> 0 .. StepLimit]
  BY LimitsAssumption DEF Restart, Places, Typed, PlacesOK
<1>5. RunnerPlaced'
  BY <1>1, <1>2, <1>3, RunnerStays DEF Restart
<1>6. ASSUME NEW r \in Replay PROVE ReplayPlaced(r)'
  BY <1>1, <1>2, ReplayStays DEF Restart, ReplayPlaced
<1>7. PlacesOK'
  BY <1>4, <1>5, <1>6 DEF Restart, Typed, PlacesOK
<1>8. Finished' <=> Finished
  BY <1>2 DEF Finished
<1> QED
  BY <1>1, <1>7, <1>8, TablesStay DEF Restart, Typed

LEMMA StepTyped == Typed /\ [Next]_vars => Typed'
<1> SUFFICES ASSUME Typed, [Next]_vars PROVE Typed'
  OBVIOUS
<1>1. CASE StartTask \/ Invoke \/ Submit \/ Resume \/ CloseReview \/ Finish
  BY <1>1, StartTaskTyped, InvokeTyped, SubmitTyped, ResumeTyped, CloseReviewTyped, FinishTyped
<1>2. CASE \E p \in Proc : Superstep(p)
  BY <1>2, SuperstepTyped
<1>3. CASE \E p \in Proc : OutOfSteps(p) \/ Raise(p)
  BY <1>3, BrokenTyped DEF OutOfSteps, Raise
<1>4. CASE Crash
  <2>1. pc[Runner] \notin {"done", "idle"} /\ Runner \in Proc
    BY <1>4, Procs DEF Crash, Typed, PlacesOK, RunnerPlaced
  <2> QED
    BY <1>4, <2>1, BrokenTyped DEF Crash
<1>5. CASE CrashWhileRecording \/ Decide
  BY <1>5, CrashWhileRecordingTyped, DecideTyped
<1>6. CASE \E r \in Replay : Fork(r) \/ InvokeFork(r)
  BY <1>6, ForkTyped, InvokeForkTyped
<1>7. CASE Restart
  BY <1>7, RestartTyped
<1>8. CASE UNCHANGED vars
  <2>1. SavedOK' /\ Kept
    BY <1>8, Still DEF vars
  <2>2. PlacesOK'
    BY <1>8 DEF vars, Typed, PlacesOK, RunnerPlaced, ReplayPlaced, Here
  <2>3. Finished' <=> Finished
    BY <1>8 DEF vars, Finished
  <2> QED
    BY <1>8, <2>1, <2>2, <2>3, TablesStay DEF vars, Typed
<1> QED
  BY <1>1, <1>2, <1>3, <1>4, <1>5, <1>6, <1>7, <1>8, Procs
     DEF Next, RunnerStep, ReplayStep, PollAgain, Stopped

\* TracedRun.TypeOK: a thread's checkpoints come from older ones and trace only
\* what was saved by then, for any number of replays, and a row has an outcome
\* once its run is over and not before.
THEOREM TypeCorrect == Spec => []TypeOK
<1>1. Spec => []Typed
  BY InitTyped, StepTyped, PTL DEF Spec
<1> QED
  BY <1>1, TypedShows, PTL

\* replay.py:54-55: the answer of a replay request comes from the fork made for
\* it, whatever the runner and other requests add to the thread meanwhile.
THEOREM ReplayAnswersForItsForkAlways == Spec => []ReplayAnswersForItsFork
<1>1. Spec => []Typed
  BY InitTyped, StepTyped, PTL DEF Spec
<1>2. Typed => ReplayAnswersForItsFork
  BY DEF Typed, PlacesOK, ReplayPlaced, ReplayAnswersForItsFork
<1> QED
  BY <1>1, <1>2, PTL

-----------------------------------------------------------------------------
\* What the runner knows of its own path, until it resumes from another's checkpoint

\* Spans begin the trace; the recorder's count is theirs
Recorded ==
    /\ Len(spans) <= Len(Events(Runner))
    /\ \A k \in 1 .. Len(spans) : spans[k] = Events(Runner)[k]
    /\ pc[Runner] # "dead" => recorded = Len(spans)
    /\ Settled => Len(spans) = Len(Events(Runner))

\* The question put to people is not yet one of the trace
Paused == pc[Runner] \in {"waiting", "invoking"} /\ Here(Runner).stage = "asking"

Counted ==
    /\ pc[Runner] # "dead" =>
          asked = Escalations(Events(Runner)) + (IF Paused THEN 1 ELSE 0)
    /\ pc[Runner] \in {"invoking", "recording"} => asked = 0 \/ entry.status = "resolved"
    /\ pc[Runner] \in {"finishing", "done"} => reviewed = asked

\* The synthesis prompt stays once there is nothing more to plan
Planned ==
    /\ at[Runner] = 0 => prompt["runner"] = "planning"
    /\ at[Runner] # 0 =>
          /\ Here(Runner).rules # "synthesis"
          /\ prompt["runner"] = "synthesis" => Here(Runner).stage \in {"delivering", "over"}

Own == Recorded /\ Counted /\ Planned /\ FinishedRowIsWhole
Inv == Typed /\ (~ diverted => Own)

LEMMA NoneEscalated ==
  ASSUME NEW events, \A k \in DOMAIN events : saved[events[k]].by # "asking"
  PROVE  Escalations(events) = 0
<1>1. {k \in DOMAIN events : saved[events[k]].by = "asking"} = {}
  OBVIOUS
<1> QED
  BY <1>1, FS_EmptySet DEF Escalations

LEMMA InitInv == Init => Inv
<1> SUFFICES ASSUME Init PROVE Own
  BY InitTyped DEF Inv
<1>1. pc[Runner] = "starting" /\ at[Runner] = 0 /\ Events(Runner) = <<>>
  BY Procs DEF Init, Events
<1>2. Escalations(Events(Runner)) = 0
  BY <1>1, NoneEscalated
<1>3. Recorded
  BY <1>1 DEF Init, Recorded, Settled
<1>4. Counted
  BY <1>1, <1>2 DEF Init, Counted, Paused
<1>5. Planned
  BY <1>1 DEF Init, Planned
<1>6. FinishedRowIsWhole
  BY <1>1 DEF FinishedRowIsWhole, Finished
<1> QED
  BY <1>3, <1>4, <1>5, <1>6 DEF Own

\* A checkpoint that stays the runner's keeps its trace, and that its number of pauses
LEMMA SameTrace ==
  ASSUME Typed, Kept, at'[Runner] = at[Runner]
  PROVE  /\ Events(Runner)' = Events(Runner)
         /\ Escalations(Events(Runner))' = Escalations(Events(Runner))
         /\ at[Runner] # 0 => Here(Runner)' = Here(Runner)
<1>1. at[Runner] # 0 => at[Runner] \in 1 .. Latest
  BY EventsType DEF Kept
<1>2. at[Runner] # 0 => Here(Runner)' = Here(Runner)
  BY <1>1 DEF Kept, Here
<1>3. Events(Runner)' = Events(Runner)
  BY <1>2 DEF Events
<1> DEFINE e == Events(Runner)
<1>4. \A k \in DOMAIN e : saved'[e[k]] = saved[e[k]]
  BY EventsType DEF Kept
<1>5. {k \in DOMAIN e : saved'[e[k]].by = "asking"} = {k \in DOMAIN e : saved[e[k]].by = "asking"}
  BY <1>4
<1> QED
  BY <1>2, <1>3, <1>5 DEF Escalations

\* Steps of others, and those that end the runner's process
LEMMA OwnStays ==
  ASSUME Inv, Typed', Kept, pc'[Runner] \in {pc[Runner], "dead"}, at'[Runner] = at[Runner],
         UNCHANGED <<tables, diverted, asked>>, prompt'["runner"] = prompt["runner"],
         entry' = entry \/ entry'.status = "resolved"
  PROVE  Inv'
<1> SUFFICES ASSUME ~ diverted, Own PROVE Own'
  BY DEF Inv
<1>1. at[Runner] = 0 => pc[Runner] \in {"starting", "started", "dead"}
  BY DEF Inv, Typed, PlacesOK, RunnerPlaced
<1>2. Recorded'
  BY SameTrace DEF Inv, Own, Recorded, Settled
<1>3. Paused' <=> Paused /\ pc'[Runner] # "dead"
  BY <1>1, SameTrace DEF Inv, Paused
<1>4. Counted'
  BY <1>3, SameTrace DEF Inv, Own, Counted
<1>5. Planned'
  BY SameTrace DEF Inv, Own, Planned
<1>6. FinishedRowIsWhole'
  BY <1>1, SameTrace DEF Inv, Own, FinishedRowIsWhole, Finished
<1> QED
  BY <1>2, <1>4, <1>5, <1>6 DEF Own

LEMMA StartTaskInv == Inv /\ StartTask => Inv'
<1> SUFFICES ASSUME Inv, StartTask, ~ diverted, Own PROVE Own'
  BY StartTaskTyped DEF Inv, StartTask
<1>1. pc[Runner] = "starting" /\ pc'[Runner] = "started" /\ at'[Runner] = at[Runner] /\ at[Runner] = 0
  BY Procs DEF StartTask, Go, Inv, Typed, PlacesOK, RunnerPlaced
<1>2. Kept
  BY Still DEF StartTask, Inv
<1>3. Recorded'
  BY <1>1, <1>2, SameTrace DEF StartTask, Inv, Own, Recorded, Settled
<1>4. Counted'
  BY <1>1, <1>2, SameTrace DEF StartTask, Inv, Own, Counted, Paused
<1>5. Planned' /\ FinishedRowIsWhole'
  BY <1>1 DEF StartTask, Own, Planned, FinishedRowIsWhole, Finished
<1> QED
  BY <1>3, <1>4, <1>5 DEF Own

LEMMA InvokeInv == Inv /\ Invoke => Inv'
<1> SUFFICES ASSUME Inv, Invoke, ~ diverted, Own PROVE Own'
  BY InvokeTyped DEF Inv, Invoke
<1>1. /\ pc[Runner] = "started" /\ pc'[Runner] = "invoking" /\ at[Runner] = 0 /\ at'[Runner] = 1
  BY Procs DEF Invoke, Go, Inv, Typed, PlacesOK, RunnerPlaced
<1>2. Here(Runner)' = AfterIntake
  BY <1>1 DEF Here, Invoke
<1>3. Events(Runner) = <<>> /\ Events(Runner)' = <<1>>
  BY <1>1, <1>2 DEF Events, AfterIntake
<1>4. Escalations(Events(Runner)) = 0
  BY <1>3, NoneEscalated
<1>5. Escalations(Events(Runner))' = 0
  <2>1. {k \in DOMAIN Events(Runner)' : saved'[Events(Runner)'[k]].by = "asking"} = {}
    BY <1>3 DEF Invoke, AfterIntake
  <2> QED
    BY <2>1, FS_EmptySet DEF Escalations
<1>6. Len(spans) = 0 /\ recorded = 0
  BY <1>1, <1>3 DEF Inv, Own, Recorded, Typed, TablesOK
<1>7. Recorded'
  BY <1>1, <1>3, <1>6 DEF Invoke, Recorded, Settled
<1>8. Counted'
  BY <1>1, <1>2, <1>4, <1>5 DEF Invoke, Own, Counted, Paused, AfterIntake
<1>9. Planned' /\ FinishedRowIsWhole'
  BY <1>1, <1>2 DEF Invoke, Own, Planned, FinishedRowIsWhole, Finished, AfterIntake
<1> QED
  BY <1>7, <1>8, <1>9 DEF Own

\* A node of the runner's trace more
LEMMA LongerTrace ==
  ASSUME Typed, at[Runner] # 0, NEW stage \in After(Here(Runner).stage),
         saved' = Append(saved, Child(Runner, stage)), at' = [at EXCEPT ![Runner] = Latest + 1]
  PROVE  /\ Here(Runner)' = Child(Runner, stage)
         /\ Events(Runner)' = Append(Events(Runner), Latest + 1)
         /\ Escalations(Events(Runner))'
              = Escalations(Events(Runner)) + (IF Here(Runner).stage = "asking" THEN 1 ELSE 0)
<1> DEFINE e == Events(Runner)
           n == Len(e)
           by == Here(Runner).stage
           A == {k \in DOMAIN e : saved[e[k]].by = "asking"}
<1>1. at[Runner] \in 1 .. Latest /\ e \in Seq(1 .. Latest) /\ n \in Nat
  BY EventsType DEF Typed, SavedOK
<1>2. Sound(Child(Runner, stage), Latest + 1)
  BY ChildSound, Procs
<1>3. /\ Latest \in Nat /\ saved'[Latest + 1] = Child(Runner, stage)
      /\ \A i \in 1 .. Latest : saved'[i] = saved[i]
  BY <1>2, Grows
<1>4. at'[Runner] = Latest + 1 /\ Latest + 1 # 0
  BY <1>3, Procs DEF Typed, PlacesOK
<1>5. Here(Runner)' = Child(Runner, stage)
  BY <1>3, <1>4 DEF Here
<1>6. Events(Runner)' = Append(e, Latest + 1)
  BY <1>4, <1>5 DEF Events, Child
<1>7. /\ DOMAIN Events(Runner)' = 1 .. (n + 1) /\ DOMAIN e = 1 .. n
      /\ \A k \in 1 .. n : Events(Runner)'[k] = e[k]
      /\ Events(Runner)'[n + 1] = Latest + 1
  BY <1>1, <1>6, AppendProperties
<1>8. /\ \A k \in 1 .. n : saved'[Events(Runner)'[k]] = saved[e[k]]
      /\ saved'[Events(Runner)'[n + 1]].by = by
  BY <1>1, <1>3, <1>7 DEF Child
<1>9. Escalations(Events(Runner))'
        = Cardinality({k \in 1 .. (n + 1) : saved'[Events(Runner)'[k]].by = "asking"})
  BY <1>7 DEF Escalations
<1>10. IsFiniteSet(A) /\ Cardinality(A) \in Nat /\ Escalations(e) = Cardinality(A)
  BY <1>1, EscalationsType DEF Escalations
<1>11. n + 1 \notin A
  BY <1>1, <1>7
<1>12. {k \in 1 .. (n + 1) : saved'[Events(Runner)'[k]].by = "asking"}
         = IF by = "asking" THEN A \union {n + 1} ELSE A
  BY <1>1, <1>7, <1>8
<1> HIDE DEF A, e, n, by
<1>13. CASE by = "asking"
  <2>1. Cardinality(A \union {n + 1}) = Cardinality(A) + 1
    BY <1>10, <1>11, FS_AddElement
  <2> QED
    BY <1>5, <1>6, <1>9, <1>10, <1>12, <1>13, <2>1 DEF by, e
<1>14. CASE by # "asking"
  <2>1. Escalations(Events(Runner))' = Escalations(e)
    BY <1>9, <1>10, <1>12, <1>14
  <2>2. Escalations(e) + 0 = Escalations(e)
    BY <1>10
  <2> QED
    BY <1>5, <1>6, <1>14, <2>1, <2>2 DEF by, e
<1> QED
  BY <1>13, <1>14

LEMMA RunnerSuperstepInv == Inv /\ Superstep(Runner) => Inv'
<1> SUFFICES ASSUME Inv, Superstep(Runner) PROVE Inv'
  OBVIOUS
<1>0. Typed' /\ diverted' = diverted
  <2>1. Typed'
    BY SuperstepTyped, Procs DEF Inv
  <2> QED
    BY <2>1 DEF Superstep
<1> SUFFICES ASSUME ~ diverted, Own PROVE Own'
  BY <1>0 DEF Inv
<1>1. PICK stage \in After(Here(Runner).stage) :
        saved' = Append(saved, Child(Runner, stage)) /\ Reaches(Runner, stage, FALSE)
  BY DEF Superstep
<1>2. pc[Runner] = "invoking" /\ at[Runner] # 0 /\ Here(Runner).stage \in Stage
  BY Procs, InvokingHere DEF Superstep, Inv
<1>3. /\ pc'[Runner] = (IF stage \in {"asking", "over"} THEN "recording" ELSE "invoking")
      /\ UNCHANGED <<tables, queue>>
  BY <1>1, Procs DEF Superstep, Reaches, Returns, Inv, Typed, PlacesOK
<1>4. /\ Here(Runner)' = Child(Runner, stage)
      /\ Events(Runner)' = Append(Events(Runner), Latest + 1)
      /\ Escalations(Events(Runner))'
           = Escalations(Events(Runner)) + (IF Here(Runner).stage = "asking" THEN 1 ELSE 0)
  BY <1>1, <1>2, LongerTrace DEF Superstep, Inv
<1>5. at'[Runner] = Latest + 1 /\ at'[Runner] # 0
  BY Procs DEF Superstep, Inv, Typed, PlacesOK, SavedOK
<1>6. Recorded'
  <2>1. Events(Runner) \in Seq(1 .. Latest)
    BY EventsType DEF Inv
  <2>2. /\ Len(Events(Runner)') = Len(Events(Runner)) + 1
        /\ \A k \in 1 .. Len(Events(Runner)) : Events(Runner)'[k] = Events(Runner)[k]
    BY <1>4, <2>1
  <2>3. Len(spans) \in Nat /\ Len(Events(Runner)) \in Nat
    BY <2>1 DEF Inv, Typed, TablesOK
  <2> QED
    BY <1>2, <1>3, <2>2, <2>3 DEF Own, Recorded, Settled
<1>7. Counted'
  <2>1. Paused' <=> FALSE
    BY <1>3, <1>4 DEF Paused, Child
  <2>2. Paused <=> Here(Runner).stage = "asking"
    BY <1>2 DEF Paused
  <2>3. Escalations(Events(Runner)) \in Nat
    BY EventsType, EscalationsType DEF Inv
  <2> QED
    BY <1>2, <1>3, <1>4, <2>1, <2>2, <2>3 DEF Own, Counted
<1>8. Planned'
  <2>1. Here(Runner)'.stage = stage /\ Here(Runner)'.rules = Rules(Runner)
    BY <1>4 DEF Child
  <2>2. Rules(Runner) # "synthesis"
    BY <1>2 DEF Own, Planned, Rules, App
  <2>3. prompt'["runner"] = IF Here(Runner).stage = "synthesizing" THEN "synthesis" ELSE prompt["runner"]
    BY DEF Superstep, PromptsAfter, App, Inv, Typed, PlacesOK
  <2>4. Here(Runner).stage \in {"synthesizing", "delivering", "over"} => stage \in {"delivering", "over"}
    BY <1>2 DEF After
  <2> QED
    BY <1>2, <1>5, <2>1, <2>2, <2>3, <2>4 DEF Own, Planned
<1>9. FinishedRowIsWhole'
  BY <1>3 DEF FinishedRowIsWhole, Finished
<1> QED
  BY <1>6, <1>7, <1>8, <1>9 DEF Own

\* The slice events[recorded:] completes the spans
LEMMA RecordAllCompletes ==
  ASSUME Typed, Recorded, pc[Runner] # "dead", RecordAll
  PROVE  spans' = Events(Runner) /\ recorded' = Len(spans')
<1> DEFINE e == Events(Runner)
           m == Len(spans)
<1>1. e \in Seq(1 .. Latest) /\ spans \in Seq(1 .. Latest) /\ m \in 0 .. Len(e) /\ Len(e) \in Nat
  BY EventsType DEF Recorded, Typed, TablesOK
<1>2. spans' = spans \o SubSeq(e, m + 1, Len(e)) /\ recorded' = Len(e)
  BY DEF Recorded, RecordAll, WithSpans, Unrecorded
<1>3. spans = SubSeq(e, 1, m)
  <2>1. Len(SubSeq(e, 1, m)) = m /\ \A k \in 1 .. m : SubSeq(e, 1, m)[k] = e[k]
    BY <1>1, SubSeqProperties
  <2>2. SubSeq(e, 1, m) \in Seq(1 .. Latest)
    BY <1>1, PartType
  <2>3. \A k \in 1 .. m : spans[k] = SubSeq(e, 1, m)[k]
    BY <2>1 DEF Recorded
  <2> HIDE DEF e
  <2> QED
    BY <1>1, <2>1, <2>2, <2>3, SeqEqual
<1>4. spans' = SubSeq(e, 1, Len(e))
  <2>1. 1 \in 1 .. Len(e) + 1 /\ m \in 1 - 1 .. Len(e) /\ Len(e) \in m .. Len(e)
    BY <1>1
  <2>2. SubSeq(e, 1, m) \o SubSeq(e, m + 1, Len(e)) = SubSeq(e, 1, Len(e))
    <3> HIDE DEF e, m
    <3> QED
      BY <1>1, <2>1, ConcatAdjacentSubSeq
  <2> QED
    BY <1>2, <1>3, <2>2
<1> QED
  BY <1>1, <1>2, <1>4, SubSeqFull

LEMMA SubmitInv == Inv /\ Submit => Inv'
<1> SUFFICES ASSUME Inv, Submit, ~ diverted, Own PROVE Own'
  BY SubmitTyped DEF Inv, Submit
<1>1. /\ pc[Runner] = "recording" /\ pc'[Runner] = "waiting" /\ at[Runner] # 0
      /\ at' = at /\ Here(Runner).stage = "asking" /\ Kept
  BY Procs, Still DEF Submit, Go, Inv, Typed, PlacesOK, RunnerPlaced
<1>2. /\ Events(Runner)' = Events(Runner) /\ Here(Runner)' = Here(Runner)
      /\ Escalations(Events(Runner))' = Escalations(Events(Runner))
  BY <1>1, SameTrace DEF Inv
<1>3. spans' = Events(Runner) /\ recorded' = Len(spans')
  BY <1>1, RecordAllCompletes DEF Submit, Inv, Own
<1>4. Recorded'
  BY <1>2, <1>3, EventsType DEF Recorded, Inv
<1>5. Counted'
  <2>1. ~ Paused /\ Paused'
    BY <1>1, <1>2 DEF Paused
  <2>2. Escalations(Events(Runner)) \in Nat
    BY EventsType, EscalationsType DEF Inv
  <2> QED
    BY <1>1, <1>2, <2>1, <2>2 DEF Submit, Own, Counted
<1>6. Planned' /\ FinishedRowIsWhole'
  BY <1>1, <1>2 DEF Submit, Own, Planned, FinishedRowIsWhole, Finished
<1> QED
  BY <1>4, <1>5, <1>6 DEF Own

\* Not diverted, the runner resumes from the checkpoint it paused on
LEMMA ResumeInv == Inv /\ Resume => Inv'
<1> SUFFICES ASSUME Inv, Resume, ~ diverted' PROVE Own'
  BY ResumeTyped DEF Inv
<1>1. ~ diverted /\ at[Runner] = Latest /\ Own
  BY DEF Resume, Inv, Typed, PlacesOK
<1>2. /\ pc[Runner] = "waiting" /\ at'[Runner] = at[Runner] /\ at[Runner] # 0
      /\ Here(Runner).stage = "asking" /\ Kept
  BY <1>1, Procs, Still DEF Resume, Inv, Typed, PlacesOK, RunnerPlaced
<1>3. pc'[Runner] = "invoking"
  BY <1>1, <1>2, Procs DEF Resume, Reaches, Returns, Here, Inv, Typed, PlacesOK
<1>4. /\ Events(Runner)' = Events(Runner) /\ Here(Runner)' = Here(Runner)
      /\ Escalations(Events(Runner))' = Escalations(Events(Runner))
  BY <1>2, SameTrace DEF Inv
<1>5. Recorded'
  BY <1>1, <1>2, <1>3, <1>4 DEF Resume, Own, Recorded, Settled
<1>6. Counted'
  <2>1. Paused /\ Paused'
    BY <1>2, <1>3, <1>4 DEF Paused
  <2> QED
    BY <1>1, <1>2, <1>3, <1>4, <2>1 DEF Resume, Own, Counted
<1>7. Planned' /\ FinishedRowIsWhole'
  BY <1>1, <1>2, <1>3, <1>4 DEF Resume, Own, Planned, FinishedRowIsWhole, Finished
<1> QED
  BY <1>5, <1>6, <1>7 DEF Own

LEMMA CloseReviewInv == Inv /\ CloseReview => Inv'
<1> SUFFICES ASSUME Inv, CloseReview, ~ diverted, Own PROVE Own'
  BY CloseReviewTyped DEF Inv, CloseReview
<1>1. /\ pc[Runner] = "recording" /\ pc'[Runner] = "finishing" /\ at[Runner] # 0
      /\ at' = at /\ Here(Runner).stage = "over" /\ Kept
  BY Procs, Still DEF CloseReview, Go, Inv, Typed, PlacesOK, RunnerPlaced
<1>2. /\ Events(Runner)' = Events(Runner) /\ Here(Runner)' = Here(Runner)
      /\ Escalations(Events(Runner))' = Escalations(Events(Runner))
  BY <1>1, SameTrace DEF Inv
<1>3. spans' = Events(Runner) /\ recorded' = Len(spans')
  BY <1>1, RecordAllCompletes DEF CloseReview, Inv, Own
<1>4. Recorded'
  BY <1>2, <1>3, EventsType DEF Recorded, Inv
<1>5. Counted'
  <2>1. ~ Paused /\ ~ Paused'
    BY <1>1, <1>2 DEF Paused
  <2>2. reviewed' = asked
    BY <1>1 DEF CloseReview, ReviewedNumber, Own, Counted, Inv, Typed, TablesOK
  <2> QED
    BY <1>1, <1>2, <2>1, <2>2 DEF CloseReview, Own, Counted
<1>6. Planned' /\ FinishedRowIsWhole'
  BY <1>1, <1>2 DEF CloseReview, Own, Planned, FinishedRowIsWhole, Finished
<1> QED
  BY <1>4, <1>5, <1>6 DEF Own

LEMMA FinishInv == Inv /\ Finish => Inv'
<1> SUFFICES ASSUME Inv, Finish, ~ diverted, Own PROVE Own'
  BY FinishTyped DEF Inv, Finish
<1>1. /\ pc[Runner] = "finishing" /\ pc'[Runner] = "done" /\ at[Runner] # 0
      /\ at' = at /\ Here(Runner).stage = "over" /\ Kept
  BY Procs, Still DEF Finish, Go, Inv, Typed, PlacesOK, RunnerPlaced
<1>2. /\ Events(Runner)' = Events(Runner) /\ Here(Runner)' = Here(Runner)
      /\ Escalations(Events(Runner))' = Escalations(Events(Runner))
  BY <1>1, SameTrace DEF Inv
<1>3. ~ Paused /\ ~ Paused'
  BY <1>1 DEF Paused
<1>4. Recorded'
  BY <1>1, <1>2 DEF Finish, Own, Recorded, Settled
<1>5. Counted'
  BY <1>1, <1>2, <1>3 DEF Finish, Own, Counted
<1>6. Planned'
  BY <1>1, <1>2 DEF Finish, Own, Planned
<1>7. FinishedRowIsWhole'
  <2>1. Escalations(Events(Runner)) = asked
    <3>1. Escalations(Events(Runner)) \in Nat
      BY EventsType, EscalationsType DEF Inv
    <3> QED
      BY <1>1, <1>3, <3>1 DEF Own, Counted
  <2>2. Len(spans) = Len(Events(Runner)) /\ reviewed = asked
    BY <1>1 DEF Own, Recorded, Counted, Settled
  <2> QED
    BY <1>2, <2>1, <2>2 DEF Finish, FinishedRow, FinishedRowIsWhole
<1> QED
  BY <1>4, <1>5, <1>6, <1>7 DEF Own

LEMMA CrashWhileRecordingInv == Inv /\ CrashWhileRecording => Inv'
<1> SUFFICES ASSUME Inv, CrashWhileRecording, ~ diverted, Own PROVE Own'
  BY CrashWhileRecordingTyped DEF Inv, CrashWhileRecording
<1>1. /\ pc[Runner] = "recording" /\ pc'[Runner] = "dead" /\ at[Runner] # 0 /\ at' = at /\ Kept
  BY Procs, Still DEF CrashWhileRecording, Go, Inv, Typed, PlacesOK, RunnerPlaced
<1>2. Events(Runner)' = Events(Runner) /\ Here(Runner)' = Here(Runner)
  BY <1>1, SameTrace DEF Inv
<1> DEFINE e == Events(Runner)
           m == Len(spans)
<1>3. e \in Seq(1 .. Latest) /\ spans \in Seq(1 .. Latest) /\ m \in 0 .. Len(e) /\ Len(e) \in Nat
  BY EventsType DEF Inv, Own, Recorded, Typed, TablesOK
<1>4. Unrecorded = SubSeq(e, m + 1, Len(e))
  BY <1>1 DEF Own, Recorded, Unrecorded
<1>5. /\ Len(Unrecorded) = Len(e) - m /\ Unrecorded \in Seq(1 .. Latest)
      /\ \A j \in 1 .. Len(e) - m : Unrecorded[j] = e[m + j]
  BY <1>3, <1>4, SubSeqProperties
<1>6. PICK k \in 0 .. Len(Unrecorded) : spans' = spans \o SubSeq(Unrecorded, 1, k)
  BY DEF CrashWhileRecording, WithSpans
<1> DEFINE u == Unrecorded
           t == SubSeq(u, 1, k)
<1>7. /\ t \in Seq(1 .. Latest) /\ Len(t) = k /\ \A j \in 1 .. k : t[j] = u[j]
  <2> HIDE DEF u
  <2>1. u \in Seq(1 .. Latest) /\ k \in 0 .. Len(u)
    BY <1>5, <1>6 DEF u
  <2> QED
    BY <2>1, SubSeqProperties
<1>8. /\ Len(spans') = m + k
      /\ \A j \in 1 .. m : spans'[j] = spans[j]
      /\ \A j \in m + 1 .. m + k : spans'[j] = t[j - m]
  <2> HIDE DEF t
  <2> QED
    BY <1>3, <1>6, <1>7, ConcatProperties DEF t
<1>9. Recorded'
  <2>1. Len(spans') <= Len(e)
    BY <1>3, <1>5, <1>6, <1>8
  <2>2. ASSUME NEW j \in 1 .. Len(spans') PROVE spans'[j] = e[j]
    <3> HIDE DEF e, t, u
    <3>1. CASE j \in 1 .. m
      BY <1>8, <3>1 DEF Own, Recorded, e
    <3>2. CASE j \in m + 1 .. m + k
      <4>1. j - m \in 1 .. k /\ j - m \in 1 .. Len(e) - m
        BY <1>3, <1>5, <1>6, <3>2
      <4>2. spans'[j] = u[j - m]
        BY <1>7, <1>8, <3>2, <4>1
      <4>3. u[j - m] = e[m + (j - m)]
        BY <1>5, <4>1 DEF u
      <4>4. m + (j - m) = j
        BY <1>3, <3>2
      <4> QED
        BY <4>2, <4>3, <4>4
    <3> QED
      BY <1>3, <1>6, <1>8, <3>1, <3>2
  <2> QED
    BY <1>1, <1>2, <2>1, <2>2 DEF Recorded, Settled
<1>10. Counted' /\ Planned' /\ FinishedRowIsWhole'
  BY <1>1, <1>2 DEF CrashWhileRecording, Own, Counted, Planned, FinishedRowIsWhole, Finished
<1> QED
  BY <1>9, <1>10 DEF Own

LEMMA InvStep == Inv /\ [Next]_vars => Inv'
<1> SUFFICES ASSUME Inv, [Next]_vars PROVE Inv'
  OBVIOUS
<1>1. Typed /\ Typed'
  BY StepTyped DEF Inv
<1>2. CASE StartTask \/ Invoke \/ Submit \/ Resume \/ CloseReview \/ Finish
  BY <1>2, StartTaskInv, InvokeInv, SubmitInv, ResumeInv, CloseReviewInv, FinishInv
<1>3. CASE Superstep(Runner) \/ CrashWhileRecording
  BY <1>3, RunnerSuperstepInv, CrashWhileRecordingInv
<1>4. CASE \E r \in Replay : Superstep(r)
  <2>1. PICK r \in Replay : Superstep(r)
    BY <1>4
  <2>2. at[r] # 0 /\ r \in Proc /\ r # Runner
    BY <1>1, <2>1, Procs, InvokingHere DEF Superstep, Typed, SavedOK
  <2>3. Kept
    BY <1>1, <2>1, <2>2, ChildSound, Grows DEF Superstep, Kept
  <2>4. pc'[Runner] = pc[Runner] /\ at'[Runner] = at[Runner] /\ prompt'["runner"] = prompt["runner"]
    BY <1>1, <2>1, <2>2, Procs DEF Superstep, Reaches, PromptsAfter, App, Typed, PlacesOK
  <2> QED
    BY <1>1, <2>1, <2>3, <2>4, OwnStays DEF Superstep
<1>5. CASE \E p \in Proc : Broken(p)
  <2>1. PICK p \in Proc : Broken(p)
    BY <1>5
  <2>2. Kept
    BY <1>1, <2>1, Still DEF Broken
  <2>3. pc'[Runner] \in {pc[Runner], "dead"}
    BY <1>1, <2>1, Procs DEF Broken, Go, Typed, PlacesOK
  <2> QED
    BY <1>1, <2>1, <2>2, <2>3, OwnStays DEF Broken
<1>6. CASE Decide
  <2>1. Kept
    BY <1>1, <1>6, Still DEF Decide
  <2>2. entry'.status = "resolved"
    BY <1>1, <1>6 DEF Decide, Typed, TablesOK
  <2> QED
    BY <1>1, <1>6, <2>1, <2>2, OwnStays DEF Decide
<1>7. CASE \E r \in Replay : Fork(r)
  <2>1. PICK r \in Replay : Fork(r)
    BY <1>7
  <2>2. PICK i \in DOMAIN saved, stage \in Stage :
          /\ stage \in After(saved[i].by)
          /\ saved' = Append(saved, [saved[i] EXCEPT !.line = @ \union {Latest + 1}, !.stage = stage])
    BY <2>1 DEF Fork, ListCheckpoints
  <2>3. Sound([saved[i] EXCEPT !.line = @ \union {Latest + 1}, !.stage = stage], Latest + 1)
    BY <1>1, <2>2, ForkSound
  <2>4. Kept
    BY <1>1, <2>2, <2>3, Grows DEF Kept
  <2>5. pc'[Runner] = pc[Runner]
    BY <1>1, <2>1, Procs DEF Fork, Go, Typed, PlacesOK
  <2> QED
    BY <1>1, <2>1, <2>4, <2>5, OwnStays DEF Fork
<1>8. CASE \E r \in Replay : InvokeFork(r)
  <2>1. PICK r \in Replay : InvokeFork(r)
    BY <1>8
  <2>2. Kept
    BY <1>1, <2>1, Still DEF InvokeFork
  <2>3. pc'[Runner] = pc[Runner] /\ at'[Runner] = at[Runner]
    BY <1>1, <2>1, Procs DEF InvokeFork, Reaches, Typed, PlacesOK
  <2> QED
    BY <1>1, <2>1, <2>2, <2>3, OwnStays DEF InvokeFork
<1>9. CASE Restart
  <2>1. Kept
    BY <1>1, <1>9, Still DEF Restart
  <2>2. pc'[Runner] = pc[Runner] /\ prompt'["runner"] = prompt["runner"]
    BY <1>1, <1>9, Procs DEF Restart, Typed, PlacesOK
  <2> QED
    BY <1>1, <1>9, <2>1, <2>2, OwnStays DEF Restart
<1>10. CASE UNCHANGED vars
  <2>1. Kept
    BY <1>1, <1>10, Still DEF vars
  <2> QED
    BY <1>1, <1>10, <2>1, OwnStays DEF vars
<1> QED
  BY <1>2, <1>3, <1>4, <1>5, <1>6, <1>7, <1>8, <1>9, <1>10, Procs
     DEF Next, RunnerStep, ReplayStep, OutOfSteps, Raise, Crash, PollAgain, Stopped

LEMMA Invariant == Spec => []Inv
  BY InitInv, InvStep, PTL DEF Spec

\* recorder.py:115-122: whatever fails and whatever replays add to the thread,
\* the spans of a run begin the trace of its checkpoint, and are all of it
\* between two invocations.
THEOREM SpansFollowTraceAlways == Spec => []SpansFollowTrace
<1>1. Inv => SpansFollowTrace
  <2> SUFFICES ASSUME Inv, ~ diverted PROVE /\ IsPrefix(spans, Events(Runner))
                                            /\ Settled => spans = Events(Runner)
    BY DEF SpansFollowTrace
  <2> DEFINE e == Events(Runner)
             m == Len(spans)
  <2>1. /\ e \in Seq(1 .. Latest) /\ spans \in Seq(1 .. Latest) /\ m \in 0 .. Len(e)
        /\ \A k \in 1 .. m : spans[k] = e[k]
    BY EventsType DEF Inv, Own, Recorded, Typed, TablesOK
  <2>2. /\ SubSeq(e, 1, m) \in Seq(1 .. Latest) /\ Len(SubSeq(e, 1, m)) = m
        /\ \A k \in 1 .. m : SubSeq(e, 1, m)[k] = e[k]
    BY <2>1, SubSeqProperties
  <2>3. spans = SubSeq(e, 1, m)
    <3> HIDE DEF e
    <3> QED
      BY <2>1, <2>2, SeqEqual
  <2>4. SubSeq(spans, 1, m) = spans
    BY <2>1, SubSeqFull
  <2>5. IsPrefix(spans, e)
    BY <2>1, <2>3, <2>4 DEF IsPrefix
  <2>6. Settled => Len(spans) = Len(e)
    BY DEF Inv, Own, Recorded
  <2>7. Settled => spans = e
    <3> HIDE DEF e
    <3> QED
      BY <2>1, <2>6, SeqEqual
  <2> QED
    BY <2>5, <2>7
<1> QED
  BY <1>1, Invariant, PTL

\* recorder.py:146-169: the row of a finished task agrees with the graph's
\* outcome, with the trace, with the number of pauses and with the last review.
THEOREM FinishedRowIsWholeAlways == Spec => []FinishedRowIsWhole
<1>1. Inv => FinishedRowIsWhole
  BY DEF Inv, Own, FinishedRowIsWhole
<1> QED
  BY <1>1, Invariant, PTL

\* supervisor.py:40,50: the run that shares no process plans and replans with the
\* planner's rules, because no planning follows its synthesis.
THEOREM RunPlansByTheRulesAlways == Spec => []RunPlansByTheRules
<1>1. Inv => RunPlansByTheRules
  BY DEF Inv, Own, Planned, RunPlansByTheRules
<1> QED
  BY <1>1, Invariant, PTL
=============================================================================
