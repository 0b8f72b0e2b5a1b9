------------------------ MODULE LongTermMemoryProofs ------------------------
(***************************************************************************)
(* EraseIsFinal for any number of clients, memories and operations under   *)
(* way.  A client may hold copies of erased records, so the invariant says *)
(* where they can go: only to the ids they were read from, which no record *)
(* has any more (Clean).                                                   *)
(***************************************************************************)
EXTENDS LongTermMemory, FiniteSetTheorems, TLAPS

\* The parts of the types the proof needs
Shape == /\ DOMAIN store = Memory
         /\ \A i \in Memory : "facts" \in DOMAIN store[i]
         /\ DOMAIN copy = Client /\ DOMAIN todo = Client
         /\ \A c \in Client : /\ DOMAIN copy[c] = Memory
                              /\ \A i \in Memory : "facts" \in DOMAIN copy[c][i]

\* Ids are given out in order, and nobody has a record of one to come
Numbered == /\ added \in Nat /\ erased \in Nat /\ erased <= added
            /\ \A i \in Memory : store[i].facts # {} => i <= added
            /\ \A c \in Client : /\ \A i \in todo[c] : i \in Memory /\ i <= added
                                 /\ \A i \in Memory : copy[c][i].facts # {} => i <= added

\* A record, or a copy that can still be written to one, is free of what was erased
Clean == /\ \A i \in Memory : store[i].facts # {} => i > erased
         /\ \A i \in Memory : store[i].facts \intersect (1..erased) = {}
         /\ \A c \in Client, i \in Memory :
                i > erased => copy[c][i].facts \intersect (1..erased) = {}

Inv == Shape /\ Numbered /\ Clean

LEMMA InitInv == Init => Inv
  BY BoundsAssumption
     DEF Init, Inv, Shape, Numbered, Clean, Nothing, Absent, Memory

USE DEF Inv, Shape, Numbered, Clean

LEMMA AddInv == Inv /\ Add => Inv'
<1> SUFFICES ASSUME Inv, Add PROVE Inv'
  OBVIOUS
<1>1. added + 1 \in Memory
  BY BoundsAssumption DEF Add, Memory
<1> QED
  BY <1>1 DEF Add, clients, history, Memory

LEMMA StartInv ==
  ASSUME Inv, NEW c \in Client, NEW call, NEW ids \in SUBSET Present,
         Start(c, call, ids), UNCHANGED <<store, added, history>>
  PROVE  Inv'
  BY DEF Start, Present, history

LEMMA NothingShape ==
  /\ DOMAIN Nothing = Memory
  /\ \A i \in Memory : "facts" \in DOMAIN Nothing[i] /\ Nothing[i].facts = {}
  BY DEF Nothing, Absent

LEMMA FinishCopies ==
  ASSUME Inv, NEW c \in Client, Finish(c)
  PROVE  /\ DOMAIN copy' = Client /\ DOMAIN todo' = Client
         /\ \A d \in Client :
             /\ DOMAIN copy'[d] = Memory
             /\ \A i \in Memory : /\ "facts" \in DOMAIN copy'[d][i]
                                  /\ copy'[d][i].facts \in {copy[d][i].facts, {}}
             /\ \A i \in todo'[d] : i \in todo[d]
<1>1. DOMAIN copy' = Client /\ DOMAIN todo' = Client
  BY DEF Finish
<1>2. \A d \in Client : copy'[d] \in {copy[d], Nothing} /\ todo'[d] \in {todo[d], {}}
  BY DEF Finish
<1> QED
  BY <1>1, <1>2, NothingShape

LEMMA FinishInv ==
  ASSUME Inv, NEW c \in Client, Finish(c), UNCHANGED <<store, added, erased>>
  PROVE  Inv'
  BY FinishCopies

\* Writing a copy back, with or without a new access count
LEMMA WrittenKeeps ==
  ASSUME Inv, NEW c \in Client, NEW i \in Memory, NEW r,
         "facts" \in DOMAIN r, r.facts = copy[c][i].facts, store' = Written(i, r)
  PROVE  /\ DOMAIN store' = Memory
         /\ \A j \in Memory :
             /\ "facts" \in DOMAIN store'[j]
             /\ store'[j].facts # {} => j <= added /\ j > erased
             /\ store'[j].facts \intersect (1..erased) = {}
  BY DEF Written, Present

LEMMA BumpInv == ASSUME Inv, NEW c \in Client, Bump(c) PROVE Inv'
<1>1. PICK i \in todo[c] :
        /\ store' = Written(i, [copy[c][i] EXCEPT !.access = @ + 1])
        /\ IF todo[c] = {i}
           THEN Finish(c)
           ELSE todo' = [todo EXCEPT ![c] = @ \ {i}] /\ UNCHANGED <<job, copy, consumed>>
  BY DEF Bump
<1> DEFINE r == [copy[c][i] EXCEPT !.access = @ + 1]
<1>2. i \in Memory
  BY <1>1
<1>3. "facts" \in DOMAIN r /\ r.facts = copy[c][i].facts
  BY <1>2
<1> HIDE DEF r
<1>4. /\ DOMAIN store' = Memory
      /\ \A j \in Memory :
          /\ "facts" \in DOMAIN store'[j]
          /\ store'[j].facts # {} => j <= added /\ j > erased
          /\ store'[j].facts \intersect (1..erased) = {}
  BY <1>1, <1>2, <1>3, WrittenKeeps DEF r
<1>5. UNCHANGED <<added, erased>>
  BY DEF Bump
<1>6. CASE Finish(c)
  BY <1>4, <1>5, <1>6, FinishCopies
<1>7. CASE todo' = [todo EXCEPT ![c] = @ \ {i}] /\ UNCHANGED copy
  BY <1>4, <1>5, <1>7
<1> QED
  BY <1>1, <1>6, <1>7

LEMMA SearchInv == ASSUME Inv, NEW c \in Client, ConsolidateSearch(c) PROVE Inv'
<1>1. PICK i \in todo[c], near \in SUBSET Present :
        Merge(c, i, near) \/ MergeUnlisted(c, near)
  BY DEF ConsolidateSearch
<1>2. i \in Memory /\ i <= added /\ UNCHANGED <<store, added, erased>>
  BY <1>1 DEF ConsolidateSearch, history
<1>3. CASE Merge(c, i, near)
  <2>1. copy' = [copy EXCEPT ![c][i] = Merged(c, i, near)]
    BY <1>3 DEF Merge
  <2>2. \A j \in near : j \in Memory /\ j > erased
    BY <1>1 DEF Present
  <2>3. i > erased => Merged(c, i, near).facts \intersect (1..erased) = {}
    BY <1>2, <2>2 DEF Merged
  <2>4. "facts" \in DOMAIN Merged(c, i, near)
    BY DEF Merged
  <2>5. todo' = [todo EXCEPT ![c] = @ \ near]
    BY <1>3 DEF Merge
  <2> DEFINE m == Merged(c, i, near)
  <2> HIDE DEF m
  <2> QED
    BY <1>2, <2>1, <2>3, <2>4, <2>5 DEF m
<1>4. CASE MergeUnlisted(c, near)
  BY <1>2, <1>4, FinishInv DEF MergeUnlisted
<1> QED
  BY <1>1, <1>3, <1>4

LEMMA UpdateInv == ASSUME Inv, NEW c \in Client, ConsolidateUpdate(c) PROVE Inv'
<1>1. PICK i \in todo[c] : store' = Written(i, copy[c][i]) /\ AfterUpdate(c, todo[c] \ {i})
  BY DEF ConsolidateUpdate
<1>2. i \in Memory /\ UNCHANGED <<added, erased>>
  BY <1>1 DEF ConsolidateUpdate, history
<1>3. /\ DOMAIN store' = Memory
      /\ \A j \in Memory :
          /\ "facts" \in DOMAIN store'[j]
          /\ store'[j].facts # {} => j <= added /\ j > erased
          /\ store'[j].facts \intersect (1..erased) = {}
  BY <1>1, <1>2, WrittenKeeps
<1>4. CASE Finish(c)
  BY <1>2, <1>3, <1>4, FinishCopies
<1>5. CASE todo' = [todo EXCEPT ![c] = todo[c] \ {i}] /\ UNCHANGED copy
  BY <1>2, <1>3, <1>5
<1> QED
  BY <1>1, <1>4, <1>5 DEF AfterUpdate

LEMMA DeletionInv ==
  ASSUME Inv, NEW c \in Client,
         ConsolidateDelete(c) \/ ExpireDelete(c) \/ Delete(c)
  PROVE  Inv'
<1>1. UNCHANGED <<added, erased>> /\ \E ids : store' = Without(ids)
  BY DEF ConsolidateDelete, ExpireDelete, Delete, history
<1>2. /\ DOMAIN store' = Memory
      /\ \A j \in Memory : /\ "facts" \in DOMAIN store'[j]
                           /\ store'[j].facts \in {store[j].facts, {}}
  BY <1>1 DEF Without, Absent
<1>3. CASE Finish(c)
  BY <1>1, <1>2, <1>3, FinishCopies
<1>4. CASE UNCHANGED clients
  BY <1>1, <1>2, <1>4 DEF clients
<1> QED
  BY <1>3, <1>4 DEF ConsolidateDelete, ExpireDelete, Delete

LEMMA EraseInv == ASSUME Inv, NEW c \in Client, EraseDelete(c) PROVE Inv'
<1>1. store' = Nothing /\ added' = added /\ erased' = added /\ Finish(c)
  BY DEF EraseDelete
<1>2. Shape' /\ Numbered'
  BY <1>1, FinishCopies, NothingShape
<1>3. \A d \in Client, i \in Memory : i > added => copy'[d][i].facts = {}
  <2> SUFFICES ASSUME NEW d \in Client, NEW i \in Memory, i > added
               PROVE  copy'[d][i].facts = {}
    OBVIOUS
  <2>1. ~ (i <= added)
    BY BoundsAssumption DEF Memory
  <2>2. copy[d][i].facts = {}
    BY <2>1
  <2> QED
    BY <1>1, <2>2, FinishCopies
<1>4. Clean'
  BY <1>1, <1>3, NothingShape
<1> QED
  BY <1>2, <1>4

LEMMA ListInv ==
  ASSUME Inv, NEW c \in Client,
         Query(c) \/ ConsolidateList(c) \/ ExpireList(c)
  PROVE  Inv'
<1>1. UNCHANGED <<store, added, history>>
  BY DEF Query, ConsolidateList, ExpireList
<1>2. UNCHANGED clients \/ \E call : \E ids \in SUBSET Present : Start(c, call, ids)
  <2>1. CASE Query(c)
    BY <2>1 DEF Query
  <2>2. CASE ConsolidateList(c)
    BY <2>2 DEF ConsolidateList
  <2>3. CASE ExpireList(c)
    BY <2>3 DEF ExpireList
  <2> QED
    BY <2>1, <2>2, <2>3
<1>3. CASE UNCHANGED clients
  BY <1>1, <1>3 DEF clients, history
<1> QED
  BY <1>1, <1>2, <1>3, StartInv

LEMMA EraseListInv == ASSUME Inv, NEW c \in Client, EraseList(c) PROVE Inv'
  BY DEF EraseList, history

LEMMA StepInv == Inv /\ [Next]_vars => Inv'
<1> SUFFICES ASSUME Inv, [Next]_vars PROVE Inv'
  OBVIOUS
<1>2. CASE UNCHANGED vars
  BY <1>2 DEF vars, clients, history
<1>3. ASSUME NEW c \in Client, Fail(c) PROVE Inv'
  BY <1>3, FinishInv DEF Fail, history
<1> QED
  BY <1>2, <1>3, AddInv, BumpInv, SearchInv, UpdateInv, DeletionInv, EraseInv, ListInv, EraseListInv
     DEF Next

\* After delete_user_memories nothing the user's tasks had taught before comes
\* back, however many queries and consolidations hold copies of it: _bump_access
\* and consolidate write with update, and only to the ids they read.
THEOREM EraseIsFinalAlways == Spec => []EraseIsFinal
<1>1. Inv => EraseIsFinal
  BY DEF EraseIsFinal
<1> QED
  BY InitInv, StepInv, <1>1, PTL DEF Spec

-----------------------------------------------------------------------------
\* Sums of access counts
HIDE DEF Inv, Shape, Numbered, Clean

\* The accesses that Total counts
Units(records, ids) == UNION {{i} \X (1..records[i].access) : i \in ids}
Countable(records, ids) == IsFiniteSet(ids) /\ \A i \in ids : records[i].access \in Nat

LEMMA UnitsMean ==
  ASSUME NEW records, NEW ids, NEW u
  PROVE  u \in Units(records, ids) <=> \E i \in ids : u \in {i} \X (1..records[i].access)
  BY DEF Units

LEMMA TotalType ==
  ASSUME NEW records, NEW ids, Countable(records, ids)
  PROVE  IsFiniteSet(Units(records, ids)) /\ Total(records, ids) \in Nat
<1> DEFINE UnitsOf == [i \in ids |-> {i} \X (1..records[i].access)]
           Parts == {{i} \X (1..records[i].access) : i \in ids}
<1>1. IsFiniteSet(Parts)
  <2>1. UnitsOf \in Surjection(ids, Parts)
    BY DEF Surjection
  <2> QED
    BY <2>1, FS_Surjection DEF Countable
<1>2. ASSUME NEW i \in ids PROVE IsFiniteSet({i} \X (1..records[i].access))
  <2>1. IsFiniteSet({i})
    BY FS_Singleton
  <2>2. records[i].access \in Int
    BY DEF Countable
  <2>3. IsFiniteSet(1..records[i].access)
    BY <2>2, FS_Interval
  <2> QED
    BY <2>1, <2>3, FS_Product
<1>3. IsFiniteSet(UNION Parts)
  <2> HIDE DEF Parts
  <2>1. \A P \in Parts : IsFiniteSet(P)
    BY <1>2 DEF Parts
  <2> QED
    BY <1>1, <2>1, FS_UNION
<1> QED
  BY <1>3, FS_CardinalityType DEF Units, Total

LEMMA TotalOfNone == ASSUME NEW records PROVE Total(records, {}) = 0
  BY FS_EmptySet DEF Total

LEMMA TotalOfOne ==
  ASSUME NEW records, NEW i, records[i].access \in Nat
  PROVE  Total(records, {i}) = records[i].access
<1>1. UNION {{j} \X (1..records[j].access) : j \in {i}} = {i} \X (1..records[i].access)
  OBVIOUS
<1>2. IsFiniteSet({i}) /\ Cardinality({i}) = 1
  BY FS_Singleton
<1>3. /\ IsFiniteSet(1..records[i].access)
      /\ Cardinality(1..records[i].access) = records[i].access
  <2>1. /\ IsFiniteSet(1..records[i].access)
        /\ Cardinality(1..records[i].access)
             = IF 1 > records[i].access THEN 0 ELSE records[i].access - 1 + 1
    BY FS_Interval
  <2> QED
    BY <2>1
<1>4. Cardinality({i} \X (1..records[i].access)) = 1 * records[i].access
  BY <1>2, <1>3, FS_Product
<1>5. Cardinality({i} \X (1..records[i].access)) = records[i].access
  BY <1>4
<1> QED
  BY <1>1, <1>5 DEF Total

\* What is counted of one set and of another adds up
LEMMA TotalOfBoth ==
  ASSUME NEW records, NEW some, NEW more, Countable(records, some), Countable(records, more),
         some \intersect more = {}
  PROVE  Total(records, some \union more) = Total(records, some) + Total(records, more)
<1>1. Units(records, some \union more) = Units(records, some) \union Units(records, more)
  BY UnitsMean
<1>2. Units(records, some) \intersect Units(records, more) = {}
  BY UnitsMean
<1>3. IsFiniteSet(Units(records, some)) /\ IsFiniteSet(Units(records, more))
  BY TotalType
<1>4. Total(records, some) \in Nat /\ Total(records, more) \in Nat
  BY TotalType
<1>5. Cardinality(Units(records, some) \union Units(records, more))
        = Cardinality(Units(records, some)) + Cardinality(Units(records, more)) - 0
  BY <1>2, <1>3, FS_Union, FS_EmptySet
<1>6. /\ Total(records, some \union more) = Cardinality(Units(records, some \union more))
      /\ Total(records, some) = Cardinality(Units(records, some))
      /\ Total(records, more) = Cardinality(Units(records, more))
  BY DEF Units, Total
<1>7. Total(records, some \union more) = Total(records, some) + Total(records, more) - 0
  BY <1>1, <1>5, <1>6, Zenon
<1> QED
  BY <1>4, <1>7

LEMMA TotalOfEqual ==
  ASSUME NEW records, NEW others, NEW ids, \A i \in ids : records[i].access = others[i].access
  PROVE  Total(records, ids) = Total(others, ids)
<1>1. Units(records, ids) = Units(others, ids)
  BY UnitsMean
<1> QED
  BY <1>1 DEF Units, Total

-----------------------------------------------------------------------------
\* Types

Calls == {"idle", "bump", "search", "update", "purge", "expire", "erase"}

CollectionTyped ==
    /\ store \in [Memory -> Record] /\ added \in 0..MaxMemories
    /\ uses \in Nat /\ dropped \in Nat /\ forgotten \in SUBSET Memory /\ erased \in 0..MaxMemories

ClientsTyped ==
    /\ job \in [Client -> Calls] /\ copy \in [Client -> [Memory -> Record]]
    /\ todo \in [Client -> SUBSET Memory] /\ consumed \in [Client -> SUBSET Memory]

\* What a client works on, and nothing of it is left between two calls
WorkTyped(c) ==
    /\ todo[c] \union consumed[c] \subseteq Listed(c)
    /\ todo[c] \intersect consumed[c] = {}
    /\ job[c] \in {"bump", "search", "update", "expire"} => todo[c] # {}
    /\ job[c] = "idle" => consumed[c] = {}

Typed == CollectionTyped /\ ClientsTyped /\ \A c \in Client : WorkTyped(c)

LEMMA TypedMeans == Typed => TypeOK
  BY DEF Typed, CollectionTyped, ClientsTyped, WorkTyped, Calls, TypeOK

LEMMA RecordTypes ==
  /\ Absent \in Record /\ Absent.facts = {} /\ Nothing \in [Memory -> Record]
  /\ \A r \in Record : r.facts \in SUBSET Memory /\ r.access \in Nat
  /\ \A facts \in SUBSET Memory, n \in Nat : [facts |-> facts, access |-> n] \in Record
  BY DEF Absent, Nothing, Record

LEMMA MemoriesFinite == IsFiniteSet(Memory) /\ Memory \subseteq Nat
  BY FS_Interval, BoundsAssumption DEF Memory

\* Of any records of the collection, or of a copy of it, the accesses have a sum
LEMMA RecordsTotal ==
  ASSUME NEW records \in [Memory -> Record], NEW ids \in SUBSET Memory
  PROVE  Countable(records, ids) /\ Total(records, ids) \in Nat
<1>1. IsFiniteSet(ids)
  BY MemoriesFinite, FS_Subset
<1>2. Countable(records, ids)
  BY <1>1, RecordTypes DEF Countable
<1> QED
  BY <1>2, TotalType

LEMMA TypesInit == Init => Typed
<1> SUFFICES ASSUME Init PROVE Typed
  OBVIOUS
<1>1. CollectionTyped /\ ClientsTyped
  BY RecordTypes, BoundsAssumption DEF Init, CollectionTyped, ClientsTyped, Calls
<1>2. ASSUME NEW c \in Client PROVE WorkTyped(c)
  BY <1>2 DEF Init, WorkTyped
<1> QED
  BY <1>1, <1>2 DEF Typed

\* A client that does not act keeps what it works on
LEMMA OthersWork ==
  ASSUME Typed, NEW c \in Client, ClientsTyped', NEW d \in Client,
         job'[d] = job[d], copy'[d] = copy[d], todo'[d] = todo[d], consumed'[d] = consumed[d]
  PROVE  WorkTyped(d)'
  BY DEF Typed, WorkTyped, Listed

LEMMA FinishTypes ==
  ASSUME Typed, NEW c \in Client, Finish(c) PROVE ClientsTyped' /\ \A d \in Client : WorkTyped(d)'
<1>1. ClientsTyped'
  BY RecordTypes DEF Typed, ClientsTyped, Calls, Finish
<1>2. WorkTyped(c)'
  BY DEF Typed, ClientsTyped, WorkTyped, Finish
<1>3. ASSUME NEW d \in Client, d # c PROVE WorkTyped(d)'
  <2>1. job'[d] = job[d] /\ copy'[d] = copy[d] /\ todo'[d] = todo[d] /\ consumed'[d] = consumed[d]
    BY <1>3 DEF Typed, ClientsTyped, Finish
  <2> QED
    BY <1>1, <2>1, OthersWork
<1> QED
  BY <1>1, <1>2, <1>3

LEMMA StartTypes ==
  ASSUME Typed, NEW c \in Client, NEW call \in {"bump", "search", "expire"},
         NEW ids \in SUBSET Present, ids # {}, job[c] = "idle", Start(c, call, ids)
  PROVE  ClientsTyped' /\ \A d \in Client : WorkTyped(d)'
<1>1. ClientsTyped'
  BY DEF Typed, CollectionTyped, ClientsTyped, Calls, Start, Present
<1>2. WorkTyped(c)'
  BY DEF Typed, ClientsTyped, WorkTyped, Start, Present, Listed
<1>3. ASSUME NEW d \in Client, d # c PROVE WorkTyped(d)'
  <2>1. job'[d] = job[d] /\ copy'[d] = copy[d] /\ todo'[d] = todo[d] /\ consumed'[d] = consumed[d]
    BY <1>3 DEF Typed, ClientsTyped, Start
  <2> QED
    BY <1>1, <2>1, OthersWork
<1> QED
  BY <1>1, <1>2, <1>3

LEMMA KeptTypes ==
  ASSUME Typed, UNCHANGED clients PROVE ClientsTyped' /\ \A d \in Client : WorkTyped(d)'
  BY DEF Typed, ClientsTyped, WorkTyped, Listed, clients

LEMMA WrittenTypes ==
  ASSUME Typed, NEW i \in Memory, NEW r \in Record, store' = Written(i, r)
  PROVE  store' \in [Memory -> Record]
  BY DEF Typed, CollectionTyped, Written

LEMMA WithoutTypes ==
  ASSUME Typed, NEW ids, store' = Without(ids) PROVE store' \in [Memory -> Record]
  BY RecordTypes DEF Typed, CollectionTyped, Without

LEMMA AddTypes == Typed /\ Add => Typed'
<1> SUFFICES ASSUME Typed, Add PROVE Typed'
  OBVIOUS
<1>1. added + 1 \in Memory
  BY BoundsAssumption DEF Typed, CollectionTyped, Add, Memory
<1>2. store' \in [Memory -> Record]
  BY <1>1, RecordTypes DEF Typed, CollectionTyped, Add
<1> QED
  BY <1>1, <1>2, KeptTypes DEF Typed, CollectionTyped, Add, Memory, history

LEMMA BumpTypes == ASSUME Typed, NEW c \in Client, Bump(c) PROVE Typed'
<1>1. PICK i \in todo[c] :
        /\ store' = Written(i, [copy[c][i] EXCEPT !.access = @ + 1])
        /\ uses' = IF i \in Present THEN uses + 1 ELSE uses
        /\ IF todo[c] = {i}
           THEN Finish(c)
           ELSE todo' = [todo EXCEPT ![c] = @ \ {i}] /\ UNCHANGED <<job, copy, consumed>>
  BY DEF Bump
<1>2. i \in Memory /\ copy[c][i] \in Record
  BY <1>1 DEF Typed, ClientsTyped
<1>3. [copy[c][i] EXCEPT !.access = @ + 1] \in Record
  BY <1>2 DEF Record
<1>4. CollectionTyped'
  <2>1. store' \in [Memory -> Record]
    BY <1>1, <1>2, <1>3, WrittenTypes
  <2> QED
    BY <1>1, <2>1 DEF Bump, Typed, CollectionTyped
<1>5. CASE Finish(c)
  BY <1>4, <1>5, FinishTypes DEF Typed
<1>6. CASE todo[c] # {i} /\ todo' = [todo EXCEPT ![c] = @ \ {i}] /\ UNCHANGED <<job, copy, consumed>>
  <2>1. ClientsTyped'
    BY <1>6 DEF Typed, ClientsTyped
  <2>2. WorkTyped(c)'
    BY <1>1, <1>6 DEF Typed, ClientsTyped, WorkTyped, Listed
  <2>3. ASSUME NEW d \in Client, d # c PROVE WorkTyped(d)'
    BY <1>6, <2>1, <2>3, OthersWork DEF Typed, ClientsTyped
  <2> QED
    BY <1>4, <2>1, <2>2, <2>3 DEF Typed
<1> QED
  BY <1>1, <1>5, <1>6

LEMMA MergeTypes ==
  ASSUME Typed, NEW c \in Client, NEW i \in todo[c],
         NEW near \in SUBSET (Present \ ({i} \union consumed[c])), job[c] = "search", Merge(c, i, near)
  PROVE  ClientsTyped' /\ \A d \in Client : WorkTyped(d)'
<1>1. /\ i \in Memory /\ near \subseteq Memory /\ i \notin near /\ near \intersect consumed[c] = {}
      /\ near \subseteq Listed(c) /\ copy[c] \in [Memory -> Record]
  BY DEF Typed, ClientsTyped, Merge, Present
<1>2. Merged(c, i, near) \in Record
  <2>1. UNION {copy[c][j].facts : j \in near \union {i}} \in SUBSET Memory
    BY <1>1, RecordTypes
  <2>2. Total(copy[c], near \union {i}) \in Nat
    BY <1>1, RecordsTotal
  <2> QED
    BY <2>1, <2>2, RecordTypes DEF Merged
<1>3. copy[c][i].facts \subseteq Merged(c, i, near).facts
  BY DEF Merged
<1>4. ClientsTyped'
  BY <1>1, <1>2 DEF Typed, ClientsTyped, Calls, Merge
<1>5. WorkTyped(c)'
  <2>1. /\ job'[c] = "update" /\ todo'[c] = todo[c] \ near
        /\ consumed'[c] = consumed[c] \union near
        /\ copy'[c] = [copy[c] EXCEPT ![i] = Merged(c, i, near)]
    BY DEF Typed, ClientsTyped, Merge
  <2>2. Listed(c) \subseteq Listed(c)'
    BY <1>1, <1>3, <2>1 DEF Listed
  <2> QED
    BY <1>1, <2>1, <2>2 DEF Typed, WorkTyped
<1>6. ASSUME NEW d \in Client, d # c PROVE WorkTyped(d)'
  BY <1>4, <1>6, OthersWork DEF Merge, Typed, ClientsTyped
<1> QED
  BY <1>4, <1>5, <1>6

LEMMA SearchTypes == ASSUME Typed, NEW c \in Client, ConsolidateSearch(c) PROVE Typed'
<1>1. PICK i \in todo[c] : \E near \in SUBSET (Present \ ({i} \union consumed[c])) :
        Merge(c, i, near) \/ MergeUnlisted(c, near)
  BY DEF ConsolidateSearch
<1>2. ClientsTyped' /\ \A d \in Client : WorkTyped(d)'
  BY <1>1, MergeTypes, FinishTypes DEF ConsolidateSearch, MergeUnlisted
<1> QED
  BY <1>2 DEF ConsolidateSearch, Typed, CollectionTyped, history

LEMMA UpdateTypes == ASSUME Typed, NEW c \in Client, ConsolidateUpdate(c) PROVE Typed'
<1>1. PICK i \in todo[c] : store' = Written(i, copy[c][i]) /\ AfterUpdate(c, todo[c] \ {i})
  BY DEF ConsolidateUpdate
<1>2. CollectionTyped'
  <2>1. i \in Memory /\ copy[c][i] \in Record
    BY <1>1 DEF Typed, ClientsTyped
  <2>2. store' \in [Memory -> Record]
    BY <1>1, <2>1, WrittenTypes
  <2> QED
    BY <2>2 DEF ConsolidateUpdate, Typed, CollectionTyped, history
<1>3. CASE Finish(c)
  BY <1>2, <1>3, FinishTypes DEF Typed
<1>4. CASE /\ todo' = [todo EXCEPT ![c] = todo[c] \ {i}]
           /\ job' = [job EXCEPT ![c] = IF todo[c] \ {i} = {} THEN "purge" ELSE "search"]
           /\ UNCHANGED <<copy, consumed>>
  <2>1. ClientsTyped'
    BY <1>4 DEF Typed, ClientsTyped, Calls
  <2>2. WorkTyped(c)'
    BY <1>4 DEF Typed, ClientsTyped, WorkTyped, Listed
  <2>3. ASSUME NEW d \in Client, d # c PROVE WorkTyped(d)'
    BY <1>4, <2>1, <2>3, OthersWork DEF Typed, ClientsTyped
  <2> QED
    BY <1>2, <2>1, <2>2, <2>3 DEF Typed
<1> QED
  BY <1>1, <1>3, <1>4 DEF AfterUpdate

LEMMA DeletionTypes ==
  ASSUME Typed, NEW c \in Client,
         ConsolidateDelete(c) \/ ExpireDelete(c) \/ Delete(c) \/ EraseDelete(c)
  PROVE  Typed'
<1>1. CASE ConsolidateDelete(c)
  BY <1>1, WithoutTypes, FinishTypes DEF ConsolidateDelete, Typed, CollectionTyped, history
<1>2. CASE ExpireDelete(c)
  <2>1. Accesses(todo[c]) \in Nat
    BY RecordsTotal DEF Typed, CollectionTyped, ClientsTyped, Accesses
  <2>2. UNION {copy[c][i].facts : i \in todo[c]} \in SUBSET Memory
    BY RecordTypes DEF Typed, ClientsTyped
  <2> QED
    BY <1>2, <2>1, <2>2, WithoutTypes, FinishTypes DEF ExpireDelete, Typed, CollectionTyped
<1>3. CASE Delete(c)
  <2>1. PICK i \in Memory : /\ store' = Without({i})
                            /\ dropped' = dropped + store[i].access
                            /\ forgotten' = forgotten \union store[i].facts
    BY <1>3 DEF Delete, Present
  <2>2. store[i].access \in Nat /\ store[i].facts \in SUBSET Memory
    BY RecordTypes DEF Typed, CollectionTyped
  <2>3. store' \in [Memory -> Record] /\ ClientsTyped' /\ \A d \in Client : WorkTyped(d)'
    BY <1>3, <2>1, WithoutTypes, KeptTypes DEF Delete
  <2>4. /\ uses' \in Nat /\ dropped' \in Nat /\ forgotten' \in SUBSET Memory
        /\ added' \in 0..MaxMemories /\ erased' \in 0..MaxMemories
    BY <1>3, <2>1, <2>2 DEF Delete, Typed, CollectionTyped
  <2> QED
    BY <2>3, <2>4 DEF Typed, CollectionTyped
<1>4. CASE EraseDelete(c)
  BY <1>4, RecordTypes, FinishTypes DEF EraseDelete, Typed, CollectionTyped
<1> QED
  BY <1>1, <1>2, <1>3, <1>4

LEMMA ListTypes ==
  ASSUME Typed, NEW c \in Client, Query(c) \/ ConsolidateList(c) \/ ExpireList(c)
  PROVE  Typed'
<1>1. UNCHANGED <<store, added, history>>
  BY DEF Query, ConsolidateList, ExpireList
<1>2. \/ UNCHANGED clients
      \/ /\ job[c] = "idle"
         /\ \E call \in {"bump", "search", "expire"} :
               \E ids \in SUBSET Present : ids # {} /\ Start(c, call, ids)
  <2>1. CASE Query(c)
    BY <2>1 DEF Query, Free
  <2>2. CASE ConsolidateList(c)
    <3>1. CASE Cardinality(Present) >= 2 /\ Start(c, "search", Present)
      <4>1. Present # {}
        BY <3>1, FS_EmptySet
      <4> QED
        BY <2>2, <3>1, <4>1 DEF ConsolidateList, Free
    <3> QED
      BY <2>2, <3>1 DEF ConsolidateList
  <2>3. CASE ExpireList(c)
    BY <2>3 DEF ExpireList, Free
  <2> QED
    BY <2>1, <2>2, <2>3
<1>3. ClientsTyped' /\ \A d \in Client : WorkTyped(d)'
  BY <1>2, KeptTypes, StartTypes
<1> QED
  BY <1>1, <1>3 DEF Typed, CollectionTyped, history

LEMMA EraseListTypes == ASSUME Typed, NEW c \in Client, EraseList(c) PROVE Typed'
<1>1. job' = job \/ (job[c] = "idle" /\ job' = [job EXCEPT ![c] = "erase"])
  BY DEF EraseList, Free
<1>2. ClientsTyped'
  BY <1>1 DEF EraseList, Typed, ClientsTyped, Calls
<1>3. ASSUME NEW d \in Client PROVE WorkTyped(d)'
  <2>1. job'[d] = job[d] \/ job'[d] = "erase"
    BY <1>1 DEF Typed, ClientsTyped
  <2> QED
    BY <2>1 DEF EraseList, Typed, ClientsTyped, WorkTyped, Listed
<1> QED
  BY <1>2, <1>3 DEF EraseList, Typed, CollectionTyped, history

LEMMA TypesStep == Typed /\ [Next]_vars => Typed'
<1> SUFFICES ASSUME Typed, [Next]_vars PROVE Typed'
  OBVIOUS
<1>1. CASE UNCHANGED vars
  BY <1>1, KeptTypes DEF vars, Typed, CollectionTyped, history
<1>2. ASSUME NEW c \in Client, Fail(c) PROVE Typed'
  BY <1>2, FinishTypes DEF Fail, Typed, CollectionTyped, history
<1> QED
  BY <1>1, <1>2, AddTypes, BumpTypes, SearchTypes, UpdateTypes, DeletionTypes, ListTypes,
     EraseListTypes DEF Next

\* Every record and every copy of one keeps its shape, sums of access counts
\* included, and no client writes, merges or deletes what it has not read.
THEOREM TypeCorrect == Spec => []TypeOK
  BY TypesInit, TypesStep, TypedMeans, PTL DEF Spec
=============================================================================
