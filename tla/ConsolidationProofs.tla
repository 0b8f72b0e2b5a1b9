-------------------------- MODULE ConsolidationProofs --------------------------
(***************************************************************************)
(* What a task taught stays in some record, where that is true: as long as *)
(* one client at most does more than erase (SoleKeeper), whatever it does, *)
(* or nobody consolidates (NobodyConsolidates).  A consolidation next to   *)
(* queries loses facts, and Memory_stale_bump shows how.                   *)
(***************************************************************************)
EXTENDS LongTermMemoryProofs

SoleKeeper(k) == \A c \in Client \ {k} : Does[c] \subseteq {"erase"}
NobodyConsolidates == \A c \in Client : "consolidate" \notin Does[c]

Merging == {"search", "update", "purge"}

\* The record a consolidation has merged others into and is about to write
Due(k, i) == job[k] = "update" /\ InTurn(k, i)

\* Erased since they were read: no record has these ids any more
Stale(k) ==
    /\ \A i \in Memory : copy[k][i].facts \subseteq 1 .. erased
    /\ \A i \in Memory : copy[k][i].facts # {} => i <= erased
    /\ \A i \in todo[k] \union consumed[k] : i <= erased

\* A fact that is still to be known is in a record that is not to be deleted, or
\* about to be written to one
Spared(k, m) ==
    \E i \in Memory \ consumed[k] :
        m \in store[i].facts \/ (Due(k, i) /\ m \in copy[k][i].facts)

Live == {m \in (erased + 1) .. added : m \notin forgotten}

\* The records are as they were read, but for what is due to be written
Fresh(k) ==
    /\ \A i \in todo[k] \union consumed[k] : copy[k][i].facts # {}
    /\ todo[k] \intersect consumed[k] = {}
    /\ \A i \in Memory : copy[k][i].facts # {} =>
          /\ store[i].facts # {} /\ store[i].facts \subseteq copy[k][i].facts
          /\ Due(k, i) \/ store[i].facts = copy[k][i].facts
    /\ \A m \in Live : Spared(k, m)

\* Nobody but the keeper has copies, and it has none between two calls
Alone(k) ==
    /\ DOMAIN job = Client /\ DOMAIN consumed = Client
    /\ \A c \in Client \ {k} : job[c] \in {"idle", "erase"}
    /\ consumed[k] \subseteq Memory
    /\ job[k] \notin Merging => consumed[k] = {}
    /\ job[k] \in {"idle", "erase"} =>
          todo[k] = {} /\ \A i \in Memory : copy[k][i].facts = {}

Learnt(k) ==
    \A i \in Memory : store[i].facts \subseteq 1 .. added /\ copy[k][i].facts \subseteq 1 .. added

KeeperInv(k) == Inv /\ Alone(k) /\ Learnt(k) /\ FactsKept /\ (Stale(k) \/ Fresh(k))

USE DEF Inv, Shape, Numbered, Clean

LEMMA KeptMeans == FactsKept <=> \A m \in Live : \E i \in Memory : m \in store[i].facts
  BY DEF FactsKept, Live

LEMMA InitKeeper == ASSUME NEW k \in Client, Init PROVE KeeperInv(k)
<1>1. Inv
  BY InitInv
<1>2. \A i \in Memory : store[i].facts = {} /\ copy[k][i].facts = {}
  BY NothingShape DEF Init
<1>3. /\ todo[k] = {} /\ consumed[k] = {} /\ \A c \in Client : job[c] = "idle"
      /\ DOMAIN job = Client /\ DOMAIN consumed = Client
  BY DEF Init
<1>4. Live = {}
  BY DEF Init, Live
<1>5. FactsKept /\ Fresh(k)
  BY <1>2, <1>3, <1>4, KeptMeans DEF Fresh
<1> QED
  BY <1>1, <1>2, <1>3, <1>5 DEF KeeperInv, Alone, Learnt

-----------------------------------------------------------------------------
\* The keeper's call is over and has lost nothing
LEMMA KeeperFinishes ==
  ASSUME NEW k \in Client, KeeperInv(k), Inv', Finish(k), FactsKept',
         \A i \in Memory : store'[i].facts \subseteq 1 .. added'
  PROVE  KeeperInv(k)'
<1>1. /\ job'[k] = "idle" /\ todo'[k] = {} /\ consumed'[k] = {} /\ copy'[k] = Nothing
      /\ DOMAIN job' = Client /\ DOMAIN consumed' = Client
      /\ \A c \in Client \ {k} : job'[c] = job[c]
  BY DEF Finish, KeeperInv, Alone
<1>2. \A i \in Memory : copy'[k][i].facts = {}
  BY <1>1, NothingShape
<1>3. Alone(k)' /\ Learnt(k)'
  BY <1>1, <1>2 DEF KeeperInv, Alone, Learnt
<1>4. \A m \in Live' : Spared(k, m)'
  BY <1>1 DEF FactsKept, Live, Spared
<1>5. Fresh(k)'
  BY <1>1, <1>2, <1>4 DEF Fresh
<1> QED
  BY <1>3, <1>5 DEF KeeperInv

\* The keeper reads records and starts on some of them
LEMMA KeeperStarts ==
  ASSUME NEW k \in Client, KeeperInv(k), Inv', job[k] = "idle",
         NEW call \in {"bump", "search", "expire"}, NEW ids \in SUBSET Present,
         Start(k, call, ids), UNCHANGED <<store, added, history>>
  PROVE  KeeperInv(k)'
<1>1. /\ job'[k] = call /\ todo'[k] = ids /\ consumed' = consumed /\ copy'[k] = store
      /\ DOMAIN job' = Client /\ \A c \in Client \ {k} : job'[c] = job[c]
  BY DEF Start, KeeperInv, Alone
<1>2. consumed[k] = {}
  BY DEF KeeperInv, Alone, Merging
<1>3. Alone(k)' /\ Learnt(k)' /\ FactsKept'
  BY <1>1, <1>2 DEF KeeperInv, Alone, Learnt, FactsKept, history
<1>4. \A m \in Live' : Spared(k, m)'
  BY <1>1, <1>2, <1>3 DEF FactsKept, Live, Spared
<1>5. Fresh(k)'
  BY <1>1, <1>2, <1>4 DEF Fresh, Present
<1> QED
  BY <1>3, <1>5 DEF KeeperInv

\* A step that leaves the keeper's copies and every record's facts alone
LEMMA KeeperStays ==
  ASSUME NEW k \in Client, KeeperInv(k), Inv', Alone(k)',
         UNCHANGED <<added, erased>>, \A i \in Memory : store'[i].facts = store[i].facts,
         copy'[k] = copy[k], consumed'[k] = consumed[k], todo'[k] \subseteq todo[k],
         forgotten \subseteq forgotten', ~ \E i \in Memory : Due(k, i), ~ \E i \in Memory : Due(k, i)'
  PROVE  KeeperInv(k)'
<1>1. Learnt(k)' /\ FactsKept'
  BY DEF KeeperInv, Learnt, FactsKept
<1>2. Stale(k) => Stale(k)'
  BY DEF Stale
<1>3. Fresh(k) => Fresh(k)'
  <2> SUFFICES ASSUME Fresh(k) PROVE Fresh(k)'
    OBVIOUS
  <2>1. \A m \in Live' : Spared(k, m)'
    <3>1. Live' \subseteq Live
      BY DEF Live
    <3> QED
      BY <3>1 DEF Fresh, Spared
  <2> QED
    BY <2>1 DEF Fresh
<1> QED
  BY <1>1, <1>2, <1>3 DEF KeeperInv

LEMMA KeeperAdds == ASSUME NEW k \in Client, KeeperInv(k), Inv', Add PROVE KeeperInv(k)'
<1>1. added + 1 \in Memory /\ added' = added + 1 /\ added \in Nat /\ UNCHANGED <<clients, history>>
  BY BoundsAssumption DEF Add, Memory, KeeperInv
<1>2. /\ store'[added + 1].facts = {added + 1}
      /\ \A i \in Memory : i # added + 1 => store'[i] = store[i]
  BY <1>1 DEF Add, KeeperInv
<1>3. /\ copy[k][added + 1].facts = {} /\ store[added + 1].facts = {}
      /\ ~ (added + 1 <= added)
  BY <1>1 DEF KeeperInv
<1>4. Alone(k)' /\ Learnt(k)'
  <2>1. Alone(k)'
    BY <1>1 DEF KeeperInv, Alone, clients
  <2>2. 1 .. added \subseteq 1 .. added' /\ added + 1 \in 1 .. added'
    BY <1>1
  <2>3. \A i \in Memory : store'[i].facts \subseteq 1 .. added' /\ copy'[k][i].facts \subseteq 1 .. added'
    BY <1>1, <1>2, <2>2 DEF KeeperInv, Learnt, clients
  <2> QED
    BY <2>1, <2>3 DEF Learnt
<1>5. \A m \in Live' : m \in Live \/ m = added + 1
  BY <1>1 DEF Live, history, KeeperInv
<1>6. FactsKept'
  <2>1. \A m \in Live' : \E i \in Memory : m \in store'[i].facts
    BY <1>1, <1>2, <1>3, <1>5, KeptMeans DEF KeeperInv
  <2> QED
    BY <2>1 DEF FactsKept, Live
<1>7. Stale(k) => Stale(k)'
  BY <1>1 DEF Stale, clients, history
<1>8. ASSUME Fresh(k) PROVE Fresh(k)'
  <2>1. added + 1 \notin consumed[k]
    BY <1>3, <1>8 DEF Fresh
  <2>2. \A i : Due(k, i)' <=> Due(k, i)
    BY <1>1 DEF Due, InTurn, clients
  <2>3. ASSUME NEW m \in Live' PROVE Spared(k, m)'
    <3>1. CASE m = added + 1
      BY <1>1, <1>2, <2>1, <3>1 DEF Spared, clients
    <3>2. CASE m \in Live
      <4>1. PICK i \in Memory \ consumed[k] :
              m \in store[i].facts \/ (Due(k, i) /\ m \in copy[k][i].facts)
        BY <1>8, <3>2 DEF Fresh, Spared
      <4>2. i # added + 1
        BY <1>3, <4>1
      <4> QED
        BY <1>1, <1>2, <2>2, <4>1, <4>2 DEF Spared, clients
    <3> QED
      BY <1>5, <3>1, <3>2
  <2> QED
    BY <1>1, <1>2, <1>3, <1>8, <2>2, <2>3 DEF Fresh, clients
<1> QED
  BY <1>4, <1>6, <1>7, <1>8 DEF KeeperInv

LEMMA GoneIfStale ==
  ASSUME NEW k \in Client, KeeperInv(k), Stale(k), NEW i \in todo[k] \union consumed[k]
  PROVE  i \in Memory /\ i \notin Present /\ store[i].facts = {}
<1>1. i \in Memory /\ i <= erased /\ erased \in Nat
  BY DEF Stale, KeeperInv, Alone
<1>2. ~ (i > erased)
  BY <1>1, BoundsAssumption DEF Memory
<1> QED
  BY <1>1, <1>2 DEF Present, KeeperInv

\* Nothing is due in another call than a merge
LEMMA NothingDue == ASSUME NEW k \in Client, job[k] # "update" PROVE ~ \E i \in Memory : Due(k, i)
  BY DEF Due

\* In the keeper's hands a record is gone with the erasure, or as it was read
LEMMA KeeperBumps == ASSUME NEW k \in Client, KeeperInv(k), Inv', Bump(k) PROVE KeeperInv(k)'
<1>1. PICK i \in todo[k] :
        /\ store' = Written(i, [copy[k][i] EXCEPT !.access = @ + 1])
        /\ IF todo[k] = {i}
           THEN Finish(k)
           ELSE todo' = [todo EXCEPT ![k] = @ \ {i}] /\ UNCHANGED <<job, copy, consumed>>
  BY DEF Bump
<1>2. i \in Memory /\ job[k] = "bump" /\ UNCHANGED <<added, erased, forgotten>>
  BY <1>1 DEF Bump, KeeperInv
<1>3. ~ \E j \in Memory : Due(k, j)
  BY <1>2, NothingDue
<1> DEFINE r == [copy[k][i] EXCEPT !.access = @ + 1]
<1>4. r.facts = copy[k][i].facts
  BY <1>2 DEF KeeperInv
<1> HIDE DEF r
<1>5. i \in Present => store[i].facts = copy[k][i].facts
  BY <1>1, <1>2, <1>3, GoneIfStale DEF KeeperInv, Fresh, Present
<1>6. \A j \in Memory : store'[j].facts = store[j].facts
  BY <1>1, <1>2, <1>4, <1>5 DEF Written, r, KeeperInv
<1>7. CASE Finish(k)
  <2>1. FactsKept' /\ \A j \in Memory : store'[j].facts \subseteq 1 .. added'
    BY <1>2, <1>6 DEF KeeperInv, FactsKept, Learnt
  <2> QED
    BY <1>7, <2>1, KeeperFinishes
<1>8. CASE todo' = [todo EXCEPT ![k] = @ \ {i}] /\ UNCHANGED <<job, copy, consumed>>
  <2>1. todo'[k] \subseteq todo[k]
    BY <1>8 DEF KeeperInv
  <2>2. Alone(k)' /\ ~ \E j \in Memory : Due(k, j)'
    BY <1>2, <1>8 DEF KeeperInv, Alone, Due
  <2> QED
    BY <1>2, <1>3, <1>6, <1>8, <2>1, <2>2, KeeperStays
<1> QED
  BY <1>1, <1>7, <1>8

\* The keeper merges the neighbours it finds into the record whose turn it is
LEMMA KeeperMerges ==
  ASSUME NEW k \in Client, KeeperInv(k), Inv', job[k] = "search", NEW i \in todo[k], InTurn(k, i),
         NEW near \in SUBSET (Present \ ({i} \union consumed[k])), Merge(k, i, near),
         UNCHANGED <<store, added, history>>
  PROVE  KeeperInv(k)'
<1>1. /\ i \in Memory /\ near \subseteq Memory /\ i \notin near
      /\ \A j \in near : copy[k][j].facts # {} /\ store[j].facts # {} /\ j \notin consumed[k]
  BY DEF Merge, Listed, Present, KeeperInv
<1>2. /\ job'[k] = "update" /\ todo'[k] = todo[k] \ near /\ consumed'[k] = consumed[k] \union near
      /\ DOMAIN job' = Client /\ DOMAIN consumed' = Client
      /\ \A c \in Client \ {k} : job'[c] = job[c]
      /\ copy' = [copy EXCEPT ![k][i] = Merged(k, i, near)]
  BY DEF Merge, KeeperInv, Alone
<1> DEFINE merged == UNION {copy[k][j].facts : j \in near \union {i}}
<1>3. /\ copy'[k][i].facts = merged
      /\ \A j \in Memory : j # i => copy'[k][j] = copy[k][j]
  BY <1>1, <1>2 DEF Merged, KeeperInv
<1>4. /\ copy[k][i].facts \subseteq merged /\ \A j \in near : copy[k][j].facts \subseteq merged
      /\ \A S : (\A j \in Memory : copy[k][j].facts \subseteq S) => merged \subseteq S
  BY <1>1
<1> HIDE DEF merged
<1>5. ~ \E j \in Memory : Due(k, j)
  BY NothingDue
<1>6. Due(k, i)'
  BY <1>1, <1>2 DEF Due, InTurn
<1>7. Alone(k)'
  BY <1>1, <1>2 DEF KeeperInv, Alone, Merging
<1>8. Learnt(k)'
  <2>1. merged \subseteq 1 .. added
    BY <1>4 DEF KeeperInv, Learnt
  <2> QED
    BY <1>3, <2>1 DEF KeeperInv, Learnt
<1>9. FactsKept' /\ Live' = Live /\ erased' = erased
  BY DEF KeeperInv, FactsKept, Live, history
<1>10. ASSUME Stale(k) PROVE Stale(k)'
  <2>1. merged \subseteq 1 .. erased
    BY <1>4, <1>10 DEF Stale
  <2>2. near = {}
    BY <1>1, <1>10 DEF Stale, KeeperInv
  <2>3. i <= erased
    BY <1>10 DEF Stale
  <2> QED
    BY <1>2, <1>3, <1>9, <1>10, <2>1, <2>2, <2>3 DEF Stale
<1>11. ASSUME Fresh(k) PROVE Fresh(k)'
  <2>1. i \notin consumed[k] /\ copy[k][i].facts # {}
    BY <1>11 DEF Fresh
  <2>2. \A j \in Memory : copy[k][j].facts # {} => store[j].facts = copy[k][j].facts
    BY <1>5, <1>11 DEF Fresh
  <2>3. ASSUME NEW m \in Live PROVE Spared(k, m)'
    <3>1. PICK j \in Memory \ consumed[k] : m \in store[j].facts
      BY <1>5, <1>11 DEF Fresh, Spared
    <3>2. CASE j \in near
      <4>1. m \in merged
        BY <1>1, <1>4, <2>2, <3>1, <3>2
      <4> QED
        BY <1>1, <1>2, <1>3, <1>6, <2>1, <4>1 DEF Spared
    <3>3. CASE j \notin near
      BY <1>2, <3>1, <3>3 DEF Spared
    <3> QED
      BY <3>2, <3>3
  <2>4. \A j \in todo'[k] \union consumed'[k] : copy'[k][j].facts # {}
    <3>1. \A j \in todo[k] \union consumed[k] \union near : j \in Memory /\ copy[k][j].facts # {}
      BY <1>1, <1>11 DEF Fresh, KeeperInv, Alone
    <3> QED
      BY <1>2, <1>3, <1>4, <2>1, <3>1
  <2>5. todo'[k] \intersect consumed'[k] = {}
    BY <1>2, <1>11 DEF Fresh
  <2>6. ASSUME NEW j \in Memory, copy'[k][j].facts # {}
        PROVE  /\ store[j].facts # {} /\ store[j].facts \subseteq copy'[k][j].facts
               /\ Due(k, j)' \/ store[j].facts = copy'[k][j].facts
    BY <1>3, <1>4, <1>6, <2>1, <2>2, <2>6
  <2> QED
    BY <1>9, <2>3, <2>4, <2>5, <2>6 DEF Fresh
<1> QED
  BY <1>7, <1>8, <1>9, <1>10, <1>11 DEF KeeperInv

LEMMA KeeperSearches ==
  ASSUME NEW k \in Client, KeeperInv(k), Inv', ConsolidateSearch(k) PROVE KeeperInv(k)'
<1>1. PICK i \in todo[k] : /\ InTurn(k, i)
                          /\ \E near \in SUBSET (Present \ ({i} \union consumed[k])) :
                                Merge(k, i, near) \/ MergeUnlisted(k, near)
  BY DEF ConsolidateSearch
<1>2. PICK near \in SUBSET (Present \ ({i} \union consumed[k])) :
        Merge(k, i, near) \/ MergeUnlisted(k, near)
  BY <1>1
<1>3. CASE MergeUnlisted(k, near)
  <2>1. FactsKept' /\ \A j \in Memory : store'[j].facts \subseteq 1 .. added'
    BY DEF ConsolidateSearch, KeeperInv, FactsKept, Learnt, history
  <2> QED
    BY <1>3, <2>1, KeeperFinishes DEF MergeUnlisted
<1> QED
  BY <1>1, <1>2, <1>3, KeeperMerges DEF ConsolidateSearch

LEMMA KeeperUpdates ==
  ASSUME NEW k \in Client, KeeperInv(k), Inv', ConsolidateUpdate(k) PROVE KeeperInv(k)'
<1>1. PICK i \in todo[k] :
        InTurn(k, i) /\ store' = Written(i, copy[k][i]) /\ AfterUpdate(k, todo[k] \ {i})
  BY DEF ConsolidateUpdate
<1>2. i \in Memory /\ job[k] = "update" /\ UNCHANGED <<added, erased, forgotten>>
  BY <1>1 DEF ConsolidateUpdate, KeeperInv, history
<1>3. \A j \in Memory : Due(k, j) => j = i
  BY <1>1, <1>2 DEF Due, InTurn, Memory
<1>4. \A j \in Memory : j # i => store'[j] = store[j]
  BY <1>1, <1>2 DEF Written, KeeperInv
<1>5. Stale(k) => store' = store
  BY <1>1, <1>2, GoneIfStale DEF Written
<1>6. Fresh(k) => store'[i] = copy[k][i] /\ store[i].facts \subseteq store'[i].facts
                  /\ copy[k][i].facts # {}
  BY <1>1, <1>2 DEF Fresh, Written, Present, KeeperInv
<1>7. \A j \in Memory : store[j].facts \subseteq store'[j].facts
  BY <1>4, <1>5, <1>6 DEF KeeperInv
<1>8. FactsKept'
  BY <1>2, <1>7 DEF KeeperInv, FactsKept
<1>9. \A j \in Memory : store'[j].facts \subseteq 1 .. added'
  BY <1>2, <1>4, <1>5, <1>6 DEF KeeperInv, Learnt
<1>10. CASE Finish(k)
  BY <1>8, <1>9, <1>10, KeeperFinishes
<1>11. CASE ~ (todo[k] \ {i} = {} /\ consumed[k] = {})
  <2>1. /\ todo'[k] = todo[k] \ {i} /\ job'[k] \in {"purge", "search"} /\ DOMAIN job' = Client
        /\ \A c \in Client \ {k} : job'[c] = job[c]
        /\ UNCHANGED <<copy, consumed>>
    BY <1>1, <1>11 DEF AfterUpdate, KeeperInv, Alone
  <2>2. Alone(k)' /\ Learnt(k)'
    BY <1>2, <1>9, <2>1 DEF KeeperInv, Alone, Learnt, Merging
  <2>3. Stale(k) => Stale(k)'
    BY <1>2, <2>1 DEF Stale
  <2>4. ASSUME Fresh(k) PROVE Fresh(k)'
    <3>1. ASSUME NEW m \in Live' PROVE Spared(k, m)'
      <4>1. PICK j \in Memory \ consumed[k] :
              m \in store[j].facts \/ (Due(k, j) /\ m \in copy[k][j].facts)
        BY <1>2, <2>4, <3>1 DEF Fresh, Spared, Live
      <4>2. m \in store'[j].facts
        BY <1>3, <1>6, <1>7, <2>4, <4>1
      <4> QED
        BY <2>1, <4>1, <4>2 DEF Spared
    <3>2. ASSUME NEW j \in Memory, copy[k][j].facts # {}
          PROVE  store'[j].facts # {} /\ store'[j].facts = copy[k][j].facts
      BY <1>3, <1>4, <1>6, <2>4, <3>2 DEF Fresh
    <3>3. \A j \in todo'[k] \union consumed'[k] : copy'[k][j].facts # {}
      BY <2>1, <2>4 DEF Fresh
    <3>4. todo'[k] \intersect consumed'[k] = {}
      BY <2>1, <2>4 DEF Fresh
    <3> QED
      BY <2>1, <3>1, <3>2, <3>3, <3>4 DEF Fresh
  <2> QED
    BY <1>8, <2>2, <2>3, <2>4 DEF KeeperInv
<1> QED
  BY <1>1, <1>10, <1>11 DEF AfterUpdate

\* The records merged into others go at the end of the call
LEMMA KeeperPurges ==
  ASSUME NEW k \in Client, KeeperInv(k), Inv', ConsolidateDelete(k) PROVE KeeperInv(k)'
<1>1. /\ job[k] = "purge" /\ store' = Without(consumed[k]) /\ Finish(k)
      /\ UNCHANGED <<added, erased, forgotten>>
  BY DEF ConsolidateDelete, history
<1>2. \A i \in Memory : store'[i].facts = IF i \in consumed[k] THEN {} ELSE store[i].facts
  BY <1>1 DEF Without, Absent
<1>3. ASSUME NEW m \in Live PROVE \E i \in Memory : m \in store'[i].facts
  <2>1. CASE Stale(k)
    BY <1>2, <2>1, GoneIfStale, KeptMeans DEF KeeperInv
  <2>2. CASE Fresh(k)
    <3>1. Spared(k, m)
      BY <2>2 DEF Fresh
    <3> QED
      BY <1>1, <1>2, <3>1, NothingDue DEF Spared
  <2> QED
    BY <2>1, <2>2 DEF KeeperInv
<1>4. FactsKept'
  BY <1>1, <1>3 DEF FactsKept, Live
<1>5. \A i \in Memory : store'[i].facts \subseteq 1 .. added'
  BY <1>1, <1>2 DEF KeeperInv, Learnt
<1> QED
  BY <1>1, <1>4, <1>5, KeeperFinishes

LEMMA KeeperExpires ==
  ASSUME NEW k \in Client, KeeperInv(k), Inv', ExpireDelete(k) PROVE KeeperInv(k)'
<1>1. /\ job[k] = "expire" /\ store' = Without(todo[k]) /\ Finish(k)
      /\ forgotten' = forgotten \union UNION {copy[k][i].facts : i \in todo[k]}
      /\ UNCHANGED <<added, erased>>
  BY DEF ExpireDelete
<1>2. \A i \in Memory : store'[i].facts = IF i \in todo[k] THEN {} ELSE store[i].facts
  BY <1>1 DEF Without, Absent
<1>3. \A i \in todo[k] : store[i].facts \subseteq forgotten'
  <2>1. CASE Stale(k)
    BY <2>1, GoneIfStale
  <2>2. CASE Fresh(k)
    BY <1>1, <2>2, NothingDue DEF Fresh, KeeperInv
  <2> QED
    BY <2>1, <2>2 DEF KeeperInv
<1>4. FactsKept'
  <2>1. ASSUME NEW m \in Live, m \notin forgotten' PROVE \E i \in Memory : m \in store'[i].facts
    <3>1. PICK i \in Memory : m \in store[i].facts
      BY KeptMeans DEF KeeperInv
    <3> QED
      BY <1>2, <1>3, <2>1, <3>1
  <2> QED
    BY <1>1, <2>1 DEF FactsKept, Live
<1>5. \A i \in Memory : store'[i].facts \subseteq 1 .. added'
  BY <1>1, <1>2 DEF KeeperInv, Learnt
<1> QED
  BY <1>1, <1>4, <1>5, KeeperFinishes

LEMMA KeeperDeletes ==
  ASSUME NEW k \in Client, KeeperInv(k), Inv', Delete(k) PROVE KeeperInv(k)'
<1>1. PICK d \in Present : store' = Without({d}) /\ forgotten' = forgotten \union store[d].facts
  BY DEF Delete
<1>2. /\ job[k] = "idle" /\ UNCHANGED <<added, erased, clients>>
  BY DEF Delete, Free
<1>3. \A i \in Memory : store'[i].facts = IF i = d THEN {} ELSE store[i].facts
  BY <1>1 DEF Without, Absent
<1>4. /\ todo[k] = {} /\ consumed[k] = {} /\ \A i \in Memory : copy[k][i].facts = {}
  BY <1>2 DEF KeeperInv, Alone, Merging
<1>5. \A m \in Live' : \E i \in Memory : m \in store'[i].facts
  <2> SUFFICES ASSUME NEW m \in Live' PROVE \E i \in Memory : m \in store'[i].facts
    OBVIOUS
  <2>1. m \in Live /\ m \notin forgotten'
    BY <1>1, <1>2 DEF Live
  <2>2. PICK i \in Memory : m \in store[i].facts
    BY <2>1, KeptMeans DEF KeeperInv
  <2> QED
    BY <1>1, <1>3, <2>1, <2>2
<1>6. FactsKept'
  BY <1>5 DEF FactsKept, Live
<1>7. Alone(k)' /\ Learnt(k)'
  BY <1>2, <1>3 DEF KeeperInv, Alone, Learnt, clients
<1>8. Fresh(k)'
  BY <1>2, <1>4, <1>5 DEF Fresh, Spared, clients
<1> QED
  BY <1>6, <1>7, <1>8 DEF KeeperInv

LEMMA Erased ==
  ASSUME NEW k \in Client, KeeperInv(k), Inv', NEW c \in Client, EraseDelete(c)
  PROVE  KeeperInv(k)'
<1>1. /\ store' = Nothing /\ added' = added /\ erased' = added /\ Finish(c) /\ added \in Nat
  BY DEF EraseDelete, KeeperInv
<1>2. \A i \in Memory : store'[i].facts = {}
  BY <1>1, NothingShape
<1>3. Live' = {} /\ FactsKept'
  BY <1>1 DEF Live, FactsKept
<1>4. CASE c = k
  BY <1>1, <1>2, <1>3, <1>4, KeeperFinishes
<1>5. CASE c # k
  <2>1. /\ job'[k] = job[k] /\ todo'[k] = todo[k] /\ consumed'[k] = consumed[k] /\ copy'[k] = copy[k]
        /\ DOMAIN job' = Client /\ DOMAIN consumed' = Client
        /\ \A d \in Client \ {k} : job'[d] \in {job[d], "idle"}
    BY <1>1, <1>5 DEF Finish, KeeperInv, Alone
  <2>2. Alone(k)' /\ Learnt(k)'
    BY <1>1, <1>2, <2>1 DEF KeeperInv, Alone, Learnt
  <2>3. \A i \in Memory : copy[k][i].facts # {} => i <= added
    BY DEF KeeperInv
  <2>4. \A i \in todo[k] \union consumed[k] : i <= added
    <3>1. CASE Stale(k)
      <4>1. \A i \in todo[k] \union consumed[k] : i \in Nat /\ i <= erased
        BY <3>1, BoundsAssumption DEF Stale, KeeperInv, Alone, Memory
      <4> QED
        BY <4>1 DEF KeeperInv
    <3>2. CASE Fresh(k)
      BY <2>3, <3>2 DEF Fresh, KeeperInv, Alone
    <3> QED
      BY <3>1, <3>2 DEF KeeperInv
  <2>5. Stale(k)'
    BY <1>1, <2>1, <2>3, <2>4 DEF KeeperInv, Learnt, Stale
  <2> QED
    BY <1>3, <2>2, <2>5 DEF KeeperInv
<1> QED
  BY <1>4, <1>5

\* Steps of those who only erase
LEMMA OthersKeep ==
  ASSUME NEW k \in Client, SoleKeeper(k), KeeperInv(k), Inv', NEW c \in Client \ {k},
         \/ Query(c) \/ Bump(c) \/ ConsolidateList(c) \/ ConsolidateSearch(c)
         \/ ConsolidateUpdate(c) \/ ConsolidateDelete(c) \/ ExpireList(c) \/ ExpireDelete(c)
         \/ Delete(c) \/ EraseList(c) \/ Fail(c)
  PROVE  KeeperInv(k)'
<1>1. Does[c] \subseteq {"erase"} /\ job[c] \in {"idle", "erase"}
  BY DEF SoleKeeper, KeeperInv, Alone
<1>2. EraseList(c) \/ Fail(c)
  BY <1>1 DEF Query, Bump, ConsolidateList, ConsolidateSearch, ConsolidateUpdate,
              ConsolidateDelete, ExpireList, ExpireDelete, Delete, Free
<1>3. /\ job'[k] = job[k] /\ todo'[k] = todo[k] /\ consumed'[k] = consumed[k] /\ copy'[k] = copy[k]
      /\ DOMAIN job' = Client /\ DOMAIN consumed' = Client
      /\ \A d \in Client \ {k} : job'[d] \in {"idle", "erase"}
      /\ UNCHANGED <<store, added, erased, forgotten>>
  BY <1>2 DEF EraseList, Fail, Finish, KeeperInv, Alone, history
<1>4. Alone(k)' /\ Learnt(k)' /\ FactsKept'
  BY <1>3 DEF KeeperInv, Alone, Learnt, FactsKept
<1>5. Stale(k) => Stale(k)'
  BY <1>3 DEF Stale
<1>6. Fresh(k) => Fresh(k)'
  BY <1>3 DEF Fresh, Live, Spared, Due, InTurn
<1> QED
  BY <1>4, <1>5, <1>6 DEF KeeperInv

LEMMA KeeperSteps ==
  ASSUME NEW k \in Client, KeeperInv(k), Inv',
         \/ Query(k) \/ Bump(k) \/ ConsolidateList(k) \/ ConsolidateSearch(k)
         \/ ConsolidateUpdate(k) \/ ConsolidateDelete(k) \/ ExpireList(k) \/ ExpireDelete(k)
         \/ Delete(k) \/ EraseList(k) \/ Fail(k)
  PROVE  KeeperInv(k)'
<1>1. CASE Query(k) \/ ConsolidateList(k) \/ ExpireList(k)
  <2>1. job[k] = "idle" /\ UNCHANGED <<store, added, history>>
    BY <1>1 DEF Query, ConsolidateList, ExpireList, Free
  <2>2. UNCHANGED clients
        \/ \E call \in {"bump", "search", "expire"}, ids \in SUBSET Present : Start(k, call, ids)
    BY <1>1 DEF Query, ConsolidateList, ExpireList
  <2>3. CASE UNCHANGED clients
    <3>1. UNCHANGED vars
      BY <2>1, <2>3 DEF vars
    <3> QED
      BY <3>1 DEF KeeperInv, Alone, Learnt, FactsKept, Stale, Fresh, Live, Spared, Due, InTurn,
                  vars, clients, history
  <2>4. CASE \E call \in {"bump", "search", "expire"}, ids \in SUBSET Present : Start(k, call, ids)
    BY <2>1, <2>4, KeeperStarts
  <2> QED
    BY <2>2, <2>3, <2>4
<1>2. CASE EraseList(k)
  <2>1. /\ job[k] = "idle" /\ job'[k] \in {"idle", "erase"} /\ DOMAIN job' = Client
        /\ \A c \in Client \ {k} : job'[c] = job[c]
        /\ UNCHANGED <<store, added, copy, todo, consumed, history>>
    BY <1>2 DEF EraseList, Free, KeeperInv, Alone
  <2>2. Alone(k)'
    BY <2>1 DEF KeeperInv, Alone, Merging
  <2>3. ~ (\E i \in Memory : Due(k, i)) /\ ~ (\E i \in Memory : Due(k, i)')
    BY <2>1 DEF Due
  <2> QED
    BY <2>1, <2>2, <2>3, KeeperStays DEF history
<1>3. CASE Fail(k)
  <2>1. FactsKept' /\ \A j \in Memory : store'[j].facts \subseteq 1 .. added'
    BY <1>3 DEF Fail, KeeperInv, FactsKept, Learnt, history
  <2> QED
    BY <1>3, <2>1, KeeperFinishes DEF Fail
<1> QED
  BY <1>1, <1>2, <1>3, KeeperBumps, KeeperSearches, KeeperUpdates, KeeperPurges, KeeperExpires,
     KeeperDeletes

LEMMA KeeperStep ==
  ASSUME NEW k \in Client, SoleKeeper(k) PROVE KeeperInv(k) /\ [Next]_vars => KeeperInv(k)'
<1> SUFFICES ASSUME KeeperInv(k), [Next]_vars PROVE KeeperInv(k)'
  OBVIOUS
<1>1. Inv'
  BY StepInv DEF KeeperInv
<1>2. CASE UNCHANGED vars
  BY <1>2 DEF KeeperInv, Alone, Learnt, FactsKept, Stale, Fresh, Live, Spared, Due, InTurn,
              vars, clients, history
<1>3. CASE Add
  BY <1>1, <1>3, KeeperAdds
<1>4. CASE \E c \in Client : EraseDelete(c)
  BY <1>1, <1>4, Erased
<1>5. CASE \E c \in Client :
             \/ Query(c) \/ Bump(c) \/ ConsolidateList(c) \/ ConsolidateSearch(c)
             \/ ConsolidateUpdate(c) \/ ConsolidateDelete(c) \/ ExpireList(c) \/ ExpireDelete(c)
             \/ Delete(c) \/ EraseList(c) \/ Fail(c)
  BY <1>1, <1>5, OthersKeep, KeeperSteps
<1> QED
  BY <1>2, <1>3, <1>4, <1>5 DEF Next

-----------------------------------------------------------------------------
\* Nobody consolidates: every record holds what it was added with
Unmerged ==
    /\ DOMAIN job = Client
    /\ \A c \in Client : job[c] \notin Merging
    /\ \A i \in Memory : store[i].facts \subseteq {i}
    /\ \A c \in Client, i \in Memory : copy[c][i].facts \subseteq {i}
    /\ \A c \in Client : \A i \in todo[c] : i \in copy[c][i].facts
    /\ \A m \in Live : m \in Memory /\ m \in store[m].facts

LEMMA InitUnmerged == Init => Unmerged
<1> SUFFICES ASSUME Init PROVE Unmerged
  OBVIOUS
<1>1. \A i \in Memory : store[i].facts = {} /\ \A c \in Client : copy[c][i].facts = {}
  BY NothingShape DEF Init
<1>2. Live = {}
  BY DEF Init, Live
<1> QED
  BY <1>1, <1>2 DEF Init, Unmerged, Merging

\* What a call leaves behind in the clients when it is over
LEMMA UnmergedFinish ==
  ASSUME Inv, Unmerged, NEW c \in Client, Finish(c)
  PROVE  /\ DOMAIN job' = Client
         /\ \A d \in Client : job'[d] \notin Merging
         /\ \A d \in Client, i \in Memory : copy'[d][i].facts \subseteq {i}
         /\ \A d \in Client : \A i \in todo'[d] : i \in copy'[d][i].facts
<1>1. \A d \in Client :
        \/ job'[d] = job[d] /\ copy'[d] = copy[d] /\ todo'[d] = todo[d]
        \/ job'[d] = "idle" /\ copy'[d] = Nothing /\ todo'[d] = {}
  BY DEF Finish, Unmerged
<1>2. DOMAIN job' = Client
  BY DEF Finish, Unmerged
<1> QED
  BY <1>1, <1>2, NothingShape DEF Unmerged, Merging

LEMMA UnmergedCalls ==
  ASSUME Inv, Unmerged, NobodyConsolidates, NEW c \in Client,
         \/ Query(c) \/ ConsolidateList(c) \/ ExpireList(c) \/ EraseList(c) \/ Fail(c)
  PROVE  Unmerged'
<1>1. UNCHANGED <<store, added, history>> /\ Live' = Live
  BY DEF Query, ConsolidateList, ExpireList, EraseList, Fail, Live, history
<1>2. CASE Fail(c)
  BY <1>1, <1>2, UnmergedFinish DEF Fail, Unmerged
<1>3. CASE EraseList(c)
  BY <1>1, <1>3 DEF EraseList, Unmerged, Merging
<1>4. CASE Query(c) \/ ExpireList(c)
  <2>1. UNCHANGED clients
        \/ \E call \in {"bump", "expire"}, ids \in SUBSET Present : Start(c, call, ids)
    BY <1>4 DEF Query, ExpireList
  <2>2. CASE UNCHANGED clients
    BY <1>1, <2>2 DEF clients, Unmerged
  <2>3. ASSUME NEW call \in {"bump", "expire"}, NEW ids \in SUBSET Present, Start(c, call, ids)
        PROVE  Unmerged'
    <3>1. \A d \in Client :
            \/ job'[d] = job[d] /\ copy'[d] = copy[d] /\ todo'[d] = todo[d]
            \/ job'[d] = call /\ copy'[d] = store /\ todo'[d] = ids
      BY <2>3 DEF Start, Unmerged
    <3>2. \A i \in ids : i \in Memory /\ i \in store[i].facts
      BY DEF Present, Unmerged
    <3>3. DOMAIN job' = Client
      BY <2>3 DEF Start, Unmerged
    <3> QED
      BY <1>1, <3>1, <3>2, <3>3 DEF Unmerged, Merging
  <2> QED
    BY <2>1, <2>2, <2>3
<1> QED
  BY <1>2, <1>3, <1>4 DEF ConsolidateList, Free, NobodyConsolidates

LEMMA UnmergedStep == ASSUME NobodyConsolidates PROVE Inv /\ Unmerged /\ [Next]_vars => Unmerged'
<1> SUFFICES ASSUME Inv, Unmerged, [Next]_vars PROVE Unmerged'
  OBVIOUS
<1>1. CASE UNCHANGED vars
  BY <1>1 DEF Unmerged, Live, vars, clients, history
<1>2. CASE Add
  <2>1. added + 1 \in Memory /\ added' = added + 1 /\ UNCHANGED <<clients, history>>
    BY <1>2, BoundsAssumption DEF Add, Memory
  <2>2. /\ store'[added + 1].facts = {added + 1}
        /\ \A i \in Memory : i # added + 1 => store'[i] = store[i]
    BY <1>2, <2>1 DEF Add
  <2>3. \A m \in Live' : m \in Live \/ m = added + 1
    BY <2>1 DEF Live, history
  <2> QED
    BY <2>1, <2>2, <2>3 DEF Unmerged, clients
<1>3. ASSUME NEW c \in Client, Bump(c) PROVE Unmerged'
  <2>1. PICK i \in todo[c] :
          /\ store' = Written(i, [copy[c][i] EXCEPT !.access = @ + 1])
          /\ IF todo[c] = {i}
             THEN Finish(c)
             ELSE todo' = [todo EXCEPT ![c] = @ \ {i}] /\ UNCHANGED <<job, copy, consumed>>
    BY <1>3 DEF Bump
  <2>2. i \in Memory /\ UNCHANGED <<added, erased, forgotten>> /\ Live' = Live
    BY <1>3, <2>1 DEF Bump, Live
  <2> DEFINE r == [copy[c][i] EXCEPT !.access = @ + 1]
  <2>3. r.facts = copy[c][i].facts
    BY <2>2
  <2> HIDE DEF r
  <2>4. i \in Present => store[i].facts = copy[c][i].facts
    <3>1. copy[c][i].facts = {i} /\ store[i].facts \subseteq {i}
      BY <2>1, <2>2 DEF Unmerged
    <3> QED
      BY <3>1 DEF Present
  <2>5. \A j \in Memory : store'[j].facts = store[j].facts
    BY <2>1, <2>2, <2>3, <2>4 DEF Written, r
  <2>6. CASE Finish(c)
    BY <2>2, <2>5, <2>6, UnmergedFinish DEF Unmerged
  <2>7. CASE todo' = [todo EXCEPT ![c] = @ \ {i}] /\ UNCHANGED <<job, copy, consumed>>
    BY <2>2, <2>5, <2>7 DEF Unmerged
  <2> QED
    BY <2>1, <2>6, <2>7
<1>4. ASSUME NEW c \in Client, ExpireDelete(c) PROVE Unmerged'
  <2>1. /\ store' = Without(todo[c]) /\ Finish(c) /\ UNCHANGED <<added, erased>>
        /\ forgotten' = forgotten \union UNION {copy[c][i].facts : i \in todo[c]}
    BY <1>4 DEF ExpireDelete
  <2>2. \A i \in Memory : store'[i].facts = IF i \in todo[c] THEN {} ELSE store[i].facts
    BY <2>1 DEF Without, Absent
  <2>3. \A i \in todo[c] : i \in forgotten'
    BY <2>1 DEF Unmerged
  <2>4. \A m \in Live' : m \in Live /\ m \notin todo[c]
    BY <2>1, <2>3 DEF Live
  <2> QED
    BY <2>1, <2>2, <2>4, UnmergedFinish DEF Unmerged
<1>5. ASSUME NEW c \in Client, Delete(c) PROVE Unmerged'
  <2>1. PICK d \in Present : store' = Without({d}) /\ forgotten' = forgotten \union store[d].facts
    BY <1>5 DEF Delete
  <2>2. UNCHANGED <<added, erased, clients>>
    BY <1>5 DEF Delete
  <2>3. \A i \in Memory : store'[i].facts = IF i = d THEN {} ELSE store[i].facts
    BY <2>1 DEF Without, Absent
  <2>4. \A m \in Live' : m \in Live /\ m # d
    BY <2>1, <2>2 DEF Live, Unmerged
  <2> QED
    BY <2>2, <2>3, <2>4 DEF Unmerged, clients
<1>6. ASSUME NEW c \in Client, EraseDelete(c) PROVE Unmerged'
  <2>1. store' = Nothing /\ added' = added /\ erased' = added /\ Finish(c)
    BY <1>6 DEF EraseDelete
  <2>2. Live' = {} /\ \A i \in Memory : store'[i].facts = {}
    BY <2>1, NothingShape DEF Live
  <2> QED
    BY <2>1, <2>2, UnmergedFinish DEF Unmerged
<1>7. \A c \in Client : ~ (ConsolidateSearch(c) \/ ConsolidateUpdate(c) \/ ConsolidateDelete(c))
  BY DEF Unmerged, Merging, ConsolidateSearch, ConsolidateUpdate, ConsolidateDelete
<1> QED
  BY <1>1, <1>2, <1>3, <1>4, <1>5, <1>6, <1>7, UnmergedCalls DEF Next

LEMMA UnmergedShows == Unmerged => FactsKept
  BY DEF Unmerged, FactsKept, Live

\* long_term.py:161-196: what a task taught is in some record until it is deleted
\* or expires, however a consolidation is cut short and whatever is erased under
\* it: for one client that queries, consolidates, expires and deletes by itself,
\* or for any number of them that do not consolidate.
THEOREM FactsKeptAlways ==
  ASSUME (\E k \in Client : SoleKeeper(k)) \/ NobodyConsolidates
  PROVE  Spec => []FactsKept
<1>1. ASSUME NEW k \in Client, SoleKeeper(k) PROVE Spec => []FactsKept
  <2>1. KeeperInv(k) => FactsKept
    BY DEF KeeperInv
  <2>2. Init => KeeperInv(k)
    BY InitKeeper
  <2>3. KeeperInv(k) /\ [Next]_vars => KeeperInv(k)'
    BY <1>1, KeeperStep
  <2> QED
    BY <2>1, <2>2, <2>3, PTL DEF Spec
<1>2. ASSUME NobodyConsolidates PROVE Spec => []FactsKept
  <2>1. Inv /\ Unmerged /\ [Next]_vars => (Inv /\ Unmerged)'
    BY <1>2, StepInv, UnmergedStep
  <2> QED
    BY <2>1, InitInv, InitUnmerged, UnmergedShows, PTL DEF Spec
<1> QED
  BY <1>1, <1>2

-----------------------------------------------------------------------------
\* Access counts, with a sole keeper
HIDE DEF Inv, Shape, Numbered, Clean

\* The records as they will be once the keeper has written what is due; nothing is
\* written to a record that was erased meanwhile
Worth(k) == [i \in Memory |-> IF Due(k, i) /\ i \in Present THEN copy[k][i] ELSE store[i]]

\* What the keeper has read of the records there are is so, but for what is due;
\* and the records it is not going to delete will be worth all accesses
Balanced(k) ==
    /\ \A i \in Memory \ Present : store[i].access = 0
    /\ \A i \in Present :
        /\ Due(k, i) => copy[k][i].access >= store[i].access
        /\ copy[k][i].facts # {} /\ (job[k] = "bump" => i \in todo[k]) =>
             Due(k, i) \/ copy[k][i].access = store[i].access
    /\ Total(Worth(k), Memory \ consumed[k]) + dropped >= uses

Accounted(k) == KeeperInv(k) /\ Typed /\ AccessesKept /\ Balanced(k)

LEMMA AccountTypes ==
  ASSUME NEW k \in Client, Typed
  PROVE  /\ store \in [Memory -> Record] /\ copy[k] \in [Memory -> Record]
         /\ Worth(k) \in [Memory -> Record]
         /\ todo[k] \in SUBSET Memory /\ consumed[k] \in SUBSET Memory
         /\ todo[k] \union consumed[k] \subseteq Listed(k) /\ todo[k] \intersect consumed[k] = {}
         /\ uses \in Nat /\ dropped \in Nat
         /\ \A i \in Memory : /\ store[i].access \in Nat /\ copy[k][i].access \in Nat
                              /\ Worth(k)[i].access \in Nat
<1>1. /\ store \in [Memory -> Record] /\ copy[k] \in [Memory -> Record]
      /\ todo[k] \in SUBSET Memory /\ consumed[k] \in SUBSET Memory
      /\ todo[k] \union consumed[k] \subseteq Listed(k) /\ todo[k] \intersect consumed[k] = {}
      /\ uses \in Nat /\ dropped \in Nat
  BY DEF Typed, CollectionTyped, ClientsTyped, WorkTyped
<1>2. Worth(k) \in [Memory -> Record]
  BY <1>1 DEF Worth
<1> QED
  BY <1>1, <1>2, RecordTypes

\* Sums of parts, and of records that differ in one place
LEMMA TotalSplits ==
  ASSUME NEW r \in [Memory -> Record], NEW ids \in SUBSET Memory, NEW part \in SUBSET ids
  PROVE  Total(r, ids) = Total(r, part) + Total(r, ids \ part)
<1>1. part \union (ids \ part) = ids /\ part \intersect (ids \ part) = {}
  OBVIOUS
<1>2. Countable(r, part) /\ Countable(r, ids \ part)
  BY RecordsTotal
<1>3. Total(r, part \union (ids \ part)) = Total(r, part) + Total(r, ids \ part)
  BY <1>1, <1>2, TotalOfBoth
<1> QED
  BY <1>1, <1>3

LEMMA TotalChanges ==
  ASSUME NEW r \in [Memory -> Record], NEW s \in [Memory -> Record], NEW ids \in SUBSET Memory,
         NEW i \in ids, \A j \in ids \ {i} : r[j].access = s[j].access
  PROVE  Total(s, ids) + r[i].access = Total(r, ids) + s[i].access
<1>1. r[i].access \in Nat /\ s[i].access \in Nat
  BY RecordTypes
<1>2. Total(r, {i}) = r[i].access /\ Total(s, {i}) = s[i].access
  BY <1>1, TotalOfOne
<1>3. Total(r, ids \ {i}) = Total(s, ids \ {i})
  BY TotalOfEqual
<1>4. Total(r, ids \ {i}) \in Nat /\ Total(s, ids \ {i}) \in Nat
  BY RecordsTotal
<1>5. /\ Total(r, ids) = Total(r, {i}) + Total(r, ids \ {i})
      /\ Total(s, ids) = Total(s, {i}) + Total(s, ids \ {i})
  BY TotalSplits
<1> QED
  BY <1>1, <1>2, <1>3, <1>4, <1>5

LEMMA TotalOfZeros ==
  ASSUME NEW r \in [Memory -> Record], NEW ids \in SUBSET Memory, \A i \in ids : r[i].access = 0
  PROVE  Total(r, ids) = 0
<1>1. Units(r, ids) = {}
  BY UnitsMean
<1> QED
  BY <1>1, FS_EmptySet DEF Units, Total

\* Between two calls, or before anything is merged, the records are worth what they are
LEMMA AtRest ==
  ASSUME NEW k \in Client, AccessesKept', consumed'[k] = {}, job'[k] # "update",
         \A i \in Memory \ Present' : store'[i].access = 0,
         \A i \in Present' :
            copy'[k][i].facts # {} /\ (job'[k] = "bump" => i \in todo'[k]) =>
                copy'[k][i].access = store'[i].access
  PROVE  Balanced(k)'
<1>1. ~ \E i \in Memory : Due(k, i)'
  BY DEF Due
<1>2. \A i \in Memory : Worth(k)'[i].access = store'[i].access
  BY <1>1 DEF Worth
<1>3. Memory \ consumed'[k] = Memory
  OBVIOUS
<1>4. Total(Worth(k)', Memory) = Total(store', Memory)
  BY <1>2, TotalOfEqual
<1>5. (Total(Worth(k), Memory \ consumed[k]) + dropped >= uses)'
  BY <1>3, <1>4 DEF AccessesKept, Accesses, Total
<1>6. Present' \subseteq Memory
  BY DEF Present
<1> QED
  BY <1>1, <1>5, <1>6 DEF Balanced

\* The keeper's call is over
LEMMA AtRestAfter ==
  ASSUME NEW k \in Client, Typed, AccessesKept', Finish(k),
         \A i \in Memory \ Present' : store'[i].access = 0
  PROVE  Balanced(k)'
<1>1. job'[k] = "idle" /\ copy'[k] = Nothing /\ todo'[k] = {} /\ consumed'[k] = {}
  BY DEF Finish, Typed, ClientsTyped
<1>2. \A i \in Present' : copy'[k][i].facts = {}
  BY <1>1, NothingShape DEF Present
<1> QED
  BY <1>1, <1>2, AtRest

LEMMA AccountStarts ==
  ASSUME NEW k \in Client, Accounted(k), Typed', job[k] = "idle",
         NEW call \in {"bump", "search", "expire"}, NEW ids \in SUBSET Present,
         Start(k, call, ids), UNCHANGED <<store, added, history>>
  PROVE  AccessesKept' /\ Balanced(k)'
<1>1. job'[k] = call /\ copy'[k] = store /\ consumed'[k] = {}
  BY DEF Start, Accounted, Typed, ClientsTyped, WorkTyped
<1>2. AccessesKept'
  BY DEF Accounted, AccessesKept, Accesses, history
<1>3. \A i \in Memory \ Present' : store'[i].access = 0
  BY DEF Accounted, Balanced, Present
<1>4. \A i \in Present' : copy'[k][i].access = store'[i].access
  BY <1>1
<1> QED
  BY <1>1, <1>2, <1>3, <1>4, AtRest

\* Two merges are never due at once
LEMMA OneDue ==
  ASSUME NEW k \in Client, Typed, NEW i, NEW j, Due(k, i), Due(k, j) PROVE i = j
<1>1. i \in Nat /\ j \in Nat /\ i <= j /\ j <= i
  BY MemoriesFinite, AccountTypes DEF Due, InTurn
<1> QED
  BY <1>1

LEMMA AccountBumps ==
  ASSUME NEW k \in Client, Accounted(k), Typed', Bump(k) PROVE AccessesKept' /\ Balanced(k)'
<1>1. PICK i \in todo[k] :
        /\ store' = Written(i, [copy[k][i] EXCEPT !.access = @ + 1])
        /\ uses' = IF i \in Present THEN uses + 1 ELSE uses
        /\ IF todo[k] = {i}
           THEN Finish(k)
           ELSE todo' = [todo EXCEPT ![k] = @ \ {i}] /\ UNCHANGED <<job, copy, consumed>>
  BY DEF Bump
<1>2. i \in Memory /\ job[k] = "bump" /\ dropped' = dropped /\ copy[k][i].facts # {}
  BY <1>1, AccountTypes DEF Bump, Accounted, Listed
<1>t. /\ store \in [Memory -> Record] /\ store' \in [Memory -> Record]
      /\ copy[k] \in [Memory -> Record] /\ uses \in Nat /\ dropped \in Nat
      /\ Total(store, Memory) \in Nat /\ Total(store', Memory) \in Nat
      /\ store[i].access \in Nat /\ copy[k][i].access \in Nat
  <2>1. store \in [Memory -> Record] /\ copy[k] \in [Memory -> Record] /\ uses \in Nat /\ dropped \in Nat
    BY AccountTypes DEF Accounted
  <2>2. store' \in [Memory -> Record]
    BY DEF Typed, CollectionTyped
  <2> QED
    BY <1>2, <2>1, <2>2, RecordsTotal, RecordTypes
<1>3. CASE i \notin Present
  <2>1. store' = store /\ uses' = uses
    BY <1>1, <1>3 DEF Written
  <2>2. Present' = Present
    BY <2>1 DEF Present
  <2> QED
    <3>1. AccessesKept'
      BY <1>2, <2>1 DEF Accounted, AccessesKept, Accesses
    <3>2. CASE Finish(k)
      BY <2>1, <2>2, <3>1, <3>2, AtRestAfter DEF Accounted, Balanced
    <3>3. CASE todo' = [todo EXCEPT ![k] = @ \ {i}] /\ UNCHANGED <<job, copy, consumed>>
      <4>1. todo'[k] = todo[k] \ {i}
        BY <3>3 DEF Accounted, Typed, ClientsTyped
      <4>2. consumed'[k] = {}
        BY <1>2, <3>3 DEF Accounted, KeeperInv, Alone, Merging
      <4>3. ~ Due(k, i)
        BY <1>2 DEF Due
      <4>4. \A j \in Present' : copy'[k][j].facts # {} /\ j \in todo'[k] =>
              copy'[k][j].access = store'[j].access
        BY <1>2, <2>1, <2>2, <3>3, <4>1 DEF Accounted, Balanced, Due
      <4>5. \A j \in Memory \ Present' : store'[j].access = 0
        BY <2>1, <2>2 DEF Accounted, Balanced
      <4> QED
        BY <1>2, <3>1, <3>3, <4>2, <4>4, <4>5, AtRest
    <3> QED
      BY <1>1, <3>1, <3>2, <3>3
<1>4. CASE i \in Present
  <2>1. /\ \A j \in Memory : j # i => store'[j] = store[j]
        /\ store'[i].access = copy[k][i].access + 1 /\ store'[i].facts = copy[k][i].facts
    <3>1. store' = [store EXCEPT ![i] = [copy[k][i] EXCEPT !.access = @ + 1]]
      BY <1>1, <1>4 DEF Written
    <3>2. copy[k][i] \in Record
      BY <1>2, <1>t
    <3> QED
      BY <1>2, <1>t, <3>1, <3>2 DEF Record
  <2>2. copy[k][i].access = store[i].access
    BY <1>1, <1>2, <1>4 DEF Accounted, Balanced, Due
  <2>3. Present' = Present
    BY <1>2, <1>4, <2>1 DEF Present
  <2>4. AccessesKept'
    <3>1. Total(store', Memory) + store[i].access = Total(store, Memory) + (store[i].access + 1)
      BY <1>2, <1>t, <2>1, <2>2, TotalChanges
    <3>2. Total(store', Memory) = Total(store, Memory) + 1
      BY <1>t, <3>1
    <3> QED
      BY <1>1, <1>2, <1>4, <1>t, <3>2 DEF Accounted, AccessesKept, Accesses
  <2>5. \A j \in Memory \ Present' : store'[j].access = 0
    BY <1>4, <2>1, <2>3 DEF Accounted, Balanced
  <2>6. CASE Finish(k)
    BY <2>4, <2>5, <2>6, AtRestAfter DEF Accounted
  <2>7. CASE todo' = [todo EXCEPT ![k] = @ \ {i}] /\ UNCHANGED <<job, copy, consumed>>
    <3>1. todo'[k] = todo[k] \ {i}
      BY <2>7 DEF Accounted, Typed, ClientsTyped
    <3>2. consumed'[k] = {}
      BY <1>2, <2>7 DEF Accounted, KeeperInv, Alone, Merging
    <3>3. \A j \in Present' : copy'[k][j].facts # {} /\ j \in todo'[k] =>
            copy'[k][j].access = store'[j].access
      BY <1>2, <2>1, <2>3, <2>7, <3>1 DEF Accounted, Balanced, Due, Present
    <3> QED
      BY <1>2, <2>4, <2>5, <2>7, <3>2, <3>3, AtRest
  <2> QED
    BY <1>1, <2>4, <2>6, <2>7
<1> QED
  BY <1>3, <1>4

\* The neighbours' accesses are counted with the record whose turn it is, from now on
LEMMA AccountMerges ==
  ASSUME NEW k \in Client, Accounted(k), Typed', job[k] = "search", NEW i \in todo[k], InTurn(k, i),
         NEW near \in SUBSET (Present \ ({i} \union consumed[k])), Merge(k, i, near),
         UNCHANGED <<store, added, history>>
  PROVE  AccessesKept' /\ Balanced(k)'
<1> DEFINE merged == Total(copy[k], near \union {i})
           left == Memory \ consumed'[k]
<1>1. /\ i \in Memory /\ near \subseteq Memory /\ i \notin near /\ near \intersect consumed[k] = {}
      /\ i \notin consumed[k] /\ near \subseteq Listed(k) /\ i \in Listed(k) /\ near \subseteq Present
  BY AccountTypes DEF Accounted, Merge, Present
<1>2. /\ job'[k] = "update" /\ todo'[k] = todo[k] \ near /\ consumed'[k] = consumed[k] \union near
      /\ copy'[k] = [copy[k] EXCEPT ![i] = Merged(k, i, near)]
  BY DEF Merge, Accounted, Typed, ClientsTyped
<1>t. /\ store \in [Memory -> Record] /\ copy[k] \in [Memory -> Record]
      /\ Worth(k) \in [Memory -> Record] /\ Worth(k)' \in [Memory -> Record]
      /\ uses \in Nat /\ dropped \in Nat /\ merged \in Nat
      /\ copy[k][i].access \in Nat /\ store[i].access \in Nat
      /\ \A ids \in SUBSET Memory :
            Total(store, ids) \in Nat /\ Total(copy[k], ids) \in Nat /\ Total(Worth(k)', ids) \in Nat
  <2>1. /\ store \in [Memory -> Record] /\ copy[k] \in [Memory -> Record]
        /\ Worth(k) \in [Memory -> Record] /\ uses \in Nat /\ dropped \in Nat
    BY AccountTypes DEF Accounted
  <2>2. Worth(k)' \in [Memory -> Record]
    BY DEF Worth, Typed, CollectionTyped, ClientsTyped
  <2> QED
    BY <1>1, <2>1, <2>2, RecordsTotal, RecordTypes
<1>3. /\ copy'[k][i].access = merged /\ copy[k][i].facts \subseteq copy'[k][i].facts
      /\ \A j \in Memory : j # i => copy'[k][j] = copy[k][j]
  BY <1>1, <1>2, <1>t DEF Merged
<1>4. merged = copy[k][i].access + Total(copy[k], near)
  <2>1. near \union {i} \in SUBSET Memory /\ {i} \in SUBSET (near \union {i})
        /\ (near \union {i}) \ {i} = near
    BY <1>1
  <2>2. ASSUME NEW ids \in SUBSET Memory, NEW part \in SUBSET ids
        PROVE  Total(copy[k], ids) = Total(copy[k], part) + Total(copy[k], ids \ part)
    <3>1. copy[k] \in [Memory -> Record]
      BY <1>t
    <3> QED
      BY <3>1, TotalSplits
  <2>3. Total(copy[k], {i}) = copy[k][i].access
    BY <1>t, TotalOfOne
  <2>4. Total(copy[k], near \union {i}) = Total(copy[k], {i}) + Total(copy[k], (near \union {i}) \ {i})
    BY <2>1, <2>2
  <2>5. merged = Total(copy[k], {i}) + Total(copy[k], near)
    BY <2>1, <2>4
  <2> QED
    BY <2>3, <2>5, <1>t
<1> HIDE DEF merged
<1>5. Present' = Present
  BY DEF Present
\* After an erasure what was read is gone, and it has no neighbours
<1>6. i \in Present \/ near = {}
  <2>1. CASE Fresh(k)
    BY <1>1, <2>1 DEF Fresh, Present
  <2>2. CASE Stale(k)
    <3>1. \A j \in Present : j > erased
      BY DEF Accounted, KeeperInv, Inv, Clean, Present
    <3>2. \A j \in near : j <= erased /\ j > erased /\ j \in Nat /\ erased \in Nat
      BY <1>1, <2>2, <3>1, MemoriesFinite DEF Stale, Listed, Accounted, KeeperInv, Inv, Numbered
    <3> QED
      BY <3>2
  <2> QED
    BY <2>1, <2>2 DEF Accounted, KeeperInv
<1>7. ~ \E j \in Memory : Due(k, j)
  BY DEF Due
<1>8. \A j \in Present : copy[k][j].facts # {} => copy[k][j].access = store[j].access
  BY <1>7 DEF Accounted, Balanced, Present
<1>9. Total(copy[k], near) = Total(store, near)
  BY <1>1, <1>8, TotalOfEqual DEF Listed
<1>10. Due(k, i)' /\ \A j \in Memory : Due(k, j)' => j = i
  <2>1. Due(k, i)'
    BY <1>1, <1>2 DEF Due, InTurn
  <2>2. ASSUME NEW j \in Memory, Due(k, j)' PROVE j = i
    <3>1. j \in Nat /\ i \in Nat /\ j <= i /\ i <= j
      BY <1>1, <2>1, <2>2, MemoriesFinite DEF Due, InTurn
    <3> QED
      BY <3>1
  <2> QED
    BY <2>1, <2>2
<1>11. Worth(k)'[i].access = store[i].access + Total(store, near)
  <2>1. CASE i \in Present
    <3>1. Worth(k)'[i].access = merged
      BY <1>1, <1>3, <1>5, <1>10, <2>1 DEF Worth
    <3>2. copy[k][i].access = store[i].access
      BY <1>1, <1>8, <2>1 DEF Listed
    <3> QED
      BY <1>4, <1>9, <3>1, <3>2
  <2>2. CASE i \notin Present
    <3>1. Worth(k)'[i] = store[i]
      BY <1>1, <1>5, <2>2 DEF Worth
    <3>2. Total(store, near) = 0
      BY <1>6, <2>2, TotalOfNone
    <3> QED
      BY <1>t, <3>1, <3>2
  <2> QED
    BY <2>1, <2>2
<1>12. Total(Worth(k)', left) + dropped >= uses
  <2>1. i \in left /\ left \subseteq Memory
    BY <1>1, <1>2
  <2>2. \A j \in left \ {i} : Worth(k)'[j].access = store[j].access
    BY <1>10 DEF Worth
  <2>3. Total(Worth(k)', left) + store[i].access = Total(store, left) + Worth(k)'[i].access
    <3> HIDE DEF left
    <3> QED
      BY <1>t, <2>1, <2>2, TotalChanges
  <2>4. Total(store, Memory \ consumed[k]) = Total(store, near) + Total(store, left)
    <3>1. near \in SUBSET (Memory \ consumed[k]) /\ (Memory \ consumed[k]) \ near = left
      BY <1>1, <1>2
    <3>2. Total(store, Memory \ consumed[k])
            = Total(store, near) + Total(store, (Memory \ consumed[k]) \ near)
      <4>1. Memory \ consumed[k] \in SUBSET Memory
        OBVIOUS
      <4> QED
        BY <1>t, <3>1, <4>1, TotalSplits
    <3> QED
      BY <3>1, <3>2
  <2>5. Total(Worth(k), Memory \ consumed[k]) = Total(store, Memory \ consumed[k])
    BY <1>7, TotalOfEqual DEF Worth
  <2>6. Total(Worth(k), Memory \ consumed[k]) + dropped >= uses
    BY DEF Accounted, Balanced
  <2>7. /\ Total(store, near) \in Nat /\ Total(store, left) \in Nat /\ Total(Worth(k)', left) \in Nat
    BY <1>1, <1>t, <2>1
  <2> HIDE DEF left
  <2> QED
    BY <1>11, <1>t, <2>3, <2>4, <2>5, <2>6, <2>7
<1>13. AccessesKept'
  BY DEF Accounted, AccessesKept, Accesses, history
<1>14. \A j \in Memory \ Present' : store'[j].access = 0
  BY <1>5 DEF Accounted, Balanced
<1>15. ASSUME NEW j \in Present'
       PROVE  /\ Due(k, j)' => copy'[k][j].access >= store'[j].access
              /\ copy'[k][j].facts # {} => Due(k, j)' \/ copy'[k][j].access = store'[j].access
  <2>1. j \in Memory /\ j \in Present
    BY <1>5 DEF Present
  <2>2. CASE j = i
    <3>1. copy[k][i].access = store[i].access
      BY <1>1, <1>8, <2>1, <2>2 DEF Listed
    <3>2. Total(store, near) \in Nat
      BY <1>1, <1>t
    <3>3. copy'[k][i].access >= store[i].access
      BY <1>3, <1>4, <1>9, <1>t, <3>1, <3>2
    <3> QED
      BY <1>10, <2>2, <3>3
  <2>3. CASE j # i
    BY <1>3, <1>8, <1>10, <2>1, <2>3
  <2> QED
    BY <2>2, <2>3
<1>16. (Total(Worth(k), Memory \ consumed[k]) + dropped >= uses)'
  BY <1>12 DEF Total, history
<1> QED
  BY <1>13, <1>14, <1>15, <1>16 DEF Balanced

LEMMA AccountSearches ==
  ASSUME NEW k \in Client, Accounted(k), Typed', ConsolidateSearch(k)
  PROVE  AccessesKept' /\ Balanced(k)'
<1>1. PICK i \in todo[k] : /\ InTurn(k, i)
                          /\ \E near \in SUBSET (Present \ ({i} \union consumed[k])) :
                                Merge(k, i, near) \/ MergeUnlisted(k, near)
  BY DEF ConsolidateSearch
<1>2. PICK near \in SUBSET (Present \ ({i} \union consumed[k])) :
        Merge(k, i, near) \/ MergeUnlisted(k, near)
  BY <1>1
<1>3. job[k] = "search" /\ UNCHANGED <<store, added, history>>
  BY DEF ConsolidateSearch
<1>4. CASE MergeUnlisted(k, near)
  <2>1. AccessesKept' /\ \A i1 \in Memory \ Present' : store'[i1].access = 0
    BY <1>3 DEF Accounted, Balanced, AccessesKept, Accesses, Present, history
  <2> QED
    BY <1>4, <2>1, AtRestAfter DEF MergeUnlisted, Accounted
<1> QED
  BY <1>1, <1>2, <1>3, <1>4, AccountMerges

LEMMA AccountUpdates ==
  ASSUME NEW k \in Client, Accounted(k), Typed', ConsolidateUpdate(k)
  PROVE  AccessesKept' /\ Balanced(k)'
<1>1. PICK i \in todo[k] : /\ InTurn(k, i) /\ store' = Written(i, copy[k][i])
                          /\ AfterUpdate(k, todo[k] \ {i})
  BY DEF ConsolidateUpdate
<1>2. /\ i \in Memory /\ Due(k, i) /\ copy[k][i].facts # {} /\ UNCHANGED history
      /\ \A j \in Memory : Due(k, j) => j = i
  BY <1>1, AccountTypes, OneDue DEF ConsolidateUpdate, Accounted, Listed, Due
<1>t. /\ store \in [Memory -> Record] /\ store' \in [Memory -> Record]
      /\ copy[k] \in [Memory -> Record] /\ uses \in Nat /\ dropped \in Nat
      /\ Total(store, Memory) \in Nat /\ Total(store', Memory) \in Nat
      /\ store[i].access \in Nat /\ copy[k][i].access \in Nat
  <2>1. store \in [Memory -> Record] /\ copy[k] \in [Memory -> Record] /\ uses \in Nat /\ dropped \in Nat
    BY AccountTypes DEF Accounted
  <2>2. store' \in [Memory -> Record]
    BY DEF Typed, CollectionTyped
  <2> QED
    BY <1>2, <2>1, <2>2, RecordsTotal, RecordTypes
<1>3. /\ \A j \in Memory : j # i => store'[j] = store[j]
      /\ store'[i] = IF i \in Present THEN copy[k][i] ELSE store[i]
  BY <1>1, <1>2, <1>t DEF Written
<1>4. Present' = Present
  BY <1>2, <1>3 DEF Present
<1>5. store'[i].access >= store[i].access
  BY <1>2, <1>3, <1>t DEF Accounted, Balanced
<1>6. AccessesKept'
  <2>1. Total(store', Memory) + store[i].access = Total(store, Memory) + store'[i].access
    BY <1>2, <1>3, <1>t, TotalChanges
  <2>2. store'[i].access \in Nat
    BY <1>3, <1>t
  <2> QED
    BY <1>2, <1>5, <1>t, <2>1, <2>2 DEF Accounted, AccessesKept, Accesses, history
<1>7. \A j \in Memory \ Present' : store'[j].access = 0
  BY <1>2, <1>3, <1>4 DEF Accounted, Balanced
<1>8. CASE Finish(k)
  BY <1>6, <1>7, <1>8, AtRestAfter DEF Accounted
<1>9. CASE /\ job' = [job EXCEPT ![k] = IF todo[k] \ {i} = {} THEN "purge" ELSE "search"]
           /\ UNCHANGED <<copy, consumed>>
  <2>1. job'[k] \in {"purge", "search"}
    BY <1>9 DEF Accounted, Typed, ClientsTyped
  <2>2. ~ \E j \in Memory : Due(k, j)'
    BY <2>1 DEF Due
  <2>3. \A j \in Memory : Worth(k)'[j].access = Worth(k)[j].access
    BY <1>2, <1>3, <2>2 DEF Worth
  <2>4. (Total(Worth(k), Memory \ consumed[k]) + dropped >= uses)'
    <3>1. Total(Worth(k)', Memory \ consumed[k]) = Total(Worth(k), Memory \ consumed[k])
      BY <2>3, TotalOfEqual
    <3> QED
      BY <1>2, <1>9, <3>1 DEF Accounted, Balanced, Total, history
  <2>5. ASSUME NEW j \in Present', copy'[k][j].facts # {}
        PROVE  copy'[k][j].access = store'[j].access
    <3>1. j \in Memory /\ j \in Present
      BY <1>4 DEF Present
    <3>2. CASE j = i
      BY <1>3, <1>9, <3>1, <3>2
    <3>3. CASE j # i
      BY <1>2, <1>3, <1>9, <2>5, <3>1, <3>3 DEF Accounted, Balanced, Due
    <3> QED
      BY <3>2, <3>3
  <2>6. Present' \subseteq Memory
    BY DEF Present
  <2> QED
    BY <1>6, <1>7, <2>2, <2>4, <2>5, <2>6 DEF Balanced
<1> QED
  BY <1>1, <1>8, <1>9 DEF AfterUpdate

LEMMA AccountPurges ==
  ASSUME NEW k \in Client, Accounted(k), Typed', ConsolidateDelete(k)
  PROVE  AccessesKept' /\ Balanced(k)'
<1>1. /\ job[k] = "purge" /\ store' = Without(consumed[k]) /\ Finish(k)
      /\ uses' = uses /\ dropped' = dropped
  BY DEF ConsolidateDelete, history
<1>t. /\ store \in [Memory -> Record] /\ store' \in [Memory -> Record]
      /\ consumed[k] \in SUBSET Memory
  BY AccountTypes DEF Accounted, Typed, CollectionTyped
<1>2. \A i \in Memory : IF i \in consumed[k] THEN store'[i].access = 0 ELSE store'[i] = store[i]
  BY <1>1 DEF Without, Absent
<1>3. Total(store', Memory) = Total(store', consumed[k]) + Total(store', Memory \ consumed[k])
  BY <1>t, TotalSplits
<1>4. Total(store', consumed[k]) = 0
  BY <1>2, <1>t, TotalOfZeros
<1>5. \A i \in Memory \ consumed[k] : store'[i].access = Worth(k)[i].access
  BY <1>1, <1>2 DEF Worth, Due
<1>6. Total(store', Memory \ consumed[k]) = Total(Worth(k), Memory \ consumed[k])
  BY <1>5, TotalOfEqual
<1>7. Total(store', Memory \ consumed[k]) \in Nat
  BY <1>t, RecordsTotal
<1>8. AccessesKept'
  <2>1. Total(store', Memory) = Total(Worth(k), Memory \ consumed[k])
    BY <1>3, <1>4, <1>6, <1>7
  <2> QED
    BY <1>1, <2>1 DEF Accounted, Balanced, AccessesKept, Accesses, Total
<1>9. \A i \in Memory \ Present' : store'[i].access = 0
  BY <1>2 DEF Accounted, Balanced, Present
<1> QED
  BY <1>1, <1>8, <1>9, AtRestAfter DEF Accounted

\* Records deleted on purpose take their accesses with them
LEMMA AccountDropped ==
  ASSUME NEW k \in Client, Accounted(k), Typed', NEW ids \in SUBSET Memory, store' = Without(ids),
         uses' = uses, dropped' = dropped + Total(store, ids)
  PROVE  AccessesKept' /\ \A i \in Memory \ Present' : store'[i].access = 0
<1>t. /\ store \in [Memory -> Record] /\ store' \in [Memory -> Record]
      /\ uses \in Nat /\ dropped \in Nat
  BY AccountTypes DEF Accounted, Typed, CollectionTyped
<1>1. \A i \in Memory : IF i \in ids THEN store'[i].access = 0 ELSE store'[i] = store[i]
  BY DEF Without, Absent
<1>2. /\ Total(store', Memory) = Total(store', ids) + Total(store', Memory \ ids)
      /\ Total(store, Memory) = Total(store, ids) + Total(store, Memory \ ids)
  BY <1>t, TotalSplits
<1>3. Total(store', ids) = 0
  BY <1>1, <1>t, TotalOfZeros
<1>4. Total(store', Memory \ ids) = Total(store, Memory \ ids)
  BY <1>1, TotalOfEqual
<1>5. Total(store, ids) \in Nat /\ Total(store, Memory \ ids) \in Nat
  BY <1>t, RecordsTotal
<1>6. Total(store', Memory) + dropped' = Total(store, Memory) + dropped
  BY <1>2, <1>3, <1>4, <1>5, <1>t
<1>7. AccessesKept'
  BY <1>6 DEF Accounted, AccessesKept, Accesses, Total
<1>8. \A i \in Memory \ Present' : store'[i].access = 0
  BY <1>1 DEF Accounted, Balanced, Present
<1> QED
  BY <1>7, <1>8

LEMMA AccountDeletions ==
  ASSUME NEW k \in Client, Accounted(k), Typed', Alone(k)', ExpireDelete(k) \/ Delete(k)
  PROVE  AccessesKept' /\ Balanced(k)'
<1>1. CASE ExpireDelete(k)
  <2>1. /\ Finish(k) /\ store' = Without(todo[k]) /\ uses' = uses
        /\ dropped' = dropped + Total(store, todo[k]) /\ todo[k] \in SUBSET Memory
    BY <1>1, AccountTypes DEF ExpireDelete, Accesses, Accounted
  <2> QED
    BY <2>1, AccountDropped, AtRestAfter DEF Accounted
<1>2. CASE Delete(k)
  <2>1. PICK i \in Present : /\ store' = Without({i}) /\ dropped' = dropped + store[i].access
                             /\ uses' = uses /\ UNCHANGED clients /\ job[k] = "idle"
    BY <1>2 DEF Delete, Free
  <2>2. i \in Memory /\ store[i].access \in Nat
    BY AccountTypes DEF Accounted, Present
  <2>3. Total(store, {i}) = store[i].access
    BY <2>2, TotalOfOne
  <2>4. AccessesKept' /\ \A j \in Memory \ Present' : store'[j].access = 0
    BY <2>1, <2>2, <2>3, AccountDropped
  <2>5. /\ job'[k] = "idle" /\ consumed'[k] = {} /\ \A j \in Memory : copy'[k][j].facts = {}
    BY <2>1 DEF clients, Alone, Merging
  <2>6. Present' \subseteq Memory
    BY DEF Present
  <2> QED
    BY <2>4, <2>5, <2>6, AtRest
<1> QED
  BY <1>1, <1>2

\* A new record has no accesses yet, and nobody has read it
LEMMA AccountAdds ==
  ASSUME NEW k \in Client, Accounted(k), Typed', Add PROVE AccessesKept' /\ Balanced(k)'
<1>1. added + 1 \in Memory /\ UNCHANGED <<clients, history>>
  BY BoundsAssumption DEF Add, Memory, Accounted, Typed, CollectionTyped
<1>t. store \in [Memory -> Record] /\ todo[k] \in SUBSET Memory
  BY AccountTypes DEF Accounted
<1>2. /\ store'[added + 1] = [facts |-> {added + 1}, access |-> 0]
      /\ \A i \in Memory : i # added + 1 => store'[i] = store[i]
  BY <1>1, <1>t DEF Add
<1>3. /\ copy[k][added + 1].facts = {} /\ store[added + 1].facts = {} /\ added + 1 \notin todo[k]
  <2>1. ~ (added + 1 <= added)
    BY DEF Accounted, Typed, CollectionTyped
  <2> QED
    BY <1>1, <2>1 DEF Accounted, KeeperInv, Inv, Numbered
<1>4. \A i \in Memory : store'[i].access = store[i].access
  BY <1>1, <1>2, <1>3 DEF Accounted, Balanced, Present
<1>5. Present' = Present \union {added + 1}
  BY <1>1, <1>2 DEF Present
<1>6. \A i \in Memory : Due(k, i)' <=> Due(k, i)
  BY <1>1 DEF Due, InTurn, clients
<1>7. ~ Due(k, added + 1)
  BY <1>3 DEF Due, InTurn
<1>8. \A i \in Memory : Worth(k)'[i].access = Worth(k)[i].access
  BY <1>1, <1>4, <1>5, <1>6, <1>7 DEF Worth, clients
<1>9. AccessesKept'
  <2>1. Total(store', Memory) = Total(store, Memory)
    BY <1>4, TotalOfEqual
  <2> QED
    BY <1>1, <2>1 DEF Accounted, AccessesKept, Accesses, Total, history
<1>10. (Total(Worth(k), Memory \ consumed[k]) + dropped >= uses)'
  <2>1. Total(Worth(k)', Memory \ consumed[k]) = Total(Worth(k), Memory \ consumed[k])
    BY <1>8, TotalOfEqual
  <2> QED
    BY <1>1, <2>1 DEF Accounted, Balanced, Total, history, clients
<1>11. \A i \in Memory \ Present' : store'[i].access = 0
  BY <1>4, <1>5 DEF Accounted, Balanced
<1>12. ASSUME NEW i \in Present'
       PROVE  /\ Due(k, i)' => copy'[k][i].access >= store'[i].access
              /\ copy'[k][i].facts # {} /\ (job'[k] = "bump" => i \in todo'[k]) =>
                    Due(k, i)' \/ copy'[k][i].access = store'[i].access
  <2>1. i \in Memory /\ (i \in Present \/ i = added + 1)
    BY <1>5, <1>1 DEF Present
  <2>2. copy' = copy /\ job' = job /\ todo' = todo
    BY <1>1 DEF clients
  <2>3. CASE i = added + 1
    BY <1>3, <1>6, <1>7, <2>1, <2>2, <2>3
  <2>4. CASE i \in Present
    BY <1>4, <1>6, <2>1, <2>2, <2>4 DEF Accounted, Balanced
  <2> QED
    BY <2>1, <2>3, <2>4
<1> QED
  BY <1>9, <1>10, <1>11, <1>12 DEF Balanced

\* After an erasure there is nothing to count, whatever the keeper goes on with
LEMMA AccountErased ==
  ASSUME NEW k \in Client, Accounted(k), Typed', NEW c \in Client, EraseDelete(c)
  PROVE  AccessesKept' /\ Balanced(k)'
<1>1. store' = Nothing /\ uses' = 0 /\ dropped' = 0
  BY DEF EraseDelete
<1>2. Present' = {} /\ \A i \in Memory : store'[i].access = 0
  BY <1>1, NothingShape DEF Present, Nothing, Absent
<1>t. store' \in [Memory -> Record] /\ Worth(k)' \in [Memory -> Record]
  BY DEF Typed, CollectionTyped, ClientsTyped, Worth
<1>3. Total(store', Memory) \in Nat /\ Total(Worth(k)', Memory \ consumed'[k]) \in Nat
  BY <1>t, RecordsTotal
<1>4. AccessesKept' /\ (Total(Worth(k), Memory \ consumed[k]) + dropped >= uses)'
  BY <1>1, <1>3 DEF AccessesKept, Accesses, Total
<1> QED
  BY <1>2, <1>4 DEF Balanced

\* A step that touches neither the records nor what the keeper has of them
LEMMA AccountStays ==
  ASSUME NEW k \in Client, Accounted(k), UNCHANGED <<store, uses, dropped>>,
         job'[k] = job[k], copy'[k] = copy[k], todo'[k] = todo[k], consumed'[k] = consumed[k]
  PROVE  AccessesKept' /\ Balanced(k)'
  BY DEF Accounted, AccessesKept, Accesses, Total, Balanced, Worth, Due, InTurn, Present

LEMMA AccountOthers ==
  ASSUME NEW k \in Client, SoleKeeper(k), Accounted(k), NEW c \in Client \ {k},
         \/ Query(c) \/ Bump(c) \/ ConsolidateList(c) \/ ConsolidateSearch(c)
         \/ ConsolidateUpdate(c) \/ ConsolidateDelete(c) \/ ExpireList(c) \/ ExpireDelete(c)
         \/ Delete(c) \/ EraseList(c) \/ Fail(c)
  PROVE  AccessesKept' /\ Balanced(k)'
<1>1. Does[c] \subseteq {"erase"} /\ job[c] \in {"idle", "erase"}
  BY DEF SoleKeeper, Accounted, KeeperInv, Alone
<1>2. EraseList(c) \/ Fail(c)
  BY <1>1 DEF Query, Bump, ConsolidateList, ConsolidateSearch, ConsolidateUpdate,
              ConsolidateDelete, ExpireList, ExpireDelete, Delete, Free
<1>3. /\ job'[k] = job[k] /\ todo'[k] = todo[k] /\ consumed'[k] = consumed[k] /\ copy'[k] = copy[k]
      /\ UNCHANGED <<store, uses, dropped>>
  BY <1>2 DEF EraseList, Fail, Finish, Accounted, Typed, ClientsTyped, history
<1> QED
  BY <1>3, AccountStays

LEMMA AccountCalls ==
  ASSUME NEW k \in Client, Accounted(k), Typed', Alone(k)',
         Query(k) \/ ConsolidateList(k) \/ ExpireList(k) \/ EraseList(k) \/ Fail(k)
  PROVE  AccessesKept' /\ Balanced(k)'
<1>1. UNCHANGED <<store, added, history>>
  BY DEF Query, ConsolidateList, ExpireList, EraseList, Fail
<1>2. AccessesKept' /\ (\A i \in Memory \ Present' : store'[i].access = 0)
  BY <1>1 DEF Accounted, Balanced, AccessesKept, Accesses, Total, Present, history
<1>3. CASE Query(k) \/ ConsolidateList(k) \/ ExpireList(k)
  <2>1. job[k] = "idle"
    BY <1>3 DEF Query, ConsolidateList, ExpireList, Free
  <2>2. UNCHANGED clients
        \/ \E call \in {"bump", "search", "expire"}, ids \in SUBSET Present : Start(k, call, ids)
    BY <1>3 DEF Query, ConsolidateList, ExpireList
  <2>3. CASE UNCHANGED clients
    BY <1>1, <2>3, AccountStays DEF clients, history
  <2> QED
    BY <1>1, <2>1, <2>2, <2>3, AccountStarts
<1>4. CASE EraseList(k)
  <2>1. job'[k] \in {"idle", "erase"}
    BY <1>4 DEF EraseList, Free, Accounted, Typed, ClientsTyped
  <2>2. consumed'[k] = {} /\ \A i \in Memory : copy'[k][i].facts = {}
    BY <2>1 DEF Alone, Merging
  <2>3. Present' \subseteq Memory
    BY DEF Present
  <2> QED
    BY <1>2, <2>1, <2>2, <2>3, AtRest
<1>5. CASE Fail(k)
  BY <1>2, <1>5, AtRestAfter DEF Fail, Accounted
<1> QED
  BY <1>3, <1>4, <1>5

LEMMA AccountInit == ASSUME NEW k \in Client, Init PROVE Accounted(k)
<1>1. KeeperInv(k) /\ Typed
  BY InitKeeper, TypesInit
<1>2. /\ Present = {} /\ uses = 0 /\ dropped = 0 /\ \A i \in Memory : store[i].access = 0
  BY NothingShape DEF Init, Present, Nothing, Absent
<1>3. Total(store, Memory) \in Nat /\ Total(Worth(k), Memory \ consumed[k]) \in Nat
  BY <1>1, AccountTypes, RecordsTotal
<1>4. AccessesKept /\ Balanced(k)
  BY <1>2, <1>3 DEF AccessesKept, Accesses, Balanced
<1> QED
  BY <1>1, <1>4 DEF Accounted

LEMMA AccountStep ==
  ASSUME NEW k \in Client, SoleKeeper(k) PROVE Accounted(k) /\ [Next]_vars => Accounted(k)'
<1> SUFFICES ASSUME Accounted(k), [Next]_vars PROVE Accounted(k)'
  OBVIOUS
<1>1. KeeperInv(k)' /\ Typed' /\ Alone(k)'
  BY KeeperStep, TypesStep DEF Accounted, KeeperInv
<1>2. AccessesKept' /\ Balanced(k)'
  <2>1. CASE UNCHANGED vars
    BY <2>1, AccountStays DEF vars, clients, history
  <2>2. CASE Add
    BY <1>1, <2>2, AccountAdds
  <2>3. CASE \E c \in Client : EraseDelete(c)
    BY <1>1, <2>3, AccountErased
  <2>4. ASSUME NEW c \in Client,
               \/ Query(c) \/ Bump(c) \/ ConsolidateList(c) \/ ConsolidateSearch(c)
               \/ ConsolidateUpdate(c) \/ ConsolidateDelete(c) \/ ExpireList(c) \/ ExpireDelete(c)
               \/ Delete(c) \/ EraseList(c) \/ Fail(c)
        PROVE  AccessesKept' /\ Balanced(k)'
    <3>1. CASE c # k
      BY <2>4, <3>1, AccountOthers
    <3>2. CASE c = k
      BY <1>1, <2>4, <3>2, AccountBumps, AccountSearches, AccountUpdates, AccountPurges,
         AccountDeletions, AccountCalls
    <3> QED
      BY <3>1, <3>2
  <2> QED
    BY <2>1, <2>2, <2>3, <2>4 DEF Next
<1> QED
  BY <1>1, <1>2 DEF Accounted

\* long_term.py:135-149,183-196: no access that a query counted gets lost when
\* records are merged, however a consolidation is cut short and whatever is erased
\* under it, as long as the client that queries and consolidates is the only one.
THEOREM AccessesKeptAlways ==
  ASSUME \E k \in Client : SoleKeeper(k)
  PROVE  Spec => []AccessesKept
<1>1. ASSUME NEW k \in Client, SoleKeeper(k) PROVE Spec => []AccessesKept
  <2>1. Accounted(k) => AccessesKept
    BY DEF Accounted
  <2>2. Init => Accounted(k)
    BY AccountInit
  <2>3. Accounted(k) /\ [Next]_vars => Accounted(k)'
    BY <1>1, AccountStep
  <2> QED
    BY <2>1, <2>2, <2>3, PTL DEF Spec
<1> QED
  BY <1>1
=============================================================================
