---------------------------- MODULE LongTermMemory ----------------------------
(***************************************************************************)
(* The long-term memories of one user (memory/long_term.py) under tasks    *)
(* that query and add, and the maintenance calls of the API and the        *)
(* dashboard.                                                              *)
(*                                                                         *)
(* An action is one call of the Chroma collection.  A client reads records *)
(* into its own memory and later writes them back whole, or deletes what   *)
(* it read, while the other clients go on.                                 *)
(*                                                                         *)
(* Memories are numbered in the order they were added, which is the order  *)
(* the collection lists them in.  What a memory taught (its facts,         *)
(* preferences and tools) is its number, so a merged record holds several. *)
(***************************************************************************)
EXTENDS Naturals, FiniteSets

CONSTANTS
    Client,      \* processes that use the collection
    Does,        \* the operations each client performs
    MaxMemories, \* exploration bounds: memories added,
    MaxUses,     \* retrievals counted,
    AccessCap    \* and access counts that are still consolidated

Memory == 1..MaxMemories
Operation == {"query", "consolidate", "expire", "delete", "erase"}
Record == [facts : SUBSET Memory, access : Nat]

ASSUME BoundsAssumption == MaxMemories \in Nat /\ MaxUses \in Nat /\ AccessCap \in Nat
ASSUME ClientAssumption == IsFiniteSet(Client) /\ Does \in [Client -> SUBSET Operation]

VARIABLES
    store,     \* the collection; a memory that is not in it has no facts
    added,     \* number of memories added so far
    job,       \* the call each client is about to make
    copy,      \* the records it has read
    todo,      \* those of them it still has to write or delete
    consumed,  \* those it has merged into others
    erased,    \* history: memories added before the last erase; since then,
    uses,      \* accesses counted,
    dropped,   \* accesses of the records deleted on purpose,
    forgotten  \* and what was deleted or expired on purpose

clients == <<job, copy, todo, consumed>>
history == <<uses, dropped, forgotten, erased>>
vars == <<store, added, clients, history>>

Absent == [facts |-> {}, access |-> 0]
Nothing == [i \in Memory |-> Absent]
Present == {i \in Memory : store[i].facts # {}}
Listed(c) == {i \in Memory : copy[c][i].facts # {}}

\* The sum of the access counts of some records: each access is an element
Total(records, ids) == Cardinality(UNION {{i} \X (1..records[i].access) : i \in ids})
Accesses(ids) == Total(store, ids)

\* mutant: the record is written whether or not it is still there
WrittenOrCreated(i, r) == [store EXCEPT ![i] = r]

\* collection.update says nothing and does nothing about an unknown id
Written(i, r) == IF i \in Present THEN [store EXCEPT ![i] = r] ELSE store

Without(ids) == [i \in Memory |-> IF i \in ids THEN Absent ELSE store[i]]

Init ==
    /\ store = Nothing /\ added = 0
    /\ job = [c \in Client |-> "idle"]
    /\ copy = [c \in Client |-> Nothing]
    /\ todo = [c \in Client |-> {}]
    /\ consumed = [c \in Client |-> {}]
    /\ uses = 0 /\ dropped = 0 /\ forgotten = {} /\ erased = 0

Free(c, operation) == job[c] = "idle" /\ operation \in Does[c]

Start(c, call, ids) ==
    /\ job' = [job EXCEPT ![c] = call]
    /\ copy' = [copy EXCEPT ![c] = store]
    /\ todo' = [todo EXCEPT ![c] = ids]
    /\ UNCHANGED consumed

Finish(c) ==
    /\ job' = [job EXCEPT ![c] = "idle"]
    /\ copy' = [copy EXCEPT ![c] = Nothing]
    /\ todo' = [todo EXCEPT ![c] = {}]
    /\ consumed' = [consumed EXCEPT ![c] = {}]

-----------------------------------------------------------------------------
\* add, by the deliver node of a task

Add ==
    /\ added < MaxMemories
    /\ added' = added + 1
    /\ store' = [store EXCEPT ![added'] = [facts |-> {added'}, access |-> 0]]
    /\ UNCHANGED <<clients, history>>

-----------------------------------------------------------------------------
\* query, by the intake node: any of the records may be the nearest

Query(c) ==
    /\ Free(c, "query") /\ uses < MaxUses
    /\ \E near \in SUBSET Present : near # {} /\ Start(c, "bump", near)
    /\ UNCHANGED <<store, added, history>>

\* _bump_access of the next result
Bump(c) ==
    /\ job[c] = "bump"
    /\ \E i \in todo[c] :
        /\ store' = Written(i, [copy[c][i] EXCEPT !.access = @ + 1])
        /\ uses' = IF i \in Present THEN uses + 1 ELSE uses
        /\ IF todo[c] = {i}
           THEN Finish(c)
           ELSE todo' = [todo EXCEPT ![c] = @ \ {i}] /\ UNCHANGED <<job, copy, consumed>>
    /\ UNCHANGED <<added, dropped, forgotten, erased>>

-----------------------------------------------------------------------------
\* consolidate: list, then search and update record by record, then delete

ConsolidateList(c) ==
    /\ Free(c, "consolidate")
    /\ \/ Cardinality(Present) < 2 /\ UNCHANGED clients
       \/ /\ Cardinality(Present) >= 2
          /\ \A i \in Present : store[i].access <= AccessCap
          /\ Start(c, "search", Present)
    /\ UNCHANGED <<store, added, history>>

\* The records take their turn in the order of the listing
InTurn(c, i) == i \in todo[c] /\ \A j \in todo[c] : i <= j

\* mutant: access_count of the merged records is not added up
MergedUncounted(c, i, near) ==
    [facts  |-> UNION {copy[c][j].facts : j \in near \union {i}},
     access |-> copy[c][i].access]

\* A record with its neighbours in it
Merged(c, i, near) ==
    [facts  |-> UNION {copy[c][j].facts : j \in near \union {i}},
     access |-> Total(copy[c], near \union {i})]

\* mutant: a record merged into an earlier one takes its turn all the same
MergeConsumedToo(c, i, near) ==
    /\ near \subseteq Listed(c)
    /\ job' = [job EXCEPT ![c] = "update"]
    /\ copy' = [copy EXCEPT ![c][i] = Merged(c, i, near)]
    /\ consumed' = [consumed EXCEPT ![c] = @ \union near]
    /\ UNCHANGED todo

Merge(c, i, near) ==
    /\ near \subseteq Listed(c)
    /\ job' = [job EXCEPT ![c] = "update"]
    /\ copy' = [copy EXCEPT ![c][i] = Merged(c, i, near)]
    /\ consumed' = [consumed EXCEPT ![c] = @ \union near]
    /\ todo' = [todo EXCEPT ![c] = @ \ near]

\* records[neighbor_id] of a memory that was added after the listing: KeyError
MergeUnlisted(c, near) == ~ near \subseteq Listed(c) /\ Finish(c)

\* The search runs on the collection as it is now; a text that was merged before
\* is not the text that was embedded, so any similarity is possible
ConsolidateSearch(c) ==
    /\ job[c] = "search"
    /\ \E i \in todo[c] :
        /\ InTurn(c, i)
        /\ \E near \in SUBSET (Present \ ({i} \union consumed[c])) :
               Merge(c, i, near) \/ MergeUnlisted(c, near)
    /\ UNCHANGED <<store, added, history>>

AfterUpdate(c, rest) ==
    IF rest = {} /\ consumed[c] = {}
    THEN Finish(c)
    ELSE /\ todo' = [todo EXCEPT ![c] = rest]
         /\ job' = [job EXCEPT ![c] = IF rest = {} THEN "purge" ELSE "search"]
         /\ UNCHANGED <<copy, consumed>>

ConsolidateUpdate(c) ==
    /\ job[c] = "update"
    /\ \E i \in todo[c] :
        /\ InTurn(c, i)
        /\ store' = Written(i, copy[c][i])
        /\ AfterUpdate(c, todo[c] \ {i})
    /\ UNCHANGED <<added, history>>

ConsolidateDelete(c) ==
    /\ job[c] = "purge"
    /\ store' = Without(consumed[c])
    /\ Finish(c)
    /\ UNCHANGED <<added, history>>

-----------------------------------------------------------------------------
\* expire, delete, delete_user_memories

\* Importance decays with time: any of the records may be old and low enough
ExpireList(c) ==
    /\ Free(c, "expire")
    /\ \E low \in SUBSET Present :
           IF low = {} THEN UNCHANGED clients ELSE Start(c, "expire", low)
    /\ UNCHANGED <<store, added, history>>

ExpireDelete(c) ==
    /\ job[c] = "expire"
    /\ store' = Without(todo[c])
    /\ dropped' = dropped + Accesses(todo[c])
    /\ forgotten' = forgotten \union UNION {copy[c][i].facts : i \in todo[c]}
    /\ Finish(c)
    /\ UNCHANGED <<added, uses, erased>>

Delete(c) ==
    /\ Free(c, "delete")
    /\ \E i \in Present :
        /\ store' = Without({i})
        /\ dropped' = dropped + store[i].access
        /\ forgotten' = forgotten \union store[i].facts
    /\ UNCHANGED <<added, clients, uses, erased>>

\* Of the listing only its length matters
EraseList(c) ==
    /\ Free(c, "erase")
    /\ job' = IF Present = {} THEN job ELSE [job EXCEPT ![c] = "erase"]
    /\ UNCHANGED <<store, added, copy, todo, consumed, history>>

\* delete(where=user_id): whatever is there by now
EraseDelete(c) ==
    /\ job[c] = "erase"
    /\ store' = Nothing
    /\ erased' = added
    /\ uses' = 0 /\ dropped' = 0 /\ forgotten' = {}
    /\ Finish(c)
    /\ UNCHANGED added

-----------------------------------------------------------------------------

\* A call of the collection raises, or the process of the client ends
Fail(c) ==
    /\ job[c] # "idle"
    /\ Finish(c)
    /\ UNCHANGED <<store, added, history>>

Next ==
    \/ Add
    \/ \E c \in Client :
        \/ Query(c) \/ Bump(c)
        \/ ConsolidateList(c) \/ ConsolidateSearch(c)
        \/ ConsolidateUpdate(c) \/ ConsolidateDelete(c)
        \/ ExpireList(c) \/ ExpireDelete(c)
        \/ Delete(c)
        \/ EraseList(c) \/ EraseDelete(c)
        \/ Fail(c)

Spec == Init /\ [][Next]_vars

-----------------------------------------------------------------------------
\* Properties

\* Types; a client works on records it has read, and one that was merged into
\* another does not take its turn.
TypeOK ==
    /\ store \in [Memory -> Record]
    /\ added \in 0..MaxMemories
    /\ job \in [Client -> {"idle", "bump", "search", "update", "purge", "expire", "erase"}]
    /\ copy \in [Client -> [Memory -> Record]]
    /\ todo \in [Client -> SUBSET Memory]
    /\ consumed \in [Client -> SUBSET Memory]
    /\ uses \in Nat /\ dropped \in Nat
    /\ forgotten \in SUBSET Memory
    /\ erased \in 0..MaxMemories
    /\ \A c \in Client :
        /\ todo[c] \union consumed[c] \subseteq Listed(c)
        /\ todo[c] \intersect consumed[c] = {}
        /\ job[c] \in {"bump", "search", "update", "expire"} => todo[c] # {}

\* Consolidation loses nothing: what a task taught is in some record until the
\* memory is deleted or expires, although consolidate updates and deletes in
\* separate calls that may fail in between.
FactsKept ==
    \A m \in (erased + 1)..added : m \in forgotten \/ \E i \in Memory : m \in store[i].facts

\* Nor is an access lost, on which importance and expiry rest: the records left
\* have at least those that were counted, less those of deleted records.
AccessesKept == Accesses(Memory) + dropped >= uses

\* After "delete all" nothing learnt before it comes back, whatever queries and
\* consolidations were under way: their updates create no record.
EraseIsFinal == \A i \in Memory : store[i].facts \intersect (1..erased) = {}

=============================================================================
