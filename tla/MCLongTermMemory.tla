--------------------------- MODULE MCLongTermMemory ---------------------------
(***************************************************************************)
(* Who uses the collection in each run of LongTermMemory.                  *)
(***************************************************************************)
EXTENDS LongTermMemory

CONSTANTS task, keeper, person

\* One call after the other, but for a person who erases in between
EverythingWhileErasing ==
    [c \in {keeper, person} |-> IF c = person THEN {"erase"} ELSE Operation \ {"erase"}]

TaskAndConsolidation ==
    [c \in {task, keeper} |-> IF c = task THEN {"query"} ELSE {"consolidate"}]

=============================================================================
