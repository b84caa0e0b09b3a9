------------------------------ MODULE SimpleRcu ------------------------------
(***************************************************************************)
(* Rcu of libs/utils/src/simple_rcu.rs.  Cells are numbered in the order   *)
(* they are stored; a cell lives while it is the current one or somebody   *)
(* holds a read guard on it, and its watch channel closes when it goes.    *)
(* The lists are in the order of the cells' numbers: sets say it all.      *)
(* A write guard keeps readers and writers out until the store, so that    *)
(* locking and storing are one step.                                       *)
(***************************************************************************)
EXTENDS Integers

CONSTANTS
    Readers,
    Writers,
    MaxStores           \* bound: stores

ASSUME SimpleRcuAssumption == MaxStores \in Nat

VARIABLES
    rcuCell,            \* inner.current_cell
    oldCells,           \* inner.old_cells, weak references
    guard,              \* the cell a reader holds, 0 for none
    waiting,            \* the watches a writer's wait still has to go through
    rcuStored              \* the cell a writer waits out the older ones of, 0 if it does not

rcVars == <<rcuCell, oldCells, guard, waiting, rcuStored>>

RcInit ==
    /\ rcuCell = 1
    /\ oldCells = {}
    /\ guard = [r \in Readers |-> 0]
    /\ waiting = [w \in Writers |-> {}]
    /\ rcuStored = [w \in Writers |-> 0]

Held(c) == \E r \in Readers : guard[r] = c

Read(r) ==
    /\ guard[r] = 0
    /\ guard' = [guard EXCEPT ![r] = rcuCell]
    /\ UNCHANGED <<rcuCell, oldCells, waiting, rcuStored>>

DropReadGuard(r) ==
    /\ guard[r] # 0
    /\ guard' = [guard EXCEPT ![r] = 0]
    /\ UNCHANGED <<rcuCell, oldCells, waiting, rcuStored>>

(* A store that watches the value it replaces only. *)
RetainedReplaced == IF Held(rcuCell) THEN {rcuCell} ELSE {}

(* The cells that can still be upgraded, the one just replaced among them: *)
(* `old' is alive until the end of the block, so that its watch is always  *)
(* in the list and closes at once when there is no reader.                 *)
Retained == {c \in oldCells : Held(c)} \union {rcuCell}

StoreAndUnlock(w) ==
    /\ rcuStored[w] = 0 /\ rcuCell <= MaxStores
    /\ rcuCell' = rcuCell + 1
    /\ oldCells' = Retained
    /\ waiting' = [waiting EXCEPT ![w] = Retained]
    /\ rcuStored' = [rcuStored EXCEPT ![w] = rcuCell + 1]
    /\ UNCHANGED guard

(* One turn of the loop of wait: the next watch has closed.                *)
Closed(w) ==
    /\ rcuStored[w] # 0
    /\ \E c \in waiting[w] :
         /\ \A d \in waiting[w] : c <= d
         /\ ~Held(c)
         /\ waiting' = [waiting EXCEPT ![w] = @ \ {c}]
    /\ UNCHANGED <<rcuCell, oldCells, guard, rcuStored>>

(* The caller goes on after wait() and may store again.                    *)
WaitOver(w) ==
    /\ rcuStored[w] # 0 /\ waiting[w] = {}
    /\ rcuStored' = [rcuStored EXCEPT ![w] = 0]
    /\ UNCHANGED <<rcuCell, oldCells, guard, waiting>>

RcNext ==
    \/ \E r \in Readers : Read(r) \/ DropReadGuard(r)
    \/ \E w \in Writers : StoreAndUnlock(w) \/ Closed(w) \/ WaitOver(w)

RcSpec == RcInit /\ [][RcNext]_rcVars

-----------------------------------------------------------------------------
(* "On return, no one sees the old value anymore": when wait has gone      *)
(* through its list, no reader holds any value from before the store, not  *)
(* even one that another writer, still waiting, had replaced.              *)
NoOldReaders ==
    \A w \in Writers : rcuStored[w] # 0 /\ waiting[w] = {} =>
        \A r \in Readers : guard[r] = 0 \/ guard[r] >= rcuStored[w]
=============================================================================
