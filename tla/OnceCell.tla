------------------------------- MODULE OnceCell ------------------------------
(***************************************************************************)
(* The cell that is initialized by one of the tasks that want it and can   *)
(* be emptied again (libs/utils/src/sync/heavier_once_cell.rs).  Emptying  *)
(* replaces the semaphore of initializers by a new one.                    *)
(***************************************************************************)
EXTENDS Integers, FiniteSets

CONSTANTS
  OcTasks,       \* tasks that call get_or_init
  MaxDeinits     \* bound: calls of take_and_deinit

ASSUME OnceCellAssumption == IsFiniteSet(OcTasks) /\ MaxDeinits \in Nat

VARIABLES
  value,         \* whether the cell is initialized
  sem,           \* the cell's init_semaphore, numbered as they are created
  permits,       \* semaphore -> available permits
  closed,        \* semaphores that are closed
  task           \* task -> where it is, and the semaphore it knows

ocVars == <<value, sem, permits, closed, task>>

Sems == 0..MaxDeinits
At(pc, s) == [pc |-> pc, sem |-> s]

OcInit ==
  /\ value = FALSE /\ sem = 0 /\ closed = {}
  /\ permits = [s \in Sems |-> 1]
  /\ task = [t \in OcTasks |-> At("idle", 0)]

Goes(t, pc, s) == task' = [task EXCEPT ![t] = At(pc, s)]

(* get_or_init: a guard to the value, or the semaphore to queue on.        *)
GetOrInit(t) ==
  /\ task[t].pc = "idle"
  /\ Goes(t, IF value THEN "guard" ELSE "queued", sem)
  /\ UNCHANGED <<value, sem, permits, closed>>

(* The permit is forgotten and becomes an InitPermit.                      *)
Acquire(t) ==
  LET s == task[t].sem
  IN  /\ task[t].pc = "queued" /\ s \notin closed /\ permits[s] > 0
      /\ permits' = [permits EXCEPT ![s] = @ - 1]
      /\ Goes(t, "initializing", s)
      /\ UNCHANGED <<value, sem, closed>>

(* Mutant: takes a closed semaphore to mean that the value is there.       *)
InitializedIfClosed(s) == TRUE

(* Only if no take_and_deinit came in between.                             *)
Initialized(s) == s = sem

(* acquire fails; else it begins again.                                    *)
AcquireClosed(t) ==
  LET s == task[t].sem
  IN  /\ task[t].pc = "queued" /\ s \in closed
      /\ Goes(t, IF Initialized(s) THEN "guard" ELSE "idle", sem)
      /\ UNCHANGED <<value, sem, permits, closed>>

(* The task is cancelled while it is queued.                               *)
CancelQueued(t) ==
  /\ task[t].pc = "queued"
  /\ Goes(t, "idle", 0)
  /\ UNCHANGED <<value, sem, permits, closed>>

(* The factory fails or is cancelled: InitPermit::drop.                    *)
InitFails(t) ==
  LET s == task[t].sem
  IN  /\ task[t].pc = "initializing"
      /\ permits' = [permits EXCEPT ![s] = @ + 1]
      /\ Goes(t, "idle", 0)
      /\ UNCHANGED <<value, sem, closed>>

(* set0; the InitPermit is dropped.                                        *)
Set0(t) ==
  LET s == task[t].sem
  IN  /\ task[t].pc = "initializing"
      /\ value' = TRUE
      /\ closed' = closed \union {sem}
      /\ permits' = [permits EXCEPT ![s] = @ + 1]
      /\ Goes(t, "guard", sem)
      /\ UNCHANGED sem

(* Inner::take_and_deinit: the permit of the new semaphore is taken.       *)
(* A task with a guard empties the cell and goes on to deinitialize; then  *)
(* it gives up (InitFails) or sets a new value (Set0).  A guard is the     *)
(* mutex: nobody else comes in between.                                    *)
TakeAndDeinit(t) ==
  /\ task[t].pc = "guard" /\ sem < MaxDeinits
  /\ value' = FALSE
  /\ sem' = sem + 1
  /\ permits' = [permits EXCEPT ![sem + 1] = @ - 1]
  /\ Goes(t, "initializing", sem + 1)
  /\ UNCHANGED closed

DropGuard(t) ==
  /\ task[t].pc = "guard"
  /\ Goes(t, "idle", 0)
  /\ UNCHANGED <<value, sem, permits, closed>>

Free == \A t \in OcTasks : task[t].pc # "guard"

OcNext ==
  \E t \in OcTasks :
    \/ Free /\ GetOrInit(t)
    \/ Acquire(t)
    \/ Free /\ AcquireClosed(t)
    \/ CancelQueued(t)
    \/ InitFails(t)
    \/ Free /\ Set0(t)
    \/ TakeAndDeinit(t)
    \/ DropGuard(t)

OcSpec == OcInit /\ [][OcNext]_ocVars

-----------------------------------------------------------------------------

Holders(s) == {t \in OcTasks : task[t].pc = "initializing" /\ task[t].sem = s}

(* The assertions and unreachable!() of the code hold whichever way the    *)
(* tasks interleave, and nobody waits for ever: a permit is unique and of  *)
(* the cell's own semaphore, its holder finds the cell empty, a guard is a *)
(* guard of a value, and whoever is queued waits for a permit that         *)
(* somebody holds, for one that is there or finds the semaphore closed.    *)
OneInitializer ==
  /\ \A s \in Sems : Holders(s) # {} =>
       s = sem /\ ~value /\ Cardinality(Holders(s)) = 1 /\ permits[s] = 0
  /\ \A t \in OcTasks :
       /\ task[t].pc = "guard" => value
       /\ task[t].pc = "queued" =>
            task[t].sem \in closed \/ permits[task[t].sem] > 0 \/ Holders(task[t].sem) # {}
=============================================================================
