---------------------------- MODULE SafekeeperOps ----------------------------
(***************************************************************************)
(* One timeline on the safekeepers, as the storage controller creates and  *)
(* deletes it: the timelines row, the pending operations kept in the       *)
(* database until a safekeeper has carried them out, the reconcilers that  *)
(* retry them, and what the safekeeper does with each request.             *)
(*                                                                         *)
(* A request whose client is gone is dropped with its connection; it may   *)
(* have had its effect before that.                                        *)
(***************************************************************************)
EXTENDS Integers, FiniteSets

CONSTANTS
  SoSks,          \* the timeline's sk_set
  SoMaxFaults     \* bound: lost answers, failed database writes, restarts

ASSUME SafekeeperOpsAssumption ==
  IsFiniteSet(SoSks) /\ Cardinality(SoSks) >= 3 /\ SoMaxFaults \in Nat

VARIABLES
  row,            \* the timelines row: none, live, or deleted (deleted_at is set)
  ops,            \* safekeeper_timeline_pending_ops
  tasks,          \* reconcile_one tasks
  creation,       \* the creation request: where it is, answers; then who is left,
                  \* and who did not answer in time
  deletion,       \* the deletion request: its scope, where it is, safekeepers to do
  stored,         \* safekeepers that have the timeline
  tombstones,     \* safekeepers that remember that they deleted it
  raced,          \* history: a pull was in progress when the deletion was carried out
  soFaults        \* faults so far

soVars == <<row, ops, tasks, creation, deletion, stored, tombstones, raced, soFaults>>

Generation == 1                  \* of the timelines row
DeleteGeneration == 2            \* i32::MAX

Op(s, scope, kind, gen) == [sk |-> s, scope |-> scope, kind |-> kind, gen |-> gen]
Task(op) == [op |-> op, pc |-> "call", cancelled |-> FALSE]

SoInit ==
  /\ row = "none" /\ ops = {} /\ tasks = {} /\ stored = {} /\ tombstones = {}
  /\ creation = [pc |-> "idle", answer |-> [s \in SoSks |-> "none"], left |-> {}, hung |-> {}]
  /\ deletion = [pc |-> "idle", scope |-> "timeline", todo |-> {}]
  /\ raced = {} /\ soFaults = 0

Fault == soFaults < SoMaxFaults /\ soFaults' = soFaults + 1

-----------------------------------------------------------------------------
(* The database.                                                           *)

(* insert_pending_op: overrides an operation of a lower generation.        *)
Inserted(op) ==
  LET same == {o \in ops : o.sk = op.sk /\ o.scope = op.scope}
  IN  IF \A o \in same : o.gen < op.gen THEN (ops \ same) \union {op} ELSE ops

(* Mutant: removes whatever operation is there.                            *)
RemovedAny(op) == {o \in ops : o.sk # op.sk \/ o.scope # op.scope}

(* remove_pending_op: only the operation of that generation.               *)
Removed(op) == {o \in ops : o.sk # op.sk \/ o.scope # op.scope \/ o.gen # op.gen}

(* schedule_reconcile: a new token cancels the task there is.  One that    *)
(* waits to call again ends; one in a call goes on until that returns.     *)
Cancel(S, scope) ==
  {[t EXCEPT !.cancelled = @ \/ (t.op.sk \in S /\ t.op.scope = scope)] :
     t \in {u \in tasks : ~(u.op.sk \in S /\ u.op.scope = scope /\ u.pc = "call")}}

-----------------------------------------------------------------------------
(* tenant_timeline_create_safekeepers, called again until it succeeds.     *)

BeginCreate ==
  /\ creation.pc \in {"idle", "failed"} /\ deletion.pc = "idle"
  /\ row' = IF row = "none" THEN "live" ELSE row            \* insert_timeline
  /\ creation' = [pc |-> "calls", answer |-> [s \in SoSks |-> "none"], left |-> {}, hung |-> {}]
  /\ UNCHANGED <<ops, tasks, deletion, stored, tombstones, raced, soFaults>>

Answer(s, a) == creation' = [creation EXCEPT !.answer[s] = a]

(* GlobalTimelines::create: refuses what it deleted.                       *)
CreateOnSafekeeper(s) ==
  /\ creation.pc = "calls" /\ creation.answer[s] = "none"
  /\ s \in stored \/ s \notin tombstones
  /\ stored' = stored \union {s}
  /\ Answer(s, "ok")
  /\ UNCHANGED <<row, ops, tasks, deletion, tombstones, raced, soFaults>>

(* Fatal, or the last retry; the safekeeper may have created it.           *)
CreateFails(s) ==
  /\ creation.pc = "calls" /\ creation.answer[s] = "none"
  /\ stored' \in {stored} \union {stored \union {x} : x \in {s} \ tombstones}
  /\ Answer(s, "err")
  /\ UNCHANGED <<row, ops, tasks, deletion, tombstones, raced, soFaults>>

(* Mutant: half is enough.                                                 *)
EnoughHalf(success) == 2 * success >= Cardinality(SoSks) - 1

Enough(success) == success >= Cardinality(SoSks) \div 2 + 1

(* The end of tenant_timeline_create_safekeepers_quorum, when all have     *)
(* answered or at the deadline: whoever did not answer is not counted as   *)
(* remaining.                                                              *)
CheckQuorum ==
  LET remaining == {s \in SoSks : creation.answer[s] = "err"}
      success   == Cardinality(SoSks) - Cardinality(remaining)
  IN  /\ creation.pc = "calls"
      /\ creation' = [creation EXCEPT
            !.pc = IF ~Enough(success) THEN "failed"
                   ELSE IF remaining = {} THEN "done" ELSE "persist",
            !.answer = [s \in SoSks |-> "none"],              \* the JoinSet is dropped
            !.hung = {s \in SoSks : creation.answer[s] = "none"},
            !.left = remaining]
      /\ UNCHANGED <<row, ops, tasks, deletion, stored, tombstones, raced, soFaults>>

PullOp(s) == Op(s, "timeline", "pull", Generation)

PersistPull(s) ==
  /\ creation.pc = "persist" /\ s \in creation.left /\ PullOp(s) \notin ops
  /\ ops' = Inserted(PullOp(s))
  /\ UNCHANGED <<row, tasks, creation, deletion, stored, tombstones, raced, soFaults>>

SchedulePulls ==
  /\ creation.pc = "persist" /\ \A s \in creation.left : PullOp(s) \in ops
  /\ tasks' = Cancel(creation.left, "timeline") \union {Task(PullOp(s)) : s \in creation.left}
  /\ creation' = [creation EXCEPT !.pc = "done"]
  /\ UNCHANGED <<row, ops, deletion, stored, tombstones, raced, soFaults>>

-----------------------------------------------------------------------------
(* tenant_timeline_delete_safekeepers and tenant_delete_safekeepers.       *)

MayDelete ==
  deletion.pc \in {"idle", "failed"} /\ creation.pc \in {"done", "failed"} /\ row # "none"

(* Who answered the creation does not matter any more.                     *)
ForgetAnswers == creation' = [creation EXCEPT !.left = {}, !.hung = {}]

BeginDelete ==
  /\ MayDelete
  /\ row' = "deleted"                                       \* timeline_set_deleted_at
  /\ deletion' = [pc |-> "persist", scope |-> "timeline", todo |-> SoSks]
  /\ ForgetAnswers
  /\ UNCHANGED <<ops, tasks, stored, tombstones, raced, soFaults>>

(* remove_pending_ops_for_timeline comes first.                            *)
BeginDeleteTenant ==
  /\ MayDelete
  /\ ops' = {o \in ops : o.scope # "timeline"}
  /\ deletion' = [pc |-> "mark", scope |-> "tenant", todo |-> SoSks]
  /\ ForgetAnswers
  /\ UNCHANGED <<row, tasks, stored, tombstones, raced, soFaults>>

SetDeletedAt ==
  /\ deletion.pc = "mark"
  /\ row' = IF row = "none" THEN "none" ELSE "deleted"
  /\ deletion' = [deletion EXCEPT !.pc = "persist"]
  /\ UNCHANGED <<ops, tasks, creation, stored, tombstones, raced, soFaults>>

PersistDelete(s) ==
  /\ deletion.pc = "persist" /\ s \in deletion.todo
  /\ ops' = Inserted(Op(s, deletion.scope, "delete", DeleteGeneration))
  /\ deletion' = [deletion EXCEPT !.todo = @ \ {s}]
  /\ UNCHANGED <<row, tasks, creation, stored, tombstones, raced, soFaults>>

(* The tasks get the row's generation, not that of the operation.          *)
ScheduleDeletes ==
  LET sc == deletion.scope
      started == {Task(Op(s, sc, "delete", Generation)) : s \in SoSks}
      cancelled == IF sc = "tenant"     \* cancel_reconciles_for_timeline
                   THEN Cancel(SoSks, "timeline") ELSE Cancel(SoSks, sc)
  IN  /\ deletion.pc = "persist" /\ deletion.todo = {}
      /\ tasks' = cancelled \union started
      /\ deletion' = [deletion EXCEPT !.pc = "done"]
      /\ UNCHANGED <<row, ops, creation, stored, tombstones, raced, soFaults>>

-----------------------------------------------------------------------------
(* reconcile_one and reconcile_inner, and the safekeeper's side of a call. *)

Becomes(t, pc) == tasks' = (tasks \ {t}) \union {[t EXCEPT !.pc = pc]}
Ends(t) == tasks' = tasks \ {t}

(* with_client_retries looks at the token before every call.               *)
CallsAgain(t) == IF t.cancelled THEN Ends(t) ELSE Becomes(t, "call")

(* pull_timeline::handle_request does without the answer of one of them.   *)
DonorsAnswer(s) == LET hosts == Cardinality(SoSks) - 1
                   IN  Cardinality(stored \ {s}) >= IF hosts > 2 THEN hosts - 1 ELSE 1

(* A pull can take long.                                                   *)
PullStarts(t) ==
  /\ t.pc = "call" /\ t.op.kind = "pull"
  /\ IF t.op.sk \in stored THEN Becomes(t, "answered")
     ELSE IF DonorsAnswer(t.op.sk) THEN Becomes(t, "downloaded")
     ELSE CallsAgain(t)
  /\ UNCHANGED <<row, ops, creation, deletion, stored, tombstones, raced, soFaults>>

(* load_temp_timeline, which is told not to look at tombstones.            *)
PullInstalls(t) ==
  LET s == t.op.sk
  IN  /\ t.pc = "downloaded"
      /\ stored' = stored \union {s}
      /\ tombstones' = IF s \in stored THEN tombstones ELSE tombstones \ {s}
      /\ Becomes(t, "answered")
      /\ UNCHANGED <<row, ops, creation, deletion, raced, soFaults>>

PullInProgress(s) == \E t \in tasks : t.op.sk = s /\ t.pc = "downloaded"

(* delete_or_exclude leaves a tombstone; delete_all_for_tenant does so for *)
(* the timelines it finds.                                                 *)
DeleteOnSafekeeper(t) ==
  LET s == t.op.sk
  IN  /\ t.pc = "call" /\ t.op.kind = "delete"
      /\ IF t.op.scope = "timeline" /\ s \in tombstones
         THEN UNCHANGED <<stored, tombstones>>
         ELSE /\ stored' = stored \ {s}
              /\ tombstones' = IF t.op.scope = "timeline" \/ s \in stored
                               THEN tombstones \union {s} ELSE tombstones
      /\ raced' = IF PullInProgress(s) THEN raced \union {s} ELSE raced
      /\ Becomes(t, "answered")
      /\ UNCHANGED <<row, ops, creation, deletion, soFaults>>

(* The call fails, or its answer is lost: again, also after giving up.     *)
CallLost(t) ==
  /\ t.pc \in {"downloaded", "answered"}
  /\ Fault
  /\ CallsAgain(t)
  /\ UNCHANGED <<row, ops, creation, deletion, stored, tombstones, raced>>

RemoveOp(t) ==
  /\ t.pc = "answered"
  /\ ops' = Removed(t.op)
  /\ IF t.op.kind = "delete" THEN Becomes(t, "row") ELSE Ends(t)
  /\ UNCHANGED <<row, creation, deletion, stored, tombstones, raced, soFaults>>

(* The error is only logged.                                               *)
RemoveOpFails(t) ==
  /\ t.pc = "answered"
  /\ Fault
  /\ IF t.op.kind = "delete" THEN Becomes(t, "row") ELSE Ends(t)
  /\ UNCHANGED <<row, ops, creation, deletion, stored, tombstones, raced>>

(* delete_timeline_from_db: not while operations of the timeline or of its *)
(* tenant are left.                                                        *)
DeleteRow(t) ==
  /\ t.pc = "row"
  /\ row' = IF row = "deleted" /\ ops = {} THEN "none" ELSE row
  /\ Ends(t)
  /\ UNCHANGED <<ops, creation, deletion, stored, tombstones, raced, soFaults>>

-----------------------------------------------------------------------------
(* Restarts.                                                               *)

(* Mutant: only the deletions.                                             *)
LoadedDeletions == {o \in ops : o.kind = "delete"}

(* load_schedule_requests: not a pull of a timeline that is gone.          *)
Loaded == {o \in ops : o.kind = "delete" \/ row # "none"}

(* Whoever asked finds the request failed and repeats it.                  *)
ControllerRestarts ==
  /\ Fault
  /\ tasks' = {Task(o) : o \in Loaded}
  /\ creation' = [creation EXCEPT !.pc = IF @ \in {"calls", "persist"} THEN "failed" ELSE @]
  /\ deletion' = [deletion EXCEPT !.pc = IF @ \in {"idle", "done"} THEN @ ELSE "failed",
                                     !.todo = {}]
  /\ UNCHANGED <<row, ops, stored, tombstones, raced>>

(* The map of tombstones is dropped, and every request in progress.        *)
SafekeeperRestarts(s) ==
  LET waiting == {t \in tasks : t.op.sk = s /\ t.pc \in {"downloaded", "answered"}}
      again   == {[t EXCEPT !.pc = "call"] : t \in {u \in waiting : ~u.cancelled}}
  IN  /\ Fault
      /\ s \in tombstones \/ waiting # {}
      /\ tombstones' = tombstones \ {s}
      /\ tasks' = (tasks \ waiting) \union again
      /\ UNCHANGED <<row, ops, creation, deletion, stored, raced>>

TaskStep(t) ==
  \/ PullStarts(t) \/ PullInstalls(t) \/ DeleteOnSafekeeper(t)
  \/ RemoveOp(t) \/ DeleteRow(t)

SoNext ==
  \/ BeginCreate \/ CheckQuorum \/ SchedulePulls
  \/ BeginDelete \/ BeginDeleteTenant \/ SetDeletedAt \/ ScheduleDeletes \/ ControllerRestarts
  \/ \E s \in SoSks :
       \/ CreateOnSafekeeper(s) \/ CreateFails(s) \/ PersistPull(s)
       \/ PersistDelete(s) \/ SafekeeperRestarts(s)
  \/ \E t \in tasks : TaskStep(t) \/ CallLost(t) \/ RemoveOpFails(t)

SoSpec == SoInit /\ [][SoNext]_soVars

-----------------------------------------------------------------------------

(* What tenant_timeline_create_safekeepers_quorum makes sure of: once the  *)
(* creation succeeded and as long as nobody asks for the deletion, a       *)
(* quorum of safekeepers has the timeline or had not answered in time.     *)
(* The comment of that function promises more: that a quorum has it.       *)
CreatedOnQuorum ==
  creation.pc = "done" /\ deletion.pc = "idle"
    => Cardinality(stored \union creation.hung) >= Cardinality(SoSks) \div 2 + 1

(* The work that a restart or a failure must not lose is in the database   *)
(* and a task is at it.                                                    *)
Pending(s, kind) ==
  /\ \E o \in ops : o.sk = s /\ o.kind = kind
  /\ \E t \in tasks : t.op.sk = s /\ t.op.kind = kind /\ ~t.cancelled

(* Once a deletion was accepted, the timeline is gone from a safekeeper or *)
(* will be deleted there, whatever fails or restarts and whatever pull     *)
(* still reports success.  Not so if a pull is in progress on it when the  *)
(* deletion is carried out: that installs the timeline again in spite of   *)
(* the tombstone, and nobody deletes it any more.                          *)
DeletionIsNotForgotten ==
  deletion.pc = "done" => \A s \in stored \ raced : Pending(s, "delete")

(* Until the timeline is deleted, a safekeeper that answered its creation  *)
(* with an error has it or will pull it from the others.                   *)
SeedingIsNotForgotten ==
  creation.pc = "done" /\ deletion.pc = "idle"
    => \A s \in creation.left \ stored : Pending(s, "pull")
=============================================================================
