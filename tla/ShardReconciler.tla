--------------------------- MODULE ShardReconciler ---------------------------
(***************************************************************************)
(* One tenant shard of the storage controller: its intent and observed     *)
(* state, the Reconciler tasks that call pageservers until they agree, the *)
(* generation numbers kept in the database, node availability, /re-attach  *)
(* of a restarting pageserver and a restart of the controller.             *)
(*                                                                         *)
(* Pageservers are external: a location has a mode and a generation, and a *)
(* pageserver does what it is told, also when the generation goes back     *)
(* (the TODO in Service::re_attach).                                       *)
(***************************************************************************)
EXTENDS Integers, FiniteSets, Sequences

CONSTANTS
  Nodes,            \* pageservers
  Policies,         \* values of n in the PlacementPolicy::Attached(n) of the shard
  MaxMoves,         \* bound: requests to migrate the shard
  MaxCallFaults,    \* bound: calls that fail though the node is reachable
  MaxRestarts,      \* bound: restarts of pageservers and of the controller
  MaxGeneration     \* bound: generations issued for an unreachable node

ASSUME ReconcilerAssumption ==
  /\ IsFiniteSet(Nodes)
  /\ Policies \subseteq Nat /\ MaxGeneration \in Nat
  /\ MaxMoves \in Nat /\ MaxCallFaults \in Nat /\ MaxRestarts \in Nat

VARIABLES
  shard,      \* TenantShard: policy, generation, intent, observed, handle, flags
  db,         \* the shard's row: generation and generation_pageserver
  nodes,      \* node -> availability in the controller, and its cancellation token
  offline,    \* nodes whose transition to offline is still to be handled
  run,        \* the Reconciler that runs, or NoTask
  next,       \* the Reconciler spawned to run after it, or NoTask
  results,    \* queue of ReconcileResults
  ps,         \* pageservers' actual locations
  boot,       \* node -> up, booting, or waiting for the answer of /re-attach
  compute,    \* the node the compute was last told to use
  budget,     \* moves, faults and restarts left
  lost        \* history: an uncertainty was dropped, see LosesUncertainty

srVars == <<shard, db, nodes, offline, run, next, results, ps, boot, compute, budget, lost>>

Loc(m, g)  == [mode |-> m, gen |-> g]
Absent     == Loc("Absent", 0)      \* no entry
Unknown    == Loc("Unknown", 0)     \* ObservedStateLocation with conf None
SecLoc     == Loc("Secondary", 0)
Known(l)   == l \notin {Absent, Unknown}
Attached(l) == l.mode \in {"Single", "Multi", "Stale"}

NoTask == [pc |-> "none"]
UpState   == [st |-> "up", gen |-> 0]
Booting   == [st |-> "booting", gen |-> 0]
Asking(g) == [st |-> "asking", gen |-> g]
Up(n)  == boot[n].st = "up"
Max2(a, b) == IF a > b THEN a ELSE b
Active == {n \in Nodes : nodes[n].st = "active"}

SrInit ==
  \E p \in Policies, a \in Nodes :
    \E S \in {T \in SUBSET (Nodes \ {a}) : Cardinality(T) = p} :
     LET where == [n \in Nodes |-> IF n = a THEN Loc("Single", 1)
                                   ELSE IF n \in S THEN SecLoc ELSE Absent]
     IN  /\ shard = [policy |-> p, gen |-> 1, att |-> a, sec |-> S, obs |-> where,
                     handle |-> "none", pending |-> FALSE, delayed |-> FALSE]
         /\ db = [gen |-> 1, node |-> a]
         /\ nodes = [n \in Nodes |-> [st |-> "active", cut |-> FALSE]]
         /\ offline = {} /\ run = NoTask /\ next = NoTask /\ results = <<>>
         /\ ps = where /\ boot = [n \in Nodes |-> UpState] /\ compute = a
         /\ budget = [moves |-> MaxMoves, faults |-> MaxCallFaults, restarts |-> MaxRestarts]
         /\ lost = FALSE

Spend(k) == budget[k] > 0 /\ budget' = [budget EXCEPT ![k] = @ - 1]

-----------------------------------------------------------------------------
(* TenantShard: whether a reconciliation is needed, and spawning it.       *)

Wanted(sh, n) == IF n = sh.att THEN Loc("Single", sh.gen)
                 ELSE IF n \in sh.sec THEN SecLoc ELSE Absent

(* dirty: intent and observed state differ on a node that is available.    *)
Dirty(sh, avail) == \E n \in avail : sh.obs[n] # Wanted(sh, n)

NeedsReconcile(sh, avail) ==
  /\ Dirty(sh, avail) \/ (\E n \in avail : sh.obs[n] = Unknown) \/ sh.pending
  /\ sh.handle # "current"

NewReconciler(sh, nds) ==
  [pc |-> "refresh", gen |-> sh.gen, att |-> sh.att, sec |-> sh.sec,
   detach |-> {n \in Nodes : sh.obs[n] # Absent} \ (sh.sec \cup {sh.att}),
   obs |-> sh.obs, orig |-> sh.obs,
   avail |-> {n \in Nodes : nds[n].st = "active" /\ ~nds[n].cut},
   cut |-> {n \in Nodes : nds[n].cut},
   origin |-> sh.att, todo |-> {},
   must |-> sh.pending, fail |-> FALSE, newest |-> TRUE]

(* maybe_reconcile_shard with units to spawn a task; res are the results   *)
(* still queued.  The new task cancels the one before it and starts when   *)
(* that has ended; a task not started yet ends without a result.           *)
Reconcile(sh, nds, res) ==
  IF NeedsReconcile(sh, {n \in Nodes : nds[n].st = "active"})
  THEN /\ shard' = [sh EXCEPT !.handle = "current"]
       /\ results' = [i \in DOMAIN res |-> [res[i] EXCEPT !.newest = FALSE]]
       /\ IF run = NoTask
          THEN run' = NewReconciler(sh, nds) /\ next' = NoTask
          ELSE run' = [run EXCEPT !.newest = FALSE] /\ next' = NewReconciler(sh, nds)
  ELSE shard' = sh /\ results' = res /\ UNCHANGED <<run, next>>

(* Without units the shard goes into the delayed queue unless that is full.*)
Delay(sh, nds) ==
  /\ NeedsReconcile(sh, {n \in Nodes : nds[n].st = "active"})
  /\ \E d \in {TRUE, sh.delayed} : shard' = [sh EXCEPT !.delayed = d]
  /\ UNCHANGED <<run, next, results>>

MaybeReconcile(sh, nds) == Reconcile(sh, nds, results) \/ Delay(sh, nds)

Touch(sh) == [sh EXCEPT !.handle = IF @ = "current" THEN "stale" ELSE @]

(* background_reconcile: every shard is looked at from time to time.       *)
ReconcileAll ==
  /\ NeedsReconcile(shard, Active)
  /\ Reconcile(shard, nodes, results)
  /\ UNCHANGED <<db, nodes, offline, ps, boot, compute, budget>>

ReconcileAllDelayed ==
  /\ Delay(shard, nodes)
  /\ UNCHANGED <<db, nodes, offline, ps, boot, compute, budget>>

(* The end of process_result of another shard, when there are units.       *)
RetryDelayed ==
  /\ shard.delayed
  /\ Reconcile([shard EXCEPT !.delayed = FALSE], nodes, results)
  /\ UNCHANGED <<db, nodes, offline, ps, boot, compute, budget>>

(* tenant_shard_migrate to a node that is available.                       *)
Migrate ==
  \E n \in Active \ {shard.att} :
    \E S \in SUBSET (shard.sec \ {n}) :
      /\ Spend("moves")
      /\ Cardinality(S) = IF shard.policy = 0 THEN Cardinality(shard.sec \ {n})
                          ELSE IF Cardinality(shard.sec \ {n}) < shard.policy
                          THEN Cardinality(shard.sec \ {n}) ELSE shard.policy - 1
      /\ MaybeReconcile(
           Touch([shard EXCEPT !.att = n,
                               !.sec = IF shard.policy = 0 THEN S
                                       ELSE S \cup {shard.att}]), nodes)
      /\ UNCHANGED <<db, nodes, offline, ps, boot, compute>>

-----------------------------------------------------------------------------
(* Reconciler: one step per call it makes.                                 *)

Cancelled    == next # NoTask
Reach(n)     == Up(n) /\ n \notin run.cut

(* The task ends: its result is queued and its successor starts.  A        *)
(* notification still pending is tried once more after success.            *)
End(r, ok) ==
  /\ results' = Append(results, [ok |-> ok, gen |-> r.gen, obs |-> r.obs, orig |-> r.orig,
                                 pending |-> r.fail \/ (r.must /\ ~ok), newest |-> r.newest])
  /\ run' = next
  /\ next' = NoTask

Goto(r, pc) == run' = [r EXCEPT !.pc = pc] /\ UNCHANGED <<next, results>>

(* A call can fail because the node is gone, because the task or the node  *)
(* was cancelled, or for no reason the controller can see.                 *)
CallFails(n) == \/ ~Reach(n) /\ UNCHANGED budget
                \/ Reach(n) /\ Cancelled /\ UNCHANGED budget
                \/ Reach(n) /\ ~Cancelled /\ Spend("faults")

(* Mutant: the location before the call is still believed in.              *)
BelieveOn(r, n) == r

(* Before a call observed.locations is set to None: what is there unless   *)
(* the call succeeds is not known.                                         *)
Doubt(r, n) == [r EXCEPT !.obs[n] = Unknown]

(* Reconciler::location_config; when it fails the pageserver may have done *)
(* it all the same.                                                        *)
LocationConfig(r, n, l, pc) ==
  \/ /\ Reach(n)
     /\ ps' = [ps EXCEPT ![n] = l]
     /\ Goto([r EXCEPT !.obs[n] = l], pc)
     /\ UNCHANGED budget
  \/ /\ CallFails(n)
     /\ End(Doubt(r, n), FALSE)
     /\ \/ UNCHANGED ps
        \/ Up(n) /\ ps' = [ps EXCEPT ![n] = l]

(* maybe_live_migrate: who is migrated from.                               *)
Origins(r) == {n \in r.avail : r.obs[n].mode = "Single" /\ n # r.att}
LiveMigrates(r) == r.obs[r.att].mode \in {"Secondary", "Absent"} /\ Origins(r) # {}

AfterRefresh(r) ==
  IF LiveMigrates(r)
  THEN \E o \in Origins(r) : Goto([r EXCEPT !.origin = o], "stale")
  ELSE Goto(r, "attach")

(* maybe_refresh_observed, for the attached node only.                     *)
Refresh ==
  /\ run.pc = "refresh"
  /\ IF run.obs[run.att] = Unknown
     THEN \/ /\ Reach(run.att) /\ UNCHANGED budget
             /\ AfterRefresh([run EXCEPT !.obs[run.att] = ps[run.att]])
          \/ CallFails(run.att) /\ End(run, FALSE)
     ELSE AfterRefresh(run) /\ UNCHANGED budget
  /\ UNCHANGED <<shard, db, nodes, offline, ps, boot, compute>>

(* Steps of live_migrate.  The origin becomes stale in the generation of   *)
(* the task, which may be newer than its own (the FIXME there).            *)
SwitchOriginToStale ==
  /\ run.pc = "stale"
  /\ LocationConfig(run, run.origin, Loc("Stale", run.gen), "lsns")
  /\ UNCHANGED <<shard, db, nodes, offline, boot, compute>>

(* get_lsns of the origin and the download to a warm destination.          *)
WarmUp ==
  /\ run.pc = "lsns"
  /\ \/ Up(run.origin) /\ Goto(run, "generation") /\ UNCHANGED budget
     \/ CallFails(run.origin) /\ End(run, FALSE)
  /\ UNCHANGED <<shard, db, nodes, offline, ps, boot, compute>>

(* Mutant: counts up from the generation in memory.                        *)
IncrementCached(r, pc) ==
  /\ db' = [gen |-> Max2(db.gen, r.gen + 1), node |-> r.att]
  /\ Goto([r EXCEPT !.gen = r.gen + 1], pc)
  /\ UNCHANGED budget

(* Persistence::increment_generation; the database may fail without effect.*)
(* At the bound it always fails for a node that cannot be reached.         *)
IncrementGeneration(r, pc) ==
  LET atBound == db.gen >= MaxGeneration /\ ~Reach(r.att)
  IN  \/ /\ ~atBound
         /\ db' = [gen |-> db.gen + 1, node |-> r.att]
         /\ Goto([r EXCEPT !.gen = db.gen + 1], pc)
         /\ UNCHANGED budget
      \/ /\ IF atBound THEN UNCHANGED budget ELSE Spend("faults")
         /\ End(r, FALSE)
         /\ UNCHANGED db

NewGeneration ==
  /\ run.pc = "generation"
  /\ IncrementGeneration(run, "multi")
  /\ UNCHANGED <<shard, nodes, offline, ps, boot, compute>>

AttachDestination ==
  /\ run.pc = "multi"
  /\ LocationConfig(run, run.att, Loc("Multi", run.gen), "catchup")
  /\ UNCHANGED <<shard, db, nodes, offline, boot, compute>>

AwaitLsn ==
  /\ run.pc = "catchup"
  /\ \/ Up(run.att) /\ Attached(ps[run.att]) /\ Goto(run, "cutover") /\ UNCHANGED budget
     \/ /\ ~(Up(run.att) /\ Attached(ps[run.att])) \/ Cancelled
        /\ End(run, FALSE) /\ UNCHANGED budget
  /\ UNCHANGED <<shard, db, nodes, offline, ps, boot, compute>>

(* compute_notify: a failed notification may have been applied.            *)
Notified == compute' = run.att /\ UNCHANGED budget
NotNotified ==
  /\ compute' \in {compute, run.att}
  /\ IF Cancelled THEN UNCHANGED budget ELSE Spend("faults")

(* compute_notify_blocking: retried while the origin still serves reads.   *)
NotifyBlocking ==
  /\ run.pc = "cutover"
  /\ \/ Notified /\ Goto(run, "demote")
     \/ /\ NotNotified
        /\ LET r == [run EXCEPT !.fail = TRUE]
           IN  \/ Cancelled /\ End(r, FALSE)
               \/ ~Cancelled /\ End(r, FALSE)                    \* Fatal
               \/ /\ ~Cancelled
                  /\ IF run.origin \in run.avail /\ Reach(run.origin) /\ Attached(ps[run.origin])
                     THEN Goto(r, "cutover")
                     ELSE Goto(r, "demote")
  /\ UNCHANGED <<shard, db, nodes, offline, ps, boot>>

DemoteOrigin ==
  /\ run.pc = "demote"
  /\ LocationConfig(run, run.origin, SecLoc, "single")
  /\ UNCHANGED <<shard, db, nodes, offline, boot, compute>>

FinishMigration ==
  /\ run.pc = "single"
  /\ LocationConfig(run, run.att, Loc("Single", run.gen), "attach")
  /\ UNCHANGED <<shard, db, nodes, offline, boot, compute>>

(* The general case: attach where intended, in a new generation unless     *)
(* mode and generation are already right.                                  *)
SkipIncrement(r) == r.obs[r.att] = Loc("Single", r.gen)

Attach ==
  /\ run.pc = "attach"
  /\ IF SkipIncrement(run)
     THEN Goto(run, "notify") /\ UNCHANGED <<db, budget>>
     ELSE IncrementGeneration(run, "put")
  /\ UNCHANGED <<shard, nodes, offline, ps, boot, compute>>

PutAttached ==
  /\ run.pc = "put"
  /\ LocationConfig(run, run.att, Loc("Single", run.gen), "notify")
  /\ UNCHANGED <<shard, db, nodes, offline, boot, compute>>

Notify ==
  /\ run.pc = "notify"
  /\ \/ Notified /\ Goto(run, "plan")
     \/ NotNotified /\ End([run EXCEPT !.fail = TRUE], FALSE)
  /\ UNCHANGED <<shard, db, nodes, offline, ps, boot>>

(* Which secondary locations to configure and which nodes to detach.       *)
Plan ==
  /\ run.pc = "plan"
  /\ LET wrong == {n \in run.sec : run.obs[n] # SecLoc}
     IN  Goto([run EXCEPT !.obs = [n \in Nodes |-> IF n \in wrong \ run.avail THEN Unknown ELSE @[n]],
                          !.todo = (wrong \cap run.avail) \cup run.detach], "changes")
  /\ UNCHANGED <<shard, db, nodes, offline, ps, boot, compute, budget>>

Change ==
  /\ run.pc = "changes" /\ run.todo # {}
  /\ \/ Cancelled /\ End(run, FALSE) /\ UNCHANGED <<ps, budget>>
     \/ \E n \in run.todo :
          LET r == [run EXCEPT !.todo = @ \ {n}]
          IN  IF n \in run.avail
              THEN LocationConfig(r, n, IF n \in run.sec THEN SecLoc ELSE Absent, "changes")
              ELSE /\ Goto([r EXCEPT !.obs[n] = Unknown], "changes")
                   /\ UNCHANGED <<ps, budget>>
  /\ UNCHANGED <<shard, db, nodes, offline, boot, compute>>

(* TenantShard::reconcile, after Reconciler::reconcile returned Ok.        *)
Complete ==
  /\ run.pc = "changes" /\ run.todo = {}
  /\ IF run.must
     THEN \/ Notified /\ End(run, TRUE)
          \/ NotNotified /\ End([run EXCEPT !.fail = TRUE], TRUE)
     ELSE End(run, TRUE) /\ UNCHANGED <<compute, budget>>
  /\ UNCHANGED <<shard, db, nodes, offline, ps, boot>>

ReconcilerStep ==
  \/ Refresh \/ SwitchOriginToStale \/ WarmUp \/ NewGeneration \/ AttachDestination
  \/ AwaitLsn \/ NotifyBlocking \/ DemoteOrigin \/ FinishMigration
  \/ Attach \/ PutAttached \/ Notify \/ Plan \/ Change \/ Complete

-----------------------------------------------------------------------------
(* Service: results, node availability, /re-attach, restart.               *)

(* Mutant: the handle is dropped only for a task that succeeded.           *)
FinishedIfOk(res) == res.newest /\ res.ok

(* apply_observed_deltas of one node's change.                             *)
ApplyDelta(old, l) == IF old.gen > 0 /\ l.gen > 0 /\ old.gen > l.gen THEN Unknown ELSE l

(* The change of one node in a result, as process_result filters it.       *)
Observed(res, n) ==
  IF res.obs[n] = res.orig[n] THEN shard.obs[n]
  ELSE IF n \notin Active THEN Unknown
  ELSE IF res.obs[n] = Absent THEN (IF res.ok THEN Absent ELSE shard.obs[n])
  ELSE ApplyDelta(shard.obs[n], res.obs[n])

(* A result leaves out a node that was unknown to its task at the start    *)
(* and is unknown again at the end, though the shard has learned something *)
(* about the node in between, from the result of an earlier task.          *)
LosesUncertainty(res) ==
  \E n \in Nodes : res.obs[n] = Unknown /\ res.orig[n] = Unknown /\ shard.obs[n] # Unknown

(* reconcile_complete: the shard has no task once its newest has reported. *)
Finished(res) == res.newest

ProcessResult ==
  /\ results # <<>>
  /\ lost' = (lost \/ LosesUncertainty(Head(results)))
  /\ LET res  == Head(results)
         rest == Tail(results)
         sh   == [shard EXCEPT !.gen = Max2(@, res.gen),
                               !.pending = res.pending,
                               !.handle = IF Finished(res) THEN "none" ELSE @,
                               !.obs = [n \in Nodes |-> Observed(res, n)]]
     IN  \/ shard' = sh /\ results' = rest /\ UNCHANGED <<run, next>>
         \/ sh.delayed /\ Reconcile([sh EXCEPT !.delayed = FALSE], nodes, rest)
  /\ UNCHANGED <<db, nodes, offline, ps, boot, compute, budget>>

(* The token of a node is shared with the copies tasks hold.               *)
Cut(r, n) == IF r = NoTask THEN r ELSE [r EXCEPT !.cut = @ \cup {n}, !.avail = @ \ {n}]

(* A heartbeat is missed: the node is configured offline ...               *)
NodeOffline(n) ==
  /\ nodes[n].st # "offline" /\ n \notin offline
  /\ IF Up(n) THEN Spend("faults") ELSE UNCHANGED budget
  /\ nodes' = [nodes EXCEPT ![n] = [st |-> "offline", cut |-> TRUE]]
  /\ run' = Cut(run, n) /\ next' = Cut(next, n)
  /\ offline' = offline \cup {n}
  /\ UNCHANGED <<shard, db, results, ps, boot, compute>>

(* ... and then the shard is moved away from it.                           *)
HandleOffline(n) ==
  /\ n \in offline
  /\ offline' = offline \ {n}
  /\ LET sh == [shard EXCEPT !.obs[n] = IF @ = Absent THEN Absent ELSE Unknown]
         secs == sh.sec \cup {n}
         live == (IF secs \cap Active # {} THEN secs \cap Active ELSE Active)
     IN  IF Active = {} \/ sh.att # n
         THEN shard' = sh /\ UNCHANGED <<run, next, results>>
         ELSE \E m \in live :
                MaybeReconcile(Touch([sh EXCEPT !.att = m, !.sec = secs \ {m}]), nodes)
  /\ UNCHANGED <<db, nodes, ps, boot, compute, budget>>

(* node_activate_reconcile and the transition to active: what the node     *)
(* reports replaces what was believed by "unknown" where they differ.      *)
NodeActivate(n) ==
  /\ Up(n) /\ nodes[n].st # "active" /\ n \notin offline
  /\ nodes' = [nodes EXCEPT ![n] = [st |-> "active", cut |-> FALSE]]
  /\ LET sh == [shard EXCEPT !.obs[n] = IF ps[n] = Absent \/ @ = ps[n] THEN @ ELSE Unknown]
     IN  IF sh.handle = "none" /\ sh.obs[n] = Unknown
         THEN MaybeReconcile(sh, nodes')
         ELSE shard' = sh /\ UNCHANGED <<run, next, results>>
  /\ UNCHANGED <<db, offline, ps, boot, compute, budget>>

PageserverRestart(n) ==
  /\ Up(n)
  /\ Spend("restarts")
  /\ boot' = [boot EXCEPT ![n] = Booting]
  /\ ps' = [ps EXCEPT ![n] = Absent]
  /\ UNCHANGED <<shard, db, nodes, offline, run, next, results, compute>>

(* /re-attach: first the database ...                                      *)
ReAttachPersist(n) ==
  /\ boot[n] = Booting
  /\ boot' = [boot EXCEPT ![n] = Asking(IF db.node = n THEN db.gen + 1 ELSE 0)]
  /\ db' = IF db.node = n THEN [db EXCEPT !.gen = @ + 1] ELSE db
  /\ UNCHANGED <<shard, nodes, offline, run, next, results, ps, compute, budget>>

(* ... then the shard in memory and the answer.  An answer that is lost is *)
(* asked for again.                                                        *)
ReAttachRespond(n) ==
  /\ boot[n].st = "asking"
  /\ shard' = IF boot[n].gen = 0 THEN shard
              ELSE [shard EXCEPT !.gen = Max2(@, boot[n].gen),
                                 !.obs[n] = IF Known(@) THEN Loc(@.mode, boot[n].gen) ELSE Unknown]
  /\ LET fire == nodes[n].st = "active"
     IN  /\ nodes' = [nodes EXCEPT ![n] = [st |-> "warming", cut |-> @.cut \/ fire]]
         /\ run' = IF fire THEN Cut(run, n) ELSE run
         /\ next' = IF fire THEN Cut(next, n) ELSE next
  /\ \/ /\ boot' = [boot EXCEPT ![n] = UpState]
        /\ ps' = [ps EXCEPT ![n] = IF boot[n].gen > 0 THEN Loc("Single", boot[n].gen)
                                   ELSE IF n \in shard.sec THEN SecLoc ELSE Absent]
        /\ UNCHANGED budget
     \/ /\ Spend("faults")
        /\ boot' = [boot EXCEPT ![n] = Booting]
        /\ UNCHANGED ps
  /\ UNCHANGED <<db, offline, results, compute>>

(* A new controller process: startup_reconcile scans the pageservers that  *)
(* answer, takes its intent from what it finds, and notifies the compute   *)
(* of a shard that is attached where intended.                             *)
ControllerRestart ==
  LET live == {n \in Nodes : Up(n)}
      found == [n \in Nodes |-> IF n \in live THEN ps[n] ELSE Absent]
      attachedTo == {n \in live : Attached(found[n])}
      secs == {n \in live : found[n] # Absent}
      best == {n \in attachedTo : \A m \in attachedTo : found[m].gen <= found[n].gen}
      cands == IF best # {} THEN best ELSE IF secs # {} THEN secs ELSE live
  IN  /\ Spend("restarts") /\ live # {}
      /\ \E a \in cands, S \in SUBSET live :
           /\ secs \ {a} \subseteq S /\ a \notin S
           /\ S = secs \ {a} \/ Cardinality(S) <= shard.policy
           /\ \/ Cardinality(S) >= shard.policy \/ S \cup {a} = live
           /\ \/ /\ compute' = IF a \in best THEN a ELSE compute
                 /\ shard' = [policy |-> shard.policy, gen |-> db.gen, att |-> a, sec |-> S, obs |-> found,
                              handle |-> "none", pending |-> FALSE, delayed |-> FALSE]
              \/ /\ a \in best /\ compute' = compute
                 /\ shard' = [policy |-> shard.policy, gen |-> db.gen, att |-> a, sec |-> S, obs |-> found,
                              handle |-> "none", pending |-> TRUE, delayed |-> FALSE]
      /\ nodes' = [n \in Nodes |-> [st |-> IF n \in live THEN "active" ELSE "offline", cut |-> FALSE]]
      /\ offline' = {} /\ run' = NoTask /\ next' = NoTask /\ results' = <<>>
      /\ boot' = [n \in Nodes |-> IF n \in live THEN UpState ELSE Booting]
      /\ UNCHANGED <<db, ps>> /\ lost' = FALSE

NodeStep(n) == HandleOffline(n) \/ NodeActivate(n) \/ ReAttachPersist(n) \/ ReAttachRespond(n)

Certain(A) == A /\ UNCHANGED lost

SrNext ==
  \/ ProcessResult \/ ControllerRestart
  \/ Certain(ReconcilerStep) \/ Certain(ReconcileAll)
  \/ Certain(ReconcileAllDelayed) \/ Certain(RetryDelayed)
  \/ Certain(Migrate)
  \/ \E n \in Nodes : Certain(NodeStep(n)) \/ Certain(NodeOffline(n)) \/ Certain(PageserverRestart(n))

SrSpec == SrInit /\ [][SrNext]_srVars

-----------------------------------------------------------------------------
(* Properties.                                                             *)

(* Two pageservers never hold the shard attached for uploads in the same   *)
(* generation, whatever migrations, re-attaches, failed calls and          *)
(* restarts overlap: increment_generation and re_attach draw every         *)
(* generation from the database (reconciler.rs, persistence.rs).           *)
ExclusiveGenerations ==
  \A m, n \in Nodes :
    m # n /\ {ps[m].mode, ps[n].mode} \subseteq {"Single", "Multi"} => ps[m].gen # ps[n].gen

(* The shard is attached where the controller intends it, in the newest    *)
(* generation, and nobody else can serve newer data ...                    *)
Placed ==
  /\ ps[shard.att] = Loc("Single", db.gen)
  /\ \A n \in Nodes \ {shard.att} : Attached(ps[n]) => ps[n].gen < db.gen

(* ... and the compute uses it.                                            *)
Serving == Placed /\ compute = shard.att

(* Nothing is under way and the controller sees no reason to reconcile.    *)
Settled ==
  /\ ~NeedsReconcile(shard, Active) /\ shard.handle = "none"
  /\ run = NoTask /\ results = <<>> /\ offline = {}
  /\ \A n \in Nodes : Up(n) /\ nodes[n].st = "active"

(* A controller that sees nothing to reconcile (get_reconcile_needed) is   *)
(* right about the pageservers.  Excluded are the behaviours in which      *)
(* ObservedIsTrue was lost as LosesUncertainty says.                       *)
SettledIsPlaced == Settled /\ ~lost => Placed

(* And the compute has been told: pending_compute_notification, says its  *)
(* doc comment, "is the mechanism by which compute notifications are       *)
(* included in the scope of state that we publish externally in an         *)
(* eventually consistent way".  It does not hold of the code:              *)
(* process_result replaces the flag by that of each task, also of one that *)
(* was spawned before the flag was set and failed before it could notify.  *)
NotificationIsRetried == Settled /\ ~lost => compute = shard.att

(* SettledIsPlaced without the exclusion, and the compute, as the doc      *)
(* comment of ObservedStateLocation promises: a known location "tells us   *)
(* what we last successfully configured on this node, and that             *)
(* configuration will still be present".  It does not hold of the code,    *)
(* see LosesUncertainty.                                                   *)
ObservedIsTrue == Settled => Serving

(* Every shard gets back to serving from one place once faults and         *)
(* migrations stop: the background reconciliation repairs what failed or   *)
(* was cancelled half way (reconcile_all, process_result,                  *)
(* node_activate_reconcile).  Of the compute this holds with one           *)
(* migration, one fault and one restart; with more see                     *)
(* NotificationIsRetried.                                                  *)
Converges == <>[]Serving \/ <>lost
=============================================================================
