----------------------- MODULE ShardReconcilerProofs -------------------------
(***************************************************************************)
(* Proofs about ShardReconciler, for any number of pageservers,            *)
(* migrations, failed calls, restarts and generations.                     *)
(***************************************************************************)
EXTENDS ShardReconciler, SequenceTheorems, TLAPS

-----------------------------------------------------------------------------
(* The invariant.                                                          *)

Locs == [mode : {"Absent", "Unknown", "Secondary", "Single", "Multi", "Stale"}, gen : Nat]
Places == [Nodes -> Locs]
NodeSets == SUBSET Nodes

Pcs == {"refresh", "stale", "lsns", "generation", "multi", "catchup", "cutover", "demote",
        "single", "attach", "put", "notify", "plan", "changes"}

Shards  == [policy : Nat, gen : Nat, att : Nodes, sec : NodeSets, obs : Places,
            handle : {"none", "current", "stale"}, pending : BOOLEAN, delayed : BOOLEAN]
Tasks   == [pc : Pcs, gen : Nat, att : Nodes, sec : NodeSets, detach : NodeSets,
            obs : Places, orig : Places, avail : NodeSets, cut : NodeSets,
            origin : Nodes, todo : NodeSets, must : BOOLEAN, fail : BOOLEAN, newest : BOOLEAN]
Results == [ok : BOOLEAN, gen : Nat, obs : Places, orig : Places,
            pending : BOOLEAN, newest : BOOLEAN]
NodeStates == [Nodes -> [st : {"active", "offline", "warming"}, cut : BOOLEAN]]
BootStates == [st : {"up", "booting", "asking"}, gen : Nat]
Boots   == [Nodes -> BootStates]
Rows    == [gen : Nat, node : Nodes]

SrTypeOK ==
  /\ shard \in Shards /\ db \in Rows /\ nodes \in NodeStates /\ offline \in NodeSets
  /\ run \in Tasks \cup {NoTask} /\ next \in Tasks \cup {NoTask} /\ next.pc \in {"none", "refresh"}
  /\ results \in Seq(Results) /\ ps \in Places /\ boot \in Boots

(* What entitles a pageserver to write in a generation: it is attached in  *)
(* it, or a Reconciler has drawn it and is going to attach the pageserver, *)
(* or /re-attach has and is going to answer with it.                       *)
Drawn == {"multi", "catchup", "cutover", "demote", "single", "put"}

Claim(n, g) ==
  \/ ps[n].mode \in {"Single", "Multi"} /\ ps[n].gen = g
  \/ run.pc \in Drawn /\ run.att = n /\ run.gen = g
  \/ boot[n].st = "asking" /\ boot[n].gen = g /\ g > 0

(* A generation was issued by the database, to one pageserver.             *)
IssuedOnce ==
  \A n \in Nodes, g \in Nat : Claim(n, g) =>
    g <= db.gen /\ \A m \in Nodes : Claim(m, g) => m = n

-----------------------------------------------------------------------------
(* What the helpers of the model do.                                       *)

LEMMA LocFacts == /\ Absent \in Locs /\ Unknown \in Locs /\ SecLoc \in Locs
                  /\ \A m \in {"Single", "Multi", "Stale", "Absent", "Unknown", "Secondary"}, g \in Nat :
                       Loc(m, g) \in Locs /\ Loc(m, g).mode = m /\ Loc(m, g).gen = g
                  /\ Absent.mode = "Absent" /\ Unknown.mode = "Unknown" /\ SecLoc.mode = "Secondary"
  BY DEF Absent, Unknown, SecLoc, Loc, Locs

(* Nothing claims more than before.                                        *)
LEMMA NothingClaimed ==
  ASSUME SrTypeOK, SrTypeOK', IssuedOnce, db'.gen >= db.gen,
         \A n \in Nodes, g \in Nat : Claim(n, g)' => Claim(n, g)
  PROVE  IssuedOnce'
<1>1. db.gen \in Nat /\ db'.gen \in Nat
  BY DEF SrTypeOK, Rows
<1> QED
  BY <1>1 DEF IssuedOnce

(* The database issued a generation.                                       *)
LEMMA OneClaimed ==
  ASSUME SrTypeOK, SrTypeOK', IssuedOnce, db'.gen = db.gen + 1, NEW a \in Nodes,
         \A n \in Nodes, g \in Nat : Claim(n, g)' => Claim(n, g) \/ (n = a /\ g = db.gen + 1)
  PROVE  IssuedOnce'
<1>1. db.gen \in Nat /\ db'.gen \in Nat
  BY DEF SrTypeOK, Rows
<1> QED
  BY <1>1 DEF IssuedOnce

(* The running task claims nothing that it did not claim before.           *)
KeepsClaim ==
  run'.pc \in Drawn => run.pc \in Drawn /\ run'.att = run.att /\ run'.gen = run.gen

TasksTyped ==
  /\ run' \in Tasks \cup {NoTask} /\ next' \in Tasks \cup {NoTask} /\ next'.pc \in {"none", "refresh"}
  /\ results' \in Seq(Results)

LEMMA TaskOrNone == ASSUME NEW r \in Tasks \cup {NoTask}, r.pc # "none"
                    PROVE  r \in Tasks
  BY DEF NoTask

LEMMA GotoFacts ==
  ASSUME SrTypeOK, NEW r \in Tasks, NEW pc \in Pcs, Goto(r, pc)
  PROVE  TasksTyped /\ run' \in Tasks /\ run'.pc = pc /\ run'.att = r.att /\ run'.gen = r.gen
<1>1. run' \in Tasks /\ run'.pc = pc /\ run'.att = r.att /\ run'.gen = r.gen
  BY DEF Goto, Tasks
<1> QED
  BY <1>1 DEF TasksTyped, Goto, SrTypeOK

LEMMA EndFacts ==
  ASSUME SrTypeOK, NEW r \in Tasks, NEW ok \in BOOLEAN, End(r, ok)
  PROVE  TasksTyped /\ KeepsClaim
<1>1. next' = NoTask /\ run' = next /\ NoTask.pc = "none"
  BY DEF End, NoTask
<1> DEFINE p == r.fail \/ (r.must /\ ~ok)
           res == [ok |-> ok, gen |-> r.gen, obs |-> r.obs, orig |-> r.orig,
                   pending |-> p, newest |-> r.newest]
<1>2. res \in Results
  <2>1. p \in BOOLEAN
    OBVIOUS
  <2> HIDE DEF p
  <2> QED
    BY <2>1 DEF Results, Tasks
<1>3. results' = Append(results, res)
  BY DEF End
<1> HIDE DEF res
<1>4. results' \in Seq(Results)
  BY <1>2, <1>3 DEF SrTypeOK
<1> QED
  BY <1>1, <1>4 DEF TasksTyped, KeepsClaim, SrTypeOK, Drawn

LEMMA NewReconcilerFacts ==
  ASSUME NEW sh \in Shards, NEW nds \in NodeStates
  PROVE  NewReconciler(sh, nds) \in Tasks /\ NewReconciler(sh, nds).pc = "refresh"
<1> DEFINE D == {n \in Nodes : sh.obs[n] # Absent} \ (sh.sec \cup {sh.att})
           A == {n \in Nodes : nds[n].st = "active" /\ ~nds[n].cut}
           C == {n \in Nodes : nds[n].cut}
<1>1. D \in NodeSets /\ A \in NodeSets /\ C \in NodeSets /\ {} \in NodeSets
  BY DEF NodeSets
<1>2. NewReconciler(sh, nds) =
        [pc |-> "refresh", gen |-> sh.gen, att |-> sh.att, sec |-> sh.sec, detach |-> D,
         obs |-> sh.obs, orig |-> sh.obs, avail |-> A, cut |-> C,
         origin |-> sh.att, todo |-> {}, must |-> sh.pending, fail |-> FALSE, newest |-> TRUE]
  BY DEF NewReconciler
<1> HIDE DEF D, A, C
<1> QED
  BY <1>1, <1>2 DEF Tasks, Shards, Pcs

LEMMA ReconcileFacts ==
  ASSUME SrTypeOK, NEW sh \in Shards, NEW nds \in NodeStates, NEW res \in Seq(Results),
         Reconcile(sh, nds, res)
  PROVE  TasksTyped /\ KeepsClaim /\ shard' \in Shards
<1>1. CASE shard' = sh /\ results' = res /\ UNCHANGED <<run, next>>
  BY <1>1 DEF SrTypeOK, TasksTyped, KeepsClaim
<1>2. CASE /\ shard' = [sh EXCEPT !.handle = "current"]
           /\ results' = [i \in DOMAIN res |-> [res[i] EXCEPT !.newest = FALSE]]
           /\ IF run = NoTask
              THEN run' = NewReconciler(sh, nds) /\ next' = NoTask
              ELSE run' = [run EXCEPT !.newest = FALSE] /\ next' = NewReconciler(sh, nds)
  <2>1. shard' \in Shards
    BY <1>2 DEF Shards
  <2>2. results' \in Seq(Results)
    <3>1. DOMAIN res = 1 .. Len(res) /\ Len(res) \in Nat
      OBVIOUS
    <3>2. \A i \in 1 .. Len(res) : [res[i] EXCEPT !.newest = FALSE] \in Results
      <4> SUFFICES ASSUME NEW i \in 1 .. Len(res) PROVE [res[i] EXCEPT !.newest = FALSE] \in Results
        OBVIOUS
      <4>1. res[i] \in Results
        OBVIOUS
      <4> QED
        BY <4>1 DEF Results
    <3>3. results' \in [1 .. Len(res) -> Results]
      BY <1>2, <3>1, <3>2
    <3> HIDE <1>2
    <3> QED
      BY <3>1, <3>3, SeqDef
  <2>3. CASE run = NoTask
    BY <1>2, <2>1, <2>2, <2>3, NewReconcilerFacts DEF TasksTyped, KeepsClaim, NoTask, Drawn
  <2>4. CASE run # NoTask
    <3>1. run \in Tasks
      BY <2>4 DEF SrTypeOK
    <3>2. run' \in Tasks /\ run'.pc = run.pc /\ run'.att = run.att /\ run'.gen = run.gen
      BY <1>2, <2>4, <3>1 DEF Tasks
    <3> QED
      BY <1>2, <2>1, <2>2, <2>4, <3>2, NewReconcilerFacts DEF TasksTyped, KeepsClaim
  <2> QED
    BY <2>3, <2>4
<1> QED
  BY <1>1, <1>2 DEF Reconcile

LEMMA DelayFacts ==
  ASSUME SrTypeOK, NEW sh \in Shards, NEW nds, Delay(sh, nds)
  PROVE  TasksTyped /\ KeepsClaim /\ shard' \in Shards
<1>1. UNCHANGED <<run, next, results>> /\ \E d \in BOOLEAN : shard' = [sh EXCEPT !.delayed = d]
  <2>1. sh.delayed \in BOOLEAN
    BY DEF Shards
  <2> QED
    BY <2>1 DEF Delay
<1>2. shard' \in Shards
  BY <1>1 DEF Shards
<1> QED
  BY <1>1, <1>2 DEF TasksTyped, KeepsClaim, SrTypeOK

LEMMA MaybeReconcileFacts ==
  ASSUME SrTypeOK, NEW sh \in Shards, NEW nds \in NodeStates, MaybeReconcile(sh, nds)
  PROVE  TasksTyped /\ KeepsClaim /\ shard' \in Shards
<1>1. results \in Seq(Results)
  BY DEF SrTypeOK
<1> QED
  BY <1>1, ReconcileFacts, DelayFacts DEF MaybeReconcile

LEMMA TouchFacts == ASSUME NEW sh \in Shards PROVE Touch(sh) \in Shards
  BY DEF Touch, Shards

LEMMA CutFacts ==
  ASSUME NEW r \in Tasks \cup {NoTask}, NEW n \in Nodes
  PROVE  /\ Cut(r, n) \in Tasks \cup {NoTask} /\ Cut(r, n).pc = r.pc
         /\ r \in Tasks => Cut(r, n).att = r.att /\ Cut(r, n).gen = r.gen
<1>1. CASE r = NoTask
  BY <1>1 DEF Cut
<1>2. CASE r # NoTask
  <2> DEFINE c == r.cut \cup {n}
             a == r.avail \ {n}
  <2>1. r \in Tasks
    BY <1>2
  <2>2. c \in NodeSets /\ a \in NodeSets
    BY <2>1 DEF Tasks, NodeSets
  <2>3. Cut(r, n) = [r EXCEPT !.cut = c, !.avail = a]
    BY <1>2 DEF Cut
  <2> HIDE DEF a, c
  <2> QED
    BY <2>1, <2>2, <2>3 DEF Tasks
<1> QED
  BY <1>1, <1>2

(* One pageserver has a new location.                                      *)
LEMMA ObsFacts ==
  ASSUME NEW r \in Tasks, NEW n \in Nodes, NEW l \in Locs
  PROVE  /\ [r EXCEPT !.obs[n] = l] \in Tasks /\ [r EXCEPT !.obs[n] = l].pc = r.pc
         /\ [r EXCEPT !.obs[n] = l].att = r.att /\ [r EXCEPT !.obs[n] = l].gen = r.gen
<1> DEFINE o == [r.obs EXCEPT ![n] = l]
<1>1. o \in Places
  BY DEF Tasks, Places
<1> HIDE DEF o
<1>2. [r EXCEPT !.obs = o] \in Tasks /\ [r EXCEPT !.obs = o].pc = r.pc
      /\ [r EXCEPT !.obs = o].att = r.att /\ [r EXCEPT !.obs = o].gen = r.gen
  BY <1>1 DEF Tasks
<1> QED
  BY <1>2 DEF o

(* A call that configures a location: the task goes on in pc or ends, and  *)
(* the pageserver has the location or not.                                 *)
LEMMA LocationConfigFacts ==
  ASSUME SrTypeOK, NEW r \in Tasks, NEW n \in Nodes, NEW l \in Locs, NEW pc \in Pcs,
         LocationConfig(r, n, l, pc)
  PROVE  /\ TasksTyped /\ ps' \in Places
         /\ KeepsClaim \/ (run'.pc = pc /\ run'.att = r.att /\ run'.gen = r.gen)
         /\ ps' = ps \/ ps' = [ps EXCEPT ![n] = l]
<1>1. [ps EXCEPT ![n] = l] \in Places /\ ps \in Places
  BY DEF SrTypeOK, Places
<1>2. CASE ps' = [ps EXCEPT ![n] = l] /\ Goto([r EXCEPT !.obs[n] = l], pc)
  <2> DEFINE u == [r EXCEPT !.obs[n] = l]
  <2>1. u \in Tasks /\ u.att = r.att /\ u.gen = r.gen
    BY ObsFacts
  <2>2. Goto(u, pc)
    BY <1>2
  <2> HIDE DEF u
  <2> QED
    BY <1>1, <1>2, <2>1, <2>2, GotoFacts
<1>3. CASE End(Doubt(r, n), FALSE) /\ (ps' = ps \/ ps' = [ps EXCEPT ![n] = l])
  <2>1. Doubt(r, n) \in Tasks
    BY ObsFacts, LocFacts DEF Doubt
  <2> QED
    BY <1>1, <1>3, <2>1, EndFacts
<1> QED
  BY <1>2, <1>3 DEF LocationConfig

-----------------------------------------------------------------------------
(* What the steps have in common.                                          *)

(* A step that draws no generation and attaches nothing but what it was    *)
(* drawn for.                                                              *)
LEMMA ClaimsKept ==
  ASSUME SrTypeOK, SrTypeOK', IssuedOnce, KeepsClaim, db' = db, boot' = boot,
         \A n \in Nodes : ps'[n].mode \in {"Single", "Multi"} =>
           ps'[n] = ps[n] \/ (run.pc \in Drawn /\ run.att = n /\ run.gen = ps'[n].gen)
  PROVE  IssuedOnce'
<1>1. ASSUME NEW n \in Nodes, NEW g \in Nat, Claim(n, g)' PROVE Claim(n, g)
  <2>1. CASE ps'[n].mode \in {"Single", "Multi"} /\ ps'[n].gen = g
    BY <2>1 DEF Claim
  <2>2. CASE run'.pc \in Drawn /\ run'.att = n /\ run'.gen = g
    BY <2>2 DEF Claim, KeepsClaim
  <2>3. CASE boot'[n].st = "asking" /\ boot'[n].gen = g /\ g > 0
    BY <2>3 DEF Claim
  <2> QED
    BY <1>1, <2>1, <2>2, <2>3 DEF Claim
<1>2. db'.gen >= db.gen
  BY DEF SrTypeOK, Rows
<1> QED
  BY <1>1, <1>2, NothingClaimed

(* A step of the service: it may start a task.                             *)
LEMMA ServiceStep ==
  ASSUME SrTypeOK, IssuedOnce, TasksTyped, KeepsClaim, shard' \in Shards,
         nodes' \in NodeStates, offline' \in NodeSets, UNCHANGED <<db, ps, boot>>
  PROVE  SrTypeOK' /\ IssuedOnce'
<1>1. SrTypeOK'
  BY DEF SrTypeOK, TasksTyped
<1> QED
  BY <1>1, ClaimsKept

(* A step of the task that ends it or takes it to pc.                      *)
LEMMA TaskStep ==
  ASSUME SrTypeOK, IssuedOnce, TasksTyped, KeepsClaim, UNCHANGED <<shard, db, nodes, offline, ps, boot>>
  PROVE  SrTypeOK' /\ IssuedOnce'
<1>1. SrTypeOK'
  BY DEF SrTypeOK, TasksTyped
<1> QED
  BY <1>1, ClaimsKept

LEMMA ConfigStep ==
  ASSUME SrTypeOK, IssuedOnce, UNCHANGED <<shard, db, nodes, offline, boot>>,
         NEW r \in Tasks, r.att = run.att, r.gen = run.gen,
         NEW n \in Nodes, NEW l \in Locs, NEW pc \in Pcs, LocationConfig(r, n, l, pc),
         pc \in Drawn => run.pc \in Drawn,
         l.mode \in {"Single", "Multi"} => run.pc \in Drawn /\ run.att = n /\ l.gen = run.gen
  PROVE  SrTypeOK' /\ IssuedOnce'
<1>1. /\ TasksTyped /\ ps' \in Places /\ ps \in Places
      /\ KeepsClaim \/ (run'.pc = pc /\ run'.att = r.att /\ run'.gen = r.gen)
      /\ ps' = ps \/ ps' = [ps EXCEPT ![n] = l]
  BY LocationConfigFacts DEF SrTypeOK
<1>2. KeepsClaim
  BY <1>1 DEF KeepsClaim
<1>3. SrTypeOK'
  BY <1>1 DEF SrTypeOK, TasksTyped
<1>4. \A m \in Nodes : ps'[m].mode \in {"Single", "Multi"} =>
        ps'[m] = ps[m] \/ (run.pc \in Drawn /\ run.att = m /\ run.gen = ps'[m].gen)
  BY <1>1 DEF Places
<1> QED
  BY <1>2, <1>3, <1>4, ClaimsKept

LEMMA IncrementStep ==
  ASSUME SrTypeOK, IssuedOnce, run \in Tasks, NEW pc \in Drawn, IncrementGeneration(run, pc),
         UNCHANGED <<shard, nodes, offline, ps, boot>>
  PROVE  SrTypeOK' /\ IssuedOnce'
<1>1. CASE End(run, FALSE) /\ UNCHANGED db
  BY <1>1, EndFacts, TaskStep
<1>2. CASE db' = [gen |-> db.gen + 1, node |-> run.att] /\ Goto([run EXCEPT !.gen = db.gen + 1], pc)
  <2> DEFINE u == [run EXCEPT !.gen = db.gen + 1]
  <2>1. db.gen \in Nat /\ run.att \in Nodes /\ pc \in Pcs
    BY DEF SrTypeOK, Rows, Tasks, Drawn, Pcs
  <2>2. u \in Tasks /\ u.att = run.att /\ u.gen = db.gen + 1
    BY <2>1 DEF Tasks
  <2>3. Goto(u, pc)
    BY <1>2
  <2> HIDE DEF u
  <2>4. TasksTyped /\ run'.att = run.att /\ run'.gen = db.gen + 1
    BY <2>1, <2>2, <2>3, GotoFacts
  <2>5. db' \in Rows /\ db'.gen = db.gen + 1
    BY <1>2, <2>1 DEF Rows
  <2>6. SrTypeOK'
    BY <2>4, <2>5 DEF SrTypeOK, TasksTyped
  <2>7. \A n \in Nodes, g \in Nat : Claim(n, g)' => Claim(n, g) \/ (n = run.att /\ g = db.gen + 1)
    BY <2>4 DEF Claim
  <2> QED
    BY <2>1, <2>5, <2>6, <2>7, OneClaimed
<1> QED
  BY <1>1, <1>2 DEF IncrementGeneration

-----------------------------------------------------------------------------
(* The steps of a Reconciler.                                              *)

LEMMA AfterRefreshFacts ==
  ASSUME SrTypeOK, NEW r \in Tasks, AfterRefresh(r)
  PROVE  TasksTyped /\ KeepsClaim
<1>1. CASE Goto(r, "attach")
  BY <1>1, GotoFacts DEF Pcs, KeepsClaim, Drawn
<1>2. CASE \E o \in Origins(r) : Goto([r EXCEPT !.origin = o], "stale")
  <2>1. PICK o \in Origins(r) : Goto([r EXCEPT !.origin = o], "stale")
    BY <1>2
  <2>2. o \in Nodes
    BY DEF Origins, Tasks, NodeSets
  <2>3. [r EXCEPT !.origin = o] \in Tasks
    BY <2>2 DEF Tasks
  <2> QED
    BY <2>1, <2>3, GotoFacts DEF Pcs, KeepsClaim, Drawn
<1> QED
  BY <1>1, <1>2 DEF AfterRefresh

LEMMA ReconcilerSteps ==
  ASSUME SrTypeOK, IssuedOnce, ReconcilerStep
  PROVE  SrTypeOK' /\ IssuedOnce'
<1>0. run \in Tasks
  <2>1. run.pc # "none"
    BY DEF ReconcilerStep, Refresh, SwitchOriginToStale, WarmUp, NewGeneration, AttachDestination,
           AwaitLsn, NotifyBlocking, DemoteOrigin, FinishMigration, Attach, PutAttached, Notify,
           Plan, Change, Complete
  <2> QED
    BY <2>1, TaskOrNone DEF SrTypeOK
<1>a. run.att \in Nodes /\ run.origin \in Nodes /\ run.gen \in Nat
  BY <1>0 DEF Tasks
<1>f. [run EXCEPT !.fail = TRUE] \in Tasks /\ [run EXCEPT !.fail = TRUE].att = run.att
      /\ [run EXCEPT !.fail = TRUE].gen = run.gen
  BY <1>0 DEF Tasks
<1>1. CASE Refresh
  <2>1. UNCHANGED <<shard, db, nodes, offline, ps, boot>>
    BY <1>1 DEF Refresh
  <2>2. CASE AfterRefresh(run) \/ End(run, FALSE)
    BY <1>0, <2>1, <2>2, AfterRefreshFacts, EndFacts, TaskStep
  <2>3. CASE AfterRefresh([run EXCEPT !.obs[run.att] = ps[run.att]])
    <3>1. ps[run.att] \in Locs
      BY <1>a DEF SrTypeOK, Places
    <3>2. [run EXCEPT !.obs[run.att] = ps[run.att]] \in Tasks
      BY <1>0, <1>a, <3>1, ObsFacts
    <3> QED
      BY <2>1, <2>3, <3>2, AfterRefreshFacts, TaskStep
  <2> QED
    BY <1>1, <2>2, <2>3 DEF Refresh
<1>2. CASE SwitchOriginToStale
  <2>1. Loc("Stale", run.gen) \in Locs /\ Loc("Stale", run.gen).mode = "Stale"
    BY <1>a, LocFacts
  <2> QED
    BY <1>0, <1>2, <1>a, <2>1, ConfigStep DEF SwitchOriginToStale, Pcs, Drawn
<1>3. CASE WarmUp
  <2>1. CASE Goto(run, "generation")
    BY <1>0, <1>3, <2>1, GotoFacts, TaskStep DEF WarmUp, Pcs, Drawn, KeepsClaim
  <2>2. CASE End(run, FALSE)
    BY <1>0, <1>3, <2>2, EndFacts, TaskStep DEF WarmUp
  <2> QED
    BY <1>3, <2>1, <2>2 DEF WarmUp
<1>4. CASE NewGeneration
  BY <1>0, <1>4, IncrementStep DEF NewGeneration, Drawn
<1>5. CASE AttachDestination
  <2>1. Loc("Multi", run.gen) \in Locs /\ Loc("Multi", run.gen).gen = run.gen
    BY <1>a, LocFacts
  <2> QED
    BY <1>0, <1>5, <1>a, <2>1, ConfigStep DEF AttachDestination, Pcs, Drawn
<1>6. CASE AwaitLsn
  <2>1. CASE Goto(run, "cutover")
    BY <1>0, <1>6, <2>1, GotoFacts, TaskStep DEF AwaitLsn, Pcs, Drawn, KeepsClaim
  <2>2. CASE End(run, FALSE)
    BY <1>0, <1>6, <2>2, EndFacts, TaskStep DEF AwaitLsn
  <2> QED
    BY <1>6, <2>1, <2>2 DEF AwaitLsn
<1>7. CASE NotifyBlocking
  <2> DEFINE r == [run EXCEPT !.fail = TRUE]
  <2>1. UNCHANGED <<shard, db, nodes, offline, ps, boot>> /\ run.pc = "cutover"
    BY <1>7 DEF NotifyBlocking
  <2>2. r \in Tasks /\ r.att = run.att /\ r.gen = run.gen
    BY <1>f
  <2>3. Goto(run, "demote") \/ End(r, FALSE) \/ Goto(r, "cutover") \/ Goto(r, "demote")
    BY <1>7 DEF NotifyBlocking
  <2> HIDE DEF r
  <2>4. CASE End(r, FALSE)
    BY <2>1, <2>2, <2>4, EndFacts, TaskStep
  <2>5. CASE Goto(run, "demote") \/ Goto(r, "cutover") \/ Goto(r, "demote")
    <3>1. TasksTyped /\ run'.att = run.att /\ run'.gen = run.gen
      BY <1>0, <2>2, <2>5, GotoFacts DEF Pcs
    <3>2. KeepsClaim
      BY <2>1, <3>1 DEF KeepsClaim, Drawn
    <3> QED
      BY <2>1, <3>1, <3>2, TaskStep
  <2> QED
    BY <2>3, <2>4, <2>5
<1>8. CASE DemoteOrigin
  BY <1>0, <1>8, <1>a, LocFacts, ConfigStep DEF DemoteOrigin, Pcs, Drawn
<1>9. CASE FinishMigration
  <2>1. Loc("Single", run.gen) \in Locs /\ Loc("Single", run.gen).gen = run.gen
    BY <1>a, LocFacts
  <2> QED
    BY <1>0, <1>9, <1>a, <2>1, ConfigStep DEF FinishMigration, Pcs, Drawn
<1>10. CASE Attach
  <2>1. CASE Goto(run, "notify") /\ UNCHANGED <<db, budget>>
    BY <1>0, <1>10, <2>1, GotoFacts, TaskStep DEF Attach, Pcs, Drawn, KeepsClaim
  <2>2. CASE IncrementGeneration(run, "put")
    BY <1>0, <1>10, <2>2, IncrementStep DEF Attach, Drawn
  <2> QED
    BY <1>10, <2>1, <2>2 DEF Attach
<1>11. CASE PutAttached
  <2>1. Loc("Single", run.gen) \in Locs /\ Loc("Single", run.gen).gen = run.gen
    BY <1>a, LocFacts
  <2> QED
    BY <1>0, <1>11, <1>a, <2>1, ConfigStep DEF PutAttached, Pcs, Drawn
<1>12. CASE Notify
  <2>1. CASE Goto(run, "plan")
    BY <1>0, <1>12, <2>1, GotoFacts, TaskStep DEF Notify, Pcs, Drawn, KeepsClaim
  <2>2. CASE End([run EXCEPT !.fail = TRUE], FALSE)
    BY <1>f, <1>12, <2>2, EndFacts, TaskStep DEF Notify
  <2> QED
    BY <1>12, <2>1, <2>2 DEF Notify
<1>13. CASE Plan
  <2> DEFINE wrong == {n \in run.sec : run.obs[n] # SecLoc}
             o == [n \in Nodes |-> IF n \in wrong \ run.avail THEN Unknown ELSE run.obs[n]]
             t == (wrong \cap run.avail) \cup run.detach
             u == [run EXCEPT !.obs = o, !.todo = t]
  <2>1. o \in Places
    BY <1>0, LocFacts DEF Tasks, Places
  <2>2. t \in NodeSets
    BY <1>0 DEF Tasks, NodeSets
  <2>3. Goto(u, "changes")
    BY <1>13 DEF Plan
  <2>4. u \in Tasks
    <3> HIDE DEF o, t
    <3> QED
      BY <1>0, <2>1, <2>2 DEF Tasks
  <2> HIDE DEF u
  <2> QED
    BY <1>13, <2>3, <2>4, GotoFacts, TaskStep DEF Plan, Pcs, Drawn, KeepsClaim
<1>14. CASE Change
  <2>1. UNCHANGED <<shard, db, nodes, offline, boot>> /\ run.pc = "changes"
    BY <1>14 DEF Change
  <2>2. CASE End(run, FALSE) /\ UNCHANGED <<ps, budget>>
    BY <1>0, <2>1, <2>2, EndFacts, TaskStep
  <2>3. ASSUME NEW n \in run.todo
        PROVE  LET r == [run EXCEPT !.todo = @ \ {n}]
               IN  r \in Tasks /\ r.att = run.att /\ r.gen = run.gen /\ n \in Nodes
    <3> DEFINE d == run.todo \ {n}
    <3>1. d \in NodeSets /\ n \in Nodes
      BY <1>0 DEF Tasks, NodeSets
    <3> HIDE DEF d
    <3>2. [run EXCEPT !.todo = d] \in Tasks /\ [run EXCEPT !.todo = d].att = run.att
          /\ [run EXCEPT !.todo = d].gen = run.gen
      BY <1>0, <3>1 DEF Tasks
    <3> QED
      BY <3>1, <3>2 DEF d
  <2>4. ASSUME NEW n \in run.todo,
               LET r == [run EXCEPT !.todo = @ \ {n}]
               IN  LocationConfig(r, n, IF n \in run.sec THEN SecLoc ELSE Absent, "changes")
        PROVE  SrTypeOK' /\ IssuedOnce'
    <3> DEFINE r == [run EXCEPT !.todo = @ \ {n}]
               l == IF n \in run.sec THEN SecLoc ELSE Absent
    <3>1. r \in Tasks /\ r.att = run.att /\ r.gen = run.gen /\ n \in Nodes
      BY <2>3
    <3>2. l \in Locs /\ l.mode \notin {"Single", "Multi"}
      BY LocFacts
    <3>3. LocationConfig(r, n, l, "changes")
      BY <2>4
    <3> HIDE DEF r, l
    <3> QED
      BY <2>1, <3>1, <3>2, <3>3, ConfigStep DEF Pcs, Drawn
  <2>5. ASSUME NEW n \in run.todo,
               LET r == [run EXCEPT !.todo = @ \ {n}]
               IN  Goto([r EXCEPT !.obs[n] = Unknown], "changes"),
               UNCHANGED ps
        PROVE  SrTypeOK' /\ IssuedOnce'
    <3> DEFINE r == [run EXCEPT !.todo = @ \ {n}]
               u == [r EXCEPT !.obs[n] = Unknown]
    <3>1. r \in Tasks /\ n \in Nodes
      BY <2>3
    <3>2. Goto(u, "changes")
      BY <2>5
    <3>3. u \in Tasks
      <4> HIDE DEF r
      <4> QED
        BY <3>1, LocFacts, ObsFacts
    <3> HIDE DEF r, u
    <3> QED
      BY <2>1, <2>5, <3>2, <3>3, GotoFacts, TaskStep DEF Pcs, Drawn, KeepsClaim
  <2> QED
    BY <1>14, <2>2, <2>4, <2>5 DEF Change
<1>15. CASE Complete
  <2>1. UNCHANGED <<shard, db, nodes, offline, ps, boot>>
        /\ (End(run, TRUE) \/ End([run EXCEPT !.fail = TRUE], TRUE))
    BY <1>15 DEF Complete
  <2> QED
    BY <1>0, <1>f, <2>1, EndFacts, TaskStep
<1> QED
  BY <1>1, <1>2, <1>3, <1>4, <1>5, <1>6, <1>7, <1>8, <1>9, <1>10, <1>11, <1>12, <1>13, <1>14, <1>15
     DEF ReconcilerStep

-----------------------------------------------------------------------------
(* The steps of the service and of pageservers.                            *)

(* A change of one field of the shard.                                     *)
LEMMA ShardObsFacts ==
  ASSUME NEW sh \in Shards, NEW o \in Places
  PROVE  [sh EXCEPT !.obs = o] \in Shards
  BY DEF Shards

LEMMA ShardIntentFacts ==
  ASSUME NEW sh \in Shards, NEW a \in Nodes, NEW S \in NodeSets
  PROVE  [sh EXCEPT !.att = a, !.sec = S] \in Shards
  BY DEF Shards

LEMMA ProcessResultStep ==
  ASSUME SrTypeOK, IssuedOnce, ProcessResult
  PROVE  SrTypeOK' /\ IssuedOnce'
<1> DEFINE res == Head(results)
           rest == Tail(results)
           g == Max2(shard.gen, res.gen)
           h == IF Finished(res) THEN "none" ELSE shard.handle
           o == [n \in Nodes |-> Observed(res, n)]
           sh == [shard EXCEPT !.gen = g, !.pending = res.pending, !.handle = h, !.obs = o]
<1>1. results \in Seq(Results) /\ results # <<>> /\ shard \in Shards
  BY DEF ProcessResult, SrTypeOK
<1>2. res \in Results /\ rest \in Seq(Results)
  BY <1>1
<1>3. \/ shard' = sh /\ results' = rest /\ UNCHANGED <<run, next>>
      \/ Reconcile([sh EXCEPT !.delayed = FALSE], nodes, rest)
  BY DEF ProcessResult
<1>4. UNCHANGED <<db, nodes, offline, ps, boot>>
  BY DEF ProcessResult
<1> HIDE DEF res, rest
<1>5. g \in Nat /\ h \in {"none", "current", "stale"} /\ res.pending \in BOOLEAN
  BY <1>1, <1>2 DEF Shards, Results, Max2
<1>6. o \in Places
  <2> SUFFICES ASSUME NEW n \in Nodes PROVE Observed(res, n) \in Locs
    BY DEF Places
  <2>1. res.obs[n] \in Locs /\ shard.obs[n] \in Locs
    BY <1>1, <1>2 DEF Results, Shards, Places
  <2> QED
    BY <2>1, LocFacts DEF Observed, ApplyDelta
<1> HIDE DEF g, h, o
<1>7. sh \in Shards
  BY <1>1, <1>5, <1>6 DEF Shards
<1> HIDE DEF sh
<1>8. [sh EXCEPT !.delayed = FALSE] \in Shards
  BY <1>7 DEF Shards
<1>9. nodes \in NodeStates /\ offline \in NodeSets
  BY DEF SrTypeOK
<1>10. TasksTyped /\ KeepsClaim /\ shard' \in Shards
  <2>1. CASE shard' = sh /\ results' = rest /\ UNCHANGED <<run, next>>
    BY <1>2, <1>7, <2>1 DEF TasksTyped, KeepsClaim, SrTypeOK
  <2>2. CASE Reconcile([sh EXCEPT !.delayed = FALSE], nodes, rest)
    <3> DEFINE sd == [sh EXCEPT !.delayed = FALSE]
    <3>1. sd \in Shards /\ Reconcile(sd, nodes, rest)
      BY <1>8, <2>2
    <3> HIDE DEF sd
    <3> QED
      BY <1>2, <1>9, <3>1, ReconcileFacts
  <2> QED
    BY <1>3, <2>1, <2>2
<1> QED
  BY <1>4, <1>9, <1>10, ServiceStep

LEMMA ServiceSteps ==
  ASSUME SrTypeOK, IssuedOnce, ReconcileAll \/ ReconcileAllDelayed \/ RetryDelayed \/ Migrate
  PROVE  SrTypeOK' /\ IssuedOnce'
<1>0. shard \in Shards /\ nodes \in NodeStates /\ offline \in NodeSets /\ results \in Seq(Results)
  BY DEF SrTypeOK
<1>1. CASE ReconcileAll
  BY <1>0, <1>1, ReconcileFacts, ServiceStep DEF ReconcileAll
<1>2. CASE ReconcileAllDelayed
  BY <1>0, <1>2, DelayFacts, ServiceStep DEF ReconcileAllDelayed
<1>3. CASE RetryDelayed
  <2> DEFINE sd == [shard EXCEPT !.delayed = FALSE]
  <2>1. sd \in Shards
    BY <1>0 DEF Shards
  <2>2. Reconcile(sd, nodes, results) /\ UNCHANGED <<db, nodes, offline, ps, boot>>
    BY <1>3 DEF RetryDelayed
  <2> HIDE DEF sd
  <2> QED
    BY <1>0, <2>1, <2>2, ReconcileFacts, ServiceStep
<1>4. CASE Migrate
  <2>1. PICK n \in Active \ {shard.att} : \E S \in SUBSET (shard.sec \ {n}) :
          /\ MaybeReconcile(
               Touch([shard EXCEPT !.att = n,
                                   !.sec = IF shard.policy = 0 THEN S
                                           ELSE S \cup {shard.att}]), nodes)
          /\ UNCHANGED <<db, nodes, offline, ps, boot>>
    BY <1>4 DEF Migrate
  <2>a. PICK S \in SUBSET (shard.sec \ {n}) :
          /\ MaybeReconcile(
               Touch([shard EXCEPT !.att = n,
                                   !.sec = IF shard.policy = 0 THEN S
                                           ELSE S \cup {shard.att}]), nodes)
          /\ UNCHANGED <<db, nodes, offline, ps, boot>>
    BY <2>1
  <2> DEFINE Q == IF shard.policy = 0 THEN S ELSE S \cup {shard.att}
             sm == [shard EXCEPT !.att = n, !.sec = Q]
  <2>2. n \in Nodes /\ Q \in NodeSets
    BY <1>0 DEF Shards, NodeSets, Active
  <2>3. MaybeReconcile(Touch(sm), nodes)
    BY <2>a
  <2>4. sm \in Shards
    <3> HIDE DEF Q
    <3> QED
      BY <1>0, <2>2, ShardIntentFacts
  <2> HIDE DEF sm
  <2> QED
    BY <1>0, <2>a, <2>3, <2>4, TouchFacts, MaybeReconcileFacts, ServiceStep
<1> QED
  BY <1>1, <1>2, <1>3, <1>4

LEMMA NodeOfflineStep ==
  ASSUME SrTypeOK, IssuedOnce, NEW n \in Nodes, NodeOffline(n)
  PROVE  SrTypeOK' /\ IssuedOnce'
<1>1. run' = Cut(run, n) /\ next' = Cut(next, n) /\ results' = results /\ UNCHANGED <<shard, db, ps, boot>>
      /\ nodes' = [nodes EXCEPT ![n] = [st |-> "offline", cut |-> TRUE]] /\ offline' = offline \cup {n}
  BY DEF NodeOffline
<1>2. nodes' \in NodeStates /\ offline' \in NodeSets
  BY <1>1 DEF SrTypeOK, NodeStates, NodeSets
<1>3. TasksTyped
  BY <1>1, CutFacts DEF TasksTyped, SrTypeOK
<1>4. KeepsClaim
  <2>1. run.pc \in Drawn => run \in Tasks
    BY TaskOrNone DEF SrTypeOK, Drawn
  <2> QED
    BY <1>1, <2>1, CutFacts DEF KeepsClaim, SrTypeOK
<1>5. shard' \in Shards
  BY <1>1 DEF SrTypeOK
<1> QED
  BY <1>1, <1>2, <1>3, <1>4, <1>5, ServiceStep

LEMMA HandleOfflineStep ==
  ASSUME SrTypeOK, IssuedOnce, NEW n \in Nodes, HandleOffline(n)
  PROVE  SrTypeOK' /\ IssuedOnce'
<1> DEFINE o == [shard.obs EXCEPT ![n] = IF @ = Absent THEN Absent ELSE Unknown]
           sh == [shard EXCEPT !.obs = o]
           secs == sh.sec \cup {n}
           live == IF secs \cap Active # {} THEN secs \cap Active ELSE Active
<1>1. /\ UNCHANGED <<db, nodes, ps, boot>> /\ offline' = offline \ {n}
      /\ \/ shard' = sh /\ UNCHANGED <<run, next, results>>
         \/ \E m \in live : MaybeReconcile(Touch([sh EXCEPT !.att = m, !.sec = secs \ {m}]), nodes)
  BY DEF HandleOffline
<1>2. o \in Places
  BY LocFacts DEF SrTypeOK, Shards, Places
<1>3. sh \in Shards
  <2> HIDE DEF o
  <2> QED
    BY <1>2, ShardObsFacts DEF SrTypeOK
<1> HIDE DEF sh
<1>4. live \subseteq Nodes /\ \A m : secs \ {m} \in NodeSets
  BY <1>3 DEF Active, Shards, NodeSets
<1> HIDE DEF secs, live
<1>5. nodes \in NodeStates /\ offline' \in NodeSets
  BY <1>1 DEF SrTypeOK, NodeSets
<1>6. TasksTyped /\ KeepsClaim /\ shard' \in Shards
  <2>1. CASE shard' = sh /\ UNCHANGED <<run, next, results>>
    BY <1>3, <2>1 DEF TasksTyped, KeepsClaim, SrTypeOK
  <2>2. ASSUME NEW m \in live, MaybeReconcile(Touch([sh EXCEPT !.att = m, !.sec = secs \ {m}]), nodes)
        PROVE  TasksTyped /\ KeepsClaim /\ shard' \in Shards
    <3> DEFINE sm == [sh EXCEPT !.att = m, !.sec = secs \ {m}]
    <3>1. sm \in Shards
      BY <1>3, <1>4, ShardIntentFacts
    <3>2. MaybeReconcile(Touch(sm), nodes)
      BY <2>2
    <3> HIDE DEF sm
    <3> QED
      BY <1>5, <3>1, <3>2, TouchFacts, MaybeReconcileFacts
  <2> QED
    BY <1>1, <2>1, <2>2
<1> QED
  BY <1>1, <1>5, <1>6, ServiceStep

LEMMA NodeActivateStep ==
  ASSUME SrTypeOK, IssuedOnce, NEW n \in Nodes, NodeActivate(n)
  PROVE  SrTypeOK' /\ IssuedOnce'
<1> DEFINE o == [shard.obs EXCEPT ![n] = IF ps[n] = Absent \/ @ = ps[n] THEN @ ELSE Unknown]
           sh == [shard EXCEPT !.obs = o]
<1>1. /\ UNCHANGED <<db, offline, ps, boot>>
      /\ nodes' = [nodes EXCEPT ![n] = [st |-> "active", cut |-> FALSE]]
      /\ MaybeReconcile(sh, nodes') \/ (shard' = sh /\ UNCHANGED <<run, next, results>>)
  BY DEF NodeActivate
<1>2. o \in Places
  BY LocFacts DEF SrTypeOK, Shards, Places
<1>3. sh \in Shards
  <2> HIDE DEF o
  <2> QED
    BY <1>2, ShardObsFacts DEF SrTypeOK
<1> HIDE DEF sh
<1>4. nodes' \in NodeStates /\ offline \in NodeSets
  BY <1>1 DEF SrTypeOK, NodeStates
<1>5. TasksTyped /\ KeepsClaim /\ shard' \in Shards
  <2>1. CASE shard' = sh /\ UNCHANGED <<run, next, results>>
    BY <1>3, <2>1 DEF TasksTyped, KeepsClaim, SrTypeOK
  <2>2. CASE MaybeReconcile(sh, nodes')
    BY <1>3, <1>4, <2>2, MaybeReconcileFacts
  <2> QED
    BY <1>1, <2>1, <2>2
<1> QED
  BY <1>1, <1>4, <1>5, ServiceStep

LEMMA PageserverRestartStep ==
  ASSUME SrTypeOK, IssuedOnce, NEW n \in Nodes, PageserverRestart(n)
  PROVE  SrTypeOK' /\ IssuedOnce'
<1>1. boot' = [boot EXCEPT ![n] = Booting] /\ ps' = [ps EXCEPT ![n] = Absent]
      /\ UNCHANGED <<shard, db, nodes, offline, run, next, results>>
  BY DEF PageserverRestart
<1>2. boot' \in Boots /\ ps' \in Places
  BY <1>1, LocFacts DEF SrTypeOK, Boots, BootStates, Places, Booting
<1>3. SrTypeOK'
  BY <1>1, <1>2 DEF SrTypeOK
<1>4. \A m \in Nodes : /\ ps'[m] = ps[m] \/ ps'[m].mode = "Absent"
                       /\ boot'[m] = boot[m] \/ boot'[m].st = "booting"
  BY <1>1, LocFacts DEF SrTypeOK, Boots, BootStates, Places, Booting
<1>5. \A m \in Nodes, g \in Nat : Claim(m, g)' => Claim(m, g)
  BY <1>1, <1>4 DEF Claim
<1>6. db'.gen >= db.gen
  BY <1>1 DEF SrTypeOK, Rows
<1> QED
  BY <1>3, <1>5, <1>6, NothingClaimed

LEMMA ReAttachPersistStep ==
  ASSUME SrTypeOK, IssuedOnce, NEW n \in Nodes, ReAttachPersist(n)
  PROVE  SrTypeOK' /\ IssuedOnce'
<1>0. UNCHANGED <<shard, nodes, offline, run, next, results, ps>> /\ db.gen \in Nat
  BY DEF ReAttachPersist, SrTypeOK, Rows
<1>1. CASE db.node = n
  <2>1. boot' = [boot EXCEPT ![n] = Asking(db.gen + 1)] /\ db' = [db EXCEPT !.gen = @ + 1]
    BY <1>1 DEF ReAttachPersist
  <2>2. boot' \in Boots /\ \A m \in Nodes : m # n => boot'[m] = boot[m]
    BY <1>0, <2>1 DEF SrTypeOK, Boots, BootStates, Asking
  <2>3. boot'[n].gen = db.gen + 1
    BY <1>0, <2>1 DEF SrTypeOK, Boots, BootStates, Asking
  <2>4. db' \in Rows /\ db'.gen = db.gen + 1
    BY <2>1 DEF SrTypeOK, Rows
  <2>5. SrTypeOK'
    BY <1>0, <2>2, <2>4 DEF SrTypeOK
  <2>6. \A m \in Nodes, g \in Nat : Claim(m, g)' => Claim(m, g) \/ (m = n /\ g = db.gen + 1)
    BY <1>0, <2>2, <2>3 DEF Claim
  <2> QED
    BY <2>4, <2>5, <2>6, OneClaimed
<1>2. CASE db.node # n
  <2>1. boot' = [boot EXCEPT ![n] = Asking(0)] /\ db' = db
    BY <1>2 DEF ReAttachPersist
  <2>2. boot' \in Boots /\ \A m \in Nodes : boot'[m] = boot[m] \/ boot'[m].gen = 0
    BY <2>1 DEF SrTypeOK, Boots, BootStates, Asking
  <2>3. SrTypeOK'
    BY <1>0, <2>1, <2>2 DEF SrTypeOK
  <2>4. \A m \in Nodes, g \in Nat : Claim(m, g)' => Claim(m, g)
    BY <1>0, <2>2 DEF Claim
  <2> QED
    BY <1>0, <2>1, <2>3, <2>4, NothingClaimed
<1> QED
  BY <1>1, <1>2

LEMMA ReAttachRespondStep ==
  ASSUME SrTypeOK, IssuedOnce, NEW n \in Nodes, ReAttachRespond(n)
  PROVE  SrTypeOK' /\ IssuedOnce'
<1> DEFINE b == boot[n].gen
           o == [shard.obs EXCEPT ![n] = IF Known(@) THEN Loc(@.mode, b) ELSE Unknown]
           c == nodes[n].cut \/ nodes[n].st = "active"
           l == IF b > 0 THEN Loc("Single", b) ELSE IF n \in shard.sec THEN SecLoc ELSE Absent
<1>1. /\ UNCHANGED <<db, offline, results>> /\ boot[n].st = "asking"
      /\ shard' = shard \/ shard' = [shard EXCEPT !.gen = Max2(@, b), !.obs = o]
      /\ nodes' = [nodes EXCEPT ![n] = [st |-> "warming", cut |-> c]]
      /\ run' \in {run, Cut(run, n)} /\ next' \in {next, Cut(next, n)}
      /\ \/ boot' = [boot EXCEPT ![n] = UpState] /\ ps' = [ps EXCEPT ![n] = l]
         \/ boot' = [boot EXCEPT ![n] = Booting] /\ ps' = ps
  BY DEF ReAttachRespond, SrTypeOK, NodeStates
<1>2. b \in Nat
  BY DEF SrTypeOK, Boots, BootStates
<1>3. l \in Locs /\ (l.mode \in {"Single", "Multi"} => b > 0 /\ l.gen = b)
  BY <1>2, LocFacts
<1>4. o \in Places
  <2>1. shard.obs \in Places /\ shard.obs[n] \in Locs /\ shard.obs[n].mode \in
          {"Absent", "Unknown", "Secondary", "Single", "Multi", "Stale"}
    BY DEF SrTypeOK, Shards, Places, Locs
  <2> QED
    BY <1>2, <2>1, LocFacts DEF Places
<1>5. c \in BOOLEAN
  OBVIOUS
<1> HIDE DEF b, o, c, l
<1>6. shard' \in Shards
  <2>1. Max2(shard.gen, b) \in Nat
    BY <1>2 DEF SrTypeOK, Shards, Max2
  <2> QED
    BY <1>1, <1>4, <2>1 DEF SrTypeOK, Shards
<1>7. nodes' \in NodeStates
  BY <1>1, <1>5 DEF SrTypeOK, NodeStates
<1>8. /\ boot' \in Boots /\ ps' \in Places
      /\ \A m \in Nodes : /\ ps'[m] = ps[m] \/ (m = n /\ ps'[m] = l)
                          /\ boot'[m] = boot[m] \/ boot'[m].st # "asking"
  <2>1. UpState \in BootStates /\ Booting \in BootStates /\ UpState.st = "up" /\ Booting.st = "booting"
    BY DEF BootStates, UpState, Booting
  <2>2. ps \in [Nodes -> Locs] /\ boot \in [Nodes -> BootStates]
    BY DEF SrTypeOK, Boots, Places
  <2>3. CASE boot' = [boot EXCEPT ![n] = UpState] /\ ps' = [ps EXCEPT ![n] = l]
    BY <1>3, <2>1, <2>2, <2>3 DEF Boots, Places
  <2>4. CASE boot' = [boot EXCEPT ![n] = Booting] /\ ps' = ps
    BY <2>1, <2>2, <2>4 DEF Boots, Places
  <2> QED
    BY <1>1, <2>3, <2>4
<1>9. TasksTyped /\ KeepsClaim
  <2>1. run.pc \in Drawn => run \in Tasks
    BY TaskOrNone DEF SrTypeOK, Drawn
  <2> QED
    BY <1>1, <2>1, CutFacts DEF TasksTyped, KeepsClaim, SrTypeOK
<1>10. SrTypeOK'
  BY <1>1, <1>6, <1>7, <1>8, <1>9 DEF SrTypeOK, TasksTyped
<1>11. \A m \in Nodes, g \in Nat : Claim(m, g)' => Claim(m, g)
  <2> SUFFICES ASSUME NEW m \in Nodes, NEW g \in Nat, Claim(m, g)' PROVE Claim(m, g)
    OBVIOUS
  <2>1. CASE ps'[m].mode \in {"Single", "Multi"} /\ ps'[m].gen = g
    BY <1>1, <1>3, <1>8, <2>1 DEF Claim, b
  <2>2. CASE run'.pc \in Drawn /\ run'.att = m /\ run'.gen = g
    BY <1>9, <2>2 DEF Claim, KeepsClaim
  <2>3. CASE boot'[m].st = "asking" /\ boot'[m].gen = g /\ g > 0
    BY <1>8, <2>3 DEF Claim
  <2> QED
    BY <2>1, <2>2, <2>3 DEF Claim
<1>12. db'.gen >= db.gen
  BY <1>1 DEF SrTypeOK, Rows
<1> QED
  BY <1>10, <1>11, <1>12, NothingClaimed

LEMMA ControllerRestartStep ==
  ASSUME SrTypeOK, IssuedOnce, ControllerRestart
  PROVE  SrTypeOK' /\ IssuedOnce'
<1> DEFINE live == {n \in Nodes : Up(n)}
           found == [n \in Nodes |-> IF n \in live THEN ps[n] ELSE Absent]
<1>1. found \in Places
  BY LocFacts DEF SrTypeOK, Places
<1>2. \E a \in Nodes, S \in NodeSets, p \in BOOLEAN :
        shard' = [policy |-> shard.policy, gen |-> db.gen, att |-> a, sec |-> S, obs |-> found,
                  handle |-> "none", pending |-> p, delayed |-> FALSE]
  <2> DEFINE attachedTo == {n \in live : Attached(found[n])}
             secs == {n \in live : found[n] # Absent}
             best == {n \in attachedTo : \A m \in attachedTo : found[m].gen <= found[n].gen}
             cands == IF best # {} THEN best ELSE IF secs # {} THEN secs ELSE live
  <2>1. PICK a \in cands, S \in SUBSET live :
          \/ shard' = [policy |-> shard.policy, gen |-> db.gen, att |-> a, sec |-> S, obs |-> found,
                       handle |-> "none", pending |-> FALSE, delayed |-> FALSE]
          \/ shard' = [policy |-> shard.policy, gen |-> db.gen, att |-> a, sec |-> S, obs |-> found,
                       handle |-> "none", pending |-> TRUE, delayed |-> FALSE]
    BY DEF ControllerRestart
  <2>2. a \in Nodes /\ S \in NodeSets
    BY DEF NodeSets
  <2> HIDE DEF cands, best, secs, attachedTo, found, live
  <2> QED
    BY <2>1, <2>2
<1>3. shard' \in Shards
  <2> HIDE DEF found
  <2> QED
    BY <1>1, <1>2 DEF SrTypeOK, Shards, Rows
<1>4. /\ nodes' = [n \in Nodes |-> [st |-> IF n \in live THEN "active" ELSE "offline", cut |-> FALSE]]
      /\ offline' = {} /\ run' = NoTask /\ next' = NoTask /\ results' = <<>>
      /\ boot' = [n \in Nodes |-> IF n \in live THEN UpState ELSE Booting]
      /\ UNCHANGED <<db, ps>>
  BY DEF ControllerRestart
<1> HIDE DEF live
<1>5. nodes' \in NodeStates /\ offline' \in NodeSets
  BY <1>4 DEF NodeStates, NodeSets
<1>6. boot' \in Boots /\ \A n \in Nodes : boot'[n].st # "asking"
  BY <1>4 DEF Boots, BootStates, UpState, Booting
<1>7. results' \in Seq(Results) /\ NoTask.pc = "none"
  BY <1>4 DEF NoTask
<1>8. SrTypeOK'
  BY <1>3, <1>4, <1>5, <1>6, <1>7 DEF SrTypeOK
<1>9. \A m \in Nodes, g \in Nat : Claim(m, g)' => Claim(m, g)
  BY <1>4, <1>6, <1>7 DEF Claim, Drawn
<1>10. db'.gen >= db.gen
  BY <1>4 DEF SrTypeOK, Rows
<1> QED
  BY <1>8, <1>9, <1>10, NothingClaimed

-----------------------------------------------------------------------------
(* The theorem.                                                            *)

LEMMA SrInitially == SrInit => SrTypeOK /\ IssuedOnce
<1> SUFFICES ASSUME SrInit PROVE SrTypeOK /\ IssuedOnce
  OBVIOUS
<1>1. PICK p \in Policies, a \in Nodes, S \in SUBSET Nodes :
        LET where == [n \in Nodes |-> IF n = a THEN Loc("Single", 1)
                                      ELSE IF n \in S THEN SecLoc ELSE Absent]
        IN  /\ shard = [policy |-> p, gen |-> 1, att |-> a, sec |-> S, obs |-> where,
                        handle |-> "none", pending |-> FALSE, delayed |-> FALSE]
            /\ ps = where
            /\ db = [gen |-> 1, node |-> a]
            /\ nodes = [n \in Nodes |-> [st |-> "active", cut |-> FALSE]]
            /\ offline = {} /\ run = NoTask /\ next = NoTask /\ results = <<>>
            /\ boot = [n \in Nodes |-> UpState]
  BY DEF SrInit
<1> DEFINE where == [n \in Nodes |-> IF n = a THEN Loc("Single", 1)
                                     ELSE IF n \in S THEN SecLoc ELSE Absent]
<1>2. where \in Places /\ \A n \in Nodes : where[n].mode \in {"Single", "Multi"} => n = a /\ where[n].gen = 1
  BY LocFacts DEF Places
<1>3. p \in Nat /\ S \in NodeSets
  BY ReconcilerAssumption DEF NodeSets
<1>4. /\ shard = [policy |-> p, gen |-> 1, att |-> a, sec |-> S, obs |-> where,
                  handle |-> "none", pending |-> FALSE, delayed |-> FALSE]
      /\ ps = where
  BY <1>1
<1> HIDE DEF where
<1>5. shard \in Shards
  BY <1>2, <1>3, <1>4 DEF Shards
<1>6. db \in Rows /\ nodes \in NodeStates /\ boot \in Boots /\ \A n \in Nodes : boot[n].st # "asking"
  BY <1>1 DEF Rows, NodeStates, Boots, BootStates, UpState
<1>7. NoTask.pc = "none"
  BY DEF NoTask
<1>8. SrTypeOK
  <2>1. offline = {} /\ run = NoTask /\ next = NoTask /\ results = <<>>
    BY <1>1
  <2> QED
    BY <1>2, <1>4, <1>5, <1>6, <1>7, <2>1 DEF SrTypeOK, NodeSets
<1>9. db.gen = 1
  BY <1>1
<1>10. IssuedOnce
  BY <1>1, <1>2, <1>4, <1>6, <1>7, <1>9 DEF IssuedOnce, Claim, Drawn
<1> QED
  BY <1>8, <1>10

LEMMA SrStep == SrTypeOK /\ IssuedOnce /\ [SrNext]_srVars => SrTypeOK' /\ IssuedOnce'
<1> SUFFICES ASSUME SrTypeOK, IssuedOnce, [SrNext]_srVars PROVE SrTypeOK' /\ IssuedOnce'
  OBVIOUS
<1>1. CASE UNCHANGED srVars
  BY <1>1 DEF srVars, SrTypeOK, IssuedOnce, Claim
<1>2. CASE ProcessResult \/ ControllerRestart
  BY <1>2, ProcessResultStep, ControllerRestartStep
<1>3. CASE ReconcilerStep \/ ReconcileAll \/ ReconcileAllDelayed \/ RetryDelayed \/ Migrate
  BY <1>3, ReconcilerSteps, ServiceSteps
<1>4. ASSUME NEW n \in Nodes, NodeStep(n) \/ NodeOffline(n) \/ PageserverRestart(n)
      PROVE  SrTypeOK' /\ IssuedOnce'
  BY <1>4, HandleOfflineStep, NodeActivateStep, ReAttachPersistStep, ReAttachRespondStep,
     NodeOfflineStep, PageserverRestartStep DEF NodeStep
<1> QED
  BY <1>1, <1>2, <1>3, <1>4 DEF SrNext, Certain

(* No two pageservers are ever attached for uploads in the same            *)
(* generation, for every number of nodes, migrations, lost calls and       *)
(* restarts: each generation is drawn from the database by                 *)
(* increment_generation or re_attach, for one pageserver.                  *)
THEOREM GenerationsAreExclusive == SrSpec => []ExclusiveGenerations
<1>1. SrTypeOK /\ IssuedOnce => ExclusiveGenerations
  <2> SUFFICES ASSUME SrTypeOK, IssuedOnce, NEW m \in Nodes, NEW n \in Nodes, m # n,
                      {ps[m].mode, ps[n].mode} \subseteq {"Single", "Multi"},
                      ps[m].gen = ps[n].gen
               PROVE  FALSE
    BY DEF ExclusiveGenerations
  <2>1. ps[m].gen \in Nat /\ Claim(m, ps[m].gen) /\ Claim(n, ps[m].gen)
    BY DEF SrTypeOK, Places, Locs, Claim
  <2> QED
    BY <2>1 DEF IssuedOnce
<1> QED
  BY <1>1, SrInitially, SrStep, PTL DEF SrSpec
=============================================================================
