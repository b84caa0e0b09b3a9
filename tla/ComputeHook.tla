----------------------------- MODULE ComputeHook -----------------------------
(***************************************************************************)
(* The storage controller's notifications about one tenant to the control  *)
(* plane: every shard's reconciler calls notify() for its shard, and the   *)
(* hook sends the locations of all shards together, one request at a time, *)
(* leaving out what the control plane is known to have applied.            *)
(*                                                                         *)
(* The control plane is external: it stores a request and applies it to    *)
(* the running computes, at once or later.  A request the hook gave up     *)
(* waiting for is done before the next one or never.                       *)
(***************************************************************************)
EXTENDS Integers, Sequences, SequencesExt

CONSTANTS
  ChNodes,        \* pageservers
  ChCounts,       \* shard counts of the tenant, ascending: a split moves to the next
  ChNone,         \* no value
  ChMaxNotify,    \* bound: calls of notify() and handle_detach
  ChMaxFaults     \* bound: requests not answered with success, and cancellations

ShardNumbers == 1 .. ChCounts[Len(ChCounts)]
Tenants      == [count : Nat, shards : UNION {[D -> ChNodes] : D \in SUBSET ShardNumbers}]

ASSUME ComputeHookAssumption ==
  /\ ChNone \notin Nat \cup {"ok"} \cup Tenants
  /\ ChCounts \in Seq(Nat \ {0}) /\ ChCounts # <<>>
  /\ \A i, j \in DOMAIN ChCounts : i < j => ChCounts[i] < ChCounts[j]
  /\ ChMaxNotify \in Nat /\ ChMaxFaults \in Nat

VARIABLES
  count,      \* index in ChCounts of the tenant's shard count
  tenant,     \* ComputeHookTenant: its shard count and the locations it knows, or ChNone
  sendLock,   \* holder, waiters in order, and the ComputeRemoteState inside
  call,       \* shard -> its call of notify()
  last,       \* shard -> outcome of its last call since a split or detach
  cplane,     \* the control plane: request stored, request applied
  chBudget    \* calls and faults left

chVars == <<count, tenant, sendLock, call, last, cplane, chBudget>>

Shards       == 1 .. ChCounts[count]
Idle         == [pc |-> "idle"]
Open         == [holder |-> ChNone, queue |-> <<>>, remote |-> ChNone]

ChInit ==
  /\ count = 1 /\ tenant = ChNone /\ sendLock = Open
  /\ call = [s \in ShardNumbers |-> Idle]
  /\ last = [s \in ShardNumbers |-> ChNone]
  /\ cplane = [stored |-> ChNone, applied |-> ChNone]
  /\ chBudget = [calls |-> ChMaxNotify, faults |-> ChMaxFaults]

ChSpend(k) == chBudget[k] > 0 /\ chBudget' = [chBudget EXCEPT ![k] = @ - 1]

-----------------------------------------------------------------------------

(* ComputeHookTenant::new and update: another shard count than before      *)
(* resets the entry, its lock included.                                    *)
Resets == tenant = ChNone \/ tenant.count # ChCounts[count]
Update(s, n) ==
  IF Resets THEN [count |-> ChCounts[count], shards |-> [t \in {s} |-> n]]
  ELSE [tenant EXCEPT !.shards = [t \in DOMAIN @ \cup {s} |-> IF t = s THEN n ELSE @[t]]]

AllShardsKnown(t) == DOMAIN t.shards = 1 .. t.count
RemoteMatches(req, remote) == remote # ChNone /\ remote.request = req /\ remote.applied
NothingToSend(t, remote)   == ~AllShardsKnown(t) \/ RemoteMatches(t, remote)

(* A guard is dropped: the longest waiter gets the lock.                   *)
Passed(l) ==
  IF l.queue = <<>> THEN [l EXCEPT !.holder = ChNone]
  ELSE [l EXCEPT !.holder = Head(l.queue), !.queue = Tail(@)]

Return(s, res) == call' = [call EXCEPT ![s] = Idle] /\ last' = [last EXCEPT ![s] = res]

(* notify_prepare, and notify_execute up to its first await.               *)
NotifyShard(s, n) ==
  /\ s \in Shards /\ call[s] = Idle /\ ChSpend("calls")
  /\ tenant' = Update(s, n)
  /\ LET lock == IF Resets THEN Open ELSE sendLock
     IN  \/ /\ lock.holder # ChNone                                 \* AwaitLock
            /\ sendLock' = [lock EXCEPT !.queue = Append(@, s)]
            /\ call' = [call EXCEPT ![s] = [pc |-> "await"]] /\ UNCHANGED last
         \/ /\ lock.holder = ChNone /\ NothingToSend(tenant', lock.remote)
            /\ sendLock' = lock /\ Return(s, "ok")
         \/ /\ lock.holder = ChNone /\ ~NothingToSend(tenant', lock.remote)
            /\ sendLock' = [lock EXCEPT !.holder = s]
            /\ call' = [call EXCEPT ![s] = [pc |-> "send", request |-> tenant']] /\ UNCHANGED last
  /\ UNCHANGED <<count, cplane>>

(* A waiter has the lock: maybe_send looks again at what is to be sent.    *)
LockGranted(s) ==
  /\ call[s].pc = "await" /\ sendLock.holder = s
  /\ IF tenant = ChNone \/ NothingToSend(tenant, sendLock.remote)
     THEN Return(s, "ok") /\ sendLock' = Passed(sendLock)
     ELSE /\ call' = [call EXCEPT ![s] = [pc |-> "send", request |-> tenant]]
          /\ UNCHANGED <<last, sendLock>>
  /\ UNCHANGED <<count, tenant, cplane, chBudget>>

CancelWait(s) ==
  /\ call[s].pc = "await" /\ sendLock.holder # s
  /\ ChSpend("faults")
  /\ Return(s, "err")
  /\ \E i \in DOMAIN sendLock.queue :
       /\ sendLock.queue[i] = s
       /\ sendLock' = [sendLock EXCEPT !.queue = RemoveAt(@, i)]
  /\ UNCHANGED <<count, tenant, cplane>>

(* Mutant: an error leaves what was known before.                          *)
KeepsRemote(remote) == remote

(* What is remembered of the control plane after a general error.          *)
AfterError(remote) == ChNone

Done(s, res, remote) ==
  /\ Return(s, res)
  /\ sendLock' = Passed([sendLock EXCEPT !.remote = remote])
  /\ UNCHANGED <<count, tenant>>

(* do_notify, its retries folded into one request, and the match on its    *)
(* result.                                                                 *)
SendOk(s) ==
  /\ call[s].pc = "send"
  /\ cplane' = [stored |-> call[s].request, applied |-> call[s].request]
  /\ Done(s, "ok", [request |-> call[s].request, applied |-> TRUE])
  /\ UNCHANGED chBudget

SendBusy(s) ==
  /\ call[s].pc = "send" /\ ChSpend("faults")
  /\ cplane' = [cplane EXCEPT !.stored = call[s].request]
  /\ Done(s, "err", [request |-> call[s].request, applied |-> FALSE])

SendFails(s) ==
  /\ call[s].pc = "send" /\ ChSpend("faults")
  /\ \/ UNCHANGED cplane
     \/ cplane' = [cplane EXCEPT !.stored = call[s].request]
     \/ cplane' = [stored |-> call[s].request, applied |-> call[s].request]
  /\ Done(s, "err", AfterError(sendLock.remote))

(* External: a stored request is applied to running computes.              *)
CplaneApplies ==
  /\ cplane.applied # cplane.stored
  /\ cplane' = [cplane EXCEPT !.applied = cplane.stored]
  /\ UNCHANGED <<count, tenant, sendLock, call, last, chBudget>>

(* handle_detach, called by the shard's reconciler.  The entry of an       *)
(* unsharded tenant goes away with its lock.                               *)
HandleDetach(s) ==
  /\ s \in Shards /\ call[s] = Idle /\ tenant # ChNone /\ ChSpend("calls")
  /\ last' = [last EXCEPT ![s] = ChNone]
  /\ IF tenant.count = 1
     THEN tenant' = ChNone /\ sendLock' = Open
     ELSE /\ tenant' = [tenant EXCEPT !.shards = [t \in DOMAIN @ \ {s} |-> @[t]]]
          /\ UNCHANGED sendLock
  /\ UNCHANGED <<count, call, cplane>>

(* do_tenant_shard_split waits for the parents' reconcilers, replaces the  *)
(* shards and notifies for every child.                                    *)
Split ==
  /\ count < Len(ChCounts) /\ \A s \in ShardNumbers : call[s] = Idle
  /\ count' = count + 1 /\ last' = [s \in ShardNumbers |-> ChNone]
  /\ UNCHANGED <<tenant, sendLock, call, cplane, chBudget>>

ChNext ==
  \/ \E s \in ShardNumbers :
       \/ \E n \in ChNodes : NotifyShard(s, n)
       \/ LockGranted(s) \/ CancelWait(s) \/ SendOk(s) \/ SendBusy(s) \/ SendFails(s)
       \/ HandleDetach(s)
  \/ CplaneApplies \/ Split

ChSpec == ChInit /\ [][ChNext]_chVars

-----------------------------------------------------------------------------

(* When every shard's last notify() returned Ok and none is running, the   *)
(* running computes use the latest locations of all shards: coalescing,    *)
(* waiting for the lock, lost answers and 423s never hide an update        *)
(* (maybe_send, notify_execute).                                           *)
NotifiedIsApplied ==
  (\A s \in Shards : call[s] = Idle /\ last[s] = "ok") => cplane.applied = tenant
=============================================================================
