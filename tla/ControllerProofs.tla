-------------------------- MODULE ControllerProofs ---------------------------
(***************************************************************************)
(* Proofs about the storage controller, for any number of instances,       *)
(* shards, pageservers and safekeepers and without the bounds of model     *)
(* checking: Leadership, ComputeHook and SafekeeperOps.                    *)
(***************************************************************************)
EXTENDS Leadership, ComputeHook, SafekeeperOps, FiniteSetTheorems, SequenceTheorems, TLAPS

-----------------------------------------------------------------------------
(* Leadership.                                                             *)

Rows == [address : Addresses, started_at : Nat]

Processes == [status : {"Down", "Candidate", "Leader", "SteppedDown"},
              pc : {"none", "read", "ask", "persist", "become", "up"},
              leader : Rows \union {LdNone}, reconciling : BOOLEAN]

LdTypeOK ==
  /\ controllers \subseteq Rows /\ starts \in Nat /\ gaveUp \in Nat
  /\ process \in [Addresses -> Processes]

(* There is one row, and the phase of a process says what it has.          *)
PhaseInv ==
  /\ controllers # {} /\ \A r, c \in controllers : r = c
  /\ \A a \in Addresses :
       /\ process[a].status \in {"Leader", "SteppedDown"} \/ process[a].reconciling
            => process[a].pc = "up"
       /\ process[a].pc \in {"ask", "persist"} => process[a].leader \in Rows

(* A row that was read or is in the table is never written again: whoever  *)
(* wrote it has started anew before it writes the next.                    *)
Unrepeatable(r) ==
  /\ r.started_at <= starts
  /\ r.started_at = starts => process[r.address].pc \notin {"read", "ask", "persist"}

RowsInv ==
  /\ \A r \in controllers : Unrepeatable(r)
  /\ \A a \in Addresses :
       process[a].pc \in {"ask", "persist"} => Unrepeatable(process[a].leader)

Acting(p) == p.pc = "become" \/ p.status = "Leader" \/ p.reconciling

(* Without unanswered requests, who acts or is about to is in the row, and *)
(* a leader whose row a candidate may still replace has stopped.           *)
LeaderInv ==
  gaveUp = 0 =>
    /\ \A a \in Addresses : Acting(process[a]) => \A r \in controllers : r.address = a
    /\ \A a \in Addresses :
         /\ process[a].pc = "persist" /\ process[a].leader \in controllers
         /\ process[a].leader.address # a
         => ~Acting(process[process[a].leader.address])

LdInv == LdTypeOK /\ PhaseInv /\ RowsInv

(* The steps of the instances keep the types.                              *)
LEMMA LdTypes == LdTypeOK /\ PhaseInv /\ [LdNext]_ldVars => LdTypeOK'
<1> SUFFICES ASSUME LdTypeOK, PhaseInv, [LdNext]_ldVars PROVE LdTypeOK'
  OBVIOUS
<1> USE DEF LdTypeOK, PhaseInv, Rows, Processes, Set, Process, Down, Row
<1>1. ASSUME NEW a \in Addresses, Start(a) PROVE LdTypeOK'
  BY <1>1 DEF Start
<1>2. ASSUME NEW a \in Addresses, CurrentLeader(a) PROVE LdTypeOK'
  <2>1. PICK r \in controllers : process' = [process EXCEPT ![a] =
            [process[a] EXCEPT !.leader = r, !.pc = IF r.address = a THEN "persist" ELSE "ask"]]
    BY <1>2 DEF CurrentLeader
  <2>2. r \in Rows
    OBVIOUS
  <2>3. [process[a] EXCEPT !.leader = r, !.pc = IF r.address = a THEN "persist" ELSE "ask"]
          \in Processes
    <3> DEFINE P == process[a]
    <3>1. P \in Processes
      OBVIOUS
    <3> HIDE DEF P
    <3> QED
      BY <2>2, <3>1
  <2> QED
    <3> HIDE DEF Processes
    <3> QED
      BY <1>2, <2>1, <2>3 DEF CurrentLeader
<1>3. ASSUME NEW a \in Addresses, StepDown(a) PROVE LdTypeOK'
  BY <1>3 DEF StepDown
<1>4. ASSUME NEW a \in Addresses, ReconcilersStop(a) PROVE LdTypeOK'
  BY <1>4 DEF ReconcilersStop
<1>5. ASSUME NEW a \in Addresses, StepDownAnswered(a) PROVE LdTypeOK'
  BY <1>5 DEF StepDownAnswered
<1>6. ASSUME NEW a \in Addresses, StepDownUnanswered(a) PROVE LdTypeOK'
  BY <1>6 DEF StepDownUnanswered
<1>7. ASSUME NEW a \in Addresses, UpdateLeader(a) PROVE LdTypeOK'
  <2>0. Down \in Processes
    OBVIOUS
  <2>1. CASE StillThere(process[a].leader)
    <3>1. /\ controllers' = {[address |-> a, started_at |-> starts]}
          /\ process' = [process EXCEPT ![a] = [process[a] EXCEPT !.pc = "become"]]
          /\ UNCHANGED <<starts, gaveUp>>
      BY <1>7, <2>1 DEF UpdateLeader
    <3> QED
      BY <1>7, <3>1 DEF UpdateLeader
  <2>2. CASE ~StillThere(process[a].leader)
    <3> HIDE DEF Processes, Down
    <3> QED
      BY <1>7, <2>0, <2>2 DEF UpdateLeader
  <2> QED
    BY <2>1, <2>2
<1>8. ASSUME NEW a \in Addresses, BecomeLeader(a) PROVE LdTypeOK'
  BY <1>8 DEF BecomeLeader
<1>9. ASSUME NEW a \in Addresses, Crash(a) PROVE LdTypeOK'
  BY <1>9 DEF Crash
<1>10. CASE UNCHANGED ldVars
  BY <1>10 DEF ldVars
<1> QED
  BY <1>1, <1>2, <1>3, <1>4, <1>5, <1>6, <1>7, <1>8, <1>9, <1>10 DEF LdNext

(* The steps of the instances keep one row and the phases.                 *)
LEMMA LdPhases == LdTypeOK /\ PhaseInv /\ [LdNext]_ldVars => PhaseInv'
<1> SUFFICES ASSUME LdTypeOK, PhaseInv, [LdNext]_ldVars PROVE PhaseInv'
  OBVIOUS
<1> USE DEF LdTypeOK, PhaseInv, Rows, Processes, Set, Process, Down, Row
<1>1. ASSUME NEW a \in Addresses, Start(a) PROVE PhaseInv'
  BY <1>1 DEF Start
<1>2. ASSUME NEW a \in Addresses, CurrentLeader(a) PROVE PhaseInv'
  BY <1>2 DEF CurrentLeader
<1>3. ASSUME NEW a \in Addresses, StepDown(a) PROVE PhaseInv'
  BY <1>3 DEF StepDown
<1>4. ASSUME NEW a \in Addresses, ReconcilersStop(a) PROVE PhaseInv'
  BY <1>4 DEF ReconcilersStop
<1>5. ASSUME NEW a \in Addresses, StepDownAnswered(a) PROVE PhaseInv'
  BY <1>5 DEF StepDownAnswered
<1>6. ASSUME NEW a \in Addresses, StepDownUnanswered(a) PROVE PhaseInv'
  BY <1>6 DEF StepDownUnanswered
<1>7. ASSUME NEW a \in Addresses, UpdateLeader(a) PROVE PhaseInv'
  <2>1. CASE StillThere(process[a].leader)
    <3>1. /\ controllers' = {[address |-> a, started_at |-> starts]}
          /\ process' = [process EXCEPT ![a] = [process[a] EXCEPT !.pc = "become"]]
          /\ UNCHANGED <<starts, gaveUp>>
      BY <1>7, <2>1 DEF UpdateLeader
    <3> QED
      BY <1>7, <3>1 DEF UpdateLeader
  <2>2. CASE ~StillThere(process[a].leader)
    BY <1>7, <2>2 DEF UpdateLeader
  <2> QED
    BY <2>1, <2>2
<1>8. ASSUME NEW a \in Addresses, BecomeLeader(a) PROVE PhaseInv'
  BY <1>8 DEF BecomeLeader
<1>9. ASSUME NEW a \in Addresses, Crash(a) PROVE PhaseInv'
  BY <1>9 DEF Crash
<1>10. CASE UNCHANGED ldVars
  BY <1>10 DEF ldVars
<1> QED
  BY <1>1, <1>2, <1>3, <1>4, <1>5, <1>6, <1>7, <1>8, <1>9, <1>10 DEF LdNext

(* The steps of the instances repeat no row.                               *)
LEMMA LdRows == LdTypeOK /\ PhaseInv /\ RowsInv /\ [LdNext]_ldVars => RowsInv'
<1> SUFFICES ASSUME LdTypeOK, PhaseInv, RowsInv, [LdNext]_ldVars PROVE RowsInv'
  OBVIOUS
<1> USE DEF LdTypeOK, PhaseInv, RowsInv, Unrepeatable, Rows, Processes, Set, Process, Down, Row
<1>1. ASSUME NEW a \in Addresses, Start(a) PROVE RowsInv'
  BY <1>1 DEF Start
<1>2. ASSUME NEW a \in Addresses, CurrentLeader(a) PROVE RowsInv'
  BY <1>2 DEF CurrentLeader
<1>3. ASSUME NEW a \in Addresses, StepDown(a) PROVE RowsInv'
  BY <1>3 DEF StepDown
<1>4. ASSUME NEW a \in Addresses, ReconcilersStop(a) PROVE RowsInv'
  BY <1>4 DEF ReconcilersStop
<1>5. ASSUME NEW a \in Addresses, StepDownAnswered(a) PROVE RowsInv'
  BY <1>5 DEF StepDownAnswered
<1>6. ASSUME NEW a \in Addresses, StepDownUnanswered(a) PROVE RowsInv'
  BY <1>6 DEF StepDownUnanswered
<1>7. ASSUME NEW a \in Addresses, UpdateLeader(a) PROVE RowsInv'
  <2>1. CASE StillThere(process[a].leader)
    <3>1. /\ controllers' = {[address |-> a, started_at |-> starts]}
          /\ process' = [process EXCEPT ![a] = [process[a] EXCEPT !.pc = "become"]]
          /\ UNCHANGED <<starts, gaveUp>>
      BY <1>7, <2>1 DEF UpdateLeader
    <3> QED
      BY <1>7, <3>1 DEF UpdateLeader
  <2>2. CASE ~StillThere(process[a].leader)
    BY <1>7, <2>2 DEF UpdateLeader
  <2> QED
    BY <2>1, <2>2
<1>8. ASSUME NEW a \in Addresses, BecomeLeader(a) PROVE RowsInv'
  BY <1>8 DEF BecomeLeader
<1>9. ASSUME NEW a \in Addresses, Crash(a) PROVE RowsInv'
  BY <1>9 DEF Crash
<1>10. CASE UNCHANGED ldVars
  BY <1>10 DEF ldVars
<1> QED
  BY <1>1, <1>2, <1>3, <1>4, <1>5, <1>6, <1>7, <1>8, <1>9, <1>10 DEF LdNext

(* The steps of the instances keep the leader alone.                       *)
LEMMA LdSteps == LdInv /\ LeaderInv /\ [LdNext]_ldVars => LeaderInv'
<1> SUFFICES ASSUME LdInv, LeaderInv, [LdNext]_ldVars PROVE LeaderInv'
  OBVIOUS
<1> USE DEF LdInv, LdTypeOK, PhaseInv, LeaderInv, Acting, Rows, Processes, Set, Process, Down, Row
<1>1. ASSUME NEW a \in Addresses, Start(a) PROVE LeaderInv'
  BY <1>1 DEF Start
<1>2. ASSUME NEW a \in Addresses, CurrentLeader(a) PROVE LeaderInv'
  BY <1>2 DEF CurrentLeader
<1>3. ASSUME NEW a \in Addresses, StepDown(a) PROVE LeaderInv'
  BY <1>3 DEF StepDown
<1>4. ASSUME NEW a \in Addresses, ReconcilersStop(a) PROVE LeaderInv'
  BY <1>4 DEF ReconcilersStop
<1>5. ASSUME NEW a \in Addresses, StepDownAnswered(a) PROVE LeaderInv'
  BY <1>5 DEF StepDownAnswered, Answers
<1>6. ASSUME NEW a \in Addresses, StepDownUnanswered(a) PROVE LeaderInv'
  BY <1>6 DEF StepDownUnanswered
<1>7. ASSUME NEW a \in Addresses, UpdateLeader(a) PROVE LeaderInv'
  BY <1>7 DEF UpdateLeader, StillThere, RowsInv, Unrepeatable
<1>8. ASSUME NEW a \in Addresses, BecomeLeader(a) PROVE LeaderInv'
  BY <1>8 DEF BecomeLeader
<1>9. ASSUME NEW a \in Addresses, Crash(a) PROVE LeaderInv'
  BY <1>9 DEF Crash
<1>10. CASE UNCHANGED ldVars
  BY <1>10 DEF ldVars
<1> QED
  BY <1>1, <1>2, <1>3, <1>4, <1>5, <1>6, <1>7, <1>8, <1>9, <1>10 DEF LdNext

(* However many instances of the controller start, crash and step down, at *)
(* most one acts, as long as every step-down request is answered.          *)
THEOREM OneControllerActs == LdSpec => []OneActs
<1>1. LdInit => LdInv /\ LeaderInv
  <2> SUFFICES ASSUME LdInit PROVE LdInv /\ LeaderInv
    OBVIOUS
  <2> USE DEF LdInit, Process, Down, Row
  <2>1. LdTypeOK
    <3>1. Down \in Processes /\ [Process("Leader", "up") EXCEPT !.reconciling = TRUE] \in Processes
      BY DEF Processes
    <3> HIDE DEF Down, Process
    <3>2. process \in [Addresses -> Processes]
      BY <3>1
    <3>3. PICK a \in Addresses : controllers = {[address |-> a, started_at |-> 0]}
      OBVIOUS
    <3>4. starts = 0 /\ gaveUp = 0
      OBVIOUS
    <3>5. controllers \subseteq Rows
      BY <3>3 DEF Rows
    <3> HIDE DEF LdInit
    <3> QED
      BY <3>2, <3>4, <3>5 DEF LdTypeOK
  <2>2. PhaseInv /\ RowsInv /\ LeaderInv
    BY DEF PhaseInv, RowsInv, Unrepeatable, LeaderInv, Acting
  <2> QED
    BY <2>1, <2>2 DEF LdInv
<1>2. LdInv /\ LeaderInv => OneActs
  BY DEF LdInv, LdTypeOK, PhaseInv, LeaderInv, Acting, OneActs
<1> QED
  BY <1>1, <1>2, LdTypes, LdPhases, LdRows, LdSteps, PTL DEF LdSpec, LdInv

-----------------------------------------------------------------------------
(* ComputeHook.                                                            *)

Remotes == [request : Tenants, applied : BOOLEAN] \union {ChNone}
Locks   == [holder : ShardNumbers \union {ChNone}, queue : Seq(ShardNumbers), remote : Remotes]
Calls   == {Idle, [pc |-> "await"]} \union [pc : {"send"}, request : Tenants]

ChTypeOK ==
  /\ count \in DOMAIN ChCounts /\ tenant \in Tenants \union {ChNone}
  /\ sendLock \in Locks /\ call \in [ShardNumbers -> Calls]
  /\ last \in [ShardNumbers -> {ChNone, "ok", "err"}]
  /\ cplane \in [stored : Tenants \union {ChNone}, applied : Tenants \union {ChNone}]

(* Who has the lock or waits for it: one holder, and behind it waiters     *)
(* that are all different.  A call that is under way is for the entry as   *)
(* it is: no split or detach replaces the lock under it.                   *)
LockInv ==
  /\ \A s \in ShardNumbers :
       /\ call[s].pc = "send" => sendLock.holder = s
       /\ call[s].pc = "await" =>
            sendLock.holder = s \/ \E i \in DOMAIN sendLock.queue : sendLock.queue[i] = s
       /\ call[s] # Idle => /\ s \in Shards /\ sendLock.holder # ChNone
                            /\ tenant # ChNone /\ tenant.count = ChCounts[count]
                            /\ s \in DOMAIN tenant.shards
  /\ sendLock.holder # ChNone => call[sendLock.holder] # Idle
  /\ \A i \in DOMAIN sendLock.queue :
       /\ call[sendLock.queue[i]].pc = "await" /\ sendLock.queue[i] # sendLock.holder
       /\ \A j \in DOMAIN sendLock.queue : sendLock.queue[i] = sendLock.queue[j] => i = j

(* What is remembered as applied is what the control plane has.            *)
RemoteInv ==
  sendLock.remote # ChNone /\ sendLock.remote.applied =>
    cplane.stored = sendLock.remote.request /\ cplane.applied = sendLock.remote.request

(* A shard whose last call succeeded is in the entry.                      *)
KnownInv ==
  /\ tenant # ChNone => DOMAIN tenant.shards \subseteq 1..tenant.count
  /\ \A s \in Shards : last[s] = "ok" =>
       tenant # ChNone /\ tenant.count = ChCounts[count] /\ s \in DOMAIN tenant.shards

Unsettled == \E s \in Shards : call[s] = Idle /\ last[s] # "ok"

(* While the lock is free, either some shard's last call failed or the     *)
(* entry is applied; a request being sent is the entry, or somebody waits  *)
(* to send the newer one, or some shard's last call failed.                *)
SentInv ==
  /\ sendLock.holder = ChNone /\ (\A s \in Shards : last[s] = "ok") =>
       cplane.stored = tenant /\ cplane.applied = tenant
  /\ \A s \in ShardNumbers : call[s].pc = "send" =>
       call[s].request = tenant \/ sendLock.queue # <<>> \/ Unsettled

ChInv == ChTypeOK /\ LockInv /\ RemoteInv /\ KnownInv /\ SentInv

(* Shards have numbers, there is one at least, and they only get more.     *)
LEMMA ShardFacts ==
  ASSUME count \in DOMAIN ChCounts
  PROVE  /\ ChCounts[count] \in Nat \ {0} /\ 1 \in Shards /\ Shards \subseteq ShardNumbers
         /\ ShardNumbers \subseteq Nat /\ ChNone \notin ShardNumbers
<1>1. /\ ChCounts \in Seq(Nat \ {0}) /\ DOMAIN ChCounts = 1..Len(ChCounts) /\ Len(ChCounts) \in Nat
      /\ \A i, j \in DOMAIN ChCounts : i < j => ChCounts[i] < ChCounts[j]
      /\ ChNone \notin Nat
  BY ComputeHookAssumption
<1>2. /\ count \in 1..Len(ChCounts) /\ Len(ChCounts) \in DOMAIN ChCounts
      /\ ChCounts[count] \in Nat \ {0} /\ ChCounts[Len(ChCounts)] \in Nat \ {0}
  BY <1>1
<1>3. ChCounts[count] <= ChCounts[Len(ChCounts)]
  <2>1. CASE count = Len(ChCounts)
    BY <1>2, <2>1
  <2>2. CASE count # Len(ChCounts)
    <3>1. ChCounts[count] < ChCounts[Len(ChCounts)]
      BY <1>1, <1>2, <2>2
    <3> QED
      BY <1>2, <3>1
  <2> QED
    BY <2>1, <2>2
<1> QED
  BY <1>1, <1>2, <1>3 DEF Shards, ShardNumbers

(* The end of a call of the lock's holder: the lock goes to the waiter     *)
(* next in the queue, who is awaiting it.                                  *)
LEMMA HandOver ==
  ASSUME ChTypeOK, LockInv, NEW s \in ShardNumbers, sendLock.holder = s,
         NEW res \in {"ok", "err"}, NEW R \in Remotes,
         Return(s, res), sendLock' = Passed([sendLock EXCEPT !.remote = R]),
         UNCHANGED <<count, tenant>>
  PROVE  /\ sendLock' \in Locks /\ call' \in [ShardNumbers -> Calls]
         /\ last' \in [ShardNumbers -> {ChNone, "ok", "err"}]
         /\ LockInv'
         /\ sendLock'.remote = R
         /\ sendLock'.holder = ChNone => sendLock.queue = <<>>
         /\ \A t \in ShardNumbers : call'[t].pc # "send"
         /\ last'[s] = res /\ call'[s] = Idle
         /\ \A t \in ShardNumbers \ {s} : last'[t] = last[t] /\ call'[t] = call[t]
<1> DEFINE Q == sendLock.queue
<1>1. /\ call' = [call EXCEPT ![s] = [pc |-> "idle"]] /\ last' = [last EXCEPT ![s] = res]
      /\ Shards' = Shards /\ ChNone \notin ShardNumbers
  BY ShardFacts DEF ChTypeOK, Return, Idle, Shards
<1>2. /\ call' \in [ShardNumbers -> Calls] /\ last' \in [ShardNumbers -> {ChNone, "ok", "err"}]
      /\ last'[s] = res /\ call'[s] = Idle
      /\ \A t \in ShardNumbers \ {s} : last'[t] = last[t] /\ call'[t] = call[t]
  BY <1>1 DEF ChTypeOK, Idle, Calls
<1>3. \A t \in ShardNumbers : call'[t].pc # "send"
  BY <1>2 DEF LockInv, Idle, Calls
<1>4. CASE Q = <<>>
  <2>1. sendLock' = [holder |-> ChNone, queue |-> Q, remote |-> R]
    BY <1>4 DEF ChTypeOK, Passed, Locks
  <2>2. \A t \in ShardNumbers : call'[t] = Idle
    <3> SUFFICES ASSUME NEW t \in ShardNumbers, t # s, call[t] # Idle PROVE FALSE
      BY <1>2
    <3>1. call[t].pc = "await"
      BY DEF ChTypeOK, LockInv, Idle, Calls
    <3>2. DOMAIN Q = {}
      BY <1>4
    <3> QED
      BY <3>1, <3>2 DEF LockInv
  <2>3. LockInv'
    <3>1. DOMAIN sendLock'.queue = {} /\ sendLock'.holder = ChNone
      BY <1>4, <2>1
    <3> QED
      BY <2>2, <3>1 DEF LockInv, Idle
  <2>4. <<>> \in Seq(ShardNumbers)
    OBVIOUS
  <2>6. sendLock.queue = <<>>
    BY <1>4
  <2>7. Q \in Seq(ShardNumbers)
    BY <1>4, <2>4
  <2> HIDE DEF Q
  <2>5. sendLock' \in Locks /\ sendLock'.holder = ChNone /\ sendLock'.remote = R
    BY <2>1, <2>7 DEF Locks
  <2> QED
    BY <1>2, <1>3, <2>3, <2>5, <2>6
<1>5. CASE Q # <<>>
  <2>1. sendLock' = [holder |-> Head(Q), queue |-> Tail(Q), remote |-> R]
    BY <1>5 DEF ChTypeOK, Passed, Locks
  <2>2. /\ Q \in Seq(ShardNumbers) /\ Len(Q) \in Nat /\ Len(Q) >= 1 /\ Head(Q) = Q[1]
        /\ Tail(Q) \in Seq(ShardNumbers) /\ Len(Tail(Q)) = Len(Q) - 1
        /\ \A i \in 1..Len(Tail(Q)) : Tail(Q)[i] = Q[i + 1]
        /\ DOMAIN Q = 1..Len(Q) /\ DOMAIN Tail(Q) = 1..Len(Tail(Q))
    BY <1>5 DEF ChTypeOK, Locks
  <2>3. Head(Q) \in ShardNumbers /\ Head(Q) # s /\ call[Head(Q)].pc = "await"
    BY <2>2 DEF LockInv
  <2>4. \A i \in 1..Len(Tail(Q)) :
          /\ Tail(Q)[i] \in ShardNumbers \ {s} /\ Tail(Q)[i] # Head(Q)
          /\ call[Tail(Q)[i]].pc = "await"
          /\ \A j \in 1..Len(Tail(Q)) : Tail(Q)[i] = Tail(Q)[j] => i = j
    <3> SUFFICES ASSUME NEW i \in 1..Len(Tail(Q))
                 PROVE  /\ Tail(Q)[i] \in ShardNumbers \ {s} /\ Tail(Q)[i] # Head(Q)
                        /\ call[Tail(Q)[i]].pc = "await"
                        /\ \A j \in 1..Len(Tail(Q)) : Tail(Q)[i] = Tail(Q)[j] => i = j
      OBVIOUS
    <3>1. i + 1 \in DOMAIN Q /\ 1 \in DOMAIN Q /\ Tail(Q)[i] = Q[i + 1]
      BY <2>2
    <3>2. \A j \in 1..Len(Tail(Q)) : j + 1 \in DOMAIN Q /\ Tail(Q)[j] = Q[j + 1]
      BY <2>2
    <3> QED
      BY <2>2, <3>1, <3>2 DEF LockInv
  <2> DEFINE T == Tail(Q)
  <2>0. /\ sendLock'.holder = Head(Q) /\ sendLock'.queue = T /\ sendLock'.remote = R
    <3> HIDE DEF Q
    <3> QED
      BY <2>1
  <2>6. /\ \A i \in DOMAIN T : /\ T[i] \in ShardNumbers \ {s} /\ T[i] # Head(Q)
                               /\ call[T[i]].pc = "await"
                               /\ \A j \in DOMAIN T : T[i] = T[j] => i = j
        /\ \A i \in 1..Len(T) : T[i] = Q[i + 1] /\ i \in DOMAIN T
        /\ T \in Seq(ShardNumbers)
    <3> HIDE DEF T, Q
    <3>1. DOMAIN T = 1..Len(T) /\ T \in Seq(ShardNumbers)
      BY <2>2 DEF T
    <3>2. \A i \in 1..Len(T) : T[i] = Q[i + 1]
      BY <2>2 DEF T
    <3>3. \A i \in 1..Len(T) : /\ T[i] \in ShardNumbers \ {s} /\ T[i] # Head(Q)
                               /\ call[T[i]].pc = "await"
                               /\ \A j \in 1..Len(T) : T[i] = T[j] => i = j
      BY <2>4 DEF T
    <3> QED
      BY <3>1, <3>2, <3>3
  <2> HIDE DEF Q, T
  <2>5. LockInv'
    <3>1. ASSUME NEW t \in ShardNumbers, call'[t] # Idle
          PROVE  /\ t \in Shards' /\ sendLock'.holder # ChNone
                 /\ tenant' # ChNone /\ tenant'.count = ChCounts[count']
                 /\ t \in DOMAIN tenant'.shards
      BY <1>1, <1>2, <2>1, <2>3, <3>1 DEF LockInv
    <3>0. ASSUME NEW t \in ShardNumbers, call'[t].pc = "await"
          PROVE  sendLock'.holder = t \/ \E i \in DOMAIN sendLock'.queue : sendLock'.queue[i] = t
      <4>1. t # s /\ call[t].pc = "await"
        BY <1>2, <3>0 DEF Idle
      <4>2. PICK i \in DOMAIN Q : Q[i] = t
        BY <4>1 DEF LockInv, Q
      <4>3. CASE i = 1
        BY <2>1, <2>2, <4>2, <4>3
      <4>4. CASE i # 1
        <5>1. i - 1 \in 1..Len(Tail(Q)) /\ (i - 1) + 1 = i
          BY <2>2, <4>4
        <5> QED
          BY <2>0, <2>6, <4>2, <5>1 DEF T
      <4> QED
        BY <4>3, <4>4
    <3>2. call'[sendLock'.holder] # Idle
      BY <1>2, <2>1, <2>3 DEF Idle
    <3>3. \A i \in DOMAIN sendLock'.queue :
            /\ call'[sendLock'.queue[i]].pc = "await" /\ sendLock'.queue[i] # sendLock'.holder
            /\ \A j \in DOMAIN sendLock'.queue : sendLock'.queue[i] = sendLock'.queue[j] => i = j
      BY <1>2, <2>0, <2>6
    <3> QED
      BY <1>3, <3>0, <3>1, <3>2, <3>3 DEF LockInv
  <2> QED
    <3>1. sendLock'.holder # ChNone /\ sendLock' \in Locks
      <4>1. sendLock' = [holder |-> Head(Q), queue |-> T, remote |-> R]
        BY <2>1 DEF T
      <4> QED
        BY <1>1, <2>3, <2>6, <4>1 DEF Locks
    <3> QED
      BY <1>2, <1>3, <2>0, <2>5, <2>6, <3>1, Zenon
<1> QED
  BY <1>4, <1>5

(* notify_prepare leaves an entry of the present shard count that has the  *)
(* shard, and forgets no other unless it resets.                           *)
LEMMA UpdateFacts ==
  ASSUME ChTypeOK, KnownInv, NEW s \in Shards, NEW n \in ChNodes
  PROVE  /\ Update(s, n) \in Tenants /\ Update(s, n).count = ChCounts[count]
         /\ s \in DOMAIN Update(s, n).shards /\ DOMAIN Update(s, n).shards \subseteq Shards
         /\ ~Resets => tenant \in Tenants /\ DOMAIN tenant.shards \subseteq DOMAIN Update(s, n).shards
<1>1. ChCounts[count] \in Nat /\ s \in ShardNumbers /\ Shards \subseteq ShardNumbers
  BY ShardFacts DEF ChTypeOK
<1>2. CASE Resets
  <2>1. Update(s, n) = [count |-> ChCounts[count], shards |-> [t \in {s} |-> n]]
    BY <1>2 DEF Update
  <2>2. [t \in {s} |-> n] \in UNION {[D -> ChNodes] : D \in SUBSET ShardNumbers}
    <3>1. [t \in {s} |-> n] \in [{s} -> ChNodes] /\ {s} \in SUBSET ShardNumbers
      BY <1>1
    <3> QED
      BY <3>1
  <2> QED
    BY <1>1, <1>2, <2>1, <2>2 DEF Tenants
<1>3. CASE ~Resets
  <2>1. tenant \in Tenants /\ tenant.count = ChCounts[count] /\ DOMAIN tenant.shards \subseteq Shards
    BY <1>3 DEF Resets, ChTypeOK, KnownInv, Shards
  <2> DEFINE F == [t \in DOMAIN tenant.shards \cup {s} |-> IF t = s THEN n ELSE tenant.shards[t]]
  <2>2. Update(s, n) = [count |-> tenant.count, shards |-> F]
    BY <1>3, <2>1 DEF Update, Tenants
  <2>3. PICK D \in SUBSET ShardNumbers : tenant.shards \in [D -> ChNodes]
    BY <2>1 DEF Tenants
  <2>4. DOMAIN tenant.shards = D /\ F \in [D \cup {s} -> ChNodes] /\ D \cup {s} \in SUBSET ShardNumbers
    BY <1>1, <2>3
  <2>5. F \in UNION {[E -> ChNodes] : E \in SUBSET ShardNumbers} /\ DOMAIN F = D \cup {s}
    BY <2>4
  <2> HIDE DEF F
  <2> QED
    BY <1>1, <2>1, <2>2, <2>4, <2>5 DEF Tenants
<1> QED
  BY <1>2, <1>3

(* The end of a call keeps the invariant if what it remembers is applied   *)
(* and it does not succeed while its update is neither applied nor waited  *)
(* for by somebody else.                                                   *)
LEMMA HandOverKeeps ==
  ASSUME ChInv, NEW s \in ShardNumbers, sendLock.holder = s, NEW res \in {"ok", "err"},
         NEW R \in Remotes, Return(s, res), sendLock' = Passed([sendLock EXCEPT !.remote = R]),
         UNCHANGED <<count, tenant>>,
         cplane' \in [stored : Tenants \union {ChNone}, applied : Tenants \union {ChNone}],
         R # ChNone /\ R.applied => cplane'.stored = R.request /\ cplane'.applied = R.request,
         /\ res = "ok" /\ sendLock.queue = <<>>
         /\ \A t \in Shards \ {s} : last[t] = "ok"
         => cplane'.stored = tenant /\ cplane'.applied = tenant
  PROVE  ChInv'
<1>0. /\ ChTypeOK /\ LockInv /\ KnownInv /\ ChNone \notin ShardNumbers
      /\ Shards \subseteq ShardNumbers /\ Shards' = Shards
  BY ShardFacts DEF ChInv, ChTypeOK, Shards
<1>1. /\ sendLock' \in Locks /\ call' \in [ShardNumbers -> Calls]
      /\ last' \in [ShardNumbers -> {ChNone, "ok", "err"}]
      /\ LockInv'
      /\ sendLock'.remote = R
      /\ sendLock'.holder = ChNone => sendLock.queue = <<>>
      /\ \A t \in ShardNumbers : call'[t].pc # "send"
      /\ last'[s] = res /\ call'[s] = Idle
      /\ \A t \in ShardNumbers \ {s} : last'[t] = last[t] /\ call'[t] = call[t]
  BY <1>0, HandOver
<1>2. ChTypeOK'
  BY <1>0, <1>1 DEF ChTypeOK
<1>3. RemoteInv'
  BY <1>1 DEF RemoteInv
<1>4. call[s] # Idle
  BY <1>0 DEF LockInv
<1>5. KnownInv'
  <2>1. /\ s \in Shards /\ tenant # ChNone /\ tenant.count = ChCounts[count]
        /\ s \in DOMAIN tenant.shards
    BY <1>0, <1>4 DEF LockInv
  <2> QED
    BY <1>0, <1>1, <2>1 DEF KnownInv
<1>6. SentInv'
  <2>1. s \in Shards
    BY <1>0, <1>4 DEF LockInv
  <2>2. ASSUME sendLock'.holder = ChNone, \A t \in Shards : last'[t] = "ok"
        PROVE  cplane'.stored = tenant' /\ cplane'.applied = tenant'
    BY <1>0, <1>1, <2>1, <2>2
  <2> QED
    BY <1>0, <1>1, <2>2 DEF SentInv
<1> QED
  BY <1>1, <1>2, <1>3, <1>5, <1>6 DEF ChInv

(* A waiter gets the lock and finds that there is nothing left to send, or *)
(* sends the entry as it is now.                                           *)
LEMMA LockGrantedKeeps == ASSUME ChInv, NEW s \in ShardNumbers, LockGranted(s) PROVE ChInv'
<1>0. /\ ChTypeOK /\ LockInv /\ KnownInv /\ RemoteInv /\ SentInv /\ ChNone \notin ShardNumbers
      /\ Shards \subseteq ShardNumbers /\ sendLock.holder = s /\ call[s].pc = "await"
      /\ tenant # ChNone /\ tenant \in Tenants /\ tenant.count = ChCounts[count] /\ s \in Shards
      /\ s \in DOMAIN tenant.shards /\ UNCHANGED <<count, tenant, cplane>>
  BY ShardFacts DEF ChInv, ChTypeOK, LockGranted, LockInv, Idle
<1>1. CASE NothingToSend(tenant, sendLock.remote)
  <2>1. Return(s, "ok") /\ sendLock' = Passed([sendLock EXCEPT !.remote = sendLock.remote])
    <3>1. [sendLock EXCEPT !.remote = sendLock.remote] = sendLock
      BY <1>0 DEF ChTypeOK, Locks
    <3> QED
      BY <1>1, <3>1 DEF LockGranted
  <2>2. ASSUME \A t \in Shards \ {s} : last[t] = "ok"
        PROVE  cplane.stored = tenant /\ cplane.applied = tenant
    <3>1. DOMAIN tenant.shards = 1..tenant.count
      BY <1>0, <2>2 DEF KnownInv, Shards
    <3> QED
      BY <1>0, <1>1, <3>1 DEF NothingToSend, AllShardsKnown, RemoteMatches, RemoteInv
  <2>3. sendLock.remote \in Remotes /\ cplane' = cplane
        /\ cplane \in [stored : Tenants \union {ChNone}, applied : Tenants \union {ChNone}]
    BY <1>0 DEF ChTypeOK, Locks
  <2> QED
    BY <1>0, <2>1, <2>2, <2>3, HandOverKeeps DEF RemoteInv
<1>2. CASE ~NothingToSend(tenant, sendLock.remote)
  <2>1. /\ call' = [call EXCEPT ![s] = [pc |-> "send", request |-> tenant]]
        /\ UNCHANGED <<count, tenant, cplane, sendLock, last>> /\ Shards' = Shards
    BY <1>0, <1>2 DEF LockGranted, Shards
  <2>2. call' \in [ShardNumbers -> Calls]
    <3>1. [pc |-> "send", request |-> tenant] \in Calls
      BY <1>0 DEF Calls
    <3> QED
      BY <1>0, <2>1, <3>1 DEF ChTypeOK
  <2>3. /\ call'[s] # Idle /\ call'[s].pc = "send" /\ call'[s].request = tenant
        /\ \A t \in ShardNumbers \ {s} : call'[t] = call[t]
    BY <1>0, <2>1 DEF ChTypeOK, Idle
  <2>4. ChTypeOK' /\ RemoteInv' /\ KnownInv'
    BY <1>0, <2>1, <2>2 DEF ChTypeOK, RemoteInv, KnownInv
  <2>5. LockInv'
    BY <1>0, <2>1, <2>3 DEF LockInv, ChTypeOK, Locks
  <2>6. SentInv'
    BY <1>0, <2>1, <2>3 DEF SentInv, LockInv
  <2> QED
    BY <2>4, <2>5, <2>6 DEF ChInv
<1> QED
  BY <1>1, <1>2

(* The control plane's answers, and the lack of one.                       *)
LEMMA SendKeeps ==
  ASSUME ChInv, NEW s \in ShardNumbers, SendOk(s) \/ SendBusy(s) \/ SendFails(s) PROVE ChInv'
<1> DEFINE r == call[s].request
<1>0. /\ ChTypeOK /\ LockInv /\ SentInv /\ RemoteInv /\ sendLock.holder = s /\ r \in Tenants
      /\ call[s].pc = "send" /\ call[s] # Idle /\ UNCHANGED <<count, tenant>>
      /\ ChNone \in Remotes /\ Shards \subseteq ShardNumbers
  BY ShardFacts DEF ChInv, ChTypeOK, SendOk, SendBusy, SendFails, Done, LockInv, Calls, Idle, Remotes
<1>1. CASE SendOk(s)
  <2>1. /\ cplane' = [stored |-> r, applied |-> r] /\ Return(s, "ok")
        /\ sendLock' = Passed([sendLock EXCEPT !.remote = [request |-> r, applied |-> TRUE]])
    BY <1>1 DEF SendOk, Done
  <2>2. ASSUME sendLock.queue = <<>>, \A t \in Shards \ {s} : last[t] = "ok" PROVE r = tenant
    BY <1>0, <2>2 DEF SentInv, Unsettled
  <2> HIDE DEF r
  <2>3. [request |-> r, applied |-> TRUE] \in Remotes
    BY <1>0 DEF Remotes
  <2> QED
    BY <1>0, <2>1, <2>2, <2>3, HandOverKeeps
<1>2. CASE SendBusy(s)
  <2>1. /\ cplane' = [cplane EXCEPT !.stored = r] /\ Return(s, "err")
        /\ sendLock' = Passed([sendLock EXCEPT !.remote = [request |-> r, applied |-> FALSE]])
    BY <1>2 DEF SendBusy, Done
  <2> HIDE DEF r
  <2>2. cplane' \in [stored : Tenants \union {ChNone}, applied : Tenants \union {ChNone}]
    BY <1>0, <2>1 DEF ChTypeOK
  <2>3. [request |-> r, applied |-> FALSE] \in Remotes
    BY <1>0 DEF Remotes
  <2> QED
    BY <1>0, <2>1, <2>2, <2>3, HandOverKeeps
<1>3. CASE SendFails(s)
  <2>1. /\ \/ cplane' = cplane \/ cplane' = [cplane EXCEPT !.stored = r]
           \/ cplane' = [stored |-> r, applied |-> r]
        /\ Return(s, "err") /\ sendLock' = Passed([sendLock EXCEPT !.remote = ChNone])
    BY <1>3 DEF SendFails, Done, AfterError
  <2> HIDE DEF r
  <2>2. cplane' \in [stored : Tenants \union {ChNone}, applied : Tenants \union {ChNone}]
    BY <1>0, <2>1 DEF ChTypeOK
  <2> QED
    BY <1>0, <2>1, <2>2, HandOverKeeps
<1> QED
  BY <1>1, <1>2, <1>3

(* notify(): the entry is updated, and the caller waits, returns or sends. *)
LEMMA NotifyKeeps ==
  ASSUME ChInv, NEW s \in ShardNumbers, NEW n \in ChNodes, NotifyShard(s, n) PROVE ChInv'
<1> DEFINE L == IF Resets THEN Open ELSE sendLock
           U == Update(s, n)
<1>0. /\ ChTypeOK /\ LockInv /\ KnownInv /\ RemoteInv /\ SentInv /\ ChNone \notin ShardNumbers
      /\ Shards \subseteq ShardNumbers /\ s \in Shards /\ call[s] = Idle /\ tenant' = U
      /\ UNCHANGED <<count, cplane>> /\ Shards' = Shards
  BY ShardFacts DEF ChInv, ChTypeOK, NotifyShard, Shards
<1>1. /\ U \in Tenants /\ U.count = ChCounts[count] /\ U # ChNone
      /\ s \in DOMAIN U.shards /\ DOMAIN U.shards \subseteq Shards
      /\ ~Resets => tenant \in Tenants /\ DOMAIN tenant.shards \subseteq DOMAIN U.shards
  BY <1>0, UpdateFacts, ComputeHookAssumption
<1>2. Resets => /\ \A t \in ShardNumbers : call[t] = Idle
                /\ \A t \in Shards : last[t] # "ok"
                /\ L = Open
  BY <1>0 DEF Resets, LockInv, KnownInv
<1>3. /\ L \in Locks
      /\ L.remote # ChNone /\ L.remote.applied =>
           cplane.stored = L.remote.request /\ cplane.applied = L.remote.request
      /\ \A t \in ShardNumbers : /\ call[t].pc = "send" => L.holder = t
                                 /\ call[t].pc = "await" =>
                                      L.holder = t \/ \E i \in DOMAIN L.queue : L.queue[i] = t
                                 /\ call[t] # Idle => t \in Shards /\ L.holder # ChNone
                                                      /\ t \in DOMAIN U.shards
      /\ L.holder # ChNone => call[L.holder] # Idle
      /\ \A i \in DOMAIN L.queue :
           /\ call[L.queue[i]].pc = "await" /\ L.queue[i] # L.holder
           /\ \A j \in DOMAIN L.queue : L.queue[i] = L.queue[j] => i = j
      /\ \A t \in Shards : last[t] = "ok" => t \in DOMAIN U.shards
  <2>1. CASE Resets
    <3>1. Open \in Locks /\ Open.holder = ChNone /\ Open.remote = ChNone /\ DOMAIN Open.queue = {}
      BY DEF Open, Locks, Remotes
    <3> HIDE DEF L
    <3> QED
      BY <1>2, <2>1, <3>1 DEF Idle
  <2>2. CASE ~Resets
    <3>1. L = sendLock
      BY <2>2
    <3> HIDE DEF L, U
    <3> QED
      BY <1>0, <1>1, <2>2, <3>1 DEF ChTypeOK, RemoteInv, LockInv, KnownInv
  <2> QED
    BY <2>1, <2>2
<1>4. \/ /\ L.holder # ChNone
         /\ sendLock' = [L EXCEPT !.queue = Append(@, s)]
         /\ call' = [call EXCEPT ![s] = [pc |-> "await"]] /\ UNCHANGED last
      \/ /\ L.holder = ChNone /\ NothingToSend(U, L.remote)
         /\ sendLock' = L /\ Return(s, "ok")
      \/ /\ L.holder = ChNone /\ ~NothingToSend(U, L.remote)
         /\ sendLock' = [L EXCEPT !.holder = s]
         /\ call' = [call EXCEPT ![s] = [pc |-> "send", request |-> U]] /\ UNCHANGED last
  BY <1>0 DEF NotifyShard
<1>9. ASSUME call' \in [ShardNumbers -> Calls], sendLock' \in Locks, last' \in [ShardNumbers -> {ChNone, "ok", "err"}],
             sendLock'.remote = L.remote,
             \A t \in ShardNumbers \ {s} : last'[t] = last[t]
      PROVE  ChTypeOK' /\ RemoteInv' /\ KnownInv'
  <2> HIDE DEF L, U
  <2>1. ChTypeOK'
    BY <1>0, <1>1, <1>9 DEF ChTypeOK
  <2>2. RemoteInv'
    BY <1>0, <1>3, <1>9 DEF RemoteInv
  <2>3. KnownInv'
    BY <1>0, <1>1, <1>3, <1>9 DEF KnownInv, Shards
  <2> QED
    BY <2>1, <2>2, <2>3
<1> HIDE DEF L, U
<1>5. CASE /\ L.holder # ChNone
           /\ sendLock' = [L EXCEPT !.queue = Append(@, s)]
           /\ call' = [call EXCEPT ![s] = [pc |-> "await"]] /\ UNCHANGED last
  <2> DEFINE A == Append(L.queue, s)
  <2>1. /\ call' \in [ShardNumbers -> Calls] /\ call'[s] = [pc |-> "await"]
        /\ \A t \in ShardNumbers \ {s} : call'[t] = call[t]
    BY <1>0, <1>5 DEF ChTypeOK, Calls
  <2>2. /\ L.queue \in Seq(ShardNumbers) /\ A \in Seq(ShardNumbers) /\ DOMAIN A = 1..(Len(L.queue) + 1)
        /\ DOMAIN L.queue = 1..Len(L.queue) /\ Len(L.queue) \in Nat
        /\ A[Len(L.queue) + 1] = s /\ \A i \in 1..Len(L.queue) : A[i] = L.queue[i]
    BY <1>0, <1>3 DEF Locks
  <2>3. /\ sendLock' \in Locks /\ sendLock'.queue = A /\ sendLock'.holder = L.holder
        /\ sendLock'.remote = L.remote
    <3> HIDE DEF A
    <3>1. sendLock' = [holder |-> L.holder, queue |-> A, remote |-> L.remote]
      BY <1>3, <1>5 DEF A, Locks
    <3> QED
      BY <1>3, <2>2, <3>1 DEF Locks
  <2>4. ChTypeOK' /\ RemoteInv' /\ KnownInv'
    BY <1>0, <1>5, <1>9, <2>1, <2>3 DEF ChTypeOK
  <2>5. \A i \in DOMAIN L.queue : L.queue[i] # s
    BY <1>0, <1>3 DEF Idle
  <2> HIDE DEF A
  <2>6. LockInv'
    <3>1. \A t \in ShardNumbers :
            /\ call'[t].pc = "send" => sendLock'.holder = t
            /\ call'[t].pc = "await" =>
                 sendLock'.holder = t \/ \E i \in DOMAIN sendLock'.queue : sendLock'.queue[i] = t
            /\ call'[t] # Idle => /\ t \in Shards' /\ sendLock'.holder # ChNone
                                  /\ tenant' # ChNone /\ tenant'.count = ChCounts[count']
                                  /\ t \in DOMAIN tenant'.shards
      <4> SUFFICES ASSUME NEW t \in ShardNumbers
                   PROVE  /\ call'[t].pc = "send" => sendLock'.holder = t
                          /\ call'[t].pc = "await" => sendLock'.holder = t
                               \/ \E i \in DOMAIN sendLock'.queue : sendLock'.queue[i] = t
                          /\ call'[t] # Idle => /\ t \in Shards' /\ sendLock'.holder # ChNone
                                  /\ tenant' # ChNone /\ tenant'.count = ChCounts[count']
                                  /\ t \in DOMAIN tenant'.shards
        OBVIOUS
      <4>1. CASE t = s
        <5>1. \E i \in DOMAIN A : A[i] = s
          BY <2>2
        <5> QED
          BY <1>0, <1>1, <1>5, <2>1, <2>3, <4>1, <5>1
      <4>2. CASE t # s
        <5>1. \A i \in DOMAIN L.queue : i \in DOMAIN A /\ A[i] = L.queue[i]
          BY <2>2
        <5> QED
          BY <1>0, <1>1, <1>3, <1>5, <2>1, <2>3, <4>2, <5>1
      <4> QED
        BY <4>1, <4>2
    <3>2. sendLock'.holder # ChNone => call'[sendLock'.holder] # Idle
      BY <1>0, <1>3, <2>1, <2>3 DEF Locks
    <3>3. \A i \in DOMAIN A : /\ call'[A[i]].pc = "await" /\ A[i] # L.holder
                              /\ \A j \in DOMAIN A : A[i] = A[j] => i = j
      <4>1. L.holder # s
        BY <1>0, <1>3, <1>5
      <4>2. \A i \in DOMAIN A : i \in DOMAIN L.queue \/ i = Len(L.queue) + 1
        BY <2>2
      <4>3. \A i \in DOMAIN L.queue : A[i] = L.queue[i] /\ L.queue[i] \in ShardNumbers \ {s}
        BY <2>2, <2>5
      <4> QED
        BY <1>3, <2>1, <2>2, <4>1, <4>2, <4>3
    <3> QED
      BY <2>3, <3>1, <3>2, <3>3 DEF LockInv
  <2>7. SentInv'
    <3>1. sendLock'.queue # <<>> /\ sendLock'.holder # ChNone
      BY <1>5, <2>2, <2>3
    <3> QED
      BY <3>1 DEF SentInv
  <2> QED
    BY <2>4, <2>6, <2>7 DEF ChInv
<1>6. CASE /\ L.holder = ChNone /\ NothingToSend(U, L.remote)
           /\ sendLock' = L /\ Return(s, "ok")
  <2>1. /\ last' = [last EXCEPT ![s] = "ok"] /\ call' = call
    BY <1>0, <1>6 DEF Return, ChTypeOK
  <2>2. /\ last' \in [ShardNumbers -> {ChNone, "ok", "err"}]
        /\ \A t \in ShardNumbers \ {s} : last'[t] = last[t]
    BY <1>0, <2>1 DEF ChTypeOK
  <2>3. ChTypeOK' /\ RemoteInv' /\ KnownInv'
    BY <1>0, <1>3, <1>6, <1>9, <2>1, <2>2 DEF ChTypeOK
  <2>4. \A t \in ShardNumbers : call[t] = Idle
    BY <1>3, <1>6
  <2>5. LockInv'
    BY <1>3, <1>6, <2>1, <2>4 DEF LockInv, Idle
  <2>6. SentInv'
    <3>1. \A t \in ShardNumbers : call'[t].pc # "send"
      BY <2>1, <2>4 DEF Idle
    <3>2. ASSUME \A t \in Shards : last'[t] = "ok" PROVE cplane.stored = U /\ cplane.applied = U
      <4>0. \A t \in Shards : t \in DOMAIN U.shards
        BY <1>0, <1>1, <1>3, <2>2, <3>2
      <4>1. DOMAIN U.shards = 1..U.count
        BY <1>1, <4>0 DEF Shards
      <4> QED
        BY <1>3, <1>6, <4>1 DEF NothingToSend, AllShardsKnown, RemoteMatches
    <3> QED
      BY <1>0, <3>1, <3>2 DEF SentInv
  <2> QED
    BY <2>3, <2>5, <2>6 DEF ChInv
<1>7. CASE /\ L.holder = ChNone /\ ~NothingToSend(U, L.remote)
           /\ sendLock' = [L EXCEPT !.holder = s]
           /\ call' = [call EXCEPT ![s] = [pc |-> "send", request |-> U]] /\ UNCHANGED last
  <2>1. /\ call' \in [ShardNumbers -> Calls] /\ call'[s] = [pc |-> "send", request |-> U]
        /\ \A t \in ShardNumbers \ {s} : call'[t] = call[t]
    <3>1. [pc |-> "send", request |-> U] \in Calls
      BY <1>1 DEF Calls
    <3> QED
      BY <1>0, <1>7, <3>1 DEF ChTypeOK
  <2>2. /\ sendLock' \in Locks /\ sendLock'.queue = L.queue /\ sendLock'.holder = s
        /\ sendLock'.remote = L.remote
    BY <1>0, <1>3, <1>7 DEF Locks
  <2>3. ChTypeOK' /\ RemoteInv' /\ KnownInv'
    BY <1>0, <1>7, <1>9, <2>1, <2>2 DEF ChTypeOK
  <2>4. \A t \in ShardNumbers \ {s} : call'[t] = Idle
    BY <1>3, <1>7, <2>1
  <2>5. DOMAIN L.queue = {}
    <3> SUFFICES ASSUME NEW i \in DOMAIN L.queue PROVE FALSE
      OBVIOUS
    <3>1. L.queue[i] \in ShardNumbers
      BY <1>3 DEF Locks
    <3> QED
      BY <1>3, <1>7, <3>1 DEF Idle
  <2>6. LockInv'
    BY <1>0, <1>1, <2>1, <2>2, <2>4, <2>5 DEF LockInv, Idle
  <2>7. SentInv'
    BY <1>0, <2>1, <2>2, <2>4 DEF SentInv, Idle
  <2> QED
    BY <2>3, <2>6, <2>7 DEF ChInv
<1> QED
  BY <1>4, <1>5, <1>6, <1>7

(* A waiter is cancelled: its call has failed, so that the shard is        *)
(* unsettled.                                                              *)
LEMMA CancelKeeps == ASSUME ChInv, NEW s \in ShardNumbers, CancelWait(s) PROVE ChInv'
<1> DEFINE Q == sendLock.queue
<1>0. /\ ChTypeOK /\ LockInv /\ KnownInv /\ RemoteInv /\ SentInv /\ ChNone \notin ShardNumbers
      /\ Shards \subseteq ShardNumbers /\ call[s].pc = "await" /\ sendLock.holder # s
      /\ UNCHANGED <<count, tenant, cplane>> /\ Shards' = Shards
      /\ call' = [call EXCEPT ![s] = Idle] /\ last' = [last EXCEPT ![s] = "err"]
  BY ShardFacts DEF ChInv, ChTypeOK, CancelWait, Shards, Return
<1>1. PICK i \in DOMAIN Q : Q[i] = s /\ sendLock' = [sendLock EXCEPT !.queue = RemoveAt(@, i)]
  BY DEF CancelWait
<1> DEFINE T == RemoveAt(Q, i)
           Old(k) == IF k < i THEN k ELSE k + 1
<1>2. /\ Q \in Seq(ShardNumbers) /\ Len(Q) \in Nat /\ DOMAIN Q = 1..Len(Q) /\ i \in 1..Len(Q)
  BY <1>0, <1>1 DEF ChTypeOK, Locks
<1>3. /\ T \in Seq(ShardNumbers) /\ Len(T) = Len(Q) - 1 /\ DOMAIN T = 1..(Len(Q) - 1)
      /\ \A k \in 1..(Len(Q) - 1) : T[k] = Q[Old(k)]
  <2> HIDE DEF Q
  <2>1. SubSeq(Q, 1, i - 1) \in Seq(ShardNumbers) /\ SubSeq(Q, i + 1, Len(Q)) \in Seq(ShardNumbers)
    BY <1>2
  <2>2. Len(SubSeq(Q, 1, i - 1)) = i - 1 /\ Len(SubSeq(Q, i + 1, Len(Q))) = Len(Q) - i
    BY <1>2
  <2>3. T \in Seq(ShardNumbers) /\ Len(T) = Len(Q) - 1
    BY <1>2, <2>1, <2>2 DEF RemoveAt
  <2>4. ASSUME NEW k \in 1..(Len(Q) - 1) PROVE T[k] = Q[Old(k)]
    <3> DEFINE B == SubSeq(Q, 1, i - 1)
               E == SubSeq(Q, i + 1, Len(Q))
    <3>1. /\ \A m \in 1..(i - 1) : B[m] = Q[m]
          /\ \A m \in 1..(Len(Q) - i) : E[m] = Q[m + i]
      BY <1>2
    <3>2. B \in Seq(ShardNumbers) /\ E \in Seq(ShardNumbers) /\ Len(B) = i - 1 /\ Len(E) = Len(Q) - i
          /\ T = B \o E
      BY <2>1, <2>2 DEF RemoveAt
    <3> HIDE DEF B, E, T
    <3>3. CASE k < i
      <4>1. T[k] = B[k]
        BY <1>2, <3>2, <3>3
      <4> QED
        BY <1>2, <3>1, <3>3, <4>1
    <3>4. CASE ~(k < i)
      <4>1. T[k] = E[k - (i - 1)] /\ k - (i - 1) \in 1..(Len(Q) - i) /\ (k - (i - 1)) + i = k + 1
        BY <1>2, <3>2, <3>4
      <4> QED
        BY <1>2, <3>1, <3>4, <4>1
    <3> QED
      BY <3>3, <3>4
  <2>5. DOMAIN T = 1..(Len(Q) - 1)
    BY <1>2, <2>3
  <2> QED
    BY <2>3, <2>4, <2>5
<1>4. \A k \in DOMAIN T : /\ Old(k) \in DOMAIN Q /\ Old(k) # i /\ T[k] = Q[Old(k)]
                          /\ \A j \in DOMAIN T : Old(k) = Old(j) => k = j
  BY <1>2, <1>3
<1>5. \A m \in DOMAIN Q : m # i => \E k \in DOMAIN T : Old(k) = m
  <2> SUFFICES ASSUME NEW m \in DOMAIN Q, m # i PROVE \E k \in DOMAIN T : Old(k) = m
    OBVIOUS
  <2>1. CASE m < i
    <3>1. m \in DOMAIN T /\ Old(m) = m
      BY <1>2, <1>3, <2>1
    <3> QED
      BY <3>1
  <2>2. CASE m > i
    <3>1. m - 1 \in DOMAIN T /\ Old(m - 1) = m
      BY <1>2, <1>3, <2>2
    <3> QED
      BY <3>1
  <2> QED
    BY <1>2, <2>1, <2>2
<1>6. sendLock' = [sendLock EXCEPT !.queue = T]
  BY <1>1
<1> HIDE DEF Q, T, Old
<1>7. /\ sendLock' \in Locks /\ sendLock'.queue = T /\ sendLock'.holder = sendLock.holder
      /\ sendLock'.remote = sendLock.remote
  BY <1>0, <1>3, <1>6 DEF ChTypeOK, Locks
<1>8. /\ call' \in [ShardNumbers -> Calls] /\ call'[s] = Idle /\ last'[s] = "err"
      /\ last' \in [ShardNumbers -> {ChNone, "ok", "err"}]
      /\ \A t \in ShardNumbers \ {s} : call'[t] = call[t] /\ last'[t] = last[t]
  BY <1>0 DEF ChTypeOK, Calls
<1>9. call[s] # Idle /\ s \in Shards
  BY <1>0 DEF LockInv, Idle
<1>10. ChTypeOK' /\ RemoteInv' /\ KnownInv'
  <2>1. ChTypeOK'
    BY <1>0, <1>7, <1>8 DEF ChTypeOK
  <2>2. RemoteInv'
    BY <1>0, <1>7 DEF RemoteInv
  <2>3. KnownInv'
    BY <1>0, <1>8 DEF KnownInv
  <2> QED
    BY <2>1, <2>2, <2>3
<1>11. LockInv'
  <2>1. ASSUME NEW t \in ShardNumbers
        PROVE  /\ call'[t].pc = "send" => sendLock'.holder = t
               /\ call'[t].pc = "await" =>
                    sendLock'.holder = t \/ \E k \in DOMAIN T : T[k] = t
               /\ call'[t] # Idle => /\ t \in Shards /\ sendLock'.holder # ChNone
                                     /\ tenant # ChNone /\ tenant.count = ChCounts[count]
                                     /\ t \in DOMAIN tenant.shards
    <3>1. CASE t = s
      BY <1>8, <3>1 DEF Idle
    <3>2. CASE t # s
      <4>1. \A m \in DOMAIN Q : Q[m] = t => \E k \in DOMAIN T : T[k] = t
        BY <1>1, <1>4, <1>5, <3>2
      <4> QED
        BY <1>0, <1>7, <1>8, <3>2, <4>1 DEF LockInv, Q
    <3> QED
      BY <3>1, <3>2
  <2>2. sendLock'.holder # ChNone => call'[sendLock'.holder] # Idle
    BY <1>0, <1>7, <1>8 DEF LockInv, ChTypeOK, Locks
  <2>3. ASSUME NEW k \in DOMAIN T
        PROVE  /\ call'[T[k]].pc = "await" /\ T[k] # sendLock'.holder
               /\ \A j \in DOMAIN T : T[k] = T[j] => k = j
    <3>1. /\ \A m \in DOMAIN Q : call[Q[m]].pc = "await" /\ Q[m] # sendLock.holder
          /\ \A m, j \in DOMAIN Q : Q[m] = Q[j] => m = j
      BY <1>0 DEF LockInv, Q
    <3>2. T[k] \in ShardNumbers \ {s}
      BY <1>1, <1>2, <1>4, <3>1
    <3> QED
      BY <1>4, <1>7, <1>8, <3>1, <3>2
  <2> QED
    BY <1>0, <1>7, <2>1, <2>2, <2>3 DEF LockInv
<1>12. SentInv'
  <2>1. Unsettled'
    BY <1>0, <1>8, <1>9 DEF Unsettled
  <2>2. sendLock'.holder # ChNone
    BY <1>0, <1>7, <1>9 DEF LockInv
  <2> QED
    BY <2>1, <2>2 DEF SentInv
<1> QED
  BY <1>10, <1>11, <1>12 DEF ChInv

(* A shard is detached: the entry that goes away had no call under way.    *)
LEMMA DetachKeeps == ASSUME ChInv, NEW s \in ShardNumbers, HandleDetach(s) PROVE ChInv'
<1>0. /\ ChTypeOK /\ LockInv /\ KnownInv /\ RemoteInv /\ SentInv /\ ChNone \notin ShardNumbers
      /\ Shards \subseteq ShardNumbers /\ s \in Shards /\ call[s] = Idle
      /\ UNCHANGED <<count, call, cplane>> /\ Shards' = Shards /\ tenant # ChNone
      /\ tenant \in Tenants /\ last' = [last EXCEPT ![s] = ChNone]
  BY ShardFacts DEF ChInv, ChTypeOK, HandleDetach, Shards
<1>1. /\ last' \in [ShardNumbers -> {ChNone, "ok", "err"}] /\ last'[s] # "ok"
      /\ \A t \in ShardNumbers \ {s} : last'[t] = last[t]
  BY <1>0, ComputeHookAssumption DEF ChTypeOK
<1>2. CASE tenant.count = 1
  <2>1. tenant' = ChNone /\ sendLock' = Open
    BY <1>2 DEF HandleDetach
  <2>2. \A t \in ShardNumbers : call[t] = Idle
    <3> SUFFICES ASSUME NEW t \in ShardNumbers, call[t] # Idle PROVE FALSE
      OBVIOUS
    <3>1. t \in Shards /\ ChCounts[count] = 1
      BY <1>0, <1>2 DEF LockInv
    <3> QED
      BY <1>0, <3>1 DEF Shards
  <2>3. Open \in Locks /\ Open.holder = ChNone /\ Open.remote = ChNone /\ DOMAIN Open.queue = {}
    BY DEF Open, Locks, Remotes
  <2>4. ChTypeOK'
    BY <1>0, <1>1, <2>1, <2>3 DEF ChTypeOK
  <2>5. LockInv'
    BY <1>0, <2>1, <2>2, <2>3 DEF LockInv, Idle
  <2>6. RemoteInv'
    BY <2>1, <2>3 DEF RemoteInv
  <2>7. \A t \in Shards : last'[t] # "ok"
    <3> SUFFICES ASSUME NEW t \in Shards, t # s, last[t] = "ok" PROVE FALSE
      BY <1>0, <1>1
    <3>1. ChCounts[count] = 1
      BY <1>0, <1>2 DEF KnownInv
    <3> QED
      BY <1>0, <3>1 DEF Shards
  <2>8. KnownInv'
    BY <1>0, <2>1, <2>7 DEF KnownInv
  <2>9. SentInv'
    BY <1>0, <1>1, <2>2 DEF SentInv, Idle
  <2> QED
    BY <2>4, <2>5, <2>6, <2>8, <2>9 DEF ChInv
<1>3. CASE tenant.count # 1
  <2> DEFINE F == [t \in DOMAIN tenant.shards \ {s} |-> tenant.shards[t]]
  <2>1. tenant' = [tenant EXCEPT !.shards = F] /\ sendLock' = sendLock
    BY <1>3 DEF HandleDetach
  <2>2. PICK D \in SUBSET ShardNumbers : tenant.shards \in [D -> ChNodes]
    BY <1>0 DEF Tenants
  <2>3. DOMAIN tenant.shards = D /\ F \in [D \ {s} -> ChNodes] /\ D \ {s} \in SUBSET ShardNumbers
    BY <2>2
  <2>4. F \in UNION {[E -> ChNodes] : E \in SUBSET ShardNumbers} /\ DOMAIN F = D \ {s}
    BY <2>3
  <2> HIDE DEF F
  <2>5. tenant' \in Tenants /\ tenant'.count = tenant.count /\ DOMAIN tenant'.shards = D \ {s}
    BY <1>0, <2>1, <2>4 DEF Tenants
  <2>6. tenant' # ChNone
    BY <2>5, ComputeHookAssumption
  <2>7. ChTypeOK'
    BY <1>0, <1>1, <2>1, <2>5 DEF ChTypeOK
  <2>8. LockInv'
    BY <1>0, <2>1, <2>3, <2>5, <2>6 DEF LockInv
  <2>9. RemoteInv'
    BY <1>0, <2>1 DEF RemoteInv
  <2>10. KnownInv'
    BY <1>0, <1>1, <2>3, <2>5, <2>6 DEF KnownInv
  <2>11. SentInv'
    <3>1. Unsettled'
      BY <1>0, <1>1 DEF Unsettled
    <3> QED
      BY <1>0, <1>1, <3>1 DEF SentInv
  <2> QED
    BY <2>7, <2>8, <2>9, <2>10, <2>11 DEF ChInv
<1> QED
  BY <1>2, <1>3

(* A split begins when no call is under way, and every child is unsettled. *)
LEMMA SplitKeeps == ASSUME ChInv, Split PROVE ChInv'
<1>0. /\ ChTypeOK /\ LockInv /\ KnownInv /\ RemoteInv /\ ChNone \notin ShardNumbers
      /\ \A s \in ShardNumbers : call[s] = Idle
      /\ UNCHANGED <<tenant, sendLock, call, cplane>> /\ last' = [s \in ShardNumbers |-> ChNone]
  BY ShardFacts DEF ChInv, ChTypeOK, Split
<1>1. count' \in DOMAIN ChCounts
  BY ComputeHookAssumption DEF ChInv, ChTypeOK, Split
<1>2. 1 \in Shards' /\ Shards' \subseteq ShardNumbers
  <2>1. \A c \in DOMAIN ChCounts : ChCounts[c] \in Nat \ {0} /\ ChCounts[c] <= ChCounts[Len(ChCounts)]
                                   /\ ChCounts[Len(ChCounts)] \in Nat
    <3> SUFFICES ASSUME NEW c \in DOMAIN ChCounts
                 PROVE  ChCounts[c] \in Nat \ {0} /\ ChCounts[c] <= ChCounts[Len(ChCounts)]
                        /\ ChCounts[Len(ChCounts)] \in Nat
      OBVIOUS
    <3>1. /\ c \in 1..Len(ChCounts) /\ Len(ChCounts) \in DOMAIN ChCounts /\ Len(ChCounts) \in Nat
          /\ ChCounts[c] \in Nat \ {0} /\ ChCounts[Len(ChCounts)] \in Nat \ {0}
      BY ComputeHookAssumption
    <3>2. CASE c = Len(ChCounts)
      BY <3>1, <3>2
    <3>3. CASE c # Len(ChCounts)
      <4>1. c < Len(ChCounts)
        BY <3>1, <3>3
      <4>2. ChCounts[c] < ChCounts[Len(ChCounts)]
        BY <3>1, <4>1, ComputeHookAssumption
      <4> QED
        BY <3>1, <4>2
    <3> QED
      BY <3>2, <3>3
  <2> QED
    BY <1>1, <2>1 DEF Shards, ShardNumbers
<1>3. \A s \in Shards' : last'[s] # "ok"
  BY <1>0, <1>2, ComputeHookAssumption
<1>4. ChTypeOK'
  BY <1>0, <1>1 DEF ChTypeOK
<1>5. LockInv' /\ RemoteInv' /\ KnownInv'
  BY <1>0, <1>3 DEF LockInv, RemoteInv, KnownInv, Idle
<1>6. SentInv'
  BY <1>0, <1>2, <1>3 DEF SentInv, Idle
<1> QED
  BY <1>4, <1>5, <1>6 DEF ChInv

(* Whatever the order of calls, answers, cancellations, detaches and       *)
(* splits, when every shard's last call of notify() has succeeded the      *)
(* computes use the latest locations of all shards.                        *)
THEOREM NoUpdateIsHidden == ChSpec => []NotifiedIsApplied
<1>1. ChInit => ChInv
  <2> SUFFICES ASSUME ChInit PROVE ChInv
    OBVIOUS
  <2>1. count \in DOMAIN ChCounts
    BY ComputeHookAssumption DEF ChInit
  <2>2. 1 \in Shards /\ ChNone \notin ShardNumbers /\ Shards \subseteq ShardNumbers
    BY <2>1, ShardFacts
  <2>3. Open \in Locks /\ Open.holder = ChNone /\ Open.remote = ChNone /\ DOMAIN Open.queue = {}
    BY DEF Open, Locks, Remotes
  <2>4. ChTypeOK
    BY <2>1, <2>3 DEF ChInit, ChTypeOK, Calls
  <2>5. LockInv /\ RemoteInv /\ KnownInv /\ SentInv
    BY <2>2, <2>3, ComputeHookAssumption
       DEF ChInit, LockInv, RemoteInv, KnownInv, SentInv, Idle
  <2> QED
    BY <2>4, <2>5 DEF ChInv
<1>2. ChInv /\ [ChNext]_chVars => ChInv'
  <2> SUFFICES ASSUME ChInv, [ChNext]_chVars PROVE ChInv'
    OBVIOUS
  <2>1. CASE CplaneApplies
    <3>1. /\ cplane' \in [stored : Tenants \union {ChNone}, applied : Tenants \union {ChNone}]
          /\ cplane'.stored = cplane.stored /\ cplane'.applied = cplane.stored
          /\ UNCHANGED <<count, tenant, sendLock, call, last, chBudget>> /\ Shards' = Shards
      BY <2>1 DEF CplaneApplies, ChInv, ChTypeOK, Shards
    <3>2. cplane.applied # cplane.stored
      BY <2>1 DEF CplaneApplies
    <3> QED
      BY <3>1, <3>2 DEF ChInv, ChTypeOK, LockInv, RemoteInv, KnownInv, SentInv, Unsettled
  <2>2. CASE UNCHANGED chVars
    BY <2>2 DEF chVars, ChInv, ChTypeOK, LockInv, RemoteInv, KnownInv, SentInv, Unsettled, Shards
  <2> QED
    BY <2>1, <2>2, NotifyKeeps, LockGrantedKeeps, CancelKeeps, SendKeeps, DetachKeeps, SplitKeeps
       DEF ChNext
<1>3. ChInv => NotifiedIsApplied
  <2> SUFFICES ASSUME ChInv, \A s \in Shards : call[s] = Idle /\ last[s] = "ok"
               PROVE  cplane.applied = tenant
    BY DEF NotifiedIsApplied
  <2>1. sendLock.holder = ChNone
    <3> SUFFICES ASSUME sendLock.holder # ChNone PROVE FALSE
      OBVIOUS
    <3>1. sendLock.holder \in ShardNumbers /\ call[sendLock.holder] # Idle
      BY DEF ChInv, ChTypeOK, Locks, LockInv
    <3> QED
      BY <3>1 DEF ChInv, LockInv
  <2> QED
    BY <2>1 DEF ChInv, SentInv
<1> QED
  BY <1>1, <1>2, <1>3, PTL DEF ChSpec

-----------------------------------------------------------------------------
(* SafekeeperOps, for any number of safekeepers and faults.                *)

OpSet   == [sk : SoSks, scope : {"timeline", "tenant"}, kind : {"pull", "delete"}, gen : {1, 2}]
TaskSet == [op : OpSet, pc : {"call", "downloaded", "answered", "row"}, cancelled : BOOLEAN]

SoTypeOK ==
  /\ row \in {"none", "live", "deleted"} /\ ops \subseteq OpSet /\ tasks \subseteq TaskSet
  /\ creation \in [pc : {"idle", "calls", "persist", "done", "failed"},
                   answer : [SoSks -> {"none", "ok", "err"}],
                   left : SUBSET SoSks, hung : SUBSET SoSks]
  /\ deletion \in [pc : {"idle", "mark", "persist", "done", "failed"},
                   scope : {"timeline", "tenant"}, todo : SUBSET SoSks]
  /\ stored \subseteq SoSks /\ tombstones \subseteq SoSks /\ raced \subseteq SoSks

(* Pulls are of the row's generation, deletions are kept with the highest. *)
KindInv ==
  /\ \A o \in ops : IF o.kind = "pull" THEN o.scope = "timeline" /\ o.gen = 1 ELSE o.gen = 2
  /\ \A t \in tasks : IF t.op.kind = "pull"
                      THEN t.op.scope = "timeline" /\ t.op.gen = 1 /\ t.pc # "row"
                      ELSE t.pc # "downloaded"

(* A deletion is asked for when the creation is over, and nothing deletes  *)
(* before that.  A safekeeper does not have what it remembers deleting.    *)
OrderInv ==
  /\ stored \cap tombstones = {}
  /\ deletion.pc = "idle" =>
       /\ \A o \in ops : o.kind = "pull"
       /\ \A t \in tasks : t.op.kind = "pull" /\ (t.pc = "answered" => t.op.sk \in stored)
       /\ creation.pc # "idle" => row # "none"
  /\ deletion.pc # "idle" => creation.pc \in {"done", "failed"}

(* Before the deletion: who answered has the timeline, success is that of  *)
(* a quorum, and the others are being seeded.                              *)
SeedInv ==
  deletion.pc = "idle" =>
    /\ creation.pc = "calls" => \A s \in SoSks : creation.answer[s] = "ok" => s \in stored
    /\ creation.pc \in {"persist", "done"} =>
         Cardinality(stored \union creation.hung) >= Cardinality(SoSks) \div 2 + 1
    /\ creation.pc = "done" => \A s \in creation.left \ stored :
         PullOp(s) \in ops /\ \E t \in tasks : t.op = PullOp(s) /\ ~t.cancelled

(* No pull can start any more, only finish.                                *)
Quiet(s) ==
  /\ PullOp(s) \notin ops
  /\ \A t \in tasks : t.op = PullOp(s) => t.cancelled /\ t.pc # "call"

(* The safekeeper has the timeline or will when a pull in progress ends.   *)
Live(s) == s \in stored \/ \E t \in tasks : t.op.sk = s /\ t.pc = "downloaded"

DeleteOps(s) == {o \in ops : o.sk = s /\ o.kind = "delete"}
Over(s) == Quiet(s) /\ (s \notin raced => ~Live(s))

(* Deletions override pulls, and what a deletion has done stays done.      *)
DeleteInv ==
  /\ \A s \in SoSks : DeleteOps(s) # {} => PullOp(s) \notin ops
  /\ \A t \in tasks : t.op.kind = "delete" =>
       Quiet(t.op.sk) /\ (t.pc # "call" => Over(t.op.sk))
  /\ deletion.pc = "mark" \/ (deletion.pc = "persist" /\ deletion.scope = "tenant") =>
       \A o \in ops : o.kind # "pull"
  /\ deletion.pc = "mark" => deletion.scope = "tenant" /\ deletion.todo = SoSks
  /\ deletion.pc = "persist" => \A s \in SoSks \ deletion.todo :
       PullOp(s) \notin ops /\ (DeleteOps(s) # {} \/ Over(s))
  /\ deletion.pc = "done" => \A s \in SoSks :
       /\ Quiet(s)
       /\ Over(s) \/ (DeleteOps(s) # {} /\ \E t \in tasks : /\ t.op.sk = s /\ t.op.kind = "delete"
                                                            /\ t.pc = "call" /\ ~t.cancelled)
-----------------------------------------------------------------------------
(* What the helpers of the model do.                                       *)

(* insert_pending_op puts the operation in place of those it overrides, or *)
(* there is one of as high a generation.                                   *)
LEMMA InsertedFacts ==
  ASSUME ops \subseteq OpSet, NEW op \in OpSet
  PROVE  /\ Inserted(op) \subseteq OpSet
         /\ \A o \in Inserted(op) : o \in ops \/ o = op
         /\ \A o \in ops : o \in Inserted(op)
                           \/ (op \in Inserted(op) /\ o.sk = op.sk /\ o.scope = op.scope /\ o.gen < op.gen)
         /\ \/ op \in Inserted(op) /\ \A o \in Inserted(op) : o.sk = op.sk /\ o.scope = op.scope => o = op
            \/ \E o \in Inserted(op) : o.sk = op.sk /\ o.scope = op.scope /\ o.gen >= op.gen
  BY DEF Inserted, OpSet

(* A new token: the tasks it concerns are cancelled, and gone if they were *)
(* not in a call.                                                          *)
LEMMA CancelFacts ==
  ASSUME tasks \subseteq TaskSet, NEW S, NEW scope
  PROVE  /\ Cancel(S, scope) \subseteq TaskSet
         /\ \A u \in Cancel(S, scope) :
              /\ \E t \in tasks : u.op = t.op /\ u.pc = t.pc /\ (t.cancelled => u.cancelled)
              /\ u.op.sk \in S /\ u.op.scope = scope => u.cancelled /\ u.pc # "call"
<1> SUFFICES ASSUME NEW u \in Cancel(S, scope)
             PROVE  /\ u \in TaskSet
                    /\ \E t \in tasks : u.op = t.op /\ u.pc = t.pc /\ (t.cancelled => u.cancelled)
                    /\ u.op.sk \in S /\ u.op.scope = scope => u.cancelled /\ u.pc # "call"
  OBVIOUS
<1>1. PICK t \in tasks : /\ ~(t.op.sk \in S /\ t.op.scope = scope /\ t.pc = "call")
                         /\ u = [t EXCEPT !.cancelled = @ \/ (t.op.sk \in S /\ t.op.scope = scope)]
  BY DEF Cancel
<1> DEFINE c == t.op.sk \in S /\ t.op.scope = scope
<1>2. t \in TaskSet /\ (t.cancelled \/ c) \in BOOLEAN
  OBVIOUS
<1>3. u = [op |-> t.op, pc |-> t.pc, cancelled |-> t.cancelled \/ c]
  BY <1>1, <1>2 DEF TaskSet
<1>4. u.op = t.op /\ u.pc = t.pc /\ u.cancelled = (t.cancelled \/ c)
  BY <1>3
<1>5. u \in TaskSet
  <2> DEFINE d == t.cancelled \/ c
  <2>1. d \in BOOLEAN /\ u = [op |-> t.op, pc |-> t.pc, cancelled |-> d]
    BY <1>2, <1>3
  <2> HIDE DEF d
  <2> QED
    BY <1>2, <2>1 DEF TaskSet
<1> QED
  BY <1>1, <1>4, <1>5

(* A task moves on.                                                        *)
LEMMA BecomesFacts ==
  ASSUME tasks \subseteq TaskSet, NEW t \in tasks,
         NEW pc \in {"call", "downloaded", "answered", "row"}, Becomes(t, pc)
  PROVE  \E u \in TaskSet : /\ u.op = t.op /\ u.pc = pc /\ u.cancelled = t.cancelled
                            /\ tasks' = (tasks \ {t}) \union {u} /\ u \in tasks'
<1> DEFINE u == [t EXCEPT !.pc = pc]
<1>1. u \in TaskSet /\ u.op = t.op /\ u.pc = pc /\ u.cancelled = t.cancelled
  <2>1. t \in TaskSet
    OBVIOUS
  <2> QED
    BY <2>1 DEF TaskSet
<1>2. tasks' = (tasks \ {t}) \union {u}
  BY DEF Becomes
<1> QED
  BY <1>1, <1>2

(* A task moves on or ends: nothing new comes up.                          *)
StepsTo(t, pc) == Becomes(t, pc) \/ Ends(t)

(* The tasks after a step of one of them.                                  *)
LEMMA StepsToFacts ==
  ASSUME tasks \subseteq TaskSet, NEW t \in tasks,
         NEW pc \in {"call", "downloaded", "answered", "row"}, StepsTo(t, pc)
  PROVE  /\ tasks' \subseteq TaskSet
         /\ \A u \in tasks' : u \in tasks \/ (u.op = t.op /\ u.pc = pc /\ u.cancelled = t.cancelled)
         /\ \A u \in tasks : u # t => u \in tasks'
<1>1. CASE Becomes(t, pc)
  BY <1>1, BecomesFacts
<1>2. CASE Ends(t)
  BY <1>2 DEF Ends
<1> QED
  BY <1>1, <1>2 DEF StepsTo

(* What a task does with its own record when its safekeeper restarts.      *)
LEMMA RestartFacts ==
  ASSUME tasks \subseteq TaskSet, NEW s \in SoSks, SafekeeperRestarts(s)
  PROVE  /\ tasks' \subseteq TaskSet
         /\ \A u \in tasks' : u \in tasks \/ (u.pc = "call" /\ ~u.cancelled
                                              /\ \E t \in tasks : t.op = u.op /\ t.cancelled = u.cancelled
                                                                  /\ t.pc \in {"downloaded", "answered"})
         /\ \A t \in tasks : ~t.cancelled => \E u \in tasks' : u.op = t.op /\ ~u.cancelled
                                                               /\ (t.pc = "call" => u = t)
<1> DEFINE W == {t \in tasks : t.op.sk = s /\ t.pc \in {"downloaded", "answered"}}
           A == {[t EXCEPT !.pc = "call"] : t \in {u \in W : ~u.cancelled}}
<1>1. tasks' = (tasks \ W) \union A
  BY DEF SafekeeperRestarts
<1>2. \A t \in W : LET u == [t EXCEPT !.pc = "call"]
                   IN  u \in TaskSet /\ u.op = t.op /\ u.pc = "call" /\ u.cancelled = t.cancelled
  <2> SUFFICES ASSUME NEW t \in W
               PROVE  LET u == [t EXCEPT !.pc = "call"]
                      IN  u \in TaskSet /\ u.op = t.op /\ u.pc = "call" /\ u.cancelled = t.cancelled
    OBVIOUS
  <2>1. t \in TaskSet
    OBVIOUS
  <2> HIDE DEF W
  <2> QED
    BY <2>1 DEF TaskSet
<1>3. ASSUME NEW u \in A
      PROVE  /\ u \in TaskSet /\ u.pc = "call" /\ ~u.cancelled
             /\ \E t \in W : ~t.cancelled /\ u.op = t.op
  <2>1. PICK t \in W : ~t.cancelled /\ u = [t EXCEPT !.pc = "call"]
    OBVIOUS
  <2> HIDE DEF W, A
  <2>2. u \in TaskSet /\ u.op = t.op /\ u.pc = "call" /\ u.cancelled = t.cancelled
    BY <1>2, <2>1
  <2> QED
    BY <2>1, <2>2
<1>4. ASSUME NEW t \in W, ~t.cancelled
      PROVE  \E u \in A : u.op = t.op /\ ~u.cancelled
  <2> DEFINE u == [t EXCEPT !.pc = "call"]
  <2>1. u \in A
    BY <1>4
  <2>2. u.op = t.op /\ u.cancelled = t.cancelled
    BY <1>2
  <2> QED
    BY <1>4, <2>1, <2>2
<1>5. \A t \in W : t \in tasks /\ t.pc \in {"downloaded", "answered"}
  OBVIOUS
<1> HIDE DEF W, A
<1>6. tasks' \subseteq TaskSet
  BY <1>1, <1>3
<1>7. ASSUME NEW u \in tasks', u \notin tasks
      PROVE  u.pc = "call" /\ ~u.cancelled
             /\ \E t \in tasks : t.op = u.op /\ t.cancelled = u.cancelled /\ t.pc \in {"downloaded", "answered"}
  <2>1. u \in A
    BY <1>1, <1>7
  <2>2. PICK t \in W : ~t.cancelled /\ u.op = t.op
    BY <1>3, <2>1
  <2>3. ~u.cancelled /\ u.cancelled \in BOOLEAN /\ t.cancelled \in BOOLEAN
    BY <1>3, <1>5, <2>1 DEF TaskSet
  <2> QED
    BY <1>3, <1>5, <2>1, <2>2, <2>3
<1>8. ASSUME NEW t \in tasks, ~t.cancelled
      PROVE  \E u \in tasks' : u.op = t.op /\ ~u.cancelled /\ (t.pc = "call" => u = t)
  <2>1. CASE t \in W
    BY <1>1, <1>4, <1>5, <1>8, <2>1
  <2>2. CASE t \notin W
    BY <1>1, <1>8, <2>2
  <2> QED
    BY <2>1, <2>2
<1> QED
  BY <1>6, <1>7, <1>8

(* A new task.                                                             *)
LEMMA TaskFacts ==
  ASSUME NEW op \in OpSet
  PROVE  /\ Task(op) \in TaskSet
         /\ Task(op).op = op /\ Task(op).pc = "call" /\ ~Task(op).cancelled
  BY DEF Task, TaskSet

(* The operations there are.                                               *)
LEMMA OpFacts ==
  ASSUME NEW s \in SoSks, NEW scope \in {"timeline", "tenant"}, NEW kind \in {"pull", "delete"},
         NEW gen \in {1, 2}
  PROVE  /\ Op(s, scope, kind, gen) \in OpSet
         /\ Op(s, scope, kind, gen).sk = s /\ Op(s, scope, kind, gen).scope = scope
         /\ Op(s, scope, kind, gen).kind = kind /\ Op(s, scope, kind, gen).gen = gen
  BY DEF Op, OpSet

LEMMA PullOpFacts ==
  ASSUME NEW s \in SoSks
  PROVE  /\ PullOp(s) \in OpSet /\ PullOp(s).sk = s /\ PullOp(s).scope = "timeline"
         /\ PullOp(s).kind = "pull" /\ PullOp(s).gen = 1
         /\ \A o \in OpSet : o.sk = s /\ o.scope = "timeline" /\ o.kind = "pull" /\ o.gen = 1
                               => o = PullOp(s)
  BY DEF Op, OpSet, PullOp, Generation

(* Where the steps of a task take it.                                      *)
LEMMA PullStartsFacts ==
  ASSUME SoTypeOK, NEW t \in tasks, PullStarts(t)
  PROVE  /\ t.pc = "call" /\ t.op.kind = "pull"
         /\ \/ t.op.sk \in stored /\ StepsTo(t, "answered")
            \/ StepsTo(t, "downloaded")
            \/ StepsTo(t, "call") /\ ~t.cancelled
            \/ Ends(t) /\ t.cancelled
         /\ UNCHANGED <<row, ops, creation, deletion, stored, tombstones, raced, soFaults>>
  BY DEF PullStarts, StepsTo, CallsAgain

LEMMA EndsFacts ==
  ASSUME SoTypeOK, NEW t \in tasks, Ends(t)
  PROVE  tasks' \subseteq TaskSet /\ tasks' \subseteq tasks /\ \A u \in tasks : u # t => u \in tasks'
  BY DEF Ends, SoTypeOK

(* A task goes on unless it is cancelled.                                  *)
GoesOn(t, pc) == Becomes(t, pc) \/ (Ends(t) /\ t.cancelled)

LEMMA GoesOnFacts ==
  ASSUME tasks \subseteq TaskSet, NEW t \in tasks,
         NEW pc \in {"call", "downloaded", "answered", "row"}, GoesOn(t, pc)
  PROVE  \A v \in tasks : ~v.cancelled => \E u \in tasks' : u.op = v.op /\ ~u.cancelled
<1>1. CASE Becomes(t, pc)
  <2>1. PICK u \in TaskSet : /\ u.op = t.op /\ u.pc = pc /\ u.cancelled = t.cancelled
                             /\ tasks' = (tasks \ {t}) \union {u} /\ u \in tasks'
    BY <1>1, BecomesFacts
  <2> QED
    BY <2>1
<1>2. CASE Ends(t) /\ t.cancelled
  BY <1>2 DEF Ends
<1> QED
  BY <1>1, <1>2 DEF GoesOn

(* SchedulePulls starts a pull for each safekeeper that is left.           *)
LEMMA SchedulePullsFacts ==
  ASSUME SoTypeOK, SchedulePulls
  PROVE  /\ \A u \in tasks' :
              \/ \E t \in tasks : u.op = t.op /\ u.pc = t.pc /\ (t.cancelled => u.cancelled)
              \/ \E s \in creation.left : u.op = PullOp(s) /\ u.pc = "call" /\ ~u.cancelled
         /\ \A s \in creation.left : \E u \in tasks' : u.op = PullOp(s) /\ ~u.cancelled
<1> DEFINE N == {Task(PullOp(s)) : s \in creation.left}
<1>1. creation.left \subseteq SoSks /\ tasks \subseteq TaskSet
  BY DEF SoTypeOK
<1>2. \A s \in creation.left : Task(PullOp(s)).op = PullOp(s) /\ Task(PullOp(s)).pc = "call"
                               /\ ~Task(PullOp(s)).cancelled /\ Task(PullOp(s)) \in N
  BY <1>1, TaskFacts, PullOpFacts
<1>3. \A u \in N : \E s \in creation.left : u = Task(PullOp(s))
  OBVIOUS
<1>4. tasks' = Cancel(creation.left, "timeline") \union N
  BY DEF SchedulePulls
<1> HIDE DEF N
<1> QED
  BY <1>1, <1>2, <1>3, <1>4, CancelFacts

(* ScheduleDeletes starts a deletion on every safekeeper, and every task   *)
(* of the timeline is cancelled, whatever the scope of the deletion.       *)
LEMMA ScheduleDeletesFacts ==
  ASSUME SoTypeOK, ScheduleDeletes
  PROVE  /\ \A u \in tasks' :
              \/ /\ \E t \in tasks : u.op = t.op /\ u.pc = t.pc /\ (t.cancelled => u.cancelled)
                 /\ u.op.scope = "timeline" => u.cancelled /\ u.pc # "call"
              \/ u.op.kind = "delete" /\ u.pc = "call" /\ ~u.cancelled
         /\ \A s \in SoSks : \E u \in tasks' : /\ u.op.sk = s /\ u.op.kind = "delete"
                                               /\ u.pc = "call" /\ ~u.cancelled
<1> DEFINE D(s) == Op(s, deletion.scope, "delete", Generation)
           N == {Task(D(s)) : s \in SoSks}
<1>1. tasks \subseteq TaskSet /\ deletion.scope \in {"timeline", "tenant"}
  BY DEF SoTypeOK
<1>2. \A s \in SoSks : D(s) \in OpSet /\ D(s).sk = s /\ D(s).kind = "delete"
  BY <1>1, OpFacts DEF Generation
<1>3. \A s \in SoSks : Task(D(s)) \in N
  OBVIOUS
<1>4. \A u \in N : \E s \in SoSks : u = Task(D(s))
  OBVIOUS
<1>5. tasks' = Cancel(SoSks, "timeline") \union N
  BY <1>1 DEF ScheduleDeletes
<1> HIDE DEF N, D
<1>6. \A s \in SoSks : Task(D(s)).op = D(s) /\ Task(D(s)).pc = "call" /\ ~Task(D(s)).cancelled
  BY <1>2, TaskFacts
<1>7. ASSUME NEW u \in Cancel(SoSks, "timeline")
      PROVE  /\ \E t \in tasks : u.op = t.op /\ u.pc = t.pc /\ (t.cancelled => u.cancelled)
             /\ u.op.scope = "timeline" => u.cancelled /\ u.pc # "call"
  <2>1. u \in TaskSet
    BY <1>1, CancelFacts
  <2>2. u.op.sk \in SoSks
    BY <2>1 DEF TaskSet, OpSet
  <2> QED
    BY <1>1, <2>2, CancelFacts
<1> QED
  BY <1>2, <1>3, <1>4, <1>5, <1>6, <1>7

(* load_schedule_requests starts a task for every operation it loads.      *)
LEMMA LoadFacts ==
  ASSUME SoTypeOK, ControllerRestarts
  PROVE  /\ \A u \in tasks' : u.op \in ops /\ u.pc = "call" /\ ~u.cancelled
         /\ \A o \in ops : o.kind = "delete" \/ row # "none"
                             => \E u \in tasks' : u.op = o /\ u.pc = "call" /\ ~u.cancelled
<1> DEFINE N == {Task(o) : o \in Loaded}
<1>1. ops \subseteq OpSet /\ \A o \in Loaded : o \in ops
  BY DEF SoTypeOK, Loaded
<1>2. \A o \in Loaded : Task(o) \in N /\ Task(o).op = o /\ Task(o).pc = "call" /\ ~Task(o).cancelled
  BY <1>1, TaskFacts
<1>3. \A u \in N : \E o \in Loaded : u = Task(o)
  OBVIOUS
<1>4. tasks' = N
  BY DEF ControllerRestarts
<1> HIDE DEF N
<1> QED
  BY <1>1, <1>2, <1>3, <1>4 DEF Loaded

(* Every step keeps the types.                                             *)
LEMMA SoTypes == SoTypeOK /\ [SoNext]_soVars => SoTypeOK'
<1> SUFFICES ASSUME SoTypeOK, [SoNext]_soVars PROVE SoTypeOK'
  OBVIOUS
<1> USE DEF SoTypeOK
<1>1. CASE BeginCreate
  BY <1>1 DEF BeginCreate
<1>2. CASE CheckQuorum
  BY <1>2 DEF CheckQuorum
<1>3. CASE SchedulePulls
  <2>1. tasks' \subseteq TaskSet
    <3> DEFINE N == {Task(PullOp(s)) : s \in creation.left}
    <3>1. \A u \in N : u \in TaskSet
      BY TaskFacts, PullOpFacts
    <3>2. tasks' = Cancel(creation.left, "timeline") \union N
      BY <1>3 DEF SchedulePulls
    <3> HIDE DEF N
    <3> QED
      BY CancelFacts, <3>1, <3>2
  <2> QED
    BY <1>3, <2>1 DEF SchedulePulls
<1>4. CASE BeginDelete
  BY <1>4 DEF BeginDelete, MayDelete, ForgetAnswers
<1>5. CASE BeginDeleteTenant
  BY <1>5 DEF BeginDeleteTenant, MayDelete, ForgetAnswers
<1>6. CASE SetDeletedAt
  BY <1>6 DEF SetDeletedAt
<1>7. CASE ScheduleDeletes
  <2>1. tasks' \subseteq TaskSet
    <3> DEFINE N == {Task(Op(s, deletion.scope, "delete", Generation)) : s \in SoSks}
    <3>1. \A u \in N : u \in TaskSet
      BY TaskFacts, OpFacts DEF Generation
    <3>2. tasks' = Cancel(SoSks, "timeline") \union N \/ tasks' = Cancel(SoSks, deletion.scope) \union N
      BY <1>7 DEF ScheduleDeletes
    <3> HIDE DEF N
    <3> QED
      BY CancelFacts, <3>1, <3>2
  <2> QED
    BY <1>7, <2>1 DEF ScheduleDeletes
<1>8. CASE ControllerRestarts
  <2>1. tasks' \subseteq TaskSet
    <3> DEFINE N == {Task(o) : o \in Loaded}
    <3>1. \A u \in N : u \in TaskSet
      BY TaskFacts DEF Loaded
    <3>2. tasks' = N
      BY <1>8 DEF ControllerRestarts
    <3> HIDE DEF N
    <3> QED
      BY <3>1, <3>2
  <2> QED
    BY <1>8, <2>1 DEF ControllerRestarts
<1>9. ASSUME NEW s \in SoSks, CreateOnSafekeeper(s) PROVE SoTypeOK'
  BY <1>9 DEF CreateOnSafekeeper, Answer
<1>10. ASSUME NEW s \in SoSks, CreateFails(s) PROVE SoTypeOK'
  BY <1>10 DEF CreateFails, Answer
<1>11. ASSUME NEW s \in SoSks, PersistPull(s) PROVE SoTypeOK'
  <2>1. PullOp(s) \in OpSet
    BY PullOpFacts
  <2>2. ops' \subseteq OpSet
    BY <1>11, <2>1, InsertedFacts DEF PersistPull
  <2> QED
    BY <1>11, <2>2 DEF PersistPull
<1>12. ASSUME NEW s \in SoSks, PersistDelete(s) PROVE SoTypeOK'
  <2>1. Op(s, deletion.scope, "delete", DeleteGeneration) \in OpSet
    BY OpFacts DEF DeleteGeneration
  <2>2. ops' \subseteq OpSet
    BY <1>12, <2>1, InsertedFacts DEF PersistDelete
  <2> QED
    BY <1>12, <2>2 DEF PersistDelete
<1>13. ASSUME NEW s \in SoSks, SafekeeperRestarts(s) PROVE SoTypeOK'
  <2>1. tasks' \subseteq TaskSet
    BY <1>13, RestartFacts
  <2> QED
    BY <1>13, <2>1 DEF SafekeeperRestarts
<1>14. ASSUME NEW t \in tasks, PullStarts(t) PROVE SoTypeOK'
  BY <1>14, PullStartsFacts, StepsToFacts, EndsFacts
<1>15. ASSUME NEW t \in tasks, PullInstalls(t) PROVE SoTypeOK'
  <2>1. StepsTo(t, "answered")
    BY <1>15 DEF PullInstalls, StepsTo, CallsAgain
  <2>2. tasks' \subseteq TaskSet
    BY <2>1, StepsToFacts
  <2>3. t.op.sk \in SoSks
    BY DEF TaskSet, OpSet
  <2> QED
    BY <1>15, <2>2, <2>3 DEF PullInstalls
<1>16. ASSUME NEW t \in tasks, DeleteOnSafekeeper(t) PROVE SoTypeOK'
  <2>1. StepsTo(t, "answered")
    BY <1>16 DEF DeleteOnSafekeeper, StepsTo, CallsAgain
  <2>2. tasks' \subseteq TaskSet
    BY <2>1, StepsToFacts
  <2>3. t.op.sk \in SoSks
    BY DEF TaskSet, OpSet
  <2> QED
    BY <1>16, <2>2, <2>3 DEF DeleteOnSafekeeper
<1>17. ASSUME NEW t \in tasks, RemoveOp(t) PROVE SoTypeOK'
  <2>1. StepsTo(t, "row")
    BY <1>17 DEF RemoveOp, StepsTo, CallsAgain
  <2>2. tasks' \subseteq TaskSet
    BY <2>1, StepsToFacts
  <2> QED
    BY <1>17, <2>2 DEF RemoveOp, Removed
<1>18. ASSUME NEW t \in tasks, DeleteRow(t) PROVE SoTypeOK'
  <2>1. StepsTo(t, "row")
    BY <1>18 DEF DeleteRow, StepsTo, CallsAgain
  <2>2. tasks' \subseteq TaskSet
    BY <2>1, StepsToFacts
  <2> QED
    BY <1>18, <2>2 DEF DeleteRow
<1>19. ASSUME NEW t \in tasks, CallLost(t) PROVE SoTypeOK'
  <2>1. StepsTo(t, "call")
    BY <1>19 DEF CallLost, StepsTo, CallsAgain
  <2>2. tasks' \subseteq TaskSet
    BY <2>1, StepsToFacts
  <2> QED
    BY <1>19, <2>2 DEF CallLost
<1>20. ASSUME NEW t \in tasks, RemoveOpFails(t) PROVE SoTypeOK'
  <2>1. StepsTo(t, "row")
    BY <1>20 DEF RemoveOpFails, StepsTo, CallsAgain
  <2>2. tasks' \subseteq TaskSet
    BY <2>1, StepsToFacts
  <2> QED
    BY <1>20, <2>2 DEF RemoveOpFails
<1>21. CASE UNCHANGED soVars
  BY <1>21 DEF soVars
<1> QED
  BY <1>1, <1>2, <1>3, <1>4, <1>5, <1>6, <1>7, <1>8, <1>9, <1>10, <1>11,
     <1>12, <1>13, <1>14, <1>15, <1>16, <1>17, <1>18, <1>19, <1>20, <1>21
     DEF SoNext, TaskStep

(* Every step keeps the kinds of operations and tasks.                     *)
LEMMA SoKinds == SoTypeOK /\ KindInv /\ [SoNext]_soVars => KindInv'
<1> SUFFICES ASSUME SoTypeOK, KindInv, [SoNext]_soVars PROVE KindInv'
  OBVIOUS
<1> USE DEF KindInv
<1>1. CASE BeginCreate
  BY <1>1 DEF BeginCreate
<1>2. CASE CheckQuorum
  BY <1>2 DEF CheckQuorum
<1>3. CASE SchedulePulls
  <2>1. creation.left \subseteq SoSks /\ ops' = ops
    BY <1>3 DEF SchedulePulls, SoTypeOK
  <2> QED
    BY <1>3, <2>1, SchedulePullsFacts, PullOpFacts
<1>4. CASE BeginDelete
  BY <1>4 DEF BeginDelete
<1>5. CASE BeginDeleteTenant
  BY <1>5 DEF BeginDeleteTenant
<1>6. CASE SetDeletedAt
  BY <1>6 DEF SetDeletedAt
<1>7. CASE ScheduleDeletes
  <2>1. ops' = ops
    BY <1>7 DEF ScheduleDeletes
  <2> QED
    BY <1>7, <2>1, ScheduleDeletesFacts
<1>8. CASE ControllerRestarts
  <2>1. ops' = ops
    BY <1>8 DEF ControllerRestarts
  <2> QED
    BY <1>8, <2>1, LoadFacts
<1>9. ASSUME NEW s \in SoSks, CreateOnSafekeeper(s) PROVE KindInv'
  BY <1>9 DEF CreateOnSafekeeper
<1>10. ASSUME NEW s \in SoSks, CreateFails(s) PROVE KindInv'
  BY <1>10 DEF CreateFails
<1>11. ASSUME NEW s \in SoSks, PersistPull(s) PROVE KindInv'
  <2>1. ops \subseteq OpSet /\ ops' = Inserted(PullOp(s)) /\ tasks' = tasks
    BY <1>11 DEF PersistPull, SoTypeOK
  <2> QED
    BY <2>1, PullOpFacts, InsertedFacts
<1>12. ASSUME NEW s \in SoSks, PersistDelete(s) PROVE KindInv'
  <2> DEFINE d == Op(s, deletion.scope, "delete", DeleteGeneration)
  <2>1. ops \subseteq OpSet /\ ops' = Inserted(d) /\ tasks' = tasks
    BY <1>12 DEF PersistDelete, SoTypeOK
  <2>2. d \in OpSet /\ d.kind = "delete" /\ d.gen = 2
    BY OpFacts DEF SoTypeOK, DeleteGeneration
  <2> HIDE DEF d
  <2> QED
    BY <2>1, <2>2, InsertedFacts
<1>13. ASSUME NEW s \in SoSks, SafekeeperRestarts(s) PROVE KindInv'
  <2>1. ops' = ops /\ tasks \subseteq TaskSet
    BY <1>13 DEF SafekeeperRestarts, SoTypeOK
  <2> QED
    BY <1>13, <2>1, RestartFacts
<1>14. ASSUME NEW t \in tasks, PullStarts(t) PROVE KindInv'
  <2>1. tasks \subseteq TaskSet
    BY DEF SoTypeOK
  <2> QED
    BY <1>14, <2>1, PullStartsFacts, StepsToFacts, EndsFacts
<1>15. ASSUME NEW t \in tasks, PullInstalls(t) PROVE KindInv'
  <2>1. tasks \subseteq TaskSet
    BY DEF SoTypeOK
  <2>2. StepsTo(t, "answered") /\ ops' = ops
    BY <1>15 DEF PullInstalls, StepsTo, CallsAgain
  <2> QED
    BY <2>1, <2>2, StepsToFacts, EndsFacts
<1>16. ASSUME NEW t \in tasks, DeleteOnSafekeeper(t) PROVE KindInv'
  <2>1. tasks \subseteq TaskSet
    BY DEF SoTypeOK
  <2>2. StepsTo(t, "answered") /\ ops' = ops
    BY <1>16 DEF DeleteOnSafekeeper, StepsTo, CallsAgain
  <2> QED
    BY <2>1, <2>2, StepsToFacts, EndsFacts
<1>17. ASSUME NEW t \in tasks, RemoveOp(t) PROVE KindInv'
  <2>1. tasks \subseteq TaskSet
    BY DEF SoTypeOK
  <2>2. (Ends(t) \/ (StepsTo(t, "row") /\ t.op.kind = "delete")) /\ ops' \subseteq ops
    BY <1>17 DEF RemoveOp, StepsTo, CallsAgain, Removed
  <2> QED
    BY <2>1, <2>2, StepsToFacts, EndsFacts
<1>18. ASSUME NEW t \in tasks, DeleteRow(t) PROVE KindInv'
  <2>1. tasks \subseteq TaskSet
    BY DEF SoTypeOK
  <2>2. Ends(t) /\ ops' = ops
    BY <1>18 DEF DeleteRow, StepsTo, CallsAgain
  <2> QED
    BY <2>1, <2>2, StepsToFacts, EndsFacts
<1>19. ASSUME NEW t \in tasks, CallLost(t) PROVE KindInv'
  <2>1. tasks \subseteq TaskSet
    BY DEF SoTypeOK
  <2>2. StepsTo(t, "call") /\ ops' = ops
    BY <1>19 DEF CallLost, StepsTo, CallsAgain
  <2> QED
    BY <2>1, <2>2, StepsToFacts, EndsFacts
<1>20. ASSUME NEW t \in tasks, RemoveOpFails(t) PROVE KindInv'
  <2>1. tasks \subseteq TaskSet
    BY DEF SoTypeOK
  <2>2. (Ends(t) \/ (StepsTo(t, "row") /\ t.op.kind = "delete")) /\ ops' = ops
    BY <1>20 DEF RemoveOpFails, StepsTo, CallsAgain
  <2> QED
    BY <2>1, <2>2, StepsToFacts, EndsFacts
<1>21. CASE UNCHANGED soVars
  BY <1>21 DEF soVars
<1> QED
  BY <1>1, <1>2, <1>3, <1>4, <1>5, <1>6, <1>7, <1>8, <1>9, <1>10, <1>11,
     <1>12, <1>13, <1>14, <1>15, <1>16, <1>17, <1>18, <1>19, <1>20, <1>21
     DEF SoNext, TaskStep

(* Every step keeps what the phases of the two requests imply.             *)
LEMMA SoPhases == SoTypeOK /\ KindInv /\ OrderInv /\ [SoNext]_soVars => OrderInv'
<1> SUFFICES ASSUME SoTypeOK, KindInv, OrderInv, [SoNext]_soVars PROVE OrderInv'
  OBVIOUS
<1> USE DEF OrderInv
<1>1. CASE BeginCreate
  BY <1>1 DEF BeginCreate, SoTypeOK, MayDelete, ForgetAnswers
<1>2. CASE CheckQuorum
  BY <1>2 DEF CheckQuorum, SoTypeOK, MayDelete, ForgetAnswers
<1>3. CASE SchedulePulls
  <2>1. creation.left \subseteq SoSks /\ UNCHANGED <<row, ops, deletion, stored, tombstones>>
    BY <1>3 DEF SchedulePulls, SoTypeOK
  <2>2. creation.pc = "persist" /\ creation'.pc = "done"
    BY <1>3 DEF SchedulePulls, SoTypeOK
  <2> QED
    BY <1>3, <2>1, <2>2, SchedulePullsFacts, PullOpFacts
<1>4. CASE BeginDelete
  BY <1>4 DEF BeginDelete, SoTypeOK, MayDelete, ForgetAnswers
<1>5. CASE BeginDeleteTenant
  BY <1>5 DEF BeginDeleteTenant, SoTypeOK, MayDelete, ForgetAnswers
<1>6. CASE SetDeletedAt
  BY <1>6 DEF SetDeletedAt, SoTypeOK, MayDelete, ForgetAnswers
<1>7. CASE ScheduleDeletes
  BY <1>7 DEF ScheduleDeletes, SoTypeOK, MayDelete, ForgetAnswers
<1>8. CASE ControllerRestarts
  <2>1. UNCHANGED <<row, ops, stored, tombstones>>
    BY <1>8 DEF ControllerRestarts
  <2>2. /\ deletion'.pc = "idle" <=> deletion.pc = "idle"
        /\ creation'.pc = "idle" <=> creation.pc = "idle"
        /\ creation.pc \in {"done", "failed"} => creation'.pc \in {"done", "failed"}
    BY <1>8 DEF ControllerRestarts, SoTypeOK
  <2> QED
    BY <1>8, <2>1, <2>2, LoadFacts
<1>9. ASSUME NEW s \in SoSks, CreateOnSafekeeper(s) PROVE OrderInv'
  BY <1>9 DEF CreateOnSafekeeper, SoTypeOK, Answer
<1>10. ASSUME NEW s \in SoSks, CreateFails(s) PROVE OrderInv'
  BY <1>10 DEF CreateFails, SoTypeOK, Answer
<1>11. ASSUME NEW s \in SoSks, PersistPull(s) PROVE OrderInv'
  <2>1. ops \subseteq OpSet /\ ops' = Inserted(PullOp(s))
        /\ UNCHANGED <<row, tasks, creation, deletion, stored, tombstones>>
    BY <1>11 DEF PersistPull, SoTypeOK
  <2> QED
    BY <2>1, PullOpFacts, InsertedFacts
<1>12. ASSUME NEW s \in SoSks, PersistDelete(s) PROVE OrderInv'
  BY <1>12 DEF PersistDelete, SoTypeOK, MayDelete, ForgetAnswers
<1>13. ASSUME NEW s \in SoSks, SafekeeperRestarts(s) PROVE OrderInv'
  <2>1. UNCHANGED <<row, ops, creation, deletion, stored>> /\ tombstones' \subseteq tombstones
        /\ tasks \subseteq TaskSet
    BY <1>13 DEF SafekeeperRestarts, SoTypeOK
  <2> QED
    BY <1>13, <2>1, RestartFacts
<1>14. ASSUME NEW t \in tasks, PullStarts(t) PROVE OrderInv'
  <2>1. tasks \subseteq TaskSet
    BY DEF SoTypeOK
  <2> QED
    BY <1>14, <2>1, PullStartsFacts, StepsToFacts, EndsFacts
<1>15. ASSUME NEW t \in tasks, PullInstalls(t) PROVE OrderInv'
  <2>1. tasks \subseteq TaskSet
    BY DEF SoTypeOK
  <2>2. StepsTo(t, "answered") /\ UNCHANGED <<row, ops, creation, deletion>>
        /\ stored' = stored \union {t.op.sk} /\ stored' \cap tombstones' = {}
    BY <1>15 DEF PullInstalls, StepsTo
  <2> QED
    BY <2>1, <2>2, StepsToFacts
<1>16. ASSUME NEW t \in tasks, DeleteOnSafekeeper(t) PROVE OrderInv'
  <2>1. tasks \subseteq TaskSet
    BY DEF SoTypeOK
  <2>2. t.op.kind = "delete" /\ deletion' = deletion /\ creation' = creation
        /\ stored' \cap tombstones' = {}
    BY <1>16 DEF DeleteOnSafekeeper, StepsTo
  <2> QED
    BY <2>1, <2>2, StepsToFacts
<1>17. ASSUME NEW t \in tasks, RemoveOp(t) PROVE OrderInv'
  <2>1. tasks \subseteq TaskSet
    BY DEF SoTypeOK
  <2>2. StepsTo(t, "row") /\ ops' \subseteq ops /\ UNCHANGED <<row, creation, deletion, stored, tombstones>>
    BY <1>17 DEF RemoveOp, StepsTo, Removed
  <2> QED
    BY <2>1, <2>2, StepsToFacts
<1>18. ASSUME NEW t \in tasks, DeleteRow(t) PROVE OrderInv'
  <2>1. tasks \subseteq TaskSet
    BY DEF SoTypeOK
  <2>2. t.op.kind # "pull" /\ deletion' = deletion /\ creation' = creation
        /\ UNCHANGED <<stored, tombstones>>
    BY <1>18 DEF DeleteRow, StepsTo, KindInv
  <2> QED
    BY <2>1, <2>2, StepsToFacts
<1>19. ASSUME NEW t \in tasks, CallLost(t) PROVE OrderInv'
  <2>1. tasks \subseteq TaskSet
    BY DEF SoTypeOK
  <2>2. StepsTo(t, "call") /\ UNCHANGED <<row, ops, creation, deletion, stored, tombstones>>
    BY <1>19 DEF CallLost, StepsTo, CallsAgain
  <2> QED
    BY <2>1, <2>2, StepsToFacts
<1>20. ASSUME NEW t \in tasks, RemoveOpFails(t) PROVE OrderInv'
  <2>1. tasks \subseteq TaskSet
    BY DEF SoTypeOK
  <2>2. StepsTo(t, "row") /\ UNCHANGED <<row, ops, creation, deletion, stored, tombstones>>
    BY <1>20 DEF RemoveOpFails, StepsTo
  <2> QED
    BY <2>1, <2>2, StepsToFacts
<1>21. CASE UNCHANGED soVars
  BY <1>21 DEF soVars
<1> QED
  BY <1>1, <1>2, <1>3, <1>4, <1>5, <1>6, <1>7, <1>8, <1>9, <1>10, <1>11,
     <1>12, <1>13, <1>14, <1>15, <1>16, <1>17, <1>18, <1>19, <1>20, <1>21
     DEF SoNext, TaskStep

(* Every step keeps what is known before the deletion.                     *)
LEMMA SoSeeds == SoTypeOK /\ KindInv /\ OrderInv /\ SeedInv /\ [SoNext]_soVars => SeedInv'
<1> SUFFICES ASSUME SoTypeOK, KindInv, OrderInv, SeedInv, [SoNext]_soVars PROVE SeedInv'
  OBVIOUS
<1> USE DEF SeedInv
<1>1. CASE BeginCreate
  BY <1>1 DEF BeginCreate, SoTypeOK
<1>2. CASE CheckQuorum
  <2> DEFINE rem == {s \in SoSks : creation.answer[s] = "err"}
             late == {s \in SoSks : creation.answer[s] = "none"}
  <2>1. /\ creation.pc = "calls" /\ deletion' = deletion /\ stored' = stored
        /\ creation'.hung = late /\ creation'.left = rem /\ creation'.pc # "calls"
        /\ creation'.pc \in {"persist", "done"} => Enough(Cardinality(SoSks) - Cardinality(rem))
        /\ creation'.pc = "done" => rem = {}
    BY <1>2 DEF CheckQuorum, SoTypeOK
  <2>2. SUFFICES ASSUME deletion.pc = "idle" PROVE SeedInv'
    BY <2>1
  <2>3. SoSks \ rem \subseteq stored \union late
    BY <2>1, <2>2 DEF SoTypeOK
  <2>4. /\ IsFiniteSet(SoSks) /\ IsFiniteSet(rem) /\ IsFiniteSet(stored \union late)
        /\ Cardinality(SoSks \ rem) = Cardinality(SoSks) - Cardinality(SoSks \cap rem)
        /\ Cardinality(SoSks \ rem) <= Cardinality(stored \union late)
    <3>1. IsFiniteSet(SoSks) /\ rem \subseteq SoSks /\ stored \union late \subseteq SoSks
      BY SafekeeperOpsAssumption DEF SoTypeOK
    <3> HIDE DEF rem, late
    <3> QED
      BY <2>3, <3>1, FS_Subset, FS_Difference
  <2>5. SoSks \cap rem = rem
    OBVIOUS
  <2> HIDE DEF rem, late
  <2>6. ASSUME creation'.pc \in {"persist", "done"}
        PROVE  Cardinality(stored \union late) >= Cardinality(SoSks) \div 2 + 1
    <3>1. Cardinality(SoSks \ rem) >= Cardinality(SoSks) \div 2 + 1
      BY <2>1, <2>4, <2>5, <2>6 DEF Enough
    <3>2. Cardinality(SoSks) \in Nat /\ Cardinality(stored \union late) \in Nat /\ Cardinality(SoSks \ rem) \in Nat
      BY <2>4, FS_CardinalityType, FS_Difference
    <3> QED
      BY <2>4, <3>1, <3>2
  <2> QED
    BY <2>1, <2>6
<1>3. CASE SchedulePulls
  <2>1. /\ creation.pc = "persist" /\ creation'.pc = "done" /\ UNCHANGED <<ops, deletion, stored>>
        /\ creation'.left = creation.left /\ creation'.hung = creation.hung
        /\ \A s \in creation.left : PullOp(s) \in ops
    BY <1>3 DEF SchedulePulls, SoTypeOK
  <2> QED
    BY <1>3, <2>1, SchedulePullsFacts
<1>4. CASE BeginDelete
  BY <1>4 DEF BeginDelete, SoTypeOK
<1>5. CASE BeginDeleteTenant
  BY <1>5 DEF BeginDeleteTenant, SoTypeOK
<1>6. CASE SetDeletedAt
  BY <1>6 DEF SetDeletedAt, SoTypeOK
<1>7. CASE ScheduleDeletes
  BY <1>7 DEF ScheduleDeletes, SoTypeOK
<1>8. CASE ControllerRestarts
  <2>1. /\ UNCHANGED <<row, ops, stored>>
        /\ creation'.left = creation.left /\ creation'.hung = creation.hung
        /\ deletion'.pc = "idle" => deletion.pc = "idle"
        /\ creation'.pc \notin {"calls", "persist"} /\ (creation'.pc = "done" => creation.pc = "done")
    BY <1>8 DEF ControllerRestarts, SoTypeOK
  <2>2. deletion.pc = "idle" /\ creation.pc = "done" => row # "none"
    BY DEF OrderInv
  <2> QED
    BY <1>8, <2>1, <2>2, LoadFacts
<1>9. ASSUME NEW s \in SoSks, CreateOnSafekeeper(s) PROVE SeedInv'
  <2>1. stored \subseteq stored' /\ creation'.pc = "calls" /\ deletion' = deletion
    BY <1>9 DEF CreateOnSafekeeper, SoTypeOK, Answer
  <2>2. ASSUME deletion.pc = "idle", NEW r \in SoSks, creation'.answer[r] = "ok" PROVE r \in stored'
    BY <1>9, <2>2 DEF CreateOnSafekeeper, SoTypeOK, Answer
  <2> QED
    BY <2>1, <2>2
<1>10. ASSUME NEW s \in SoSks, CreateFails(s) PROVE SeedInv'
  <2>1. stored \subseteq stored' /\ creation'.pc = "calls" /\ deletion' = deletion
    BY <1>10 DEF CreateFails, SoTypeOK, Answer
  <2>2. ASSUME deletion.pc = "idle", NEW r \in SoSks, creation'.answer[r] = "ok" PROVE r \in stored'
    BY <1>10, <2>2 DEF CreateFails, SoTypeOK, Answer
  <2> QED
    BY <2>1, <2>2
<1>11. ASSUME NEW s \in SoSks, PersistPull(s) PROVE SeedInv'
  <2>1. creation.pc = "persist" /\ UNCHANGED <<creation, deletion, stored>>
    BY <1>11 DEF PersistPull
  <2> QED
    BY <2>1
<1>12. ASSUME NEW s \in SoSks, PersistDelete(s) PROVE SeedInv'
  BY <1>12 DEF PersistDelete, SoTypeOK
<1>13. ASSUME NEW s \in SoSks, SafekeeperRestarts(s) PROVE SeedInv'
  <2>1. UNCHANGED <<ops, creation, deletion, stored>> /\ tasks \subseteq TaskSet
    BY <1>13 DEF SafekeeperRestarts, SoTypeOK
  <2> QED
    BY <1>13, <2>1, RestartFacts
<1>14. ASSUME NEW t \in tasks, PullStarts(t) PROVE SeedInv'
  <2>1. tasks \subseteq TaskSet
    BY DEF SoTypeOK
  <2>2. /\ GoesOn(t, "call") \/ GoesOn(t, "answered") \/ GoesOn(t, "downloaded")
        /\ UNCHANGED <<ops, creation, deletion, stored>>
    BY <1>14 DEF PullStarts, CallsAgain, GoesOn
  <2> QED
    BY <2>1, <2>2, GoesOnFacts
<1>15. ASSUME NEW t \in tasks, PullInstalls(t) PROVE SeedInv'
  <2>1. tasks \subseteq TaskSet /\ t.op.sk \in SoSks
    BY DEF SoTypeOK, TaskSet, OpSet
  <2>2. GoesOn(t, "answered") /\ UNCHANGED <<ops, creation, deletion>> /\ stored \subseteq stored'
        /\ stored' \subseteq SoSks
    BY <1>15, <2>1 DEF PullInstalls, GoesOn, SoTypeOK
  <2>3. Cardinality(stored \union creation.hung) <= Cardinality(stored' \union creation.hung)
        /\ Cardinality(stored \union creation.hung) \in Nat /\ Cardinality(stored' \union creation.hung) \in Nat
    <3>1. stored \union creation.hung \subseteq stored' \union creation.hung
          /\ stored' \union creation.hung \subseteq SoSks
      BY <2>2 DEF SoTypeOK
    <3> QED
      BY <3>1, SafekeeperOpsAssumption, FS_Subset, FS_CardinalityType
  <2>4. Cardinality(SoSks) \in Nat
    BY SafekeeperOpsAssumption, FS_CardinalityType
  <2>5. deletion.pc = "idle" => (creation.pc \in {"persist", "done"} =>
          Cardinality(stored' \union creation.hung) >= Cardinality(SoSks) \div 2 + 1)
    BY <2>3, <2>4
  <2> QED
    BY <2>1, <2>2, <2>5, GoesOnFacts
<1>16. ASSUME NEW t \in tasks, DeleteOnSafekeeper(t) PROVE SeedInv'
  BY <1>16 DEF DeleteOnSafekeeper, OrderInv, KindInv
<1>17. ASSUME NEW t \in tasks, RemoveOp(t) PROVE SeedInv'
  <2>1. tasks \subseteq TaskSet /\ ops \subseteq OpSet
    BY DEF SoTypeOK
  <2>2. StepsTo(t, "row") /\ UNCHANGED <<creation, deletion, stored>>
        /\ \A o \in ops : o.sk # t.op.sk => o \in ops'
    BY <1>17 DEF RemoveOp, StepsTo, Removed
  <2>3. deletion.pc = "idle" => t.op.sk \in stored
    BY <1>17 DEF RemoveOp, OrderInv
  <2>4. ASSUME NEW s \in SoSks, s \notin stored, deletion.pc = "idle", PullOp(s) \in ops,
               NEW v \in tasks, v.op = PullOp(s), ~v.cancelled
        PROVE  PullOp(s) \in ops' /\ v \in tasks'
    BY <2>1, <2>2, <2>3, <2>4, PullOpFacts, StepsToFacts
  <2>5. creation.left \subseteq SoSks
    BY DEF SoTypeOK
  <2> QED
    BY <2>2, <2>4, <2>5
<1>18. ASSUME NEW t \in tasks, DeleteRow(t) PROVE SeedInv'
  BY <1>18 DEF DeleteRow, OrderInv, KindInv
<1>19. ASSUME NEW t \in tasks, CallLost(t) PROVE SeedInv'
  <2>1. tasks \subseteq TaskSet
    BY DEF SoTypeOK
  <2>2. GoesOn(t, "call") /\ UNCHANGED <<ops, creation, deletion, stored>>
    BY <1>19 DEF CallLost, CallsAgain, GoesOn
  <2> QED
    BY <2>1, <2>2, GoesOnFacts
<1>20. ASSUME NEW t \in tasks, RemoveOpFails(t) PROVE SeedInv'
  <2>1. tasks \subseteq TaskSet /\ ops \subseteq OpSet
    BY DEF SoTypeOK
  <2>2. StepsTo(t, "row") /\ UNCHANGED <<creation, deletion, stored>>
        /\ \A o \in ops : o.sk # t.op.sk => o \in ops'
    BY <1>20 DEF RemoveOpFails, StepsTo, Removed
  <2>3. deletion.pc = "idle" => t.op.sk \in stored
    BY <1>20 DEF RemoveOpFails, OrderInv
  <2>4. ASSUME NEW s \in SoSks, s \notin stored, deletion.pc = "idle", PullOp(s) \in ops,
               NEW v \in tasks, v.op = PullOp(s), ~v.cancelled
        PROVE  PullOp(s) \in ops' /\ v \in tasks'
    BY <2>1, <2>2, <2>3, <2>4, PullOpFacts, StepsToFacts
  <2>5. creation.left \subseteq SoSks
    BY DEF SoTypeOK
  <2> QED
    BY <2>2, <2>4, <2>5
<1>21. CASE UNCHANGED soVars
  BY <1>21 DEF soVars
<1> QED
  BY <1>1, <1>2, <1>3, <1>4, <1>5, <1>6, <1>7, <1>8, <1>9, <1>10, <1>11,
     <1>12, <1>13, <1>14, <1>15, <1>16, <1>17, <1>18, <1>19, <1>20, <1>21
     DEF SoNext, TaskStep

(* Every step keeps what deletions have done.                              *)
LEMMA SoDeletes == SoTypeOK /\ KindInv /\ OrderInv /\ DeleteInv /\ SoTypeOK' /\ OrderInv' /\ [SoNext]_soVars => DeleteInv'
<1> SUFFICES ASSUME SoTypeOK, KindInv, OrderInv, DeleteInv, SoTypeOK', OrderInv', [SoNext]_soVars PROVE DeleteInv'
  OBVIOUS
<1>0. SUFFICES ASSUME deletion'.pc # "idle" PROVE DeleteInv'
  BY DEF OrderInv, DeleteInv, DeleteOps
<1> USE <1>0
<1>1. CASE BeginCreate
  BY <1>1 DEF OrderInv, BeginCreate
<1>2. CASE CheckQuorum
  BY <1>2 DEF OrderInv, CheckQuorum
<1>3. CASE SchedulePulls
  BY <1>3 DEF OrderInv, SchedulePulls
<1>4. CASE BeginDelete
  <2>1. UNCHANGED <<ops, tasks, stored, raced>> /\ deletion'.pc = "persist"
        /\ deletion'.scope = "timeline" /\ deletion'.todo = SoSks
    BY <1>4 DEF BeginDelete
  <2> QED
    BY <2>1 DEF DeleteInv, Quiet, Over, Live, DeleteOps
<1>5. CASE BeginDeleteTenant
  <2>1. UNCHANGED <<tasks, stored, raced>> /\ deletion'.pc = "mark"
        /\ deletion'.scope = "tenant" /\ deletion'.todo = SoSks
        /\ ops' \subseteq ops /\ \A o \in ops' : o.scope # "timeline"
    BY <1>5 DEF BeginDeleteTenant
  <2>2. \A s \in SoSks : PullOp(s) \notin ops'
    BY <2>1, PullOpFacts
  <2>3. \A o \in ops' : o.kind # "pull"
    BY <2>1 DEF KindInv
  <2>4. \A s \in SoSks : (Quiet(s) => Quiet(s)') /\ (Over(s) => Over(s)')
    BY <2>1, <2>2 DEF Quiet, Over, Live
  <2>5. \A u \in tasks : u.op.sk \in SoSks
    BY DEF SoTypeOK, TaskSet, OpSet
  <2> QED
    BY <2>1, <2>2, <2>3, <2>4, <2>5 DEF DeleteInv
<1>6. CASE SetDeletedAt
  <2>1. UNCHANGED <<ops, tasks, stored, raced>> /\ deletion.pc = "mark" /\ deletion'.pc = "persist"
        /\ deletion'.scope = deletion.scope /\ deletion'.todo = deletion.todo
    BY <1>6 DEF SetDeletedAt, SoTypeOK
  <2> QED
    BY <2>1 DEF DeleteInv, Quiet, Over, Live, DeleteOps
<1>7. CASE ScheduleDeletes
  <2>1. /\ UNCHANGED <<ops, stored, raced>> /\ deletion.todo = {}
        /\ deletion.pc = "persist" /\ deletion'.pc = "done"
    BY <1>7 DEF ScheduleDeletes, SoTypeOK
  <2>2. /\ \A u \in tasks' :
             \/ /\ \E t \in tasks : u.op = t.op /\ u.pc = t.pc /\ (t.cancelled => u.cancelled)
                /\ u.op.scope = "timeline" => u.cancelled /\ u.pc # "call"
             \/ u.op.kind = "delete" /\ u.pc = "call" /\ ~u.cancelled
        /\ \A s \in SoSks : \E u \in tasks' : /\ u.op.sk = s /\ u.op.kind = "delete"
                                              /\ u.pc = "call" /\ ~u.cancelled
    BY <1>7, ScheduleDeletesFacts
  <2>3. \A s \in SoSks : PullOp(s) \notin ops /\ (DeleteOps(s) # {} \/ Over(s))
    BY <2>1 DEF DeleteInv
  <2>4. \A s \in SoSks : Quiet(s)'
    BY <2>1, <2>2, <2>3, PullOpFacts DEF Quiet
  <2>5. \A s \in SoSks : Over(s) => Over(s)'
    BY <2>1, <2>2, <2>4 DEF Over, Live
  <2>6. \A s \in SoSks : DeleteOps(s)' = DeleteOps(s)
    BY <2>1 DEF DeleteOps
  <2>7. \A u \in tasks' : u.op.sk \in SoSks
    BY DEF SoTypeOK, TaskSet, OpSet
  <2>8. \A u \in tasks' : u.op.kind = "delete" => Quiet(u.op.sk)' /\ (u.pc # "call" => Over(u.op.sk)')
    BY <2>2, <2>4, <2>5, <2>7 DEF DeleteInv
  <2>9. \A s \in SoSks : DeleteOps(s)' # {} => PullOp(s) \notin ops'
    BY <2>1, <2>3
  <2> QED
    BY <2>1, <2>2, <2>3, <2>4, <2>5, <2>6, <2>8, <2>9 DEF DeleteInv
<1>8. CASE ControllerRestarts
  <2>1. /\ UNCHANGED <<ops, stored, raced>>
        /\ deletion'.pc \in {"failed", "done"} /\ (deletion'.pc = "done" => deletion.pc = "done")
    BY <1>8 DEF ControllerRestarts, SoTypeOK
  <2>2. /\ \A u \in tasks' : u.op \in ops /\ u.pc = "call" /\ ~u.cancelled
        /\ \A o \in ops : o.kind = "delete" => \E u \in tasks' : u.op = o /\ u.pc = "call" /\ ~u.cancelled
    BY <1>8, LoadFacts
  <2>3. \A s \in SoSks : PullOp(s) \notin ops => Quiet(s)'
    BY <2>1, <2>2 DEF Quiet
  <2>4. \A s \in SoSks : Over(s) => Over(s)'
    BY <2>1, <2>2, <2>3 DEF Over, Live, Quiet
  <2>5. \A s \in SoSks : DeleteOps(s)' = DeleteOps(s)
    BY <2>1 DEF DeleteOps
  <2>6. \A s \in SoSks : DeleteOps(s) # {} => \E u \in tasks' : /\ u.op.sk = s /\ u.op.kind = "delete"
                                                                /\ u.pc = "call" /\ ~u.cancelled
    BY <2>2 DEF DeleteOps
  <2>7. \A u \in tasks' : u.op.kind = "delete" => u.op.sk \in SoSks /\ DeleteOps(u.op.sk) # {}
    BY <2>2 DEF DeleteOps, SoTypeOK, OpSet
  <2>8. \A u \in tasks' : u.op.kind = "delete" => Quiet(u.op.sk)' /\ (u.pc # "call" => Over(u.op.sk)')
    BY <2>2, <2>3, <2>7 DEF DeleteInv
  <2>9. \A s \in SoSks : DeleteOps(s)' # {} => PullOp(s) \notin ops'
    BY <2>1, <2>5 DEF DeleteInv
  <2>10. deletion'.pc = "done" => \A s \in SoSks :
           Quiet(s)' /\ (Over(s)' \/ (DeleteOps(s)' # {} /\ \E t \in tasks' : /\ t.op.sk = s /\ t.op.kind = "delete"
                                                            /\ t.pc = "call" /\ ~t.cancelled))
    BY <2>1, <2>3, <2>4, <2>5, <2>6 DEF DeleteInv, Quiet
  <2> QED
    BY <2>1, <2>8, <2>9, <2>10 DEF DeleteInv
<1>9. ASSUME NEW s \in SoSks, CreateOnSafekeeper(s) PROVE DeleteInv'
  BY <1>9 DEF OrderInv, CreateOnSafekeeper
<1>10. ASSUME NEW s \in SoSks, CreateFails(s) PROVE DeleteInv'
  BY <1>10 DEF OrderInv, CreateFails
<1>11. ASSUME NEW s \in SoSks, PersistPull(s) PROVE DeleteInv'
  BY <1>11 DEF OrderInv, PersistPull
<1>12. ASSUME NEW s \in SoSks, PersistDelete(s) PROVE DeleteInv'
  <2> DEFINE d == Op(s, deletion.scope, "delete", DeleteGeneration)
  <2>1. /\ UNCHANGED <<tasks, stored, raced>> /\ ops' = Inserted(d) /\ ops \subseteq OpSet
        /\ deletion.pc = "persist" /\ deletion'.pc = "persist"
        /\ deletion'.scope = deletion.scope /\ deletion'.todo = deletion.todo \ {s}
    BY <1>12 DEF PersistDelete, SoTypeOK
  <2>2. d \in OpSet /\ d.sk = s /\ d.kind = "delete" /\ d.gen = 2 /\ d.scope = deletion.scope
    BY OpFacts DEF SoTypeOK, DeleteGeneration
  <2> HIDE DEF d
  <2>3. /\ ops' \subseteq OpSet
        /\ \A o \in ops' : o \in ops \/ o = d
        /\ \A o \in ops : o \in ops' \/ (d \in ops' /\ o.sk = s /\ o.scope = d.scope)
        /\ \/ d \in ops' /\ \A o \in ops' : o.sk = s /\ o.scope = d.scope => o = d
           \/ \E o \in ops' : o.sk = s /\ o.scope = d.scope /\ o.gen >= 2
    BY <2>1, <2>2, InsertedFacts
  <2>4. DeleteOps(s)' # {}
    <3>1. CASE d \in ops'
      BY <2>2, <3>1 DEF DeleteOps
    <3>2. CASE \E o \in ops' : o.sk = s /\ o.gen >= 2 /\ o \in ops
      <4>1. PICK o \in ops' : o.sk = s /\ o.gen >= 2 /\ o \in ops
        BY <3>2
      <4>2. o.kind = "delete"
        BY <2>1, <4>1 DEF KindInv, OpSet
      <4> QED
        BY <4>1, <4>2 DEF DeleteOps
    <3> QED
      BY <2>3, <3>1, <3>2
  <2>5. \A r \in SoSks : PullOp(r) \in ops' => PullOp(r) \in ops
    BY <2>2, <2>3, PullOpFacts
  <2>6. PullOp(s) \notin ops'
    <3>1. CASE deletion.scope = "tenant"
      BY <2>1, <2>5, <3>1, PullOpFacts DEF DeleteInv
    <3>2. CASE deletion.scope = "timeline" /\ d \in ops' /\ \A o \in ops' : o.sk = s /\ o.scope = d.scope => o = d
      BY <2>2, <3>2, PullOpFacts
    <3>3. CASE \E o \in ops' : o.sk = s /\ o.gen >= 2 /\ o \in ops
      <4>1. PICK o \in ops' : o.sk = s /\ o.gen >= 2 /\ o \in ops
        BY <3>3
      <4>2. o \in DeleteOps(s)
        BY <2>1, <4>1 DEF KindInv, OpSet, DeleteOps
      <4> QED
        BY <2>5, <4>2 DEF DeleteInv
    <3>4. deletion.scope \in {"timeline", "tenant"}
      BY DEF SoTypeOK
    <3>5. (d \in ops' /\ \A o \in ops' : o.sk = s /\ o.scope = d.scope => o = d)
          \/ \E o \in ops' : o.sk = s /\ o.gen >= 2 /\ o \in ops
      <4>1. SUFFICES ASSUME NEW o \in ops', o.sk = s, o.scope = d.scope, o.gen >= 2, o \notin ops
                     PROVE  d \in ops' /\ \A p \in ops' : p.sk = s /\ p.scope = d.scope => p = d
        BY <2>3
      <4>2. o = d
        BY <2>3, <4>1
      <4> QED
        BY <2>1, <2>2, <4>1, <4>2 DEF Inserted
    <3> QED
      BY <3>1, <3>2, <3>3, <3>4, <3>5
  <2>7. \A r \in SoSks : r # s => DeleteOps(r)' = DeleteOps(r)
    BY <2>2, <2>3 DEF DeleteOps
  <2>8. \A r \in SoSks : (Quiet(r) => Quiet(r)') /\ (Over(r) => Over(r)')
    BY <2>1, <2>5 DEF Quiet, Over, Live
  <2>9. deletion.scope = "tenant" => \A o \in ops' : o.kind # "pull"
    BY <2>1, <2>2, <2>3 DEF DeleteInv
  <2>10. \A u \in tasks : u.op.sk \in SoSks
    BY DEF SoTypeOK, TaskSet, OpSet
  <2> QED
    BY <2>1, <2>4, <2>5, <2>6, <2>7, <2>8, <2>9, <2>10 DEF DeleteInv
<1>13. ASSUME NEW s \in SoSks, SafekeeperRestarts(s) PROVE DeleteInv'
  <2>1. UNCHANGED <<ops, deletion, stored, raced>> /\ tasks \subseteq TaskSet
    BY <1>13 DEF SafekeeperRestarts, SoTypeOK
  <2>2. \A u \in tasks : u.op.sk \in SoSks
    BY DEF SoTypeOK, TaskSet, OpSet
  <2>3. /\ \A u \in tasks' : u \in tasks \/ (u.pc = "call" /\ ~u.cancelled
                                             /\ \E t \in tasks : t.op = u.op /\ t.cancelled = u.cancelled)
        /\ \A t \in tasks : ~t.cancelled /\ t.pc = "call" => t \in tasks'
    BY <1>13, <2>1, RestartFacts
  <2>5. \A r \in SoSks : Quiet(r) => Quiet(r)'
    BY <2>1, <2>3 DEF Quiet
  <2>6. \A r \in SoSks : Over(r) => Over(r)'
    BY <2>1, <2>3, <2>5 DEF Over, Live
  <2>7. \A u \in tasks' : u.op.kind = "delete" => Quiet(u.op.sk)' /\ (u.pc # "call" => Over(u.op.sk)')
    BY <2>2, <2>3, <2>5, <2>6 DEF DeleteInv
  <2>8. \A r \in SoSks : DeleteOps(r)' = DeleteOps(r)
    BY <2>1 DEF DeleteOps
  <2>9. deletion.pc = "done" => \A r \in SoSks : Over(r)'
          \/ (DeleteOps(r)' # {} /\ \E v \in tasks' : /\ v.op.sk = r /\ v.op.kind = "delete"
                                                      /\ v.pc = "call" /\ ~v.cancelled)
    BY <2>3, <2>6, <2>8 DEF DeleteInv
  <2> QED
    BY <2>1, <2>5, <2>6, <2>7, <2>8, <2>9 DEF DeleteInv
<1>14. ASSUME NEW t \in tasks, PullStarts(t) PROVE DeleteInv'
  <2>1. UNCHANGED <<ops, deletion, stored, raced>> /\ t.pc = "call" /\ t.op.kind = "pull"
    BY <1>14 DEF PullStarts
  <2>2. \A u \in tasks : u.op.sk \in SoSks /\ u.op \in OpSet
    BY DEF SoTypeOK, TaskSet, OpSet
  <2>3. /\ \A u \in tasks' : u \in tasks \/ (u.op = t.op)
        /\ \A u \in tasks : u # t => u \in tasks'
    BY <1>14, PullStartsFacts, StepsToFacts, EndsFacts DEF SoTypeOK
  <2>4. ~Quiet(t.op.sk)
    BY <2>1, <2>2, PullOpFacts DEF KindInv, Quiet
  <2>5. \A r \in SoSks : Quiet(r) => Quiet(r)'
    BY <2>1, <2>2, <2>3, <2>4, PullOpFacts DEF Quiet
  <2>6. \A r \in SoSks : Over(r) => Over(r)'
    BY <2>1, <2>2, <2>3, <2>4, <2>5 DEF Over, Live
  <2>7. \A u \in tasks' : u.op.kind = "delete" => Quiet(u.op.sk)' /\ (u.pc # "call" => Over(u.op.sk)')
    BY <2>1, <2>2, <2>3, <2>5, <2>6 DEF DeleteInv
  <2>8. \A r \in SoSks : DeleteOps(r)' = DeleteOps(r)
    BY <2>1 DEF DeleteOps
  <2>9. deletion.pc = "done" => \A r \in SoSks : Over(r)'
          \/ (DeleteOps(r)' # {} /\ \E v \in tasks' : /\ v.op.sk = r /\ v.op.kind = "delete"
                                                      /\ v.pc = "call" /\ ~v.cancelled)
    BY <2>1, <2>3, <2>6, <2>8 DEF DeleteInv
  <2> QED
    BY <2>1, <2>5, <2>6, <2>7, <2>8, <2>9 DEF DeleteInv
<1>15. ASSUME NEW t \in tasks, PullInstalls(t) PROVE DeleteInv'
  <2>1. UNCHANGED <<ops, deletion, raced>> /\ stored' = stored \union {t.op.sk} /\ t.pc = "downloaded"
    BY <1>15 DEF PullInstalls
  <2>2. \A u \in tasks : u.op.sk \in SoSks
    BY DEF SoTypeOK, TaskSet, OpSet
  <2>3. /\ \A u \in tasks' : u \in tasks \/ (u.op = t.op /\ u.pc = "answered" /\ u.cancelled = t.cancelled)
        /\ \A u \in tasks : u # t => u \in tasks'
    <3>1. tasks \subseteq TaskSet /\ StepsTo(t, "answered")
      BY <1>15 DEF SoTypeOK, PullInstalls, StepsTo
    <3> QED
      BY <3>1, StepsToFacts
  <2>4. t.op.kind = "pull"
    BY <2>1 DEF KindInv, SoTypeOK, TaskSet, OpSet
  <2>5. \A r \in SoSks : Quiet(r) => Quiet(r)'
    BY <2>1, <2>3 DEF Quiet
  <2>6. \A r \in SoSks : Over(r) => Over(r)'
    BY <2>1, <2>3, <2>5 DEF Over, Live
  <2>7. \A u \in tasks' : u.op.kind = "delete" => Quiet(u.op.sk)' /\ (u.pc # "call" => Over(u.op.sk)')
    BY <2>2, <2>3, <2>4, <2>5, <2>6 DEF DeleteInv
  <2>8. \A r \in SoSks : DeleteOps(r)' = DeleteOps(r)
    BY <2>1 DEF DeleteOps
  <2>9. deletion.pc = "done" => \A r \in SoSks : Over(r)'
          \/ (DeleteOps(r)' # {} /\ \E v \in tasks' : /\ v.op.sk = r /\ v.op.kind = "delete"
                                                      /\ v.pc = "call" /\ ~v.cancelled)
    BY <2>1, <2>3, <2>6, <2>8 DEF DeleteInv
  <2> QED
    BY <2>1, <2>5, <2>6, <2>7, <2>8, <2>9 DEF DeleteInv
<1>16. ASSUME NEW t \in tasks, DeleteOnSafekeeper(t) PROVE DeleteInv'
  <2>1. UNCHANGED <<ops, deletion>> /\ t.pc = "call" /\ t.op.kind = "delete"
        /\ raced \subseteq raced' /\ stored' \subseteq stored
    BY <1>16 DEF DeleteOnSafekeeper
  <2>2. \A u \in tasks : u.op.sk \in SoSks
    BY DEF SoTypeOK, TaskSet, OpSet
  <2>3. /\ \A u \in tasks' : u \in tasks \/ (u.op = t.op /\ u.pc = "answered" /\ u.cancelled = t.cancelled)
        /\ \A u \in tasks : u # t => u \in tasks'
    <3>1. tasks \subseteq TaskSet /\ StepsTo(t, "answered")
      BY <1>16 DEF SoTypeOK, DeleteOnSafekeeper, StepsTo
    <3> QED
      BY <3>1, StepsToFacts
  <2>4. Over(t.op.sk)'
    <3>1. Quiet(t.op.sk)'
      BY <2>1, <2>3 DEF DeleteInv, Quiet
    <3>2. t.op.sk \notin stored'
      BY <1>16 DEF DeleteOnSafekeeper, OrderInv
    <3>3. t.op.sk \notin raced' => \A u \in tasks : u.op.sk = t.op.sk => u.pc # "downloaded"
      BY <1>16 DEF DeleteOnSafekeeper, PullInProgress
    <3> QED
      BY <2>3, <3>1, <3>2, <3>3 DEF Over, Live
  <2>5. \A r \in SoSks : Quiet(r) => Quiet(r)'
    BY <2>1, <2>3 DEF Quiet
  <2>6. \A r \in SoSks : Over(r) => Over(r)'
    BY <2>1, <2>3, <2>5 DEF Over, Live
  <2>7. \A u \in tasks' : u.op.kind = "delete" => Quiet(u.op.sk)' /\ (u.pc # "call" => Over(u.op.sk)')
    BY <2>1, <2>2, <2>3, <2>4, <2>5, <2>6 DEF DeleteInv
  <2>8. \A r \in SoSks : DeleteOps(r)' = DeleteOps(r)
    BY <2>1 DEF DeleteOps
  <2>9. deletion.pc = "done" => \A r \in SoSks : Over(r)'
          \/ (DeleteOps(r)' # {} /\ \E v \in tasks' : /\ v.op.sk = r /\ v.op.kind = "delete"
                                                      /\ v.pc = "call" /\ ~v.cancelled)
    BY <2>1, <2>3, <2>4, <2>6, <2>8 DEF DeleteInv
  <2> QED
    BY <2>1, <2>5, <2>6, <2>7, <2>8, <2>9 DEF DeleteInv
<1>17. ASSUME NEW t \in tasks, RemoveOp(t) PROVE DeleteInv'
  <2>1. UNCHANGED <<deletion, stored, raced>> /\ ops' \subseteq ops /\ t.pc \in {"answered", "row"}
        /\ \A o \in ops : o \in ops' \/ (o.sk = t.op.sk /\ o.gen = t.op.gen)
    BY <1>17 DEF RemoveOp, Removed
  <2>2. \A u \in tasks : u.op.sk \in SoSks
    BY DEF SoTypeOK, TaskSet, OpSet
  <2>3. /\ \A u \in tasks' : u \in tasks \/ (u.op = t.op /\ u.pc = "row" /\ u.cancelled = t.cancelled)
        /\ \A u \in tasks : u # t => u \in tasks'
    <3>1. tasks \subseteq TaskSet /\ StepsTo(t, "row")
      BY <1>17 DEF SoTypeOK, RemoveOp, StepsTo
    <3> QED
      BY <3>1, StepsToFacts
  <2>4. t.op.kind = "delete" => Over(t.op.sk)
    BY <2>1 DEF DeleteInv
  <2>5. \A r \in SoSks : Quiet(r) => Quiet(r)'
    BY <2>1, <2>3 DEF Quiet
  <2>6. \A r \in SoSks : Over(r) => Over(r)'
    BY <2>1, <2>3, <2>5 DEF Over, Live
  <2>7. \A u \in tasks' : u.op.kind = "delete" => Quiet(u.op.sk)' /\ (u.pc # "call" => Over(u.op.sk)')
    BY <2>1, <2>2, <2>3, <2>5, <2>6 DEF DeleteInv
  <2>8. \A r \in SoSks : /\ DeleteOps(r)' \subseteq DeleteOps(r)
                         /\ DeleteOps(r)' = DeleteOps(r) \/ Over(r)
    BY <2>1, <2>4 DEF DeleteOps, KindInv, SoTypeOK, TaskSet, OpSet
  <2>9. deletion.pc = "done" => \A r \in SoSks : Over(r)'
          \/ (DeleteOps(r)' # {} /\ \E v \in tasks' : /\ v.op.sk = r /\ v.op.kind = "delete"
                                                      /\ v.pc = "call" /\ ~v.cancelled)
    BY <2>1, <2>3, <2>6, <2>8 DEF DeleteInv
  <2>10. \A r \in SoSks : DeleteOps(r)' # {} => PullOp(r) \notin ops'
    <3> SUFFICES ASSUME NEW r \in SoSks, NEW o \in DeleteOps(r)' PROVE PullOp(r) \notin ops'
      BY DEF DeleteOps
    <3>1. o \in DeleteOps(r)
      BY <2>1 DEF DeleteOps
    <3> QED
      BY <2>1, <3>1 DEF DeleteInv
  <2>11. deletion.pc = "persist" => \A r \in SoSks \ deletion.todo :
           PullOp(r) \notin ops' /\ (DeleteOps(r)' # {} \/ Over(r)')
    BY <2>1, <2>6, <2>8 DEF DeleteInv
  <2>12. deletion.pc = "done" => \A r \in SoSks : Quiet(r)'
    BY <2>5 DEF DeleteInv
  <2> HIDE <1>0
  <2> QED
    BY <2>1, <2>7, <2>9, <2>10, <2>11, <2>12 DEF DeleteInv
<1>18. ASSUME NEW t \in tasks, DeleteRow(t) PROVE DeleteInv'
  <2>1. UNCHANGED <<deletion, stored, raced>> /\ ops' \subseteq ops /\ t.pc \in {"answered", "row"}
        /\ \A o \in ops : o \in ops' \/ (o.sk = t.op.sk /\ o.gen = t.op.gen)
    BY <1>18 DEF DeleteRow
  <2>2. \A u \in tasks : u.op.sk \in SoSks
    BY DEF SoTypeOK, TaskSet, OpSet
  <2>3. /\ \A u \in tasks' : u \in tasks \/ (u.op = t.op /\ u.pc = "row" /\ u.cancelled = t.cancelled)
        /\ \A u \in tasks : u # t => u \in tasks'
    <3>1. tasks \subseteq TaskSet /\ StepsTo(t, "row")
      BY <1>18 DEF SoTypeOK, DeleteRow, StepsTo
    <3> QED
      BY <3>1, StepsToFacts
  <2>4. t.op.kind = "delete" => Over(t.op.sk)
    BY <2>1 DEF DeleteInv
  <2>5. \A r \in SoSks : Quiet(r) => Quiet(r)'
    BY <2>1, <2>3 DEF Quiet
  <2>6. \A r \in SoSks : Over(r) => Over(r)'
    BY <2>1, <2>3, <2>5 DEF Over, Live
  <2>7. \A u \in tasks' : u.op.kind = "delete" => Quiet(u.op.sk)' /\ (u.pc # "call" => Over(u.op.sk)')
    BY <2>1, <2>2, <2>3, <2>5, <2>6 DEF DeleteInv
  <2>8. \A r \in SoSks : /\ DeleteOps(r)' \subseteq DeleteOps(r)
                         /\ DeleteOps(r)' = DeleteOps(r) \/ Over(r)
    BY <2>1, <2>4 DEF DeleteOps, KindInv, SoTypeOK, TaskSet, OpSet
  <2>9. deletion.pc = "done" => \A r \in SoSks : Over(r)'
          \/ (DeleteOps(r)' # {} /\ \E v \in tasks' : /\ v.op.sk = r /\ v.op.kind = "delete"
                                                      /\ v.pc = "call" /\ ~v.cancelled)
    BY <2>1, <2>3, <2>6, <2>8 DEF DeleteInv
  <2>10. \A r \in SoSks : DeleteOps(r)' # {} => PullOp(r) \notin ops'
    <3> SUFFICES ASSUME NEW r \in SoSks, NEW o \in DeleteOps(r)' PROVE PullOp(r) \notin ops'
      BY DEF DeleteOps
    <3>1. o \in DeleteOps(r)
      BY <2>1 DEF DeleteOps
    <3> QED
      BY <2>1, <3>1 DEF DeleteInv
  <2>11. deletion.pc = "persist" => \A r \in SoSks \ deletion.todo :
           PullOp(r) \notin ops' /\ (DeleteOps(r)' # {} \/ Over(r)')
    BY <2>1, <2>6, <2>8 DEF DeleteInv
  <2>12. deletion.pc = "done" => \A r \in SoSks : Quiet(r)'
    BY <2>5 DEF DeleteInv
  <2> HIDE <1>0
  <2> QED
    BY <2>1, <2>7, <2>9, <2>10, <2>11, <2>12 DEF DeleteInv
<1>19. ASSUME NEW t \in tasks, CallLost(t) PROVE DeleteInv'
  <2>1. UNCHANGED <<ops, deletion, stored, raced>> /\ t.pc \in {"downloaded", "answered"}
    BY <1>19 DEF CallLost
  <2>2. \A u \in tasks : u.op.sk \in SoSks
    BY DEF SoTypeOK, TaskSet, OpSet
  <2>3. /\ \A u \in tasks' : u \in tasks \/ (u.op = t.op /\ u.pc = "call" /\ ~u.cancelled /\ ~t.cancelled)
        /\ \A u \in tasks : u # t => u \in tasks'
    <3>1. tasks \subseteq TaskSet
      BY DEF SoTypeOK
    <3>2. CASE t.cancelled
      BY <1>19, <3>2, EndsFacts DEF CallLost, CallsAgain
    <3>3. CASE ~t.cancelled
      <4>1. StepsTo(t, "call")
        BY <1>19, <3>3 DEF CallLost, CallsAgain, StepsTo
      <4> QED
        BY <3>1, <3>3, <4>1, StepsToFacts
    <3> QED
      BY <3>2, <3>3
  <2>5. \A r \in SoSks : Quiet(r) => Quiet(r)'
    BY <2>1, <2>3 DEF Quiet
  <2>6. \A r \in SoSks : Over(r) => Over(r)'
    BY <2>1, <2>3, <2>5 DEF Over, Live
  <2>7. \A u \in tasks' : u.op.kind = "delete" => Quiet(u.op.sk)' /\ (u.pc # "call" => Over(u.op.sk)')
    BY <2>2, <2>3, <2>5, <2>6 DEF DeleteInv
  <2>8. \A r \in SoSks : DeleteOps(r)' = DeleteOps(r)
    BY <2>1 DEF DeleteOps
  <2>9. deletion.pc = "done" => \A r \in SoSks : Over(r)'
          \/ (DeleteOps(r)' # {} /\ \E v \in tasks' : /\ v.op.sk = r /\ v.op.kind = "delete"
                                                      /\ v.pc = "call" /\ ~v.cancelled)
    BY <2>1, <2>3, <2>6, <2>8 DEF DeleteInv
  <2> QED
    BY <2>1, <2>5, <2>6, <2>7, <2>8, <2>9 DEF DeleteInv
<1>20. ASSUME NEW t \in tasks, RemoveOpFails(t) PROVE DeleteInv'
  <2>1. UNCHANGED <<deletion, stored, raced>> /\ ops' \subseteq ops /\ t.pc \in {"answered", "row"}
        /\ \A o \in ops : o \in ops' \/ (o.sk = t.op.sk /\ o.gen = t.op.gen)
    BY <1>20 DEF RemoveOpFails
  <2>2. \A u \in tasks : u.op.sk \in SoSks
    BY DEF SoTypeOK, TaskSet, OpSet
  <2>3. /\ \A u \in tasks' : u \in tasks \/ (u.op = t.op /\ u.pc = "row" /\ u.cancelled = t.cancelled)
        /\ \A u \in tasks : u # t => u \in tasks'
    <3>1. tasks \subseteq TaskSet /\ StepsTo(t, "row")
      BY <1>20 DEF SoTypeOK, RemoveOpFails, StepsTo
    <3> QED
      BY <3>1, StepsToFacts
  <2>4. t.op.kind = "delete" => Over(t.op.sk)
    BY <2>1 DEF DeleteInv
  <2>5. \A r \in SoSks : Quiet(r) => Quiet(r)'
    BY <2>1, <2>3 DEF Quiet
  <2>6. \A r \in SoSks : Over(r) => Over(r)'
    BY <2>1, <2>3, <2>5 DEF Over, Live
  <2>7. \A u \in tasks' : u.op.kind = "delete" => Quiet(u.op.sk)' /\ (u.pc # "call" => Over(u.op.sk)')
    BY <2>1, <2>2, <2>3, <2>5, <2>6 DEF DeleteInv
  <2>8. \A r \in SoSks : /\ DeleteOps(r)' \subseteq DeleteOps(r)
                         /\ DeleteOps(r)' = DeleteOps(r) \/ Over(r)
    BY <2>1, <2>4 DEF DeleteOps, KindInv, SoTypeOK, TaskSet, OpSet
  <2>9. deletion.pc = "done" => \A r \in SoSks : Over(r)'
          \/ (DeleteOps(r)' # {} /\ \E v \in tasks' : /\ v.op.sk = r /\ v.op.kind = "delete"
                                                      /\ v.pc = "call" /\ ~v.cancelled)
    BY <2>1, <2>3, <2>6, <2>8 DEF DeleteInv
  <2>10. \A r \in SoSks : DeleteOps(r)' # {} => PullOp(r) \notin ops'
    <3> SUFFICES ASSUME NEW r \in SoSks, NEW o \in DeleteOps(r)' PROVE PullOp(r) \notin ops'
      BY DEF DeleteOps
    <3>1. o \in DeleteOps(r)
      BY <2>1 DEF DeleteOps
    <3> QED
      BY <2>1, <3>1 DEF DeleteInv
  <2>11. deletion.pc = "persist" => \A r \in SoSks \ deletion.todo :
           PullOp(r) \notin ops' /\ (DeleteOps(r)' # {} \/ Over(r)')
    BY <2>1, <2>6, <2>8 DEF DeleteInv
  <2>12. deletion.pc = "done" => \A r \in SoSks : Quiet(r)'
    BY <2>5 DEF DeleteInv
  <2> HIDE <1>0
  <2> QED
    BY <2>1, <2>7, <2>9, <2>10, <2>11, <2>12 DEF DeleteInv
<1>21. CASE UNCHANGED soVars
  BY <1>21 DEF soVars, DeleteInv, Quiet, Over, Live, DeleteOps
<1> QED
  BY <1>1, <1>2, <1>3, <1>4, <1>5, <1>6, <1>7, <1>8, <1>9, <1>10, <1>11,
     <1>12, <1>13, <1>14, <1>15, <1>16, <1>17, <1>18, <1>19, <1>20, <1>21
     DEF SoNext, TaskStep

-----------------------------------------------------------------------------
(* The theorems.                                                           *)

SoInv == SoTypeOK /\ KindInv /\ OrderInv /\ SeedInv /\ DeleteInv

LEMMA SoInitially == SoInit => SoInv
<1> SUFFICES ASSUME SoInit PROVE SoInv
  OBVIOUS
<1>1. SoTypeOK
  BY DEF SoInit, SoTypeOK
<1>2. KindInv /\ OrderInv /\ SeedInv /\ DeleteInv
  BY DEF SoInit, KindInv, OrderInv, SeedInv, DeleteInv, DeleteOps
<1> QED
  BY <1>1, <1>2 DEF SoInv

LEMMA SoStep == SoInv /\ [SoNext]_soVars => SoInv'
<1> SUFFICES ASSUME SoInv, [SoNext]_soVars PROVE SoInv'
  OBVIOUS
<1>1. SoTypeOK'
  BY SoTypes DEF SoInv
<1>2. KindInv' /\ OrderInv' /\ SeedInv'
  BY SoKinds, SoPhases, SoSeeds DEF SoInv
<1>3. DeleteInv'
  BY <1>1, <1>2, SoDeletes DEF SoInv
<1> QED
  BY <1>1, <1>2, <1>3 DEF SoInv

LEMMA SoInvariant == SoSpec => []SoInv
  BY SoInitially, SoStep, PTL DEF SoSpec

(* A timeline is created on a quorum of its safekeepers or of those that   *)
(* did not answer in time: what                                            *)
(* tenant_timeline_create_safekeepers_quorum really makes sure of.         *)
THEOREM CreationHasQuorum == SoSpec => []CreatedOnQuorum
<1>1. SoInv => CreatedOnQuorum
  BY DEF SoInv, SeedInv, CreatedOnQuorum
<1> QED
  BY <1>1, SoInvariant, PTL

(* A safekeeper that answered the creation with an error is seeded: its    *)
(* pull is in safekeeper_timeline_pending_ops and reconcile_one is at it   *)
(* until the safekeeper has the timeline.                                  *)
THEOREM SeedingSurvives == SoSpec => []SeedingIsNotForgotten
<1>1. SoInv => SeedingIsNotForgotten
  <2> SUFFICES ASSUME SoInv, creation.pc = "done", deletion.pc = "idle",
                      NEW s \in creation.left \ stored
               PROVE  Pending(s, "pull")
    BY DEF SeedingIsNotForgotten
  <2>1. s \in SoSks
    BY DEF SoInv, SoTypeOK
  <2>2. PullOp(s) \in ops /\ \E t \in tasks : t.op = PullOp(s) /\ ~t.cancelled
    BY DEF SoInv, SeedInv
  <2> QED
    BY <2>1, <2>2, PullOpFacts DEF Pending
<1> QED
  BY <1>1, SoInvariant, PTL

(* After an accepted deletion, a safekeeper that still has the timeline    *)
(* and on which no pull was in progress is going to delete it, whatever    *)
(* restarts, fails, or still reports success.                              *)
THEOREM DeletionSurvives == SoSpec => []DeletionIsNotForgotten
<1>1. SoInv => DeletionIsNotForgotten
  <2> SUFFICES ASSUME SoInv, deletion.pc = "done", NEW s \in stored \ raced
               PROVE  Pending(s, "delete")
    BY DEF DeletionIsNotForgotten
  <2>1. s \in SoSks /\ ~Over(s)
    BY DEF SoInv, SoTypeOK, Over, Live
  <2>2. DeleteOps(s) # {} /\ \E t \in tasks : /\ t.op.sk = s /\ t.op.kind = "delete" /\ ~t.cancelled
    BY <2>1 DEF SoInv, DeleteInv
  <2> QED
    BY <2>2 DEF Pending, DeleteOps
<1> QED
  BY <1>1, SoInvariant, PTL

=============================================================================
