-------------------------- MODULE WalBackupProofs ----------------------------
(***************************************************************************)
(* Proofs about the offloading and removal of WAL, for any number of       *)
(* safekeepers, segments, parallel uploads and faults, and about partial   *)
(* backup and eviction, for any segment size, WAL, terms and faults.       *)
(***************************************************************************)
EXTENDS WalOffload, PartialBackup, FiniteSetTheorems, SequenceTheorems, TLAPS

-----------------------------------------------------------------------------
(* The invariant.                                                          *)

WoFiles == [commit : Nat, backup : Nat, rcl : Nat]
WoTasks == [run : BOOLEAN, unseen : BOOLEAN, retry : BOOLEAN, next : Nat, end : Nat, done : SUBSET Nat]

WoTypeOK ==
  /\ woCommit \in [WoSks -> Nat] /\ woBackup \in [WoSks -> Nat] /\ woCf \in [WoSks -> WoFiles]
  /\ woLocal \in [WoSks -> SUBSET Nat] /\ woBumped \in [WoSks -> BOOLEAN]
  /\ woTask \in [WoSks -> WoTasks] /\ woRemoval \in [WoSks -> Nat]
  /\ woLastRemoved \in [WoSks -> Nat] /\ woRemote \subseteq Nat /\ woPs \in Nat

(* All segments below n are in remote storage.                             *)
RemoteUpTo(n) == \A g \in Nat : 1 <= g /\ g < n => g \in woRemote

(* Everything an offloader counts from is gapless: backup_lsn in memory    *)
(* and on disk, and the head of its queue; what it saw finish is there.    *)
GaplessInv ==
  \A s \in WoSks : /\ RemoteUpTo(woBackup[s]) /\ RemoteUpTo(woCf[s].backup)
                   /\ RemoteUpTo(woTask[s].next) /\ woTask[s].done \subseteq woRemote

(* The control file never goes back, and no removal passes its horizon.    *)
Below(s, g) == g < woCf[s].rcl /\ g < woCf[s].backup /\ g < woCf[s].commit

RemovalInv ==
  \A s \in WoSks :
    /\ woCf[s].commit <= woCommit[s] /\ woCf[s].backup <= woBackup[s] /\ woCf[s].rcl <= woPs
    /\ woRemoval[s] # 0 => Below(s, woRemoval[s])
    /\ \A g \in Nat : LocalStart[s] <= g /\ g <= woCommit[s] /\ g \notin woLocal[s] => Below(s, g)

-----------------------------------------------------------------------------
(* Minima and maxima.                                                      *)

LEMMA MaxNat ==
  \A a, b \in Nat : /\ Max({a, b}) \in Nat /\ Max({a, b}) >= a /\ Max({a, b}) >= b
                    /\ Max({a, b}) = a \/ Max({a, b}) = b
<1> SUFFICES ASSUME NEW a \in Nat, NEW b \in Nat
             PROVE  /\ Max({a, b}) \in Nat /\ Max({a, b}) >= a /\ Max({a, b}) >= b
                    /\ Max({a, b}) = a \/ Max({a, b}) = b
  OBVIOUS
<1>1. \E x \in {a, b} : \A y \in {a, b} : x >= y
  <2>1. CASE a >= b
    BY <2>1
  <2>2. CASE b >= a
    BY <2>2
  <2> QED
    BY <2>1, <2>2
<1> QED
  BY <1>1 DEF Max

LEMMA MinNat ==
  \A a, b, c \in Nat : /\ Min({a, b, c}) \in Nat
                       /\ Min({a, b, c}) <= a /\ Min({a, b, c}) <= b /\ Min({a, b, c}) <= c
<1> SUFFICES ASSUME NEW a \in Nat, NEW b \in Nat, NEW c \in Nat
             PROVE  /\ Min({a, b, c}) \in Nat
                    /\ Min({a, b, c}) <= a /\ Min({a, b, c}) <= b /\ Min({a, b, c}) <= c
  OBVIOUS
<1>1. \E x \in {a, b, c} : \A y \in {a, b, c} : x <= y
  <2>1. CASE a <= b /\ a <= c
    BY <2>1
  <2>2. CASE b <= a /\ b <= c
    BY <2>2
  <2>3. CASE c <= a /\ c <= b
    BY <2>3
  <2> QED
    BY <2>1, <2>2, <2>3
<1> QED
  BY <1>1 DEF Min

-----------------------------------------------------------------------------
(* Steps.                                                                  *)

(* Only the task of s changes, and it counts from no further.              *)
TaskBecomes(s, t) ==
  /\ woTask' = [woTask EXCEPT ![s] = t]
  /\ UNCHANGED <<woCommit, woBackup, woCf, woLocal, woRemoval, woRemote, woPs>>

LEMMA TaskBecomesKeeps ==
  ASSUME WoTypeOK, GaplessInv, RemovalInv, NEW s \in WoSks, NEW t \in WoTasks, TaskBecomes(s, t),
         woBumped' = woBumped, woLastRemoved' = woLastRemoved,
         RemoteUpTo(t.next), t.done \subseteq woRemote
  PROVE  WoTypeOK' /\ GaplessInv' /\ RemovalInv'
<1>1. WoTypeOK'
  BY DEF WoTypeOK, TaskBecomes
<1>2. \A r \in WoSks : woTask'[r] = IF r = s THEN t ELSE woTask[r]
  BY DEF WoTypeOK, TaskBecomes
<1>3. GaplessInv'
  BY <1>2 DEF GaplessInv, TaskBecomes, RemoteUpTo
<1>4. RemovalInv'
  BY DEF RemovalInv, TaskBecomes, Below
<1> QED
  BY <1>1, <1>3, <1>4

LEMMA NoTaskFacts == NoTask \in WoTasks /\ NoTask.next = 0 /\ NoTask.done = {}
  BY DEF NoTask, WoTasks

LEMMA NothingBelowZero == RemoteUpTo(0)
  BY DEF RemoteUpTo

LEMMA TaskSteps ==
  ASSUME WoTypeOK, GaplessInv, RemovalInv, NEW s \in WoSks,
         \/ StartOffload(s) \/ StopOffload(s) \/ FinishOffload(s) \/ BeginRange(s)
         \/ UploadError(s) \/ SegmentMissing(s)
  PROVE  WoTypeOK' /\ GaplessInv' /\ RemovalInv'
<1>0. woTask[s] \in WoTasks /\ woBackup[s] \in Nat /\ woCommit[s] \in Nat /\ woBumped[s] \in BOOLEAN
  BY DEF WoTypeOK
<1>1. CASE StartOffload(s)
  <2> DEFINE t == [NoTask EXCEPT !.run = TRUE, !.unseen = woBumped[s]]
  <2>1. t \in WoTasks /\ t.next = 0 /\ t.done = {}
    BY <1>0, NoTaskFacts DEF WoTasks
  <2>2. TaskBecomes(s, t) /\ woBumped' = woBumped /\ woLastRemoved' = woLastRemoved
    BY <1>1 DEF StartOffload, TaskBecomes
  <2> HIDE DEF t
  <2> QED
    BY <2>1, <2>2, NothingBelowZero, TaskBecomesKeeps
<1>2. CASE StopOffload(s) \/ FinishOffload(s)
  <2>1. TaskBecomes(s, NoTask) /\ woBumped' = woBumped /\ woLastRemoved' = woLastRemoved
    BY <1>2 DEF StopOffload, FinishOffload, TaskBecomes
  <2> QED
    BY <2>1, NoTaskFacts, NothingBelowZero, TaskBecomesKeeps
<1>3. CASE BeginRange(s)
  <2> DEFINE e == Max({woBackup[s], woCommit[s]})
             t == [woTask[s] EXCEPT !.unseen = FALSE, !.retry = FALSE, !.next = woBackup[s], !.end = e]
  <2>1. e \in Nat
    BY <1>0, MaxNat
  <2>2. TaskBecomes(s, t) /\ woBumped' = woBumped /\ woLastRemoved' = woLastRemoved
    BY <1>3 DEF BeginRange, TaskBecomes
  <2> HIDE DEF e
  <2>3. t \in WoTasks /\ t.next = woBackup[s] /\ t.done = woTask[s].done
    BY <1>0, <2>1 DEF WoTasks
  <2> HIDE DEF t
  <2> QED
    BY <2>2, <2>3, TaskBecomesKeeps DEF GaplessInv
<1>4. CASE UploadError(s) \/ SegmentMissing(s)
  <2> DEFINE t == [woTask[s] EXCEPT !.next = 0, !.end = 0, !.done = {}, !.retry = TRUE]
  <2>1. t \in WoTasks /\ t.next = 0 /\ t.done = {}
    BY <1>0 DEF WoTasks
  <2>2. TaskBecomes(s, t) /\ woBumped' = woBumped /\ woLastRemoved' = woLastRemoved
    BY <1>4 DEF UploadError, SegmentMissing, FailRange, TaskBecomes
  <2> HIDE DEF t
  <2> QED
    BY <2>1, <2>2, NothingBelowZero, TaskBecomesKeeps
<1> QED
  BY <1>1, <1>2, <1>3, <1>4

LEMMA AdvanceCommitStep ==
  ASSUME WoTypeOK, GaplessInv, RemovalInv, NEW s \in WoSks, AdvanceCommit(s)
  PROVE  WoTypeOK' /\ GaplessInv' /\ RemovalInv'
<1> DEFINE t == [woTask[s] EXCEPT !.unseen = woTask[s].run]
<1>1. t \in WoTasks /\ t.next = woTask[s].next /\ t.done = woTask[s].done
  <2>1. woTask[s] \in WoTasks
    BY DEF WoTypeOK
  <2> QED
    BY <2>1 DEF WoTasks
<1>2. /\ woCommit' = [woCommit EXCEPT ![s] = @ + 1]
      /\ woLocal' = [woLocal EXCEPT ![s] = @ \cup {woCommit[s] + 1}]
      /\ woBumped' = [woBumped EXCEPT ![s] = TRUE]
      /\ woTask' = [woTask EXCEPT ![s] = t]
      /\ UNCHANGED <<woBackup, woCf, woRemoval, woLastRemoved, woRemote, woPs>>
  BY DEF AdvanceCommit
<1> HIDE DEF t
<1>3. WoTypeOK'
  BY <1>1, <1>2 DEF WoTypeOK
<1>4. \A r \in WoSks : /\ woTask'[r] = IF r = s THEN t ELSE woTask[r]
                       /\ woCommit'[r] = IF r = s THEN woCommit[s] + 1 ELSE woCommit[r]
                       /\ woLocal'[r] = IF r = s THEN woLocal[s] \cup {woCommit[s] + 1} ELSE woLocal[r]
                       /\ woCommit[r] \in Nat /\ woCf[r].commit \in Nat
  BY <1>2 DEF WoTypeOK, WoFiles
<1>5. GaplessInv'
  BY <1>1, <1>2, <1>4 DEF GaplessInv, RemoteUpTo
<1>6. RemovalInv'
  BY <1>2, <1>4 DEF RemovalInv, Below
<1> QED
  BY <1>3, <1>5, <1>6

LEMMA PsAdvanceStep ==
  ASSUME WoTypeOK, GaplessInv, RemovalInv, PsAdvance
  PROVE  WoTypeOK' /\ GaplessInv' /\ RemovalInv'
<1>1. WoTypeOK' /\ woPs' = woPs + 1
  BY DEF WoTypeOK, PsAdvance
<1>2. GaplessInv'
  BY DEF GaplessInv, PsAdvance, RemoteUpTo
<1>3. \A s \in WoSks : woCf[s].rcl \in Nat
  BY DEF WoTypeOK, WoFiles
<1>4. RemovalInv'
  BY <1>1, <1>3 DEF RemovalInv, PsAdvance, Below, WoTypeOK
<1> QED
  BY <1>1, <1>2, <1>4

LEMMA UploadSegmentStep ==
  ASSUME WoTypeOK, GaplessInv, RemovalInv, NEW s \in WoSks, UploadSegment(s)
  PROVE  WoTypeOK' /\ GaplessInv' /\ RemovalInv'
<1>1. PICK g \in woLocal[s] :
        /\ woRemote' = woRemote \cup {g}
        /\ woTask' = [woTask EXCEPT ![s].done = @ \cup {g}]
        /\ UNCHANGED <<woCommit, woBackup, woCf, woLocal, woBumped, woRemoval, woLastRemoved, woPs>>
  BY DEF UploadSegment
<1> DEFINE d == woTask[s].done \cup {g}
           t == [woTask[s] EXCEPT !.done = d]
<1>2. woTask[s] \in WoTasks /\ d \in SUBSET Nat /\ g \in Nat
  BY DEF WoTypeOK, WoTasks
<1>3. woTask' = [woTask EXCEPT ![s] = t]
  BY <1>1
<1>4. t \in WoTasks /\ t.next = woTask[s].next /\ t.done = d
  <2> HIDE DEF d
  <2> QED
    BY <1>2 DEF WoTasks
<1> HIDE DEF t
<1>5. WoTypeOK'
  BY <1>1, <1>2, <1>3, <1>4 DEF WoTypeOK
<1>6. \A r \in WoSks : woTask'[r] = IF r = s THEN t ELSE woTask[r]
  BY <1>3 DEF WoTypeOK
<1>7. GaplessInv'
  BY <1>1, <1>4, <1>6 DEF GaplessInv, RemoteUpTo
<1>8. RemovalInv'
  BY <1>1 DEF RemovalInv, Below
<1> QED
  BY <1>5, <1>7, <1>8

LEMMA AdvanceBackupStep ==
  ASSUME WoTypeOK, GaplessInv, RemovalInv, NEW s \in WoSks, AdvanceBackup(s)
  PROVE  WoTypeOK' /\ GaplessInv' /\ RemovalInv'
<1>1. PICK g \in FinishedSegment(woTask[s]) :
        /\ woBackup' = [woBackup EXCEPT ![s] = Max({@, g + 1})]
        /\ woTask' = [woTask EXCEPT ![s] =
                        [woTask[s] EXCEPT !.next = g + 1, !.done = {d \in @ : d > g},
                                          !.end = Max({@, g + 1})]]
        /\ UNCHANGED <<woCommit, woCf, woLocal, woBumped, woRemoval, woLastRemoved, woRemote, woPs>>
  BY DEF AdvanceBackup
<1> DEFINE b == Max({woBackup[s], g + 1})
           e == Max({woTask[s].end, g + 1})
           f == {d \in woTask[s].done : d > g}
           t == [woTask[s] EXCEPT !.next = g + 1, !.done = f, !.end = e]
<1>2. woTask[s] \in WoTasks /\ woBackup[s] \in Nat /\ woTask[s].end \in Nat
  BY DEF WoTypeOK, WoTasks
<1>3. g = woTask[s].next /\ g \in woTask[s].done /\ g \in Nat /\ g \in woRemote
  BY <1>2 DEF FinishedSegment, GaplessInv, WoTasks
<1>4. /\ b \in Nat /\ b >= woBackup[s] /\ (b = woBackup[s] \/ b = g + 1)
      /\ e \in Nat /\ f \in SUBSET Nat /\ f \subseteq woTask[s].done
  <2>1. g + 1 \in Nat
    BY <1>3
  <2>2. b \in Nat /\ b >= woBackup[s] /\ (b = woBackup[s] \/ b = g + 1)
    BY <1>2, <2>1, MaxNat
  <2>3. e \in Nat
    BY <1>2, <2>1, MaxNat
  <2>4. f \in SUBSET Nat /\ f \subseteq woTask[s].done
    BY <1>2 DEF WoTasks
  <2> QED
    BY <2>2, <2>3, <2>4
<1>5. woBackup' = [woBackup EXCEPT ![s] = b] /\ woTask' = [woTask EXCEPT ![s] = t]
  BY <1>1
<1>6. t \in WoTasks /\ t.next = g + 1 /\ t.done = f
  <2> DEFINE n == g + 1
  <2>1. n \in Nat /\ t = [woTask[s] EXCEPT !.next = n, !.done = f, !.end = e]
    BY <1>3
  <2> DEFINE w == woTask[s]
  <2>2. w \in WoTasks
    BY <1>2
  <2> HIDE DEF b, e, f, n, t, w
  <2>3. [w EXCEPT !.next = n, !.done = f, !.end = e] \in WoTasks
        /\ [w EXCEPT !.next = n, !.done = f, !.end = e].next = n
        /\ [w EXCEPT !.next = n, !.done = f, !.end = e].done = f
    BY <1>4, <2>1, <2>2 DEF WoTasks
  <2> QED
    BY <2>1, <2>3 DEF n, w
<1>a. UNCHANGED <<woCommit, woCf, woLocal, woBumped, woRemoval, woLastRemoved, woRemote, woPs>>
  BY <1>1
<1> HIDE DEF b, e, f, t
<1>7. WoTypeOK'
  BY <1>4, <1>5, <1>6, <1>a DEF WoTypeOK
<1>8. RemoteUpTo(g + 1) /\ RemoteUpTo(woBackup[s])
  BY <1>3 DEF GaplessInv, RemoteUpTo
<1>9. \A r \in WoSks : /\ woTask'[r] = IF r = s THEN t ELSE woTask[r]
                       /\ woBackup'[r] = IF r = s THEN b ELSE woBackup[r]
                       /\ woBackup[r] \in Nat /\ woCf[r].backup \in Nat
  BY <1>5 DEF WoTypeOK, WoFiles
<1>10. GaplessInv'
  BY <1>4, <1>6, <1>8, <1>9, <1>a DEF GaplessInv, RemoteUpTo
<1>11. RemovalInv'
  BY <1>4, <1>9, <1>a DEF RemovalInv, Below
<1> QED
  BY <1>7, <1>10, <1>11

(* A saved control file is ahead of the last one and behind memory.        *)
LEMMA SavedFacts ==
  ASSUME WoTypeOK, RemovalInv, NEW s \in WoSks, NEW b \in Nat, NEW cf \in Saved(s, b)
  PROVE  /\ cf \in WoFiles /\ cf.backup = b /\ cf.commit = woCommit[s]
         /\ woCf[s].rcl <= cf.rcl /\ cf.rcl <= woPs /\ woCf[s].commit <= cf.commit
<1>1. PICK l \in woCf[s].rcl .. woPs : cf = [commit |-> woCommit[s], backup |-> b, rcl |-> l]
  BY DEF Saved
<1>2. woCf[s] \in WoFiles /\ woCommit[s] \in Nat /\ woPs \in Nat
  BY DEF WoTypeOK
<1>3. l \in Nat /\ woCf[s].rcl <= l /\ l <= woPs
  BY <1>1, <1>2 DEF WoFiles
<1> QED
  BY <1>1, <1>2, <1>3 DEF WoFiles, RemovalInv

(* s learns a backup_lsn from a peer, or not, and its control file is      *)
(* saved, or not.                                                          *)
LEMMA SavesKeep ==
  ASSUME WoTypeOK, GaplessInv, RemovalInv, NEW s \in WoSks, NEW b \in Nat,
         b >= woBackup[s], RemoteUpTo(b), woBackup' = [woBackup EXCEPT ![s] = b],
         woCf' = woCf \/ \E cf \in Saved(s, b) : woCf' = [woCf EXCEPT ![s] = cf],
         UNCHANGED <<woCommit, woLocal, woBumped, woTask, woRemoval, woLastRemoved, woRemote, woPs>>
  PROVE  WoTypeOK' /\ GaplessInv' /\ RemovalInv'
<1>0. \A r \in WoSks : /\ woBackup'[r] = IF r = s THEN b ELSE woBackup[r]
                       /\ woCf[r].backup \in Nat /\ woCf[r].rcl \in Nat /\ woCf[r].commit \in Nat
                       /\ woBackup[r] \in Nat /\ woCommit[r] \in Nat /\ woRemoval[r] \in Nat
  BY DEF WoTypeOK, WoFiles
<1>1. CASE woCf' = woCf
  <2>1. WoTypeOK'
    BY <1>1 DEF WoTypeOK
  <2>2. GaplessInv'
    BY <1>0, <1>1 DEF GaplessInv, RemoteUpTo
  <2>3. RemovalInv'
    BY <1>0, <1>1 DEF RemovalInv, Below
  <2> QED
    BY <2>1, <2>2, <2>3
<1>2. ASSUME NEW cf \in Saved(s, b), woCf' = [woCf EXCEPT ![s] = cf]
      PROVE  WoTypeOK' /\ GaplessInv' /\ RemovalInv'
  <2>1. /\ cf \in WoFiles /\ cf.backup = b /\ cf.commit = woCommit[s]
        /\ woCf[s].rcl <= cf.rcl /\ cf.rcl <= woPs /\ woCf[s].commit <= cf.commit
        /\ cf.rcl \in Nat /\ woCf[s].backup <= b
    <3>1. woCf[s].backup <= woBackup[s]
      BY DEF RemovalInv
    <3> QED
      BY <1>0, <3>1, SavedFacts DEF WoFiles
  <2>2. WoTypeOK'
    BY <1>2, <2>1 DEF WoTypeOK
  <2>3. \A r \in WoSks : woCf'[r] = IF r = s THEN cf ELSE woCf[r]
    BY <1>2 DEF WoTypeOK
  <2>4. GaplessInv'
    BY <1>0, <2>1, <2>3 DEF GaplessInv, RemoteUpTo
  <2>5. \A r \in WoSks, g \in Nat : Below(r, g) => Below(r, g)'
    BY <1>0, <2>1, <2>3 DEF Below
  <2>6. RemovalInv'
    BY <1>0, <2>1, <2>3, <2>5 DEF RemovalInv
  <2> QED
    BY <2>2, <2>4, <2>6
<1> QED
  BY <1>1, <1>2

LEMMA HousekeepingSteps ==
  ASSUME WoTypeOK, GaplessInv, RemovalInv, NEW s \in WoSks, HousekeepingStep(s)
  PROVE  WoTypeOK' /\ GaplessInv' /\ RemovalInv'
<1>1. CASE WoSaveControlFile(s)
  <2>1. /\ \E cf \in Saved(s, woBackup[s]) : woCf' = [woCf EXCEPT ![s] = cf]
        /\ UNCHANGED <<woCommit, woBackup, woLocal, woBumped, woTask, woRemoval, woLastRemoved,
                       woRemote, woPs>>
    BY <1>1 DEF WoSaveControlFile
  <2>2. woBackup[s] \in Nat /\ woBackup[s] >= woBackup[s] /\ woBackup' = [woBackup EXCEPT ![s] = woBackup[s]]
        /\ RemoteUpTo(woBackup[s])
    BY <2>1 DEF WoTypeOK, GaplessInv
  <2> QED
    BY <2>1, <2>2, SavesKeep
<1>2. ASSUME NEW r \in WoSks, LearnBackup(s, r)
      PROVE  WoTypeOK' /\ GaplessInv' /\ RemovalInv'
  <2>1. woBackup[r] \in Nat /\ woBackup[r] >= woBackup[s] /\ RemoteUpTo(woBackup[r])
    BY <1>2 DEF LearnBackup, WoTypeOK, GaplessInv
  <2> QED
    BY <1>2, <2>1, SavesKeep DEF LearnBackup
<1> QED
  BY <1>1, <1>2 DEF HousekeepingStep

LEMMA RemovalSteps ==
  ASSUME WoTypeOK, GaplessInv, RemovalInv, NEW s \in WoSks, RemovalStep(s)
  PROVE  WoTypeOK' /\ GaplessInv' /\ RemovalInv'
<1>1. CASE StartRemoval(s)
  <2>0. woCf[s].rcl \in Nat /\ woCf[s].backup \in Nat /\ woCf[s].commit \in Nat /\ woLastRemoved[s] \in Nat
    BY DEF WoTypeOK, WoFiles
  <2>1. HorizonSegno(s) \in Nat /\ Below(s, HorizonSegno(s))
    <3> DEFINE m == Min({woCf[s].rcl, woCf[s].backup, woCf[s].commit})
    <3>1. m \in Nat /\ m <= woCf[s].rcl /\ m <= woCf[s].backup /\ m <= woCf[s].commit
      BY <2>0, MinNat
    <3>2. m - 1 > woLastRemoved[s] /\ HorizonSegno(s) = m - 1
      BY <1>1 DEF StartRemoval, HorizonSegno
    <3> HIDE DEF m
    <3> QED
      BY <2>0, <3>1, <3>2 DEF Below
  <2>2. /\ woRemoval' = [woRemoval EXCEPT ![s] = HorizonSegno(s)]
        /\ UNCHANGED <<woCommit, woBackup, woCf, woLocal, woBumped, woTask, woLastRemoved, woRemote, woPs>>
    BY <1>1 DEF StartRemoval
  <2> DEFINE h == HorizonSegno(s)
  <2>3. h \in Nat /\ Below(s, h) /\ woRemoval' = [woRemoval EXCEPT ![s] = h]
    BY <2>1, <2>2
  <2> HIDE DEF h
  <2>4. WoTypeOK'
    BY <2>2, <2>3 DEF WoTypeOK
  <2>5. GaplessInv'
    BY <2>2 DEF GaplessInv, RemoteUpTo
  <2>6. \A r \in WoSks : woRemoval'[r] = IF r = s THEN h ELSE woRemoval[r]
    BY <2>3 DEF WoTypeOK
  <2>7. RemovalInv'
    BY <2>2, <2>3, <2>6 DEF RemovalInv, Below
  <2> QED
    BY <2>4, <2>5, <2>7
<1>2. CASE RemoveSegment(s)
  <2>1. PICK g \in woLocal[s] :
          /\ g <= woRemoval[s] /\ woLocal' = [woLocal EXCEPT ![s] = @ \ {g}]
          /\ UNCHANGED <<woCommit, woBackup, woCf, woBumped, woTask, woRemoval, woLastRemoved, woRemote, woPs>>
    BY <1>2 DEF RemoveSegment
  <2>2. WoTypeOK'
    BY <2>1 DEF WoTypeOK
  <2>3. GaplessInv'
    BY <2>1 DEF GaplessInv, RemoteUpTo
  <2>4. g \in Nat /\ woRemoval[s] \in Nat /\ woCf[s].rcl \in Nat /\ woCf[s].backup \in Nat
        /\ woCf[s].commit \in Nat
    BY DEF WoTypeOK, WoFiles
  <2>5. LocalStart[s] <= g => Below(s, g)
    <3>1. LocalStart[s] >= 1 /\ LocalStart[s] \in Nat
      BY WoAssumption
    <3> QED
      BY <2>1, <2>4, <3>1 DEF RemovalInv, Below
  <2>6. \A r \in WoSks : woLocal'[r] = IF r = s THEN woLocal[s] \ {g} ELSE woLocal[r]
    BY <2>1 DEF WoTypeOK
  <2>7. RemovalInv'
    BY <2>1, <2>5, <2>6 DEF RemovalInv, Below
  <2> QED
    BY <2>2, <2>3, <2>7
<1>3. CASE EndRemoval(s)
  <2>1. /\ woLastRemoved' = [woLastRemoved EXCEPT ![s] = woRemoval[s]]
        /\ woRemoval' = [woRemoval EXCEPT ![s] = 0]
        /\ UNCHANGED <<woCommit, woBackup, woCf, woLocal, woBumped, woTask, woRemote, woPs>>
    BY <1>3 DEF EndRemoval
  <2>2. WoTypeOK'
    BY <2>1 DEF WoTypeOK
  <2>3. GaplessInv'
    BY <2>1 DEF GaplessInv, RemoteUpTo
  <2>4. \A r \in WoSks : woRemoval'[r] = IF r = s THEN 0 ELSE woRemoval[r]
    BY <2>1 DEF WoTypeOK
  <2>5. RemovalInv'
    BY <2>1, <2>4 DEF RemovalInv, Below
  <2> QED
    BY <2>2, <2>3, <2>5
<1> QED
  BY <1>1, <1>2, <1>3 DEF RemovalStep

LEMMA CrashStep ==
  ASSUME WoTypeOK, GaplessInv, RemovalInv, NEW s \in WoSks, WoCrash(s)
  PROVE  WoTypeOK' /\ GaplessInv' /\ RemovalInv'
<1>1. /\ woCommit' = [woCommit EXCEPT ![s] = woCf[s].commit]
      /\ woBackup' = [woBackup EXCEPT ![s] = woCf[s].backup]
      /\ woBumped' = [woBumped EXCEPT ![s] = FALSE]
      /\ woTask' = [woTask EXCEPT ![s] = NoTask]
      /\ woRemoval' = [woRemoval EXCEPT ![s] = 0]
      /\ woLastRemoved' = [woLastRemoved EXCEPT ![s] = 0]
      /\ UNCHANGED <<woCf, woLocal, woRemote, woPs>>
  BY DEF WoCrash
<1>2. \A r \in WoSks : woCf[r].backup \in Nat /\ woCf[r].commit \in Nat /\ woCommit[r] \in Nat
  BY DEF WoTypeOK, WoFiles
<1>3. WoTypeOK'
  BY <1>1, <1>2, NoTaskFacts DEF WoTypeOK
<1>4. \A r \in WoSks : /\ woCommit'[r] = IF r = s THEN woCf[s].commit ELSE woCommit[r]
                       /\ woBackup'[r] = IF r = s THEN woCf[s].backup ELSE woBackup[r]
                       /\ woTask'[r] = IF r = s THEN NoTask ELSE woTask[r]
                       /\ woRemoval'[r] = IF r = s THEN 0 ELSE woRemoval[r]
  BY <1>1 DEF WoTypeOK
<1>5. GaplessInv'
  BY <1>1, <1>2, <1>4, NoTaskFacts, NothingBelowZero DEF GaplessInv, RemoteUpTo
<1>6. RemovalInv'
  BY <1>1, <1>2, <1>4 DEF RemovalInv, Below
<1> QED
  BY <1>3, <1>5, <1>6

-----------------------------------------------------------------------------
(* The theorems.                                                           *)

WoInv == WoTypeOK /\ GaplessInv /\ RemovalInv

LEMMA WoInitially == WoInit => WoInv
<1> SUFFICES ASSUME WoInit PROVE WoInv
  OBVIOUS
<1>0. \A s \in WoSks : LocalStart[s] \in Nat /\ LocalStart[s] >= 1
  BY WoAssumption
<1>a. LocalStart \in [WoSks -> Nat]
  BY WoAssumption
<1>1. WoTypeOK
  <2>1. woCf \in [WoSks -> WoFiles]
    BY <1>0 DEF WoInit, WoFiles
  <2>2. woTask \in [WoSks -> WoTasks]
    BY NoTaskFacts DEF WoInit
  <2>3. woLocal \in [WoSks -> SUBSET Nat]
    BY <1>0 DEF WoInit
  <2> QED
    BY <1>a, <2>1, <2>2, <2>3 DEF WoInit, WoTypeOK
<1>2. GaplessInv
  <2>1. \A s \in WoSks : woBackup[s] = 1 /\ woCf[s].backup = 1 /\ woTask[s] = NoTask
    BY DEF WoInit
  <2> QED
    BY <2>1, NoTaskFacts DEF GaplessInv, RemoteUpTo
<1>3. RemovalInv
  <2>1. \A s \in WoSks : /\ woCf[s].backup = 1 /\ woCf[s].rcl = 1 /\ woCf[s].commit = LocalStart[s]
                         /\ woBackup[s] = 1 /\ woCommit[s] = LocalStart[s] /\ woRemoval[s] = 0
                         /\ LocalStart[s] \in woLocal[s]
    BY DEF WoInit
  <2>2. woPs = 1
    BY DEF WoInit
  <2> QED
    BY <1>0, <2>1, <2>2 DEF RemovalInv, Below
<1> QED
  BY <1>1, <1>2, <1>3 DEF WoInv

LEMMA WoStep == WoInv /\ [WoNext]_woVars => WoInv'
<1> SUFFICES ASSUME WoInv, [WoNext]_woVars PROVE WoInv'
  OBVIOUS
<1>0. WoTypeOK /\ GaplessInv /\ RemovalInv
  BY DEF WoInv
<1>1. CASE UNCHANGED woVars
  BY <1>0, <1>1 DEF woVars, WoInv, WoTypeOK, GaplessInv, RemovalInv, RemoteUpTo, Below
<1>2. CASE PsAdvance
  BY <1>0, <1>2, PsAdvanceStep DEF WoInv
<1>3. ASSUME NEW s \in WoSks,
             \/ AdvanceCommit(s) \/ StartOffload(s) \/ OffloadStep(s)
             \/ StopOffload(s) \/ UploadError(s)
             \/ RemovalStep(s) \/ HousekeepingStep(s) \/ WoCrash(s)
      PROVE  WoInv'
  BY <1>0, <1>3, AdvanceCommitStep, TaskSteps, UploadSegmentStep, AdvanceBackupStep, RemovalSteps,
     HousekeepingSteps, CrashStep DEF WoInv, OffloadStep
<1> QED
  BY <1>1, <1>2, <1>3 DEF WoNext

LEMMA WoInvariant == WoSpec => []WoInv
  BY WoInitially, WoStep, PTL DEF WoSpec

(* backup_lsn of every safekeeper stands for a gapless prefix of segments  *)
(* in remote storage, however many uploads run in parallel and in whatever *)
(* order they end (set_wal_backup_lsn, record_safekeeper_info).            *)
THEOREM BackupHasNoGaps == WoSpec => []BackupIsGapless
<1>1. WoInv => BackupIsGapless
  <2> SUFFICES ASSUME WoInv, NEW s \in WoSks, NEW g \in 1 .. woBackup[s] - 1 PROVE g \in woRemote
    BY DEF BackupIsGapless
  <2>1. woBackup[s] \in Nat /\ g \in Nat /\ 1 <= g /\ g < woBackup[s]
    BY DEF WoInv, WoTypeOK
  <2> QED
    BY <2>1 DEF WoInv, GaplessInv, RemoteUpTo
<1> QED
  BY <1>1, WoInvariant, PTL

(* What update_wal_removal has removed is in remote storage, the           *)
(* pageserver has it, and it is committed, whatever crashed in between.    *)
THEOREM RemovalIsSafe == WoSpec => []RemovedWalIsSafe
<1>1. WoInv => RemovedWalIsSafe
  <2> SUFFICES ASSUME WoInv, NEW s \in WoSks, NEW g \in LocalStart[s] .. woCommit[s], g \notin woLocal[s]
               PROVE  g \in woRemote /\ g < woPs /\ g < woCommit[s]
    BY DEF RemovedWalIsSafe
  <2>1. LocalStart[s] \in Nat /\ LocalStart[s] >= 1
    BY WoAssumption
  <2>2. /\ woCommit[s] \in Nat /\ woPs \in Nat /\ woCf[s].rcl \in Nat /\ woCf[s].commit \in Nat
        /\ woCf[s].backup \in Nat /\ g \in Nat /\ 1 <= g /\ LocalStart[s] <= g /\ g <= woCommit[s]
    BY <2>1 DEF WoInv, WoTypeOK, WoFiles
  <2>3. Below(s, g)
    BY <2>2 DEF WoInv, RemovalInv
  <2>4. g \in woRemote
    BY <2>2, <2>3 DEF WoInv, GaplessInv, RemoteUpTo, Below
  <2>5. woCf[s].commit <= woCommit[s] /\ woCf[s].rcl <= woPs
    BY DEF WoInv, RemovalInv
  <2> QED
    BY <2>2, <2>3, <2>4, <2>5 DEF Below
<1> QED
  BY <1>1, WoInvariant, PTL

-----------------------------------------------------------------------------
(* Partial segments and eviction: PartialBackup.                           *)

(* The behaviours, without fairness.                                       *)
PbSpec == PbInit /\ [][PbNext]_pbVars

NameRecords == [term : Nat, flush : Nat, commit : Nat, data : Seq(Nat)]
SegRecords == [name : NameRecords, status : {"InProgress", "Uploaded", "Deleting"}]

(* The types of the variables.                                             *)
PbTypeOK ==
  /\ pbWal \in Seq(Nat) /\ pbTerm \in Nat
  /\ pbCommit \in Nat /\ PbFirstLsn <= pbCommit
  /\ pbCf \in [commit : Nat, segs : Seq(SegRecords), offloaded : Nat] /\ PbFirstLsn <= pbCf.commit
  /\ pbRemote \subseteq [name : NameRecords, content : Seq(Nat)]
  /\ pbState \in Seq(SegRecords) /\ pbBuf \in Seq(Nat)
  /\ pbTask \in {"none", "loop", "wait", "read", "verify", "gc", "gcTop", "gcCommit"}
  /\ pbMgr \in {"idle", "evict", "delete", "present", "reset"}
  /\ pbCompute \in {0, pbTerm, pbTerm + 1}

(* A name stands for WAL that is still there, unless a later term wrote.   *)
NameOK(n) ==
  /\ n \in NameRecords /\ PbFirstLsn <= n.flush /\ Len(n.data) = Offset(n.flush)
  /\ n.term <= pbTerm
  /\ n.term = pbTerm => n.flush <= PbFlush /\ n.data = SegmentData(n.flush)

(* The segments that are listed as uploaded.                               *)
UploadedNames(segs) == {segs[i].name : i \in Uploaded(segs)}

(* The object of a name is there, and what it should be.                   *)
Good(n) == ObjectsOf({n}) = {[name |-> n, content |-> n.data]}

(* The control file, and what it says of remote storage.                   *)
SegsInv ==
  /\ \A n \in Names(pbCf.segs) : NameOK(n)
  /\ \A i, j \in Uploaded(pbCf.segs) : i = j
  /\ \A n \in UploadedNames(pbCf.segs) : Good(n)

(* The task works on what is in the control file.                          *)
TaskInv ==
  /\ pbTask # "none" => pbState = pbCf.segs
  /\ pbTask \in {"read", "verify"} =>
       /\ pbState # <<>> /\ pbState[Len(pbState)] = Seg(pbPrepared, "InProgress")
       /\ pbPrepared \in Names(pbState) \ UploadedNames(pbState)
  /\ pbTask = "read" =>
       /\ Len(pbBuf) <= Offset(pbPrepared.flush)
       /\ pbPrepared.term = pbTerm => \A i \in 1..Len(pbBuf) : pbBuf[i] = pbPrepared.data[i]
  /\ pbTask = "verify" => (pbPrepared.term = pbTerm => Good(pbPrepared))
  /\ pbTask = "gcCommit" =>
       \A o \in pbRemote : o.name \in pbGarbage \cup UploadedNames(pbState)

(* Eviction: nobody else is there.                                         *)
ManagerInv ==
  /\ pbTask = "none" => pbUploaded = UploadedSegment(pbCf.segs)
  /\ pbMgr \in {"evict", "delete", "present"} \/ Offloaded => pbTask = "none" /\ pbCompute = 0
  /\ pbMgr = "reset" => pbTask = "none" /\ pbCf.segs = <<>>
  /\ pbMgr \in {"delete", "present"} => Offloaded
  /\ Offloaded =>
       /\ pbCf.commit = pbCommit /\ pbCf.offloaded = PbFlush
       /\ \E n \in UploadedNames(pbCf.segs) :
            n.flush = PbFlush /\ n.commit = pbCommit /\ n.term = pbTerm

PbInv == PbTypeOK /\ SegsInv /\ TaskInv /\ ManagerInv /\ NoLeakedPartials
-----------------------------------------------------------------------------
(* Sequences and the segments of the WAL.                                  *)

(* A part of a sequence.                                                   *)
LEMMA PartOf ==
  ASSUME NEW R, NEW w \in Seq(R), NEW m \in Nat, NEW k \in Nat, m + k <= Len(w)
  PROVE  /\ SubSeq(w, m + 1, m + k) \in Seq(R)
         /\ Len(SubSeq(w, m + 1, m + k)) = k
         /\ \A i \in 1..k : SubSeq(w, m + 1, m + k)[i] = w[m + i]
<1>1. \A i \in (m + 1)..(m + k) : i \in 1..Len(w)
  OBVIOUS
<1>2. \A i \in (m + 1)..(m + k) : w[i] \in R
  BY <1>1
<1>3. /\ SubSeq(w, m + 1, m + k) \in Seq(R)
      /\ Len(SubSeq(w, m + 1, m + k)) = IF m + 1 <= m + k THEN (m + k) - (m + 1) + 1 ELSE 0
      /\ \A i \in 1..((m + k) - (m + 1) + 1) : SubSeq(w, m + 1, m + k)[i] = w[(m + 1) + i - 1]
  BY <1>2, SubSeqProperties
<1>4. \A i \in 1..k : (m + 1) + i - 1 = m + i
  OBVIOUS
<1> QED BY <1>3, <1>4

(* Sequences of the same elements are equal.                               *)
LEMMA SameElements ==
  ASSUME NEW R, NEW v \in Seq(R), NEW w \in Seq(R), Len(v) = Len(w),
         \A i \in 1..Len(v) : v[i] = w[i]
  PROVE  v = w
  BY SeqEqual

(* The offset in a segment, from segment 1 on.                             *)
LEMMA OffsetFits ==
  ASSUME NEW l \in Nat, PbFirstLsn <= l
  PROVE  PbFirstLsn \in Nat /\ Offset(l) \in Nat /\ Offset(l) <= l - PbFirstLsn
<1>1. PbSegSize \in Nat /\ PbSegSize > 0
  BY PbAssumption
<1>2. l % PbSegSize \in 0..(PbSegSize - 1)
  BY <1>1
<1>3. l % PbSegSize <= l - PbSegSize
  BY <1>1 DEF PbFirstLsn
<1> QED BY <1>1, <1>2, <1>3 DEF Offset, PbFirstLsn

(* What a segment holds.                                                   *)
LEMMA SegmentDataIs ==
  ASSUME pbWal \in Seq(Nat), NEW l \in Nat, PbFirstLsn <= l, l <= PbFlush
  PROVE  /\ SegmentData(l) \in Seq(Nat)
         /\ Len(SegmentData(l)) = Offset(l)
         /\ \A i \in 1..Offset(l) : SegmentData(l)[i] = pbWal[l - Offset(l) - PbFirstLsn + i]
<1> DEFINE m == l - Offset(l) - PbFirstLsn
           k == Offset(l)
<1>1. PbFirstLsn \in Nat /\ k \in Nat /\ k <= l - PbFirstLsn /\ Len(pbWal) \in Nat
  BY OffsetFits
<1>2. m \in Nat /\ m + k = l - PbFirstLsn /\ m + k <= Len(pbWal)
  BY <1>1 DEF PbFlush
<1>3. SegmentData(l) = SubSeq(pbWal, m + 1, m + k)
  BY <1>2 DEF SegmentData
<1> HIDE DEF m, k
<1>4. /\ SubSeq(pbWal, m + 1, m + k) \in Seq(Nat)
      /\ Len(SubSeq(pbWal, m + 1, m + k)) = k
      /\ \A i \in 1..k : SubSeq(pbWal, m + 1, m + k)[i] = pbWal[m + i]
  BY <1>1, <1>2, PartOf
<1> QED BY <1>3, <1>4 DEF m, k

(* The positions of a segment are positions of the WAL.                    *)
LEMMA InsideWal ==
  ASSUME NEW f \in Nat, NEW o \in Nat, NEW z \in Nat, NEW n \in Nat,
         z <= f, o <= f - z, f <= z + n
  PROVE  \A i \in 1..o : f - o - z + i \in 1..n
  OBVIOUS

(* Appends in the same term, and anything in a later one, leave names what *)
(* they were.                                                              *)
LEMMA NamesKeep ==
  ASSUME pbWal \in Seq(Nat), pbTerm \in Nat, pbWal' \in Seq(Nat), pbTerm' \in Nat,
         NEW n, NameOK(n),
         \/ pbTerm < pbTerm'
         \/ /\ pbTerm' = pbTerm /\ Len(pbWal) <= Len(pbWal')
            /\ \A i \in 1..Len(pbWal) : pbWal'[i] = pbWal[i]
  PROVE  NameOK(n)'
<1>0. n.term \in Nat /\ n.flush \in Nat /\ PbFirstLsn <= n.flush
  BY DEF NameOK, NameRecords
<1>1. CASE n.term # pbTerm'
  BY <1>0, <1>1 DEF NameOK
<1>2. CASE n.term = pbTerm'
  <2>1. n.term = pbTerm /\ pbTerm' = pbTerm
    BY <1>0, <1>2 DEF NameOK
  <2>2. n.flush <= PbFlush /\ n.data = SegmentData(n.flush)
    BY <2>1 DEF NameOK
  <2>3. /\ PbFirstLsn \in Nat /\ Offset(n.flush) \in Nat
        /\ Offset(n.flush) <= n.flush - PbFirstLsn
    BY <1>0, OffsetFits
  <2>4. Len(pbWal) \in Nat /\ Len(pbWal') \in Nat /\ Len(pbWal) <= Len(pbWal')
    BY <2>1
  <2>5. n.flush <= PbFlush'
    BY <1>0, <2>2, <2>3, <2>4 DEF PbFlush
  <2>6. /\ SegmentData(n.flush) \in Seq(Nat)
        /\ Len(SegmentData(n.flush)) = Offset(n.flush)
        /\ \A i \in 1..Offset(n.flush) :
             SegmentData(n.flush)[i] = pbWal[n.flush - Offset(n.flush) - PbFirstLsn + i]
    BY <1>0, <2>2, SegmentDataIs
  <2>7. /\ SegmentData(n.flush)' \in Seq(Nat)
        /\ Len(SegmentData(n.flush)') = Offset(n.flush)
        /\ \A i \in 1..Offset(n.flush) :
             SegmentData(n.flush)'[i] = pbWal'[n.flush - Offset(n.flush) - PbFirstLsn + i]
    <3> DEFINE m == n.flush - Offset(n.flush) - PbFirstLsn
               k == Offset(n.flush)
    <3>1. m \in Nat /\ k \in Nat /\ m + k = n.flush - PbFirstLsn /\ m + k <= Len(pbWal')
      BY <1>0, <2>3, <2>4, <2>5 DEF PbFlush
    <3>2. SegmentData(n.flush)' = SubSeq(pbWal', m + 1, m + k)
      BY <3>1 DEF SegmentData
    <3> HIDE DEF m, k
    <3>3. /\ SubSeq(pbWal', m + 1, m + k) \in Seq(Nat)
          /\ Len(SubSeq(pbWal', m + 1, m + k)) = k
          /\ \A i \in 1..k : SubSeq(pbWal', m + 1, m + k)[i] = pbWal'[m + i]
      BY <3>1, PartOf
    <3> QED BY <3>2, <3>3 DEF m, k
  <2>8. \A i \in 1..Offset(n.flush) : SegmentData(n.flush)'[i] = SegmentData(n.flush)[i]
    <3>1. n.flush <= PbFirstLsn + Len(pbWal)
      BY <2>2 DEF PbFlush
    <3>3. \A i \in 1..Offset(n.flush) :
            n.flush - Offset(n.flush) - PbFirstLsn + i \in 1..Len(pbWal)
      BY <1>0, <2>3, <2>4, <3>1, InsideWal
    <3>2. \A i \in 1..Len(pbWal) : pbWal'[i] = pbWal[i]
      BY <2>1
    <3> QED BY <2>6, <2>7, <3>2, <3>3
  <2>9. SegmentData(n.flush)' = SegmentData(n.flush)
    BY <2>6, <2>7, <2>8, SameElements
  <2> QED BY <2>1, <2>2, <2>5, <2>9 DEF NameOK
<1> QED BY <1>1, <1>2

-----------------------------------------------------------------------------
(* The lists of segments.                                                  *)

(* The segment that is listed as uploaded.                                 *)
LEMMA UploadedOne ==
  ASSUME NEW segs \in Seq(SegRecords), \A i, j \in Uploaded(segs) : i = j
  PROVE  /\ Uploaded(segs) = {} => UploadedNames(segs) = {} /\ UploadedSegment(segs) = PbNone
         /\ Uploaded(segs) # {} => UploadedNames(segs) = {UploadedSegment(segs)}
         /\ UploadedNames(segs) \subseteq Names(segs)
         /\ Names(segs) \subseteq NameRecords
<1>1. \A i \in DOMAIN segs : segs[i] \in SegRecords
  BY ElementOfSeq
<1>2. Names(segs) \subseteq NameRecords
  BY <1>1 DEF Names, SegRecords
<1>3. UploadedNames(segs) \subseteq Names(segs)
  BY DEF Names, UploadedNames, Uploaded
<1>4. CASE Uploaded(segs) = {}
  BY <1>2, <1>3, <1>4 DEF UploadedNames, UploadedSegment
<1>5. CASE Uploaded(segs) # {}
  <2>1. PICK i \in Uploaded(segs) : TRUE
    BY <1>5
  <2>2. i \in Nat
    BY <2>1 DEF Uploaded
  <2>3. \A j \in Uploaded(segs) : j = i
    BY <2>1
  <2>4. (CHOOSE k \in Uploaded(segs) : \A j \in Uploaded(segs) : k <= j) = i
    <3>1. \A j \in Uploaded(segs) : i <= j
      BY <2>2, <2>3
    <3>2. \E k \in Uploaded(segs) : \A j \in Uploaded(segs) : k <= j
      BY <2>1, <3>1
    <3> QED BY <2>3, <3>2
  <2>5. UploadedSegment(segs) = segs[i].name
    BY <1>5, <2>4 DEF UploadedSegment
  <2> QED BY <1>2, <1>3, <1>5, <2>1, <2>3, <2>5 DEF UploadedNames
<1> QED BY <1>4, <1>5

(* An upload is announced.                                                 *)
LEMMA SegsStarted ==
  ASSUME NEW segs \in Seq(SegRecords), NEW n \in NameRecords
  PROVE  LET new == Append(segs, Seg(n, "InProgress"))
         IN  /\ new \in Seq(SegRecords) /\ new # <<>> /\ new[Len(new)] = Seg(n, "InProgress")
             /\ Names(new) = Names(segs) \cup {n}
             /\ Uploaded(new) = Uploaded(segs) /\ UploadedNames(new) = UploadedNames(segs)
<1> DEFINE e == Seg(n, "InProgress")
           new == Append(segs, e)
<1>1. e \in SegRecords /\ e.name = n /\ e.status # "Uploaded"
  BY DEF Seg, SegRecords
<1> HIDE DEF e
<1>2. /\ new \in Seq(SegRecords) /\ new # <<>> /\ Len(segs) \in Nat /\ Len(new) = Len(segs) + 1
      /\ new[Len(segs) + 1] = e /\ \A i \in 1..Len(segs) : new[i] = segs[i]
      /\ DOMAIN new = 1..(Len(segs) + 1) /\ DOMAIN segs = 1..Len(segs)
  BY <1>1
<1> HIDE DEF new
<1>3. \A i \in 1..(Len(segs) + 1) : i \in 1..Len(segs) \/ i = Len(segs) + 1
  BY <1>2
<1>4. Len(segs) + 1 \in 1..(Len(segs) + 1) /\ \A i \in 1..Len(segs) : i \in 1..(Len(segs) + 1)
  BY <1>2
<1>5. Names(new) = Names(segs) \cup {n}
  BY <1>1, <1>2, <1>3, <1>4 DEF Names
<1>6. Uploaded(new) = Uploaded(segs)
  BY <1>1, <1>2, <1>3, <1>4 DEF Uploaded
<1>7. \A i \in Uploaded(segs) : new[i] = segs[i]
  BY <1>2 DEF Uploaded
<1>8. UploadedNames(new) = UploadedNames(segs)
  BY <1>6, <1>7 DEF UploadedNames
<1> QED BY <1>2, <1>5, <1>6, <1>8 DEF new, e

(* Lists with the same names, of which the last alone is uploaded.         *)
LEMMA LastUploaded ==
  ASSUME NEW segs \in Seq(SegRecords), NEW new \in Seq(SegRecords), segs # <<>>,
         Len(new) = Len(segs), NEW n, segs[Len(segs)].name = n,
         \A i \in 1..Len(segs) : new[i].name = segs[i].name,
         \A i \in 1..Len(segs) : new[i].status = "Uploaded" <=> i = Len(segs)
  PROVE  /\ Names(new) = Names(segs)
         /\ UploadedNames(new) = {n} /\ \A i, j \in Uploaded(new) : i = j
<1>1. Len(segs) \in 1..Len(segs) /\ DOMAIN segs = 1..Len(segs) /\ DOMAIN new = 1..Len(segs)
  OBVIOUS
<1>2. Names(new) = Names(segs)
  <2> DEFINE D == 1..Len(segs)
  <2>1. Names(new) = {new[i].name : i \in D} /\ Names(segs) = {segs[i].name : i \in D}
    BY <1>1 DEF Names
  <2>2. \A i \in D : new[i].name = segs[i].name
    OBVIOUS
  <2> HIDE DEF D
  <2>3. {new[i].name : i \in D} = {segs[i].name : i \in D}
    BY <2>2, Zenon
  <2> QED BY <2>1, <2>3
<1>3. Uploaded(new) = {Len(segs)}
  BY <1>1 DEF Uploaded
<1>4. new[Len(segs)].name = n
  BY <1>1
<1>5. UploadedNames(new) = {n}
  <2> DEFINE k == Len(segs)
  <2>1. Uploaded(new) = {k} /\ new[k].name = n
    BY <1>3, <1>4
  <2>2. UploadedNames(new) = {new[i].name : i \in {k}}
    BY <2>1 DEF UploadedNames
  <2> HIDE DEF k
  <2> QED BY <2>1, <2>2
<1> QED BY <1>2, <1>3, <1>5

(* The upload is done, what was there before is to be deleted.             *)
LEMMA SegsReplaced ==
  ASSUME NEW segs \in Seq(SegRecords), NEW n \in NameRecords, segs # <<>>,
         segs[Len(segs)] = Seg(n, "InProgress")
  PROVE  LET new == [i \in 1..Len(segs) |-> IF i = Len(segs) THEN Seg(n, "Uploaded")
                                            ELSE Seg(segs[i].name, "Deleting")]
         IN  /\ new \in Seq(SegRecords) /\ Names(new) = Names(segs)
             /\ UploadedNames(new) = {n} /\ \A i, j \in Uploaded(new) : i = j
<1> DEFINE new == [i \in 1..Len(segs) |-> IF i = Len(segs) THEN Seg(n, "Uploaded")
                                          ELSE Seg(segs[i].name, "Deleting")]
<1>1. Len(segs) \in Nat /\ Len(segs) >= 1 /\ DOMAIN segs = 1..Len(segs)
  OBVIOUS
<1>2. \A i \in 1..Len(segs) : segs[i].name \in NameRecords
  <2>1. \A i \in 1..Len(segs) : segs[i] \in SegRecords
    BY <1>1, ElementOfSeq
  <2> QED BY <2>1 DEF SegRecords
<1>3. segs[Len(segs)].name = n
  BY DEF Seg
<1>4. /\ \A i \in 1..Len(segs) : new[i] \in SegRecords /\ new[i].name = segs[i].name
      /\ \A i \in 1..Len(segs) : new[i].status = "Uploaded" <=> i = Len(segs)
  BY <1>2, <1>3 DEF Seg, SegRecords
<1>5. new \in [1..Len(segs) -> SegRecords]
  BY <1>4
<1> HIDE DEF new
<1>6. new \in Seq(SegRecords) /\ Len(new) = Len(segs)
  BY <1>1, <1>5, SeqDef
<1>7. /\ Names(new) = Names(segs)
      /\ UploadedNames(new) = {n} /\ \A i, j \in Uploaded(new) : i = j
  BY <1>3, <1>4, <1>6, LastUploaded
<1> QED BY <1>6, <1>7 DEF new

(* What gc retains.                                                        *)
LEMMA SegsRetained ==
  ASSUME NEW segs \in Seq(SegRecords), \A i, j \in Uploaded(segs) : i = j
  PROVE  LET new == Retained(segs)
         IN  /\ new \in Seq(SegRecords) /\ Names(new) = UploadedNames(segs)
             /\ UploadedNames(new) = UploadedNames(segs) /\ \A i, j \in Uploaded(new) : i = j
<1> DEFINE kept == Uploaded(segs)
           nth(k) == CHOOSE i \in kept : Cardinality({j \in kept : j <= i}) = k
           new == Retained(segs)
<1>1. new = [k \in 1..Cardinality(kept) |-> segs[nth(k)]]
  BY DEF Retained
<1>2. CASE kept = {}
  <2>1. Cardinality(kept) = 0
    BY <1>2, FS_EmptySet
  <2>2. new = <<>>
    BY <1>1, <2>1
  <2> QED BY <1>2, <2>2 DEF Names, UploadedNames, Uploaded
<1>3. CASE kept # {}
  <2>1. PICK i \in kept : TRUE
    BY <1>3
  <2>2. kept = {i} /\ i \in 1..Len(segs) /\ segs[i].status = "Uploaded" /\ segs[i] \in SegRecords
    <3>1. kept = {i}
      BY <2>1
    <3>2. i \in DOMAIN segs /\ segs[i].status = "Uploaded"
      BY <2>1 DEF Uploaded
    <3> QED BY <3>1, <3>2, ElementOfSeq
  <2>3. Cardinality(kept) = 1
    BY <2>2, FS_Singleton
  <2>4. nth(1) = i
    <3>1. {j \in kept : j <= i} = kept
      BY <2>2
    <3> HIDE DEF kept
    <3> QED BY <2>2, <2>3, <3>1
  <2>5. new = [k \in 1..1 |-> segs[nth(k)]]
    BY <1>1, <2>3
  <2>6. DOMAIN new = {1} /\ new[1] = segs[i]
    <3>1. \A k \in 1..1 : k = 1
      OBVIOUS
    <3>2. DOMAIN new = 1..1 /\ 1 \in 1..1 /\ new[1] = segs[nth(1)]
      <4> HIDE DEF nth, new
      <4> QED BY <2>5
    <3> QED BY <2>4, <3>1, <3>2
  <2>7. new \in Seq(SegRecords)
    <3>1. new \in [1..1 -> SegRecords]
      <4>1. \A k \in 1..1 : k = 1
        OBVIOUS
      <4> HIDE DEF nth
      <4> HIDE DEF new
      <4> QED BY <2>2, <2>4, <2>5, <4>1
    <3> HIDE DEF new
    <3> QED BY <3>1, SeqDef
  <2> HIDE DEF new, kept, nth
  <2>8. UploadedNames(segs) = {segs[i].name}
    BY <2>2 DEF UploadedNames, kept
  <2>9. Names(new) = {segs[i].name} /\ Uploaded(new) = {1}
    BY <2>2, <2>6 DEF Names, Uploaded
  <2>10. UploadedNames(new) = {segs[i].name}
    BY <2>6, <2>9 DEF UploadedNames
  <2> QED BY <2>7, <2>8, <2>9, <2>10 DEF new
<1> QED BY <1>2, <1>3
-----------------------------------------------------------------------------
(* The invariant holds at the beginning and after every step.              *)

(* SegsInv depends on the WAL, the control file and remote storage.        *)
LEMMA SegsFrame ==
  ASSUME SegsInv, UNCHANGED <<pbWal, pbTerm, pbRemote>>, pbCf'.segs = pbCf.segs
  PROVE  SegsInv'
<1>1. \A n : (NameOK(n)' <=> NameOK(n)) /\ (Good(n)' <=> Good(n))
  BY DEF NameOK, Good, ObjectsOf, PbFlush, SegmentData
<1> QED BY <1>1 DEF SegsInv

(* Parts of the control file.                                              *)
LEMMA PbFile ==
  ASSUME PbTypeOK
  PROVE  /\ pbCf.commit \in Nat /\ pbCf.segs \in Seq(SegRecords) /\ pbCf.offloaded \in Nat
         /\ \A segs \in Seq(SegRecords), c \in Nat :
              /\ [pbCf EXCEPT !.segs = segs, !.commit = c]
                   \in [commit : Nat, segs : Seq(SegRecords), offloaded : Nat]
              /\ [pbCf EXCEPT !.segs = segs, !.commit = c].segs = segs
              /\ [pbCf EXCEPT !.segs = segs, !.commit = c].commit = c
              /\ [pbCf EXCEPT !.segs = segs, !.commit = c].offloaded = pbCf.offloaded
<1> DEFINE S == Seq(SegRecords)
<1>1. pbCf \in [commit : Nat, segs : S, offloaded : Nat]
  BY DEF PbTypeOK
<1> HIDE DEF S
<1>2. /\ pbCf.commit \in Nat /\ pbCf.segs \in S /\ pbCf.offloaded \in Nat
      /\ \A segs \in S, c \in Nat :
              /\ [pbCf EXCEPT !.segs = segs, !.commit = c] \in [commit : Nat, segs : S, offloaded : Nat]
              /\ [pbCf EXCEPT !.segs = segs, !.commit = c].segs = segs
              /\ [pbCf EXCEPT !.segs = segs, !.commit = c].commit = c
              /\ [pbCf EXCEPT !.segs = segs, !.commit = c].offloaded = pbCf.offloaded
  BY <1>1
<1> QED BY <1>2 DEF S

(* A new timeline.                                                         *)
LEMMA PbInitial == PbInit => PbInv
<1> SUFFICES ASSUME PbInit PROVE PbInv
  OBVIOUS
<1>1. PbFirstLsn \in Nat
  BY PbAssumption DEF PbFirstLsn
<1>2. PbTypeOK
  BY <1>1 DEF PbInit, PbTypeOK
<1>3. pbCf.segs = <<>> /\ pbCf.offloaded = 0 /\ pbRemote = {} /\ pbTask = "none" /\ pbMgr = "idle"
  BY DEF PbInit
<1>4. Names(<<>>) = {} /\ Uploaded(<<>>) = {} /\ UploadedNames(<<>>) = {}
  BY DEF Names, Uploaded, UploadedNames
<1>5. UploadedSegment(<<>>) = PbNone
  BY <1>4 DEF UploadedSegment
<1>6. SegsInv /\ TaskInv /\ NoLeakedPartials
  BY <1>3, <1>4 DEF SegsInv, TaskInv, NoLeakedPartials
<1>7. ManagerInv
  BY <1>3, <1>5 DEF ManagerInv, Offloaded, PbInit
<1> QED BY <1>2, <1>6, <1>7 DEF PbInv

(* The WAL becomes longer, or a compute of a later term has changed it.    *)
LEMMA WalStep ==
  ASSUME PbInv, ComputeElected \/ PbAppend
  PROVE  PbInv'
<1>0. PbTypeOK /\ SegsInv /\ TaskInv /\ ManagerInv /\ NoLeakedPartials
  BY DEF PbInv
<1>1. /\ pbCompute # 0 /\ pbCompute \in Nat /\ pbTerm \in Nat /\ PbFirstLsn \in Nat
      /\ (pbCompute = pbTerm \/ (pbTerm < pbCompute /\ pbCompute = pbTerm + 1))
  <2>1. pbTerm \in Nat /\ pbCompute \in {0, pbTerm, pbTerm + 1}
    BY <1>0 DEF PbTypeOK
  <2>2. pbCompute # 0
    BY DEF ComputeElected, PbAppend
  <2> QED BY <2>1, <2>2, PbAssumption DEF PbFirstLsn
<1>2. UNCHANGED <<pbCommit, pbCf, pbRemote, taskVars, mgrVars, pbAux>>
  BY DEF ComputeElected, PbAppend
<1>3. /\ pbWal' \in Seq(Nat) /\ pbTerm' \in Nat /\ pbTerm' \in {pbTerm, pbCompute}
      /\ \/ pbTerm < pbTerm'
         \/ /\ pbTerm' = pbTerm /\ Len(pbWal) <= Len(pbWal')
            /\ \A i \in 1..Len(pbWal) : pbWal'[i] = pbWal[i]
  <2>0. pbWal \in Seq(Nat) /\ Len(pbWal) \in Nat
    BY <1>0 DEF PbTypeOK
  <2>1. CASE PbAppend
    BY <1>1, <2>0, <2>1 DEF PbAppend
  <2>2. CASE ComputeElected
    <3>1. PICK lsn \in pbCommit..PbFlush :
            /\ pbCompute > pbTerm
            /\ pbWal' = SubSeq(pbWal, 1, lsn - PbFirstLsn)
            /\ pbTerm' = IF lsn < PbFlush THEN pbCompute ELSE pbTerm
      BY <2>2 DEF ComputeElected
    <3>2. PICK k \in 0..Len(pbWal) : k = lsn - PbFirstLsn /\ (lsn < PbFlush <=> k < Len(pbWal))
      BY <1>0, <1>1, <2>0 DEF PbFlush, PbTypeOK
    <3>3. pbWal' \in Seq(Nat) /\ Len(pbWal') = k /\ \A i \in 1..k : pbWal'[i] = pbWal[i]
      <4>1. /\ SubSeq(pbWal, 0 + 1, 0 + k) \in Seq(Nat) /\ Len(SubSeq(pbWal, 0 + 1, 0 + k)) = k
            /\ \A i \in 1..k : SubSeq(pbWal, 0 + 1, 0 + k)[i] = pbWal[0 + i]
        BY <2>0, PartOf
      <4>2. 0 + 1 = 1 /\ 0 + k = k /\ \A i \in 1..k : 0 + i = i
        BY <2>0
      <4> QED BY <3>1, <3>2, <4>1, <4>2
    <3>4. CASE lsn < PbFlush
      BY <1>1, <3>1, <3>3, <3>4
    <3>5. CASE ~(lsn < PbFlush)
      BY <1>1, <2>0, <3>1, <3>2, <3>3, <3>5
    <3> QED BY <3>4, <3>5
  <2> QED BY <2>1, <2>2
<1>4. PbTypeOK'
  BY <1>0, <1>1, <1>2, <1>3 DEF PbTypeOK, taskVars, mgrVars
<1>5. ~Offloaded /\ ~Offloaded' /\ pbMgr \notin {"evict", "delete", "present"}
  BY <1>0, <1>1, <1>2 DEF ManagerInv, Offloaded
<1>6. \A n : NameOK(n) => NameOK(n)'
  BY <1>0, <1>3, NamesKeep DEF PbTypeOK
<1>7. \A n : Good(n)' <=> Good(n)
  BY <1>2 DEF Good, ObjectsOf
<1>8. SegsInv'
  BY <1>0, <1>2, <1>6, <1>7 DEF SegsInv
<1>9. TaskInv'
  <2>1. pbTask \in {"read", "verify"} => NameOK(pbPrepared)
    BY <1>0 DEF TaskInv, SegsInv
  <2>2. pbTask \in {"read", "verify"} => pbPrepared.term \in Nat /\ pbPrepared.term <= pbTerm
    BY <2>1 DEF NameOK, NameRecords
  <2>3. pbTerm <= pbTerm'
    BY <1>1, <1>3
  <2>4. UNCHANGED <<pbTask, pbState, pbPrepared, pbBuf, pbGarbage>>
    BY <1>2 DEF taskVars, pbAux
  <2>5. pbTask \in {"read", "verify"} /\ pbPrepared.term = pbTerm' => pbPrepared.term = pbTerm
    BY <1>1, <1>3, <2>2, <2>3
  <2> QED BY <1>0, <1>2, <1>7, <2>4, <2>5 DEF TaskInv
<1>10. ManagerInv'
  BY <1>0, <1>2, <1>5 DEF ManagerInv, mgrVars, taskVars, Offloaded
<1>11. NoLeakedPartials'
  BY <1>0, <1>2 DEF NoLeakedPartials, pbAux
<1> QED BY <1>4, <1>8, <1>9, <1>10, <1>11 DEF PbInv

(* Steps that change neither the WAL, nor the list of segments, nor remote *)
(* storage, nor the task.                                                  *)
LEMMA OtherStep ==
  ASSUME PbInv, UNCHANGED <<pbWal, pbTerm, pbRemote, taskVars, pbGarbage>>,
         pbCf'.segs = pbCf.segs, PbTypeOK', ManagerInv'
  PROVE  PbInv'
<1>0. PbTypeOK /\ SegsInv /\ TaskInv /\ ManagerInv /\ NoLeakedPartials
  BY DEF PbInv
<1>1. SegsInv'
  BY <1>0, SegsFrame
<1>2. \A n : Good(n)' <=> Good(n)
  BY DEF Good, ObjectsOf
<1>3. TaskInv'
  BY <1>0, <1>2 DEF TaskInv, taskVars
<1>4. NoLeakedPartials'
  BY <1>0 DEF NoLeakedPartials
<1> QED BY <1>1, <1>3, <1>4 DEF PbInv

(* commit_state never fails: nobody changes the list behind the task.      *)
LEMMA StateIsCommitted ==
  ASSUME PbInv, pbTask # "none", NEW segs \in Seq(SegRecords), NEW next, CommitState(segs, next)
  PROVE  /\ pbCf' \in [commit : Nat, segs : Seq(SegRecords), offloaded : Nat]
         /\ pbCf'.segs = segs /\ pbCf'.commit = pbCommit /\ pbCf'.offloaded = pbCf.offloaded
         /\ pbState' = segs /\ pbTask' = next
<1>1. pbCf.segs = pbState
  BY DEF PbInv, TaskInv
<1>2. pbCf' = [pbCf EXCEPT !.segs = segs, !.commit = pbCommit] /\ pbState' = segs /\ pbTask' = next
  BY <1>1 DEF CommitState
<1>3. PbTypeOK /\ pbCommit \in Nat
  BY DEF PbInv, PbTypeOK
<1> QED BY <1>2, <1>3, PbFile
-----------------------------------------------------------------------------
(* The WAL ends after its beginning.                                       *)
LEMMA FlushIsLsn ==
  ASSUME PbTypeOK
  PROVE  PbFirstLsn \in Nat /\ PbFirstLsn > 0 /\ PbFlush \in Nat /\ PbFirstLsn <= PbFlush
<1>1. PbFirstLsn \in Nat /\ PbFirstLsn > 0 /\ Len(pbWal) \in Nat
  BY PbAssumption DEF PbFirstLsn, PbTypeOK
<1> QED BY <1>1 DEF PbFlush

(* Only the commit LSN of the control file, or its flush LSN, changes.     *)
LEMMA FileChanges ==
  ASSUME PbTypeOK, NEW c \in Nat, NEW f \in Nat
  PROVE  LET new == [pbCf EXCEPT !.offloaded = f, !.commit = c]
         IN  /\ new \in [commit : Nat, segs : Seq(SegRecords), offloaded : Nat]
             /\ new.segs = pbCf.segs /\ new.commit = c /\ new.offloaded = f
<1> DEFINE S == Seq(SegRecords)
<1>1. pbCf \in [commit : Nat, segs : S, offloaded : Nat]
  BY DEF PbTypeOK
<1> HIDE DEF S
<1> QED BY <1>1 DEF S

(* The steps that leave the timeline loaded or not, as it was.             *)
LEMMA LoadedSteps ==
  ASSUME PbInv, PbAdvanceCommit \/ PbSaveControlFile \/ RemoveWal \/ EvictCompare
                \/ EvictDelete \/ GuardRequest \/ GuardDrop
  PROVE  PbInv'
<1>0. PbTypeOK /\ ManagerInv
  BY DEF PbInv
<1>1. CASE PbAdvanceCommit
  <2>1. pbCommit \in Nat /\ PbFirstLsn <= pbCommit /\ PbFirstLsn \in Nat /\ PbFlush \in Nat
    BY <1>0, FlushIsLsn DEF PbTypeOK
  <2>2. pbCommit' \in Nat /\ PbFirstLsn <= pbCommit'
    BY <1>1, <2>1 DEF PbAdvanceCommit
  <2>3. UNCHANGED <<pbWal, pbTerm, pbLocal, pbCf, pbRemote, taskVars, mgrVars, pbAux>> /\ ~Offloaded
    BY <1>1 DEF PbAdvanceCommit
  <2>4. PbTypeOK'
    BY <1>0, <2>2, <2>3 DEF PbTypeOK, taskVars, mgrVars
  <2>5. ManagerInv'
    BY <1>0, <2>3 DEF ManagerInv, taskVars, mgrVars, Offloaded
  <2> QED BY <2>3, <2>4, <2>5, OtherStep DEF pbAux
<1>2. CASE PbSaveControlFile
  <2>1. UNCHANGED <<walVars, pbRemote, taskVars, mgrVars, pbAux>> /\ ~Offloaded
    BY <1>2 DEF PbSaveControlFile
  <2>2. /\ pbCf' \in [commit : Nat, segs : Seq(SegRecords), offloaded : Nat]
        /\ pbCf'.segs = pbCf.segs /\ pbCf'.commit = pbCommit /\ pbCf'.offloaded = pbCf.offloaded
    <3>1. pbCf' = [pbCf EXCEPT !.commit = pbCommit]
      BY <1>2 DEF PbSaveControlFile
    <3> DEFINE S == Seq(SegRecords)
    <3>2. pbCf \in [commit : Nat, segs : S, offloaded : Nat] /\ pbCommit \in Nat
      BY <1>0 DEF PbTypeOK
    <3> HIDE DEF S
    <3> QED BY <3>1, <3>2 DEF S
  <2>3. PbTypeOK'
    BY <1>0, <2>1, <2>2 DEF PbTypeOK, taskVars, mgrVars, walVars
  <2>4. ManagerInv'
    BY <1>0, <2>1, <2>2 DEF ManagerInv, taskVars, mgrVars, Offloaded
  <2> QED BY <2>1, <2>2, <2>3, <2>4, OtherStep DEF pbAux, walVars
<1>3. CASE RemoveWal
  <2>1. UNCHANGED <<pbWal, pbTerm, pbCommit, pbCf, pbRemote, taskVars, pbMgr, pbUploaded,
                    pbCompute, pbAux>>
    BY <1>3 DEF RemoveWal
  <2>2. PbTypeOK'
    BY <1>0, <2>1 DEF PbTypeOK, taskVars
  <2>3. ManagerInv'
    BY <1>0, <2>1 DEF ManagerInv, taskVars, Offloaded, PbFlush
  <2> QED BY <2>1, <2>2, <2>3, OtherStep DEF pbAux
<1>4. CASE EvictCompare
  <2>1. /\ UNCHANGED <<walVars, pbCf, pbRemote, taskVars, pbUploaded, pbLastRemoved, pbCompute, pbAux>>
        /\ pbTask = "none" /\ pbCompute = 0 /\ pbMgr' = "evict"
    BY <1>4 DEF EvictCompare, ReadyForEviction
  <2>2. PbTypeOK'
    BY <1>0, <2>1 DEF PbTypeOK, taskVars, walVars
  <2>3. ManagerInv'
    BY <1>0, <2>1 DEF ManagerInv, taskVars, walVars, Offloaded, PbFlush
  <2> QED BY <2>1, <2>2, <2>3, OtherStep DEF pbAux, walVars
<1>5. CASE EvictDelete
  <2>1. /\ UNCHANGED <<pbWal, pbTerm, pbCommit, pbCf, pbRemote, taskVars, pbUploaded,
                       pbLastRemoved, pbCompute, pbAux>>
        /\ pbMgr' = "idle"
    BY <1>5 DEF EvictDelete
  <2>2. PbTypeOK'
    BY <1>0, <2>1 DEF PbTypeOK, taskVars
  <2>3. ManagerInv'
    BY <1>0, <2>1 DEF ManagerInv, taskVars, Offloaded, PbFlush
  <2> QED BY <2>1, <2>2, <2>3, OtherStep DEF pbAux
<1>6. CASE GuardRequest \/ GuardDrop
  <2>1. /\ UNCHANGED <<walVars, pbCf, pbRemote, taskVars, pbMgr, pbUploaded, pbLastRemoved, pbAux>>
        /\ pbMgr = "idle" /\ pbCompute' \in {0, pbTerm + 1} /\ (Offloaded => pbCompute' = 0)
    BY <1>6 DEF GuardRequest, GuardDrop
  <2>2. PbTypeOK'
    BY <1>0, <2>1 DEF PbTypeOK, taskVars, walVars
  <2>3. ManagerInv'
    BY <1>0, <2>1 DEF ManagerInv, taskVars, walVars, Offloaded, PbFlush
  <2> QED BY <2>1, <2>2, <2>3, OtherStep DEF pbAux, walVars
<1> QED BY <1>1, <1>2, <1>3, <1>4, <1>5, <1>6

(* switch_to_offloaded and switch_to_present.                              *)
LEMMA SwitchSteps ==
  ASSUME PbInv, EvictSwitch \/ UnevictSwitch
  PROVE  PbInv'
<1>0. PbTypeOK /\ ManagerInv /\ SegsInv
  BY DEF PbInv
<1>1. CASE EvictSwitch
  <2>1. /\ UNCHANGED <<walVars, pbRemote, taskVars, pbUploaded, pbLastRemoved, pbCompute, pbAux>>
        /\ pbMgr = "evict" /\ pbTask = "none" /\ pbCompute = 0
        /\ pbUploaded = UploadedSegment(pbCf.segs)
    BY <1>0, <1>1 DEF EvictSwitch, ManagerInv
  <2>2. CASE ~SwitchAllowed(pbUploaded)
    <3>1. pbMgr' = "idle" /\ pbCf' = pbCf
      BY <1>1, <2>2 DEF EvictSwitch
    <3>2. PbTypeOK'
      BY <1>0, <2>1, <3>1 DEF PbTypeOK, taskVars, walVars
    <3>3. ManagerInv'
      BY <1>0, <2>1, <3>1 DEF ManagerInv, taskVars, walVars, Offloaded, PbFlush
    <3> QED BY <2>1, <3>1, <3>2, <3>3, OtherStep DEF pbAux, walVars
  <2>3. CASE SwitchAllowed(pbUploaded)
    <3>1. PbFlush \in Nat /\ PbFlush # 0 /\ pbCommit \in Nat
      BY <1>0, FlushIsLsn DEF PbTypeOK
    <3>2. /\ pbCf' = [pbCf EXCEPT !.offloaded = PbFlush, !.commit = pbCommit]
          /\ pbMgr' \in {"delete", "idle"}
      BY <1>1, <2>3 DEF EvictSwitch
    <3>3. /\ pbCf' \in [commit : Nat, segs : Seq(SegRecords), offloaded : Nat]
          /\ pbCf'.segs = pbCf.segs /\ pbCf'.commit = pbCommit /\ pbCf'.offloaded = PbFlush
      BY <1>0, <3>1, <3>2, FileChanges
    <3>4. PbTypeOK'
      BY <1>0, <2>1, <3>2, <3>3 DEF PbTypeOK, taskVars, walVars
    <3>5. /\ pbUploaded # PbNone /\ pbUploaded.flush = PbFlush /\ pbUploaded.commit = pbCommit
          /\ pbUploaded.term = pbTerm
      BY <2>3 DEF SwitchAllowed, NeedsUploading
    <3>6. pbUploaded \in UploadedNames(pbCf.segs)
      BY <1>0, <2>1, <3>5, UploadedOne, PbFile DEF SegsInv
    <3>7. PbFlush' = PbFlush
      BY <2>1 DEF PbFlush, walVars
    <3>8. ManagerInv'
      BY <2>1, <3>1, <3>2, <3>3, <3>5, <3>6, <3>7 DEF ManagerInv, taskVars, walVars, Offloaded
    <3> QED BY <2>1, <3>3, <3>4, <3>8, OtherStep DEF pbAux, walVars
  <2> QED BY <2>2, <2>3
<1>2. CASE UnevictSwitch
  <2>1. /\ UNCHANGED <<walVars, pbRemote, taskVars, pbUploaded, pbLastRemoved, pbAux>>
        /\ pbMgr = "present" /\ pbTask = "none" /\ pbMgr' = "idle" /\ pbCompute' = pbTerm + 1
    BY <1>0, <1>2 DEF UnevictSwitch, ManagerInv
  <2>2. /\ pbCf' \in [commit : Nat, segs : Seq(SegRecords), offloaded : Nat]
        /\ pbCf'.segs = pbCf.segs /\ pbCf'.commit = pbCf.commit /\ pbCf'.offloaded = 0
    <3>1. pbCf' = [pbCf EXCEPT !.offloaded = 0]
      BY <1>2 DEF UnevictSwitch
    <3> DEFINE S == Seq(SegRecords)
    <3>2. pbCf \in [commit : Nat, segs : S, offloaded : Nat]
      BY <1>0 DEF PbTypeOK
    <3> HIDE DEF S
    <3> QED BY <3>1, <3>2 DEF S
  <2>3. PbTypeOK'
    BY <1>0, <2>1, <2>2 DEF PbTypeOK, taskVars, walVars
  <2>4. ManagerInv'
    BY <1>0, <2>1, <2>2 DEF ManagerInv, taskVars, Offloaded
  <2> QED BY <2>1, <2>2, <2>3, <2>4, OtherStep DEF pbAux, walVars
<1> QED BY <1>1, <1>2

-----------------------------------------------------------------------------
(* The steps of the task.                                                  *)

(* What the task leaves to the manager.                                    *)
LEMMA TaskRuns ==
  ASSUME ManagerInv, pbTask # "none", pbTask' # "none", UNCHANGED mgrVars,
         pbCf'.offloaded = pbCf.offloaded
  PROVE  ManagerInv'
<1>1. /\ ~Offloaded /\ pbMgr \notin {"evict", "delete", "present", "reset"}
      /\ ~Offloaded' /\ pbMgr' = pbMgr
  BY DEF ManagerInv, Offloaded, mgrVars
<1> QED BY <1>1 DEF ManagerInv

(* The names in the list of a running task.                                *)
LEMMA PreparedName ==
  ASSUME PbInv, pbTask \in {"read", "verify"}
  PROVE  /\ NameOK(pbPrepared) /\ pbPrepared \in NameRecords
         /\ pbPrepared.flush \in Nat /\ pbPrepared.term \in Nat /\ pbPrepared.data \in Seq(Nat)
         /\ pbPrepared \in Names(pbCf.segs) /\ pbPrepared \notin UploadedNames(pbCf.segs)
<1>1. /\ pbPrepared \in Names(pbCf.segs) /\ pbPrepared \notin UploadedNames(pbCf.segs)
  BY DEF PbInv, TaskInv
<1>2. NameOK(pbPrepared)
  BY <1>1 DEF PbInv, SegsInv
<1>3. pbPrepared \in NameRecords
  BY <1>2 DEF NameOK
<1>4. pbPrepared.flush \in Nat /\ pbPrepared.term \in Nat /\ pbPrepared.data \in Seq(Nat)
  <2> DEFINE S == Seq(Nat)
  <2>1. pbPrepared \in [term : Nat, flush : Nat, commit : Nat, data : S]
    BY <1>3 DEF NameRecords
  <2> HIDE DEF S
  <2> QED BY <2>1 DEF S
<1> QED BY <1>1, <1>2, <1>3, <1>4

(* The task starts, ends, or goes back to the top of its loop.             *)
LEMMA LoopSteps ==
  ASSUME PbInv, StartTask \/ FinishTask \/ OpenFails \/ UploadFails \/ TermChanged
                \/ TooManySegments
  PROVE  PbInv'
<1>0. PbTypeOK /\ SegsInv /\ TaskInv /\ ManagerInv /\ NoLeakedPartials
  BY DEF PbInv
<1>1. UNCHANGED <<walVars, pbCf, pbRemote, pbGarbage>>
  BY DEF StartTask, FinishTask, OpenFails, UploadFails, TermChanged, TooManySegments, pbAux
<1>2. SegsInv' /\ NoLeakedPartials'
  BY <1>0, <1>1, SegsFrame DEF walVars, NoLeakedPartials
<1>3. CASE StartTask
  <2>1. /\ pbTask' = "loop" /\ pbState' = pbCf.segs /\ pbMgr = "idle" /\ ~Offloaded
        /\ UNCHANGED <<pbBuf, mgrVars>>
    BY <1>3 DEF StartTask
  <2>2. PbTypeOK'
    BY <1>0, <1>1, <2>1, PbFile DEF PbTypeOK, walVars, mgrVars
  <2>3. TaskInv' /\ ManagerInv'
    BY <1>1, <2>1 DEF TaskInv, ManagerInv, Offloaded, mgrVars
  <2> QED BY <1>2, <2>2, <2>3 DEF PbInv
<1>4. CASE FinishTask
  <2>1. /\ pbTask # "none" /\ pbTask' = "none" /\ pbMgr = "idle"
        /\ pbUploaded' = UploadedSegment(pbState) /\ pbState' = <<>>
        /\ UNCHANGED <<pbBuf, pbMgr, pbCompute>>
    BY <1>4 DEF FinishTask, MayUpload
  <2>2. pbState = pbCf.segs /\ ~Offloaded
    BY <1>0, <2>1 DEF TaskInv, ManagerInv
  <2>3. PbTypeOK'
    BY <1>0, <1>1, <2>1 DEF PbTypeOK, walVars
  <2>4. TaskInv' /\ ManagerInv'
    BY <1>1, <2>1, <2>2 DEF TaskInv, ManagerInv, Offloaded
  <2> QED BY <1>2, <2>3, <2>4 DEF PbInv
<1>5. CASE OpenFails \/ UploadFails \/ TermChanged \/ TooManySegments
  <2>1. /\ pbTask # "none" /\ pbTask' \in {"loop", "gcTop"}
        /\ pbBuf' \in {<<>>, pbBuf} /\ UNCHANGED <<pbState, mgrVars>>
    BY <1>5 DEF OpenFails, UploadFails, TermChanged, TooManySegments, NothingPrepared
  <2>2. pbState = pbCf.segs
    BY <1>0, <2>1 DEF TaskInv
  <2>3. PbTypeOK'
    <3>1. pbBuf' \in Seq(Nat)
      <4>1. <<>> \in Seq(Nat) /\ pbBuf \in Seq(Nat)
        BY <1>0 DEF PbTypeOK
      <4> QED BY <2>1, <4>1
    <3>2. pbTask' \in {"none", "loop", "wait", "read", "verify", "gc", "gcTop", "gcCommit"}
      BY <2>1
    <3> QED BY <1>0, <1>1, <2>1, <3>1, <3>2 DEF PbTypeOK, walVars, mgrVars
  <2>4. TaskInv'
    BY <1>1, <2>1, <2>2 DEF TaskInv
  <2>5. ManagerInv'
    BY <1>0, <1>1, <2>1, TaskRuns
  <2> QED BY <1>2, <2>3, <2>4, <2>5 DEF PbInv
<1> QED BY <1>3, <1>4, <1>5

(* The name of the segment that is written now.                            *)
LEMMA CurrentNameIs ==
  ASSUME PbTypeOK
  PROVE  /\ NameOK(CurrentName) /\ CurrentName # PbNone /\ CurrentName \in NameRecords
         /\ CurrentName.flush = PbFlush /\ CurrentName.commit = pbCommit
         /\ CurrentName.term = pbTerm
<1>1. PbFlush \in Nat /\ PbFirstLsn \in Nat /\ PbFirstLsn <= PbFlush
  BY FlushIsLsn
<1>2. pbWal \in Seq(Nat) /\ pbTerm \in Nat /\ pbCommit \in Nat
  BY DEF PbTypeOK
<1>3. SegmentData(PbFlush) \in Seq(Nat) /\ Len(SegmentData(PbFlush)) = Offset(PbFlush)
  BY <1>1, <1>2, SegmentDataIs
<1>4. /\ CurrentName.flush = PbFlush /\ CurrentName.commit = pbCommit
      /\ CurrentName.term = pbTerm /\ CurrentName.data = SegmentData(PbFlush)
  BY DEF CurrentName
<1>5. CurrentName \in NameRecords
  BY <1>1, <1>2, <1>3 DEF CurrentName, NameRecords
<1>6. CurrentName # PbNone
  BY <1>5, PbAssumption DEF NameRecords
<1>7. NameOK(CurrentName)
  BY <1>1, <1>2, <1>3, <1>4, <1>5 DEF NameOK
<1> QED BY <1>4, <1>5, <1>6, <1>7

(* prepare_upload.                                                         *)
LEMMA PrepareUploadStep ==
  ASSUME PbInv, PrepareUpload
  PROVE  PbInv'
<1>0. PbTypeOK /\ SegsInv /\ TaskInv /\ ManagerInv /\ NoLeakedPartials
  BY DEF PbInv
<1> DEFINE new == Append(pbState, Seg(CurrentName, "InProgress"))
<1>1. /\ pbTask # "none" /\ NeedsUploading(UploadedSegment(pbState))
      /\ pbPrepared' = CurrentName /\ pbBuf' = <<>> /\ CommitState(new, "read")
      /\ UNCHANGED <<walVars, pbRemote, mgrVars, pbAux>>
  BY DEF PrepareUpload, MayUpload, StartedSegs
<1>2. pbState = pbCf.segs /\ pbState \in Seq(SegRecords)
  BY <1>0, <1>1 DEF TaskInv, PbTypeOK
<1>3. /\ NameOK(CurrentName) /\ CurrentName # PbNone /\ CurrentName \in NameRecords
      /\ CurrentName.flush = PbFlush /\ CurrentName.commit = pbCommit
      /\ CurrentName.term = pbTerm
  BY <1>0, CurrentNameIs
<1>4. /\ new \in Seq(SegRecords) /\ new # <<>> /\ new[Len(new)] = Seg(CurrentName, "InProgress")
      /\ Names(new) = Names(pbState) \cup {CurrentName}
      /\ Uploaded(new) = Uploaded(pbState) /\ UploadedNames(new) = UploadedNames(pbState)
  BY <1>2, <1>3, SegsStarted
<1> HIDE DEF new
<1>5. /\ pbCf' \in [commit : Nat, segs : Seq(SegRecords), offloaded : Nat]
      /\ pbCf'.segs = new /\ pbCf'.commit = pbCommit /\ pbCf'.offloaded = pbCf.offloaded
      /\ pbState' = new /\ pbTask' = "read"
  BY <1>1, <1>4, StateIsCommitted
<1>6. CurrentName \notin UploadedNames(pbState)
  <2> SUFFICES ASSUME CurrentName \in UploadedNames(pbState) PROVE FALSE
    OBVIOUS
  <2>1. \A i, j \in Uploaded(pbState) : i = j
    BY <1>0, <1>2 DEF SegsInv
  <2>2. CurrentName = UploadedSegment(pbState)
    BY <1>2, <2>1, UploadedOne
  <2> QED BY <1>1, <1>3, <2>2 DEF NeedsUploading
<1>7. PbTypeOK'
  BY <1>0, <1>1, <1>4, <1>5 DEF PbTypeOK, walVars, mgrVars
<1>8. \A n : (NameOK(n)' <=> NameOK(n)) /\ (Good(n)' <=> Good(n))
  BY <1>1 DEF NameOK, Good, ObjectsOf, PbFlush, SegmentData, walVars
<1>9. SegsInv'
  BY <1>0, <1>2, <1>3, <1>4, <1>5, <1>8 DEF SegsInv
<1>10. TaskInv'
  <2>1. Len(<<>>) = 0 /\ Offset(CurrentName.flush) \in Nat
    BY <1>0, <1>3, FlushIsLsn, OffsetFits
  <2> QED BY <1>1, <1>4, <1>5, <1>6, <2>1 DEF TaskInv
<1>11. ManagerInv'
  BY <1>0, <1>1, <1>5, TaskRuns
<1>12. NoLeakedPartials'
  BY <1>0, <1>1, <1>2, <1>4, <1>5 DEF NoLeakedPartials, pbAux
<1> QED BY <1>7, <1>9, <1>10, <1>11, <1>12 DEF PbInv

(* A piece of the file is read.                                            *)
LEMMA ReadSegmentStep ==
  ASSUME PbInv, ReadSegment
  PROVE  PbInv'
<1>0. PbTypeOK /\ SegsInv /\ TaskInv /\ ManagerInv /\ NoLeakedPartials
  BY DEF PbInv
<1> DEFINE f == pbPrepared.flush
           k == Offset(f)
           b == Len(pbBuf)
           x == RecordAt(f - k + b)
<1>1. /\ pbTask = "read" /\ f - k + b < f /\ pbBuf' = Append(pbBuf, x)
      /\ UNCHANGED <<walVars, pbCf, pbRemote, pbTask, pbState, pbPrepared, mgrVars, pbAux>>
  BY DEF ReadSegment
<1>2. NameOK(pbPrepared) /\ f \in Nat /\ PbFirstLsn <= f /\ Len(pbPrepared.data) = k
  BY <1>1, PreparedName DEF NameOK
<1>3. /\ PbFirstLsn \in Nat /\ k \in Nat /\ k <= f - PbFirstLsn
      /\ PbFlush = PbFirstLsn + Len(pbWal) /\ Len(pbWal) \in Nat /\ pbWal \in Seq(Nat)
      /\ pbBuf \in Seq(Nat) /\ b \in Nat
  BY <1>0, <1>2, OffsetFits DEF PbTypeOK, PbFlush
<1>4. f - k + b < PbFlush => x = pbWal[f - k - PbFirstLsn + (b + 1)]
  <2>1. (f - k + b) - PbFirstLsn + 1 = f - k - PbFirstLsn + (b + 1)
    <3> HIDE DEF f, k, b
    <3> QED BY <1>2, <1>3
  <2>2. f - k + b < PbFlush => x = pbWal[(f - k + b) - PbFirstLsn + 1]
    BY DEF RecordAt
  <2> HIDE DEF x
  <2> QED BY <2>1, <2>2
<1>5. x \in Nat
  <2>1. CASE f - k + b < PbFlush
    <3>1. f - k - PbFirstLsn + (b + 1) \in 1..Len(pbWal)
      <4> HIDE DEF f, k, b
      <4> QED BY <1>1, <1>2, <1>3, <2>1
    <3>2. pbWal[f - k - PbFirstLsn + (b + 1)] \in Nat
      BY <1>3, <3>1, ElementOfSeq
    <3> QED BY <1>4, <2>1, <3>2
  <2>2. CASE ~(f - k + b < PbFlush)
    BY <2>2 DEF RecordAt
  <2> QED BY <2>1, <2>2
<1>6. b + 1 <= k
  <2> HIDE DEF f, k, b
  <2> QED BY <1>1, <1>2, <1>3
<1>7. pbPrepared.term = pbTerm => x = pbPrepared.data[b + 1]
  <2> SUFFICES ASSUME pbPrepared.term = pbTerm PROVE x = pbPrepared.data[b + 1]
    OBVIOUS
  <2>1. f <= PbFlush /\ pbPrepared.data = SegmentData(f)
    BY <1>2 DEF NameOK
  <2>2. \A i \in 1..k : SegmentData(f)[i] = pbWal[f - k - PbFirstLsn + i]
    BY <1>2, <1>3, <2>1, SegmentDataIs
  <2>3. b + 1 \in 1..k /\ f - k + b < PbFlush
    BY <1>1, <1>2, <1>3, <1>6, <2>1
  <2> QED BY <1>4, <2>1, <2>2, <2>3
<1> HIDE DEF x, k, f
<1>8. /\ pbBuf' \in Seq(Nat) /\ Len(pbBuf') = b + 1 /\ pbBuf'[b + 1] = x
      /\ \A i \in 1..b : pbBuf'[i] = pbBuf[i]
  BY <1>1, <1>3, <1>5
<1>9. PbTypeOK'
  BY <1>0, <1>1, <1>8 DEF PbTypeOK, walVars, mgrVars
<1>10. SegsInv' /\ NoLeakedPartials'
  BY <1>0, <1>1, SegsFrame DEF walVars, NoLeakedPartials, pbAux
<1>11. pbPrepared.term = pbTerm => \A i \in 1..(b + 1) : pbBuf'[i] = pbPrepared.data[i]
  <2> SUFFICES ASSUME pbPrepared.term = pbTerm, NEW i \in 1..(b + 1)
               PROVE  pbBuf'[i] = pbPrepared.data[i]
    OBVIOUS
  <2>1. \A j \in 1..b : pbBuf[j] = pbPrepared.data[j]
    BY <1>0, <1>1 DEF TaskInv
  <2>2. i \in 1..b \/ i = b + 1
    BY <1>3
  <2> QED BY <1>7, <1>8, <2>1, <2>2
<1>12. TaskInv'
  <2>1. UNCHANGED <<pbCf, pbTask, pbState, pbPrepared, pbTerm>> /\ pbTask = "read"
    BY <1>1 DEF walVars
  <2> QED BY <1>0, <1>6, <1>8, <1>11, <2>1 DEF TaskInv, f, k
<1>13. ManagerInv'
  BY <1>0, <1>1, TaskRuns
<1> QED BY <1>9, <1>10, <1>12, <1>13 DEF PbInv

(* The object is put: other uploaded segments stay, and this one is WAL if *)
(* no later term has written meanwhile.                                    *)
LEMMA PutObjectStep ==
  ASSUME PbInv, PutObject
  PROVE  PbInv'
<1>0. PbTypeOK /\ SegsInv /\ TaskInv /\ ManagerInv /\ NoLeakedPartials
  BY DEF PbInv
<1> DEFINE new == [name |-> pbPrepared, content |-> pbBuf]
<1>1. /\ pbTask = "read" /\ Len(pbBuf) = Offset(pbPrepared.flush)
      /\ pbRemote' = (pbRemote \ ObjectsOf({pbPrepared})) \cup {new}
      /\ pbTask' = "verify" /\ pbBuf' = <<>>
      /\ UNCHANGED <<walVars, pbCf, pbState, pbPrepared, mgrVars, pbAux>>
  BY DEF PutObject
<1>2. /\ NameOK(pbPrepared) /\ pbPrepared \in NameRecords /\ pbPrepared.data \in Seq(Nat)
      /\ pbPrepared \in Names(pbCf.segs) /\ pbPrepared \notin UploadedNames(pbCf.segs)
  BY <1>1, PreparedName
<1>3. pbBuf \in Seq(Nat)
  BY <1>0 DEF PbTypeOK
<1>4. new.name = pbPrepared /\ new.content = pbBuf
  OBVIOUS
<1>5. PbTypeOK'
  <2>1. new \in [name : NameRecords, content : Seq(Nat)]
    BY <1>2, <1>3
  <2>2. pbRemote' \subseteq [name : NameRecords, content : Seq(Nat)]
    BY <1>0, <1>1, <2>1 DEF PbTypeOK
  <2>3. pbBuf' \in Seq(Nat) /\ pbTask' = "verify"
    BY <1>1
  <2> HIDE DEF new
  <2> QED BY <1>0, <1>1, <2>2, <2>3 DEF PbTypeOK, walVars, mgrVars
<1> HIDE DEF new
<1>6. \A n : n # pbPrepared => (Good(n)' <=> Good(n))
  <2> SUFFICES ASSUME NEW n, n # pbPrepared PROVE Good(n)' <=> Good(n)
    OBVIOUS
  <2>1. ObjectsOf({n})' = ObjectsOf({n})
    BY <1>1, <1>4 DEF ObjectsOf
  <2> QED BY <2>1 DEF Good
<1>7. ObjectsOf({pbPrepared})' = {new}
  BY <1>1, <1>4 DEF ObjectsOf
<1>8. pbPrepared.term = pbTerm => Good(pbPrepared)'
  <2> SUFFICES ASSUME pbPrepared.term = pbTerm PROVE Good(pbPrepared)'
    OBVIOUS
  <2>1. \A i \in 1..Len(pbBuf) : pbBuf[i] = pbPrepared.data[i]
    BY <1>0, <1>1 DEF TaskInv
  <2>2. Len(pbPrepared.data) = Len(pbBuf)
    BY <1>1, <1>2 DEF NameOK
  <2>3. pbBuf = pbPrepared.data
    BY <1>2, <1>3, <2>1, <2>2, SameElements
  <2>4. pbPrepared' = pbPrepared
    BY <1>1
  <2> QED BY <1>7, <2>3, <2>4 DEF Good, new
<1>9. \A n : NameOK(n)' <=> NameOK(n)
  BY <1>1 DEF NameOK, PbFlush, SegmentData, walVars
<1>10. SegsInv'
  BY <1>0, <1>1, <1>2, <1>6, <1>9 DEF SegsInv
<1>11. TaskInv'
  <2>1. UNCHANGED <<pbCf, pbState, pbPrepared, pbTerm>> /\ pbTask = "read" /\ pbTask' = "verify"
    BY <1>1 DEF walVars
  <2> QED BY <1>0, <1>8, <2>1 DEF TaskInv
<1>12. ManagerInv'
  BY <1>0, <1>1, TaskRuns
<1>13. NoLeakedPartials'
  BY <1>0, <1>1, <1>2, <1>4 DEF NoLeakedPartials, pbAux
<1> QED BY <1>5, <1>10, <1>11, <1>12, <1>13 DEF PbInv

(* The upload is listed as done.                                           *)
LEMMA VerifyUploadStep ==
  ASSUME PbInv, VerifyUpload
  PROVE  PbInv'
<1>0. PbTypeOK /\ SegsInv /\ TaskInv /\ ManagerInv /\ NoLeakedPartials
  BY DEF PbInv
<1> DEFINE new == [i \in 1..Len(pbState) |->
                     IF i = Len(pbState) THEN Seg(pbPrepared, "Uploaded")
                     ELSE Seg(pbState[i].name, "Deleting")]
<1>1. /\ pbTask = "verify" /\ pbTerm = pbPrepared.term /\ CommitState(new, "gc")
      /\ pbBuf' = <<>> /\ UNCHANGED <<walVars, pbRemote, mgrVars, pbAux>>
  BY DEF VerifyUpload, StillActual, ReplacedSegs, NothingPrepared
<1>2. /\ pbState = pbCf.segs /\ pbState \in Seq(SegRecords) /\ pbState # <<>>
      /\ pbState[Len(pbState)] = Seg(pbPrepared, "InProgress") /\ Good(pbPrepared)
  BY <1>0, <1>1 DEF TaskInv, PbTypeOK
<1>3. pbPrepared \in NameRecords
  BY <1>1, PreparedName
<1>4. /\ new \in Seq(SegRecords) /\ Names(new) = Names(pbState)
      /\ UploadedNames(new) = {pbPrepared} /\ \A i, j \in Uploaded(new) : i = j
  BY <1>2, <1>3, SegsReplaced
<1> HIDE DEF new
<1>5. /\ pbCf' \in [commit : Nat, segs : Seq(SegRecords), offloaded : Nat]
      /\ pbCf'.segs = new /\ pbCf'.commit = pbCommit /\ pbCf'.offloaded = pbCf.offloaded
      /\ pbState' = new /\ pbTask' = "gc"
  BY <1>1, <1>4, StateIsCommitted
<1>6. PbTypeOK'
  BY <1>0, <1>1, <1>4, <1>5 DEF PbTypeOK, walVars, mgrVars
<1>7. \A n : (NameOK(n)' <=> NameOK(n)) /\ (Good(n)' <=> Good(n))
  BY <1>1 DEF NameOK, Good, ObjectsOf, PbFlush, SegmentData, walVars
<1>8. SegsInv'
  BY <1>0, <1>2, <1>4, <1>5, <1>7 DEF SegsInv
<1>9. TaskInv'
  BY <1>5 DEF TaskInv
<1>10. ManagerInv'
  BY <1>0, <1>1, <1>5, TaskRuns
<1>11. NoLeakedPartials'
  BY <1>0, <1>1, <1>2, <1>4, <1>5 DEF NoLeakedPartials, pbAux
<1> QED BY <1>6, <1>8, <1>9, <1>10, <1>11 DEF PbInv

(* Objects are deleted, all that are to be or some.                        *)
LEMMA DeleteSteps ==
  ASSUME PbInv, DeleteObjects \/ DeleteFails
  PROVE  PbInv'
<1>0. PbTypeOK /\ SegsInv /\ TaskInv /\ ManagerInv /\ NoLeakedPartials
  BY DEF PbInv
<1> DEFINE gone == ObjectsOf(NamesToDelete(pbState))
<1>1. /\ pbTask \in {"gc", "gcTop"} /\ pbTask' \in {"gcCommit", "loop", "wait"}
      /\ UNCHANGED <<walVars, pbCf, pbState, pbPrepared, pbBuf, mgrVars, pbGarbage>>
  BY DEF DeleteObjects, DeleteFails, pbAux
<1>2. PICK S \in SUBSET gone : pbRemote' = pbRemote \ S /\ (pbTask' = "gcCommit" => S = gone)
  <2>1. CASE DeleteObjects
    BY <2>1 DEF DeleteObjects
  <2>2. CASE DeleteFails
    <3>1. pbTask' # "gcCommit"
      BY <2>2 DEF DeleteFails
    <3>2. \E S \in SUBSET gone : pbRemote' = pbRemote \ S
      BY <2>2 DEF DeleteFails
    <3> QED BY <3>1, <3>2
  <2> QED BY <2>1, <2>2
<1>3. pbState = pbCf.segs /\ pbState \in Seq(SegRecords) /\ \A i, j \in Uploaded(pbState) : i = j
  BY <1>0, <1>1 DEF TaskInv, PbTypeOK, SegsInv
<1>4. \A n \in UploadedNames(pbState) : n \notin NamesToDelete(pbState)
  BY <1>3, UploadedOne DEF NamesToDelete
<1>5. PbTypeOK'
  <2>1. pbRemote' \subseteq [name : NameRecords, content : Seq(Nat)]
    BY <1>0, <1>2 DEF PbTypeOK
  <2>2. pbTask' \in {"none", "loop", "wait", "read", "verify", "gc", "gcTop", "gcCommit"}
    BY <1>1
  <2> QED BY <1>0, <1>1, <2>1, <2>2 DEF PbTypeOK, walVars, mgrVars
<1>6. \A n \in UploadedNames(pbState) : Good(n) => Good(n)'
  <2> SUFFICES ASSUME NEW n \in UploadedNames(pbState), Good(n) PROVE Good(n)'
    OBVIOUS
  <2>1. ObjectsOf({n})' = ObjectsOf({n})
    BY <1>2, <1>4 DEF ObjectsOf
  <2> QED BY <2>1 DEF Good
<1>7. \A n : NameOK(n)' <=> NameOK(n)
  BY <1>1 DEF NameOK, PbFlush, SegmentData, walVars
<1>8. SegsInv'
  BY <1>0, <1>1, <1>3, <1>6, <1>7 DEF SegsInv
<1>9. NoLeakedPartials'
  BY <1>0, <1>1, <1>2 DEF NoLeakedPartials
<1>10. pbTask' = "gcCommit" => \A o \in pbRemote' : o.name \in pbGarbage \cup UploadedNames(pbState)
  <2> SUFFICES ASSUME pbTask' = "gcCommit", NEW o \in pbRemote', o.name \notin pbGarbage
               PROVE  o.name \in UploadedNames(pbState)
    OBVIOUS
  <2>1. o \in pbRemote /\ o.name \notin NamesToDelete(pbState)
    BY <1>2 DEF ObjectsOf
  <2>2. o.name \in Names(pbState)
    BY <1>0, <1>3, <2>1 DEF NoLeakedPartials
  <2>3. PICK i \in DOMAIN pbState : o.name = pbState[i].name
    BY <2>2 DEF Names
  <2>4. CASE pbState[i].status = "Uploaded"
    BY <2>3, <2>4 DEF UploadedNames, Uploaded
  <2>5. CASE pbState[i].status # "Uploaded"
    <3>1. o.name = UploadedSegment(pbState)
      BY <2>1, <2>3, <2>5 DEF NamesToDelete
    <3>2. o.name # PbNone
      <4>1. o.name \in NameRecords
        BY <1>3, <2>2, UploadedOne
      <4> QED BY <4>1, PbAssumption DEF NameRecords
    <3> QED BY <1>3, <3>1, <3>2, UploadedOne
  <2> QED BY <2>4, <2>5
<1>11. TaskInv'
  <2>1. UNCHANGED <<pbCf, pbState, pbGarbage>> /\ pbTask' \in {"gcCommit", "loop", "wait"}
    BY <1>1
  <2> QED BY <1>3, <1>10, <2>1 DEF TaskInv
<1>12. ManagerInv'
  BY <1>0, <1>1, TaskRuns
<1> QED BY <1>5, <1>8, <1>9, <1>11, <1>12 DEF PbInv

(* The list is shortened to what is uploaded.                              *)
LEMMA CommitGcStep ==
  ASSUME PbInv, CommitGc
  PROVE  PbInv'
<1>0. PbTypeOK /\ SegsInv /\ TaskInv /\ ManagerInv /\ NoLeakedPartials
  BY DEF PbInv
<1> DEFINE new == Retained(pbState)
<1>1. /\ pbTask = "gcCommit" /\ CommitState(new, "loop")
      /\ UNCHANGED <<walVars, pbRemote, pbPrepared, pbBuf, mgrVars, pbAux>>
  BY DEF CommitGc
<1>2. pbState = pbCf.segs /\ pbState \in Seq(SegRecords) /\ \A i, j \in Uploaded(pbState) : i = j
  BY <1>0, <1>1 DEF TaskInv, PbTypeOK, SegsInv
<1>3. /\ new \in Seq(SegRecords) /\ Names(new) = UploadedNames(pbState)
      /\ UploadedNames(new) = UploadedNames(pbState) /\ \A i, j \in Uploaded(new) : i = j
  BY <1>2, SegsRetained
<1> HIDE DEF new
<1>4. /\ pbCf' \in [commit : Nat, segs : Seq(SegRecords), offloaded : Nat]
      /\ pbCf'.segs = new /\ pbCf'.commit = pbCommit /\ pbCf'.offloaded = pbCf.offloaded
      /\ pbState' = new /\ pbTask' = "loop"
  BY <1>1, <1>3, StateIsCommitted
<1>5. PbTypeOK'
  BY <1>0, <1>1, <1>3, <1>4 DEF PbTypeOK, walVars, mgrVars
<1>6. \A n : (NameOK(n)' <=> NameOK(n)) /\ (Good(n)' <=> Good(n))
  BY <1>1 DEF NameOK, Good, ObjectsOf, PbFlush, SegmentData, walVars
<1>7. UploadedNames(pbState) \subseteq Names(pbState)
  BY <1>2, UploadedOne
<1>8. SegsInv'
  BY <1>0, <1>2, <1>3, <1>4, <1>6, <1>7 DEF SegsInv
<1>9. TaskInv'
  BY <1>4 DEF TaskInv
<1>10. ManagerInv'
  BY <1>0, <1>1, <1>4, TaskRuns
<1>11. NoLeakedPartials'
  BY <1>0, <1>1, <1>3, <1>4 DEF NoLeakedPartials, TaskInv, pbAux
<1> QED BY <1>5, <1>8, <1>9, <1>10, <1>11 DEF PbInv

-----------------------------------------------------------------------------
(* Restoring, resetting and restarting.                                    *)

(* What an evicted timeline is restored from.                              *)
LEMMA EvictedSegment ==
  ASSUME PbInv, Offloaded
  PROVE  LET n == UploadedSegment(pbCf.segs)
         IN  /\ n # PbNone /\ n.flush = PbFlush /\ n.commit = pbCommit /\ n.term = pbTerm
             /\ pbCf.offloaded = PbFlush /\ Good(n) /\ n.data = SegmentData(PbFlush)
             /\ pbUploaded = n /\ pbTask = "none" /\ pbCompute = 0
<1>0. PbTypeOK /\ SegsInv /\ ManagerInv
  BY DEF PbInv
<1>1. PICK n \in UploadedNames(pbCf.segs) :
        n.flush = PbFlush /\ n.commit = pbCommit /\ n.term = pbTerm
  BY <1>0 DEF ManagerInv
<1>2. pbCf.segs \in Seq(SegRecords) /\ \A i, j \in Uploaded(pbCf.segs) : i = j
  BY <1>0, PbFile DEF SegsInv
<1>3. n = UploadedSegment(pbCf.segs) /\ n \in Names(pbCf.segs) /\ n \in NameRecords
  BY <1>1, <1>2, UploadedOne
<1>4. n # PbNone
  BY <1>3, PbAssumption DEF NameRecords
<1>5. Good(n) /\ n.data = SegmentData(PbFlush)
  BY <1>0, <1>1, <1>3 DEF SegsInv, NameOK
<1>6. pbCf.offloaded = PbFlush /\ pbUploaded = n /\ pbTask = "none" /\ pbCompute = 0
  BY <1>0, <1>3 DEF ManagerInv
<1> QED BY <1>1, <1>3, <1>4, <1>5, <1>6

(* A sequence is its beginning and its end.                                *)
LEMMA TwoParts ==
  ASSUME NEW R, NEW w \in Seq(R), NEW v \in Seq(R), NEW k \in Nat, k <= Len(w), Len(v) = k,
         \A i \in 1..k : v[i] = w[Len(w) - k + i]
  PROVE  SubSeq(w, 1, Len(w) - k) \o v = w
<1> DEFINE m == Len(w) - k
           u == SubSeq(w, 1, m)
<1>1. m \in Nat /\ m + k = Len(w) /\ Len(w) \in Nat
  OBVIOUS
<1> HIDE DEF m
<1>2. u \in Seq(R) /\ Len(u) = m /\ \A i \in 1..m : u[i] = w[i]
  <2>1. /\ SubSeq(w, 0 + 1, 0 + m) \in Seq(R) /\ Len(SubSeq(w, 0 + 1, 0 + m)) = m
        /\ \A i \in 1..m : SubSeq(w, 0 + 1, 0 + m)[i] = w[0 + i]
    BY <1>1, PartOf
  <2>2. 0 + 1 = 1 /\ 0 + m = m /\ \A i \in 1..m : 0 + i = i
    BY <1>1
  <2> QED BY <2>1, <2>2
<1> HIDE DEF u
<1>3. /\ u \o v \in Seq(R) /\ Len(u \o v) = m + k
      /\ \A i \in 1..(m + k) : (u \o v)[i] = IF i <= m THEN u[i] ELSE v[i - m]
  BY <1>2, ConcatProperties
<1>4. \A i \in 1..(m + k) : (u \o v)[i] = w[i]
  <2> SUFFICES ASSUME NEW i \in 1..(m + k) PROVE (u \o v)[i] = w[i]
    OBVIOUS
  <2>1. CASE i <= m
    BY <1>1, <1>2, <1>3, <2>1
  <2>2. CASE ~(i <= m)
    <3>1. i - m \in 1..k /\ m + (i - m) = i
      BY <1>1, <2>2
    <3>2. v[i - m] = w[m + (i - m)]
      BY <3>1 DEF m
    <3> QED BY <1>3, <2>2, <3>1, <3>2
  <2> QED BY <2>1, <2>2
<1>5. u \o v = w
  BY <1>1, <1>3, <1>4, SameElements
<1> QED BY <1>5 DEF u, m

(* What is downloaded is what the WAL was.                                 *)
LEMMA RedownloadStep ==
  ASSUME PbInv, Redownload
  PROVE  PbInv'
<1>0. PbTypeOK /\ ManagerInv
  BY DEF PbInv
<1>1. /\ pbMgr = "idle" /\ Offloaded /\ pbMgr' = "present"
      /\ UNCHANGED <<pbTerm, pbCommit, pbCf, pbRemote, taskVars, pbUploaded, pbLastRemoved,
                     pbCompute, pbAux>>
  BY DEF Redownload
<1>2. PICK o \in ObjectsOf({pbUploaded}) :
        /\ Len(o.content) = Offset(pbUploaded.flush)
        /\ pbWal' = SubSeq(pbWal, 1, Len(pbWal) - Len(o.content)) \o o.content
  BY DEF Redownload
<1>3. /\ pbUploaded.flush = PbFlush /\ Good(pbUploaded) /\ pbUploaded.data = SegmentData(PbFlush)
      /\ pbTask = "none" /\ pbCompute = 0
  BY <1>1, EvictedSegment
<1>4. o.content = SegmentData(PbFlush)
  <2>1. o = [name |-> pbUploaded, content |-> pbUploaded.data]
    BY <1>2, <1>3 DEF Good
  <2>2. o.content = pbUploaded.data
    BY <2>1
  <2> QED BY <1>3, <2>2
<1>5. /\ PbFlush \in Nat /\ PbFirstLsn <= PbFlush /\ PbFirstLsn \in Nat
      /\ PbFlush = PbFirstLsn + Len(pbWal) /\ pbWal \in Seq(Nat) /\ Len(pbWal) \in Nat
  BY <1>0, FlushIsLsn DEF PbTypeOK, PbFlush
<1>6. Offset(PbFlush) \in Nat /\ Offset(PbFlush) <= PbFlush - PbFirstLsn
  BY <1>5, OffsetFits
<1> DEFINE k == Offset(PbFlush)
           v == SegmentData(PbFlush)
<1>7. v \in Seq(Nat) /\ Len(v) = k /\ \A i \in 1..k : v[i] = pbWal[PbFlush - k - PbFirstLsn + i]
  BY <1>5, SegmentDataIs
<1> HIDE DEF k, v
<1>8. k \in Nat /\ k <= Len(pbWal) /\ PbFlush - k - PbFirstLsn = Len(pbWal) - k
  BY <1>5, <1>6 DEF k
<1>9. SubSeq(pbWal, 1, Len(pbWal) - k) \o v = pbWal
  BY <1>5, <1>7, <1>8, TwoParts
<1>10. pbWal' = pbWal
  BY <1>2, <1>4, <1>7, <1>9 DEF v
<1>11. PbTypeOK'
  BY <1>0, <1>1, <1>10 DEF PbTypeOK, taskVars
<1>12. ManagerInv'
  BY <1>0, <1>1, <1>3, <1>10 DEF ManagerInv, taskVars, Offloaded, PbFlush
<1> QED BY <1>1, <1>10, <1>11, <1>12, OtherStep DEF pbAux

(* An empty list says nothing.                                             *)
LEMMA NoSegs ==
  /\ Names(<<>>) = {} /\ Uploaded(<<>>) = {} /\ UploadedNames(<<>>) = {}
  /\ UploadedSegment(<<>>) = PbNone
<1>1. Names(<<>>) = {} /\ Uploaded(<<>>) = {} /\ UploadedNames(<<>>) = {}
  BY DEF Names, Uploaded, UploadedNames
<1> QED BY <1>1 DEF UploadedSegment

(* backup_partial_reset.                                                   *)
LEMMA ResetSteps ==
  ASSUME PbInv, ResetPartial \/ ResetDelete
  PROVE  PbInv'
<1>0. PbTypeOK /\ SegsInv /\ TaskInv /\ ManagerInv /\ NoLeakedPartials
  BY DEF PbInv
<1>1. CASE ResetPartial
  <2>1. /\ pbGarbage' = pbGarbage \cup Names(pbCf.segs)
        /\ pbCf' = [pbCf EXCEPT !.segs = <<>>, !.offloaded = 0, !.commit = pbCommit]
        /\ pbTask' = "none" /\ pbState' = <<>> /\ pbUploaded' = PbNone /\ pbMgr' = "reset"
        /\ UNCHANGED <<walVars, pbRemote, pbBuf, pbCompute>>
    BY <1>1 DEF ResetPartial
  <2>2. /\ pbCf' \in [commit : Nat, segs : Seq(SegRecords), offloaded : Nat]
        /\ pbCf'.segs = <<>> /\ pbCf'.commit = pbCommit /\ pbCf'.offloaded = 0
    <3> DEFINE S == Seq(SegRecords)
    <3>1. pbCf \in [commit : Nat, segs : S, offloaded : Nat] /\ pbCommit \in Nat /\ <<>> \in S
      BY <1>0 DEF PbTypeOK
    <3> HIDE DEF S
    <3> QED BY <2>1, <3>1 DEF S
  <2>3. PbTypeOK'
    <3>1. pbState' \in Seq(SegRecords)
      BY <2>1
    <3> QED BY <1>0, <2>1, <2>2, <3>1 DEF PbTypeOK, walVars
  <2>4. SegsInv'
    BY <2>2, NoSegs DEF SegsInv
  <2>5. TaskInv' /\ ManagerInv'
    BY <2>1, <2>2, NoSegs DEF TaskInv, ManagerInv, Offloaded
  <2>6. NoLeakedPartials'
    BY <1>0, <2>1 DEF NoLeakedPartials
  <2> QED BY <2>3, <2>4, <2>5, <2>6 DEF PbInv
<1>2. CASE ResetDelete
  <2>1. /\ pbMgr = "reset" /\ pbMgr' = "idle" /\ pbRemote' \subseteq pbRemote
        /\ UNCHANGED <<walVars, pbCf, taskVars, pbUploaded, pbLastRemoved, pbCompute, pbAux>>
    BY <1>2 DEF ResetDelete
  <2>2. pbTask = "none" /\ pbCf.segs = <<>>
    BY <1>0, <2>1 DEF ManagerInv
  <2>3. PbTypeOK'
    <3>1. pbRemote' \subseteq [name : NameRecords, content : Seq(Nat)]
      BY <1>0, <2>1 DEF PbTypeOK
    <3> QED BY <1>0, <2>1, <3>1 DEF PbTypeOK, walVars, taskVars
  <2>4. SegsInv'
    BY <2>1, <2>2, NoSegs DEF SegsInv
  <2>5. TaskInv'
    BY <2>1, <2>2 DEF TaskInv, taskVars
  <2>6. ManagerInv'
    BY <1>0, <2>1 DEF ManagerInv, taskVars, walVars, Offloaded, PbFlush
  <2>7. NoLeakedPartials'
    BY <1>0, <2>1 DEF NoLeakedPartials, pbAux
  <2> QED BY <2>3, <2>4, <2>5, <2>6, <2>7 DEF PbInv
<1> QED BY <1>1, <1>2

(* A restart.                                                              *)
LEMMA PbCrashStep ==
  ASSUME PbInv, PbCrash
  PROVE  PbInv'
<1>0. PbTypeOK /\ SegsInv /\ TaskInv /\ ManagerInv /\ NoLeakedPartials
  BY DEF PbInv
<1>1. /\ pbCommit' = pbCf.commit /\ pbTask' = "none" /\ pbState' = <<>> /\ pbBuf' = <<>>
      /\ pbMgr' = "idle" /\ pbCompute' = 0 /\ pbUploaded' = UploadedSegment(pbCf.segs)
      /\ UNCHANGED <<pbWal, pbTerm, pbLocal, pbCf, pbRemote, pbGarbage>>
  BY DEF PbCrash
<1>2. PbTypeOK'
  <2>1. pbState' \in Seq(SegRecords) /\ pbBuf' \in Seq(Nat) /\ pbCommit' \in Nat
    <3>1. pbCf.commit \in Nat
      BY <1>0, PbFile
    <3>2. <<>> \in Seq(SegRecords) /\ <<>> \in Seq(Nat)
      OBVIOUS
    <3> QED BY <1>1, <3>1, <3>2
  <2> QED BY <1>0, <1>1, <2>1 DEF PbTypeOK
<1>3. SegsInv' /\ NoLeakedPartials'
  BY <1>0, <1>1, SegsFrame DEF NoLeakedPartials
<1>4. TaskInv'
  BY <1>1 DEF TaskInv
<1>5. ManagerInv'
  BY <1>0, <1>1 DEF ManagerInv, Offloaded, PbFlush
<1> QED BY <1>2, <1>3, <1>4, <1>5 DEF PbInv

(* Every step.                                                             *)
LEMMA PbSteps == PbInv /\ [PbNext]_pbVars => PbInv'
<1> SUFFICES ASSUME PbInv, [PbNext]_pbVars PROVE PbInv'
  OBVIOUS
<1>1. CASE UNCHANGED pbVars
  <2>1. PbTypeOK /\ ManagerInv
    BY DEF PbInv
  <2>2. PbTypeOK'
    BY <1>1, <2>1 DEF pbVars, PbTypeOK
  <2>3. ManagerInv'
    BY <1>1, <2>1 DEF pbVars, ManagerInv, Offloaded, PbFlush
  <2> QED BY <1>1, <2>2, <2>3, OtherStep DEF pbVars, taskVars
<1>2. CASE PbNext
  <2>1. CASE BackupTaskStep
    BY <2>1, LoopSteps, PrepareUploadStep, ReadSegmentStep, PutObjectStep, VerifyUploadStep,
       DeleteSteps, CommitGcStep DEF BackupTaskStep
  <2>2. CASE EvictionStep
    BY <2>2, LoadedSteps, SwitchSteps, ResetSteps DEF EvictionStep
  <2> QED BY <1>2, <2>1, <2>2, WalStep, LoadedSteps, SwitchSteps, LoopSteps, DeleteSteps,
             RedownloadStep, ResetSteps, PbCrashStep DEF PbNext
<1> QED BY <1>1, <1>2

(* The invariant of partial backup and eviction.                           *)
LEMMA PbInvariant == PbSpec => []PbInv
  BY PbInitial, PbSteps, PTL DEF PbSpec

(* wal_backup_partial.rs: what the control file calls uploaded is there,   *)
(* alone, and is the WAL its name stands for, although the file was read   *)
(* without a lock while computes of later terms truncated and wrote.       *)
THEOREM UploadsAreWal == PbSpec => []UploadedPartialIsWal
<1>1. PbInv => UploadedPartialIsWal
  <2> SUFFICES ASSUME PbInv, UploadedSegment(pbCf.segs) # PbNone
               PROVE  /\ \A i, j \in Uploaded(pbCf.segs) : i = j
                      /\ Good(UploadedSegment(pbCf.segs))
    BY DEF UploadedPartialIsWal, Good
  <2>1. pbCf.segs \in Seq(SegRecords) /\ SegsInv
    BY PbFile DEF PbInv
  <2> QED BY <2>1, UploadedOne DEF SegsInv
<1> QED BY <1>1, PbInvariant, PTL

(* timeline_eviction.rs: an evicted timeline can be restored exactly.      *)
THEOREM EvictedTimelines == PbSpec => []EvictedIsRestorable
<1>1. PbInv => EvictedIsRestorable
  <2> SUFFICES ASSUME PbInv, Offloaded PROVE EvictedIsRestorable
    BY DEF EvictedIsRestorable
  <2> DEFINE n == UploadedSegment(pbCf.segs)
  <2>1. /\ n # PbNone /\ n.flush = PbFlush /\ n.commit = pbCommit /\ n.term = pbTerm
        /\ pbCf.offloaded = PbFlush /\ Good(n) /\ n.data = SegmentData(PbFlush)
        /\ pbUploaded = n
    BY EvictedSegment
  <2>2. [name |-> n, content |-> SegmentData(PbFlush)] \in pbRemote
    <3> HIDE DEF n
    <3>1. [name |-> n, content |-> n.data] \in ObjectsOf({n})
      BY <2>1 DEF Good
    <3> QED BY <2>1, <3>1 DEF ObjectsOf
  <2> QED BY <2>1, <2>2 DEF EvictedIsRestorable
<1> QED BY <1>1, PbInvariant, PTL

(* wal_backup_partial.rs: no object is forgotten, whatever fails.          *)
THEOREM PartialsAreListed == PbSpec => []NoLeakedPartials
<1>1. PbInv => NoLeakedPartials
  BY DEF PbInv
<1> QED BY <1>1, PbInvariant, PTL

=============================================================================
