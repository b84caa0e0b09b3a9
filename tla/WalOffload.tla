----------------------------- MODULE WalOffload -----------------------------
(***************************************************************************)
(* Offloading of complete WAL segments to remote storage by the            *)
(* safekeepers of one timeline, and removal of offloaded segments from     *)
(* their disks: safekeeper/src/wal_backup.rs, remove_wal.rs and the        *)
(* manager's update_backup, update_control_file_save and                   *)
(* update_wal_removal (timeline_manager.rs).                               *)
(*                                                                         *)
(* LSNs are segment numbers: n stands for any LSN in segment n, and        *)
(* segments below n are complete.  The timeline starts in segment 1.  The  *)
(* WAL below any commit_lsn is the same everywhere (WalConsensus), so an   *)
(* object is named by its segment.  Which safekeeper is elected offloader  *)
(* depends on peer information that may be stale: several may offload.     *)
(***************************************************************************)
EXTENDS Integers, FiniteSetsExt

CONSTANTS
    WoSks,         \* the safekeepers of the timeline
    LocalStart,    \* LocalStart[s]: first segment s has (local_start_lsn)
    ParallelJobs,  \* conf.backup_parallel_jobs
    WoMaxSeg,      \* bound: segment of the last commit_lsn
    WoMaxFaults    \* bound: crashes, failed uploads and changes of offloader

ASSUME WoAssumption ==
    /\ {ParallelJobs, WoMaxSeg, WoMaxFaults} \subseteq Nat /\ ParallelJobs > 0
    /\ LocalStart \in [WoSks -> 1..WoMaxSeg]

VARIABLES
    woCommit,   \* woCommit[s]: inmem.commit_lsn
    woBackup,   \* woBackup[s]: inmem.backup_lsn
    woCf,       \* woCf[s]: commit_lsn, backup_lsn, remote_consistent_lsn in the control file
    woLocal,    \* woLocal[s]: segment files on disk
    woBumped,   \* woBumped[s]: the commit_lsn watch was sent to since boot
    woTask,     \* woTask[s]: the backup task
    woRemoval,  \* woRemoval[s]: segment up to which a removal task runs, or 0
    woLastRemoved, \* woLastRemoved[s]: last_removed_segno
    woRemote,   \* segments in remote storage
    woPs,       \* the pageserver's remote_consistent_lsn
    woFaults

woVars == <<woCommit, woBackup, woCf, woLocal, woBumped, woTask, woRemoval, woLastRemoved,
            woRemote, woPs, woFaults>>

NoTask == [run |-> FALSE, unseen |-> FALSE, retry |-> FALSE, next |-> 0, end |-> 0, done |-> {}]

WoInit ==
    /\ woCommit = LocalStart
    /\ woBackup = [s \in WoSks |-> 1]
    /\ woCf = [s \in WoSks |-> [commit |-> LocalStart[s], backup |-> 1, rcl |-> 1]]
    /\ woLocal = [s \in WoSks |-> {LocalStart[s]}]
    /\ woBumped = [s \in WoSks |-> FALSE]
    /\ woTask = [s \in WoSks |-> NoTask]
    /\ woRemoval = [s \in WoSks |-> 0] /\ woLastRemoved = [s \in WoSks |-> 0]
    /\ woRemote = {} /\ woPs = 1 /\ woFaults = 0

WoFault == woFaults < WoMaxFaults /\ woFaults' = woFaults + 1

(* commit_lsn of s reaches the next segment, which it writes.              *)
AdvanceCommit(s) ==
    /\ woCommit[s] < WoMaxSeg
    /\ woCommit' = [woCommit EXCEPT ![s] = @ + 1]
    /\ woLocal' = [woLocal EXCEPT ![s] = @ \cup {woCommit[s] + 1}]
    /\ woBumped' = [woBumped EXCEPT ![s] = TRUE]
    /\ woTask' = [woTask EXCEPT ![s].unseen = woTask[s].run]
    /\ UNCHANGED <<woBackup, woCf, woRemoval, woLastRemoved, woRemote, woPs, woFaults>>

(* The pageserver makes WAL durable in its own remote storage.             *)
PsAdvance ==
    /\ woPs < Max({woCommit[s] : s \in WoSks})
    /\ woPs' = woPs + 1
    /\ UNCHANGED <<woCommit, woBackup, woCf, woLocal, woBumped, woTask, woRemoval,
                   woLastRemoved, woRemote, woFaults>>

-----------------------------------------------------------------------------
(* The backup task. *)

(* update_task: there is something to offload and s believes that it is    *)
(* elected; only a safekeeper that has all WAL from backup_lsn on can be.  *)
(* The task gets a copy of a receiver that never saw a commit_lsn.         *)
StartOffload(s) ==
    /\ ~woTask[s].run
    /\ woCommit[s] > woBackup[s]
    /\ LocalStart[s] <= woBackup[s]
    /\ woTask' = [woTask EXCEPT ![s] = [NoTask EXCEPT !.run = TRUE, !.unseen = woBumped[s]]]
    /\ UNCHANGED <<woCommit, woBackup, woCf, woLocal, woBumped, woRemoval, woLastRemoved,
                   woRemote, woPs, woFaults>>

(* ... or stops: someone else is elected.  Requests in flight are dropped. *)
StopOffload(s) ==
    /\ WoFault
    /\ woTask[s].run
    /\ woTask' = [woTask EXCEPT ![s] = NoTask]
    /\ UNCHANGED <<woCommit, woBackup, woCf, woLocal, woBumped, woRemoval, woLastRemoved,
                   woRemote, woPs>>

(* ... or there is nothing more to offload.                                *)
FinishOffload(s) ==
    /\ woTask[s].run
    /\ woCommit[s] <= woBackup[s]
    /\ woTask' = [woTask EXCEPT ![s] = NoTask]
    /\ UNCHANGED <<woCommit, woBackup, woCf, woLocal, woBumped, woRemoval, woLastRemoved,
                   woRemote, woPs, woFaults>>

(* Mutant of WakesUp: after an error too the task waits for new WAL.       *)
WakesUpOnNewWal(t) == t.unseen

(* run waits for a new commit_lsn, or sleeps after an error.               *)
WakesUp(t) == t.unseen \/ t.retry

(* backup_lsn_range begins, from where all safekeepers have come.          *)
BeginRange(s) ==
    LET t == woTask[s]
    IN  /\ t.run /\ t.next = t.end
        /\ WakesUp(t)
        /\ woTask' = [woTask EXCEPT ![s] =
                        [t EXCEPT !.unseen = FALSE, !.retry = FALSE,
                                  !.next = woBackup[s],
                                  !.end = Max({woBackup[s], woCommit[s]})]]
        /\ UNCHANGED <<woCommit, woBackup, woCf, woLocal, woBumped, woRemoval,
                       woLastRemoved, woRemote, woPs, woFaults>>

(* The uploads that run at the same time, in the order of their segments.  *)
InFlight(t) == {g \in t.next .. t.end - 1 : g < t.next + ParallelJobs} \ t.done

(* backup_single_segment succeeds, in any order.                           *)
UploadSegment(s) ==
    \E g \in InFlight(woTask[s]) \cap woLocal[s] :
        /\ woRemote' = woRemote \cup {g}
        /\ woTask' = [woTask EXCEPT ![s].done = @ \cup {g}]
        /\ UNCHANGED <<woCommit, woBackup, woCf, woLocal, woBumped, woRemoval,
                       woLastRemoved, woPs, woFaults>>

(* Mutant of FinishedSegment: whichever upload ends first is taken.        *)
FinishedSegmentAny(t) == t.done

(* FuturesOrdered: results are taken in the order of the segments.         *)
FinishedSegment(t) == t.done \cap {t.next}

(* set_wal_backup_lsn *)
AdvanceBackup(s) ==
    LET t == woTask[s]
    IN  \E g \in FinishedSegment(t) :
            /\ woBackup' = [woBackup EXCEPT ![s] = Max({@, g + 1})]
            /\ woTask' = [woTask EXCEPT ![s] =
                            [t EXCEPT !.next = g + 1, !.done = {d \in @ : d > g},
                                      !.end = Max({@, g + 1})]]
            /\ UNCHANGED <<woCommit, woCf, woLocal, woBumped, woRemoval, woLastRemoved,
                           woRemote, woPs, woFaults>>

(* The upload at the head of the queue failed; the range is given up, and  *)
(* what finished beyond it stays in remote storage.                        *)
FailRange(s) ==
    woTask' = [woTask EXCEPT ![s] =
                 [@ EXCEPT !.next = 0, !.end = 0, !.done = {}, !.retry = TRUE]]

UploadError(s) ==
    /\ WoFault
    /\ woTask[s].next \in InFlight(woTask[s])
    /\ FailRange(s)
    /\ UNCHANGED <<woCommit, woBackup, woCf, woLocal, woBumped, woRemoval, woLastRemoved,
                   woRemote, woPs>>

(* The file is gone: a peer had offloaded it and s has removed it.         *)
SegmentMissing(s) ==
    /\ woTask[s].next \in InFlight(woTask[s]) \ woLocal[s]
    /\ FailRange(s)
    /\ UNCHANGED <<woCommit, woBackup, woCf, woLocal, woBumped, woRemoval, woLastRemoved,
                   woRemote, woPs, woFaults>>

-----------------------------------------------------------------------------
(* Peers, control file and removal. *)

Saved(s, backup) ==
    {[commit |-> woCommit[s], backup |-> backup, rcl |-> l] : l \in woCf[s].rcl .. woPs}

(* record_safekeeper_info: s learns backup_lsn of r; the control file is   *)
(* saved when it lags more than a segment.                                 *)
LearnBackup(s, r) ==
    /\ woBackup[r] > woBackup[s]
    /\ woBackup' = [woBackup EXCEPT ![s] = woBackup[r]]
    /\ IF woCf[s].backup + 1 < woBackup[r]
       THEN \E cf \in Saved(s, woBackup[r]) : woCf' = [woCf EXCEPT ![s] = cf]
       ELSE UNCHANGED woCf
    /\ UNCHANGED <<woCommit, woLocal, woBumped, woTask, woRemoval, woLastRemoved, woRemote,
                   woPs, woFaults>>

(* update_control_file_save; remote_consistent_lsn may lag the pageserver. *)
WoSaveControlFile(s) ==
    /\ woCf' \in {[woCf EXCEPT ![s] = cf] : cf \in Saved(s, woBackup[s])}
    /\ woCf' # woCf
    /\ UNCHANGED <<woCommit, woBackup, woLocal, woBumped, woTask, woRemoval, woLastRemoved,
                   woRemote, woPs, woFaults>>

(* Mutant of HorizonSegno: offloading is not waited for.                   *)
HorizonSegnoUnbacked(s) == Min({woCf[s].rcl, woCf[s].commit}) - 1

(* calc_horizon_lsn, from persisted values, and the segment before it.     *)
HorizonSegno(s) == Min({woCf[s].rcl, woCf[s].backup, woCf[s].commit}) - 1

(* update_wal_removal                                                      *)
StartRemoval(s) ==
    /\ woRemoval[s] = 0
    /\ HorizonSegno(s) > woLastRemoved[s]
    /\ woRemoval' = [woRemoval EXCEPT ![s] = HorizonSegno(s)]
    /\ UNCHANGED <<woCommit, woBackup, woCf, woLocal, woBumped, woTask, woLastRemoved,
                   woRemote, woPs, woFaults>>

(* remove_segments_from_disk deletes files in the order of the directory.  *)
RemoveSegment(s) ==
    \E g \in {h \in woLocal[s] : h <= woRemoval[s]} :
        /\ woLocal' = [woLocal EXCEPT ![s] = @ \ {g}]
        /\ UNCHANGED <<woCommit, woBackup, woCf, woBumped, woTask, woRemoval, woLastRemoved,
                       woRemote, woPs, woFaults>>

(* update_wal_removal_end                                                  *)
EndRemoval(s) ==
    /\ woRemoval[s] # 0
    /\ \A g \in woLocal[s] : g > woRemoval[s]
    /\ woLastRemoved' = [woLastRemoved EXCEPT ![s] = woRemoval[s]]
    /\ woRemoval' = [woRemoval EXCEPT ![s] = 0]
    /\ UNCHANGED <<woCommit, woBackup, woCf, woLocal, woBumped, woTask, woRemote, woPs,
                   woFaults>>

(* Restart from the control file; WAL beyond commit_lsn is still there.    *)
WoCrash(s) ==
    /\ WoFault
    /\ woCommit' = [woCommit EXCEPT ![s] = woCf[s].commit]
    /\ woBackup' = [woBackup EXCEPT ![s] = woCf[s].backup]
    /\ woBumped' = [woBumped EXCEPT ![s] = FALSE]
    /\ woTask' = [woTask EXCEPT ![s] = NoTask]
    /\ woRemoval' = [woRemoval EXCEPT ![s] = 0]
    /\ woLastRemoved' = [woLastRemoved EXCEPT ![s] = 0]
    /\ UNCHANGED <<woCf, woLocal, woRemote, woPs>>

-----------------------------------------------------------------------------
OffloadStep(s) ==
    \/ FinishOffload(s) \/ BeginRange(s) \/ UploadSegment(s) \/ AdvanceBackup(s)
    \/ SegmentMissing(s)

RemovalStep(s) == StartRemoval(s) \/ RemoveSegment(s) \/ EndRemoval(s)

HousekeepingStep(s) == WoSaveControlFile(s) \/ \E r \in WoSks : LearnBackup(s, r)

WoNext ==
    \/ PsAdvance
    \/ \E s \in WoSks :
         \/ AdvanceCommit(s) \/ StartOffload(s) \/ OffloadStep(s)
         \/ StopOffload(s) \/ UploadError(s)
         \/ RemovalStep(s) \/ HousekeepingStep(s) \/ WoCrash(s)

WoSpec == WoInit /\ [][WoNext]_woVars

(* What the tasks of the safekeepers and the pageserver do by themselves.  *)
WoProgress ==
    \/ PsAdvance
    \/ \E s \in WoSks : StartOffload(s) \/ OffloadStep(s) \/ RemovalStep(s) \/ HousekeepingStep(s)

-----------------------------------------------------------------------------
(* Properties. *)

(* backup_lsn of any safekeeper, its own or learned from a peer, in memory *)
(* or after a restart, stands for a gapless prefix of segments in remote   *)
(* storage, although segments are uploaded in parallel and finish in any   *)
(* order, uploads fail, and several safekeepers offload at once.           *)
BackupIsGapless == \A s \in WoSks : 1 .. woBackup[s] - 1 \subseteq woRemote

(* WAL that a safekeeper removed, in whole or halfway through a removal    *)
(* that a crash cut short, is in remote storage and no longer needed by    *)
(* the pageserver; and WAL from its commit_lsn on is never removed.        *)
RemovedWalIsSafe ==
    \A s \in WoSks : \A g \in LocalStart[s] .. woCommit[s] :
        g \notin woLocal[s] => g \in woRemote /\ g < woPs /\ g < woCommit[s]

(* Once all WAL is committed everywhere, it is offloaded and every         *)
(* safekeeper learns of it and removes it, whoever crashed, failed or      *)
(* stepped down before.  (A restarted safekeeper waits for a commit_lsn it *)
(* has not seen before it offloads anything.)                              *)
OffloadCatchesUp ==
    <>[](\A s \in WoSks : woBumped[s] /\ woCommit[s] = WoMaxSeg)
        => <>[](\A s \in WoSks : woBackup[s] = WoMaxSeg /\ woLocal[s] = {WoMaxSeg})

=============================================================================
