---------------------------- MODULE PartialBackup ----------------------------
(***************************************************************************)
(* Partial WAL backup and eviction of one timeline on one safekeeper:      *)
(* safekeeper/src/wal_backup_partial.rs (the task that uploads the last,   *)
(* incomplete segment), timeline_eviction.rs, and the parts of             *)
(* timeline_manager.rs and timeline.rs that start the task, remove WAL,    *)
(* evict the timeline, restore it and hand out residence guards.           *)
(*                                                                         *)
(* WAL is a sequence of records from FirstLsn on, each named by its term.  *)
(* What the consensus does to it is summed up in ComputeElected, Append    *)
(* and AdvanceCommit: truncation never cuts committed WAL and gives the    *)
(* WAL another last log term.  Segments before the last one are offloaded  *)
(* by WalOffload; here removing them only moves last_removed_segno.        *)
(***************************************************************************)
EXTENDS Integers, Sequences, SequencesExt, FiniteSets

CONSTANTS
    PbSegSize,           \* records in a segment (wal_seg_size)
    DeleteOffloadedWal,  \* conf.delete_offloaded_wal
    MaxSimultaneous,     \* MAX_SIMULTANEOUS_SEGMENTS
    PbNone,              \* no segment
    PbMaxLsn,            \* bound: end of the WAL
    PbMaxTerm,           \* bound: computes elected
    PbMaxFaults          \* bound: crashes, failed requests and manual resets

ASSUME PbAssumption ==
    /\ DeleteOffloadedWal \in BOOLEAN
    /\ {PbSegSize, MaxSimultaneous, PbMaxLsn, PbMaxTerm, PbMaxFaults} \subseteq Nat
    /\ PbSegSize > 0
    /\ PbNone \notin [term : Nat, flush : Nat, commit : Nat, data : Seq(Nat)]

VARIABLES
    pbWal,       \* the WAL, from FirstLsn on, wherever it is kept
    pbTerm,      \* last_log_term
    pbCommit,    \* inmem.commit_lsn
    pbLocal,     \* numbers of the segment files on disk
    pbCf,        \* control file: commit, segs (partial_backup), offloaded (flush LSN, or 0)
    pbRemote,    \* partial objects in remote storage, with their content
    \* the partial backup task
    pbTask,      \* what it is doing, "none" when it does not run
    pbState,     \* self.state
    pbPrepared,  \* the segment being uploaded
    pbBuf,       \* what was read from the local file so far
    \* the manager
    pbMgr,       \* what it is doing
    pbUploaded,  \* partial_backup_uploaded
    pbLastRemoved, \* last_removed_segno
    pbCompute,   \* term of the compute that holds a residence guard, or 0
    \* observers
    pbGarbage,   \* names that a reset gave up
    pbFaults

pbVars == <<pbWal, pbTerm, pbCommit, pbLocal, pbCf, pbRemote, pbTask, pbState, pbPrepared,
            pbBuf, pbMgr, pbUploaded, pbLastRemoved, pbCompute, pbGarbage, pbFaults>>

walVars == <<pbWal, pbTerm, pbCommit, pbLocal>>
taskVars == <<pbTask, pbState, pbPrepared, pbBuf>>
mgrVars == <<pbMgr, pbUploaded, pbLastRemoved, pbCompute>>
pbAux == <<pbGarbage, pbFaults>>

(* Timelines start in segment 1.                                           *)
PbFirstLsn == PbSegSize
PbFlush == PbFirstLsn + Len(pbWal)

Segno(lsn) == lsn \div PbSegSize
Offset(lsn) == lsn % PbSegSize

(* The records of the segment that ends at lsn, up to lsn.                 *)
SegmentData(lsn) ==
    SubSeq(pbWal, lsn - Offset(lsn) - PbFirstLsn + 1, lsn - PbFirstLsn)

(* remote_segment_name: term, flush and commit LSN.  data is what the      *)
(* segment held when the name was made up, kept to compare with.           *)
CurrentName == [term |-> pbTerm, flush |-> PbFlush, commit |-> pbCommit,
                data |-> SegmentData(PbFlush)]

Seg(name, status) == [name |-> name, status |-> status]
Names(segs) == {segs[i].name : i \in DOMAIN segs}
Uploaded(segs) == {i \in DOMAIN segs : segs[i].status = "Uploaded"}

(* State::uploaded_segment *)
UploadedSegment(segs) ==
    IF Uploaded(segs) = {} THEN PbNone
    ELSE segs[CHOOSE i \in Uploaded(segs) : \A j \in Uploaded(segs) : i <= j].name

ObjectsOf(names) == {o \in pbRemote : o.name \in names}

PbInit ==
    /\ pbWal = <<>> /\ pbTerm = 0 /\ pbCommit = PbFirstLsn
    /\ pbLocal = {}
    /\ pbCf = [commit |-> PbFirstLsn, segs |-> <<>>, offloaded |-> 0]
    /\ pbRemote = {}
    /\ pbTask = "none" /\ pbState = <<>> /\ pbPrepared = PbNone /\ pbBuf = <<>>
    /\ pbMgr = "idle" /\ pbUploaded = PbNone /\ pbLastRemoved = 0 /\ pbCompute = 0
    /\ pbGarbage = {} /\ pbFaults = 0

Offloaded == pbCf.offloaded # 0

Fault == pbFaults < PbMaxFaults /\ pbFaults' = pbFaults + 1

-----------------------------------------------------------------------------
(* The WAL, as the consensus changes it through a resident timeline.       *)

(* A compute holds a guard and is elected: WAL that was not committed may  *)
(* be truncated, down to whole files, and the file of the end is created.  *)
ComputeElected ==
    \E lsn \in pbCommit..PbFlush :
        /\ pbCompute # 0 /\ pbCompute > pbTerm
        /\ lsn < PbFlush \/ Segno(lsn) \notin pbLocal
        /\ pbWal' = SubSeq(pbWal, 1, lsn - PbFirstLsn)
        /\ pbTerm' = IF lsn < PbFlush THEN pbCompute ELSE pbTerm
        /\ pbLocal' = {g \in pbLocal : g <= Segno(lsn)} \cup {Segno(lsn)}
        /\ UNCHANGED <<pbCommit, pbCf, pbRemote, taskVars, mgrVars, pbAux>>

PbAppend ==
    /\ pbCompute # 0 /\ PbFlush < PbMaxLsn
    /\ pbWal' = Append(pbWal, pbCompute)
    /\ pbTerm' = pbCompute
    /\ pbLocal' = pbLocal \cup {Segno(PbFlush)}
    /\ UNCHANGED <<pbCommit, pbCf, pbRemote, taskVars, mgrVars, pbAux>>

(* From the compute or, without a guard, from a peer: only while loaded.   *)
PbAdvanceCommit ==
    /\ ~Offloaded
    /\ pbCommit < PbFlush
    /\ \E lsn \in pbCommit + 1 .. PbFlush : pbCommit' = lsn
    /\ UNCHANGED <<pbWal, pbTerm, pbLocal, pbCf, pbRemote, taskVars, mgrVars, pbAux>>

-----------------------------------------------------------------------------
(* The partial backup task. *)

(* needs_uploading; the task's own check before it returns is the same.    *)
NeedsUploading(name) ==
    ~ /\ name # PbNone
      /\ name.flush = PbFlush /\ name.commit = pbCommit /\ name.term = pbTerm

(* update_partial_backup spawns main_task, which loads the saved state.    *)
StartTask ==
    /\ pbMgr = "idle" /\ ~Offloaded
    /\ pbTask = "none"
    /\ NeedsUploading(pbUploaded)
    /\ pbTask' = "loop"
    /\ pbState' = pbCf.segs
    /\ UNCHANGED <<walVars, pbCf, pbRemote, pbPrepared, pbBuf, mgrVars, pbAux>>

(* Past the check of the number of segments at the top of the loop.        *)
MayUpload == pbTask = "wait" \/ (pbTask = "loop" /\ Len(pbState) <= MaxSimultaneous)

(* Everything is uploaded: main_task returns the segment to the manager    *)
(* (update_partial_backup_end).                                            *)
FinishTask ==
    /\ MayUpload
    /\ pbMgr = "idle"
    /\ ~NeedsUploading(UploadedSegment(pbState))
    /\ pbTask' = "none"
    /\ pbUploaded' = UploadedSegment(pbState)
    /\ pbState' = <<>>
    /\ UNCHANGED <<walVars, pbCf, pbRemote, pbPrepared, pbBuf, pbMgr, pbLastRemoved,
                   pbCompute, pbAux>>

(* commit_state: one write of the control file, which saves the in-memory  *)
(* commit LSN too.  If somebody else changed the state on disk the task    *)
(* takes that over and the operation fails.                                *)
CommitState(segs, next) ==
    IF pbCf.segs = pbState
    THEN /\ pbCf' = [pbCf EXCEPT !.segs = segs, !.commit = pbCommit]
         /\ pbState' = segs
         /\ pbTask' = next
    ELSE /\ pbState' = pbCf.segs
         /\ pbTask' = "loop"
         /\ UNCHANGED pbCf

(* do_upload is over, one way or the other.                                *)
NothingPrepared == pbPrepared' = PbNone /\ pbBuf' = <<>>

(* Mutant of StartedSegs: the upload is not announced on disk.             *)
StartedSegsUnchanged(name) == pbState

(* state_1 of do_upload.                                                   *)
StartedSegs(name) == Append(pbState, Seg(name, "InProgress"))

(* The wait is over: prepare_upload and the first write of do_upload.      *)
PrepareUpload ==
    /\ MayUpload
    /\ NeedsUploading(UploadedSegment(pbState))
    /\ pbPrepared' = CurrentName
    /\ pbBuf' = <<>>
    /\ CommitState(StartedSegs(CurrentName), "read")
    /\ UNCHANGED <<walVars, pbRemote, mgrVars, pbAux>>

(* What a reader of the file finds at a position: truncation zeroes it.    *)
RecordAt(lsn) == IF lsn < PbFlush THEN pbWal[lsn - PbFirstLsn + 1] ELSE 0

(* backup_partial_segment reads the file piece by piece, without a lock.   *)
ReadSegment ==
    LET name == pbPrepared
        at == name.flush - Offset(name.flush) + Len(pbBuf)
    IN  /\ pbTask = "read"
        /\ Segno(name.flush) \in pbLocal
        /\ at < name.flush
        /\ pbBuf' = Append(pbBuf, RecordAt(at))
        /\ UNCHANGED <<walVars, pbCf, pbRemote, pbTask, pbState, pbPrepared, mgrVars, pbAux>>

PutObject ==
    /\ pbTask = "read"
    /\ Segno(pbPrepared.flush) \in pbLocal
    /\ Len(pbBuf) = Offset(pbPrepared.flush)
    /\ pbRemote' = (pbRemote \ ObjectsOf({pbPrepared}))
                     \cup {[name |-> pbPrepared, content |-> pbBuf]}
    /\ pbTask' = "verify"
    /\ pbBuf' = <<>>
    /\ UNCHANGED <<walVars, pbCf, pbState, pbPrepared, mgrVars, pbAux>>

(* The file of a segment that nothing was written to yet, or that has been *)
(* removed meanwhile, cannot be opened.                                    *)
OpenFails ==
    /\ pbTask = "read"
    /\ Segno(pbPrepared.flush) \notin pbLocal
    /\ pbTask' = "loop" /\ NothingPrepared
    /\ UNCHANGED <<walVars, pbCf, pbRemote, pbState, mgrVars, pbAux>>

(* The request fails; the object may be there all the same.                *)
UploadFails ==
    /\ Fault
    /\ pbTask \in {"read", "verify"}
    /\ pbTask' = "loop" /\ NothingPrepared
    /\ UNCHANGED <<walVars, pbCf, pbRemote, pbState, mgrVars, pbGarbage>>

(* Mutant of StillActual: the term is not compared after the upload.       *)
StillActualUnchecked(name) == TRUE

(* upload_segment verifies that the data is still actual.                  *)
StillActual(name) == pbTerm = name.term

(* state_2 of do_upload, made from state_0, the list before this upload.   *)
ReplacedSegs(name) ==
    [i \in 1..Len(pbState) |->
        IF i = Len(pbState) THEN Seg(name, "Uploaded") ELSE Seg(pbState[i].name, "Deleting")]

VerifyUpload ==
    /\ pbTask = "verify"
    /\ StillActual(pbPrepared)
    /\ CommitState(ReplacedSegs(pbPrepared), "gc") /\ NothingPrepared
    /\ UNCHANGED <<walVars, pbRemote, mgrVars, pbAux>>

TermChanged ==
    /\ pbTask = "verify"
    /\ ~StillActual(pbPrepared)
    /\ pbTask' = "loop" /\ NothingPrepared
    /\ UNCHANGED <<walVars, pbCf, pbRemote, pbState, mgrVars, pbAux>>

(* More than MAX_SIMULTANEOUS_SEGMENTS entries after failed uploads.       *)
TooManySegments ==
    /\ pbTask = "loop"
    /\ Len(pbState) > MaxSimultaneous
    /\ pbTask' = "gcTop"
    /\ UNCHANGED <<walVars, pbCf, pbRemote, pbState, pbPrepared, pbBuf, mgrVars, pbAux>>

(* gc: all names that are not Uploaded, except the name of the Uploaded    *)
(* segment, which an earlier attempt may have used too.                    *)
NamesToDelete(segs) ==
    {segs[i].name : i \in {j \in DOMAIN segs : segs[j].status # "Uploaded"}}
        \ {UploadedSegment(segs)}

DeleteObjects ==
    /\ pbTask \in {"gc", "gcTop"}
    /\ pbRemote' = pbRemote \ ObjectsOf(NamesToDelete(pbState))
    /\ pbTask' = "gcCommit"
    /\ UNCHANGED <<walVars, pbCf, pbState, pbPrepared, pbBuf, mgrVars, pbAux>>

(* delete_objects fails, with some of the objects deleted; an error of gc  *)
(* at the top of the loop is ignored and the iteration goes on.            *)
DeleteFails ==
    /\ Fault
    /\ pbTask \in {"gc", "gcTop"}
    /\ \E S \in SUBSET ObjectsOf(NamesToDelete(pbState)) : pbRemote' = pbRemote \ S
    /\ pbTask' = IF pbTask = "gc" THEN "loop" ELSE "wait"
    /\ UNCHANGED <<walVars, pbCf, pbState, pbPrepared, pbBuf, mgrVars, pbGarbage>>

(* new_segments of gc: the Uploaded segments, in their order.              *)
Retained(segs) ==
    LET kept == Uploaded(segs)
        nth(k) == CHOOSE i \in kept : Cardinality({j \in kept : j <= i}) = k
    IN  [k \in 1..Cardinality(kept) |-> segs[nth(k)]]

CommitGc ==
    /\ pbTask = "gcCommit"
    /\ CommitState(Retained(pbState), "loop")
    /\ UNCHANGED <<walVars, pbRemote, pbPrepared, pbBuf, mgrVars, pbAux>>

-----------------------------------------------------------------------------
(* The manager: one task, which handles one event at a time. *)

(* update_control_file_save *)
PbSaveControlFile ==
    /\ pbMgr = "idle" /\ ~Offloaded
    /\ pbCf.commit # pbCommit
    /\ pbCf' = [pbCf EXCEPT !.commit = pbCommit]
    /\ UNCHANGED <<walVars, pbRemote, taskVars, mgrVars, pbAux>>

(* Mutant of RemovalHorizon: one segment more is kept.                     *)
RemovalHorizonLow == Segno(pbCf.commit) - 2

(* removal_horizon_segno when pageserver and offloading have caught up.    *)
RemovalHorizon == Segno(pbCf.commit) - 1

(* update_wal_removal and its end; the pageserver or offloading may hold   *)
(* it back to any earlier segment.                                         *)
RemoveWal ==
    /\ pbMgr = "idle" /\ ~Offloaded
    /\ \E segno \in pbLastRemoved + 1 .. RemovalHorizon :
          /\ pbLastRemoved' = segno
          /\ pbLocal' = {g \in pbLocal : g > segno}
    /\ UNCHANGED <<pbWal, pbTerm, pbCommit, pbCf, pbRemote, taskVars, pbMgr, pbUploaded,
                   pbCompute, pbAux>>

(* compare_local_segment_with_remote: a local file must have the content   *)
(* of the object and be empty after it.                                    *)
LocalMatchesRemote(name) ==
    Segno(name.flush) \in pbLocal =>
        /\ [name |-> name, content |-> SegmentData(name.flush)] \in pbRemote
        /\ PbFlush <= name.flush

(* ready_for_eviction, on a snapshot taken before.  Everything else that   *)
(* keeps the timeline active holds a guard or is a background task.        *)
ReadyForEviction ==
    /\ pbTask = "none" /\ pbCompute = 0
    /\ pbCf.commit = pbCommit
    /\ ~NeedsUploading(pbUploaded)
    /\ Segno(pbUploaded.flush) = pbLastRemoved + 1

(* evict_timeline.  If the comparison fails eviction is tried later.       *)
EvictCompare ==
    /\ pbMgr = "idle" /\ ~Offloaded
    /\ ReadyForEviction
    /\ LocalMatchesRemote(pbUploaded)
    /\ pbMgr' = "evict"
    /\ UNCHANGED <<walVars, pbCf, pbRemote, taskVars, pbUploaded, pbLastRemoved, pbCompute, pbAux>>

(* Mutant of SwitchAllowed: the snapshot is trusted.                       *)
SwitchAllowedUnchecked(name) == TRUE

(* switch_to_offloaded checks again what may have changed since.           *)
SwitchAllowed(name) == ~NeedsUploading(name)

EvictSwitch ==
    /\ pbMgr = "evict"
    /\ IF ~SwitchAllowed(pbUploaded)
       THEN pbMgr' = "idle" /\ UNCHANGED pbCf
       ELSE /\ pbCf' = [pbCf EXCEPT !.offloaded = PbFlush, !.commit = pbCommit]
            /\ pbMgr' = IF DeleteOffloadedWal THEN "delete" ELSE "idle"
    /\ UNCHANGED <<walVars, pbRemote, taskVars, pbUploaded, pbLastRemoved, pbCompute, pbAux>>

(* delete_local_segment; a missing file is only an error in the log.       *)
EvictDelete ==
    /\ pbMgr = "delete"
    /\ pbLocal' = pbLocal \ {Segno(pbUploaded.flush)}
    /\ pbMgr' = "idle"
    /\ UNCHANGED <<pbWal, pbTerm, pbCommit, pbCf, pbRemote, taskVars, pbUploaded,
                   pbLastRemoved, pbCompute, pbAux>>

(* GuardRequest of a compute on a resident timeline.                       *)
GuardRequest ==
    /\ pbMgr = "idle" /\ ~Offloaded
    /\ pbCompute = 0 /\ pbTerm < PbMaxTerm
    /\ pbCompute' = pbTerm + 1
    /\ UNCHANGED <<walVars, pbCf, pbRemote, taskVars, pbMgr, pbUploaded, pbLastRemoved, pbAux>>

GuardDrop ==
    /\ pbMgr = "idle"
    /\ pbCompute # 0
    /\ pbCompute' = 0
    /\ UNCHANGED <<walVars, pbCf, pbRemote, taskVars, pbMgr, pbUploaded, pbLastRemoved, pbAux>>

(* GuardRequest on an evicted timeline, do_uneviction: compare, download   *)
(* to a temporary file and rename it.  The WAL is now what was downloaded. *)
Redownload ==
    /\ pbMgr = "idle" /\ Offloaded
    /\ pbTerm < PbMaxTerm
    /\ pbUploaded # PbNone
    /\ LocalMatchesRemote(pbUploaded)
    /\ \E o \in ObjectsOf({pbUploaded}) :
          /\ Len(o.content) = Offset(pbUploaded.flush)
          /\ pbWal' = SubSeq(pbWal, 1, Len(pbWal) - Len(o.content)) \o o.content
    /\ pbLocal' = pbLocal \cup {Segno(pbUploaded.flush)}
    /\ pbMgr' = "present"
    /\ UNCHANGED <<pbTerm, pbCommit, pbCf, pbRemote, taskVars, pbUploaded, pbLastRemoved,
                   pbCompute, pbAux>>

(* switch_to_present opens the WAL and checks where it ends.               *)
WalEndsAsExpected == Segno(PbFlush) \in pbLocal /\ PbFlush = pbCf.offloaded

(* ... and the guard is given.                                             *)
UnevictSwitch ==
    /\ pbMgr = "present"
    /\ WalEndsAsExpected
    /\ pbCf' = [pbCf EXCEPT !.offloaded = 0]
    /\ pbCompute' = pbTerm + 1
    /\ pbMgr' = "idle"
    /\ UNCHANGED <<walVars, pbRemote, taskVars, pbUploaded, pbLastRemoved, pbAux>>

(* backup_partial_reset: switch a timeline whose segment is still local to *)
(* present, await the cancelled task, forget the segments on disk first.   *)
ResetPartial ==
    /\ Fault
    /\ pbMgr = "idle"
    /\ pbTask \in {"none", "loop", "wait"}
    /\ Offloaded => WalEndsAsExpected
    /\ pbGarbage' = pbGarbage \cup Names(pbCf.segs)
    /\ pbCf' = [pbCf EXCEPT !.segs = <<>>, !.offloaded = 0, !.commit = pbCommit]
    /\ pbTask' = "none" /\ pbState' = <<>>
    /\ pbUploaded' = PbNone
    /\ pbMgr' = "reset"
    /\ UNCHANGED <<walVars, pbRemote, pbPrepared, pbBuf, pbLastRemoved, pbCompute>>

(* ... then delete the objects; what is left after a failure is accepted.  *)
ResetDelete ==
    /\ pbMgr = "reset"
    /\ \E S \in {ObjectsOf(pbGarbage), {}} : pbRemote' = pbRemote \ S
    /\ pbMgr' = "idle"
    /\ UNCHANGED <<walVars, pbCf, taskVars, pbUploaded, pbLastRemoved, pbCompute, pbAux>>

(* Restart at any point: bootstrap_mgr reads the control file.             *)
PbCrash ==
    /\ Fault
    /\ pbCommit' = pbCf.commit
    /\ pbTask' = "none" /\ pbState' = <<>> /\ pbPrepared' = PbNone /\ pbBuf' = <<>>
    /\ pbMgr' = "idle" /\ pbCompute' = 0 /\ pbLastRemoved' = 0
    /\ pbUploaded' = UploadedSegment(pbCf.segs)
    /\ UNCHANGED <<pbWal, pbTerm, pbLocal, pbCf, pbRemote, pbGarbage>>

-----------------------------------------------------------------------------
BackupTaskStep ==
    \/ FinishTask \/ PrepareUpload \/ ReadSegment \/ PutObject \/ OpenFails
    \/ VerifyUpload \/ TermChanged \/ TooManySegments \/ DeleteObjects \/ CommitGc

EvictionStep == EvictCompare \/ EvictSwitch \/ EvictDelete \/ ResetDelete

PbNext ==
    \/ ComputeElected \/ PbAppend \/ PbAdvanceCommit
    \/ StartTask \/ BackupTaskStep \/ UploadFails \/ DeleteFails
    \/ PbSaveControlFile \/ RemoveWal
    \/ EvictionStep
    \/ GuardRequest \/ GuardDrop \/ Redownload \/ UnevictSwitch
    \/ ResetPartial \/ PbCrash

(* What the partial backup task and the manager do by themselves.          *)
PbProgress ==
    StartTask \/ BackupTaskStep \/ PbSaveControlFile \/ RemoveWal \/ EvictionStep

-----------------------------------------------------------------------------
(* Properties. *)

(* An object that the control file calls Uploaded exists, alone, and holds *)
(* exactly the WAL its name stands for, although the segment was read      *)
(* without a lock while computes came, truncated and wrote WAL, although   *)
(* names are reused after failures and although crashes, failed requests   *)
(* and garbage collection interleave with the writes of the control file.  *)
UploadedPartialIsWal ==
    LET name == UploadedSegment(pbCf.segs)
    IN  name # PbNone =>
            /\ \A i, j \in Uploaded(pbCf.segs) : i = j
            /\ ObjectsOf({name}) = {[name |-> name, content |-> name.data]}

(* The WAL of an evicted timeline can be had again, also when the eviction *)
(* was cut short by a crash or the manager restarted since: the control    *)
(* file names an object with exactly the WAL after the removed segments,   *)
(* up to the flush LSN the timeline had.                                   *)
EvictedIsRestorable ==
    Offloaded =>
        LET name == UploadedSegment(pbCf.segs)
        IN  /\ name # PbNone
            /\ name.flush = pbCf.offloaded /\ name.commit = pbCommit /\ name.term = pbTerm
            /\ [name |-> name, content |-> SegmentData(PbFlush)] \in pbRemote
            /\ pbMgr = "idle" => pbUploaded = name

(* No object is leaked: whatever fails, remote storage holds no partial    *)
(* segment the control file does not list for deletion or as uploaded,     *)
(* except what a manual reset gave up.                                     *)
NoLeakedPartials ==
    \A o \in pbRemote : o.name \in Names(pbCf.segs) \cup pbGarbage

(* Nobody needs the timeline, and there is a file of its last segment.     *)
Quiet ==
    /\ pbCompute = 0 /\ pbCommit = PbFlush
    /\ Offloaded \/ Segno(PbFlush) \in pbLocal

(* When computes have gone for good and all WAL is committed, the timeline *)
(* ends up evicted, whatever failed before: the task, the manager and WAL  *)
(* removal do not wait for each other, and a restart loses nothing that    *)
(* ready_for_eviction needs.  (When the WAL ends where a segment ends no   *)
(* file of the next segment exists and the upload cannot succeed.)         *)
EventuallyEvicted == <>[]Quiet => <>[]Offloaded

=============================================================================
