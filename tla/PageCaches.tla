----------------------------- MODULE PageCaches -----------------------------
(***************************************************************************)
(* What stands between Postgres and the pageserver of a primary compute:   *)
(* the last-written LSN cache (neon_lwlsncache.c), the local file cache    *)
(* (file_cache.c), prefetched responses (communicator.c) and the storage   *)
(* manager that consults them (pagestore_smgr.c).  One page is followed;   *)
(* its versions are the LSNs of its changes.  Other pages appear as WAL,   *)
(* and as pressure on the two caches.                                      *)
(*                                                                         *)
(* A block that is PENDING or REQUESTED in the file cache is "PENDING":    *)
(* the difference decides only who wakes the sleepers, and they wake up    *)
(* after CV_WAIT_TIMEOUT anyway.                                           *)
(***************************************************************************)
EXTENDS Integers, FiniteSets, FiniteSetsExt

CONSTANTS
    PcBackends,
    StoresPrefetch,     \* those with neon.store_prefetch_result_in_lfc
    FastTurnover,       \* the LwLSN cache may lose an entry between two locks of neon_get_lwlsn
    MaxWal,             \* bound: end of WAL
    MaxSwitches         \* bound: times the file cache is switched off

ASSUME PageCachesAssumption ==
    /\ StoresPrefetch \subseteq PcBackends
    /\ FastTurnover \in BOOLEAN
    /\ MaxWal \in Nat \ {0} /\ MaxSwitches \in Nat

VARIABLES
    walEnd, mods,       \* end of WAL, LSNs that changed the page
    buf,                \* the page's shared buffer
    lw, lwMax,          \* its entry in the LwLSN cache (0: none), maxLastWrittenLsn
    lfc,                \* its block in the file cache, generation, and whether that is enabled
    prefetched,         \* per backend, the slot of the prefetch queue that is about the page
    op                  \* per backend, where it is in the code

pcVars == <<walEnd, mods, buf, lw, lwMax, lfc, prefetched, op>>

NoSlot == [st |-> "UNUSED", nms |-> 0, v |-> 0]
AtRest == [pc |-> "idle", for |-> "none", lsn |-> 0, max |-> 0, v |-> 0, gen |-> 0, ret |-> "idle"]

PcInit ==
    /\ walEnd = 1 /\ mods = {1}
    /\ buf = [st |-> "out", v |-> 0, dirty |-> FALSE]
    /\ lw = 0 /\ lwMax = 1
    /\ lfc = [on |-> TRUE, gen |-> 0, st |-> "UNAVAILABLE", v |-> 0]
    /\ prefetched = [b \in PcBackends |-> NoSlot]
    /\ op = [b \in PcBackends |-> AtRest]

PcAt(b, pc) == op[b].pc = pc
Goto(b, o) == op' = [op EXCEPT ![b] = o]

wal == <<walEnd, mods>>
lwCache == <<lw, lwMax>>

-----------------------------------------------------------------------------
(* Postgres: the buffer manager.  Reading in and writing out keep others   *)
(* from changing the page; a page may also get a new image without being   *)
(* read.                                                                   *)

Modify ==
    /\ buf.st \in {"in", "out"}
    /\ walEnd < MaxWal
    /\ walEnd' = walEnd + 1
    /\ mods' = mods \union {walEnd + 1}
    /\ buf' = [st |-> "in", v |-> walEnd + 1, dirty |-> TRUE]
    /\ UNCHANGED <<lwCache, lfc, prefetched, op>>

ModifyOther ==
    /\ walEnd < MaxWal
    /\ walEnd' = walEnd + 1
    /\ UNCHANGED <<mods, buf, lwCache, lfc, prefetched, op>>

EvictBuffer ==
    /\ buf.st = "in" /\ ~buf.dirty
    /\ buf' = [buf EXCEPT !.st = "out", !.v = 0]
    /\ UNCHANGED <<wal, lwCache, lfc, prefetched, op>>

(* The pageserver answers a request with the last version of the page, as  *)
(* of some LSN it has ingested WAL up to: at least not_modified_since.     *)
AnswerRequest(b) ==
    /\ prefetched[b].st = "REQUESTED"
    /\ \E l \in prefetched[b].nms..walEnd :
          prefetched' = [prefetched EXCEPT ![b].st = "ANSWERED",
                                           ![b].v = Max({m \in mods : m <= l})]
    /\ UNCHANGED <<wal, buf, lwCache, lfc, op>>

-----------------------------------------------------------------------------
(* The LwLSN cache.  An entry that is set never goes back; one that has to *)
(* make room for another page's raises the maximum for all that have none. *)

SetLwLsn(l) == lw' = Max({lw, l})

LwVictim ==
    /\ lw # 0
    /\ FastTurnover \/ \A b \in PcBackends : ~PcAt(b, "storex")
    /\ lwMax' = Max({lwMax, lw}) /\ lw' = 0
    /\ UNCHANGED <<wal, buf, lfc, prefetched, op>>

OtherLwVictim ==
    /\ \E l \in (lwMax + 1)..walEnd : lwMax' = l
    /\ UNCHANGED <<wal, buf, lw, lfc, prefetched, op>>

(* A check that lets every received response through. *)
UsableAlways(b, l) == prefetched[b].st = "RECEIVED"

(* neon_prefetch_response_usable: in a primary effective_request_lsn is    *)
(* not_modified_since.                                                     *)
Usable(b, l) ==
    /\ prefetched[b].st = "RECEIVED"
    /\ l >= prefetched[b].nms
    /\ l <= prefetched[b].nms

(* Its page is copied, and put into the file cache unless that was done    *)
(* when it was received.                                                   *)
TakeResponse(b) ==
    /\ prefetched' = [prefetched EXCEPT ![b] = NoSlot]
    /\ IF b \in StoresPrefetch
       THEN /\ buf' = [st |-> "in", v |-> prefetched[b].v, dirty |-> FALSE]
            /\ Goto(b, AtRest)
       ELSE /\ Goto(b, [AtRest EXCEPT !.pc = "write", !.v = prefetched[b].v])
            /\ UNCHANGED buf

(* Otherwise the page is asked for.                                        *)
Request(b, l) ==
    prefetched' = [prefetched EXCEPT ![b] = [st |-> "REQUESTED", nms |-> l, v |-> 0]]

(* neon_get_request_lsns for a prefetch or a read: the entry is looked for *)
(* under the shared lock; if there is none, one is made with the maximum   *)
(* under the exclusive lock.  A read then looks for a response that has    *)
(* been received (communicator_prefetch_lookupv).                          *)
HasRequestLsn(b, l) ==
    \/ op[b].for = "prefetch" /\ Request(b, l) /\ Goto(b, AtRest) /\ UNCHANGED buf
    \/ op[b].for = "read" /\ Usable(b, l) /\ TakeResponse(b)
    \/ /\ op[b].for = "read" /\ ~Usable(b, l)
       /\ Goto(b, [op[b] EXCEPT !.pc = "lfcr", !.lsn = l])
       /\ UNCHANGED <<buf, prefetched>>

GetLwLsnV(b) ==
    /\ PcAt(b, "lsns")
    /\ IF lw # 0 THEN HasRequestLsn(b, lw)
       ELSE Goto(b, [op[b] EXCEPT !.pc = "lsnsx"]) /\ UNCHANGED <<buf, prefetched>>
    /\ UNCHANGED <<wal, lwCache, lfc>>

InsertLwLsnV(b) ==
    /\ PcAt(b, "lsnsx")
    /\ SetLwLsn(lwMax)
    /\ HasRequestLsn(b, lwMax)
    /\ UNCHANGED <<wal, lwMax, lfc>>

-----------------------------------------------------------------------------
(* The local file cache.  lfc_lock is held from one step to the next only  *)
(* while lfc_prefetch is in neon_get_lwlsn.                                *)

LfcLockFree == \A b \in PcBackends : ~PcAt(b, "storex")

Pinned == \E b \in PcBackends :
    op[b].pc \in {"storew", "lfcw", "lfcww", "lfcrw"} /\ op[b].gen = lfc.gen

(* Room for other chunks, and lfc_change_limit_hook that shrinks the cache.*)
EvictChunk ==
    /\ lfc.st # "UNAVAILABLE" /\ ~Pinned /\ LfcLockFree
    /\ lfc' = [lfc EXCEPT !.st = "UNAVAILABLE", !.v = 0]
    /\ UNCHANGED <<wal, buf, lwCache, prefetched, op>>

(* lfc_switch_off: the hash is emptied and the file replaced by a new one. *)
SwitchedOff == [on |-> FALSE, gen |-> lfc.gen + 1, st |-> "UNAVAILABLE", v |-> 0]

SwitchOff ==
    /\ lfc.on /\ lfc.gen < MaxSwitches /\ LfcLockFree
    /\ lfc' = SwitchedOff
    /\ UNCHANGED <<wal, buf, lwCache, prefetched, op>>

SwitchOn ==
    /\ ~lfc.on
    /\ lfc' = [lfc EXCEPT !.on = TRUE]
    /\ UNCHANGED <<wal, buf, lwCache, prefetched, op>>

(* lfc_prefetch, on behalf of the code at `ret'.                           *)
Stored(b) == Goto(b, [op[b] EXCEPT !.pc = op[b].ret, !.max = 0, !.gen = 0, !.ret = "idle"])

(* It writes unless the page has been written since the request or is      *)
(* there; or there is no room for it.                                      *)
StoreIfUnchanged(b, l) ==
    \/ Stored(b) /\ UNCHANGED lfc
    \/ /\ l <= prefetched[b].nms /\ lfc.st = "UNAVAILABLE"
       /\ lfc' = [lfc EXCEPT !.st = "PENDING"]
       /\ Goto(b, [op[b] EXCEPT !.pc = "storew", !.max = 0, !.gen = lfc.gen])

Store(b) ==
    /\ PcAt(b, "store") /\ LfcLockFree
    /\ \/ ~lfc.on /\ Stored(b) /\ UNCHANGED lfc
       \/ lfc.on /\ lw # 0 /\ StoreIfUnchanged(b, lw)
       \/ /\ lfc.on /\ lw = 0
          /\ Goto(b, [op[b] EXCEPT !.pc = "storex", !.max = lwMax])
          /\ UNCHANGED lfc
    /\ UNCHANGED <<wal, buf, lwCache, prefetched>>

(* neon_get_lwlsn inserts the maximum it read under the shared lock.       *)
StoreInsert(b) ==
    /\ PcAt(b, "storex")
    /\ SetLwLsn(op[b].max)
    /\ StoreIfUnchanged(b, Max({lw, op[b].max}))
    /\ UNCHANGED <<wal, buf, lwMax, prefetched>>

(* A write of the file, and what follows it under the lock: nothing if the *)
(* cache was switched off meanwhile, for the write went to the old file.   *)
WriteFile(b, v) ==
    lfc' = IF lfc.gen = op[b].gen THEN [lfc EXCEPT !.st = "AVAILABLE", !.v = v] ELSE lfc

StoreWrite(b) ==
    /\ PcAt(b, "storew") /\ LfcLockFree
    /\ WriteFile(b, prefetched[b].v)
    /\ Stored(b)
    /\ UNCHANGED <<wal, buf, lwCache, prefetched>>

(* lfc_write of a page being read or written, then the end of that.        *)
PageDone(b) ==
    /\ buf' = [st |-> "in", v |-> op[b].v, dirty |-> FALSE]
    /\ Goto(b, AtRest)

LfcWrite(b) ==
    /\ PcAt(b, "write") /\ LfcLockFree
    /\ \/ PageDone(b) /\ (~lfc.on \/ lfc.st = "UNAVAILABLE") /\ UNCHANGED lfc
       \/ /\ lfc.on /\ lfc.st # "PENDING"
          /\ lfc' = [lfc EXCEPT !.st = IF @ = "UNAVAILABLE" THEN "PENDING" ELSE @]
          /\ Goto(b, [op[b] EXCEPT !.pc = "lfcw", !.gen = lfc.gen])
          /\ UNCHANGED buf
       \/ /\ lfc.on /\ lfc.st = "PENDING"
          /\ Goto(b, [op[b] EXCEPT !.pc = "lfcww", !.gen = lfc.gen])
          /\ UNCHANGED <<lfc, buf>>
    /\ UNCHANGED <<wal, lwCache, prefetched>>

LfcWriteWaited(b) ==
    /\ PcAt(b, "lfcww") /\ LfcLockFree
    /\ \/ lfc.gen # op[b].gen /\ PageDone(b)
       \/ /\ lfc.gen = op[b].gen /\ lfc.st # "PENDING"
          /\ Goto(b, [op[b] EXCEPT !.pc = "lfcw"]) /\ UNCHANGED buf
    /\ UNCHANGED <<wal, lfc, lwCache, prefetched>>

LfcWritten(b) ==
    /\ PcAt(b, "lfcw") /\ LfcLockFree
    /\ WriteFile(b, op[b].v)
    /\ PageDone(b)
    /\ UNCHANGED <<wal, lwCache, prefetched>>

(* A write of the file fails: lfc_disable.                                 *)
WriteFileFails(b) ==
    /\ op[b].pc \in {"storew", "lfcw"} /\ LfcLockFree
    /\ lfc.gen < MaxSwitches
    /\ lfc' = IF lfc.on THEN SwitchedOff ELSE lfc
    /\ IF PcAt(b, "storew") THEN Stored(b) /\ UNCHANGED buf ELSE PageDone(b)
    /\ UNCHANGED <<wal, lwCache, prefetched>>

-----------------------------------------------------------------------------
(* smgr: prefetch, read and write.                                         *)

(* The caller has seen that the page is not in shared buffers.             *)
SmgrPrefetch(b) ==
    /\ PcAt(b, "idle") /\ prefetched[b] = NoSlot
    /\ buf.st = "out"
    /\ lfc.on => lfc.st = "UNAVAILABLE"
    /\ Goto(b, [AtRest EXCEPT !.pc = "lsns", !.for = "prefetch"])
    /\ UNCHANGED <<wal, buf, lwCache, lfc, prefetched>>

(* A response is received by the pump or by the wait for it.               *)
Receive(b) ==
    /\ prefetched[b].st = "ANSWERED"
    /\ op[b].pc \in {"idle", "lsns", "wait"}
    /\ prefetched' = [prefetched EXCEPT ![b].st = "RECEIVED"]
    /\ IF b \in StoresPrefetch THEN Goto(b, [op[b] EXCEPT !.pc = "store", !.ret = op[b].pc])
       ELSE UNCHANGED op
    /\ UNCHANGED <<wal, buf, lwCache, lfc>>

SmgrRead(b) ==
    /\ PcAt(b, "idle") /\ buf.st = "out"
    /\ buf' = [buf EXCEPT !.st = "reading"]
    /\ Goto(b, [AtRest EXCEPT !.pc = "lsns", !.for = "read"])
    /\ UNCHANGED <<wal, lwCache, lfc, prefetched>>

(* lfc_read: a hit, a wait for one who writes the block, or a miss, when   *)
(* communicator_read_at_lsnv waits for the response that is on its way or  *)
(* asks for one.                                                           *)
Hit(b) ==
    /\ buf' = [st |-> "in", v |-> lfc.v, dirty |-> FALSE]
    /\ Goto(b, AtRest)
    /\ UNCHANGED prefetched

Miss(b) ==
    /\ IF prefetched[b].st \in {"UNUSED", "RECEIVED"} THEN Request(b, op[b].lsn)
       ELSE UNCHANGED prefetched
    /\ Goto(b, [op[b] EXCEPT !.pc = "wait", !.gen = 0])
    /\ UNCHANGED buf

LfcRead(b) ==
    /\ PcAt(b, "lfcr") /\ LfcLockFree
    /\ \/ lfc.on /\ lfc.st = "AVAILABLE" /\ Hit(b)
       \/ /\ lfc.on /\ lfc.st = "PENDING"
          /\ Goto(b, [op[b] EXCEPT !.pc = "lfcrw", !.gen = lfc.gen])
          /\ UNCHANGED <<buf, prefetched>>
       \/ (lfc.on => lfc.st = "UNAVAILABLE") /\ Miss(b)
    /\ UNCHANGED <<wal, lwCache, lfc>>

LfcReadWaited(b) ==
    /\ PcAt(b, "lfcrw") /\ LfcLockFree
    /\ \/ lfc.gen = op[b].gen /\ lfc.st = "AVAILABLE" /\ Hit(b)
       \/ lfc.gen # op[b].gen /\ Miss(b)
    /\ UNCHANGED <<wal, lwCache, lfc>>

(* The response is there.  One that cannot be used, to an earlier          *)
(* prefetch, is discarded and the page asked for again.                    *)
ReadAtLsn(b) ==
    /\ PcAt(b, "wait") /\ prefetched[b].st = "RECEIVED"
    /\ \/ Usable(b, op[b].lsn) /\ TakeResponse(b)
       \/ ~Usable(b, op[b].lsn) /\ Request(b, op[b].lsn) /\ UNCHANGED <<buf, op>>
    /\ UNCHANGED <<wal, lwCache, lfc>>

(* The connection is lost: prefetch_on_ps_disconnect, and a backend that   *)
(* waits asks again.                                                       *)
LoseConnection(b) ==
    /\ prefetched[b].st \in {"REQUESTED", "ANSWERED"}
    /\ \/ PcAt(b, "idle") /\ prefetched' = [prefetched EXCEPT ![b] = NoSlot]
       \/ PcAt(b, "wait") /\ Request(b, op[b].lsn)
    /\ UNCHANGED <<wal, buf, lwCache, lfc, op>>

(* neon_write: first the LwLSN, then the file cache.                       *)
WalLogPage(b) ==
    /\ PcAt(b, "idle")
    /\ buf.st = "in" /\ buf.dirty
    /\ buf' = [buf EXCEPT !.st = "writing"]
    /\ SetLwLsn(buf.v)
    /\ Goto(b, [AtRest EXCEPT !.pc = "write", !.v = buf.v])
    /\ UNCHANGED <<wal, lwMax, lfc, prefetched>>

PcNext ==
    \/ Modify \/ ModifyOther \/ EvictBuffer
    \/ LwVictim \/ OtherLwVictim \/ EvictChunk \/ SwitchOff \/ SwitchOn
    \/ \E b \in PcBackends :
          \/ AnswerRequest(b) \/ LoseConnection(b)
          \/ GetLwLsnV(b) \/ InsertLwLsnV(b)
          \/ Store(b) \/ StoreInsert(b) \/ StoreWrite(b)
          \/ LfcWrite(b) \/ LfcWriteWaited(b) \/ LfcWritten(b) \/ WriteFileFails(b)
          \/ SmgrPrefetch(b) \/ Receive(b) \/ SmgrRead(b)
          \/ LfcRead(b) \/ LfcReadWaited(b) \/ ReadAtLsn(b)
          \/ WalLogPage(b)

-----------------------------------------------------------------------------
(* The page in shared buffers is the last version of it, whichever of the  *)
(* caches or responses it was read from, however old the request was, and  *)
(* whoever wrote, prefetched or evicted it meanwhile.                      *)
ReadsAreFresh == buf.st \in {"in", "writing"} => buf.v = Max(mods)
=============================================================================
