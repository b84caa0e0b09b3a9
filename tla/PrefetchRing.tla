---------------------------- MODULE PrefetchRing ----------------------------
(***************************************************************************)
(* The prefetch queue of one Postgres backend, pgxn/neon/communicator.c: a *)
(* ring of GetPage requests that were sent ahead, indexed by page in a     *)
(* hash table.  Responses arrive in the order of the requests.  A slot is  *)
(* found again through its ring index, but compact_prefetch_buffers moves  *)
(* received slots to other indexes, and a lost connection empties the      *)
(* queue in any CHECK_FOR_INTERRUPTS.                                      *)
(*                                                                         *)
(* The LSNs of a request are reduced to whether the page has changed since *)
(* (then neon_prefetch_response_usable refuses the response); PageCaches   *)
(* is about them.  All pages belong to one shard, and there is one block   *)
(* per call.                                                               *)
(***************************************************************************)
EXTENDS Integers, Sequences, FiniteSets, FiniteSetsExt, SequencesExt

CONSTANTS
    Tags,               \* pages
    NoTag,
    PrSizes,            \* values of neon.readahead_buffer_size, the first one in PrSize
    PrSize,
    FlushEvery,         \* neon.flush_output_after
    MaxRequests,        \* bound: requests sent
    MaxResizes          \* bound: changes of the ring's size

ASSUME PrefetchRingAssumption ==
    /\ PrSizes \subseteq Nat \ {0} /\ PrSize \in PrSizes
    /\ {FlushEvery, MaxRequests, MaxResizes} \subseteq Nat /\ FlushEvery > 0
    /\ NoTag \notin Tags

VARIABLES
    pr,                 \* MyPState: indexes, counters, slots and prf_hash
    prWire,             \* pages whose responses are still to arrive, in order
    prOp,               \* what the backend is doing
    prMoved,            \* a wait ended on a slot that holds another page by now
    prBudget            \* [requests, resizes] left

prVars == <<pr, prWire, prOp, prMoved, prBudget>>

Unused == [st |-> "UNUSED", tag |-> NoTag, stale |-> FALSE, resp |-> NoTag]

EmptyRing(n) ==
    [size |-> n, last |-> 0, receive |-> 0, flush |-> 0, unused |-> 0,
     buffered |-> 0, inflight |-> 0,
     slots |-> [i \in 0..(n - 1) |-> Unused],
     hash |-> [t \in Tags |-> -1]]

(* `why' is the call that registers a page: a prefetch, the first one of a *)
(* read or one of its loop; `goal' what is done with the slot waited for.  *)
Idle == [pc |-> "idle", tag |-> NoTag, idx |-> -1, want |-> NoTag,
         why |-> "none", goal |-> "none"]

PrInit ==
    /\ pr = EmptyRing(PrSize)
    /\ prWire = <<>>
    /\ prOp = Idle
    /\ prMoved = FALSE
    /\ prBudget = [requests |-> MaxRequests, resizes |-> MaxResizes]

Slot(p, i) == p.slots[i % p.size]

-----------------------------------------------------------------------------
(* The operations on the ring.                                             *)

CleanupTrailingUnused(p) ==
    [p EXCEPT !.last = Min({i \in p.last..p.receive :
                               i = p.receive \/ Slot(p, i).st # "UNUSED"})]

ReceiveBufferNeedsCompaction(p) ==
    p.buffered \div 8 < p.receive - p.last - p.buffered

UnusedSlots(p) == {i \in p.last..(p.receive - 1) : Slot(p, i).st = "UNUSED"}

(* The received slots below the highest unused one, in descending order    *)
(* each into the place next to the one before.                             *)
MovedSlots(p) ==
    IF UnusedSlots(p) = {} THEN {}
    ELSE (p.last..Max(UnusedSlots(p))) \ UnusedSlots(p)

(* A compaction that leaves the hash table as it was. *)
CompactedUnhashed(p) ==
    LET target(i) == i + Cardinality({j \in UnusedSlots(p) : j > i})
        at(k) == {i \in MovedSlots(p) : target(i) % p.size = k}
        left == {i % p.size : i \in MovedSlots(p)}
    IN  CleanupTrailingUnused(
            [p EXCEPT !.slots = [k \in DOMAIN p.slots |->
                IF at(k) # {} THEN Slot(p, Min(at(k)))
                ELSE IF k \in left THEN Unused ELSE p.slots[k]]])

Compacted(p) ==
    LET target(i) == i + Cardinality({j \in UnusedSlots(p) : j > i})
        at(k) == {i \in MovedSlots(p) : target(i) % p.size = k}
        left == {i % p.size : i \in MovedSlots(p)}
        holds(t) == {i \in MovedSlots(p) : Slot(p, i).tag = t}
    IN  CleanupTrailingUnused(
            [p EXCEPT
                !.slots = [k \in DOMAIN p.slots |->
                    IF at(k) # {} THEN Slot(p, Min(at(k)))
                    ELSE IF k \in left THEN Unused ELSE p.slots[k]],
                !.hash = [t \in Tags |->
                    IF holds(t) # {} THEN target(Min(holds(t))) % p.size ELSE p.hash[t]]])

(* prefetch_set_unused: of a received slot, or of one whose request was    *)
(* lost.                                                                   *)
SetUnused(p, i) ==
    LET s == Slot(p, i)
        q == [p EXCEPT !.slots[i % p.size] = Unused,
                       !.hash[s.tag] = -1,
                       !.buffered = IF s.st = "RECEIVED" THEN @ - 1 ELSE @]
    IN  IF i < p.last \/ s.st = "UNUSED" THEN p
        ELSE IF q.last = i THEN CleanupTrailingUnused(q)
        ELSE IF ReceiveBufferNeedsCompaction(q) /\ MovedSlots(q) # {} THEN Compacted(q)
        ELSE q

(* prefetch_on_ps_disconnect: every request that has no response yet.      *)
DropRequest(p, i) ==
    SetUnused([p EXCEPT !.slots[i % p.size].st = "TAG_REMAINS",
                        !.inflight = @ - 1, !.receive = @ + 1], i)

Disconnected(p) ==
    FoldLeft(DropRequest, [p EXCEPT !.flush = p.unused],
             [k \in 1..(p.unused - p.receive) |-> p.receive + k - 1])

(* prefetch_read, and one step of communicator_prefetch_pump_state.        *)
Received(p, t) ==
    [p EXCEPT !.slots[p.receive % p.size].st = "RECEIVED",
              !.slots[p.receive % p.size].resp = t,
              !.buffered = @ + 1, !.inflight = @ - 1, !.receive = @ + 1]

(* prefetch_do_request, and the flush at the end of                        *)
(* prefetch_register_bufferv.  prfh_insert keeps an entry that it finds.   *)
Requested(p, t) ==
    LET q == [p EXCEPT !.slots[p.unused % p.size] =
                            [st |-> "REQUESTED", tag |-> t, stale |-> FALSE, resp |-> NoTag],
                       !.hash[t] = IF @ = -1 THEN p.unused % p.size ELSE @,
                       !.inflight = @ + 1, !.unused = @ + 1]
    IN  IF q.unused - q.flush >= FlushEvery THEN [q EXCEPT !.flush = q.unused] ELSE q

(* The ring index of the slot at a place of the buffer (my_ring_index).    *)
RingIndex(p, k) == CHOOSE i \in p.last..(p.last + p.size - 1) : i % p.size = k

-----------------------------------------------------------------------------
(* The calls of the backend.                                               *)

Full(p) == p.last + p.size = p.unused
Compactable(p) == ReceiveBufferNeedsCompaction(p) /\ MovedSlots(p) # {}

(* prefetch_wait_for: the requests are flushed, then responses are read    *)
(* until the one of slot i is there.                                       *)
WaitFor(p, i, goal) ==
    /\ pr' = IF p.flush <= i /\ p.unused > p.flush THEN [p EXCEPT !.flush = p.unused] ELSE p
    /\ prOp' = [prOp EXCEPT !.pc = "wait", !.idx = i, !.want = Slot(p, i).tag, !.goal = goal]

(* The end of prefetch_register_bufferv: for a prefetch the call is over,  *)
(* a read looks its page up, or, when it asked again for what it had lost, *)
(* waits for the new request.                                              *)
SendRequest(p, op) ==
    LET q == Requested(p, op.tag)
    IN  /\ prBudget.requests > 0
        /\ prBudget' = [prBudget EXCEPT !.requests = @ - 1]
        /\ prWire' = Append(prWire, op.tag)
        /\ CASE op.why = "prefetch" -> prOp' = Idle /\ pr' = q
             [] op.why = "read"     -> prOp' = [op EXCEPT !.pc = "lookup"] /\ pr' = q
             [] op.why = "again"    -> /\ pr' = [q EXCEPT !.flush = q.unused]
                                       /\ prOp' = [op EXCEPT !.pc = "wait", !.goal = "use",
                                                     !.idx = p.unused, !.want = op.tag]

(* Room for it is made by compaction or by throwing the oldest response    *)
(* away, unless the oldest slot still waits for its own.                   *)
NoRoom(p) == Full(p) /\ ~Compactable(p) /\ Slot(p, p.last).st = "REQUESTED"

HasRoom(p) ==
    /\ ~NoRoom(p)
    /\ SendRequest(IF ~Full(p) THEN p
                   ELSE IF Compactable(p) THEN Compacted(p) ELSE SetUnused(p, p.last), prOp)

(* smgr prefetch of a page, or a read that finds it neither among the      *)
(* received responses nor in the file cache.                               *)
BeginPrefetch(t) ==
    /\ prOp.pc = "idle" /\ pr.hash[t] = -1
    /\ prOp' = [Idle EXCEPT !.pc = "register", !.tag = t, !.why = "prefetch"]
    /\ UNCHANGED <<pr, prWire, prMoved, prBudget>>

BeginRead(t) ==
    /\ prOp.pc = "idle"
    /\ prOp' = [Idle EXCEPT !.pc = "register", !.tag = t, !.why = "read"]
    /\ UNCHANGED <<pr, prWire, prMoved, prBudget>>

(* communicator_prefetch_lookupv: a response that is there and usable is   *)
(* taken at once.                                                          *)
LookupHit(t) ==
    /\ prOp.pc = "idle" /\ pr.hash[t] # -1
    /\ LET s == pr.slots[pr.hash[t]]
       IN  s.st = "RECEIVED" /\ ~s.stale
    /\ pr' = SetUnused(pr, RingIndex(pr, pr.hash[t]))
    /\ UNCHANGED <<prWire, prOp, prMoved, prBudget>>

(* prefetch_register_bufferv for a page that has a slot already: a read    *)
(* waits for a response it cannot use in order to discard it.              *)
RegisterFound ==
    /\ prOp.pc = "register" /\ pr.hash[prOp.tag] # -1
    /\ LET s == pr.slots[pr.hash[prOp.tag]]
           i == RingIndex(pr, pr.hash[prOp.tag])
       IN  IF prOp.why # "prefetch" /\ s.stale THEN WaitFor(pr, i, "room")
           ELSE IF prOp.why = "again" THEN WaitFor(pr, i, "use")
           ELSE /\ prOp' = IF prOp.why = "read" THEN [prOp EXCEPT !.pc = "lookup"] ELSE Idle
                /\ UNCHANGED pr
    /\ UNCHANGED <<prWire, prMoved, prBudget>>

(* ... and for one that has none, when there is room or room can be made.  *)
RegisterNew ==
    /\ prOp.pc = "register" /\ pr.hash[prOp.tag] = -1
    /\ HasRoom(pr)
    /\ UNCHANGED prMoved

RegisterFull ==
    /\ prOp.pc = "register" /\ pr.hash[prOp.tag] = -1
    /\ NoRoom(pr)
    /\ WaitFor(pr, pr.last, "room")
    /\ UNCHANGED <<prWire, prMoved, prBudget>>

(* communicator_read_at_lsnv after the first registration.                 *)
Lookup ==
    /\ prOp.pc = "lookup"
    /\ IF pr.hash[prOp.tag] = -1
       THEN prOp' = [prOp EXCEPT !.pc = "register", !.why = "again"] /\ UNCHANGED pr
       ELSE LET s == pr.slots[pr.hash[prOp.tag]]
                i == RingIndex(pr, pr.hash[prOp.tag])
            IN  IF ~s.stale THEN
                   WaitFor(pr, i, "use")
                ELSE IF s.st = "REQUESTED" THEN WaitFor(pr, i, "drop")
                ELSE /\ pr' = SetUnused(pr, i)
                     /\ prOp' = [prOp EXCEPT !.pc = "register", !.why = "again"]
    /\ UNCHANGED <<prWire, prMoved, prBudget>>

(* The loop of prefetch_wait_for: the next response is read while the      *)
(* re-entrance guard is up, then interrupts are handled.                   *)
Waiting == prOp.pc \in {"wait", "interrupts"}

ReadResponse ==
    /\ Waiting /\ pr.receive <= prOp.idx
    /\ prWire # <<>>
    /\ pr' = Received(pr, Head(prWire))
    /\ prWire' = Tail(prWire)
    /\ prOp' = [prOp EXCEPT !.pc = "interrupts"]
    /\ UNCHANGED <<prMoved, prBudget>>

(* Responses are also read, without waiting, by the interrupt handler and  *)
(* by the calls around a read or a prefetch.                               *)
PumpState ==
    /\ prOp.pc \in {"idle", "interrupts"}
    /\ pr.receive # pr.flush /\ prWire # <<>>
    /\ pr' = Received(pr, Head(prWire))
    /\ prWire' = Tail(prWire)
    /\ UNCHANGED <<prOp, prMoved, prBudget>>

(* The connection is lost, and all requests with it: noticed by the pump,  *)
(* by another request or by the flush of a registration ...                *)
Disconnect ==
    /\ prOp.pc \in {"idle", "register", "lookup", "interrupts"}
    /\ IF prOp.pc = "interrupts" THEN pr.receive < pr.flush ELSE pr.receive < pr.unused
    /\ pr' = Disconnected(pr)
    /\ prWire' = <<>>
    /\ UNCHANGED <<prOp, prMoved, prBudget>>

(* ... or by the wait itself.  Every caller then starts over.              *)
StartOver ==
    [prOp EXCEPT !.pc = IF prOp.goal = "drop" THEN "lookup" ELSE "register",
                 !.why = IF prOp.goal = "use" THEN "again" ELSE @]

ReadFails ==
    /\ Waiting /\ pr.receive <= prOp.idx
    /\ pr' = Disconnected(pr)
    /\ prWire' = <<>>
    /\ prOp' = StartOver
    /\ UNCHANGED <<prMoved, prBudget>>

(* The end of prefetch_wait_for, and what its caller does with the slot at *)
(* the ring index it waited for.                                           *)
WaitFails ==
    /\ Waiting /\ pr.receive > prOp.idx
    /\ Slot(pr, prOp.idx).st # "RECEIVED"
    /\ prOp' = StartOver
    /\ UNCHANGED <<pr, prWire, prMoved, prBudget>>

WaitEnds(goal) ==
    /\ Waiting /\ pr.receive > prOp.idx
    /\ Slot(pr, prOp.idx).st = "RECEIVED"
    /\ prOp.goal = goal
    /\ prMoved' = (prMoved \/ Slot(pr, prOp.idx).tag # prOp.want)

(* The response is the page that was asked for, or the compute panics on   *)
(* the request id and block number in it.                                  *)
UseResponse ==
    /\ WaitEnds("use")
    /\ IF Slot(pr, prOp.idx).resp # prOp.tag
       THEN prOp' = [prOp EXCEPT !.pc = "panic"] /\ UNCHANGED pr
       ELSE prOp' = Idle /\ pr' = CleanupTrailingUnused(SetUnused(pr, prOp.idx))
    /\ UNCHANGED <<prWire, prBudget>>

DropResponse ==
    /\ WaitEnds("drop")
    /\ pr' = SetUnused(pr, prOp.idx)
    /\ prOp' = [prOp EXCEPT !.pc = "register", !.why = "again"]
    /\ UNCHANGED <<prWire, prBudget>>

(* The slot of a response that cannot be used, or the oldest one, is free: *)
(* the registration goes on with a new request.                            *)
MakeRoom ==
    /\ WaitEnds("room")
    /\ LET p == SetUnused(pr, prOp.idx)
       IN  \/ HasRoom(p)
           \/ NoRoom(p) /\ WaitFor(p, p.last, "room") /\ UNCHANGED <<prWire, prBudget>>

(* Another backend changes the page: what was asked for before is too old. *)
(* Not while this backend reads it under the buffer's lock.                *)
PageChanges(t) ==
    /\ prOp.pc = "idle" \/ prOp.tag # t \/ prOp.why = "prefetch"
    /\ \E k \in DOMAIN pr.slots : pr.slots[k].tag = t /\ ~pr.slots[k].stale
    /\ pr' = [pr EXCEPT !.slots = [k \in DOMAIN @ |->
                                     IF @[k].tag = t THEN [@[k] EXCEPT !.stale = TRUE] ELSE @[k]]]
    /\ UNCHANGED <<prWire, prOp, prMoved, prBudget>>

(* readahead_buffer_resize: as many of the newest slots as fit, those that *)
(* still wait for a response among them.                                   *)
ResizedFrom(p, n) ==
    LET used == {i \in p.last..(p.unused - 1) : Slot(p, i).st # "UNUSED"}
        newer(i) == Cardinality({j \in used : j > i})
        kept == {i \in used : newer(i) < n}
        requested == {i \in kept : Slot(p, i).st = "REQUESTED"}
        at(k) == {i \in kept : n - 1 - newer(i) = k}
        holds(t) == {i \in kept : Slot(p, i).tag = t}
    IN  [size |-> n, unused |-> n,
         last |-> n - Cardinality(kept),
         receive |-> n - Cardinality(requested),
         flush |-> n - Cardinality(requested),
         buffered |-> Cardinality(kept) - Cardinality(requested),
         inflight |-> Cardinality(requested),
         slots |-> [k \in 0..(n - 1) |-> IF at(k) = {} THEN Unused ELSE Slot(p, Min(at(k)))],
         hash |-> [t \in Tags |-> IF holds(t) = {} THEN -1 ELSE n - 1 - newer(Max(holds(t)))]]

Resize(n) ==
    /\ prOp.pc = "idle" /\ n # pr.size /\ pr.inflight <= n
    /\ prBudget.resizes > 0
    /\ prBudget' = [prBudget EXCEPT !.resizes = @ - 1]
    /\ pr' = ResizedFrom(pr, n)
    /\ UNCHANGED <<prWire, prOp, prMoved>>

PrNext ==
    \/ \E t \in Tags : BeginPrefetch(t) \/ BeginRead(t) \/ LookupHit(t) \/ PageChanges(t)
    \/ RegisterFound \/ RegisterNew \/ RegisterFull \/ Lookup
    \/ ReadResponse \/ PumpState \/ Disconnect
    \/ ReadFails \/ WaitFails \/ UseResponse \/ DropResponse \/ MakeRoom
    \/ \E n \in PrSizes : Resize(n)

-----------------------------------------------------------------------------
(* Every response gets into the slot of the page it was asked for, and     *)
(* every page is found in its slot: through prefetches and reads in any    *)
(* order, discarded responses, compactions, resizes and lost connections   *)
(* the indexes keep their order, the requests in flight are those between  *)
(* ring_receive and ring_unused in the order they were sent, the counters  *)
(* that decide on compaction count, and the hash table has one entry for   *)
(* each slot in use.  (Until a wait ended on a slot that had been moved.)  *)
EveryResponseFindsItsPage ==
    prMoved \/
    LET used == {k \in DOMAIN pr.slots : pr.slots[k].st # "UNUSED"}
    IN  /\ pr.last <= pr.receive /\ pr.receive <= pr.flush
        /\ pr.flush <= pr.unused /\ pr.unused <= pr.last + pr.size
        /\ \A i \in pr.last..(pr.receive - 1) :
              Slot(pr, i).st = "UNUSED" \/ Slot(pr, i).resp = Slot(pr, i).tag
        /\ prWire = [k \in 1..(pr.unused - pr.receive) |-> Slot(pr, pr.receive + k - 1).tag]
        /\ pr.inflight = Cardinality({k \in used : pr.slots[k].st = "REQUESTED"})
        /\ pr.inflight = Len(prWire)
        /\ pr.buffered = Cardinality(used) - pr.inflight
        /\ \A k \in DOMAIN pr.slots : k \in used <=> \E t \in Tags : pr.hash[t] = k
        /\ \A t \in Tags : pr.hash[t] # -1 => pr.slots[pr.hash[t]].tag = t

(* communicator_read_at_lsnv asserts that the slot it waited for is still  *)
(* the one of the page it reads.                                           *)
ReadsItsOwnSlot == prOp.pc # "panic"
=============================================================================
