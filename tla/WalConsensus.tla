---------------------------- MODULE WalConsensus ----------------------------
(***************************************************************************)
(* The WAL consensus of Neon: walproposers (inside computes) replicate the *)
(* WAL of one timeline to a fixed set of safekeepers.  Translated from     *)
(* pgxn/neon/walproposer.c (the proposer) and safekeeper/src/safekeeper.rs,*)
(* state.rs, receive_wal.rs, wal_storage.rs and timeline.rs (safekeepers). *)
(*                                                                         *)
(* A proposer p is one run of a walproposer process: it campaigns in one   *)
(* term in its life and ends with FATAL, PANIC or a crash.  Restarting the *)
(* process is another element of Proposers.                                *)
(*                                                                         *)
(* A connection is a FIFO queue of messages to the safekeeper, where one   *)
(* WalAcceptor task per connection handles them in order.  When the        *)
(* proposer gives a connection up, what it had sent may still be handled   *)
(* later ("late"), interleaved with the connection that replaced it.       *)
(*                                                                         *)
(* Messages carry whole records.  A safekeeper also makes WAL durable when *)
(* an append completes a segment: to the proposer and to a crash that is a *)
(* shorter append followed by a flush, which is a behaviour of the model.  *)
(* Membership generations are not modelled: the legacy mode of the code,   *)
(* where the safekeepers of a timeline never change.                       *)
(***************************************************************************)
EXTENDS TermHistory, FiniteSets

CONSTANTS
    Safekeepers,     \* the safekeepers of the timeline
    Proposers,       \* runs of walproposer processes
    None,            \* no donor, no message
    BrokerUp,        \* safekeepers hear of each other through the broker
    CreatedWithLsn,  \* timelines created with a start LSN, or empty (legacy)
    LateDelivery,    \* what was sent on an abandoned connection may still arrive
    WalSegSize,      \* records in a WAL segment
    MaxSendSize,     \* records in one AppendRequest (MAX_SEND_SIZE)
    MaxAlive,        \* bound: proposers that run at the same time
    MaxLinks,        \* bound: MaxLinks[p], connections p has at a time
    MaxReplies,      \* bound: replies not read yet, over all connections
    QueueCap,        \* bound: messages in flight on one connection
    MaxBusy,         \* bound: connections of a proposer with messages in flight
    MaxTerm,         \* bound: terms
    MaxLsn,          \* bound: end of the WAL
    MaxFaults        \* bound: crashes, disconnections and manual term bumps

ASSUME ConstantsAssumption ==
    /\ IsFiniteSet(Safekeepers) /\ Safekeepers # {}
    /\ None \notin Safekeepers
    /\ {BrokerUp, CreatedWithLsn, LateDelivery} \subseteq BOOLEAN
    /\ MaxLinks \in [Proposers -> Nat]
    /\ {WalSegSize, MaxSendSize, MaxAlive, MaxReplies, QueueCap, MaxBusy,
        MaxTerm, MaxLsn, MaxFaults} \subseteq Nat
    /\ MaxLsn > 0

VARIABLES
    \* a safekeeper; term and hist are in the control file (AcceptorState)
    term,         \* term[s]: last term s voted for or was elected a leader in
    hist,         \* hist[s]: term history, may go beyond the WAL
    wal,          \* wal[s]: records written, each named by its writer's term and its LSN
    flushLsn,     \* flushLsn[s]: end of the durable WAL, 0 before initialisation
    truncPending, \* truncPending[s]: pending_wal_truncation, set on boot
    memCommit,    \* memCommit[s]: inmem.commit_lsn
    cfCommit,     \* cfCommit[s]: commit_lsn of the control file
    memHorizon,   \* memHorizon[s]: inmem.peer_horizon_lsn
    cfHorizon,    \* cfHorizon[s]: peer_horizon_lsn of the control file
    \* a proposer
    wpState,      \* wpState[p]: WPS_* state, or "DEAD"
    propTerm,     \* propTerm[p]: the term p campaigns in
    nConnected,   \* nConnected[p]: greetings counted by n_connected
    donor,        \* donor[p]: safekeeper that gave the highest vote
    propHist,     \* propHist[p]: propTermHistory
    propWal,      \* propWal[p]: WAL p can send, up to availableLsn
    propCommit,   \* propCommit[p]: commitLsn
    propTruncate, \* propTruncate[p]: truncateLsn
    \* the proposer's side of its connection to a safekeeper
    skState,      \* skState[p][s]: SS_* state
    vote,         \* vote[p][s]: voteResponse
    ack,          \* ack[p][s]: appendResponse.flushLsn, kept across reconnections
    streamingAt,  \* streamingAt[p][s]: next LSN to send
    \* the network
    q,            \* q[k][p][s]: messages to s on connection k
    dirty,        \* dirty[k][p][s]: WalAcceptor has appends not flushed yet
    rsp,          \* rsp[p][s]: last reply not read by p yet
    peerInfo,     \* the SafekeeperTimelineInfo on its way through the broker
    \* observers
    grantedTo,    \* grantedTo[p]: safekeepers that gave p their vote
    ackedLog,     \* WAL acknowledged to clients as committed
    faults        \* failures so far

skVars   == <<term, hist, wal, flushLsn, truncPending, memCommit, cfCommit,
              memHorizon, cfHorizon>>
wpVars   == <<wpState, propTerm, nConnected, donor, propHist, propWal,
              propCommit, propTruncate>>
linkVars == <<skState, vote, ack, streamingAt>>
netVars  == <<q, dirty, rsp>>
auxVars  == <<grantedTo, ackedLog, faults>>
vars     == <<skVars, wpVars, linkVars, netVars, peerInfo, auxVars>>

Chan == {"live", "late"}

Quorum == Cardinality(Safekeepers) \div 2 + 1

HasQuorum(S) == Cardinality(S) >= Quorum

(* The redo LSN of the first basebackup, where the timeline begins. *)
FirstLsn == 1

VoteRequestMsg == [type |-> "vote", lo |-> 0, hi |-> 0, commit |-> 0, horizon |-> 0]
ElectedMsg(start) ==
    [type |-> "elected", lo |-> start, hi |-> start, commit |-> 0, horizon |-> 0]
AppendMsg(lo, hi, c, h) ==
    [type |-> "append", lo |-> lo, hi |-> hi, commit |-> c, horizon |-> h]
VoteResponse(t, given, flush, horizon, th, w) ==
    [type |-> "vote", term |-> t, given |-> given, flush |-> flush,
     horizon |-> horizon, hist |-> th, wal |-> w]
AppendResponse(t, flush) == [type |-> "ack", term |-> t, flush |-> flush]

Init ==
    /\ term = [s \in Safekeepers |-> 0]
    /\ hist = [s \in Safekeepers |->
                 IF CreatedWithLsn THEN <<TermLsn(0, FirstLsn)>> ELSE <<>>]
    /\ wal = [s \in Safekeepers |-> <<>>]
    /\ LET lsn == [s \in Safekeepers |-> IF CreatedWithLsn THEN FirstLsn ELSE 0]
       IN  /\ flushLsn = lsn
           /\ memCommit = lsn /\ cfCommit = lsn
           /\ memHorizon = lsn /\ cfHorizon = lsn
    /\ truncPending = [s \in Safekeepers |-> TRUE]
    /\ wpState = [p \in Proposers |-> "COLLECTING_TERMS"]
    /\ propTerm = [p \in Proposers |-> 0]
    /\ nConnected = [p \in Proposers |-> 0]
    /\ donor = [p \in Proposers |-> None]
    /\ propHist = [p \in Proposers |-> <<>>]
    /\ propWal = [p \in Proposers |-> <<>>]
    /\ propCommit = [p \in Proposers |-> 0]
    /\ propTruncate = [p \in Proposers |-> 0]
    /\ skState = [p \in Proposers |-> [s \in Safekeepers |-> "OFFLINE"]]
    /\ vote = [p \in Proposers |-> [s \in Safekeepers |-> None]]
    /\ ack = [p \in Proposers |-> [s \in Safekeepers |-> 0]]
    /\ streamingAt = [p \in Proposers |-> [s \in Safekeepers |-> 0]]
    /\ q = [k \in Chan |-> [p \in Proposers |-> [s \in Safekeepers |-> <<>>]]]
    /\ dirty = [k \in Chan |-> [p \in Proposers |-> [s \in Safekeepers |-> FALSE]]]
    /\ rsp = [p \in Proposers |-> [s \in Safekeepers |-> None]]
    /\ peerInfo = None
    /\ grantedTo = [p \in Proposers |-> {}]
    /\ ackedLog = <<>>
    /\ faults = 0

-----------------------------------------------------------------------------
(* Connections. *)

(* ShutdownConnection by the proposer for the links in L: the messages it  *)
(* had sent stay with the safekeeper's WalAcceptor (at most one abandoned  *)
(* connection per link is kept), its replies are lost.                     *)
ShutdownConnection(L) ==
    LET kept(p, s) == LateDelivery /\ (q["live"][p][s] # <<>> \/ dirty["live"][p][s])
    IN  /\ skState' = [p \in Proposers |-> [s \in Safekeepers |->
                         IF <<p, s>> \in L THEN "OFFLINE" ELSE skState[p][s]]]
        /\ streamingAt' = [p \in Proposers |-> [s \in Safekeepers |->
                         IF <<p, s>> \in L THEN 0 ELSE streamingAt[p][s]]]
        /\ rsp' = [p \in Proposers |-> [s \in Safekeepers |->
                         IF <<p, s>> \in L THEN None ELSE rsp[p][s]]]
        /\ q' = [k \in Chan |-> [p \in Proposers |-> [s \in Safekeepers |->
                         IF <<p, s>> \notin L THEN q[k][p][s]
                         ELSE IF k = "live" THEN <<>>
                         ELSE IF kept(p, s) THEN q["live"][p][s] ELSE q["late"][p][s]]]]
        /\ dirty' = [k \in Chan |-> [p \in Proposers |-> [s \in Safekeepers |->
                         IF <<p, s>> \notin L THEN dirty[k][p][s]
                         ELSE IF k = "live" THEN FALSE
                         ELSE IF kept(p, s) THEN dirty["live"][p][s] ELSE dirty["late"][p][s]]]]

(* The proposer process ends: wp_log(FATAL), PANIC or a crash.  What it    *)
(* wrote in its term stays in propHist and propWal for messages in flight. *)
Fatal(p) ==
    /\ wpState' = [wpState EXCEPT ![p] = "DEAD"]
    /\ nConnected' = [nConnected EXCEPT ![p] = 0]
    /\ donor' = [donor EXCEPT ![p] = None]
    /\ propCommit' = [propCommit EXCEPT ![p] = 0]
    /\ propTruncate' = [propTruncate EXCEPT ![p] = 0]
    /\ vote' = [vote EXCEPT ![p] = [s \in Safekeepers |-> None]]
    /\ ack' = [ack EXCEPT ![p] = [s \in Safekeepers |-> 0]]
    /\ ShutdownConnection({p} \X Safekeepers)
    /\ UNCHANGED <<propTerm, propHist, propWal>>

(* Mutant of CloseOnError: the proposer does not notice.                   *)
CloseOnErrorUnnoticed(k, p, s) ==
    /\ q' = [q EXCEPT ![k][p][s] = <<>>]
    /\ dirty' = [dirty EXCEPT ![k][p][s] = FALSE]
    /\ UNCHANGED <<rsp, linkVars>>

(* process_msg returned an error: WalAcceptor ends without a flush and the *)
(* connection is closed, with everything still queued on it.               *)
CloseOnError(k, p, s) ==
    /\ q' = [q EXCEPT ![k][p][s] = <<>>]
    /\ dirty' = [dirty EXCEPT ![k][p][s] = FALSE]
    /\ IF k = "live"
       THEN /\ skState' = [skState EXCEPT ![p][s] = "OFFLINE"]
            /\ streamingAt' = [streamingAt EXCEPT ![p][s] = 0]
            /\ rsp' = [rsp EXCEPT ![p][s] = None]
       ELSE UNCHANGED <<skState, streamingAt, rsp>>
    /\ UNCHANGED <<vote, ack>>

(* WalAcceptor takes the next message of its connection. *)
Received(k, p, s, type) ==
    /\ q[k][p][s] # <<>>
    /\ Head(q[k][p][s]).type = type

Consume(k, p, s) == q' = [q EXCEPT ![k][p][s] = Tail(@)]

(* A reply; a newer AppendResponse supersedes an unread older one.         *)
Unread == {l \in Proposers \X Safekeepers : rsp[l[1]][l[2]] # None}

Reply(k, p, s, r) ==
    IF k = "live"
    THEN /\ Cardinality(Unread \cup {<<p, s>>}) <= MaxReplies
         /\ rsp' = [rsp EXCEPT ![p][s] = r]
    ELSE UNCHANGED rsp

-----------------------------------------------------------------------------
(* Safekeeper. *)

(* wal_store.write_lsn: 0 until the first ProposerElected initialises it.  *)
WriteLsn(s) == IF flushLsn[s] = 0 THEN 0 ELSE Len(wal[s]) + 1

(* term_start_lsn is cached by handle_elected and is 0 after a boot.       *)
TermStartLsn(s) == IF truncPending[s] \/ hist[s] = <<>> THEN 0 ELSE hist[s][Len(hist[s])].lsn

(* start_change + finish_change when only term or WAL positions change:    *)
(* every save of the control file also saves the in-memory LSNs.           *)
PersistInmem(s) ==
    /\ cfCommit' = [cfCommit EXCEPT ![s] = memCommit[s]]
    /\ cfHorizon' = [cfHorizon EXCEPT ![s] = memHorizon[s]]

(* Mutants of UpdatedCommitLsn: not limited by the flushed WAL, one record *)
(* too far, and not protected against an older commit LSN.                 *)
UpdatedCommitLsnUncapped(s, candidate, flush) == Higher(candidate, memCommit[s])

UpdatedCommitLsnPastEnd(s, candidate, flush) ==
    Lower(Higher(candidate, memCommit[s]), flush) + 1

UpdatedCommitLsnBackward(s, candidate, flush) == Lower(candidate, flush)

(* update_commit_lsn, given the flushed end of the WAL.                    *)
UpdatedCommitLsn(s, candidate, flush) == Lower(Higher(candidate, memCommit[s]), flush)

ReachesTermStart(s, commit) ==
    commit >= TermStartLsn(s) /\ cfCommit[s] < TermStartLsn(s)

(* Mutant of FlushWal: written WAL is reported without fsync.              *)
FlushWalSkipped(s) == UNCHANGED flushLsn

(* flush_wal: everything written becomes durable.                          *)
FlushWal(s) == flushLsn' = [flushLsn EXCEPT ![s] = WriteLsn(s)]

(* Mutant of VoteGranted: a second proposer gets the vote of the same term.*)
VoteGrantedAgain(p, s) == term[s] <= propTerm[p]

(* A vote is given once per term.                                          *)
VoteGranted(p, s) == term[s] < propTerm[p]

(* handle_vote_request: flush, then vote if the term is new; the vote is   *)
(* persisted before it is sent.                                            *)
HandleVoteRequest(k, p, s) ==
    LET granted == VoteGranted(p, s)
        flushed == WriteLsn(s)
        newTerm == IF granted THEN propTerm[p] ELSE term[s]
    IN  /\ Received(k, p, s, "vote")
        /\ Consume(k, p, s)
        /\ FlushWal(s)
        /\ term' = [term EXCEPT ![s] = newTerm]
        /\ IF granted
           THEN /\ PersistInmem(s)
                /\ grantedTo' = [grantedTo EXCEPT ![p] = @ \cup {s}]
           ELSE UNCHANGED <<cfCommit, cfHorizon, grantedTo>>
        /\ Reply(k, p, s, VoteResponse(newTerm, granted, flushed, memHorizon[s],
                                       UpTo(hist[s], flushed), wal[s]))
        /\ UNCHANGED <<hist, wal, truncPending, memCommit, memHorizon, wpVars,
                       linkVars, dirty, peerInfo, ackedLog, faults>>

(* The divergence point that handle_elected expects.                       *)
ExpectedStart(p, s) ==
    LET lcp == FindHighestCommonPoint(propHist[p], UpTo(hist[s], flushLsn[s]), flushLsn[s])
    IN  IF lcp = 0 THEN propHist[p][1].lsn ELSE lcp

(* What handle_elected asserts not to happen: a panic of WalAcceptor, which *)
(* ends it as an error does.                                               *)
TruncatesCommitted(s, start) == start < memCommit[s]

(* Mutant of ElectedRefused: only the hole is an error.                    *)
ElectedRefusedHoleOnly(p, s, start) == WriteLsn(s) # 0 /\ start > WriteLsn(s)

(* handle_elected refuses the message, panics, or truncate_wal would make  *)
(* a hole.                                                                 *)
ElectedRefused(p, s, start) ==
    \/ start # ExpectedStart(p, s)
    \/ TruncatesCommitted(s, start)
    \/ WriteLsn(s) # 0 /\ start > WriteLsn(s)

(* handle_elected of a message that is not ignored raises the term first,  *)
(* in a control file write of its own.                                     *)
RaiseTerm(p, s) ==
    /\ term' = [term EXCEPT ![s] = propTerm[p]]
    /\ IF term[s] < propTerm[p] THEN PersistInmem(s) ELSE UNCHANGED <<cfCommit, cfHorizon>>

(* Mutant of FromOldTerm: the term of ProposerElected is not compared.     *)
FromOldTermNever(p, s) == FALSE

(* A ProposerElected of an older term is dropped.                          *)
FromOldTerm(p, s) == term[s] > propTerm[p]

IgnoreElected(k, p, s) ==
    /\ Received(k, p, s, "elected")
    /\ FromOldTerm(p, s)
    /\ Consume(k, p, s)
    /\ UNCHANGED <<skVars, wpVars, linkVars, dirty, rsp, peerInfo, auxVars>>

RefuseElected(k, p, s) ==
    /\ Received(k, p, s, "elected")
    /\ ~FromOldTerm(p, s)
    /\ ElectedRefused(p, s, Head(q[k][p][s]).lo)
    /\ RaiseTerm(p, s)
    /\ CloseOnError(k, p, s)
    /\ UNCHANGED <<hist, wal, flushLsn, truncPending, memCommit, memHorizon,
                   wpVars, peerInfo, auxVars>>

(* Mutant of TruncateWal: the positions move but the WAL stays on disk.    *)
TruncateWalPositionsOnly(s, start) ==
    /\ flushLsn' = [flushLsn EXCEPT ![s] = start]
    /\ truncPending' = [truncPending EXCEPT ![s] = FALSE]
    /\ UNCHANGED wal

(* truncate_wal: drop everything from start on; the positions become known.*)
TruncateWal(s, start) ==
    /\ wal' = [wal EXCEPT ![s] = Below(@, start)]
    /\ flushLsn' = [flushLsn EXCEPT ![s] = start]
    /\ truncPending' = [truncPending EXCEPT ![s] = FALSE]

(* handle_elected, accepted: truncate the WAL, then adopt the history in   *)
(* one control file write.                                                 *)
HandleElected(k, p, s) ==
    LET start == Head(q[k][p][s]).lo
        timelineStart == propHist[p][1].lsn
        commit == Higher(memCommit[s], timelineStart)
        horizon == IF memHorizon[s] = 0 THEN timelineStart ELSE memHorizon[s]
    IN  /\ Received(k, p, s, "elected")
        /\ ~FromOldTerm(p, s)
        /\ ~ElectedRefused(p, s, start)
        /\ Consume(k, p, s)
        /\ term' = [term EXCEPT ![s] = propTerm[p]]
        /\ TruncateWal(s, start)
        /\ hist' = [hist EXCEPT ![s] = propHist[p]]
        /\ memCommit' = [memCommit EXCEPT ![s] = commit]
        /\ cfCommit' = [cfCommit EXCEPT ![s] = commit]
        /\ memHorizon' = [memHorizon EXCEPT ![s] = horizon]
        /\ cfHorizon' = [cfHorizon EXCEPT ![s] = horizon]
        /\ UNCHANGED <<wpVars, linkVars, dirty, rsp, peerInfo, auxVars>>

(* Mutant of AppendRefused: WAL that is already there is accepted again.   *)
AppendRefusedHoleOnly(p, s, m) ==
    \/ term[s] < propTerm[p]
    \/ WriteLsn(s) < m.lo /\ WriteLsn(s) # 0
    \/ truncPending[s] /\ m.hi > m.lo

(* handle_append_request: the request is not at the end of the WAL, comes  *)
(* before ProposerElected, or would write over a pending truncation.       *)
AppendRefused(p, s, m) ==
    \/ term[s] < propTerm[p]
    \/ WriteLsn(s) > m.lo
    \/ WriteLsn(s) < m.lo /\ WriteLsn(s) # 0
    \/ truncPending[s] /\ m.hi > m.lo

RefuseAppend(k, p, s) ==
    /\ Received(k, p, s, "append")
    /\ term[s] <= propTerm[p]
    /\ AppendRefused(p, s, Head(q[k][p][s]))
    /\ CloseOnError(k, p, s)
    /\ UNCHANGED <<skVars, wpVars, peerInfo, auxVars>>

(* A proposer of an older term gets a reply that only carries the term.    *)
AppendOfOldTerm(k, p, s) ==
    /\ Received(k, p, s, "append")
    /\ term[s] > propTerm[p]
    /\ Consume(k, p, s)
    /\ dirty' = [dirty EXCEPT ![k][p][s] = TRUE]
    /\ Reply(k, p, s, AppendResponse(term[s], 0))
    /\ UNCHANGED <<skVars, wpVars, linkVars, peerInfo, auxVars>>

HandleAppendRequest(k, p, s) ==
    LET m == Head(q[k][p][s])
        commit == IF m.commit = 0 THEN memCommit[s]
                  ELSE UpdatedCommitLsn(s, m.commit, flushLsn[s])
    IN  /\ Received(k, p, s, "append")
        /\ term[s] = propTerm[p]
        /\ ~AppendRefused(p, s, m)
        /\ Consume(k, p, s)
        /\ wal' = [wal EXCEPT ![s] = @ \o SubSeq(propWal[p], m.lo, m.hi - 1)]
        /\ memCommit' = [memCommit EXCEPT ![s] = commit]
        /\ IF m.commit # 0 /\ ReachesTermStart(s, commit)
           THEN /\ cfCommit' = [cfCommit EXCEPT ![s] = commit]
                /\ cfHorizon' = [cfHorizon EXCEPT ![s] = memHorizon[s]]
           ELSE UNCHANGED <<cfCommit, cfHorizon>>
        /\ memHorizon' = [memHorizon EXCEPT ![s] = Higher(@, m.horizon)]
        /\ dirty' = [dirty EXCEPT ![k][p][s] = TRUE]
        /\ UNCHANGED <<term, hist, flushLsn, truncPending, wpVars, linkVars, rsp,
                       peerInfo, auxVars>>

(* handle_flush, sent by WalAcceptor to itself on its ticker, when its     *)
(* queue is empty, and when the connection ended.                          *)
HandleFlush(k, p, s) ==
    /\ dirty[k][p][s]
    /\ FlushWal(s)
    /\ dirty' = [dirty EXCEPT ![k][p][s] = FALSE]
    /\ Reply(k, p, s, AppendResponse(term[s], WriteLsn(s)))
    /\ UNCHANGED <<term, hist, wal, truncPending, memCommit, cfCommit, memHorizon,
                   cfHorizon, wpVars, linkVars, q, peerInfo, auxVars>>

(* update_control_file_save of the timeline manager.  Only a restart reads *)
(* the control file, so saves are left out once no more crash can happen.  *)
SaveControlFile(s) ==
    /\ faults < MaxFaults
    /\ <<memCommit[s], memHorizon[s]>> # <<cfCommit[s], cfHorizon[s]>>
    /\ PersistInmem(s)
    /\ UNCHANGED <<term, hist, wal, flushLsn, truncPending, memCommit, memHorizon,
                   wpVars, linkVars, netVars, peerInfo, auxVars>>

(* The term_bump endpoint.                                                 *)
TermBump(s) ==
    /\ faults < MaxFaults /\ term[s] < MaxTerm
    /\ term' = [term EXCEPT ![s] = @ + 1]
    /\ PersistInmem(s)
    /\ faults' = faults + 1
    /\ UNCHANGED <<hist, wal, flushLsn, truncPending, memCommit, memHorizon, wpVars,
                   linkVars, netVars, peerInfo, grantedTo, ackedLog>>

(* Restart with control file LSNs commit and horizon and WAL w on disk:    *)
(* PhysicalStorage::new and TimelineState::new; every connection is gone.  *)
Boot(s, commit, horizon, w) ==
    /\ wal' = [wal EXCEPT ![s] = w]
    /\ flushLsn' = [flushLsn EXCEPT ![s] = IF commit = 0 THEN 0 ELSE Len(w) + 1]
    /\ truncPending' = [truncPending EXCEPT ![s] = TRUE]
    /\ memCommit' = [memCommit EXCEPT ![s] = commit]
    /\ cfCommit' = [cfCommit EXCEPT ![s] = commit]
    /\ memHorizon' = [memHorizon EXCEPT ![s] = horizon]
    /\ cfHorizon' = [cfHorizon EXCEPT ![s] = horizon]
    /\ skState' = [p \in Proposers |-> [skState[p] EXCEPT ![s] = "OFFLINE"]]
    /\ streamingAt' = [p \in Proposers |-> [streamingAt[p] EXCEPT ![s] = 0]]
    /\ rsp' = [p \in Proposers |-> [rsp[p] EXCEPT ![s] = None]]
    /\ q' = [k \in Chan |-> [p \in Proposers |-> [q[k][p] EXCEPT ![s] = <<>>]]]
    /\ dirty' = [k \in Chan |-> [p \in Proposers |-> [dirty[k][p] EXCEPT ![s] = FALSE]]]
    /\ faults' = faults + 1
    /\ UNCHANGED <<hist, wpVars, vote, ack, peerInfo, grantedTo, ackedLog>>

(* The safekeeper crashes between messages: what was written but not       *)
(* flushed may be lost, from any record on.                                *)
Crash(s) ==
    /\ faults < MaxFaults
    /\ \E n \in {i \in 0..Len(wal[s]) : i + 1 >= flushLsn[s]} :
          Boot(s, cfCommit[s], cfHorizon[s], SubSeq(wal[s], 1, n))
    /\ UNCHANGED term

(* The safekeeper crashes inside handle_elected, after the term was raised *)
(* and before the new history was saved: the truncation was done in part,  *)
(* segment by segment, and the old history is still in the control file.   *)
CrashInElected(k, p, s) ==
    LET start == Head(q[k][p][s]).lo
        raised == term[s] < propTerm[p]
    IN  /\ faults < MaxFaults
        /\ Received(k, p, s, "elected")
        /\ ~FromOldTerm(p, s)
        /\ ~ElectedRefused(p, s, start)
        /\ term' = [term EXCEPT ![s] = propTerm[p]]
        /\ \E n \in Lower(start - 1, Len(wal[s]))..Len(wal[s]) :
              Boot(s, IF raised THEN memCommit[s] ELSE cfCommit[s],
                   IF raised THEN memHorizon[s] ELSE cfHorizon[s], SubSeq(wal[s], 1, n))

(* get_safekeeper_info, pushed to the broker.  One message is kept, which  *)
(* a newer one of any safekeeper replaces (loses).                         *)
PublishInfo(s) ==
    /\ BrokerUp
    /\ memCommit[s] # 0
    /\ peerInfo' = [lastLogTerm |-> LastLogTerm(hist[s], flushLsn[s]),
                    commit |-> memCommit[s], horizon |-> memHorizon[s]]
    /\ peerInfo' # peerInfo
    /\ UNCHANGED <<skVars, wpVars, linkVars, netVars, auxVars>>

(* Mutant of PeerCommitUsable: the peer's last log term is not compared.   *)
PeerCommitUsableAlways(info, s) == info.commit # 0

(* The commit LSN of a peer counts only if both have WAL of the same term. *)
PeerCommitUsable(info, s) ==
    info.commit # 0 /\ info.lastLogTerm = LastLogTerm(hist[s], flushLsn[s])

(* record_safekeeper_info: s gets the message, any time later and any      *)
(* number of times; its own messages come back to it too.                  *)
RecordSafekeeperInfo(s) ==
    LET info == peerInfo
        adopt == PeerCommitUsable(info, s)
        commit == IF adopt THEN UpdatedCommitLsn(s, info.commit, flushLsn[s])
                  ELSE memCommit[s]
        horizon == Higher(info.horizon, memHorizon[s])
    IN  /\ info # None
        /\ memCommit' = [memCommit EXCEPT ![s] = commit]
        /\ memHorizon' = [memHorizon EXCEPT ![s] = horizon]
        /\ IF cfHorizon[s] + WalSegSize < horizon
           THEN /\ cfCommit' = [cfCommit EXCEPT ![s] = commit]
                /\ cfHorizon' = [cfHorizon EXCEPT ![s] = horizon]
           ELSE IF adopt /\ ReachesTermStart(s, commit)
           THEN /\ cfCommit' = [cfCommit EXCEPT ![s] = commit]
                /\ cfHorizon' = [cfHorizon EXCEPT ![s] = memHorizon[s]]
           ELSE UNCHANGED <<cfCommit, cfHorizon>>
        /\ UNCHANGED <<term, hist, wal, flushLsn, truncPending, wpVars, linkVars,
                       netVars, peerInfo, auxVars>>

-----------------------------------------------------------------------------
(* Proposer. *)

SendVoteRequests(p, S) ==
    /\ q' = [q EXCEPT !["live"][p] = [s \in Safekeepers |->
                IF s \in S THEN Append(@[s], VoteRequestMsg) ELSE @[s]]]
    /\ skState' = [skState EXCEPT ![p] = [s \in Safekeepers |->
                IF s \in S THEN "WAIT_VERDICT" ELSE @[s]]]

Running == {p \in Proposers : wpState[p] # "DEAD" /\ nConnected[p] # 0}

CanConnect(p, s) ==
    /\ Cardinality(Running \cup {p}) <= MaxAlive
    /\ skState[p][s] = "OFFLINE"
    /\ Cardinality({r \in Safekeepers : skState[p][r] # "OFFLINE"}) < MaxLinks[p]

(* Connect and exchange greetings (handle_greeting, RecvAcceptorGreeting). *)
(* n_connected also counts reconnections.  The four outcomes:              *)
(* a quorum of greetings is still missing ...                              *)
GreetCollecting(p, s) ==
    /\ wpState[p] = "COLLECTING_TERMS" /\ CanConnect(p, s)
    /\ nConnected[p] + 1 < Quorum
    /\ nConnected' = [nConnected EXCEPT ![p] = @ + 1]
    /\ propTerm' = [propTerm EXCEPT ![p] = Higher(term[s], @)]
    /\ skState' = [skState EXCEPT ![p][s] = "WAIT_VOTING"]
    /\ UNCHANGED <<skVars, wpState, donor, propHist, propWal, propCommit, propTruncate,
                   vote, ack, streamingAt, netVars, peerInfo, auxVars>>

(* ... this greeting completes it and the campaign starts ...              *)
GreetStartsCampaign(p, s) ==
    LET newTerm == Higher(term[s], propTerm[p]) + 1
    IN  /\ wpState[p] = "COLLECTING_TERMS" /\ CanConnect(p, s)
        /\ nConnected[p] + 1 >= Quorum
        /\ newTerm <= MaxTerm
        /\ nConnected' = [nConnected EXCEPT ![p] = @ + 1]
        /\ propTerm' = [propTerm EXCEPT ![p] = newTerm]
        /\ wpState' = [wpState EXCEPT ![p] = "CAMPAIGN"]
        /\ SendVoteRequests(p, {r \in Safekeepers : skState[p][r] = "WAIT_VOTING"} \cup {s})
        /\ UNCHANGED <<skVars, donor, propHist, propWal, propCommit, propTruncate,
                       vote, ack, streamingAt, dirty, rsp, peerInfo, auxVars>>

(* ... the campaign already started and this safekeeper is asked too ...   *)
GreetLate(p, s) ==
    /\ wpState[p] \in {"CAMPAIGN", "ELECTED"} /\ CanConnect(p, s)
    /\ term[s] <= propTerm[p]
    /\ SendVoteRequests(p, {s})
    /\ UNCHANGED <<skVars, wpVars, vote, ack, streamingAt, dirty, rsp, peerInfo, auxVars>>

(* ... or the safekeeper already lives in a higher term.                   *)
GreetRejected(p, s) ==
    /\ wpState[p] \in {"CAMPAIGN", "ELECTED"} /\ CanConnect(p, s)
    /\ term[s] > propTerm[p]
    /\ Fatal(p)
    /\ UNCHANGED <<skVars, peerInfo, auxVars>>

(* RecvVoteResponse: the vote of s arrives.                                *)
VoteArrives(p, s) ==
    /\ skState[p][s] = "WAIT_VERDICT"
    /\ rsp[p][s] # None
    /\ rsp[p][s].type = "vote"

(* Refused: fatal unless p is elected and s has merely voted for it before.*)
VoteFatal(p, s) ==
    /\ ~rsp[p][s].given
    /\ rsp[p][s].term > propTerm[p] \/ wpState[p] = "CAMPAIGN"

RecvVoteRefused(p, s) ==
    /\ VoteArrives(p, s)
    /\ VoteFatal(p, s)
    /\ Fatal(p)
    /\ UNCHANGED <<skVars, peerInfo, auxVars>>

(* The votes at hand once that of s is counted: connections in             *)
(* SS_WAIT_ELECTED.                                                        *)
Voters(p, s) == {r \in Safekeepers : skState[p][r] = "WAIT_ELECTED"} \cup {s}

VoteOf(p, s, r) == IF r = s THEN rsp[p][s] ELSE vote[p][r]

(* Mutant of VoteLeq: the longest WAL wins, whatever its term.             *)
VoteLeqByLsn(v, w) == v.flush <= w.flush

(* Votes are ordered by last log term, then by flush LSN.                  *)
VoteLeq(v, w) ==
    \/ HighestTerm(v.hist) < HighestTerm(w.hist)
    \/ HighestTerm(v.hist) = HighestTerm(w.hist) /\ v.flush <= w.flush

(* Mutant of DonorChoices: any voter is good enough as donor.              *)
DonorChoicesAny(p, s) == Voters(p, s)

(* VotesCollected on the donor: the highest vote takes it; votes of empty  *)
(* safekeepers (last log term 0, flush LSN 0) only if there is none yet.   *)
DonorChoices(p, s) ==
    LET V == Voters(p, s)
        empty(r) == HighestTerm(VoteOf(p, s, r).hist) = 0 /\ VoteOf(p, s, r).flush = 0
    IN  IF \E r \in V : ~empty(r)
        THEN {r \in V : \A x \in V : VoteLeq(VoteOf(p, s, x), VoteOf(p, s, r))}
        ELSE IF donor[p] = None THEN V ELSE {donor[p]}

(* The vote is counted and a quorum is still missing. *)
RecvVoteCounted(p, s) ==
    /\ VoteArrives(p, s) /\ ~VoteFatal(p, s)
    /\ wpState[p] = "CAMPAIGN"
    /\ ~HasQuorum(Voters(p, s))
    /\ \E d \in DonorChoices(p, s) : donor' = [donor EXCEPT ![p] = d]
    /\ vote' = [vote EXCEPT ![p][s] = rsp[p][s]]
    /\ skState' = [skState EXCEPT ![p][s] = "WAIT_ELECTED"]
    /\ rsp' = [rsp EXCEPT ![p][s] = None]
    /\ UNCHANGED <<skVars, wpState, propTerm, nConnected, propHist, propWal, propCommit,
                   propTruncate, ack, streamingAt, q, dirty, peerInfo, auxVars>>

(* HandleElectedProposer: the position to start from (ProcessPropStartPos) *)
(* and ProposerElected to every voter (SendProposerElected).  The WAL      *)
(* before it is the donor's, read from it on demand under the donor's term.*)
(* If nobody has WAL the timeline starts at the redo LSN.                  *)
BecomeElected(p, s, d) ==
    LET V == Voters(p, s)
        dv == VoteOf(p, s, d)
        bootstrap == \A r \in V : VoteOf(p, s, r).flush = 0
        start == IF bootstrap THEN FirstLsn ELSE dv.flush
        horizons == {VoteOf(p, s, r).horizon : r \in V}
        th == Append(dv.hist, TermLsn(propTerm[p], start))
        at(r) == StartStreamingAt(th, propTerm[p], VoteOf(p, s, r).hist,
                                  VoteOf(p, s, r).flush)
    IN  /\ wpState' = [wpState EXCEPT ![p] = "ELECTED"]
        /\ donor' = [donor EXCEPT ![p] = d]
        /\ propHist' = [propHist EXCEPT ![p] = th]
        /\ propWal' = [propWal EXCEPT ![p] = IF bootstrap THEN <<>> ELSE dv.wal]
        /\ propTruncate' = [propTruncate EXCEPT ![p] =
                              IF bootstrap THEN FirstLsn
                              ELSE CHOOSE h \in horizons : \A g \in horizons : g <= h]
        /\ skState' = [skState EXCEPT ![p] = [r \in Safekeepers |->
                         IF r \in V THEN "ACTIVE" ELSE @[r]]]
        /\ streamingAt' = [streamingAt EXCEPT ![p] = [r \in Safekeepers |->
                             IF r \in V THEN at(r) ELSE @[r]]]
        /\ q' = [q EXCEPT !["live"][p] = [r \in Safekeepers |->
                   IF r \in V THEN Append(@[r], ElectedMsg(at(r))) ELSE @[r]]]

(* VotesCollected returns true.  A donor that disconnected since its vote  *)
(* has lost its term history (ShutdownConnection frees the entries and     *)
(* keeps their number): copying it kills the process.                      *)
RecvVoteElects(p, s) ==
    /\ VoteArrives(p, s) /\ ~VoteFatal(p, s)
    /\ wpState[p] = "CAMPAIGN"
    /\ HasQuorum(Voters(p, s))
    /\ \E d \in DonorChoices(p, s) :
          IF d \in Voters(p, s) \/ vote[p][d].hist = <<>>
          THEN /\ BecomeElected(p, s, d)
               /\ vote' = [vote EXCEPT ![p] = [r \in Safekeepers |-> None]]
               /\ rsp' = [rsp EXCEPT ![p][s] = None]
               /\ UNCHANGED <<propTerm, nConnected, propCommit, ack, dirty>>
          ELSE Fatal(p)
    /\ UNCHANGED <<skVars, peerInfo, auxVars>>

(* p is elected already: ProposerElected to s only.                        *)
RecvVoteLate(p, s) ==
    LET start == StartStreamingAt(propHist[p], propTerm[p], rsp[p][s].hist, rsp[p][s].flush)
    IN  /\ VoteArrives(p, s) /\ ~VoteFatal(p, s)
        /\ wpState[p] = "ELECTED"
        /\ q' = [q EXCEPT !["live"][p][s] = Append(@, ElectedMsg(start))]
        /\ skState' = [skState EXCEPT ![p][s] = "ACTIVE"]
        /\ streamingAt' = [streamingAt EXCEPT ![p][s] = start]
        /\ rsp' = [rsp EXCEPT ![p][s] = None]
        /\ UNCHANGED <<skVars, wpVars, vote, ack, dirty, peerInfo, auxVars>>

(* availableLsn *)
AvailableLsn(p) == Len(propWal[p]) + 1

(* The compute writes a record (WalProposerBroadcast). *)
WriteWal(p) ==
    /\ wpState[p] = "ELECTED"
    /\ AvailableLsn(p) < MaxLsn
    /\ propWal' = [propWal EXCEPT ![p] = Append(@, TermLsn(propTerm[p], AvailableLsn(p)))]
    /\ UNCHANGED <<skVars, wpState, propTerm, nConnected, donor, propHist, propCommit,
                   propTruncate, linkVars, netVars, peerInfo, auxVars>>

(* A keepalive (an empty AppendRequest) makes a difference: s has not yet  *)
(* acknowledged all that was sent, or has to learn new LSNs.  Keepalives   *)
(* that repeat what s knows, or that overtake nothing, are left out.       *)
KeepaliveUseful(p, s) ==
    /\ q["live"][p][s] = <<>> /\ ~dirty["live"][p][s] /\ rsp[p][s] = None
    /\ \/ ack[p][s] # streamingAt[p][s]
       \/ propCommit[p] > memCommit[s]
       \/ propTruncate[p] > memHorizon[s]

(* Where a message that starts at lo ends: at most MAX_SEND_SIZE, and not  *)
(* beyond the WAL there is.                                                *)
SendEnd(p, lo) == Lower(lo + MaxSendSize, AvailableLsn(p))

(* SendAppendRequests, one message; empty when s has everything, as a      *)
(* keepalive.  BroadcastAppendRequest (called for new WAL, for a new       *)
(* commitLsn and on the poll timeout) sends until the socket would block,  *)
(* the rest goes out when the socket of s is writeable again: a step of    *)
(* its own, for each safekeeper at its own pace.                           *)
SendAppendRequest(p, s) ==
    LET lo == streamingAt[p][s]
        hi == SendEnd(p, lo)
    IN  /\ skState[p][s] = "ACTIVE"
        /\ Len(q["live"][p][s]) < QueueCap
        /\ Cardinality({r \in Safekeepers : q["live"][p][r] # <<>>} \cup {s}) <= MaxBusy
        /\ hi > lo \/ KeepaliveUseful(p, s)
        /\ q' = [q EXCEPT !["live"][p][s] =
                    Append(@, AppendMsg(lo, hi, propCommit[p], propTruncate[p]))]
        /\ streamingAt' = [streamingAt EXCEPT ![p][s] = hi]
        /\ UNCHANGED <<skVars, wpVars, skState, vote, ack, dirty, rsp, peerInfo, auxVars>>

AckArrives(p, s) ==
    /\ skState[p][s] = "ACTIVE"
    /\ rsp[p][s] # None
    /\ rsp[p][s].type = "ack"

(* RecvAppendResponses: s lives in a higher term.                          *)
RecvAckFatal(p, s) ==
    /\ AckArrives(p, s)
    /\ rsp[p][s].term > propTerm[p]
    /\ Fatal(p)
    /\ UNCHANGED <<skVars, peerInfo, auxVars>>

(* propTermStartLsn *)
PropTermStartLsn(p) == propHist[p][Len(propHist[p])].lsn

(* Mutant of AcknowledgedByQuorum: the highest acknowledgement counts.     *)
AcknowledgedByAny(p, acks) ==
    CHOOSE l \in {acks[s] : s \in Safekeepers} : \A s \in Safekeepers : acks[s] <= l

(* GetAcknowledgedByQuorumWALPosition: acknowledgements below the start of *)
(* the term do not count; 0 when no quorum reached it.                     *)
AcknowledgedByQuorum(p, acks) ==
    LET counted == [s \in Safekeepers |->
                      IF acks[s] >= PropTermStartLsn(p) THEN acks[s] ELSE 0]
        held(l) == {s \in Safekeepers : counted[s] >= l}
        reached == {counted[s] : s \in Safekeepers} \cup {0}
    IN  CHOOSE l \in reached :
            /\ HasQuorum(held(l))
            /\ \A h \in reached : HasQuorum(held(h)) => h <= l

(* Mutant of MinFlushLsn: safekeepers that never answered are skipped.     *)
MinFlushLsnOfHeard(acks) ==
    LET heard == {acks[s] : s \in Safekeepers} \ {0}
    IN  IF heard = {} THEN 0 ELSE CHOOSE l \in heard : \A h \in heard : l <= h

(* CalculateMinFlushLsn *)
MinFlushLsn(acks) ==
    CHOOSE l \in {acks[s] : s \in Safekeepers} : \A s \in Safekeepers : l <= acks[s]

(* HandleSafekeeperResponse: advance commitLsn, release the transactions   *)
(* that wait for it, and advance truncateLsn.                              *)
RecvAppendResponse(p, s) ==
    LET acks == [ack[p] EXCEPT ![s] = rsp[p][s].flush]
        commit == Higher(propCommit[p], AcknowledgedByQuorum(p, acks))
        truncate == Lower(MinFlushLsn(acks), commit)
    IN  /\ AckArrives(p, s)
        /\ rsp[p][s].term <= propTerm[p]
        /\ ack' = [ack EXCEPT ![p] = acks]
        /\ propCommit' = [propCommit EXCEPT ![p] = commit]
        /\ propTruncate' = [propTruncate EXCEPT ![p] = Higher(@, truncate)]
        /\ ackedLog' = IF commit > Len(ackedLog) + 1 THEN Below(propWal[p], commit)
                       ELSE ackedLog
        /\ rsp' = [rsp EXCEPT ![p][s] = None]
        /\ UNCHANGED <<skVars, wpState, propTerm, nConnected, donor, propHist, propWal,
                       skState, vote, streamingAt, q, dirty, peerInfo, grantedTo, faults>>

(* A connection breaks or times out. *)
Disconnect(p, s) ==
    /\ faults < MaxFaults
    /\ skState[p][s] # "OFFLINE"
    /\ ShutdownConnection({<<p, s>>})
    /\ faults' = faults + 1
    /\ UNCHANGED <<skVars, wpVars, vote, ack, peerInfo, grantedTo, ackedLog>>

(* The compute is killed, or panics because its basebackup does not match. *)
(* When no other run is left to start, dying is taking no more steps.      *)
Die(p) ==
    /\ p \in Running
    /\ \E r \in Proposers : wpState[r] # "DEAD" /\ r \notin Running
    /\ Fatal(p)
    /\ UNCHANGED <<skVars, peerInfo, auxVars>>

-----------------------------------------------------------------------------
SafekeeperStep(s) ==
    \/ \E k \in Chan, p \in Proposers :
         \/ HandleVoteRequest(k, p, s)
         \/ IgnoreElected(k, p, s)
         \/ RefuseElected(k, p, s)
         \/ HandleElected(k, p, s)
         \/ RefuseAppend(k, p, s)
         \/ AppendOfOldTerm(k, p, s)
         \/ HandleAppendRequest(k, p, s)
         \/ HandleFlush(k, p, s)
         \/ CrashInElected(k, p, s)
    \/ SaveControlFile(s)
    \/ TermBump(s)
    \/ Crash(s)
    \/ PublishInfo(s)
    \/ RecordSafekeeperInfo(s)

ProposerStep(p) ==
    \/ \E s \in Safekeepers :
         \/ GreetCollecting(p, s)
         \/ GreetStartsCampaign(p, s)
         \/ GreetLate(p, s)
         \/ GreetRejected(p, s)
         \/ RecvVoteRefused(p, s)
         \/ RecvVoteCounted(p, s)
         \/ RecvVoteElects(p, s)
         \/ RecvVoteLate(p, s)
         \/ SendAppendRequest(p, s)
         \/ RecvAckFatal(p, s)
         \/ RecvAppendResponse(p, s)
         \/ Disconnect(p, s)
    \/ WriteWal(p)
    \/ Die(p)

Next ==
    \/ \E s \in Safekeepers : SafekeeperStep(s)
    \/ \E p \in Proposers : ProposerStep(p)

Spec == Init /\ [][Next]_vars

(* WalAcceptor goes on taking messages off its queue and flushing; the     *)
(* proposer's event loop connects again (ReconnectSafekeepers), reads what *)
(* arrives and sends what there is to send.  Some such step is taken while *)
(* there is one; nothing else has to happen: no failure, no new WAL, no    *)
(* new proposer.                                                           *)
WalAcceptorProgress(k, p, s) ==
    \/ HandleVoteRequest(k, p, s)
    \/ IgnoreElected(k, p, s)
    \/ RefuseElected(k, p, s)
    \/ HandleElected(k, p, s)
    \/ RefuseAppend(k, p, s)
    \/ AppendOfOldTerm(k, p, s)
    \/ HandleAppendRequest(k, p, s)
    \/ HandleFlush(k, p, s)

EventLoopProgress(p, s) ==
    \/ GreetCollecting(p, s)
    \/ GreetStartsCampaign(p, s)
    \/ GreetLate(p, s)
    \/ GreetRejected(p, s)
    \/ RecvVoteRefused(p, s)
    \/ RecvVoteCounted(p, s)
    \/ RecvVoteElects(p, s)
    \/ RecvVoteLate(p, s)
    \/ SendAppendRequest(p, s)
    \/ RecvAckFatal(p, s)
    \/ RecvAppendResponse(p, s)

Fairness ==
    \A p \in Proposers :
        WF_vars(\E s \in Safekeepers :
                    EventLoopProgress(p, s) \/ \E k \in Chan : WalAcceptorProgress(k, p, s))

FairSpec == Spec /\ Fairness

-----------------------------------------------------------------------------
(* Types. *)

Terms == 0..MaxTerm
Lsns == 0..MaxLsn
TermHistories == Seq([term : Terms, lsn : 1..MaxLsn])
Logs == {w \in Seq([term : Terms, lsn : 1..MaxLsn]) : Len(w) < MaxLsn}
Messages == [type : {"vote", "elected", "append"}, lo : Lsns, hi : Lsns,
             commit : Lsns, horizon : Lsns]
VoteResponses == [type : {"vote"}, term : Terms, given : BOOLEAN, flush : Lsns,
                  horizon : Lsns, hist : TermHistories, wal : Logs]
AppendResponses == [type : {"ack"}, term : Terms, flush : Lsns]
PeerInfos == [lastLogTerm : Terms, commit : Lsns, horizon : Lsns]

SkTypeOK ==
    /\ term \in [Safekeepers -> Terms]
    /\ hist \in [Safekeepers -> TermHistories]
    /\ wal \in [Safekeepers -> Logs]
    /\ truncPending \in [Safekeepers -> BOOLEAN]
    /\ flushLsn \in [Safekeepers -> Lsns]
    /\ memCommit \in [Safekeepers -> Lsns] /\ cfCommit \in [Safekeepers -> Lsns]
    /\ memHorizon \in [Safekeepers -> Lsns] /\ cfHorizon \in [Safekeepers -> Lsns]

WpTypeOK ==
    /\ wpState \in [Proposers -> {"COLLECTING_TERMS", "CAMPAIGN", "ELECTED", "DEAD"}]
    /\ propTerm \in [Proposers -> Terms]
    /\ nConnected \in [Proposers -> 0..Quorum]
    /\ donor \in [Proposers -> Safekeepers \cup {None}]
    /\ propHist \in [Proposers -> TermHistories]
    /\ propWal \in [Proposers -> Logs]
    /\ propCommit \in [Proposers -> Lsns] /\ propTruncate \in [Proposers -> Lsns]

LinkTypeOK ==
    /\ skState \in [Proposers -> [Safekeepers ->
                     {"OFFLINE", "WAIT_VOTING", "WAIT_VERDICT", "WAIT_ELECTED", "ACTIVE"}]]
    /\ vote \in [Proposers -> [Safekeepers -> VoteResponses \cup {None}]]
    /\ ack \in [Proposers -> [Safekeepers -> Lsns]]
    /\ streamingAt \in [Proposers -> [Safekeepers -> Lsns]]

NetTypeOK ==
    /\ q \in [Chan -> [Proposers -> [Safekeepers -> Seq(Messages)]]]
    /\ dirty \in [Chan -> [Proposers -> [Safekeepers -> BOOLEAN]]]
    /\ rsp \in [Proposers -> [Safekeepers -> VoteResponses \cup AppendResponses \cup {None}]]
    /\ peerInfo \in PeerInfos \cup {None}

AuxTypeOK ==
    /\ grantedTo \in [Proposers -> SUBSET Safekeepers]
    /\ ackedLog \in Logs
    /\ faults \in 0..MaxFaults

(* Every variable has its type: terms, LSNs, WALs, histories and messages  *)
(* stay within what the structs of the code can hold, and no LSN gets      *)
(* beyond the WAL that was written.                                        *)
TypeOK == SkTypeOK /\ WpTypeOK /\ LinkTypeOK /\ NetTypeOK /\ AuxTypeOK

-----------------------------------------------------------------------------
(* Properties. *)

(* A term is won by at most one proposer, also when proposers race for it  *)
(* and votes are answered, lost and repeated on several connections:       *)
(* handle_vote_request gives one vote per term and VotesCollected needs a  *)
(* quorum.                                                                 *)
OneLeaderPerTerm ==
    \A p1, p2 \in Proposers :
        /\ propHist[p1] # <<>> /\ propHist[p2] # <<>>
        /\ propTerm[p1] = propTerm[p2]
        => p1 = p2

(* The term history of a safekeeper describes the WAL it has, record by    *)
(* record, although history and WAL are changed by different writes:       *)
(* handle_elected truncates first and adopts the history later, appends    *)
(* fill in the WAL, crashes and late connections come in between.          *)
HistoryDescribesWal ==
    \A s \in Safekeepers : \A l \in 1..Len(wal[s]) : wal[s][l] = TermLsn(TermAt(hist[s], l), l)

(* WAL that a compute reported as committed to its clients is on disk in   *)
(* every quorum, on the safekeeper whose vote VotesCollected would take as *)
(* the highest: no later election can lose it.                             *)
AckedWalSurvivesElections ==
    \A Q \in SUBSET Safekeepers : HasQuorum(Q) =>
        \A s \in Q :
            LET key(r) == [hist |-> UpTo(hist[r], flushLsn[r]), flush |-> flushLsn[r]]
            IN  (\A r \in Q : VoteLeq(key(r), key(s)))
                => IsPrefix(ackedLog, Below(wal[s], flushLsn[s]))

(* A commit_lsn that a safekeeper believes in, learned from its proposer,  *)
(* from a peer through the broker or from its control file, covers only    *)
(* WAL that was committed, and that it has itself on disk.                 *)
SafekeeperCommitIsCommitted ==
    \A s \in Safekeepers :
        /\ memCommit[s] <= flushLsn[s]
        /\ IsPrefix(Below(wal[s], memCommit[s]), ackedLog)

(* No two elected proposers ever report diverging WAL as committed.        *)
LeadersAgreeOnCommitted ==
    \A p \in Proposers : propCommit[p] # 0 =>
        /\ propCommit[p] <= AvailableLsn(p)
        /\ IsPrefix(Below(propWal[p], propCommit[p]), ackedLog)

(* handle_elected, "We are also expected to never attempt to truncate       *)
(* committed data": a ProposerElected of the safekeeper's term that starts *)
(* where the histories diverge does not reach below its commit_lsn.        *)
NeverTruncatesCommitted ==
    \A k \in Chan, p \in Proposers, s \in Safekeepers :
        Received(k, p, s, "elected") /\ ~FromOldTerm(p, s) =>
            LET start == Head(q[k][p][s]).lo
            IN  start = ExpectedStart(p, s) => ~TruncatesCommitted(s, start)

(* The assertions of handle_elected and find_highest_common_point hold     *)
(* whenever a ProposerElected is handled, on the current connection or on  *)
(* an abandoned one: committed WAL is not truncated, and a term begins     *)
(* everywhere at the same LSN.                                             *)
ElectedAssertions ==
    /\ NeverTruncatesCommitted
    /\ \A k \in Chan, p \in Proposers, s \in Safekeepers :
          Received(k, p, s, "elected") /\ ~FromOldTerm(p, s)
            => SameTermSameLsn(propHist[p], UpTo(hist[s], flushLsn[s]))

(* The position a proposer streams from is in the WAL it has (Assert of    *)
(* SendProposerElected), so a safekeeper never has more WAL of the         *)
(* proposer's history than the proposer itself.                            *)
StreamsOnlyAvailableWal ==
    \A p \in Proposers, s \in Safekeepers :
        skState[p][s] = "ACTIVE" => streamingAt[p][s] \in FirstLsn..AvailableLsn(p)

(* peer_horizon_lsn allows WAL below it to be removed: whoever reports it, *)
(* every safekeeper has that WAL on disk, and it is committed.             *)
HorizonIsOnAllSafekeepers ==
    \A s \in Safekeepers : memHorizon[s] > FirstLsn =>
        /\ memHorizon[s] <= Len(ackedLog) + 1
        /\ \A r \in Safekeepers :
             IsPrefix(Below(ackedLog, memHorizon[s]), Below(wal[r], flushLsn[r]))

(* The whole protocol provides one replicated log: every step that commits *)
(* WAL extends it, and the committed WAL that safekeepers serve, below     *)
(* their commit_lsn, is always a prefix of it that only shrinks when a     *)
(* safekeeper fails.                                                       *)
Service == INSTANCE ReplicatedLog WITH
    Readers <- Safekeepers,
    log <- ackedLog,
    visible <- [s \in Safekeepers |-> Below(wal[s], memCommit[s])],
    failures <- faults

ServiceSpec == Service!Spec

(* What a compute writes after its election reaches every safekeeper and   *)
(* every one of them learns that it is committed, although connections     *)
(* break, a safekeeper restarts and what is left of an abandoned           *)
(* connection moves a safekeeper's WAL between its vote and the            *)
(* ProposerElected that answers it: a refused connection is established    *)
(* again and the start is computed anew.  Unless the compute ends.         *)
WrittenIsReplicated ==
    \A p \in Proposers :
        (wpState[p] = "ELECTED" /\ AvailableLsn(p) = MaxLsn)
            ~> (wpState[p] = "DEAD" \/ \A s \in Safekeepers : memCommit[s] = MaxLsn)

(* VotesCollected "finds the highest vote, setting donor": the donor is one *)
(* of those who voted, and is still connected when the proposer is elected *)
(* and starts to download WAL from it.                                     *)
DonorIsAVoter ==
    [][\A p \in Proposers :
         wpState[p] # "ELECTED" /\ wpState'[p] = "ELECTED"
            => donor'[p] \in {s \in Safekeepers : skState'[p][s] = "ACTIVE"}]_vars

=============================================================================
