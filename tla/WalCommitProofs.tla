--------------------------- MODULE WalCommitProofs ---------------------------
(***************************************************************************)
(* Committed WAL of WalConsensus is never lost, for any number of          *)
(* safekeepers, proposers, terms and records: whatever a quorum            *)
(* acknowledged to a proposer in its term, all later leaders continue, and *)
(* the commit LSNs of proposers, safekeepers and their messages cover      *)
(* nothing else.  With the invariant of that argument every step is one of *)
(* ReplicatedLog, or a stutter (ServiceRefined), and a horizon is never    *)
(* ahead of what all safekeepers have on disk (HorizonIsSafe).             *)
(***************************************************************************)
EXTENDS WalSafetyProofs

-----------------------------------------------------------------------------
(* Acknowledgements.  A[p][s] is the highest LSN that s ever acknowledged  *)
(* to p in p's term: a proposer that ends forgets it, the argument may not.*)

(* History b continues history a, from LSN l or later.                     *)
Continues(b, a, l) == Len(a) < Len(b) /\ BeginsWith(b, Len(a), a) /\ l <= b[Len(a) + 1].lsn

(* Durable WAL up to f with history th holds what history a says, up to l. *)
Holds(th, f, a, l) == l <= f /\ (th = a \/ Continues(th, a, l))

(* l can no longer be committed by p: a quorum has gone on to later terms  *)
(* and did not acknowledge it.                                             *)
Blocked(A, p, l) == HasQuorum({s \in Safekeepers : propTerm[p] < term[s] /\ A[p][s] < l})

(* What p has been told, and is being told, was acknowledged; a safekeeper *)
(* acknowledges WAL of the leader of its term only.                        *)
AckedBy(A, p, s) ==
    /\ A[p][s] # 0 => Elected(p) /\ propTerm[p] <= term[s] /\ A[p][s] <= AvailableLsn(p)
    /\ ack[p][s] <= A[p][s]
    /\ rsp[p][s] # None => (rsp[p][s].type = "ack" /\ rsp[p][s].term = propTerm[p]
                              => rsp[p][s].flush <= A[p][s])

(* What s acknowledged to p is still in WAL th, f of s.                    *)
Keeps(A, p, s, th, f) ==
    \A l \in Lsns : PropTermStartLsn(p) <= l /\ l <= A[p][s] =>
        Holds(th, f, propHist[p], l) \/ Blocked(A, p, l)

(* So it is for the WAL s has now ...                                      *)
SafekeeperKeeps(A, p, s) == Elected(p) => Keeps(A, p, s, hist[s], flushLsn[s])

(* The vote v of s for c has all that s acknowledged before.               *)
VoteKeeps(A, c, s, v) ==
    \A p \in Proposers : Elected(p) /\ propTerm[p] < propTerm[c] => Keeps(A, p, s, v.hist, v.flush)

(* ... on its way to c, and when c has counted it.                         *)
VotesKeep(A, c, s) ==
    /\ rsp[c][s] # None =>
         (rsp[c][s].type = "vote" /\ rsp[c][s].given => VoteKeeps(A, c, s, rsp[c][s]))
    /\ vote[c][s] # None => VoteKeeps(A, c, s, vote[c][s])

(* A leader continues all that an earlier one can have committed.          *)
LeaderKeeps(A, c, p) ==
    Elected(c) /\ Elected(p) /\ propTerm[p] < propTerm[c] =>
        \A l \in Lsns : PropTermStartLsn(p) <= l =>
            Continues(propHist[c], propHist[p], l) \/ Blocked(A, p, l)

(* The invariant on acknowledgements.                                      *)
AckInv(A) ==
    /\ A \in [Proposers -> [Safekeepers -> Lsns]]
    /\ \A p \in Proposers, s \in Safekeepers : AckedBy(A, p, s)
    /\ \A p \in Proposers, s \in Safekeepers : SafekeeperKeeps(A, p, s)
    /\ \A c \in Proposers, s \in Safekeepers : VotesKeep(A, c, s)
    /\ \A c, p \in Proposers : LeaderKeeps(A, c, p)

-----------------------------------------------------------------------------
(* What is committed.                                                      *)

(* A quorum acknowledged l to p, WAL of its own term included.             *)
Committed(A, p, l) ==
    /\ Elected(p) /\ PropTermStartLsn(p) <= l /\ l <= AvailableLsn(p)
    /\ HasQuorum({s \in Safekeepers : A[p][s] >= l})

(* A commit LSN of p, which clients have been told.                        *)
Reported(A, p, l) == l # 0 => Committed(A, p, l) /\ l <= Len(ackedLog) + 1

(* The log of clients is that of a leader that committed it.               *)
AckedLogOK(A) ==
    ackedLog = <<>> \/ \E p \in Proposers : /\ Committed(A, p, Len(ackedLog) + 1)
                                            /\ Agree(ackedLog, propWal[p], Len(ackedLog) + 1)

(* The commit LSN of s covers WAL of that log, on disk.                    *)
SafekeeperCommit(s) ==
    /\ memCommit[s] <= flushLsn[s] /\ cfCommit[s] <= memCommit[s]
    /\ Agree(wal[s], ackedLog, memCommit[s])

(* The commit LSN in a peer's message is that of a log of the term it      *)
(* comes with.                                                             *)
PeerCommit ==
    peerInfo # None /\ peerInfo.commit > FirstLsn =>
        \E r \in Proposers : /\ Elected(r) /\ propTerm[r] = peerInfo.lastLogTerm
                             /\ Agree(propWal[r], ackedLog, peerInfo.commit)

(* The invariant on what is committed.                                     *)
CommitInv(A) ==
    /\ AckedLogOK(A)
    /\ \A p \in Proposers : Reported(A, p, propCommit[p])
    /\ \A k \in Chan, p \in Proposers, s \in Safekeepers : \A i \in 1..Len(q[k][p][s]) :
         Reported(A, p, q[k][p][s][i].commit)
    /\ \A s \in Safekeepers : SafekeeperCommit(s)
    /\ PeerCommit

-----------------------------------------------------------------------------
(* Histories that continue others.                                         *)

(* The cut at the end of the WAL leaves what the WAL holds.                *)
LEMMA HoldsCut ==
    ASSUME NEW th \in TermHistories, Ascending(th), NEW a \in TermHistories, a # <<>>,
           NEW f \in Nat, NEW l \in Nat, a[Len(a)].lsn <= l, Holds(th, f, a, l)
    PROVE  Holds(UpTo(th, f), f, a, l)
<1> DEFINE u == UpTo(th, f)
<1>1. PICK n \in 0..Len(th) :
        /\ u \in TermHistories /\ Len(u) = n
        /\ \A i \in 1..n : u[i] = th[i] /\ th[i].lsn <= f
        /\ n < Len(th) => th[n + 1].lsn > f
  BY UpToEntries
<1> HIDE DEF u
<1>2. /\ Len(th) \in Nat /\ Len(a) \in Nat /\ Len(a) >= 1
      /\ \A i \in 1..Len(th) : th[i].lsn \in Nat
      /\ \A i \in 1..Len(a) : a[i].lsn \in Nat
  BY HistoryType
<1>3. /\ Len(a) <= Len(th) /\ l <= f
      /\ \A j \in 1..Len(a) : th[j] = a[j]
  BY <1>2 DEF Holds, Continues, BeginsWith
<1>4. Len(a) <= n
  <2> SUFFICES ASSUME n < Len(a) PROVE FALSE
    BY <1>2
  <2>1. n + 1 \in 1..Len(th) /\ n + 1 \in 1..Len(a) /\ Len(a) \in 1..Len(th) /\ n + 1 <= Len(a)
        /\ n < Len(th)
    BY <1>2, <1>3
  <2>2. th[n + 1].lsn <= th[Len(a)].lsn
    BY <2>1, AscendingFacts
  <2>3. th[Len(a)].lsn <= l /\ th[n + 1].lsn > f
    <3>1. Len(a) \in 1..Len(a)
      BY <1>2
    <3>2. th[Len(a)] = a[Len(a)]
      BY <1>3, <3>1
    <3> QED BY <1>1, <2>1, <3>2
  <2>4. th[n + 1].lsn \in Nat /\ th[Len(a)].lsn \in Nat
    BY <1>2, <2>1
  <2> QED BY <1>3, <2>2, <2>3, <2>4
<1>5. CASE n = Len(a)
  <2>1. u \in TermHistories /\ Len(u) = Len(a) /\ \A i \in 1..Len(u) : u[i] = a[i]
    BY <1>1, <1>3, <1>5
  <2>2. u = a
    BY <2>1, SameHistory
  <2> QED BY <1>3, <2>2 DEF Holds, u
<1>6. CASE n > Len(a)
  <2>1. Len(a) + 1 \in 1..n /\ Len(a) < Len(th)
    BY <1>2, <1>6
  <2>2. l <= th[Len(a) + 1].lsn
    BY <2>1 DEF Holds, Continues
  <2>3. Continues(u, a, l)
    <3>1. u[Len(a) + 1] = th[Len(a) + 1] /\ \A j \in 1..Len(a) : u[j] = a[j]
      BY <1>1, <1>2, <1>3, <1>6, <2>1
    <3> QED BY <1>1, <1>6, <2>2, <3>1 DEF Continues, BeginsWith
  <2> QED BY <1>3, <2>3 DEF Holds, u
<1> QED BY <1>1, <1>2, <1>4, <1>5, <1>6

(* The cut history ascends.                                                *)
LEMMA CutAscends ==
    ASSUME NEW th \in TermHistories, Ascending(th), NEW f \in Nat
    PROVE  UpTo(th, f) \in TermHistories /\ Ascending(UpTo(th, f))
<1> DEFINE u == UpTo(th, f)
<1>1. PICK n \in 0..Len(th) :
        /\ u \in TermHistories /\ Len(u) = n
        /\ \A i \in 1..n : u[i] = th[i]
  BY UpToEntries
<1> HIDE DEF u
<1>2. Len(th) \in Nat
  BY HistoryType
<1>3. ASSUME NEW i \in 1..Len(u), NEW j \in 1..Len(u), i < j
      PROVE  u[i].lsn <= u[j].lsn /\ u[i].term < u[j].term
  <2>1. i \in 1..Len(th) /\ j \in 1..Len(th) /\ u[i] = th[i] /\ u[j] = th[j]
    BY <1>1, <1>2
  <2> QED BY <1>3, <2>1 DEF Ascending
<1>4. Ascending(u)
  BY <1>3 DEF Ascending
<1> QED BY <1>1, <1>4 DEF u

(* The highest common point of two logs that hold the same is above it.    *)
LEMMA CommonPointAbove ==
    ASSUME NEW pth \in TermHistories, Ascending(pth), NEW sth \in TermHistories, Ascending(sth),
           NEW a \in TermHistories, a # <<>>, NEW f \in Nat, NEW l \in Nat, l >= 1,
           Holds(sth, f, a, l), pth = a \/ Continues(pth, a, l)
    PROVE  /\ FindHighestCommonPoint(pth, sth, f) \in Nat
           /\ FindHighestCommonPoint(pth, sth, f) >= l
<1> DEFINE idx == LastCommonIdx(pth, sth)
<1>1. /\ idx \in 0..Len(pth) /\ idx \in 0..Len(sth)
      /\ idx < Len(pth) /\ idx < Len(sth) => pth[idx + 1].term # sth[idx + 1].term
  BY LastCommonEntries
<1> HIDE DEF idx
<1>2. /\ Len(pth) \in Nat /\ Len(sth) \in Nat /\ Len(a) \in Nat /\ Len(a) >= 1
      /\ \A i \in 1..Len(pth) : pth[i].lsn \in Nat
      /\ \A i \in 1..Len(sth) : sth[i].lsn \in Nat
  BY HistoryType
<1>3. /\ Len(a) <= Len(pth) /\ Len(a) <= Len(sth) /\ l <= f
      /\ \A j \in 1..Len(a) : pth[j] = a[j] /\ sth[j] = a[j]
  BY <1>2 DEF Holds, Continues, BeginsWith
<1>4. Len(a) <= idx
  <2> SUFFICES ASSUME idx < Len(a) PROVE FALSE
    BY <1>1, <1>2
  <2>1. idx + 1 \in 1..Len(a) /\ idx < Len(pth) /\ idx < Len(sth)
    BY <1>1, <1>2, <1>3
  <2> QED BY <1>1, <1>3, <2>1
<1>5. ASSUME NEW th \in TermHistories, Ascending(th), idx < Len(th), th = a \/ Continues(th, a, l)
      PROVE  th[idx + 1].lsn \in Nat /\ l <= th[idx + 1].lsn
  <2>1. Len(th) \in Nat /\ \A i \in 1..Len(th) : th[i].lsn \in Nat
    BY HistoryType
  <2>2. /\ Len(a) + 1 \in 1..Len(th) /\ idx + 1 \in 1..Len(th) /\ Len(a) + 1 <= idx + 1
        /\ th # a
    BY <1>1, <1>2, <1>4, <1>5, <2>1
  <2>3. l <= th[Len(a) + 1].lsn
    BY <1>5, <2>2 DEF Continues
  <2>4. th[Len(a) + 1].lsn <= th[idx + 1].lsn
    BY <1>5, <2>2, AscendingFacts
  <2>5. th[Len(a) + 1].lsn \in Nat /\ th[idx + 1].lsn \in Nat
    BY <2>1, <2>2
  <2> QED BY <2>3, <2>4, <2>5
<1>6. idx # 0
  BY <1>1, <1>2, <1>4
<1> DEFINE skEnd == IF idx < Len(sth) THEN sth[idx + 1].lsn ELSE f
<1>7. FindHighestCommonPoint(pth, sth, f) =
         IF idx = Len(pth) THEN f ELSE Lower(pth[idx + 1].lsn, skEnd)
  BY <1>6 DEF FindHighestCommonPoint, idx
<1>8. skEnd \in Nat /\ l <= skEnd
  <2>1. CASE idx < Len(sth)
    <3>1. sth = a \/ Continues(sth, a, l)
      BY DEF Holds
    <3> QED BY <1>5, <2>1, <3>1
  <2>2. CASE ~(idx < Len(sth))
    BY <1>3, <2>2
  <2> QED BY <2>1, <2>2
<1> HIDE DEF skEnd
<1>9. CASE idx = Len(pth)
  BY <1>3, <1>7, <1>9
<1>10. CASE idx # Len(pth)
  <2>1. idx < Len(pth)
    BY <1>1, <1>2, <1>10
  <2>2. pth[idx + 1].lsn \in Nat /\ l <= pth[idx + 1].lsn
    BY <1>5, <2>1
  <2> QED BY <1>7, <1>8, <1>10, <2>2 DEF Lower
<1> QED BY <1>9, <1>10

-----------------------------------------------------------------------------
(* What acknowledged WAL means in one state.                               *)

(* The leaders of LogInv.                                                  *)
LEMMA LeadersLog == ASSUME LogInv PROVE Leaders
BY DEF LogInv, Leaders

(* The history of a leader is not empty, ascends, and ends with its term.  *)
LEMMA LeaderHistory ==
    ASSUME TypeInv, LogInv, NEW p \in Proposers, Elected(p)
    PROVE  /\ propHist[p] \in TermHistories /\ Ascending(propHist[p]) /\ propHist[p] # <<>>
           /\ propHist[p][Len(propHist[p])].lsn = PropTermStartLsn(p)
           /\ HighestTerm(propHist[p]) = propTerm[p] /\ propTerm[p] \in Nat /\ propTerm[p] >= 1
           /\ PropTermStartLsn(p) \in Nat /\ PropTermStartLsn(p) >= 1
           /\ PropTermStartLsn(p) <= AvailableLsn(p) /\ AvailableLsn(p) \in Nat
           /\ propHist[p] # Root
<1>1. LeaderLog(p)
  BY DEF LogInv
<1>2. /\ Len(propHist[p]) \in Nat /\ Len(propHist[p]) >= 1
      /\ propHist[p][Len(propHist[p])].term = propTerm[p]
      /\ PropTermStartLsn(p) = propHist[p][Len(propHist[p])].lsn /\ PropTermStartLsn(p) \in Nat
  BY LeaderFacts
<1>3. PropTermStartLsn(p) >= 1
  <2>1. Len(propHist[p]) \in 1..Len(propHist[p])
    BY <1>2
  <2> QED BY <1>2, <2>1, LeaderFacts
<1>4. propHist[p] \in TermHistories /\ propTerm[p] \in Nat /\ AvailableLsn(p) \in Nat
  BY LogTypes
<1>5. propHist[p] # <<>> /\ HighestTerm(propHist[p]) = propTerm[p]
  BY <1>2 DEF Elected, HighestTerm
<1>6. propTerm[p] >= 1 /\ Ascending(propHist[p]) /\ PropTermStartLsn(p) <= AvailableLsn(p)
  BY <1>1 DEF LeaderLog
<1>7. propHist[p] # Root
  <2> SUFFICES ASSUME propHist[p] = Root PROVE FALSE
    OBVIOUS
  <2>1. Len(Root) = 1 /\ Root[1].term = 0
    BY <1>5, RootFacts
  <2>2. propTerm[p] = 0
    BY <1>2, <2>1
  <2> QED BY <1>6, <2>2
<1> QED BY <1>2, <1>3, <1>4, <1>5, <1>6, <1>7

(* The history of nobody ascends, and ends with term 0.                    *)
LEMMA RootHistory ==
    /\ Root \in TermHistories /\ Ascending(Root) /\ HighestTerm(Root) = 0
    /\ Len(Root) \in Nat /\ Len(Root) <= 1
<1>1. Ascending(Root)
  BY RootFacts DEF Ascending
<1>2. HighestTerm(Root) = 0
  BY RootFacts DEF HighestTerm
<1>3. Len(Root) = 0 \/ Len(Root) = 1
  BY RootFacts
<1>4. Len(Root) \in Nat /\ Len(Root) <= 1
  <2> DEFINE n == Len(Root)
  <2>1. n = 0 \/ n = 1
    BY <1>3
  <2> HIDE DEF n
  <2>2. n \in Nat /\ n <= 1
    BY <2>1
  <2> QED BY <2>2 DEF n
<1>5. Root \in TermHistories
  BY RootFacts
<1> QED BY <1>1, <1>2, <1>4, <1>5

(* Every history that comes with WAL ascends.                              *)
LEMMA SafekeeperAscends ==
    ASSUME TypeInv, LogInv, NEW s \in Safekeepers
    PROVE  hist[s] \in TermHistories /\ Ascending(hist[s])
<1>1. HasLog(hist[s], wal[s], term[s]) /\ hist[s] \in TermHistories
  BY LogTypes DEF LogInv, SafekeeperLog
<1>2. CASE hist[s] = Root
  BY <1>1, <1>2, RootHistory
<1>3. CASE \E r \in Proposers : Elected(r) /\ hist[s] = propHist[r]
  BY <1>1, <1>3, LeaderHistory
<1> QED BY <1>1, <1>2, <1>3 DEF HasLog

(* ... and every durable one.                                              *)
LEMMA DurableAscends ==
    ASSUME TypeInv, LogInv, NEW th, NEW w, NEW f, NEW t, HasDurable(th, w, f, t)
    PROVE  th \in TermHistories /\ Ascending(th)
<1>1. CASE th = Root
  BY <1>1, RootHistory
<1>2. CASE \E r \in Proposers : Elected(r) /\ th = propHist[r]
  BY <1>2, LeaderHistory
<1> QED BY <1>1, <1>2 DEF HasDurable

(* A safekeeper's durable log.                                             *)
LEMMA SafekeeperDurable ==
    ASSUME TypeInv, LogInv, NEW s \in Safekeepers
    PROVE  HasDurable(UpTo(hist[s], flushLsn[s]), wal[s], flushLsn[s], term[s])
<1>1. /\ HasLog(hist[s], wal[s], term[s]) /\ flushLsn[s] <= Len(wal[s]) + 1
      /\ (flushLsn[s] = 0 <=> hist[s] = <<>>)
  BY DEF LogInv, SafekeeperLog
<1>2. /\ hist[s] \in TermHistories /\ Len(wal[s]) \in Nat /\ flushLsn[s] \in Nat /\ term[s] \in Nat
  BY LogTypes
<1> QED BY <1>1, <1>2, LeadersLog, DurableLog

(* A leader that continues the history of another has its WAL.             *)
LEMMA ContinuesAgree ==
    ASSUME TypeInv, VotesInv, LogInv, NEW c \in Proposers, NEW p \in Proposers, Elected(c), Elected(p),
           NEW l \in Nat, Continues(propHist[c], propHist[p], l)
    PROVE  Agree(propWal[c], propWal[p], l)
<1> DEFINE n == Len(propHist[p])
<1>1. /\ propHist[p] \in TermHistories /\ propHist[c] \in TermHistories
      /\ n \in Nat /\ n >= 1 /\ Len(propHist[c]) \in Nat /\ propHist[p] # Root
      /\ \A i \in 1..Len(propHist[c]) : propHist[c][i].lsn \in Nat
  BY LeaderHistory, LeaderFacts
<1>2. n < Len(propHist[c]) /\ l <= propHist[c][n + 1].lsn
      /\ \A j \in 1..n : propHist[c][j] = propHist[p][j]
  BY DEF Continues, BeginsWith
<1> HIDE DEF n
<1>3. Origin(c, n) /\ n + 1 \in 1..Len(propHist[c])
  <2>1. n \in 1..(Len(propHist[c]) - 1)
    BY <1>1, <1>2
  <2> QED BY <1>1, <2>1 DEF LogInv, LeaderLog
<1>4. ASSUME NEW a \in TermHistories, BeginsWith(propHist[c], n, a) PROVE a = propHist[p]
  <2>1. Len(a) = Len(propHist[p]) /\ \A j \in 1..Len(a) : a[j] = propHist[p][j]
    BY <1>2, <1>4 DEF BeginsWith, n
  <2> QED BY <1>1, <2>1, SameHistory
<1>5. ~BeginsWith(propHist[c], n, Root)
  BY <1>1, <1>4, RootFacts
<1>6. PICK r \in Proposers : Elected(r) /\ BeginsWith(propHist[c], n, propHist[r])
                               /\ Agree(propWal[c], propWal[r], propHist[c][n + 1].lsn)
  BY <1>3, <1>5 DEF Origin
<1>7. propHist[r] = propHist[p]
  BY <1>4, <1>6, LogTypes
<1>8. r = p
  <2>1. propTerm[r] = propTerm[p]
    BY <1>6, <1>7, LeaderFacts
  <2> QED BY <1>6, <2>1, SameLeader
<1>9. Len(propWal[c]) \in Nat /\ Len(propWal[p]) \in Nat /\ propHist[c][n + 1].lsn \in Nat
  BY <1>1, <1>3, LogTypes
<1> QED BY <1>2, <1>6, <1>8, <1>9, AgreeBelow

(* Durable WAL that holds what p wrote up to l has p's records there.      *)
LEMMA HoldsAgree ==
    ASSUME TypeInv, VotesInv, LogInv, NEW p \in Proposers, Elected(p), NEW th, NEW w, Len(w) \in Nat,
           NEW f \in Nat, NEW t, HasDurable(th, w, f, t), NEW l \in Nat, Holds(th, f, propHist[p], l)
    PROVE  Agree(w, propWal[p], l)
<1>1. propHist[p] \in TermHistories /\ propHist[p] # Root /\ propHist[p] # <<>> /\ Len(propHist[p]) >= 1
      /\ Len(propHist[p]) \in Nat
  BY LeaderHistory, LeaderFacts
<1>2. th # Root
  <2>1. CASE th = propHist[p]
    BY <1>1, <2>1
  <2>2. CASE Continues(th, propHist[p], l)
    <3> DEFINE m == Len(propHist[p])
               n == Len(Root)
    <3>1. n \in Nat /\ n <= 1
      BY RootHistory
    <3>2. m \in Nat /\ m >= 1
      BY LeaderFacts
    <3> HIDE DEF m, n
    <3>3. ~(m < n)
      BY <3>1, <3>2
    <3> QED BY <2>2, <3>3 DEF Continues, m, n
  <2> QED BY <2>1, <2>2 DEF Holds
<1>3. PICK x \in Proposers : /\ Elected(x) /\ th = propHist[x] /\ Agree(w, propWal[x], f)
  BY <1>2 DEF HasDurable
<1>4. l <= f /\ Len(propWal[x]) \in Nat /\ Len(propWal[p]) \in Nat
  BY LogTypes DEF Holds
<1>5. Agree(w, propWal[x], l)
  BY <1>3, <1>4, AgreeBelow
<1>6. CASE th = propHist[p]
  <2>1. propTerm[x] = propTerm[p]
    BY <1>3, <1>6, LeaderFacts
  <2>2. x = p
    BY <1>3, <2>1, SameLeader
  <2> QED BY <1>5, <2>2
<1>7. CASE Continues(th, propHist[p], l)
  <2>1. Agree(propWal[x], propWal[p], l)
    BY <1>3, <1>7, ContinuesAgree
  <2> QED BY <1>5, <2>1, AgreeTransitive
<1> QED BY <1>6, <1>7 DEF Holds

(* Election: a vote at least as high as one that holds what p wrote holds  *)
(* it too, unless p cannot commit it any more.                             *)
LEMMA HighestVoteHolds ==
    ASSUME TypeInv, VotesInv, LogInv, NEW A, AckInv(A), NEW p \in Proposers, Elected(p), NEW l \in Lsns,
           PropTermStartLsn(p) <= l,
           NEW v, NEW vw, NEW vt, HasDurable(v.hist, vw, v.flush, vt), v.flush \in Nat,
           Holds(v.hist, v.flush, propHist[p], l),
           NEW d, NEW dw, NEW dt, HasDurable(d.hist, dw, d.flush, dt), d.flush \in Nat,
           VoteLeq(v, d)
    PROVE  Holds(d.hist, d.flush, propHist[p], l) \/ Blocked(A, p, l)
<1>1. /\ propHist[p] \in TermHistories /\ propHist[p] # <<>> /\ HighestTerm(propHist[p]) = propTerm[p]
      /\ propTerm[p] \in Nat /\ propTerm[p] >= 1 /\ l \in Nat
      /\ Len(propHist[p]) \in Nat /\ Len(propHist[p]) >= 1
      /\ propHist[p][Len(propHist[p])].term = propTerm[p]
  BY LeaderHistory, LeaderFacts, ConstantsType
<1>2. v.hist \in TermHistories /\ Ascending(v.hist) /\ d.hist \in TermHistories
  BY DurableAscends
<1>3. HighestTerm(v.hist) \in Nat /\ HighestTerm(v.hist) >= propTerm[p]
      /\ (HighestTerm(v.hist) = propTerm[p] => v.hist = propHist[p])
  <2>1. CASE v.hist = propHist[p]
    BY <1>1, <2>1
  <2>2. CASE Continues(v.hist, propHist[p], l)
    <3> DEFINE h == v.hist
               n == Len(propHist[p])
    <3>1. Len(h) \in Nat /\ n < Len(h) /\ h[n] = propHist[p][n] /\ n \in 1..Len(h) /\ Len(h) \in 1..Len(h)
      <4>1. Len(h) \in Nat
        BY <1>2, HistoryType
      <4>2. n < Len(h) /\ \A j \in 1..n : h[j] = propHist[p][j]
        BY <2>2 DEF Continues, BeginsWith
      <4> QED BY <1>1, <4>1, <4>2
    <3>2. h[n].term < h[Len(h)].term
      BY <1>2, <3>1, AscendingFacts
    <3>3. h[Len(h)].term \in Nat /\ h # <<>>
      BY <1>2, <3>1, HistoryType
    <3>4. HighestTerm(h) = h[Len(h)].term
      BY <3>3 DEF HighestTerm
    <3>5. h[n].term = propTerm[p]
      BY <1>1, <3>1
    <3> HIDE DEF h, n
    <3>6. HighestTerm(h) \in Nat /\ HighestTerm(h) > propTerm[p]
      BY <1>1, <3>2, <3>3, <3>4, <3>5
    <3> QED BY <1>1, <3>6 DEF h
  <2> QED BY <2>1, <2>2 DEF Holds
<1>4. HighestTerm(d.hist) \in Nat
  BY <1>2, HistoryType DEF HighestTerm
<1>5. HighestTerm(d.hist) >= propTerm[p]
  BY <1>1, <1>3, <1>4 DEF VoteLeq
<1>6. d.hist # Root
  BY <1>1, <1>5, RootHistory
<1>7. PICK x \in Proposers : Elected(x) /\ d.hist = propHist[x] /\ PropTermStartLsn(x) <= d.flush
  BY <1>6 DEF HasDurable
<1>8. HighestTerm(d.hist) = propTerm[x] /\ propTerm[x] \in Nat /\ PropTermStartLsn(x) \in Nat
  BY <1>7, LeaderHistory
<1>9. CASE propTerm[x] = propTerm[p]
  <2>1. x = p
    BY <1>7, <1>9, SameLeader
  <2>2. v.flush <= d.flush /\ l <= v.flush
    <3>1. HighestTerm(v.hist) = HighestTerm(d.hist)
      BY <1>1, <1>3, <1>4, <1>8, <1>9 DEF VoteLeq
    <3>2. ~(HighestTerm(v.hist) < HighestTerm(d.hist))
      BY <1>4, <3>1
    <3> QED BY <3>2 DEF VoteLeq, Holds
  <2>3. l <= d.flush
    BY <1>1, <2>2
  <2> QED BY <1>7, <2>1, <2>3 DEF Holds
<1>10. CASE propTerm[p] < propTerm[x]
  <2>1. Continues(propHist[x], propHist[p], l) \/ Blocked(A, p, l)
    BY <1>7, <1>10 DEF AckInv, LeaderKeeps
  <2>2. ASSUME Continues(propHist[x], propHist[p], l) PROVE l <= d.flush
    <3> DEFINE h == propHist[x]
               n == Len(propHist[p])
    <3>1. /\ Len(h) \in Nat /\ n < Len(h) /\ l <= h[n + 1].lsn /\ n \in Nat
      BY <1>1, <1>7, <2>2, LeaderFacts DEF Continues
    <3>2. n + 1 \in 1..Len(h) /\ Len(h) \in 1..Len(h) /\ n + 1 <= Len(h)
      BY <1>1, <3>1
    <3>3. h \in TermHistories /\ Ascending(h) /\ h[Len(h)].lsn = PropTermStartLsn(x)
      BY <1>7, LeaderHistory
    <3>4. h[n + 1].lsn <= h[Len(h)].lsn
      BY <3>2, <3>3, AscendingFacts
    <3>5. h[n + 1].lsn \in Nat
      BY <3>2, <3>3, HistoryType
    <3> HIDE DEF h, n
    <3>6. l <= PropTermStartLsn(x)
      BY <1>1, <1>8, <3>1, <3>3, <3>4, <3>5
    <3> QED BY <1>1, <1>7, <1>8, <3>6
  <2> QED BY <1>7, <2>1, <2>2 DEF Holds
<1> QED BY <1>1, <1>5, <1>8, <1>9, <1>10

-----------------------------------------------------------------------------
(* What the steps have in common, for acknowledgements A before and B      *)
(* after the step.                                                         *)

(* Only a follower of p acknowledges more, what it then has on disk.       *)
AcksStep(A, B) ==
    \A p \in Proposers, s \in Safekeepers :
      \/ B[p][s] = A[p][s]
      \/ /\ A[p][s] <= B[p][s] /\ Elected(p) /\ term[s] = propTerm[p] /\ term'[s] = propTerm[p]
         /\ hist'[s] = propHist[p] /\ B[p][s] = flushLsn'[s] /\ B[p][s] <= AvailableLsn(p)

(* A safekeeper keeps its WAL, or what it has in common with the leader of *)
(* its term.                                                               *)
KeeperStep(s) ==
    /\ term[s] <= term'[s]
    /\ \/ hist'[s] = hist[s] /\ flushLsn[s] <= flushLsn'[s]
       \/ \E r \in Proposers :
            /\ Elected(r) /\ term[s] <= propTerm[r] /\ term'[s] = propTerm[r]
            /\ hist'[s] = hist[s] \/ hist'[s] = propHist[r]
            /\ ExpectedStart(r, s) <= flushLsn'[s]

(* All safekeepers.                                                        *)
KeepersStep == \A s \in Safekeepers : KeeperStep(s)

(* A vote tells what s has on disk, an acknowledgement no more than that.  *)
AnswersStep(B) ==
    \A p \in Proposers, s \in Safekeepers :
      \/ rsp'[p][s] = rsp[p][s] \/ rsp'[p][s] = None
      \/ /\ rsp'[p][s].type = "vote"
         /\ rsp'[p][s].hist = UpTo(hist'[s], flushLsn'[s]) /\ rsp'[p][s].flush = flushLsn'[s]
      \/ /\ rsp'[p][s].type = "ack"
         /\ rsp'[p][s].term = propTerm'[p] => rsp'[p][s].flush <= B[p][s]

(* A proposer learns of acknowledgements in its term.                      *)
AcksRead ==
    \A p \in Proposers, s \in Safekeepers :
      \/ ack'[p][s] = ack[p][s] \/ ack'[p][s] = 0
      \/ /\ rsp[p][s] # None /\ rsp[p][s].type = "ack" /\ rsp[p][s].term = propTerm[p]
         /\ ack'[p][s] = rsp[p][s].flush

(* A new leader continues what may be committed.                           *)
NewLeadersKeep(A) ==
    \A c \in Proposers : ~Elected(c) /\ Elected(c)' =>
      \A p \in Proposers : Elected(p) /\ propTerm[p] < propTerm'[c] =>
        \A l \in Lsns : PropTermStartLsn(p) <= l =>
          Continues(propHist'[c], propHist[p], l) \/ Blocked(A, p, l)

(* What A and B range over.                                                *)
AckTypes == [Proposers -> [Safekeepers -> Lsns]]

(* Acknowledgements are LSNs, and only leaders have some.                  *)
LEMMA AckFacts ==
    ASSUME NEW A, AckInv(A), NEW p \in Proposers, NEW s \in Safekeepers
    PROVE  /\ A[p][s] \in Nat /\ (A[p][s] # 0 => Elected(p))
           /\ (~Elected(p) => A[p][s] = 0)
           /\ AckedBy(A, p, s) /\ SafekeeperKeeps(A, p, s)
           /\ (A[p][s] # 0 => propTerm[p] <= term[s] /\ A[p][s] <= AvailableLsn(p))
BY ConstantsType DEF AckInv, AckedBy

(* What cannot be committed any more never can be.                         *)
LEMMA BlockedStable ==
    ASSUME TypeInv, TypeInv', LeadersGrow, NEW A \in AckTypes, NEW B \in AckTypes,
           AcksStep(A, B), KeepersStep, NEW p \in Proposers, Elected(p), NEW l \in Lsns,
           Blocked(A, p, l)
    PROVE  Blocked(B, p, l)'
<1> DEFINE S == {s \in Safekeepers : propTerm[p] < term[s] /\ A[p][s] < l}
           T == {s \in Safekeepers : propTerm'[p] < term'[s] /\ B[p][s] < l}
<1>1. propTerm'[p] = propTerm[p] /\ propTerm[p] \in Nat
  BY LogTypes DEF LeadersGrow
<1>2. ASSUME NEW s \in S PROVE s \in T
  <2>1. s \in Safekeepers /\ term[s] \in Nat /\ term'[s] \in Nat
    BY LogTypes, ConstantsType DEF TypeInv, TypeOK, SkTypeOK
  <2>2. term[s] <= term'[s]
    BY <2>1 DEF KeepersStep, KeeperStep
  <2>3. propTerm[p] < term[s] /\ term[s] # propTerm[p]
    BY <1>1, <2>1
  <2>4. B[p][s] = A[p][s]
    BY <2>1, <2>3 DEF AcksStep
  <2>5. propTerm'[p] < term'[s]
    BY <1>1, <2>1, <2>2, <2>3
  <2> QED BY <2>1, <2>4, <2>5
<1>3. S \in SUBSET Safekeepers /\ T \in SUBSET Safekeepers /\ S \subseteq T /\ HasQuorum(S)
  BY <1>2 DEF Blocked
<1> HIDE DEF S, T
<1>4. HasQuorum(T)
  BY <1>3, QuorumGrows
<1> QED BY <1>4 DEF Blocked, T, HasQuorum, Quorum

(* Where a leader starts on a safekeeper that holds what it continues.     *)
LEMMA StartsAbove ==
    ASSUME TypeInv, LogInv, NEW r \in Proposers, NEW p \in Proposers, NEW s \in Safekeepers,
           Elected(r), Elected(p), NEW l \in Nat, PropTermStartLsn(p) <= l,
           Holds(hist[s], flushLsn[s], propHist[p], l),
           propHist[r] = propHist[p] \/ Continues(propHist[r], propHist[p], l)
    PROVE  ExpectedStart(r, s) \in Nat /\ l <= ExpectedStart(r, s)
<1> DEFINE u == UpTo(hist[s], flushLsn[s])
           f == flushLsn[s]
           ph == propHist[r]
           a == propHist[p]
           lcp == FindHighestCommonPoint(ph, u, f)
<1>1. hist[s] \in TermHistories /\ Ascending(hist[s]) /\ f \in Nat
  BY SafekeeperAscends, LogTypes
<1>2. u \in TermHistories /\ Ascending(u)
  BY <1>1, CutAscends
<1>3. ph \in TermHistories /\ Ascending(ph) /\ a \in TermHistories /\ a # <<>>
  BY LeaderHistory
<1>4. a[Len(a)].lsn <= l /\ l >= 1
  BY LeaderHistory
<1>5. Holds(u, f, a, l)
  BY <1>1, <1>3, <1>4, HoldsCut
<1>6. ph = a \/ Continues(ph, a, l)
  OBVIOUS
<1>7. ExpectedStart(r, s) = IF lcp = 0 THEN propHist[r][1].lsn ELSE lcp
  BY DEF ExpectedStart
<1> HIDE DEF u, f, ph, a
<1>8. lcp \in Nat /\ lcp >= l
  BY <1>1, <1>2, <1>3, <1>4, <1>5, <1>6, CommonPointAbove
<1> HIDE DEF lcp
<1> QED BY <1>4, <1>7, <1>8

(* A safekeeper loses nothing that p may still commit.                     *)
LEMMA StillHolds ==
    ASSUME TypeInv, VotesInv, LogInv, TypeInv', NEW A, AckInv(A), NEW p \in Proposers, NEW s \in Safekeepers,
           Elected(p), NEW l \in Lsns, PropTermStartLsn(p) <= l, l <= A[p][s],
           Holds(hist[s], flushLsn[s], propHist[p], l), KeeperStep(s)
    PROVE  Holds(hist'[s], flushLsn'[s], propHist[p], l) \/ Blocked(A, p, l)
<1>1. /\ l \in Nat /\ PropTermStartLsn(p) \in Nat /\ PropTermStartLsn(p) >= 1 /\ l >= 1
      /\ A[p][s] \in Nat /\ A[p][s] # 0 /\ propTerm[p] \in Nat
      /\ flushLsn[s] \in Nat /\ flushLsn'[s] \in Nat
  <2>1. l \in Nat /\ flushLsn[s] \in Nat /\ flushLsn'[s] \in Nat
    BY ConstantsType DEF TypeInv, TypeOK, SkTypeOK
  <2>2. PropTermStartLsn(p) \in Nat /\ PropTermStartLsn(p) >= 1 /\ propTerm[p] \in Nat
    BY LeaderHistory
  <2>3. A[p][s] \in Nat
    BY AckFacts
  <2> QED BY <2>1, <2>2, <2>3
<1>2. propTerm[p] <= term[s] /\ term[s] \in Nat
  BY <1>1, AckFacts, LogTypes
<1>3. CASE hist'[s] = hist[s] /\ flushLsn[s] <= flushLsn'[s]
  <2>1. l <= flushLsn'[s]
    BY <1>1, <1>3 DEF Holds
  <2> QED BY <1>3, <2>1 DEF Holds
<1>4. CASE \E r \in Proposers :
            /\ Elected(r) /\ term[s] <= propTerm[r] /\ term'[s] = propTerm[r]
            /\ hist'[s] = hist[s] \/ hist'[s] = propHist[r]
            /\ ExpectedStart(r, s) <= flushLsn'[s]
  <2>1. PICK r \in Proposers :
            /\ Elected(r) /\ term[s] <= propTerm[r]
            /\ hist'[s] = hist[s] \/ hist'[s] = propHist[r]
            /\ ExpectedStart(r, s) <= flushLsn'[s]
    BY <1>4
  <2>2. propTerm[r] \in Nat
    BY <2>1, LeaderHistory
  <2>3. propHist[r] = propHist[p] \/ Continues(propHist[r], propHist[p], l) \/ Blocked(A, p, l)
    <3>1. CASE propTerm[p] = propTerm[r]
      BY <2>1, <3>1, SameLeader
    <3>2. CASE propTerm[p] < propTerm[r]
      <4>1. LeaderKeeps(A, r, p)
        BY DEF AckInv
      <4> QED BY <2>1, <3>2, <4>1 DEF LeaderKeeps
    <3> QED BY <1>1, <1>2, <2>1, <2>2, <3>1, <3>2
  <2>4. ASSUME propHist[r] = propHist[p] \/ Continues(propHist[r], propHist[p], l)
        PROVE  Holds(hist'[s], flushLsn'[s], propHist[p], l)
    <3>1. ExpectedStart(r, s) \in Nat /\ l <= ExpectedStart(r, s)
      BY <1>1, <2>1, <2>4, StartsAbove
    <3>2. l <= flushLsn'[s]
      BY <1>1, <2>1, <3>1
    <3> QED BY <2>1, <2>4, <3>2 DEF Holds
  <2> QED BY <2>3, <2>4
<1> QED BY <1>3, <1>4 DEF KeeperStep

(* VoteKeeps after the step, of a vote fixed before.                       *)
VoteKeepsNext(B, c, s, v) ==
    \A p \in Proposers : Elected(p)' /\ propTerm'[p] < propTerm'[c] =>
      \A l \in Lsns : PropTermStartLsn(p)' <= l /\ l <= B[p][s] =>
        Holds(v.hist, v.flush, propHist'[p], l) \/ Blocked(B, p, l)'

(* A step of these shapes keeps what was acknowledged.                     *)
LEMMA AckInvStep ==
    ASSUME TypeInv, VotesInv, LogInv, TypeInv', VotesInv', LogInv', LeadersGrow,
           NEW A, AckInv(A), NEW B \in AckTypes, AcksStep(A, B), KeepersStep, AnswersStep(B),
           VotesStep, AcksRead, NewLeadersKeep(A)
    PROVE  AckInv(B)'
<1>1. A \in AckTypes
  BY DEF AckInv, AckTypes
<1>2. ASSUME NEW p \in Proposers, Elected(p)
      PROVE  /\ Elected(p)' /\ propHist'[p] = propHist[p] /\ propTerm'[p] = propTerm[p]
             /\ PropTermStartLsn(p)' = PropTermStartLsn(p) /\ AvailableLsn(p) <= AvailableLsn(p)'
             /\ AvailableLsn(p) \in Nat /\ AvailableLsn(p)' \in Nat /\ propTerm[p] \in Nat
  <2>1. propHist'[p] = propHist[p] /\ propTerm'[p] = propTerm[p] /\ Extended(propWal[p], propWal'[p])
    BY <1>2 DEF LeadersGrow
  <2>2. Len(propWal[p]) \in Nat /\ Len(propWal'[p]) \in Nat /\ propTerm[p] \in Nat
    BY LogTypes, LogLength DEF TypeInv, TypeOK, WpTypeOK
  <2> QED BY <1>2, <2>1, <2>2 DEF Elected, PropTermStartLsn, AvailableLsn, Extended
<1>3. ASSUME NEW p \in Proposers, Elected(p), NEW l \in Lsns, Blocked(A, p, l)
      PROVE  Blocked(B, p, l)'
  BY <1>1, <1>3, BlockedStable
<1>4. ASSUME NEW p \in Proposers, NEW s \in Safekeepers
      PROVE  /\ A[p][s] \in Nat /\ B[p][s] \in Nat /\ A[p][s] <= B[p][s]
             /\ B[p][s] # 0 => Elected(p)
             /\ ~Elected(p) => B[p][s] = 0
             /\ term[s] \in Nat /\ term'[s] \in Nat /\ term[s] <= term'[s]
  <2>1. A[p][s] \in Nat /\ (A[p][s] # 0 => Elected(p))
    BY AckFacts
  <2>2. B[p][s] \in Nat
    BY ConstantsType DEF AckTypes
  <2>3. B[p][s] = A[p][s] \/ (A[p][s] <= B[p][s] /\ Elected(p))
    BY DEF AcksStep
  <2>4. term[s] \in Nat /\ term'[s] \in Nat /\ term[s] <= term'[s]
    BY LogTypes, ConstantsType DEF TypeInv, TypeOK, SkTypeOK, KeepersStep, KeeperStep
  <2> QED BY <2>1, <2>2, <2>3, <2>4
<1>5. ASSUME NEW p \in Proposers, Elected(p)'
      PROVE  PropTermStartLsn(p)' \in Nat /\ PropTermStartLsn(p)' >= 1
  <2>1. propHist'[p] \in TermHistories /\ propHist'[p] # <<>>
    BY <1>5 DEF TypeInv, TypeOK, WpTypeOK, Elected
  <2>2. Len(propHist'[p]) \in 1..Len(propHist'[p])
    BY <2>1, HistoryType
  <2> QED BY <2>1, <2>2, HistoryType DEF PropTermStartLsn
<1>6. ASSUME NEW p \in Proposers, NEW s \in Safekeepers PROVE AckedBy(B, p, s)'
  <2>1. AckedBy(A, p, s)
    BY AckFacts
  <2>2. ASSUME B[p][s] # 0
        PROVE  Elected(p)' /\ propTerm'[p] <= term'[s] /\ B[p][s] <= AvailableLsn(p)'
    <3>1. Elected(p) /\ A[p][s] \in Nat /\ B[p][s] \in Nat /\ term[s] \in Nat /\ term'[s] \in Nat
          /\ term[s] <= term'[s]
      BY <1>4, <2>2
    <3>2. /\ Elected(p)' /\ propTerm'[p] = propTerm[p] /\ propTerm[p] \in Nat
          /\ AvailableLsn(p) <= AvailableLsn(p)' /\ AvailableLsn(p) \in Nat /\ AvailableLsn(p)' \in Nat
      BY <1>2, <3>1
    <3>3. CASE B[p][s] = A[p][s]
      <4>1. propTerm[p] <= term[s] /\ A[p][s] <= AvailableLsn(p)
        BY <2>1, <2>2, <3>3 DEF AckedBy
      <4>2. propTerm[p] <= term'[s] /\ A[p][s] <= AvailableLsn(p)'
        BY <3>1, <3>2, <4>1
      <4> QED BY <3>2, <3>3, <4>2
    <3>4. CASE B[p][s] # A[p][s]
      <4>1. term'[s] = propTerm[p] /\ B[p][s] <= AvailableLsn(p)
        BY <3>4 DEF AcksStep
      <4>2. B[p][s] <= AvailableLsn(p)' /\ propTerm[p] <= propTerm[p]
        BY <3>1, <3>2, <4>1
      <4> QED BY <3>2, <4>1, <4>2
    <3> QED BY <3>3, <3>4
  <2>3. rsp[p][s] # None => propTerm'[p] = propTerm[p]
    BY DEF LogInv, LinkLog, LeadersGrow
  <2>4. A[p][s] \in Nat /\ B[p][s] \in Nat /\ A[p][s] <= B[p][s]
    BY <1>4
  <2>5. rsp[p][s] # None /\ rsp[p][s].type = "ack" /\ rsp[p][s].term = propTerm[p]
           => rsp[p][s].flush \in Nat /\ rsp[p][s].flush <= B[p][s]
    <3> SUFFICES ASSUME rsp[p][s] # None, rsp[p][s].type = "ack", rsp[p][s].term = propTerm[p]
                 PROVE  rsp[p][s].flush \in Nat /\ rsp[p][s].flush <= B[p][s]
      OBVIOUS
    <3>1. rsp[p][s] \in VoteResponses \cup AppendResponses \cup {None}
      BY DEF TypeInv, TypeOK, NetTypeOK
    <3>2. rsp[p][s].flush \in Lsns
      BY <3>1 DEF VoteResponses, AppendResponses
    <3>3. rsp[p][s].flush \in Nat
      BY <3>2, ConstantsType
    <3>4. rsp[p][s].flush <= A[p][s]
      BY <2>1 DEF AckedBy
    <3> QED BY <2>4, <3>3, <3>4
  <2>6. ack'[p][s] <= B[p][s]
    <3>1. CASE ack'[p][s] = ack[p][s]
      <4>1. ack[p][s] \in Nat /\ ack[p][s] <= A[p][s]
        BY <2>1, ConstantsType DEF AckedBy, TypeInv, TypeOK, LinkTypeOK
      <4> QED BY <2>4, <3>1, <4>1
    <3>2. CASE ack'[p][s] = 0
      BY <2>4, <3>2
    <3>3. CASE /\ rsp[p][s] # None /\ rsp[p][s].type = "ack" /\ rsp[p][s].term = propTerm[p]
               /\ ack'[p][s] = rsp[p][s].flush
      BY <2>5, <3>3
    <3> QED BY <3>1, <3>2, <3>3 DEF AcksRead
  <2>7. rsp'[p][s] # None => (rsp'[p][s].type = "ack" /\ rsp'[p][s].term = propTerm'[p]
                                => rsp'[p][s].flush <= B[p][s])
    BY <2>3, <2>5 DEF AnswersStep
  <2> QED BY <2>2, <2>6, <2>7 DEF AckedBy
<1>7. ASSUME NEW p \in Proposers, NEW s \in Safekeepers PROVE SafekeeperKeeps(B, p, s)'
  <2> SUFFICES ASSUME Elected(p)', NEW l \in Lsns, PropTermStartLsn(p)' <= l, l <= B[p][s]
               PROVE  Holds(hist'[s], flushLsn'[s], propHist'[p], l) \/ Blocked(B, p, l)'
    BY DEF SafekeeperKeeps, Keeps
  <2>1. l \in Nat /\ l >= 1 /\ B[p][s] \in Nat /\ B[p][s] # 0 /\ A[p][s] \in Nat
    <3>1. l \in Nat /\ PropTermStartLsn(p)' \in Nat /\ PropTermStartLsn(p)' >= 1
      BY <1>5, ConstantsType
    <3>2. B[p][s] \in Nat /\ A[p][s] \in Nat
      BY <1>4
    <3> QED BY <3>1, <3>2
  <2>2. Elected(p)
    BY <1>4, <2>1
  <2>3. propHist'[p] = propHist[p] /\ PropTermStartLsn(p) <= l
    BY <1>2, <2>2
  <2>4. CASE l <= A[p][s]
    <3>1. Holds(hist[s], flushLsn[s], propHist[p], l) \/ Blocked(A, p, l)
      <4>1. SafekeeperKeeps(A, p, s)
        BY AckFacts
      <4> QED BY <2>2, <2>3, <2>4, <4>1 DEF SafekeeperKeeps, Keeps
    <3>2. ASSUME Holds(hist[s], flushLsn[s], propHist[p], l)
          PROVE  Holds(hist'[s], flushLsn'[s], propHist[p], l) \/ Blocked(A, p, l)
      <4>1. KeeperStep(s)
        BY DEF KeepersStep
      <4> QED BY <2>2, <2>3, <2>4, <3>2, <4>1, StillHolds
    <3> QED BY <1>3, <2>2, <2>3, <3>1, <3>2
  <2>5. CASE ~(l <= A[p][s])
    <3>1. B[p][s] # A[p][s]
      BY <2>5
    <3>2. hist'[s] = propHist[p] /\ B[p][s] = flushLsn'[s]
      BY <3>1 DEF AcksStep
    <3> QED BY <2>3, <3>2 DEF Holds
  <2> QED BY <2>4, <2>5
<1>8. ASSUME NEW c \in Proposers, NEW s \in Safekeepers, NEW v, VoteKeeps(A, c, s, v),
             s \in grantedTo[c], wpState[c] # "COLLECTING_TERMS"
      PROVE  VoteKeepsNext(B, c, s, v)
  <2> SUFFICES ASSUME NEW p \in Proposers, Elected(p)', propTerm'[p] < propTerm'[c],
                      NEW l \in Lsns, PropTermStartLsn(p)' <= l, l <= B[p][s]
               PROVE  Holds(v.hist, v.flush, propHist'[p], l) \/ Blocked(B, p, l)'
    BY DEF VoteKeepsNext
  <2>1. l \in Nat /\ l >= 1 /\ B[p][s] \in Nat /\ B[p][s] # 0
    <3>1. l \in Nat /\ PropTermStartLsn(p)' \in Nat /\ PropTermStartLsn(p)' >= 1
      BY <1>5, ConstantsType
    <3>2. B[p][s] \in Nat
      BY <1>4
    <3> QED BY <3>1, <3>2
  <2>2. Elected(p)
    BY <1>4, <2>1
  <2>3. propHist'[p] = propHist[p] /\ PropTermStartLsn(p) <= l /\ propTerm'[p] = propTerm[p]
    BY <1>2, <2>2
  <2>4. propTerm'[c] = propTerm[c]
    BY <1>8 DEF LeadersGrow
  <2>5. term[s] # propTerm[p]
    <3>1. propTerm[c] <= term[s]
      BY <1>8 DEF VotesInv, ElectionOK
    <3>2. propTerm[c] \in Nat /\ propTerm[p] \in Nat /\ term[s] \in Nat
      BY LogTypes
    <3> QED BY <2>3, <2>4, <3>1, <3>2
  <2>6. B[p][s] = A[p][s]
    BY <2>5 DEF AcksStep
  <2>7. Holds(v.hist, v.flush, propHist[p], l) \/ Blocked(A, p, l)
    BY <1>8, <2>2, <2>3, <2>4, <2>6 DEF VoteKeeps, Keeps
  <2> QED BY <1>3, <2>2, <2>3, <2>7
<1>9. ASSUME NEW c \in Proposers, NEW s \in Safekeepers PROVE VotesKeep(B, c, s)'
  <2>1. VotesKeep(A, c, s) /\ ElectionOK(c, s) /\ LinkLog(c, s)
    BY DEF AckInv, VotesInv, LogInv
  <2>2. ASSUME rsp[c][s] # None, rsp[c][s].type = "vote", rsp[c][s].given
        PROVE  VoteKeepsNext(B, c, s, rsp[c][s])
    <3>1. VoteKeeps(A, c, s, rsp[c][s]) /\ s \in grantedTo[c] /\ wpState[c] # "COLLECTING_TERMS"
      BY <2>1, <2>2 DEF VotesKeep, ElectionOK, LinkLog
    <3> QED BY <1>8, <3>1
  <2>3. ASSUME vote[c][s] # None
        PROVE  VoteKeepsNext(B, c, s, vote[c][s])
    <3>1. VoteKeeps(A, c, s, vote[c][s]) /\ s \in grantedTo[c] /\ wpState[c] # "COLLECTING_TERMS"
      BY <2>1, <2>3 DEF VotesKeep, ElectionOK
    <3> QED BY <1>8, <3>1
  <2>4. ASSUME rsp'[c][s].hist = UpTo(hist'[s], flushLsn'[s]), rsp'[c][s].flush = flushLsn'[s]
        PROVE  VoteKeepsNext(B, c, s, rsp'[c][s])
    <3> SUFFICES ASSUME NEW p \in Proposers, Elected(p)', NEW l \in Lsns,
                        PropTermStartLsn(p)' <= l, l <= B[p][s]
                 PROVE  \/ Holds(rsp'[c][s].hist, rsp'[c][s].flush, propHist'[p], l)
                        \/ Blocked(B, p, l)'
      BY DEF VoteKeepsNext
    <3> DEFINE th == hist'[s]
               f == flushLsn'[s]
               a == propHist'[p]
    <3>1. Holds(th, f, a, l) \/ Blocked(B, p, l)'
      BY <1>7 DEF SafekeeperKeeps, Keeps
    <3>2. hist'[s] \in TermHistories /\ Ascending(hist'[s])
      <4>1. hist'[s] \in TermHistories
        BY DEF TypeInv, TypeOK, SkTypeOK
      <4>2. hist'[s] = Root \/ \E r \in Proposers : Elected(r)' /\ hist'[s] = propHist'[r]
        BY DEF LogInv, SafekeeperLog, HasLog, Root
      <4>3. ASSUME NEW r \in Proposers, Elected(r)' PROVE Ascending(propHist'[r])
        BY <4>3 DEF LogInv, LeaderLog, Ascending
      <4> QED BY <4>1, <4>2, <4>3, RootHistory
    <3>3. th \in TermHistories /\ Ascending(th) /\ f \in Nat /\ l \in Nat
      <4>1. f \in Nat /\ l \in Nat
        BY ConstantsType DEF TypeInv, TypeOK, SkTypeOK
      <4> QED BY <3>2, <4>1
    <3>4. a \in TermHistories /\ a # <<>> /\ a[Len(a)].lsn <= l
      BY DEF TypeInv, TypeOK, WpTypeOK, Elected, PropTermStartLsn
    <3> HIDE DEF th, f, a
    <3>5. Holds(th, f, a, l) => Holds(UpTo(th, f), f, a, l)
      BY <3>3, <3>4, HoldsCut
    <3> QED BY <2>4, <3>1, <3>5 DEF th, f, a
  <2>5. ASSUME rsp'[c][s] # None, rsp'[c][s].type = "vote", rsp'[c][s].given
        PROVE  VoteKeepsNext(B, c, s, rsp'[c][s])
    <3>1. CASE rsp'[c][s] = rsp[c][s]
      BY <2>2, <2>5, <3>1
    <3>2. CASE rsp'[c][s].hist = UpTo(hist'[s], flushLsn'[s]) /\ rsp'[c][s].flush = flushLsn'[s]
      BY <2>4, <3>2
    <3> QED BY <2>5, <3>1, <3>2 DEF AnswersStep
  <2>6. ASSUME vote'[c][s] # None PROVE VoteKeepsNext(B, c, s, vote'[c][s])
    BY <2>2, <2>3, <2>6 DEF VotesStep
  <2> QED BY <2>5, <2>6 DEF VotesKeep, VoteKeeps, Keeps, VoteKeepsNext
<1>10. ASSUME NEW c \in Proposers, NEW p \in Proposers PROVE LeaderKeeps(B, c, p)'
  <2> SUFFICES ASSUME Elected(c)', Elected(p)', propTerm'[p] < propTerm'[c],
                      NEW l \in Lsns, PropTermStartLsn(p)' <= l
               PROVE  Continues(propHist'[c], propHist'[p], l) \/ Blocked(B, p, l)'
    BY DEF LeaderKeeps
  <2>1. CASE Elected(p)
    <3>1. propHist'[p] = propHist[p] /\ PropTermStartLsn(p) <= l /\ propTerm'[p] = propTerm[p]
      BY <1>2, <2>1
    <3>2. Continues(propHist'[c], propHist[p], l) \/ Blocked(A, p, l)
      <4>1. CASE Elected(c)
        <5>1. propHist'[c] = propHist[c] /\ propTerm'[c] = propTerm[c] /\ LeaderKeeps(A, c, p)
          BY <1>2, <4>1 DEF AckInv
        <5> QED BY <2>1, <3>1, <4>1, <5>1 DEF LeaderKeeps
      <4>2. CASE ~Elected(c)
        BY <2>1, <3>1, <4>2 DEF NewLeadersKeep
      <4> QED BY <4>1, <4>2
    <3> QED BY <1>3, <2>1, <3>1, <3>2
  <2>2. CASE ~Elected(p)
    <3> DEFINE S == grantedTo'[c]
               T == {s \in Safekeepers : propTerm'[p] < term'[s] /\ B[p][s] < l}
    <3>1. HasQuorum(S) /\ S \in SUBSET Safekeepers
      <4>1. (propHist[c] # <<>> => HasQuorum(grantedTo[c]))'
        BY DEF VotesInv
      <4> QED BY <4>1 DEF Elected, TypeInv, TypeOK, AuxTypeOK, HasQuorum, Quorum
    <3>2. ASSUME NEW s \in S PROVE s \in T
      <4>1. s \in Safekeepers /\ term'[s] \in Nat /\ B[p][s] = 0
        BY <1>4, <2>2, <3>1
      <4>2. propTerm'[c] <= term'[s]
        BY <4>1 DEF VotesInv, ElectionOK
      <4>3. propTerm'[p] \in Nat /\ propTerm'[c] \in Nat
        BY ConstantsType DEF TypeInv, TypeOK, WpTypeOK
      <4>4. B[p][s] < l
        <5>1. l \in Nat /\ PropTermStartLsn(p)' \in Nat /\ PropTermStartLsn(p)' >= 1
          BY <1>5, ConstantsType
        <5> QED BY <4>1, <5>1
      <4> QED BY <4>1, <4>2, <4>3, <4>4
    <3>3. S \subseteq T /\ T \in SUBSET Safekeepers
      BY <3>2
    <3> HIDE DEF S, T
    <3>4. HasQuorum(T)
      BY <3>1, <3>3, QuorumGrows
    <3> QED BY <3>4 DEF Blocked, T, HasQuorum, Quorum
  <2> QED BY <2>1, <2>2
<1>11. B \in [Proposers -> [Safekeepers -> Lsns]]
  BY DEF AckTypes
<1> QED BY <1>6, <1>7, <1>9, <1>10, <1>11 DEF AckInv, Lsns

-----------------------------------------------------------------------------
(* Election.                                                               *)

(* A new term after WAL that holds a history continues that history.       *)
LEMMA AppendContinues ==
    ASSUME NEW th \in TermHistories, NEW a \in TermHistories, NEW f \in Nat, NEW l \in Nat,
           Holds(th, f, a, l), NEW t
    PROVE  Continues(Append(th, TermLsn(t, f)), a, l)
<1> DEFINE e == TermLsn(t, f)
           b == Append(th, e)
<1>1. Len(b) = Len(th) + 1 /\ b[Len(th) + 1] = e /\ \A i \in 1..Len(th) : b[i] = th[i]
  BY AppendHistory
<1>2. Len(th) \in Nat /\ Len(a) \in Nat /\ l <= f
  BY HistoryType DEF Holds
<1>3. e.lsn = f
  BY DEF TermLsn
<1> HIDE DEF e, b
<1>4. CASE th = a
  BY <1>1, <1>2, <1>3, <1>4 DEF Continues, BeginsWith, e, b
<1>5. CASE Continues(th, a, l)
  <2>1. Len(a) < Len(th) /\ l <= th[Len(a) + 1].lsn /\ \A j \in 1..Len(a) : th[j] = a[j]
    BY <1>5 DEF Continues, BeginsWith
  <2>2. Len(a) + 1 \in 1..Len(th) /\ \A j \in 1..Len(a) : j \in 1..Len(th)
    BY <1>2, <2>1
  <2>3. Continues(b, a, l)
    <3>1. Len(a) < Len(b) /\ b[Len(a) + 1] = th[Len(a) + 1] /\ \A j \in 1..Len(a) : b[j] = a[j]
      BY <1>1, <1>2, <2>1, <2>2
    <3> QED BY <2>1, <3>1 DEF Continues, BeginsWith
  <2> QED BY <2>3 DEF b, e
<1> QED BY <1>4, <1>5 DEF Holds

(* The highest vote of a quorum has all that may have been committed.      *)
LEMMA ElectionKeeps ==
    ASSUME TypeInv, VotesInv, LogInv, NEW A, AckInv(A), NEW c \in Proposers, NEW s \in Safekeepers,
           VoteArrives(c, s), ~VoteFatal(c, s), wpState[c] = "CAMPAIGN", HasQuorum(Voters(c, s)),
           NEW d \in DonorChoices(c, s), NEW p \in Proposers, Elected(p),
           propTerm[p] < propTerm[c], NEW l \in Lsns, PropTermStartLsn(p) <= l
    PROVE  \/ Blocked(A, p, l)
           \/ /\ Holds(VoteOf(c, s, d).hist, VoteOf(c, s, d).flush, propHist[p], l)
              /\ \E r \in Voters(c, s) : VoteOf(c, s, r).flush # 0
<1> DEFINE V == Voters(c, s)
           T == {x \in Safekeepers : propTerm[p] < term[x] /\ A[p][x] < l}
<1>1. /\ V \in SUBSET Safekeepers /\ V \subseteq grantedTo[c]
      /\ \A r \in V : r = s \/ vote[c][r] # None
      /\ d \in Safekeepers /\ (d = s \/ vote[c][d] # None)
  BY VoteOfType, DonorType, CountedVotes
<1>2. \A r \in Safekeepers : A[p][r] \in Nat /\ term[r] \in Nat
  BY AckFacts, LogTypes
<1>3. l \in Nat /\ l >= 1 /\ propTerm[p] \in Nat /\ propTerm[c] \in Nat /\ PropTermStartLsn(p) \in Nat
  <2>1. PropTermStartLsn(p) >= 1 /\ PropTermStartLsn(p) \in Nat /\ propTerm[p] \in Nat
    BY LeaderHistory
  <2> QED BY <2>1, LogTypes, ConstantsType
<1>4. CASE \A r \in V : A[p][r] < l
  <2>1. ASSUME NEW r \in V PROVE r \in T
    <3>1. propTerm[c] <= term[r] /\ r \in Safekeepers
      BY <1>1 DEF VotesInv, ElectionOK
    <3>2. propTerm[p] < term[r]
      BY <1>2, <1>3, <3>1
    <3> QED BY <1>4, <3>1, <3>2
  <2>2. V \subseteq T /\ T \in SUBSET Safekeepers
    BY <2>1
  <2> HIDE DEF V, T
  <2>3. HasQuorum(T)
    BY <1>1, <2>2, QuorumGrows DEF V
  <2> QED BY <2>3 DEF Blocked, T
<1>5. CASE \E r \in V : ~(A[p][r] < l)
  <2>1. PICK r \in V : l <= A[p][r]
    BY <1>1, <1>2, <1>3, <1>5
  <2> DEFINE v == VoteOf(c, s, r)
             w == VoteOf(c, s, d)
  <2>2. r \in Safekeepers /\ (r = s \/ vote[c][r] # None)
    BY <1>1
  <2>3. VoteKeeps(A, c, r, v)
    <3>1. VotesKeep(A, c, r)
      BY <2>2 DEF AckInv
    <3>2. CASE r = s
      <4>1. rsp[c][s] # None /\ rsp[c][s].type = "vote" /\ rsp[c][s].given
        BY DEF VoteArrives, VoteFatal
      <4> QED BY <3>1, <3>2, <4>1 DEF VotesKeep, VoteOf
    <3>3. CASE r # s
      BY <2>2, <3>1, <3>3 DEF VotesKeep, VoteOf
    <3> QED BY <3>2, <3>3
  <2>4. Holds(v.hist, v.flush, propHist[p], l) \/ Blocked(A, p, l)
    BY <2>1, <2>3 DEF VoteKeeps, Keeps
  <2>5. ASSUME Holds(v.hist, v.flush, propHist[p], l)
        PROVE  /\ Holds(w.hist, w.flush, propHist[p], l) \/ Blocked(A, p, l)
               /\ v.flush # 0
    <3>1. /\ VoteLog(c, v) /\ v.flush \in Nat /\ VoteLog(c, w) /\ w.flush \in Nat
      BY <1>1, <2>2, CountedVote
    <3>2. HasDurable(v.hist, v.wal, v.flush, v.term) /\ HasDurable(w.hist, w.wal, w.flush, w.term)
      BY <3>1 DEF VoteLog
    <3>3. v.flush # 0
      <4>1. l <= v.flush
        BY <2>5 DEF Holds
      <4> HIDE DEF v
      <4> QED BY <1>3, <3>1, <4>1
    <3>4. VoteLeq(v, w)
      BY <3>3 DEF DonorChoices
    <3> HIDE DEF v, w
    <3> QED BY <2>5, <3>1, <3>2, <3>3, <3>4, HighestVoteHolds
  <2> QED BY <2>4, <2>5
<1> QED BY <1>4, <1>5

(* A proposer that becomes elected continues it.                           *)
LEMMA BecomeElectedKeeps ==
    ASSUME TypeInv, VotesInv, LogInv, NEW A, AckInv(A), NEW c \in Proposers, NEW s \in Safekeepers,
           VoteArrives(c, s), ~VoteFatal(c, s), wpState[c] = "CAMPAIGN", HasQuorum(Voters(c, s)),
           NEW d \in DonorChoices(c, s), BecomeElected(c, s, d), UNCHANGED propTerm
    PROVE  NewLeadersKeep(A)
<1> DEFINE w == VoteOf(c, s, d)
           bootstrap == \A r \in Voters(c, s) : VoteOf(c, s, r).flush = 0
           start == IF bootstrap THEN FirstLsn ELSE w.flush
           th == Append(w.hist, TermLsn(propTerm[c], start))
<1>1. propHist' = [propHist EXCEPT ![c] = th]
  BY DEF BecomeElected
<1>2. propHist'[c] = th /\ \A r \in Proposers : r # c => propHist'[r] = propHist[r]
  <2> HIDE DEF th
  <2> QED BY <1>1 DEF TypeInv, TypeOK, WpTypeOK
<1>3. w.hist \in TermHistories /\ w.flush \in Nat
  <2>1. d \in Safekeepers /\ (d = s \/ vote[c][d] # None)
    BY DonorType
  <2> QED BY <2>1, CountedVote
<1> SUFFICES ASSUME NEW x \in Proposers, ~Elected(x), Elected(x)', NEW p \in Proposers, Elected(p),
                    propTerm[p] < propTerm'[x], NEW l \in Lsns, PropTermStartLsn(p) <= l
             PROVE  Continues(propHist'[x], propHist[p], l) \/ Blocked(A, p, l)
  BY DEF NewLeadersKeep
<1>4. x = c
  BY <1>2 DEF Elected
<1>5. CASE ~Blocked(A, p, l)
  <2>1. Holds(w.hist, w.flush, propHist[p], l) /\ ~bootstrap
    BY <1>4, <1>5, ElectionKeeps
  <2>2. th = Append(w.hist, TermLsn(propTerm[c], w.flush))
    BY <2>1
  <2>3. propHist[p] \in TermHistories /\ l \in Nat
    BY LogTypes, ConstantsType
  <2> HIDE DEF w, th
  <2>4. Continues(th, propHist[p], l)
    BY <1>3, <2>1, <2>2, <2>3, AppendContinues
  <2> QED BY <1>2, <1>4, <2>4
<1> QED BY <1>5

-----------------------------------------------------------------------------
(* Every step keeps what was acknowledged.                                 *)

(* Replies, votes and acknowledgements are at most forgotten.              *)
QuietLinks ==
    \A p \in Proposers, s \in Safekeepers :
      /\ rsp'[p][s] = rsp[p][s] \/ rsp'[p][s] = None
      /\ vote'[p][s] = vote[p][s] \/ vote'[p][s] = None
      /\ ack'[p][s] = ack[p][s] \/ ack'[p][s] = 0

(* Logs, terms and histories of leaders: what steps of proposers do.       *)
LEMMA NextGrows ==
    ASSUME TypeInv, VotesInv, LogInv, [Next]_vars
    PROVE  LeadersGrow
<1>1. ASSUME UNCHANGED wpVars PROVE LeadersGrow
  BY <1>1, ProposersRest DEF wpVars
<1>2. ASSUME UNCHANGED vars PROVE LeadersGrow
  BY <1>1, <1>2 DEF vars
<1>3. ASSUME NEW s \in Safekeepers, SafekeeperStep(s) PROVE LeadersGrow
  <2>1. ASSUME NEW k \in Chan, NEW p \in Proposers,
               \/ HandleVoteRequest(k, p, s) \/ IgnoreElected(k, p, s) \/ RefuseElected(k, p, s)
               \/ RefuseAppend(k, p, s) \/ AppendOfOldTerm(k, p, s) \/ HandleFlush(k, p, s)
               \/ HandleElected(k, p, s) \/ HandleAppendRequest(k, p, s) \/ CrashInElected(k, p, s)
        PROVE  UNCHANGED wpVars
    <3>1. CASE HandleVoteRequest(k, p, s) \/ IgnoreElected(k, p, s) \/ RefuseElected(k, p, s)
      BY <3>1 DEF HandleVoteRequest, IgnoreElected, RefuseElected
    <3>2. CASE RefuseAppend(k, p, s) \/ AppendOfOldTerm(k, p, s) \/ HandleFlush(k, p, s)
      BY <3>2 DEF RefuseAppend, AppendOfOldTerm, HandleFlush
    <3>3. CASE HandleElected(k, p, s) \/ HandleAppendRequest(k, p, s)
      BY <3>3 DEF HandleElected, HandleAppendRequest
    <3>4. CASE CrashInElected(k, p, s)
      BY <3>4 DEF CrashInElected, Boot
    <3> QED BY <2>1, <3>1, <3>2, <3>3, <3>4
  <2>2. CASE SaveControlFile(s) \/ TermBump(s) \/ PublishInfo(s) \/ RecordSafekeeperInfo(s)
    BY <1>1, <2>2 DEF SaveControlFile, TermBump, PublishInfo, RecordSafekeeperInfo
  <2>3. CASE Crash(s)
    BY <1>1, <2>3 DEF Crash, Boot
  <2> QED BY <1>1, <1>3, <2>1, <2>2, <2>3 DEF SafekeeperStep
<1>4. ASSUME NEW p \in Proposers, Fatal(p) PROVE LeadersGrow
  <2>1. /\ wpState' = [wpState EXCEPT ![p] = "DEAD"] /\ UNCHANGED <<propTerm, propHist, propWal>>
    BY <1>4 DEF Fatal
  <2>2. \A r \in Proposers : wpState[r] # "COLLECTING_TERMS" => wpState'[r] # "COLLECTING_TERMS"
    BY <2>1 DEF TypeInv, TypeOK, WpTypeOK
  <2> QED BY <2>1, <2>2, ProposersKept
<1>5. ASSUME NEW p \in Proposers, NEW s \in Safekeepers, GreetCollecting(p, s) \/ GreetStartsCampaign(p, s)
      PROVE  LeadersGrow
  <2>1. /\ wpState[p] = "COLLECTING_TERMS" /\ UNCHANGED <<propHist, propWal>>
        /\ wpState' = wpState \/ wpState' = [wpState EXCEPT ![p] = "CAMPAIGN"]
        /\ \E t : propTerm' = [propTerm EXCEPT ![p] = t]
    BY <1>5 DEF GreetCollecting, GreetStartsCampaign
  <2>2. \A r \in Proposers : r # p => wpState'[r] = wpState[r] /\ propTerm'[r] = propTerm[r]
    BY <2>1 DEF TypeInv, TypeOK, WpTypeOK
  <2> QED BY <2>1, <2>2, ProposersKept
<1>6. ASSUME NEW p \in Proposers, NEW s \in Safekeepers, NEW d, BecomeElected(p, s, d),
             wpState[p] = "CAMPAIGN", UNCHANGED propTerm
      PROVE  LeadersGrow
  <2>1. ~Elected(p)
    BY <1>6 DEF Elected, TypeInv, SupportInv, ProposerOK
  <2>2. /\ \E x : propHist' = [propHist EXCEPT ![p] = x]
        /\ \E x : propWal' = [propWal EXCEPT ![p] = x]
        /\ wpState' = [wpState EXCEPT ![p] = "ELECTED"]
    BY <1>6 DEF BecomeElected
  <2>3. /\ wpState'[p] = "ELECTED"
        /\ \A r \in Proposers : r # p => /\ propHist'[r] = propHist[r] /\ propWal'[r] = propWal[r]
                                         /\ wpState'[r] = wpState[r]
    BY <2>2 DEF TypeInv, TypeOK, WpTypeOK
  <2>4. \A r \in Proposers : r # p => Extended(propWal[r], propWal'[r])
    BY <2>3, LogTypes DEF Extended
  <2> QED BY <1>6, <2>1, <2>3, <2>4 DEF LeadersGrow
<1>7. ASSUME NEW p \in Proposers, NEW s \in Safekeepers, RecvVoteElects(p, s) PROVE LeadersGrow
  BY <1>4, <1>6, <1>7 DEF RecvVoteElects
<1>8. ASSUME NEW p \in Proposers, WriteWal(p) PROVE LeadersGrow
  <2> DEFINE e == TermLsn(propTerm[p], AvailableLsn(p))
             w == propWal[p]
  <2>1. /\ propWal' = [propWal EXCEPT ![p] = Append(w, e)]
        /\ UNCHANGED <<propHist, propTerm, wpState>>
    BY <1>8 DEF WriteWal, TypeInv, TypeOK, WpTypeOK
  <2>2. propWal'[p] = Append(w, e) /\ \A r \in Proposers : r # p => propWal'[r] = propWal[r]
    BY <2>1 DEF TypeInv, TypeOK, WpTypeOK
  <2>3. Extended(w, Append(w, e))
    <3> DEFINE R == [term : Terms, lsn : 1..MaxLsn]
    <3>1. w \in Seq(R)
      BY DEF TypeInv, TypeOK, WpTypeOK, Logs
    <3> HIDE DEF R, w, e
    <3> QED BY <3>1 DEF Extended
  <2>4. \A r \in Proposers : Extended(propWal[r], propWal'[r])
    <3>1. ASSUME NEW r \in Proposers, r # p PROVE Extended(propWal[r], propWal'[r])
      BY <2>2, <3>1, LogTypes DEF Extended
    <3> QED BY <2>2, <2>3, <3>1
  <2> QED BY <2>1, <2>4 DEF LeadersGrow
<1>9. ASSUME NEW p \in Proposers, ProposerStep(p) PROVE LeadersGrow
  <2>1. ASSUME NEW s \in Safekeepers,
               \/ GreetRejected(p, s) \/ RecvVoteRefused(p, s) \/ RecvAckFatal(p, s)
        PROVE  LeadersGrow
    BY <1>4, <2>1 DEF GreetRejected, RecvVoteRefused, RecvAckFatal
  <2>2. ASSUME NEW s \in Safekeepers,
               \/ GreetLate(p, s) \/ RecvVoteLate(p, s) \/ SendAppendRequest(p, s) \/ Disconnect(p, s)
        PROVE  LeadersGrow
    BY <1>1, <2>2 DEF GreetLate, RecvVoteLate, SendAppendRequest, Disconnect
  <2>3. ASSUME NEW s \in Safekeepers, RecvVoteCounted(p, s) \/ RecvAppendResponse(p, s)
        PROVE  LeadersGrow
    <3>1. UNCHANGED <<wpState, propTerm, propHist, propWal>>
      BY <2>3 DEF RecvVoteCounted, RecvAppendResponse
    <3> QED BY <3>1, ProposersRest
  <2>4. CASE Die(p)
    BY <1>4, <2>4 DEF Die
  <2> QED BY <1>5, <1>7, <1>8, <1>9, <2>1, <2>2, <2>3, <2>4 DEF ProposerStep
<1> QED BY <1>2, <1>3, <1>9 DEF Next

(* Safekeepers that are left alone keep what they have.                    *)
LEMMA KeepersRest ==
    ASSUME TypeInv, NEW s \in Safekeepers, term'[s] = term[s], hist'[s] = hist[s],
           flushLsn'[s] = flushLsn[s]
    PROVE  KeeperStep(s)
BY LogTypes DEF KeeperStep

(* A step that only forgets keeps what was acknowledged.                   *)
LEMMA AckQuiet ==
    ASSUME TypeInv, VotesInv, LogInv, TypeInv', VotesInv', LogInv', LeadersGrow,
           NEW A, AckInv(A), KeepersStep, QuietLinks, UNCHANGED propHist
    PROVE  AckInv(A)'
<1>1. A \in AckTypes /\ AcksStep(A, A)
  BY DEF AckInv, AckTypes, AcksStep
<1>2. AnswersStep(A) /\ VotesStep /\ AcksRead
  BY DEF QuietLinks, AnswersStep, VotesStep, AcksRead
<1>3. NewLeadersKeep(A)
  BY DEF NewLeadersKeep, Elected
<1> QED BY <1>1, <1>2, <1>3, AckInvStep

(* Everything written is flushed.                                          *)
LEMMA FlushKeeps ==
    ASSUME TypeInv, LogInv, NEW s \in Safekeepers, FlushWal(s), UNCHANGED hist,
           \A x \in Safekeepers : term[x] <= term'[x]
    PROVE  KeepersStep /\ flushLsn'[s] = WriteLsn(s)
<1>1. flushLsn'[s] = WriteLsn(s) /\ \A x \in Safekeepers : x # s => flushLsn'[x] = flushLsn[x]
  BY DEF FlushWal, TypeInv, TypeOK, SkTypeOK
<1>2. flushLsn[s] <= WriteLsn(s)
  <2>1. flushLsn[s] <= Len(wal[s]) + 1 /\ flushLsn[s] \in Nat
    BY LogTypes DEF LogInv, SafekeeperLog
  <2> QED BY <2>1 DEF WriteLsn
<1>3. \A x \in Safekeepers : flushLsn[x] <= flushLsn'[x]
  BY <1>1, <1>2, LogTypes
<1> QED BY <1>1, <1>3 DEF KeepersStep, KeeperStep

(* A restart with part of the WAL.                                         *)
LEMMA BootFacts ==
    ASSUME TypeInv, NEW s \in Safekeepers, NEW c, NEW h,
           NEW n \in 0..Len(wal[s]), Boot(s, c, h, SubSeq(wal[s], 1, n))
    PROVE  /\ flushLsn'[s] = (IF c = 0 THEN 0 ELSE n + 1) /\ wal'[s] = SubSeq(wal[s], 1, n)
           /\ Len(wal'[s]) = n /\ \A x \in 1..n : wal'[s][x] = wal[s][x]
           /\ \A x \in Safekeepers : x # s => wal'[x] = wal[x] /\ flushLsn'[x] = flushLsn[x]
           /\ UNCHANGED hist /\ QuietLinks
<1>1. /\ wal' = [wal EXCEPT ![s] = SubSeq(wal[s], 1, n)]
      /\ flushLsn' = [flushLsn EXCEPT ![s] = IF c = 0 THEN 0 ELSE Len(SubSeq(wal[s], 1, n)) + 1]
      /\ UNCHANGED hist /\ UNCHANGED <<vote, ack>>
      /\ rsp' = [p \in Proposers |-> [rsp[p] EXCEPT ![s] = None]]
  BY DEF Boot
<1>2. Len(SubSeq(wal[s], 1, n)) = n /\ \A x \in 1..n : SubSeq(wal[s], 1, n)[x] = wal[s][x]
  <2> DEFINE R == [term : Terms, lsn : 1..MaxLsn]
  <2>1. wal[s] \in Seq(R)
    BY DEF TypeInv, TypeOK, SkTypeOK, Logs
  <2> HIDE DEF R
  <2> QED BY <2>1
<1>3. /\ wal'[s] = SubSeq(wal[s], 1, n) /\ flushLsn'[s] = (IF c = 0 THEN 0 ELSE n + 1)
      /\ \A x \in Safekeepers : x # s => wal'[x] = wal[x] /\ flushLsn'[x] = flushLsn[x]
  BY <1>1, <1>2 DEF TypeInv, TypeOK, SkTypeOK
<1>4. \A p \in Proposers, x \in Safekeepers : rsp'[p][x] = rsp[p][x] \/ rsp'[p][x] = None
  BY <1>1 DEF TypeInv, TypeOK, NetTypeOK
<1> QED BY <1>1, <1>2, <1>3, <1>4 DEF QuietLinks

(* handle_elected before it is refused or accepted.                        *)
LEMMA ElectedFacts ==
    ASSUME TypeInv, VotesInv, LogInv, NEW k \in Chan, NEW p \in Proposers, NEW s \in Safekeepers,
           Received(k, p, s, "elected"), ~FromOldTerm(p, s),
           ~ElectedRefused(p, s, Head(q[k][p][s]).lo)
    PROVE  /\ Elected(p) /\ term[s] <= propTerm[p] /\ Head(q[k][p][s]).lo = ExpectedStart(p, s)
           /\ ExpectedStart(p, s) \in Nat /\ ExpectedStart(p, s) >= 1
           /\ ExpectedStart(p, s) <= Len(wal[s]) + 1
           /\ Agree(wal[s], propWal[p], ExpectedStart(p, s))
           /\ memCommit[s] <= ExpectedStart(p, s)
<1> DEFINE start == Head(q[k][p][s]).lo
<1>1. /\ ~(term[s] > propTerm[p]) /\ start = ExpectedStart(p, s) /\ ~(start < memCommit[s])
      /\ ~(WriteLsn(s) # 0 /\ start > WriteLsn(s))
  BY DEF FromOldTerm, ElectedRefused, TruncatesCommitted
<1>2. start \in Nat /\ start >= 1 /\ Elected(p)
  <2>1. /\ RequestOK(p, Head(q[k][p][s])) /\ Head(q[k][p][s]).type = "elected" /\ start \in Nat
    BY HeadRequest
  <2> QED BY <2>1 DEF RequestOK, Elected
<1> HIDE DEF start
<1>3. term[s] \in Nat /\ propTerm[p] \in Nat /\ memCommit[s] \in Nat
  BY LogTypes, ConstantsType DEF TypeInv, TypeOK, SkTypeOK
<1>4. start <= Len(wal[s]) + 1 /\ Agree(wal[s], propWal[p], start)
  <2>1. SafekeeperLog(s) /\ Leaders
    BY DEF LogInv, Leaders
  <2> QED BY <1>1, <1>2, <1>3, <2>1, CommonPoint
<1> QED BY <1>1, <1>2, <1>3, <1>4 DEF start

(* A safekeeper never loses what it has in common with the leader of its   *)
(* term, nor anything else while it is in its term.                        *)
LEMMA NextKeepers ==
    ASSUME TypeInv, VotesInv, LogInv, [Next]_vars
    PROVE  KeepersStep
<1>1. ASSUME UNCHANGED <<term, hist, flushLsn>> PROVE KeepersStep
  BY <1>1, KeepersRest DEF KeepersStep
<1>2. ASSUME NEW s \in Safekeepers, NEW t, term' = [term EXCEPT ![s] = t], term[s] <= t,
             UNCHANGED <<hist, flushLsn>>
      PROVE  KeepersStep
  <2>1. ASSUME NEW x \in Safekeepers PROVE KeeperStep(x)
    <3>1. term[x] <= term'[x]
      BY <1>2, LogTypes DEF TypeInv, TypeOK, SkTypeOK
    <3>2. flushLsn[x] <= flushLsn'[x] /\ hist'[x] = hist[x]
      BY <1>2, LogTypes
    <3> QED BY <3>1, <3>2 DEF KeeperStep
  <2> QED BY <2>1 DEF KeepersStep
<1>3. ASSUME NEW k \in Chan, NEW p \in Proposers, NEW s \in Safekeepers, HandleVoteRequest(k, p, s)
      PROVE  KeepersStep
  <2> DEFINE t == IF VoteGranted(p, s) THEN propTerm[p] ELSE term[s]
  <2>1. FlushWal(s) /\ term' = [term EXCEPT ![s] = t] /\ UNCHANGED hist
    BY <1>3 DEF HandleVoteRequest
  <2>2. term[s] <= t
    BY LogTypes DEF VoteGranted
  <2> HIDE DEF t
  <2>3. \A x \in Safekeepers : term[x] <= term'[x]
    BY <2>1, <2>2, LogTypes DEF TypeInv, TypeOK, SkTypeOK
  <2> QED BY <2>1, <2>3, FlushKeeps
<1>4. ASSUME NEW k \in Chan, NEW p \in Proposers, NEW s \in Safekeepers, HandleFlush(k, p, s)
      PROVE  KeepersStep
  <2>1. FlushWal(s) /\ UNCHANGED hist /\ \A x \in Safekeepers : term[x] <= term'[x]
    BY <1>4, LogTypes DEF HandleFlush
  <2> QED BY <2>1, FlushKeeps
<1>5. ASSUME NEW k \in Chan, NEW p \in Proposers, NEW s \in Safekeepers, RefuseElected(k, p, s)
      PROVE  KeepersStep
  <2>1. /\ term' = [term EXCEPT ![s] = propTerm[p]] /\ UNCHANGED <<hist, flushLsn>>
        /\ ~(term[s] > propTerm[p])
    BY <1>5 DEF RefuseElected, RaiseTerm, FromOldTerm
  <2>2. term[s] <= propTerm[p]
    BY <2>1, LogTypes
  <2> QED BY <1>2, <2>1, <2>2
<1>6. ASSUME NEW s \in Safekeepers, TermBump(s) PROVE KeepersStep
  <2> DEFINE t == term[s] + 1
  <2>1. term' = [term EXCEPT ![s] = t] /\ UNCHANGED <<hist, flushLsn>>
    BY <1>6 DEF TermBump, TypeInv, TypeOK, SkTypeOK
  <2>2. term[s] <= t
    BY LogTypes
  <2> HIDE DEF t
  <2> QED BY <1>2, <2>1, <2>2
<1>7. ASSUME NEW k \in Chan, NEW p \in Proposers, NEW s \in Safekeepers, HandleElected(k, p, s)
      PROVE  KeepersStep
  <2> DEFINE start == Head(q[k][p][s]).lo
  <2>1. /\ Received(k, p, s, "elected") /\ ~FromOldTerm(p, s) /\ ~ElectedRefused(p, s, start)
        /\ term' = [term EXCEPT ![s] = propTerm[p]] /\ hist' = [hist EXCEPT ![s] = propHist[p]]
        /\ flushLsn' = [flushLsn EXCEPT ![s] = start]
    BY <1>7 DEF HandleElected, TruncateWal
  <2>2. /\ Elected(p) /\ term[s] <= propTerm[p] /\ start = ExpectedStart(p, s) /\ start \in Nat
    BY <2>1, ElectedFacts
  <2> HIDE DEF start
  <2>3. /\ term'[s] = propTerm[p] /\ hist'[s] = propHist[p] /\ flushLsn'[s] = start
        /\ \A x \in Safekeepers : x # s => /\ term'[x] = term[x] /\ hist'[x] = hist[x]
                                           /\ flushLsn'[x] = flushLsn[x]
    BY <2>1 DEF TypeInv, TypeOK, SkTypeOK
  <2>4. start <= start
    BY <2>2
  <2>5. KeeperStep(s)
    BY <2>2, <2>3, <2>4 DEF KeeperStep
  <2>6. \A x \in Safekeepers : x # s => KeeperStep(x)
    BY <2>3, KeepersRest
  <2> QED BY <2>5, <2>6 DEF KeepersStep
<1>8. ASSUME NEW s \in Safekeepers, Crash(s) PROVE KeepersStep
  <2>1. PICK n \in {i \in 0..Len(wal[s]) : i + 1 >= flushLsn[s]} :
           Boot(s, cfCommit[s], cfHorizon[s], SubSeq(wal[s], 1, n))
    BY <1>8 DEF Crash
  <2>2. n \in 0..Len(wal[s]) /\ n + 1 >= flushLsn[s] /\ n \in Nat /\ flushLsn[s] \in Nat /\ UNCHANGED term
    BY <1>8, <2>1, LogTypes DEF Crash
  <2>3. /\ flushLsn'[s] = (IF cfCommit[s] = 0 THEN 0 ELSE n + 1) /\ UNCHANGED hist
        /\ \A x \in Safekeepers : x # s => flushLsn'[x] = flushLsn[x]
    BY <2>1, <2>2, BootFacts
  <2>4. flushLsn[s] <= flushLsn'[s]
    <3>1. flushLsn[s] = 0 <=> cfCommit[s] = 0
      BY DEF TypeInv, SupportInv, Started
    <3> QED BY <2>2, <2>3, <3>1
  <2>5. KeeperStep(s)
    BY <2>2, <2>3, <2>4, LogTypes DEF KeeperStep
  <2>6. \A x \in Safekeepers : x # s => KeeperStep(x)
    BY <2>2, <2>3, KeepersRest
  <2> QED BY <2>5, <2>6 DEF KeepersStep
<1>9. ASSUME NEW k \in Chan, NEW p \in Proposers, NEW s \in Safekeepers, CrashInElected(k, p, s)
      PROVE  KeepersStep
  <2> DEFINE start == Head(q[k][p][s]).lo
             c == IF term[s] < propTerm[p] THEN memCommit[s] ELSE cfCommit[s]
             h == IF term[s] < propTerm[p] THEN memHorizon[s] ELSE cfHorizon[s]
  <2>1. PICK n \in Lower(start - 1, Len(wal[s]))..Len(wal[s]) : Boot(s, c, h, SubSeq(wal[s], 1, n))
    BY <1>9 DEF CrashInElected
  <2>2. /\ Received(k, p, s, "elected") /\ ~FromOldTerm(p, s) /\ ~ElectedRefused(p, s, start)
        /\ term' = [term EXCEPT ![s] = propTerm[p]]
    BY <1>9 DEF CrashInElected
  <2>3. /\ Elected(p) /\ term[s] <= propTerm[p] /\ start = ExpectedStart(p, s) /\ start \in Nat
        /\ start >= 1 /\ start <= Len(wal[s]) + 1 /\ Len(wal[s]) \in Nat
    BY <2>2, ElectedFacts, LogTypes
  <2>4. c = 0 <=> flushLsn[s] = 0
    BY DEF TypeInv, SupportInv, Started
  <2> HIDE DEF start, c, h
  <2>5. n \in 0..Len(wal[s]) /\ n \in Nat /\ start <= n + 1
    BY <2>3 DEF Lower
  <2>6. /\ flushLsn'[s] = (IF c = 0 THEN 0 ELSE n + 1) /\ UNCHANGED hist
        /\ \A x \in Safekeepers : x # s => flushLsn'[x] = flushLsn[x]
    BY <2>1, <2>5, BootFacts
  <2>7. term'[s] = propTerm[p] /\ \A x \in Safekeepers : x # s => term'[x] = term[x]
    BY <2>2 DEF TypeInv, TypeOK, SkTypeOK
  <2>8. KeeperStep(s)
    <3>1. CASE c = 0
      <4>1. flushLsn[s] <= flushLsn'[s]
        BY <2>4, <2>6, <3>1
      <4> QED BY <2>3, <2>6, <2>7, <4>1 DEF KeeperStep
    <3>2. CASE c # 0
      <4>1. ExpectedStart(p, s) <= flushLsn'[s]
        BY <2>3, <2>5, <2>6, <3>2
      <4> QED BY <2>3, <2>6, <2>7, <4>1 DEF KeeperStep
    <3> QED BY <3>1, <3>2
  <2>9. \A x \in Safekeepers : x # s => KeeperStep(x)
    BY <2>6, <2>7, KeepersRest
  <2> QED BY <2>8, <2>9 DEF KeepersStep
<1>10. ASSUME NEW s \in Safekeepers, SafekeeperStep(s) PROVE KeepersStep
  <2>1. ASSUME NEW k \in Chan, NEW p \in Proposers,
               IgnoreElected(k, p, s) \/ RefuseAppend(k, p, s) \/ AppendOfOldTerm(k, p, s)
        PROVE  KeepersStep
    BY <1>1, <2>1 DEF IgnoreElected, RefuseAppend, AppendOfOldTerm, skVars
  <2>2. ASSUME NEW k \in Chan, NEW p \in Proposers, HandleAppendRequest(k, p, s)
        PROVE  KeepersStep
    BY <1>1, <2>2 DEF HandleAppendRequest
  <2>3. CASE SaveControlFile(s) \/ PublishInfo(s) \/ RecordSafekeeperInfo(s)
    BY <1>1, <2>3 DEF SaveControlFile, PublishInfo, RecordSafekeeperInfo, skVars
  <2> QED BY <1>3, <1>4, <1>5, <1>6, <1>7, <1>8, <1>9, <1>10, <2>1, <2>2, <2>3 DEF SafekeeperStep
<1>11. ASSUME NEW p \in Proposers, ProposerStep(p) PROVE KeepersStep
  <2>1. UNCHANGED skVars
    <3>1. ASSUME NEW s \in Safekeepers,
                 \/ GreetCollecting(p, s) \/ GreetStartsCampaign(p, s) \/ GreetLate(p, s)
                 \/ GreetRejected(p, s) \/ RecvVoteRefused(p, s) \/ RecvVoteCounted(p, s)
          PROVE  UNCHANGED skVars
      BY <3>1 DEF GreetCollecting, GreetStartsCampaign, GreetLate, GreetRejected, RecvVoteRefused,
         RecvVoteCounted
    <3>2. ASSUME NEW s \in Safekeepers,
                 \/ RecvVoteElects(p, s) \/ RecvVoteLate(p, s) \/ SendAppendRequest(p, s)
                 \/ RecvAckFatal(p, s) \/ RecvAppendResponse(p, s) \/ Disconnect(p, s)
          PROVE  UNCHANGED skVars
      BY <3>2 DEF RecvVoteElects, RecvVoteLate, SendAppendRequest, RecvAckFatal, RecvAppendResponse,
         Disconnect
    <3>3. CASE WriteWal(p) \/ Die(p)
      BY <3>3 DEF WriteWal, Die
    <3> QED BY <1>11, <3>1, <3>2, <3>3 DEF ProposerStep
  <2> QED BY <1>1, <2>1 DEF skVars
<1>12. ASSUME UNCHANGED vars PROVE KeepersStep
  BY <1>1, <1>12 DEF vars, skVars
<1> QED BY <1>10, <1>11, <1>12 DEF Next

(* Acknowledgements only grow.                                             *)
Grown(A, B) == \A p \in Proposers, s \in Safekeepers : A[p][s] <= B[p][s]

(* They stay the same in most steps.                                       *)
LEMMA GrownSame ==
    ASSUME NEW A, AckInv(A) PROVE Grown(A, A)
BY AckFacts DEF Grown

(* Steps that answer nobody and read no answer.                            *)
LEMMA SafekeeperQuiet ==
    ASSUME TypeInv, NEW s \in Safekeepers,
           \/ \E k \in Chan, p \in Proposers :
                \/ IgnoreElected(k, p, s) \/ RefuseElected(k, p, s) \/ HandleElected(k, p, s)
                \/ RefuseAppend(k, p, s) \/ HandleAppendRequest(k, p, s) \/ CrashInElected(k, p, s)
           \/ SaveControlFile(s) \/ TermBump(s) \/ Crash(s) \/ PublishInfo(s)
           \/ RecordSafekeeperInfo(s)
    PROVE  QuietLinks /\ UNCHANGED propHist
<1>1. ASSUME UNCHANGED linkVars, UNCHANGED rsp PROVE QuietLinks
  BY <1>1 DEF QuietLinks, linkVars
<1>2. ASSUME NEW k \in Chan, NEW p \in Proposers,
             IgnoreElected(k, p, s) \/ HandleElected(k, p, s) \/ HandleAppendRequest(k, p, s)
      PROVE  QuietLinks /\ UNCHANGED propHist
  <2>1. UNCHANGED linkVars /\ UNCHANGED rsp /\ UNCHANGED wpVars
    BY <1>2 DEF IgnoreElected, HandleElected, HandleAppendRequest
  <2> QED BY <1>1, <2>1 DEF wpVars
<1>3. ASSUME NEW k \in Chan, NEW p \in Proposers, RefuseElected(k, p, s) \/ RefuseAppend(k, p, s)
      PROVE  QuietLinks /\ UNCHANGED propHist
  <2>1. CloseOnError(k, p, s) /\ UNCHANGED wpVars
    BY <1>3 DEF RefuseElected, RefuseAppend
  <2>2. UNCHANGED <<vote, ack>> /\ (UNCHANGED rsp \/ rsp' = [rsp EXCEPT ![p][s] = None])
    BY <2>1 DEF CloseOnError
  <2>3. \A r \in Proposers, x \in Safekeepers : rsp'[r][x] = rsp[r][x] \/ rsp'[r][x] = None
    <3>1. CASE rsp' = [rsp EXCEPT ![p][s] = None]
      BY <3>1 DEF TypeInv, TypeOK, NetTypeOK
    <3> QED BY <2>2, <3>1
  <2> QED BY <2>1, <2>2, <2>3 DEF QuietLinks, wpVars
<1>4. ASSUME NEW c, NEW h, NEW w, Boot(s, c, h, w) PROVE QuietLinks /\ UNCHANGED propHist
  <2>1. /\ UNCHANGED <<vote, ack>> /\ UNCHANGED wpVars
        /\ rsp' = [p \in Proposers |-> [rsp[p] EXCEPT ![s] = None]]
    BY <1>4 DEF Boot
  <2>2. \A r \in Proposers, x \in Safekeepers : rsp'[r][x] = rsp[r][x] \/ rsp'[r][x] = None
    BY <2>1 DEF TypeInv, TypeOK, NetTypeOK
  <2> QED BY <2>1, <2>2 DEF QuietLinks, wpVars
<1>5. CASE Crash(s) \/ \E k \in Chan, p \in Proposers : CrashInElected(k, p, s)
  BY <1>4, <1>5 DEF Crash, CrashInElected
<1>6. CASE SaveControlFile(s) \/ TermBump(s) \/ PublishInfo(s) \/ RecordSafekeeperInfo(s)
  <2>1. UNCHANGED linkVars /\ UNCHANGED rsp /\ UNCHANGED wpVars
    BY <1>6 DEF SaveControlFile, TermBump, PublishInfo, RecordSafekeeperInfo, netVars
  <2> QED BY <1>1, <2>1 DEF wpVars
<1> QED BY <1>2, <1>3, <1>5, <1>6

(* The same for proposers.                                                 *)
LEMMA ProposerQuiet ==
    ASSUME TypeInv, NEW p \in Proposers,
           \/ \E s \in Safekeepers :
                \/ GreetCollecting(p, s) \/ GreetStartsCampaign(p, s) \/ GreetLate(p, s)
                \/ GreetRejected(p, s) \/ RecvVoteRefused(p, s) \/ RecvVoteLate(p, s)
                \/ SendAppendRequest(p, s) \/ RecvAckFatal(p, s) \/ Disconnect(p, s)
           \/ WriteWal(p) \/ Fatal(p)
    PROVE  QuietLinks /\ UNCHANGED propHist
<1>1. ASSUME UNCHANGED <<vote, ack, rsp>> PROVE QuietLinks
  BY <1>1 DEF QuietLinks
<1>2. ASSUME NEW s \in Safekeepers,
             \/ GreetCollecting(p, s) \/ GreetStartsCampaign(p, s) \/ GreetLate(p, s)
             \/ SendAppendRequest(p, s) \/ WriteWal(p)
      PROVE  QuietLinks /\ UNCHANGED propHist
  <2>1. UNCHANGED <<vote, ack, rsp>> /\ UNCHANGED propHist
    BY <1>2 DEF GreetCollecting, GreetStartsCampaign, GreetLate, SendAppendRequest, WriteWal, netVars,
       linkVars, wpVars
  <2> QED BY <1>1, <2>1
<1>3. ASSUME NEW s \in Safekeepers, RecvVoteLate(p, s) PROVE QuietLinks /\ UNCHANGED propHist
  <2>1. UNCHANGED <<vote, ack>> /\ UNCHANGED wpVars /\ rsp' = [rsp EXCEPT ![p][s] = None]
    BY <1>3 DEF RecvVoteLate
  <2>2. \A r \in Proposers, x \in Safekeepers : rsp'[r][x] = rsp[r][x] \/ rsp'[r][x] = None
    BY <2>1 DEF TypeInv, TypeOK, NetTypeOK
  <2> QED BY <2>1, <2>2 DEF QuietLinks, wpVars
<1>4. ASSUME NEW s \in Safekeepers, Disconnect(p, s) PROVE QuietLinks /\ UNCHANGED propHist
  <2>1. UNCHANGED <<vote, ack>> /\ UNCHANGED wpVars /\ ShutdownConnection({<<p, s>>})
    BY <1>4 DEF Disconnect
  <2>2. \A r \in Proposers, x \in Safekeepers : rsp'[r][x] = rsp[r][x] \/ rsp'[r][x] = None
    BY <2>1 DEF ShutdownConnection
  <2> QED BY <2>1, <2>2 DEF QuietLinks, wpVars
<1>5. ASSUME Fatal(p) PROVE QuietLinks /\ UNCHANGED propHist
  <2>1. /\ vote' = [vote EXCEPT ![p] = [s \in Safekeepers |-> None]]
        /\ ack' = [ack EXCEPT ![p] = [s \in Safekeepers |-> 0]]
        /\ ShutdownConnection({p} \X Safekeepers) /\ UNCHANGED propHist
    BY <1>5 DEF Fatal
  <2>2. \A r \in Proposers, x \in Safekeepers : rsp'[r][x] = rsp[r][x] \/ rsp'[r][x] = None
    BY <2>1 DEF ShutdownConnection
  <2>3. \A r \in Proposers, x \in Safekeepers : vote'[r][x] = vote[r][x] \/ vote'[r][x] = None
    BY <2>1 DEF TypeInv, TypeOK, LinkTypeOK
  <2>4. \A r \in Proposers, x \in Safekeepers : ack'[r][x] = ack[r][x] \/ ack'[r][x] = 0
    BY <2>1 DEF TypeInv, TypeOK, LinkTypeOK
  <2> QED BY <2>1, <2>2, <2>3, <2>4 DEF QuietLinks
<1>6. ASSUME NEW s \in Safekeepers, GreetRejected(p, s) \/ RecvVoteRefused(p, s) \/ RecvAckFatal(p, s)
      PROVE  Fatal(p)
  BY <1>6 DEF GreetRejected, RecvVoteRefused, RecvAckFatal
<1>7. Safekeepers # {}
  BY ConstantsAssumption
<1> QED BY <1>2, <1>3, <1>4, <1>5, <1>6, <1>7

(* A vote, or the term of a safekeeper that lives in a later one.          *)
LEMMA AckAnswered ==
    ASSUME TypeInv, VotesInv, LogInv, TypeInv', VotesInv', LogInv', LeadersGrow, KeepersStep,
           NEW A, AckInv(A), NEW k \in Chan, NEW p \in Proposers, NEW s \in Safekeepers,
           HandleVoteRequest(k, p, s) \/ AppendOfOldTerm(k, p, s)
    PROVE  AckInv(A)'
<1>1. UNCHANGED wpVars /\ UNCHANGED linkVars
  BY DEF HandleVoteRequest, AppendOfOldTerm
<1>2. \A r \in Proposers, x \in Safekeepers :
        \/ rsp'[r][x] = rsp[r][x]
        \/ /\ rsp'[r][x].type = "vote"
           /\ rsp'[r][x].hist = UpTo(hist'[x], flushLsn'[x]) /\ rsp'[r][x].flush = flushLsn'[x]
        \/ /\ rsp'[r][x].type = "ack"
           /\ rsp'[r][x].term = propTerm'[r] => rsp'[r][x].flush <= A[r][x]
  <2>1. ASSUME NEW v, Reply(k, p, s, v), NEW r \in Proposers, NEW x \in Safekeepers
        PROVE  rsp'[r][x] = rsp[r][x] \/ (r = p /\ x = s /\ rsp'[r][x] = v)
    <3>1. rsp' = rsp \/ rsp' = [rsp EXCEPT ![p][s] = v]
      BY <2>1 DEF Reply
    <3> QED BY <3>1 DEF TypeInv, TypeOK, NetTypeOK
  <2>2. CASE HandleVoteRequest(k, p, s)
    <3> DEFINE t == IF VoteGranted(p, s) THEN propTerm[p] ELSE term[s]
               v == VoteResponse(t, VoteGranted(p, s), WriteLsn(s), memHorizon[s],
                                 UpTo(hist[s], WriteLsn(s)), wal[s])
    <3>1. Reply(k, p, s, v) /\ FlushWal(s) /\ UNCHANGED hist
      BY <2>2 DEF HandleVoteRequest
    <3>2. v.type = "vote" /\ v.hist = UpTo(hist[s], WriteLsn(s)) /\ v.flush = WriteLsn(s)
      BY DEF VoteResponse
    <3>3. flushLsn'[s] = WriteLsn(s)
      BY <3>1 DEF FlushWal, TypeInv, TypeOK, SkTypeOK
    <3> HIDE DEF v, t
    <3> QED BY <2>1, <3>1, <3>2, <3>3
  <2>3. CASE AppendOfOldTerm(k, p, s)
    <3> DEFINE v == AppendResponse(term[s], 0)
    <3>1. Reply(k, p, s, v) /\ term[s] > propTerm[p]
      BY <2>3 DEF AppendOfOldTerm
    <3>2. v.type = "ack" /\ v.term = term[s]
      BY DEF AppendResponse
    <3>3. propTerm'[p] = propTerm[p] /\ term[s] # propTerm[p]
      BY <1>1, <3>1, LogTypes DEF wpVars
    <3> HIDE DEF v
    <3> QED BY <2>1, <3>1, <3>2, <3>3
  <2> QED BY <2>2, <2>3
<1>3. A \in AckTypes /\ AcksStep(A, A)
  BY DEF AckInv, AckTypes, AcksStep
<1>4. AnswersStep(A)
  BY <1>2 DEF AnswersStep
<1>5. VotesStep /\ AcksRead
  BY <1>1 DEF VotesStep, AcksRead, linkVars
<1>6. NewLeadersKeep(A)
  BY <1>1 DEF NewLeadersKeep, Elected, wpVars
<1> QED BY <1>3, <1>4, <1>5, <1>6, AckInvStep

(* handle_flush: s acknowledges what it flushed.                           *)
LEMMA AckFlushed ==
    ASSUME TypeInv, VotesInv, LogInv, TypeInv', VotesInv', LogInv', LeadersGrow, KeepersStep,
           NEW A, AckInv(A), NEW k \in Chan, NEW p \in Proposers, NEW s \in Safekeepers,
           HandleFlush(k, p, s)
    PROVE  \E B : AckInv(B)' /\ Grown(A, B) /\ AcksStep(A, B)
<1>1. /\ dirty[k][p][s] /\ FlushWal(s) /\ Reply(k, p, s, AppendResponse(term[s], WriteLsn(s)))
      /\ UNCHANGED <<term, hist, wal>> /\ UNCHANGED wpVars /\ UNCHANGED linkVars
  BY DEF HandleFlush
<1> DEFINE l == IF term[s] = propTerm[p] /\ A[p][s] <= WriteLsn(s) THEN WriteLsn(s) ELSE A[p][s]
<1>2. PICK B : B = [A EXCEPT ![p][s] = l]
  OBVIOUS
<1>3. WriteLsn(s) \in Lsns /\ WriteLsn(s) \in Nat /\ flushLsn'[s] = WriteLsn(s)
  BY <1>1, WriteLsnType, ConstantsType DEF FlushWal, TypeInv, TypeOK, SkTypeOK
<1>4. A \in AckTypes /\ A[p][s] \in Lsns /\ A[p][s] \in Nat
  BY AckFacts DEF AckInv, AckTypes
<1>5. l \in Lsns /\ A[p][s] <= l /\ (l = A[p][s] \/ (term[s] = propTerm[p] /\ l = WriteLsn(s)))
      /\ (term[s] = propTerm[p] => WriteLsn(s) <= l)
  BY <1>3, <1>4
<1> HIDE DEF l
<1>6. B \in AckTypes
  BY <1>2, <1>4, <1>5 DEF AckTypes
<1>7. B[p][s] = l /\ \A r \in Proposers, x \in Safekeepers : ~(r = p /\ x = s) => B[r][x] = A[r][x]
  BY <1>2, <1>4 DEF AckTypes
<1>8. Elected(p) /\ Follows(p, s)
  BY <1>1 DEF LogInv, ConnectionLog
<1>9. AcksStep(A, B)
  <2>1. ASSUME term[s] = propTerm[p], l = WriteLsn(s)
        PROVE  /\ A[p][s] <= B[p][s] /\ Elected(p) /\ term[s] = propTerm[p] /\ term'[s] = propTerm[p]
               /\ hist'[s] = propHist[p] /\ B[p][s] = flushLsn'[s] /\ B[p][s] <= AvailableLsn(p)
    <3>1. hist[s] = propHist[p] /\ flushLsn[s] # 0 /\ Agree(wal[s], propWal[p], Len(wal[s]) + 1)
      BY <1>8, <2>1, FollowerLog
    <3>2. WriteLsn(s) <= AvailableLsn(p)
      BY <3>1 DEF Agree, AvailableLsn, WriteLsn
    <3> QED BY <1>1, <1>3, <1>5, <1>7, <1>8, <2>1, <3>1, <3>2
  <2> QED BY <1>5, <1>7, <2>1 DEF AcksStep
<1>10. AnswersStep(B)
  <2> DEFINE v == AppendResponse(term[s], WriteLsn(s))
  <2>1. v.type = "ack" /\ v.term = term[s] /\ v.flush = WriteLsn(s)
    BY DEF AppendResponse
  <2>2. rsp' = rsp \/ rsp' = [rsp EXCEPT ![p][s] = v]
    BY <1>1 DEF Reply
  <2> HIDE DEF v
  <2>3. ASSUME NEW r \in Proposers, NEW x \in Safekeepers
        PROVE  rsp'[r][x] = rsp[r][x] \/ (r = p /\ x = s /\ rsp'[r][x] = v)
    BY <2>2 DEF TypeInv, TypeOK, NetTypeOK
  <2>4. propTerm'[p] = propTerm[p]
    BY <1>1 DEF wpVars
  <2>5. v.term = propTerm'[p] => v.flush <= B[p][s]
    BY <1>5, <1>7, <2>1, <2>4
  <2> QED BY <2>1, <2>3, <2>5 DEF AnswersStep
<1>11. VotesStep /\ AcksRead
  BY <1>1 DEF VotesStep, AcksRead, linkVars
<1>12. NewLeadersKeep(A)
  BY <1>1 DEF NewLeadersKeep, Elected, wpVars
<1>13. AckInv(B)'
  BY <1>6, <1>9, <1>10, <1>11, <1>12, AckInvStep
<1>14. Grown(A, B)
  <2>1. \A r \in Proposers, x \in Safekeepers : A[r][x] \in Nat
    BY AckFacts
  <2> QED BY <1>5, <1>7, <2>1 DEF Grown
<1> QED BY <1>9, <1>13, <1>14

(* A vote is counted, or an acknowledgement read.                          *)
LEMMA AckReadStep ==
    ASSUME TypeInv, VotesInv, LogInv, TypeInv', VotesInv', LogInv', LeadersGrow, KeepersStep,
           NEW A, AckInv(A), NEW p \in Proposers, NEW s \in Safekeepers,
           RecvVoteCounted(p, s) \/ RecvAppendResponse(p, s)
    PROVE  AckInv(A)'
<1>1. A \in AckTypes /\ AcksStep(A, A)
  BY DEF AckInv, AckTypes, AcksStep
<1>2. rsp' = [rsp EXCEPT ![p][s] = None] /\ UNCHANGED propHist
  BY DEF RecvVoteCounted, RecvAppendResponse
<1>3. AnswersStep(A)
  <2>1. \A r \in Proposers, x \in Safekeepers : rsp'[r][x] = rsp[r][x] \/ rsp'[r][x] = None
    BY <1>2 DEF TypeInv, TypeOK, NetTypeOK
  <2> QED BY <2>1 DEF AnswersStep
<1>4. NewLeadersKeep(A)
  BY <1>2 DEF NewLeadersKeep, Elected
<1>5. VotesStep /\ AcksRead
  <2>1. CASE RecvVoteCounted(p, s)
    <3>1. /\ VoteArrives(p, s) /\ ~VoteFatal(p, s) /\ wpState[p] = "CAMPAIGN"
          /\ vote' = [vote EXCEPT ![p][s] = rsp[p][s]] /\ UNCHANGED ack
      BY <2>1 DEF RecvVoteCounted
    <3>2. rsp[p][s] # None /\ rsp[p][s].type = "vote" /\ rsp[p][s].given
      BY <3>1 DEF VoteArrives, VoteFatal
    <3>3. ASSUME NEW r \in Proposers, NEW x \in Safekeepers
          PROVE  vote'[r][x] = vote[r][x] \/ (r = p /\ x = s /\ vote'[r][x] = rsp[p][s])
      BY <3>1 DEF TypeInv, TypeOK, LinkTypeOK
    <3> QED BY <3>1, <3>2, <3>3 DEF VotesStep, AcksRead
  <2>2. CASE RecvAppendResponse(p, s)
    <3> DEFINE acks == [ack[p] EXCEPT ![s] = rsp[p][s].flush]
    <3>1. AckArrives(p, s) /\ rsp[p][s].term <= propTerm[p] /\ ack' = [ack EXCEPT ![p] = acks]
          /\ UNCHANGED vote
      BY <2>2 DEF RecvAppendResponse
    <3>2. rsp[p][s] # None /\ rsp[p][s].type = "ack" /\ rsp[p][s].term >= propTerm[p]
      BY <3>1 DEF AckArrives, LogInv, LinkLog
    <3>3. rsp[p][s].term = propTerm[p]
      <4>1. rsp[p][s] \in VoteResponses \cup AppendResponses \cup {None}
        BY DEF TypeInv, TypeOK, NetTypeOK
      <4>2. rsp[p][s].term \in Terms
        BY <3>2, <4>1 DEF VoteResponses, AppendResponses
      <4> QED BY <3>1, <3>2, <4>2, ConstantsType, LogTypes
    <3>4. ASSUME NEW r \in Proposers, NEW x \in Safekeepers
          PROVE  ack'[r][x] = ack[r][x] \/ (r = p /\ x = s /\ ack'[r][x] = rsp[p][s].flush)
      BY <3>1 DEF TypeInv, TypeOK, LinkTypeOK
    <3> QED BY <3>1, <3>2, <3>3, <3>4 DEF VotesStep, AcksRead
  <2> QED BY <2>1, <2>2
<1> QED BY <1>1, <1>3, <1>4, <1>5, AckInvStep

(* VotesCollected returns true.                                            *)
LEMMA AckElects ==
    ASSUME TypeInv, VotesInv, LogInv, TypeInv', VotesInv', LogInv', LeadersGrow, KeepersStep,
           NEW A, AckInv(A), NEW p \in Proposers, NEW s \in Safekeepers, RecvVoteElects(p, s)
    PROVE  AckInv(A)'
<1>1. PICK d \in DonorChoices(p, s) :
         IF d \in Voters(p, s) \/ vote[p][d].hist = <<>>
         THEN /\ BecomeElected(p, s, d)
              /\ vote' = [vote EXCEPT ![p] = [r \in Safekeepers |-> None]]
              /\ rsp' = [rsp EXCEPT ![p][s] = None]
              /\ UNCHANGED <<propTerm, nConnected, propCommit, ack, dirty>>
         ELSE Fatal(p)
  BY DEF RecvVoteElects
<1>2. /\ VoteArrives(p, s) /\ ~VoteFatal(p, s) /\ wpState[p] = "CAMPAIGN" /\ HasQuorum(Voters(p, s))
  BY DEF RecvVoteElects
<1>3. CASE Fatal(p)
  BY <1>3, ProposerQuiet, AckQuiet
<1>4. CASE /\ BecomeElected(p, s, d) /\ vote' = [vote EXCEPT ![p] = [r \in Safekeepers |-> None]]
           /\ rsp' = [rsp EXCEPT ![p][s] = None] /\ UNCHANGED <<propTerm, ack>>
  <2>1. NewLeadersKeep(A)
    BY <1>2, <1>4, BecomeElectedKeeps
  <2>2. \A r \in Proposers, x \in Safekeepers : rsp'[r][x] = rsp[r][x] \/ rsp'[r][x] = None
    BY <1>4 DEF TypeInv, TypeOK, NetTypeOK
  <2>3. \A r \in Proposers, x \in Safekeepers : vote'[r][x] = vote[r][x] \/ vote'[r][x] = None
    BY <1>4 DEF TypeInv, TypeOK, LinkTypeOK
  <2>4. AnswersStep(A) /\ VotesStep /\ AcksRead
    BY <1>4, <2>2, <2>3 DEF AnswersStep, VotesStep, AcksRead
  <2>5. A \in AckTypes /\ AcksStep(A, A)
    BY DEF AckInv, AckTypes, AcksStep
  <2> QED BY <2>1, <2>4, <2>5, AckInvStep
<1> QED BY <1>1, <1>3, <1>4

(* Every step keeps AckInv, with the acknowledgements it adds.             *)
LEMMA NextAcks ==
    ASSUME TypeInv, VotesInv, LogInv, TypeInv', VotesInv', LogInv', [Next]_vars, NEW A, AckInv(A)
    PROVE  \E B : AckInv(B)' /\ Grown(A, B) /\ AcksStep(A, B)
<1>1. LeadersGrow /\ KeepersStep /\ Grown(A, A) /\ AcksStep(A, A)
  BY NextGrows, NextKeepers, GrownSame DEF AcksStep
<1>2. ASSUME QuietLinks, UNCHANGED propHist PROVE AckInv(A)'
  BY <1>1, <1>2, AckQuiet
<1>3. ASSUME NEW s \in Safekeepers, SafekeeperStep(s) PROVE \E B : AckInv(B)' /\ Grown(A, B) /\ AcksStep(A, B)
  <2>1. ASSUME NEW k \in Chan, NEW p \in Proposers, HandleFlush(k, p, s)
        PROVE  \E B : AckInv(B)' /\ Grown(A, B) /\ AcksStep(A, B)
    BY <1>1, <2>1, AckFlushed
  <2>2. ASSUME NEW k \in Chan, NEW p \in Proposers,
               HandleVoteRequest(k, p, s) \/ AppendOfOldTerm(k, p, s)
        PROVE  AckInv(A)'
    BY <1>1, <2>2, AckAnswered
  <2>3. ASSUME \/ \E k \in Chan, p \in Proposers :
                \/ IgnoreElected(k, p, s) \/ RefuseElected(k, p, s) \/ HandleElected(k, p, s)
                \/ RefuseAppend(k, p, s) \/ HandleAppendRequest(k, p, s) \/ CrashInElected(k, p, s)
           \/ SaveControlFile(s) \/ TermBump(s) \/ Crash(s) \/ PublishInfo(s)
           \/ RecordSafekeeperInfo(s)
        PROVE  AckInv(A)'
    <3>1. QuietLinks /\ UNCHANGED propHist
      BY <2>3, SafekeeperQuiet
    <3> QED BY <1>2, <3>1
  <2>4. AckInv(A)' \/ \E B : AckInv(B)' /\ Grown(A, B) /\ AcksStep(A, B)
    BY <1>3, <2>1, <2>2, <2>3 DEF SafekeeperStep
  <2> QED BY <1>1, <2>4
<1>4. ASSUME NEW p \in Proposers, ProposerStep(p) PROVE AckInv(A)'
  <2>1. ASSUME \/ \E s \in Safekeepers :
                \/ GreetCollecting(p, s) \/ GreetStartsCampaign(p, s) \/ GreetLate(p, s)
                \/ GreetRejected(p, s) \/ RecvVoteRefused(p, s) \/ RecvVoteLate(p, s)
                \/ SendAppendRequest(p, s) \/ RecvAckFatal(p, s) \/ Disconnect(p, s)
               \/ WriteWal(p) \/ Fatal(p)
        PROVE  AckInv(A)'
    <3>1. QuietLinks /\ UNCHANGED propHist
      BY <2>1, ProposerQuiet
    <3> QED BY <1>2, <3>1
  <2>2. Die(p) => Fatal(p)
    BY DEF Die
  <2>3. ASSUME NEW s \in Safekeepers, RecvVoteCounted(p, s) \/ RecvAppendResponse(p, s) PROVE AckInv(A)'
    BY <1>1, <2>3, AckReadStep
  <2>4. ASSUME NEW s \in Safekeepers, RecvVoteElects(p, s) PROVE AckInv(A)'
    BY <1>1, <2>4, AckElects
  <2> QED BY <1>4, <2>1, <2>2, <2>3, <2>4 DEF ProposerStep
<1>5. CASE UNCHANGED vars
  <2>1. QuietLinks /\ UNCHANGED propHist
    BY <1>5 DEF vars, linkVars, netVars, wpVars, QuietLinks
  <2> QED BY <1>1, <1>2, <2>1
<1> QED BY <1>1, <1>3, <1>4, <1>5 DEF Next

-----------------------------------------------------------------------------
(* What is committed, in one state.                                        *)

(* The quorum that acknowledged l cannot go on without it.                 *)
LEMMA CommittedNotBlocked ==
    ASSUME TypeInv, NEW A, AckInv(A), NEW p \in Proposers, NEW l \in Nat, NEW m \in Nat, l <= m,
           Committed(A, p, m)
    PROVE  ~Blocked(A, p, l)
<1> SUFFICES ASSUME Blocked(A, p, l) PROVE FALSE
  OBVIOUS
<1> DEFINE S == {s \in Safekeepers : A[p][s] >= m}
           T == {s \in Safekeepers : propTerm[p] < term[s] /\ A[p][s] < l}
<1>1. S \in SUBSET Safekeepers /\ T \in SUBSET Safekeepers /\ HasQuorum(S) /\ HasQuorum(T)
  BY DEF Committed, Blocked
<1>2. ASSUME NEW s \in S PROVE s \notin T
  <2>1. A[p][s] \in Nat /\ A[p][s] >= m
    BY AckFacts
  <2>2. ~(A[p][s] < l)
    BY <2>1
  <2> QED BY <2>2
<1> HIDE DEF S, T
<1>3. S \cap T # {}
  BY <1>1, QuorumsIntersect
<1> QED BY <1>2, <1>3

(* LSNs of committed WAL are LSNs.                                         *)
LEMMA CommittedType ==
    ASSUME TypeInv, LogInv, NEW A, NEW p \in Proposers, NEW l, Committed(A, p, l), l \in Nat
    PROVE  /\ Elected(p) /\ l \in Lsns /\ l >= 1 /\ PropTermStartLsn(p) <= l
           /\ l <= Len(propWal[p]) + 1
<1>1. Elected(p) /\ PropTermStartLsn(p) <= l /\ l <= AvailableLsn(p)
  BY DEF Committed
<1>2. PropTermStartLsn(p) \in Nat /\ PropTermStartLsn(p) >= 1
  BY <1>1, LeaderHistory
<1>3. AvailableLsn(p) = Len(propWal[p]) + 1 /\ Len(propWal[p]) \in Nat /\ Len(propWal[p]) < MaxLsn
  BY LogTypes, LogLength
<1> QED BY <1>1, <1>2, <1>3, ConstantsType DEF Lsns

(* Leaders agree on what they committed.                                   *)
LEMMA CommittedAgree ==
    ASSUME TypeInv, VotesInv, LogInv, NEW A, AckInv(A), NEW p \in Proposers, NEW r \in Proposers,
           NEW l \in Nat, NEW m \in Nat, Committed(A, p, l), Committed(A, r, m), l <= m
    PROVE  Agree(propWal[p], propWal[r], l)
<1>1. /\ Elected(p) /\ l \in Lsns /\ PropTermStartLsn(p) <= l /\ l <= Len(propWal[p]) + 1
      /\ Elected(r) /\ m \in Lsns /\ PropTermStartLsn(r) <= m
  BY CommittedType
<1>2. propTerm[p] \in Nat /\ propTerm[r] \in Nat /\ Len(propWal[p]) \in Nat /\ Len(propWal[r]) \in Nat
  BY LogTypes
<1>3. CASE propTerm[p] = propTerm[r]
  <2>1. p = r
    BY <1>1, <1>3, SameLeader
  <2> QED BY <1>1, <2>1 DEF Agree
<1>4. CASE propTerm[p] < propTerm[r]
  <2>1. Continues(propHist[r], propHist[p], l) \/ Blocked(A, p, l)
    BY <1>1, <1>4 DEF AckInv, LeaderKeeps
  <2>2. ~Blocked(A, p, l)
    BY CommittedNotBlocked
  <2>3. Agree(propWal[r], propWal[p], l)
    BY <1>1, <2>1, <2>2, ContinuesAgree
  <2> QED BY <2>3, AgreeSymmetric
<1>5. CASE propTerm[r] < propTerm[p]
  <2>1. Continues(propHist[p], propHist[r], m) \/ Blocked(A, r, m)
    BY <1>1, <1>5 DEF AckInv, LeaderKeeps
  <2>2. ~Blocked(A, r, m)
    BY CommittedNotBlocked
  <2>3. Agree(propWal[p], propWal[r], m)
    BY <1>1, <2>1, <2>2, ContinuesAgree
  <2> QED BY <1>2, <2>3, AgreeBelow
<1> QED BY <1>2, <1>3, <1>4, <1>5

(* The log of clients is a log.                                            *)
LEMMA AckedType ==
    ASSUME TypeInv PROVE ackedLog \in Logs /\ Len(ackedLog) \in Nat /\ Len(ackedLog) + 1 \in Nat
BY LogLength DEF TypeInv, TypeOK, AuxTypeOK

(* The log of clients is that of every leader up to where it committed.    *)
LEMMA CommittedInLog ==
    ASSUME TypeInv, VotesInv, LogInv, NEW A, AckInv(A), AckedLogOK(A), NEW p \in Proposers, NEW l \in Nat,
           Committed(A, p, l), l <= Len(ackedLog) + 1
    PROVE  Agree(propWal[p], ackedLog, l)
<1>1. Len(ackedLog) \in Nat /\ Len(propWal[p]) \in Nat /\ l <= Len(propWal[p]) + 1
  BY AckedType, LogTypes, CommittedType
<1>2. CASE ackedLog = <<>>
  <2>1. l <= 1
    BY <1>2
  <2> QED BY <1>1, <2>1 DEF Agree
<1>3. CASE ackedLog # <<>>
  <2>1. PICK r \in Proposers : /\ Committed(A, r, Len(ackedLog) + 1)
                               /\ Agree(ackedLog, propWal[r], Len(ackedLog) + 1)
    BY <1>3 DEF AckedLogOK
  <2>2. Agree(propWal[p], propWal[r], l)
    BY <1>1, <2>1, CommittedAgree
  <2>3. Agree(ackedLog, propWal[r], l)
    BY <1>1, <2>1, LogTypes, AgreeBelow
  <2> QED BY <2>2, <2>3, AgreeSymmetric, AgreeTransitive
<1> QED BY <1>2, <1>3

-----------------------------------------------------------------------------
(* What is committed stays committed.                                      *)

(* A quorum does not take its acknowledgement back.                        *)
LEMMA CommittedStable ==
    ASSUME TypeInv, TypeInv', LogInv, LeadersGrow, NEW A, AckInv(A), NEW B \in AckTypes, Grown(A, B),
           NEW p \in Proposers, NEW l \in Nat, Committed(A, p, l)
    PROVE  Committed(B, p, l)'
<1> DEFINE S == {s \in Safekeepers : A[p][s] >= l}
           T == {s \in Safekeepers : B[p][s] >= l}
<1>1. S \in SUBSET Safekeepers /\ T \in SUBSET Safekeepers /\ HasQuorum(S) /\ Elected(p)
      /\ PropTermStartLsn(p) <= l /\ l <= AvailableLsn(p)
  BY DEF Committed
<1>2. ASSUME NEW s \in S PROVE s \in T
  <2>1. A[p][s] \in Nat /\ A[p][s] >= l
    BY AckFacts
  <2>2. B[p][s] \in Nat /\ A[p][s] <= B[p][s]
    BY ConstantsType DEF AckTypes, Grown
  <2> QED BY <2>1, <2>2
<1> HIDE DEF S, T
<1>3. HasQuorum(T)
  BY <1>1, <1>2, QuorumGrows
<1>4. propHist'[p] = propHist[p] /\ Extended(propWal[p], propWal'[p])
  BY <1>1 DEF LeadersGrow
<1>5. Len(propWal[p]) \in Nat /\ Len(propWal'[p]) \in Nat
  BY LogLength, LogTypes DEF TypeInv, TypeOK, WpTypeOK
<1>6. Elected(p)' /\ PropTermStartLsn(p)' <= l
  BY <1>1, <1>4 DEF Elected, PropTermStartLsn
<1>7. l <= AvailableLsn(p)'
  BY <1>1, <1>4, <1>5 DEF AvailableLsn, Extended
<1> QED BY <1>3, <1>6, <1>7 DEF Committed, T, HasQuorum, Quorum

(* What was reported stays so.                                             *)
LEMMA ReportedStable ==
    ASSUME TypeInv, TypeInv', LogInv, LeadersGrow, NEW A, AckInv(A), NEW B \in AckTypes, Grown(A, B),
           Extended(ackedLog, ackedLog'), NEW p \in Proposers, NEW l \in Nat, Reported(A, p, l)
    PROVE  Reported(B, p, l)'
<1>1. Len(ackedLog) \in Nat /\ Len(ackedLog') \in Nat /\ Len(ackedLog) <= Len(ackedLog')
  BY LogLength, AckedType DEF TypeInv, TypeOK, AuxTypeOK, Extended
<1>2. l # 0 => Committed(B, p, l)'
  BY CommittedStable DEF Reported
<1> QED BY <1>1, <1>2 DEF Reported

(* The log of clients, when it does not grow.                              *)
LEMMA AckedLogStable ==
    ASSUME TypeInv, TypeInv', LogInv, LeadersGrow, NEW A, AckInv(A), NEW B \in AckTypes, Grown(A, B),
           ackedLog' = ackedLog, AckedLogOK(A)
    PROVE  AckedLogOK(B)'
<1>1. CASE ackedLog = <<>>
  BY <1>1 DEF AckedLogOK
<1>2. CASE ackedLog # <<>>
  <2>1. PICK r \in Proposers : /\ Committed(A, r, Len(ackedLog) + 1)
                               /\ Agree(ackedLog, propWal[r], Len(ackedLog) + 1)
    BY <1>2 DEF AckedLogOK
  <2>2. Len(ackedLog) + 1 \in Nat /\ Len(ackedLog) \in Nat /\ Len(propWal[r]) \in Nat
    BY AckedType, LogTypes
  <2>3. Committed(B, r, Len(ackedLog) + 1)'
    <3>1. PICK n \in Nat : n = Len(ackedLog) + 1
      BY <2>2
    <3>2. Committed(B, r, n)'
      BY <2>1, <3>1, CommittedStable
    <3> QED BY <3>1, <3>2 DEF Committed
  <2>4. Extended(propWal[r], propWal'[r]) /\ Len(propWal'[r]) \in Nat /\ Extended(ackedLog, ackedLog)
    BY <2>1, <2>2, LogLength DEF LeadersGrow, Committed, TypeInv, TypeOK, WpTypeOK, Extended
  <2>5. Agree(ackedLog, propWal'[r], Len(ackedLog) + 1)
    BY <2>1, <2>2, <2>4, AgreeGrows
  <2> QED BY <2>3, <2>5 DEF AckedLogOK
<1> QED BY <1>1, <1>2

(* A message of a peer stays true while it waits.                          *)
LEMMA PeerCommitStable ==
    ASSUME TypeInv, TypeInv', LeadersGrow, Extended(ackedLog, ackedLog'), peerInfo' = peerInfo, PeerCommit
    PROVE  PeerCommit'
<1> SUFFICES ASSUME peerInfo # None, peerInfo.commit > FirstLsn
             PROVE  \E r \in Proposers : /\ Elected(r)' /\ propTerm'[r] = peerInfo.lastLogTerm
                                         /\ Agree(propWal'[r], ackedLog', peerInfo.commit)
  BY DEF PeerCommit
<1>1. PICK r \in Proposers : /\ Elected(r) /\ propTerm[r] = peerInfo.lastLogTerm
                             /\ Agree(propWal[r], ackedLog, peerInfo.commit)
  BY DEF PeerCommit
<1>2. Elected(r)' /\ propTerm'[r] = propTerm[r] /\ Extended(propWal[r], propWal'[r])
  BY <1>1 DEF LeadersGrow, Elected
<1>3. /\ Len(propWal[r]) \in Nat /\ Len(propWal'[r]) \in Nat
      /\ Len(ackedLog) \in Nat /\ Len(ackedLog') \in Nat
  BY LogLength DEF TypeInv, TypeOK, WpTypeOK, AuxTypeOK
<1>4. peerInfo.commit \in Nat
  BY ConstantsType DEF TypeInv, TypeOK, NetTypeOK, PeerInfos
<1>5. Agree(propWal'[r], ackedLog', peerInfo.commit)
  BY <1>1, <1>2, <1>3, <1>4, AgreeGrows
<1> QED BY <1>1, <1>2, <1>5

-----------------------------------------------------------------------------
(* The commit LSN of a safekeeper.                                         *)

(* Commit LSNs and horizons are numbers.                                   *)
LEMMA CommitTypes ==
    ASSUME TypeInv
    PROVE  /\ \A s \in Safekeepers : /\ memCommit[s] \in Nat /\ cfCommit[s] \in Nat
                                     /\ memHorizon[s] \in Nat /\ cfHorizon[s] \in Nat
           /\ \A p \in Proposers : propCommit[p] \in Nat /\ propTruncate[p] \in Nat
BY ConstantsType DEF TypeInv, TypeOK, SkTypeOK, WpTypeOK

(* It falls back, with the WAL below it.                                   *)
LEMMA CommitKept ==
    ASSUME TypeInv, TypeInv', NEW s \in Safekeepers, SafekeeperCommit(s), Extended(ackedLog, ackedLog'),
           memCommit'[s] <= memCommit[s], cfCommit'[s] <= memCommit'[s],
           memCommit'[s] <= flushLsn'[s], memCommit'[s] <= Len(wal'[s]) + 1,
           \A x \in 1..(memCommit'[s] - 1) : wal'[s][x] = wal[s][x]
    PROVE  SafekeeperCommit(s)'
<1>1. /\ memCommit[s] \in Nat /\ Len(wal[s]) \in Nat /\ Len(ackedLog) \in Nat
  BY CommitTypes, LogTypes, AckedType
<1>2. memCommit'[s] \in Nat /\ Len(wal'[s]) \in Nat /\ Len(ackedLog') \in Nat
  BY LogLength, ConstantsType DEF TypeInv, TypeOK, SkTypeOK, AuxTypeOK
<1> DEFINE c == memCommit'[s]
<1>3. Agree(wal[s], ackedLog, c)
  BY <1>1, <1>2, AgreeBelow DEF SafekeeperCommit
<1>4. Agree(wal'[s], ackedLog, c)
  BY <1>3 DEF Agree
<1>5. Extended(wal'[s], wal'[s])
  BY <1>2 DEF Extended
<1>6. Agree(wal'[s], ackedLog', c)
  BY <1>1, <1>2, <1>4, <1>5, AgreeGrows
<1> QED BY <1>6 DEF SafekeeperCommit

(* update_commit_lsn, from an LSN up to which the WAL is committed.        *)
LEMMA CommitRaised ==
    ASSUME TypeInv, TypeInv', NEW s \in Safekeepers, SafekeeperCommit(s), Extended(ackedLog, ackedLog'),
           flushLsn'[s] = flushLsn[s], Extended(wal[s], wal'[s]), NEW c \in Nat,
           Agree(wal[s], ackedLog, Lower(c, flushLsn[s])),
           memCommit'[s] = UpdatedCommitLsn(s, c, flushLsn[s]),
           cfCommit'[s] = cfCommit[s] \/ cfCommit'[s] = memCommit'[s]
    PROVE  SafekeeperCommit(s)'
<1>1. /\ memCommit[s] \in Nat /\ cfCommit[s] \in Nat /\ flushLsn[s] \in Nat
      /\ Len(wal[s]) \in Nat /\ Len(ackedLog) \in Nat
  BY CommitTypes, LogTypes, AckedType
<1>2. memCommit'[s] \in Nat /\ Len(wal'[s]) \in Nat /\ Len(ackedLog') \in Nat
  BY LogLength, ConstantsType DEF TypeInv, TypeOK, SkTypeOK, AuxTypeOK
<1>3. /\ memCommit[s] <= flushLsn[s] /\ cfCommit[s] <= memCommit[s]
      /\ Agree(wal[s], ackedLog, memCommit[s])
  BY DEF SafekeeperCommit
<1>4. /\ memCommit[s] <= memCommit'[s] /\ memCommit'[s] <= flushLsn[s]
      /\ memCommit'[s] = memCommit[s] \/ memCommit'[s] = Lower(c, flushLsn[s])
  BY <1>1, <1>3 DEF UpdatedCommitLsn, Lower, Higher
<1>5. Agree(wal[s], ackedLog, memCommit'[s])
  BY <1>3, <1>4
<1>6. Agree(wal'[s], ackedLog', memCommit'[s])
  BY <1>1, <1>2, <1>5, AgreeGrows
<1>7. memCommit'[s] <= flushLsn'[s] /\ cfCommit'[s] <= memCommit'[s]
  BY <1>1, <1>2, <1>3, <1>4
<1> QED BY <1>6, <1>7 DEF SafekeeperCommit

(* The commit LSN of a peer with WAL of the same term.                     *)
LEMMA CommitOfPeer ==
    ASSUME TypeInv, VotesInv, LogInv, PeerCommit, NEW s \in Safekeepers, peerInfo # None,
           PeerCommitUsable(peerInfo, s)
    PROVE  /\ peerInfo.commit \in Nat
           /\ Agree(wal[s], ackedLog, Lower(peerInfo.commit, flushLsn[s]))
<1> DEFINE c == peerInfo.commit
           f == flushLsn[s]
<1>1. c \in Nat /\ f \in Nat /\ Len(wal[s]) \in Nat /\ Len(ackedLog) \in Nat
  BY LogTypes, AckedType, ConstantsType DEF TypeInv, TypeOK, NetTypeOK, PeerInfos
<1>2. peerInfo.lastLogTerm = HighestTerm(UpTo(hist[s], f))
  BY DEF PeerCommitUsable, LastLogTerm
<1>3. HasDurable(UpTo(hist[s], f), wal[s], f, term[s])
  BY SafekeeperDurable
<1>4. CASE c <= 1
  <2>1. Lower(c, f) \in Nat /\ Lower(c, f) <= 1
    BY <1>1, <1>4 DEF Lower
  <2> HIDE DEF c, f
  <2> QED BY <1>1, <2>1 DEF Agree, c, f
<1>5. CASE c > 1
  <2>1. PICK r \in Proposers : Elected(r) /\ propTerm[r] = peerInfo.lastLogTerm
                                 /\ Agree(propWal[r], ackedLog, c)
    BY <1>5 DEF PeerCommit, FirstLsn
  <2>2. propTerm[r] \in Nat /\ propTerm[r] >= 1 /\ Len(propWal[r]) \in Nat
    BY <2>1, LeaderHistory, LogTypes
  <2>3. UpTo(hist[s], f) # Root
    BY <1>2, <2>1, <2>2, RootHistory
  <2>4. PICK x \in Proposers : Elected(x) /\ UpTo(hist[s], f) = propHist[x] /\ Agree(wal[s], propWal[x], f)
    BY <1>3, <2>3 DEF HasDurable
  <2>5. HighestTerm(propHist[x]) = propTerm[x]
    BY <2>4, LeaderHistory
  <2>6. x = r
    <3>1. propTerm[x] = propTerm[r]
      BY <1>2, <2>1, <2>4, <2>5
    <3> QED BY <2>1, <2>4, <3>1, SameLeader
  <2>7. Lower(c, f) \in Nat /\ Lower(c, f) <= c /\ Lower(c, f) <= f
    BY <1>1 DEF Lower
  <2>8. Agree(wal[s], propWal[r], Lower(c, f))
    BY <1>1, <2>2, <2>4, <2>6, <2>7, AgreeBelow
  <2>9. Agree(propWal[r], ackedLog, Lower(c, f))
    BY <1>1, <2>1, <2>2, <2>7, AgreeBelow
  <2> QED BY <1>1, <2>8, <2>9, AgreeTransitive
<1> QED BY <1>1, <1>4, <1>5

(* What a safekeeper says of its commit LSN, in the term of its last log.  *)
LEMMA CommitPublished ==
    ASSUME TypeInv, VotesInv, LogInv, NEW s \in Safekeepers, SafekeeperCommit(s), memCommit[s] > FirstLsn
    PROVE  \E r \in Proposers : /\ Elected(r) /\ propTerm[r] = LastLogTerm(hist[s], flushLsn[s])
                                /\ Agree(propWal[r], ackedLog, memCommit[s])
<1> DEFINE f == flushLsn[s]
           c == memCommit[s]
<1>1. c \in Nat /\ f \in Nat /\ Len(wal[s]) \in Nat /\ c > 1 /\ c <= f /\ Agree(wal[s], ackedLog, c)
  BY LogTypes, CommitTypes DEF SafekeeperCommit, FirstLsn
<1>2. HasDurable(UpTo(hist[s], f), wal[s], f, term[s])
  BY SafekeeperDurable
<1>3. ~(f <= FirstLsn)
  BY <1>1 DEF FirstLsn
<1>4. PICK x \in Proposers : Elected(x) /\ UpTo(hist[s], f) = propHist[x] /\ Agree(wal[s], propWal[x], f)
  BY <1>2, <1>3 DEF HasDurable
<1>5. HighestTerm(propHist[x]) = propTerm[x] /\ Len(propWal[x]) \in Nat
  BY <1>4, LeaderHistory, LogTypes
<1>6. Agree(wal[s], propWal[x], c)
  BY <1>1, <1>4, <1>5, AgreeBelow
<1>7. Agree(propWal[x], ackedLog, c)
  BY <1>1, <1>6, AgreeSymmetric, AgreeTransitive
<1> QED BY <1>4, <1>5, <1>7 DEF LastLogTerm

(* The WAL, and what is known of it, stays or becomes durable.             *)
LEMMA CommitRest ==
    ASSUME TypeInv, TypeInv', NEW x \in Safekeepers, SafekeeperCommit(x), Extended(ackedLog, ackedLog'),
           memCommit'[x] = memCommit[x], cfCommit'[x] = cfCommit[x] \/ cfCommit'[x] = memCommit[x],
           wal'[x] = wal[x], flushLsn'[x] = flushLsn[x] \/ flushLsn[x] <= flushLsn'[x]
    PROVE  SafekeeperCommit(x)'
<1>1. memCommit[x] \in Nat /\ cfCommit[x] \in Nat /\ flushLsn[x] \in Nat /\ Len(wal[x]) \in Nat
  BY CommitTypes, LogTypes
<1>2. flushLsn'[x] \in Nat
  BY ConstantsType DEF TypeInv, TypeOK, SkTypeOK
<1>3. memCommit[x] <= flushLsn[x] /\ cfCommit[x] <= memCommit[x] /\ memCommit[x] <= Len(wal[x]) + 1
  BY DEF SafekeeperCommit, Agree
<1>4. /\ memCommit'[x] <= memCommit[x] /\ cfCommit'[x] <= memCommit'[x]
      /\ memCommit'[x] <= flushLsn'[x] /\ memCommit'[x] <= Len(wal'[x]) + 1
  BY <1>1, <1>2, <1>3
<1> QED BY <1>4, CommitKept

(* Steps that only flush or save the control file.                         *)
LEMMA CommitsSteady ==
    ASSUME TypeInv, TypeInv', LogInv, \A x \in Safekeepers : SafekeeperCommit(x),
           Extended(ackedLog, ackedLog'), NEW s \in Safekeepers, UNCHANGED <<wal, memCommit>>,
           UNCHANGED flushLsn \/ FlushWal(s),
           UNCHANGED cfCommit \/ cfCommit' = [cfCommit EXCEPT ![s] = memCommit[s]]
    PROVE  \A x \in Safekeepers : SafekeeperCommit(x)'
<1>1. ASSUME NEW x \in Safekeepers
      PROVE  flushLsn'[x] = flushLsn[x] \/ flushLsn[x] <= flushLsn'[x]
  <2>1. CASE FlushWal(s)
    <3>1. flushLsn'[s] = WriteLsn(s) /\ \A y \in Safekeepers : y # s => flushLsn'[y] = flushLsn[y]
      BY <2>1 DEF FlushWal, TypeInv, TypeOK, SkTypeOK
    <3>2. flushLsn[s] <= WriteLsn(s)
      <4>1. flushLsn[s] <= Len(wal[s]) + 1 /\ flushLsn[s] \in Nat
        BY LogTypes DEF LogInv, SafekeeperLog
      <4> QED BY <4>1 DEF WriteLsn
    <3> QED BY <3>1, <3>2
  <2> QED BY <2>1
<1>2. ASSUME NEW x \in Safekeepers
      PROVE  cfCommit'[x] = cfCommit[x] \/ cfCommit'[x] = memCommit[x]
  <2>1. CASE cfCommit' = [cfCommit EXCEPT ![s] = memCommit[s]]
    BY <2>1 DEF TypeInv, TypeOK, SkTypeOK
  <2> QED BY <2>1
<1>3. ASSUME NEW x \in Safekeepers PROVE memCommit'[x] = memCommit[x] /\ wal'[x] = wal[x]
  OBVIOUS
<1> QED BY <1>1, <1>2, <1>3, CommitRest

(* A safekeeper changes, the others do not.                                *)
LEMMA CommitsOne ==
    ASSUME TypeInv, TypeInv', \A x \in Safekeepers : SafekeeperCommit(x), Extended(ackedLog, ackedLog'),
           NEW s \in Safekeepers, SafekeeperCommit(s)', NEW w, NEW f, NEW c, NEW d,
           wal' = [wal EXCEPT ![s] = w], flushLsn' = [flushLsn EXCEPT ![s] = f],
           memCommit' = [memCommit EXCEPT ![s] = c], cfCommit' = [cfCommit EXCEPT ![s] = d]
    PROVE  \A x \in Safekeepers : SafekeeperCommit(x)'
<1>1. ASSUME NEW x \in Safekeepers, x # s
      PROVE  /\ memCommit'[x] = memCommit[x] /\ cfCommit'[x] = cfCommit[x] /\ wal'[x] = wal[x]
             /\ flushLsn'[x] = flushLsn[x]
  BY <1>1 DEF TypeInv, TypeOK, SkTypeOK
<1>2. ASSUME NEW x \in Safekeepers, x # s PROVE SafekeeperCommit(x)'
  BY <1>1, <1>2, CommitRest
<1> QED BY <1>2

(* handle_elected keeps the WAL below the commit LSN.                      *)
LEMMA HandleElectedCommit ==
    ASSUME TypeInv, TypeInv', VotesInv, LogInv, \A x \in Safekeepers : SafekeeperCommit(x),
           NEW k \in Chan, NEW p \in Proposers, NEW s \in Safekeepers, HandleElected(k, p, s)
    PROVE  \A x \in Safekeepers : SafekeeperCommit(x)'
<1> DEFINE start == Head(q[k][p][s]).lo
           commit == Higher(memCommit[s], propHist[p][1].lsn)
<1>1. /\ Received(k, p, s, "elected") /\ ~FromOldTerm(p, s) /\ ~ElectedRefused(p, s, start)
      /\ wal' = [wal EXCEPT ![s] = Below(wal[s], start)] /\ flushLsn' = [flushLsn EXCEPT ![s] = start]
      /\ memCommit' = [memCommit EXCEPT ![s] = commit] /\ cfCommit' = [cfCommit EXCEPT ![s] = commit]
      /\ UNCHANGED ackedLog
  BY DEF HandleElected, TruncateWal, auxVars
<1>2. /\ Elected(p) /\ start = ExpectedStart(p, s) /\ start \in Nat /\ start >= 1
      /\ start <= Len(wal[s]) + 1 /\ memCommit[s] <= start
  BY <1>1, ElectedFacts
<1>3. propHist[p][1].lsn = 1
  BY <1>2 DEF LogInv, LeaderLog, FirstLsn
<1>4. memCommit[s] \in Nat /\ Len(wal[s]) \in Nat /\ wal[s] \in Logs /\ Len(ackedLog) \in Nat
  BY CommitTypes, LogTypes, AckedType
<1>5. Len(Below(wal[s], start)) = start - 1 /\ \A x \in 1..(start - 1) : Below(wal[s], start)[x] = wal[s][x]
  BY <1>2, <1>4, BelowRecords
<1>6. commit \in Nat /\ commit <= start /\ (commit = memCommit[s] \/ commit = 1)
  BY <1>2, <1>3, <1>4 DEF Higher
<1>7. /\ wal'[s] = Below(wal[s], start) /\ flushLsn'[s] = start /\ memCommit'[s] = commit
      /\ cfCommit'[s] = commit /\ ackedLog' = ackedLog
  BY <1>1 DEF TypeInv, TypeOK, SkTypeOK
<1> HIDE DEF start, commit
<1>8. Agree(Below(wal[s], start), ackedLog, commit)
  <2>1. CASE commit = memCommit[s]
    <3>1. Agree(wal[s], ackedLog, commit)
      BY <2>1 DEF SafekeeperCommit
    <3>2. commit <= Len(Below(wal[s], start)) + 1
      BY <1>2, <1>5, <1>6
    <3>3. \A x \in 1..(commit - 1) : x \in 1..(start - 1)
      BY <1>2, <1>6
    <3> QED BY <1>5, <3>1, <3>2, <3>3 DEF Agree
  <2>2. CASE commit = 1
    BY <1>2, <1>4, <1>5, <1>6, <2>2 DEF Agree
  <2> QED BY <1>6, <2>1, <2>2
<1>9. SafekeeperCommit(s)'
  BY <1>6, <1>7, <1>8 DEF SafekeeperCommit
<1>10. Extended(ackedLog, ackedLog')
  BY <1>4, <1>7 DEF Extended
<1> QED BY <1>1, <1>9, <1>10, CommitsOne

(* A restart reads an older commit LSN, and enough WAL.                    *)
LEMMA BootCommit ==
    ASSUME TypeInv, TypeInv', \A x \in Safekeepers : SafekeeperCommit(x), NEW s \in Safekeepers,
           NEW c \in Nat, NEW h, NEW n \in 0..Len(wal[s]), c <= memCommit[s], c <= n + 1,
           Boot(s, c, h, SubSeq(wal[s], 1, n))
    PROVE  \A x \in Safekeepers : SafekeeperCommit(x)'
<1> DEFINE w == SubSeq(wal[s], 1, n)
           f == IF c = 0 THEN 0 ELSE Len(w) + 1
<1>1. /\ wal' = [wal EXCEPT ![s] = w] /\ flushLsn' = [flushLsn EXCEPT ![s] = f]
      /\ memCommit' = [memCommit EXCEPT ![s] = c] /\ cfCommit' = [cfCommit EXCEPT ![s] = c]
      /\ UNCHANGED ackedLog
  BY DEF Boot
<1>2. /\ flushLsn'[s] = (IF c = 0 THEN 0 ELSE n + 1) /\ Len(wal'[s]) = n
      /\ \A x \in 1..n : wal'[s][x] = wal[s][x]
  BY BootFacts
<1>3. memCommit'[s] = c /\ cfCommit'[s] = c
  BY <1>1 DEF TypeInv, TypeOK, SkTypeOK
<1>4. Extended(ackedLog, ackedLog')
  BY <1>1, AckedType DEF Extended
<1>5. SafekeeperCommit(s)'
  <2>1. /\ memCommit'[s] <= memCommit[s] /\ cfCommit'[s] <= memCommit'[s]
        /\ memCommit'[s] <= flushLsn'[s] /\ memCommit'[s] <= Len(wal'[s]) + 1
    BY <1>2, <1>3
  <2>2. \A x \in 1..(memCommit'[s] - 1) : wal'[s][x] = wal[s][x]
    BY <1>2, <1>3
  <2> QED BY <1>4, <2>1, <2>2, CommitKept
<1> HIDE DEF w, f
<1> QED BY <1>1, <1>4, <1>5, CommitsOne

(* A crash, also in the middle of handle_elected.                          *)
LEMMA CrashCommit ==
    ASSUME TypeInv, TypeInv', VotesInv, LogInv, \A x \in Safekeepers : SafekeeperCommit(x),
           NEW s \in Safekeepers, Crash(s) \/ \E k \in Chan, p \in Proposers : CrashInElected(k, p, s)
    PROVE  \A x \in Safekeepers : SafekeeperCommit(x)'
<1>1. /\ memCommit[s] \in Nat /\ cfCommit[s] \in Nat /\ flushLsn[s] \in Nat /\ Len(wal[s]) \in Nat
      /\ memCommit[s] <= flushLsn[s] /\ cfCommit[s] <= memCommit[s] /\ memCommit[s] <= Len(wal[s]) + 1
  BY CommitTypes, LogTypes DEF SafekeeperCommit, Agree
<1>2. CASE Crash(s)
  <2>1. PICK n \in {i \in 0..Len(wal[s]) : i + 1 >= flushLsn[s]} :
          Boot(s, cfCommit[s], cfHorizon[s], SubSeq(wal[s], 1, n))
    BY <1>2 DEF Crash
  <2>2. n \in 0..Len(wal[s]) /\ cfCommit[s] <= n + 1
    BY <1>1
  <2> QED BY <1>1, <2>1, <2>2, BootCommit
<1>3. ASSUME NEW k \in Chan, NEW p \in Proposers, CrashInElected(k, p, s)
      PROVE  \A x \in Safekeepers : SafekeeperCommit(x)'
  <2> DEFINE start == Head(q[k][p][s]).lo
             c == IF term[s] < propTerm[p] THEN memCommit[s] ELSE cfCommit[s]
             h == IF term[s] < propTerm[p] THEN memHorizon[s] ELSE cfHorizon[s]
  <2>1. /\ Received(k, p, s, "elected") /\ ~FromOldTerm(p, s) /\ ~ElectedRefused(p, s, start)
        /\ \E n \in Lower(start - 1, Len(wal[s]))..Len(wal[s]) : Boot(s, c, h, SubSeq(wal[s], 1, n))
    BY <1>3 DEF CrashInElected
  <2>2. start \in Nat /\ start >= 1 /\ memCommit[s] <= start
    BY <2>1, ElectedFacts
  <2>3. c \in Nat /\ c <= memCommit[s]
    BY <1>1
  <2> HIDE DEF start, c, h
  <2>4. PICK n \in Lower(start - 1, Len(wal[s]))..Len(wal[s]) : Boot(s, c, h, SubSeq(wal[s], 1, n))
    BY <2>1
  <2>5. n \in 0..Len(wal[s]) /\ c <= n + 1
    <3>1. Lower(start - 1, Len(wal[s])) \in Nat /\ memCommit[s] <= Lower(start - 1, Len(wal[s])) + 1
      BY <1>1, <2>2 DEF Lower
    <3> QED BY <1>1, <2>3, <3>1
  <2> QED BY <2>3, <2>4, <2>5, BootCommit
<1> QED BY <1>2, <1>3

(* The records of one message.                                             *)
LEMMA SubSeqType ==
    ASSUME NEW R, NEW w \in Seq(R), NEW i \in Nat, NEW j \in Nat, i >= 1, j <= Len(w) + 1
    PROVE  SubSeq(w, i, j - 1) \in Seq(R)
<1>1. j - 1 \in Int /\ j - 1 <= Len(w) /\ Len(w) \in Nat
  OBVIOUS
<1> QED BY <1>1

(* handle_append_request: s has WAL of p, and p committed what it says.    *)
LEMMA HandleAppendRequestCommit ==
    ASSUME TypeInv, TypeInv', VotesInv, LogInv, NEW A, AckInv(A), CommitInv(A),
           NEW k \in Chan, NEW p \in Proposers, NEW s \in Safekeepers, HandleAppendRequest(k, p, s)
    PROVE  \A x \in Safekeepers : SafekeeperCommit(x)'
<1> DEFINE m == Head(q[k][p][s])
           commit == IF m.commit = 0 THEN memCommit[s]
                     ELSE UpdatedCommitLsn(s, m.commit, flushLsn[s])
<1>1. /\ Received(k, p, s, "append") /\ term[s] = propTerm[p] /\ ~AppendRefused(p, s, m)
      /\ wal' = [wal EXCEPT ![s] = wal[s] \o SubSeq(propWal[p], m.lo, m.hi - 1)]
      /\ memCommit' = [memCommit EXCEPT ![s] = commit]
      /\ UNCHANGED cfCommit \/ cfCommit' = [cfCommit EXCEPT ![s] = commit]
      /\ UNCHANGED <<flushLsn, ackedLog>>
  BY DEF HandleAppendRequest, auxVars
<1>2. /\ m.type = "append" /\ RequestOK(p, m) /\ m = q[k][p][s][1] /\ 1 \in 1..Len(q[k][p][s])
      /\ m.commit \in Nat /\ m.lo \in Nat /\ m.hi \in Nat
  <2>1. Received(k, p, s, "append")
    BY <1>1
  <2> QED BY <2>1, HeadRequest
<1>3. Elected(p) /\ Follows(p, s)
  <2>1. ConnectionLog(k, p, s)
    BY DEF LogInv
  <2>2. Follows(p, s) \/ \E j \in 1..(1 - 1) : q[k][p][s][j].type = "elected"
    BY <1>2, <2>1 DEF ConnectionLog
  <2> QED BY <1>2, <2>2 DEF RequestOK, Elected
<1>4. hist[s] = propHist[p] /\ Agree(wal[s], propWal[p], Len(wal[s]) + 1)
  BY <1>1, <1>3, FollowerLog
<1>5. Reported(A, p, m.commit) /\ SafekeeperCommit(s) /\ AckedLogOK(A)
  BY <1>2 DEF CommitInv
<1>6. /\ memCommit[s] \in Nat /\ flushLsn[s] \in Nat /\ Len(wal[s]) \in Nat /\ Len(ackedLog) \in Nat
      /\ Len(propWal[p]) \in Nat /\ flushLsn[s] <= Len(wal[s]) + 1
  BY CommitTypes, LogTypes, AckedType DEF LogInv, SafekeeperLog
<1>7. wal'[s] = wal[s] \o SubSeq(propWal[p], m.lo, m.hi - 1)
  BY <1>1 DEF TypeInv, TypeOK, SkTypeOK
<1>8. /\ memCommit'[s] = commit
      /\ cfCommit'[s] = cfCommit[s] \/ cfCommit'[s] = memCommit'[s]
      /\ flushLsn'[s] = flushLsn[s]
  <2>1. memCommit'[s] = commit /\ flushLsn'[s] = flushLsn[s]
    BY <1>1 DEF TypeInv, TypeOK, SkTypeOK
  <2>2. cfCommit'[s] = cfCommit[s] \/ cfCommit'[s] = commit
    BY <1>1 DEF TypeInv, TypeOK, SkTypeOK
  <2> QED BY <2>1, <2>2
<1>9. Extended(wal[s], wal'[s])
  <2> DEFINE R == [term : Terms, lsn : 1..MaxLsn]
  <2>1. wal[s] \in Seq(R) /\ wal'[s] \in Seq(R) /\ propWal[p] \in Seq(R)
    BY DEF TypeInv, TypeOK, SkTypeOK, WpTypeOK, Logs
  <2> HIDE DEF R, m
  <2>2. m.lo >= 1 /\ m.hi <= Len(propWal[p]) + 1
    BY <1>2 DEF RequestOK, AvailableLsn
  <2>3. SubSeq(propWal[p], m.lo, m.hi - 1) \in Seq(R)
    BY <1>2, <2>1, <2>2, SubSeqType
  <2> QED BY <1>7, <2>1, <2>3 DEF Extended
<1>10. Extended(ackedLog, ackedLog')
  <2>1. ackedLog' = ackedLog
    BY <1>1
  <2> QED BY <1>6, <2>1 DEF Extended
<1> HIDE DEF m
<1>11. SafekeeperCommit(s)'
  <2>1. CASE m.commit = 0
    <3>1. memCommit'[s] = memCommit[s]
      BY <1>8, <2>1
    <3>2. memCommit[s] <= flushLsn[s] /\ cfCommit[s] <= memCommit[s] /\ memCommit[s] <= Len(wal[s]) + 1
      BY <1>5 DEF SafekeeperCommit, Agree
    <3>3. Len(wal[s]) <= Len(wal'[s]) /\ Len(wal'[s]) \in Nat /\ cfCommit[s] \in Nat
      <4>1. wal'[s] \in Logs
        BY DEF TypeInv, TypeOK, SkTypeOK
      <4>2. Len(wal'[s]) \in Nat /\ cfCommit[s] \in Nat
        BY <4>1, LogLength, CommitTypes
      <4> QED BY <1>9, <4>2 DEF Extended
    <3>4. \A x \in 1..(memCommit'[s] - 1) : wal'[s][x] = wal[s][x]
      <4>1. \A x \in 1..(memCommit'[s] - 1) : x \in 1..Len(wal[s])
        BY <1>6, <3>1, <3>2
      <4> QED BY <1>9, <4>1 DEF Extended
    <3>5. /\ memCommit'[s] <= memCommit[s] /\ cfCommit'[s] <= memCommit'[s]
          /\ memCommit'[s] <= flushLsn'[s] /\ memCommit'[s] <= Len(wal'[s]) + 1
      BY <1>6, <1>8, <3>1, <3>2, <3>3
    <3> QED BY <1>5, <1>10, <3>4, <3>5, CommitKept
  <2>2. CASE m.commit # 0
    <3>1. Agree(propWal[p], ackedLog, m.commit)
      BY <1>2, <1>5, <2>2, CommittedInLog DEF Reported
    <3> DEFINE c == Lower(m.commit, flushLsn[s])
    <3>2. c \in Nat /\ c <= m.commit /\ c <= flushLsn[s] /\ c <= Len(wal[s]) + 1
      <4>1. m.commit \in Nat
        BY <1>2
      <4>2. flushLsn[s] \in Nat /\ flushLsn[s] <= Len(wal[s]) + 1 /\ Len(wal[s]) \in Nat
        BY <1>6
      <4> QED BY <4>1, <4>2 DEF Lower
    <3> HIDE DEF c
    <3>3. Agree(propWal[p], ackedLog, c)
      BY <1>2, <1>6, <3>1, <3>2, AgreeBelow
    <3>4. Agree(wal[s], propWal[p], c)
      BY <1>4, <1>6, <3>2, AgreeBelow
    <3>5. Agree(wal[s], ackedLog, Lower(m.commit, flushLsn[s]))
      BY <3>3, <3>4, AgreeTransitive DEF c
    <3>6. memCommit'[s] = UpdatedCommitLsn(s, m.commit, flushLsn[s])
      BY <1>8, <2>2
    <3> QED BY <1>2, <1>5, <1>8, <1>9, <1>10, <3>5, <3>6, CommitRaised
  <2> QED BY <2>1, <2>2
<1>12. cfCommit' = [cfCommit EXCEPT ![s] = cfCommit[s]] \/ cfCommit' = [cfCommit EXCEPT ![s] = commit]
  BY <1>1 DEF TypeInv, TypeOK, SkTypeOK
<1>13. flushLsn' = [flushLsn EXCEPT ![s] = flushLsn[s]]
  BY <1>1 DEF TypeInv, TypeOK, SkTypeOK
<1>14. \A x \in Safekeepers : SafekeeperCommit(x)
  BY DEF CommitInv
<1> HIDE DEF commit
<1> QED BY <1>1, <1>10, <1>11, <1>12, <1>13, <1>14, CommitsOne

(* record_safekeeper_info: s has WAL of the term of the peer's.            *)
LEMMA RecordSafekeeperInfoCommit ==
    ASSUME TypeInv, TypeInv', VotesInv, LogInv, PeerCommit, \A x \in Safekeepers : SafekeeperCommit(x),
           NEW s \in Safekeepers, RecordSafekeeperInfo(s)
    PROVE  \A x \in Safekeepers : SafekeeperCommit(x)'
<1> DEFINE commit == IF PeerCommitUsable(peerInfo, s) THEN UpdatedCommitLsn(s, peerInfo.commit, flushLsn[s])
                     ELSE memCommit[s]
<1>1. /\ peerInfo # None /\ memCommit' = [memCommit EXCEPT ![s] = commit]
      /\ UNCHANGED cfCommit \/ cfCommit' = [cfCommit EXCEPT ![s] = commit]
      /\ UNCHANGED <<wal, flushLsn, ackedLog>>
  BY DEF RecordSafekeeperInfo, auxVars
<1>2. /\ memCommit[s] \in Nat /\ flushLsn[s] \in Nat /\ Len(wal[s]) \in Nat /\ Len(ackedLog) \in Nat
  BY CommitTypes, LogTypes, AckedType
<1>3. /\ memCommit'[s] = commit /\ flushLsn'[s] = flushLsn[s] /\ wal'[s] = wal[s]
      /\ cfCommit'[s] = cfCommit[s] \/ cfCommit'[s] = commit
  BY <1>1 DEF TypeInv, TypeOK, SkTypeOK
<1>4. Extended(wal[s], wal'[s]) /\ Extended(ackedLog, ackedLog')
  BY <1>1, <1>2 DEF Extended
<1>5. SafekeeperCommit(s)'
  <2>1. CASE PeerCommitUsable(peerInfo, s)
    <3>1. peerInfo.commit \in Nat /\ Agree(wal[s], ackedLog, Lower(peerInfo.commit, flushLsn[s]))
      BY <1>1, <2>1, CommitOfPeer
    <3>2. commit = UpdatedCommitLsn(s, peerInfo.commit, flushLsn[s])
      BY <2>1
    <3> HIDE DEF commit
    <3> QED BY <1>3, <1>4, <3>1, <3>2, CommitRaised
  <2>2. CASE ~PeerCommitUsable(peerInfo, s)
    <3>1. commit = memCommit[s]
      BY <2>2
    <3> HIDE DEF commit
    <3> QED BY <1>3, <1>4, <3>1, CommitRest
  <2> QED BY <2>1, <2>2
<1> HIDE DEF commit
<1>6. ASSUME NEW x \in Safekeepers, x # s
      PROVE  memCommit'[x] = memCommit[x] /\ cfCommit'[x] = cfCommit[x] /\ wal'[x] = wal[x]
             /\ flushLsn'[x] = flushLsn[x]
  BY <1>1, <1>6 DEF TypeInv, TypeOK, SkTypeOK
<1>7. ASSUME NEW x \in Safekeepers, x # s PROVE SafekeeperCommit(x)'
  BY <1>4, <1>6, <1>7, CommitRest
<1> QED BY <1>5, <1>7

-----------------------------------------------------------------------------
(* What messages say.                                                      *)

(* A message is an old one, or tells what its proposer knows.              *)
Tells(p, m) == /\ m.commit = 0 \/ m.commit = propCommit[p]
               /\ m.horizon = 0 \/ m.horizon = propTruncate[p]

(* So is every message after a step.                                       *)
MessagesStep ==
    \A k \in Chan, p \in Proposers, s \in Safekeepers : \A i \in 1..Len(q'[k][p][s]) :
      \/ Tells(p, q'[k][p][s][i])
      \/ \E j \in Chan : \E x \in 1..Len(q[j][p][s]) : q'[k][p][s][i] = q[j][p][s][x]

(* What a step can do to a queue.                                          *)
QueueFrom(k, p, s) ==
    \/ q'[k][p][s] = <<>> \/ \E j \in Chan : q'[k][p][s] = q[j][p][s]
    \/ q[k][p][s] # <<>> /\ q'[k][p][s] = Tail(q[k][p][s])
    \/ \E m : q'[k][p][s] = Append(q[k][p][s], m) /\ Tells(p, m)

(* Queues that lose and get messages at their ends.                        *)
LEMMA QueuesFrom ==
    ASSUME TypeInv, \A k \in Chan, p \in Proposers, s \in Safekeepers : QueueFrom(k, p, s)
    PROVE  MessagesStep
<1> SUFFICES ASSUME NEW k \in Chan, NEW p \in Proposers, NEW s \in Safekeepers,
                    NEW i \in 1..Len(q'[k][p][s])
             PROVE  \/ Tells(p, q'[k][p][s][i])
                    \/ \E j \in Chan : \E x \in 1..Len(q[j][p][s]) : q'[k][p][s][i] = q[j][p][s][x]
  BY DEF MessagesStep
<1> DEFINE u == q[k][p][s]
           v == q'[k][p][s]
<1>1. u \in Seq(Messages)
  BY DEF TypeInv, TypeOK, NetTypeOK
<1>2. CASE v = <<>>
  BY <1>2
<1>3. CASE \E j \in Chan : v = q[j][p][s]
  BY <1>3
<1>4. CASE u # <<>> /\ v = Tail(u)
  <2> HIDE DEF u, v
  <2>1. i \in 1..Len(v)
    BY DEF v
  <2>2. i + 1 \in 1..Len(u) /\ v[i] = u[i + 1]
    BY <1>1, <1>4, <2>1
  <2>3. \E x \in 1..Len(u) : v[i] = u[x]
    BY <2>2
  <2> QED BY <2>3 DEF u, v
<1>5. CASE \E m : v = Append(u, m) /\ Tells(p, m)
  <2>1. PICK m : v = Append(u, m) /\ Tells(p, m)
    BY <1>5
  <2> HIDE DEF u, v
  <2>2. i \in 1..Len(v)
    BY DEF v
  <2>3. v[i] = m \/ (i \in 1..Len(u) /\ v[i] = u[i])
    <3>1. /\ Len(v) = Len(u) + 1 /\ Len(u) \in Nat
          /\ \A x \in 1..Len(u) : v[x] = u[x]
          /\ v[Len(u) + 1] = m
      BY <1>1, <2>1
    <3>2. i \in 1..Len(u) \/ i = Len(u) + 1
      BY <2>2, <3>1
    <3> QED BY <3>1, <3>2
  <2> QED BY <2>1, <2>3 DEF u, v
<1> QED BY <1>2, <1>3, <1>4, <1>5 DEF QueueFrom

(* Nothing is sent or taken.                                               *)
LEMMA MessagesRest ==
    ASSUME TypeInv, UNCHANGED q PROVE MessagesStep
BY QueuesFrom DEF QueueFrom

(* WalAcceptor takes a message.                                            *)
LEMMA MessagesTaken ==
    ASSUME TypeInv, NEW k \in Chan, NEW p \in Proposers, NEW s \in Safekeepers, NEW type,
           Received(k, p, s, type), Consume(k, p, s)
    PROVE  MessagesStep
<1>1. q' = [q EXCEPT ![k][p][s] = Tail(q[k][p][s])] /\ q[k][p][s] # <<>>
  BY DEF Consume, Received
<1>2. ASSUME NEW c \in Chan, NEW r \in Proposers, NEW x \in Safekeepers PROVE QueueFrom(c, r, x)
  <2>1. \/ q'[c][r][x] = q[c][r][x]
        \/ c = k /\ r = p /\ x = s /\ q'[c][r][x] = Tail(q[c][r][x])
    BY <1>1 DEF TypeInv, TypeOK, NetTypeOK
  <2> QED BY <1>1, <2>1 DEF QueueFrom
<1> QED BY <1>2, QueuesFrom

(* WalAcceptor ends and its queue is gone.                                 *)
LEMMA MessagesClosed ==
    ASSUME TypeInv, NEW k \in Chan, NEW p \in Proposers, NEW s \in Safekeepers, CloseOnError(k, p, s)
    PROVE  MessagesStep
<1>1. q' = [q EXCEPT ![k][p][s] = <<>>]
  BY DEF CloseOnError
<1>2. ASSUME NEW c \in Chan, NEW r \in Proposers, NEW x \in Safekeepers PROVE QueueFrom(c, r, x)
  <2>1. q'[c][r][x] = q[c][r][x] \/ q'[c][r][x] = <<>>
    BY <1>1 DEF TypeInv, TypeOK, NetTypeOK
  <2> QED BY <2>1 DEF QueueFrom
<1> QED BY <1>2, QueuesFrom

(* A connection is given up, or all those of a safekeeper break.           *)
LEMMA MessagesLost ==
    ASSUME TypeInv, (\E L : ShutdownConnection(L))
                    \/ \E s \in Safekeepers : \E c, h, w : Boot(s, c, h, w)
    PROVE  MessagesStep
<1>1. ASSUME NEW c \in Chan, NEW r \in Proposers, NEW x \in Safekeepers PROVE QueueFrom(c, r, x)
  <2>1. CASE \E L : ShutdownConnection(L)
    <3>1. q'[c][r][x] = <<>> \/ q'[c][r][x] = q[c][r][x] \/ q'[c][r][x] = q["live"][r][x]
          \/ q'[c][r][x] = q["late"][r][x]
      BY <2>1 DEF ShutdownConnection
    <3> QED BY <3>1 DEF QueueFrom, Chan
  <2>2. CASE \E s \in Safekeepers : \E d, h, w : Boot(s, d, h, w)
    <3>1. PICK s \in Safekeepers : q' = [k \in Chan |-> [p \in Proposers |-> [q[k][p] EXCEPT ![s] = <<>>]]]
      BY <2>2 DEF Boot
    <3>2. q'[c][r][x] = <<>> \/ q'[c][r][x] = q[c][r][x]
      BY <3>1 DEF TypeInv, TypeOK, NetTypeOK
    <3> QED BY <3>2 DEF QueueFrom
  <2> QED BY <2>1, <2>2
<1> QED BY <1>1, QueuesFrom

(* A new message for some of the safekeepers.                              *)
LEMMA MessagesSent ==
    ASSUME TypeInv, NEW p \in Proposers, NEW S, NEW f,
           \A s \in S : s \in Safekeepers => Tells(p, f[s]),
           q' = [q EXCEPT !["live"][p] = [s \in Safekeepers |->
                   IF s \in S THEN Append(q["live"][p][s], f[s]) ELSE q["live"][p][s]]]
    PROVE  MessagesStep
<1>1. q \in [Chan -> [Proposers -> [Safekeepers -> Seq(Messages)]]] /\ "live" \in Chan
  BY DEF TypeInv, TypeOK, NetTypeOK, Chan
<1>2. ASSUME NEW c \in Chan, NEW r \in Proposers, NEW x \in Safekeepers PROVE QueueFrom(c, r, x)
  <2>1. CASE c = "live" /\ r = p
    <3>1. q'[c][r] = [s \in Safekeepers |->
                   IF s \in S THEN Append(q["live"][p][s], f[s]) ELSE q["live"][p][s]]
      BY <1>1, <2>1
    <3>2. q'[c][r][x] = q[c][r][x] \/ (x \in S /\ q'[c][r][x] = Append(q[c][r][x], f[x]))
      BY <2>1, <3>1
    <3> QED BY <2>1, <3>2 DEF QueueFrom
  <2>2. CASE ~(c = "live" /\ r = p)
    <3>1. q'[c][r] = q[c][r]
      BY <1>1, <2>2
    <3> QED BY <3>1 DEF QueueFrom
  <2> QED BY <2>1, <2>2
<1> QED BY <1>2, QueuesFrom

(* A new message for one safekeeper.                                       *)
LEMMA MessageSent ==
    ASSUME TypeInv, NEW p \in Proposers, NEW s \in Safekeepers, NEW m, Tells(p, m),
           q' = [q EXCEPT !["live"][p][s] = Append(q["live"][p][s], m)]
    PROVE  MessagesStep
<1>1. q \in [Chan -> [Proposers -> [Safekeepers -> Seq(Messages)]]] /\ "live" \in Chan
  BY DEF TypeInv, TypeOK, NetTypeOK, Chan
<1>2. ASSUME NEW c \in Chan, NEW r \in Proposers, NEW x \in Safekeepers PROVE QueueFrom(c, r, x)
  <2>1. CASE c = "live" /\ r = p /\ x = s
    <3>1. q'[c][r][x] = Append(q[c][r][x], m)
      BY <1>1, <2>1
    <3> QED BY <2>1, <3>1 DEF QueueFrom
  <2>2. CASE ~(c = "live" /\ r = p /\ x = s)
    <3>1. q'[c][r][x] = q[c][r][x]
      BY <1>1, <2>2
    <3> QED BY <3>1 DEF QueueFrom
  <2> QED BY <2>1, <2>2
<1> QED BY <1>2, QueuesFrom

(* The messages of the steps.                                              *)
LEMMA SafekeeperMessages ==
    ASSUME TypeInv, NEW s \in Safekeepers, SafekeeperStep(s) PROVE MessagesStep
<1>1. ASSUME NEW k \in Chan, NEW p \in Proposers,
             \/ HandleVoteRequest(k, p, s) \/ IgnoreElected(k, p, s) \/ HandleElected(k, p, s)
             \/ AppendOfOldTerm(k, p, s) \/ HandleAppendRequest(k, p, s)
      PROVE  MessagesStep
  <2>1. (\E type : Received(k, p, s, type)) /\ Consume(k, p, s)
    <3>1. CASE HandleVoteRequest(k, p, s) \/ IgnoreElected(k, p, s)
      BY <3>1 DEF HandleVoteRequest, IgnoreElected
    <3>2. CASE HandleElected(k, p, s)
      BY <3>2 DEF HandleElected
    <3>3. CASE AppendOfOldTerm(k, p, s)
      BY <3>3 DEF AppendOfOldTerm
    <3>4. CASE HandleAppendRequest(k, p, s)
      BY <3>4 DEF HandleAppendRequest
    <3> QED BY <1>1, <3>1, <3>2, <3>3, <3>4
  <2>2. PICK type : Received(k, p, s, type)
    BY <2>1
  <2> QED BY <2>1, <2>2, MessagesTaken
<1>2. ASSUME NEW k \in Chan, NEW p \in Proposers, RefuseElected(k, p, s) \/ RefuseAppend(k, p, s)
      PROVE  MessagesStep
  <2>1. CloseOnError(k, p, s)
    BY <1>2 DEF RefuseElected, RefuseAppend
  <2> QED BY <2>1, MessagesClosed
<1>3. CASE Crash(s) \/ \E k \in Chan, p \in Proposers : CrashInElected(k, p, s)
  <2>1. \E c, h, w : Boot(s, c, h, w)
    BY <1>3 DEF Crash, CrashInElected
  <2> QED BY <2>1, MessagesLost
<1>4. CASE \/ SaveControlFile(s) \/ TermBump(s) \/ PublishInfo(s) \/ RecordSafekeeperInfo(s)
           \/ \E k \in Chan, p \in Proposers : HandleFlush(k, p, s)
  <2>1. UNCHANGED q
    BY <1>4 DEF SaveControlFile, TermBump, PublishInfo, RecordSafekeeperInfo, HandleFlush, netVars
  <2> QED BY <2>1, MessagesRest
<1> QED BY <1>1, <1>2, <1>3, <1>4 DEF SafekeeperStep

(* The same for proposers.                                                 *)
LEMMA ProposerMessages ==
    ASSUME TypeInv, NEW p \in Proposers, ProposerStep(p) PROVE MessagesStep
<1>1. Fatal(p) => MessagesStep
  <2>1. Fatal(p) => ShutdownConnection({p} \X Safekeepers)
    BY DEF Fatal
  <2> QED BY <2>1, MessagesLost
<1>2. ASSUME NEW s \in Safekeepers,
             \/ GreetCollecting(p, s) \/ RecvVoteCounted(p, s) \/ RecvAppendResponse(p, s) \/ WriteWal(p)
      PROVE  MessagesStep
  <2>1. UNCHANGED q
    BY <1>2 DEF GreetCollecting, RecvVoteCounted, RecvAppendResponse, WriteWal, netVars
  <2> QED BY <2>1, MessagesRest
<1>3. ASSUME NEW s \in Safekeepers, GreetStartsCampaign(p, s) \/ GreetLate(p, s) PROVE MessagesStep
  <2>1. PICK S : SendVoteRequests(p, S)
    BY <1>3 DEF GreetStartsCampaign, GreetLate
  <2> DEFINE f == [x \in Safekeepers |-> VoteRequestMsg]
  <2>2. q \in [Chan -> [Proposers -> [Safekeepers -> Seq(Messages)]]] /\ "live" \in Chan
    BY DEF TypeInv, TypeOK, NetTypeOK, Chan
  <2>3. q' = [q EXCEPT !["live"][p] = [x \in Safekeepers |->
                   IF x \in S THEN Append(q["live"][p][x], f[x]) ELSE q["live"][p][x]]]
    BY <2>1, <2>2 DEF SendVoteRequests
  <2>4. \A x \in S : x \in Safekeepers => Tells(p, f[x])
    BY DEF Tells, VoteRequestMsg
  <2> HIDE DEF f
  <2> QED BY <2>3, <2>4, MessagesSent
<1>4. ASSUME NEW s \in Safekeepers, RecvVoteElects(p, s) PROVE MessagesStep
  <2>1. PICK d : BecomeElected(p, s, d) \/ Fatal(p)
    BY <1>4 DEF RecvVoteElects
  <2>2. CASE BecomeElected(p, s, d)
    <3> DEFINE V == Voters(p, s)
               th == Append(VoteOf(p, s, d).hist, TermLsn(propTerm[p],
                       IF \A r \in V : VoteOf(p, s, r).flush = 0 THEN FirstLsn ELSE VoteOf(p, s, d).flush))
               f == [x \in Safekeepers |-> ElectedMsg(
                       StartStreamingAt(th, propTerm[p], VoteOf(p, s, x).hist, VoteOf(p, s, x).flush))]
    <3>1. q \in [Chan -> [Proposers -> [Safekeepers -> Seq(Messages)]]] /\ "live" \in Chan
      BY DEF TypeInv, TypeOK, NetTypeOK, Chan
    <3>2. q' = [q EXCEPT !["live"][p] = [x \in Safekeepers |->
                     IF x \in V THEN Append(q["live"][p][x], f[x]) ELSE q["live"][p][x]]]
      BY <2>2, <3>1 DEF BecomeElected
    <3>3. \A x \in V : x \in Safekeepers => Tells(p, f[x])
      <4> HIDE DEF V, th
      <4> QED BY DEF Tells, ElectedMsg
    <3> HIDE DEF f, V
    <3> QED BY <3>2, <3>3, MessagesSent
  <2> QED BY <1>1, <2>1, <2>2
<1>5. ASSUME NEW s \in Safekeepers, RecvVoteLate(p, s) PROVE MessagesStep
  <2> DEFINE m == ElectedMsg(StartStreamingAt(propHist[p], propTerm[p], rsp[p][s].hist, rsp[p][s].flush))
  <2>1. q' = [q EXCEPT !["live"][p][s] = Append(q["live"][p][s], m)]
    BY <1>5 DEF RecvVoteLate, TypeInv, TypeOK, NetTypeOK, Chan
  <2>2. Tells(p, m)
    BY DEF Tells, ElectedMsg
  <2> HIDE DEF m
  <2> QED BY <2>1, <2>2, MessageSent
<1>6. ASSUME NEW s \in Safekeepers, SendAppendRequest(p, s) PROVE MessagesStep
  <2> DEFINE m == AppendMsg(streamingAt[p][s], SendEnd(p, streamingAt[p][s]), propCommit[p], propTruncate[p])
  <2>1. q' = [q EXCEPT !["live"][p][s] = Append(q["live"][p][s], m)]
    BY <1>6 DEF SendAppendRequest, TypeInv, TypeOK, NetTypeOK, Chan
  <2>2. Tells(p, m)
    BY DEF Tells, AppendMsg
  <2> HIDE DEF m
  <2> QED BY <2>1, <2>2, MessageSent
<1>7. ASSUME NEW s \in Safekeepers,
             GreetRejected(p, s) \/ RecvVoteRefused(p, s) \/ RecvAckFatal(p, s) \/ Die(p)
      PROVE  MessagesStep
  <2>1. Fatal(p)
    BY <1>7 DEF GreetRejected, RecvVoteRefused, RecvAckFatal, Die
  <2> QED BY <1>1, <2>1
<1>8. ASSUME NEW s \in Safekeepers, Disconnect(p, s) PROVE MessagesStep
  <2>1. ShutdownConnection({<<p, s>>})
    BY <1>8 DEF Disconnect
  <2> QED BY <2>1, MessagesLost
<1>9. Safekeepers # {}
  BY ConstantsAssumption
<1> QED BY <1>2, <1>3, <1>4, <1>5, <1>6, <1>7, <1>8, <1>9 DEF ProposerStep

(* No step makes a message up.                                             *)
LEMMA NextMessages ==
    ASSUME TypeInv, [Next]_vars PROVE MessagesStep
<1>1. CASE UNCHANGED vars
  BY <1>1, MessagesRest DEF vars, netVars
<1> QED BY <1>1, SafekeeperMessages, ProposerMessages DEF Next

-----------------------------------------------------------------------------
(* HandleSafekeeperResponse.                                               *)

(* The position a quorum acknowledged: one safekeeper reached exactly it,  *)
(* the start of the term is below, and a quorum is there.                  *)
LEMMA AcknowledgedQuorum ==
    ASSUME NEW p, NEW acks \in [Safekeepers -> Lsns], AcknowledgedByQuorum(p, acks) # 0
    PROVE  /\ \E s \in Safekeepers : /\ acks[s] = AcknowledgedByQuorum(p, acks)
                                     /\ PropTermStartLsn(p) <= acks[s]
           /\ HasQuorum({s \in Safekeepers : acks[s] >= AcknowledgedByQuorum(p, acks)})
<1> DEFINE counted == [s \in Safekeepers |->
                         IF acks[s] >= PropTermStartLsn(p) THEN acks[s] ELSE 0]
           held(l) == {s \in Safekeepers : counted[s] >= l}
           reached == {counted[s] : s \in Safekeepers} \cup {0}
           good == {h \in reached : HasQuorum(held(h))}
           n == AcknowledgedByQuorum(p, acks)
<1>1. counted \in [Safekeepers -> Lsns] /\ reached \in SUBSET Lsns
  BY ConstantsType
<1>2. good \in SUBSET (0..MaxLsn) /\ good \in SUBSET reached
  BY <1>1 DEF Lsns
<1>3. 0 \in good
  <2>1. held(0) = Safekeepers
    <3>1. \A s \in Safekeepers : counted[s] \in Nat
      BY <1>1, ConstantsType
    <3> HIDE DEF counted
    <3>2. \A s \in Safekeepers : counted[s] >= 0
      BY <3>1
    <3> QED BY <3>2
  <2>2. HasQuorum(Safekeepers)
    <3>1. Safekeepers # {} /\ IsFiniteSet(Safekeepers)
      BY ConstantsAssumption
    <3>2. Cardinality(Safekeepers) # 0
      BY <3>1, FS_EmptySet
    <3> QED BY <3>2, ConstantsType DEF HasQuorum, Quorum
  <2> QED BY <2>1, <2>2
<1>4. PICK m \in good : \A x \in good : x <= m
  <2> HIDE DEF good
  <2> QED BY <1>2, <1>3, GreatestNatural, ConstantsType
<1>5. \E l \in reached : HasQuorum(held(l)) /\ \A h \in reached : HasQuorum(held(h)) => h <= l
  BY <1>2, <1>4
<1>6. n \in reached /\ HasQuorum(held(n))
  <2>1. n = CHOOSE l \in reached :
            HasQuorum(held(l)) /\ \A h \in reached : HasQuorum(held(h)) => h <= l
    BY DEF AcknowledgedByQuorum
  <2> HIDE DEF reached, held, n
  <2> QED BY <1>5, <2>1
<1>7. n # 0
  OBVIOUS
<1> HIDE DEF n
<1>12. n \in Nat
  <2>1. reached \in SUBSET Nat
    BY <1>1, ConstantsType
  <2> HIDE DEF reached, held
  <2> QED BY <1>6, <2>1
<1>8. PICK s \in Safekeepers : counted[s] = n
  BY <1>6, <1>7
<1>9. acks[s] = n /\ PropTermStartLsn(p) <= acks[s]
  BY <1>7, <1>8
<1>10. ASSUME NEW x \in Safekeepers, counted[x] >= n PROVE acks[x] >= n
  <2>1. counted[x] \in Nat /\ counted[x] # 0
    <3>1. counted[x] \in Lsns
      <4> HIDE DEF counted
      <4> QED BY <1>1
    <3> HIDE DEF counted
    <3>2. counted[x] \in Nat
      BY <3>1, ConstantsType
    <3> QED BY <1>7, <1>12, <1>10, <3>2
  <2>2. counted[x] = acks[x]
    BY <2>1
  <2> QED BY <1>10, <2>2
<1>11. HasQuorum({x \in Safekeepers : acks[x] >= n})
  <2> DEFINE S == held(n)
             T == {x \in Safekeepers : acks[x] >= n}
  <2>1. S \in SUBSET Safekeepers /\ T \in SUBSET Safekeepers /\ HasQuorum(S) /\ \A x \in S : x \in T
    BY <1>6, <1>10
  <2> HIDE DEF S, T
  <2>2. HasQuorum(T)
    BY <2>1, QuorumGrows
  <2> QED BY <2>2 DEF T
<1> QED BY <1>9, <1>11 DEF n

(* So that position is committed.                                          *)
LEMMA AcknowledgedCommitted ==
    ASSUME TypeInv, LogInv, NEW A, AckInv(A), NEW p \in Proposers, NEW acks \in [Safekeepers -> Lsns],
           \A x \in Safekeepers : acks[x] <= A[p][x], NEW l, l = AcknowledgedByQuorum(p, acks), l # 0
    PROVE  Committed(A, p, l)
<1>1. PICK s \in Safekeepers : acks[s] = l /\ PropTermStartLsn(p) <= acks[s]
  BY AcknowledgedQuorum
<1>2. acks[s] \in Nat /\ A[p][s] \in Nat /\ l \in Nat
  BY <1>1, ConstantsType, AckFacts
<1>3. A[p][s] # 0
  BY <1>1, <1>2
<1>4. Elected(p) /\ A[p][s] <= AvailableLsn(p)
  BY <1>3, AckFacts
<1>5. AvailableLsn(p) \in Nat
  BY LogTypes DEF AvailableLsn
<1>6. l <= AvailableLsn(p)
  BY <1>1, <1>2, <1>4, <1>5
<1> DEFINE S == {x \in Safekeepers : acks[x] >= l}
           T == {x \in Safekeepers : A[p][x] >= l}
<1>7. S \in SUBSET Safekeepers /\ T \in SUBSET Safekeepers /\ HasQuorum(S)
  BY AcknowledgedQuorum
<1>8. ASSUME NEW x \in S PROVE x \in T
  <2>1. acks[x] \in Nat /\ A[p][x] \in Nat /\ acks[x] <= A[p][x] /\ acks[x] >= l
    BY ConstantsType, AckFacts
  <2> QED BY <1>2, <2>1
<1> HIDE DEF S, T
<1>9. HasQuorum(T)
  BY <1>7, <1>8, QuorumGrows
<1> QED BY <1>1, <1>4, <1>6, <1>9 DEF Committed, T

(* What p reports next.                                                    *)
LEMMA ResponseCommits ==
    ASSUME TypeInv, LogInv, NEW A, AckInv(A), NEW p \in Proposers, NEW s \in Safekeepers,
           Reported(A, p, propCommit[p]), RecvAppendResponse(p, s)
    PROVE  /\ propCommit'[p] \in Nat /\ (propCommit'[p] # 0 => Committed(A, p, propCommit'[p]))
           /\ ackedLog' = IF propCommit'[p] > Len(ackedLog) + 1 THEN Below(propWal[p], propCommit'[p])
                          ELSE ackedLog
           /\ \A r \in Proposers : r # p => propCommit'[r] = propCommit[r]
<1> DEFINE acks == [ack[p] EXCEPT ![s] = rsp[p][s].flush]
           n == AcknowledgedByQuorum(p, acks)
           commit == Higher(propCommit[p], n)
<1>1. /\ AckArrives(p, s) /\ rsp[p][s].term <= propTerm[p]
      /\ propCommit' = [propCommit EXCEPT ![p] = commit]
      /\ ackedLog' = IF commit > Len(ackedLog) + 1 THEN Below(propWal[p], commit) ELSE ackedLog
  BY DEF RecvAppendResponse
<1>2. rsp[p][s] # None /\ rsp[p][s].type = "ack" /\ rsp[p][s].term >= propTerm[p]
  BY <1>1 DEF AckArrives, LogInv, LinkLog
<1>3. rsp[p][s].term \in Nat /\ rsp[p][s].flush \in Lsns
  <2>1. rsp[p][s] \in VoteResponses \cup AppendResponses \cup {None}
    BY DEF TypeInv, TypeOK, NetTypeOK
  <2> QED BY <1>2, <2>1, ConstantsType DEF VoteResponses, AppendResponses
<1>4. rsp[p][s].term = propTerm[p]
  BY <1>1, <1>2, <1>3, LogTypes
<1>5. rsp[p][s].flush <= A[p][s] /\ \A x \in Safekeepers : ack[p][x] <= A[p][x]
  BY <1>2, <1>4, AckFacts DEF AckedBy
<1>6. ack[p] \in [Safekeepers -> Lsns]
  BY DEF TypeInv, TypeOK, LinkTypeOK
<1>7. acks \in [Safekeepers -> Lsns] /\ \A x \in Safekeepers : acks[x] <= A[p][x]
  BY <1>3, <1>5, <1>6
<1> HIDE DEF acks
<1>8. n \in Nat
  BY <1>7, AcknowledgedType, ConstantsType
<1>9. n # 0 => Committed(A, p, n)
  BY <1>7, AcknowledgedCommitted
<1> HIDE DEF n
<1>10. propCommit[p] \in Nat
  BY CommitTypes
<1>11. commit \in Nat /\ (commit = n \/ commit = propCommit[p])
  BY <1>8, <1>10 DEF Higher
<1>12. propCommit'[p] = commit /\ \A r \in Proposers : r # p => propCommit'[r] = propCommit[r]
  BY <1>1 DEF TypeInv, TypeOK, WpTypeOK
<1> HIDE DEF commit
<1>13. commit # 0 => Committed(A, p, commit)
  BY <1>9, <1>11 DEF Reported
<1> QED BY <1>1, <1>11, <1>12, <1>13

(* The log of clients grows, and is that of a leader.                      *)
LEMMA ResponseLog ==
    ASSUME TypeInv, VotesInv, LogInv, TypeInv', LeadersGrow, NEW A, AckInv(A), AckedLogOK(A),
           NEW B \in AckTypes, Grown(A, B), NEW p \in Proposers, NEW s \in Safekeepers,
           Reported(A, p, propCommit[p]), RecvAppendResponse(p, s)
    PROVE  Extended(ackedLog, ackedLog') /\ AckedLogOK(B)' /\ Reported(B, p, propCommit[p])'
<1>1. /\ propCommit'[p] \in Nat /\ (propCommit'[p] # 0 => Committed(A, p, propCommit'[p]))
      /\ ackedLog' = IF propCommit'[p] > Len(ackedLog) + 1 THEN Below(propWal[p], propCommit'[p])
                     ELSE ackedLog
  BY ResponseCommits
<1>2. PICK c \in Nat : c = propCommit'[p]
  BY <1>1
<1>3. Len(ackedLog) \in Nat /\ Len(propWal[p]) \in Nat /\ propWal[p] \in Logs
  BY AckedType, LogTypes
<1>4. c # 0 => Committed(A, p, c)
  BY <1>1, <1>2
<1>5. c # 0 => Committed(B, p, c)'
  BY <1>4, CommittedStable
<1>6. CASE c > Len(ackedLog) + 1
  <2>1. ackedLog' = Below(propWal[p], c) /\ c # 0 /\ c >= 1 /\ Committed(A, p, c)
    BY <1>1, <1>2, <1>3, <1>4, <1>6
  <2>2. c <= Len(propWal[p]) + 1
    BY <2>1, CommittedType
  <2>3. Len(ackedLog') = c - 1 /\ \A x \in 1..(c - 1) : ackedLog'[x] = propWal[p][x]
    BY <1>3, <2>1, <2>2, BelowRecords
  <2>4. Len(ackedLog') + 1 = c /\ Len(ackedLog) <= Len(ackedLog')
    BY <1>3, <1>6, <2>3
  <2>5. Agree(ackedLog, propWal[p], Len(ackedLog) + 1)
    <3>1. CASE ackedLog = <<>>
      BY <1>3, <3>1 DEF Agree
    <3>2. CASE ackedLog # <<>>
      <4>1. PICK r \in Proposers : /\ Committed(A, r, Len(ackedLog) + 1)
                                   /\ Agree(ackedLog, propWal[r], Len(ackedLog) + 1)
        BY <3>2 DEF AckedLogOK
      <4>2. Len(ackedLog) + 1 \in Nat /\ Len(ackedLog) + 1 <= c
        BY <1>3, <1>6
      <4>3. Agree(propWal[r], propWal[p], Len(ackedLog) + 1)
        BY <2>1, <4>1, <4>2, CommittedAgree
      <4> QED BY <4>1, <4>3, AgreeTransitive
    <3> QED BY <3>1, <3>2
  <2>6. ASSUME NEW x \in 1..Len(ackedLog) PROVE ackedLog'[x] = ackedLog[x]
    <3>1. x \in 1..(c - 1) /\ x \in 1..((Len(ackedLog) + 1) - 1)
      BY <1>3, <1>6
    <3> QED BY <2>3, <2>5, <3>1 DEF Agree
  <2>7. Extended(ackedLog, ackedLog')
    BY <2>4, <2>6 DEF Extended
  <2>8. propWal'[p] = propWal[p]
    BY DEF RecvAppendResponse
  <2>9. Agree(ackedLog', propWal'[p], c)
    BY <1>3, <2>2, <2>3, <2>4, <2>8 DEF Agree
  <2>10. AckedLogOK(B)'
    BY <1>5, <2>1, <2>4, <2>9 DEF AckedLogOK
  <2>11. Reported(B, p, propCommit[p])'
    BY <1>2, <1>5, <2>4 DEF Reported
  <2> QED BY <2>7, <2>10, <2>11
<1>7. CASE ~(c > Len(ackedLog) + 1)
  <2>1. ackedLog' = ackedLog /\ c <= Len(ackedLog) + 1
    BY <1>1, <1>2, <1>3, <1>7
  <2>2. Extended(ackedLog, ackedLog')
    BY <1>3, <2>1 DEF Extended
  <2>3. AckedLogOK(B)'
    BY <2>1, AckedLogStable
  <2>4. Reported(B, p, propCommit[p])'
    BY <1>2, <1>5, <2>1 DEF Reported
  <2> QED BY <2>2, <2>3, <2>4
<1> QED BY <1>6, <1>7

(* Only a response changes what is reported; a proposer that ends forgets  *)
(* it.                                                                     *)
ReportsRest == /\ UNCHANGED ackedLog
               /\ \A p \in Proposers : propCommit'[p] = propCommit[p] \/ propCommit'[p] = 0

(* Every other step leaves the log of clients alone.                       *)
LEMMA NextReports ==
    ASSUME TypeInv, [Next]_vars
    PROVE  ReportsRest \/ \E p \in Proposers, s \in Safekeepers : RecvAppendResponse(p, s)
<1>1. ASSUME UNCHANGED ackedLog, UNCHANGED propCommit PROVE ReportsRest
  BY <1>1 DEF ReportsRest
<1>2. ASSUME NEW s \in Safekeepers, SafekeeperStep(s) PROVE ReportsRest
  <2>1. UNCHANGED ackedLog /\ UNCHANGED wpVars
    <3>1. ASSUME NEW k \in Chan, NEW p \in Proposers,
                 HandleVoteRequest(k, p, s) \/ IgnoreElected(k, p, s) \/ RefuseElected(k, p, s)
          PROVE  UNCHANGED ackedLog /\ UNCHANGED wpVars
      BY <3>1 DEF HandleVoteRequest, IgnoreElected, RefuseElected, auxVars
    <3>2. ASSUME NEW k \in Chan, NEW p \in Proposers,
                 HandleElected(k, p, s) \/ RefuseAppend(k, p, s) \/ AppendOfOldTerm(k, p, s)
          PROVE  UNCHANGED ackedLog /\ UNCHANGED wpVars
      BY <3>2 DEF HandleElected, RefuseAppend, AppendOfOldTerm, auxVars
    <3>3. ASSUME NEW k \in Chan, NEW p \in Proposers,
                 HandleAppendRequest(k, p, s) \/ HandleFlush(k, p, s)
          PROVE  UNCHANGED ackedLog /\ UNCHANGED wpVars
      BY <3>3 DEF HandleAppendRequest, HandleFlush, auxVars
    <3>4. ASSUME Crash(s) \/ \E k \in Chan, p \in Proposers : CrashInElected(k, p, s)
          PROVE  UNCHANGED ackedLog /\ UNCHANGED wpVars
      <4>1. \E c, h, w : Boot(s, c, h, w)
        BY <3>4 DEF Crash, CrashInElected
      <4> QED BY <4>1 DEF Boot
    <3>5. ASSUME SaveControlFile(s) \/ TermBump(s) \/ PublishInfo(s) \/ RecordSafekeeperInfo(s)
          PROVE  UNCHANGED ackedLog /\ UNCHANGED wpVars
      BY <3>5 DEF SaveControlFile, TermBump, PublishInfo, RecordSafekeeperInfo, auxVars
    <3> QED BY <1>2, <3>1, <3>2, <3>3, <3>4, <3>5 DEF SafekeeperStep
  <2> QED BY <1>1, <2>1 DEF wpVars
<1>3. ASSUME NEW p \in Proposers, Fatal(p), UNCHANGED ackedLog PROVE ReportsRest
  <2>1. propCommit' = [propCommit EXCEPT ![p] = 0]
    BY <1>3 DEF Fatal
  <2>2. \A r \in Proposers : propCommit'[r] = propCommit[r] \/ propCommit'[r] = 0
    BY <2>1 DEF TypeInv, TypeOK, WpTypeOK
  <2> QED BY <1>3, <2>2 DEF ReportsRest
<1>4. ASSUME NEW p \in Proposers, NEW s \in Safekeepers,
             GreetCollecting(p, s) \/ GreetStartsCampaign(p, s) \/ GreetLate(p, s) \/ RecvVoteCounted(p, s)
      PROVE  ReportsRest
  <2>1. UNCHANGED ackedLog /\ UNCHANGED propCommit
    BY <1>4 DEF GreetCollecting, GreetStartsCampaign, GreetLate, RecvVoteCounted, wpVars, auxVars
  <2> QED BY <1>1, <2>1
<1>5. ASSUME NEW p \in Proposers, NEW s \in Safekeepers,
             RecvVoteLate(p, s) \/ SendAppendRequest(p, s) \/ Disconnect(p, s) \/ WriteWal(p)
      PROVE  ReportsRest
  <2>1. UNCHANGED ackedLog /\ UNCHANGED propCommit
    BY <1>5 DEF RecvVoteLate, SendAppendRequest, Disconnect, WriteWal, wpVars, auxVars
  <2> QED BY <1>1, <2>1
<1>6. ASSUME NEW p \in Proposers, NEW s \in Safekeepers,
             GreetRejected(p, s) \/ RecvVoteRefused(p, s) \/ RecvAckFatal(p, s) \/ Die(p)
      PROVE  ReportsRest
  <2>1. Fatal(p) /\ UNCHANGED ackedLog
    BY <1>6 DEF GreetRejected, RecvVoteRefused, RecvAckFatal, Die, auxVars
  <2> QED BY <1>3, <2>1
<1>7. ASSUME NEW p \in Proposers, NEW s \in Safekeepers, RecvVoteElects(p, s) PROVE ReportsRest
  <2>1. UNCHANGED ackedLog /\ (UNCHANGED propCommit \/ Fatal(p))
    BY <1>7 DEF RecvVoteElects, auxVars
  <2> QED BY <1>1, <1>3, <2>1
<1>8. Safekeepers # {}
  BY ConstantsAssumption
<1>9. ASSUME NEW p \in Proposers, ProposerStep(p)
      PROVE  ReportsRest \/ \E s \in Safekeepers : RecvAppendResponse(p, s)
  BY <1>4, <1>5, <1>6, <1>7, <1>8, <1>9 DEF ProposerStep
<1>10. CASE UNCHANGED vars
  BY <1>1, <1>10 DEF vars, wpVars, auxVars
<1> QED BY <1>2, <1>9, <1>10 DEF Next

-----------------------------------------------------------------------------
(* Every step keeps what is committed.                                     *)

(* The commit LSNs of safekeepers.                                         *)
LEMMA NextCommitLsns ==
    ASSUME TypeInv, VotesInv, LogInv, TypeInv', [Next]_vars, NEW A, AckInv(A), CommitInv(A),
           Extended(ackedLog, ackedLog')
    PROVE  \A x \in Safekeepers : SafekeeperCommit(x)'
<1>1. \A x \in Safekeepers : SafekeeperCommit(x)
  BY DEF CommitInv
<1>2. PeerCommit
  BY DEF CommitInv
<1>3. ASSUME NEW s \in Safekeepers, UNCHANGED skVars PROVE \A x \in Safekeepers : SafekeeperCommit(x)'
  BY <1>1, <1>3, CommitsSteady DEF skVars
<1>4. ASSUME NEW s \in Safekeepers, SafekeeperStep(s) PROVE \A x \in Safekeepers : SafekeeperCommit(x)'
  <2>1. ASSUME NEW k \in Chan, NEW p \in Proposers, HandleVoteRequest(k, p, s)
        PROVE  \A x \in Safekeepers : SafekeeperCommit(x)'
    <3>1. /\ FlushWal(s) /\ UNCHANGED <<wal, memCommit>>
          /\ UNCHANGED cfCommit \/ cfCommit' = [cfCommit EXCEPT ![s] = memCommit[s]]
      BY <2>1 DEF HandleVoteRequest, PersistInmem
    <3> QED BY <1>1, <3>1, CommitsSteady
  <2>2. ASSUME NEW k \in Chan, NEW p \in Proposers,
               IgnoreElected(k, p, s) \/ RefuseAppend(k, p, s) \/ AppendOfOldTerm(k, p, s)
        PROVE  \A x \in Safekeepers : SafekeeperCommit(x)'
    <3>1. UNCHANGED skVars
      BY <2>2 DEF IgnoreElected, RefuseAppend, AppendOfOldTerm
    <3> QED BY <1>3, <3>1
  <2>3. ASSUME NEW k \in Chan, NEW p \in Proposers, RefuseElected(k, p, s)
        PROVE  \A x \in Safekeepers : SafekeeperCommit(x)'
    <3>1. /\ UNCHANGED flushLsn /\ UNCHANGED <<wal, memCommit>>
          /\ UNCHANGED cfCommit \/ cfCommit' = [cfCommit EXCEPT ![s] = memCommit[s]]
      BY <2>3 DEF RefuseElected, RaiseTerm, PersistInmem
    <3> QED BY <1>1, <3>1, CommitsSteady
  <2>4. ASSUME NEW k \in Chan, NEW p \in Proposers, HandleFlush(k, p, s)
        PROVE  \A x \in Safekeepers : SafekeeperCommit(x)'
    <3>1. FlushWal(s) /\ UNCHANGED <<wal, memCommit>> /\ UNCHANGED cfCommit
      BY <2>4 DEF HandleFlush
    <3> QED BY <1>1, <3>1, CommitsSteady
  <2>5. ASSUME SaveControlFile(s) \/ TermBump(s) PROVE \A x \in Safekeepers : SafekeeperCommit(x)'
    <3>1. /\ UNCHANGED flushLsn /\ UNCHANGED <<wal, memCommit>>
          /\ cfCommit' = [cfCommit EXCEPT ![s] = memCommit[s]]
      BY <2>5 DEF SaveControlFile, TermBump, PersistInmem
    <3> QED BY <1>1, <3>1, CommitsSteady
  <2>6. ASSUME PublishInfo(s) PROVE \A x \in Safekeepers : SafekeeperCommit(x)'
    <3>1. UNCHANGED skVars
      BY <2>6 DEF PublishInfo
    <3> QED BY <1>3, <3>1
  <2>7. ASSUME NEW k \in Chan, NEW p \in Proposers, HandleElected(k, p, s)
        PROVE  \A x \in Safekeepers : SafekeeperCommit(x)'
    BY <1>1, <2>7, HandleElectedCommit
  <2>8. ASSUME NEW k \in Chan, NEW p \in Proposers, HandleAppendRequest(k, p, s)
        PROVE  \A x \in Safekeepers : SafekeeperCommit(x)'
    BY <2>8, HandleAppendRequestCommit
  <2>9. ASSUME RecordSafekeeperInfo(s) PROVE \A x \in Safekeepers : SafekeeperCommit(x)'
    BY <1>1, <1>2, <2>9, RecordSafekeeperInfoCommit
  <2>10. ASSUME Crash(s) \/ \E k \in Chan, p \in Proposers : CrashInElected(k, p, s)
         PROVE  \A x \in Safekeepers : SafekeeperCommit(x)'
    BY <1>1, <2>10, CrashCommit
  <2> QED BY <1>4, <2>1, <2>2, <2>3, <2>4, <2>5, <2>6, <2>7, <2>8, <2>9, <2>10 DEF SafekeeperStep
<1>5. ASSUME NEW p \in Proposers, ProposerStep(p) PROVE UNCHANGED skVars
  <2>1. ASSUME NEW s \in Safekeepers,
               \/ GreetCollecting(p, s) \/ GreetStartsCampaign(p, s) \/ GreetLate(p, s)
               \/ GreetRejected(p, s) \/ RecvVoteRefused(p, s) \/ RecvVoteCounted(p, s)
        PROVE  UNCHANGED skVars
    BY <2>1 DEF GreetCollecting, GreetStartsCampaign, GreetLate, GreetRejected, RecvVoteRefused,
       RecvVoteCounted
  <2>2. ASSUME NEW s \in Safekeepers,
               \/ RecvVoteElects(p, s) \/ RecvVoteLate(p, s) \/ SendAppendRequest(p, s)
               \/ RecvAckFatal(p, s) \/ RecvAppendResponse(p, s) \/ Disconnect(p, s)
        PROVE  UNCHANGED skVars
    BY <2>2 DEF RecvVoteElects, RecvVoteLate, SendAppendRequest, RecvAckFatal, RecvAppendResponse,
       Disconnect
  <2>3. WriteWal(p) \/ Die(p) => UNCHANGED skVars
    BY DEF WriteWal, Die
  <2> QED BY <1>5, <2>1, <2>2, <2>3 DEF ProposerStep
<1>6. PICK s \in Safekeepers : TRUE
  BY ConstantsAssumption
<1>7. UNCHANGED vars => UNCHANGED skVars
  BY DEF vars
<1> QED BY <1>3, <1>4, <1>5, <1>6, <1>7 DEF Next

(* The commit LSN on its way through the broker.                           *)
LEMMA NextPeerCommit ==
    ASSUME TypeInv, VotesInv, LogInv, TypeInv', LeadersGrow, [Next]_vars,
           NEW A, CommitInv(A), Extended(ackedLog, ackedLog')
    PROVE  PeerCommit'
<1>1. PeerCommit
  BY DEF CommitInv
<1>2. ASSUME UNCHANGED peerInfo PROVE PeerCommit'
  BY <1>1, <1>2, PeerCommitStable
<1>3. ASSUME NEW s \in Safekeepers, PublishInfo(s) PROVE PeerCommit'
  <2>1. /\ peerInfo' = [lastLogTerm |-> LastLogTerm(hist[s], flushLsn[s]),
                        commit |-> memCommit[s], horizon |-> memHorizon[s]]
        /\ UNCHANGED <<propHist, propTerm, propWal, ackedLog>>
    BY <1>3 DEF PublishInfo, wpVars, auxVars
  <2>2. peerInfo'.commit = memCommit[s] /\ peerInfo'.lastLogTerm = LastLogTerm(hist[s], flushLsn[s])
    BY <2>1
  <2>3. SafekeeperCommit(s)
    BY DEF CommitInv
  <2>4. ASSUME memCommit[s] > FirstLsn
        PROVE  \E r \in Proposers : /\ Elected(r)' /\ propTerm'[r] = peerInfo'.lastLogTerm
                                    /\ Agree(propWal'[r], ackedLog', peerInfo'.commit)
    <3>1. PICK r \in Proposers : /\ Elected(r) /\ propTerm[r] = LastLogTerm(hist[s], flushLsn[s])
                                 /\ Agree(propWal[r], ackedLog, memCommit[s])
      BY <2>3, <2>4, CommitPublished
    <3>2. Elected(r)'
      BY <2>1, <3>1 DEF Elected
    <3> QED BY <2>1, <2>2, <3>1, <3>2
  <2> QED BY <2>2, <2>4 DEF PeerCommit, FirstLsn
<1>4. ASSUME NEW s \in Safekeepers, SafekeeperStep(s) PROVE PeerCommit'
  <2>1. ASSUME NEW k \in Chan, NEW p \in Proposers,
               HandleVoteRequest(k, p, s) \/ IgnoreElected(k, p, s) \/ RefuseElected(k, p, s)
        PROVE  UNCHANGED peerInfo
    BY <2>1 DEF HandleVoteRequest, IgnoreElected, RefuseElected
  <2>2. ASSUME NEW k \in Chan, NEW p \in Proposers,
               HandleElected(k, p, s) \/ RefuseAppend(k, p, s) \/ AppendOfOldTerm(k, p, s)
        PROVE  UNCHANGED peerInfo
    BY <2>2 DEF HandleElected, RefuseAppend, AppendOfOldTerm
  <2>3. ASSUME NEW k \in Chan, NEW p \in Proposers,
               HandleAppendRequest(k, p, s) \/ HandleFlush(k, p, s)
        PROVE  UNCHANGED peerInfo
    BY <2>3 DEF HandleAppendRequest, HandleFlush
  <2>4. ASSUME Crash(s) \/ \E k \in Chan, p \in Proposers : CrashInElected(k, p, s)
        PROVE  UNCHANGED peerInfo
    <3>1. \E c, h, w : Boot(s, c, h, w)
      BY <2>4 DEF Crash, CrashInElected
    <3> QED BY <3>1 DEF Boot
  <2>5. SaveControlFile(s) \/ TermBump(s) \/ RecordSafekeeperInfo(s) => UNCHANGED peerInfo
    BY DEF SaveControlFile, TermBump, RecordSafekeeperInfo
  <2> QED BY <1>2, <1>3, <1>4, <2>1, <2>2, <2>3, <2>4, <2>5 DEF SafekeeperStep
<1>5. ASSUME NEW p \in Proposers, ProposerStep(p) PROVE UNCHANGED peerInfo
  <2>1. ASSUME NEW s \in Safekeepers,
               \/ GreetCollecting(p, s) \/ GreetStartsCampaign(p, s) \/ GreetLate(p, s)
               \/ GreetRejected(p, s) \/ RecvVoteRefused(p, s) \/ RecvVoteCounted(p, s)
        PROVE  UNCHANGED peerInfo
    BY <2>1 DEF GreetCollecting, GreetStartsCampaign, GreetLate, GreetRejected, RecvVoteRefused,
       RecvVoteCounted
  <2>2. ASSUME NEW s \in Safekeepers,
               \/ RecvVoteElects(p, s) \/ RecvVoteLate(p, s) \/ SendAppendRequest(p, s)
               \/ RecvAckFatal(p, s) \/ RecvAppendResponse(p, s) \/ Disconnect(p, s)
        PROVE  UNCHANGED peerInfo
    BY <2>2 DEF RecvVoteElects, RecvVoteLate, SendAppendRequest, RecvAckFatal, RecvAppendResponse,
       Disconnect
  <2>3. WriteWal(p) \/ Die(p) => UNCHANGED peerInfo
    BY DEF WriteWal, Die
  <2> QED BY <1>5, <2>1, <2>2, <2>3 DEF ProposerStep
<1>6. UNCHANGED vars => UNCHANGED peerInfo
  BY DEF vars
<1> QED BY <1>2, <1>4, <1>5, <1>6 DEF Next

(* What is reported.                                                       *)
LEMMA NextReported ==
    ASSUME TypeInv, VotesInv, LogInv, TypeInv', [Next]_vars, NEW A, AckInv(A), CommitInv(A),
           NEW B \in AckTypes, Grown(A, B)
    PROVE  Extended(ackedLog, ackedLog') /\ AckedLogOK(B)'
           /\ \A p \in Proposers : Reported(B, p, propCommit[p])'
<1>1. LeadersGrow
  BY NextGrows
<1>2. AckedLogOK(A) /\ \A p \in Proposers : Reported(A, p, propCommit[p])
  BY DEF CommitInv
<1>3. ASSUME NEW p \in Proposers, Extended(ackedLog, ackedLog'),
             propCommit'[p] = propCommit[p] \/ propCommit'[p] = 0
      PROVE  Reported(B, p, propCommit[p])'
  <2>1. PICK c \in Nat : c = propCommit[p]
    BY CommitTypes
  <2>2. Reported(B, p, c)'
    BY <1>1, <1>2, <1>3, <2>1, ReportedStable
  <2> QED BY <1>3, <2>1, <2>2 DEF Reported
<1>4. CASE ReportsRest
  <2>1. ackedLog' = ackedLog
    BY <1>4 DEF ReportsRest
  <2>2. Extended(ackedLog, ackedLog')
    BY <2>1, AckedType DEF Extended
  <2>3. AckedLogOK(B)'
    BY <1>1, <1>2, <2>1, AckedLogStable
  <2> QED BY <1>3, <1>4, <2>2, <2>3 DEF ReportsRest
<1>5. ASSUME NEW p \in Proposers, NEW s \in Safekeepers, RecvAppendResponse(p, s)
      PROVE  Extended(ackedLog, ackedLog') /\ AckedLogOK(B)'
             /\ \A r \in Proposers : Reported(B, r, propCommit[r])'
  <2>1. Extended(ackedLog, ackedLog') /\ AckedLogOK(B)' /\ Reported(B, p, propCommit[p])'
    BY <1>1, <1>2, <1>5, ResponseLog
  <2>2. \A r \in Proposers : r # p => propCommit'[r] = propCommit[r]
    BY <1>2, <1>5, ResponseCommits
  <2> QED BY <1>3, <2>1, <2>2
<1> QED BY <1>4, <1>5, NextReports

(* The log of clients only grows.                                          *)
LEMMA NextExtends ==
    ASSUME TypeInv, VotesInv, LogInv, TypeInv', [Next]_vars, NEW A, AckInv(A), CommitInv(A),
           VotesInv', LogInv'
    PROVE  Extended(ackedLog, ackedLog')
<1>1. PICK B : AckInv(B)' /\ Grown(A, B)
  BY NextAcks
<1>2. B \in AckTypes
  BY <1>1 DEF AckInv, AckTypes
<1> QED BY <1>1, <1>2, NextReported

(* Every step keeps CommitInv.                                             *)
LEMMA NextCommits ==
    ASSUME TypeInv, VotesInv, LogInv, TypeInv', [Next]_vars, NEW A, AckInv(A), CommitInv(A),
           NEW B \in AckTypes, Grown(A, B)
    PROVE  CommitInv(B)'
<1>1. LeadersGrow /\ MessagesStep
  BY NextGrows, NextMessages
<1>2. AckedLogOK(A) /\ \A p \in Proposers : Reported(A, p, propCommit[p])
  BY DEF CommitInv
<1>3. Extended(ackedLog, ackedLog') /\ AckedLogOK(B)' /\ \A p \in Proposers : Reported(B, p, propCommit[p])'
  BY NextReported
<1>4. ASSUME NEW k \in Chan, NEW p \in Proposers, NEW s \in Safekeepers, NEW i \in 1..Len(q'[k][p][s])
      PROVE  Reported(B, p, q[k][p][s][i].commit)'
  <2> DEFINE m == q'[k][p][s][i]
  <2>1. CASE Tells(p, m)
    <3>1. PICK c \in Nat : c = propCommit[p]
      BY CommitTypes
    <3>2. Reported(B, p, c)'
      BY <1>1, <1>2, <1>3, <3>1, ReportedStable
    <3>3. m.commit = 0 \/ m.commit = c
      BY <2>1, <3>1 DEF Tells
    <3> QED BY <3>2, <3>3 DEF Reported
  <2>2. ASSUME NEW j \in Chan, NEW x \in 1..Len(q[j][p][s]), m = q[j][p][s][x]
        PROVE  Reported(B, p, q[k][p][s][i].commit)'
    <3>1. q[j][p][s] \in Seq(Messages)
      BY DEF TypeInv, TypeOK, NetTypeOK
    <3>2. q[j][p][s][x] \in Messages
      BY <3>1
    <3>3. q[j][p][s][x].commit \in Nat
      BY <3>2, ConstantsType DEF Messages
    <3>4. PICK c \in Nat : c = q[j][p][s][x].commit
      BY <3>3
    <3>5. Reported(A, p, c)
      BY <3>4 DEF CommitInv
    <3>6. Reported(B, p, c)'
      BY <1>1, <1>3, <3>5, ReportedStable
    <3> QED BY <2>2, <3>4, <3>6 DEF Reported
  <2> QED BY <1>1, <2>1, <2>2 DEF MessagesStep
<1>5. \A x \in Safekeepers : SafekeeperCommit(x)'
  BY <1>3, NextCommitLsns
<1>6. PeerCommit'
  BY <1>1, <1>3, NextPeerCommit
<1> QED BY <1>3, <1>4, <1>5, <1>6 DEF CommitInv

-----------------------------------------------------------------------------
(* Logs and their prefixes.                                                *)

(* A log that has the same records and is not longer is a prefix.          *)
LEMMA PrefixRecords ==
    ASSUME NEW v \in Logs, NEW w \in Logs, Len(v) <= Len(w), \A x \in 1..Len(v) : v[x] = w[x]
    PROVE  IsPrefix(v, w)
<1> DEFINE R == [term : Terms, lsn : 1..MaxLsn]
<1>1. v \in Seq(R) /\ w \in Seq(R)
  BY DEF Logs
<1> HIDE DEF R
<1>2. Len(v) \in Nat /\ Len(w) \in Nat
  BY <1>1
<1>3. SubSeq(v, 1, Len(v)) \in Seq(R) /\ Len(SubSeq(v, 1, Len(v))) = Len(v)
      /\ \A x \in 1..Len(v) : SubSeq(v, 1, Len(v))[x] = v[x]
  BY <1>1, <1>2
<1>4. SubSeq(w, 1, Len(v)) \in Seq(R) /\ Len(SubSeq(w, 1, Len(v))) = Len(v)
      /\ \A x \in 1..Len(v) : SubSeq(w, 1, Len(v))[x] = w[x]
  BY <1>1, <1>2
<1>5. SubSeq(v, 1, Len(v)) = SubSeq(w, 1, Len(v))
  BY <1>3, <1>4, SeqEqual
<1> QED BY <1>5 DEF IsPrefix

(* The log below l.                                                        *)
LEMMA BelowLog ==
    ASSUME NEW w \in Logs, NEW l \in Lsns, l <= Len(w) + 1
    PROVE  /\ Below(w, l) \in Logs /\ Len(Below(w, l)) = IF l = 0 THEN 0 ELSE l - 1
           /\ \A x \in 1..Len(Below(w, l)) : Below(w, l)[x] = w[x]
<1>1. Below(w, l) \in Logs
  BY BelowType
<1>2. Len(w) \in Nat /\ l \in Nat
  BY LogLength, ConstantsType
<1>3. CASE l = 0
  <2> DEFINE R == [term : Terms, lsn : 1..MaxLsn]
  <2>1. w \in Seq(R)
    BY DEF Logs
  <2>2. Lower(l - 1, Len(w)) = 0 - 1
    BY <1>2, <1>3 DEF Lower
  <2> HIDE DEF R
  <2>3. Below(w, l) = SubSeq(w, 1, 0 - 1)
    BY <2>2 DEF Below
  <2>4. Len(SubSeq(w, 1, 0 - 1)) = 0
    BY <2>1
  <2> QED BY <1>1, <1>3, <2>3, <2>4
<1>4. CASE l >= 1
  <2>1. Len(Below(w, l)) = l - 1 /\ \A x \in 1..(l - 1) : Below(w, l)[x] = w[x]
    BY <1>2, <1>4, BelowRecords
  <2> QED BY <1>1, <1>2, <1>4, <2>1
<1> QED BY <1>2, <1>3, <1>4

(* What a log has below l is a prefix of a log that agrees ...             *)
LEMMA BelowPrefix ==
    ASSUME NEW w \in Logs, NEW v \in Logs, NEW l \in Lsns, Agree(w, v, l)
    PROVE  IsPrefix(Below(w, l), v)
<1>1. Len(w) \in Nat /\ Len(v) \in Nat /\ l \in Nat /\ l <= Len(w) + 1 /\ l <= Len(v) + 1
  BY LogLength, ConstantsType DEF Agree
<1>2. /\ Below(w, l) \in Logs /\ Len(Below(w, l)) = IF l = 0 THEN 0 ELSE l - 1
      /\ \A x \in 1..Len(Below(w, l)) : Below(w, l)[x] = w[x]
  BY <1>1, BelowLog
<1>3. Len(Below(w, l)) <= Len(v) /\ \A x \in 1..Len(Below(w, l)) : x \in 1..(l - 1)
  BY <1>1, <1>2
<1>4. \A x \in 1..Len(Below(w, l)) : Below(w, l)[x] = v[x]
  BY <1>2, <1>3 DEF Agree
<1> QED BY <1>2, <1>3, <1>4, PrefixRecords

(* ... and a log that agrees is a prefix of what there is below l.         *)
LEMMA PrefixBelow ==
    ASSUME NEW w \in Logs, NEW v \in Logs, NEW l \in Lsns, l <= Len(w) + 1,
           Len(v) + 1 <= l, Agree(w, v, Len(v) + 1)
    PROVE  IsPrefix(v, Below(w, l))
<1>1. Len(w) \in Nat /\ Len(v) \in Nat /\ l \in Nat /\ l # 0
  BY LogLength, ConstantsType
<1>2. /\ Below(w, l) \in Logs /\ Len(Below(w, l)) = l - 1
      /\ \A x \in 1..Len(Below(w, l)) : Below(w, l)[x] = w[x]
  BY <1>1, BelowLog
<1>3. Len(v) <= Len(Below(w, l))
  BY <1>1, <1>2
<1>4. ASSUME NEW x \in 1..Len(v) PROVE v[x] = Below(w, l)[x]
  <2>1. x \in 1..Len(Below(w, l)) /\ x \in 1..((Len(v) + 1) - 1)
    BY <1>1, <1>3, <1>2
  <2> QED BY <1>2, <2>1 DEF Agree
<1> QED BY <1>2, <1>3, <1>4, PrefixRecords

-----------------------------------------------------------------------------
(* The invariant.                                                          *)

(* Some acknowledgements explain everything that was committed.            *)
CommittedInv == \E A : AckInv(A) /\ CommitInv(A)

(* It holds initially ...                                                  *)
LEMMA InitCommitted == Init => CommittedInv
<1> SUFFICES ASSUME Init PROVE CommittedInv
  OBVIOUS
<1> DEFINE A == [p \in Proposers |-> [s \in Safekeepers |-> 0]]
<1>1. A \in [Proposers -> [Safekeepers -> Lsns]]
  BY ConstantsType DEF Lsns
<1>2. \A p \in Proposers : ~Elected(p)
  BY DEF Init, Elected
<1>3. ASSUME NEW p \in Proposers, NEW s \in Safekeepers
      PROVE  AckedBy(A, p, s) /\ SafekeeperKeeps(A, p, s) /\ VotesKeep(A, p, s)
  <2>1. A[p][s] = 0 /\ ack[p][s] = 0 /\ rsp[p][s] = None /\ vote[p][s] = None
    BY DEF Init
  <2> HIDE DEF A
  <2> QED BY <1>2, <2>1 DEF AckedBy, SafekeeperKeeps, VotesKeep
<1> HIDE DEF A
<1>4. AckInv(A)
  BY <1>1, <1>2, <1>3 DEF AckInv, LeaderKeeps
<1>5. ASSUME NEW s \in Safekeepers PROVE SafekeeperCommit(s)
  <2>1. /\ wal[s] = <<>> /\ ackedLog = <<>> /\ memCommit[s] = flushLsn[s] /\ cfCommit[s] = flushLsn[s]
        /\ flushLsn[s] = 0 \/ flushLsn[s] = 1
    BY DEF Init, FirstLsn
  <2>2. Len(wal[s]) = 0 /\ Len(ackedLog) = 0
    BY <2>1
  <2>3. Agree(wal[s], ackedLog, memCommit[s])
    BY <2>1, <2>2 DEF Agree
  <2> QED BY <2>1, <2>3 DEF SafekeeperCommit
<1>6. \A p \in Proposers : Reported(A, p, propCommit[p])
  BY DEF Init, Reported
<1>7. ASSUME NEW k \in Chan, NEW p \in Proposers, NEW s \in Safekeepers PROVE Len(q[k][p][s]) = 0
  <2>1. q[k][p][s] = <<>>
    BY DEF Init
  <2> QED BY <2>1
<1>8. AckedLogOK(A) /\ PeerCommit
  BY DEF Init, AckedLogOK, PeerCommit
<1>9. CommitInv(A)
  BY <1>5, <1>6, <1>7, <1>8 DEF CommitInv
<1> QED BY <1>4, <1>9 DEF CommittedInv

(* ... and is preserved.                                                   *)
LEMMA NextCommitted ==
    ASSUME TypeInv, VotesInv, LogInv, TypeInv', VotesInv', LogInv', CommittedInv, [Next]_vars
    PROVE  CommittedInv'
<1>1. PICK A : AckInv(A) /\ CommitInv(A)
  BY DEF CommittedInv
<1>2. PICK B : AckInv(B)' /\ Grown(A, B)
  BY <1>1, NextAcks
<1>3. B \in AckTypes
  BY <1>2 DEF AckInv, AckTypes
<1>4. CommitInv(B)'
  BY <1>1, <1>2, <1>3, NextCommits
<1> QED BY <1>2, <1>4 DEF CommittedInv

(* All the invariants.                                                     *)
SafetyInv == TypeInv /\ VotesInv /\ LogInv /\ CommittedInv

(* The inductive invariant of the theorems below.                          *)
LEMMA SafetyInvariant == Spec => []SafetyInv
<1>1. Init => SafetyInv
  BY InitType, InitVotes, InitLog, InitCommitted DEF SafetyInv
<1>2. SafetyInv /\ [Next]_vars => SafetyInv'
  <2> SUFFICES ASSUME SafetyInv, [Next]_vars PROVE SafetyInv'
    OBVIOUS
  <2>1. TypeInv' /\ VotesInv' /\ LogInv'
    BY NextType, NextVotes, NextLog DEF SafetyInv
  <2> QED BY <2>1, NextCommitted DEF SafetyInv
<1> QED BY <1>1, <1>2, PTL DEF Spec

-----------------------------------------------------------------------------
(* What it implies.                                                        *)

(* The safekeepers that acknowledged the log of clients have it on disk,   *)
(* every quorum has one of them, and the highest vote is at least as good. *)
LEMMA AckedSurvives ==
    ASSUME TypeInv, VotesInv, LogInv, NEW A, AckInv(A), CommitInv(A)
    PROVE  AckedWalSurvivesElections
<1> SUFFICES ASSUME NEW Q \in SUBSET Safekeepers, HasQuorum(Q), NEW s \in Q,
                    \A r \in Q : VoteLeq([hist |-> UpTo(hist[r], flushLsn[r]), flush |-> flushLsn[r]],
                                         [hist |-> UpTo(hist[s], flushLsn[s]), flush |-> flushLsn[s]])
             PROVE  IsPrefix(ackedLog, Below(wal[s], flushLsn[s]))
  BY DEF AckedWalSurvivesElections
<1> DEFINE key(r) == [hist |-> UpTo(hist[r], flushLsn[r]), flush |-> flushLsn[r]]
           n == Len(ackedLog) + 1
<1>1. /\ s \in Safekeepers /\ wal[s] \in Logs /\ ackedLog \in Logs /\ flushLsn[s] \in Lsns
      /\ flushLsn[s] <= Len(wal[s]) + 1 /\ Len(ackedLog) \in Nat /\ n \in Nat /\ flushLsn[s] \in Nat
      /\ Len(wal[s]) \in Nat
  BY LogTypes, AckedType DEF TypeInv, TypeOK, SkTypeOK, LogInv, SafekeeperLog
<1>2. CASE ackedLog = <<>>
  <2>1. Below(wal[s], flushLsn[s]) \in Logs /\ Len(ackedLog) = 0
    BY <1>1, <1>2, BelowType
  <2>2. Len(Below(wal[s], flushLsn[s])) \in Nat
    BY <2>1, LogLength
  <2> QED BY <1>1, <2>1, <2>2, PrefixRecords
<1>3. CASE ackedLog # <<>>
  <2>1. PICK p \in Proposers : Committed(A, p, n) /\ Agree(ackedLog, propWal[p], n)
    BY <1>3 DEF CommitInv, AckedLogOK
  <2>2. Elected(p) /\ n \in Lsns /\ PropTermStartLsn(p) <= n
    BY <1>1, <2>1, CommittedType
  <2> DEFINE S == {x \in Safekeepers : A[p][x] >= n}
  <2>3. S \in SUBSET Safekeepers /\ HasQuorum(S)
    BY <2>1 DEF Committed
  <2>4. PICK x \in Safekeepers : x \in Q /\ A[p][x] >= n
    <3>1. S \cap Q # {}
      <4> HIDE DEF S
      <4> QED BY <2>3, QuorumsIntersect
    <3> QED BY <3>1
  <2>5. ~Blocked(A, p, n)
    BY <1>1, <2>1, CommittedNotBlocked
  <2>6. A[p][x] \in Nat /\ SafekeeperKeeps(A, p, x)
    BY AckFacts
  <2>7. Holds(hist[x], flushLsn[x], propHist[p], n)
    BY <1>1, <2>2, <2>4, <2>5, <2>6 DEF SafekeeperKeeps, Keeps
  <2>8. Holds(key(x).hist, key(x).flush, propHist[p], n)
    <3>1. hist[x] \in TermHistories /\ Ascending(hist[x]) /\ flushLsn[x] \in Nat
      BY SafekeeperAscends, LogTypes
    <3>2. propHist[p] \in TermHistories /\ propHist[p] # <<>>
          /\ propHist[p][Len(propHist[p])].lsn <= n
      BY <2>2, LeaderHistory, LeaderFacts DEF PropTermStartLsn
    <3>3. Holds(UpTo(hist[x], flushLsn[x]), flushLsn[x], propHist[p], n)
      BY <1>1, <2>7, <3>1, <3>2, HoldsCut
    <3> QED BY <3>3
  <2>9. HasDurable(key(x).hist, wal[x], key(x).flush, term[x]) /\ key(x).flush \in Nat
    BY SafekeeperDurable, LogTypes
  <2>10. HasDurable(key(s).hist, wal[s], key(s).flush, term[s]) /\ key(s).flush \in Nat
    BY <1>1, SafekeeperDurable
  <2>11. VoteLeq(key(x), key(s))
    BY <2>4
  <2>12. key(s).flush = flushLsn[s]
    OBVIOUS
  <2> HIDE DEF key, n
  <2>13. Holds(key(s).hist, key(s).flush, propHist[p], n)
    BY <2>2, <2>5, <2>8, <2>9, <2>10, <2>11, HighestVoteHolds
  <2>14. Agree(wal[s], propWal[p], n)
    BY <1>1, <2>2, <2>10, <2>13, HoldsAgree
  <2>15. Agree(wal[s], ackedLog, n) /\ n <= flushLsn[s]
    BY <2>1, <2>12, <2>13, <2>14, AgreeSymmetric, AgreeTransitive DEF Holds
  <2> QED BY <1>1, <2>15, PrefixBelow DEF n
<1> QED BY <1>2, <1>3

(* Commit LSNs of leaders and safekeepers lie in the log of clients.       *)
LEMMA CommitsInLog ==
    ASSUME TypeInv, VotesInv, LogInv, NEW A, AckInv(A), CommitInv(A)
    PROVE  LeadersAgreeOnCommitted /\ SafekeeperCommitIsCommitted
<1>1. ASSUME NEW p \in Proposers, propCommit[p] # 0
      PROVE  /\ propCommit[p] <= AvailableLsn(p)
             /\ IsPrefix(Below(propWal[p], propCommit[p]), ackedLog)
  <2>1. Committed(A, p, propCommit[p]) /\ propCommit[p] <= Len(ackedLog) + 1 /\ AckedLogOK(A)
    BY <1>1 DEF CommitInv, Reported
  <2>2. propCommit[p] \in Nat /\ propCommit[p] \in Lsns /\ propWal[p] \in Logs /\ ackedLog \in Logs
    BY CommitTypes, LogTypes, AckedType DEF TypeInv, TypeOK, WpTypeOK
  <2>3. Agree(propWal[p], ackedLog, propCommit[p])
    BY <2>1, <2>2, CommittedInLog
  <2> QED BY <2>1, <2>2, <2>3, BelowPrefix DEF Committed
<1>2. ASSUME NEW s \in Safekeepers
      PROVE  memCommit[s] <= flushLsn[s] /\ IsPrefix(Below(wal[s], memCommit[s]), ackedLog)
  <2>1. memCommit[s] <= flushLsn[s] /\ Agree(wal[s], ackedLog, memCommit[s])
    BY DEF CommitInv, SafekeeperCommit
  <2>2. memCommit[s] \in Lsns /\ wal[s] \in Logs /\ ackedLog \in Logs
    BY AckedType DEF TypeInv, TypeOK, SkTypeOK
  <2> QED BY <2>1, <2>2, BelowPrefix
<1> QED BY <1>1, <1>2 DEF LeadersAgreeOnCommitted, SafekeeperCommitIsCommitted

(* WAL that a compute reported as committed is never lost: whichever       *)
(* quorum a later proposer asks for votes, the safekeeper whose vote       *)
(* VotesCollected takes as the highest has it on disk, whatever messages,  *)
(* elections and crashes came in between.                                  *)
THEOREM CommittedWalSurvives == Spec => []AckedWalSurvivesElections
<1>1. SafetyInv => AckedWalSurvivesElections
  BY AckedSurvives DEF SafetyInv, CommittedInv
<1> QED BY <1>1, SafetyInvariant, PTL

(* Elected proposers never report diverging WAL as committed               *)
(* (HandleSafekeeperResponse), although commitLsn is computed from         *)
(* acknowledgements of an earlier moment.                                  *)
THEOREM LeadersAgree == Spec => []LeadersAgreeOnCommitted
<1>1. SafetyInv => LeadersAgreeOnCommitted
  BY CommitsInLog DEF SafetyInv, CommittedInv
<1> QED BY <1>1, SafetyInvariant, PTL

(* The commit_lsn of a safekeeper (update_commit_lsn), from its proposer,  *)
(* from a peer of the same term or from its control file, covers only      *)
(* committed WAL that it has on disk.                                      *)
THEOREM SafekeeperCommitsCommitted == Spec => []SafekeeperCommitIsCommitted
<1>1. SafetyInv => SafekeeperCommitIsCommitted
  BY CommitsInLog DEF SafetyInv, CommittedInv
<1> QED BY <1>1, SafetyInvariant, PTL

-----------------------------------------------------------------------------
(* What is on the disk of those that acknowledged it.                      *)

(* What p wrote or took over up to l is on the disk of s: r wrote the      *)
(* record before l, in a term that p continues from l or later.            *)
Shares(p, s, l) ==
    \E r \in Proposers :
      /\ Elected(r) /\ PropTermStartLsn(r) <= l
      /\ Holds(hist[s], flushLsn[s], propHist[r], l)
      /\ r = p \/ Continues(propHist[p], propHist[r], l)

(* What s acknowledged to p is on its disk, below the start of the term of *)
(* p too, as long as p may commit something.                               *)
SafekeeperHas(A, p, s) ==
    Elected(p) => \A l \in Lsns : FirstLsn < l /\ l <= A[p][s] =>
        Shares(p, s, l) \/ Blocked(A, p, Higher(l, PropTermStartLsn(p)))

HasInv(A) == \A p \in Proposers, s \in Safekeepers : SafekeeperHas(A, p, s)

(* A history that continues one that continues a third.                    *)
LEMMA ContinuesFurther ==
    ASSUME NEW c \in TermHistories, NEW b \in TermHistories, NEW a \in TermHistories,
           NEW l \in Nat, NEW m \in Nat, l <= m, Continues(c, b, m), b = a \/ Continues(b, a, l)
    PROVE  Continues(c, a, l)
<1>1. Len(c) \in Nat /\ Len(b) \in Nat /\ Len(a) \in Nat /\ \A i \in 1..Len(c) : c[i].lsn \in Nat
  BY HistoryType
<1>2. Len(b) < Len(c) /\ m <= c[Len(b) + 1].lsn /\ \A j \in 1..Len(b) : c[j] = b[j]
  BY DEF Continues, BeginsWith
<1>3. CASE b = a
  <2>1. c[Len(b) + 1].lsn \in Nat
    BY <1>1, <1>2
  <2>2. l <= c[Len(a) + 1].lsn
    BY <1>2, <1>3, <2>1
  <2> QED BY <1>2, <1>3, <2>2 DEF Continues, BeginsWith
<1>4. CASE Continues(b, a, l)
  <2>1. Len(a) < Len(b) /\ l <= b[Len(a) + 1].lsn /\ \A j \in 1..Len(a) : b[j] = a[j]
    BY <1>4 DEF Continues, BeginsWith
  <2>2. Len(a) + 1 \in 1..Len(b) /\ \A j \in 1..Len(a) : j \in 1..Len(b)
    BY <1>1, <2>1
  <2>3. Len(a) < Len(c) /\ c[Len(a) + 1] = b[Len(a) + 1] /\ \A j \in 1..Len(a) : c[j] = a[j]
    BY <1>1, <1>2, <2>1, <2>2
  <2> QED BY <2>1, <2>3 DEF Continues, BeginsWith
<1> QED BY <1>3, <1>4

(* The leader that wrote the record before l in the history of p.          *)
LEMMA WriterOf ==
    ASSUME TypeInv, VotesInv, LogInv, NEW p \in Proposers, Elected(p), NEW l \in Nat, FirstLsn < l
    PROVE  \E r \in Proposers : /\ Elected(r) /\ PropTermStartLsn(r) <= l
                                /\ r = p \/ Continues(propHist[p], propHist[r], l)
<1> DEFINE h == propHist[p]
<1>1. h \in TermHistories /\ Len(h) \in Nat /\ Len(h) >= 1 /\ \A i \in 1..Len(h) : h[i].lsn \in Nat
  BY LeaderHistory, LeaderFacts
<1>2. h[1].lsn = FirstLsn /\ \A i \in 1..(Len(h) - 1) : Origin(p, i)
  BY DEF LogInv, LeaderLog
<1>3. PICK n \in 0..Len(h) : /\ \A i \in 1..n : h[i].lsn <= l
                             /\ n < Len(h) => h[n + 1].lsn > l
  BY <1>1, UpToEntries
<1>4. h[Len(h)].lsn = PropTermStartLsn(p)
  BY LeaderFacts
<1>5. FirstLsn = 1
  BY DEF FirstLsn
<1> HIDE DEF h
<1>6. n # 0
  <2> SUFFICES ASSUME n = 0 PROVE FALSE
    OBVIOUS
  <2> QED BY <1>1, <1>2, <1>3, <1>5
<1>7. CASE n = Len(h)
  <2>1. PropTermStartLsn(p) <= l
    BY <1>1, <1>3, <1>4, <1>7
  <2> QED BY <2>1
<1>8. CASE n < Len(h)
  <2>1. n \in 1..(Len(h) - 1) /\ n + 1 \in 1..Len(h) /\ n \in 1..n
    BY <1>1, <1>6, <1>8
  <2>2. h[n + 1].lsn # FirstLsn /\ l <= h[n + 1].lsn /\ h[n].lsn <= l
    BY <1>1, <1>3, <1>5, <1>8, <2>1
  <2>3. Origin(p, n)
    BY <1>2, <2>1
  <2>4. PICK r \in Proposers : Elected(r) /\ BeginsWith(h, n, propHist[r])
    BY <2>2, <2>3 DEF Origin, h
  <2>5. n = Len(propHist[r]) /\ h[n] = propHist[r][n]
    BY <2>1, <2>4 DEF BeginsWith
  <2>6. PropTermStartLsn(r) = propHist[r][n].lsn
    BY <2>4, <2>5, LeaderFacts
  <2>7. Continues(h, propHist[r], l)
    BY <1>8, <2>2, <2>4, <2>5 DEF Continues
  <2> QED BY <2>2, <2>4, <2>5, <2>6, <2>7 DEF h
<1> QED BY <1>1, <1>7, <1>8

(* A safekeeper loses nothing that it acknowledged to p.                   *)
LEMMA StillShares ==
    ASSUME TypeInv, VotesInv, LogInv, TypeInv', NEW A, AckInv(A), NEW p \in Proposers,
           NEW s \in Safekeepers, NEW r \in Proposers, Elected(p), Elected(r),
           NEW l \in Lsns, FirstLsn < l, l <= A[p][s], PropTermStartLsn(r) <= l,
           Holds(hist[s], flushLsn[s], propHist[r], l),
           r = p \/ Continues(propHist[p], propHist[r], l), KeeperStep(s)
    PROVE  \/ Holds(hist'[s], flushLsn'[s], propHist[r], l)
           \/ Blocked(A, p, Higher(l, PropTermStartLsn(p)))
<1> DEFINE g == Higher(l, PropTermStartLsn(p))
<1>1. /\ l \in Nat /\ A[p][s] \in Nat /\ A[p][s] # 0 /\ flushLsn[s] \in Nat /\ flushLsn'[s] \in Nat
  <2>1. l \in Nat /\ flushLsn[s] \in Nat /\ flushLsn'[s] \in Nat
    BY ConstantsType DEF TypeInv, TypeOK, SkTypeOK
  <2>2. A[p][s] \in Nat
    BY AckFacts
  <2> QED BY <2>1, <2>2 DEF FirstLsn
<1>2. propTerm[p] <= term[s] /\ term[s] \in Nat /\ propTerm[p] \in Nat
  BY <1>1, AckFacts, LogTypes
<1>3. g \in Lsns /\ g \in Nat /\ l <= g /\ PropTermStartLsn(p) <= g
  <2>1. propHist[p] \in TermHistories /\ Len(propHist[p]) \in 1..Len(propHist[p])
    BY LeaderFacts, LogTypes
  <2>2. PropTermStartLsn(p) \in Nat /\ PropTermStartLsn(p) <= MaxLsn
    BY <2>1, HistoryType DEF PropTermStartLsn
  <2> QED BY <1>1, <2>2, ConstantsType DEF Higher, Lsns
<1> HIDE DEF g
<1>4. CASE hist'[s] = hist[s] /\ flushLsn[s] <= flushLsn'[s]
  <2>1. l <= flushLsn'[s]
    BY <1>1, <1>4 DEF Holds
  <2> QED BY <1>4, <2>1 DEF Holds
<1>5. CASE \E x \in Proposers :
            /\ Elected(x) /\ term[s] <= propTerm[x] /\ term'[s] = propTerm[x]
            /\ hist'[s] = hist[s] \/ hist'[s] = propHist[x]
            /\ ExpectedStart(x, s) <= flushLsn'[s]
  <2>1. PICK x \in Proposers :
            /\ Elected(x) /\ term[s] <= propTerm[x]
            /\ hist'[s] = hist[s] \/ hist'[s] = propHist[x]
            /\ ExpectedStart(x, s) <= flushLsn'[s]
    BY <1>5
  <2>2. propTerm[x] \in Nat
    BY LogTypes
  <2>3. propHist[x] = propHist[r] \/ Continues(propHist[x], propHist[r], l) \/ Blocked(A, p, g)
    <3>1. CASE propTerm[p] = propTerm[x]
      BY <2>1, <3>1, SameLeader
    <3>2. CASE propTerm[p] < propTerm[x]
      <4>1. LeaderKeeps(A, x, p)
        BY DEF AckInv
      <4>2. Continues(propHist[x], propHist[p], g) \/ Blocked(A, p, g)
        BY <1>3, <2>1, <3>2, <4>1 DEF LeaderKeeps
      <4>3. ASSUME Continues(propHist[x], propHist[p], g) PROVE Continues(propHist[x], propHist[r], l)
        BY <1>1, <1>3, <4>3, LogTypes, ContinuesFurther
      <4> QED BY <4>2, <4>3
    <3> QED BY <1>2, <2>1, <2>2, <3>1, <3>2
  <2>4. ASSUME propHist[x] = propHist[r] \/ Continues(propHist[x], propHist[r], l)
        PROVE  Holds(hist'[s], flushLsn'[s], propHist[r], l)
    <3>1. ExpectedStart(x, s) \in Nat /\ l <= ExpectedStart(x, s)
      BY <1>1, <2>1, <2>4, StartsAbove
    <3>2. l <= flushLsn'[s]
      BY <1>1, <2>1, <3>1
    <3> QED BY <2>1, <2>4, <3>2 DEF Holds
  <2> QED BY <2>3, <2>4 DEF g
<1> QED BY <1>4, <1>5 DEF KeeperStep

(* Every step keeps what was acknowledged.                                 *)
LEMMA HasStep ==
    ASSUME TypeInv, VotesInv, LogInv, TypeInv', LeadersGrow, KeepersStep, NEW A, AckInv(A),
           NEW B \in AckTypes, AcksStep(A, B), HasInv(A)
    PROVE  HasInv(B)'
<1> SUFFICES ASSUME NEW p \in Proposers, NEW s \in Safekeepers, Elected(p)', NEW l \in Lsns,
                    FirstLsn < l, l <= B[p][s]
             PROVE  Shares(p, s, l)' \/ Blocked(B, p, Higher(l, PropTermStartLsn(p)))'
  BY DEF HasInv, SafekeeperHas
<1>1. A \in AckTypes /\ l \in Nat /\ l > 1
  BY ConstantsType DEF AckInv, AckTypes, FirstLsn
<1>2. Elected(p)
  <2> SUFFICES ASSUME ~Elected(p) PROVE FALSE
    OBVIOUS
  <2>1. B[p][s] = 0
    BY AckFacts DEF AcksStep
  <2> QED BY <1>1, <2>1
<1>3. ASSUME NEW r \in Proposers, Elected(r)
      PROVE  Elected(r)' /\ propHist'[r] = propHist[r] /\ PropTermStartLsn(r)' = PropTermStartLsn(r)
  BY <1>3 DEF LeadersGrow, Elected, PropTermStartLsn
<1>4. ASSUME NEW r \in Proposers, Elected(r), PropTermStartLsn(r) <= l,
             Holds(hist'[s], flushLsn'[s], propHist[r], l),
             r = p \/ Continues(propHist[p], propHist[r], l)
      PROVE  Shares(p, s, l)'
  BY <1>2, <1>3, <1>4 DEF Shares
<1>5. CASE B[p][s] # A[p][s]
  <2>1. hist'[s] = propHist[p] /\ B[p][s] = flushLsn'[s]
    BY <1>5 DEF AcksStep
  <2>2. PICK r \in Proposers : /\ Elected(r) /\ PropTermStartLsn(r) <= l
                               /\ r = p \/ Continues(propHist[p], propHist[r], l)
    BY <1>1, <1>2, WriterOf
  <2>3. Holds(hist'[s], flushLsn'[s], propHist[r], l)
    BY <2>1, <2>2 DEF Holds
  <2> QED BY <1>4, <2>2, <2>3
<1>6. CASE B[p][s] = A[p][s]
  <2> DEFINE g == Higher(l, PropTermStartLsn(p))
  <2>1. g \in Lsns
    <3>1. propHist[p] \in TermHistories /\ Len(propHist[p]) \in 1..Len(propHist[p])
      BY <1>2, LeaderFacts, LogTypes
    <3>2. PropTermStartLsn(p) \in Nat /\ PropTermStartLsn(p) <= MaxLsn
      BY <3>1, HistoryType DEF PropTermStartLsn
    <3> QED BY <1>1, <3>2, ConstantsType DEF Higher, Lsns
  <2>2. PropTermStartLsn(p)' = PropTermStartLsn(p)
    BY <1>2, <1>3
  <2>3. ASSUME Blocked(A, p, g) PROVE Blocked(B, p, Higher(l, PropTermStartLsn(p)))'
    <3>1. PICK m \in Lsns : m = g
      BY <2>1
    <3>2. Blocked(B, p, m)'
      BY <1>1, <1>2, <2>3, <3>1, BlockedStable
    <3>3. m = Higher(l, PropTermStartLsn(p)')
      BY <2>2, <3>1
    <3> QED BY <3>2, <3>3 DEF Blocked, Higher
  <2>4. Shares(p, s, l) \/ Blocked(A, p, g)
    BY <1>2, <1>6 DEF HasInv, SafekeeperHas
  <2>5. CASE Shares(p, s, l)
    <3>1. PICK r \in Proposers :
             /\ Elected(r) /\ PropTermStartLsn(r) <= l
             /\ Holds(hist[s], flushLsn[s], propHist[r], l)
             /\ r = p \/ Continues(propHist[p], propHist[r], l)
      BY <2>5 DEF Shares
    <3>2. KeeperStep(s)
      BY DEF KeepersStep
    <3>3. Holds(hist'[s], flushLsn'[s], propHist[r], l) \/ Blocked(A, p, g)
      BY <1>2, <1>6, <3>1, <3>2, StillShares
    <3> HIDE DEF g
    <3> QED BY <1>4, <2>3, <3>1, <3>3
  <2> HIDE DEF g
  <2> QED BY <2>3, <2>4, <2>5
<1> QED BY <1>5, <1>6

-----------------------------------------------------------------------------
(* Horizons.                                                               *)

(* Every safekeeper acknowledged h to a leader that committed h, or more,  *)
(* and told clients.                                                       *)
HorizonOK(A, h) ==
    h <= FirstLsn \/ \E p \in Proposers, m \in Lsns :
                        /\ Committed(A, p, m) /\ h <= m /\ m <= Len(ackedLog) + 1
                        /\ \A x \in Safekeepers : h <= A[p][x]

(* Where a horizon can be: at a safekeeper, at a proposer, in a message,   *)
(* in a vote, or in a message of a peer.                                   *)
AtSafekeeper(h) == \E s \in Safekeepers : h = memHorizon[s] \/ h = cfHorizon[s]

AtProposer(h) == \E p \in Proposers : h = propTruncate[p]

InMessage(h) == \E k \in Chan, p \in Proposers, s \in Safekeepers :
                  \E i \in 1..Len(q[k][p][s]) : h = q[k][p][s][i].horizon

InVote(h) == \E p \in Proposers, s \in Safekeepers :
               \/ vote[p][s] # None /\ h = vote[p][s].horizon
               \/ rsp[p][s] # None /\ rsp[p][s].type = "vote" /\ h = rsp[p][s].horizon

InPeerInfo(h) == peerInfo # None /\ h = peerInfo.horizon

KnownHorizon(h) ==
    AtSafekeeper(h) \/ AtProposer(h) \/ InMessage(h) \/ InVote(h) \/ InPeerInfo(h)

(* The invariant on horizons.                                              *)
HorizonInv(A) == \A h \in Nat : KnownHorizon(h) => HorizonOK(A, h)

(* A horizon that is nothing new.                                          *)
OldHorizon(h) == h <= FirstLsn \/ KnownHorizon(h)

(* Those of safekeepers, when one safekeeper takes over known ones.        *)
LEMMA SafekeeperTakes ==
    ASSUME TypeInv, NEW s \in Safekeepers, NEW g, NEW d, OldHorizon(g), OldHorizon(d),
           memHorizon' = [memHorizon EXCEPT ![s] = g], cfHorizon' = [cfHorizon EXCEPT ![s] = d],
           NEW h, AtSafekeeper(h)'
    PROVE  OldHorizon(h)
<1>1. PICK x \in Safekeepers : h = memHorizon'[x] \/ h = cfHorizon'[x]
  BY DEF AtSafekeeper
<1>2. /\ memHorizon'[x] = memHorizon[x] \/ memHorizon'[x] = g
      /\ cfHorizon'[x] = cfHorizon[x] \/ cfHorizon'[x] = d
  BY DEF TypeInv, TypeOK, SkTypeOK
<1>3. h = g \/ h = d \/ AtSafekeeper(h)
  BY <1>1, <1>2 DEF AtSafekeeper
<1> QED BY <1>3 DEF OldHorizon, KnownHorizon

(* What a step of a safekeeper does to them.                               *)
HorizonsTaken(s) ==
    \E g, d : /\ OldHorizon(g) /\ OldHorizon(d)
              /\ memHorizon' = [memHorizon EXCEPT ![s] = g]
              /\ cfHorizon' = [cfHorizon EXCEPT ![s] = d]

LEMMA SafekeeperHorizons ==
    ASSUME TypeInv, VotesInv, LogInv, NEW s \in Safekeepers, SafekeeperStep(s)
    PROVE  HorizonsTaken(s)
<1> DEFINE M == memHorizon[s]
           C == cfHorizon[s]
<1>1. OldHorizon(M) /\ OldHorizon(C)
  BY DEF OldHorizon, KnownHorizon, AtSafekeeper
<1>2. memHorizon = [memHorizon EXCEPT ![s] = M] /\ cfHorizon = [cfHorizon EXCEPT ![s] = C]
  BY DEF TypeInv, TypeOK, SkTypeOK
<1> HIDE DEF M, C
<1>3. ASSUME UNCHANGED memHorizon,
             UNCHANGED cfHorizon \/ cfHorizon' = [cfHorizon EXCEPT ![s] = M]
      PROVE  HorizonsTaken(s)
  BY <1>1, <1>2, <1>3 DEF HorizonsTaken
<1>4. ASSUME NEW k \in Chan, NEW p \in Proposers, HandleVoteRequest(k, p, s)
      PROVE  HorizonsTaken(s)
  <2>1. UNCHANGED memHorizon /\ (UNCHANGED cfHorizon \/ cfHorizon' = [cfHorizon EXCEPT ![s] = M])
    BY <1>4 DEF HandleVoteRequest, PersistInmem, M
  <2> QED BY <1>3, <2>1
<1>5. ASSUME NEW k \in Chan, NEW p \in Proposers, RefuseElected(k, p, s)
      PROVE  HorizonsTaken(s)
  <2>1. UNCHANGED memHorizon /\ (UNCHANGED cfHorizon \/ cfHorizon' = [cfHorizon EXCEPT ![s] = M])
    BY <1>5 DEF RefuseElected, RaiseTerm, PersistInmem, M
  <2> QED BY <1>3, <2>1
<1>6. ASSUME NEW k \in Chan, NEW p \in Proposers,
             \/ IgnoreElected(k, p, s) \/ RefuseAppend(k, p, s) \/ AppendOfOldTerm(k, p, s)
             \/ HandleFlush(k, p, s)
      PROVE  HorizonsTaken(s)
  <2>1. UNCHANGED memHorizon /\ UNCHANGED cfHorizon
    BY <1>6 DEF IgnoreElected, RefuseAppend, AppendOfOldTerm, HandleFlush, skVars
  <2> QED BY <1>3, <2>1
<1>7. ASSUME SaveControlFile(s) \/ TermBump(s) \/ PublishInfo(s) PROVE HorizonsTaken(s)
  <2>1. UNCHANGED memHorizon /\ (UNCHANGED cfHorizon \/ cfHorizon' = [cfHorizon EXCEPT ![s] = M])
    BY <1>7 DEF SaveControlFile, TermBump, PublishInfo, PersistInmem, skVars, M
  <2> QED BY <1>3, <2>1
<1>8. ASSUME NEW k \in Chan, NEW p \in Proposers, HandleElected(k, p, s)
      PROVE  HorizonsTaken(s)
  <2> DEFINE g == IF M = 0 THEN propHist[p][1].lsn ELSE M
  <2>1. /\ memHorizon' = [memHorizon EXCEPT ![s] = g] /\ cfHorizon' = [cfHorizon EXCEPT ![s] = g]
        /\ Received(k, p, s, "elected") /\ ~FromOldTerm(p, s)
        /\ ~ElectedRefused(p, s, Head(q[k][p][s]).lo)
    BY <1>8 DEF HandleElected, M
  <2>2. Elected(p)
    BY <2>1, ElectedFacts
  <2>3. propHist[p][1].lsn = FirstLsn /\ FirstLsn <= FirstLsn
    BY <2>2 DEF LogInv, LeaderLog, FirstLsn
  <2>4. OldHorizon(propHist[p][1].lsn)
    BY <2>3 DEF OldHorizon
  <2>5. OldHorizon(g)
    BY <1>1, <2>4
  <2> HIDE DEF g
  <2> QED BY <2>1, <2>5 DEF HorizonsTaken
<1>9. ASSUME NEW k \in Chan, NEW p \in Proposers, HandleAppendRequest(k, p, s)
      PROVE  HorizonsTaken(s)
  <2> DEFINE n == Head(q[k][p][s]).horizon
             g == Higher(M, n)
  <2>1. /\ memHorizon' = [memHorizon EXCEPT ![s] = g] /\ Received(k, p, s, "append")
        /\ UNCHANGED cfHorizon \/ cfHorizon' = [cfHorizon EXCEPT ![s] = M]
    BY <1>9 DEF HandleAppendRequest, M, TypeInv, TypeOK, SkTypeOK
  <2>2. Head(q[k][p][s]) = q[k][p][s][1] /\ 1 \in 1..Len(q[k][p][s])
    BY <2>1, HeadRequest
  <2>3. OldHorizon(n)
    BY <2>2 DEF OldHorizon, KnownHorizon, InMessage
  <2> HIDE DEF n
  <2>4. OldHorizon(g)
    BY <1>1, <2>3 DEF Higher
  <2> HIDE DEF g
  <2> QED BY <1>1, <1>2, <2>1, <2>4 DEF HorizonsTaken
<1>10. ASSUME NEW c, NEW g, NEW w, Boot(s, c, g, w), g = M \/ g = C PROVE HorizonsTaken(s)
  BY <1>1, <1>10 DEF HorizonsTaken, Boot
<1>11. ASSUME Crash(s) PROVE HorizonsTaken(s)
  <2>1. \E c, w : Boot(s, c, C, w)
    BY <1>11 DEF Crash, C
  <2> QED BY <1>10, <2>1
<1>12. ASSUME NEW k \in Chan, NEW p \in Proposers, CrashInElected(k, p, s) PROVE HorizonsTaken(s)
  <2>1. \E c, w : Boot(s, c, IF term[s] < propTerm[p] THEN M ELSE C, w)
    BY <1>12 DEF CrashInElected, M, C
  <2> QED BY <1>10, <2>1
<1>13. ASSUME RecordSafekeeperInfo(s) PROVE HorizonsTaken(s)
  <2> DEFINE g == Higher(peerInfo.horizon, M)
  <2>1. /\ peerInfo # None /\ memHorizon' = [memHorizon EXCEPT ![s] = g]
        /\ \/ UNCHANGED cfHorizon \/ cfHorizon' = [cfHorizon EXCEPT ![s] = g]
           \/ cfHorizon' = [cfHorizon EXCEPT ![s] = M]
    BY <1>13 DEF RecordSafekeeperInfo, M
  <2>2. OldHorizon(peerInfo.horizon)
    BY <2>1 DEF OldHorizon, KnownHorizon, InPeerInfo
  <2>3. OldHorizon(g)
    BY <1>1, <2>2 DEF Higher
  <2> HIDE DEF g
  <2> QED BY <1>1, <1>2, <2>1, <2>3 DEF HorizonsTaken
<1> QED BY <1>4, <1>5, <1>6, <1>7, <1>8, <1>9, <1>11, <1>12, <1>13 DEF SafekeeperStep

(* The other steps leave them alone.                                       *)
LEMMA ProposersLeaveKeepers ==
    ASSUME NEW p \in Proposers, ProposerStep(p)
    PROVE  UNCHANGED skVars /\ UNCHANGED peerInfo
<1>1. ASSUME NEW s \in Safekeepers,
             \/ GreetCollecting(p, s) \/ GreetStartsCampaign(p, s) \/ GreetLate(p, s)
             \/ GreetRejected(p, s) \/ RecvVoteRefused(p, s) \/ RecvVoteCounted(p, s)
      PROVE  UNCHANGED skVars /\ UNCHANGED peerInfo
  BY <1>1 DEF GreetCollecting, GreetStartsCampaign, GreetLate, GreetRejected, RecvVoteRefused,
     RecvVoteCounted
<1>2. ASSUME NEW s \in Safekeepers,
             \/ RecvVoteElects(p, s) \/ RecvVoteLate(p, s) \/ SendAppendRequest(p, s)
             \/ RecvAckFatal(p, s) \/ RecvAppendResponse(p, s) \/ Disconnect(p, s)
      PROVE  UNCHANGED skVars /\ UNCHANGED peerInfo
  BY <1>2 DEF RecvVoteElects, RecvVoteLate, SendAppendRequest, RecvAckFatal, RecvAppendResponse,
     Disconnect
<1>3. WriteWal(p) \/ Die(p) => UNCHANGED skVars /\ UNCHANGED peerInfo
  BY DEF WriteWal, Die
<1> QED BY <1>1, <1>2, <1>3 DEF ProposerStep

(* The largest horizon that voters report is one of theirs.                *)
LEMMA ElectedHorizon ==
    ASSUME TypeInv, NEW p \in Proposers, NEW s \in Safekeepers, VoteArrives(p, s), NEW d,
           BecomeElected(p, s, d)
    PROVE  \E g : OldHorizon(g) /\ propTruncate' = [propTruncate EXCEPT ![p] = g]
<1> DEFINE V == Voters(p, s)
           bootstrap == \A r \in V : VoteOf(p, s, r).flush = 0
           H == {VoteOf(p, s, r).horizon : r \in V}
           top == CHOOSE h \in H : \A g \in H : g <= h
<1>1. propTruncate' = [propTruncate EXCEPT ![p] = IF bootstrap THEN FirstLsn ELSE top]
  BY DEF BecomeElected
<1>2. V \in SUBSET Safekeepers /\ s \in V /\ \A r \in V : VoteOf(p, s, r) \in VoteResponses
  BY VoteOfType
<1>3. \A r \in V : r # s => vote[p][r] # None
  <2>1. \A r \in Safekeepers : LinkOK(p, r)
    BY DEF TypeInv, SupportInv
  <2> QED BY <2>1 DEF Voters, LinkOK
<1>4. H \in SUBSET Lsns /\ H # {}
  BY <1>2 DEF VoteResponses
<1>5. top \in H
  <2> HIDE DEF H
  <2>1. \E h \in H : \A g \in H : g <= h
    BY <1>4, GreatestNatural, ConstantsType DEF Lsns
  <2> QED BY <2>1
<1>6. ASSUME NEW r \in V PROVE OldHorizon(VoteOf(p, s, r).horizon)
  <2>1. CASE r = s
    <3>1. VoteOf(p, s, r) = rsp[p][s] /\ rsp[p][s] # None /\ rsp[p][s].type = "vote"
      BY <2>1 DEF VoteOf, VoteArrives
    <3> QED BY <3>1 DEF OldHorizon, KnownHorizon, InVote
  <2>2. CASE r # s
    <3>1. VoteOf(p, s, r) = vote[p][r] /\ vote[p][r] # None /\ r \in Safekeepers
      BY <1>2, <1>3, <2>2 DEF VoteOf
    <3> QED BY <3>1 DEF OldHorizon, KnownHorizon, InVote
  <2> QED BY <2>1, <2>2
<1>7. OldHorizon(top)
  BY <1>5, <1>6
<1>8. OldHorizon(FirstLsn)
  BY DEF OldHorizon, FirstLsn
<1> HIDE DEF V, bootstrap, H, top
<1> QED BY <1>1, <1>7, <1>8

(* What a step of a proposer does to truncateLsn, responses apart.         *)
TruncatesOld(p) == \E g : OldHorizon(g) /\ propTruncate' = [propTruncate EXCEPT ![p] = g]

LEMMA ProposerHorizons ==
    ASSUME TypeInv, NEW p \in Proposers, ProposerStep(p)
    PROVE  TruncatesOld(p) \/ \E s \in Safekeepers : RecvAppendResponse(p, s)
<1>1. ASSUME UNCHANGED propTruncate PROVE TruncatesOld(p)
  <2>1. propTruncate' = [propTruncate EXCEPT ![p] = propTruncate[p]] /\ OldHorizon(propTruncate[p])
    BY <1>1 DEF TypeInv, TypeOK, WpTypeOK, OldHorizon, KnownHorizon, AtProposer
  <2> QED BY <2>1 DEF TruncatesOld
<1>2. ASSUME Fatal(p) PROVE TruncatesOld(p)
  <2>1. propTruncate' = [propTruncate EXCEPT ![p] = 0] /\ OldHorizon(0)
    BY <1>2 DEF Fatal, OldHorizon, FirstLsn
  <2> QED BY <2>1 DEF TruncatesOld
<1>3. ASSUME NEW s \in Safekeepers,
             \/ GreetCollecting(p, s) \/ GreetStartsCampaign(p, s) \/ GreetLate(p, s)
             \/ RecvVoteCounted(p, s)
      PROVE  TruncatesOld(p)
  <2>1. UNCHANGED propTruncate
    BY <1>3 DEF GreetCollecting, GreetStartsCampaign, GreetLate, RecvVoteCounted, wpVars
  <2> QED BY <1>1, <2>1
<1>4. ASSUME NEW s \in Safekeepers,
             RecvVoteLate(p, s) \/ SendAppendRequest(p, s) \/ Disconnect(p, s) \/ WriteWal(p)
      PROVE  TruncatesOld(p)
  <2>1. UNCHANGED propTruncate
    BY <1>4 DEF RecvVoteLate, SendAppendRequest, Disconnect, WriteWal, wpVars
  <2> QED BY <1>1, <2>1
<1>5. ASSUME NEW s \in Safekeepers,
             GreetRejected(p, s) \/ RecvVoteRefused(p, s) \/ RecvAckFatal(p, s) \/ Die(p)
      PROVE  TruncatesOld(p)
  <2>1. Fatal(p)
    BY <1>5 DEF GreetRejected, RecvVoteRefused, RecvAckFatal, Die
  <2> QED BY <1>2, <2>1
<1>6. ASSUME NEW s \in Safekeepers, RecvVoteElects(p, s) PROVE TruncatesOld(p)
  <2>1. VoteArrives(p, s) /\ ((\E d : BecomeElected(p, s, d)) \/ Fatal(p))
    BY <1>6 DEF RecvVoteElects
  <2> QED BY <1>2, <2>1, ElectedHorizon DEF TruncatesOld
<1>7. Safekeepers # {}
  BY ConstantsAssumption
<1> QED BY <1>3, <1>4, <1>5, <1>6, <1>7 DEF ProposerStep

(* Votes carry the horizon of the safekeeper that votes.                   *)
LEMMA VotesHorizons ==
    ASSUME TypeInv, VotesInv, LogInv, [Next]_vars, NEW h, InVote(h)' PROVE OldHorizon(h)
<1>1. PICK r \in Proposers, x \in Safekeepers :
        \/ vote'[r][x] # None /\ h = vote'[r][x].horizon
        \/ rsp'[r][x] # None /\ rsp'[r][x].type = "vote" /\ h = rsp'[r][x].horizon
  BY DEF InVote
<1>2. ASSUME vote'[r][x] = vote[r][x] \/ vote'[r][x] = None,
             rsp'[r][x] = rsp[r][x] \/ rsp'[r][x] = None
      PROVE  OldHorizon(h)
  BY <1>1, <1>2 DEF OldHorizon, KnownHorizon, InVote
<1>3. ASSUME QuietLinks PROVE OldHorizon(h)
  BY <1>2, <1>3 DEF QuietLinks
<1>4. ASSUME NEW k \in Chan, NEW p \in Proposers, NEW s \in Safekeepers, HandleVoteRequest(k, p, s)
      PROVE  OldHorizon(h)
  <2>1. PICK v : v.horizon = memHorizon[s] /\ (UNCHANGED rsp \/ rsp' = [rsp EXCEPT ![p][s] = v])
    <3> DEFINE v == VoteResponse(IF VoteGranted(p, s) THEN propTerm[p] ELSE term[s], VoteGranted(p, s),
                                 WriteLsn(s), memHorizon[s], UpTo(hist[s], WriteLsn(s)), wal[s])
    <3>1. v.horizon = memHorizon[s]
      BY DEF VoteResponse
    <3>2. Reply(k, p, s, v)
      BY <1>4 DEF HandleVoteRequest
    <3> HIDE DEF v
    <3>3. UNCHANGED rsp \/ rsp' = [rsp EXCEPT ![p][s] = v]
      BY <3>2 DEF Reply
    <3> QED BY <3>1, <3>3
  <2>2. vote' = vote
    BY <1>4 DEF HandleVoteRequest, linkVars
  <2>3. rsp'[r][x] = rsp[r][x] \/ rsp'[r][x] = v
    <3>1. CASE rsp' = [rsp EXCEPT ![p][s] = v]
      BY <3>1 DEF TypeInv, TypeOK, NetTypeOK
    <3> QED BY <2>1, <3>1
  <2>4. CASE rsp'[r][x] = v
    <3>1. h = memHorizon[s] \/ (vote[r][x] # None /\ h = vote[r][x].horizon)
      BY <1>1, <2>1, <2>2, <2>4
    <3> QED BY <3>1 DEF OldHorizon, KnownHorizon, AtSafekeeper, InVote
  <2> QED BY <1>2, <2>2, <2>3, <2>4
<1>5. ASSUME NEW k \in Chan, NEW p \in Proposers, NEW s \in Safekeepers,
             AppendOfOldTerm(k, p, s) \/ HandleFlush(k, p, s)
      PROVE  OldHorizon(h)
  <2>1. vote' = vote /\ \E t, f : Reply(k, p, s, AppendResponse(t, f))
    BY <1>5 DEF AppendOfOldTerm, HandleFlush, linkVars
  <2>2. PICK v : v.type = "ack" /\ (UNCHANGED rsp \/ rsp' = [rsp EXCEPT ![p][s] = v])
    <3>1. PICK t, f : Reply(k, p, s, AppendResponse(t, f))
      BY <2>1
    <3> DEFINE v == AppendResponse(t, f)
    <3>2. v.type = "ack"
      BY DEF AppendResponse
    <3> HIDE DEF v
    <3>3. UNCHANGED rsp \/ rsp' = [rsp EXCEPT ![p][s] = v]
      BY <3>1 DEF Reply, v
    <3> QED BY <3>2, <3>3
  <2>3. rsp'[r][x] = rsp[r][x] \/ rsp'[r][x] = v
    <3>1. CASE rsp' = [rsp EXCEPT ![p][s] = v]
      BY <3>1 DEF TypeInv, TypeOK, NetTypeOK
    <3> QED BY <2>2, <3>1
  <2>4. CASE rsp'[r][x] = v
    <3>1. vote[r][x] # None /\ h = vote[r][x].horizon
      BY <1>1, <2>1, <2>2, <2>4
    <3> QED BY <3>1 DEF OldHorizon, KnownHorizon, InVote
  <2> QED BY <1>2, <2>1, <2>3, <2>4
<1>6. ASSUME NEW p \in Proposers, NEW s \in Safekeepers, RecvVoteCounted(p, s) PROVE OldHorizon(h)
  <2>1. /\ vote' = [vote EXCEPT ![p][s] = rsp[p][s]] /\ rsp' = [rsp EXCEPT ![p][s] = None]
        /\ rsp[p][s] # None /\ rsp[p][s].type = "vote"
    BY <1>6 DEF RecvVoteCounted, VoteArrives
  <2>2. rsp'[r][x] = rsp[r][x] \/ rsp'[r][x] = None
    BY <2>1 DEF TypeInv, TypeOK, NetTypeOK
  <2>3. vote'[r][x] = vote[r][x] \/ vote'[r][x] = rsp[p][s]
    BY <2>1 DEF TypeInv, TypeOK, LinkTypeOK
  <2>4. CASE vote'[r][x] = rsp[p][s]
    <3>1. h = rsp[p][s].horizon \/ (rsp[r][x] # None /\ rsp[r][x].type = "vote" /\ h = rsp[r][x].horizon)
      BY <1>1, <2>2, <2>4
    <3> QED BY <2>1, <3>1 DEF OldHorizon, KnownHorizon, InVote
  <2> QED BY <1>2, <2>2, <2>3, <2>4
<1>7. ASSUME NEW p \in Proposers, NEW s \in Safekeepers, RecvAppendResponse(p, s) PROVE OldHorizon(h)
  <2>1. vote' = vote /\ rsp' = [rsp EXCEPT ![p][s] = None]
    BY <1>7 DEF RecvAppendResponse
  <2>2. rsp'[r][x] = rsp[r][x] \/ rsp'[r][x] = None
    BY <2>1 DEF TypeInv, TypeOK, NetTypeOK
  <2> QED BY <1>2, <2>1, <2>2
<1>8. ASSUME NEW p \in Proposers, NEW s \in Safekeepers, RecvVoteElects(p, s) PROVE OldHorizon(h)
  <2>1. CASE Fatal(p)
    BY <1>3, <2>1, ProposerQuiet
  <2>2. CASE /\ vote' = [vote EXCEPT ![p] = [y \in Safekeepers |-> None]]
             /\ rsp' = [rsp EXCEPT ![p][s] = None]
    <3>1. rsp'[r][x] = rsp[r][x] \/ rsp'[r][x] = None
      BY <2>2 DEF TypeInv, TypeOK, NetTypeOK
    <3>2. vote'[r][x] = vote[r][x] \/ vote'[r][x] = None
      BY <2>2 DEF TypeInv, TypeOK, LinkTypeOK
    <3> QED BY <1>2, <3>1, <3>2
  <2> QED BY <1>8, <2>1, <2>2 DEF RecvVoteElects
<1>9. ASSUME NEW s \in Safekeepers, SafekeeperStep(s) PROVE OldHorizon(h)
  <2>1. ASSUME \/ \E k \in Chan, p \in Proposers :
                \/ IgnoreElected(k, p, s) \/ RefuseElected(k, p, s) \/ HandleElected(k, p, s)
                \/ RefuseAppend(k, p, s) \/ HandleAppendRequest(k, p, s) \/ CrashInElected(k, p, s)
           \/ SaveControlFile(s) \/ TermBump(s) \/ Crash(s) \/ PublishInfo(s)
           \/ RecordSafekeeperInfo(s)
        PROVE  OldHorizon(h)
    BY <1>3, <2>1, SafekeeperQuiet
  <2> QED BY <1>4, <1>5, <1>9, <2>1 DEF SafekeeperStep
<1>10. ASSUME NEW p \in Proposers, ProposerStep(p) PROVE OldHorizon(h)
  <2>1. ASSUME \/ \E s \in Safekeepers :
                \/ GreetCollecting(p, s) \/ GreetStartsCampaign(p, s) \/ GreetLate(p, s)
                \/ GreetRejected(p, s) \/ RecvVoteRefused(p, s) \/ RecvVoteLate(p, s)
                \/ SendAppendRequest(p, s) \/ RecvAckFatal(p, s) \/ Disconnect(p, s)
               \/ WriteWal(p) \/ Fatal(p)
        PROVE  OldHorizon(h)
    BY <1>3, <2>1, ProposerQuiet
  <2>2. Die(p) => Fatal(p)
    BY DEF Die
  <2> QED BY <1>6, <1>7, <1>8, <1>10, <2>1, <2>2 DEF ProposerStep
<1>11. CASE UNCHANGED vars
  <2>1. vote' = vote /\ rsp' = rsp
    BY <1>11 DEF vars, linkVars, netVars
  <2> QED BY <1>2, <2>1
<1> QED BY <1>9, <1>10, <1>11 DEF Next

(* A peer's message carries the horizon of the safekeeper.                 *)
LEMMA PeerHorizons ==
    ASSUME TypeInv, [Next]_vars, NEW h, InPeerInfo(h)' PROVE OldHorizon(h)
<1>1. peerInfo' # None /\ h = peerInfo'.horizon
  BY DEF InPeerInfo
<1>2. ASSUME UNCHANGED peerInfo PROVE OldHorizon(h)
  BY <1>1, <1>2 DEF OldHorizon, KnownHorizon, InPeerInfo
<1>3. ASSUME NEW s \in Safekeepers, PublishInfo(s) PROVE OldHorizon(h)
  <2>1. peerInfo' = [lastLogTerm |-> LastLogTerm(hist[s], flushLsn[s]),
                     commit |-> memCommit[s], horizon |-> memHorizon[s]]
    BY <1>3 DEF PublishInfo
  <2>2. h = memHorizon[s]
    BY <1>1, <2>1
  <2> QED BY <2>2 DEF OldHorizon, KnownHorizon, AtSafekeeper
<1>4. ASSUME NEW s \in Safekeepers, SafekeeperStep(s) PROVE OldHorizon(h)
  <2>1. ASSUME NEW k \in Chan, NEW p \in Proposers,
               HandleVoteRequest(k, p, s) \/ IgnoreElected(k, p, s) \/ RefuseElected(k, p, s)
        PROVE  UNCHANGED peerInfo
    BY <2>1 DEF HandleVoteRequest, IgnoreElected, RefuseElected
  <2>2. ASSUME NEW k \in Chan, NEW p \in Proposers,
               HandleElected(k, p, s) \/ RefuseAppend(k, p, s) \/ AppendOfOldTerm(k, p, s)
        PROVE  UNCHANGED peerInfo
    BY <2>2 DEF HandleElected, RefuseAppend, AppendOfOldTerm
  <2>3. ASSUME NEW k \in Chan, NEW p \in Proposers,
               HandleAppendRequest(k, p, s) \/ HandleFlush(k, p, s)
        PROVE  UNCHANGED peerInfo
    BY <2>3 DEF HandleAppendRequest, HandleFlush
  <2>4. ASSUME Crash(s) \/ \E k \in Chan, p \in Proposers : CrashInElected(k, p, s)
        PROVE  UNCHANGED peerInfo
    <3>1. \E c, g, w : Boot(s, c, g, w)
      BY <2>4 DEF Crash, CrashInElected
    <3> QED BY <3>1 DEF Boot
  <2>5. SaveControlFile(s) \/ TermBump(s) \/ RecordSafekeeperInfo(s) => UNCHANGED peerInfo
    BY DEF SaveControlFile, TermBump, RecordSafekeeperInfo
  <2> QED BY <1>2, <1>3, <1>4, <2>1, <2>2, <2>3, <2>4, <2>5 DEF SafekeeperStep
<1>5. UNCHANGED vars => UNCHANGED peerInfo
  BY DEF vars
<1> QED BY <1>2, <1>4, <1>5, ProposersLeaveKeepers DEF Next

(* Messages carry the horizon of their proposer.                           *)
LEMMA MessageHorizons ==
    ASSUME TypeInv, [Next]_vars, NEW h, InMessage(h)' PROVE OldHorizon(h)
<1>1. PICK k \in Chan, p \in Proposers, s \in Safekeepers : \E i \in 1..Len(q'[k][p][s]) :
        h = q'[k][p][s][i].horizon
  BY DEF InMessage
<1>2. PICK i \in 1..Len(q'[k][p][s]) : h = q'[k][p][s][i].horizon
  BY <1>1
<1>3. \/ Tells(p, q'[k][p][s][i])
      \/ \E j \in Chan : \E x \in 1..Len(q[j][p][s]) : q'[k][p][s][i] = q[j][p][s][x]
  BY NextMessages DEF MessagesStep
<1>4. CASE Tells(p, q'[k][p][s][i])
  <2>1. h = 0 \/ h = propTruncate[p]
    BY <1>2, <1>4 DEF Tells
  <2> QED BY <2>1 DEF OldHorizon, KnownHorizon, AtProposer, FirstLsn
<1>5. CASE \E j \in Chan : \E x \in 1..Len(q[j][p][s]) : q'[k][p][s][i] = q[j][p][s][x]
  BY <1>2, <1>5 DEF OldHorizon, KnownHorizon, InMessage
<1> QED BY <1>3, <1>4, <1>5

(* Only a response makes a new horizon.                                    *)
LEMMA NextHorizons ==
    ASSUME TypeInv, VotesInv, LogInv, [Next]_vars, NEW h, KnownHorizon(h)'
    PROVE  OldHorizon(h) \/ \E p \in Proposers, s \in Safekeepers :
                               RecvAppendResponse(p, s) /\ h = propTruncate'[p]
<1>1. CASE InMessage(h)' \/ InVote(h)' \/ InPeerInfo(h)'
  BY <1>1, MessageHorizons, VotesHorizons, PeerHorizons
<1>2. CASE AtSafekeeper(h)'
  <2>1. ASSUME UNCHANGED skVars PROVE OldHorizon(h)
    <3>1. AtSafekeeper(h)
      BY <1>2, <2>1 DEF AtSafekeeper, skVars
    <3> QED BY <3>1 DEF OldHorizon, KnownHorizon
  <2>2. ASSUME NEW s \in Safekeepers, SafekeeperStep(s) PROVE OldHorizon(h)
    <3>1. PICK g, d : /\ OldHorizon(g) /\ OldHorizon(d)
                      /\ memHorizon' = [memHorizon EXCEPT ![s] = g]
                      /\ cfHorizon' = [cfHorizon EXCEPT ![s] = d]
      BY <2>2, SafekeeperHorizons DEF HorizonsTaken
    <3> QED BY <1>2, <3>1, SafekeeperTakes
  <2>3. UNCHANGED vars => UNCHANGED skVars
    BY DEF vars
  <2> QED BY <2>1, <2>2, <2>3, ProposersLeaveKeepers DEF Next
<1>3. CASE AtProposer(h)'
  <2>1. PICK r \in Proposers : h = propTruncate'[r]
    BY <1>3 DEF AtProposer
  <2>2. OldHorizon(propTruncate[r])
    BY DEF OldHorizon, KnownHorizon, AtProposer
  <2>3. ASSUME UNCHANGED propTruncate PROVE OldHorizon(h)
    BY <2>1, <2>2, <2>3
  <2>4. ASSUME UNCHANGED wpVars PROVE OldHorizon(h)
    BY <2>3, <2>4 DEF wpVars
  <2>5. ASSUME NEW s \in Safekeepers, SafekeeperStep(s) PROVE UNCHANGED wpVars
    <3>1. ASSUME NEW k \in Chan, NEW p \in Proposers,
                 HandleVoteRequest(k, p, s) \/ IgnoreElected(k, p, s) \/ RefuseElected(k, p, s)
          PROVE  UNCHANGED wpVars
      BY <3>1 DEF HandleVoteRequest, IgnoreElected, RefuseElected
    <3>2. ASSUME NEW k \in Chan, NEW p \in Proposers,
                 HandleElected(k, p, s) \/ RefuseAppend(k, p, s) \/ AppendOfOldTerm(k, p, s)
          PROVE  UNCHANGED wpVars
      BY <3>2 DEF HandleElected, RefuseAppend, AppendOfOldTerm
    <3>3. ASSUME NEW k \in Chan, NEW p \in Proposers,
                 HandleAppendRequest(k, p, s) \/ HandleFlush(k, p, s)
          PROVE  UNCHANGED wpVars
      BY <3>3 DEF HandleAppendRequest, HandleFlush
    <3>4. ASSUME Crash(s) \/ \E k \in Chan, p \in Proposers : CrashInElected(k, p, s)
          PROVE  UNCHANGED wpVars
      <4>1. \E c, g, w : Boot(s, c, g, w)
        BY <3>4 DEF Crash, CrashInElected
      <4> QED BY <4>1 DEF Boot
    <3>5. SaveControlFile(s) \/ TermBump(s) \/ PublishInfo(s) \/ RecordSafekeeperInfo(s) => UNCHANGED wpVars
      BY DEF SaveControlFile, TermBump, PublishInfo, RecordSafekeeperInfo
    <3> QED BY <2>5, <3>1, <3>2, <3>3, <3>4, <3>5 DEF SafekeeperStep
  <2>6. ASSUME NEW p \in Proposers, TruncatesOld(p) PROVE OldHorizon(h)
    <3>1. PICK g : OldHorizon(g) /\ propTruncate' = [propTruncate EXCEPT ![p] = g]
      BY <2>6 DEF TruncatesOld
    <3>2. propTruncate'[r] = propTruncate[r] \/ propTruncate'[r] = g
      BY <3>1 DEF TypeInv, TypeOK, WpTypeOK
    <3> QED BY <2>1, <2>2, <3>1, <3>2
  <2>7. ASSUME NEW p \in Proposers, NEW s \in Safekeepers, RecvAppendResponse(p, s), r # p
        PROVE  OldHorizon(h)
    <3>1. PICK g : propTruncate' = [propTruncate EXCEPT ![p] = g]
      BY <2>7 DEF RecvAppendResponse
    <3>2. propTruncate'[r] = propTruncate[r]
      BY <2>7, <3>1 DEF TypeInv, TypeOK, WpTypeOK
    <3> QED BY <2>1, <2>2, <3>2
  <2>8. UNCHANGED vars => UNCHANGED wpVars
    BY DEF vars
  <2> QED BY <2>1, <2>4, <2>5, <2>6, <2>7, <2>8, ProposerHorizons DEF Next
<1> QED BY <1>1, <1>2, <1>3 DEF KnownHorizon

(* CalculateMinFlushLsn is a lower bound.                                  *)
LEMMA MinFlushBelow ==
    ASSUME NEW acks \in [Safekeepers -> Lsns]
    PROVE  MinFlushLsn(acks) \in Lsns /\ \A s \in Safekeepers : MinFlushLsn(acks) <= acks[s]
<1> DEFINE D == {acks[s] : s \in Safekeepers}
<1>1. \A s \in Safekeepers : acks[s] \in Lsns /\ acks[s] \in Nat
  BY ConstantsType
<1>2. D \in SUBSET Nat /\ D # {} /\ D \in SUBSET Lsns
  <2>1. PICK s \in Safekeepers : TRUE
    BY ConstantsAssumption
  <2>2. acks[s] \in D
    OBVIOUS
  <2> QED BY <1>1, <2>2
<1>3. \E l \in D : \A x \in D : l <= x
  <2> HIDE DEF D
  <2> QED BY <1>2, LeastNatural
<1>4. \E l \in D : \A s \in Safekeepers : l <= acks[s]
  BY <1>3
<1>5. MinFlushLsn(acks) = CHOOSE l \in D : \A s \in Safekeepers : l <= acks[s]
  BY DEF MinFlushLsn
<1>6. MinFlushLsn(acks) \in D /\ \A s \in Safekeepers : MinFlushLsn(acks) <= acks[s]
  <2> HIDE DEF D
  <2> QED BY <1>4, <1>5
<1> QED BY <1>2, <1>6

(* A horizon stays safe.                                                   *)
LEMMA HorizonStable ==
    ASSUME TypeInv, TypeInv', LogInv, LeadersGrow, NEW A, AckInv(A), NEW B \in AckTypes, Grown(A, B),
           Extended(ackedLog, ackedLog'), NEW h \in Nat, HorizonOK(A, h)
    PROVE  HorizonOK(B, h)'
<1>1. CASE h <= FirstLsn
  BY <1>1 DEF HorizonOK, FirstLsn
<1>2. CASE ~(h <= FirstLsn)
  <2>1. PICK p \in Proposers, m \in Lsns :
            /\ Committed(A, p, m) /\ h <= m /\ m <= Len(ackedLog) + 1
            /\ \A x \in Safekeepers : h <= A[p][x]
    BY <1>2 DEF HorizonOK
  <2>2. m \in Nat /\ Len(ackedLog) \in Nat /\ Len(ackedLog') \in Nat /\ Len(ackedLog) <= Len(ackedLog')
    BY LogLength, AckedType, ConstantsType DEF TypeInv, TypeOK, AuxTypeOK, Extended
  <2>3. Committed(B, p, m)'
    BY <2>1, <2>2, CommittedStable
  <2>4. ASSUME NEW x \in Safekeepers PROVE h <= B[p][x]
    <3>1. A[p][x] \in Nat /\ B[p][x] \in Nat /\ A[p][x] <= B[p][x] /\ h <= A[p][x]
      BY <2>1, AckFacts, ConstantsType DEF AckTypes, Grown
    <3> QED BY <3>1
  <2>5. m <= Len(ackedLog') + 1
    BY <2>1, <2>2
  <2> QED BY <2>1, <2>3, <2>4, <2>5 DEF HorizonOK
<1> QED BY <1>1, <1>2

(* The horizon of a response: below the commit LSN, and below what every   *)
(* safekeeper acknowledged.                                                *)
LEMMA ResponseHorizon ==
    ASSUME TypeInv, LogInv, TypeInv', LeadersGrow, NEW A, AckInv(A), NEW B \in AckTypes, Grown(A, B),
           NEW p \in Proposers, NEW s \in Safekeepers, RecvAppendResponse(p, s),
           Reported(A, p, propCommit[p]), Reported(B, p, propCommit[p])',
           Extended(ackedLog, ackedLog'), NEW h \in Nat, h = propTruncate'[p], HorizonInv(A)
    PROVE  HorizonOK(B, h)'
<1> DEFINE acks == [ack[p] EXCEPT ![s] = rsp[p][s].flush]
           low == MinFlushLsn(acks)
           commit == Higher(propCommit[p], AcknowledgedByQuorum(p, acks))
<1>1. /\ AckArrives(p, s) /\ rsp[p][s].term <= propTerm[p]
      /\ propCommit' = [propCommit EXCEPT ![p] = commit]
      /\ propTruncate' = [propTruncate EXCEPT ![p] = Higher(propTruncate[p], Lower(low, commit))]
  BY DEF RecvAppendResponse
<1>2. rsp[p][s] # None /\ rsp[p][s].type = "ack" /\ rsp[p][s].term >= propTerm[p]
  BY <1>1 DEF AckArrives, LogInv, LinkLog
<1>3. rsp[p][s].term \in Nat /\ rsp[p][s].flush \in Lsns
  <2>1. rsp[p][s] \in VoteResponses \cup AppendResponses \cup {None}
    BY DEF TypeInv, TypeOK, NetTypeOK
  <2> QED BY <1>2, <2>1, ConstantsType DEF VoteResponses, AppendResponses
<1>4. rsp[p][s].term = propTerm[p]
  BY <1>1, <1>2, <1>3, LogTypes
<1>5. rsp[p][s].flush <= A[p][s] /\ \A x \in Safekeepers : ack[p][x] <= A[p][x]
  BY <1>2, <1>4, AckFacts DEF AckedBy
<1>6. ack[p] \in [Safekeepers -> Lsns]
  BY DEF TypeInv, TypeOK, LinkTypeOK
<1>7. acks \in [Safekeepers -> Lsns] /\ \A x \in Safekeepers : acks[x] <= A[p][x]
  BY <1>3, <1>5, <1>6
<1> HIDE DEF acks
<1>8. low \in Nat /\ \A x \in Safekeepers : low <= acks[x]
  BY <1>7, MinFlushBelow, ConstantsType
<1>9. propCommit'[p] = commit /\ propTruncate'[p] = Higher(propTruncate[p], Lower(low, commit))
  BY <1>1 DEF TypeInv, TypeOK, WpTypeOK
<1>10. propCommit'[p] \in Nat
  BY ConstantsType DEF TypeInv, TypeOK, WpTypeOK
<1> HIDE DEF low, commit
<1>11. commit \in Nat /\ propTruncate[p] \in Nat
  BY <1>9, <1>10, CommitTypes
<1>12. CASE h = propTruncate[p]
  <2>1. HorizonOK(A, h)
    BY <1>12 DEF HorizonInv, KnownHorizon, AtProposer
  <2> QED BY <2>1, HorizonStable
<1>13. CASE h = Lower(low, commit) /\ commit = 0
  <2>1. h <= FirstLsn
    BY <1>8, <1>13 DEF Lower, FirstLsn
  <2> QED BY <2>1 DEF HorizonOK, FirstLsn
<1>14. CASE h = Lower(low, commit) /\ commit # 0
  <2>1. h <= low /\ h <= commit
    BY <1>8, <1>11, <1>14 DEF Lower
  <2>2. Committed(A, p, commit)
    BY <1>9, <1>14, ResponseCommits
  <2>3. PICK m \in Lsns : m = commit
    BY <1>11, <2>2, CommittedType
  <2>4. Committed(B, p, m)'
    BY <1>11, <2>2, <2>3, CommittedStable
  <2>5. m <= Len(ackedLog') + 1
    BY <1>9, <1>14, <2>3 DEF Reported
  <2>6. ASSUME NEW x \in Safekeepers PROVE h <= B[p][x]
    <3>1. A[p][x] \in Nat /\ B[p][x] \in Nat /\ A[p][x] <= B[p][x] /\ acks[x] \in Nat
      BY <1>7, AckFacts, ConstantsType DEF AckTypes, Grown
    <3> QED BY <1>7, <1>8, <2>1, <3>1
  <2> QED BY <2>1, <2>3, <2>4, <2>5, <2>6 DEF HorizonOK
<1> QED BY <1>9, <1>12, <1>13, <1>14 DEF Higher

(* Every step keeps horizons safe.                                         *)
LEMMA NextHorizonInv ==
    ASSUME TypeInv, VotesInv, LogInv, TypeInv', [Next]_vars, NEW A, AckInv(A), CommitInv(A),
           HorizonInv(A), NEW B \in AckTypes, Grown(A, B)
    PROVE  HorizonInv(B)'
<1> SUFFICES ASSUME NEW h \in Nat, KnownHorizon(h)' PROVE HorizonOK(B, h)'
  BY DEF HorizonInv
<1>1. LeadersGrow
  BY NextGrows
<1>2. Extended(ackedLog, ackedLog') /\ \A p \in Proposers : Reported(B, p, propCommit[p])'
  BY NextReported
<1>3. \A p \in Proposers : Reported(A, p, propCommit[p])
  BY DEF CommitInv
<1>4. CASE OldHorizon(h)
  <2>1. HorizonOK(A, h)
    BY <1>4 DEF OldHorizon, HorizonInv, HorizonOK
  <2> QED BY <1>1, <1>2, <2>1, HorizonStable
<1>5. ASSUME NEW p \in Proposers, NEW s \in Safekeepers, RecvAppendResponse(p, s), h = propTruncate'[p]
      PROVE  HorizonOK(B, h)'
  BY <1>1, <1>2, <1>3, <1>5, ResponseHorizon
<1> QED BY <1>4, <1>5, NextHorizons

-----------------------------------------------------------------------------
(* The invariant of the theorem on horizons.                               *)

SafeHorizons == \E A : AckInv(A) /\ CommitInv(A) /\ HasInv(A) /\ HorizonInv(A)

HorizonsInv == TypeInv /\ VotesInv /\ LogInv /\ SafeHorizons

(* It holds initially ...                                                  *)
LEMMA InitHorizons == Init => SafeHorizons
<1> SUFFICES ASSUME Init PROVE SafeHorizons
  OBVIOUS
<1>1. PICK A : AckInv(A) /\ CommitInv(A)
  BY InitCommitted DEF CommittedInv
<1>2. \A p \in Proposers : ~Elected(p)
  BY DEF Init, Elected
<1>3. HasInv(A)
  BY <1>2 DEF HasInv, SafekeeperHas
<1>4. ASSUME NEW h \in Nat, KnownHorizon(h) PROVE h <= FirstLsn
  <2>1. /\ \A s \in Safekeepers : memHorizon[s] <= FirstLsn /\ cfHorizon[s] <= FirstLsn
        /\ \A p \in Proposers : propTruncate[p] <= FirstLsn
        /\ \A p \in Proposers, s \in Safekeepers : vote[p][s] = None /\ rsp[p][s] = None
        /\ peerInfo = None
    BY DEF Init, FirstLsn
  <2>2. ASSUME NEW k \in Chan, NEW p \in Proposers, NEW s \in Safekeepers PROVE Len(q[k][p][s]) = 0
    <3>1. q[k][p][s] = <<>>
      BY DEF Init
    <3> QED BY <3>1
  <2>3. ~InMessage(h)
    BY <2>2 DEF InMessage
  <2> QED BY <1>4, <2>1, <2>3 DEF KnownHorizon, AtSafekeeper, AtProposer, InVote, InPeerInfo
<1>5. HorizonInv(A)
  BY <1>4 DEF HorizonInv, HorizonOK
<1> QED BY <1>1, <1>3, <1>5 DEF SafeHorizons

(* ... and is preserved.                                                   *)
LEMMA NextSafeHorizons ==
    ASSUME TypeInv, VotesInv, LogInv, TypeInv', VotesInv', LogInv', SafeHorizons, [Next]_vars
    PROVE  SafeHorizons'
<1>1. PICK A : AckInv(A) /\ CommitInv(A) /\ HasInv(A) /\ HorizonInv(A)
  BY DEF SafeHorizons
<1>2. PICK B : AckInv(B)' /\ Grown(A, B) /\ AcksStep(A, B)
  BY <1>1, NextAcks
<1>3. B \in AckTypes
  BY <1>2 DEF AckInv, AckTypes
<1>4. CommitInv(B)'
  BY <1>1, <1>2, <1>3, NextCommits
<1>5. LeadersGrow /\ KeepersStep
  BY NextGrows, NextKeepers
<1>6. HasInv(B)'
  BY <1>1, <1>2, <1>3, <1>5, HasStep
<1>7. HorizonInv(B)'
  BY <1>1, <1>2, <1>3, NextHorizonInv
<1> QED BY <1>2, <1>4, <1>6, <1>7 DEF SafeHorizons

LEMMA HorizonsInvariant == Spec => []HorizonsInv
<1>1. Init => HorizonsInv
  BY InitType, InitVotes, InitLog, InitHorizons DEF HorizonsInv
<1>2. HorizonsInv /\ [Next]_vars => HorizonsInv'
  <2> SUFFICES ASSUME HorizonsInv, [Next]_vars PROVE HorizonsInv'
    OBVIOUS
  <2>1. TypeInv' /\ VotesInv' /\ LogInv'
    BY NextType, NextVotes, NextLog DEF HorizonsInv
  <2> QED BY <2>1, NextSafeHorizons DEF HorizonsInv
<1> QED BY <1>1, <1>2, PTL DEF Spec

(* What p wrote or took over up to l is in the WAL of s.                   *)
LEMMA SharesAgree ==
    ASSUME TypeInv, VotesInv, LogInv, NEW p \in Proposers, Elected(p), NEW s \in Safekeepers,
           NEW l \in Nat, Shares(p, s, l)
    PROVE  Agree(wal[s], propWal[p], l) /\ l <= flushLsn[s]
<1>1. PICK r \in Proposers : /\ Elected(r) /\ PropTermStartLsn(r) <= l
                             /\ Holds(hist[s], flushLsn[s], propHist[r], l)
                             /\ r = p \/ Continues(propHist[p], propHist[r], l)
  BY DEF Shares
<1>2. hist[s] \in TermHistories /\ Ascending(hist[s]) /\ flushLsn[s] \in Nat /\ Len(wal[s]) \in Nat
  BY SafekeeperAscends, LogTypes
<1>3. propHist[r] \in TermHistories /\ propHist[r] # <<>> /\ propHist[r][Len(propHist[r])].lsn <= l
  BY <1>1, LeaderHistory, LeaderFacts DEF PropTermStartLsn
<1>4. Holds(UpTo(hist[s], flushLsn[s]), flushLsn[s], propHist[r], l)
  BY <1>1, <1>2, <1>3, HoldsCut
<1>5. HasDurable(UpTo(hist[s], flushLsn[s]), wal[s], flushLsn[s], term[s])
  BY SafekeeperDurable
<1>6. Agree(wal[s], propWal[r], l)
  BY <1>1, <1>2, <1>4, <1>5, HoldsAgree
<1>7. CASE r = p
  BY <1>1, <1>6, <1>7 DEF Holds
<1>8. CASE Continues(propHist[p], propHist[r], l)
  <2>1. Agree(propWal[p], propWal[r], l)
    BY <1>1, <1>8, ContinuesAgree
  <2>2. Agree(wal[s], propWal[p], l)
    BY <1>6, <2>1, AgreeSymmetric, AgreeTransitive
  <2> QED BY <1>1, <2>2 DEF Holds
<1> QED BY <1>1, <1>7, <1>8

(* A prefix of one log on the disk of a safekeeper.                        *)
LEMMA PrefixOnDisk ==
    ASSUME NEW v \in Logs, NEW w \in Logs, NEW l \in Lsns, NEW f \in Lsns, l >= 1, l <= f,
           f <= Len(w) + 1, Agree(w, v, l)
    PROVE  IsPrefix(Below(v, l), Below(w, f))
<1>1. Len(v) \in Nat /\ Len(w) \in Nat /\ l \in Nat /\ f \in Nat /\ l <= Len(v) + 1
  BY LogLength, ConstantsType DEF Agree
<1>2. /\ Below(v, l) \in Logs /\ Len(Below(v, l)) = l - 1
      /\ \A x \in 1..Len(Below(v, l)) : Below(v, l)[x] = v[x]
  BY <1>1, BelowLog
<1>3. /\ Below(w, f) \in Logs /\ Len(Below(w, f)) = f - 1
      /\ \A x \in 1..Len(Below(w, f)) : Below(w, f)[x] = w[x]
  BY <1>1, BelowLog
<1>4. ASSUME NEW x \in 1..Len(Below(v, l)) PROVE Below(v, l)[x] = Below(w, f)[x]
  <2>1. x \in 1..(l - 1) /\ x \in 1..Len(Below(w, f))
    BY <1>1, <1>2, <1>3
  <2> QED BY <1>2, <1>3, <2>1 DEF Agree
<1>5. Len(Below(v, l)) <= Len(Below(w, f))
  BY <1>1, <1>2, <1>3
<1> QED BY <1>2, <1>3, <1>4, <1>5, PrefixRecords

(* A safe horizon is below WAL of the log of clients that is on the disk   *)
(* of every safekeeper.                                                    *)
LEMMA HorizonOnDisk ==
    ASSUME TypeInv, VotesInv, LogInv, NEW A, AckInv(A), CommitInv(A), HasInv(A), NEW h \in Nat,
           HorizonOK(A, h), h > FirstLsn
    PROVE  /\ h <= Len(ackedLog) + 1
           /\ \A r \in Safekeepers : IsPrefix(Below(ackedLog, h), Below(wal[r], flushLsn[r]))
<1>1. ~(h <= FirstLsn) /\ h >= 1
  BY DEF FirstLsn
<1>2. PICK p \in Proposers, m \in Lsns :
          /\ Committed(A, p, m) /\ h <= m /\ m <= Len(ackedLog) + 1
          /\ \A x \in Safekeepers : h <= A[p][x]
  BY <1>1 DEF HorizonOK
<1>3. /\ m \in Nat /\ Elected(p) /\ PropTermStartLsn(p) <= m /\ PropTermStartLsn(p) \in Nat
      /\ m <= MaxLsn /\ h \in Lsns
  <2>1. m \in Nat /\ m <= MaxLsn
    BY ConstantsType DEF Lsns
  <2>2. Elected(p) /\ PropTermStartLsn(p) <= m
    BY <1>2 DEF Committed
  <2> QED BY <1>2, <2>1, <2>2, LeaderHistory, ConstantsType DEF Lsns
<1>4. Len(ackedLog) \in Nat /\ ackedLog \in Logs /\ Len(propWal[p]) \in Nat
  BY AckedType, LogTypes
<1>5. Agree(propWal[p], ackedLog, h)
  <2>1. AckedLogOK(A)
    BY DEF CommitInv
  <2>2. Agree(propWal[p], ackedLog, m)
    BY <1>2, <1>3, <2>1, CommittedInLog
  <2> QED BY <1>2, <1>3, <1>4, <2>2, AgreeBelow
<1>6. ~Blocked(A, p, Higher(h, PropTermStartLsn(p)))
  <2> DEFINE g == Higher(h, PropTermStartLsn(p))
  <2>1. g \in Nat /\ g <= m
    BY <1>2, <1>3 DEF Higher
  <2> HIDE DEF g
  <2>2. ~Blocked(A, p, g)
    BY <1>2, <1>3, <2>1, CommittedNotBlocked
  <2> QED BY <2>2 DEF g
<1>7. ASSUME NEW r \in Safekeepers PROVE IsPrefix(Below(ackedLog, h), Below(wal[r], flushLsn[r]))
  <2>1. Shares(p, r, h)
    BY <1>2, <1>3, <1>6 DEF HasInv, SafekeeperHas
  <2>2. Agree(wal[r], propWal[p], h) /\ h <= flushLsn[r]
    BY <1>3, <2>1, SharesAgree
  <2>3. Agree(wal[r], ackedLog, h)
    BY <1>5, <2>2, AgreeTransitive
  <2>4. wal[r] \in Logs /\ flushLsn[r] \in Lsns /\ flushLsn[r] <= Len(wal[r]) + 1
    BY LogTypes DEF TypeInv, TypeOK, SkTypeOK, LogInv, SafekeeperLog
  <2> QED BY <1>1, <1>3, <1>4, <2>2, <2>3, <2>4, PrefixOnDisk
<1>8. h <= Len(ackedLog) + 1
  BY <1>2, <1>3, <1>4
<1> QED BY <1>7, <1>8

(* peer_horizon_lsn of a safekeeper, by which WAL is removed, is never     *)
(* ahead of what is committed nor of what any safekeeper has on disk, of   *)
(* any number of safekeepers: CalculateMinFlushLsn takes acknowledgements  *)
(* of connections that may be long gone, and votes, broker messages and    *)
(* restarts only hand on horizons that were computed that way.             *)
THEOREM HorizonIsSafe == Spec => []HorizonIsOnAllSafekeepers
<1>1. HorizonsInv => HorizonIsOnAllSafekeepers
  <2> SUFFICES ASSUME HorizonsInv, NEW s \in Safekeepers, memHorizon[s] > FirstLsn
               PROVE  /\ memHorizon[s] <= Len(ackedLog) + 1
                      /\ \A r \in Safekeepers :
                           IsPrefix(Below(ackedLog, memHorizon[s]), Below(wal[r], flushLsn[r]))
    BY DEF HorizonIsOnAllSafekeepers
  <2>1. PICK A : AckInv(A) /\ CommitInv(A) /\ HasInv(A) /\ HorizonInv(A)
    BY DEF HorizonsInv, SafeHorizons
  <2>2. memHorizon[s] \in Nat /\ TypeInv /\ VotesInv /\ LogInv
    BY CommitTypes DEF HorizonsInv
  <2>3. HorizonOK(A, memHorizon[s])
    BY <2>1, <2>2 DEF HorizonInv, KnownHorizon, AtSafekeeper
  <2> QED BY <2>1, <2>2, <2>3, HorizonOnDisk
<1> QED BY <1>1, HorizonsInvariant, PTL

-----------------------------------------------------------------------------
(* The refinement of ReplicatedLog.                                        *)

(* The number of records below an LSN.                                     *)
Before(l) == IF l = 0 THEN 0 ELSE l - 1

(* What a safekeeper serves is the beginning of the log.                   *)
LEMMA ServedLog ==
    ASSUME NEW w \in Logs, NEW v \in Logs, NEW l \in Lsns, Agree(w, v, l)
    PROVE  /\ Below(w, l) = SubSeq(v, 1, Before(l)) /\ Before(l) \in 0..Len(v)
           /\ Below(w, l) \in Logs /\ Len(Below(w, l)) = Before(l)
           /\ \A x \in 1..Before(l) : Below(w, l)[x] = v[x]
<1> DEFINE R == [term : Terms, lsn : 1..MaxLsn]
<1>1. Len(w) \in Nat /\ Len(v) \in Nat /\ l \in Nat /\ l <= Len(w) + 1 /\ l <= Len(v) + 1
  BY LogLength, ConstantsType DEF Agree
<1>2. /\ Below(w, l) \in Logs /\ Len(Below(w, l)) = Before(l)
      /\ \A x \in 1..Len(Below(w, l)) : Below(w, l)[x] = w[x]
  BY <1>1, BelowLog DEF Before
<1>3. Before(l) \in 0..Len(v) /\ Before(l) \in Nat /\ \A x \in 1..Before(l) : x \in 1..(l - 1)
  BY <1>1 DEF Before
<1>4. \A x \in 1..Before(l) : Below(w, l)[x] = v[x]
  BY <1>2, <1>3 DEF Agree
<1>5. Below(w, l) \in Seq(R) /\ v \in Seq(R)
  BY <1>2 DEF Logs
<1> HIDE DEF R
<1>6. SubSeq(v, 1, Before(l)) \in Seq(R) /\ Len(SubSeq(v, 1, Before(l))) = Before(l)
      /\ \A x \in 1..Before(l) : SubSeq(v, 1, Before(l))[x] = v[x]
  BY <1>1, <1>3, <1>5
<1>7. Below(w, l) = SubSeq(v, 1, Before(l))
  BY <1>2, <1>4, <1>5, <1>6, SeqEqual
<1> QED BY <1>2, <1>3, <1>4, <1>7

(* Beginnings of the same log.                                             *)
LEMMA ServedMore ==
    ASSUME NEW u \in Logs, NEW w \in Logs, NEW v \in Logs, NEW l \in Lsns, NEW m \in Lsns, l <= m,
           Agree(u, v, l), Agree(w, v, m)
    PROVE  /\ IsPrefix(Below(u, l), Below(w, m)) /\ Before(l) <= Before(m)
           /\ Below(u, l) = SubSeq(Below(w, m), 1, Before(l))
<1> DEFINE R == [term : Terms, lsn : 1..MaxLsn]
<1>1. l \in Nat /\ m \in Nat /\ Before(l) \in Nat /\ Before(m) \in Nat /\ Before(l) <= Before(m)
  BY ConstantsType DEF Before
<1>2. /\ Below(u, l) \in Logs /\ Len(Below(u, l)) = Before(l)
      /\ \A x \in 1..Before(l) : Below(u, l)[x] = v[x]
  BY ServedLog
<1>3. /\ Below(w, m) \in Logs /\ Len(Below(w, m)) = Before(m)
      /\ \A x \in 1..Before(m) : Below(w, m)[x] = v[x]
  BY ServedLog
<1>4. \A x \in 1..Before(l) : x \in 1..Before(m)
  BY <1>1
<1>5. \A x \in 1..Before(l) : Below(u, l)[x] = Below(w, m)[x]
  BY <1>2, <1>3, <1>4
<1>6. IsPrefix(Below(u, l), Below(w, m))
  BY <1>1, <1>2, <1>3, <1>5, PrefixRecords
<1>7. Below(u, l) \in Seq(R) /\ Below(w, m) \in Seq(R)
  BY <1>2, <1>3 DEF Logs
<1> HIDE DEF R
<1>8. SubSeq(Below(w, m), 1, Before(l)) \in Seq(R) /\ Len(SubSeq(Below(w, m), 1, Before(l))) = Before(l)
      /\ \A x \in 1..Before(l) : SubSeq(Below(w, m), 1, Before(l))[x] = Below(w, m)[x]
  BY <1>1, <1>3, <1>7
<1>9. Below(u, l) = SubSeq(Below(w, m), 1, Before(l))
  BY <1>2, <1>5, <1>7, <1>8, SeqEqual
<1> QED BY <1>1, <1>6, <1>9

(* Steps, as readers see them.                                             *)
OthersServe(s) == \A x \in Safekeepers : x # s => wal'[x] = wal[x] /\ memCommit'[x] = memCommit[x]

(* Readers see no difference, except that something may have failed ...    *)
ServesSame == UNCHANGED <<wal, memCommit, ackedLog>> /\ (UNCHANGED faults \/ faults' = faults + 1)
(* ... s serves more ...                                                   *)
ServesMore(s) == UNCHANGED <<ackedLog, faults>> /\ OthersServe(s) /\ memCommit[s] <= memCommit'[s]
(* ... s fails and serves less ...                                         *)
ServesLess(s) == /\ UNCHANGED ackedLog /\ faults' = faults + 1
                 /\ OthersServe(s) /\ memCommit'[s] <= memCommit[s]
(* ... or more is committed.                                               *)
LogGrows == UNCHANGED <<wal, memCommit, faults>>

(* update_commit_lsn never lowers the commit LSN.                          *)
LEMMA RaisedCommit ==
    ASSUME TypeInv, NEW s \in Safekeepers, SafekeeperCommit(s), NEW c \in Nat
    PROVE  memCommit[s] <= UpdatedCommitLsn(s, c, flushLsn[s])
<1>1. memCommit[s] \in Nat /\ flushLsn[s] \in Nat /\ memCommit[s] <= flushLsn[s]
  BY CommitTypes, LogTypes DEF SafekeeperCommit
<1> QED BY <1>1 DEF UpdatedCommitLsn, Lower, Higher

(* Every step is one of these.                                             *)
LEMMA NextServes ==
    ASSUME TypeInv, VotesInv, LogInv, [Next]_vars, \A x \in Safekeepers : SafekeeperCommit(x)
    PROVE  ServesSame \/ LogGrows \/ \E s \in Safekeepers : ServesMore(s) \/ ServesLess(s)
<1>1. ASSUME NEW s \in Safekeepers, SafekeeperStep(s) PROVE ServesSame \/ ServesMore(s) \/ ServesLess(s)
  <2>0. /\ memCommit[s] \in Nat /\ cfCommit[s] \in Nat /\ cfCommit[s] <= memCommit[s]
        /\ wal \in [Safekeepers -> Logs] /\ memCommit \in [Safekeepers -> Lsns]
    BY CommitTypes DEF SafekeeperCommit, TypeInv, TypeOK, SkTypeOK
  <2>1. ASSUME NEW k \in Chan, NEW p \in Proposers,
               HandleVoteRequest(k, p, s) \/ IgnoreElected(k, p, s) \/ RefuseElected(k, p, s)
        PROVE  ServesSame
    BY <2>1 DEF HandleVoteRequest, IgnoreElected, RefuseElected, skVars, auxVars, ServesSame
  <2>2. ASSUME NEW k \in Chan, NEW p \in Proposers,
               RefuseAppend(k, p, s) \/ AppendOfOldTerm(k, p, s) \/ HandleFlush(k, p, s)
        PROVE  ServesSame
    BY <2>2 DEF RefuseAppend, AppendOfOldTerm, HandleFlush, skVars, auxVars, ServesSame
  <2>3. ASSUME SaveControlFile(s) \/ TermBump(s) \/ PublishInfo(s) PROVE ServesSame
    BY <2>3 DEF SaveControlFile, TermBump, PublishInfo, skVars, auxVars, ServesSame
  <2>4. ASSUME NEW k \in Chan, NEW p \in Proposers, HandleElected(k, p, s) PROVE ServesMore(s)
    <3> DEFINE start == Head(q[k][p][s]).lo
               commit == Higher(memCommit[s], propHist[p][1].lsn)
    <3>1. /\ Received(k, p, s, "elected") /\ ~FromOldTerm(p, s) /\ ~ElectedRefused(p, s, start)
          /\ wal' = [wal EXCEPT ![s] = Below(wal[s], start)] /\ memCommit' = [memCommit EXCEPT ![s] = commit]
          /\ UNCHANGED <<ackedLog, faults>>
      BY <2>4 DEF HandleElected, TruncateWal, auxVars
    <3>2. Elected(p)
      BY <3>1, ElectedFacts
    <3>3. propHist[p][1].lsn = 1
      BY <3>2 DEF LogInv, LeaderLog, FirstLsn
    <3>4. memCommit[s] <= commit
      BY <2>0, <3>3 DEF Higher
    <3> HIDE DEF start, commit
    <3>5. OthersServe(s) /\ memCommit'[s] = commit
      BY <2>0, <3>1 DEF OthersServe
    <3> QED BY <3>1, <3>4, <3>5 DEF ServesMore
  <2>5. ASSUME NEW k \in Chan, NEW p \in Proposers, HandleAppendRequest(k, p, s) PROVE ServesMore(s)
    <3> DEFINE m == Head(q[k][p][s])
               commit == IF m.commit = 0 THEN memCommit[s] ELSE UpdatedCommitLsn(s, m.commit, flushLsn[s])
               w == wal[s] \o SubSeq(propWal[p], m.lo, m.hi - 1)
    <3>1. /\ Received(k, p, s, "append")
          /\ wal' = [wal EXCEPT ![s] = w] /\ memCommit' = [memCommit EXCEPT ![s] = commit]
          /\ UNCHANGED <<ackedLog, faults>>
      BY <2>5 DEF HandleAppendRequest, auxVars
    <3>2. m.commit \in Nat
      <4>1. q[k][p][s] \in Seq(Messages) /\ q[k][p][s] # <<>>
        BY <3>1 DEF TypeInv, TypeOK, NetTypeOK, Received
      <4>2. m \in Messages
        BY <4>1
      <4> HIDE DEF m
      <4> QED BY <4>2, ConstantsType DEF Messages
    <3> HIDE DEF m, w
    <3>3. memCommit[s] <= commit
      BY <2>0, <3>2, RaisedCommit
    <3> HIDE DEF commit
    <3>4. OthersServe(s) /\ memCommit'[s] = commit
      BY <2>0, <3>1 DEF OthersServe
    <3> QED BY <3>1, <3>3, <3>4 DEF ServesMore
  <2>6. ASSUME RecordSafekeeperInfo(s) PROVE ServesMore(s)
    <3> DEFINE commit == IF PeerCommitUsable(peerInfo, s)
                         THEN UpdatedCommitLsn(s, peerInfo.commit, flushLsn[s]) ELSE memCommit[s]
    <3>1. /\ peerInfo # None /\ UNCHANGED wal /\ memCommit' = [memCommit EXCEPT ![s] = commit]
          /\ UNCHANGED <<ackedLog, faults>>
      BY <2>6 DEF RecordSafekeeperInfo, auxVars
    <3>2. peerInfo.commit \in Nat
      BY <3>1, ConstantsType DEF TypeInv, TypeOK, NetTypeOK, PeerInfos
    <3>3. memCommit[s] <= commit
      BY <2>0, <3>2, RaisedCommit
    <3> HIDE DEF commit
    <3>4. OthersServe(s) /\ memCommit'[s] = commit
      BY <2>0, <3>1 DEF OthersServe
    <3> QED BY <3>1, <3>3, <3>4 DEF ServesMore
  <2>7. ASSUME NEW c, NEW h, NEW w, Boot(s, c, h, w), c <= memCommit[s] PROVE ServesLess(s)
    <3>1. /\ wal' = [wal EXCEPT ![s] = w] /\ memCommit' = [memCommit EXCEPT ![s] = c]
          /\ UNCHANGED ackedLog /\ faults' = faults + 1
      BY <2>7 DEF Boot
    <3>2. OthersServe(s) /\ memCommit'[s] = c
      BY <2>0, <3>1 DEF OthersServe
    <3> QED BY <2>7, <3>1, <3>2 DEF ServesLess
  <2>8. ASSUME Crash(s) PROVE ServesLess(s)
    <3>1. \E w : Boot(s, cfCommit[s], cfHorizon[s], w)
      BY <2>8 DEF Crash
    <3> QED BY <2>0, <2>7, <3>1
  <2>9. ASSUME NEW k \in Chan, NEW p \in Proposers, CrashInElected(k, p, s) PROVE ServesLess(s)
    <3> DEFINE c == IF term[s] < propTerm[p] THEN memCommit[s] ELSE cfCommit[s]
    <3>1. \E h, w : Boot(s, c, h, w)
      BY <2>9 DEF CrashInElected
    <3>2. c <= memCommit[s]
      BY <2>0
    <3> HIDE DEF c
    <3> QED BY <2>7, <3>1, <3>2
  <2> QED BY <1>1, <2>1, <2>2, <2>3, <2>4, <2>5, <2>6, <2>8, <2>9 DEF SafekeeperStep
<1>2. ASSUME NEW p \in Proposers, ProposerStep(p) PROVE ServesSame \/ LogGrows
  <2>1. ASSUME NEW s \in Safekeepers,
               \/ GreetCollecting(p, s) \/ GreetStartsCampaign(p, s) \/ GreetLate(p, s)
               \/ GreetRejected(p, s)
        PROVE  ServesSame
    BY <2>1 DEF GreetCollecting, GreetStartsCampaign, GreetLate, GreetRejected, skVars, auxVars, ServesSame
  <2>2. ASSUME NEW s \in Safekeepers,
               \/ RecvVoteRefused(p, s) \/ RecvVoteCounted(p, s) \/ RecvVoteElects(p, s)
               \/ RecvVoteLate(p, s)
        PROVE  ServesSame
    BY <2>2 DEF RecvVoteRefused, RecvVoteCounted, RecvVoteElects, RecvVoteLate, skVars, auxVars, ServesSame
  <2>3. ASSUME NEW s \in Safekeepers,
               SendAppendRequest(p, s) \/ RecvAckFatal(p, s) \/ Disconnect(p, s)
        PROVE  ServesSame
    BY <2>3 DEF SendAppendRequest, RecvAckFatal, Disconnect, skVars, auxVars, ServesSame
  <2>4. ASSUME NEW s \in Safekeepers, RecvAppendResponse(p, s) PROVE LogGrows
    BY <2>4 DEF RecvAppendResponse, skVars, LogGrows
  <2>5. WriteWal(p) \/ Die(p) => ServesSame
    BY DEF WriteWal, Die, skVars, auxVars, ServesSame
  <2> QED BY <1>2, <2>1, <2>2, <2>3, <2>4, <2>5 DEF ProposerStep
<1>3. UNCHANGED vars => ServesSame
  BY DEF vars, skVars, auxVars, ServesSame
<1> QED BY <1>1, <1>2, <1>3 DEF Next

(* What safekeepers serve, as the refinement mapping has it.               *)
Served == [s \in Safekeepers |-> Below(wal[s], memCommit[s])]

(* The initial states are initial states of ReplicatedLog ...              *)
LEMMA ServiceInit == Init => Service!Init
<1> SUFFICES ASSUME Init PROVE Service!Init
  OBVIOUS
<1>1. ASSUME NEW s \in Safekeepers PROVE Below(wal[s], memCommit[s]) = <<>>
  <2>1. wal[s] = <<>> /\ (memCommit[s] = 0 \/ memCommit[s] = 1)
    BY DEF Init, FirstLsn
  <2>2. Lower(memCommit[s] - 1, Len(wal[s])) \in Int /\ Lower(memCommit[s] - 1, Len(wal[s])) <= 0
    BY <2>1 DEF Lower
  <2>3. SubSeq(<<>>, 1, Lower(memCommit[s] - 1, Len(wal[s]))) = <<>>
    BY <2>2
  <2> QED BY <2>1, <2>3 DEF Below
<1>2. ackedLog = <<>> /\ faults = 0
  BY DEF Init
<1> QED BY <1>1, <1>2 DEF Service!Init

(* ... and the steps are its steps, or change nothing it sees.             *)
LEMMA ServiceStep ==
    ASSUME SafetyInv, SafetyInv', [Next]_vars
    PROVE  [Service!Next]_(Service!vars)
<1>1. /\ TypeInv /\ VotesInv /\ LogInv /\ TypeInv'
      /\ \A x \in Safekeepers : SafekeeperCommit(x) /\ SafekeeperCommit(x)'
      /\ Extended(ackedLog, ackedLog')
  <2>1. PICK A : AckInv(A) /\ CommitInv(A)
    BY DEF SafetyInv, CommittedInv
  <2>2. PICK B : AckInv(B)' /\ CommitInv(B)'
    BY DEF SafetyInv, CommittedInv
  <2>3. TypeInv /\ VotesInv /\ LogInv /\ TypeInv' /\ VotesInv' /\ LogInv'
    BY DEF SafetyInv
  <2>4. Extended(ackedLog, ackedLog')
    BY <2>1, <2>3, NextExtends
  <2> QED BY <2>1, <2>2, <2>3, <2>4 DEF CommitInv
<1>2. /\ Served \in [Safekeepers -> Logs] /\ Served' \in [Safekeepers -> Logs]
      /\ \A x \in Safekeepers : Served[x] = Below(wal[x], memCommit[x])
      /\ \A x \in Safekeepers : Served'[x] = Below(wal'[x], memCommit'[x])
  <2>1. \A x \in Safekeepers : wal[x] \in Logs /\ memCommit[x] \in Lsns
    BY <1>1 DEF TypeInv, TypeOK, SkTypeOK
  <2>2. \A x \in Safekeepers : wal'[x] \in Logs /\ memCommit'[x] \in Lsns
    BY <1>1 DEF TypeInv, TypeOK, SkTypeOK
  <2> QED BY <2>1, <2>2, BelowType DEF Served
<1>3. ASSUME UNCHANGED <<wal, memCommit>> PROVE Served' = Served
  BY <1>3 DEF Served
<1>4. ASSUME NEW s \in Safekeepers, OthersServe(s)
      PROVE  Served' = [Served EXCEPT ![s] = Served'[s]]
  <2>1. \A x \in Safekeepers : x # s => Served'[x] = Served[x]
    BY <1>2, <1>4 DEF OthersServe
  <2> HIDE DEF Served
  <2> QED BY <1>2, <2>1
<1>5. ASSUME NEW s \in Safekeepers
      PROVE  /\ wal[s] \in Logs /\ wal'[s] \in Logs /\ memCommit[s] \in Lsns /\ memCommit'[s] \in Lsns
             /\ memCommit[s] \in Nat /\ memCommit'[s] \in Nat /\ ackedLog \in Logs /\ ackedLog' \in Logs
             /\ Agree(wal[s], ackedLog, memCommit[s]) /\ Agree(wal'[s], ackedLog', memCommit'[s])
  <2>1. Agree(wal[s], ackedLog, memCommit[s]) /\ Agree(wal'[s], ackedLog', memCommit'[s])
    BY <1>1 DEF SafekeeperCommit
  <2> QED BY <1>1, <2>1, ConstantsType DEF TypeInv, TypeOK, SkTypeOK, AuxTypeOK
<1>6. CASE ServesSame
  <2>1. Served' = Served /\ UNCHANGED ackedLog /\ (UNCHANGED faults \/ faults' = faults + 1)
    BY <1>3, <1>6 DEF ServesSame
  <2> QED BY <2>1 DEF Service!Next, Service!Fail, Service!vars, Served
<1>7. CASE LogGrows
  <2>1. Served' = Served /\ UNCHANGED faults
    BY <1>3, <1>7 DEF LogGrows
  <2>2. IsPrefix(ackedLog, ackedLog')
    <3>1. ackedLog \in Logs /\ ackedLog' \in Logs
      BY <1>1 DEF TypeInv, TypeOK, AuxTypeOK
    <3> QED BY <1>1, <3>1, PrefixRecords DEF Extended
  <2>3. Service!IsPrefix(ackedLog, ackedLog')
    BY <2>2 DEF IsPrefix, Service!IsPrefix
  <2> QED BY <2>1, <2>3 DEF Service!Next, Service!Commit, Service!vars, Served
<1>8. ASSUME NEW s \in Safekeepers, ServesMore(s) PROVE Service!Next
  <2>1. UNCHANGED <<ackedLog, faults>> /\ OthersServe(s) /\ memCommit[s] <= memCommit'[s]
    BY <1>8 DEF ServesMore
  <2>2. Agree(wal'[s], ackedLog, memCommit'[s])
    BY <1>5, <2>1
  <2>3. /\ Served'[s] = SubSeq(ackedLog, 1, Before(memCommit'[s])) /\ Before(memCommit'[s]) \in 0..Len(ackedLog)
    BY <1>2, <1>5, <2>2, ServedLog
  <2>4. Len(Served[s]) = Before(memCommit[s])
    BY <1>2, <1>5, ServedLog
  <2>5. IsPrefix(Served[s], Served'[s]) /\ Before(memCommit[s]) <= Before(memCommit'[s])
    BY <1>2, <1>5, <2>1, <2>2, ServedMore
  <2>6. Before(memCommit[s]) \in Nat /\ Len(ackedLog) \in Nat
    BY <1>1, <1>5, AckedType DEF Before
  <2>7. Before(memCommit'[s]) \in Len(Served[s])..Len(ackedLog)
    BY <2>3, <2>4, <2>5, <2>6
  <2>8. Served' = [Served EXCEPT ![s] = SubSeq(ackedLog, 1, Before(memCommit'[s]))]
    BY <1>4, <2>1, <2>3
  <2>9. \E n \in Len(Served[s])..Len(ackedLog) : Served' = [Served EXCEPT ![s] = SubSeq(ackedLog, 1, n)]
    BY <2>7, <2>8
  <2>10. Service!IsPrefix(Served[s], Served'[s])
    BY <2>5 DEF IsPrefix, Service!IsPrefix
  <2>11. Service!Advance(s)
    BY <2>1, <2>9, <2>10 DEF Service!Advance, Served
  <2> QED BY <2>11 DEF Service!Next
<1>9. ASSUME NEW s \in Safekeepers, ServesLess(s) PROVE Service!Next
  <2>1. UNCHANGED ackedLog /\ faults' = faults + 1 /\ OthersServe(s) /\ memCommit'[s] <= memCommit[s]
    BY <1>9 DEF ServesLess
  <2>2. Agree(wal'[s], ackedLog, memCommit'[s])
    BY <1>5, <2>1
  <2>3. Len(Served[s]) = Before(memCommit[s])
    BY <1>2, <1>5, ServedLog
  <2>4. /\ Served'[s] = SubSeq(Served[s], 1, Before(memCommit'[s]))
        /\ Before(memCommit'[s]) <= Before(memCommit[s])
    BY <1>2, <1>5, <2>1, <2>2, ServedMore
  <2>5. Before(memCommit'[s]) \in Nat /\ Before(memCommit[s]) \in Nat
    BY <1>5 DEF Before
  <2>6. Before(memCommit'[s]) \in 0..Len(Served[s])
    BY <2>3, <2>4, <2>5
  <2>7. Served' = [Served EXCEPT ![s] = SubSeq(Served[s], 1, Before(memCommit'[s]))]
    BY <1>4, <2>1, <2>4
  <2>8. \E n \in 0..Len(Served[s]) : Served' = [Served EXCEPT ![s] = SubSeq(Served[s], 1, n)]
    BY <2>6, <2>7
  <2>9. Service!Fail
    BY <2>1, <2>8 DEF Service!Fail, Served
  <2> QED BY <2>9 DEF Service!Next
<1> QED BY <1>1, <1>6, <1>7, <1>8, <1>9, NextServes

(* The safekeepers and their proposers implement ReplicatedLog: one log,   *)
(* to which every commit of a proposer (HandleSafekeeperResponse) adds,    *)
(* and of which every safekeeper serves, below its commit_lsn, a beginning *)
(* that gets shorter only in a failure.                                    *)
THEOREM ServiceRefined == Spec => ServiceSpec
<1>1. SafetyInv /\ SafetyInv' /\ [Next]_vars => [Service!Next]_(Service!vars)
  BY ServiceStep
<1> QED BY <1>1, ServiceInit, SafetyInvariant, PTL DEF Spec, ServiceSpec, Service!Spec
=============================================================================
