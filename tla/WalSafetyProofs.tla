--------------------------- MODULE WalSafetyProofs ---------------------------
(***************************************************************************)
(* Safety of WalConsensus, for any number of safekeepers, proposers, terms *)
(* and records: term histories describe the WAL they come with, and every  *)
(* log there is, on a safekeeper, in a vote or of a proposer, is part of   *)
(* the log of an elected proposer.                                         *)
(***************************************************************************)
EXTENDS WalConsensusProofs

-----------------------------------------------------------------------------
(* Logs and histories.  An elected proposer never changes its history and  *)
(* only appends to its WAL, so every other log is described by naming a    *)
(* proposer whose log it is a part of.                                     *)

Elected(p) == propHist[p] # <<>>

(* Two logs have the same records below LSN l.                             *)
Agree(v, w, l) == l <= Len(v) + 1 /\ l <= Len(w) + 1 /\ \A x \in 1..(l - 1) : v[x] = w[x]

(* The history of a timeline that no proposer has written to.              *)
Root == IF CreatedWithLsn THEN <<TermLsn(0, FirstLsn)>> ELSE <<>>

(* The first n entries of th are the history a.                            *)
BeginsWith(th, n, a) == n = Len(a) /\ \A j \in 1..n : th[j] = a[j]

(* The first i terms of the history of p come from nowhere or from a       *)
(* proposer that p has the WAL of, up to where the next term begins.       *)
Origin(p, i) ==
    \/ BeginsWith(propHist[p], i, Root) /\ propHist[p][i + 1].lsn = FirstLsn
    \/ \E r \in Proposers :
         /\ Elected(r)
         /\ BeginsWith(propHist[p], i, propHist[r])
         /\ Agree(propWal[p], propWal[r], propHist[p][i + 1].lsn)

Ascending(th) ==
    \A i, j \in 1..Len(th) : i < j => th[i].lsn <= th[j].lsn /\ th[i].term < th[j].term

LeaderLog(p) ==
    /\ Ascending(propHist[p])
    /\ propHist[p][1].lsn = FirstLsn
    /\ PropTermStartLsn(p) <= AvailableLsn(p)
    /\ propTerm[p] >= 1
    /\ \A i \in 1..(Len(propHist[p]) - 1) : Origin(p, i)
    /\ \A l \in 1..Len(propWal[p]) : propWal[p][l] = TermLsn(TermAt(propHist[p], l), l)

(* WAL w with history th is part of the log of a proposer of a term up to  *)
(* t.                                                                      *)
HasLog(th, w, t) ==
    \/ th = Root /\ w = <<>>
    \/ \E r \in Proposers :
         Elected(r) /\ th = propHist[r] /\ propTerm[r] <= t /\ Agree(w, propWal[r], Len(w) + 1)

SafekeeperLog(s) ==
    /\ HasLog(hist[s], wal[s], term[s])
    /\ flushLsn[s] <= Len(wal[s]) + 1
    /\ flushLsn[s] = 0 <=> hist[s] = <<>>

(* The same of WAL that is durable up to f, with its history cut there.    *)
HasDurable(th, w, f, t) ==
    /\ f <= Len(w) + 1
    /\ f = 0 <=> th = <<>>
    /\ \/ th = Root /\ f <= FirstLsn
       \/ \E r \in Proposers :
            /\ Elected(r) /\ th = propHist[r] /\ propTerm[r] <= t
            /\ PropTermStartLsn(r) <= f /\ Agree(w, propWal[r], f)

(* A vote, given to p in its term or refused in a term not below.          *)
VoteLog(p, v) ==
    /\ HasDurable(v.hist, v.wal, v.flush, v.term)
    /\ v.flush # 0 => v.flush = Len(v.wal) + 1
    /\ v.hist = <<>> => v.wal = <<>>
    /\ v.given => v.term = propTerm[p] /\ HighestTerm(v.hist) < propTerm[p]
    /\ ~v.given => v.term >= propTerm[p]

(* s follows p, or has gone on to a later term.                            *)
Follows(p, s) ==
    \/ term[s] > propTerm[p]
    \/ term[s] = propTerm[p] /\ hist[s] = propHist[p]

(* On each connection ProposerElected is handled before any WAL is.        *)
LinkLog(p, s) ==
    /\ rsp[p][s] # None =>
         /\ rsp[p][s].type = "vote" => VoteLog(p, rsp[p][s])
         /\ rsp[p][s].type = "ack" => Elected(p) /\ rsp[p][s].term >= propTerm[p]
         /\ wpState[p] # "COLLECTING_TERMS"
    /\ vote[p][s] # None => VoteLog(p, vote[p][s]) /\ vote[p][s].given
    /\ skState[p][s] = "ACTIVE" =>
         /\ streamingAt[p][s] <= AvailableLsn(p)
         /\ Follows(p, s) \/ \E j \in 1..Len(q["live"][p][s]) : q["live"][p][s][j].type = "elected"

ConnectionLog(k, p, s) ==
    /\ \A i \in 1..Len(q[k][p][s]) : q[k][p][s][i].type = "append" =>
         Follows(p, s) \/ \E j \in 1..(i - 1) : q[k][p][s][j].type = "elected"
    /\ dirty[k][p][s] => Elected(p) /\ Follows(p, s)

LogInv ==
    /\ \A p \in Proposers : Elected(p) => LeaderLog(p)
    /\ \A s \in Safekeepers : SafekeeperLog(s)
    /\ \A p \in Proposers, s \in Safekeepers : LinkLog(p, s)
    /\ \A k \in Chan, p \in Proposers, s \in Safekeepers : ConnectionLog(k, p, s)

-----------------------------------------------------------------------------
(* Operators.                                                              *)

(* A history is a sequence of terms and LSNs.                              *)
LEMMA HistoryType ==
    ASSUME NEW th \in TermHistories
    PROVE  /\ Len(th) \in Nat /\ (th = <<>> <=> Len(th) = 0)
           /\ \A i \in 1..Len(th) : /\ th[i].term \in Nat /\ th[i].lsn \in Nat
                                    /\ th[i].lsn >= 1 /\ th[i].lsn <= MaxLsn
<1> DEFINE L == 1..MaxLsn
           E == [term : Terms, lsn : L]
<1>1. th \in Seq(E)
  BY DEF TermHistories
<1>2. Len(th) \in Nat /\ (th = <<>> <=> Len(th) = 0)
  <2> HIDE DEF E
  <2> QED BY <1>1
<1>3. \A i \in 1..Len(th) : th[i].term \in Terms /\ th[i].lsn \in L
  <2> HIDE DEF L
  <2> QED BY <1>1, EntriesType
<1>4. ASSUME NEW i \in 1..Len(th)
      PROVE  th[i].term \in Nat /\ th[i].lsn \in Nat /\ th[i].lsn >= 1 /\ th[i].lsn <= MaxLsn
  <2>1. th[i].term \in Terms /\ th[i].lsn \in L
    BY <1>3
  <2> HIDE DEF E
  <2>2. th[i].term \in Nat
    BY <2>1, ConstantsType
  <2> QED BY <2>1, <2>2, ConstantsType
<1> QED BY <1>2, <1>4

(* UpTo keeps the entries up to the LSN and drops the others.              *)
LEMMA UpToEntries ==
    ASSUME NEW th \in TermHistories, NEW lsn \in Nat
    PROVE  \E n \in 0..Len(th) :
              /\ UpTo(th, lsn) \in TermHistories
              /\ Len(UpTo(th, lsn)) = n
              /\ \A i \in 1..n : UpTo(th, lsn)[i] = th[i] /\ th[i].lsn <= lsn
              /\ n < Len(th) => th[n + 1].lsn > lsn
              /\ HighestTerm(UpTo(th, lsn)) = IF n = 0 THEN 0 ELSE th[n].term
<1> DEFINE E == [term : Terms, lsn : 1..MaxLsn]
<1>1. th \in Seq(E) /\ \A e \in E : e.lsn \in Nat
  BY ConstantsType DEF TermHistories
<1> HIDE DEF E
<1>2. PICK n \in 0..Len(th) :
              /\ UpTo(th, lsn) = SubSeq(th, 1, n)
              /\ \A i \in 1..n : th[i].lsn <= lsn
              /\ n < Len(th) => th[n + 1].lsn > lsn
  BY <1>1, UpToIsPrefix
<1>3. /\ SubSeq(th, 1, n) \in Seq(E) /\ Len(SubSeq(th, 1, n)) = n
      /\ \A i \in 1..n : SubSeq(th, 1, n)[i] = th[i]
      /\ n \in Nat /\ (SubSeq(th, 1, n) = <<>> <=> n = 0)
  BY <1>1
<1>4. HighestTerm(SubSeq(th, 1, n)) = IF n = 0 THEN 0 ELSE th[n].term
  BY <1>3 DEF HighestTerm
<1> QED BY <1>2, <1>3, <1>4 DEF TermHistories, E

(* LastCommonIdx is the end of the common terms, and no further is common. *)
LEMMA LastCommonEntries ==
    ASSUME NEW a \in TermHistories, NEW b \in TermHistories
    PROVE  /\ LastCommonIdx(a, b) \in 0..Len(a)
           /\ LastCommonIdx(a, b) \in 0..Len(b)
           /\ \A i \in 1..LastCommonIdx(a, b) : a[i].term = b[i].term
           /\ LastCommonIdx(a, b) < Len(a) /\ LastCommonIdx(a, b) < Len(b) =>
                a[LastCommonIdx(a, b) + 1].term # b[LastCommonIdx(a, b) + 1].term
BY LastCommonIdxType DEF TermHistories

(* Agreement of logs is symmetric ...                                      *)
LEMMA AgreeSymmetric == ASSUME NEW u, NEW v, NEW l, Agree(u, v, l) PROVE Agree(v, u, l)
BY DEF Agree

(* ... and transitive.                                                     *)
LEMMA AgreeTransitive ==
    ASSUME NEW u, NEW v, NEW w, NEW l, Agree(u, v, l), Agree(v, w, l)
    PROVE  Agree(u, w, l)
BY DEF Agree

(* What agrees up to l agrees below.                                       *)
LEMMA AgreeBelow ==
    ASSUME NEW u, NEW v, NEW l \in Nat, NEW m \in Nat, Len(u) \in Nat, Len(v) \in Nat,
           Agree(u, v, l), m <= l
    PROVE  Agree(u, v, m)
BY DEF Agree

(* Where the cut is.                                                       *)
LEMMA UpToIs ==
    ASSUME NEW th \in TermHistories, NEW lsn \in Nat, NEW n \in 0..Len(th),
           \A i \in 1..n : th[i].lsn <= lsn,
           n < Len(th) => th[n + 1].lsn > lsn
    PROVE  /\ Len(UpTo(th, lsn)) = n
           /\ \A i \in 1..n : UpTo(th, lsn)[i] = th[i]
           /\ TermAt(th, lsn) = IF n = 0 THEN 0 ELSE th[n].term
<1>1. PICK m \in 0..Len(th) :
              /\ UpTo(th, lsn) \in TermHistories
              /\ Len(UpTo(th, lsn)) = m
              /\ \A i \in 1..m : UpTo(th, lsn)[i] = th[i] /\ th[i].lsn <= lsn
              /\ m < Len(th) => th[m + 1].lsn > lsn
              /\ HighestTerm(UpTo(th, lsn)) = IF m = 0 THEN 0 ELSE th[m].term
  BY UpToEntries
<1>2. Len(th) \in Nat /\ \A i \in 1..Len(th) : th[i].lsn \in Nat
  BY HistoryType
<1>3. ~(m < n)
  <2> SUFFICES ASSUME m < n PROVE FALSE
    OBVIOUS
  <2>1. m + 1 \in 1..n /\ m < Len(th) /\ m + 1 \in 1..Len(th)
    BY <1>2
  <2> QED BY <1>1, <1>2, <2>1
<1>4. ~(n < m)
  <2> SUFFICES ASSUME n < m PROVE FALSE
    OBVIOUS
  <2>1. n + 1 \in 1..m /\ n < Len(th) /\ n + 1 \in 1..Len(th)
    BY <1>2
  <2> QED BY <1>1, <1>2, <2>1
<1>5. m = n
  BY <1>2, <1>3, <1>4
<1> QED BY <1>1, <1>5 DEF TermAt

(* A history is determined by its entries.                                 *)
LEMMA SameHistory ==
    ASSUME NEW a \in TermHistories, NEW b \in TermHistories, Len(a) = Len(b),
           \A i \in 1..Len(a) : a[i] = b[i]
    PROVE  a = b
<1> DEFINE E == [term : Terms, lsn : 1..MaxLsn]
<1>1. a \in Seq(E) /\ b \in Seq(E)
  BY DEF TermHistories
<1> HIDE DEF E
<1> QED BY <1>1, SeqEqual

(* A history with one more term.                                           *)
LEMMA AppendHistory ==
    ASSUME NEW a \in TermHistories, NEW e
    PROVE  /\ Len(Append(a, e)) = Len(a) + 1
           /\ Append(a, e)[Len(a) + 1] = e
           /\ \A i \in 1..Len(a) : Append(a, e)[i] = a[i]
BY DEF TermHistories

(* Terms and LSNs of a history grow.                                       *)
LEMMA AscendingFacts ==
    ASSUME NEW th \in TermHistories, Ascending(th), NEW i \in 1..Len(th), NEW j \in 1..Len(th), i <= j
    PROVE  /\ th[i].term <= th[j].term /\ th[i].lsn <= th[j].lsn
           /\ i < j => th[i].term < th[j].term
<1>1. /\ Len(th) \in Nat /\ th[i].term \in Nat /\ th[j].term \in Nat
      /\ th[i].lsn \in Nat /\ th[j].lsn \in Nat
  BY HistoryType
<1>2. CASE i = j
  BY <1>1, <1>2
<1>3. CASE i < j
  <2>1. th[i].lsn <= th[j].lsn /\ th[i].term < th[j].term
    BY <1>3 DEF Ascending
  <2> QED BY <1>1, <2>1
<1> QED BY <1>1, <1>2, <1>3

(* Logs that grow.                                                         *)
Extended(v, w) == Len(v) <= Len(w) /\ \A x \in 1..Len(v) : w[x] = v[x]

(* Agreement outlives growth.                                              *)
LEMMA AgreeGrows ==
    ASSUME NEW u, NEW v, NEW u2, NEW v2, NEW l \in Nat,
           Len(u) \in Nat, Len(v) \in Nat, Len(u2) \in Nat, Len(v2) \in Nat,
           Agree(u, v, l), Extended(u, u2), Extended(v, v2)
    PROVE  Agree(u2, v2, l) /\ Agree(u, v2, l)
<1>1. l <= Len(u) + 1 /\ l <= Len(v) + 1 /\ l <= Len(u2) + 1 /\ l <= Len(v2) + 1
  BY DEF Agree, Extended
<1>2. ASSUME NEW x \in 1..(l - 1)
      PROVE  u[x] = v[x] /\ u2[x] = u[x] /\ v2[x] = v[x]
  <2>1. x \in 1..Len(u) /\ x \in 1..Len(v)
    BY <1>1
  <2> QED BY <2>1 DEF Agree, Extended
<1> QED BY <1>1, <1>2 DEF Agree

-----------------------------------------------------------------------------
(* Leaders.                                                                *)

Leaders == \A p \in Proposers : Elected(p) => LeaderLog(p)

(* Types, in the form the arguments below need them.                       *)
LEMMA LogTypes ==
    ASSUME TypeInv
    PROVE  /\ \A p \in Proposers :
                /\ propHist[p] \in TermHistories /\ propWal[p] \in Logs /\ propTerm[p] \in Nat
                /\ Len(propWal[p]) \in Nat /\ AvailableLsn(p) = Len(propWal[p]) + 1
           /\ \A s \in Safekeepers :
                /\ hist[s] \in TermHistories /\ wal[s] \in Logs /\ term[s] \in Nat
                /\ flushLsn[s] \in Nat /\ Len(wal[s]) \in Nat
BY ConstantsType, LogLength DEF TypeInv, TypeOK, WpTypeOK, SkTypeOK, AvailableLsn

(* The history of a leader ends with its own term.                         *)
LEMMA LeaderFacts ==
    ASSUME TypeInv, NEW p \in Proposers, Elected(p)
    PROVE  /\ Len(propHist[p]) \in Nat /\ Len(propHist[p]) >= 1
           /\ propHist[p][Len(propHist[p])].term = propTerm[p]
           /\ PropTermStartLsn(p) = propHist[p][Len(propHist[p])].lsn
           /\ PropTermStartLsn(p) \in Nat
           /\ \A i \in 1..Len(propHist[p]) :
                propHist[p][i].term \in Nat /\ propHist[p][i].lsn \in Nat /\ propHist[p][i].lsn >= 1
<1>1. propHist[p] \in TermHistories /\ propHist[p] # <<>>
  BY LogTypes DEF Elected
<1>2. /\ Len(propHist[p]) \in Nat /\ Len(propHist[p]) >= 1
      /\ \A i \in 1..Len(propHist[p]) :
                propHist[p][i].term \in Nat /\ propHist[p][i].lsn \in Nat /\ propHist[p][i].lsn >= 1
  BY <1>1, HistoryType
<1>3. HighestTerm(propHist[p]) = propTerm[p]
  BY DEF TypeInv, SupportInv, ProposerOK, Elected
<1>4. Len(propHist[p]) \in 1..Len(propHist[p])
  BY <1>2
<1> QED BY <1>1, <1>2, <1>3, <1>4 DEF HighestTerm, PropTermStartLsn

(* The root history.                                                       *)
LEMMA RootFacts ==
    /\ Root \in TermHistories
    /\ \/ Root = <<>> /\ Len(Root) = 0
       \/ Root # <<>> /\ Len(Root) = 1 /\ Root[1].term = 0 /\ Root[1].lsn = FirstLsn
<1>1. TermLsn(0, FirstLsn) \in [term : Terms, lsn : 1..MaxLsn]
  BY ConstantsType DEF TermLsn
<1>2. TermLsn(0, FirstLsn).term = 0 /\ TermLsn(0, FirstLsn).lsn = FirstLsn
  BY DEF TermLsn
<1>3. CASE CreatedWithLsn
  <2> DEFINE e == TermLsn(0, FirstLsn)
  <2>1. Root = <<e>>
    BY <1>3 DEF Root
  <2>2. <<e>> \in TermHistories
    BY <1>1 DEF TermHistories
  <2> HIDE DEF e
  <2>3. Len(<<e>>) = 1 /\ <<e>>[1] = e /\ <<e>> # <<>>
    OBVIOUS
  <2> QED BY <1>2, <2>1, <2>2, <2>3 DEF e
<1>4. CASE ~CreatedWithLsn
  BY <1>4 DEF Root, TermHistories
<1> QED BY <1>3, <1>4

(* Where the first i terms of p end in its WAL.                            *)
LogEnd(p, i) == IF i < Len(propHist[p]) THEN propHist[p][i + 1].lsn ELSE AvailableLsn(p)

(* Every beginning of a leader's history is that of a leader, or the root. *)
LEMMA EveryOrigin ==
    ASSUME TypeInv, Leaders, NEW p \in Proposers, Elected(p), NEW i \in 1..Len(propHist[p])
    PROVE  /\ LogEnd(p, i) \in Nat /\ LogEnd(p, i) <= AvailableLsn(p)
           /\ \/ /\ BeginsWith(propHist[p], i, Root) /\ LogEnd(p, i) = FirstLsn
                 /\ i < Len(propHist[p])
              \/ \E r \in Proposers : /\ Elected(r) /\ BeginsWith(propHist[p], i, propHist[r])
                                      /\ Agree(propWal[p], propWal[r], LogEnd(p, i))
<1>1. /\ LeaderLog(p) /\ Len(propHist[p]) \in Nat /\ Len(propWal[p]) \in Nat
      /\ AvailableLsn(p) = Len(propWal[p]) + 1
      /\ PropTermStartLsn(p) = propHist[p][Len(propHist[p])].lsn
      /\ \A j \in 1..Len(propHist[p]) : propHist[p][j].lsn \in Nat
  BY LeaderFacts, LogTypes DEF Leaders
<1>2. CASE i < Len(propHist[p])
  <2>1. i + 1 \in 1..Len(propHist[p]) /\ i \in 1..(Len(propHist[p]) - 1) /\ Len(propHist[p]) \in 1..Len(propHist[p])
    BY <1>1, <1>2
  <2>2. LogEnd(p, i) = propHist[p][i + 1].lsn
    BY <1>2 DEF LogEnd
  <2>3. propHist[p][i + 1].lsn <= propHist[p][Len(propHist[p])].lsn
    BY <1>1, <2>1 DEF LeaderLog, Ascending
  <2>4. LogEnd(p, i) \in Nat /\ LogEnd(p, i) <= AvailableLsn(p)
    <3>1. PropTermStartLsn(p) <= AvailableLsn(p)
      BY <1>1 DEF LeaderLog
    <3>2. propHist[p][i + 1].lsn \in Nat /\ propHist[p][Len(propHist[p])].lsn \in Nat
      BY <1>1, <2>1
    <3>3. LogEnd(p, i) \in Nat /\ LogEnd(p, i) <= PropTermStartLsn(p) /\ PropTermStartLsn(p) \in Nat
      BY <1>1, <2>2, <2>3, <3>2
    <3>4. AvailableLsn(p) \in Nat
      BY <1>1
    <3> QED BY <3>1, <3>3, <3>4
  <2>5. Origin(p, i)
    BY <1>1, <2>1 DEF LeaderLog
  <2> QED BY <1>2, <2>2, <2>4, <2>5 DEF Origin
<1>3. CASE ~(i < Len(propHist[p]))
  <2>1. i = Len(propHist[p]) /\ LogEnd(p, i) = AvailableLsn(p)
    BY <1>1, <1>3 DEF LogEnd
  <2>2. BeginsWith(propHist[p], i, propHist[p]) /\ Agree(propWal[p], propWal[p], LogEnd(p, i))
    BY <1>1, <2>1 DEF BeginsWith, Agree
  <2> QED BY <1>1, <2>1, <2>2
<1> QED BY <1>2, <1>3

(* Two leaders of one term are one.                                        *)
LEMMA SameLeader ==
    ASSUME TypeInv, VotesInv, NEW p \in Proposers, NEW r \in Proposers, Elected(p), Elected(r),
           propTerm[p] = propTerm[r]
    PROVE  p = r
BY VotesElectOne DEF OneLeaderPerTerm, Elected

(* Histories with a common term have everything up to it in common, and so *)
(* have their WALs up to where one of them begins its next term.           *)
LEMMA CommonHistory ==
    ASSUME TypeInv, VotesInv, Leaders, NEW p \in Proposers, NEW r \in Proposers,
           Elected(p), Elected(r), NEW i \in 1..Len(propHist[p]), i \in 1..Len(propHist[r]),
           propHist[p][i].term = propHist[r][i].term
    PROVE  /\ \A j \in 1..i : propHist[p][j] = propHist[r][j]
           /\ \A l \in Nat : l <= LogEnd(p, i) /\ l <= LogEnd(r, i)
                               => Agree(propWal[p], propWal[r], l)
<1>1. /\ Len(propWal[p]) \in Nat /\ Len(propWal[r]) \in Nat
      /\ LogEnd(p, i) \in Nat /\ LogEnd(p, i) <= AvailableLsn(p)
      /\ LogEnd(r, i) \in Nat /\ LogEnd(r, i) <= AvailableLsn(r)
      /\ AvailableLsn(p) = Len(propWal[p]) + 1 /\ AvailableLsn(r) = Len(propWal[r]) + 1
  BY LogTypes, EveryOrigin
<1>2. ASSUME NEW x \in Proposers, Elected(x), NEW y \in Proposers, Elected(y),
             i \in 1..Len(propHist[x]), BeginsWith(propHist[x], i, propHist[y])
      PROVE  /\ propHist[x][i].term = propTerm[y] /\ propTerm[y] >= 1
             /\ \A j \in 1..i : propHist[x][j] = propHist[y][j]
  <2>1. i = Len(propHist[y]) /\ \A j \in 1..i : propHist[x][j] = propHist[y][j]
    BY <1>2 DEF BeginsWith
  <2>2. propHist[y][Len(propHist[y])].term = propTerm[y] /\ i \in 1..i
    BY <1>2, <2>1, LeaderFacts
  <2>3. propTerm[y] >= 1
    BY <1>2 DEF Leaders, LeaderLog
  <2> QED BY <2>1, <2>2, <2>3
<1>3. ASSUME NEW x \in Proposers, Elected(x), BeginsWith(propHist[x], i, Root)
      PROVE  /\ propHist[x][i].term = 0
             /\ \A j \in 1..i : propHist[x][j] = Root[j]
  BY <1>3, RootFacts DEF BeginsWith
<1>4. CASE BeginsWith(propHist[p], i, Root) /\ LogEnd(p, i) = FirstLsn
  <2>1. propHist[p][i].term = 0 /\ \A j \in 1..i : propHist[p][j] = Root[j]
    BY <1>3, <1>4
  <2>2. BeginsWith(propHist[r], i, Root)
    <3>1. ASSUME NEW y \in Proposers, Elected(y), BeginsWith(propHist[r], i, propHist[y])
          PROVE  FALSE
      <4>1. propHist[r][i].term = propTerm[y] /\ propTerm[y] >= 1
        BY <1>2, <3>1
      <4>2. propTerm[y] = 0 /\ propTerm[y] \in Nat
        BY <2>1, <4>1, LogTypes
      <4> QED BY <4>1, <4>2
    <3> QED BY <3>1, EveryOrigin
  <2>3. \A j \in 1..i : propHist[r][j] = Root[j]
    BY <1>3, <2>2
  <2>4. \A l \in Nat : l <= FirstLsn => Agree(propWal[p], propWal[r], l)
    BY <1>1 DEF Agree, FirstLsn
  <2> QED BY <1>4, <2>1, <2>3, <2>4
<1>5. CASE \E y \in Proposers : /\ Elected(y) /\ BeginsWith(propHist[p], i, propHist[y])
                                /\ Agree(propWal[p], propWal[y], LogEnd(p, i))
  <2>1. PICK y \in Proposers : /\ Elected(y) /\ BeginsWith(propHist[p], i, propHist[y])
                               /\ Agree(propWal[p], propWal[y], LogEnd(p, i))
    BY <1>5
  <2>2. /\ propHist[p][i].term = propTerm[y] /\ propTerm[y] >= 1
        /\ \A j \in 1..i : propHist[p][j] = propHist[y][j]
    BY <1>2, <2>1
  <2>3. \E z \in Proposers : /\ Elected(z) /\ BeginsWith(propHist[r], i, propHist[z])
                             /\ Agree(propWal[r], propWal[z], LogEnd(r, i))
    <3>1. ASSUME BeginsWith(propHist[r], i, Root) PROVE FALSE
      <4>1. propHist[r][i].term = 0
        BY <1>3, <3>1
      <4>2. propTerm[y] = 0 /\ propTerm[y] \in Nat
        BY <2>2, <4>1, LogTypes
      <4> QED BY <2>2, <4>2
    <3> QED BY <3>1, EveryOrigin
  <2>4. PICK z \in Proposers : /\ Elected(z) /\ BeginsWith(propHist[r], i, propHist[z])
                               /\ Agree(propWal[r], propWal[z], LogEnd(r, i))
    BY <2>3
  <2>5. /\ propHist[r][i].term = propTerm[z]
        /\ \A j \in 1..i : propHist[r][j] = propHist[z][j]
    BY <1>2, <2>4
  <2>6. z = y
    BY <2>1, <2>2, <2>4, <2>5, SameLeader
  <2>7. ASSUME NEW l \in Nat, l <= LogEnd(p, i), l <= LogEnd(r, i)
        PROVE  Agree(propWal[p], propWal[r], l)
    <3>1. Len(propWal[y]) \in Nat
      BY LogTypes
    <3>2. Agree(propWal[p], propWal[y], l) /\ Agree(propWal[r], propWal[y], l)
      BY <1>1, <2>1, <2>4, <2>6, <2>7, <3>1, AgreeBelow
    <3> QED BY <3>2, AgreeSymmetric, AgreeTransitive
  <2> QED BY <2>2, <2>5, <2>6, <2>7
<1> QED BY <1>4, <1>5, EveryOrigin

-----------------------------------------------------------------------------
(* Safekeepers.                                                            *)

(* Cutting the history at the end f of the durable WAL leaves the history  *)
(* of a leader that wrote it.                                              *)
LEMMA DurableLog ==
    ASSUME TypeInv, Leaders, NEW th \in TermHistories, NEW w, Len(w) \in Nat,
           NEW f \in Nat, NEW t \in Nat,
           HasLog(th, w, t), f <= Len(w) + 1, f = 0 <=> th = <<>>
    PROVE  HasDurable(UpTo(th, f), w, f, t) /\ UpTo(th, f) \in TermHistories
<1>1. PICK n \in 0..Len(th) :
              /\ UpTo(th, f) \in TermHistories
              /\ Len(UpTo(th, f)) = n
              /\ \A i \in 1..n : UpTo(th, f)[i] = th[i] /\ th[i].lsn <= f
              /\ n < Len(th) => th[n + 1].lsn > f
              /\ HighestTerm(UpTo(th, f)) = IF n = 0 THEN 0 ELSE th[n].term
  BY UpToEntries
<1>2. /\ Len(th) \in Nat /\ (th = <<>> <=> Len(th) = 0)
      /\ (UpTo(th, f) = <<>> <=> n = 0)
  BY <1>1, HistoryType
<1>3. CASE th = Root /\ w = <<>>
  <2>1. f <= FirstLsn /\ (th # <<>> => Len(th) = 1 /\ th[1].lsn = FirstLsn)
    BY <1>3, RootFacts DEF FirstLsn
  <2>2. n = Len(th)
    <3>1. CASE th = <<>>
      BY <1>2, <3>1
    <3>2. CASE th # <<>>
      <4>1. f = FirstLsn
        BY <2>1, <3>2 DEF FirstLsn
      <4>2. n # 0
        BY <1>1, <2>1, <3>2, <4>1 DEF FirstLsn
      <4>3. Len(th) = 1
        BY <2>1, <3>2
      <4>4. n \in 0..1
        BY <4>3
      <4> QED BY <4>2, <4>3, <4>4
    <3> QED BY <3>1, <3>2
  <2>3. UpTo(th, f) = th
    BY <1>1, <2>2, SameHistory
  <2> QED BY <1>1, <1>3, <2>1, <2>3 DEF HasDurable
<1>4. CASE \E r \in Proposers :
             Elected(r) /\ th = propHist[r] /\ propTerm[r] <= t /\ Agree(w, propWal[r], Len(w) + 1)
  <2>1. PICK r \in Proposers :
             Elected(r) /\ th = propHist[r] /\ propTerm[r] <= t /\ Agree(w, propWal[r], Len(w) + 1)
    BY <1>4
  <2>2. /\ Len(propHist[r]) >= 1 /\ th[Len(th)].term = propTerm[r] /\ propTerm[r] \in Nat
        /\ LeaderLog(r) /\ Len(propWal[r]) \in Nat /\ AvailableLsn(r) = Len(propWal[r]) + 1
        /\ \A i \in 1..Len(th) : th[i].term \in Nat /\ th[i].lsn \in Nat
    BY <2>1, LeaderFacts, LogTypes DEF Leaders
  <2>3. f >= 1 /\ f <= AvailableLsn(r)
    BY <1>2, <2>1, <2>2 DEF Agree
  <2>4. n \in 1..Len(th)
    <3>1. th[1].lsn = FirstLsn
      BY <2>1, <2>2 DEF LeaderLog
    <3> QED BY <1>1, <1>2, <2>1, <2>2, <2>3, <3>1 DEF FirstLsn
  <2>5. f <= LogEnd(r, n) /\ (n < Len(th) => f < LogEnd(r, n))
    <3>1. CASE n < Len(th)
      <4>1. n + 1 \in 1..Len(th)
        BY <1>2, <3>1
      <4> QED BY <1>1, <2>1, <2>2, <3>1, <4>1 DEF LogEnd
    <3>2. CASE ~(n < Len(th))
      BY <2>1, <2>3, <3>2 DEF LogEnd
    <3> QED BY <3>1, <3>2
  <2>6. /\ LogEnd(r, n) \in Nat
        /\ \E x \in Proposers : /\ Elected(x) /\ BeginsWith(propHist[r], n, propHist[x])
                                /\ Agree(propWal[r], propWal[x], LogEnd(r, n))
    <3>1. LogEnd(r, n) \in Nat
      BY <2>1, <2>4, EveryOrigin
    <3>2. ~(LogEnd(r, n) = FirstLsn /\ n < Len(propHist[r]))
      BY <2>1, <2>3, <2>5, <3>1 DEF FirstLsn
    <3> QED BY <2>1, <2>4, <3>1, <3>2, EveryOrigin
  <2>7. PICK x \in Proposers : /\ Elected(x) /\ BeginsWith(propHist[r], n, propHist[x])
                               /\ Agree(propWal[r], propWal[x], LogEnd(r, n))
    BY <2>6
  <2>8. /\ propHist[x] \in TermHistories /\ Len(propWal[x]) \in Nat /\ propTerm[x] \in Nat
        /\ propHist[x][Len(propHist[x])].term = propTerm[x]
        /\ PropTermStartLsn(x) = propHist[x][Len(propHist[x])].lsn
    BY <2>7, LeaderFacts, LogTypes
  <2>9. n = Len(propHist[x]) /\ \A j \in 1..n : th[j] = propHist[x][j]
    BY <2>1, <2>7 DEF BeginsWith
  <2>10. UpTo(th, f) = propHist[x]
    <3> DEFINE u == UpTo(th, f)
    <3>1. u \in TermHistories /\ Len(u) = n /\ \A j \in 1..n : u[j] = th[j]
      BY <1>1
    <3> HIDE DEF u
    <3>2. u \in TermHistories /\ Len(u) = Len(propHist[x]) /\ \A j \in 1..Len(u) : u[j] = propHist[x][j]
      BY <2>9, <3>1
    <3>3. u = propHist[x]
      BY <2>8, <3>2, SameHistory
    <3> QED BY <3>3 DEF u
  <2>11. propTerm[x] = th[n].term /\ PropTermStartLsn(x) = th[n].lsn
    <3>1. n \in 1..n
      BY <2>4
    <3>2. th[n] = propHist[x][n]
      BY <2>9, <3>1
    <3> QED BY <2>8, <2>9, <3>2
  <2>12. propTerm[x] <= t /\ PropTermStartLsn(x) <= f
    <3>1. th[n].term <= th[Len(th)].term
      <4>1. Ascending(th)
        BY <2>1, <2>2 DEF LeaderLog
      <4>2. Len(th) \in 1..Len(th) /\ n <= Len(th)
        BY <1>2, <2>4
      <4> QED BY <2>4, <4>1, <4>2, AscendingFacts
    <3>2. th[n].term \in Nat /\ th[n].lsn \in Nat /\ th[n].lsn <= f
      BY <1>1, <2>2, <2>4
    <3> QED BY <2>1, <2>2, <2>11, <3>1, <3>2
  <2>13. Agree(w, propWal[x], f)
    <3>1. Agree(w, propWal[r], f) /\ Agree(propWal[r], propWal[x], f)
      <4>1. Agree(w, propWal[r], f)
        BY <2>1, <2>2, AgreeBelow
      <4> QED BY <2>2, <2>5, <2>6, <2>7, <2>8, <4>1, AgreeBelow
    <3> QED BY <3>1, AgreeTransitive
  <2>14. UpTo(th, f) # <<>>
    BY <1>2, <2>4
  <2> QED BY <1>1, <2>3, <2>7, <2>10, <2>12, <2>13, <2>14 DEF HasDurable
<1> QED BY <1>3, <1>4 DEF HasLog

(* What is durable was written in a term up to t.                          *)
LEMMA DurableTerm ==
    ASSUME TypeInv, NEW th \in TermHistories, NEW w, NEW f, NEW t \in Nat, HasDurable(th, w, f, t)
    PROVE  HighestTerm(th) \in Nat /\ HighestTerm(th) <= t
<1>1. CASE th = Root
  BY <1>1, RootFacts DEF HighestTerm
<1>2. CASE \E r \in Proposers : Elected(r) /\ th = propHist[r] /\ propTerm[r] <= t
  <2>1. PICK r \in Proposers : Elected(r) /\ th = propHist[r] /\ propTerm[r] <= t
    BY <1>2
  <2> QED BY <2>1, LeaderFacts, LogTypes DEF HighestTerm, Elected
<1> QED BY <1>1, <1>2 DEF HasDurable

(* A safekeeper that gets ProposerElected and does not refuse it has the   *)
(* same WAL as the proposer below the point it starts at.                  *)
LEMMA CommonPoint ==
    ASSUME TypeInv, VotesInv, Leaders, NEW p \in Proposers, NEW s \in Safekeepers,
           SafekeeperLog(s), Elected(p), term[s] <= propTerm[p],
           NEW start \in Nat, start = ExpectedStart(p, s),
           ~(WriteLsn(s) # 0 /\ start > WriteLsn(s))
    PROVE  start <= Len(wal[s]) + 1 /\ Agree(wal[s], propWal[p], start)
<1> DEFINE ph == propHist[p]
           f == flushLsn[s]
           sth == UpTo(hist[s], f)
           idx == LastCommonIdx(ph, sth)
<1>1. /\ hist[s] \in TermHistories /\ Len(wal[s]) \in Nat /\ term[s] \in Nat /\ f \in Nat
      /\ ph \in TermHistories /\ Len(propWal[p]) \in Nat /\ propTerm[p] \in Nat
      /\ Len(ph) \in Nat /\ Len(ph) >= 1 /\ ph[Len(ph)].term = propTerm[p]
      /\ LeaderLog(p) /\ AvailableLsn(p) = Len(propWal[p]) + 1
      /\ \A i \in 1..Len(ph) : ph[i].lsn \in Nat /\ ph[i].lsn >= 1
  BY LogTypes, LeaderFacts DEF Leaders
<1>2. ph[1].lsn = FirstLsn
  BY <1>1 DEF LeaderLog
<1>3. PICK n \in 0..Len(hist[s]) :
              /\ sth \in TermHistories
              /\ Len(sth) = n
              /\ \A i \in 1..n : sth[i] = hist[s][i] /\ hist[s][i].lsn <= f
              /\ n < Len(hist[s]) => hist[s][n + 1].lsn > f
  <2>1. hist[s] \in TermHistories /\ f \in Nat
    BY <1>1
  <2> HIDE DEF f
  <2> QED BY <2>1, UpToEntries
<1> HIDE DEF f, sth, ph
<1>4. /\ idx \in 0..Len(ph) /\ idx \in 0..n
      /\ \A i \in 1..idx : ph[i].term = sth[i].term
  BY <1>1, <1>3, LastCommonEntries
<1> HIDE DEF idx
<1>5. CASE idx = 0
  <2>1. start = FirstLsn
    BY <1>2, <1>5 DEF ExpectedStart, FindHighestCommonPoint, ph, idx, sth, f
  <2> QED BY <1>1, <2>1 DEF FirstLsn, Agree
<1>6. CASE idx # 0
  <2>1. /\ idx \in 1..Len(ph) /\ idx \in 1..n /\ n >= 1 /\ Len(hist[s]) \in Nat
        /\ idx \in 1..Len(hist[s]) /\ hist[s] # <<>>
        /\ \A i \in 1..Len(hist[s]) : hist[s][i].lsn \in Nat /\ hist[s][i].lsn >= 1
    BY <1>1, <1>4, <1>6, HistoryType
  <2>2. f # 0 /\ f >= 1 /\ f <= Len(wal[s]) + 1
    BY <1>1, <2>1 DEF SafekeeperLog, f
  <2>3. WriteLsn(s) = Len(wal[s]) + 1
    BY <2>2 DEF WriteLsn, f
  <2>4. start <= Len(wal[s]) + 1
    BY <1>1, <2>3
  <2> DEFINE next == IF idx < n THEN hist[s][idx + 1].lsn ELSE f
  <2>5. next \in Nat /\ next >= 1
    <3>1. CASE idx < n
      <4>1. idx + 1 \in 1..Len(hist[s])
        BY <2>1, <3>1
      <4> QED BY <2>1, <3>1, <4>1
    <3>2. CASE ~(idx < n)
      BY <1>1, <2>2, <3>2
    <3> QED BY <3>1, <3>2
  <2>6. idx < n => sth[idx + 1].lsn = next
    BY <1>3, <2>1
  <2> HIDE DEF next
  <2>7. start = IF idx = Len(ph) THEN f ELSE Lower(ph[idx + 1].lsn, next)
    <3>1. FindHighestCommonPoint(ph, sth, f) = IF idx = Len(ph) THEN f ELSE Lower(ph[idx + 1].lsn, next)
      <4>1. (IF idx < Len(sth) THEN sth[idx + 1].lsn ELSE f) = next
        BY <1>3, <2>6 DEF next
      <4> QED BY <1>6, <4>1 DEF FindHighestCommonPoint, idx
    <3>2. FindHighestCommonPoint(ph, sth, f) # 0
      <4>1. CASE idx = Len(ph)
        BY <2>2, <3>1, <4>1
      <4>2. CASE idx # Len(ph)
        <5>1. idx + 1 \in 1..Len(ph)
          BY <1>1, <2>1, <4>2
        <5>2. ph[idx + 1].lsn \in Nat /\ ph[idx + 1].lsn >= 1
          BY <1>1, <5>1
        <5> QED BY <2>5, <3>1, <4>2, <5>2 DEF Lower
      <4> QED BY <4>1, <4>2
    <3> QED BY <3>1, <3>2 DEF ExpectedStart, ph, sth, f
  <2>8. CASE hist[s] = Root /\ wal[s] = <<>>
    BY <1>1, <2>4, <2>8 DEF Agree
  <2>9. CASE \E r \in Proposers :
               /\ Elected(r) /\ hist[s] = propHist[r] /\ propTerm[r] <= term[s]
               /\ Agree(wal[s], propWal[r], Len(wal[s]) + 1)
    <3>1. PICK r \in Proposers :
               /\ Elected(r) /\ hist[s] = propHist[r] /\ propTerm[r] <= term[s]
               /\ Agree(wal[s], propWal[r], Len(wal[s]) + 1)
      BY <2>9
    <3>2. /\ Len(propWal[r]) \in Nat /\ AvailableLsn(r) = Len(propWal[r]) + 1 /\ LeaderLog(r)
          /\ propHist[r][Len(propHist[r])].term = propTerm[r] /\ propTerm[r] \in Nat
      BY <3>1, LogTypes, LeaderFacts DEF Leaders
    <3>3. propHist[p][idx].term = propHist[r][idx].term
      <4>1. ph[idx].term = sth[idx].term /\ sth[idx] = hist[s][idx]
        BY <1>3, <1>4, <2>1
      <4> QED BY <3>1, <4>1 DEF ph
    <3>4. idx \in 1..Len(propHist[p]) /\ idx \in 1..Len(propHist[r])
      BY <2>1, <3>1 DEF ph
    <3>5. Agree(propWal[r], propWal[p], start)
      <4>1. CASE idx = Len(ph)
        <5>1. propHist[r][idx].term = propTerm[p]
          BY <1>1, <3>3, <4>1 DEF ph
        <5>2. propHist[r][idx].term <= propTerm[r]
          <6>1. Ascending(propHist[r]) /\ propHist[r] \in TermHistories
                /\ Len(propHist[r]) \in 1..Len(propHist[r]) /\ idx <= Len(propHist[r])
            BY <1>1, <2>1, <3>1, <3>2, <3>4 DEF LeaderLog
          <6> QED BY <3>2, <3>4, <6>1, AscendingFacts
        <5>3. p = r
          <6>1. propTerm[p] = propTerm[r] /\ Elected(p) /\ Elected(r)
            BY <1>1, <3>1, <3>2, <5>1, <5>2
          <6> QED BY <6>1, SameLeader
        <5>4. start <= Len(wal[s]) + 1 /\ Len(wal[s]) + 1 <= Len(propWal[r]) + 1
          BY <2>4, <3>1 DEF Agree
        <5> QED BY <1>1, <5>3, <5>4 DEF Agree
      <4>2. CASE idx # Len(ph)
        <5>1. idx + 1 \in 1..Len(ph) /\ idx < Len(ph)
          BY <1>1, <2>1, <4>2
        <5>2. ph[idx + 1].lsn \in Nat
          BY <1>1, <5>1
        <5>3. start <= ph[idx + 1].lsn /\ start <= next
          BY <2>5, <2>7, <4>2, <5>2 DEF Lower
        <5>4. start <= LogEnd(p, idx)
          BY <5>1, <5>3 DEF LogEnd, ph
        <5>5. start <= LogEnd(r, idx)
          <6>1. CASE idx < n
            <7>1. idx < Len(propHist[r]) /\ next = propHist[r][idx + 1].lsn
              BY <2>1, <3>1, <6>1 DEF next
            <7> QED BY <5>3, <7>1 DEF LogEnd
          <6>2. CASE ~(idx < n) /\ n < Len(hist[s])
            <7>1. idx = n /\ next = f /\ n + 1 \in 1..Len(hist[s])
              BY <1>4, <2>1, <6>2 DEF next
            <7>2. LogEnd(r, idx) = hist[s][n + 1].lsn /\ hist[s][n + 1].lsn > f
              BY <1>3, <3>1, <6>2, <7>1 DEF LogEnd
            <7>3. hist[s][n + 1].lsn \in Nat
              BY <2>1, <7>1
            <7> QED BY <1>1, <5>3, <7>1, <7>2, <7>3
          <6>3. CASE ~(idx < n) /\ ~(n < Len(hist[s]))
            <7>1. LogEnd(r, idx) = Len(propWal[r]) + 1
              BY <1>4, <2>1, <3>1, <3>2, <6>3 DEF LogEnd
            <7>2. Len(wal[s]) + 1 <= Len(propWal[r]) + 1
              BY <3>1 DEF Agree
            <7> QED BY <1>1, <2>4, <3>2, <7>1, <7>2
          <6> QED BY <6>1, <6>2, <6>3
        <5>6. Agree(propWal[p], propWal[r], start)
          BY <3>1, <3>3, <3>4, <5>4, <5>5, CommonHistory
        <5> QED BY <5>6, AgreeSymmetric
      <4> QED BY <4>1, <4>2
    <3>6. Agree(wal[s], propWal[r], start)
      BY <1>1, <2>4, <3>1, <3>2, AgreeBelow
    <3> QED BY <2>4, <3>5, <3>6, AgreeTransitive
  <2>10. HasLog(hist[s], wal[s], term[s])
    BY DEF SafekeeperLog
  <2> QED BY <2>8, <2>9, <2>10 DEF HasLog
<1> QED BY <1>5, <1>6

(* A proposer that ends its log at LSN e starts streaming within it, if a  *)
(* safekeeper that has WAL of its term has not more of it.                 *)
LEMMA StreamStart ==
    ASSUME NEW th \in TermHistories, th # <<>>, Ascending(th), th[1].lsn = FirstLsn,
           NEW t \in Nat, th[Len(th)].term = t, NEW e \in Nat, th[Len(th)].lsn <= e,
           NEW vh \in TermHistories, NEW f \in Nat,
           ASSUME NEW i \in 1..Len(vh), vh[i].term = t PROVE f <= e
    PROVE  StartStreamingAt(th, t, vh, f) <= e
<1> DEFINE idx == LastCommonIdx(th, vh)
<1>1. /\ idx \in 0..Len(th) /\ idx \in 0..Len(vh)
      /\ \A i \in 1..idx : th[i].term = vh[i].term
  BY LastCommonEntries
<1>2. /\ Len(th) \in Nat /\ Len(th) >= 1 /\ Len(vh) \in Nat
      /\ \A i \in 1..Len(th) : th[i].term \in Nat /\ th[i].lsn \in Nat
      /\ \A i \in 1..Len(vh) : vh[i].lsn \in Nat
  BY HistoryType
<1> HIDE DEF idx
<1>3. CASE idx = 0
  <2>1. th[1].lsn <= th[Len(th)].lsn
    BY <1>2, AscendingFacts
  <2>2. th[1].lsn <= e
    BY <1>2, <2>1
  <2> QED BY <1>3, <2>2 DEF StartStreamingAt, idx
<1>4. CASE idx # 0
  <2>1. idx \in 1..Len(th) /\ idx \in 1..Len(vh) /\ th[idx].term = vh[idx].term
    BY <1>1, <1>2, <1>4
  <2>2. CASE th[idx].term = t
    <3>1. f <= e
      BY <2>1, <2>2
    <3> QED BY <1>4, <2>2, <3>1 DEF StartStreamingAt, idx
  <2>3. CASE th[idx].term # t
    <3>1. idx < Len(th) /\ idx + 1 \in 1..Len(th) /\ Len(th) \in 1..Len(th)
      BY <1>2, <2>1, <2>3
    <3>2. th[idx + 1].lsn <= th[Len(th)].lsn
      BY <1>2, <3>1, AscendingFacts
    <3>3. th[idx + 1].lsn <= e /\ th[idx + 1].lsn \in Nat
      BY <1>2, <3>1, <3>2
    <3> DEFINE skEnd == IF idx < Len(vh) THEN vh[idx + 1].lsn ELSE f
    <3>4. skEnd \in Nat
      <4>1. CASE idx < Len(vh)
        <5>1. idx + 1 \in 1..Len(vh)
          BY <1>2, <2>1, <4>1
        <5> QED BY <1>2, <4>1, <5>1
      <4> QED BY <4>1
    <3>5. StartStreamingAt(th, t, vh, f) = Lower(th[idx + 1].lsn, skEnd)
      BY <1>4, <2>3 DEF StartStreamingAt, idx
    <3> HIDE DEF skEnd
    <3> QED BY <3>3, <3>4, <3>5 DEF Lower
  <2> QED BY <2>2, <2>3
<1> QED BY <1>3, <1>4

(* The log of a newly elected proposer: that of its donor, and a new term. *)
LEMMA NewLeaderLog ==
    ASSUME TypeInv, Leaders, TypeInv', NEW p \in Proposers, ~Elected(p), UNCHANGED propTerm,
           \A r \in Proposers : r # p => propHist'[r] = propHist[r] /\ propWal'[r] = propWal[r],
           NEW dh \in TermHistories, NEW f \in Nat, NEW t,
           propHist'[p] = Append(dh, TermLsn(propTerm[p], f)),
           f = Len(propWal'[p]) + 1, HighestTerm(dh) < propTerm[p],
           \/ dh = <<>> /\ propWal'[p] = <<>>
           \/ dh # <<>> /\ HasDurable(dh, propWal'[p], f, t)
    PROVE  LeaderLog(p)' /\ Elected(p)'
<1> DEFINE th == Append(dh, TermLsn(propTerm[p], f))
           w == propWal'[p]
<1>1. /\ Len(th) = Len(dh) + 1 /\ th[Len(dh) + 1].term = propTerm[p] /\ th[Len(dh) + 1].lsn = f
      /\ \A i \in 1..Len(dh) : th[i] = dh[i]
  BY AppendHistory DEF TermLsn
<1>2. /\ Len(dh) \in Nat /\ (dh = <<>> <=> Len(dh) = 0)
      /\ \A i \in 1..Len(dh) : dh[i].term \in Nat /\ dh[i].lsn \in Nat /\ dh[i].lsn >= 1
  BY HistoryType
<1>3. w \in Logs /\ Len(w) \in Nat /\ propTerm[p] \in Nat /\ th \in TermHistories
  <2>1. propWal'[p] \in Logs /\ Len(propWal'[p]) \in Nat /\ propHist'[p] \in TermHistories
    BY LogLength DEF TypeInv, TypeOK, WpTypeOK
  <2> QED BY <2>1, LogTypes
<1>4. propTerm[p] >= 1
  <2>1. HighestTerm(dh) \in Nat
    <3>1. CASE dh = <<>>
      BY <3>1 DEF HighestTerm
    <3>2. CASE dh # <<>>
      BY <1>2, <3>2 DEF HighestTerm
    <3> QED BY <3>1, <3>2
  <2> QED BY <1>3, <2>1
<1> HIDE DEF th, w
<1>5. CASE dh = <<>> /\ w = <<>>
  <2>1. Len(th) = 1 /\ th[1].term = propTerm[p] /\ th[1].lsn = 1
    BY <1>1, <1>2, <1>5 DEF w
  <2>2. Ascending(th)
    BY <2>1 DEF Ascending
  <2>3. /\ propHist'[p] = th /\ propWal'[p] = w /\ propTerm'[p] = propTerm[p] /\ Len(w) = 0
    BY <1>5 DEF th, w
  <2>4. th # <<>>
    BY <1>2, <1>5 DEF th
  <2>5. (\A i \in 1..(Len(propHist[p]) - 1) : Origin(p, i))'
    BY <2>1, <2>3
  <2>6. (\A l \in 1..Len(propWal[p]) : propWal[p][l] = TermLsn(TermAt(propHist[p], l), l))'
    BY <2>3
  <2>7. /\ Ascending(propHist'[p]) /\ propHist'[p][1].lsn = FirstLsn
        /\ PropTermStartLsn(p)' <= AvailableLsn(p)' /\ propTerm'[p] >= 1 /\ propHist'[p] # <<>>
    <3>1. PropTermStartLsn(p)' = 1 /\ AvailableLsn(p)' = 1
      BY <2>1, <2>3 DEF PropTermStartLsn, AvailableLsn
    <3>2. propHist'[p][1].lsn = FirstLsn
      BY <2>1, <2>3 DEF FirstLsn
    <3>3. Ascending(propHist'[p])
      BY <2>2, <2>3
    <3>4. propTerm'[p] >= 1
      BY <1>4, <2>3
    <3>5. propHist'[p] # <<>>
      BY <2>3, <2>4
    <3>6. PropTermStartLsn(p)' <= AvailableLsn(p)'
      BY <3>1
    <3> QED BY <3>2, <3>3, <3>4, <3>5, <3>6
  <2> QED BY <2>5, <2>6, <2>7 DEF LeaderLog, Elected
<1>6. CASE dh # <<>> /\ HasDurable(dh, w, f, t)
  <2>1. Len(dh) \in 1..Len(dh) /\ Len(dh) >= 1 /\ HighestTerm(dh) = dh[Len(dh)].term
    BY <1>2, <1>6 DEF HighestTerm
  <2>2. f >= 1 /\ f = Len(w) + 1
    BY <1>6 DEF HasDurable, w
  <2>3. /\ dh[1].lsn = FirstLsn /\ Ascending(dh) /\ dh[Len(dh)].lsn <= f
        /\ \A i \in 1..Len(dh) :
             \/ BeginsWith(th, i, Root) /\ th[i + 1].lsn = FirstLsn
             \/ \E r \in Proposers : /\ r # p /\ Elected(r) /\ BeginsWith(th, i, propHist[r])
                                     /\ Agree(w, propWal[r], th[i + 1].lsn)
        /\ \A l \in 1..Len(w) : w[l] = TermLsn(TermAt(dh, l), l)
    <3>1. CASE dh = Root /\ f <= FirstLsn
      <4>1. /\ Len(dh) = 1 /\ dh[1].lsn = FirstLsn /\ f = FirstLsn /\ Len(w) = 0
        BY <1>3, <1>6, <2>2, <3>1, RootFacts DEF FirstLsn
      <4>2. Ascending(dh) /\ dh[Len(dh)].lsn <= f
        BY <4>1 DEF Ascending, FirstLsn
      <4>3. BeginsWith(th, 1, Root) /\ th[2].lsn = FirstLsn
        BY <1>1, <3>1, <4>1 DEF BeginsWith
      <4> QED BY <4>1, <4>2, <4>3
    <3>2. CASE \E r \in Proposers :
                 /\ Elected(r) /\ dh = propHist[r] /\ propTerm[r] <= t
                 /\ PropTermStartLsn(r) <= f /\ Agree(w, propWal[r], f)
      <4>1. PICK r \in Proposers :
                 /\ Elected(r) /\ dh = propHist[r]
                 /\ PropTermStartLsn(r) <= f /\ Agree(w, propWal[r], f)
        BY <3>2
      <4>2. LeaderLog(r) /\ PropTermStartLsn(r) = dh[Len(dh)].lsn /\ r # p /\ Len(propWal[r]) \in Nat
        BY <4>1, LeaderFacts, LogTypes DEF Leaders
      <4>3. dh[1].lsn = FirstLsn /\ Ascending(dh) /\ dh[Len(dh)].lsn <= f
        BY <4>1, <4>2 DEF LeaderLog
      <4>4. ASSUME NEW i \in 1..Len(dh)
            PROVE  \/ BeginsWith(th, i, Root) /\ th[i + 1].lsn = FirstLsn
                   \/ \E x \in Proposers : /\ x # p /\ Elected(x) /\ BeginsWith(th, i, propHist[x])
                                           /\ Agree(w, propWal[x], th[i + 1].lsn)
        <5>1. CASE i = Len(dh)
          <6>1. th[i + 1].lsn = f /\ BeginsWith(th, i, propHist[r])
            BY <1>1, <4>1, <5>1 DEF BeginsWith
          <6> QED BY <4>1, <4>2, <6>1
        <5>2. CASE i # Len(dh)
          <6>1. i \in 1..(Len(dh) - 1) /\ i + 1 \in 1..Len(dh) /\ i + 1 <= Len(dh)
            BY <1>2, <5>2
          <6>2. th[i + 1] = dh[i + 1] /\ \A j \in 1..i : th[j] = dh[j]
            BY <1>1, <6>1
          <6>3. th[i + 1].lsn \in Nat /\ th[i + 1].lsn <= f
            <7>1. dh[i + 1].lsn <= dh[Len(dh)].lsn
              BY <2>1, <4>3, <6>1, AscendingFacts
            <7> QED BY <1>2, <2>1, <4>3, <6>1, <6>2, <7>1
          <6>4. Origin(r, i)
            BY <4>1, <4>2, <6>1 DEF LeaderLog
          <6>5. CASE BeginsWith(dh, i, Root) /\ dh[i + 1].lsn = FirstLsn
            BY <6>2, <6>5 DEF BeginsWith
          <6>6. CASE \E x \in Proposers : /\ Elected(x) /\ BeginsWith(dh, i, propHist[x])
                                          /\ Agree(propWal[r], propWal[x], dh[i + 1].lsn)
            <7>1. PICK x \in Proposers : /\ Elected(x) /\ BeginsWith(dh, i, propHist[x])
                                         /\ Agree(propWal[r], propWal[x], dh[i + 1].lsn)
              BY <6>6
            <7>2. BeginsWith(th, i, propHist[x]) /\ x # p
              BY <6>2, <7>1 DEF BeginsWith
            <7>3. Agree(w, propWal[r], th[i + 1].lsn)
              BY <1>3, <4>1, <4>2, <6>3, AgreeBelow
            <7>4. Agree(w, propWal[x], th[i + 1].lsn)
              BY <6>2, <7>1, <7>3, AgreeTransitive
            <7> QED BY <7>1, <7>2, <7>4
          <6> QED BY <4>1, <6>4, <6>5, <6>6 DEF Origin
        <5> QED BY <5>1, <5>2
      <4>5. ASSUME NEW l \in 1..Len(w) PROVE w[l] = TermLsn(TermAt(dh, l), l)
        <5>1. l \in 1..(f - 1) /\ l \in 1..Len(propWal[r])
          BY <1>3, <2>2, <4>1, <4>2 DEF Agree
        <5> QED BY <4>1, <4>2, <5>1 DEF Agree, LeaderLog
      <4> QED BY <4>3, <4>4, <4>5
    <3> QED BY <1>6, <3>1, <3>2 DEF HasDurable
  <2>4. Ascending(th)
    <3> SUFFICES ASSUME NEW i \in 1..Len(th), NEW j \in 1..Len(th), i < j
                 PROVE  th[i].lsn <= th[j].lsn /\ th[i].term < th[j].term
      BY DEF Ascending
    <3>1. i \in 1..Len(dh) /\ i <= Len(dh) /\ th[i] = dh[i]
      BY <1>1, <1>2
    <3>2. CASE j \in 1..Len(dh)
      BY <1>1, <2>3, <3>1, <3>2 DEF Ascending
    <3>3. CASE j = Len(dh) + 1
      <4>1. dh[i].lsn <= dh[Len(dh)].lsn /\ dh[i].term <= dh[Len(dh)].term
        BY <2>1, <2>3, <3>1, AscendingFacts
      <4>2. /\ dh[i].lsn \in Nat /\ dh[Len(dh)].lsn \in Nat /\ dh[i].term \in Nat /\ dh[Len(dh)].term \in Nat
        BY <1>2, <2>1, <3>1
      <4>3. dh[Len(dh)].lsn <= f /\ dh[Len(dh)].term < propTerm[p]
        BY <2>1, <2>3
      <4>4. th[j].lsn = f /\ th[j].term = propTerm[p] /\ propTerm[p] \in Nat
        BY <1>1, <1>3, <3>3
      <4>5. dh[i].lsn <= f
        BY <4>1, <4>2, <4>3
      <4>6. dh[i].term < propTerm[p]
        BY <4>1, <4>2, <4>3, <4>4
      <4> QED BY <3>1, <4>4, <4>5, <4>6
    <3> QED BY <1>1, <1>2, <3>2, <3>3
  <2>5. ASSUME NEW l \in 1..Len(w) PROVE w[l] = TermLsn(TermAt(th, l), l)
    <3>0. l \in Nat /\ l < f
      BY <1>3, <2>2
    <3>1. PICK n \in 0..Len(dh) :
              /\ \A i \in 1..n : dh[i].lsn <= l
              /\ n < Len(dh) => dh[n + 1].lsn > l
              /\ HighestTerm(UpTo(dh, l)) = IF n = 0 THEN 0 ELSE dh[n].term
      BY <3>0, UpToEntries
    <3>2. /\ n \in 0..Len(th)
          /\ \A i \in 1..n : th[i].lsn <= l
          /\ n < Len(th) => th[n + 1].lsn > l
      <4>1. n \in 0..Len(th) /\ \A i \in 1..n : th[i] = dh[i]
        BY <1>1, <1>2
      <4>2. CASE n < Len(dh)
        <5>1. n + 1 \in 1..Len(dh)
          BY <1>2, <4>2
        <5> QED BY <1>1, <3>1, <4>1, <4>2, <5>1
      <4>3. CASE n = Len(dh)
        BY <1>1, <3>0, <3>1, <4>1, <4>3
      <4> QED BY <1>2, <4>2, <4>3
    <3>3. TermAt(th, l) = IF n = 0 THEN 0 ELSE th[n].term
      BY <1>3, <3>0, <3>2, UpToIs
    <3>4. n # 0 => th[n] = dh[n]
      BY <1>1, <1>2
    <3> QED BY <2>3, <3>1, <3>3, <3>4 DEF TermAt
  <2>6. ASSUME NEW i \in 1..(Len(th) - 1) PROVE Origin(p, i)'
    <3>1. i \in 1..Len(dh)
      BY <1>1, <1>2
    <3>2. \/ BeginsWith(th, i, Root) /\ th[i + 1].lsn = FirstLsn
          \/ \E r \in Proposers : /\ r # p /\ Elected(r) /\ BeginsWith(th, i, propHist[r])
                                  /\ Agree(w, propWal[r], th[i + 1].lsn)
      BY <2>3, <3>1
    <3>3. th = propHist'[p] /\ w = propWal'[p]
      BY DEF th, w
    <3> QED BY <3>2, <3>3 DEF Origin, Elected
  <2>7. /\ th = propHist'[p] /\ w = propWal'[p] /\ propTerm'[p] = propTerm[p]
    BY DEF th, w
  <2>8. th[1].lsn = FirstLsn /\ Len(th) >= 1 /\ th[Len(th)].lsn = f /\ th # <<>>
    <3>1. 1 \in 1..Len(dh)
      BY <2>1, <1>2
    <3>2. th # <<>>
      BY <1>1, <1>2, <1>3, HistoryType
    <3> QED BY <1>1, <1>2, <2>3, <3>1, <3>2
  <2> QED
    BY <1>3, <1>4, <2>2, <2>4, <2>5, <2>6, <2>7, <2>8
    DEF LeaderLog, Elected, PropTermStartLsn, AvailableLsn
<1> QED BY <1>5, <1>6 DEF w

-----------------------------------------------------------------------------
(* What the steps of the protocol have in common.                          *)

(* A leader keeps its term and its history, and its WAL only grows.        *)
LeadersGrow ==
    \A p \in Proposers :
      /\ wpState[p] # "COLLECTING_TERMS" =>
           wpState'[p] # "COLLECTING_TERMS" /\ propTerm'[p] = propTerm[p]
      /\ Elected(p) => /\ propHist'[p] = propHist[p] /\ propTerm'[p] = propTerm[p]
                       /\ Extended(propWal[p], propWal'[p])

(* A safekeeper gets its history from the leader of its term.              *)
HistoriesStep ==
    \A s \in Safekeepers :
      /\ term[s] <= term'[s]
      /\ \/ hist'[s] = hist[s]
         \/ \E r \in Proposers : Elected(r) /\ hist'[s] = propHist[r] /\ term'[s] = propTerm[r]

LeadersStep ==
    \A p \in Proposers : Elected(p)' => (Elected(p) /\ propWal'[p] = propWal[p]) \/ LeaderLog(p)'

(* HasLog, HasDurable and VoteLog after the step, of things fixed before.  *)
HasLogNext(th, w, t) ==
    \/ th = Root /\ w = <<>>
    \/ \E r \in Proposers : /\ propHist'[r] # <<>> /\ th = propHist'[r] /\ propTerm'[r] <= t
                            /\ Agree(w, propWal'[r], Len(w) + 1)

HasDurableNext(th, w, f, t) ==
    /\ f <= Len(w) + 1
    /\ f = 0 <=> th = <<>>
    /\ \/ th = Root /\ f <= FirstLsn
       \/ \E r \in Proposers :
            /\ propHist'[r] # <<>> /\ th = propHist'[r] /\ propTerm'[r] <= t
            /\ propHist'[r][Len(propHist'[r])].lsn <= f /\ Agree(w, propWal'[r], f)

VoteLogNext(p, v) ==
    /\ HasDurableNext(v.hist, v.wal, v.flush, v.term)
    /\ v.flush # 0 => v.flush = Len(v.wal) + 1
    /\ v.hist = <<>> => v.wal = <<>>
    /\ v.given => v.term = propTerm'[p] /\ HighestTerm(v.hist) < propTerm'[p]
    /\ ~v.given => v.term >= propTerm'[p]

ReplyNext(p, r) ==
    /\ r.type = "vote" => VoteLogNext(p, r)
    /\ r.type = "ack" => propHist'[p] # <<>> /\ r.term >= propTerm'[p]
    /\ wpState'[p] # "COLLECTING_TERMS"

RepliesStep ==
    \A p \in Proposers, s \in Safekeepers :
      rsp'[p][s] = rsp[p][s] \/ rsp'[p][s] = None \/ ReplyNext(p, rsp'[p][s])

VotesStep ==
    \A p \in Proposers, s \in Safekeepers :
      \/ vote'[p][s] = vote[p][s] \/ vote'[p][s] = None
      \/ /\ rsp[p][s] # None /\ rsp[p][s].type = "vote" /\ rsp[p][s].given
         /\ vote'[p][s] = rsp[p][s]

(* A queue is left alone, or its first message was handled ...             *)
Taken(k, p, s) ==
    \/ q'[k][p][s] = q[k][p][s]
    \/ /\ q[k][p][s] # <<>> /\ q'[k][p][s] = Tail(q[k][p][s])
       /\ Head(q[k][p][s]).type = "elected" => Follows(p, s)'

(* ... or a message was sent.                                              *)
Sent(k, p, s) ==
    \E m \in Messages : /\ q'[k][p][s] = Append(q[k][p][s], m)
                        /\ m.type = "append" => k = "live" /\ skState[p][s] = "ACTIVE"

QueueStep(k, p, s) ==
    \/ Taken(k, p, s) \/ Sent(k, p, s) \/ q'[k][p][s] = <<>>
    \/ k = "late" /\ q'[k][p][s] = q["live"][p][s]

DirtyStep(k, p, s) ==
    dirty'[k][p][s] =>
      \/ dirty[k][p][s] \/ dirty["live"][p][s]
      \/ Elected(p) /\ Follows(p, s)'

ActiveStep(p, s) ==
    skState'[p][s] = "ACTIVE" =>
      /\ \/ skState[p][s] = "ACTIVE" /\ streamingAt'[p][s] = streamingAt[p][s]
         \/ streamingAt'[p][s] <= AvailableLsn(p)'
      /\ \/ skState[p][s] = "ACTIVE" /\ (Taken("live", p, s) \/ Sent("live", p, s))
         \/ \E j \in 1..Len(q'["live"][p][s]) : q'["live"][p][s][j].type = "elected"

LinksStep ==
    /\ \A k \in Chan, p \in Proposers, s \in Safekeepers : QueueStep(k, p, s)
    /\ \A k \in Chan, p \in Proposers, s \in Safekeepers : DirtyStep(k, p, s)
    /\ \A p \in Proposers, s \in Safekeepers : ActiveStep(p, s)

(* A leader's log holds on to what agrees with it.                         *)
LEMMA HasLogStable ==
    ASSUME TypeInv, TypeInv', LeadersGrow, NEW th, NEW w, Len(w) \in Nat,
           NEW t \in Nat, NEW t2 \in Nat, t <= t2, HasLog(th, w, t)
    PROVE  HasLogNext(th, w, t2)
<1>1. CASE \E r \in Proposers :
         Elected(r) /\ th = propHist[r] /\ propTerm[r] <= t /\ Agree(w, propWal[r], Len(w) + 1)
  <2>1. PICK r \in Proposers :
         Elected(r) /\ th = propHist[r] /\ propTerm[r] <= t /\ Agree(w, propWal[r], Len(w) + 1)
    BY <1>1
  <2>2. /\ propHist'[r] = propHist[r] /\ propTerm'[r] = propTerm[r]
        /\ Extended(propWal[r], propWal'[r])
    BY <2>1 DEF LeadersGrow
  <2>3. Len(propWal[r]) \in Nat /\ Len(propWal'[r]) \in Nat /\ propTerm[r] \in Nat
    BY LogTypes, LogLength DEF TypeInv, TypeOK, WpTypeOK
  <2>4. Extended(w, w)
    BY DEF Extended
  <2>5. Agree(w, propWal'[r], Len(w) + 1)
    BY <2>1, <2>2, <2>3, <2>4, AgreeGrows
  <2> QED BY <2>1, <2>2, <2>3, <2>5 DEF HasLogNext, Elected
<1> QED BY <1>1 DEF HasLog, HasLogNext

(* The same for durable WAL.                                               *)
LEMMA HasDurableStable ==
    ASSUME TypeInv, TypeInv', LeadersGrow, NEW th, NEW w, Len(w) \in Nat,
           NEW f \in Nat, NEW t \in Nat, HasDurable(th, w, f, t)
    PROVE  HasDurableNext(th, w, f, t)
<1>1. CASE \E r \in Proposers :
            /\ Elected(r) /\ th = propHist[r] /\ propTerm[r] <= t
            /\ PropTermStartLsn(r) <= f /\ Agree(w, propWal[r], f)
  <2>1. PICK r \in Proposers :
            /\ Elected(r) /\ th = propHist[r] /\ propTerm[r] <= t
            /\ PropTermStartLsn(r) <= f /\ Agree(w, propWal[r], f)
    BY <1>1
  <2>2. /\ propHist'[r] = propHist[r] /\ propTerm'[r] = propTerm[r]
        /\ Extended(propWal[r], propWal'[r])
    BY <2>1 DEF LeadersGrow
  <2>3. Len(propWal[r]) \in Nat /\ Len(propWal'[r]) \in Nat
    BY LogTypes, LogLength DEF TypeInv, TypeOK, WpTypeOK
  <2>4. Extended(w, w)
    BY DEF Extended
  <2>5. Agree(w, propWal'[r], f)
    BY <2>1, <2>2, <2>3, <2>4, AgreeGrows
  <2>6. propHist'[r][Len(propHist'[r])].lsn <= f
    BY <2>1, <2>2 DEF PropTermStartLsn
  <2> QED BY <2>1, <2>2, <2>5, <2>6 DEF HasDurable, HasDurableNext, Elected
<1> QED BY <1>1 DEF HasDurable, HasDurableNext

(* A vote keeps describing WAL of leaders.                                 *)
LEMMA VoteLogStable ==
    ASSUME TypeInv, TypeInv', LeadersGrow, NEW p \in Proposers, wpState[p] # "COLLECTING_TERMS",
           NEW v \in VoteResponses, VoteLog(p, v)
    PROVE  VoteLogNext(p, v)
<1>1. v.wal \in Logs /\ v.flush \in Nat /\ v.term \in Nat
  BY ConstantsType DEF VoteResponses
<1>2. Len(v.wal) \in Nat
  BY <1>1, LogLength
<1>3. HasDurableNext(v.hist, v.wal, v.flush, v.term)
  BY <1>1, <1>2, HasDurableStable DEF VoteLog
<1>4. propTerm'[p] = propTerm[p]
  BY DEF LeadersGrow
<1> QED BY <1>3, <1>4 DEF VoteLog, VoteLogNext

(* A follower stays one, or goes on to a later term.                       *)
LEMMA FollowsStable ==
    ASSUME TypeInv, VotesInv, TypeInv', LeadersGrow, HistoriesStep,
           NEW p \in Proposers, NEW s \in Safekeepers, Elected(p), Follows(p, s)
    PROVE  Follows(p, s)'
<1>1. propTerm'[p] = propTerm[p] /\ propHist'[p] = propHist[p]
  BY DEF LeadersGrow
<1>2. propTerm[p] \in Nat /\ term[s] \in Nat /\ term'[s] \in Nat
  BY LogTypes, ConstantsType DEF TypeInv, TypeOK, SkTypeOK
<1>3. term[s] <= term'[s]
  BY DEF HistoriesStep
<1>4. CASE term'[s] > propTerm[p]
  BY <1>1, <1>4 DEF Follows
<1>5. CASE term'[s] = propTerm[p]
  <2>1. term[s] = propTerm[p] /\ hist[s] = propHist[p]
    BY <1>2, <1>3, <1>5 DEF Follows
  <2>2. CASE hist'[s] = hist[s]
    BY <1>1, <1>5, <2>1, <2>2 DEF Follows
  <2>3. CASE \E r \in Proposers : Elected(r) /\ hist'[s] = propHist[r] /\ term'[s] = propTerm[r]
    <3>1. PICK r \in Proposers : Elected(r) /\ hist'[s] = propHist[r] /\ term'[s] = propTerm[r]
      BY <2>3
    <3>2. r = p
      BY <1>5, <3>1, SameLeader
    <3> QED BY <1>1, <1>5, <3>1, <3>2 DEF Follows
  <2> QED BY <2>2, <2>3 DEF HistoriesStep
<1> QED BY <1>2, <1>3, <1>4, <1>5 DEF Follows

(* A leader that writes nothing.                                           *)
LEMMA LeaderLogStable ==
    ASSUME TypeInv, TypeInv', LeadersGrow, NEW p \in Proposers, Elected(p), LeaderLog(p),
           propWal'[p] = propWal[p]
    PROVE  LeaderLog(p)'
<1>1. propHist'[p] = propHist[p] /\ propTerm'[p] = propTerm[p]
  BY DEF LeadersGrow
<1>2. ASSUME NEW i \in 1..(Len(propHist[p]) - 1) PROVE Origin(p, i)'
  <2>1. Origin(p, i) /\ propHist[p][i + 1].lsn \in Nat
    <3>1. i + 1 \in 1..Len(propHist[p])
      BY LeaderFacts
    <3> QED BY <3>1, LeaderFacts DEF LeaderLog
  <2>2. ASSUME NEW r \in Proposers, Elected(r), Agree(propWal[p], propWal[r], propHist[p][i + 1].lsn)
        PROVE  /\ propHist'[r] = propHist[r]
               /\ Agree(propWal[p], propWal'[r], propHist[p][i + 1].lsn)
    <3>1. Extended(propWal[r], propWal'[r]) /\ propHist'[r] = propHist[r]
      BY <2>2 DEF LeadersGrow
    <3>2. Len(propWal[r]) \in Nat /\ Len(propWal'[r]) \in Nat /\ Len(propWal[p]) \in Nat
      BY LogTypes, LogLength DEF TypeInv, TypeOK, WpTypeOK
    <3>3. Extended(propWal[p], propWal[p])
      BY <3>2 DEF Extended
    <3> QED BY <2>1, <2>2, <3>1, <3>2, <3>3, AgreeGrows
  <2> QED BY <1>1, <2>1, <2>2 DEF Origin, Elected
<1> QED
  BY <1>1, <1>2 DEF LeaderLog, PropTermStartLsn, AvailableLsn

(* WAL in a queue still comes after ProposerElected.                       *)
LEMMA QueueStable ==
    ASSUME TypeInv, VotesInv, TypeInv', LeadersGrow, HistoriesStep, LogInv,
           NEW k \in Chan, NEW p \in Proposers, NEW s \in Safekeepers, QueueStep(k, p, s),
           NEW i \in 1..Len(q'[k][p][s]), q'[k][p][s][i].type = "append"
    PROVE  Follows(p, s)' \/ \E j \in 1..(i - 1) : q'[k][p][s][j].type = "elected"
<1>1. \A c \in Chan : q[c][p][s] \in Seq(Messages) /\ q'[c][p][s] \in Seq(Messages)
  BY DEF TypeInv, TypeOK, NetTypeOK
<1>2. Elected(p) /\ Elected(p)'
  <2>1. RequestOK(p, q[k][p][s][i])'
    BY DEF TypeInv, SupportInv, QueueOK
  <2>2. propHist'[p] # <<>>
    BY <2>1 DEF RequestOK
  <2>3. ASSUME NEW c \in Chan, NEW j \in 1..Len(q[c][p][s]), q[c][p][s][j].type = "append"
        PROVE  propHist[p] # <<>>
    <3>1. RequestOK(p, q[c][p][s][j])
      BY DEF TypeInv, SupportInv, QueueOK
    <3> QED BY <2>3, <3>1 DEF RequestOK
  <2>4. propHist[p] # <<>>
    <3>1. CASE q'[k][p][s] = q[k][p][s]
      BY <2>3, <3>1
    <3>2. CASE q[k][p][s] # <<>> /\ q'[k][p][s] = Tail(q[k][p][s])
      <4>1. i + 1 \in 1..Len(q[k][p][s]) /\ q'[k][p][s][i] = q[k][p][s][i + 1]
        BY <1>1, <3>2
      <4> QED BY <2>3, <4>1
    <3>3. CASE Sent(k, p, s)
      <4>1. PICK m \in Messages : /\ q'[k][p][s] = Append(q[k][p][s], m)
                                  /\ m.type = "append" => k = "live" /\ skState[p][s] = "ACTIVE"
        BY <3>3 DEF Sent
      <4>2. CASE i \in 1..Len(q[k][p][s])
        <5>1. q'[k][p][s][i] = q[k][p][s][i]
          BY <1>1, <4>1, <4>2
        <5> QED BY <2>3, <4>2, <5>1
      <4>3. CASE i = Len(q[k][p][s]) + 1
        <5>1. skState[p][s] = "ACTIVE"
          <6>1. q'[k][p][s][i] = m
            BY <1>1, <4>1, <4>3
          <6> QED BY <4>1, <6>1
        <5> QED BY <5>1 DEF TypeInv, SupportInv, LinkOK, ProposerOK
      <4>4. Len(q'[k][p][s]) = Len(q[k][p][s]) + 1 /\ Len(q[k][p][s]) \in Nat
        BY <1>1, <4>1
      <4> QED BY <4>2, <4>3, <4>4
    <3>4. CASE q'[k][p][s] = <<>>
      BY <3>4
    <3>5. CASE k = "late" /\ q'[k][p][s] = q["live"][p][s]
      BY <2>3, <3>5 DEF Chan
    <3> QED BY <3>1, <3>2, <3>3, <3>4, <3>5 DEF QueueStep, Taken
  <2> QED BY <2>2, <2>4 DEF Elected
<1>3. Follows(p, s) => Follows(p, s)'
  BY <1>2, FollowsStable
<1>4. ASSUME NEW c \in Chan, NEW n \in 1..Len(q[c][p][s]), q[c][p][s][n].type = "append"
      PROVE  Follows(p, s)' \/ \E j \in 1..(n - 1) : q[c][p][s][j].type = "elected"
  <2>1. ConnectionLog(c, p, s)
    BY DEF LogInv
  <2> QED BY <1>3, <1>4, <2>1 DEF ConnectionLog
<1>5. CASE q'[k][p][s] = q[k][p][s]
  BY <1>4, <1>5
<1>6. CASE /\ q[k][p][s] # <<>> /\ q'[k][p][s] = Tail(q[k][p][s])
           /\ Head(q[k][p][s]).type = "elected" => Follows(p, s)'
  <2>1. i + 1 \in 1..Len(q[k][p][s]) /\ q'[k][p][s][i] = q[k][p][s][i + 1]
    BY <1>1, <1>6
  <2>2. Follows(p, s)' \/ \E j \in 1..i : q[k][p][s][j].type = "elected"
    <3>1. Follows(p, s)' \/ \E j \in 1..((i + 1) - 1) : q[k][p][s][j].type = "elected"
      BY <1>4, <2>1
    <3> QED BY <3>1
  <2>3. ASSUME NEW j \in 1..i, q[k][p][s][j].type = "elected", j # 1
        PROVE  j - 1 \in 1..(i - 1) /\ q'[k][p][s][j - 1].type = "elected"
    <3>1. j - 1 \in 1..Len(q'[k][p][s]) /\ j - 1 \in 1..(i - 1)
      BY <1>1, <2>3
    <3>2. q'[k][p][s][j - 1] = q[k][p][s][j]
      BY <1>1, <1>6, <3>1
    <3> QED BY <2>3, <3>1, <3>2
  <2>4. q[k][p][s][1].type = "elected" => Follows(p, s)'
    BY <1>1, <1>6
  <2> QED BY <2>2, <2>3, <2>4
<1>7. CASE Sent(k, p, s)
  <2>1. PICK m \in Messages : /\ q'[k][p][s] = Append(q[k][p][s], m)
                              /\ m.type = "append" => k = "live" /\ skState[p][s] = "ACTIVE"
    BY <1>7 DEF Sent
  <2>2. \A j \in 1..Len(q[k][p][s]) : q'[k][p][s][j] = q[k][p][s][j]
    BY <1>1, <2>1
  <2>3. CASE i \in 1..Len(q[k][p][s])
    <3>1. Follows(p, s)' \/ \E j \in 1..(i - 1) : q[k][p][s][j].type = "elected"
      BY <1>4, <2>2, <2>3
    <3>2. \A j \in 1..(i - 1) : j \in 1..Len(q[k][p][s])
      BY <1>1, <2>3
    <3> QED BY <2>2, <3>1, <3>2
  <2>4. CASE i = Len(q[k][p][s]) + 1
    <3>1. skState[p][s] = "ACTIVE" /\ k = "live"
      <4>1. q'[k][p][s][i] = m
        BY <1>1, <2>1, <2>4
      <4> QED BY <2>1, <4>1
    <3>2. Follows(p, s) \/ \E j \in 1..Len(q["live"][p][s]) : q["live"][p][s][j].type = "elected"
      BY <3>1 DEF LogInv, LinkLog
    <3>3. \A j \in 1..Len(q[k][p][s]) : j \in 1..(i - 1)
      BY <1>1, <2>4
    <3> QED BY <1>3, <2>2, <3>1, <3>2, <3>3
  <2> QED BY <1>1, <2>1, <2>3, <2>4
<1>8. CASE q'[k][p][s] = <<>>
  BY <1>8
<1>9. CASE k = "late" /\ q'[k][p][s] = q["live"][p][s]
  BY <1>4, <1>9 DEF Chan
<1> QED BY <1>5, <1>6, <1>7, <1>8, <1>9 DEF QueueStep, Taken

(* A step that keeps to these shapes preserves the invariant.              *)
LEMMA LogStep ==
    ASSUME TypeInv, VotesInv, LogInv, TypeInv', LeadersGrow, HistoriesStep, LeadersStep,
           \A s \in Safekeepers : SafekeeperLog(s)', RepliesStep, VotesStep, LinksStep
    PROVE  LogInv'
<1>1. ASSUME NEW p \in Proposers, Elected(p)' PROVE LeaderLog(p)'
  <2>1. CASE Elected(p) /\ propWal'[p] = propWal[p]
    BY <2>1, LeaderLogStable DEF LogInv
  <2> QED BY <1>1, <2>1 DEF LeadersStep
<1>2. ASSUME NEW p \in Proposers, NEW s \in Safekeepers, Elected(p), Follows(p, s)
      PROVE  Follows(p, s)'
  BY <1>2, FollowsStable
<1>3. ASSUME NEW p \in Proposers, NEW s \in Safekeepers PROVE LinkLog(p, s)'
  <2>1. LinkLog(p, s) /\ LinkOK(p, s) /\ ElectionOK(p, s)
    BY DEF LogInv, TypeInv, SupportInv, VotesInv
  <2>2. rsp[p][s] \in VoteResponses \cup AppendResponses \cup {None}
        /\ vote[p][s] \in VoteResponses \cup {None}
    BY DEF TypeInv, TypeOK, NetTypeOK, LinkTypeOK
  <2>3. ASSUME rsp[p][s] # None PROVE ReplyNext(p, rsp[p][s])
    <3>1. wpState[p] # "COLLECTING_TERMS" /\ wpState'[p] # "COLLECTING_TERMS"
      BY <2>1, <2>3 DEF LinkLog, LeadersGrow
    <3>2. ASSUME rsp[p][s].type = "vote" PROVE VoteLogNext(p, rsp[p][s])
      <4>1. rsp[p][s] \in VoteResponses /\ VoteLog(p, rsp[p][s])
        BY <2>1, <2>2, <2>3, <3>2 DEF LinkLog, AppendResponses
      <4> QED BY <3>1, <4>1, VoteLogStable
    <3>3. ASSUME rsp[p][s].type = "ack" PROVE propHist'[p] # <<>> /\ rsp[p][s].term >= propTerm'[p]
      BY <2>1, <2>3, <3>3 DEF LinkLog, LeadersGrow, Elected
    <3> QED BY <3>1, <3>2, <3>3 DEF ReplyNext
  <2>4. rsp'[p][s] # None => ReplyNext(p, rsp'[p][s])
    BY <2>3 DEF RepliesStep
  <2>5. ASSUME vote'[p][s] # None PROVE VoteLogNext(p, vote'[p][s]) /\ vote'[p][s].given
    <3>1. CASE vote'[p][s] = vote[p][s]
      <4>1. wpState[p] # "COLLECTING_TERMS" /\ vote[p][s] \in VoteResponses
            /\ VoteLog(p, vote[p][s]) /\ vote[p][s].given
        BY <2>1, <2>2, <2>5, <3>1 DEF ElectionOK, LinkLog
      <4>2. VoteLogNext(p, vote[p][s])
        BY <4>1, VoteLogStable
      <4> QED BY <3>1, <4>1, <4>2
    <3>2. CASE /\ rsp[p][s] # None /\ rsp[p][s].type = "vote" /\ rsp[p][s].given
               /\ vote'[p][s] = rsp[p][s]
      BY <2>3, <3>2 DEF ReplyNext
    <3> QED BY <2>5, <3>1, <3>2 DEF VotesStep
  <2>6. ASSUME skState'[p][s] = "ACTIVE"
        PROVE  /\ streamingAt'[p][s] <= AvailableLsn(p)'
               /\ \/ Follows(p, s)'
                  \/ \E j \in 1..Len(q'["live"][p][s]) : q'["live"][p][s][j].type = "elected"
    <3>1. ActiveStep(p, s)
      BY DEF LinksStep
    <3>2. ASSUME skState[p][s] = "ACTIVE" PROVE Elected(p) /\ Elected(p)'
      BY <2>1, <3>2 DEF LinkOK, TypeInv, SupportInv, ProposerOK, LeadersGrow, Elected
    <3>3. streamingAt'[p][s] <= AvailableLsn(p)'
      <4>1. CASE skState[p][s] = "ACTIVE" /\ streamingAt'[p][s] = streamingAt[p][s]
        <5>1. streamingAt[p][s] <= AvailableLsn(p) /\ Extended(propWal[p], propWal'[p])
          BY <2>1, <3>2, <4>1 DEF LinkLog, LeadersGrow
        <5>2. streamingAt[p][s] \in Nat /\ Len(propWal[p]) \in Nat /\ Len(propWal'[p]) \in Nat
          BY LogLength, ConstantsType DEF TypeInv, TypeOK, WpTypeOK, LinkTypeOK
        <5> QED BY <4>1, <5>1, <5>2 DEF AvailableLsn, Extended
      <4> QED BY <2>6, <3>1, <4>1 DEF ActiveStep
    <3>4. \/ Follows(p, s)'
          \/ \E j \in 1..Len(q'["live"][p][s]) : q'["live"][p][s][j].type = "elected"
      <4>1. CASE skState[p][s] = "ACTIVE" /\ (Taken("live", p, s) \/ Sent("live", p, s))
        <5>1. q["live"][p][s] \in Seq(Messages)
          BY DEF TypeInv, TypeOK, NetTypeOK, Chan
        <5>2. Follows(p, s) => Follows(p, s)'
          BY <1>2, <3>2, <4>1
        <5>3. Follows(p, s) \/ \E j \in 1..Len(q["live"][p][s]) : q["live"][p][s][j].type = "elected"
          BY <2>1, <4>1 DEF LinkLog
        <5>4. ASSUME NEW j \in 1..Len(q["live"][p][s]), q["live"][p][s][j].type = "elected"
              PROVE  \/ Follows(p, s)'
                     \/ \E i \in 1..Len(q'["live"][p][s]) : q'["live"][p][s][i].type = "elected"
          <6>1. CASE q'["live"][p][s] = q["live"][p][s]
            BY <5>4, <6>1
          <6>2. CASE /\ q["live"][p][s] # <<>> /\ q'["live"][p][s] = Tail(q["live"][p][s])
                     /\ Head(q["live"][p][s]).type = "elected" => Follows(p, s)'
            <7>1. CASE j = 1
              BY <5>1, <5>4, <6>2, <7>1
            <7>2. CASE j # 1
              <8>1. j - 1 \in 1..Len(q'["live"][p][s])
                    /\ q'["live"][p][s][j - 1] = q["live"][p][s][j]
                BY <5>1, <6>2, <7>2
              <8> QED BY <5>4, <8>1
            <7> QED BY <7>1, <7>2
          <6>3. CASE Sent("live", p, s)
            <7>1. PICK m \in Messages : q'["live"][p][s] = Append(q["live"][p][s], m)
              BY <6>3 DEF Sent
            <7>2. j \in 1..Len(q'["live"][p][s]) /\ q'["live"][p][s][j] = q["live"][p][s][j]
              BY <5>1, <7>1
            <7> QED BY <5>4, <7>2
          <6> QED BY <4>1, <6>1, <6>2, <6>3 DEF Taken
        <5> QED BY <5>2, <5>3, <5>4
      <4> QED BY <2>6, <3>1, <4>1 DEF ActiveStep
    <3> QED BY <3>3, <3>4
  <2> QED
    BY <2>4, <2>5, <2>6
    DEF LinkLog, ReplyNext, VoteLog, VoteLogNext, HasDurable, HasDurableNext, Elected, PropTermStartLsn
<1>4. ASSUME NEW k \in Chan, NEW p \in Proposers, NEW s \in Safekeepers
      PROVE  ConnectionLog(k, p, s)'
  <2>1. QueueStep(k, p, s) /\ DirtyStep(k, p, s)
    BY DEF LinksStep
  <2>2. ASSUME NEW i \in 1..Len(q'[k][p][s]), q'[k][p][s][i].type = "append"
        PROVE  Follows(p, s)' \/ \E j \in 1..(i - 1) : q'[k][p][s][j].type = "elected"
    BY <2>1, <2>2, QueueStable
  <2>3. ASSUME dirty'[k][p][s] PROVE Elected(p)' /\ Follows(p, s)'
    <3>1. ASSUME NEW c \in Chan, dirty[c][p][s] PROVE Elected(p) /\ Follows(p, s)'
      <4>1. Elected(p) /\ Follows(p, s)
        BY <3>1 DEF LogInv, ConnectionLog
      <4> QED BY <1>2, <4>1
    <3>2. Elected(p) /\ Follows(p, s)'
      BY <2>1, <2>3, <3>1 DEF DirtyStep, Chan
    <3> QED BY <3>2 DEF LeadersGrow, Elected
  <2> QED BY <2>2, <2>3 DEF ConnectionLog
<1> QED BY <1>1, <1>3, <1>4 DEF LogInv

-----------------------------------------------------------------------------
(* Parts that a step leaves alone, and what it does to connections.        *)

(* Proposers that are left alone.                                          *)
LEMMA ProposersRest ==
    ASSUME TypeInv, UNCHANGED <<wpState, propTerm, propHist, propWal>>
    PROVE  LeadersGrow /\ LeadersStep
<1>1. \A p \in Proposers : Extended(propWal[p], propWal'[p])
  BY LogTypes DEF Extended
<1> QED BY <1>1 DEF LeadersGrow, LeadersStep, Elected

(* A safekeeper that loses the end of its WAL, or nothing.                 *)
LEMMA SafekeeperLogKept ==
    ASSUME TypeInv, TypeInv', LeadersGrow, NEW s \in Safekeepers, SafekeeperLog(s),
           hist'[s] = hist[s], term[s] <= term'[s], Len(wal'[s]) <= Len(wal[s]),
           \A x \in 1..Len(wal'[s]) : wal'[s][x] = wal[s][x],
           flushLsn'[s] <= Len(wal'[s]) + 1, flushLsn'[s] = 0 <=> flushLsn[s] = 0
    PROVE  SafekeeperLog(s)'
<1>1. /\ Len(wal[s]) \in Nat /\ Len(wal'[s]) \in Nat /\ term[s] \in Nat /\ term'[s] \in Nat
      /\ wal'[s] \in Seq([term : Terms, lsn : 1..MaxLsn])
  BY LogTypes, LogLength, ConstantsType DEF TypeInv, TypeOK, SkTypeOK, Logs
<1>2. HasLogNext(hist[s], wal[s], term'[s])
  BY <1>1, HasLogStable DEF SafekeeperLog
<1>3. HasLogNext(hist[s], wal'[s], term'[s])
  <2>1. CASE hist[s] = Root /\ wal[s] = <<>>
    <3>1. wal'[s] = <<>>
      <4> DEFINE E == [term : Terms, lsn : 1..MaxLsn]
      <4>1. wal'[s] \in Seq(E) /\ Len(wal'[s]) = 0
        BY <1>1, <2>1
      <4> HIDE DEF E
      <4> QED BY <4>1
    <3> QED BY <2>1, <3>1 DEF HasLogNext
  <2>2. CASE \E r \in Proposers :
               /\ propHist'[r] # <<>> /\ hist[s] = propHist'[r] /\ propTerm'[r] <= term'[s]
               /\ Agree(wal[s], propWal'[r], Len(wal[s]) + 1)
    <3>1. PICK r \in Proposers :
               /\ propHist'[r] # <<>> /\ hist[s] = propHist'[r] /\ propTerm'[r] <= term'[s]
               /\ Agree(wal[s], propWal'[r], Len(wal[s]) + 1)
      BY <2>2
    <3>2. Len(propWal'[r]) \in Nat
      BY LogLength DEF TypeInv, TypeOK, WpTypeOK
    <3>3. Agree(wal'[s], propWal'[r], Len(wal'[s]) + 1)
      <4>1. Len(wal'[s]) + 1 <= Len(propWal'[r]) + 1
        BY <1>1, <3>1, <3>2 DEF Agree
      <4>2. ASSUME NEW x \in 1..((Len(wal'[s]) + 1) - 1) PROVE wal'[s][x] = propWal'[r][x]
        <5>1. x \in 1..Len(wal'[s]) /\ x \in 1..((Len(wal[s]) + 1) - 1)
          BY <1>1
        <5> QED BY <3>1, <5>1 DEF Agree
      <4> QED BY <1>1, <4>1, <4>2 DEF Agree
    <3> QED BY <3>1, <3>3 DEF HasLogNext
  <2> QED BY <1>2, <2>1, <2>2 DEF HasLogNext
<1>4. flushLsn'[s] = 0 <=> hist'[s] = <<>>
  BY DEF SafekeeperLog
<1> QED BY <1>3, <1>4 DEF SafekeeperLog, HasLog, HasLogNext, Elected

(* Safekeepers whose log is left alone.                                    *)
LEMMA SafekeepersRest ==
    ASSUME TypeInv, TypeInv', LogInv, LeadersGrow, UNCHANGED <<term, hist, wal, flushLsn>>
    PROVE  HistoriesStep /\ \A s \in Safekeepers : SafekeeperLog(s)'
<1>1. ASSUME NEW s \in Safekeepers PROVE SafekeeperLog(s)'
  <2>1. SafekeeperLog(s)
    BY DEF LogInv
  <2>2. term[s] <= term'[s] /\ Len(wal'[s]) <= Len(wal[s])
    BY LogTypes
  <2>3. flushLsn'[s] <= Len(wal'[s]) + 1
    BY <2>1 DEF SafekeeperLog
  <2> QED BY <2>1, <2>2, <2>3, SafekeeperLogKept
<1>2. \A s \in Safekeepers : term[s] <= term'[s]
  BY LogTypes
<1> QED BY <1>1, <1>2 DEF HistoriesStep

(* Connections that are left alone.                                        *)
LEMMA LinksRest ==
    ASSUME UNCHANGED <<q, dirty, skState, streamingAt>>
    PROVE  LinksStep
BY DEF LinksStep, QueueStep, Taken, DirtyStep, ActiveStep

(* A message is handled.                                                   *)
LEMMA ConsumeStep ==
    ASSUME TypeInv, NEW k \in Chan, NEW p \in Proposers, NEW s \in Safekeepers,
           NEW type, Received(k, p, s, type), Consume(k, p, s),
           type = "elected" => Follows(p, s)',
           UNCHANGED <<skState, streamingAt>>,
           \A c \in Chan, r \in Proposers, x \in Safekeepers : DirtyStep(c, r, x)
    PROVE  LinksStep
<1>1. q \in [Chan -> [Proposers -> [Safekeepers -> Seq(Messages)]]]
  BY DEF TypeInv, TypeOK, NetTypeOK
<1>2. q' = [q EXCEPT ![k][p][s] = Tail(q[k][p][s])]
  BY DEF Consume
<1>3. ASSUME NEW c \in Chan, NEW r \in Proposers, NEW x \in Safekeepers PROVE Taken(c, r, x)
  <2>1. CASE <<c, r, x>> = <<k, p, s>>
    <3>1. q'[c][r][x] = Tail(q[c][r][x])
      BY <1>1, <1>2, <2>1
    <3> QED BY <2>1, <3>1 DEF Taken, Received
  <2>2. CASE <<c, r, x>> # <<k, p, s>>
    BY <1>1, <1>2, <2>2 DEF Taken
  <2> QED BY <2>1, <2>2
<1>4. ASSUME NEW r \in Proposers, NEW x \in Safekeepers PROVE ActiveStep(r, x)
  <2>1. Taken("live", r, x)
    BY <1>3 DEF Chan
  <2> QED BY <2>1 DEF ActiveStep
<1> QED BY <1>3, <1>4 DEF LinksStep, QueueStep

(* A connection is closed by the safekeeper ...                            *)
LEMMA CloseStep ==
    ASSUME TypeInv, NEW k \in Chan, NEW p \in Proposers, NEW s \in Safekeepers,
           CloseOnError(k, p, s)
    PROVE  LinksStep /\ RepliesStep /\ VotesStep
<1>1. LinkTypeOK /\ NetTypeOK
  BY DEF TypeInv, TypeOK
<1>2. /\ \/ k # "live" /\ UNCHANGED <<skState, streamingAt, rsp>>
         \/ /\ skState' = [skState EXCEPT ![p][s] = "OFFLINE"]
            /\ streamingAt' = [streamingAt EXCEPT ![p][s] = 0]
            /\ rsp' = [rsp EXCEPT ![p][s] = None]
      /\ q' = [q EXCEPT ![k][p][s] = <<>>]
      /\ dirty' = [dirty EXCEPT ![k][p][s] = FALSE]
      /\ UNCHANGED vote
  BY DEF CloseOnError
<1>3. ASSUME NEW r \in Proposers, NEW x \in Safekeepers
      PROVE  /\ rsp'[r][x] = rsp[r][x] \/ rsp'[r][x] = None
             /\ \/ skState'[r][x] = "OFFLINE"
                \/ /\ skState'[r][x] = skState[r][x] /\ streamingAt'[r][x] = streamingAt[r][x]
                   /\ k # "live" \/ <<r, x>> # <<p, s>>
  <2>1. CASE k # "live" /\ UNCHANGED <<skState, streamingAt, rsp>>
    BY <2>1
  <2>2. CASE /\ skState' = [skState EXCEPT ![p][s] = "OFFLINE"]
             /\ streamingAt' = [streamingAt EXCEPT ![p][s] = 0]
             /\ rsp' = [rsp EXCEPT ![p][s] = None]
    BY <1>1, <2>2 DEF LinkTypeOK, NetTypeOK
  <2> QED BY <1>2, <2>1, <2>2
<1>4. ASSUME NEW c \in Chan, NEW r \in Proposers, NEW x \in Safekeepers
      PROVE  /\ q'[c][r][x] = <<>> \/ q'[c][r][x] = q[c][r][x]
             /\ <<c, r, x>> # <<k, p, s>> => q'[c][r][x] = q[c][r][x]
             /\ dirty'[c][r][x] => dirty[c][r][x]
  <2>1. /\ q'[c][r][x] = <<>> \/ q'[c][r][x] = q[c][r][x]
        /\ <<c, r, x>> # <<k, p, s>> => q'[c][r][x] = q[c][r][x]
    <3>1. CASE <<c, r, x>> = <<k, p, s>>
      BY <1>1, <1>2, <3>1 DEF NetTypeOK
    <3>2. CASE <<c, r, x>> # <<k, p, s>>
      BY <1>1, <1>2, <3>2 DEF NetTypeOK
    <3> QED BY <3>1, <3>2
  <2>2. dirty'[c][r][x] = FALSE \/ dirty'[c][r][x] = dirty[c][r][x]
    <3>1. /\ dirty \in [Chan -> [Proposers -> [Safekeepers -> BOOLEAN]]]
          /\ dirty' = [dirty EXCEPT ![k][p][s] = FALSE]
      BY <1>1, <1>2 DEF NetTypeOK
    <3>2. CASE c = k /\ r = p /\ x = s
      BY <3>1, <3>2
    <3>3. CASE ~(c = k /\ r = p /\ x = s)
      BY <3>1, <3>3
    <3> QED BY <3>2, <3>3
  <2> QED BY <2>1, <2>2
<1>5. ASSUME NEW r \in Proposers, NEW x \in Safekeepers PROVE ActiveStep(r, x)
  <2>1. CASE skState'[r][x] = "OFFLINE"
    BY <2>1 DEF ActiveStep
  <2>2. CASE /\ skState'[r][x] = skState[r][x] /\ streamingAt'[r][x] = streamingAt[r][x]
             /\ k # "live" \/ <<r, x>> # <<p, s>>
    <3>1. q'["live"][r][x] = q["live"][r][x]
      BY <1>4, <2>2 DEF Chan
    <3> QED BY <2>2, <3>1 DEF ActiveStep, Taken
  <2> QED BY <1>3, <2>1, <2>2
<1>6. \A c \in Chan, r \in Proposers, x \in Safekeepers : QueueStep(c, r, x) /\ DirtyStep(c, r, x)
  BY <1>4 DEF QueueStep, Taken, DirtyStep
<1> QED BY <1>2, <1>3, <1>5, <1>6 DEF LinksStep, RepliesStep, VotesStep

(* ... or by the proposer.                                                 *)
LEMMA ShutdownStep ==
    ASSUME TypeInv, NEW L, ShutdownConnection(L)
    PROVE  LinksStep /\ RepliesStep
<1>1. ASSUME NEW p \in Proposers, NEW s \in Safekeepers
      PROVE  /\ rsp'[p][s] = rsp[p][s] \/ rsp'[p][s] = None
             /\ \/ skState'[p][s] = "OFFLINE"
                \/ /\ skState'[p][s] = skState[p][s] /\ streamingAt'[p][s] = streamingAt[p][s]
                   /\ <<p, s>> \notin L
  BY DEF ShutdownConnection
<1>2. ASSUME NEW k \in Chan, NEW p \in Proposers, NEW s \in Safekeepers
      PROVE  /\ \/ q'[k][p][s] = <<>> \/ q'[k][p][s] = q[k][p][s]
                \/ k = "late" /\ q'[k][p][s] = q["live"][p][s]
             /\ <<p, s>> \notin L => q'[k][p][s] = q[k][p][s]
             /\ \/ dirty'[k][p][s] = FALSE \/ dirty'[k][p][s] = dirty[k][p][s]
                \/ dirty'[k][p][s] = dirty["live"][p][s]
  <2>1. CASE k = "live"
    BY <2>1 DEF ShutdownConnection
  <2>2. CASE k = "late"
    BY <2>2 DEF ShutdownConnection
  <2> QED BY <2>1, <2>2 DEF Chan
<1>3. \A k \in Chan, p \in Proposers, s \in Safekeepers : QueueStep(k, p, s)
  BY <1>2 DEF QueueStep, Taken
<1>4. \A k \in Chan, p \in Proposers, s \in Safekeepers : DirtyStep(k, p, s)
  BY <1>2 DEF DirtyStep
<1>5. ASSUME NEW p \in Proposers, NEW s \in Safekeepers PROVE ActiveStep(p, s)
  <2>1. <<p, s>> \notin L => q'["live"][p][s] = q["live"][p][s]
    BY <1>2 DEF Chan
  <2> QED BY <1>1, <2>1 DEF ActiveStep, Taken
<1> QED BY <1>1, <1>3, <1>4, <1>5 DEF LinksStep, RepliesStep

(* A restart closes every connection.                                      *)
LEMMA BootStep ==
    ASSUME TypeInv, NEW s \in Safekeepers, NEW commit, NEW horizon, NEW w,
           Boot(s, commit, horizon, w)
    PROVE  LinksStep /\ RepliesStep /\ VotesStep
<1>1. LinkTypeOK /\ NetTypeOK
  BY DEF TypeInv, TypeOK
<1>2. ASSUME NEW r \in Proposers, NEW x \in Safekeepers
      PROVE  /\ rsp'[r][x] = rsp[r][x] \/ rsp'[r][x] = None
             /\ \/ skState'[r][x] = "OFFLINE"
                \/ /\ skState'[r][x] = skState[r][x] /\ streamingAt'[r][x] = streamingAt[r][x]
                   /\ x # s
  BY <1>1 DEF Boot, LinkTypeOK, NetTypeOK
<1>3. ASSUME NEW k \in Chan, NEW r \in Proposers, NEW x \in Safekeepers
      PROVE  /\ q'[k][r][x] = <<>> \/ q'[k][r][x] = q[k][r][x]
             /\ x # s => q'[k][r][x] = q[k][r][x]
             /\ dirty'[k][r][x] = FALSE \/ dirty'[k][r][x] = dirty[k][r][x]
  <2>1. /\ q' = [c \in Chan |-> [p \in Proposers |-> [q[c][p] EXCEPT ![s] = <<>>]]]
        /\ dirty' = [c \in Chan |-> [p \in Proposers |-> [dirty[c][p] EXCEPT ![s] = FALSE]]]
    BY DEF Boot
  <2>2. /\ q'[k][r] = [q[k][r] EXCEPT ![s] = <<>>] /\ dirty'[k][r] = [dirty[k][r] EXCEPT ![s] = FALSE]
    BY <2>1
  <2>3. /\ q[k][r] \in [Safekeepers -> Seq(Messages)] /\ dirty[k][r] \in [Safekeepers -> BOOLEAN]
    BY <1>1 DEF NetTypeOK
  <2> QED BY <2>2, <2>3
<1>4. ASSUME NEW k \in Chan, NEW r \in Proposers, NEW x \in Safekeepers
      PROVE  QueueStep(k, r, x) /\ DirtyStep(k, r, x)
  <2>1. QueueStep(k, r, x)
    BY <1>3 DEF QueueStep, Taken
  <2>2. DirtyStep(k, r, x)
    BY <1>3 DEF DirtyStep
  <2> QED BY <2>1, <2>2
<1>5. ASSUME NEW r \in Proposers, NEW x \in Safekeepers PROVE ActiveStep(r, x)
  <2>1. x # s => q'["live"][r][x] = q["live"][r][x]
    BY <1>3 DEF Chan
  <2> QED BY <1>2, <2>1 DEF ActiveStep, Taken
<1>6. UNCHANGED vote
  BY DEF Boot
<1> QED BY <1>2, <1>4, <1>5, <1>6 DEF LinksStep, RepliesStep, VotesStep

-----------------------------------------------------------------------------
(* Steps of safekeepers.                                                   *)

(* The next message on a connection.                                       *)
LEMMA HeadRequest ==
    ASSUME TypeInv, NEW k \in Chan, NEW p \in Proposers, NEW s \in Safekeepers,
           NEW type, Received(k, p, s, type)
    PROVE  /\ Head(q[k][p][s]) \in Messages /\ Head(q[k][p][s]).type = type
           /\ Head(q[k][p][s]) = q[k][p][s][1] /\ 1 \in 1..Len(q[k][p][s])
           /\ RequestOK(p, Head(q[k][p][s]))
           /\ Head(q[k][p][s]).lo \in Nat /\ Head(q[k][p][s]).hi \in Nat
           /\ Head(q[k][p][s]).commit \in Nat
<1>1. q[k][p][s] \in Seq(Messages) /\ q[k][p][s] # <<>>
  BY DEF Received, TypeInv, TypeOK, NetTypeOK
<1>2. Head(q[k][p][s]) = q[k][p][s][1] /\ Head(q[k][p][s]) \in Messages /\ 1 \in 1..Len(q[k][p][s])
  BY <1>1
<1>3. RequestOK(p, q[k][p][s][1])
  BY <1>2 DEF TypeInv, SupportInv, QueueOK
<1>4. Head(q[k][p][s]).lo \in Lsns /\ Head(q[k][p][s]).hi \in Lsns /\ Head(q[k][p][s]).commit \in Lsns
  BY <1>2 DEF Messages
<1> QED BY <1>2, <1>3, <1>4, ConstantsType DEF Received

(* Everything written is flushed, by a flush or before a vote.             *)
LEMMA FlushLog ==
    ASSUME TypeInv, TypeInv', LogInv, LeadersGrow, NEW s \in Safekeepers, FlushWal(s),
           UNCHANGED <<hist, wal>>, \A x \in Safekeepers : term[x] <= term'[x]
    PROVE  HistoriesStep /\ \A x \in Safekeepers : SafekeeperLog(x)'
<1>1. ASSUME NEW x \in Safekeepers PROVE SafekeeperLog(x)'
  <2>1. SafekeeperLog(x)
    BY DEF LogInv
  <2>2. /\ WriteLsn(s) \in Lsns /\ (WriteLsn(s) = 0 <=> flushLsn[s] = 0)
        /\ WriteLsn(s) # 0 => WriteLsn(s) = Len(wal[s]) + 1
    BY WriteLsnType
  <2>3. flushLsn' = [flushLsn EXCEPT ![s] = WriteLsn(s)] /\ flushLsn \in [Safekeepers -> Lsns]
    BY DEF FlushWal, TypeInv, TypeOK, SkTypeOK
  <2>4. Len(wal[x]) \in Nat
    BY LogTypes
  <2>5. flushLsn'[x] <= Len(wal'[x]) + 1 /\ (flushLsn'[x] = 0 <=> flushLsn[x] = 0)
    <3>1. CASE x = s
      <4>1. flushLsn'[x] = WriteLsn(s)
        BY <2>3, <3>1
      <4> QED BY <2>2, <2>4, <3>1, <4>1
    <3>2. CASE x # s
      BY <2>1, <2>3, <3>2 DEF SafekeeperLog
    <3> QED BY <3>1, <3>2
  <2>6. term[x] <= term'[x] /\ Len(wal'[x]) <= Len(wal[x])
    BY <2>4
  <2> QED BY <2>1, <2>5, <2>6, SafekeeperLogKept
<1> QED BY <1>1 DEF HistoriesStep

(* A later term makes no difference to what is durable.                    *)
LEMMA DurableLater ==
    ASSUME TypeInv, NEW th, NEW w, NEW f, NEW t \in Nat, NEW t2 \in Nat, t <= t2,
           HasDurable(th, w, f, t)
    PROVE  HasDurable(th, w, f, t2)
<1>1. \A r \in Proposers : propTerm[r] <= t => propTerm[r] <= t2
  BY LogTypes
<1> QED BY <1>1 DEF HasDurable

(* handle_vote_request: the vote describes WAL of leaders before p.        *)
LEMMA HandleVoteRequestLog ==
    ASSUME TypeInv, VotesInv, LogInv, TypeInv',
           NEW k \in Chan, NEW p \in Proposers, NEW s \in Safekeepers, HandleVoteRequest(k, p, s)
    PROVE  LogInv'
<1> DEFINE granted == VoteGranted(p, s)
           t == IF granted THEN propTerm[p] ELSE term[s]
           f == WriteLsn(s)
           th == UpTo(hist[s], f)
           v == VoteResponse(t, granted, f, memHorizon[s], th, wal[s])
<1>1. /\ Received(k, p, s, "vote") /\ Consume(k, p, s) /\ FlushWal(s)
      /\ term' = [term EXCEPT ![s] = t] /\ Reply(k, p, s, v)
      /\ UNCHANGED <<hist, wal, dirty>> /\ UNCHANGED wpVars /\ UNCHANGED linkVars
  BY DEF HandleVoteRequest
<1>2. /\ hist[s] \in TermHistories /\ Len(wal[s]) \in Nat /\ term[s] \in Nat /\ propTerm[p] \in Nat
  BY LogTypes
<1>3. /\ f \in Nat /\ (f = 0 <=> flushLsn[s] = 0) /\ (f # 0 => f = Len(wal[s]) + 1)
  BY WriteLsnType, ConstantsType
<1>4. SafekeeperLog(s) /\ Leaders /\ Started(s)
  BY DEF LogInv, Leaders, TypeInv, SupportInv
<1>5. granted \in BOOLEAN /\ (granted => term[s] < propTerm[p]) /\ (~granted => term[s] >= propTerm[p])
  BY <1>2 DEF VoteGranted
<1>6. LeadersGrow /\ LeadersStep
  BY <1>1, ProposersRest DEF wpVars
<1>7. t \in Nat /\ term[s] <= t
  BY <1>2, <1>5
<1> HIDE DEF granted
<1>8. \A x \in Safekeepers : term[x] <= term'[x]
  <2>1. term \in [Safekeepers -> Terms]
    BY DEF TypeInv, TypeOK, SkTypeOK
  <2> QED BY <1>1, <1>7, <2>1, LogTypes
<1>9. HistoriesStep /\ \A x \in Safekeepers : SafekeeperLog(x)'
  BY <1>1, <1>6, <1>8, FlushLog
<1>10. VotesStep /\ UNCHANGED <<skState, streamingAt>>
  BY <1>1 DEF VotesStep, linkVars
<1>11. LinksStep
  <2>1. \A c \in Chan, r \in Proposers, x \in Safekeepers : DirtyStep(c, r, x)
    BY <1>1 DEF DirtyStep
  <2> QED BY <1>1, <1>10, <2>1, ConsumeStep
<1> HIDE DEF f
<1>12. HasDurable(th, wal[s], f, term[s]) /\ th \in TermHistories
  <2>1. f <= Len(wal[s]) + 1 /\ (f = 0 <=> hist[s] = <<>>) /\ HasLog(hist[s], wal[s], term[s])
    BY <1>2, <1>3, <1>4 DEF SafekeeperLog
  <2> QED BY <1>2, <1>3, <1>4, <2>1, DurableLog
<1>13. HasDurable(th, wal[s], f, t) /\ HighestTerm(th) <= term[s] /\ HighestTerm(th) \in Nat
  <2>1. HighestTerm(th) <= term[s] /\ HighestTerm(th) \in Nat
    BY <1>2, <1>12, DurableTerm
  <2> HIDE DEF th, t
  <2> QED BY <1>2, <1>7, <1>12, <2>1, DurableLater
<1>14. HasDurableNext(th, wal[s], f, t)
  <2> HIDE DEF th, t
  <2> QED BY <1>2, <1>3, <1>6, <1>7, <1>13, HasDurableStable
<1>15. /\ f # 0 => f = Len(wal[s]) + 1
       /\ th = <<>> => wal[s] = <<>>
       /\ granted => t = propTerm[p] /\ HighestTerm(th) < propTerm[p]
       /\ ~granted => t >= propTerm[p]
  <2>1. th = <<>> => wal[s] = <<>>
    BY <1>3, <1>4, <1>12 DEF HasDurable, Started
  <2> QED BY <1>2, <1>3, <1>5, <1>13, <2>1
<1>16. wpState[p] # "COLLECTING_TERMS"
  BY <1>1, HeadRequest DEF RequestOK
<1>17. ReplyNext(p, v)
  <2> HIDE DEF th, t
  <2>1. /\ v.type = "vote" /\ v.hist = th /\ v.wal = wal[s] /\ v.flush = f /\ v.term = t
        /\ v.given = granted
    BY DEF VoteResponse
  <2> HIDE DEF v
  <2>2. UNCHANGED propTerm /\ UNCHANGED wpState
    BY <1>1 DEF wpVars
  <2>3. VoteLogNext(p, v)
    BY <1>14, <1>15, <2>1, <2>2 DEF VoteLogNext
  <2> QED BY <1>16, <2>1, <2>2, <2>3 DEF ReplyNext
<1>18. RepliesStep
  <2> HIDE DEF v
  <2>1. rsp' = rsp \/ rsp' = [rsp EXCEPT ![p][s] = v]
    BY <1>1 DEF Reply
  <2>2. \A x \in Proposers, y \in Safekeepers :
          rsp'[x][y] = rsp[x][y] \/ (x = p /\ y = s /\ rsp'[x][y] = v)
    BY <2>1 DEF TypeInv, TypeOK, NetTypeOK
  <2> QED BY <1>17, <2>2 DEF RepliesStep
<1> QED BY <1>6, <1>9, <1>10, <1>11, <1>18, LogStep

(* ProposerElected is ignored, or refused.                                 *)
LEMMA ElectedRefusedLog ==
    ASSUME TypeInv, VotesInv, LogInv, TypeInv',
           NEW k \in Chan, NEW p \in Proposers, NEW s \in Safekeepers,
           IgnoreElected(k, p, s) \/ RefuseElected(k, p, s)
    PROVE  LogInv'
<1>1. CASE IgnoreElected(k, p, s)
  <2>1. /\ Received(k, p, s, "elected") /\ term[s] > propTerm[p] /\ Consume(k, p, s)
        /\ UNCHANGED <<term, hist, wal, flushLsn>> /\ UNCHANGED wpVars
        /\ UNCHANGED linkVars /\ UNCHANGED <<dirty, rsp>>
    BY <1>1 DEF IgnoreElected, FromOldTerm, skVars
  <2>2. LeadersGrow /\ LeadersStep
    BY <2>1, ProposersRest DEF wpVars
  <2>3. HistoriesStep /\ \A x \in Safekeepers : SafekeeperLog(x)'
    BY <2>1, <2>2, SafekeepersRest
  <2>4. Follows(p, s)'
    BY <2>1 DEF Follows, wpVars
  <2>5. LinksStep
    <3>1. \A c \in Chan, r \in Proposers, x \in Safekeepers : DirtyStep(c, r, x)
      BY <2>1 DEF DirtyStep
    <3>2. UNCHANGED <<skState, streamingAt>>
      BY <2>1 DEF linkVars
    <3> QED BY <2>1, <2>4, <3>1, <3>2, ConsumeStep
  <2>6. RepliesStep /\ VotesStep
    BY <2>1 DEF RepliesStep, VotesStep, linkVars
  <2> QED BY <2>2, <2>3, <2>5, <2>6, LogStep
<1>2. CASE RefuseElected(k, p, s)
  <2>1. /\ CloseOnError(k, p, s) /\ term' = [term EXCEPT ![s] = propTerm[p]] /\ term[s] <= propTerm[p]
        /\ UNCHANGED <<hist, wal, flushLsn>> /\ UNCHANGED wpVars
    BY <1>2, LogTypes DEF RefuseElected, RaiseTerm, FromOldTerm
  <2>2. LeadersGrow /\ LeadersStep
    BY <2>1, ProposersRest DEF wpVars
  <2>3. \A x \in Safekeepers : term[x] <= term'[x]
    <3>1. term \in [Safekeepers -> Terms]
      BY DEF TypeInv, TypeOK, SkTypeOK
    <3> QED BY <2>1, <3>1, LogTypes
  <2>4. ASSUME NEW x \in Safekeepers PROVE SafekeeperLog(x)'
    <3>1. SafekeeperLog(x)
      BY DEF LogInv
    <3>2. Len(wal'[x]) <= Len(wal[x]) /\ flushLsn'[x] <= Len(wal'[x]) + 1
      BY <2>1, <3>1, LogTypes DEF SafekeeperLog
    <3> QED BY <2>1, <2>2, <2>3, <3>1, <3>2, SafekeeperLogKept
  <2>5. HistoriesStep
    BY <2>1, <2>3 DEF HistoriesStep
  <2>6. LinksStep /\ RepliesStep /\ VotesStep
    BY <2>1, CloseStep
  <2> QED BY <2>2, <2>4, <2>5, <2>6, LogStep
<1> QED BY <1>1, <1>2

(* The records of a WAL below an LSN.                                      *)
LEMMA BelowRecords ==
    ASSUME NEW w \in Logs, NEW l \in Nat, l >= 1, l <= Len(w) + 1
    PROVE  Len(Below(w, l)) = l - 1 /\ \A x \in 1..(l - 1) : Below(w, l)[x] = w[x]
<1> DEFINE R == [term : Terms, lsn : 1..MaxLsn]
<1>1. w \in Seq(R) /\ Len(w) \in Nat
  BY DEF Logs
<1>2. Lower(l - 1, Len(w)) = l - 1
  BY <1>1 DEF Lower
<1> HIDE DEF R
<1> QED BY <1>1, <1>2 DEF Below

(* handle_elected: s has WAL and history of p.                             *)
LEMMA HandleElectedLog ==
    ASSUME TypeInv, VotesInv, LogInv, TypeInv',
           NEW k \in Chan, NEW p \in Proposers, NEW s \in Safekeepers, HandleElected(k, p, s)
    PROVE  LogInv'
<1> DEFINE start == Head(q[k][p][s]).lo
<1>1. /\ Received(k, p, s, "elected") /\ Consume(k, p, s) /\ ~(term[s] > propTerm[p])
      /\ start = ExpectedStart(p, s) /\ ~(WriteLsn(s) # 0 /\ start > WriteLsn(s))
      /\ term' = [term EXCEPT ![s] = propTerm[p]] /\ hist' = [hist EXCEPT ![s] = propHist[p]]
      /\ wal' = [wal EXCEPT ![s] = Below(wal[s], start)]
      /\ flushLsn' = [flushLsn EXCEPT ![s] = start]
      /\ UNCHANGED wpVars /\ UNCHANGED linkVars /\ UNCHANGED <<dirty, rsp>>
  BY DEF HandleElected, FromOldTerm, ElectedRefused, TruncateWal
<1>2. start \in Nat /\ start >= 1 /\ Elected(p)
  <2>1. /\ RequestOK(p, Head(q[k][p][s])) /\ Head(q[k][p][s]).type = "elected" /\ start \in Nat
    BY <1>1, HeadRequest
  <2> QED BY <2>1 DEF RequestOK, Elected
<1> HIDE DEF start
<1>3. /\ term[s] \in Nat /\ propTerm[p] \in Nat /\ term[s] <= propTerm[p]
      /\ wal[s] \in Logs /\ Len(wal[s]) \in Nat /\ Len(propWal[p]) \in Nat
  BY <1>1, LogTypes
<1>4. start <= Len(wal[s]) + 1 /\ Agree(wal[s], propWal[p], start)
  BY <1>1, <1>2, <1>3, CommonPoint DEF LogInv, Leaders
<1>5. LeadersGrow /\ LeadersStep
  BY <1>1, ProposersRest DEF wpVars
<1>6. /\ term'[s] = propTerm[p] /\ hist'[s] = propHist[p] /\ flushLsn'[s] = start
      /\ wal'[s] = Below(wal[s], start)
      /\ \A x \in Safekeepers : x # s =>
           /\ term'[x] = term[x] /\ hist'[x] = hist[x] /\ flushLsn'[x] = flushLsn[x]
           /\ wal'[x] = wal[x]
  BY <1>1 DEF TypeInv, TypeOK, SkTypeOK
<1>7. Len(wal'[s]) = start - 1 /\ \A x \in 1..(start - 1) : wal'[s][x] = wal[s][x]
  BY <1>2, <1>3, <1>4, <1>6, BelowRecords
<1>8. UNCHANGED <<propHist, propTerm, propWal>>
  BY <1>1 DEF wpVars
<1>9. SafekeeperLog(s)'
  <2>1. Agree(wal'[s], propWal'[p], Len(wal'[s]) + 1)
    <3>1. Len(wal'[s]) + 1 = start
      BY <1>2, <1>7
    <3> QED BY <1>2, <1>3, <1>4, <1>7, <1>8, <3>1 DEF Agree
  <2>2. propTerm'[p] <= term'[s] /\ propHist'[p] # <<>> /\ hist'[s] = propHist'[p]
    BY <1>2, <1>3, <1>6, <1>8 DEF Elected
  <2>3. flushLsn'[s] <= Len(wal'[s]) + 1 /\ (flushLsn'[s] = 0 <=> hist'[s] = <<>>)
    BY <1>2, <1>6, <1>7, <2>2
  <2> QED BY <2>1, <2>2, <2>3 DEF SafekeeperLog, HasLog, Elected
<1>10. ASSUME NEW x \in Safekeepers PROVE SafekeeperLog(x)'
  <2>1. CASE x # s
    <3>1. SafekeeperLog(x)
      BY DEF LogInv
    <3>2. /\ term[x] <= term'[x] /\ Len(wal'[x]) <= Len(wal[x])
          /\ flushLsn'[x] <= Len(wal'[x]) + 1
      BY <1>6, <2>1, <3>1, LogTypes DEF SafekeeperLog
    <3> QED BY <1>5, <1>6, <2>1, <3>1, <3>2, SafekeeperLogKept
  <2> QED BY <1>9, <2>1
<1>11. HistoriesStep
  <2>1. ASSUME NEW x \in Safekeepers, x # s PROVE term[x] <= term'[x] /\ hist'[x] = hist[x]
    BY <1>6, <2>1, LogTypes
  <2>2. /\ term[s] <= term'[s]
        /\ \E r \in Proposers : Elected(r) /\ hist'[s] = propHist[r] /\ term'[s] = propTerm[r]
    BY <1>2, <1>3, <1>6
  <2> QED BY <2>1, <2>2 DEF HistoriesStep
<1>12. Follows(p, s)'
  BY <1>6, <1>8 DEF Follows
<1>13. LinksStep
  <2>1. \A c \in Chan, r \in Proposers, x \in Safekeepers : DirtyStep(c, r, x)
    BY <1>1 DEF DirtyStep
  <2>2. UNCHANGED <<skState, streamingAt>>
    BY <1>1 DEF linkVars
  <2> QED BY <1>1, <1>12, <2>1, <2>2, ConsumeStep
<1>14. RepliesStep /\ VotesStep
  BY <1>1 DEF RepliesStep, VotesStep, linkVars
<1> QED BY <1>5, <1>10, <1>11, <1>13, <1>14, LogStep

(* A request with WAL is refused.                                          *)
LEMMA RefuseAppendLog ==
    ASSUME TypeInv, VotesInv, LogInv, TypeInv',
           NEW k \in Chan, NEW p \in Proposers, NEW s \in Safekeepers, RefuseAppend(k, p, s)
    PROVE  LogInv'
<1>1. /\ CloseOnError(k, p, s) /\ UNCHANGED <<term, hist, wal, flushLsn>> /\ UNCHANGED wpVars
  BY DEF RefuseAppend, skVars
<1>2. LeadersGrow /\ LeadersStep
  BY <1>1, ProposersRest DEF wpVars
<1>3. HistoriesStep /\ \A x \in Safekeepers : SafekeeperLog(x)'
  BY <1>1, <1>2, SafekeepersRest
<1>4. LinksStep /\ RepliesStep /\ VotesStep
  BY <1>1, CloseStep
<1> QED BY <1>2, <1>3, <1>4, LogStep

(* A reply to p.                                                           *)
LEMMA ReplyStep ==
    ASSUME TypeInv, NEW k \in Chan, NEW p \in Proposers, NEW s \in Safekeepers,
           NEW r, Reply(k, p, s, r), ReplyNext(p, r)
    PROVE  RepliesStep
<1>1. rsp' = rsp \/ rsp' = [rsp EXCEPT ![p][s] = r]
  BY DEF Reply
<1>2. \A x \in Proposers, y \in Safekeepers :
        rsp'[x][y] = rsp[x][y] \/ (x = p /\ y = s /\ rsp'[x][y] = r)
  BY <1>1 DEF TypeInv, TypeOK, NetTypeOK
<1> QED BY <1>2 DEF RepliesStep

(* An acknowledgement.                                                     *)
LEMMA AckNext ==
    ASSUME TypeInv, NEW p \in Proposers, Elected(p), NEW t, NEW f, t >= propTerm[p],
           UNCHANGED wpVars
    PROVE  ReplyNext(p, AppendResponse(t, f))
<1>1. AppendResponse(t, f).type = "ack" /\ AppendResponse(t, f).term = t
  BY DEF AppendResponse
<1>2. propHist'[p] # <<>> /\ propTerm'[p] = propTerm[p] /\ wpState'[p] # "COLLECTING_TERMS"
  BY DEF wpVars, Elected, TypeInv, SupportInv, ProposerOK
<1> QED BY <1>1, <1>2 DEF ReplyNext

(* WalAcceptor has something to flush.                                     *)
LEMMA DirtyMark ==
    ASSUME TypeInv, NEW k \in Chan, NEW p \in Proposers, NEW s \in Safekeepers,
           dirty' = [dirty EXCEPT ![k][p][s] = TRUE], Elected(p), Follows(p, s)'
    PROVE  \A c \in Chan, r \in Proposers, x \in Safekeepers : DirtyStep(c, r, x)
<1>1. dirty \in [Chan -> [Proposers -> [Safekeepers -> BOOLEAN]]]
  BY DEF TypeInv, TypeOK, NetTypeOK
<1> SUFFICES ASSUME NEW c \in Chan, NEW r \in Proposers, NEW x \in Safekeepers
             PROVE  DirtyStep(c, r, x)
  OBVIOUS
<1>2. CASE c = k /\ r = p /\ x = s
  BY <1>2 DEF DirtyStep
<1>3. CASE ~(c = k /\ r = p /\ x = s)
  <2>1. dirty'[c][r][x] = dirty[c][r][x]
    BY <1>1, <1>3
  <2> QED BY <2>1 DEF DirtyStep
<1> QED BY <1>2, <1>3

(* WAL of an older term is not written.                                    *)
LEMMA AppendOfOldTermLog ==
    ASSUME TypeInv, VotesInv, LogInv, TypeInv',
           NEW k \in Chan, NEW p \in Proposers, NEW s \in Safekeepers, AppendOfOldTerm(k, p, s)
    PROVE  LogInv'
<1>1. /\ Received(k, p, s, "append") /\ Consume(k, p, s) /\ term[s] > propTerm[p]
      /\ dirty' = [dirty EXCEPT ![k][p][s] = TRUE]
      /\ Reply(k, p, s, AppendResponse(term[s], 0))
      /\ UNCHANGED <<term, hist, wal, flushLsn>> /\ UNCHANGED wpVars /\ UNCHANGED linkVars
  BY DEF AppendOfOldTerm, skVars
<1>2. LeadersGrow /\ LeadersStep
  BY <1>1, ProposersRest DEF wpVars
<1>3. HistoriesStep /\ \A x \in Safekeepers : SafekeeperLog(x)'
  BY <1>1, <1>2, SafekeepersRest
<1>4. Elected(p)
  BY <1>1, HeadRequest DEF RequestOK, Elected
<1>5. Follows(p, s)'
  BY <1>1 DEF Follows, wpVars
<1>6. \A c \in Chan, r \in Proposers, x \in Safekeepers : DirtyStep(c, r, x)
  BY <1>1, <1>4, <1>5, DirtyMark
<1>7. LinksStep
  <2>1. UNCHANGED <<skState, streamingAt>>
    BY <1>1 DEF linkVars
  <2> QED BY <1>1, <1>6, <2>1, ConsumeStep
<1>8. RepliesStep
  <2>1. term[s] >= propTerm[p]
    BY <1>1, LogTypes
  <2>2. ReplyNext(p, AppendResponse(term[s], 0))
    BY <1>1, <1>4, <2>1, AckNext
  <2> QED BY <1>1, <2>2, ReplyStep
<1>9. VotesStep
  BY <1>1 DEF VotesStep, linkVars
<1> QED BY <1>2, <1>3, <1>7, <1>8, <1>9, LogStep

(* WAL w with what v has beyond it, below hi.                              *)
Continued(w, v, hi) == w \o SubSeq(v, Len(w) + 1, hi - 1)

(* What an accepted request appends is where it is in the proposer's WAL.  *)
LEMMA AppendedRecords ==
    ASSUME NEW w \in Logs, NEW v \in Logs, Agree(w, v, Len(w) + 1),
           NEW hi \in Nat, hi <= Len(v) + 1
    PROVE  /\ Len(Continued(w, v, hi)) \in Nat /\ Len(w) <= Len(Continued(w, v, hi))
           /\ \A x \in 1..Len(w) : Continued(w, v, hi)[x] = w[x]
           /\ Agree(Continued(w, v, hi), v, Len(Continued(w, v, hi)) + 1)
<1> DEFINE R == [term : Terms, lsn : 1..MaxLsn]
           part == SubSeq(v, Len(w) + 1, hi - 1)
           u == Continued(w, v, hi)
<1>1. w \in Seq(R) /\ v \in Seq(R) /\ Len(w) \in Nat /\ Len(v) \in Nat
  BY DEF Logs
<1> HIDE DEF R
<1>2. /\ part \in Seq(R) /\ Len(part) = IF Len(w) + 1 <= hi - 1 THEN hi - 1 - Len(w) ELSE 0
      /\ \A x \in 1..Len(part) : part[x] = v[Len(w) + x]
  BY <1>1
<1>3. /\ Len(u) = Len(w) + Len(part) /\ Len(part) \in Nat
      /\ \A x \in 1..Len(w) : u[x] = w[x]
      /\ \A x \in 1..Len(u) : x > Len(w) => u[x] = part[x - Len(w)]
  <2>1. u = w \o part
    BY DEF Continued
  <2> HIDE DEF part, u
  <2>0. part \in Seq(R)
    BY <1>2
  <2>2. Len(u) = Len(w) + Len(part) /\ Len(part) \in Nat
    BY <1>1, <2>0, <2>1
  <2>3. \A x \in 1..Len(w) : u[x] = w[x]
    BY <1>1, <2>0, <2>1
  <2>4. ASSUME NEW x \in 1..Len(u), x > Len(w) PROVE u[x] = part[x - Len(w)]
    <3>1. x \in 1..(Len(w) + Len(part))
      BY <2>2
    <3> QED BY <1>1, <2>0, <2>1, <2>4, <3>1
  <2> QED BY <2>2, <2>3, <2>4
<1> HIDE DEF part, u
<1>4. Len(u) \in Nat /\ Len(w) <= Len(u) /\ Len(u) = IF Len(w) + 1 <= hi THEN hi - 1 ELSE Len(w)
  BY <1>1, <1>2, <1>3
<1>5. Len(u) <= Len(v)
  BY <1>1, <1>4 DEF Agree
<1>6. ASSUME NEW x \in 1..((Len(u) + 1) - 1) PROVE u[x] = v[x]
  <2>1. CASE x \in 1..Len(w)
    <3>1. x \in 1..((Len(w) + 1) - 1)
      BY <1>1, <2>1
    <3> QED BY <1>3, <2>1, <3>1 DEF Agree
  <2>2. CASE x > Len(w)
    <3>1. x \in 1..Len(u) /\ x - Len(w) \in 1..Len(part) /\ Len(w) + (x - Len(w)) = x
      <4>1. x \in Nat /\ x <= Len(u) /\ Len(u) \in Nat
        BY <1>4
      <4> QED BY <1>1, <1>3, <2>2, <4>1
    <3> QED BY <1>2, <1>3, <2>2, <3>1
  <2> QED BY <1>1, <1>4, <2>1, <2>2
<1>7. Agree(u, v, Len(u) + 1)
  BY <1>1, <1>4, <1>5, <1>6 DEF Agree
<1> QED BY <1>3, <1>4, <1>7 DEF u

(* A safekeeper that follows p in its term has WAL of p.                   *)
LEMMA FollowerLog ==
    ASSUME TypeInv, VotesInv, LogInv, NEW p \in Proposers, NEW s \in Safekeepers, Elected(p),
           Follows(p, s), term[s] = propTerm[p]
    PROVE  /\ hist[s] = propHist[p] /\ flushLsn[s] # 0
           /\ Agree(wal[s], propWal[p], Len(wal[s]) + 1)
<1>1. hist[s] = propHist[p]
  BY LogTypes DEF Follows
<1>2. SafekeeperLog(s) /\ LeaderLog(p)
  BY DEF LogInv
<1>3. hist[s] # Root
  <2>1. propTerm[p] >= 1 /\ propHist[p][Len(propHist[p])].term = propTerm[p] /\ propHist[p] # <<>>
    BY <1>2, LeaderFacts DEF LeaderLog, Elected
  <2> QED BY <1>1, <2>1, RootFacts
<1>4. PICK r \in Proposers : Elected(r) /\ hist[s] = propHist[r]
                               /\ Agree(wal[s], propWal[r], Len(wal[s]) + 1)
  BY <1>2, <1>3 DEF SafekeeperLog, HasLog
<1>5. propTerm[r] = propTerm[p]
  BY <1>1, <1>4, LeaderFacts
<1>6. r = p
  BY <1>4, <1>5, SameLeader
<1> QED BY <1>1, <1>2, <1>4, <1>6 DEF SafekeeperLog, Elected

(* handle_append_request: s gets more of the WAL of p.                     *)
LEMMA HandleAppendRequestLog ==
    ASSUME TypeInv, VotesInv, LogInv, TypeInv',
           NEW k \in Chan, NEW p \in Proposers, NEW s \in Safekeepers, HandleAppendRequest(k, p, s)
    PROVE  LogInv'
<1> DEFINE m == Head(q[k][p][s])
<1>1. /\ Received(k, p, s, "append") /\ Consume(k, p, s) /\ term[s] = propTerm[p]
      /\ ~AppendRefused(p, s, m)
      /\ wal' = [wal EXCEPT ![s] = wal[s] \o SubSeq(propWal[p], m.lo, m.hi - 1)]
      /\ dirty' = [dirty EXCEPT ![k][p][s] = TRUE]
      /\ UNCHANGED <<term, hist, flushLsn, rsp>> /\ UNCHANGED wpVars /\ UNCHANGED linkVars
  BY DEF HandleAppendRequest
<1>2. /\ m.type = "append" /\ m.lo \in Nat /\ m.hi \in Nat /\ m.hi <= AvailableLsn(p) /\ Elected(p)
      /\ m = q[k][p][s][1] /\ 1 \in 1..Len(q[k][p][s])
  <2>1. /\ m.type = "append" /\ m.lo \in Nat /\ m.hi \in Nat /\ RequestOK(p, m)
        /\ m = q[k][p][s][1] /\ 1 \in 1..Len(q[k][p][s])
    <3>1. Received(k, p, s, "append")
      BY <1>1
    <3> QED BY <3>1, HeadRequest
  <2> HIDE DEF m
  <2> QED BY <2>1 DEF RequestOK, Elected
<1> HIDE DEF m
<1>3. Follows(p, s)
  <2>1. ConnectionLog(k, p, s)
    BY DEF LogInv
  <2>2. Follows(p, s) \/ \E j \in 1..(1 - 1) : q[k][p][s][j].type = "elected"
    BY <1>2, <2>1 DEF ConnectionLog
  <2> QED BY <2>2
<1>4. /\ hist[s] = propHist[p] /\ flushLsn[s] # 0 /\ Agree(wal[s], propWal[p], Len(wal[s]) + 1)
  BY <1>1, <1>2, <1>3, FollowerLog
<1>5. /\ wal[s] \in Logs /\ propWal[p] \in Logs /\ Len(wal[s]) \in Nat /\ Len(propWal[p]) \in Nat
      /\ AvailableLsn(p) = Len(propWal[p]) + 1 /\ propTerm[p] \in Nat /\ flushLsn[s] \in Nat
  BY LogTypes
<1>6. m.lo = Len(wal[s]) + 1
  <2>1. WriteLsn(s) = Len(wal[s]) + 1
    BY <1>4 DEF WriteLsn
  <2>2. ~(WriteLsn(s) > m.lo) /\ ~(WriteLsn(s) < m.lo /\ WriteLsn(s) # 0)
    BY <1>1 DEF AppendRefused
  <2> QED BY <1>2, <1>5, <2>1, <2>2
<1>7. /\ wal'[s] = wal[s] \o SubSeq(propWal[p], Len(wal[s]) + 1, m.hi - 1)
      /\ \A x \in Safekeepers : x # s => wal'[x] = wal[x]
  BY <1>1, <1>6 DEF TypeInv, TypeOK, SkTypeOK
<1>8. Len(wal'[s]) \in Nat /\ Len(wal[s]) <= Len(wal'[s]) /\ Agree(wal'[s], propWal[p], Len(wal'[s]) + 1)
  <2>1. m.hi <= Len(propWal[p]) + 1
    BY <1>2, <1>5
  <2>2. wal'[s] = Continued(wal[s], propWal[p], m.hi)
    BY <1>7 DEF Continued
  <2>3. m.hi \in Nat /\ wal[s] \in Logs /\ propWal[p] \in Logs
        /\ Agree(wal[s], propWal[p], Len(wal[s]) + 1)
    BY <1>2, <1>4, <1>5
  <2>4. Agree(Continued(wal[s], propWal[p], m.hi), propWal[p], Len(Continued(wal[s], propWal[p], m.hi)) + 1)
    BY <2>1, <2>3, AppendedRecords
  <2>5. /\ Len(Continued(wal[s], propWal[p], m.hi)) \in Nat
        /\ Len(wal[s]) <= Len(Continued(wal[s], propWal[p], m.hi))
    BY <2>1, <2>3, AppendedRecords
  <2> QED BY <2>2, <2>4, <2>5
<1>9. LeadersGrow /\ LeadersStep
  BY <1>1, ProposersRest DEF wpVars
<1>10. UNCHANGED <<propHist, propTerm, propWal>>
  BY <1>1 DEF wpVars
<1>11. SafekeeperLog(s)'
  <2>1. SafekeeperLog(s)
    BY DEF LogInv
  <2>2. flushLsn'[s] <= Len(wal'[s]) + 1 /\ (flushLsn'[s] = 0 <=> hist'[s] = <<>>)
    <3>1. flushLsn[s] <= Len(wal[s]) + 1 /\ (flushLsn[s] = 0 <=> hist[s] = <<>>)
      BY <2>1 DEF SafekeeperLog
    <3>2. flushLsn'[s] = flushLsn[s] /\ hist'[s] = hist[s]
      BY <1>1
    <3> QED BY <1>5, <1>8, <3>1, <3>2
  <2>3. propHist'[p] # <<>> /\ hist'[s] = propHist'[p] /\ propTerm'[p] <= term'[s]
    <3>1. hist'[s] = hist[s] /\ term'[s] = term[s] /\ propHist'[p] = propHist[p] /\ propTerm'[p] = propTerm[p]
      BY <1>1, <1>10
    <3>2. term[s] = propTerm[p] /\ term[s] \in Nat /\ propHist[p] # <<>>
      BY <1>1, <1>2, LogTypes DEF Elected
    <3> QED BY <1>4, <3>1, <3>2
  <2> QED BY <1>8, <1>10, <2>2, <2>3 DEF SafekeeperLog, HasLog, Elected
<1>12. ASSUME NEW x \in Safekeepers PROVE SafekeeperLog(x)'
  <2>1. CASE x # s
    <3>1. SafekeeperLog(x)
      BY DEF LogInv
    <3>2. /\ term[x] <= term'[x] /\ Len(wal'[x]) <= Len(wal[x])
          /\ flushLsn'[x] <= Len(wal'[x]) + 1
      BY <1>1, <1>7, <2>1, <3>1, LogTypes DEF SafekeeperLog
    <3> QED BY <1>1, <1>7, <1>9, <2>1, <3>1, <3>2, SafekeeperLogKept
  <2> QED BY <1>11, <2>1
<1>13. HistoriesStep
  BY <1>1, LogTypes DEF HistoriesStep
<1>14. Follows(p, s)'
  BY <1>2, <1>3, <1>9, <1>13, FollowsStable
<1>15. LinksStep
  <2>1. \A c \in Chan, r \in Proposers, x \in Safekeepers : DirtyStep(c, r, x)
    BY <1>1, <1>2, <1>14, DirtyMark
  <2>2. UNCHANGED <<skState, streamingAt>>
    BY <1>1 DEF linkVars
  <2> QED BY <1>1, <2>1, <2>2, ConsumeStep
<1>16. RepliesStep /\ VotesStep
  BY <1>1 DEF RepliesStep, VotesStep, linkVars
<1> QED BY <1>9, <1>12, <1>13, <1>15, <1>16, LogStep

(* handle_flush.                                                           *)
LEMMA HandleFlushLog ==
    ASSUME TypeInv, VotesInv, LogInv, TypeInv',
           NEW k \in Chan, NEW p \in Proposers, NEW s \in Safekeepers, HandleFlush(k, p, s)
    PROVE  LogInv'
<1>1. /\ dirty[k][p][s] /\ FlushWal(s) /\ dirty' = [dirty EXCEPT ![k][p][s] = FALSE]
      /\ Reply(k, p, s, AppendResponse(term[s], WriteLsn(s)))
      /\ UNCHANGED <<term, hist, wal, q>> /\ UNCHANGED wpVars /\ UNCHANGED linkVars
  BY DEF HandleFlush
<1>2. LeadersGrow /\ LeadersStep
  BY <1>1, ProposersRest DEF wpVars
<1>3. \A x \in Safekeepers : term[x] <= term'[x]
  BY <1>1, LogTypes
<1>4. HistoriesStep /\ \A x \in Safekeepers : SafekeeperLog(x)'
  BY <1>1, <1>2, <1>3, FlushLog
<1>5. Elected(p) /\ Follows(p, s)
  BY <1>1 DEF LogInv, ConnectionLog
<1>6. RepliesStep
  <2>1. term[s] >= propTerm[p]
    BY <1>5, LogTypes DEF Follows
  <2>2. ReplyNext(p, AppendResponse(term[s], WriteLsn(s)))
    BY <1>1, <1>5, <2>1, AckNext
  <2> QED BY <1>1, <2>2, ReplyStep
<1>7. VotesStep /\ UNCHANGED <<skState, streamingAt>>
  BY <1>1 DEF VotesStep, linkVars
<1>8. ASSUME NEW c \in Chan, NEW r \in Proposers, NEW x \in Safekeepers
      PROVE  dirty'[c][r][x] => dirty[c][r][x]
  <2>1. dirty \in [Chan -> [Proposers -> [Safekeepers -> BOOLEAN]]]
    BY DEF TypeInv, TypeOK, NetTypeOK
  <2>2. CASE c = k /\ r = p /\ x = s
    BY <1>1, <2>2
  <2>3. CASE ~(c = k /\ r = p /\ x = s)
    <3>1. dirty'[c][r][x] = dirty[c][r][x]
      BY <1>1, <2>1, <2>3
    <3> QED BY <3>1
  <2> QED BY <2>2, <2>3
<1>9. LinksStep
  BY <1>1, <1>7, <1>8 DEF LinksStep, QueueStep, Taken, DirtyStep, ActiveStep
<1> QED BY <1>2, <1>4, <1>6, <1>7, <1>9, LogStep

(* Steps of a safekeeper by itself, and messages through the broker.       *)
LEMMA LocalLog ==
    ASSUME TypeInv, VotesInv, LogInv, TypeInv', NEW s \in Safekeepers,
           SaveControlFile(s) \/ TermBump(s) \/ PublishInfo(s) \/ RecordSafekeeperInfo(s)
    PROVE  LogInv'
<1>1. /\ UNCHANGED <<hist, wal, flushLsn>> /\ UNCHANGED wpVars /\ UNCHANGED linkVars
      /\ UNCHANGED netVars
      /\ term' = term \/ term' = [term EXCEPT ![s] = @ + 1]
  BY DEF SaveControlFile, TermBump, PublishInfo, RecordSafekeeperInfo, skVars
<1>2. LeadersGrow /\ LeadersStep
  BY <1>1, ProposersRest DEF wpVars
<1>3. \A x \in Safekeepers : term[x] <= term'[x]
  <2>1. term \in [Safekeepers -> Terms]
    BY DEF TypeInv, TypeOK, SkTypeOK
  <2> QED BY <1>1, <2>1, LogTypes
<1>4. ASSUME NEW x \in Safekeepers PROVE SafekeeperLog(x)'
  <2>1. SafekeeperLog(x)
    BY DEF LogInv
  <2>2. Len(wal'[x]) <= Len(wal[x]) /\ flushLsn'[x] <= Len(wal'[x]) + 1
    BY <1>1, <2>1, LogTypes DEF SafekeeperLog
  <2> QED BY <1>1, <1>2, <1>3, <2>1, <2>2, SafekeeperLogKept
<1>5. HistoriesStep
  BY <1>1, <1>3 DEF HistoriesStep
<1>6. RepliesStep /\ VotesStep
  BY <1>1 DEF RepliesStep, VotesStep, linkVars, netVars
<1>7. LinksStep
  BY <1>1, LinksRest DEF linkVars, netVars
<1> QED BY <1>2, <1>4, <1>5, <1>6, <1>7, LogStep

(* A restart with part of the WAL.                                         *)
LEMMA BootLog ==
    ASSUME TypeInv, VotesInv, LogInv, TypeInv', NEW s \in Safekeepers, NEW c, NEW h,
           NEW n \in 0..Len(wal[s]), Boot(s, c, h, SubSeq(wal[s], 1, n)),
           c = 0 <=> flushLsn[s] = 0, \A x \in Safekeepers : term[x] <= term'[x]
    PROVE  LogInv'
<1>1. /\ wal' = [wal EXCEPT ![s] = SubSeq(wal[s], 1, n)]
      /\ flushLsn' = [flushLsn EXCEPT ![s] = IF c = 0 THEN 0 ELSE Len(SubSeq(wal[s], 1, n)) + 1]
      /\ UNCHANGED hist /\ UNCHANGED wpVars
  BY DEF Boot
<1>2. LeadersGrow /\ LeadersStep
  BY <1>1, ProposersRest DEF wpVars
<1>3. LinksStep /\ RepliesStep /\ VotesStep
  BY BootStep
<1>4. Len(SubSeq(wal[s], 1, n)) = n /\ \A x \in 1..n : SubSeq(wal[s], 1, n)[x] = wal[s][x]
  <2> DEFINE R == [term : Terms, lsn : 1..MaxLsn]
  <2>1. wal[s] \in Seq(R)
    BY DEF TypeInv, TypeOK, SkTypeOK, Logs
  <2> HIDE DEF R
  <2> QED BY <2>1
<1>5. n \in Nat /\ n <= Len(wal[s])
  BY LogTypes
<1>6. /\ wal'[s] = SubSeq(wal[s], 1, n) /\ flushLsn'[s] = (IF c = 0 THEN 0 ELSE n + 1)
      /\ \A x \in Safekeepers : x # s => wal'[x] = wal[x] /\ flushLsn'[x] = flushLsn[x]
  BY <1>1, <1>4 DEF TypeInv, TypeOK, SkTypeOK
<1>7. ASSUME NEW x \in Safekeepers PROVE SafekeeperLog(x)'
  <2>1. SafekeeperLog(x) /\ hist'[x] = hist[x] /\ term[x] <= term'[x]
    BY <1>1 DEF LogInv
  <2>2. CASE x = s
    <3>1. /\ Len(wal'[x]) <= Len(wal[x]) /\ \A y \in 1..Len(wal'[x]) : wal'[x][y] = wal[x][y]
          /\ flushLsn'[x] <= Len(wal'[x]) + 1 /\ (flushLsn'[x] = 0 <=> flushLsn[x] = 0)
      BY <1>4, <1>5, <1>6, <2>2
    <3> QED BY <1>2, <2>1, <3>1, SafekeeperLogKept
  <2>3. CASE x # s
    <3>1. /\ Len(wal'[x]) <= Len(wal[x]) /\ flushLsn'[x] <= Len(wal'[x]) + 1
      BY <1>6, <2>1, <2>3, LogTypes DEF SafekeeperLog
    <3> QED BY <1>2, <1>6, <2>1, <2>3, <3>1, SafekeeperLogKept
  <2> QED BY <2>2, <2>3
<1>8. HistoriesStep
  BY <1>1 DEF HistoriesStep
<1> QED BY <1>2, <1>3, <1>7, <1>8, LogStep

(* A crash, between messages or inside handle_elected.                     *)
LEMMA CrashLog ==
    ASSUME TypeInv, VotesInv, LogInv, TypeInv', NEW s \in Safekeepers,
           Crash(s) \/ \E k \in Chan, p \in Proposers : CrashInElected(k, p, s)
    PROVE  LogInv'
<1>1. Started(s) /\ term \in [Safekeepers -> Terms] /\ \A x \in Safekeepers : term[x] \in Nat
  BY LogTypes DEF TypeInv, TypeOK, SkTypeOK, SupportInv
<1>2. CASE Crash(s)
  <2>1. PICK n \in {i \in 0..Len(wal[s]) : i + 1 >= flushLsn[s]} :
           Boot(s, cfCommit[s], cfHorizon[s], SubSeq(wal[s], 1, n))
    BY <1>2 DEF Crash
  <2>2. \A x \in Safekeepers : term[x] <= term'[x]
    BY <1>1, <1>2 DEF Crash
  <2> QED BY <1>1, <2>1, <2>2, BootLog DEF Started
<1>3. CASE \E k \in Chan, p \in Proposers : CrashInElected(k, p, s)
  <2>1. PICK k \in Chan, p \in Proposers : CrashInElected(k, p, s)
    BY <1>3
  <2> DEFINE start == Head(q[k][p][s]).lo
             c == IF term[s] < propTerm[p] THEN memCommit[s] ELSE cfCommit[s]
             h == IF term[s] < propTerm[p] THEN memHorizon[s] ELSE cfHorizon[s]
  <2>2. PICK n \in Lower(start - 1, Len(wal[s]))..Len(wal[s]) : Boot(s, c, h, SubSeq(wal[s], 1, n))
    BY <2>1 DEF CrashInElected
  <2>3. /\ Received(k, p, s, "elected") /\ ~(term[s] > propTerm[p])
        /\ term' = [term EXCEPT ![s] = propTerm[p]]
    BY <2>1 DEF CrashInElected, FromOldTerm
  <2>4. start \in Nat /\ start >= 1 /\ Len(wal[s]) \in Nat
    <3>1. Head(q[k][p][s]).type = "elected" /\ RequestOK(p, Head(q[k][p][s])) /\ start \in Nat
      BY <2>3, HeadRequest
    <3>2. start >= 1
      BY <3>1 DEF RequestOK
    <3> QED BY <3>1, <3>2, LogTypes
  <2>5. n \in 0..Len(wal[s])
    <3> HIDE DEF start
    <3> QED BY <2>4 DEF Lower
  <2>6. c = 0 <=> flushLsn[s] = 0
    BY <1>1 DEF Started
  <2>7. \A x \in Safekeepers : term[x] <= term'[x]
    BY <1>1, <2>3, LogTypes
  <2> HIDE DEF c, h
  <2> QED BY <2>2, <2>5, <2>6, <2>7, BootLog
<1> QED BY <1>2, <1>3

(* Every step of a safekeeper.                                             *)
LEMMA SafekeeperStepLog ==
    ASSUME TypeInv, VotesInv, LogInv, TypeInv', NEW s \in Safekeepers, SafekeeperStep(s)
    PROVE  LogInv'
BY HandleVoteRequestLog, ElectedRefusedLog, HandleElectedLog, RefuseAppendLog, AppendOfOldTermLog,
   HandleAppendRequestLog, HandleFlushLog, LocalLog, CrashLog DEF SafekeeperStep

-----------------------------------------------------------------------------
(* Steps of proposers.                                                     *)

(* Logs do not change, and terms only before a campaign.                   *)
LEMMA ProposersKept ==
    ASSUME TypeInv, UNCHANGED <<propHist, propWal>>,
           \A r \in Proposers : wpState[r] # "COLLECTING_TERMS" =>
               wpState'[r] # "COLLECTING_TERMS" /\ propTerm'[r] = propTerm[r]
    PROVE  LeadersGrow /\ LeadersStep
<1>1. \A p \in Proposers : Extended(propWal[p], propWal'[p])
  BY LogTypes DEF Extended
<1>2. \A p \in Proposers : Elected(p) => wpState[p] # "COLLECTING_TERMS"
  BY DEF Elected, TypeInv, SupportInv, ProposerOK
<1> QED BY <1>1, <1>2 DEF LeadersGrow, LeadersStep, Elected

(* The process ends.                                                       *)
LEMMA FatalLog ==
    ASSUME TypeInv, VotesInv, LogInv, TypeInv', NEW p \in Proposers, Fatal(p), UNCHANGED skVars
    PROVE  LogInv'
<1>1. /\ wpState' = [wpState EXCEPT ![p] = "DEAD"] /\ UNCHANGED <<propTerm, propHist, propWal>>
      /\ vote' = [vote EXCEPT ![p] = [s \in Safekeepers |-> None]]
      /\ ShutdownConnection({p} \X Safekeepers)
  BY DEF Fatal
<1>2. LeadersGrow /\ LeadersStep
  <2>1. \A r \in Proposers : wpState[r] # "COLLECTING_TERMS" => wpState'[r] # "COLLECTING_TERMS"
    BY <1>1 DEF TypeInv, TypeOK, WpTypeOK
  <2> QED BY <1>1, <2>1, ProposersKept
<1>3. HistoriesStep /\ \A x \in Safekeepers : SafekeeperLog(x)'
  BY <1>2, SafekeepersRest DEF skVars
<1>4. LinksStep /\ RepliesStep
  BY <1>1, ShutdownStep
<1>5. VotesStep
  <2>1. \A r \in Proposers, x \in Safekeepers : vote'[r][x] = vote[r][x] \/ vote'[r][x] = None
    BY <1>1 DEF TypeInv, TypeOK, LinkTypeOK
  <2> QED BY <2>1 DEF VotesStep
<1> QED BY <1>2, <1>3, <1>4, <1>5, LogStep

(* A connection breaks.                                                    *)
LEMMA DisconnectLog ==
    ASSUME TypeInv, VotesInv, LogInv, TypeInv', NEW p \in Proposers, NEW s \in Safekeepers,
           Disconnect(p, s)
    PROVE  LogInv'
<1>1. /\ ShutdownConnection({<<p, s>>}) /\ UNCHANGED skVars /\ UNCHANGED wpVars /\ UNCHANGED vote
  BY DEF Disconnect
<1>2. LeadersGrow /\ LeadersStep
  BY <1>1, ProposersRest DEF wpVars
<1>3. HistoriesStep /\ \A x \in Safekeepers : SafekeeperLog(x)'
  BY <1>1, <1>2, SafekeepersRest DEF skVars
<1>4. LinksStep /\ RepliesStep
  BY <1>1, ShutdownStep
<1>5. VotesStep
  BY <1>1 DEF VotesStep
<1> QED BY <1>2, <1>3, <1>4, <1>5, LogStep

(* A greeting before the campaign.                                         *)
LEMMA GreetCollectingLog ==
    ASSUME TypeInv, VotesInv, LogInv, TypeInv', NEW p \in Proposers, NEW s \in Safekeepers,
           GreetCollecting(p, s)
    PROVE  LogInv'
<1>1. /\ wpState[p] = "COLLECTING_TERMS" /\ UNCHANGED <<wpState, propHist, propWal>>
      /\ propTerm' = [propTerm EXCEPT ![p] = Higher(term[s], @)]
      /\ skState' = [skState EXCEPT ![p][s] = "WAIT_VOTING"]
      /\ UNCHANGED skVars /\ UNCHANGED netVars /\ UNCHANGED <<vote, streamingAt>>
  BY DEF GreetCollecting
<1>2. LeadersGrow /\ LeadersStep
  <2>1. \A r \in Proposers : r # p => propTerm'[r] = propTerm[r]
    BY <1>1 DEF TypeInv, TypeOK, WpTypeOK
  <2> QED BY <1>1, <2>1, ProposersKept
<1>3. HistoriesStep /\ \A x \in Safekeepers : SafekeeperLog(x)'
  BY <1>1, <1>2, SafekeepersRest DEF skVars
<1>4. RepliesStep /\ VotesStep
  BY <1>1 DEF RepliesStep, VotesStep, netVars
<1>5. LinksStep
  <2>1. \A r \in Proposers, x \in Safekeepers : skState'[r][x] = "ACTIVE" => skState[r][x] = "ACTIVE"
    BY <1>1 DEF TypeInv, TypeOK, LinkTypeOK
  <2> QED BY <1>1, <2>1 DEF LinksStep, QueueStep, Taken, DirtyStep, ActiveStep, netVars
<1> QED BY <1>2, <1>3, <1>4, <1>5, LogStep

(* Requests for votes.                                                     *)
LEMMA SendVotesStep ==
    ASSUME TypeInv, NEW p \in Proposers, NEW S, SendVoteRequests(p, S),
           UNCHANGED <<streamingAt, dirty>>
    PROVE  LinksStep
<1>1. q \in [Chan -> [Proposers -> [Safekeepers -> Seq(Messages)]]] /\ "live" \in Chan
  BY DEF TypeInv, TypeOK, NetTypeOK, Chan
<1>2. q' = [q EXCEPT !["live"][p] = [s \in Safekeepers |->
                IF s \in S THEN Append(q["live"][p][s], VoteRequestMsg) ELSE q["live"][p][s]]]
  BY <1>1 DEF SendVoteRequests
<1>3. VoteRequestMsg \in Messages /\ VoteRequestMsg.type = "vote"
  BY ConstantsType DEF VoteRequestMsg, Messages
<1>4. ASSUME NEW k \in Chan, NEW r \in Proposers, NEW x \in Safekeepers
      PROVE  Taken(k, r, x) \/ Sent(k, r, x)
  <2>1. CASE k = "live" /\ r = p
    <3>1. q'[k][r] = [s \in Safekeepers |->
                IF s \in S THEN Append(q["live"][p][s], VoteRequestMsg) ELSE q["live"][p][s]]
      BY <1>1, <1>2, <2>1
    <3>2. q'[k][r][x] = q[k][r][x] \/ q'[k][r][x] = Append(q[k][r][x], VoteRequestMsg)
      BY <2>1, <3>1
    <3> QED BY <1>3, <3>2 DEF Taken, Sent
  <2>2. CASE ~(k = "live" /\ r = p)
    <3>1. q'[k][r] = q[k][r]
      BY <1>1, <1>2, <2>2
    <3> QED BY <3>1 DEF Taken
  <2> QED BY <2>1, <2>2
<1>5. \A r \in Proposers, x \in Safekeepers : skState'[r][x] = "ACTIVE" => skState[r][x] = "ACTIVE"
  BY DEF SendVoteRequests, TypeInv, TypeOK, LinkTypeOK
<1>6. \A r \in Proposers, x \in Safekeepers : ActiveStep(r, x)
  BY <1>1, <1>4, <1>5 DEF ActiveStep
<1>7. \A k \in Chan, r \in Proposers, x \in Safekeepers : DirtyStep(k, r, x)
  BY DEF DirtyStep
<1> QED BY <1>4, <1>6, <1>7 DEF LinksStep, QueueStep

(* The campaign starts, or reaches another safekeeper.                     *)
LEMMA GreetCampaignLog ==
    ASSUME TypeInv, VotesInv, LogInv, TypeInv', NEW p \in Proposers, NEW s \in Safekeepers,
           GreetStartsCampaign(p, s) \/ GreetLate(p, s)
    PROVE  LogInv'
<1>1. /\ UNCHANGED <<propHist, propWal>>
      /\ \E S : SendVoteRequests(p, S)
      /\ UNCHANGED skVars /\ UNCHANGED <<vote, streamingAt, dirty, rsp>>
  BY DEF GreetStartsCampaign, GreetLate, wpVars
<1>2. \A r \in Proposers : wpState[r] # "COLLECTING_TERMS" =>
               wpState'[r] # "COLLECTING_TERMS" /\ propTerm'[r] = propTerm[r]
  <2>1. CASE GreetStartsCampaign(p, s)
    <3>1. /\ wpState[p] = "COLLECTING_TERMS" /\ wpState' = [wpState EXCEPT ![p] = "CAMPAIGN"]
          /\ propTerm' = [propTerm EXCEPT ![p] = Higher(term[s], propTerm[p]) + 1]
      BY <2>1 DEF GreetStartsCampaign
    <3> QED BY <3>1 DEF TypeInv, TypeOK, WpTypeOK
  <2>2. CASE GreetLate(p, s)
    BY <2>2 DEF GreetLate, wpVars
  <2> QED BY <2>1, <2>2
<1>3. LeadersGrow /\ LeadersStep
  BY <1>1, <1>2, ProposersKept
<1>4. HistoriesStep /\ \A x \in Safekeepers : SafekeeperLog(x)'
  BY <1>1, <1>3, SafekeepersRest DEF skVars
<1>5. RepliesStep /\ VotesStep
  BY <1>1 DEF RepliesStep, VotesStep
<1>6. LinksStep
  BY <1>1, SendVotesStep
<1> QED BY <1>3, <1>4, <1>5, <1>6, LogStep

(* A vote is counted.                                                      *)
LEMMA RecvVoteCountedLog ==
    ASSUME TypeInv, VotesInv, LogInv, TypeInv', NEW p \in Proposers, NEW s \in Safekeepers,
           RecvVoteCounted(p, s)
    PROVE  LogInv'
<1>1. /\ VoteArrives(p, s) /\ ~VoteFatal(p, s) /\ wpState[p] = "CAMPAIGN"
      /\ vote' = [vote EXCEPT ![p][s] = rsp[p][s]]
      /\ skState' = [skState EXCEPT ![p][s] = "WAIT_ELECTED"]
      /\ rsp' = [rsp EXCEPT ![p][s] = None]
      /\ UNCHANGED <<wpState, propTerm, propHist, propWal, streamingAt, q, dirty>>
      /\ UNCHANGED skVars
  BY DEF RecvVoteCounted
<1>2. rsp[p][s] # None /\ rsp[p][s].type = "vote" /\ rsp[p][s].given
  BY <1>1 DEF VoteArrives, VoteFatal
<1>3. LeadersGrow /\ LeadersStep
  BY <1>1, ProposersRest
<1>4. HistoriesStep /\ \A x \in Safekeepers : SafekeeperLog(x)'
  BY <1>1, <1>3, SafekeepersRest DEF skVars
<1>5. VotesStep
  <2>1. ASSUME NEW r \in Proposers, NEW x \in Safekeepers
        PROVE  vote'[r][x] = vote[r][x] \/ (r = p /\ x = s /\ vote'[r][x] = rsp[p][s])
    BY <1>1 DEF TypeInv, TypeOK, LinkTypeOK
  <2> QED BY <1>2, <2>1 DEF VotesStep
<1>6. RepliesStep
  <2>1. \A r \in Proposers, x \in Safekeepers : rsp'[r][x] = rsp[r][x] \/ rsp'[r][x] = None
    BY <1>1 DEF TypeInv, TypeOK, NetTypeOK
  <2> QED BY <2>1 DEF RepliesStep
<1>7. LinksStep
  <2>1. \A r \in Proposers, x \in Safekeepers : skState'[r][x] = "ACTIVE" => skState[r][x] = "ACTIVE"
    BY <1>1 DEF TypeInv, TypeOK, LinkTypeOK
  <2> QED BY <1>1, <2>1 DEF LinksStep, QueueStep, Taken, DirtyStep, ActiveStep
<1> QED BY <1>3, <1>4, <1>5, <1>6, <1>7, LogStep

(* An acknowledgement is read.                                             *)
LEMMA RecvAppendResponseLog ==
    ASSUME TypeInv, VotesInv, LogInv, TypeInv', NEW p \in Proposers, NEW s \in Safekeepers,
           RecvAppendResponse(p, s)
    PROVE  LogInv'
<1>1. /\ rsp' = [rsp EXCEPT ![p][s] = None] /\ UNCHANGED skVars
      /\ UNCHANGED <<wpState, propTerm, propHist, propWal>>
      /\ UNCHANGED <<q, dirty, skState, streamingAt>> /\ UNCHANGED vote
  BY DEF RecvAppendResponse
<1>2. LeadersGrow /\ LeadersStep
  BY <1>1, ProposersRest
<1>3. HistoriesStep /\ \A x \in Safekeepers : SafekeeperLog(x)'
  BY <1>1, <1>2, SafekeepersRest DEF skVars
<1>4. VotesStep /\ LinksStep
  BY <1>1, LinksRest DEF VotesStep
<1>5. RepliesStep
  <2>1. \A r \in Proposers, x \in Safekeepers : rsp'[r][x] = rsp[r][x] \/ rsp'[r][x] = None
    BY <1>1 DEF TypeInv, TypeOK, NetTypeOK
  <2> QED BY <2>1 DEF RepliesStep
<1> QED BY <1>2, <1>3, <1>4, <1>5, LogStep

(* A message to one safekeeper: WAL while s is streamed to, or             *)
(* ProposerElected, after which it is.                                     *)
LEMMA SendOneStep ==
    ASSUME TypeInv, NEW p \in Proposers, NEW s \in Safekeepers, NEW m \in Messages, NEW at,
           q' = [q EXCEPT !["live"][p][s] = Append(q["live"][p][s], m)], UNCHANGED dirty,
           streamingAt' = [streamingAt EXCEPT ![p][s] = at], at <= AvailableLsn(p)',
           \/ m.type = "append" /\ skState[p][s] = "ACTIVE" /\ UNCHANGED skState
           \/ m.type = "elected" /\ skState' = [skState EXCEPT ![p][s] = "ACTIVE"]
    PROVE  LinksStep
<1>1. q \in [Chan -> [Proposers -> [Safekeepers -> Seq(Messages)]]] /\ "live" \in Chan
  BY DEF TypeInv, TypeOK, NetTypeOK, Chan
<1>2. ASSUME NEW k \in Chan, NEW r \in Proposers, NEW x \in Safekeepers
      PROVE  IF k = "live" /\ r = p /\ x = s THEN q'[k][r][x] = Append(q["live"][p][s], m)
             ELSE q'[k][r][x] = q[k][r][x]
  <2>1. CASE k = "live" /\ r = p /\ x = s
    BY <1>1, <2>1
  <2>2. CASE ~(k = "live" /\ r = p /\ x = s)
    BY <1>1, <2>2
  <2> QED BY <2>1, <2>2
<1>3. \A k \in Chan, r \in Proposers, x \in Safekeepers : QueueStep(k, r, x)
  BY <1>2 DEF QueueStep, Taken, Sent
<1>4. \A k \in Chan, r \in Proposers, x \in Safekeepers : DirtyStep(k, r, x)
  BY DEF DirtyStep
<1>5. ASSUME NEW r \in Proposers, NEW x \in Safekeepers PROVE ActiveStep(r, x)
  <2>1. CASE r = p /\ x = s
    <3>1. streamingAt'[p][s] = at
      BY DEF TypeInv, TypeOK, LinkTypeOK
    <3>2. q'["live"][p][s] = Append(q["live"][p][s], m)
      BY <1>1, <1>2
    <3>3. CASE m.type = "append" /\ skState[p][s] = "ACTIVE"
      BY <2>1, <3>1, <3>2, <3>3 DEF ActiveStep, Sent
    <3>4. CASE m.type = "elected"
      <4>1. /\ Len(q["live"][p][s]) + 1 \in 1..Len(q'["live"][p][s])
            /\ q'["live"][p][s][Len(q["live"][p][s]) + 1] = m
        BY <1>1, <3>2
      <4>2. \E j \in 1..Len(q'["live"][p][s]) : q'["live"][p][s][j].type = "elected"
        BY <3>4, <4>1
      <4>3. streamingAt'[p][s] <= AvailableLsn(p)'
        BY <3>1, <3>4
      <4> QED BY <2>1, <4>2, <4>3 DEF ActiveStep
    <3> QED BY <3>3, <3>4
  <2>2. CASE ~(r = p /\ x = s)
    <3>1. q'["live"][r][x] = q["live"][r][x]
      BY <1>1, <1>2, <2>2
    <3>2. skState'[r][x] = skState[r][x] /\ streamingAt'[r][x] = streamingAt[r][x]
      BY <2>2 DEF TypeInv, TypeOK, LinkTypeOK
    <3> QED BY <3>1, <3>2 DEF ActiveStep, Taken
  <2> QED BY <2>1, <2>2
<1> QED BY <1>3, <1>4, <1>5 DEF LinksStep

(* WAL is sent.                                                            *)
LEMMA SendAppendRequestLog ==
    ASSUME TypeInv, VotesInv, LogInv, TypeInv', NEW p \in Proposers, NEW s \in Safekeepers,
           SendAppendRequest(p, s)
    PROVE  LogInv'
<1> DEFINE lo == streamingAt[p][s]
           hi == SendEnd(p, lo)
           m == AppendMsg(lo, hi, propCommit[p], propTruncate[p])
<1>1. /\ skState[p][s] = "ACTIVE"
      /\ q' = [q EXCEPT !["live"][p][s] = Append(q["live"][p][s], m)]
      /\ streamingAt' = [streamingAt EXCEPT ![p][s] = hi]
      /\ UNCHANGED skVars /\ UNCHANGED wpVars
      /\ UNCHANGED <<skState, vote, dirty, rsp>>
  <2>1. q \in [Chan -> [Proposers -> [Safekeepers -> Seq(Messages)]]] /\ "live" \in Chan
    BY DEF TypeInv, TypeOK, NetTypeOK, Chan
  <2> QED BY <2>1 DEF SendAppendRequest
<1>2. lo \in Lsns /\ hi \in Lsns /\ hi <= AvailableLsn(p)
  <2>1. lo \in Nat /\ MaxSendSize \in Nat /\ lo \in Lsns /\ MaxLsn \in Nat
    BY ConstantsType DEF TypeInv, TypeOK, LinkTypeOK
  <2>2. Len(propWal[p]) \in Nat /\ Len(propWal[p]) < MaxLsn
    BY LogLength DEF TypeInv, TypeOK, WpTypeOK
  <2> HIDE DEF lo
  <2> QED BY <2>1, <2>2 DEF SendEnd, AvailableLsn, Lower, Lsns
<1>3. m \in Messages /\ m.type = "append"
  BY <1>2 DEF AppendMsg, Messages, TypeInv, TypeOK, WpTypeOK
<1>4. LeadersGrow /\ LeadersStep
  BY <1>1, ProposersRest DEF wpVars
<1>5. HistoriesStep /\ \A x \in Safekeepers : SafekeeperLog(x)'
  BY <1>1, <1>4, SafekeepersRest DEF skVars
<1>6. RepliesStep /\ VotesStep
  BY <1>1 DEF RepliesStep, VotesStep
<1>7. LinksStep
  <2> HIDE DEF m, hi
  <2>1. hi <= AvailableLsn(p)'
    BY <1>1, <1>2 DEF AvailableLsn, wpVars
  <2> QED BY <1>1, <1>3, <2>1, SendOneStep
<1> QED BY <1>4, <1>5, <1>6, <1>7, LogStep

(* Terms in a vote are at most the highest.                                *)
LEMMA VoteTerms ==
    ASSUME TypeInv, Leaders, NEW vh \in TermHistories, NEW w, NEW f, NEW t,
           HasDurable(vh, w, f, t), NEW i \in 1..Len(vh)
    PROVE  vh[i].term \in Nat /\ vh[i].term <= HighestTerm(vh)
<1>1. Len(vh) \in Nat /\ vh # <<>> /\ Len(vh) \in 1..Len(vh) /\ vh[i].term \in Nat
      /\ HighestTerm(vh) = vh[Len(vh)].term
  BY HistoryType DEF HighestTerm
<1>2. Ascending(vh)
  <2>1. CASE vh = Root
    <3>1. Len(vh) = 1
      BY <1>1, <2>1, RootFacts
    <3> QED BY <3>1 DEF Ascending
  <2>2. CASE \E r \in Proposers : Elected(r) /\ vh = propHist[r]
    BY <2>2 DEF Leaders, LeaderLog
  <2> QED BY <2>1, <2>2 DEF HasDurable
<1>3. i <= Len(vh)
  BY <1>1
<1> QED BY <1>1, <1>2, <1>3, AscendingFacts

(* A safekeeper in the term of p that voted again has not more than p.     *)
LEMMA VoteWithin ==
    ASSUME TypeInv, VotesInv, Leaders, NEW p \in Proposers, Elected(p),
           NEW vh \in TermHistories, NEW w, NEW f \in Nat, HasDurable(vh, w, f, propTerm[p]),
           NEW i \in 1..Len(vh), vh[i].term = propTerm[p]
    PROVE  f <= AvailableLsn(p)
<1>1. vh[i].term <= HighestTerm(vh)
  BY VoteTerms
<1>2. propTerm[p] \in Nat /\ propTerm[p] >= 1
  BY LogTypes DEF Leaders, LeaderLog
<1>3. vh # Root
  <2> SUFFICES ASSUME vh = Root PROVE FALSE
    OBVIOUS
  <2>1. HighestTerm(vh) = 0
    BY RootFacts DEF HighestTerm
  <2> QED BY <1>1, <1>2, <2>1
<1>4. PICK r \in Proposers : /\ Elected(r) /\ vh = propHist[r] /\ propTerm[r] <= propTerm[p]
                             /\ Agree(w, propWal[r], f)
  BY <1>3 DEF HasDurable
<1>5. HighestTerm(vh) = propTerm[r] /\ propTerm[r] \in Nat
  BY <1>4, LeaderFacts, LogTypes DEF HighestTerm, Elected
<1>6. propTerm[r] = propTerm[p]
  BY <1>1, <1>2, <1>4, <1>5
<1>7. r = p
  BY <1>4, <1>6, SameLeader
<1> QED BY <1>4, <1>7 DEF Agree, AvailableLsn

(* A vote after the election is answered with ProposerElected.             *)
LEMMA RecvVoteLateLog ==
    ASSUME TypeInv, VotesInv, LogInv, TypeInv', NEW p \in Proposers, NEW s \in Safekeepers,
           RecvVoteLate(p, s)
    PROVE  LogInv'
<1> DEFINE v == rsp[p][s]
           start == StartStreamingAt(propHist[p], propTerm[p], v.hist, v.flush)
           m == ElectedMsg(start)
<1>1. /\ VoteArrives(p, s) /\ ~VoteFatal(p, s) /\ wpState[p] = "ELECTED"
      /\ q' = [q EXCEPT !["live"][p][s] = Append(q["live"][p][s], m)]
      /\ skState' = [skState EXCEPT ![p][s] = "ACTIVE"]
      /\ streamingAt' = [streamingAt EXCEPT ![p][s] = start]
      /\ rsp' = [rsp EXCEPT ![p][s] = None]
      /\ UNCHANGED skVars /\ UNCHANGED wpVars /\ UNCHANGED <<vote, dirty>>
  <2>1. q \in [Chan -> [Proposers -> [Safekeepers -> Seq(Messages)]]] /\ "live" \in Chan
    BY DEF TypeInv, TypeOK, NetTypeOK, Chan
  <2> QED BY <2>1 DEF RecvVoteLate
<1>2. /\ v \in VoteResponses /\ v # None /\ v.type = "vote" /\ (v.hist # <<>> => v.flush >= 1)
  <2>1. v = VoteOf(p, s, s)
    BY DEF VoteOf
  <2> QED BY <1>1, <2>1, VoteOfType DEF VoteArrives
<1>3. /\ v.hist \in TermHistories /\ v.flush \in Nat /\ v.term \in Nat
  BY <1>2, ConstantsType DEF VoteResponses
<1>4. VoteLog(p, v) /\ Elected(p) /\ Leaders
  BY <1>1, <1>2 DEF LogInv, LinkLog, Leaders, Elected, TypeInv, SupportInv, ProposerOK
<1>5. v.term = propTerm[p]
  <2>1. propTerm[p] \in Nat
    BY LogTypes
  <2>2. v.given \/ ~(v.term > propTerm[p])
    BY <1>1 DEF VoteFatal
  <2>3. v.given => v.term = propTerm[p]
    BY <1>4 DEF VoteLog
  <2>4. ~v.given => v.term >= propTerm[p]
    BY <1>4 DEF VoteLog
  <2> HIDE DEF v
  <2>5. CASE v.given
    BY <2>3, <2>5
  <2>6. CASE ~v.given
    <3>1. v.term >= propTerm[p] /\ ~(v.term > propTerm[p])
      BY <2>2, <2>4, <2>6
    <3> QED BY <1>3, <2>1, <3>1
  <2> QED BY <2>5, <2>6
<1>6. HasDurable(v.hist, v.wal, v.flush, propTerm[p])
  BY <1>4, <1>5 DEF VoteLog
<1> HIDE DEF v
<1>7. start <= AvailableLsn(p)
  <2>1. /\ propHist[p] \in TermHistories /\ propHist[p] # <<>> /\ LeaderLog(p)
        /\ propTerm[p] \in Nat /\ propHist[p][Len(propHist[p])].term = propTerm[p]
        /\ AvailableLsn(p) \in Nat /\ propHist[p][Len(propHist[p])].lsn <= AvailableLsn(p)
    BY <1>4, LogTypes, LeaderFacts DEF Leaders, LeaderLog, Elected
  <2>2. ASSUME NEW i \in 1..Len(v.hist), v.hist[i].term = propTerm[p] PROVE v.flush <= AvailableLsn(p)
    BY <1>3, <1>4, <1>6, <2>2, VoteWithin
  <2>3. Ascending(propHist[p]) /\ propHist[p][1].lsn = FirstLsn
    BY <2>1 DEF LeaderLog
  <2> QED BY <1>3, <2>1, <2>2, <2>3, StreamStart
<1>8. m \in Messages /\ m.type = "elected"
  <2>1. start \in 1..MaxLsn
    BY <1>2, <1>4, LogTypes, StreamingStartType DEF Elected, TypeInv, SupportInv, ProposerOK
  <2>2. start \in Lsns
    BY <2>1, ConstantsType DEF Lsns
  <2> QED BY <2>2, ConstantsType DEF ElectedMsg, Messages
<1> HIDE DEF m, start
<1>9. LeadersGrow /\ LeadersStep
  BY <1>1, ProposersRest DEF wpVars
<1>10. HistoriesStep /\ \A x \in Safekeepers : SafekeeperLog(x)'
  BY <1>1, <1>9, SafekeepersRest DEF skVars
<1>11. RepliesStep /\ VotesStep
  <2>1. \A r \in Proposers, x \in Safekeepers : rsp'[r][x] = rsp[r][x] \/ rsp'[r][x] = None
    BY <1>1 DEF TypeInv, TypeOK, NetTypeOK
  <2> QED BY <1>1, <2>1 DEF RepliesStep, VotesStep
<1>12. LinksStep
  <2>1. start <= AvailableLsn(p)'
    BY <1>1, <1>7 DEF AvailableLsn, wpVars
  <2> QED BY <1>1, <1>8, <2>1, SendOneStep
<1> QED BY <1>9, <1>10, <1>11, <1>12, LogStep

(* The compute writes a record: it is of the last term of its history.     *)
LEMMA WriteWalLog ==
    ASSUME TypeInv, VotesInv, LogInv, TypeInv', NEW p \in Proposers, WriteWal(p)
    PROVE  LogInv'
<1> DEFINE e == TermLsn(propTerm[p], AvailableLsn(p))
           w == propWal[p]
           th == propHist[p]
<1>1. /\ propWal' = [propWal EXCEPT ![p] = Append(propWal[p], e)]
      /\ UNCHANGED <<propHist, propTerm, wpState>> /\ wpState[p] = "ELECTED"
      /\ UNCHANGED skVars /\ UNCHANGED linkVars /\ UNCHANGED netVars
  BY DEF WriteWal, TypeInv, TypeOK, WpTypeOK
<1>2. Elected(p) /\ LeaderLog(p)
  BY <1>1 DEF Elected, TypeInv, SupportInv, ProposerOK, LogInv
<1>3. /\ propWal'[p] = Append(w, e)
      /\ \A r \in Proposers : r # p => propWal'[r] = propWal[r]
  BY <1>1 DEF TypeInv, TypeOK, WpTypeOK
<1>4. /\ Len(Append(w, e)) = Len(w) + 1 /\ Len(w) \in Nat
      /\ \A x \in 1..Len(w) : Append(w, e)[x] = w[x]
      /\ Append(w, e)[Len(w) + 1] = e
  <2> DEFINE R == [term : Terms, lsn : 1..MaxLsn]
  <2>1. w \in Seq(R)
    BY DEF TypeInv, TypeOK, WpTypeOK, Logs
  <2> HIDE DEF R, w, e
  <2> QED BY <2>1
<1>5. \A r \in Proposers : Extended(propWal[r], propWal'[r])
  <2>1. Extended(propWal[p], propWal'[p])
    BY <1>3, <1>4 DEF Extended
  <2>2. ASSUME NEW r \in Proposers, r # p PROVE Extended(propWal[r], propWal'[r])
    BY <1>3, <2>2, LogTypes DEF Extended
  <2> QED BY <2>1, <2>2
<1>6. LeadersGrow
  BY <1>1, <1>5 DEF LeadersGrow
<1>7. /\ th \in TermHistories /\ Len(th) \in Nat /\ Len(th) >= 1 /\ th[Len(th)].term = propTerm[p]
      /\ \A i \in 1..Len(th) : th[i].lsn \in Nat /\ th[i].term \in Nat
      /\ th[Len(th)].lsn <= Len(w) + 1 /\ Ascending(th)
      /\ AvailableLsn(p) = Len(w) + 1
  BY <1>2, LogTypes, LeaderFacts DEF LeaderLog
<1>8. TermAt(th, Len(w) + 1) = propTerm[p]
  <2>1. \A i \in 1..Len(th) : th[i].lsn <= Len(w) + 1
    <3>1. ASSUME NEW i \in 1..Len(th) PROVE th[i].lsn <= Len(w) + 1
      <4>1. i <= Len(th) /\ Len(th) \in 1..Len(th)
        BY <1>7
      <4>2. th[i].lsn <= th[Len(th)].lsn
        BY <1>7, <4>1, AscendingFacts
      <4>3. th[i].lsn \in Nat /\ th[Len(th)].lsn \in Nat
        BY <1>7, <4>1
      <4> QED BY <1>4, <1>7, <4>2, <4>3
    <3> QED BY <3>1
  <2>2. Len(w) + 1 \in Nat /\ Len(th) \in 0..Len(th)
    BY <1>4, <1>7
  <2>3. TermAt(th, Len(w) + 1) = IF Len(th) = 0 THEN 0 ELSE th[Len(th)].term
    <3> DEFINE n == Len(th)
               l == Len(w) + 1
    <3> HIDE DEF th, w
    <3>1. /\ th \in TermHistories /\ l \in Nat /\ n \in 0..Len(th)
          /\ \A i \in 1..n : th[i].lsn <= l
          /\ n < Len(th) => th[n + 1].lsn > l
      BY <1>7, <2>1, <2>2
    <3> HIDE DEF n, l
    <3>2. TermAt(th, l) = IF n = 0 THEN 0 ELSE th[n].term
      BY <3>1, UpToIs
    <3> QED BY <3>2 DEF n, l
  <2> QED BY <1>7, <2>3
<1>9. LeaderLog(p)'
  <2>1. ASSUME NEW l \in 1..Len(propWal'[p]) PROVE propWal'[p][l] = TermLsn(TermAt(th, l), l)
    <3>1. CASE l \in 1..Len(w)
      <4>1. w[l] = TermLsn(TermAt(th, l), l)
        BY <1>2, <3>1 DEF LeaderLog
      <4> QED BY <1>3, <1>4, <3>1, <4>1
    <3>2. CASE l = Len(w) + 1
      BY <1>3, <1>4, <1>7, <1>8, <3>2
    <3> QED BY <1>3, <1>4, <3>1, <3>2
  <2>2. ASSUME NEW i \in 1..(Len(th) - 1) PROVE Origin(p, i)'
    <3>1. Origin(p, i) /\ th[i + 1].lsn \in Nat
      <4>1. i + 1 \in 1..Len(th)
        BY <1>7
      <4> QED BY <1>2, <1>7, <4>1 DEF LeaderLog
    <3>2. ASSUME NEW r \in Proposers, Agree(propWal[p], propWal[r], th[i + 1].lsn)
          PROVE  Agree(propWal'[p], propWal'[r], th[i + 1].lsn)
      <4>1. /\ Len(propWal[r]) \in Nat /\ Len(propWal'[r]) \in Nat
            /\ Len(propWal[p]) \in Nat /\ Len(propWal'[p]) \in Nat
        BY LogTypes, LogLength DEF TypeInv, TypeOK, WpTypeOK
      <4> QED BY <1>5, <3>1, <3>2, <4>1, AgreeGrows
    <3> QED BY <1>1, <3>1, <3>2 DEF Origin, Elected
  <2>3. PropTermStartLsn(p)' <= AvailableLsn(p)'
    <3>1. PropTermStartLsn(p)' = th[Len(th)].lsn /\ AvailableLsn(p)' = Len(w) + 2
      BY <1>1, <1>3, <1>4 DEF PropTermStartLsn, AvailableLsn
    <3>2. th[Len(th)].lsn \in Nat
      BY <1>7
    <3> QED BY <1>4, <1>7, <3>1, <3>2
  <2>4. propHist'[p] = th /\ propTerm'[p] = propTerm[p]
    BY <1>1
  <2>5. th[1].lsn = FirstLsn /\ propTerm[p] >= 1
    BY <1>2 DEF LeaderLog
  <2> HIDE DEF th
  <2> QED BY <1>7, <2>1, <2>2, <2>3, <2>4, <2>5 DEF LeaderLog
<1>10. LeadersStep
  BY <1>1, <1>3, <1>9 DEF LeadersStep, Elected
<1>11. HistoriesStep /\ \A x \in Safekeepers : SafekeeperLog(x)'
  BY <1>1, <1>6, SafekeepersRest DEF skVars
<1>12. RepliesStep /\ VotesStep
  BY <1>1 DEF RepliesStep, VotesStep, linkVars, netVars
<1>13. LinksStep
  BY <1>1, LinksRest DEF linkVars, netVars
<1> QED BY <1>6, <1>10, <1>11, <1>12, <1>13, LogStep

(* The votes of a campaign: given to p, and of WAL from before its term.   *)
LEMMA CountedVote ==
    ASSUME TypeInv, VotesInv, LogInv, NEW p \in Proposers, NEW s \in Safekeepers,
           VoteArrives(p, s), ~VoteFatal(p, s), wpState[p] = "CAMPAIGN",
           NEW r \in Safekeepers, r = s \/ vote[p][r] # None
    PROVE  /\ VoteOf(p, s, r) \in VoteResponses /\ VoteLog(p, VoteOf(p, s, r))
           /\ VoteOf(p, s, r).given
           /\ VoteOf(p, s, r).hist \in TermHistories /\ VoteOf(p, s, r).flush \in Nat
           /\ VoteOf(p, s, r).term = propTerm[p]
           /\ HighestTerm(VoteOf(p, s, r).hist) < propTerm[p]
<1>1. VoteOf(p, s, r) \in VoteResponses
  BY VoteOfType
<1>2. VoteOf(p, s, r).hist \in TermHistories /\ VoteOf(p, s, r).flush \in Nat
  BY <1>1, ConstantsType DEF VoteResponses
<1>3. VoteLog(p, VoteOf(p, s, r)) /\ VoteOf(p, s, r).given
  <2>1. CASE r = s
    BY <2>1 DEF VoteOf, VoteArrives, VoteFatal, LogInv, LinkLog
  <2>2. CASE r # s
    BY <2>2 DEF VoteOf, LogInv, LinkLog
  <2> QED BY <2>1, <2>2
<1> QED BY <1>1, <1>2, <1>3 DEF VoteLog

(* The proposer is elected, with the WAL of its donor.                     *)
LEMMA BecomeElectedLog ==
    ASSUME TypeInv, VotesInv, LogInv, TypeInv', NEW p \in Proposers, NEW s \in Safekeepers,
           VoteArrives(p, s), ~VoteFatal(p, s), wpState[p] = "CAMPAIGN",
           NEW d \in DonorChoices(p, s), d \in Voters(p, s) \/ vote[p][d].hist = <<>>,
           BecomeElected(p, s, d),
           vote' = [vote EXCEPT ![p] = [r \in Safekeepers |-> None]],
           rsp' = [rsp EXCEPT ![p][s] = None],
           UNCHANGED <<propTerm, dirty>>, UNCHANGED skVars
    PROVE  LogInv'
<1> DEFINE V == Voters(p, s)
           dv == VoteOf(p, s, d)
           bootstrap == \A r \in V : VoteOf(p, s, r).flush = 0
           start == IF bootstrap THEN FirstLsn ELSE dv.flush
           th == Append(dv.hist, TermLsn(propTerm[p], start))
           at == [r \in Safekeepers |-> StartStreamingAt(th, propTerm[p],
                    VoteOf(p, s, r).hist, VoteOf(p, s, r).flush)]
           w == IF bootstrap THEN <<>> ELSE dv.wal
<1>1. /\ wpState' = [wpState EXCEPT ![p] = "ELECTED"]
      /\ propHist' = [propHist EXCEPT ![p] = th]
      /\ propWal' = [propWal EXCEPT ![p] = w]
      /\ skState' = [skState EXCEPT ![p] = [r \in Safekeepers |->
                        IF r \in V THEN "ACTIVE" ELSE skState[p][r]]]
      /\ streamingAt' = [streamingAt EXCEPT ![p] = [r \in Safekeepers |->
                            IF r \in V THEN at[r] ELSE streamingAt[p][r]]]
      /\ q' = [q EXCEPT !["live"][p] = [r \in Safekeepers |->
                  IF r \in V THEN Append(q["live"][p][r], ElectedMsg(at[r]))
                  ELSE q["live"][p][r]]]
  <2>1. q \in [Chan -> [Proposers -> [Safekeepers -> Seq(Messages)]]] /\ "live" \in Chan
    BY DEF TypeInv, TypeOK, NetTypeOK, Chan
  <2>2. q' = [q EXCEPT !["live"][p] = [r \in Safekeepers |->
                  IF r \in V THEN Append(q["live"][p][r], ElectedMsg(at[r]))
                  ELSE q["live"][p][r]]]
    BY <2>1 DEF BecomeElected
  <2>3. DOMAIN skState = Proposers /\ DOMAIN streamingAt = Proposers
    BY DEF TypeInv, TypeOK, LinkTypeOK
  <2>4. /\ skState' = [skState EXCEPT ![p] = [r \in Safekeepers |->
                        IF r \in V THEN "ACTIVE" ELSE skState[p][r]]]
        /\ streamingAt' = [streamingAt EXCEPT ![p] = [r \in Safekeepers |->
                            IF r \in V THEN at[r] ELSE streamingAt[p][r]]]
    BY <2>3 DEF BecomeElected
  <2>5. /\ wpState' = [wpState EXCEPT ![p] = "ELECTED"]
        /\ propHist' = [propHist EXCEPT ![p] = th]
        /\ propWal' = [propWal EXCEPT ![p] = w]
    BY DEF BecomeElected
  <2> QED BY <2>2, <2>4, <2>5
<1>2. /\ V \in SUBSET Safekeepers /\ s \in V
      /\ \A r \in V : r = s \/ vote[p][r] # None
      /\ d \in Safekeepers /\ (d = s \/ vote[p][d] # None)
  BY VoteOfType, DonorType
<1>3. \A r \in Safekeepers : r = s \/ vote[p][r] # None =>
         /\ VoteOf(p, s, r) \in VoteResponses /\ VoteLog(p, VoteOf(p, s, r))
         /\ VoteOf(p, s, r).hist \in TermHistories /\ VoteOf(p, s, r).flush \in Nat
         /\ VoteOf(p, s, r).term = propTerm[p]
         /\ HighestTerm(VoteOf(p, s, r).hist) < propTerm[p]
  BY CountedVote
<1>4. /\ dv \in VoteResponses /\ VoteLog(p, dv) /\ dv.hist \in TermHistories /\ dv.flush \in Nat
      /\ HighestTerm(dv.hist) < propTerm[p]
  BY <1>2, <1>3
<1>5. /\ \/ dv.hist = <<>> /\ w = <<>>
         \/ dv.hist # <<>> /\ HasDurable(dv.hist, w, start, dv.term)
      /\ start = Len(w) + 1 /\ start \in Nat
  <2>1. CASE bootstrap
    <3>1. w = <<>> /\ start = 1
      BY <2>1 DEF FirstLsn
    <3>2. dv.hist = <<>>
      <4>1. CASE d \in V
        <5>1. dv.flush = 0
          BY <2>1, <4>1
        <5> HIDE DEF dv
        <5> QED BY <1>4, <5>1 DEF VoteLog, HasDurable
      <4>2. CASE d \notin V
        <5>1. d # s /\ vote[p][d].hist = <<>>
          BY <1>2, <4>2
        <5> QED BY <5>1 DEF VoteOf
      <4> QED BY <4>1, <4>2
    <3> QED BY <3>1, <3>2
  <2>2. CASE ~bootstrap
    <3>1. PICK r \in V : VoteOf(p, s, r).flush # 0
      BY <2>2
    <3>2. dv.flush >= 1
      BY <3>1, DonorFlushed
    <3>3. w = dv.wal /\ start = dv.flush
      BY <2>2
    <3> HIDE DEF dv, w, start, bootstrap
    <3>4. dv.flush # 0 /\ dv.flush = Len(dv.wal) + 1 /\ HasDurable(dv.hist, dv.wal, dv.flush, dv.term)
      BY <1>4, <3>2 DEF VoteLog
    <3>5. dv.hist # <<>>
      BY <3>4 DEF HasDurable
    <3> QED BY <1>4, <3>3, <3>4, <3>5
  <2> QED BY <2>1, <2>2
<1> HIDE DEF dv, start, w, bootstrap
<1>6. /\ propHist'[p] = th /\ propWal'[p] = w /\ wpState'[p] = "ELECTED"
      /\ \A r \in Proposers : r # p => /\ propHist'[r] = propHist[r] /\ propWal'[r] = propWal[r]
                                       /\ wpState'[r] = wpState[r]
  <2> HIDE DEF th
  <2> QED BY <1>1 DEF TypeInv, TypeOK, WpTypeOK
<1>7. ~Elected(p)
  BY DEF Elected, TypeInv, SupportInv, ProposerOK
<1>8. LeaderLog(p)' /\ Elected(p)'
  <2>1. Leaders
    BY DEF LogInv, Leaders
  <2>2. propHist'[p] = Append(dv.hist, TermLsn(propTerm[p], start))
    BY <1>6
  <2> HIDE DEF th
  <2>3. /\ start = Len(propWal'[p]) + 1
        /\ \/ dv.hist = <<>> /\ propWal'[p] = <<>>
           \/ dv.hist # <<>> /\ HasDurable(dv.hist, propWal'[p], start, dv.term)
    BY <1>5, <1>6
  <2> QED BY <1>4, <1>5, <1>6, <1>7, <2>1, <2>2, <2>3, NewLeaderLog
<1>9. LeadersGrow /\ LeadersStep
  <2>1. \A r \in Proposers : r # p => Extended(propWal[r], propWal'[r])
    BY <1>6, LogTypes DEF Extended
  <2> HIDE DEF th
  <2> QED BY <1>6, <1>7, <1>8, <2>1 DEF LeadersGrow, LeadersStep, Elected
<1>10. HistoriesStep /\ \A x \in Safekeepers : SafekeeperLog(x)'
  BY <1>9, SafekeepersRest DEF skVars
<1>11. ASSUME NEW r \in V PROVE at[r] <= AvailableLsn(p)' /\ ElectedMsg(at[r]) \in Messages
  <2> DEFINE vh == VoteOf(p, s, r).hist
             f == VoteOf(p, s, r).flush
  <2>1. at[r] = StartStreamingAt(th, propTerm[p], vh, f) /\ r \in Safekeepers
    BY <1>2
  <2>2. /\ th \in TermHistories /\ th # <<>> /\ Ascending(th) /\ th[1].lsn = FirstLsn
        /\ propTerm[p] \in Nat /\ th[Len(th)].term = propTerm[p] /\ HighestTerm(th) = propTerm[p]
        /\ th[Len(th)].lsn <= AvailableLsn(p)' /\ AvailableLsn(p)' \in Nat
    <3> HIDE DEF th
    <3>1. propHist'[p] \in TermHistories /\ propHist'[p] # <<>> /\ propTerm[p] \in Nat
      BY <1>8, LogTypes DEF TypeInv, TypeOK, WpTypeOK, Elected
    <3>2. HighestTerm(propHist'[p]) = propTerm[p]
      BY <1>8 DEF TypeInv, SupportInv, ProposerOK, Elected
    <3>3. /\ Ascending(propHist'[p]) /\ propHist'[p][1].lsn = FirstLsn
          /\ propHist'[p][Len(propHist'[p])].lsn <= AvailableLsn(p)'
      BY <1>8 DEF LeaderLog, PropTermStartLsn
    <3>4. AvailableLsn(p)' \in Nat
      BY <1>5, <1>6 DEF AvailableLsn
    <3> QED BY <1>6, <3>1, <3>2, <3>3, <3>4 DEF HighestTerm
  <2>3. /\ VoteOf(p, s, r) \in VoteResponses /\ vh \in TermHistories /\ f \in Nat
        /\ HighestTerm(vh) < propTerm[p] /\ HasDurable(vh, VoteOf(p, s, r).wal, f, propTerm[p])
        /\ vh # <<>> => f >= 1
    <3>1. r = s \/ vote[p][r] # None
      BY <1>2
    <3> QED BY <1>2, <1>3, <3>1, VoteOfType DEF VoteLog
  <2> HIDE DEF vh, f, th, at
  <2>4. ASSUME NEW i \in 1..Len(vh), vh[i].term = propTerm[p] PROVE f <= AvailableLsn(p)'
    <3>1. vh[i].term <= HighestTerm(vh) /\ vh[i].term \in Nat
      BY <2>3, VoteTerms DEF LogInv, Leaders
    <3>2. HighestTerm(vh) \in Nat
      BY <2>2, <2>3, DurableTerm
    <3> QED BY <2>2, <2>3, <2>4, <3>1, <3>2
  <2>5. at[r] <= AvailableLsn(p)'
    <3> DEFINE e == AvailableLsn(p)'
               t == propTerm[p]
    <3>1. /\ th \in TermHistories /\ th # <<>> /\ Ascending(th) /\ th[1].lsn = FirstLsn
          /\ t \in Nat /\ th[Len(th)].term = t /\ e \in Nat /\ th[Len(th)].lsn <= e
          /\ vh \in TermHistories /\ f \in Nat
      BY <2>2, <2>3
    <3>2. ASSUME NEW i \in 1..Len(vh), vh[i].term = t PROVE f <= e
      BY <2>4, <3>2
    <3> HIDE DEF e, t
    <3>3. StartStreamingAt(th, t, vh, f) <= e
      BY <3>1, <3>2, StreamStart
    <3> QED BY <2>1, <3>3 DEF e, t
  <2>6. at[r] \in 1..MaxLsn
    <3>1. StartStreamingAt(th, propTerm[p], VoteOf(p, s, r).hist, VoteOf(p, s, r).flush) \in 1..MaxLsn
      BY <2>2, <2>3, StreamingStartType DEF vh, f
    <3> QED BY <2>1, <3>1 DEF vh, f
  <2>7. at[r] \in Lsns
    BY <2>6, ConstantsType DEF Lsns
  <2> QED BY <2>5, <2>7, ConstantsType DEF ElectedMsg, Messages
<1>12. VotesStep /\ RepliesStep
  <2>1. \A r \in Proposers, x \in Safekeepers : vote'[r][x] = vote[r][x] \/ vote'[r][x] = None
    BY DEF TypeInv, TypeOK, LinkTypeOK
  <2>2. \A r \in Proposers, x \in Safekeepers : rsp'[r][x] = rsp[r][x] \/ rsp'[r][x] = None
    BY DEF TypeInv, TypeOK, NetTypeOK
  <2> QED BY <2>1, <2>2 DEF VotesStep, RepliesStep
<1> HIDE DEF at, th, V
<1>13. LinksStep
  <2>1. q \in [Chan -> [Proposers -> [Safekeepers -> Seq(Messages)]]] /\ "live" \in Chan
    BY DEF TypeInv, TypeOK, NetTypeOK, Chan
  <2>2. ASSUME NEW k \in Chan, NEW r \in Proposers, NEW x \in Safekeepers
        PROVE  IF k = "live" /\ r = p /\ x \in V
               THEN q'[k][r][x] = Append(q[k][r][x], ElectedMsg(at[x]))
               ELSE q'[k][r][x] = q[k][r][x]
    <3>1. CASE k = "live" /\ r = p
      <4>1. q'[k][r] = [y \in Safekeepers |->
                  IF y \in V THEN Append(q["live"][p][y], ElectedMsg(at[y])) ELSE q["live"][p][y]]
        BY <1>1, <2>1, <3>1
      <4> QED BY <3>1, <4>1
    <3>2. CASE ~(k = "live" /\ r = p)
      <4>1. q'[k][r] = q[k][r]
        BY <1>1, <2>1, <3>2
      <4> QED BY <3>2, <4>1
    <3> QED BY <3>1, <3>2
  <2>3. ASSUME NEW x \in V PROVE ElectedMsg(at[x]) \in Messages /\ ElectedMsg(at[x]).type = "elected"
    BY <1>11 DEF ElectedMsg
  <2>4. \A k \in Chan, r \in Proposers, x \in Safekeepers : QueueStep(k, r, x)
    BY <2>2, <2>3 DEF QueueStep, Taken, Sent
  <2>5. \A k \in Chan, r \in Proposers, x \in Safekeepers : DirtyStep(k, r, x)
    BY DEF DirtyStep
  <2>6. ASSUME NEW r \in Proposers, NEW x \in Safekeepers PROVE ActiveStep(r, x)
    <3>1. CASE r = p /\ x \in V
      <4>1. streamingAt'[r][x] = at[x]
        BY <1>1, <3>1 DEF TypeInv, TypeOK, LinkTypeOK
      <4>2. q'["live"][r][x] = Append(q["live"][r][x], ElectedMsg(at[x]))
        BY <2>1, <2>2, <3>1
      <4>3. /\ Len(q["live"][r][x]) + 1 \in 1..Len(q'["live"][r][x])
            /\ q'["live"][r][x][Len(q["live"][r][x]) + 1] = ElectedMsg(at[x])
        BY <2>1, <2>3, <3>1, <4>2
      <4> QED BY <1>11, <2>3, <3>1, <4>1, <4>3 DEF ActiveStep
    <3>2. CASE ~(r = p /\ x \in V)
      <4>1. skState'[r][x] = skState[r][x] /\ streamingAt'[r][x] = streamingAt[r][x]
        BY <1>1, <3>2 DEF TypeInv, TypeOK, LinkTypeOK
      <4>2. q'["live"][r][x] = q["live"][r][x]
        BY <2>1, <2>2, <3>2
      <4> QED BY <4>1, <4>2 DEF ActiveStep, Taken
    <3> QED BY <3>1, <3>2
  <2> QED BY <2>4, <2>5, <2>6 DEF LinksStep
<1> QED BY <1>9, <1>10, <1>12, <1>13, LogStep

(* Every step of a proposer.                                               *)
LEMMA ProposerStepLog ==
    ASSUME TypeInv, VotesInv, LogInv, TypeInv', NEW p \in Proposers, ProposerStep(p)
    PROVE  LogInv'
<1>1. ASSUME NEW s \in Safekeepers, RecvVoteElects(p, s) PROVE LogInv'
  <2>1. PICK d \in DonorChoices(p, s) :
         IF d \in Voters(p, s) \/ vote[p][d].hist = <<>>
         THEN /\ BecomeElected(p, s, d)
              /\ vote' = [vote EXCEPT ![p] = [r \in Safekeepers |-> None]]
              /\ rsp' = [rsp EXCEPT ![p][s] = None]
              /\ UNCHANGED <<propTerm, nConnected, propCommit, ack, dirty>>
         ELSE Fatal(p)
    BY <1>1 DEF RecvVoteElects
  <2>2. /\ VoteArrives(p, s) /\ ~VoteFatal(p, s) /\ wpState[p] = "CAMPAIGN" /\ UNCHANGED skVars
    BY <1>1 DEF RecvVoteElects
  <2>3. CASE d \in Voters(p, s) \/ vote[p][d].hist = <<>>
    BY <2>1, <2>2, <2>3, BecomeElectedLog
  <2>4. CASE ~(d \in Voters(p, s) \/ vote[p][d].hist = <<>>)
    BY <2>1, <2>2, <2>4, FatalLog
  <2> QED BY <2>3, <2>4
<1>2. ASSUME NEW s \in Safekeepers,
             GreetRejected(p, s) \/ RecvVoteRefused(p, s) \/ RecvAckFatal(p, s) \/ Die(p)
      PROVE  LogInv'
  BY <1>2, FatalLog DEF GreetRejected, RecvVoteRefused, RecvAckFatal, Die
<1>3. CASE \E s \in Safekeepers :
             GreetCollecting(p, s) \/ GreetStartsCampaign(p, s) \/ GreetLate(p, s)
               \/ RecvVoteCounted(p, s) \/ RecvVoteLate(p, s)
  BY <1>3, GreetCollectingLog, GreetCampaignLog, RecvVoteCountedLog, RecvVoteLateLog
<1>4. CASE \E s \in Safekeepers :
             SendAppendRequest(p, s) \/ RecvAppendResponse(p, s) \/ Disconnect(p, s)
  BY <1>4, SendAppendRequestLog, RecvAppendResponseLog, DisconnectLog
<1>5. CASE WriteWal(p)
  BY <1>5, WriteWalLog
<1>6. CASE Die(p)
  <2>1. UNCHANGED skVars /\ Fatal(p)
    BY <1>6 DEF Die
  <2> QED BY <2>1, FatalLog
<1> QED BY <1>1, <1>2, <1>3, <1>4, <1>5, <1>6 DEF ProposerStep

(* The invariant holds initially ...                                       *)
LEMMA InitLog == Init => LogInv
<1> SUFFICES ASSUME Init PROVE LogInv
  OBVIOUS
<1>1. ASSUME NEW s \in Safekeepers PROVE SafekeeperLog(s)
  <2>1. /\ hist[s] = Root /\ wal[s] = <<>> /\ flushLsn[s] = (IF CreatedWithLsn THEN FirstLsn ELSE 0)
    BY DEF Init, Root
  <2>2. Root = <<>> <=> ~CreatedWithLsn
    BY DEF Root
  <2>3. Len(wal[s]) = 0
    BY <2>1
  <2> QED BY <2>1, <2>2, <2>3 DEF SafekeeperLog, HasLog, FirstLsn
<1>2. ASSUME NEW p \in Proposers PROVE ~Elected(p)
  BY DEF Init, Elected
<1>3. ASSUME NEW p \in Proposers, NEW s \in Safekeepers PROVE LinkLog(p, s)
  BY DEF Init, LinkLog
<1>4. ASSUME NEW k \in Chan, NEW p \in Proposers, NEW s \in Safekeepers PROVE ConnectionLog(k, p, s)
  <2>1. q[k][p][s] = <<>> /\ dirty[k][p][s] = FALSE
    BY DEF Init
  <2> QED BY <2>1 DEF ConnectionLog
<1> QED BY <1>1, <1>2, <1>3, <1>4 DEF LogInv

(* ... and is preserved.                                                   *)
LEMMA NextLog ==
    ASSUME TypeInv, VotesInv, LogInv, TypeInv', [Next]_vars
    PROVE  LogInv'
<1>1. CASE Next
  BY <1>1, SafekeeperStepLog, ProposerStepLog DEF Next
<1>2. CASE UNCHANGED vars
  <2>1. /\ UNCHANGED skVars /\ UNCHANGED wpVars /\ UNCHANGED linkVars /\ UNCHANGED netVars
    BY <1>2 DEF vars
  <2>2. LeadersGrow /\ LeadersStep
    BY <2>1, ProposersRest DEF wpVars
  <2>3. HistoriesStep /\ \A x \in Safekeepers : SafekeeperLog(x)'
    BY <2>1, <2>2, SafekeepersRest DEF skVars
  <2>4. RepliesStep /\ VotesStep
    BY <2>1 DEF RepliesStep, VotesStep, linkVars, netVars
  <2>5. LinksStep
    BY <2>1, LinksRest DEF linkVars, netVars
  <2> QED BY <2>2, <2>3, <2>4, <2>5, LogStep
<1> QED BY <1>1, <1>2

-----------------------------------------------------------------------------
(* What follows for safekeepers and their connections.                     *)

(* The history of a safekeeper describes its WAL.                          *)
LEMMA LogDescribed ==
    ASSUME TypeInv, LogInv
    PROVE  HistoryDescribesWal
<1> SUFFICES ASSUME NEW s \in Safekeepers, NEW l \in 1..Len(wal[s])
             PROVE  wal[s][l] = TermLsn(TermAt(hist[s], l), l)
  BY DEF HistoryDescribesWal
<1>1. HasLog(hist[s], wal[s], term[s]) /\ Len(wal[s]) \in Nat
  BY LogTypes DEF LogInv, SafekeeperLog
<1>2. wal[s] # <<>>
  OBVIOUS
<1>3. PICK r \in Proposers : Elected(r) /\ hist[s] = propHist[r] /\ Agree(wal[s], propWal[r], Len(wal[s]) + 1)
  BY <1>1, <1>2 DEF HasLog
<1>4. l \in 1..((Len(wal[s]) + 1) - 1) /\ l \in 1..Len(propWal[r])
  BY <1>1, <1>3, LogTypes DEF Agree
<1>5. wal[s][l] = propWal[r][l]
  BY <1>3, <1>4 DEF Agree
<1> QED BY <1>3, <1>4, <1>5 DEF LogInv, LeaderLog

(* The term history of a safekeeper describes its WAL record by record, in *)
(* every state that votes, elections, truncations, appends and crashes can *)
(* lead to (handle_elected, handle_append_request, truncate_wal).          *)
THEOREM HistoryCorrect == Spec => []HistoryDescribesWal
<1>1. Init => TypeInv /\ VotesInv /\ LogInv
  BY InitType, InitVotes, InitLog
<1>2. TypeInv /\ VotesInv /\ LogInv /\ [Next]_vars => (TypeInv /\ VotesInv /\ LogInv)'
  BY NextType, NextVotes, NextLog
<1>3. TypeInv /\ LogInv => HistoryDescribesWal
  BY LogDescribed
<1> QED BY <1>1, <1>2, <1>3, PTL DEF Spec

(* The position a proposer streams from is in its WAL: what the Assert of  *)
(* SendProposerElected says, also when voters have more WAL than the       *)
(* proposer and when votes arrive after the election.                      *)
THEOREM StreamingWithinWal == Spec => []StreamsOnlyAvailableWal
<1>1. Init => TypeInv /\ VotesInv /\ LogInv
  BY InitType, InitVotes, InitLog
<1>2. TypeInv /\ VotesInv /\ LogInv /\ [Next]_vars => (TypeInv /\ VotesInv /\ LogInv)'
  BY NextType, NextVotes, NextLog
<1>3. TypeInv /\ LogInv => StreamsOnlyAvailableWal
  <2> SUFFICES ASSUME TypeInv, LogInv, NEW p \in Proposers, NEW s \in Safekeepers,
                      skState[p][s] = "ACTIVE"
               PROVE  streamingAt[p][s] \in FirstLsn..AvailableLsn(p)
    BY DEF StreamsOnlyAvailableWal
  <2>1. streamingAt[p][s] <= AvailableLsn(p) /\ streamingAt[p][s] >= 1
    BY DEF LogInv, LinkLog, TypeInv, SupportInv, LinkOK
  <2>2. streamingAt[p][s] \in Nat /\ AvailableLsn(p) \in Nat
    <3>1. streamingAt[p][s] \in Lsns
      BY DEF TypeInv, TypeOK, LinkTypeOK
    <3>2. AvailableLsn(p) = Len(propWal[p]) + 1 /\ Len(propWal[p]) \in Nat
      BY LogTypes
    <3>3. streamingAt[p][s] \in Nat
      BY <3>1, ConstantsType
    <3>4. AvailableLsn(p) \in Nat
      BY <3>2
    <3> QED BY <3>3, <3>4
  <2> QED BY <2>1, <2>2 DEF FirstLsn
<1> QED BY <1>1, <1>2, <1>3, PTL DEF Spec

=============================================================================
