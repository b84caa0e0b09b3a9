------------------------- MODULE WalConsensusProofs -------------------------
(***************************************************************************)
(* Proofs about WalConsensus, for any number of safekeepers, proposers,    *)
(* terms, records and failures.                                            *)
(***************************************************************************)
EXTENDS WalConsensus, TermHistoryProofs

-----------------------------------------------------------------------------
(* The inductive invariant.  TypeOK alone is not inductive: for example, a *)
(* record that HandleAppendRequest copies exists only because the message  *)
(* that names it was sent from the WAL the proposer still has.             *)

(* A safekeeper is either still empty or has valid LSNs everywhere.        *)
Started(s) ==
    /\ flushLsn[s] = 0 <=> memCommit[s] = 0
    /\ flushLsn[s] = 0 <=> cfCommit[s] = 0
    /\ flushLsn[s] = 0 => wal[s] = <<>> /\ truncPending[s] = TRUE

(* A request in flight belongs to the proposer's campaign, or to its term. *)
RequestOK(p, m) ==
    /\ m.type = "vote" => wpState[p] # "COLLECTING_TERMS"
    /\ m.type # "vote" => propHist[p] # <<>> /\ m.lo >= 1
    /\ m.type = "append" => m.hi <= AvailableLsn(p)

(* A vote with a term history has WAL.                                     *)
VoteOK(v) == v # None /\ v.type = "vote" => (v.hist # <<>> => v.flush >= 1)

ProposerOK(p) ==
    /\ wpState[p] = "COLLECTING_TERMS" => nConnected[p] < Quorum /\ donor[p] = None
    /\ wpState[p] = "ELECTED" => propHist[p] # <<>>
    /\ propHist[p] # <<>> => /\ wpState[p] \in {"ELECTED", "DEAD"}
                             /\ HighestTerm(propHist[p]) = propTerm[p]
    /\ wpState[p] = "CAMPAIGN" /\ donor[p] # None => vote[p][donor[p]] # None

LinkOK(p, s) ==
    /\ skState[p][s] = "WAIT_ELECTED" => wpState[p] = "CAMPAIGN" /\ vote[p][s] # None
    /\ skState[p][s] = "ACTIVE" => wpState[p] = "ELECTED" /\ streamingAt[p][s] >= 1
    /\ VoteOK(vote[p][s]) /\ VoteOK(rsp[p][s])

QueueOK(k, p, s) == \A i \in 1..Len(q[k][p][s]) : RequestOK(p, q[k][p][s][i])

(* Votes: s never votes again in a term it voted in, and what the proposer *)
(* counts was given to it.                                                 *)
ElectionOK(p, s) ==
    /\ s \in grantedTo[p] => propTerm[p] <= term[s] /\ wpState[p] # "COLLECTING_TERMS"
    /\ vote[p][s] # None => s \in grantedTo[p]
    /\ rsp[p][s] # None => (rsp[p][s].type = "vote" /\ rsp[p][s].given => s \in grantedTo[p])
    /\ \A r \in Proposers : r # p /\ s \in grantedTo[p] /\ s \in grantedTo[r]
                               => propTerm[p] # propTerm[r]

SupportInv ==
    /\ \A s \in Safekeepers : Started(s)
    /\ \A p \in Proposers : ProposerOK(p)
    /\ \A p \in Proposers, s \in Safekeepers : LinkOK(p, s)
    /\ \A k \in Chan, p \in Proposers, s \in Safekeepers : QueueOK(k, p, s)

TypeInv == TypeOK /\ SupportInv

VotesInv ==
    /\ \A p \in Proposers, s \in Safekeepers : ElectionOK(p, s)
    /\ \A p \in Proposers : propHist[p] # <<>> => HasQuorum(grantedTo[p])

-----------------------------------------------------------------------------
(* Constants and small operators.                                          *)

(* The constants are numbers, and a quorum is more than half.              *)
LEMMA ConstantsType ==
    /\ Quorum \in Nat /\ Quorum >= 1
    /\ Cardinality(Safekeepers) \in Nat
    /\ 2 * Quorum > Cardinality(Safekeepers)
    /\ MaxTerm \in Nat /\ MaxLsn \in Nat /\ MaxLsn >= 1 /\ MaxFaults \in Nat
    /\ MaxSendSize \in Nat /\ WalSegSize \in Nat
    /\ FirstLsn \in 1..MaxLsn
    /\ Terms \subseteq Nat /\ Lsns \subseteq Nat /\ 0 \in Terms /\ 0 \in Lsns
<1>1. Cardinality(Safekeepers) \in Nat
  BY FS_CardinalityType, ConstantsAssumption
<1> QED
  BY <1>1, ConstantsAssumption DEF Quorum, Terms, Lsns, FirstLsn

(* The prefix of a WAL below an LSN is a WAL.                              *)
LEMMA BelowType ==
    ASSUME NEW w \in Logs, NEW lsn \in Lsns
    PROVE  /\ Below(w, lsn) \in Logs
           /\ Len(Below(w, lsn)) <= Len(w)
<1> DEFINE R == [term : Terms, lsn : 1..MaxLsn]
           n == Lower(lsn - 1, Len(w))
<1>1. w \in Seq(R) /\ Len(w) \in Nat /\ Len(w) < MaxLsn
  BY DEF Logs
<1>2. n \in Int /\ n <= Len(w)
  BY <1>1 DEF Lower, Lsns
<1> HIDE DEF R, n
<1>3. SubSeq(w, 1, n) \in Seq(R) /\ Len(SubSeq(w, 1, n)) <= Len(w)
  BY <1>1, <1>2
<1> QED
  BY <1>1, <1>3, ConstantsType DEF Logs, R, Below, n

(* Two quorums have a safekeeper in common.                                *)
LEMMA QuorumsIntersect ==
    ASSUME NEW S \in SUBSET Safekeepers, NEW T \in SUBSET Safekeepers,
           HasQuorum(S), HasQuorum(T)
    PROVE  S \cap T # {}
<1>1. IsFiniteSet(Safekeepers)
  BY ConstantsAssumption
<1>2. Cardinality(S) \in Nat /\ Cardinality(T) \in Nat
  BY <1>1, FS_Subset, FS_CardinalityType
<1>3. Cardinality(S) + Cardinality(T) > Cardinality(Safekeepers)
  BY <1>2, ConstantsType DEF HasQuorum
<1> QED
  BY <1>1, <1>3, FS_MajoritiesIntersect

(* A larger set of safekeepers is a quorum too.                            *)
LEMMA QuorumGrows ==
    ASSUME NEW S \in SUBSET Safekeepers, NEW T \in SUBSET Safekeepers,
           S \subseteq T, HasQuorum(S)
    PROVE  HasQuorum(T)
<1>1. IsFiniteSet(T) /\ IsFiniteSet(S)
  BY ConstantsAssumption, FS_Subset
<1>2. Cardinality(S) <= Cardinality(T) /\ Cardinality(S) \in Nat /\ Cardinality(T) \in Nat
  BY <1>1, FS_Subset, FS_CardinalityType
<1> QED
  BY <1>2, ConstantsType DEF HasQuorum

(* The type invariant holds initially: no connections, empty timelines.    *)
LEMMA InitType == Init => TypeInv
<1> SUFFICES ASSUME Init PROVE TypeInv
  OBVIOUS
<1> USE ConstantsType
<1>1. SkTypeOK
  <2>1. <<>> \in Logs /\ <<>> \in TermHistories
    BY DEF Logs, TermHistories
  <2>2. <<TermLsn(0, FirstLsn)>> \in TermHistories
    <3>1. TermLsn(0, FirstLsn) \in [term : Terms, lsn : 1..MaxLsn]
      BY DEF TermLsn
    <3> QED BY <3>1 DEF TermHistories
  <2>3. FirstLsn \in Lsns
    BY DEF Lsns
  <2> QED BY <2>1, <2>2, <2>3 DEF Init, SkTypeOK
<1>2. WpTypeOK
  BY DEF Init, WpTypeOK, TermHistories, Logs
<1>3. LinkTypeOK
  BY DEF Init, LinkTypeOK
<1>4. NetTypeOK
  BY DEF Init, NetTypeOK
<1>5. AuxTypeOK
  BY DEF Init, AuxTypeOK, Logs
<1>6. \A s \in Safekeepers : Started(s)
  BY DEF Init, Started, FirstLsn
<1>7. \A p \in Proposers : ProposerOK(p)
  BY DEF Init, ProposerOK
<1>8. \A p \in Proposers, s \in Safekeepers : LinkOK(p, s)
  BY DEF Init, LinkOK, VoteOK
<1>9. \A k \in Chan, p \in Proposers, s \in Safekeepers : QueueOK(k, p, s)
  BY DEF Init, QueueOK
<1> QED
  BY <1>1, <1>2, <1>3, <1>4, <1>5, <1>6, <1>7, <1>8, <1>9 DEF TypeInv, TypeOK, SupportInv

-----------------------------------------------------------------------------
(* Facts that the steps share.                                             *)

(* What a step does to a proposer while its requests are in flight: its    *)
(* campaign and its term go on, its WAL only grows.                        *)
Monotone(p) ==
    /\ wpState[p] # "COLLECTING_TERMS" => wpState'[p] # "COLLECTING_TERMS"
    /\ propHist[p] # <<>> => propHist'[p] # <<>> /\ Len(propWal'[p]) >= Len(propWal[p])

(* Steps that leave the proposers alone are monotone.                      *)
LEMMA MonotoneIfUnchanged ==
    ASSUME TypeOK, UNCHANGED wpVars
    PROVE  \A p \in Proposers : Monotone(p)
BY DEF TypeOK, WpTypeOK, Logs, wpVars, Monotone

(* A WAL has a length, below the bound.                                    *)
LEMMA LogLength == \A w \in Logs : Len(w) \in Nat /\ Len(w) < MaxLsn
BY DEF Logs

(* Requests that are in flight stay what they are; a step has to justify   *)
(* only the ones it adds.                                                  *)
LEMMA QueuesStable ==
    ASSUME TypeInv, TypeOK',
           \A p \in Proposers : Monotone(p),
           \A k \in Chan, p \in Proposers, s \in Safekeepers :
             \A i \in 1..Len(q'[k][p][s]) :
               \/ \E c \in Chan : \E j \in 1..Len(q[c][p][s]) : q'[k][p][s][i] = q[c][p][s][j]
               \/ RequestOK(p, q[k][p][s][i])'
    PROVE  \A k \in Chan, p \in Proposers, s \in Safekeepers : QueueOK(k, p, s)'
<1> SUFFICES ASSUME NEW k \in Chan, NEW p \in Proposers, NEW s \in Safekeepers,
                    NEW i \in 1..Len(q'[k][p][s])
             PROVE  RequestOK(p, q[k][p][s][i])'
  BY DEF QueueOK
<1>1. CASE \E c \in Chan : \E j \in 1..Len(q[c][p][s]) : q'[k][p][s][i] = q[c][p][s][j]
  <2>1. PICK c \in Chan : \E j \in 1..Len(q[c][p][s]) : q'[k][p][s][i] = q[c][p][s][j]
    BY <1>1
  <2>2. PICK j \in 1..Len(q[c][p][s]) : q'[k][p][s][i] = q[c][p][s][j]
    BY <2>1
  <2>3. RequestOK(p, q[c][p][s][j])
    BY DEF TypeInv, SupportInv, QueueOK
  <2>4. q[c][p][s][j] \in Messages
    <3>1. q[c][p][s] \in Seq(Messages)
      BY DEF TypeInv, TypeOK, NetTypeOK
    <3> QED BY <3>1, ElementOfSeq
  <2>5. q[c][p][s][j].hi \in Nat
    BY <2>4, ConstantsType DEF Messages, Lsns
  <2>6. Len(propWal[p]) \in Nat /\ Len(propWal'[p]) \in Nat
    BY LogLength DEF TypeInv, TypeOK, WpTypeOK
  <2>7. Monotone(p)
    OBVIOUS
  <2> DEFINE m == q[c][p][s][j]
  <2>8. /\ m.type = "vote" => wpState'[p] # "COLLECTING_TERMS"
        /\ m.type # "vote" => propHist'[p] # <<>> /\ m.lo >= 1
        /\ m.type = "append" => m.hi <= Len(propWal'[p]) + 1
    <3>1. /\ m.type = "vote" => wpState[p] # "COLLECTING_TERMS"
          /\ m.type # "vote" => propHist[p] # <<>> /\ m.lo >= 1
          /\ m.type = "append" => m.hi <= Len(propWal[p]) + 1
      BY <2>3 DEF RequestOK, AvailableLsn
    <3>2. m.type = "append" => m.hi <= Len(propWal'[p]) + 1
      BY <2>5, <2>6, <2>7, <3>1, SMTT(30) DEF Monotone
    <3> QED BY <2>7, <3>1, <3>2 DEF Monotone
  <2> QED
    BY <2>2, <2>8 DEF RequestOK, AvailableLsn
<1>2. CASE RequestOK(p, q[k][p][s][i])'
  BY <1>2
<1> QED BY <1>1, <1>2

(* write_lsn is an LSN, 0 exactly on an empty safekeeper.                  *)
LEMMA WriteLsnType ==
    ASSUME TypeInv, NEW s \in Safekeepers
    PROVE  /\ WriteLsn(s) \in Lsns
           /\ WriteLsn(s) = 0 <=> flushLsn[s] = 0
           /\ WriteLsn(s) # 0 => WriteLsn(s) = Len(wal[s]) + 1
<1>1. wal[s] \in Logs /\ flushLsn[s] \in Lsns
  BY DEF TypeInv, TypeOK, SkTypeOK
<1> QED BY <1>1, LogLength, ConstantsType DEF WriteLsn, Lsns

(* The vote that a safekeeper sends.                                       *)
LEMMA VoteResponseType ==
    ASSUME TypeInv, NEW s \in Safekeepers, NEW t \in Terms, NEW g \in BOOLEAN,
           NEW flush \in Lsns
    PROVE  LET v == VoteResponse(t, g, flush, memHorizon[s], UpTo(hist[s], flush), wal[s])
           IN  v \in VoteResponses /\ VoteOK(v)
<1> DEFINE E == [term : Terms, lsn : 1..MaxLsn]
<1>1. hist[s] \in Seq(E) /\ wal[s] \in Logs /\ memHorizon[s] \in Lsns
  BY DEF TypeInv, TypeOK, SkTypeOK, TermHistories
<1>2. \A e \in E : e.lsn \in Nat
  BY ConstantsType
<1>3. flush \in Nat
  BY ConstantsType
<1>4. /\ UpTo(hist[s], flush) \in Seq(E)
      /\ UpTo(hist[s], flush) # <<>> => hist[s] # <<>> /\ hist[s][1].lsn <= flush
  <2> HIDE DEF E
  <2> QED BY <1>1, <1>2, <1>3, UpToType
<1>5. UpTo(hist[s], flush) # <<>> => flush >= 1
  <2> SUFFICES ASSUME UpTo(hist[s], flush) # <<>> PROVE flush >= 1
    OBVIOUS
  <2>1. 1 \in 1..Len(hist[s])
    BY <1>1, <1>4
  <2>2. hist[s][1].lsn \in 1..MaxLsn
    BY <1>1, <2>1, EntriesType
  <2> QED BY <1>3, <1>4, <2>2, ConstantsType
<1> QED
  BY <1>1, <1>4, <1>5 DEF VoteResponse, VoteResponses, TermHistories, VoteOK

(* Taking a message off a queue.                                           *)
LEMMA ConsumeType ==
    ASSUME TypeInv, NEW k \in Chan, NEW p \in Proposers, NEW s \in Safekeepers,
           NEW type, Received(k, p, s, type), Consume(k, p, s)
    PROVE  /\ q' \in [Chan -> [Proposers -> [Safekeepers -> Seq(Messages)]]]
           /\ \A c \in Chan, r \in Proposers, x \in Safekeepers :
                \A i \in 1..Len(q'[c][r][x]) :
                  \E d \in Chan : \E j \in 1..Len(q[d][r][x]) : q'[c][r][x][i] = q[d][r][x][j]
           /\ Head(q[k][p][s]) \in Messages
           /\ Head(q[k][p][s]).type = type
           /\ RequestOK(p, Head(q[k][p][s]))
<1>1. q \in [Chan -> [Proposers -> [Safekeepers -> Seq(Messages)]]]
  BY DEF TypeInv, TypeOK, NetTypeOK
<1>2. q[k][p][s] \in Seq(Messages) /\ q[k][p][s] # <<>>
  BY <1>1 DEF Received
<1>3. Tail(q[k][p][s]) \in Seq(Messages) /\ Head(q[k][p][s]) = q[k][p][s][1]
      /\ Head(q[k][p][s]) \in Messages
  BY <1>2
<1>4. q' = [q EXCEPT ![k][p][s] = Tail(q[k][p][s])]
  BY DEF Consume
<1>5. q' \in [Chan -> [Proposers -> [Safekeepers -> Seq(Messages)]]]
  BY <1>1, <1>3, <1>4
<1>6. ASSUME NEW c \in Chan, NEW r \in Proposers, NEW x \in Safekeepers,
             NEW i \in 1..Len(q'[c][r][x])
      PROVE  \E d \in Chan : \E j \in 1..Len(q[d][r][x]) : q'[c][r][x][i] = q[d][r][x][j]
  <2>1. CASE <<c, r, x>> = <<k, p, s>>
    <3>1. q'[c][r][x] = Tail(q[c][r][x]) /\ q[c][r][x] \in Seq(Messages) /\ q[c][r][x] # <<>>
      BY <1>1, <1>2, <1>4, <2>1
    <3>2. i + 1 \in 1..Len(q[c][r][x]) /\ q'[c][r][x][i] = q[c][r][x][i + 1]
      BY <3>1
    <3> QED BY <3>2
  <2>2. CASE <<c, r, x>> # <<k, p, s>>
    <3>1. q'[c][r][x] = q[c][r][x]
      BY <1>1, <1>4, <2>2
    <3> QED BY <3>1
  <2> QED BY <2>1, <2>2
<1>7. RequestOK(p, q[k][p][s][1])
  <2>1. 1 \in 1..Len(q[k][p][s])
    BY <1>2
  <2> QED BY <2>1 DEF TypeInv, SupportInv, QueueOK
<1> QED
  BY <1>3, <1>5, <1>6, <1>7 DEF Received

(* A reply.                                                                *)
LEMMA ReplyType ==
    ASSUME TypeInv, NEW k \in Chan, NEW p \in Proposers, NEW s \in Safekeepers,
           NEW r \in VoteResponses \cup AppendResponses, VoteOK(r), Reply(k, p, s, r)
    PROVE  /\ rsp' \in [Proposers -> [Safekeepers -> VoteResponses \cup AppendResponses \cup {None}]]
           /\ \A x \in Proposers, y \in Safekeepers : VoteOK(rsp'[x][y])
           /\ \A x \in Proposers, y \in Safekeepers :
                rsp'[x][y] = rsp[x][y] \/ (x = p /\ y = s /\ rsp'[x][y] = r)
<1>1. rsp \in [Proposers -> [Safekeepers -> VoteResponses \cup AppendResponses \cup {None}]]
  BY DEF TypeInv, TypeOK, NetTypeOK
<1>2. \A x \in Proposers, y \in Safekeepers : VoteOK(rsp[x][y])
  BY DEF TypeInv, SupportInv, LinkOK
<1>3. rsp' = rsp \/ rsp' = [rsp EXCEPT ![p][s] = r]
  BY DEF Reply
<1>4. \A x \in Proposers, y \in Safekeepers :
        rsp'[x][y] = rsp[x][y] \/ (x = p /\ y = s /\ rsp'[x][y] = r)
  BY <1>1, <1>3
<1> QED
  BY <1>1, <1>2, <1>3, <1>4 DEF VoteOK

(* A step of a safekeeper, or of the network, leaves the proposers alone   *)
(* but may close connections: what is left to show about it.               *)
LEMMA SafekeeperStepSupport ==
    ASSUME TypeInv, TypeOK', UNCHANGED wpVars, UNCHANGED vote,
           \A s \in Safekeepers : Started(s)',
           \A p \in Proposers, s \in Safekeepers :
              \/ skState'[p][s] = "OFFLINE"
              \/ skState'[p][s] = skState[p][s] /\ streamingAt'[p][s] = streamingAt[p][s],
           \A p \in Proposers, s \in Safekeepers : VoteOK(rsp'[p][s]),
           \A k \in Chan, p \in Proposers, s \in Safekeepers :
             \A i \in 1..Len(q'[k][p][s]) :
               \E c \in Chan : \E j \in 1..Len(q[c][p][s]) : q'[k][p][s][i] = q[c][p][s][j]
    PROVE  TypeInv'
<1>1. \A p \in Proposers : ProposerOK(p)'
  BY DEF TypeInv, SupportInv, ProposerOK, wpVars
<1>2. \A p \in Proposers, s \in Safekeepers : LinkOK(p, s)'
  <2> SUFFICES ASSUME NEW p \in Proposers, NEW s \in Safekeepers
               PROVE  LinkOK(p, s)'
    OBVIOUS
  <2>1. LinkOK(p, s)
    BY DEF TypeInv, SupportInv
  <2>2. VoteOK(vote'[p][s]) /\ VoteOK(rsp'[p][s])
    BY <2>1 DEF LinkOK
  <2>3. \/ skState'[p][s] = "OFFLINE"
        \/ skState'[p][s] = skState[p][s] /\ streamingAt'[p][s] = streamingAt[p][s]
    OBVIOUS
  <2> QED BY <2>1, <2>2, <2>3 DEF LinkOK, wpVars, VoteOK
<1>3. \A k \in Chan, p \in Proposers, s \in Safekeepers : QueueOK(k, p, s)'
  <2>1. \A p \in Proposers : Monotone(p)
    BY MonotoneIfUnchanged DEF TypeInv
  <2>2. \A k \in Chan, p \in Proposers, s \in Safekeepers :
          \A i \in 1..Len(q'[k][p][s]) :
            \/ \E c \in Chan : \E j \in 1..Len(q[c][p][s]) : q'[k][p][s][i] = q[c][p][s][j]
            \/ RequestOK(p, q[k][p][s][i])'
    OBVIOUS
  <2> QED BY ONLY TypeInv, TypeOK', <2>1, <2>2, QueuesStable, Zenon
<1> QED
  BY <1>1, <1>2, <1>3 DEF TypeInv, SupportInv

(* The common case: the connections and the other tables are untouched.    *)
LEMMA LinksUnchanged ==
    ASSUME TypeInv, UNCHANGED linkVars
    PROVE  /\ LinkTypeOK'
           /\ UNCHANGED vote
           /\ \A p \in Proposers, s \in Safekeepers :
              \/ skState'[p][s] = "OFFLINE"
              \/ skState'[p][s] = skState[p][s] /\ streamingAt'[p][s] = streamingAt[p][s]
BY DEF TypeInv, TypeOK, LinkTypeOK, linkVars

(* A step that leaves the proposers alone keeps their types.               *)
LEMMA ProposersUnchanged ==
    ASSUME TypeInv, UNCHANGED wpVars
    PROVE  WpTypeOK'
BY DEF TypeInv, TypeOK, WpTypeOK, wpVars

-----------------------------------------------------------------------------
(* Steps of a safekeeper.                                                  *)

(* handle_vote_request preserves the type invariant.                       *)
LEMMA HandleVoteRequestType ==
    ASSUME TypeInv, NEW k \in Chan, NEW p \in Proposers, NEW s \in Safekeepers,
           HandleVoteRequest(k, p, s)
    PROVE  TypeInv'
<1> USE DEF HandleVoteRequest
<1> DEFINE newTerm == IF VoteGranted(p, s) THEN propTerm[p] ELSE term[s]
           r == VoteResponse(newTerm, VoteGranted(p, s), WriteLsn(s), memHorizon[s],
                             UpTo(hist[s], WriteLsn(s)), wal[s])
<1>1. newTerm \in Terms /\ VoteGranted(p, s) \in BOOLEAN
  BY DEF TypeInv, TypeOK, SkTypeOK, WpTypeOK, VoteGranted
<1>2. WriteLsn(s) \in Lsns /\ (WriteLsn(s) = 0 <=> flushLsn[s] = 0)
  BY WriteLsnType
<1>3. r \in VoteResponses /\ VoteOK(r)
  BY <1>1, <1>2, VoteResponseType
<1>4. Received(k, p, s, "vote") /\ Consume(k, p, s) /\ Reply(k, p, s, r)
  OBVIOUS
<1> HIDE DEF r
<1>5. SkTypeOK'
  BY <1>1, <1>2 DEF TypeInv, TypeOK, SkTypeOK, FlushWal, PersistInmem
<1>6. NetTypeOK'
  BY <1>3, <1>4, ReplyType, ConsumeType DEF TypeInv, TypeOK, NetTypeOK
<1>7. AuxTypeOK'
  BY DEF TypeInv, TypeOK, AuxTypeOK
<1>8. LinkTypeOK' /\ WpTypeOK'
  BY LinksUnchanged, ProposersUnchanged
<1>9. \A x \in Safekeepers : Started(x)'
  <2> SUFFICES ASSUME NEW x \in Safekeepers PROVE Started(x)'
    OBVIOUS
  <2>1. Started(x)
    BY DEF TypeInv, SupportInv
  <2> QED
    BY <1>2, <2>1, ConstantsType
    DEF Started, FlushWal, PersistInmem, TypeInv, TypeOK, SkTypeOK
<1> QED
  BY <1>3, <1>4, <1>5, <1>6, <1>7, <1>8, <1>9, ReplyType, ConsumeType, LinksUnchanged,
     SafekeeperStepSupport DEF TypeOK

(* A step that leaves the safekeepers, or the network, alone.              *)
LEMMA SafekeepersUnchanged ==
    ASSUME TypeInv, UNCHANGED skVars
    PROVE  SkTypeOK' /\ \A s \in Safekeepers : Started(s)'
BY DEF TypeInv, TypeOK, SkTypeOK, SupportInv, Started, skVars

(* Requests in flight that a step leaves alone.                            *)
LEMMA QueuesUnchanged ==
    ASSUME TypeInv, UNCHANGED q
    PROVE  /\ q' \in [Chan -> [Proposers -> [Safekeepers -> Seq(Messages)]]]
           /\ \A k \in Chan, p \in Proposers, s \in Safekeepers :
                \A i \in 1..Len(q'[k][p][s]) :
                  \E c \in Chan : \E j \in 1..Len(q[c][p][s]) : q'[k][p][s][i] = q[c][p][s][j]
BY DEF TypeInv, TypeOK, NetTypeOK

(* Replies in flight that a step leaves alone.                             *)
LEMMA RepliesUnchanged ==
    ASSUME TypeInv, UNCHANGED rsp
    PROVE  /\ rsp' \in [Proposers -> [Safekeepers -> VoteResponses \cup AppendResponses \cup {None}]]
           /\ \A p \in Proposers, s \in Safekeepers : VoteOK(rsp'[p][s])
<1>1. \A p \in Proposers, s \in Safekeepers : VoteOK(rsp[p][s])
  BY DEF TypeInv, SupportInv, LinkOK
<1> QED
  BY <1>1 DEF TypeInv, TypeOK, NetTypeOK

(* A step that acknowledges nothing, votes for nobody and does not fail.   *)
LEMMA AuxUnchanged ==
    ASSUME TypeInv, UNCHANGED auxVars
    PROVE  AuxTypeOK'
BY DEF TypeInv, TypeOK, AuxTypeOK, auxVars

(* A dropped ProposerElected preserves the type invariant.                 *)
LEMMA IgnoreElectedType ==
    ASSUME TypeInv, NEW k \in Chan, NEW p \in Proposers, NEW s \in Safekeepers,
           IgnoreElected(k, p, s)
    PROVE  TypeInv'
<1> USE DEF IgnoreElected
<1>1. SkTypeOK' /\ \A x \in Safekeepers : Started(x)'
  BY SafekeepersUnchanged
<1>2. NetTypeOK'
  BY ConsumeType, RepliesUnchanged DEF TypeInv, TypeOK, NetTypeOK
<1>3. AuxTypeOK' /\ LinkTypeOK' /\ WpTypeOK'
  BY AuxUnchanged, LinksUnchanged, ProposersUnchanged
<1> QED
  BY <1>1, <1>2, <1>3, ConsumeType, RepliesUnchanged, LinksUnchanged, SafekeeperStepSupport
  DEF TypeOK

(* A connection closed by the safekeeper.                                  *)
LEMMA CloseOnErrorType ==
    ASSUME TypeInv, NEW k \in Chan, NEW p \in Proposers, NEW s \in Safekeepers,
           CloseOnError(k, p, s), UNCHANGED peerInfo
    PROVE  /\ LinkTypeOK' /\ NetTypeOK'
           /\ UNCHANGED vote
           /\ \A r \in Proposers, x \in Safekeepers :
              \/ skState'[r][x] = "OFFLINE"
              \/ skState'[r][x] = skState[r][x] /\ streamingAt'[r][x] = streamingAt[r][x]
           /\ \A r \in Proposers, x \in Safekeepers : VoteOK(rsp'[r][x])
           /\ \A c \in Chan, r \in Proposers, x \in Safekeepers :
                \A i \in 1..Len(q'[c][r][x]) :
                  \E d \in Chan : \E j \in 1..Len(q[d][r][x]) : q'[c][r][x][i] = q[d][r][x][j]
<1>0. /\ \/ UNCHANGED <<skState, streamingAt, rsp>>
         \/ /\ skState' = [skState EXCEPT ![p][s] = "OFFLINE"]
            /\ streamingAt' = [streamingAt EXCEPT ![p][s] = 0]
            /\ rsp' = [rsp EXCEPT ![p][s] = None]
      /\ q' = [q EXCEPT ![k][p][s] = <<>>]
      /\ dirty' = [dirty EXCEPT ![k][p][s] = FALSE]
      /\ UNCHANGED <<vote, ack>>
  BY DEF CloseOnError
<1>1. LinkTypeOK /\ NetTypeOK
  BY DEF TypeInv, TypeOK
<1> DEFINE R == VoteResponses \cup AppendResponses \cup {None}
<1>2. /\ LinkTypeOK'
      /\ rsp' \in [Proposers -> [Safekeepers -> R]]
      /\ \A r \in Proposers, x \in Safekeepers :
           /\ \/ skState'[r][x] = "OFFLINE"
              \/ skState'[r][x] = skState[r][x] /\ streamingAt'[r][x] = streamingAt[r][x]
           /\ rsp'[r][x] = rsp[r][x] \/ rsp'[r][x] = None
  <2>1. CASE UNCHANGED <<skState, streamingAt, rsp>>
    BY <1>0, <1>1, <2>1 DEF LinkTypeOK, NetTypeOK
  <2>2. CASE /\ skState' = [skState EXCEPT ![p][s] = "OFFLINE"]
             /\ streamingAt' = [streamingAt EXCEPT ![p][s] = 0]
             /\ rsp' = [rsp EXCEPT ![p][s] = None]
    <3>1. rsp' \in [Proposers -> [Safekeepers -> R]]
      <4>1. rsp \in [Proposers -> [Safekeepers -> R]] /\ None \in R
        BY <1>1 DEF NetTypeOK
      <4> QED BY <2>2, <4>1
    <3>2. LinkTypeOK'
      BY <1>0, <1>1, <2>2, ConstantsType DEF LinkTypeOK
    <3>3. ASSUME NEW r \in Proposers, NEW x \in Safekeepers
          PROVE  /\ \/ skState'[r][x] = "OFFLINE"
                    \/ skState'[r][x] = skState[r][x] /\ streamingAt'[r][x] = streamingAt[r][x]
                 /\ rsp'[r][x] = rsp[r][x] \/ rsp'[r][x] = None
      BY <1>1, <2>2 DEF LinkTypeOK, NetTypeOK
    <3> QED BY <3>1, <3>2, <3>3
  <2> QED BY <1>0, <2>1, <2>2
<1>3. NetTypeOK'
  <2>1. q' \in [Chan -> [Proposers -> [Safekeepers -> Seq(Messages)]]]
    BY <1>0, <1>1 DEF NetTypeOK
  <2>2. dirty' \in [Chan -> [Proposers -> [Safekeepers -> BOOLEAN]]]
    BY <1>0, <1>1 DEF NetTypeOK
  <2> QED BY <1>1, <1>2, <2>1, <2>2 DEF NetTypeOK
<1>4. \A r \in Proposers, x \in Safekeepers : VoteOK(rsp'[r][x])
  <2>1. \A r \in Proposers, x \in Safekeepers : VoteOK(rsp[r][x])
    BY DEF TypeInv, SupportInv, LinkOK
  <2> QED BY <1>2, <2>1 DEF VoteOK
<1>5. ASSUME NEW c \in Chan, NEW r \in Proposers, NEW x \in Safekeepers,
             NEW i \in 1..Len(q'[c][r][x])
      PROVE  \E d \in Chan : \E j \in 1..Len(q[d][r][x]) : q'[c][r][x][i] = q[d][r][x][j]
  <2>1. q'[c][r][x] = q[c][r][x] \/ q'[c][r][x] = <<>>
    BY <1>0, <1>1 DEF NetTypeOK
  <2> QED BY <2>1
<1> QED BY <1>0, <1>2, <1>3, <1>4, <1>5

(* A refused ProposerElected preserves the type invariant.                 *)
LEMMA RefuseElectedType ==
    ASSUME TypeInv, NEW k \in Chan, NEW p \in Proposers, NEW s \in Safekeepers,
           RefuseElected(k, p, s)
    PROVE  TypeInv'
<1> USE DEF RefuseElected
<1>1. SkTypeOK'
  BY DEF TypeInv, TypeOK, SkTypeOK, WpTypeOK, RaiseTerm, PersistInmem
<1>2. \A x \in Safekeepers : Started(x)'
  BY DEF TypeInv, SupportInv, TypeOK, SkTypeOK, Started, RaiseTerm, PersistInmem
<1>3. AuxTypeOK' /\ WpTypeOK'
  BY AuxUnchanged, ProposersUnchanged
<1> QED
  BY <1>1, <1>2, <1>3, CloseOnErrorType, SafekeeperStepSupport DEF TypeOK

(* A refused AppendRequest preserves the type invariant.                   *)
LEMMA RefuseAppendType ==
    ASSUME TypeInv, NEW k \in Chan, NEW p \in Proposers, NEW s \in Safekeepers,
           RefuseAppend(k, p, s)
    PROVE  TypeInv'
<1> USE DEF RefuseAppend
<1>1. SkTypeOK' /\ \A x \in Safekeepers : Started(x)'
  BY SafekeepersUnchanged
<1>2. AuxTypeOK' /\ WpTypeOK'
  BY AuxUnchanged, ProposersUnchanged
<1> QED
  BY <1>1, <1>2, CloseOnErrorType, SafekeeperStepSupport DEF TypeOK

(* A proposer with a history: its first entry.                             *)
LEMMA TimelineStartType ==
    ASSUME TypeInv, NEW p \in Proposers, propHist[p] # <<>>
    PROVE  propHist[p][1].lsn \in 1..MaxLsn
<1> DEFINE E == [term : Terms, lsn : 1..MaxLsn]
<1>1. propHist[p] \in Seq(E)
  BY DEF TypeInv, TypeOK, WpTypeOK, TermHistories
<1>2. 1 \in 1..Len(propHist[p])
  BY <1>1
<1> QED BY <1>1, <1>2, EntriesType

(* handle_elected preserves the type invariant: it makes every LSN valid.  *)
LEMMA HandleElectedType ==
    ASSUME TypeInv, NEW k \in Chan, NEW p \in Proposers, NEW s \in Safekeepers,
           HandleElected(k, p, s)
    PROVE  TypeInv'
<1> USE DEF HandleElected
<1> DEFINE start == Head(q[k][p][s]).lo
           t0 == propHist[p][1].lsn
           commit == Higher(memCommit[s], t0)
           horizon == IF memHorizon[s] = 0 THEN t0 ELSE memHorizon[s]
<1>1. /\ Head(q[k][p][s]) \in Messages
      /\ Head(q[k][p][s]).type = "elected"
      /\ RequestOK(p, Head(q[k][p][s]))
  BY ConsumeType
<1>2. start \in Lsns /\ start >= 1 /\ propHist[p] # <<>>
  BY <1>1 DEF Messages, RequestOK
<1>3. t0 \in 1..MaxLsn
  BY <1>2, TimelineStartType
<1>4. memCommit[s] \in Lsns /\ memHorizon[s] \in Lsns
  BY DEF TypeInv, TypeOK, SkTypeOK
<1>5. commit \in Lsns /\ commit >= 1 /\ horizon \in Lsns
  BY <1>3, <1>4, ConstantsType DEF Higher, Lsns
<1>6. Below(wal[s], start) \in Logs
  BY <1>2, BelowType DEF TypeInv, TypeOK, SkTypeOK
<1>7. /\ term' = [term EXCEPT ![s] = propTerm[p]]
      /\ wal' = [wal EXCEPT ![s] = Below(wal[s], start)]
      /\ flushLsn' = [flushLsn EXCEPT ![s] = start]
      /\ truncPending' = [truncPending EXCEPT ![s] = FALSE]
      /\ hist' = [hist EXCEPT ![s] = propHist[p]]
      /\ memCommit' = [memCommit EXCEPT ![s] = commit]
      /\ cfCommit' = [cfCommit EXCEPT ![s] = commit]
      /\ memHorizon' = [memHorizon EXCEPT ![s] = horizon]
      /\ cfHorizon' = [cfHorizon EXCEPT ![s] = horizon]
  BY DEF TruncateWal
<1> HIDE DEF start, commit, horizon, t0
<1>8. SkTypeOK'
  BY <1>2, <1>5, <1>6, <1>7 DEF TypeInv, TypeOK, SkTypeOK, WpTypeOK
<1>9. \A x \in Safekeepers : Started(x)'
  <2> SUFFICES ASSUME NEW x \in Safekeepers PROVE Started(x)'
    OBVIOUS
  <2>1. Started(x)
    BY DEF TypeInv, SupportInv
  <2> QED
    BY <1>2, <1>5, <1>7, <2>1, ConstantsType DEF Started, TypeInv, TypeOK, SkTypeOK
<1>10. NetTypeOK'
  BY ConsumeType, RepliesUnchanged DEF TypeInv, TypeOK, NetTypeOK
<1>11. AuxTypeOK' /\ LinkTypeOK' /\ WpTypeOK'
  BY AuxUnchanged, LinksUnchanged, ProposersUnchanged
<1> QED
  BY <1>8, <1>9, <1>10, <1>11, ConsumeType, RepliesUnchanged, LinksUnchanged,
     SafekeeperStepSupport DEF TypeOK

(* The dirty flag of a WalAcceptor.                                        *)
LEMMA DirtyType ==
    ASSUME TypeInv, NEW k \in Chan, NEW p \in Proposers, NEW s \in Safekeepers,
           NEW b \in BOOLEAN, dirty' = [dirty EXCEPT ![k][p][s] = b]
    PROVE  dirty' \in [Chan -> [Proposers -> [Safekeepers -> BOOLEAN]]]
BY DEF TypeInv, TypeOK, NetTypeOK

(* The reply to appends.                                                   *)
LEMMA AppendResponseType ==
    ASSUME NEW t \in Terms, NEW flush \in Lsns
    PROVE  AppendResponse(t, flush) \in AppendResponses /\ VoteOK(AppendResponse(t, flush))
BY DEF AppendResponse, AppendResponses, VoteOK

(* The reply to an old proposer preserves the type invariant.              *)
LEMMA AppendOfOldTermType ==
    ASSUME TypeInv, NEW k \in Chan, NEW p \in Proposers, NEW s \in Safekeepers,
           AppendOfOldTerm(k, p, s)
    PROVE  TypeInv'
<1> USE DEF AppendOfOldTerm
<1> DEFINE r == AppendResponse(term[s], 0)
<1>1. term[s] \in Terms
  BY DEF TypeInv, TypeOK, SkTypeOK
<1>2. r \in AppendResponses /\ VoteOK(r)
  BY <1>1, AppendResponseType, ConstantsType
<1>3. Received(k, p, s, "append") /\ Consume(k, p, s) /\ Reply(k, p, s, r)
  OBVIOUS
<1> HIDE DEF r
<1>4. SkTypeOK' /\ \A x \in Safekeepers : Started(x)'
  BY SafekeepersUnchanged
<1>5. NetTypeOK'
  BY <1>2, <1>3, ConsumeType, ReplyType, DirtyType DEF TypeInv, TypeOK, NetTypeOK
<1>6. AuxTypeOK' /\ LinkTypeOK' /\ WpTypeOK'
  BY AuxUnchanged, LinksUnchanged, ProposersUnchanged
<1> QED
  BY <1>2, <1>3, <1>4, <1>5, <1>6, ConsumeType, ReplyType, LinksUnchanged,
     SafekeeperStepSupport DEF TypeOK

(* handle_flush preserves the type invariant.                              *)
LEMMA HandleFlushType ==
    ASSUME TypeInv, NEW k \in Chan, NEW p \in Proposers, NEW s \in Safekeepers,
           HandleFlush(k, p, s)
    PROVE  TypeInv'
<1> USE DEF HandleFlush
<1> DEFINE r == AppendResponse(term[s], WriteLsn(s))
<1>1. WriteLsn(s) \in Lsns /\ (WriteLsn(s) = 0 <=> flushLsn[s] = 0)
  BY WriteLsnType
<1>2. r \in AppendResponses /\ VoteOK(r)
  BY <1>1, AppendResponseType DEF TypeInv, TypeOK, SkTypeOK
<1>3. Reply(k, p, s, r)
  OBVIOUS
<1> HIDE DEF r
<1>4. SkTypeOK'
  BY <1>1 DEF TypeInv, TypeOK, SkTypeOK, FlushWal
<1>5. \A x \in Safekeepers : Started(x)'
  <2> SUFFICES ASSUME NEW x \in Safekeepers PROVE Started(x)'
    OBVIOUS
  <2>1. Started(x)
    BY DEF TypeInv, SupportInv
  <2> QED
    BY <1>1, <2>1, ConstantsType DEF Started, FlushWal, TypeInv, TypeOK, SkTypeOK
<1>6. NetTypeOK'
  BY <1>2, <1>3, QueuesUnchanged, ReplyType, DirtyType DEF TypeInv, TypeOK, NetTypeOK
<1>7. AuxTypeOK' /\ LinkTypeOK' /\ WpTypeOK'
  BY AuxUnchanged, LinksUnchanged, ProposersUnchanged
<1> QED
  BY <1>2, <1>3, <1>4, <1>5, <1>6, <1>7, QueuesUnchanged, ReplyType, LinksUnchanged,
     SafekeeperStepSupport DEF TypeOK

(* update_commit_lsn stays within the flushed WAL and is zero only on an   *)
(* empty safekeeper.                                                       *)
LEMMA UpdatedCommitLsnType ==
    ASSUME TypeInv, NEW s \in Safekeepers, NEW c \in Lsns
    PROVE  /\ UpdatedCommitLsn(s, c, flushLsn[s]) \in Lsns
           /\ c # 0 => (UpdatedCommitLsn(s, c, flushLsn[s]) = 0 <=> flushLsn[s] = 0)
<1>1. memCommit[s] \in Lsns /\ flushLsn[s] \in Lsns
  BY DEF TypeInv, TypeOK, SkTypeOK
<1> QED BY <1>1, ConstantsType DEF UpdatedCommitLsn, Higher, Lower, Lsns

(* The WAL after an AppendRequest that is not refused is as long as a WAL  *)
(* may be, because the proposer still has what the request refers to.      *)
LEMMA AppendedWalType ==
    ASSUME TypeInv, NEW p \in Proposers, NEW s \in Safekeepers, NEW m \in Messages,
           m.type = "append", RequestOK(p, m), ~AppendRefused(p, s, m)
    PROVE  /\ wal[s] \o SubSeq(propWal[p], m.lo, m.hi - 1) \in Logs
           /\ flushLsn[s] = 0 => wal[s] \o SubSeq(propWal[p], m.lo, m.hi - 1) = <<>>
<1> DEFINE R == [term : Terms, lsn : 1..MaxLsn]
           part == SubSeq(propWal[p], m.lo, m.hi - 1)
<1>1. wal[s] \in Logs /\ propWal[p] \in Logs
  BY DEF TypeInv, TypeOK, SkTypeOK, WpTypeOK
<1>2. /\ wal[s] \in Seq(R) /\ Len(wal[s]) \in Nat /\ Len(wal[s]) < MaxLsn
      /\ propWal[p] \in Seq(R) /\ Len(propWal[p]) \in Nat /\ Len(propWal[p]) < MaxLsn
  BY <1>1 DEF Logs
<1>3. m.lo \in Lsns /\ m.hi \in Lsns /\ m.lo >= 1 /\ m.hi <= Len(propWal[p]) + 1
  BY DEF Messages, RequestOK, AvailableLsn
<1>4. m.lo \in Nat /\ m.hi \in Nat
  BY <1>3, ConstantsType
<1>5. /\ WriteLsn(s) \in Lsns
      /\ WriteLsn(s) = 0 <=> flushLsn[s] = 0
      /\ WriteLsn(s) # 0 => WriteLsn(s) = Len(wal[s]) + 1
  BY WriteLsnType
<1>6. WriteLsn(s) = m.lo \/ WriteLsn(s) = 0
  <2>1. WriteLsn(s) \in Nat
    BY <1>5, ConstantsType
  <2> QED BY <1>4, <2>1 DEF AppendRefused
<1> HIDE DEF R
<1>7. part \in Seq(R) /\ Len(part) = IF m.lo <= m.hi - 1 THEN m.hi - m.lo ELSE 0
  BY <1>2, <1>3, <1>4
<1> HIDE DEF part
<1>8. CASE WriteLsn(s) = 0
  <2>1. flushLsn[s] = 0 /\ wal[s] = <<>> /\ truncPending[s] = TRUE
    BY <1>5, <1>8 DEF TypeInv, SupportInv, Started
  <2>2. ~(m.hi > m.lo)
    BY <2>1 DEF AppendRefused
  <2>3. part = <<>>
    BY <1>4, <1>7, <2>2
  <2>4. wal[s] \o part = <<>>
    BY <2>1, <2>3
  <2> QED BY <2>1, <2>4, <1>1 DEF part
<1>9. CASE WriteLsn(s) # 0 /\ WriteLsn(s) = m.lo
  <2>1. wal[s] \o part \in Seq(R) /\ Len(wal[s] \o part) = Len(wal[s]) + Len(part)
    BY <1>2, <1>7
  <2>2. m.lo = Len(wal[s]) + 1
    BY <1>5, <1>9
  <2>3. Len(wal[s] \o part) < MaxLsn
    BY <1>2, <1>3, <1>4, <1>7, <2>1, <2>2, ConstantsType, SMTT(30)
  <2> QED BY <1>5, <1>9, <2>1, <2>3 DEF Logs, R, part
<1> QED BY <1>6, <1>8, <1>9

(* handle_append_request preserves the type invariant.                     *)
LEMMA HandleAppendRequestType ==
    ASSUME TypeInv, NEW k \in Chan, NEW p \in Proposers, NEW s \in Safekeepers,
           HandleAppendRequest(k, p, s)
    PROVE  TypeInv'
<1> DEFINE m == Head(q[k][p][s])
           commit == IF m.commit = 0 THEN memCommit[s]
                     ELSE UpdatedCommitLsn(s, m.commit, flushLsn[s])
           w == wal[s] \o SubSeq(propWal[p], m.lo, m.hi - 1)
           horizon == Higher(memHorizon[s], m.horizon)
<1>1. m \in Messages /\ m.type = "append" /\ RequestOK(p, m)
  <2>1. Received(k, p, s, "append") /\ Consume(k, p, s)
    BY DEF HandleAppendRequest
  <2> QED BY <2>1, ConsumeType
<1>2. ~AppendRefused(p, s, m)
  BY DEF HandleAppendRequest
<1>3. m.commit \in Lsns /\ m.horizon \in Lsns
  BY <1>1 DEF Messages
<1>4. w \in Logs /\ (flushLsn[s] = 0 => w = <<>>)
  BY <1>1, <1>2, AppendedWalType
<1>5. Started(s) /\ memCommit[s] \in Lsns /\ memHorizon[s] \in Lsns
  BY DEF TypeInv, SupportInv, TypeOK, SkTypeOK
<1>6. commit \in Lsns /\ (commit = 0 <=> flushLsn[s] = 0)
  BY <1>3, <1>5, UpdatedCommitLsnType DEF Started
<1>7. horizon \in Lsns
  BY <1>3, <1>5, SMTT(30) DEF Higher
<1>8. /\ wal' = [wal EXCEPT ![s] = w]
      /\ memCommit' = [memCommit EXCEPT ![s] = commit]
      /\ cfCommit' = [cfCommit EXCEPT ![s] = commit] \/ cfCommit' = cfCommit
      /\ cfHorizon' = [cfHorizon EXCEPT ![s] = memHorizon[s]] \/ cfHorizon' = cfHorizon
      /\ memHorizon' = [memHorizon EXCEPT ![s] = horizon]
      /\ UNCHANGED <<term, hist, flushLsn, truncPending>>
  BY DEF HandleAppendRequest
<1> HIDE DEF m, commit, w, horizon
<1>9. SkTypeOK'
  <2>1. SkTypeOK
    BY DEF TypeInv, TypeOK
  <2>2. cfCommit' \in [Safekeepers -> Lsns]
    BY <1>6, <1>8, <2>1 DEF SkTypeOK
  <2>3. cfHorizon' \in [Safekeepers -> Lsns]
    BY <1>5, <1>8, <2>1 DEF SkTypeOK
  <2> QED BY <1>4, <1>6, <1>7, <1>8, <2>1, <2>2, <2>3 DEF SkTypeOK
<1>10. \A x \in Safekeepers : Started(x)'
  <2> SUFFICES ASSUME NEW x \in Safekeepers PROVE Started(x)'
    OBVIOUS
  <2>1. Started(x)
    BY SMTT(30) DEF TypeInv, SupportInv
  <2> QED
    BY <1>4, <1>6, <1>8, <2>1, ConstantsType DEF Started, TypeInv, TypeOK, SkTypeOK
<1>11. NetTypeOK'
  <2>1. /\ Received(k, p, s, "append") /\ Consume(k, p, s)
        /\ dirty' = [dirty EXCEPT ![k][p][s] = TRUE]
        /\ UNCHANGED rsp /\ peerInfo' = peerInfo
    BY DEF HandleAppendRequest
  <2>2. q' \in [Chan -> [Proposers -> [Safekeepers -> Seq(Messages)]]]
    BY <2>1, ConsumeType
  <2>3. dirty' \in [Chan -> [Proposers -> [Safekeepers -> BOOLEAN]]]
    BY <2>1, DirtyType
  <2>4. rsp' \in [Proposers -> [Safekeepers -> VoteResponses \cup AppendResponses \cup {None}]]
    BY <2>1, RepliesUnchanged
  <2>5. peerInfo' \in PeerInfos \cup {None}
    BY <2>1 DEF TypeInv, TypeOK, NetTypeOK
  <2> QED BY <2>2, <2>3, <2>4, <2>5 DEF NetTypeOK
<1>12. AuxTypeOK' /\ LinkTypeOK' /\ WpTypeOK'
  BY AuxUnchanged, LinksUnchanged, ProposersUnchanged DEF HandleAppendRequest
<1> QED
  BY <1>9, <1>10, <1>11, <1>12, ConsumeType, RepliesUnchanged, LinksUnchanged,
     SafekeeperStepSupport DEF HandleAppendRequest, TypeOK

(* Steps that touch neither connections nor proposers.                     *)
LEMMA LocalStepType ==
    ASSUME TypeInv, UNCHANGED <<wpVars, linkVars, netVars>>,
           SkTypeOK', AuxTypeOK', peerInfo' \in PeerInfos \cup {None},
           \A s \in Safekeepers : Started(s)'
    PROVE  TypeInv'
<1>1. NetTypeOK'
  BY DEF TypeInv, TypeOK, NetTypeOK, netVars
<1>2. LinkTypeOK' /\ WpTypeOK'
  BY LinksUnchanged, ProposersUnchanged
<1>3. UNCHANGED q /\ UNCHANGED rsp
  BY DEF netVars
<1> QED
  BY <1>1, <1>2, <1>3, QueuesUnchanged, RepliesUnchanged, LinksUnchanged,
     SafekeeperStepSupport DEF TypeOK

(* A save of the control file preserves the type invariant.                *)
LEMMA SaveControlFileType ==
    ASSUME TypeInv, NEW s \in Safekeepers, SaveControlFile(s)
    PROVE  TypeInv'
<1> USE DEF SaveControlFile
<1>1. SkTypeOK'
  BY DEF TypeInv, TypeOK, SkTypeOK, PersistInmem
<1>2. \A x \in Safekeepers : Started(x)'
  BY DEF TypeInv, SupportInv, TypeOK, SkTypeOK, Started, PersistInmem
<1>3. AuxTypeOK' /\ peerInfo' \in PeerInfos \cup {None}
  BY AuxUnchanged DEF TypeInv, TypeOK, NetTypeOK
<1> QED BY <1>1, <1>2, <1>3, LocalStepType

(* term_bump preserves the type invariant.                                 *)
LEMMA TermBumpType ==
    ASSUME TypeInv, NEW s \in Safekeepers, TermBump(s)
    PROVE  TypeInv'
<1> USE DEF TermBump
<1>1. term[s] + 1 \in Terms
  BY ConstantsType DEF TypeInv, TypeOK, SkTypeOK, Terms
<1>2. SkTypeOK'
  BY <1>1 DEF TypeInv, TypeOK, SkTypeOK, PersistInmem
<1>3. \A x \in Safekeepers : Started(x)'
  BY DEF TypeInv, SupportInv, TypeOK, SkTypeOK, Started, PersistInmem
<1>4. AuxTypeOK'
  BY ConstantsType DEF TypeInv, TypeOK, AuxTypeOK
<1>5. peerInfo' \in PeerInfos \cup {None}
  BY DEF TypeInv, TypeOK, NetTypeOK
<1> QED BY <1>2, <1>3, <1>4, <1>5, LocalStepType

(* Sending to the broker preserves the type invariant.                     *)
LEMMA PublishInfoType ==
    ASSUME TypeInv, NEW s \in Safekeepers, PublishInfo(s)
    PROVE  TypeInv'
<1> USE DEF PublishInfo
<1>1. LastLogTerm(hist[s], flushLsn[s]) \in Terms
  <2> DEFINE E == [term : Terms, lsn : 1..MaxLsn]
  <2>1. hist[s] \in Seq(E) /\ flushLsn[s] \in Nat
    BY ConstantsType DEF TypeInv, TypeOK, SkTypeOK, TermHistories
  <2>2. \A e \in E : e.lsn \in Nat
    BY ConstantsType
  <2>3. UpTo(hist[s], flushLsn[s]) \in Seq(E)
    <3> HIDE DEF E
    <3> QED BY <2>1, <2>2, UpToType
  <2> DEFINE u == UpTo(hist[s], flushLsn[s])
  <2>4. ASSUME u # <<>> PROVE u[Len(u)].term \in Terms
    <3> HIDE DEF u
    <3>1. u \in Seq(E) /\ Len(u) \in 1..Len(u)
      BY <2>3, <2>4 DEF u
    <3> QED BY <3>1, EntriesType
  <2> QED BY <2>4, ConstantsType DEF LastLogTerm, HighestTerm
<1>2. peerInfo' \in PeerInfos \cup {None}
  BY <1>1 DEF PeerInfos, TypeInv, TypeOK, SkTypeOK
<1>3. SkTypeOK' /\ AuxTypeOK' /\ \A x \in Safekeepers : Started(x)'
  BY SafekeepersUnchanged, AuxUnchanged
<1> QED BY <1>2, <1>3, LocalStepType

(* record_safekeeper_info preserves the type invariant.                    *)
LEMMA RecordSafekeeperInfoType ==
    ASSUME TypeInv, NEW s \in Safekeepers, RecordSafekeeperInfo(s)
    PROVE  TypeInv'
<1> DEFINE adopt == PeerCommitUsable(peerInfo, s)
           commit == IF adopt THEN UpdatedCommitLsn(s, peerInfo.commit, flushLsn[s])
                     ELSE memCommit[s]
           horizon == Higher(peerInfo.horizon, memHorizon[s])
<1>1. peerInfo \in PeerInfos
  BY DEF TypeInv, TypeOK, NetTypeOK, RecordSafekeeperInfo
<1>2. peerInfo.commit \in Lsns /\ peerInfo.horizon \in Lsns
  BY <1>1 DEF PeerInfos
<1>3. Started(s) /\ memCommit[s] \in Lsns /\ memHorizon[s] \in Lsns
  BY DEF TypeInv, SupportInv, TypeOK, SkTypeOK
<1>4. adopt => peerInfo.commit # 0
  BY DEF PeerCommitUsable
<1>5. commit \in Lsns /\ (commit = 0 <=> flushLsn[s] = 0)
  BY <1>2, <1>3, <1>4, UpdatedCommitLsnType DEF Started
<1>6. horizon \in Lsns
  BY <1>2, <1>3 DEF Higher
<1>7. /\ memCommit' = [memCommit EXCEPT ![s] = commit]
      /\ memHorizon' = [memHorizon EXCEPT ![s] = horizon]
      /\ cfCommit' = [cfCommit EXCEPT ![s] = commit] \/ cfCommit' = cfCommit
      /\ \/ cfHorizon' = [cfHorizon EXCEPT ![s] = horizon]
         \/ cfHorizon' = [cfHorizon EXCEPT ![s] = memHorizon[s]]
         \/ cfHorizon' = cfHorizon
      /\ UNCHANGED <<term, hist, wal, flushLsn, truncPending>>
      /\ UNCHANGED <<wpVars, linkVars, netVars, peerInfo, auxVars>>
  BY DEF RecordSafekeeperInfo
<1> HIDE DEF adopt, commit, horizon
<1>8. SkTypeOK'
  <2>1. SkTypeOK
    BY DEF TypeInv, TypeOK
  <2>2. cfCommit' \in [Safekeepers -> Lsns]
    BY <1>5, <1>7, <2>1 DEF SkTypeOK
  <2>3. cfHorizon' \in [Safekeepers -> Lsns]
    BY <1>3, <1>6, <1>7, <2>1 DEF SkTypeOK
  <2> QED BY <1>5, <1>6, <1>7, <2>1, <2>2, <2>3 DEF SkTypeOK
<1>9. \A x \in Safekeepers : Started(x)'
  <2> SUFFICES ASSUME NEW x \in Safekeepers PROVE Started(x)'
    OBVIOUS
  <2>1. Started(x)
    BY DEF TypeInv, SupportInv
  <2> QED
    BY <1>5, <1>7, <2>1 DEF Started, TypeInv, TypeOK, SkTypeOK
<1>10. AuxTypeOK' /\ peerInfo' \in PeerInfos \cup {None}
  BY <1>7, AuxUnchanged DEF TypeInv, TypeOK, NetTypeOK
<1> QED BY <1>7, <1>8, <1>9, <1>10, LocalStepType

(* A restart.                                                              *)
LEMMA BootType ==
    ASSUME TypeInv, NEW s \in Safekeepers, NEW c \in Lsns, NEW h \in Lsns, NEW w \in Logs,
           c = 0 => w = <<>>, faults < MaxFaults, Boot(s, c, h, w),
           term' \in [Safekeepers -> Terms]
    PROVE  TypeInv'
<1> DEFINE flush == IF c = 0 THEN 0 ELSE Len(w) + 1
<1>1. flush \in Lsns /\ (flush = 0 <=> c = 0)
  BY LogLength, ConstantsType DEF Lsns
<1>2. /\ wal' = [wal EXCEPT ![s] = w]
      /\ flushLsn' = [flushLsn EXCEPT ![s] = flush]
      /\ truncPending' = [truncPending EXCEPT ![s] = TRUE]
      /\ memCommit' = [memCommit EXCEPT ![s] = c]
      /\ cfCommit' = [cfCommit EXCEPT ![s] = c]
      /\ memHorizon' = [memHorizon EXCEPT ![s] = h]
      /\ cfHorizon' = [cfHorizon EXCEPT ![s] = h]
      /\ hist' = hist
  BY DEF Boot
<1> HIDE DEF flush
<1>3. SkTypeOK'
  BY <1>1, <1>2 DEF TypeInv, TypeOK, SkTypeOK
<1>4. \A x \in Safekeepers : Started(x)'
  <2> SUFFICES ASSUME NEW x \in Safekeepers PROVE Started(x)'
    OBVIOUS
  <2>1. Started(x)
    BY DEF TypeInv, SupportInv
  <2> QED BY <1>1, <1>2, <2>1 DEF Started, TypeInv, TypeOK, SkTypeOK
<1>5. AuxTypeOK'
  BY ConstantsType DEF Boot, TypeInv, TypeOK, AuxTypeOK
<1>6. WpTypeOK' /\ UNCHANGED wpVars /\ UNCHANGED vote
  BY ProposersUnchanged DEF Boot
<1>7. LinkTypeOK'
  BY ConstantsType DEF Boot, TypeInv, TypeOK, LinkTypeOK
<1>8. NetTypeOK'
  <2>0. NetTypeOK
    BY DEF TypeInv, TypeOK
  <2>1. q' \in [Chan -> [Proposers -> [Safekeepers -> Seq(Messages)]]]
    BY <2>0 DEF Boot, NetTypeOK
  <2>2. dirty' \in [Chan -> [Proposers -> [Safekeepers -> BOOLEAN]]]
    BY <2>0 DEF Boot, NetTypeOK
  <2>3. rsp' \in [Proposers -> [Safekeepers -> VoteResponses \cup AppendResponses \cup {None}]]
    BY <2>0 DEF Boot, NetTypeOK
  <2>4. peerInfo' \in PeerInfos \cup {None}
    BY <2>0 DEF Boot, NetTypeOK
  <2> QED BY <2>1, <2>2, <2>3, <2>4 DEF NetTypeOK
<1>9. ASSUME NEW p \in Proposers, NEW x \in Safekeepers
      PROVE  \/ skState'[p][x] = "OFFLINE"
             \/ skState'[p][x] = skState[p][x] /\ streamingAt'[p][x] = streamingAt[p][x]
  BY DEF Boot, TypeInv, TypeOK, LinkTypeOK
<1>10. ASSUME NEW p \in Proposers, NEW x \in Safekeepers
       PROVE  VoteOK(rsp'[p][x])
  <2>1. VoteOK(rsp[p][x])
    BY DEF TypeInv, SupportInv, LinkOK
  <2>2. rsp'[p][x] = rsp[p][x] \/ rsp'[p][x] = None
    BY DEF Boot, TypeInv, TypeOK, NetTypeOK
  <2> QED BY <2>1, <2>2 DEF VoteOK
<1>11. ASSUME NEW k \in Chan, NEW p \in Proposers, NEW x \in Safekeepers,
              NEW i \in 1..Len(q'[k][p][x])
       PROVE  \E d \in Chan : \E j \in 1..Len(q[d][p][x]) : q'[k][p][x][i] = q[d][p][x][j]
  <2>1. q'[k][p][x] = q[k][p][x] \/ q'[k][p][x] = <<>>
    BY DEF Boot, TypeInv, TypeOK, NetTypeOK
  <2> QED BY <2>1
<1> QED
  BY <1>3, <1>4, <1>5, <1>6, <1>7, <1>8, <1>9, <1>10, <1>11, SafekeeperStepSupport DEF TypeOK

(* What a restart finds on disk is a WAL.                                  *)
LEMMA PrefixType ==
    ASSUME NEW w \in Logs, NEW n \in 0..Len(w)
    PROVE  SubSeq(w, 1, n) \in Logs /\ (w = <<>> => SubSeq(w, 1, n) = <<>>)
<1> DEFINE R == [term : Terms, lsn : 1..MaxLsn]
<1>1. w \in Seq(R) /\ Len(w) \in Nat /\ Len(w) < MaxLsn
  BY DEF Logs
<1> HIDE DEF R
<1>2. SubSeq(w, 1, n) \in Seq(R) /\ Len(SubSeq(w, 1, n)) = n
  BY <1>1
<1>3. w = <<>> => SubSeq(w, 1, n) = <<>>
  BY <1>1, <1>2
<1> QED BY <1>1, <1>2, <1>3, ConstantsType DEF Logs, R

(* A crash between messages preserves the type invariant.                  *)
LEMMA CrashType ==
    ASSUME TypeInv, NEW s \in Safekeepers, Crash(s)
    PROVE  TypeInv'
<1>1. PICK n \in {i \in 0..Len(wal[s]) : i + 1 >= flushLsn[s]} :
         Boot(s, cfCommit[s], cfHorizon[s], SubSeq(wal[s], 1, n))
  BY DEF Crash
<1>2. /\ wal[s] \in Logs /\ cfCommit[s] \in Lsns /\ cfHorizon[s] \in Lsns
      /\ faults < MaxFaults /\ term' \in [Safekeepers -> Terms]
  BY DEF Crash, TypeInv, TypeOK, SkTypeOK
<1>3. SubSeq(wal[s], 1, n) \in Logs /\ (wal[s] = <<>> => SubSeq(wal[s], 1, n) = <<>>)
  BY <1>2, PrefixType
<1>4. cfCommit[s] = 0 => SubSeq(wal[s], 1, n) = <<>>
  BY <1>3 DEF TypeInv, SupportInv, Started
<1> QED BY <1>1, <1>2, <1>3, <1>4, BootType

(* A crash inside handle_elected preserves the type invariant.             *)
LEMMA CrashInElectedType ==
    ASSUME TypeInv, NEW k \in Chan, NEW p \in Proposers, NEW s \in Safekeepers,
           CrashInElected(k, p, s)
    PROVE  TypeInv'
<1> DEFINE start == Head(q[k][p][s]).lo
           raised == term[s] < propTerm[p]
           c == IF raised THEN memCommit[s] ELSE cfCommit[s]
           h == IF raised THEN memHorizon[s] ELSE cfHorizon[s]
<1>1. PICK n \in Lower(start - 1, Len(wal[s]))..Len(wal[s]) :
         Boot(s, c, h, SubSeq(wal[s], 1, n))
  BY DEF CrashInElected
<1>2. /\ wal[s] \in Logs /\ c \in Lsns /\ h \in Lsns
      /\ faults < MaxFaults /\ term' \in [Safekeepers -> Terms]
  BY DEF CrashInElected, TypeInv, TypeOK, SkTypeOK, WpTypeOK
<1>3. start \in Lsns /\ start >= 1
  <2>1. q[k][p][s] \in Seq(Messages) /\ q[k][p][s] # <<>>
    BY DEF CrashInElected, Received, TypeInv, TypeOK, NetTypeOK
  <2>2. Head(q[k][p][s]) = q[k][p][s][1] /\ Head(q[k][p][s]) \in Messages
        /\ 1 \in 1..Len(q[k][p][s])
    BY <2>1
  <2>3. RequestOK(p, q[k][p][s][1])
    BY <2>2 DEF TypeInv, SupportInv, QueueOK
  <2>4. Head(q[k][p][s]).type = "elected"
    BY DEF CrashInElected, Received
  <2> QED BY <2>2, <2>3, <2>4 DEF RequestOK, Messages
<1>4. n \in 0..Len(wal[s])
  <2>1. Len(wal[s]) \in Nat /\ start \in Nat
    BY <1>2, <1>3, LogLength, ConstantsType
  <2> HIDE DEF start
  <2>2. Lower(start - 1, Len(wal[s])) \in 0..Len(wal[s])
    BY <1>3, <2>1 DEF Lower
  <2> QED BY <2>1, <2>2
<1>5. SubSeq(wal[s], 1, n) \in Logs /\ (wal[s] = <<>> => SubSeq(wal[s], 1, n) = <<>>)
  BY <1>2, <1>4, PrefixType
<1>6. c = 0 => SubSeq(wal[s], 1, n) = <<>>
  BY <1>5 DEF TypeInv, SupportInv, Started
<1> QED BY <1>1, <1>2, <1>5, <1>6, BootType

-----------------------------------------------------------------------------
(* Steps of a proposer.                                                    *)

(* A step of p leaves the other proposers and their connections alone.     *)
OthersUnchanged(p) ==
    \A r \in Proposers : r # p =>
        /\ wpState'[r] = wpState[r] /\ propTerm'[r] = propTerm[r]
        /\ nConnected'[r] = nConnected[r] /\ donor'[r] = donor[r]
        /\ propHist'[r] = propHist[r] /\ propWal'[r] = propWal[r]
        /\ \A s \in Safekeepers :
             /\ skState'[r][s] = skState[r][s] /\ streamingAt'[r][s] = streamingAt[r][s]
             /\ vote'[r][s] = vote[r][s] /\ rsp'[r][s] = rsp[r][s]

(* RequestOK of a message, in the next state.                              *)
RequestOKNext(p, m) ==
    /\ m.type = "vote" => wpState'[p] # "COLLECTING_TERMS"
    /\ m.type # "vote" => propHist'[p] # <<>> /\ m.lo >= 1
    /\ m.type = "append" => m.hi <= Len(propWal'[p]) + 1

(* Every request in the next state was in flight before or is OK.          *)
QueuesOKNext ==
    \A k \in Chan, p \in Proposers, s \in Safekeepers :
        \A i \in 1..Len(q'[k][p][s]) :
            \/ \E c \in Chan : \E j \in 1..Len(q[c][p][s]) : q'[k][p][s][i] = q[c][p][s][j]
            \/ RequestOKNext(p, q'[k][p][s][i])

(* What is left to show about a step of a proposer.                        *)
LEMMA ProposerStepSupport ==
    ASSUME TypeInv, NEW p \in Proposers, TypeOK', UNCHANGED skVars,
           OthersUnchanged(p), Monotone(p), QueuesOKNext,
           ProposerOK(p)', \A s \in Safekeepers : LinkOK(p, s)'
    PROVE  TypeInv'
<1>1. \A s \in Safekeepers : Started(s)'
  BY SafekeepersUnchanged
<1>2. ASSUME NEW r \in Proposers PROVE ProposerOK(r)'
  <2>1. CASE r = p
    BY <2>1
  <2>2. CASE r # p
    <3>1. ProposerOK(r) /\ donor[r] \in Safekeepers \cup {None}
      BY DEF TypeInv, SupportInv, TypeOK, WpTypeOK
    <3>2. /\ wpState'[r] = wpState[r] /\ propTerm'[r] = propTerm[r]
          /\ nConnected'[r] = nConnected[r] /\ donor'[r] = donor[r]
          /\ propHist'[r] = propHist[r]
          /\ \A s \in Safekeepers : vote'[r][s] = vote[r][s]
      BY <2>2 DEF OthersUnchanged
    <3> QED BY <3>1, <3>2 DEF ProposerOK
  <2> QED BY <2>1, <2>2
<1>3. ASSUME NEW r \in Proposers, NEW s \in Safekeepers PROVE LinkOK(r, s)'
  <2>1. CASE r = p
    BY <2>1
  <2>2. CASE r # p
    <3>1. LinkOK(r, s)
      BY DEF TypeInv, SupportInv
    <3>2. /\ wpState'[r] = wpState[r]
          /\ skState'[r][s] = skState[r][s] /\ streamingAt'[r][s] = streamingAt[r][s]
          /\ vote'[r][s] = vote[r][s] /\ rsp'[r][s] = rsp[r][s]
      BY <2>2 DEF OthersUnchanged
    <3> QED BY <3>1, <3>2 DEF LinkOK, VoteOK
  <2> QED BY <2>1, <2>2
<1>4. ASSUME NEW r \in Proposers PROVE Monotone(r)
  <2>1. CASE r = p
    BY <2>1
  <2>2. CASE r # p
    <3>1. Len(propWal[r]) \in Nat
      BY LogLength DEF TypeInv, TypeOK, WpTypeOK
    <3> QED BY <2>2, <3>1 DEF OthersUnchanged, Monotone
  <2> QED BY <2>1, <2>2
<1>5. \A k \in Chan, r \in Proposers, s \in Safekeepers : QueueOK(k, r, s)'
  <2>1. \A k \in Chan, r \in Proposers, s \in Safekeepers :
          \A i \in 1..Len(q'[k][r][s]) :
            \/ \E c \in Chan : \E j \in 1..Len(q[c][r][s]) : q'[k][r][s][i] = q[c][r][s][j]
            \/ RequestOK(r, q[k][r][s][i])'
    BY DEF QueuesOKNext, RequestOKNext, RequestOK, AvailableLsn
  <2> QED BY <1>4, <2>1, QueuesStable
<1> QED
  BY <1>1, <1>2, <1>3, <1>5 DEF TypeInv, SupportInv

(* A queue with one more request.                                          *)
LEMMA LongerQueue ==
    ASSUME NEW R, NEW w \in Seq(R), NEW m
    PROVE  \A i \in 1..Len(Append(w, m)) : Append(w, m)[i] = IF i \in 1..Len(w) THEN w[i] ELSE m
OBVIOUS

(* A request put on one queue, or on several queues of a proposer.         *)
LEMMA SendType ==
    ASSUME TypeInv, NEW p \in Proposers, NEW S \in SUBSET Safekeepers,
           NEW msg, \A s \in S : msg[s] \in Messages /\ RequestOKNext(p, msg[s]),
           q' = [q EXCEPT !["live"][p] = [s \in Safekeepers |->
                    IF s \in S THEN Append(q["live"][p][s], msg[s]) ELSE q["live"][p][s]]]
    PROVE  /\ q' \in [Chan -> [Proposers -> [Safekeepers -> Seq(Messages)]]]
           /\ QueuesOKNext
<1>1. q \in [Chan -> [Proposers -> [Safekeepers -> Seq(Messages)]]] /\ "live" \in Chan
  BY DEF TypeInv, TypeOK, NetTypeOK, Chan
<1>2. ASSUME NEW k \in Chan, NEW r \in Proposers, NEW s \in Safekeepers
      PROVE  q'[k][r][s] = IF k = "live" /\ r = p /\ s \in S
                           THEN Append(q[k][r][s], msg[s]) ELSE q[k][r][s]
  BY <1>1
<1>3. q' \in [Chan -> [Proposers -> [Safekeepers -> Seq(Messages)]]]
  <2>1. \A s \in S : Append(q["live"][p][s], msg[s]) \in Seq(Messages)
    BY <1>1
  <2>2. [s \in Safekeepers |-> IF s \in S THEN Append(q["live"][p][s], msg[s])
                               ELSE q["live"][p][s]] \in [Safekeepers -> Seq(Messages)]
    BY <1>1, <2>1
  <2> QED BY <1>1, <2>2
<1>4. QueuesOKNext
  <2> SUFFICES ASSUME NEW k \in Chan, NEW r \in Proposers, NEW s \in Safekeepers,
                      NEW i \in 1..Len(q'[k][r][s])
               PROVE  \/ \E c \in Chan : \E j \in 1..Len(q[c][r][s]) :
                             q'[k][r][s][i] = q[c][r][s][j]
                      \/ RequestOKNext(r, q'[k][r][s][i])
    BY DEF QueuesOKNext
  <2>1. q[k][r][s] \in Seq(Messages)
    BY <1>1
  <2>2. CASE k = "live" /\ r = p /\ s \in S
    <3>1. q'[k][r][s] = Append(q[k][r][s], msg[s])
      BY <1>2, <2>2
    <3>2. q'[k][r][s][i] = IF i \in 1..Len(q[k][r][s]) THEN q[k][r][s][i] ELSE msg[s]
      <4>1. \A j \in 1..Len(Append(q[k][r][s], msg[s])) : Append(q[k][r][s], msg[s])[j]
               = IF j \in 1..Len(q[k][r][s]) THEN q[k][r][s][j] ELSE msg[s]
        BY <2>1, LongerQueue
      <4> QED BY <3>1, <4>1
    <3>3. CASE i \in 1..Len(q[k][r][s])
      <4>1. q'[k][r][s][i] = q[k][r][s][i]
        BY <3>3, <3>2
      <4> QED BY <3>3, <4>1
    <3>4. CASE i \notin 1..Len(q[k][r][s])
      <4>1. q'[k][r][s][i] = msg[s]
        BY <3>4, <3>2
      <4> QED BY <2>2, <4>1
    <3> QED BY <3>3, <3>4
  <2>3. CASE ~(k = "live" /\ r = p /\ s \in S)
    <3>1. q'[k][r][s] = q[k][r][s]
      BY <1>2, <2>3
    <3> QED BY <3>1
  <2> QED BY <2>2, <2>3
<1> QED BY <1>3, <1>4

(* A request put on one queue.                                             *)
LEMMA SendOneType ==
    ASSUME TypeInv, NEW p \in Proposers, NEW s \in Safekeepers,
           NEW m \in Messages, RequestOKNext(p, m),
           q' = [q EXCEPT !["live"][p][s] = Append(q["live"][p][s], m)]
    PROVE  /\ q' \in [Chan -> [Proposers -> [Safekeepers -> Seq(Messages)]]]
           /\ QueuesOKNext
<1> DEFINE msg == [x \in Safekeepers |-> m]
           S == {s}
<1>1. q \in [Chan -> [Proposers -> [Safekeepers -> Seq(Messages)]]] /\ "live" \in Chan
  BY DEF TypeInv, TypeOK, NetTypeOK, Chan
<1>2. \A x \in S : msg[x] \in Messages /\ RequestOKNext(p, msg[x])
  OBVIOUS
<1>3. q' = [q EXCEPT !["live"][p] = [x \in Safekeepers |->
              IF x \in S THEN Append(q["live"][p][x], msg[x]) ELSE q["live"][p][x]]]
  BY <1>1, ZenonT(60)
<1>4. S \in SUBSET Safekeepers
  OBVIOUS
<1> HIDE DEF msg, S
<1> QED BY <1>2, <1>3, <1>4, SendType

(* Connections given up by a proposer: what was in flight may move to the  *)
(* abandoned connection, nothing is added.                                 *)
LEMMA ShutdownType ==
    ASSUME TypeInv, NEW L, ShutdownConnection(L), UNCHANGED peerInfo
    PROVE  /\ NetTypeOK'
           /\ skState' \in [Proposers -> [Safekeepers ->
                {"OFFLINE", "WAIT_VOTING", "WAIT_VERDICT", "WAIT_ELECTED", "ACTIVE"}]]
           /\ streamingAt' \in [Proposers -> [Safekeepers -> Lsns]]
           /\ \A p \in Proposers, s \in Safekeepers :
                \/ skState'[p][s] = "OFFLINE" /\ rsp'[p][s] = None
                \/ /\ skState'[p][s] = skState[p][s] /\ streamingAt'[p][s] = streamingAt[p][s]
                   /\ rsp'[p][s] = rsp[p][s] /\ <<p, s>> \notin L
           /\ \A p \in Proposers, s \in Safekeepers : <<p, s>> \notin L =>
                /\ skState'[p][s] = skState[p][s] /\ streamingAt'[p][s] = streamingAt[p][s]
                /\ rsp'[p][s] = rsp[p][s]
           /\ \A k \in Chan, p \in Proposers, s \in Safekeepers :
                \A i \in 1..Len(q'[k][p][s]) :
                  \E c \in Chan : \E j \in 1..Len(q[c][p][s]) : q'[k][p][s][i] = q[c][p][s][j]
<1>1. NetTypeOK /\ LinkTypeOK /\ "live" \in Chan /\ "late" \in Chan
  BY DEF TypeInv, TypeOK, Chan
<1>2. skState' \in [Proposers -> [Safekeepers ->
                {"OFFLINE", "WAIT_VOTING", "WAIT_VERDICT", "WAIT_ELECTED", "ACTIVE"}]]
  BY <1>1 DEF ShutdownConnection, LinkTypeOK
<1>3. streamingAt' \in [Proposers -> [Safekeepers -> Lsns]]
  BY <1>1, ConstantsType DEF ShutdownConnection, LinkTypeOK
<1>4. rsp' \in [Proposers -> [Safekeepers -> VoteResponses \cup AppendResponses \cup {None}]]
  BY <1>1 DEF ShutdownConnection, NetTypeOK
<1>5. ASSUME NEW k \in Chan, NEW p \in Proposers, NEW s \in Safekeepers
      PROVE  q'[k][p][s] = <<>> \/ q'[k][p][s] = q["live"][p][s] \/ q'[k][p][s] = q["late"][p][s]
  BY <1>1 DEF ShutdownConnection, Chan
<1>6. q' \in [Chan -> [Proposers -> [Safekeepers -> Seq(Messages)]]]
  <2>1. ASSUME NEW k \in Chan, NEW p \in Proposers, NEW s \in Safekeepers
        PROVE  q'[k][p][s] \in Seq(Messages)
    <3>1. q["live"][p][s] \in Seq(Messages) /\ q["late"][p][s] \in Seq(Messages)
      BY <1>1 DEF NetTypeOK
    <3>2. q'[k][p][s] = <<>> \/ q'[k][p][s] = q["live"][p][s] \/ q'[k][p][s] = q["late"][p][s]
      BY <1>5
    <3>3. CASE q'[k][p][s] = <<>>
      BY <3>3
    <3>4. CASE q'[k][p][s] # <<>>
      BY <3>1, <3>2, <3>4, Zenon
    <3> QED BY <3>3, <3>4
  <2>2. PICK f : q' = [k \in Chan |-> [p \in Proposers |-> [s \in Safekeepers |-> f[k][p][s]]]]
    <3>1. q' = [k \in Chan |-> [p \in Proposers |-> [s \in Safekeepers |-> q'[k][p][s]]]]
      BY DEF ShutdownConnection
    <3> QED BY <3>1
  <2> QED BY <2>1, <2>2
<1>7. dirty' \in [Chan -> [Proposers -> [Safekeepers -> BOOLEAN]]]
  <2>1. ASSUME NEW k \in Chan, NEW p \in Proposers, NEW s \in Safekeepers
        PROVE  dirty'[k][p][s] \in BOOLEAN
    <3>1. /\ dirty["live"][p][s] \in BOOLEAN /\ dirty["late"][p][s] \in BOOLEAN
          /\ dirty[k][p][s] \in BOOLEAN
      BY <1>1 DEF NetTypeOK
    <3>2. \/ dirty'[k][p][s] = FALSE \/ dirty'[k][p][s] = dirty["live"][p][s]
          \/ dirty'[k][p][s] = dirty["late"][p][s] \/ dirty'[k][p][s] = dirty[k][p][s]
      BY DEF ShutdownConnection
    <3> QED BY <3>1, <3>2
  <2>2. PICK f : dirty' = [k \in Chan |-> [p \in Proposers |-> [s \in Safekeepers |-> f[k][p][s]]]]
    <3>1. dirty' = [k \in Chan |-> [p \in Proposers |-> [s \in Safekeepers |-> dirty'[k][p][s]]]]
      BY DEF ShutdownConnection
    <3> QED BY <3>1
  <2> QED BY <2>1, <2>2
<1>8. NetTypeOK'
  BY <1>1, <1>4, <1>6, <1>7 DEF NetTypeOK
<1>9. ASSUME NEW p \in Proposers, NEW s \in Safekeepers
      PROVE  /\ \/ skState'[p][s] = "OFFLINE" /\ rsp'[p][s] = None
                \/ /\ skState'[p][s] = skState[p][s] /\ streamingAt'[p][s] = streamingAt[p][s]
                   /\ rsp'[p][s] = rsp[p][s] /\ <<p, s>> \notin L
             /\ <<p, s>> \notin L =>
                /\ skState'[p][s] = skState[p][s] /\ streamingAt'[p][s] = streamingAt[p][s]
                /\ rsp'[p][s] = rsp[p][s]
  BY DEF ShutdownConnection
<1>10. ASSUME NEW k \in Chan, NEW p \in Proposers, NEW s \in Safekeepers,
              NEW i \in 1..Len(q'[k][p][s])
       PROVE  \E c \in Chan : \E j \in 1..Len(q[c][p][s]) : q'[k][p][s][i] = q[c][p][s][j]
  <2>1. CASE q'[k][p][s] = <<>>
    BY <2>1
  <2>2. CASE q'[k][p][s] = q["live"][p][s]
    BY <1>1, <2>2
  <2>3. CASE q'[k][p][s] = q["late"][p][s]
    BY <1>1, <2>3
  <2> QED BY <1>5, <2>1, <2>2, <2>3
<1> QED BY <1>2, <1>3, <1>8, <1>9, <1>10

(* The end of a proposer.                                                  *)
LEMMA FatalType ==
    ASSUME TypeInv, NEW p \in Proposers, Fatal(p), UNCHANGED <<skVars, peerInfo, auxVars>>
    PROVE  TypeInv'
<1> DEFINE L == {p} \X Safekeepers
<1>1. ShutdownConnection(L) /\ UNCHANGED peerInfo
  BY DEF Fatal
<1>0. \A r \in Proposers, s \in Safekeepers : <<r, s>> \in L <=> r = p
  OBVIOUS
<1> HIDE DEF L
<1>2. SkTypeOK' /\ AuxTypeOK' /\ NetTypeOK'
  BY <1>1, SafekeepersUnchanged, AuxUnchanged, ShutdownType
<1>3. WpTypeOK'
  <2>1. 0 \in 0..Quorum
    BY ConstantsType
  <2> QED BY <2>1, ConstantsType DEF Fatal, TypeInv, TypeOK, WpTypeOK
<1>4. LinkTypeOK'
  <2>1. LinkTypeOK
    BY DEF TypeInv, TypeOK
  <2>2. vote' \in [Proposers -> [Safekeepers -> VoteResponses \cup {None}]]
    BY <2>1 DEF Fatal, LinkTypeOK
  <2>3. ack' \in [Proposers -> [Safekeepers -> Lsns]]
    BY <2>1, ConstantsType DEF Fatal, LinkTypeOK
  <2> QED BY <1>1, <2>2, <2>3, ShutdownType DEF LinkTypeOK
<1>5. OthersUnchanged(p)
  <2> SUFFICES ASSUME NEW r \in Proposers, r # p
               PROVE  /\ wpState'[r] = wpState[r] /\ propTerm'[r] = propTerm[r]
                      /\ nConnected'[r] = nConnected[r] /\ donor'[r] = donor[r]
                      /\ propHist'[r] = propHist[r] /\ propWal'[r] = propWal[r]
                      /\ \A s \in Safekeepers :
                           /\ skState'[r][s] = skState[r][s]
                           /\ streamingAt'[r][s] = streamingAt[r][s]
                           /\ vote'[r][s] = vote[r][s] /\ rsp'[r][s] = rsp[r][s]
    BY DEF OthersUnchanged
  <2>1. \A s \in Safekeepers : <<r, s>> \notin L
    BY <1>0
  <2>2. \A s \in Safekeepers : /\ skState'[r][s] = skState[r][s]
                                /\ streamingAt'[r][s] = streamingAt[r][s]
                                /\ rsp'[r][s] = rsp[r][s]
    <3>1. \A x \in Proposers, s \in Safekeepers : <<x, s>> \notin L =>
             /\ skState'[x][s] = skState[x][s] /\ streamingAt'[x][s] = streamingAt[x][s]
             /\ rsp'[x][s] = rsp[x][s]
      BY <1>1, ShutdownType, Zenon
    <3> QED BY <2>1, <3>1, Zenon
  <2>3. /\ wpState'[r] = wpState[r] /\ propTerm'[r] = propTerm[r]
        /\ nConnected'[r] = nConnected[r] /\ donor'[r] = donor[r]
        /\ propHist'[r] = propHist[r] /\ propWal'[r] = propWal[r]
        /\ vote'[r] = vote[r]
    BY DEF Fatal, TypeInv, TypeOK, WpTypeOK, LinkTypeOK
  <2> QED BY <2>2, <2>3
<1>6. wpState'[p] = "DEAD" /\ UNCHANGED <<propTerm, propHist, propWal>>
      /\ \A s \in Safekeepers : vote'[p][s] = None
  BY DEF Fatal, TypeInv, TypeOK, WpTypeOK, LinkTypeOK
<1>7. Monotone(p)
  <2>1. Len(propWal[p]) \in Nat
    BY LogLength DEF TypeInv, TypeOK, WpTypeOK
  <2> QED BY <1>6, <2>1 DEF Monotone
<1>8. ProposerOK(p)'
  <2>1. ProposerOK(p)
    BY DEF TypeInv, SupportInv
  <2> QED BY <1>6, <2>1 DEF ProposerOK
<1>9. ASSUME NEW s \in Safekeepers PROVE LinkOK(p, s)'
  <2>1. <<p, s>> \in L
    BY <1>0
  <2>2. skState'[p][s] = "OFFLINE" /\ rsp'[p][s] = None
    BY <1>1, <2>1, ShutdownType
  <2> QED BY <1>6, <2>2 DEF LinkOK, VoteOK
<1>10. QueuesOKNext
  BY <1>1, ShutdownType DEF QueuesOKNext
<1> QED
  BY <1>2, <1>3, <1>4, <1>5, <1>7, <1>8, <1>9, <1>10, ProposerStepSupport DEF TypeOK

(* A lost connection preserves the type invariant.                         *)
LEMMA DisconnectType ==
    ASSUME TypeInv, NEW p \in Proposers, NEW s \in Safekeepers, Disconnect(p, s)
    PROVE  TypeInv'
<1> DEFINE L == {<<p, s>>}
<1>1. /\ ShutdownConnection(L)
      /\ UNCHANGED peerInfo /\ UNCHANGED skVars /\ UNCHANGED wpVars /\ UNCHANGED vote
      /\ UNCHANGED ack /\ UNCHANGED <<grantedTo, ackedLog>>
      /\ faults < MaxFaults /\ faults' = faults + 1
  BY DEF Disconnect
<1> HIDE DEF L
<1>2. SkTypeOK' /\ NetTypeOK' /\ WpTypeOK' /\ \A x \in Safekeepers : Started(x)'
  BY <1>1, SafekeepersUnchanged, ProposersUnchanged, ShutdownType
<1>3. LinkTypeOK'
  BY <1>1, ShutdownType DEF TypeInv, TypeOK, LinkTypeOK
<1>4. AuxTypeOK'
  BY <1>1, ConstantsType DEF TypeInv, TypeOK, AuxTypeOK
<1>5. \A r \in Proposers, x \in Safekeepers :
         \/ skState'[r][x] = "OFFLINE"
         \/ skState'[r][x] = skState[r][x] /\ streamingAt'[r][x] = streamingAt[r][x]
  BY <1>1, ShutdownType
<1>6. ASSUME NEW r \in Proposers, NEW x \in Safekeepers PROVE VoteOK(rsp'[r][x])
  <2>1. VoteOK(rsp[r][x])
    BY DEF TypeInv, SupportInv, LinkOK
  <2>2. rsp'[r][x] = None \/ rsp'[r][x] = rsp[r][x]
    BY <1>1, ShutdownType
  <2> QED BY <2>1, <2>2 DEF VoteOK
<1>7. \A k \in Chan, r \in Proposers, x \in Safekeepers :
        \A i \in 1..Len(q'[k][r][x]) :
          \E c \in Chan : \E j \in 1..Len(q[c][r][x]) : q'[k][r][x][i] = q[c][r][x][j]
  BY <1>1, ShutdownType
<1> QED
  BY <1>1, <1>2, <1>3, <1>4, <1>5, <1>6, <1>7, SafekeeperStepSupport DEF TypeOK

(* Vote requests: queues and connection states.                            *)
LEMMA SendVoteRequestsType ==
    ASSUME TypeInv, NEW p \in Proposers, NEW S \in SUBSET Safekeepers,
           SendVoteRequests(p, S), wpState'[p] # "COLLECTING_TERMS"
    PROVE  /\ q' \in [Chan -> [Proposers -> [Safekeepers -> Seq(Messages)]]]
           /\ QueuesOKNext
           /\ skState' \in [Proposers -> [Safekeepers ->
                {"OFFLINE", "WAIT_VOTING", "WAIT_VERDICT", "WAIT_ELECTED", "ACTIVE"}]]
           /\ \A r \in Proposers, s \in Safekeepers :
                skState'[r][s] = IF r = p /\ s \in S THEN "WAIT_VERDICT" ELSE skState[r][s]
<1> DEFINE msg == [s \in Safekeepers |-> VoteRequestMsg]
<1>1. VoteRequestMsg \in Messages /\ VoteRequestMsg.type = "vote"
  BY ConstantsType DEF VoteRequestMsg, Messages
<1>2. RequestOKNext(p, VoteRequestMsg)
  BY <1>1 DEF RequestOKNext
<1>3. \A s \in S : msg[s] \in Messages /\ RequestOKNext(p, msg[s])
  BY <1>1, <1>2
<1>4. q' = [q EXCEPT !["live"][p] = [s \in Safekeepers |->
              IF s \in S THEN Append(q["live"][p][s], msg[s]) ELSE q["live"][p][s]]]
  <2>1. q \in [Chan -> [Proposers -> [Safekeepers -> Seq(Messages)]]] /\ "live" \in Chan
    BY DEF TypeInv, TypeOK, NetTypeOK, Chan
  <2> QED BY <2>1 DEF SendVoteRequests
<1> HIDE DEF msg
<1>5. q' \in [Chan -> [Proposers -> [Safekeepers -> Seq(Messages)]]] /\ QueuesOKNext
  BY <1>3, <1>4, SendType
<1>6. LinkTypeOK
  BY DEF TypeInv, TypeOK
<1>7. skState' \in [Proposers -> [Safekeepers ->
                {"OFFLINE", "WAIT_VOTING", "WAIT_VERDICT", "WAIT_ELECTED", "ACTIVE"}]]
  BY <1>6 DEF SendVoteRequests, LinkTypeOK
<1>8. \A r \in Proposers, s \in Safekeepers :
        skState'[r][s] = IF r = p /\ s \in S THEN "WAIT_VERDICT" ELSE skState[r][s]
  BY <1>6 DEF SendVoteRequests, LinkTypeOK
<1> QED BY <1>5, <1>7, <1>8

(* A greeting before the campaign preserves the type invariant.            *)
LEMMA GreetCollectingType ==
    ASSUME TypeInv, NEW p \in Proposers, NEW s \in Safekeepers, GreetCollecting(p, s)
    PROVE  TypeInv'
<1> USE DEF GreetCollecting
<1>0. /\ nConnected[p] \in 0..Quorum /\ term[s] \in Terms /\ propTerm[p] \in Terms
      /\ nConnected \in [Proposers -> 0..Quorum]
      /\ ProposerOK(p)
      /\ \A x \in Safekeepers : LinkOK(p, x)
  BY DEF TypeInv, TypeOK, SupportInv, SkTypeOK, WpTypeOK
<1>1. SkTypeOK' /\ AuxTypeOK'
  BY SafekeepersUnchanged, AuxUnchanged
<1>2. WpTypeOK'
  <2>1. nConnected[p] + 1 \in 0..Quorum
    BY <1>0, ConstantsType
  <2>2. Higher(term[s], propTerm[p]) \in Terms
    BY <1>0 DEF Higher
  <2> QED BY <2>1, <2>2 DEF TypeInv, TypeOK, WpTypeOK
<1>3. LinkTypeOK'
  BY DEF TypeInv, TypeOK, LinkTypeOK
<1>4. NetTypeOK'
  BY DEF TypeInv, TypeOK, NetTypeOK, netVars
<1>5. OthersUnchanged(p)
  BY DEF OthersUnchanged, TypeInv, TypeOK, WpTypeOK, LinkTypeOK, netVars
<1>6. propHist[p] = <<>> /\ nConnected'[p] = nConnected[p] + 1
  BY <1>0 DEF ProposerOK, TypeInv, TypeOK, WpTypeOK
<1>7. Monotone(p)
  BY <1>6 DEF Monotone
<1>8. ProposerOK(p)'
  BY <1>0, <1>6, ConstantsType DEF ProposerOK
<1>9. ASSUME NEW x \in Safekeepers PROVE LinkOK(p, x)'
  <2>1. skState'[p][x] = skState[p][x] \/ skState'[p][x] = "WAIT_VOTING"
    BY DEF TypeInv, TypeOK, LinkTypeOK
  <2>2. LinkOK(p, x)
    BY <1>0
  <2> QED BY <2>1, <2>2 DEF LinkOK, VoteOK, netVars
<1>10. QueuesOKNext
  BY QueuesUnchanged DEF QueuesOKNext, netVars
<1> QED
  BY <1>1, <1>2, <1>3, <1>4, <1>5, <1>7, <1>8, <1>9, <1>10, ProposerStepSupport DEF TypeOK

(* The start of the campaign preserves the type invariant.                 *)
LEMMA GreetStartsCampaignType ==
    ASSUME TypeInv, NEW p \in Proposers, NEW s \in Safekeepers, GreetStartsCampaign(p, s)
    PROVE  TypeInv'
<1> USE DEF GreetStartsCampaign
<1> DEFINE newTerm == Higher(term[s], propTerm[p]) + 1
           S == {r \in Safekeepers : skState[p][r] = "WAIT_VOTING"} \cup {s}
<1>0. /\ nConnected[p] \in 0..Quorum /\ term[s] \in Terms /\ propTerm[p] \in Terms
      /\ nConnected \in [Proposers -> 0..Quorum]
      /\ ProposerOK(p)
      /\ \A x \in Safekeepers : LinkOK(p, x)
  BY DEF TypeInv, TypeOK, SupportInv, SkTypeOK, WpTypeOK
<1>1. SkTypeOK' /\ AuxTypeOK'
  BY SafekeepersUnchanged, AuxUnchanged
<1>2. /\ wpState'[p] = "CAMPAIGN" /\ wpState[p] = "COLLECTING_TERMS"
      /\ SendVoteRequests(p, S) /\ S \in SUBSET Safekeepers
  BY DEF TypeInv, TypeOK, WpTypeOK
<1> HIDE DEF S
<1>3. WpTypeOK'
  <2>1. nConnected[p] + 1 \in 0..Quorum
    BY <1>0, ConstantsType DEF ProposerOK
  <2>2. newTerm \in Terms
    BY <1>0, ConstantsType DEF Higher, Terms
  <2> QED BY <2>1, <2>2 DEF TypeInv, TypeOK, WpTypeOK
<1>4. LinkTypeOK'
  BY <1>2, SendVoteRequestsType DEF TypeInv, TypeOK, LinkTypeOK
<1>5. NetTypeOK'
  BY <1>2, SendVoteRequestsType DEF TypeInv, TypeOK, NetTypeOK
<1>6. \A r \in Proposers, x \in Safekeepers :
        skState'[r][x] = IF r = p /\ x \in S THEN "WAIT_VERDICT" ELSE skState[r][x]
  BY <1>2, SendVoteRequestsType
<1>7. OthersUnchanged(p)
  BY <1>6 DEF OthersUnchanged, TypeInv, TypeOK, WpTypeOK
<1>8. propHist[p] = <<>>
  BY <1>0 DEF ProposerOK
<1>9. Monotone(p)
  BY <1>2, <1>8 DEF Monotone
<1>10. ProposerOK(p)'
  BY <1>0, <1>2, <1>8 DEF ProposerOK
<1>11. ASSUME NEW x \in Safekeepers PROVE LinkOK(p, x)'
  <2>1. skState'[p][x] = skState[p][x] \/ skState'[p][x] = "WAIT_VERDICT"
    BY <1>6
  <2>2. LinkOK(p, x)
    BY <1>0
  <2> QED BY <1>2, <2>1, <2>2 DEF LinkOK, VoteOK
<1>12. QueuesOKNext
  BY <1>2, SendVoteRequestsType
<1> QED
  BY <1>1, <1>3, <1>4, <1>5, <1>7, <1>9, <1>10, <1>11, <1>12, ProposerStepSupport DEF TypeOK

(* A greeting after it preserves the type invariant.                       *)
LEMMA GreetLateType ==
    ASSUME TypeInv, NEW p \in Proposers, NEW s \in Safekeepers, GreetLate(p, s)
    PROVE  TypeInv'
<1> DEFINE S == {s}
<1>0. ProposerOK(p) /\ \A x \in Safekeepers : LinkOK(p, x)
  BY DEF TypeInv, SupportInv
<1>1. SkTypeOK' /\ AuxTypeOK' /\ WpTypeOK'
  BY SafekeepersUnchanged, AuxUnchanged, ProposersUnchanged DEF GreetLate
<1>2. /\ wpState'[p] # "COLLECTING_TERMS" /\ S \in SUBSET Safekeepers
      /\ SendVoteRequests(p, S)
      /\ UNCHANGED <<skVars, wpVars, vote, ack, streamingAt, dirty, rsp, peerInfo>>
  BY DEF GreetLate, wpVars
<1> HIDE DEF S
<1>3. LinkTypeOK'
  BY <1>2, SendVoteRequestsType DEF TypeInv, TypeOK, LinkTypeOK
<1>4. NetTypeOK'
  BY <1>2, SendVoteRequestsType DEF TypeInv, TypeOK, NetTypeOK
<1>5. \A r \in Proposers, x \in Safekeepers :
        skState'[r][x] = IF r = p /\ x \in S THEN "WAIT_VERDICT" ELSE skState[r][x]
  BY <1>2, SendVoteRequestsType
<1>6. OthersUnchanged(p)
  BY <1>2, <1>5 DEF OthersUnchanged, wpVars
<1>7. Monotone(p)
  BY <1>2, MonotoneIfUnchanged DEF TypeInv
<1>8. ProposerOK(p)'
  BY <1>0, <1>2 DEF ProposerOK, wpVars
<1>9. ASSUME NEW x \in Safekeepers PROVE LinkOK(p, x)'
  <2>1. skState'[p][x] = skState[p][x] \/ skState'[p][x] = "WAIT_VERDICT"
    BY <1>5
  <2>2. LinkOK(p, x)
    BY <1>0
  <2> QED BY <1>2, <2>1, <2>2 DEF LinkOK, VoteOK, wpVars
<1>10. QueuesOKNext
  BY <1>2, SendVoteRequestsType
<1> QED
  BY <1>1, <1>2, <1>3, <1>4, <1>6, <1>7, <1>8, <1>9, <1>10, ProposerStepSupport DEF TypeOK

(* A vote that arrives, and the votes at hand with it.                     *)
LEMMA VoteOfType ==
    ASSUME TypeInv, NEW p \in Proposers, NEW s \in Safekeepers, VoteArrives(p, s)
    PROVE  /\ rsp[p][s] \in VoteResponses /\ rsp[p][s] # None
           /\ Voters(p, s) \in SUBSET Safekeepers /\ s \in Voters(p, s)
           /\ \A r \in Voters(p, s) : r = s \/ vote[p][r] # None
           /\ \A r \in Safekeepers : r = s \/ vote[p][r] # None =>
                 /\ VoteOf(p, s, r) \in VoteResponses
                 /\ VoteOf(p, s, r).hist # <<>> => VoteOf(p, s, r).flush >= 1
<1>1. rsp[p][s] \in VoteResponses \cup AppendResponses \cup {None}
  BY DEF TypeInv, TypeOK, NetTypeOK
<1>2. rsp[p][s] # None /\ rsp[p][s].type = "vote"
  BY DEF VoteArrives
<1>3. rsp[p][s] \in VoteResponses
  BY <1>1, <1>2 DEF AppendResponses
<1>4. Voters(p, s) \in SUBSET Safekeepers /\ s \in Voters(p, s)
  BY DEF Voters
<1>5. \A r \in Voters(p, s) : r = s \/ vote[p][r] # None
  BY DEF Voters, TypeInv, SupportInv, LinkOK
<1>6. ASSUME NEW r \in Safekeepers, r = s \/ vote[p][r] # None
      PROVE  /\ VoteOf(p, s, r) \in VoteResponses
             /\ VoteOf(p, s, r).hist # <<>> => VoteOf(p, s, r).flush >= 1
  <2>1. VoteOK(vote[p][r]) /\ VoteOK(rsp[p][s])
    BY DEF TypeInv, SupportInv, LinkOK
  <2>2. vote[p][r] \in VoteResponses \cup {None}
    BY DEF TypeInv, TypeOK, LinkTypeOK
  <2>3. CASE r = s
    BY <1>2, <1>3, <2>1, <2>3 DEF VoteOf, VoteOK
  <2>4. CASE r # s
    <3>1. vote[p][r] \in VoteResponses /\ vote[p][r] # None
      BY <1>6, <2>2, <2>4
    <3>2. vote[p][r].type = "vote"
      BY <3>1 DEF VoteResponses
    <3> QED BY <2>1, <2>4, <3>1, <3>2 DEF VoteOf, VoteOK
  <2> QED BY <2>3, <2>4
<1> QED BY <1>2, <1>3, <1>4, <1>5, <1>6

(* The donor of a campaign has voted.                                      *)
LEMMA DonorType ==
    ASSUME TypeInv, NEW p \in Proposers, NEW s \in Safekeepers, VoteArrives(p, s),
           wpState[p] = "CAMPAIGN", NEW d \in DonorChoices(p, s)
    PROVE  d \in Safekeepers /\ (d = s \/ vote[p][d] # None)
<1>1. d \in Voters(p, s) \/ (d = donor[p] /\ donor[p] # None)
  BY DEF DonorChoices
<1>2. CASE d \in Voters(p, s)
  BY <1>2, VoteOfType
<1>3. CASE d = donor[p] /\ donor[p] # None
  BY <1>3 DEF TypeInv, TypeOK, WpTypeOK, SupportInv, ProposerOK
<1> QED BY <1>1, <1>2, <1>3

(* A counted vote preserves the type invariant.                            *)
LEMMA RecvVoteCountedType ==
    ASSUME TypeInv, NEW p \in Proposers, NEW s \in Safekeepers, RecvVoteCounted(p, s)
    PROVE  TypeInv'
<1>0. ProposerOK(p) /\ \A x \in Safekeepers : LinkOK(p, x)
  BY DEF TypeInv, SupportInv
<1>1. PICK d \in DonorChoices(p, s) : donor' = [donor EXCEPT ![p] = d]
  BY DEF RecvVoteCounted
<1>2. /\ VoteArrives(p, s) /\ wpState[p] = "CAMPAIGN"
      /\ vote' = [vote EXCEPT ![p][s] = rsp[p][s]]
      /\ skState' = [skState EXCEPT ![p][s] = "WAIT_ELECTED"]
      /\ rsp' = [rsp EXCEPT ![p][s] = None]
      /\ UNCHANGED skVars /\ UNCHANGED auxVars /\ UNCHANGED q
      /\ UNCHANGED <<wpState, propTerm, nConnected, propHist, propWal, propCommit,
                     propTruncate, ack, streamingAt, dirty, peerInfo>>
  BY DEF RecvVoteCounted
<1>3. d \in Safekeepers /\ (d = s \/ vote[p][d] # None)
  BY <1>2, DonorType
<1>4. rsp[p][s] \in VoteResponses /\ rsp[p][s] # None
  BY <1>2, VoteOfType
<1>5. WpTypeOK /\ LinkTypeOK /\ NetTypeOK
  BY DEF TypeInv, TypeOK
<1>6. SkTypeOK' /\ AuxTypeOK'
  BY <1>2, SafekeepersUnchanged, AuxUnchanged
<1>7. WpTypeOK'
  BY <1>1, <1>2, <1>3, <1>5 DEF WpTypeOK
<1>8. LinkTypeOK'
  <2>1. vote' \in [Proposers -> [Safekeepers -> VoteResponses \cup {None}]]
    BY <1>2, <1>4, <1>5 DEF LinkTypeOK
  <2> QED BY <1>2, <1>5, <2>1 DEF LinkTypeOK
<1>9. NetTypeOK'
  BY <1>2, <1>5 DEF NetTypeOK
<1>10. /\ \A x \in Safekeepers : vote'[p][x] = IF x = s THEN rsp[p][s] ELSE vote[p][x]
       /\ \A x \in Safekeepers : rsp'[p][x] = IF x = s THEN None ELSE rsp[p][x]
       /\ \A x \in Safekeepers :
            skState'[p][x] = IF x = s THEN "WAIT_ELECTED" ELSE skState[p][x]
       /\ donor'[p] = d
  BY <1>1, <1>2, <1>5 DEF WpTypeOK, LinkTypeOK, NetTypeOK
<1>11. OthersUnchanged(p)
  BY <1>1, <1>2, <1>5 DEF OthersUnchanged, WpTypeOK, LinkTypeOK, NetTypeOK
<1>12. Monotone(p)
  <2>1. Len(propWal[p]) \in Nat
    BY LogLength, <1>5 DEF WpTypeOK
  <2> QED BY <1>2, <2>1 DEF Monotone
<1>13. ProposerOK(p)'
  BY <1>0, <1>2, <1>3, <1>4, <1>10 DEF ProposerOK
<1>14. ASSUME NEW x \in Safekeepers PROVE LinkOK(p, x)'
  <2>1. VoteOK(rsp[p][s]) /\ LinkOK(p, x)
    BY <1>0 DEF LinkOK
  <2>2. CASE x = s
    BY <1>2, <1>4, <1>10, <2>1, <2>2 DEF LinkOK, VoteOK
  <2>3. CASE x # s
    BY <1>2, <1>10, <2>1, <2>3 DEF LinkOK, VoteOK
  <2> QED BY <2>2, <2>3
<1>15. QueuesOKNext
  BY <1>2, QueuesUnchanged DEF QueuesOKNext
<1> QED
  BY <1>2, <1>6, <1>7, <1>8, <1>9, <1>11, <1>12, <1>13, <1>14, <1>15, ProposerStepSupport
  DEF TypeOK

(* The start of a term: where the WAL of the new proposer begins is a      *)
(* valid LSN, because the highest vote is not that of an empty safekeeper  *)
(* when some voter has WAL.                                                *)
LEMMA DonorFlushed ==
    ASSUME TypeInv, NEW p \in Proposers, NEW s \in Safekeepers, VoteArrives(p, s),
           wpState[p] = "CAMPAIGN", NEW d \in DonorChoices(p, s),
           NEW r \in Voters(p, s), VoteOf(p, s, r).flush # 0
    PROVE  VoteOf(p, s, d).flush >= 1
<1> DEFINE v == VoteOf(p, s, r)
           w == VoteOf(p, s, d)
<1>1. d \in Voters(p, s) /\ VoteLeq(v, w)
  BY DEF DonorChoices
<1>2. /\ v \in VoteResponses /\ w \in VoteResponses
      /\ w.hist # <<>> => w.flush >= 1
  BY <1>1, VoteOfType
<1>3. v.flush \in Nat /\ w.flush \in Nat /\ v.hist \in TermHistories
  BY <1>2, ConstantsType DEF VoteResponses
<1>4. HighestTerm(v.hist) \in Nat
  <2>1. CASE v.hist = <<>>
    BY <2>1 DEF HighestTerm
  <2>2. CASE v.hist # <<>>
    <3> DEFINE E == [term : Terms, lsn : 1..MaxLsn]
               h == v.hist
    <3>1. h \in Seq(E) /\ h # <<>>
      BY <1>3, <2>2 DEF TermHistories
    <3> HIDE DEF h
    <3>2. Len(h) \in 1..Len(h)
      BY <3>1
    <3>3. h[Len(h)].term \in Terms
      BY <3>1, <3>2, EntriesType
    <3> QED BY <3>1, <3>3, ConstantsType DEF HighestTerm, h
  <2> QED BY <2>1, <2>2
<1> HIDE DEF v, w
<1>5. CASE HighestTerm(v.hist) < HighestTerm(w.hist)
  <2>1. w.hist # <<>>
    BY <1>4, <1>5 DEF HighestTerm
  <2> QED BY <1>2, <2>1 DEF w
<1>6. CASE v.flush <= w.flush
  BY <1>3, <1>6 DEF v, w
<1> QED BY <1>1, <1>5, <1>6 DEF VoteLeq

(* A history that ends with the proposer's own term: where it starts       *)
(* streaming to a voter.                                                   *)
LEMMA StreamingStartType ==
    ASSUME NEW th \in TermHistories, th # <<>>, NEW t, HighestTerm(th) = t,
           NEW v \in VoteResponses, v.hist # <<>> => v.flush >= 1
    PROVE  StartStreamingAt(th, t, v.hist, v.flush) \in 1..MaxLsn
<1>1. th \in Seq([term : Terms, lsn : 1..MaxLsn]) /\ MaxLsn \in Nat
  BY ConstantsType DEF TermHistories
<1>2. v.hist \in Seq([term : Terms, lsn : 1..MaxLsn]) /\ v.flush \in 0..MaxLsn
  BY DEF VoteResponses, TermHistories, Lsns
<1> QED BY <1>1, <1>2, StartStreamingAtType

(* The largest of the horizons that voters report.                         *)
LEMMA HighestHorizonType ==
    ASSUME NEW H \in SUBSET Lsns, H # {}
    PROVE  (CHOOSE h \in H : \A g \in H : g <= h) \in Lsns
<1>1. \E h \in H : \A g \in H : g <= h
  BY GreatestNatural, ConstantsType DEF Lsns
<1> QED BY <1>1

(* A history with one more entry, the one of the proposer's term.          *)
LEMMA NewHistoryType ==
    ASSUME NEW h \in TermHistories, NEW t \in Terms, NEW start \in 1..MaxLsn
    PROVE  /\ Append(h, TermLsn(t, start)) \in TermHistories
           /\ Append(h, TermLsn(t, start)) # <<>>
           /\ HighestTerm(Append(h, TermLsn(t, start))) = t
<1> DEFINE E == [term : Terms, lsn : 1..MaxLsn]
           e == TermLsn(t, start)
<1>1. e \in E /\ e.term = t
  BY DEF TermLsn
<1>2. h \in Seq(E)
  BY DEF TermHistories
<1> HIDE DEF E, e
<1>3. /\ Append(h, e) \in Seq(E) /\ Append(h, e) # <<>>
      /\ Append(h, e)[Len(Append(h, e))] = e
  BY <1>1, <1>2
<1>4. HighestTerm(Append(h, e)) = t
  BY <1>1, <1>3 DEF HighestTerm
<1> QED BY <1>3, <1>4 DEF E, e, TermHistories

(* HandleElectedProposer preserves the type invariant.                     *)
LEMMA BecomeElectedType ==
    ASSUME TypeInv, NEW p \in Proposers, NEW s \in Safekeepers, VoteArrives(p, s),
           wpState[p] = "CAMPAIGN", NEW d \in DonorChoices(p, s),
           BecomeElected(p, s, d),
           vote' = [vote EXCEPT ![p] = [r \in Safekeepers |-> None]],
           rsp' = [rsp EXCEPT ![p][s] = None],
           UNCHANGED <<propTerm, nConnected, propCommit, ack, dirty>>,
           UNCHANGED <<skVars, peerInfo, auxVars>>
    PROVE  TypeInv'
<1> DEFINE V == Voters(p, s)
           dv == VoteOf(p, s, d)
           bootstrap == \A r \in V : VoteOf(p, s, r).flush = 0
           start == IF bootstrap THEN FirstLsn ELSE dv.flush
           horizons == {VoteOf(p, s, r).horizon : r \in V}
           th == Append(dv.hist, TermLsn(propTerm[p], start))
           at == [r \in Safekeepers |-> StartStreamingAt(th, propTerm[p],
                    VoteOf(p, s, r).hist, VoteOf(p, s, r).flush)]
           trunc == IF bootstrap THEN FirstLsn
                    ELSE CHOOSE h \in horizons : \A g \in horizons : g <= h
           w == IF bootstrap THEN <<>> ELSE dv.wal
<1>0. /\ ProposerOK(p) /\ \A x \in Safekeepers : LinkOK(p, x)
      /\ WpTypeOK /\ LinkTypeOK /\ NetTypeOK
  BY DEF TypeInv, SupportInv, TypeOK
<1>1. /\ wpState' = [wpState EXCEPT ![p] = "ELECTED"]
      /\ donor' = [donor EXCEPT ![p] = d]
      /\ propHist' = [propHist EXCEPT ![p] = th]
      /\ propWal' = [propWal EXCEPT ![p] = w]
      /\ propTruncate' = [propTruncate EXCEPT ![p] = trunc]
      /\ skState' = [skState EXCEPT ![p] = [r \in Safekeepers |->
                        IF r \in V THEN "ACTIVE" ELSE skState[p][r]]]
      /\ streamingAt' = [streamingAt EXCEPT ![p] = [r \in Safekeepers |->
                            IF r \in V THEN at[r] ELSE streamingAt[p][r]]]
      /\ q' = [q EXCEPT !["live"][p] = [r \in Safekeepers |->
                  IF r \in V THEN Append(q["live"][p][r], ElectedMsg(at[r]))
                  ELSE q["live"][p][r]]]
  <2>1. q \in [Chan -> [Proposers -> [Safekeepers -> Seq(Messages)]]] /\ "live" \in Chan
    BY <1>0 DEF NetTypeOK, Chan
  <2> QED BY <1>0, <2>1 DEF BecomeElected, LinkTypeOK
<1>2. /\ V \in SUBSET Safekeepers /\ s \in V
      /\ \A r \in V : /\ VoteOf(p, s, r) \in VoteResponses
                      /\ VoteOf(p, s, r).hist # <<>> => VoteOf(p, s, r).flush >= 1
  BY VoteOfType
<1>3. d \in Safekeepers /\ dv \in VoteResponses
  BY DonorType, VoteOfType
<1>4. dv.hist \in TermHistories /\ dv.wal \in Logs /\ dv.flush \in Lsns
  BY <1>3 DEF VoteResponses
<1>5. start \in 1..MaxLsn
  <2>1. CASE bootstrap
    BY <2>1, ConstantsType
  <2>2. CASE ~bootstrap
    <3>1. dv.flush >= 1
      BY <2>2, DonorFlushed
    <3> QED BY <1>4, <2>2, <3>1, ConstantsType DEF Lsns
  <2> QED BY <2>1, <2>2
<1>6. propTerm[p] \in Terms
  BY <1>0 DEF WpTypeOK
<1>7. th \in TermHistories /\ th # <<>> /\ HighestTerm(th) = propTerm[p]
  <2> HIDE DEF dv, start
  <2> QED BY <1>4, <1>5, <1>6, NewHistoryType
<1>8. \A r \in V : at[r] \in 1..MaxLsn
  <2> SUFFICES ASSUME NEW r \in V PROVE at[r] \in 1..MaxLsn
    OBVIOUS
  <2> DEFINE v == VoteOf(p, s, r)
  <2>1. v \in VoteResponses /\ (v.hist # <<>> => v.flush >= 1) /\ r \in Safekeepers
    BY <1>2
  <2>2. at[r] = StartStreamingAt(th, propTerm[p], v.hist, v.flush)
    BY <2>1
  <2> HIDE DEF v, th, at
  <2> QED BY <1>7, <2>1, <2>2, StreamingStartType
<1>9. w \in Logs
  <2>1. <<>> \in Logs
    BY ConstantsType DEF Logs
  <2> QED BY <1>4, <2>1
<1>10. trunc \in Lsns
  <2>1. horizons \in SUBSET Lsns /\ horizons # {}
    BY <1>2 DEF VoteResponses
  <2>2. FirstLsn \in Lsns
    BY ConstantsType DEF Lsns
  <2> HIDE DEF horizons
  <2> QED BY <2>1, <2>2, HighestHorizonType
<1> HIDE DEF V, dv, bootstrap, start, horizons, th, at, trunc, w
<1>11. WpTypeOK'
  BY <1>0, <1>1, <1>3, <1>7, <1>9, <1>10 DEF WpTypeOK
<1>12. \A r \in V : at[r] \in Lsns /\ at[r] >= 1
  BY <1>8, ConstantsType DEF Lsns
<1>13. LinkTypeOK'
  <2>1. vote' \in [Proposers -> [Safekeepers -> VoteResponses \cup {None}]]
    BY <1>0 DEF LinkTypeOK
  <2>2. streamingAt' \in [Proposers -> [Safekeepers -> Lsns]]
    BY <1>0, <1>1, <1>2, <1>12 DEF LinkTypeOK
  <2>3. skState' \in [Proposers -> [Safekeepers ->
           {"OFFLINE", "WAIT_VOTING", "WAIT_VERDICT", "WAIT_ELECTED", "ACTIVE"}]]
    BY <1>0, <1>1 DEF LinkTypeOK
  <2> QED BY <1>0, <2>1, <2>2, <2>3 DEF LinkTypeOK
<1>14. propHist'[p] = th /\ wpState'[p] = "ELECTED" /\ propWal'[p] = w
  BY <1>0, <1>1 DEF WpTypeOK
<1>15. q' \in [Chan -> [Proposers -> [Safekeepers -> Seq(Messages)]]] /\ QueuesOKNext
  <2> DEFINE msg == [r \in Safekeepers |-> ElectedMsg(at[r])]
  <2>1. ASSUME NEW r \in V PROVE msg[r] \in Messages /\ RequestOKNext(p, msg[r])
    <3>1. msg[r] = ElectedMsg(at[r])
      BY <1>2
    <3>2. ElectedMsg(at[r]) \in Messages /\ ElectedMsg(at[r]).type = "elected"
          /\ ElectedMsg(at[r]).lo = at[r]
      BY <1>12, ConstantsType DEF ElectedMsg, Messages
    <3> QED BY <1>7, <1>12, <1>14, <3>1, <3>2 DEF RequestOKNext
  <2>2. q' = [q EXCEPT !["live"][p] = [r \in Safekeepers |->
                IF r \in V THEN Append(q["live"][p][r], msg[r]) ELSE q["live"][p][r]]]
    BY <1>1
  <2> HIDE DEF msg
  <2> QED BY <1>2, <2>1, <2>2, SendType
<1>16. NetTypeOK'
  BY <1>0, <1>15 DEF NetTypeOK
<1>17. SkTypeOK' /\ AuxTypeOK'
  BY SafekeepersUnchanged, AuxUnchanged
<1>18. OthersUnchanged(p)
  BY <1>0, <1>1 DEF OthersUnchanged, WpTypeOK, LinkTypeOK, NetTypeOK
<1>19. propHist[p] = <<>>
  BY <1>0 DEF ProposerOK
<1>20. Monotone(p)
  BY <1>14, <1>19 DEF Monotone
<1>21. ProposerOK(p)'
  BY <1>7, <1>14 DEF ProposerOK
<1>22. ASSUME NEW x \in Safekeepers PROVE LinkOK(p, x)'
  <2>1. LinkOK(p, x)
    BY <1>0
  <2>2. vote'[p][x] = None /\ (rsp'[p][x] = None \/ rsp'[p][x] = rsp[p][x])
    BY <1>0 DEF LinkTypeOK, NetTypeOK
  <2>3. VoteOK(vote'[p][x]) /\ VoteOK(rsp'[p][x])
    BY <2>1, <2>2 DEF LinkOK, VoteOK
  <2>4. CASE x \in V
    <3>1. skState'[p][x] = "ACTIVE" /\ streamingAt'[p][x] = at[x]
      BY <1>0, <1>1, <2>4 DEF LinkTypeOK
    <3> QED BY <1>12, <1>14, <2>3, <2>4, <3>1 DEF LinkOK, VoteOK
  <2>5. CASE x \notin V
    <3>1. skState'[p][x] = skState[p][x]
      BY <1>0, <1>1, <2>5 DEF LinkTypeOK
    <3>2. skState[p][x] # "WAIT_ELECTED"
      BY <2>5 DEF V, Voters
    <3>3. skState[p][x] # "ACTIVE"
      BY <2>1 DEF LinkOK
    <3> QED BY <2>3, <3>1, <3>2, <3>3 DEF LinkOK, VoteOK
  <2> QED BY <2>4, <2>5
<1> QED
  BY <1>11, <1>13, <1>15, <1>16, <1>17, <1>18, <1>20, <1>21, <1>22, ProposerStepSupport
  DEF TypeOK

(* The deciding vote preserves the type invariant.                         *)
LEMMA RecvVoteElectsType ==
    ASSUME TypeInv, NEW p \in Proposers, NEW s \in Safekeepers, RecvVoteElects(p, s)
    PROVE  TypeInv'
<1>1. PICK d \in DonorChoices(p, s) :
         IF d \in Voters(p, s) \/ vote[p][d].hist = <<>>
         THEN /\ BecomeElected(p, s, d)
              /\ vote' = [vote EXCEPT ![p] = [r \in Safekeepers |-> None]]
              /\ rsp' = [rsp EXCEPT ![p][s] = None]
              /\ UNCHANGED <<propTerm, nConnected, propCommit, ack, dirty>>
         ELSE Fatal(p)
  BY DEF RecvVoteElects
<1>2. /\ VoteArrives(p, s) /\ wpState[p] = "CAMPAIGN"
      /\ UNCHANGED <<skVars, peerInfo, auxVars>>
  BY DEF RecvVoteElects
<1>3. CASE d \in Voters(p, s) \/ vote[p][d].hist = <<>>
  BY <1>1, <1>2, <1>3, BecomeElectedType
<1>4. CASE ~(d \in Voters(p, s) \/ vote[p][d].hist = <<>>)
  BY <1>1, <1>2, <1>4, FatalType
<1> QED BY <1>3, <1>4

(* A vote after the election preserves the type invariant.                 *)
LEMMA RecvVoteLateType ==
    ASSUME TypeInv, NEW p \in Proposers, NEW s \in Safekeepers, RecvVoteLate(p, s)
    PROVE  TypeInv'
<1> DEFINE v == rsp[p][s]
           start == StartStreamingAt(propHist[p], propTerm[p], v.hist, v.flush)
<1>0. /\ ProposerOK(p) /\ \A x \in Safekeepers : LinkOK(p, x)
      /\ WpTypeOK /\ LinkTypeOK /\ NetTypeOK
  BY DEF TypeInv, SupportInv, TypeOK
<1>1. /\ VoteArrives(p, s) /\ wpState[p] = "ELECTED"
      /\ q' = [q EXCEPT !["live"][p][s] = Append(q["live"][p][s], ElectedMsg(start))]
      /\ skState' = [skState EXCEPT ![p][s] = "ACTIVE"]
      /\ streamingAt' = [streamingAt EXCEPT ![p][s] = start]
      /\ rsp' = [rsp EXCEPT ![p][s] = None]
      /\ UNCHANGED skVars /\ UNCHANGED wpVars /\ UNCHANGED auxVars
      /\ UNCHANGED <<vote, ack, dirty, peerInfo>>
  <2>1. q \in [Chan -> [Proposers -> [Safekeepers -> Seq(Messages)]]] /\ "live" \in Chan
    BY <1>0 DEF NetTypeOK, Chan
  <2> QED BY <2>1 DEF RecvVoteLate
<1>2. v \in VoteResponses /\ (v.hist # <<>> => v.flush >= 1)
  <2>1. v = VoteOf(p, s, s)
    BY DEF VoteOf
  <2> QED BY <1>1, <2>1, VoteOfType
<1>3. /\ propHist[p] # <<>> /\ propHist[p] \in TermHistories
      /\ HighestTerm(propHist[p]) = propTerm[p]
  BY <1>0, <1>1 DEF ProposerOK, WpTypeOK
<1>4. start \in Lsns /\ start >= 1
  <2>1. start \in 1..MaxLsn
    <3> HIDE DEF v
    <3> QED BY <1>2, <1>3, StreamingStartType
  <2> QED BY <2>1, ConstantsType DEF Lsns
<1> HIDE DEF start, v
<1>5. q' \in [Chan -> [Proposers -> [Safekeepers -> Seq(Messages)]]] /\ QueuesOKNext
  <2> DEFINE m == ElectedMsg(start)
  <2>1. m \in Messages /\ m.type = "elected" /\ m.lo = start
    BY <1>4, ConstantsType DEF ElectedMsg, Messages
  <2> HIDE DEF m
  <2>2. RequestOKNext(p, m)
    BY <1>1, <1>3, <1>4, <2>1 DEF RequestOKNext, wpVars
  <2>3. q' = [q EXCEPT !["live"][p][s] = Append(q["live"][p][s], m)]
    BY <1>1 DEF m
  <2> QED BY <2>1, <2>2, <2>3, SendOneType
<1>6. SkTypeOK' /\ AuxTypeOK' /\ WpTypeOK'
  BY <1>1, SafekeepersUnchanged, AuxUnchanged, ProposersUnchanged
<1>7. LinkTypeOK'
  BY <1>0, <1>1, <1>4 DEF LinkTypeOK
<1>8. NetTypeOK'
  BY <1>0, <1>1, <1>5 DEF NetTypeOK
<1>9. OthersUnchanged(p)
  BY <1>0, <1>1 DEF OthersUnchanged, LinkTypeOK, NetTypeOK, wpVars
<1>10. Monotone(p)
  BY <1>1, MonotoneIfUnchanged DEF TypeInv
<1>11. ProposerOK(p)'
  BY <1>0, <1>1 DEF ProposerOK, wpVars
<1>12. ASSUME NEW x \in Safekeepers PROVE LinkOK(p, x)'
  <2>1. LinkOK(p, x)
    BY <1>0
  <2>2. rsp'[p][x] = None \/ rsp'[p][x] = rsp[p][x]
    BY <1>0, <1>1 DEF NetTypeOK
  <2>3. \/ skState'[p][x] = skState[p][x] /\ streamingAt'[p][x] = streamingAt[p][x]
        \/ skState'[p][x] = "ACTIVE" /\ streamingAt'[p][x] = start
    BY <1>0, <1>1 DEF LinkTypeOK
  <2> QED BY <1>1, <1>4, <2>1, <2>2, <2>3 DEF LinkOK, VoteOK, wpVars
<1> QED
  BY <1>1, <1>5, <1>6, <1>7, <1>8, <1>9, <1>10, <1>11, <1>12, ProposerStepSupport DEF TypeOK

(* SendAppendRequests preserves the type invariant.                        *)
LEMMA SendAppendRequestType ==
    ASSUME TypeInv, NEW p \in Proposers, NEW s \in Safekeepers, SendAppendRequest(p, s)
    PROVE  TypeInv'
<1> DEFINE lo == streamingAt[p][s]
           hi == SendEnd(p, lo)
           m == AppendMsg(lo, hi, propCommit[p], propTruncate[p])
<1>0. /\ ProposerOK(p) /\ \A x \in Safekeepers : LinkOK(p, x)
      /\ WpTypeOK /\ LinkTypeOK /\ NetTypeOK
  BY DEF TypeInv, SupportInv, TypeOK
<1>1. /\ skState[p][s] = "ACTIVE"
      /\ q' = [q EXCEPT !["live"][p][s] = Append(q["live"][p][s], m)]
      /\ streamingAt' = [streamingAt EXCEPT ![p][s] = hi]
      /\ UNCHANGED skVars /\ UNCHANGED wpVars /\ UNCHANGED auxVars
      /\ UNCHANGED <<skState, vote, ack, dirty, rsp, peerInfo>>
  <2>1. q \in [Chan -> [Proposers -> [Safekeepers -> Seq(Messages)]]] /\ "live" \in Chan
    BY <1>0 DEF NetTypeOK, Chan
  <2> QED BY <2>1 DEF SendAppendRequest
<1>2. lo \in Lsns /\ lo >= 1 /\ propHist[p] # <<>>
  <2>1. LinkOK(p, s)
    BY <1>0
  <2>2. wpState[p] = "ELECTED" /\ lo >= 1
    BY <1>1, <2>1 DEF LinkOK
  <2> QED BY <1>0, <2>2 DEF LinkTypeOK, ProposerOK
<1>3. Len(propWal[p]) \in Nat /\ Len(propWal[p]) < MaxLsn
  BY <1>0, LogLength DEF WpTypeOK
<1>4. hi \in Lsns /\ hi >= 1 /\ hi <= Len(propWal[p]) + 1
  <2>1. lo \in Nat /\ MaxSendSize \in Nat
    BY <1>2, ConstantsType
  <2> HIDE DEF lo
  <2> QED BY <1>2, <1>3, <2>1, ConstantsType, SMTT(30) DEF SendEnd, AvailableLsn, Lower, Lsns
<1>5. m \in Messages /\ m.type = "append" /\ m.lo = lo /\ m.hi = hi
  BY <1>0, <1>2, <1>4 DEF AppendMsg, Messages, WpTypeOK
<1> HIDE DEF m, hi, lo
<1>6. RequestOKNext(p, m)
  BY <1>1, <1>2, <1>4, <1>5 DEF RequestOKNext, wpVars
<1>7. q' \in [Chan -> [Proposers -> [Safekeepers -> Seq(Messages)]]] /\ QueuesOKNext
  BY <1>1, <1>5, <1>6, SendOneType
<1>8. SkTypeOK' /\ AuxTypeOK' /\ WpTypeOK'
  BY <1>1, SafekeepersUnchanged, AuxUnchanged, ProposersUnchanged
<1>9. LinkTypeOK'
  BY <1>0, <1>1, <1>4 DEF LinkTypeOK
<1>10. NetTypeOK'
  BY <1>0, <1>1, <1>7 DEF NetTypeOK
<1>11. OthersUnchanged(p)
  BY <1>0, <1>1 DEF OthersUnchanged, LinkTypeOK, wpVars
<1>12. Monotone(p)
  BY <1>1, MonotoneIfUnchanged DEF TypeInv
<1>13. ProposerOK(p)'
  BY <1>0, <1>1 DEF ProposerOK, wpVars
<1>14. ASSUME NEW x \in Safekeepers PROVE LinkOK(p, x)'
  <2>1. LinkOK(p, x)
    BY <1>0
  <2>2. streamingAt'[p][x] = streamingAt[p][x] \/ streamingAt'[p][x] = hi
    BY <1>0, <1>1 DEF LinkTypeOK
  <2> QED BY <1>1, <1>4, <2>1, <2>2 DEF LinkOK, VoteOK, wpVars
<1> QED
  BY <1>1, <1>7, <1>8, <1>9, <1>10, <1>11, <1>12, <1>13, <1>14, ProposerStepSupport DEF TypeOK

(* New WAL of the compute preserves the type invariant.                    *)
LEMMA WriteWalType ==
    ASSUME TypeInv, NEW p \in Proposers, WriteWal(p)
    PROVE  TypeInv'
<1> DEFINE w == Append(propWal[p], TermLsn(propTerm[p], AvailableLsn(p)))
<1>0. /\ ProposerOK(p) /\ \A x \in Safekeepers : LinkOK(p, x)
      /\ WpTypeOK /\ LinkTypeOK /\ NetTypeOK
  BY DEF TypeInv, SupportInv, TypeOK
<1>1. /\ AvailableLsn(p) < MaxLsn
      /\ propWal' = [propWal EXCEPT ![p] = w]
      /\ UNCHANGED skVars /\ UNCHANGED linkVars /\ UNCHANGED netVars /\ UNCHANGED auxVars
      /\ UNCHANGED <<wpState, propTerm, nConnected, donor, propHist, propCommit,
                     propTruncate, peerInfo>>
  BY DEF WriteWal
<1>2. w \in Logs /\ Len(w) = Len(propWal[p]) + 1 /\ Len(propWal[p]) \in Nat
  <2> DEFINE R == [term : Terms, lsn : 1..MaxLsn]
             e == TermLsn(propTerm[p], AvailableLsn(p))
  <2>0. propWal[p] \in Logs
    BY <1>0 DEF WpTypeOK
  <2>1. propWal[p] \in Seq(R) /\ Len(propWal[p]) \in Nat
    BY <2>0 DEF Logs
  <2>2. e \in R
    BY <1>0, <1>1, <2>1, ConstantsType DEF TermLsn, AvailableLsn, WpTypeOK
  <2> HIDE DEF R, e
  <2>3. Append(propWal[p], e) \in Seq(R) /\ Len(Append(propWal[p], e)) = Len(propWal[p]) + 1
    BY <2>1, <2>2
  <2> QED BY <1>1, <2>1, <2>3 DEF R, e, Logs, AvailableLsn
<1> HIDE DEF w
<1>3. WpTypeOK'
  BY <1>0, <1>1, <1>2 DEF WpTypeOK
<1>4. SkTypeOK' /\ AuxTypeOK' /\ LinkTypeOK'
  BY <1>1, SafekeepersUnchanged, AuxUnchanged, LinksUnchanged
<1>5. NetTypeOK'
  BY <1>0, <1>1 DEF NetTypeOK, netVars
<1>6. OthersUnchanged(p)
  BY <1>0, <1>1 DEF OthersUnchanged, WpTypeOK, linkVars, netVars
<1>7. Monotone(p)
  <2>1. propWal'[p] = w
    BY <1>0, <1>1 DEF WpTypeOK
  <2> QED BY <1>1, <1>2, <2>1 DEF Monotone
<1>8. ProposerOK(p)'
  BY <1>0, <1>1 DEF ProposerOK, linkVars
<1>9. ASSUME NEW x \in Safekeepers PROVE LinkOK(p, x)'
  <2>1. LinkOK(p, x)
    BY <1>0
  <2> QED BY <1>1, <2>1 DEF LinkOK, VoteOK, linkVars, netVars
<1>10. QueuesOKNext
  BY <1>1, QueuesUnchanged DEF QueuesOKNext, netVars
<1> QED
  BY <1>1, <1>3, <1>4, <1>5, <1>6, <1>7, <1>8, <1>9, <1>10, ProposerStepSupport DEF TypeOK

(* The position that a quorum acknowledged is 0 or one of the              *)
(* acknowledgements, and a position that every safekeeper acknowledged     *)
(* exists.                                                                 *)
LEMMA AcknowledgedType ==
    ASSUME NEW p, NEW acks \in [Safekeepers -> Lsns]
    PROVE  AcknowledgedByQuorum(p, acks) \in Lsns /\ MinFlushLsn(acks) \in Lsns
<1> DEFINE counted == [s \in Safekeepers |->
                         IF acks[s] >= PropTermStartLsn(p) THEN acks[s] ELSE 0]
           held(l) == {s \in Safekeepers : counted[s] >= l}
           reached == {counted[s] : s \in Safekeepers} \cup {0}
           good == {h \in reached : HasQuorum(held(h))}
<1>1. counted \in [Safekeepers -> Lsns] /\ reached \in SUBSET Lsns
  BY ConstantsType
<1>2. good \in SUBSET (0..MaxLsn) /\ good \in SUBSET reached
  BY <1>1 DEF Lsns
<1>3. 0 \in good
  <2>1. held(0) = Safekeepers
    <3>1. \A s \in Safekeepers : counted[s] \in Nat
      BY <1>1, ConstantsType
    <3> HIDE DEF counted
    <3>2. \A s \in Safekeepers : counted[s] >= 0
      BY <3>1
    <3> QED BY <3>2
  <2>2. HasQuorum(Safekeepers)
    <3>1. Safekeepers # {} /\ IsFiniteSet(Safekeepers)
      BY ConstantsAssumption
    <3>2. Cardinality(Safekeepers) # 0
      BY <3>1, FS_EmptySet
    <3> QED BY <3>2, ConstantsType DEF HasQuorum, Quorum
  <2> QED BY <2>1, <2>2
<1>4. PICK m \in good : \A x \in good : x <= m
  <2> HIDE DEF good
  <2> QED BY <1>2, <1>3, GreatestNatural, ConstantsType
<1>5. \E l \in reached : HasQuorum(held(l)) /\ \A h \in reached : HasQuorum(held(h)) => h <= l
  BY <1>2, <1>4
<1>6. AcknowledgedByQuorum(p, acks) \in reached
  <2>1. AcknowledgedByQuorum(p, acks) = CHOOSE l \in reached :
            HasQuorum(held(l)) /\ \A h \in reached : HasQuorum(held(h)) => h <= l
    BY DEF AcknowledgedByQuorum
  <2> HIDE DEF reached, held
  <2> QED BY <1>5, <2>1
<1>7. MinFlushLsn(acks) \in Lsns
  <2> DEFINE A == {acks[s] : s \in Safekeepers}
  <2>0. \A s \in Safekeepers : acks[s] \in Lsns /\ acks[s] \in Nat
    BY ConstantsType
  <2>1. A \in SUBSET Nat /\ A # {} /\ A \in SUBSET Lsns
    <3>1. PICK s \in Safekeepers : TRUE
      BY ConstantsAssumption
    <3>2. acks[s] \in A
      OBVIOUS
    <3> QED BY <2>0, <3>2
  <2>2. \E l \in A : \A x \in A : l <= x
    <3> HIDE DEF A
    <3> QED BY <2>1, LeastNatural
  <2>3. \E l \in A : \A s \in Safekeepers : l <= acks[s]
    BY <2>2
  <2>4. MinFlushLsn(acks) = CHOOSE l \in A : \A s \in Safekeepers : l <= acks[s]
    BY DEF MinFlushLsn
  <2>5. MinFlushLsn(acks) \in A
    <3> HIDE DEF A
    <3> QED BY <2>3, <2>4
  <2> QED BY <2>1, <2>5
<1> QED BY <1>1, <1>6, <1>7

(* HandleSafekeeperResponse preserves the type invariant.                  *)
LEMMA RecvAppendResponseType ==
    ASSUME TypeInv, NEW p \in Proposers, NEW s \in Safekeepers, RecvAppendResponse(p, s)
    PROVE  TypeInv'
<1> DEFINE acks == [ack[p] EXCEPT ![s] = rsp[p][s].flush]
           commit == Higher(propCommit[p], AcknowledgedByQuorum(p, acks))
           truncate == Higher(propTruncate[p], Lower(MinFlushLsn(acks), commit))
<1>0. /\ ProposerOK(p) /\ \A x \in Safekeepers : LinkOK(p, x)
      /\ WpTypeOK /\ LinkTypeOK /\ NetTypeOK /\ AuxTypeOK
  BY DEF TypeInv, SupportInv, TypeOK
<1>1. /\ AckArrives(p, s)
      /\ ack' = [ack EXCEPT ![p] = acks]
      /\ propCommit' = [propCommit EXCEPT ![p] = commit]
      /\ propTruncate' = [propTruncate EXCEPT ![p] = truncate]
      /\ ackedLog' = Below(propWal[p], commit) \/ ackedLog' = ackedLog
      /\ rsp' = [rsp EXCEPT ![p][s] = None]
      /\ UNCHANGED skVars /\ UNCHANGED q
      /\ UNCHANGED <<wpState, propTerm, nConnected, donor, propHist, propWal,
                     skState, vote, streamingAt, dirty, peerInfo, grantedTo, faults>>
  BY DEF RecvAppendResponse
<1>2. rsp[p][s].flush \in Lsns
  <2>1. rsp[p][s] \in VoteResponses \cup AppendResponses \cup {None}
    BY <1>0 DEF NetTypeOK
  <2>2. rsp[p][s] # None /\ rsp[p][s].type = "ack"
    BY <1>1 DEF AckArrives
  <2> QED BY <2>1, <2>2 DEF VoteResponses, AppendResponses
<1>3. acks \in [Safekeepers -> Lsns]
  BY <1>0, <1>2 DEF LinkTypeOK
<1>4. AcknowledgedByQuorum(p, acks) \in Lsns /\ MinFlushLsn(acks) \in Lsns
  <2> HIDE DEF acks
  <2> QED BY <1>3, AcknowledgedType
<1>5. propCommit[p] \in Lsns /\ propTruncate[p] \in Lsns /\ propWal[p] \in Logs
  BY <1>0 DEF WpTypeOK
<1> HIDE DEF acks
<1>6. commit \in Lsns /\ truncate \in Lsns
  BY <1>4, <1>5 DEF Higher, Lower
<1> HIDE DEF commit, truncate
<1>7. WpTypeOK'
  BY <1>0, <1>1, <1>6 DEF WpTypeOK
<1>8. LinkTypeOK'
  BY <1>0, <1>1, <1>3 DEF LinkTypeOK
<1>9. NetTypeOK'
  BY <1>0, <1>1 DEF NetTypeOK
<1>10. AuxTypeOK'
  <2>1. Below(propWal[p], commit) \in Logs
    BY <1>5, <1>6, BelowType
  <2> QED BY <1>0, <1>1, <2>1 DEF AuxTypeOK
<1>11. SkTypeOK'
  BY <1>1, SafekeepersUnchanged
<1>12. OthersUnchanged(p)
  BY <1>0, <1>1 DEF OthersUnchanged, NetTypeOK
<1>13. Monotone(p)
  <2>1. Len(propWal[p]) \in Nat
    BY <1>5, LogLength
  <2> QED BY <1>1, <2>1 DEF Monotone
<1>14. ProposerOK(p)'
  BY <1>0, <1>1 DEF ProposerOK
<1>15. ASSUME NEW x \in Safekeepers PROVE LinkOK(p, x)'
  <2>1. LinkOK(p, x)
    BY <1>0
  <2>2. rsp'[p][x] = None \/ rsp'[p][x] = rsp[p][x]
    BY <1>0, <1>1 DEF NetTypeOK
  <2> QED BY <1>1, <2>1, <2>2 DEF LinkOK, VoteOK
<1>16. QueuesOKNext
  BY <1>1, QueuesUnchanged DEF QueuesOKNext
<1> QED
  BY <1>1, <1>7, <1>8, <1>9, <1>10, <1>11, <1>12, <1>13, <1>14, <1>15, <1>16,
     ProposerStepSupport DEF TypeOK

-----------------------------------------------------------------------------
(* Type correctness.                                                       *)

(* Steps of safekeepers and of proposers preserve the type invariant.      *)
LEMMA NextType ==
    ASSUME TypeInv, [Next]_vars
    PROVE  TypeInv'
<1>1. ASSUME NEW s \in Safekeepers, SafekeeperStep(s)
      PROVE  TypeInv'
  <2>1. ASSUME NEW k \in Chan, NEW p \in Proposers,
               \/ HandleVoteRequest(k, p, s) \/ IgnoreElected(k, p, s)
               \/ RefuseElected(k, p, s) \/ HandleElected(k, p, s)
               \/ RefuseAppend(k, p, s) \/ AppendOfOldTerm(k, p, s)
               \/ HandleAppendRequest(k, p, s) \/ HandleFlush(k, p, s)
               \/ CrashInElected(k, p, s)
        PROVE  TypeInv'
    BY <2>1, HandleVoteRequestType, IgnoreElectedType, RefuseElectedType, HandleElectedType,
       RefuseAppendType, AppendOfOldTermType, HandleAppendRequestType, HandleFlushType,
       CrashInElectedType
  <2>2. ASSUME \/ SaveControlFile(s) \/ TermBump(s) \/ Crash(s) \/ PublishInfo(s)
               \/ RecordSafekeeperInfo(s)
        PROVE  TypeInv'
    BY <2>2, SaveControlFileType, TermBumpType, CrashType, PublishInfoType,
       RecordSafekeeperInfoType
  <2> QED BY <1>1, <2>1, <2>2 DEF SafekeeperStep
<1>2. ASSUME NEW p \in Proposers, ProposerStep(p)
      PROVE  TypeInv'
  <2>1. ASSUME NEW s \in Safekeepers,
               \/ GreetRejected(p, s) \/ RecvVoteRefused(p, s) \/ RecvAckFatal(p, s)
        PROVE  TypeInv'
    <3>1. Fatal(p) /\ UNCHANGED <<skVars, peerInfo, auxVars>>
      BY <2>1 DEF GreetRejected, RecvVoteRefused, RecvAckFatal
    <3> QED BY <3>1, FatalType
  <2>2. ASSUME NEW s \in Safekeepers,
               \/ GreetCollecting(p, s) \/ GreetStartsCampaign(p, s) \/ GreetLate(p, s)
               \/ RecvVoteCounted(p, s) \/ RecvVoteElects(p, s) \/ RecvVoteLate(p, s)
               \/ SendAppendRequest(p, s) \/ RecvAppendResponse(p, s) \/ Disconnect(p, s)
        PROVE  TypeInv'
    BY <2>2, GreetCollectingType, GreetStartsCampaignType, GreetLateType, RecvVoteCountedType,
       RecvVoteElectsType, RecvVoteLateType, SendAppendRequestType, RecvAppendResponseType,
       DisconnectType
  <2>3. ASSUME WriteWal(p) PROVE TypeInv'
    BY <2>3, WriteWalType
  <2>4. ASSUME Die(p) PROVE TypeInv'
    <3>1. Fatal(p) /\ UNCHANGED <<skVars, peerInfo, auxVars>>
      BY <2>4 DEF Die
    <3> QED BY <3>1, FatalType
  <2> QED BY <1>2, <2>1, <2>2, <2>3, <2>4 DEF ProposerStep
<1>3. ASSUME UNCHANGED vars
      PROVE  TypeInv'
  <2>1. UNCHANGED <<skVars, wpVars, linkVars, netVars, peerInfo, auxVars>>
    BY <1>3 DEF vars
  <2>2. SkTypeOK' /\ AuxTypeOK' /\ \A s \in Safekeepers : Started(s)'
    BY <2>1, SafekeepersUnchanged, AuxUnchanged
  <2>3. peerInfo' \in PeerInfos \cup {None}
    BY <2>1 DEF TypeInv, TypeOK, NetTypeOK
  <2> QED BY <2>1, <2>2, <2>3, LocalStepType
<1> QED BY <1>1, <1>2, <1>3 DEF Next

(* Type correctness of the protocol: terms, LSNs, WALs, histories, votes   *)
(* and messages stay within what the code's structs hold, whatever is      *)
(* lost, repeated or answered late, for any number of safekeepers,         *)
(* proposers, terms, records and failures.                                 *)
THEOREM TypeCorrect == Spec => []TypeOK
<1>1. Init => TypeInv
  BY InitType
<1>2. TypeInv /\ [Next]_vars => TypeInv'
  BY NextType
<1>3. TypeInv => TypeOK
  BY DEF TypeInv
<1> QED BY <1>1, <1>2, <1>3, PTL DEF Spec

-----------------------------------------------------------------------------
(* Election safety.                                                        *)

(* What a step may do to votes that were given: terms only grow, a started *)
(* campaign keeps its term, and whatever is counted or in flight was given.*)
LEMMA VotesStable ==
    ASSUME TypeInv, VotesInv, TypeInv', UNCHANGED grantedTo,
           \A s \in Safekeepers : term[s] <= term'[s],
           \A p \in Proposers : wpState[p] # "COLLECTING_TERMS" =>
              wpState'[p] # "COLLECTING_TERMS" /\ propTerm'[p] = propTerm[p],
           \A p \in Proposers, s \in Safekeepers :
              /\ vote'[p][s] # None => s \in grantedTo[p]
              /\ rsp'[p][s] # None =>
                   (rsp'[p][s].type = "vote" /\ rsp'[p][s].given => s \in grantedTo[p]),
           \A p \in Proposers : propHist'[p] # <<>> => HasQuorum(grantedTo[p])
    PROVE  VotesInv'
<1>1. ASSUME NEW p \in Proposers, NEW s \in Safekeepers PROVE ElectionOK(p, s)'
  <2>1. ElectionOK(p, s) /\ \A r \in Proposers : ElectionOK(r, s)
    BY DEF VotesInv
  <2>2. ASSUME s \in grantedTo[p]
        PROVE  propTerm'[p] <= term'[s] /\ wpState'[p] # "COLLECTING_TERMS"
    <3>1. propTerm[p] <= term[s] /\ wpState[p] # "COLLECTING_TERMS"
      BY <2>1, <2>2 DEF ElectionOK
    <3>2. propTerm'[p] = propTerm[p] /\ wpState'[p] # "COLLECTING_TERMS"
      BY <3>1
    <3>3. term[s] \in Nat /\ term'[s] \in Nat /\ propTerm[p] \in Nat /\ term[s] <= term'[s]
      BY ConstantsType DEF TypeInv, TypeOK, SkTypeOK, WpTypeOK
    <3> QED BY <3>1, <3>2, <3>3
  <2>3. ASSUME NEW r \in Proposers, r # p, s \in grantedTo[p], s \in grantedTo[r]
        PROVE  propTerm'[p] # propTerm'[r]
    <3>1. propTerm[p] # propTerm[r]
      BY <2>1, <2>3 DEF ElectionOK
    <3>2. wpState[p] # "COLLECTING_TERMS" /\ wpState[r] # "COLLECTING_TERMS"
      BY <2>1, <2>3 DEF ElectionOK
    <3> QED BY <3>1, <3>2
  <2> QED BY <2>2, <2>3 DEF ElectionOK
<1> QED BY <1>1 DEF VotesInv

(* A step of a safekeeper other than a vote.                               *)
LEMMA VotesSafekeeperStep ==
    ASSUME TypeInv, VotesInv, TypeInv', UNCHANGED wpVars, UNCHANGED vote, UNCHANGED grantedTo,
           \A s \in Safekeepers : term[s] <= term'[s],
           \A p \in Proposers, s \in Safekeepers :
              \/ rsp'[p][s] = rsp[p][s] \/ rsp'[p][s] = None \/ rsp'[p][s].type = "ack"
    PROVE  VotesInv'
<1>1. \A p \in Proposers : wpState[p] # "COLLECTING_TERMS" =>
         wpState'[p] # "COLLECTING_TERMS" /\ propTerm'[p] = propTerm[p]
  BY DEF wpVars
<1>2. ASSUME NEW p \in Proposers, NEW s \in Safekeepers
      PROVE  /\ vote'[p][s] # None => s \in grantedTo[p]
             /\ rsp'[p][s] # None =>
                  (rsp'[p][s].type = "vote" /\ rsp'[p][s].given => s \in grantedTo[p])
  <2>1. ElectionOK(p, s)
    BY DEF VotesInv
  <2>2. rsp'[p][s] = rsp[p][s] \/ rsp'[p][s] = None \/ rsp'[p][s].type = "ack"
    OBVIOUS
  <2> QED BY <2>1, <2>2 DEF ElectionOK
<1>3. \A p \in Proposers : propHist'[p] # <<>> => HasQuorum(grantedTo[p])
  BY DEF VotesInv, wpVars
<1> QED BY <1>1, <1>2, <1>3, VotesStable

(* A vote: s gives it in a term higher than any it voted in, so the new    *)
(* vote can meet no other one of the same term.                            *)
LEMMA HandleVoteRequestVotes ==
    ASSUME TypeInv, VotesInv, TypeInv', NEW k \in Chan, NEW p \in Proposers,
           NEW s \in Safekeepers, HandleVoteRequest(k, p, s)
    PROVE  VotesInv'
<1> DEFINE newTerm == IF VoteGranted(p, s) THEN propTerm[p] ELSE term[s]
           v == VoteResponse(newTerm, VoteGranted(p, s), WriteLsn(s), memHorizon[s],
                             UpTo(hist[s], WriteLsn(s)), wal[s])
<1>1. /\ term' = [term EXCEPT ![s] = newTerm]
      /\ UNCHANGED wpVars /\ UNCHANGED linkVars
      /\ IF VoteGranted(p, s) THEN grantedTo' = [grantedTo EXCEPT ![p] = @ \cup {s}]
         ELSE UNCHANGED grantedTo
      /\ Received(k, p, s, "vote") /\ Reply(k, p, s, v)
  BY DEF HandleVoteRequest
<1>2. \A x \in Proposers, y \in Safekeepers :
         rsp'[x][y] = rsp[x][y] \/ (x = p /\ y = s /\ rsp'[x][y] = v)
  <2>1. rsp \in [Proposers -> [Safekeepers -> VoteResponses \cup AppendResponses \cup {None}]]
    BY DEF TypeInv, TypeOK, NetTypeOK
  <2>2. rsp' = rsp \/ rsp' = [rsp EXCEPT ![p][s] = v]
    BY <1>1 DEF Reply
  <2> HIDE DEF v
  <2> QED BY <2>1, <2>2
<1>3. v.given = VoteGranted(p, s)
  BY DEF VoteResponse
<1> HIDE DEF v
<1>4. wpState[p] # "COLLECTING_TERMS"
  <2>1. q[k][p][s] \in Seq(Messages) /\ q[k][p][s] # <<>> /\ Head(q[k][p][s]).type = "vote"
    BY <1>1 DEF Received, TypeInv, TypeOK, NetTypeOK
  <2>2. Head(q[k][p][s]) = q[k][p][s][1] /\ 1 \in 1..Len(q[k][p][s])
    BY <2>1
  <2>3. RequestOK(p, q[k][p][s][1])
    BY <2>2 DEF TypeInv, SupportInv, QueueOK
  <2> QED BY <2>1, <2>2, <2>3 DEF RequestOK
<1>5. \A x \in Safekeepers : /\ term[x] \in Nat /\ term'[x] \in Nat
                              /\ term[x] <= term'[x]
  <2>1. term \in [Safekeepers -> Terms] /\ propTerm[p] \in Terms /\ Terms \subseteq Nat
    BY ConstantsType DEF TypeInv, TypeOK, SkTypeOK, WpTypeOK
  <2>2. ASSUME NEW x \in Safekeepers
        PROVE  term[x] \in Nat /\ term'[x] \in Nat /\ term[x] <= term'[x]
    <3>1. term[x] \in Nat /\ propTerm[p] \in Nat /\ term[s] \in Nat
      BY <2>1
    <3>2. \/ term'[x] = term[x]
          \/ x = s /\ term'[x] = propTerm[p] /\ term[s] < propTerm[p]
      BY <1>1, <2>1 DEF VoteGranted
    <3> QED BY <3>1, <3>2
  <2> QED BY <2>2
<1>6. \A x \in Proposers : propTerm[x] \in Nat
  BY ConstantsType DEF TypeInv, TypeOK, WpTypeOK
<1>7. /\ grantedTo \in [Proposers -> SUBSET Safekeepers]
      /\ grantedTo' \in [Proposers -> SUBSET Safekeepers]
  BY DEF TypeInv, TypeOK, AuxTypeOK
<1>8. ASSUME NEW x \in Proposers
      PROVE  /\ grantedTo[x] \subseteq grantedTo'[x]
             /\ \A y \in grantedTo'[x] :
                  y \in grantedTo[x] \/ (x = p /\ y = s /\ VoteGranted(p, s))
  BY <1>1, <1>7
<1>9. VoteGranted(p, s) => s \in grantedTo'[p]
  BY <1>1, <1>7
<1>10. ASSUME NEW x \in Proposers, NEW y \in Safekeepers, y \in grantedTo'[x]
       PROVE  propTerm[x] <= term'[y] /\ wpState[x] # "COLLECTING_TERMS"
  <2>1. CASE y \in grantedTo[x]
    <3>1. propTerm[x] <= term[y] /\ wpState[x] # "COLLECTING_TERMS"
      BY <2>1 DEF VotesInv, ElectionOK
    <3>2. term[y] \in Nat /\ term'[y] \in Nat /\ term[y] <= term'[y] /\ propTerm[x] \in Nat
      BY <1>5, <1>6
    <3> QED BY <3>1, <3>2
  <2>2. CASE x = p /\ y = s /\ VoteGranted(p, s)
    <3>1. term'[y] = propTerm[x]
      BY <1>1, <2>2 DEF TypeInv, TypeOK, SkTypeOK
    <3>2. propTerm[x] \in Nat
      BY <1>6
    <3> QED BY <1>4, <2>2, <3>1, <3>2
  <2> QED BY <1>8, <1>10, <2>1, <2>2
<1>11. ASSUME NEW x \in Proposers, NEW r \in Proposers, NEW y \in Safekeepers, r # x,
              y \in grantedTo'[x], y \in grantedTo'[r]
       PROVE  propTerm[x] # propTerm[r]
  <2>1. CASE y \in grantedTo[x] /\ y \in grantedTo[r]
    BY <1>11, <2>1 DEF VotesInv, ElectionOK
  <2>2. CASE y \in grantedTo[x] /\ r = p /\ y = s /\ VoteGranted(p, s)
    <3>1. propTerm[x] <= term[y]
      BY <2>2 DEF VotesInv, ElectionOK
    <3>2. term[y] \in Nat /\ propTerm[x] \in Nat /\ propTerm[r] \in Nat
      BY <1>5, <1>6
    <3>3. term[y] < propTerm[r]
      BY <2>2 DEF VoteGranted
    <3> QED BY <3>1, <3>2, <3>3
  <2>3. CASE y \in grantedTo[r] /\ x = p /\ y = s /\ VoteGranted(p, s)
    <3>1. propTerm[r] <= term[y]
      BY <2>3 DEF VotesInv, ElectionOK
    <3>2. term[y] \in Nat /\ propTerm[x] \in Nat /\ propTerm[r] \in Nat
      BY <1>5, <1>6
    <3>3. term[y] < propTerm[x]
      BY <2>3 DEF VoteGranted
    <3> QED BY <3>1, <3>2, <3>3
  <2> QED BY <1>8, <1>11, <2>1, <2>2, <2>3
<1>12. ASSUME NEW x \in Proposers, NEW y \in Safekeepers
       PROVE  /\ vote[x][y] # None => y \in grantedTo'[x]
              /\ rsp'[x][y] # None =>
                   (rsp'[x][y].type = "vote" /\ rsp'[x][y].given => y \in grantedTo'[x])
  <2>1. ElectionOK(x, y)
    BY DEF VotesInv
  <2>2. CASE rsp'[x][y] = rsp[x][y]
    BY <1>8, <2>1, <2>2 DEF ElectionOK
  <2>3. CASE x = p /\ y = s /\ rsp'[x][y] = v
    BY <1>3, <1>8, <1>9, <2>1, <2>3 DEF ElectionOK
  <2> QED BY <1>2, <2>2, <2>3
<1>13. ASSUME NEW x \in Proposers, propHist[x] # <<>> PROVE HasQuorum(grantedTo'[x])
  <2>1. HasQuorum(grantedTo[x])
    BY <1>13 DEF VotesInv
  <2> QED BY <1>7, <1>8, <2>1, QuorumGrows
<1>14. UNCHANGED <<wpState, propTerm, propHist, vote>>
  BY <1>1 DEF wpVars, linkVars
<1>15. \A x \in Proposers, y \in Safekeepers : ElectionOK(x, y)'
  BY <1>10, <1>11, <1>12, <1>14 DEF ElectionOK
<1> QED BY <1>13, <1>14, <1>15 DEF VotesInv

(* Steps of safekeepers.                                                   *)
LEMMA SafekeeperStepVotes ==
    ASSUME TypeInv, VotesInv, TypeInv', NEW s \in Safekeepers, SafekeeperStep(s)
    PROVE  VotesInv'
<1>1. /\ term \in [Safekeepers -> Terms] /\ Terms \subseteq Nat
      /\ propTerm \in [Proposers -> Terms]
      /\ rsp \in [Proposers -> [Safekeepers -> VoteResponses \cup AppendResponses \cup {None}]]
  BY ConstantsType DEF TypeInv, TypeOK, SkTypeOK, WpTypeOK, NetTypeOK
<1>2. ASSUME UNCHANGED term PROVE \A x \in Safekeepers : term[x] <= term'[x]
  <2>1. \A x \in Safekeepers : term[x] \in Nat
    BY <1>1
  <2> QED BY <1>2, <2>1
<1>3. ASSUME NEW p \in Proposers, ~FromOldTerm(p, s), term' = [term EXCEPT ![s] = propTerm[p]]
      PROVE  \A x \in Safekeepers : term[x] <= term'[x]
  <2> SUFFICES ASSUME NEW x \in Safekeepers PROVE term[x] <= term'[x]
    OBVIOUS
  <2>1. term[x] \in Nat /\ propTerm[p] \in Nat /\ term[s] \in Nat
    BY <1>1
  <2>2. term'[x] = term[x] \/ (x = s /\ term'[x] = propTerm[p])
    BY <1>1, <1>3
  <2>3. ~(term[s] > propTerm[p])
    BY <1>3 DEF FromOldTerm
  <2> QED BY <2>1, <2>2, <2>3
<1>4. ASSUME NEW k \in Chan, NEW p \in Proposers, NEW r, r.type = "ack", Reply(k, p, s, r)
      PROVE  \A x \in Proposers, y \in Safekeepers :
                rsp'[x][y] = rsp[x][y] \/ rsp'[x][y].type = "ack"
  BY <1>1, <1>4 DEF Reply
<1>5. ASSUME NEW k \in Chan, NEW p \in Proposers, CloseOnError(k, p, s)
      PROVE  \A x \in Proposers, y \in Safekeepers :
                rsp'[x][y] = rsp[x][y] \/ rsp'[x][y] = None
  <2>1. rsp' = rsp \/ rsp' = [rsp EXCEPT ![p][s] = None]
    BY <1>5 DEF CloseOnError
  <2> QED BY <1>1, <2>1
<1>6. ASSUME NEW c, NEW h, NEW w, Boot(s, c, h, w)
      PROVE  /\ \A x \in Proposers, y \in Safekeepers :
                   rsp'[x][y] = rsp[x][y] \/ rsp'[x][y] = None
             /\ UNCHANGED wpVars /\ UNCHANGED vote /\ UNCHANGED grantedTo
  BY <1>1, <1>6 DEF Boot
<1>7. ASSUME NEW t, NEW f PROVE AppendResponse(t, f).type = "ack"
  BY DEF AppendResponse
<1>8. ASSUME NEW k \in Chan, NEW p \in Proposers, IgnoreElected(k, p, s) PROVE VotesInv'
  <2>1. /\ UNCHANGED term /\ UNCHANGED wpVars /\ UNCHANGED vote /\ UNCHANGED grantedTo
        /\ UNCHANGED rsp
    BY <1>8 DEF IgnoreElected, skVars, linkVars, auxVars
  <2> QED BY <1>2, <2>1, VotesSafekeeperStep
<1>9. ASSUME NEW k \in Chan, NEW p \in Proposers, RefuseElected(k, p, s) PROVE VotesInv'
  <2>1. /\ ~FromOldTerm(p, s) /\ term' = [term EXCEPT ![s] = propTerm[p]]
        /\ UNCHANGED wpVars /\ UNCHANGED vote /\ UNCHANGED grantedTo
        /\ CloseOnError(k, p, s)
    BY <1>9 DEF RefuseElected, RaiseTerm, CloseOnError, auxVars
  <2> QED BY <1>3, <1>5, <2>1, VotesSafekeeperStep
<1>10. ASSUME NEW k \in Chan, NEW p \in Proposers, HandleElected(k, p, s) PROVE VotesInv'
  <2>1. /\ ~FromOldTerm(p, s) /\ term' = [term EXCEPT ![s] = propTerm[p]]
        /\ UNCHANGED wpVars /\ UNCHANGED vote /\ UNCHANGED grantedTo /\ UNCHANGED rsp
    BY <1>10 DEF HandleElected, linkVars, auxVars
  <2> QED BY <1>3, <2>1, VotesSafekeeperStep
<1>11. ASSUME NEW k \in Chan, NEW p \in Proposers, RefuseAppend(k, p, s) PROVE VotesInv'
  <2>1. /\ UNCHANGED term /\ UNCHANGED wpVars /\ UNCHANGED vote /\ UNCHANGED grantedTo
        /\ CloseOnError(k, p, s)
    BY <1>11 DEF RefuseAppend, CloseOnError, skVars, auxVars
  <2> QED BY <1>2, <1>5, <2>1, VotesSafekeeperStep
<1>12. ASSUME NEW k \in Chan, NEW p \in Proposers, AppendOfOldTerm(k, p, s) PROVE VotesInv'
  <2>1. /\ UNCHANGED term /\ UNCHANGED wpVars /\ UNCHANGED vote /\ UNCHANGED grantedTo
        /\ Reply(k, p, s, AppendResponse(term[s], 0))
    BY <1>12, SMTT(30) DEF AppendOfOldTerm, skVars, linkVars, auxVars
  <2> QED BY <1>2, <1>4, <1>7, <2>1, VotesSafekeeperStep
<1>13. ASSUME NEW k \in Chan, NEW p \in Proposers, HandleAppendRequest(k, p, s)
       PROVE  VotesInv'
  <2>1. /\ UNCHANGED term /\ UNCHANGED wpVars /\ UNCHANGED vote /\ UNCHANGED grantedTo
        /\ UNCHANGED rsp
    BY <1>13 DEF HandleAppendRequest, linkVars, auxVars
  <2> QED BY <1>2, <2>1, VotesSafekeeperStep
<1>14. ASSUME NEW k \in Chan, NEW p \in Proposers, HandleFlush(k, p, s) PROVE VotesInv'
  <2>1. /\ UNCHANGED term /\ UNCHANGED wpVars /\ UNCHANGED vote /\ UNCHANGED grantedTo
        /\ Reply(k, p, s, AppendResponse(term[s], WriteLsn(s)))
    BY <1>14 DEF HandleFlush, linkVars, auxVars
  <2> QED BY <1>2, <1>4, <1>7, <2>1, VotesSafekeeperStep
<1>15. ASSUME NEW k \in Chan, NEW p \in Proposers, CrashInElected(k, p, s) PROVE VotesInv'
  <2>1. /\ ~FromOldTerm(p, s) /\ term' = [term EXCEPT ![s] = propTerm[p]]
        /\ \E c, h, w : Boot(s, c, h, w)
    BY <1>15 DEF CrashInElected
  <2> QED BY <1>3, <1>6, <2>1, VotesSafekeeperStep
<1>16. ASSUME Crash(s) PROVE VotesInv'
  <2>1. UNCHANGED term /\ \E c, h, w : Boot(s, c, h, w)
    BY <1>16 DEF Crash
  <2> QED BY <1>2, <1>6, <2>1, VotesSafekeeperStep
<1>17. ASSUME SaveControlFile(s) \/ PublishInfo(s) \/ RecordSafekeeperInfo(s) PROVE VotesInv'
  <2>1. /\ UNCHANGED term /\ UNCHANGED wpVars /\ UNCHANGED vote /\ UNCHANGED grantedTo
        /\ UNCHANGED rsp
    BY <1>17 DEF SaveControlFile, PublishInfo, RecordSafekeeperInfo, skVars, linkVars,
                 netVars, auxVars
  <2> QED BY <1>2, <2>1, VotesSafekeeperStep
<1>18. ASSUME TermBump(s) PROVE VotesInv'
  <2>1. /\ term' = [term EXCEPT ![s] = term[s] + 1]
        /\ UNCHANGED wpVars /\ UNCHANGED vote /\ UNCHANGED grantedTo /\ UNCHANGED rsp
    BY <1>18 DEF TermBump, linkVars, netVars
  <2>2. ASSUME NEW x \in Safekeepers PROVE term[x] <= term'[x]
    <3>1. term[x] \in Nat /\ (term'[x] = term[x] \/ term'[x] = term[x] + 1)
      BY <1>1, <2>1
    <3> QED BY <3>1
  <2> QED BY <2>1, <2>2, VotesSafekeeperStep
<1> QED
  BY <1>8, <1>9, <1>10, <1>11, <1>12, <1>13, <1>14, <1>15, <1>16, <1>17, <1>18,
     HandleVoteRequestVotes DEF SafekeeperStep

(* A step of a proposer that does not count a vote.                        *)
LEMMA VotesProposerStep ==
    ASSUME TypeInv, VotesInv, TypeInv', UNCHANGED <<term, grantedTo>>,
           \A p \in Proposers : wpState[p] # "COLLECTING_TERMS" =>
              wpState'[p] # "COLLECTING_TERMS" /\ propTerm'[p] = propTerm[p],
           \A p \in Proposers, s \in Safekeepers :
              /\ vote'[p][s] = vote[p][s] \/ vote'[p][s] = None \/ s \in grantedTo[p]
              /\ rsp'[p][s] = rsp[p][s] \/ rsp'[p][s] = None,
           \A p \in Proposers : propHist'[p] = propHist[p] \/ HasQuorum(grantedTo[p])
    PROVE  VotesInv'
<1>1. ASSUME NEW s \in Safekeepers PROVE term[s] <= term'[s]
  <2>1. term[s] \in Nat
    BY ConstantsType DEF TypeInv, TypeOK, SkTypeOK
  <2> QED BY <2>1
<1>2. ASSUME NEW p \in Proposers, NEW s \in Safekeepers
      PROVE  /\ vote'[p][s] # None => s \in grantedTo[p]
             /\ rsp'[p][s] # None =>
                  (rsp'[p][s].type = "vote" /\ rsp'[p][s].given => s \in grantedTo[p])
  <2>1. ElectionOK(p, s)
    BY DEF VotesInv
  <2>2. /\ vote'[p][s] = vote[p][s] \/ vote'[p][s] = None \/ s \in grantedTo[p]
        /\ rsp'[p][s] = rsp[p][s] \/ rsp'[p][s] = None
    OBVIOUS
  <2> QED BY <2>1, <2>2 DEF ElectionOK
<1>3. \A p \in Proposers : propHist'[p] # <<>> => HasQuorum(grantedTo[p])
  BY DEF VotesInv
<1> QED BY <1>1, <1>2, <1>3, VotesStable

(* The end of a proposer takes no vote back.                               *)
LEMMA FatalVotes ==
    ASSUME TypeInv, VotesInv, TypeInv', NEW p \in Proposers, Fatal(p),
           UNCHANGED <<skVars, peerInfo, auxVars>>
    PROVE  VotesInv'
<1> DEFINE L == {p} \X Safekeepers
<1>1. ShutdownConnection(L) /\ UNCHANGED peerInfo
  BY DEF Fatal
<1> HIDE DEF L
<1>2. \A r \in Proposers, s \in Safekeepers : rsp'[r][s] = rsp[r][s] \/ rsp'[r][s] = None
  BY <1>1, ShutdownType
<1>3. \A r \in Proposers, s \in Safekeepers : vote'[r][s] = vote[r][s] \/ vote'[r][s] = None
  BY DEF Fatal, TypeInv, TypeOK, LinkTypeOK
<1>4. \A r \in Proposers : wpState[r] # "COLLECTING_TERMS" =>
         wpState'[r] # "COLLECTING_TERMS" /\ propTerm'[r] = propTerm[r]
  BY DEF Fatal, TypeInv, TypeOK, WpTypeOK
<1>5. UNCHANGED <<term, grantedTo>> /\ UNCHANGED propHist
  BY DEF Fatal, skVars, auxVars
<1> QED BY <1>2, <1>3, <1>4, <1>5, VotesProposerStep

(* A vote that counts was given: a refused vote ends the campaign.         *)
LEMMA CountedVotes ==
    ASSUME TypeInv, VotesInv, NEW p \in Proposers, NEW s \in Safekeepers,
           VoteArrives(p, s), ~VoteFatal(p, s), wpState[p] = "CAMPAIGN"
    PROVE  Voters(p, s) \subseteq grantedTo[p]
<1>1. s \in grantedTo[p]
  BY DEF VotesInv, ElectionOK, VoteArrives, VoteFatal
<1>2. ASSUME NEW r \in Voters(p, s), r # s PROVE r \in grantedTo[p]
  <2>1. r \in Safekeepers /\ vote[p][r] # None
    BY <1>2, VoteOfType
  <2> QED BY <2>1 DEF VotesInv, ElectionOK
<1> QED BY <1>1, <1>2

(* Steps of proposers.                                                     *)
LEMMA ProposerStepVotes ==
    ASSUME TypeInv, VotesInv, TypeInv', NEW p \in Proposers, ProposerStep(p)
    PROVE  VotesInv'
<1>0. WpTypeOK /\ LinkTypeOK /\ NetTypeOK
  BY DEF TypeInv, TypeOK
<1>1. ASSUME NEW s \in Safekeepers,
             \/ GreetRejected(p, s) \/ RecvVoteRefused(p, s) \/ RecvAckFatal(p, s) \/ Die(p)
      PROVE  VotesInv'
  <2>1. Fatal(p) /\ UNCHANGED <<skVars, peerInfo, auxVars>>
    BY <1>1 DEF GreetRejected, RecvVoteRefused, RecvAckFatal, Die
  <2> QED BY <2>1, FatalVotes
<1>2. ASSUME NEW s \in Safekeepers, GreetCollecting(p, s) \/ GreetStartsCampaign(p, s)
      PROVE  VotesInv'
  <2>1. /\ UNCHANGED <<term, grantedTo, vote, rsp, propHist>>
        /\ wpState[p] = "COLLECTING_TERMS"
    BY <1>2 DEF GreetCollecting, GreetStartsCampaign, skVars, netVars, auxVars
  <2>2. \A r \in Proposers : r # p => wpState'[r] = wpState[r] /\ propTerm'[r] = propTerm[r]
    BY <1>0, <1>2 DEF GreetCollecting, GreetStartsCampaign, WpTypeOK
  <2>3. \A r \in Proposers : wpState[r] # "COLLECTING_TERMS" =>
           wpState'[r] # "COLLECTING_TERMS" /\ propTerm'[r] = propTerm[r]
    BY <2>1, <2>2
  <2> QED BY <2>1, <2>3, VotesProposerStep
<1>3. ASSUME NEW s \in Safekeepers, GreetLate(p, s) \/ SendAppendRequest(p, s)
      PROVE  VotesInv'
  <2>1. UNCHANGED <<term, grantedTo, vote, rsp, propHist, wpState, propTerm>>
    BY <1>3 DEF GreetLate, SendAppendRequest, skVars, wpVars, auxVars
  <2> QED BY <2>1, VotesProposerStep
<1>4. ASSUME NEW s \in Safekeepers, RecvVoteCounted(p, s) PROVE VotesInv'
  <2>1. /\ VoteArrives(p, s) /\ ~VoteFatal(p, s) /\ wpState[p] = "CAMPAIGN"
        /\ vote' = [vote EXCEPT ![p][s] = rsp[p][s]]
        /\ rsp' = [rsp EXCEPT ![p][s] = None]
        /\ UNCHANGED <<term, grantedTo, propHist, wpState, propTerm>>
    BY <1>4 DEF RecvVoteCounted, skVars, auxVars
  <2>2. s \in grantedTo[p]
    BY <2>1, CountedVotes, VoteOfType
  <2>3. \A r \in Proposers, x \in Safekeepers :
          /\ vote'[r][x] = vote[r][x] \/ (r = p /\ x = s)
          /\ rsp'[r][x] = rsp[r][x] \/ rsp'[r][x] = None
    BY <1>0, <2>1 DEF LinkTypeOK, NetTypeOK
  <2> QED BY <2>1, <2>2, <2>3, VotesProposerStep
<1>5. ASSUME NEW s \in Safekeepers, RecvVoteElects(p, s) PROVE VotesInv'
  <2>1. PICK d \in DonorChoices(p, s) :
         IF d \in Voters(p, s) \/ vote[p][d].hist = <<>>
         THEN /\ BecomeElected(p, s, d)
              /\ vote' = [vote EXCEPT ![p] = [r \in Safekeepers |-> None]]
              /\ rsp' = [rsp EXCEPT ![p][s] = None]
              /\ UNCHANGED <<propTerm, nConnected, propCommit, ack, dirty>>
         ELSE Fatal(p)
    BY <1>5 DEF RecvVoteElects
  <2>2. /\ VoteArrives(p, s) /\ ~VoteFatal(p, s) /\ wpState[p] = "CAMPAIGN"
        /\ HasQuorum(Voters(p, s))
        /\ UNCHANGED <<skVars, peerInfo, auxVars>>
    BY <1>5 DEF RecvVoteElects
  <2>3. CASE Fatal(p)
    BY <2>2, <2>3, FatalVotes
  <2>4. CASE /\ BecomeElected(p, s, d)
             /\ vote' = [vote EXCEPT ![p] = [r \in Safekeepers |-> None]]
             /\ rsp' = [rsp EXCEPT ![p][s] = None]
             /\ UNCHANGED <<propTerm, nConnected, propCommit, ack, dirty>>
    <3>1. Voters(p, s) \subseteq grantedTo[p] /\ Voters(p, s) \in SUBSET Safekeepers
      BY <2>2, CountedVotes, VoteOfType
    <3>2. HasQuorum(grantedTo[p])
      BY <2>2, <3>1, QuorumGrows DEF TypeInv, TypeOK, AuxTypeOK
    <3>3. \A r \in Proposers : propHist'[r] = propHist[r] \/ r = p
      BY <1>0, <2>4 DEF BecomeElected, WpTypeOK
    <3>4. \A r \in Proposers, x \in Safekeepers :
            /\ vote'[r][x] = vote[r][x] \/ vote'[r][x] = None
            /\ rsp'[r][x] = rsp[r][x] \/ rsp'[r][x] = None
      BY <1>0, <2>4 DEF LinkTypeOK, NetTypeOK
    <3>5. \A r \in Proposers : wpState[r] # "COLLECTING_TERMS" =>
             wpState'[r] # "COLLECTING_TERMS"
      BY <1>0, <2>4 DEF BecomeElected, WpTypeOK
    <3>6. UNCHANGED <<term, grantedTo>> /\ UNCHANGED propTerm
      BY <2>2, <2>4 DEF skVars, auxVars
    <3> QED BY <3>2, <3>3, <3>4, <3>5, <3>6, VotesProposerStep
  <2> QED BY <2>1, <2>3, <2>4
<1>6. ASSUME NEW s \in Safekeepers, RecvVoteLate(p, s) \/ RecvAppendResponse(p, s)
      PROVE  VotesInv'
  <2>1. /\ rsp' = [rsp EXCEPT ![p][s] = None]
        /\ UNCHANGED <<term, grantedTo, propHist, wpState, propTerm, vote>>
    BY <1>6 DEF RecvVoteLate, RecvAppendResponse, skVars, wpVars, auxVars
  <2>2. \A r \in Proposers, x \in Safekeepers : rsp'[r][x] = rsp[r][x] \/ rsp'[r][x] = None
    BY <1>0, <2>1 DEF NetTypeOK
  <2> QED BY <2>1, <2>2, VotesProposerStep
<1>7. ASSUME NEW s \in Safekeepers, Disconnect(p, s) PROVE VotesInv'
  <2> DEFINE L == {<<p, s>>}
  <2>1. /\ ShutdownConnection(L) /\ UNCHANGED peerInfo
        /\ UNCHANGED <<term, grantedTo, propHist, wpState, propTerm, vote>>
    BY <1>7 DEF Disconnect, skVars, wpVars
  <2> HIDE DEF L
  <2>2. \A r \in Proposers, x \in Safekeepers : rsp'[r][x] = rsp[r][x] \/ rsp'[r][x] = None
    BY <2>1, ShutdownType
  <2> QED BY <2>1, <2>2, VotesProposerStep
<1>8. ASSUME WriteWal(p) PROVE VotesInv'
  <2>1. UNCHANGED <<term, grantedTo, vote, rsp, propHist, wpState, propTerm>>
    BY <1>8 DEF WriteWal, skVars, linkVars, netVars, auxVars
  <2> QED BY <2>1, VotesProposerStep
<1>9. PICK s \in Safekeepers : TRUE
  BY ConstantsAssumption
<1> QED
  BY <1>1, <1>2, <1>3, <1>4, <1>5, <1>6, <1>7, <1>8, <1>9 DEF ProposerStep

(* Nobody has voted yet.                                                   *)
LEMMA InitVotes == Init => VotesInv
BY DEF Init, VotesInv, ElectionOK

(* Every step preserves both invariants.                                   *)
LEMMA NextVotes ==
    ASSUME TypeInv, VotesInv, [Next]_vars
    PROVE  TypeInv' /\ VotesInv'
<1>1. TypeInv'
  BY NextType
<1>2. ASSUME UNCHANGED vars PROVE VotesInv'
  <2>1. UNCHANGED <<term, grantedTo, vote, rsp, propHist, wpState, propTerm>>
    BY <1>2 DEF vars, skVars, wpVars, linkVars, netVars, auxVars
  <2> QED BY <1>1, <2>1, VotesProposerStep
<1> QED
  BY <1>1, <1>2, SafekeeperStepVotes, ProposerStepVotes DEF Next

(* The votes of two winners of one term would meet in one safekeeper.      *)
LEMMA VotesElectOne ==
    ASSUME TypeInv, VotesInv
    PROVE  OneLeaderPerTerm
<1> SUFFICES ASSUME NEW p1 \in Proposers, NEW p2 \in Proposers,
                    propHist[p1] # <<>>, propHist[p2] # <<>>,
                    propTerm[p1] = propTerm[p2], p1 # p2
             PROVE  FALSE
  BY DEF OneLeaderPerTerm
<1>1. HasQuorum(grantedTo[p1]) /\ HasQuorum(grantedTo[p2])
  BY DEF VotesInv
<1>2. grantedTo[p1] \in SUBSET Safekeepers /\ grantedTo[p2] \in SUBSET Safekeepers
  BY DEF TypeInv, TypeOK, AuxTypeOK
<1>3. grantedTo[p1] \cap grantedTo[p2] # {}
  BY <1>1, <1>2, QuorumsIntersect
<1>4. PICK s \in Safekeepers : s \in grantedTo[p1] /\ s \in grantedTo[p2]
  BY <1>2, <1>3
<1>5. ElectionOK(p1, s)
  BY DEF VotesInv
<1> QED BY <1>4, <1>5 DEF ElectionOK

(* Election safety: at most one walproposer wins a term, for any number of *)
(* safekeepers and of proposers racing for it, although votes are lost     *)
(* with their connections, asked for again and answered late, safekeepers  *)
(* restart, and terms are bumped by hand (handle_vote_request,             *)
(* VotesCollected).                                                        *)
THEOREM ElectionSafety == Spec => []OneLeaderPerTerm
<1>1. Init => TypeInv /\ VotesInv
  BY InitType, InitVotes
<1>2. TypeInv /\ VotesInv /\ [Next]_vars => (TypeInv /\ VotesInv)'
  BY NextVotes
<1>3. TypeInv /\ VotesInv => OneLeaderPerTerm
  BY VotesElectOne
<1> QED BY <1>1, <1>2, <1>3, PTL DEF Spec

=============================================================================
