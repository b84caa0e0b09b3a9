---------------------------- MODULE MCLateElected ----------------------------
(***************************************************************************)
(* One course of events with five safekeepers, in which a ProposerElected  *)
(* is handled late.  The constraint only says who reaches whom and what    *)
(* waits for what; it takes away steps and adds none.                      *)
(***************************************************************************)
EXTENDS WalConsensus, TLC

CONSTANTS p1, p2, p3, s1, s2, s3, s4, s5

(* Whom a proposer connects to, one after the other.                       *)
Route == (p1 :> <<s1, s2, s3>>) @@ (p2 :> <<s3, s4, s5, s1>>) @@ (p3 :> <<s2, s3, s4, s5>>)

AllOfRoute == [p \in Proposers |-> Len(Route[p])]

Up(p, s) == skState[p][s] # "OFFLINE"

Voted(p, s) == skState[p][s] \in {"WAIT_ELECTED", "ACTIVE"}

InTurn ==
    \A p \in Proposers, s \in Safekeepers :
        /\ Up(p, s) => \E i \in DOMAIN Route[p] : Route[p][i] = s
        /\ \A i, j \in DOMAIN Route[p] : i < j =>
             /\ Up(p, Route[p][j]) => Up(p, Route[p][i])
             /\ Voted(p, Route[p][j]) => Voted(p, Route[p][i])

(* p1 writes two records; one reaches s1, both reach s2, none is committed. *)
FirstCompute ==
    /\ Len(wal[s1]) <= 1 /\ Len(hist[s3]) # 2
    /\ ack[p1][s2] # 0 => ack[p1][s1] = 2

(* p2 is elected by three empty safekeepers and then by s1, and stalls: its *)
(* ProposerElected messages are not handled yet.                           *)
SecondCompute ==
    /\ Up(p2, s3) => wpState[p1] = "DEAD" /\ flushLsn[s1] = 2 /\ flushLsn[s2] = 3
    /\ wpState[p2] # "DEAD" /\ propWal[p2] = <<>>
    /\ propHist[p2] # <<>> => \A s \in Safekeepers : hist[s] # propHist[p2]

(* p3 is elected with the WAL of s2, commits it, and then streams to s5.   *)
ThirdCompute ==
    /\ Up(p3, s2) => skState[p2][s1] = "ACTIVE"
    /\ wpState[p3] # "DEAD"
    /\ ack[p3][s3] # 0 => ack[p3][s2] = 3
    /\ ack[p3][s4] # 0 => ack[p3][s3] = 3
    /\ Up(p3, s5) => propCommit[p3] = 3

(* s5 has one record when it hears of the commit, and says so.             *)
Announced == peerInfo # None => peerInfo.lastLogTerm = 1 /\ peerInfo.commit = 2

Scenario == InTurn /\ FirstCompute /\ SecondCompute /\ ThirdCompute /\ Announced

=============================================================================
