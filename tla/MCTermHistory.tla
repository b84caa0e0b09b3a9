---------------------------- MODULE MCTermHistory ----------------------------
(***************************************************************************)
(* The divergence search of TermHistory against its reference definition,  *)
(* over every pair of term histories that a proposer and a safekeeper can  *)
(* have within the bounds: the common part, then different terms.  Every   *)
(* pair is an initial state; the safekeeper's WAL ends where it begins and *)
(* each step makes it one record longer, as appends do, so the history it  *)
(* was given may go beyond its WAL.                                        *)
(***************************************************************************)
EXTENDS TermHistory, FiniteSets

CONSTANTS
    MaxHistTerm,   \* bound: terms
    MaxHistLsn     \* bound: LSNs

ASSUME HistBounds == MaxHistTerm \in Nat /\ MaxHistLsn \in Nat \ {0}

VARIABLES pth, propTerm, sth, skEnd

thVars == <<pth, propTerm, sth, skEnd>>

(* A history: each term once, in order, at LSNs that never go back (a term *)
(* that wrote nothing begins where the next one does).                     *)
Histories ==
    {th \in UNION {[1..n -> [term : 1..MaxHistTerm, lsn : 1..MaxHistLsn]] : n \in 0..3} :
        \A i \in 2..Len(th) : th[i - 1].term < th[i].term /\ th[i - 1].lsn <= th[i].lsn}

(* A term has one leader and so one history: two histories that have a     *)
(* term in common agree up to it.                                          *)
Consistent(a, b) ==
    \A i \in 1..Len(a), j \in 1..Len(b) :
        a[i].term = b[j].term => i = j /\ SubSeq(a, 1, i) = SubSeq(b, 1, i)

ThInit ==
    /\ pth \in {th \in Histories : th # <<>>}
    /\ propTerm = HighestTerm(pth)
    /\ sth \in {th \in Histories : Consistent(pth, th)
                                  /\ (th # <<>> => HighestTerm(th) <= propTerm)}
    /\ skEnd = IF sth = <<>> THEN 0 ELSE sth[1].lsn

ThNext ==
    /\ sth # <<>>
    /\ skEnd < MaxHistLsn
    /\ skEnd' = skEnd + 1
    /\ UNCHANGED <<pth, propTerm, sth>>

-----------------------------------------------------------------------------
(* The WAL that a history describes: position l holds a record of the      *)
(* term that wrote it.                                                     *)
Described(th, end) == [l \in th[1].lsn..(end - 1) |-> TermAt(th, l)]

(* find_highest_common_point returns the end of the longest common prefix  *)
(* of the safekeeper's WAL and of any WAL the proposer can have, and None  *)
(* exactly if there is nothing in common: one more record would differ or  *)
(* is not there, one less would send WAL again.                            *)
CommonPointIsLongestCommonPrefix ==
    LET th == UpTo(sth, skEnd)
        point == FindHighestCommonPoint(pth, th, skEnd)
        propEnd == IF pth = th THEN skEnd ELSE MaxHistLsn
        same(l) == /\ l < skEnd /\ l < propEnd
                   /\ Described(pth, propEnd)[l] = Described(sth, skEnd)[l]
    IN  IF sth = <<>> \/ pth[1].term # sth[1].term
        THEN point = 0
        ELSE /\ point \in pth[1].lsn..skEnd
             /\ \A l \in pth[1].lsn..(point - 1) : same(l)
             /\ ~same(point)

(* The C code of the proposer (SendProposerElected) computes the position  *)
(* that the Rust code of the safekeeper (handle_elected) computes again    *)
(* and insists on; if they differed, replication would never start.        *)
BothSearchesAgree ==
    LET th == UpTo(sth, skEnd)
        point == FindHighestCommonPoint(pth, th, skEnd)
    IN  StartStreamingAt(pth, propTerm, th, skEnd) = IF point = 0 THEN pth[1].lsn ELSE point

=============================================================================
