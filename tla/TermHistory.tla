----------------------------- MODULE TermHistory -----------------------------
(***************************************************************************)
(* Term histories: the sequence of <term, LSN at which the term begins>    *)
(* pairs that safekeepers and the walproposer use to describe which term   *)
(* wrote which part of the WAL.  Pure operators, translated from           *)
(* safekeeper.rs (TermHistory, AcceptorState) and from the second copy of  *)
(* the divergence search in walproposer.c (SendProposerElected).           *)
(*                                                                         *)
(* An LSN is a natural number, 0 is Lsn::INVALID.  Position l of the WAL   *)
(* holds one record, which occupies [l, l+1): a WAL whose records are the  *)
(* sequence w ends at LSN Len(w) + 1.                                      *)
(***************************************************************************)
EXTENDS Naturals, Sequences, SequencesExt

Higher(a, b) == IF a >= b THEN a ELSE b

Lower(a, b) == IF a <= b THEN a ELSE b

(* The records of WAL w below LSN lsn.                                     *)
Below(w, lsn) == SubSeq(w, 1, Lower(lsn - 1, Len(w)))

(* One entry of a term history. *)
TermLsn(t, l) == [term |-> t, lsn |-> l]

(* Mutant of UpTo: the history is not cut at the end of the WAL.           *)
UpToWhole(th, lsn) == th

(* TermHistory::up_to: the leading entries that begin no later than lsn.   *)
UpTo(th, lsn) ==
    LET n == CHOOSE n \in 0..Len(th) :
                /\ \A i \in 1..n : th[i].lsn <= lsn
                /\ n < Len(th) => th[n + 1].lsn > lsn
    IN  SubSeq(th, 1, n)

(* The term of the last entry, 0 when there is none (GetHighestTerm).      *)
HighestTerm(th) == IF th = <<>> THEN 0 ELSE th[Len(th)].term

(* AcceptorState::get_last_log_term: the history often goes beyond the WAL *)
(* that was received so far, so it is cut at the end of the WAL first.     *)
LastLogTerm(th, flush) == HighestTerm(UpTo(th, flush))

(* Index of the last entry up to which both histories have the same terms, *)
(* 0 when the first terms already differ.                                  *)
LastCommonIdx(pth, sth) ==
    CHOOSE n \in 0..Lower(Len(pth), Len(sth)) :
        /\ \A i \in 1..n : pth[i].term = sth[i].term
        /\ n < Lower(Len(pth), Len(sth)) => pth[n + 1].term # sth[n + 1].term

(* Mutant of FindHighestCommonPoint: the next term of the safekeeper is    *)
(* not considered.                                                         *)
FindCommonPointOfProposer(pth, sth, skWalEnd) ==
    LET idx == LastCommonIdx(pth, sth)
    IN  IF idx = 0 THEN 0
        ELSE IF idx = Len(pth) THEN skWalEnd
        ELSE Lower(pth[idx + 1].lsn, skWalEnd)

(* TermHistory::find_highest_common_point, the LSN of its result; 0 stands *)
(* for None.                                                               *)
FindHighestCommonPoint(pth, sth, skWalEnd) ==
    LET idx == LastCommonIdx(pth, sth)
        skTermEnd == IF idx < Len(sth) THEN sth[idx + 1].lsn ELSE skWalEnd
    IN  IF idx = 0 THEN 0
        ELSE IF idx = Len(pth) THEN skWalEnd
        ELSE Lower(pth[idx + 1].lsn, skTermEnd)

(* Mutant of StartStreamingAt: the next term of the proposer is not        *)
(* considered.                                                             *)
StartStreamingAtSafekeeperEnd(propTermHistory, propTerm, th, flush) ==
    LET idx == LastCommonIdx(propTermHistory, th)
    IN  IF idx = 0 THEN propTermHistory[1].lsn
        ELSE IF idx < Len(th) THEN th[idx + 1].lsn ELSE flush

(* The walproposer's own search, in C: where to start streaming to a       *)
(* safekeeper that reported history th and flushLsn in its vote.           *)
StartStreamingAt(propTermHistory, propTerm, th, flush) ==
    LET idx == LastCommonIdx(propTermHistory, th)
        skEnd == IF idx < Len(th) THEN th[idx + 1].lsn ELSE flush
    IN  IF idx = 0 THEN propTermHistory[1].lsn
        ELSE IF propTermHistory[idx].term = propTerm THEN flush
        ELSE Lower(propTermHistory[idx + 1].lsn, skEnd)

(* Both searches assert that a term begins everywhere at the same LSN.     *)
SameTermSameLsn(pth, sth) ==
    \A i \in 1..LastCommonIdx(pth, sth) : pth[i].lsn = sth[i].lsn

(* The term that wrote the record at LSN lsn, according to history th.     *)
TermAt(th, lsn) == HighestTerm(UpTo(th, lsn))

=============================================================================
