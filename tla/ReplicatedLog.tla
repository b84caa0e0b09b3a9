---------------------------- MODULE ReplicatedLog ----------------------------
(***************************************************************************)
(* What the WAL service of Neon promises to its users, whatever proposers  *)
(* and safekeepers do to keep it: there is one log.  What was reported as  *)
(* committed is in it for good, and everyone who reads committed WAL from  *)
(* a safekeeper (pageservers, replicas, the next compute) sees a prefix of *)
(* it, which only a failure of that safekeeper can shorten.                *)
(***************************************************************************)
EXTENDS Naturals, Sequences, SequencesExt

CONSTANT Readers   \* the safekeepers committed WAL can be read from

VARIABLES
    log,       \* the WAL committed so far
    visible,   \* visible[r]: the committed WAL that r serves
    failures   \* failures so far

vars == <<log, visible, failures>>

Init ==
    /\ log = <<>>
    /\ visible = [r \in Readers |-> <<>>]
    /\ failures = 0

(* More WAL is committed; none of the committed WAL changes.               *)
Commit ==
    /\ log # log'
    /\ IsPrefix(log, log')
    /\ UNCHANGED <<visible, failures>>

(* A reader serves more of what is committed.                              *)
Advance(r) ==
    /\ \E n \in Len(visible[r])..Len(log) :
          visible' = [visible EXCEPT ![r] = SubSeq(log, 1, n)]
    /\ IsPrefix(visible[r], visible'[r])
    /\ UNCHANGED <<log, failures>>

(* Something fails; one reader may have to fall back.                      *)
Fail ==
    /\ failures' = failures + 1
    /\ \/ UNCHANGED visible
       \/ \E r \in Readers : \E n \in 0..Len(visible[r]) :
             visible' = [visible EXCEPT ![r] = SubSeq(@, 1, n)]
    /\ UNCHANGED log

Next == Commit \/ Fail \/ \E r \in Readers : Advance(r)

Spec == Init /\ [][Next]_vars

=============================================================================
