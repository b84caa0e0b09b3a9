----------------------------- MODULE MCWalBackup -----------------------------
(* Model checking of the two halves of WAL backup.  They do not share      *)
(* state: a behaviour is one of the part it starts with.                   *)
EXTENDS PartialBackup, WalOffload

VARIABLE part

vars == <<part, pbVars, woVars>>

(* The last safekeeper joined after the first segment was complete.        *)
LateJoiner == [s \in WoSks |-> IF \A r \in WoSks : r <= s THEN 2 ELSE 1]

Init == part \in {"partial", "offload"} /\ PbInit /\ WoInit

Partial(A) == part = "partial" /\ A /\ UNCHANGED <<part, woVars>>
Offload(A) == part = "offload" /\ A /\ UNCHANGED <<part, pbVars>>

Next == Partial(PbNext) \/ Offload(WoNext)

(* Tasks are not stopped for ever: some step one of them can take is taken.*)
Fairness == WF_vars(Partial(PbProgress)) /\ WF_vars(Offload(WoProgress))

Spec == Init /\ [][Next]_vars /\ Fairness

=============================================================================
