--------------------------- MODULE MCWalConsensus ---------------------------
(* Bounds and symmetry for model checking WalConsensus. *)
EXTENDS WalConsensus

CONSTANT FirstRun   \* a proposer

ASSUME FirstRunAssumption == FirstRun \in Proposers

(* How many connections each proposer keeps at a time. *)
TwoEach == [p \in Proposers |-> 2]
ThreeEach == [p \in Proposers |-> 3]
TwoThenThree == [p \in Proposers |-> IF p = FirstRun THEN 2 ELSE 3]

SafekeeperSymmetry == Permutations(Safekeepers)

(* Only where FirstRun is like the other proposers. *)
FullSymmetry == Permutations(Safekeepers) \cup Permutations(Proposers)

=============================================================================
