----------------------------- MODULE MCController ----------------------------
(* Model checking of three parts of the storage controller.  They share no *)
(* state: a behaviour is one of the part it starts with.                   *)
EXTENDS ShardReconciler, ComputeHook, Leadership

VARIABLE part

vars == <<part, srVars, chVars, ldVars>>

SplitInTwo == <<1, 2>>

(* Nodes and addresses are interchangeable: it does not matter which of    *)
(* them the shard and the leader start on.                                 *)
FromOnePlace ==
  /\ shard.att = CHOOSE n \in Nodes : TRUE
  /\ process[CHOOSE a \in Addresses : TRUE].status = "Leader"
  /\ part # "shard" => shard.policy = CHOOSE p \in Policies : TRUE

Init ==
  /\ part \in {"shard", "hook", "leader"}
  /\ SrInit /\ ChInit /\ LdInit
  /\ FromOnePlace

Shard(A)  == part = "shard" /\ A /\ UNCHANGED <<part, chVars, ldVars>>
Hook(A)   == part = "hook" /\ A /\ UNCHANGED <<part, srVars, ldVars>>
Leader(A) == part = "leader" /\ A /\ UNCHANGED <<part, srVars, chVars>>

Next == Shard(SrNext) \/ Hook(ChNext) \/ Leader(LdNext)

(* A reconciler and the processing of results do not stop, every shard is  *)
(* looked at periodically, heartbeats go on and a pageserver that restarts *)
(* asks to re-attach until it is answered.  Nothing is fair that fails.    *)
Fairness ==
  /\ WF_vars(Shard(Certain(ReconcilerStep)))
  /\ WF_vars(Shard(ProcessResult))
  /\ WF_vars(Shard(Certain(ReconcileAll)))
  /\ \A n \in Nodes : WF_vars(Shard(Certain(NodeStep(n))))

Spec == Init /\ [][Next]_vars /\ Fairness
=============================================================================
