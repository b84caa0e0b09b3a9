---------------------------- MODULE MCComponents -----------------------------
(* Model checking of components whose properties are invariants.  They     *)
(* share no state: a behaviour is one of the component it starts with.     *)
EXTENDS MCTermHistory, SafekeeperOps, SeqWait, SpscFold, OnceCell, SimpleRcu,
        PrefetchRing, PageCaches

CONSTANT Parts          \* the components that are checked

VARIABLE part

vars == <<part, thVars, soVars, swVars, spVars, ocVars, rcVars, prVars, pcVars>>

(* Only the part that is checked starts with every pair of histories.      *)
Init ==
  /\ part \in Parts
  /\ ThInit /\ SoInit /\ SwInit /\ SpInit /\ OcInit /\ RcInit /\ PrInit /\ PcInit
  /\ part # "history" => sth = <<>> /\ pth = <<[term |-> 1, lsn |-> 1]>>

History(A) ==
  part = "history" /\ A /\ UNCHANGED <<part, soVars, swVars, spVars, ocVars, rcVars, prVars, pcVars>>
Ops(A) ==
  part = "ops" /\ A /\ UNCHANGED <<part, thVars, swVars, spVars, ocVars, rcVars, prVars, pcVars>>
Waits(A) ==
  part = "seqwait" /\ A /\ UNCHANGED <<part, thVars, soVars, spVars, ocVars, rcVars, prVars, pcVars>>
Spsc(A) ==
  part = "spsc" /\ A /\ UNCHANGED <<part, thVars, soVars, swVars, ocVars, rcVars, prVars, pcVars>>
Once(A) ==
  part = "once" /\ A /\ UNCHANGED <<part, thVars, soVars, swVars, spVars, rcVars, prVars, pcVars>>
Rcu(A) ==
  part = "rcu" /\ A /\ UNCHANGED <<part, thVars, soVars, swVars, spVars, ocVars, prVars, pcVars>>
Ring(A) ==
  part = "ring" /\ A /\ UNCHANGED <<part, thVars, soVars, swVars, spVars, ocVars, rcVars, pcVars>>
Pages(A) ==
  part = "pages" /\ A /\ UNCHANGED <<part, thVars, soVars, swVars, spVars, ocVars, rcVars, prVars>>

Next ==
  \/ History(ThNext) \/ Ops(SoNext) \/ Waits(SwNext) \/ Spsc(SpNext)
  \/ Once(OcNext) \/ Rcu(RcNext) \/ Ring(PrNext) \/ Pages(PcNext)

Spec == Init /\ [][Next]_vars
=============================================================================
