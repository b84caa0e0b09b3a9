-------------------------- MODULE ComponentProofs ----------------------------
(***************************************************************************)
(* Proofs about the concurrency primitives of libs/utils, for any number   *)
(* of tasks and without the bounds that model checking needs, about the    *)
(* page caches of a compute, and about term histories.                     *)
(***************************************************************************)
EXTENDS SeqWait, SpscFold, OnceCell, SimpleRcu, PageCaches, MCTermHistory,
        TermHistoryProofs, FiniteSetTheorems, SequenceTheorems, TLAPS

-----------------------------------------------------------------------------
(* SeqWait.                                                                *)

Channels == [who : Waiters, call : Nat, num : Nat]

SwTypeOK ==
  /\ current \in Nat /\ heap \subseteq Channels /\ shutdown \in BOOLEAN
  /\ wait \in [Waiters -> [st : {"idle", "waiting", "ok", "shutdown", "timeout"},
                           num : Nat, call : Nat]]
  /\ wake \in [Advancers -> SUBSET Channels] /\ dropping \subseteq Channels

(* Where the channel of a waiter can be, and what the places say of it:    *)
(* the heap holds numbers that have not arrived and is empty after         *)
(* shutdown; an advancer has taken only numbers that have arrived.         *)
SwInv ==
  /\ \A w \in Waiters :
       /\ wait[w].st = "waiting" =>
            Channel(w) \in heap \/ Channel(w) \in dropping
              \/ \E a \in Advancers : Channel(w) \in wake[a]
       /\ wait[w].st = "ok" => wait[w].num <= current
  /\ \A c \in heap : current < c.num /\ ~shutdown
  /\ \A a \in Advancers : \A c \in wake[a] : c.num <= current
  /\ ~shutdown => dropping = {}

(* The steps of SeqWait keep the types.                                    *)
LEMMA SwTypes == SwTypeOK /\ [SwNext]_swVars => SwTypeOK'
<1> SUFFICES ASSUME SwTypeOK, [SwNext]_swVars PROVE SwTypeOK'
  OBVIOUS
<1> USE DEF SwTypeOK, Channels
<1>1. ASSUME NEW w \in Waiters, Timeout(w) PROVE SwTypeOK'
  BY <1>1 DEF Timeout
<1>2. ASSUME NEW w \in Waiters, NEW n \in 1..MaxNum, QueueForWait(w, n) PROVE SwTypeOK'
  BY <1>2, SeqWaitAssumption DEF QueueForWait
<1>3. ASSUME NEW a \in Advancers, Send(a) PROVE SwTypeOK'
  BY <1>3 DEF Send, Receives
<1>4. ASSUME NEW a \in Advancers, NEW n \in 1..MaxNum, Advance(a, n) PROVE SwTypeOK'
  BY <1>4, SeqWaitAssumption DEF Advance, PopLeq
<1>5. CASE Shutdown
  BY <1>5 DEF Shutdown
<1>6. CASE DropWaiter
  BY <1>6 DEF DropWaiter, Receives
<1>7. CASE UNCHANGED swVars
  BY <1>7 DEF swVars
<1> QED
  BY <1>1, <1>2, <1>3, <1>4, <1>5, <1>6, <1>7 DEF SwNext

(* Giving a channel its answer concerns its own waiter only.               *)
LEMMA ReceivesOne ==
  ASSUME SwTypeOK, NEW c \in Channels, NEW st \in {"ok", "shutdown"}, Receives(c, st),
         NEW w \in Waiters
  PROVE  /\ wait'[w].num = wait[w].num /\ wait'[w].call = wait[w].call
         /\ wait'[w].st = "waiting" => wait[w].st = "waiting" /\ Channel(w) # c
         /\ wait'[w].st = "ok" => wait[w].st = "ok" \/ (st = "ok" /\ wait[w].num = c.num)
<1> USE DEF SwTypeOK, Channels
<1>1. CASE wait[c.who].st = "waiting" /\ Channel(c.who) = c
  BY <1>1 DEF Receives, Channel
<1>2. CASE ~(wait[c.who].st = "waiting" /\ Channel(c.who) = c)
  BY <1>2 DEF Receives, Channel
<1> QED
  BY <1>1, <1>2

(* The steps of SeqWait keep the invariant.                                *)
LEMMA SwSteps == SwTypeOK /\ SwInv /\ [SwNext]_swVars => SwInv'
<1> SUFFICES ASSUME SwTypeOK, SwInv, [SwNext]_swVars PROVE SwInv'
  OBVIOUS
<1> USE DEF SwInv, SwTypeOK, Channels
<1>1. ASSUME NEW w \in Waiters, Timeout(w) PROVE SwInv'
  BY <1>1 DEF Timeout, Channel
<1>2. ASSUME NEW w \in Waiters, NEW n \in 1..MaxNum, QueueForWait(w, n) PROVE SwInv'
  <2>1. \A v \in Waiters \ {w} : wait'[v] = wait[v]
    BY <1>2 DEF QueueForWait
  <2>2. CASE current >= n \/ shutdown
    <3>1. /\ heap' = heap /\ UNCHANGED <<current, shutdown, wake, dropping>>
          /\ wait'[w].st # "waiting" /\ wait'[w].num = n
          /\ wait'[w].st = "ok" => current >= n
      BY <1>2, <2>2 DEF QueueForWait
    <3> QED
      BY <2>1, <3>1, SeqWaitAssumption DEF Channel
  <2>3. CASE ~(current >= n \/ shutdown)
    <3>1. /\ wait'[w] = [st |-> "waiting", num |-> n, call |-> wait[w].call + 1]
          /\ heap' = heap \union {[who |-> w, call |-> wait[w].call + 1, num |-> n]}
          /\ UNCHANGED <<current, shutdown, wake, dropping>>
      BY <1>2, <2>3 DEF QueueForWait
    <3> QED
      BY <2>1, <2>3, <3>1, SeqWaitAssumption DEF Channel
  <2> QED
    BY <2>2, <2>3
<1>3. ASSUME NEW a \in Advancers, Send(a) PROVE SwInv'
  <2>1. PICK c \in wake[a] : Receives(c, "ok") /\ wake' = [wake EXCEPT ![a] = @ \ {c}]
                               /\ UNCHANGED <<current, heap, shutdown, dropping>>
    BY <1>3 DEF Send
  <2>2. c \in Channels /\ c.num <= current
    BY <2>1
  <2>3. ASSUME NEW w \in Waiters
        PROVE  /\ wait'[w].num = wait[w].num /\ wait'[w].call = wait[w].call
               /\ wait'[w].st = "waiting" => wait[w].st = "waiting" /\ Channel(w) # c
               /\ wait'[w].st = "ok" => wait[w].st = "ok" \/ wait[w].num = c.num
    BY <2>1, <2>2, ReceivesOne
  <2> QED
    BY <2>1, <2>2, <2>3 DEF Channel
<1>4. ASSUME NEW a \in Advancers, NEW n \in 1..MaxNum, Advance(a, n) PROVE SwInv'
  BY <1>4, SeqWaitAssumption DEF Advance, PopLeq, Channel
<1>5. CASE Shutdown
  BY <1>5 DEF Shutdown, Channel
<1>6. CASE DropWaiter
  <2>1. PICK c \in dropping : Receives(c, "shutdown") /\ dropping' = dropping \ {c}
                                /\ UNCHANGED <<current, heap, shutdown, wake>>
    BY <1>6 DEF DropWaiter
  <2>2. ASSUME NEW w \in Waiters
        PROVE  /\ wait'[w].num = wait[w].num /\ wait'[w].call = wait[w].call
               /\ wait'[w].st = "waiting" => wait[w].st = "waiting" /\ Channel(w) # c
               /\ wait'[w].st = "ok" => wait[w].st = "ok"
    BY <2>1, ReceivesOne
  <2> QED
    BY <2>1, <2>2 DEF Channel
<1>7. CASE UNCHANGED swVars
  BY <1>7 DEF swVars, Channel
<1> QED
  BY <1>1, <1>2, <1>3, <1>4, <1>5, <1>6, <1>7 DEF SwNext

(* No wake-up of seqwait.rs is lost and none comes early, however many     *)
(* tasks wait, advance, time out and shut down.                            *)
THEOREM NoLostWakeup == SwSpec => []NobodySleepsOn
<1>1. SwInit => SwTypeOK /\ SwInv
  <2> SUFFICES ASSUME SwInit PROVE SwTypeOK /\ SwInv
    OBVIOUS
  <2>1. SwTypeOK
    BY DEF SwInit, SwTypeOK, Channels
  <2>2. SwInv
    BY DEF SwInit, SwInv
  <2> QED
    BY <2>1, <2>2
<1>2. SwTypeOK /\ SwInv => NobodySleepsOn
  BY DEF SwTypeOK, SwInv, NobodySleepsOn, Channel, Channels
<1> QED
  BY <1>1, <1>2, SwTypes, SwSteps, PTL DEF SwSpec

-----------------------------------------------------------------------------
(* SpscFold.                                                               *)

ChanStates == {"NoData", "HasData", "SenderWaits", "SenderGone", "ReceiverGone", "AllGone"}
TaskStates == {"idle", "polling", "parked", "gone"}

SpTypeOK ==
  /\ chan \in [st : ChanStates, data : Seq(Nat)]
  /\ sender \in TaskStates /\ receiver \in TaskStates /\ wakers \subseteq {"sender", "receiver"}
  /\ sent \in Nat /\ accepted \in Seq(Nat) /\ received \in Seq(Nat)

(* A parked task has its waker registered; the state of the channel says   *)
(* who is gone and whether there is data.                                  *)
SpInv ==
  /\ receiver = "parked" => chan.st = "NoData" /\ "receiver" \in wakers
  /\ sender = "parked" => chan.st = "SenderWaits" /\ "sender" \in wakers
  /\ chan.st \in {"HasData", "SenderWaits"} => chan.data # <<>>
  /\ chan.st \in {"NoData", "ReceiverGone", "AllGone"} => chan.data = <<>>
  /\ sender = "gone" <=> chan.st \in {"SenderGone", "AllGone"}
  /\ receiver = "gone" <=> chan.st \in {"ReceiverGone", "AllGone"}

(* What the receiver got and what is in the channel was accepted, in order.*)
InOrder == receiver # "gone" => received \o chan.data = accepted

(* Folding a value in is accepting it at the end.                          *)
LEMMA FoldIsAppend ==
  ASSUME NEW s \in Seq(Nat), NEW t \in Seq(Nat), NEW x \in Nat
  PROVE  s \o Append(t, x) = Append(s \o t, x)
<1>1. /\ s \o Append(t, x) \in Seq(Nat) /\ Append(s \o t, x) \in Seq(Nat)
      /\ Len(s \o Append(t, x)) = Len(s) + Len(t) + 1
      /\ Len(Append(s \o t, x)) = Len(s) + Len(t) + 1
  OBVIOUS
<1>2. \A i \in 1..(Len(s) + Len(t) + 1) : (s \o Append(t, x))[i] = Append(s \o t, x)[i]
  OBVIOUS
<1> QED
  BY <1>1, <1>2, SeqEqual

(* The steps of the channel keep the types.                                *)
LEMMA SpTypes == SpTypeOK /\ [SpNext]_spVars => SpTypeOK'
<1> SUFFICES ASSUME SpTypeOK, [SpNext]_spVars PROVE SpTypeOK'
  OBVIOUS
<1> USE DEF SpTypeOK, ChanStates, TaskStates, State, Woken, Accept
<1>1. CASE BeginSend
  BY <1>1 DEF BeginSend
<1>2. CASE SendEmpty
  BY <1>2 DEF SendEmpty
<1>3. CASE SendFold
  <2>0. chan.data \in Seq(Nat) /\ sent \in Nat
    OBVIOUS
  <2>1. Append(chan.data, sent) \in Seq(Nat) /\ Append(accepted, sent) \in Seq(Nat)
    BY <2>0
  <2>2. chan' = [st |-> "HasData", data |-> Append(chan.data, sent)]
    BY <1>3 DEF SendFold
  <2> QED
    BY <1>3, <2>1, <2>2 DEF SendFold
<1>4. CASE SendWaits
  BY <1>4 DEF SendWaits
<1>5. CASE SendRefused
  BY <1>5 DEF SendRefused
<1>6. CASE CancelSend
  BY <1>6 DEF CancelSend
<1>7. CASE DropSender
  BY <1>7 DEF DropSender
<1>8. CASE BeginRecv
  BY <1>8 DEF BeginRecv
<1>9. CASE RecvWaits
  BY <1>9 DEF RecvWaits
<1>10. CASE RecvData
  BY <1>10 DEF RecvData, TakeData
<1>11. CASE RecvEnd
  BY <1>11 DEF RecvEnd
<1>12. CASE CancelRecv
  BY <1>12 DEF CancelRecv
<1>13. CASE DropReceiver
  BY <1>13 DEF DropReceiver
<1>14. CASE UNCHANGED spVars
  BY <1>14 DEF spVars
<1> QED
  BY <1>1, <1>2, <1>3, <1>4, <1>5, <1>6, <1>7, <1>8, <1>9, <1>10, <1>11, <1>12, <1>13, <1>14
     DEF SpNext

(* The steps of the channel keep wakers registered for who is parked.      *)
LEMMA SpSteps == SpTypeOK /\ SpInv /\ [SpNext]_spVars => SpInv'
<1> SUFFICES ASSUME SpTypeOK, SpInv, [SpNext]_spVars PROVE SpInv'
  OBVIOUS
<1> USE DEF SpTypeOK, SpInv, ChanStates, TaskStates, State, Woken
<1>1. CASE BeginSend
  BY <1>1 DEF BeginSend
<1>2. CASE SendEmpty
  BY <1>2 DEF SendEmpty
<1>3. CASE SendFold
  <2>1. Append(chan.data, sent) \in Seq(Nat) /\ Append(chan.data, sent) # <<>>
    OBVIOUS
  <2>2. chan' = [st |-> "HasData", data |-> Append(chan.data, sent)]
    BY <1>3 DEF SendFold
  <2> QED
    BY <1>3, <2>1, <2>2 DEF SendFold
<1>4. CASE SendWaits
  BY <1>4 DEF SendWaits
<1>5. CASE SendRefused
  BY <1>5 DEF SendRefused
<1>6. CASE CancelSend
  BY <1>6 DEF CancelSend
<1>7. CASE DropSender
  BY <1>7 DEF DropSender
<1>8. CASE BeginRecv
  BY <1>8 DEF BeginRecv
<1>9. CASE RecvWaits
  BY <1>9 DEF RecvWaits
<1>10. CASE RecvData
  BY <1>10 DEF RecvData, TakeData
<1>11. CASE RecvEnd
  BY <1>11 DEF RecvEnd
<1>12. CASE CancelRecv
  BY <1>12 DEF CancelRecv
<1>13. CASE DropReceiver
  BY <1>13 DEF DropReceiver
<1>14. CASE UNCHANGED spVars
  BY <1>14 DEF spVars
<1> QED
  BY <1>1, <1>2, <1>3, <1>4, <1>5, <1>6, <1>7, <1>8, <1>9, <1>10, <1>11, <1>12, <1>13, <1>14
     DEF SpNext

(* No value is lost, repeated or overtaken.                                *)
LEMMA SpOrder == SpTypeOK /\ SpInv /\ InOrder /\ [SpNext]_spVars => InOrder'
<1> SUFFICES ASSUME SpTypeOK, SpInv, InOrder, [SpNext]_spVars PROVE InOrder'
  OBVIOUS
<1> USE DEF SpTypeOK, InOrder
<1>1. CASE SendEmpty
  <2>1. /\ chan.data = <<>> /\ chan'.data = Append(<<>>, sent) /\ received' = received
        /\ accepted' = Append(accepted, sent) /\ receiver # "gone"
    BY <1>1 DEF SendEmpty, SpInv, State, Accept
  <2> QED
    BY <2>1, FoldIsAppend
<1>2. CASE SendFold
  <2>1. /\ chan'.data = Append(chan.data, sent) /\ received' = received
        /\ accepted' = Append(accepted, sent) /\ receiver # "gone"
    BY <1>2 DEF SendFold, SpInv, Accept
  <2>2. received \o Append(chan.data, sent) = Append(received \o chan.data, sent)
    BY FoldIsAppend
  <2> QED
    BY <2>1, <2>2
<1>3. CASE SendWaits
  BY <1>3 DEF SendWaits
<1>4. CASE DropSender
  BY <1>4 DEF DropSender, State, SpInv, Woken
<1>5. CASE RecvData
  <2>1. /\ chan'.data = <<>> /\ received' = received \o chan.data
        /\ accepted' = accepted /\ receiver # "gone"
    BY <1>5 DEF RecvData, TakeData, State
  <2> QED
    BY <2>1
<1>6. CASE DropReceiver
  BY <1>6 DEF DropReceiver
<1>7. CASE BeginSend \/ SendRefused \/ CancelSend \/ BeginRecv \/ RecvWaits \/ RecvEnd
             \/ CancelRecv \/ UNCHANGED spVars
  <2>1. UNCHANGED <<chan, received, accepted>> /\ (receiver' # "gone" => receiver # "gone")
    BY <1>7 DEF BeginSend, SendRefused, CancelSend, BeginRecv, RecvWaits, RecvEnd, CancelRecv,
                spVars
  <2> QED
    BY <2>1
<1> QED
  BY <1>1, <1>2, <1>3, <1>4, <1>5, <1>6, <1>7 DEF SpNext

(* Neither side of spsc_fold.rs sleeps while it could go on, and the       *)
(* receiver gets what was accepted, in order.                              *)
THEOREM FoldedInOrder == SpSpec => []ParkedOnlyIfNeeded
<1>1. SpInit => SpTypeOK /\ SpInv /\ InOrder
  BY DEF SpInit, SpTypeOK, SpInv, InOrder, State, ChanStates, TaskStates
<1>2. SpTypeOK /\ SpInv /\ InOrder => ParkedOnlyIfNeeded
  BY DEF SpInv, InOrder, ParkedOnlyIfNeeded
<1> QED
  BY <1>1, <1>2, SpTypes, SpSteps, SpOrder, PTL DEF SpSpec

-----------------------------------------------------------------------------
(* OnceCell.                                                               *)

OcTypeOK ==
  /\ value \in BOOLEAN /\ sem \in Sems /\ closed \subseteq Sems /\ permits \in [Sems -> Int]
  /\ task \in [OcTasks -> [pc : {"idle", "queued", "initializing", "guard"}, sem : Sems]]

(* Earlier semaphores are closed, later ones untouched.  The cell's own is *)
(* closed exactly if there is a value, and otherwise lacks its permit      *)
(* exactly while somebody holds it.  There is one guard at a time.         *)
OcInv ==
  /\ \A t \in OcTasks :
       /\ task[t].sem <= sem
       /\ task[t].pc = "guard" => value
       /\ task[t].pc = "initializing" => task[t].sem = sem /\ ~value /\ permits[sem] = 0
  /\ \A t, u \in OcTasks :
       task[t].pc = task[u].pc /\ task[t].pc \in {"guard", "initializing"} => t = u
  /\ permits[sem] = 1 \/ (permits[sem] = 0 /\ \E t \in OcTasks : task[t].pc = "initializing")
  /\ \A s \in Sems : /\ s < sem => s \in closed
                     /\ s > sem => s \notin closed /\ permits[s] = 1
  /\ sem \in closed <=> value

(* The steps of the cell keep the types.                                   *)
LEMMA OcTypes == OcTypeOK /\ [OcNext]_ocVars => OcTypeOK'
<1> SUFFICES ASSUME OcTypeOK, [OcNext]_ocVars PROVE OcTypeOK'
  OBVIOUS
<1> USE OnceCellAssumption DEF OcTypeOK, At, Goes, Sems
<1>1. ASSUME NEW t \in OcTasks, GetOrInit(t) PROVE OcTypeOK'
  BY <1>1 DEF GetOrInit
<1>2. ASSUME NEW t \in OcTasks, Acquire(t) PROVE OcTypeOK'
  BY <1>2 DEF Acquire
<1>3. ASSUME NEW t \in OcTasks, AcquireClosed(t) PROVE OcTypeOK'
  BY <1>3 DEF AcquireClosed
<1>4. ASSUME NEW t \in OcTasks, CancelQueued(t) PROVE OcTypeOK'
  BY <1>4 DEF CancelQueued
<1>5. ASSUME NEW t \in OcTasks, InitFails(t) PROVE OcTypeOK'
  BY <1>5 DEF InitFails
<1>6. ASSUME NEW t \in OcTasks, Set0(t) PROVE OcTypeOK'
  BY <1>6 DEF Set0
<1>7. ASSUME NEW t \in OcTasks, TakeAndDeinit(t) PROVE OcTypeOK'
  <2>1. sem + 1 \in Sems /\ permits[sem + 1] - 1 \in Int
    BY <1>7 DEF TakeAndDeinit
  <2> QED
    BY <1>7, <2>1 DEF TakeAndDeinit
<1>8. ASSUME NEW t \in OcTasks, DropGuard(t) PROVE OcTypeOK'
  BY <1>8 DEF DropGuard
<1>9. CASE UNCHANGED ocVars
  BY <1>9 DEF ocVars
<1> QED
  BY <1>1, <1>2, <1>3, <1>4, <1>5, <1>6, <1>7, <1>8, <1>9 DEF OcNext

(* The steps of the cell keep the invariant.                               *)
LEMMA OcSteps == OcTypeOK /\ OcInv /\ [OcNext]_ocVars => OcInv'
<1> SUFFICES ASSUME OcTypeOK, OcInv, [OcNext]_ocVars PROVE OcInv'
  OBVIOUS
<1> USE OnceCellAssumption DEF OcTypeOK, OcInv, At, Goes, Sems
<1>1. ASSUME NEW t \in OcTasks, Free, GetOrInit(t) PROVE OcInv'
  BY <1>1 DEF GetOrInit, Free
<1>2. ASSUME NEW t \in OcTasks, Acquire(t) PROVE OcInv'
  <2>1. task[t].sem = sem /\ permits[sem] = 1 /\ ~value
    BY <1>2 DEF Acquire
  <2> QED
    BY <1>2, <2>1 DEF Acquire
<1>3. ASSUME NEW t \in OcTasks, Free, AcquireClosed(t) PROVE OcInv'
  BY <1>3 DEF AcquireClosed, Free, Initialized
<1>4. ASSUME NEW t \in OcTasks, CancelQueued(t) PROVE OcInv'
  BY <1>4 DEF CancelQueued
<1>5. ASSUME NEW t \in OcTasks, InitFails(t) PROVE OcInv'
  <2>1. task[t].sem = sem /\ permits[sem] = 0 /\ ~value
    BY <1>5 DEF InitFails
  <2> QED
    BY <1>5, <2>1 DEF InitFails
<1>6. ASSUME NEW t \in OcTasks, Free, Set0(t) PROVE OcInv'
  <2>1. task[t].sem = sem /\ permits[sem] = 0 /\ ~value
    BY <1>6 DEF Set0
  <2> QED
    BY <1>6, <2>1 DEF Set0, Free
<1>7. ASSUME NEW t \in OcTasks, TakeAndDeinit(t) PROVE OcInv'
  <2>1. value /\ sem \in closed /\ \A u \in OcTasks : task[u].pc # "initializing"
    BY <1>7 DEF TakeAndDeinit
  <2>2. permits[sem + 1] = 1 /\ sem + 1 \notin closed
    BY <1>7 DEF TakeAndDeinit
  <2> QED
    BY <1>7, <2>1, <2>2 DEF TakeAndDeinit
<1>8. ASSUME NEW t \in OcTasks, DropGuard(t) PROVE OcInv'
  BY <1>8 DEF DropGuard
<1>9. CASE UNCHANGED ocVars
  BY <1>9 DEF ocVars
<1> QED
  BY <1>1, <1>2, <1>3, <1>4, <1>5, <1>6, <1>7, <1>8, <1>9 DEF OcNext

(* The assertions of heavier_once_cell.rs hold and nobody queues in vain,  *)
(* however many tasks initialize, empty and cancel.                        *)
THEOREM OneInitializes == OcSpec => []OneInitializer
<1>1. OcInit => OcTypeOK /\ OcInv
  <2> SUFFICES ASSUME OcInit PROVE OcTypeOK /\ OcInv
    OBVIOUS
  <2> USE DEF OcInit, At
  <2>1. OcTypeOK
    <3>1. 0 \in Sems
      BY OnceCellAssumption DEF Sems
    <3>2. value \in BOOLEAN /\ closed \subseteq Sems
      BY Zenon
    <3>3. permits \in [Sems -> Int] /\ sem \in Sems
      BY <3>1
    <3>4. task \in [OcTasks -> [pc : {"idle", "queued", "initializing", "guard"}, sem : Sems]]
      BY <3>1
    <3> QED
      BY <3>2, <3>3, <3>4 DEF OcTypeOK
  <2>2. OcInv
    BY OnceCellAssumption DEF OcInv, Sems
  <2> QED
    BY <2>1, <2>2
<1>2. OcTypeOK /\ OcInv => OneInitializer
  <2> SUFFICES ASSUME OcTypeOK, OcInv PROVE OneInitializer
    OBVIOUS
  <2>1. ASSUME NEW s \in Sems, Holders(s) # {}
        PROVE  s = sem /\ ~value /\ Cardinality(Holders(s)) = 1 /\ permits[s] = 0
    <3>1. PICK t \in OcTasks : task[t].pc = "initializing" /\ task[t].sem = s
      BY <2>1 DEF Holders
    <3>2. Holders(s) = {t} /\ s = sem /\ ~value /\ permits[s] = 0
      BY <3>1 DEF Holders, OcInv
    <3> QED
      BY <3>2, FS_Singleton
  <2>2. ASSUME NEW t \in OcTasks, task[t].pc = "queued"
        PROVE task[t].sem \in closed \/ permits[task[t].sem] > 0 \/ Holders(task[t].sem) # {}
    BY <2>2, OnceCellAssumption DEF OcTypeOK, OcInv, Holders, Sems
  <2> QED
    BY <2>1, <2>2 DEF OneInitializer, OcInv
<1> QED
  BY <1>1, <1>2, OcTypes, OcSteps, PTL DEF OcSpec

-----------------------------------------------------------------------------
(* SimpleRcu.                                                              *)

RcTypeOK ==
  /\ rcuCell \in Nat /\ oldCells \subseteq Nat
  /\ guard \in [Readers -> Nat]
  /\ waiting \in [Writers -> SUBSET Nat] /\ rcuStored \in [Writers -> Nat]

(* A cell somebody reads is the current one or among the old ones, and is  *)
(* still to be waited for by whoever has stored a later one.               *)
RcInv ==
  \A r \in Readers : guard[r] # 0 =>
    /\ guard[r] = rcuCell \/ (guard[r] < rcuCell /\ guard[r] \in oldCells)
    /\ \A w \in Writers : guard[r] < rcuStored[w] => guard[r] \in waiting[w]

StoredInv == \A w \in Writers : rcuStored[w] <= rcuCell

(* The steps of Rcu keep the types.                                        *)
LEMMA RcTypes == RcTypeOK /\ StoredInv /\ [RcNext]_rcVars => RcTypeOK' /\ StoredInv'
<1> SUFFICES ASSUME RcTypeOK, StoredInv, [RcNext]_rcVars PROVE RcTypeOK' /\ StoredInv'
  OBVIOUS
<1> USE DEF RcTypeOK, StoredInv
<1>1. ASSUME NEW r \in Readers, Read(r) PROVE RcTypeOK' /\ StoredInv'
  BY <1>1 DEF Read
<1>2. ASSUME NEW r \in Readers, DropReadGuard(r) PROVE RcTypeOK' /\ StoredInv'
  BY <1>2 DEF DropReadGuard
<1>3. ASSUME NEW w \in Writers, StoreAndUnlock(w) PROVE RcTypeOK' /\ StoredInv'
  <2>1. Retained \subseteq Nat
    BY DEF Retained
  <2>2. RcTypeOK'
    BY <1>3, <2>1 DEF StoreAndUnlock
  <2>3. StoredInv'
    BY <1>3 DEF StoreAndUnlock
  <2> QED
    BY <2>2, <2>3
<1>4. ASSUME NEW w \in Writers, Closed(w) PROVE RcTypeOK' /\ StoredInv'
  BY <1>4 DEF Closed
<1>5. ASSUME NEW w \in Writers, WaitOver(w) PROVE RcTypeOK' /\ StoredInv'
  BY <1>5 DEF WaitOver
<1>6. CASE UNCHANGED rcVars
  BY <1>6 DEF rcVars
<1> QED
  BY <1>1, <1>2, <1>3, <1>4, <1>5, <1>6 DEF RcNext

(* The steps of Rcu keep the invariant.                                    *)
LEMMA RcSteps == RcTypeOK /\ StoredInv /\ RcInv /\ [RcNext]_rcVars => RcInv'
<1> SUFFICES ASSUME RcTypeOK, StoredInv, RcInv, [RcNext]_rcVars PROVE RcInv'
  OBVIOUS
<1> USE DEF RcTypeOK, RcInv
<1>1. ASSUME NEW r \in Readers, Read(r) PROVE RcInv'
  BY <1>1 DEF Read, StoredInv
<1>2. ASSUME NEW r \in Readers, DropReadGuard(r) PROVE RcInv'
  BY <1>2 DEF DropReadGuard
<1>3. ASSUME NEW w \in Writers, StoreAndUnlock(w) PROVE RcInv'
  <2>1. \A r \in Readers : guard[r] # 0 => guard[r] \in Retained /\ guard[r] < rcuCell + 1
    BY DEF Retained, Held
  <2> QED
    BY <1>3, <2>1 DEF StoreAndUnlock
<1>4. ASSUME NEW w \in Writers, Closed(w) PROVE RcInv'
  BY <1>4 DEF Closed, Held
<1>5. ASSUME NEW w \in Writers, WaitOver(w) PROVE RcInv'
  BY <1>5 DEF WaitOver
<1>6. CASE UNCHANGED rcVars
  BY <1>6 DEF rcVars
<1> QED
  BY <1>1, <1>2, <1>3, <1>4, <1>5, <1>6 DEF RcNext

(* When the wait of simple_rcu.rs returns, nobody sees an older value,     *)
(* however many writers store and wait at the same time.                   *)
THEOREM OldValuesAreGone == RcSpec => []NoOldReaders
<1>1. RcInit => RcTypeOK /\ StoredInv /\ RcInv
  BY DEF RcInit, RcTypeOK, StoredInv, RcInv
<1>2. RcTypeOK /\ RcInv => NoOldReaders
  BY DEF RcTypeOK, RcInv, NoOldReaders
<1> QED
  BY <1>1, <1>2, RcTypes, RcSteps, PTL DEF RcSpec

-----------------------------------------------------------------------------
(* The term history (MCTermHistory): the lemmas of TermHistoryProofs for   *)
(* the histories that a proposer and a safekeeper can have.                *)

ThSpec == ThInit /\ [][ThNext]_thVars

ThInv ==
  /\ pth \in Histories /\ pth # <<>> /\ propTerm = HighestTerm(pth)
  /\ sth \in Histories /\ Consistent(pth, sth)
  /\ skEnd \in 0..MaxHistLsn
  /\ sth # <<>> => HighestTerm(sth) <= propTerm /\ sth[1].lsn <= skEnd

(* They are histories in the sense of the lemmas.                          *)
LEMMA HistoriesAreOrdered ==
  ASSUME NEW th \in Histories
  PROVE  Ordered(th) /\ \A i \in 1..Len(th) : th[i].lsn \in 1..MaxHistLsn
<1> DEFINE E == [term : 1..MaxHistTerm, lsn : 1..MaxHistLsn]
<1>1. PICK n \in 0..3 : th \in [1..n -> E]
  BY DEF Histories
<1>2. \A e \in E : e \in Entries /\ e.lsn \in 1..MaxHistLsn
  BY HistBounds DEF Entries
<1> HIDE DEF E
<1>3. th \in [1..n -> Entries] /\ n \in Nat
  BY <1>1, <1>2
<1>4. th \in Seq(Entries) /\ Len(th) = n
  BY <1>3
<1>5. \A i \in 1..Len(th) : th[i].lsn \in 1..MaxHistLsn
  BY <1>1, <1>2, <1>4
<1>6. \A i \in 2..Len(th) : th[i - 1].term < th[i].term /\ th[i - 1].lsn <= th[i].lsn
  BY DEF Histories
<1> QED BY <1>4, <1>5, <1>6 DEF Ordered

(* Consistent histories have one history per term.                         *)
LEMMA ConsistentEntries ==
  ASSUME NEW a, Ordered(a), NEW b, Ordered(b), Consistent(a, b)
  PROVE  OneHistoryPerTerm(a, b)
<1> SUFFICES ASSUME NEW i \in 1..Len(a), NEW j \in 1..Len(b), a[i].term = b[j].term
             PROVE  i = j /\ \A k \in 1..i : a[k] = b[k]
  BY DEF OneHistoryPerTerm
<1>1. i = j /\ SubSeq(a, 1, i) = SubSeq(b, 1, i)
  BY DEF Consistent
<1>2. \A k \in 1..i : SubSeq(a, 1, i)[k] = a[k] /\ SubSeq(b, 1, i)[k] = b[k]
  BY <1>1 DEF Ordered
<1> QED BY <1>1, <1>2

LEMMA ThInvariant == ThSpec => []ThInv
<1>1. ThInit => ThInv
  <2> SUFFICES ASSUME ThInit PROVE ThInv
    OBVIOUS
  <2>1. CASE sth = <<>>
    BY <2>1, HistBounds DEF ThInit, ThInv
  <2>2. CASE sth # <<>>
    <3>1. sth \in Histories /\ skEnd = sth[1].lsn
      BY <2>2 DEF ThInit
    <3>2. Ordered(sth) /\ \A i \in 1..Len(sth) : sth[i].lsn \in 1..MaxHistLsn
      BY <3>1, HistoriesAreOrdered
    <3>3. 1 \in 1..Len(sth)
      BY <2>2, <3>2 DEF Ordered
    <3>4. skEnd \in 1..MaxHistLsn
      BY <3>1, <3>2, <3>3
    <3> QED BY <2>2, <3>1, <3>4, HistBounds DEF ThInit, ThInv
  <2> QED BY <2>1, <2>2
<1>2. ThInv /\ [ThNext]_thVars => ThInv'
  <2> SUFFICES ASSUME ThInv, [ThNext]_thVars PROVE ThInv'
    OBVIOUS
  <2>1. CASE UNCHANGED thVars
    BY <2>1 DEF ThInv, thVars
  <2>2. CASE ThNext
    <3>1. sth # <<>> /\ skEnd' = skEnd + 1 /\ skEnd < MaxHistLsn /\ UNCHANGED <<pth, propTerm, sth>>
      BY <2>2 DEF ThNext
    <3>2. Ordered(sth) /\ 1 \in 1..Len(sth)
      BY <3>1, HistoriesAreOrdered DEF ThInv, Ordered
    <3>3. sth[1].lsn \in Nat
      BY <3>2, EntryNumbers
    <3> QED BY <3>1, <3>3, HistBounds DEF ThInv
  <2> QED BY <2>1, <2>2
<1> QED BY <1>1, <1>2, PTL DEF ThSpec

(* The C code of the proposer and the Rust code of the safekeeper compute  *)
(* the same position, so that replication can start.                       *)
THEOREM SearchesOfBothSides == ThSpec => []BothSearchesAgree
<1>1. ThInv => BothSearchesAgree
  <2> SUFFICES ASSUME ThInv PROVE BothSearchesAgree
    OBVIOUS
  <2>1. /\ Ordered(pth) /\ pth # <<>> /\ Ordered(sth) /\ skEnd \in Nat /\ propTerm = HighestTerm(pth)
        /\ sth # <<>> => sth[1].lsn <= skEnd
    BY HistoriesAreOrdered, HistBounds DEF ThInv
  <2> QED BY <2>1, SearchesAgree DEF BothSearchesAgree
<1> QED BY <1>1, ThInvariant, PTL

(* find_highest_common_point returns the end of the longest common prefix  *)
(* of the WAL of both sides.                                               *)
THEOREM CommonPointOfHistories == ThSpec => []CommonPointIsLongestCommonPrefix
<1>1. ThInv => CommonPointIsLongestCommonPrefix
  <2> SUFFICES ASSUME ThInv PROVE CommonPointIsLongestCommonPrefix
    OBVIOUS
  <2> DEFINE th == UpTo(sth, skEnd)
             point == FindHighestCommonPoint(pth, th, skEnd)
             propEnd == IF pth = th THEN skEnd ELSE MaxHistLsn
             same(l) == /\ l < skEnd /\ l < propEnd
                        /\ Described(pth, propEnd)[l] = Described(sth, skEnd)[l]
  <2>1. /\ Ordered(pth) /\ pth # <<>> /\ Ordered(sth) /\ skEnd \in Nat /\ propTerm = HighestTerm(pth)
        /\ sth # <<>> => sth[1].lsn <= skEnd /\ HighestTerm(sth) <= propTerm
        /\ MaxHistLsn \in Nat /\ skEnd <= MaxHistLsn /\ OneHistoryPerTerm(pth, sth)
    BY HistoriesAreOrdered, ConsistentEntries, HistBounds DEF ThInv
  <2>2. CASE sth = <<>> \/ pth[1].term # sth[1].term
    <3>1. /\ th \in Seq(Entries) /\ Len(th) \in 0..Len(sth) /\ Len(sth) \in Nat
          /\ \A i \in 1..Len(th) : th[i] = sth[i]
      BY <2>1, UpToOrdered DEF Ordered
    <3> HIDE DEF th
    <3> DEFINE idx == LastCommonIdx(pth, th)
    <3>2. /\ idx \in 0..Len(pth) /\ idx \in 0..Len(th)
          /\ \A i \in 1..idx : pth[i].term = th[i].term
      BY <2>1, <3>1, LastCommonIdxType DEF Ordered
    <3>4. idx = 0
      <4>1. SUFFICES ASSUME idx # 0 PROVE FALSE
        OBVIOUS
      <4> HIDE DEF idx
      <4>2. 1 \in 1..idx /\ 1 \in 1..Len(th) /\ Len(sth) >= 1
        BY <3>1, <3>2, <4>1
      <4>3. pth[1].term = sth[1].term /\ sth # <<>>
        BY <3>1, <3>2, <4>2
      <4> QED BY <2>2, <4>3
    <3>5. point = 0
      BY <3>4 DEF FindHighestCommonPoint
    <3> QED BY <2>2, <3>5 DEF CommonPointIsLongestCommonPrefix, th
  <2>3. CASE ~(sth = <<>> \/ pth[1].term # sth[1].term)
    <3>1. /\ point \in Nat /\ pth[1].lsn <= point /\ point <= skEnd /\ pth[1].lsn = sth[1].lsn
          /\ \A l \in Nat : pth[1].lsn <= l /\ l < point => TermAt(pth, l) = TermAt(sth, l)
          /\ point < skEnd => TermAt(pth, point) # TermAt(sth, point)
      BY <2>1, <2>3, CommonPointIs
    <3>2. propEnd \in Nat /\ skEnd <= propEnd
      BY <2>1
    <3>3. 1 \in 1..Len(pth)
      BY <2>1 DEF Ordered
    <3>4. pth[1].lsn \in Nat
      BY <2>1, <3>3, EntryNumbers
    <3> HIDE DEF point, propEnd
    <3>5. ASSUME NEW l \in Nat, pth[1].lsn <= l, l < skEnd, l < propEnd
          PROVE  /\ Described(pth, propEnd)[l] = TermAt(pth, l)
                 /\ Described(sth, skEnd)[l] = TermAt(sth, l)
      <4>1. l \in pth[1].lsn..(propEnd - 1) /\ l \in sth[1].lsn..(skEnd - 1)
        BY <2>1, <3>1, <3>2, <3>4, <3>5
      <4> QED BY <4>1 DEF Described
    <3>6. ASSUME NEW l \in pth[1].lsn..(point - 1)
          PROVE  same(l)
      <4>1. l \in Nat /\ pth[1].lsn <= l /\ l < point /\ l < skEnd /\ l < propEnd
        BY <2>1, <3>1, <3>2, <3>4
      <4> QED BY <3>1, <3>5, <4>1
    <3>7. ~same(point)
      BY <3>1, <3>5
    <3>8. point \in pth[1].lsn..skEnd
      BY <2>1, <3>1, <3>4
    <3> QED BY <2>3, <3>6, <3>7, <3>8 DEF CommonPointIsLongestCommonPrefix, point, propEnd
  <2> QED BY <2>2, <2>3
<1> QED BY <1>1, ThInvariant, PTL

-----------------------------------------------------------------------------
(* The page caches of a compute (PageCaches).                              *)

PcSpec == PcInit /\ [][PcNext]_pcVars

(* The last version of the page.                                           *)
Latest == Max(mods)

OpRecords == [pc : {"idle", "lsns", "lsnsx", "lfcr", "lfcrw", "wait", "write", "lfcw", "lfcww",
                    "store", "storex", "storew"},
              for : {"none", "prefetch", "read"}, lsn : Nat, max : Nat, v : Nat, gen : Nat,
              ret : {"idle", "lsns", "wait"}]
SlotRecords == [st : {"UNUSED", "REQUESTED", "ANSWERED", "RECEIVED"}, nms : Nat, v : Nat]
LfcRecords == [on : BOOLEAN, gen : Nat, st : {"UNAVAILABLE", "PENDING", "AVAILABLE"}, v : Nat]
BufRecords == [st : {"in", "out", "reading", "writing"}, v : Nat, dirty : BOOLEAN]

(* The types of the variables.                                             *)
PcTypeOK ==
  /\ walEnd \in Nat \ {0} /\ mods \subseteq Nat /\ lw \in Nat /\ lwMax \in Nat
  /\ buf \in BufRecords /\ lfc \in LfcRecords
  /\ prefetched \in [PcBackends -> SlotRecords]
  /\ op \in [PcBackends -> OpRecords]

(* No LSN is beyond the end of WAL, and the page has a last version.       *)
BoundsInv ==
  /\ 1 \in mods /\ \A m \in mods : 1 <= m /\ m <= walEnd
  /\ Latest \in mods /\ \A m \in mods : m <= Latest
  /\ lw <= walEnd /\ 1 <= lwMax /\ lwMax <= walEnd
  /\ \A b \in PcBackends :
       op[b].lsn <= walEnd /\ op[b].max <= walEnd /\ prefetched[b].nms <= walEnd

(* The page has changed since it was last written out.                     *)
Changed == buf.st = "in" /\ buf.dirty

(* The version below which no request of the page may ask.                 *)
LwLsn == IF lw # 0 THEN lw ELSE lwMax

Storing(b) == op[b].pc \in {"store", "storex", "storew"}
Writing(b) == op[b].pc \in {"write", "lfcw", "lfcww"}

(* The place where b is, or to which it returns from lfc_prefetch.         *)
Place(b) == IF Storing(b) THEN op[b].ret ELSE op[b].pc

(* Who reads the page in, or writes it out, keeps the others from it.      *)
Owns(b) == op[b].for = "read" \/ Writing(b)

OwnersInv ==
  /\ \A b \in PcBackends :
       /\ Owns(b) => buf.st \in {"reading", "writing"}
       /\ op[b].for = "read" => buf.st = "reading"
       /\ Place(b) \in {"idle", "write", "lfcw", "lfcww"} => op[b].for = "none"
       /\ Place(b) \in {"lsns", "lsnsx"} => op[b].for # "none"
       /\ Place(b) \in {"lfcr", "lfcrw", "wait"} => op[b].for = "read"
  /\ \A b, c \in PcBackends : Owns(b) /\ Owns(c) => b = c

(* The LSNs and versions that are known of the page.                       *)
LsnsInv ==
  /\ buf.st \in {"in", "writing"} => buf.v = Latest
  /\ Changed \/ Latest <= LwLsn
  /\ \A b \in PcBackends :
       /\ Place(b) \in {"lfcr", "lfcrw", "wait"} => Latest <= op[b].lsn
       /\ op[b].pc = "lsnsx" /\ op[b].for = "read" => Latest <= lwMax
       /\ Writing(b) => op[b].v = Latest
       /\ op[b].pc = "storex" => Changed \/ Latest <= lw \/ Latest <= op[b].max

(* A response is the last version as of its LSN.                           *)
ResponsesInv ==
  \A b \in PcBackends :
    /\ prefetched[b].st # "UNUSED" => 1 <= prefetched[b].nms
    /\ prefetched[b].st \in {"ANSWERED", "RECEIVED"} =>
         prefetched[b].v \in mods /\ \A m \in mods : m <= prefetched[b].nms => m <= prefetched[b].v
    /\ Storing(b) => prefetched[b].st = "RECEIVED"

(* The block may be old: the page is still to be written over it.          *)
Outdated ==
  \/ Changed
  \/ /\ buf.st = "writing"
     /\ \E b \in PcBackends :
          op[b].pc = "write" \/ (op[b].pc \in {"lfcw", "lfcww"} /\ op[b].gen = lfc.gen)

LfcInv ==
  /\ ~lfc.on => lfc.st = "UNAVAILABLE"
  /\ \A b \in PcBackends :
       /\ op[b].pc \in {"storew", "lfcw", "lfcww"} => op[b].gen <= lfc.gen
       /\ op[b].pc \in {"storew", "lfcw", "lfcww"} /\ op[b].gen = lfc.gen => lfc.on
       /\ op[b].pc = "storex" => lfc.on
       /\ op[b].pc = "storew" /\ op[b].gen = lfc.gen => lfc.st = "PENDING"
       /\ op[b].pc \in {"lfcw", "lfcww"} /\ op[b].gen = lfc.gen => lfc.st # "UNAVAILABLE"
  /\ \A b, c \in PcBackends :
       /\ op[b].pc = "storew" /\ op[b].gen = lfc.gen
       /\ op[c].pc \in {"storew", "lfcw"} /\ op[c].gen = lfc.gen
       => b = c
  /\ ~Outdated =>
       /\ lfc.st = "AVAILABLE" => lfc.v = Latest
       /\ \A b \in PcBackends :
            op[b].pc = "storew" /\ op[b].gen = lfc.gen => prefetched[b].v = Latest

(* The inductive invariant.                                                *)
PcInv == PcTypeOK /\ BoundsInv /\ OwnersInv /\ LsnsInv /\ ResponsesInv /\ LfcInv

(* What Max chooses.                                                       *)
LEMMA MaxIs ==
  ASSUME NEW S, S \subseteq Nat, NEW m \in S, \A n \in S : n <= m
  PROVE  Max(S) = m
  <1>1. \A x \in S : (\A y \in S : x >= y) => x = m
    OBVIOUS
  <1>2. \E x \in S : \A y \in S : x >= y
    OBVIOUS
  <1>. QED BY <1>1, <1>2 DEF Max

(* The maximum of two.                                                     *)
LEMMA MaxOfTwo ==
  ASSUME NEW x \in Nat, NEW y \in Nat
  PROVE  /\ Max({x, y}) \in {x, y}
         /\ Max({x, y}) >= x /\ Max({x, y}) >= y
         /\ Max({x, y}) \in Nat
  <1>1. CASE x >= y
    <2>1. Max({x, y}) = x
      BY <1>1, MaxIs
    <2>. QED BY <1>1, <2>1
  <1>2. CASE ~(x >= y)
    <2>1. Max({x, y}) = y
      BY <1>2, MaxIs
    <2>. QED BY <1>2, <2>1
  <1>. QED BY <1>1, <1>2

(* The invariant holds at the beginning.                                   *)
LEMMA PcInitial == PcInit => PcInv
  <1>. SUFFICES ASSUME PcInit PROVE PcInv
    OBVIOUS
  <1>1. Latest = 1
    BY MaxIs DEF Latest, PcInit
  <1>2. PcTypeOK
    BY DEF PcInit, PcTypeOK, BufRecords, LfcRecords, SlotRecords, OpRecords, NoSlot, AtRest
  <1>3. BoundsInv
    BY <1>1 DEF PcInit, BoundsInv, NoSlot, AtRest
  <1>4. OwnersInv
    BY DEF PcInit, OwnersInv, Owns, Place, Storing, Writing, AtRest
  <1>5. LsnsInv
    BY <1>1 DEF PcInit, LsnsInv, LwLsn, Place, Storing, Writing, AtRest
  <1>6. ResponsesInv
    BY DEF PcInit, ResponsesInv, Storing, AtRest, NoSlot
  <1>7. LfcInv
    BY DEF PcInit, LfcInv, AtRest
  <1>. QED BY <1>2, <1>3, <1>4, <1>5, <1>6, <1>7 DEF PcInv

(* An entry of the LwLSN cache is set to a higher LSN, or stays.           *)
LwRaised ==
  /\ lwMax' = lwMax /\ lw' \in Nat /\ lw <= lw' /\ lw' <= walEnd
  /\ Changed \/ Latest <= LwLsn'

(* A backend goes on to o.                                                 *)
LEMMA OpMoves ==
  ASSUME op \in [PcBackends -> OpRecords], NEW b \in PcBackends, NEW o \in OpRecords, Goto(b, o)
  PROVE  /\ op' \in [PcBackends -> OpRecords]
         /\ op'[b] = o
         /\ \A c \in PcBackends : c # b => op'[c] = op[c]
  BY DEF Goto

(* The slot of a backend becomes p.                                        *)
LEMMA SlotMoves ==
  ASSUME prefetched \in [PcBackends -> SlotRecords], NEW b \in PcBackends,
         NEW p \in SlotRecords, prefetched' = [prefetched EXCEPT ![b] = p]
  PROVE  /\ prefetched' \in [PcBackends -> SlotRecords]
         /\ prefetched'[b] = p
         /\ \A c \in PcBackends : c # b => prefetched'[c] = prefetched[c]
  OBVIOUS

(* The last version changes only with the page.                            *)
LEMMA LatestSame ==
  ASSUME UNCHANGED mods PROVE Latest' = Latest
  BY DEF Latest

(* What is compared are numbers.                                           *)
LEMMA PcNumbers ==
  ASSUME PcTypeOK
  PROVE  /\ walEnd \in Nat /\ lw \in Nat /\ lwMax \in Nat /\ mods \subseteq Nat
         /\ lfc.gen \in Nat
         /\ \A c \in PcBackends : /\ op[c].lsn \in Nat /\ op[c].max \in Nat /\ op[c].gen \in Nat
                                  /\ prefetched[c].nms \in Nat /\ prefetched[c].v \in Nat
                                  /\ op[c].ret \in {"idle", "lsns", "wait"}
  BY DEF PcTypeOK, BufRecords, LfcRecords, SlotRecords, OpRecords

(* A prefetch asks for the page.                                           *)
LEMMA AsksToPrefetch ==
  ASSUME PcInv, NEW b \in PcBackends,
         op[b].pc \in {"lsns", "lsnsx"}, op[b].for = "prefetch", NEW l \in Nat,
         1 <= l /\ l <= walEnd, UNCHANGED <<walEnd, mods>>, LwRaised, UNCHANGED buf,
         UNCHANGED lfc, Goto(b, AtRest),
         prefetched' = [prefetched EXCEPT ![b] = [st |-> "REQUESTED", nms |-> l, v |-> 0]]
  PROVE  PcInv'
  <1>1. PcTypeOK /\ BoundsInv /\ OwnersInv /\ LsnsInv /\ ResponsesInv /\ LfcInv
    BY DEF PcInv
  <1>2. Latest' = Latest
    BY LatestSame
  <1>3. op[b] \in OpRecords /\ AtRest \in OpRecords
    <2>1. op[b] \in OpRecords /\ lfc.gen \in Nat /\ lwMax \in Nat /\ prefetched[b].v \in Nat
      BY <1>1, PcNumbers DEF PcTypeOK
    <2>. QED BY <2>1, <1>1 DEF OpRecords, AtRest
  <1>4. /\ op' \in [PcBackends -> OpRecords]
        /\ op'[b] = AtRest
        /\ \A c \in PcBackends : c # b => op'[c] = op[c]
    BY <1>1, <1>3, OpMoves DEF PcTypeOK
  <1>5. /\ op'[b].pc = "idle" /\ op'[b].for = "none" /\ op'[b].lsn = 0 /\ op'[b].max = 0
        /\ op'[b].v = 0 /\ op'[b].gen = 0 /\ op'[b].ret = "idle"
    BY <1>3, <1>4 DEF OpRecords, AtRest
  <1>6. \A c \in PcBackends : c # b => op'[c] = op[c]
    BY <1>4
  <1>7. /\ prefetched[b] \in SlotRecords
        /\ [st |-> "REQUESTED", nms |-> l, v |-> 0] \in SlotRecords
    BY <1>1 DEF PcTypeOK, BufRecords, LfcRecords, SlotRecords, OpRecords, NoSlot
  <1>8. /\ prefetched' \in [PcBackends -> SlotRecords]
        /\ prefetched'[b] = [st |-> "REQUESTED", nms |-> l, v |-> 0]
        /\ \A c \in PcBackends : c # b => prefetched'[c] = prefetched[c]
    BY <1>1, <1>7, SlotMoves DEF PcTypeOK
  <1>9. prefetched'[b].st = "REQUESTED" /\ prefetched'[b].nms = l /\ prefetched'[b].v = 0
    BY <1>7, <1>8 DEF SlotRecords, NoSlot
  <1>10. \A c \in PcBackends : c # b => prefetched'[c] = prefetched[c]
    BY <1>8
  <1>11. PcTypeOK'
    BY <1>1, <1>4, <1>8
       DEF PcTypeOK, BufRecords, LfcRecords, SlotRecords, OpRecords, LwRaised, SwitchedOff
  <1>. USE <1>11, PcNumbers
  <1>12. BoundsInv'
    BY <1>1, <1>2, <1>5, <1>6, <1>9, <1>10 DEF BoundsInv, OwnersInv, Place, Storing, LwRaised
  <1>13. OwnersInv'
    BY <1>1, <1>2, <1>5, <1>6, <1>9, <1>10 DEF OwnersInv, Owns, Place, Storing, Writing
  <1>14. LsnsInv'
    BY <1>1, <1>2, <1>5, <1>6, <1>9, <1>10, <1>12
       DEF BoundsInv, OwnersInv, Owns, ResponsesInv, LfcInv, Outdated, LsnsInv, Changed,
       LwLsn, Place, Storing, Writing, LwRaised
  <1>15. ResponsesInv'
    BY <1>1, <1>2, <1>5, <1>6, <1>9, <1>10
       DEF BoundsInv, OwnersInv, LsnsInv, Owns, Place, ResponsesInv, Storing, Writing
  <1>16. LfcInv'
    BY <1>1, <1>2, <1>5, <1>6, <1>9, <1>10, <1>12
       DEF BoundsInv, OwnersInv, Owns, Place, Writing, LsnsInv, ResponsesInv, Storing, LfcInv,
       Outdated, Changed
  <1>. QED BY <1>11, <1>12, <1>13, <1>14, <1>15, <1>16 DEF PcInv

(* A response is taken that the file cache has already been offered.       *)
LEMMA TakesStored ==
  ASSUME PcInv, NEW b \in PcBackends,
         op[b].pc \in {"lsns", "lsnsx", "wait"}, op[b].for = "read",
         prefetched[b].st = "RECEIVED", Latest <= prefetched[b].nms,
         buf' = [st |-> "in", v |-> prefetched[b].v, dirty |-> FALSE],
         UNCHANGED <<walEnd, mods>>, LwRaised, UNCHANGED lfc, Goto(b, AtRest),
         prefetched' = [prefetched EXCEPT ![b] = NoSlot]
  PROVE  PcInv'
  <1>1. PcTypeOK /\ BoundsInv /\ OwnersInv /\ LsnsInv /\ ResponsesInv /\ LfcInv
    BY DEF PcInv
  <1>2. Latest' = Latest
    BY LatestSame
  <1>3. op[b] \in OpRecords /\ AtRest \in OpRecords
    <2>1. op[b] \in OpRecords /\ lfc.gen \in Nat /\ lwMax \in Nat /\ prefetched[b].v \in Nat
      BY <1>1, PcNumbers DEF PcTypeOK
    <2>. QED BY <2>1, <1>1 DEF OpRecords, AtRest
  <1>4. /\ op' \in [PcBackends -> OpRecords]
        /\ op'[b] = AtRest
        /\ \A c \in PcBackends : c # b => op'[c] = op[c]
    BY <1>1, <1>3, OpMoves DEF PcTypeOK
  <1>5. /\ op'[b].pc = "idle" /\ op'[b].for = "none" /\ op'[b].lsn = 0 /\ op'[b].max = 0
        /\ op'[b].v = 0 /\ op'[b].gen = 0 /\ op'[b].ret = "idle"
    BY <1>3, <1>4 DEF OpRecords, AtRest
  <1>6. \A c \in PcBackends : c # b => op'[c] = op[c]
    BY <1>4
  <1>7. prefetched[b] \in SlotRecords /\ NoSlot \in SlotRecords
    BY <1>1 DEF PcTypeOK, BufRecords, LfcRecords, SlotRecords, OpRecords, NoSlot
  <1>8. /\ prefetched' \in [PcBackends -> SlotRecords]
        /\ prefetched'[b] = NoSlot
        /\ \A c \in PcBackends : c # b => prefetched'[c] = prefetched[c]
    BY <1>1, <1>7, SlotMoves DEF PcTypeOK
  <1>9. prefetched'[b].st = "UNUSED" /\ prefetched'[b].nms = 0 /\ prefetched'[b].v = 0
    BY <1>7, <1>8 DEF SlotRecords, NoSlot
  <1>10. \A c \in PcBackends : c # b => prefetched'[c] = prefetched[c]
    BY <1>8
  <1>11. buf'.st = "in" /\ buf'.v = prefetched[b].v /\ buf'.dirty = FALSE
    BY <1>1 DEF PcTypeOK, BufRecords
  <1>12. PcTypeOK'
    BY <1>1, <1>4, <1>8
       DEF PcTypeOK, BufRecords, LfcRecords, SlotRecords, OpRecords, LwRaised, SwitchedOff
  <1>. USE <1>12, PcNumbers
  <1>13. BoundsInv'
    BY <1>1, <1>2, <1>5, <1>6, <1>9, <1>10, <1>11
       DEF BoundsInv, OwnersInv, Place, Storing, LwRaised
  <1>14. OwnersInv'
    BY <1>1, <1>2, <1>5, <1>6, <1>9, <1>10, <1>11 DEF OwnersInv, Owns, Place, Storing, Writing
  <1>15. LsnsInv'
    BY <1>1, <1>2, <1>5, <1>6, <1>9, <1>10, <1>11, <1>13
       DEF BoundsInv, OwnersInv, Owns, ResponsesInv, LfcInv, Outdated, LsnsInv, Changed,
       LwLsn, Place, Storing, Writing, LwRaised
  <1>16. ResponsesInv'
    BY <1>1, <1>2, <1>5, <1>6, <1>9, <1>10, <1>11
       DEF BoundsInv, OwnersInv, LsnsInv, Owns, Place, ResponsesInv, Storing, Writing
  <1>17. LfcInv'
    BY <1>1, <1>2, <1>5, <1>6, <1>9, <1>10, <1>11, <1>13
       DEF BoundsInv, OwnersInv, Owns, Place, Writing, LsnsInv, ResponsesInv, Storing, LfcInv,
       Outdated, Changed
  <1>. QED BY <1>12, <1>13, <1>14, <1>15, <1>16, <1>17 DEF PcInv

(* A response is taken that is then put into the file cache.               *)
LEMMA TakesToStore ==
  ASSUME PcInv, NEW b \in PcBackends,
         op[b].pc \in {"lsns", "lsnsx", "wait"}, op[b].for = "read",
         prefetched[b].st = "RECEIVED", Latest <= prefetched[b].nms, UNCHANGED buf,
         UNCHANGED <<walEnd, mods>>, LwRaised, UNCHANGED lfc,
         Goto(b, [AtRest EXCEPT !.pc = "write", !.v = prefetched[b].v]),
         prefetched' = [prefetched EXCEPT ![b] = NoSlot]
  PROVE  PcInv'
  <1>1. PcTypeOK /\ BoundsInv /\ OwnersInv /\ LsnsInv /\ ResponsesInv /\ LfcInv
    BY DEF PcInv
  <1>2. Latest' = Latest
    BY LatestSame
  <1>3. /\ op[b] \in OpRecords
        /\ [AtRest EXCEPT !.pc = "write", !.v = prefetched[b].v] \in OpRecords
    <2>1. op[b] \in OpRecords /\ lfc.gen \in Nat /\ lwMax \in Nat /\ prefetched[b].v \in Nat
      BY <1>1, PcNumbers DEF PcTypeOK
    <2>. QED BY <2>1, <1>1 DEF OpRecords, AtRest
  <1>4. /\ op' \in [PcBackends -> OpRecords]
        /\ op'[b] = [AtRest EXCEPT !.pc = "write", !.v = prefetched[b].v]
        /\ \A c \in PcBackends : c # b => op'[c] = op[c]
    BY <1>1, <1>3, OpMoves DEF PcTypeOK
  <1>5. /\ op'[b].pc = "write" /\ op'[b].for = "none" /\ op'[b].lsn = 0 /\ op'[b].max = 0
        /\ op'[b].v = prefetched[b].v /\ op'[b].gen = 0 /\ op'[b].ret = "idle"
    BY <1>3, <1>4 DEF OpRecords, AtRest
  <1>6. \A c \in PcBackends : c # b => op'[c] = op[c]
    BY <1>4
  <1>7. prefetched[b] \in SlotRecords /\ NoSlot \in SlotRecords
    BY <1>1 DEF PcTypeOK, BufRecords, LfcRecords, SlotRecords, OpRecords, NoSlot
  <1>8. /\ prefetched' \in [PcBackends -> SlotRecords]
        /\ prefetched'[b] = NoSlot
        /\ \A c \in PcBackends : c # b => prefetched'[c] = prefetched[c]
    BY <1>1, <1>7, SlotMoves DEF PcTypeOK
  <1>9. prefetched'[b].st = "UNUSED" /\ prefetched'[b].nms = 0 /\ prefetched'[b].v = 0
    BY <1>7, <1>8 DEF SlotRecords, NoSlot
  <1>10. \A c \in PcBackends : c # b => prefetched'[c] = prefetched[c]
    BY <1>8
  <1>11. PcTypeOK'
    BY <1>1, <1>4, <1>8
       DEF PcTypeOK, BufRecords, LfcRecords, SlotRecords, OpRecords, LwRaised, SwitchedOff
  <1>. USE <1>11, PcNumbers
  <1>12. BoundsInv'
    BY <1>1, <1>2, <1>5, <1>6, <1>9, <1>10 DEF BoundsInv, OwnersInv, Place, Storing, LwRaised
  <1>13. OwnersInv'
    BY <1>1, <1>2, <1>5, <1>6, <1>9, <1>10 DEF OwnersInv, Owns, Place, Storing, Writing
  <1>14. LsnsInv'
    BY <1>1, <1>2, <1>5, <1>6, <1>9, <1>10, <1>12
       DEF BoundsInv, OwnersInv, Owns, ResponsesInv, LfcInv, Outdated, LsnsInv, Changed,
       LwLsn, Place, Storing, Writing, LwRaised
  <1>15. ResponsesInv'
    BY <1>1, <1>2, <1>5, <1>6, <1>9, <1>10
       DEF BoundsInv, OwnersInv, LsnsInv, Owns, Place, ResponsesInv, Storing, Writing
  <1>16. LfcInv'
    BY <1>1, <1>2, <1>5, <1>6, <1>9, <1>10, <1>12
       DEF BoundsInv, OwnersInv, Owns, Place, Writing, LsnsInv, ResponsesInv, Storing, LfcInv,
       Outdated, Changed
  <1>. QED BY <1>11, <1>12, <1>13, <1>14, <1>15, <1>16 DEF PcInv

(* A read that found no response looks into the file cache.                *)
LEMMA GoesToLfc ==
  ASSUME PcInv, NEW b \in PcBackends,
         op[b].pc \in {"lsns", "lsnsx"}, op[b].for = "read", NEW l \in Nat, l <= walEnd,
         Latest <= l, UNCHANGED <<walEnd, mods>>, LwRaised, UNCHANGED buf, UNCHANGED lfc,
         Goto(b, [op[b] EXCEPT !.pc = "lfcr", !.lsn = l]), UNCHANGED prefetched
  PROVE  PcInv'
  <1>1. PcTypeOK /\ BoundsInv /\ OwnersInv /\ LsnsInv /\ ResponsesInv /\ LfcInv
    BY DEF PcInv
  <1>2. Latest' = Latest
    BY LatestSame
  <1>3. op[b] \in OpRecords /\ [op[b] EXCEPT !.pc = "lfcr", !.lsn = l] \in OpRecords
    <2>1. op[b] \in OpRecords /\ lfc.gen \in Nat /\ lwMax \in Nat /\ prefetched[b].v \in Nat
      BY <1>1, PcNumbers DEF PcTypeOK
    <2>. QED BY <2>1, <1>1 DEF OpRecords
  <1>4. /\ op' \in [PcBackends -> OpRecords]
        /\ op'[b] = [op[b] EXCEPT !.pc = "lfcr", !.lsn = l]
        /\ \A c \in PcBackends : c # b => op'[c] = op[c]
    BY <1>1, <1>3, OpMoves DEF PcTypeOK
  <1>5. /\ op'[b].pc = "lfcr" /\ op'[b].for = op[b].for /\ op'[b].lsn = l
        /\ op'[b].max = op[b].max /\ op'[b].v = op[b].v /\ op'[b].gen = op[b].gen
        /\ op'[b].ret = op[b].ret
    BY <1>3, <1>4 DEF OpRecords
  <1>6. \A c \in PcBackends : c # b => op'[c] = op[c]
    BY <1>4
  <1>7. PcTypeOK'
    BY <1>1, <1>4
       DEF PcTypeOK, BufRecords, LfcRecords, SlotRecords, OpRecords, LwRaised, SwitchedOff
  <1>. USE <1>7, PcNumbers
  <1>8. BoundsInv'
    BY <1>1, <1>2, <1>5, <1>6 DEF BoundsInv, OwnersInv, Place, Storing, LwRaised
  <1>9. OwnersInv'
    BY <1>1, <1>2, <1>5, <1>6 DEF OwnersInv, Owns, Place, Storing, Writing
  <1>10. LsnsInv'
    BY <1>1, <1>2, <1>5, <1>6, <1>8
       DEF BoundsInv, OwnersInv, Owns, ResponsesInv, LfcInv, Outdated, LsnsInv, Changed,
       LwLsn, Place, Storing, Writing, LwRaised
  <1>11. ResponsesInv'
    BY <1>1, <1>2, <1>5, <1>6
       DEF BoundsInv, OwnersInv, LsnsInv, Owns, Place, ResponsesInv, Storing, Writing
  <1>12. LfcInv'
    BY <1>1, <1>2, <1>5, <1>6, <1>8
       DEF BoundsInv, OwnersInv, Owns, Place, Writing, LsnsInv, ResponsesInv, Storing, LfcInv,
       Outdated, Changed
  <1>. QED BY <1>7, <1>8, <1>9, <1>10, <1>11, <1>12 DEF PcInv

(* There is no entry under the shared lock.                                *)
LEMMA FindsNoEntry ==
  ASSUME PcInv, NEW b \in PcBackends,
         op[b].pc = "lsns", lw = 0, UNCHANGED <<walEnd, mods>>, UNCHANGED <<lw, lwMax>>,
         UNCHANGED buf, UNCHANGED lfc, Goto(b, [op[b] EXCEPT !.pc = "lsnsx"]),
         UNCHANGED prefetched
  PROVE  PcInv'
  <1>1. PcTypeOK /\ BoundsInv /\ OwnersInv /\ LsnsInv /\ ResponsesInv /\ LfcInv
    BY DEF PcInv
  <1>2. Latest' = Latest
    BY LatestSame
  <1>3. op[b] \in OpRecords /\ [op[b] EXCEPT !.pc = "lsnsx"] \in OpRecords
    <2>1. op[b] \in OpRecords /\ lfc.gen \in Nat /\ lwMax \in Nat /\ prefetched[b].v \in Nat
      BY <1>1, PcNumbers DEF PcTypeOK
    <2>. QED BY <2>1, <1>1 DEF OpRecords
  <1>4. /\ op' \in [PcBackends -> OpRecords]
        /\ op'[b] = [op[b] EXCEPT !.pc = "lsnsx"]
        /\ \A c \in PcBackends : c # b => op'[c] = op[c]
    BY <1>1, <1>3, OpMoves DEF PcTypeOK
  <1>5. /\ op'[b].pc = "lsnsx" /\ op'[b].for = op[b].for /\ op'[b].lsn = op[b].lsn
        /\ op'[b].max = op[b].max /\ op'[b].v = op[b].v /\ op'[b].gen = op[b].gen
        /\ op'[b].ret = op[b].ret
    BY <1>3, <1>4 DEF OpRecords
  <1>6. \A c \in PcBackends : c # b => op'[c] = op[c]
    BY <1>4
  <1>7. PcTypeOK'
    BY <1>1, <1>4
       DEF PcTypeOK, BufRecords, LfcRecords, SlotRecords, OpRecords, LwRaised, SwitchedOff
  <1>. USE <1>7, PcNumbers
  <1>8. BoundsInv'
    BY <1>1, <1>2, <1>5, <1>6 DEF BoundsInv, OwnersInv, Place, Storing
  <1>9. OwnersInv'
    BY <1>1, <1>2, <1>5, <1>6 DEF OwnersInv, Owns, Place, Storing, Writing
  <1>10. LsnsInv'
    BY <1>1, <1>2, <1>5, <1>6, <1>8
       DEF BoundsInv, OwnersInv, Owns, ResponsesInv, LfcInv, Outdated, LsnsInv, Changed,
       LwLsn, Place, Storing, Writing
  <1>11. ResponsesInv'
    BY <1>1, <1>2, <1>5, <1>6
       DEF BoundsInv, OwnersInv, LsnsInv, Owns, Place, ResponsesInv, Storing, Writing
  <1>12. LfcInv'
    BY <1>1, <1>2, <1>5, <1>6, <1>8
       DEF BoundsInv, OwnersInv, Owns, Place, Writing, LsnsInv, ResponsesInv, Storing, LfcInv,
       Outdated, Changed
  <1>. QED BY <1>7, <1>8, <1>9, <1>10, <1>11, <1>12 DEF PcInv

(* A backend that waits asks again.                                        *)
LEMMA AsksAgain ==
  ASSUME PcInv, NEW b \in PcBackends,
         op[b].pc = "wait", UNCHANGED <<walEnd, mods>>, UNCHANGED <<lw, lwMax>>,
         UNCHANGED buf, UNCHANGED lfc, UNCHANGED op,
         prefetched' = [prefetched EXCEPT ![b] = [st |-> "REQUESTED", nms |-> op[b].lsn, v |-> 0]]
  PROVE  PcInv'
  <1>1. PcTypeOK /\ BoundsInv /\ OwnersInv /\ LsnsInv /\ ResponsesInv /\ LfcInv
    BY DEF PcInv
  <1>2. Latest' = Latest
    BY LatestSame
  <1>3. /\ prefetched[b] \in SlotRecords
        /\ [st |-> "REQUESTED", nms |-> op[b].lsn, v |-> 0] \in SlotRecords
    BY <1>1 DEF PcTypeOK, BufRecords, LfcRecords, SlotRecords, OpRecords, NoSlot
  <1>4. /\ prefetched' \in [PcBackends -> SlotRecords]
        /\ prefetched'[b] = [st |-> "REQUESTED", nms |-> op[b].lsn, v |-> 0]
        /\ \A c \in PcBackends : c # b => prefetched'[c] = prefetched[c]
    BY <1>1, <1>3, SlotMoves DEF PcTypeOK
  <1>5. /\ prefetched'[b].st = "REQUESTED" /\ prefetched'[b].nms = op[b].lsn
        /\ prefetched'[b].v = 0
    BY <1>3, <1>4 DEF SlotRecords, NoSlot
  <1>6. \A c \in PcBackends : c # b => prefetched'[c] = prefetched[c]
    BY <1>4
  <1>7. PcTypeOK'
    BY <1>1, <1>4
       DEF PcTypeOK, BufRecords, LfcRecords, SlotRecords, OpRecords, LwRaised, SwitchedOff
  <1>. USE <1>7, PcNumbers
  <1>8. BoundsInv'
    BY <1>1, <1>2, <1>5, <1>6 DEF BoundsInv, OwnersInv, Place, Storing
  <1>9. OwnersInv'
    BY <1>1, <1>2, <1>5, <1>6 DEF OwnersInv, Owns, Place, Storing, Writing
  <1>10. LsnsInv'
    BY <1>1, <1>2, <1>5, <1>6, <1>8
       DEF BoundsInv, OwnersInv, Owns, ResponsesInv, LfcInv, Outdated, LsnsInv, Changed,
       LwLsn, Place, Storing, Writing
  <1>11. ResponsesInv'
    BY <1>1, <1>2, <1>5, <1>6
       DEF BoundsInv, OwnersInv, LsnsInv, Owns, Place, ResponsesInv, Storing, Writing
  <1>12. LfcInv'
    BY <1>1, <1>2, <1>5, <1>6, <1>8
       DEF BoundsInv, OwnersInv, Owns, Place, Writing, LsnsInv, ResponsesInv, Storing, LfcInv,
       Outdated, Changed
  <1>. QED BY <1>7, <1>8, <1>9, <1>10, <1>11, <1>12 DEF PcInv

(* prefetch_on_ps_disconnect.                                              *)
LEMMA DropsSlot ==
  ASSUME PcInv, NEW b \in PcBackends,
         op[b].pc = "idle", UNCHANGED <<walEnd, mods>>, UNCHANGED <<lw, lwMax>>,
         UNCHANGED buf, UNCHANGED lfc, UNCHANGED op,
         prefetched' = [prefetched EXCEPT ![b] = NoSlot]
  PROVE  PcInv'
  <1>1. PcTypeOK /\ BoundsInv /\ OwnersInv /\ LsnsInv /\ ResponsesInv /\ LfcInv
    BY DEF PcInv
  <1>2. Latest' = Latest
    BY LatestSame
  <1>3. prefetched[b] \in SlotRecords /\ NoSlot \in SlotRecords
    BY <1>1 DEF PcTypeOK, BufRecords, LfcRecords, SlotRecords, OpRecords, NoSlot
  <1>4. /\ prefetched' \in [PcBackends -> SlotRecords]
        /\ prefetched'[b] = NoSlot
        /\ \A c \in PcBackends : c # b => prefetched'[c] = prefetched[c]
    BY <1>1, <1>3, SlotMoves DEF PcTypeOK
  <1>5. prefetched'[b].st = "UNUSED" /\ prefetched'[b].nms = 0 /\ prefetched'[b].v = 0
    BY <1>3, <1>4 DEF SlotRecords, NoSlot
  <1>6. \A c \in PcBackends : c # b => prefetched'[c] = prefetched[c]
    BY <1>4
  <1>7. PcTypeOK'
    BY <1>1, <1>4
       DEF PcTypeOK, BufRecords, LfcRecords, SlotRecords, OpRecords, LwRaised, SwitchedOff
  <1>. USE <1>7, PcNumbers
  <1>8. BoundsInv'
    BY <1>1, <1>2, <1>5, <1>6 DEF BoundsInv, OwnersInv, Place, Storing
  <1>9. OwnersInv'
    BY <1>1, <1>2, <1>5, <1>6 DEF OwnersInv, Owns, Place, Storing, Writing
  <1>10. LsnsInv'
    BY <1>1, <1>2, <1>5, <1>6, <1>8
       DEF BoundsInv, OwnersInv, Owns, ResponsesInv, LfcInv, Outdated, LsnsInv, Changed,
       LwLsn, Place, Storing, Writing
  <1>11. ResponsesInv'
    BY <1>1, <1>2, <1>5, <1>6
       DEF BoundsInv, OwnersInv, LsnsInv, Owns, Place, ResponsesInv, Storing, Writing
  <1>12. LfcInv'
    BY <1>1, <1>2, <1>5, <1>6, <1>8
       DEF BoundsInv, OwnersInv, Owns, Place, Writing, LsnsInv, ResponsesInv, Storing, LfcInv,
       Outdated, Changed
  <1>. QED BY <1>7, <1>8, <1>9, <1>10, <1>11, <1>12 DEF PcInv

(* The block is found in the file cache.                                   *)
LEMMA Hits ==
  ASSUME PcInv, NEW b \in PcBackends,
         op[b].pc \in {"lfcr", "lfcrw"}, lfc.st = "AVAILABLE",
         buf' = [st |-> "in", v |-> lfc.v, dirty |-> FALSE], UNCHANGED <<walEnd, mods>>,
         UNCHANGED <<lw, lwMax>>, UNCHANGED lfc, Goto(b, AtRest), UNCHANGED prefetched
  PROVE  PcInv'
  <1>1. PcTypeOK /\ BoundsInv /\ OwnersInv /\ LsnsInv /\ ResponsesInv /\ LfcInv
    BY DEF PcInv
  <1>2. Latest' = Latest
    BY LatestSame
  <1>3. op[b] \in OpRecords /\ AtRest \in OpRecords
    <2>1. op[b] \in OpRecords /\ lfc.gen \in Nat /\ lwMax \in Nat /\ prefetched[b].v \in Nat
      BY <1>1, PcNumbers DEF PcTypeOK
    <2>. QED BY <2>1, <1>1 DEF OpRecords, AtRest
  <1>4. /\ op' \in [PcBackends -> OpRecords]
        /\ op'[b] = AtRest
        /\ \A c \in PcBackends : c # b => op'[c] = op[c]
    BY <1>1, <1>3, OpMoves DEF PcTypeOK
  <1>5. /\ op'[b].pc = "idle" /\ op'[b].for = "none" /\ op'[b].lsn = 0 /\ op'[b].max = 0
        /\ op'[b].v = 0 /\ op'[b].gen = 0 /\ op'[b].ret = "idle"
    BY <1>3, <1>4 DEF OpRecords, AtRest
  <1>6. \A c \in PcBackends : c # b => op'[c] = op[c]
    BY <1>4
  <1>7. buf'.st = "in" /\ buf'.v = lfc.v /\ buf'.dirty = FALSE
    BY <1>1 DEF PcTypeOK, BufRecords
  <1>8. PcTypeOK'
    BY <1>1, <1>4
       DEF PcTypeOK, BufRecords, LfcRecords, SlotRecords, OpRecords, LwRaised, SwitchedOff
  <1>. USE <1>8, PcNumbers
  <1>9. BoundsInv'
    BY <1>1, <1>2, <1>5, <1>6, <1>7 DEF BoundsInv, OwnersInv, Place, Storing
  <1>10. OwnersInv'
    BY <1>1, <1>2, <1>5, <1>6, <1>7 DEF OwnersInv, Owns, Place, Storing, Writing
  <1>11. LsnsInv'
    BY <1>1, <1>2, <1>5, <1>6, <1>7, <1>9
       DEF BoundsInv, OwnersInv, Owns, ResponsesInv, LfcInv, Outdated, LsnsInv, Changed,
       LwLsn, Place, Storing, Writing
  <1>12. ResponsesInv'
    BY <1>1, <1>2, <1>5, <1>6, <1>7
       DEF BoundsInv, OwnersInv, LsnsInv, Owns, Place, ResponsesInv, Storing, Writing
  <1>13. LfcInv'
    BY <1>1, <1>2, <1>5, <1>6, <1>7, <1>9
       DEF BoundsInv, OwnersInv, Owns, Place, Writing, LsnsInv, ResponsesInv, Storing, LfcInv,
       Outdated, Changed
  <1>. QED BY <1>8, <1>9, <1>10, <1>11, <1>12, <1>13 DEF PcInv

(* One who reads waits for one who writes the block.                       *)
LEMMA WaitsForLfc ==
  ASSUME PcInv, NEW b \in PcBackends,
         op[b].pc = "lfcr", UNCHANGED <<walEnd, mods>>, UNCHANGED <<lw, lwMax>>,
         UNCHANGED buf, UNCHANGED lfc,
         Goto(b, [op[b] EXCEPT !.pc = "lfcrw", !.gen = lfc.gen]), UNCHANGED prefetched
  PROVE  PcInv'
  <1>1. PcTypeOK /\ BoundsInv /\ OwnersInv /\ LsnsInv /\ ResponsesInv /\ LfcInv
    BY DEF PcInv
  <1>2. Latest' = Latest
    BY LatestSame
  <1>3. op[b] \in OpRecords /\ [op[b] EXCEPT !.pc = "lfcrw", !.gen = lfc.gen] \in OpRecords
    <2>1. op[b] \in OpRecords /\ lfc.gen \in Nat /\ lwMax \in Nat /\ prefetched[b].v \in Nat
      BY <1>1, PcNumbers DEF PcTypeOK
    <2>. QED BY <2>1, <1>1 DEF OpRecords
  <1>4. /\ op' \in [PcBackends -> OpRecords]
        /\ op'[b] = [op[b] EXCEPT !.pc = "lfcrw", !.gen = lfc.gen]
        /\ \A c \in PcBackends : c # b => op'[c] = op[c]
    BY <1>1, <1>3, OpMoves DEF PcTypeOK
  <1>5. /\ op'[b].pc = "lfcrw" /\ op'[b].for = op[b].for /\ op'[b].lsn = op[b].lsn
        /\ op'[b].max = op[b].max /\ op'[b].v = op[b].v /\ op'[b].gen = lfc.gen
        /\ op'[b].ret = op[b].ret
    BY <1>3, <1>4 DEF OpRecords
  <1>6. \A c \in PcBackends : c # b => op'[c] = op[c]
    BY <1>4
  <1>7. PcTypeOK'
    BY <1>1, <1>4
       DEF PcTypeOK, BufRecords, LfcRecords, SlotRecords, OpRecords, LwRaised, SwitchedOff
  <1>. USE <1>7, PcNumbers
  <1>8. BoundsInv'
    BY <1>1, <1>2, <1>5, <1>6 DEF BoundsInv, OwnersInv, Place, Storing
  <1>9. OwnersInv'
    BY <1>1, <1>2, <1>5, <1>6 DEF OwnersInv, Owns, Place, Storing, Writing
  <1>10. LsnsInv'
    BY <1>1, <1>2, <1>5, <1>6, <1>8
       DEF BoundsInv, OwnersInv, Owns, ResponsesInv, LfcInv, Outdated, LsnsInv, Changed,
       LwLsn, Place, Storing, Writing
  <1>11. ResponsesInv'
    BY <1>1, <1>2, <1>5, <1>6
       DEF BoundsInv, OwnersInv, LsnsInv, Owns, Place, ResponsesInv, Storing, Writing
  <1>12. LfcInv'
    BY <1>1, <1>2, <1>5, <1>6, <1>8
       DEF BoundsInv, OwnersInv, Owns, Place, Writing, LsnsInv, ResponsesInv, Storing, LfcInv,
       Outdated, Changed
  <1>. QED BY <1>7, <1>8, <1>9, <1>10, <1>11, <1>12 DEF PcInv

(* The page is not in the file cache, and not on its way.                  *)
LEMMA MissesAndAsks ==
  ASSUME PcInv, NEW b \in PcBackends,
         op[b].pc \in {"lfcr", "lfcrw"}, UNCHANGED <<walEnd, mods>>, UNCHANGED <<lw, lwMax>>,
         UNCHANGED buf, UNCHANGED lfc, Goto(b, [op[b] EXCEPT !.pc = "wait", !.gen = 0]),
         prefetched' = [prefetched EXCEPT ![b] = [st |-> "REQUESTED", nms |-> op[b].lsn, v |-> 0]]
  PROVE  PcInv'
  <1>1. PcTypeOK /\ BoundsInv /\ OwnersInv /\ LsnsInv /\ ResponsesInv /\ LfcInv
    BY DEF PcInv
  <1>2. Latest' = Latest
    BY LatestSame
  <1>3. op[b] \in OpRecords /\ [op[b] EXCEPT !.pc = "wait", !.gen = 0] \in OpRecords
    <2>1. op[b] \in OpRecords /\ lfc.gen \in Nat /\ lwMax \in Nat /\ prefetched[b].v \in Nat
      BY <1>1, PcNumbers DEF PcTypeOK
    <2>. QED BY <2>1, <1>1 DEF OpRecords
  <1>4. /\ op' \in [PcBackends -> OpRecords]
        /\ op'[b] = [op[b] EXCEPT !.pc = "wait", !.gen = 0]
        /\ \A c \in PcBackends : c # b => op'[c] = op[c]
    BY <1>1, <1>3, OpMoves DEF PcTypeOK
  <1>5. /\ op'[b].pc = "wait" /\ op'[b].for = op[b].for /\ op'[b].lsn = op[b].lsn
        /\ op'[b].max = op[b].max /\ op'[b].v = op[b].v /\ op'[b].gen = 0
        /\ op'[b].ret = op[b].ret
    BY <1>3, <1>4 DEF OpRecords
  <1>6. \A c \in PcBackends : c # b => op'[c] = op[c]
    BY <1>4
  <1>7. /\ prefetched[b] \in SlotRecords
        /\ [st |-> "REQUESTED", nms |-> op[b].lsn, v |-> 0] \in SlotRecords
    BY <1>1 DEF PcTypeOK, BufRecords, LfcRecords, SlotRecords, OpRecords, NoSlot
  <1>8. /\ prefetched' \in [PcBackends -> SlotRecords]
        /\ prefetched'[b] = [st |-> "REQUESTED", nms |-> op[b].lsn, v |-> 0]
        /\ \A c \in PcBackends : c # b => prefetched'[c] = prefetched[c]
    BY <1>1, <1>7, SlotMoves DEF PcTypeOK
  <1>9. /\ prefetched'[b].st = "REQUESTED" /\ prefetched'[b].nms = op[b].lsn
        /\ prefetched'[b].v = 0
    BY <1>7, <1>8 DEF SlotRecords, NoSlot
  <1>10. \A c \in PcBackends : c # b => prefetched'[c] = prefetched[c]
    BY <1>8
  <1>11. PcTypeOK'
    BY <1>1, <1>4, <1>8
       DEF PcTypeOK, BufRecords, LfcRecords, SlotRecords, OpRecords, LwRaised, SwitchedOff
  <1>. USE <1>11, PcNumbers
  <1>12. BoundsInv'
    BY <1>1, <1>2, <1>5, <1>6, <1>9, <1>10 DEF BoundsInv, OwnersInv, Place, Storing
  <1>13. OwnersInv'
    BY <1>1, <1>2, <1>5, <1>6, <1>9, <1>10 DEF OwnersInv, Owns, Place, Storing, Writing
  <1>14. LsnsInv'
    BY <1>1, <1>2, <1>5, <1>6, <1>9, <1>10, <1>12
       DEF BoundsInv, OwnersInv, Owns, ResponsesInv, LfcInv, Outdated, LsnsInv, Changed,
       LwLsn, Place, Storing, Writing
  <1>15. ResponsesInv'
    BY <1>1, <1>2, <1>5, <1>6, <1>9, <1>10
       DEF BoundsInv, OwnersInv, LsnsInv, Owns, Place, ResponsesInv, Storing, Writing
  <1>16. LfcInv'
    BY <1>1, <1>2, <1>5, <1>6, <1>9, <1>10, <1>12
       DEF BoundsInv, OwnersInv, Owns, Place, Writing, LsnsInv, ResponsesInv, Storing, LfcInv,
       Outdated, Changed
  <1>. QED BY <1>11, <1>12, <1>13, <1>14, <1>15, <1>16 DEF PcInv

(* The page is not in the file cache, but on its way.                      *)
LEMMA MissesAndWaits ==
  ASSUME PcInv, NEW b \in PcBackends,
         op[b].pc \in {"lfcr", "lfcrw"}, UNCHANGED <<walEnd, mods>>, UNCHANGED <<lw, lwMax>>,
         UNCHANGED buf, UNCHANGED lfc, Goto(b, [op[b] EXCEPT !.pc = "wait", !.gen = 0]),
         UNCHANGED prefetched
  PROVE  PcInv'
  <1>1. PcTypeOK /\ BoundsInv /\ OwnersInv /\ LsnsInv /\ ResponsesInv /\ LfcInv
    BY DEF PcInv
  <1>2. Latest' = Latest
    BY LatestSame
  <1>3. op[b] \in OpRecords /\ [op[b] EXCEPT !.pc = "wait", !.gen = 0] \in OpRecords
    <2>1. op[b] \in OpRecords /\ lfc.gen \in Nat /\ lwMax \in Nat /\ prefetched[b].v \in Nat
      BY <1>1, PcNumbers DEF PcTypeOK
    <2>. QED BY <2>1, <1>1 DEF OpRecords
  <1>4. /\ op' \in [PcBackends -> OpRecords]
        /\ op'[b] = [op[b] EXCEPT !.pc = "wait", !.gen = 0]
        /\ \A c \in PcBackends : c # b => op'[c] = op[c]
    BY <1>1, <1>3, OpMoves DEF PcTypeOK
  <1>5. /\ op'[b].pc = "wait" /\ op'[b].for = op[b].for /\ op'[b].lsn = op[b].lsn
        /\ op'[b].max = op[b].max /\ op'[b].v = op[b].v /\ op'[b].gen = 0
        /\ op'[b].ret = op[b].ret
    BY <1>3, <1>4 DEF OpRecords
  <1>6. \A c \in PcBackends : c # b => op'[c] = op[c]
    BY <1>4
  <1>7. PcTypeOK'
    BY <1>1, <1>4
       DEF PcTypeOK, BufRecords, LfcRecords, SlotRecords, OpRecords, LwRaised, SwitchedOff
  <1>. USE <1>7, PcNumbers
  <1>8. BoundsInv'
    BY <1>1, <1>2, <1>5, <1>6 DEF BoundsInv, OwnersInv, Place, Storing
  <1>9. OwnersInv'
    BY <1>1, <1>2, <1>5, <1>6 DEF OwnersInv, Owns, Place, Storing, Writing
  <1>10. LsnsInv'
    BY <1>1, <1>2, <1>5, <1>6, <1>8
       DEF BoundsInv, OwnersInv, Owns, ResponsesInv, LfcInv, Outdated, LsnsInv, Changed,
       LwLsn, Place, Storing, Writing
  <1>11. ResponsesInv'
    BY <1>1, <1>2, <1>5, <1>6
       DEF BoundsInv, OwnersInv, LsnsInv, Owns, Place, ResponsesInv, Storing, Writing
  <1>12. LfcInv'
    BY <1>1, <1>2, <1>5, <1>6, <1>8
       DEF BoundsInv, OwnersInv, Owns, Place, Writing, LsnsInv, ResponsesInv, Storing, LfcInv,
       Outdated, Changed
  <1>. QED BY <1>7, <1>8, <1>9, <1>10, <1>11, <1>12 DEF PcInv

(* lfc_prefetch returns without a write.                                   *)
LEMMA StoresNothing ==
  ASSUME PcInv, NEW b \in PcBackends,
         op[b].pc \in {"store", "storex"}, UNCHANGED <<walEnd, mods>>, LwRaised,
         UNCHANGED buf, UNCHANGED lfc,
         Goto(b, [op[b] EXCEPT !.pc = op[b].ret, !.max = 0, !.gen = 0, !.ret = "idle"]),
         UNCHANGED prefetched
  PROVE  PcInv'
  <1>1. PcTypeOK /\ BoundsInv /\ OwnersInv /\ LsnsInv /\ ResponsesInv /\ LfcInv
    BY DEF PcInv
  <1>2. Latest' = Latest
    BY LatestSame
  <1>3. /\ op[b] \in OpRecords
        /\ [op[b] EXCEPT !.pc = op[b].ret, !.max = 0, !.gen = 0, !.ret = "idle"] \in OpRecords
    <2>1. op[b] \in OpRecords /\ lfc.gen \in Nat /\ lwMax \in Nat /\ prefetched[b].v \in Nat
      BY <1>1, PcNumbers DEF PcTypeOK
    <2>. QED BY <2>1, <1>1 DEF OpRecords
  <1>4. /\ op' \in [PcBackends -> OpRecords]
        /\ op'[b] = [op[b] EXCEPT !.pc = op[b].ret, !.max = 0, !.gen = 0, !.ret = "idle"]
        /\ \A c \in PcBackends : c # b => op'[c] = op[c]
    BY <1>1, <1>3, OpMoves DEF PcTypeOK
  <1>5. /\ op'[b].pc = op[b].ret /\ op'[b].for = op[b].for /\ op'[b].lsn = op[b].lsn
        /\ op'[b].max = 0 /\ op'[b].v = op[b].v /\ op'[b].gen = 0 /\ op'[b].ret = "idle"
    BY <1>3, <1>4 DEF OpRecords
  <1>6. \A c \in PcBackends : c # b => op'[c] = op[c]
    BY <1>4
  <1>7. PcTypeOK'
    BY <1>1, <1>4
       DEF PcTypeOK, BufRecords, LfcRecords, SlotRecords, OpRecords, LwRaised, SwitchedOff
  <1>. USE <1>7, PcNumbers
  <1>8. BoundsInv'
    BY <1>1, <1>2, <1>5, <1>6 DEF BoundsInv, OwnersInv, Place, Storing, LwRaised
  <1>9. OwnersInv'
    BY <1>1, <1>2, <1>5, <1>6 DEF OwnersInv, Owns, Place, Storing, Writing
  <1>10. LsnsInv'
    BY <1>1, <1>2, <1>5, <1>6, <1>8
       DEF BoundsInv, OwnersInv, Owns, ResponsesInv, LfcInv, Outdated, LsnsInv, Changed,
       LwLsn, Place, Storing, Writing, LwRaised
  <1>11. ResponsesInv'
    BY <1>1, <1>2, <1>5, <1>6
       DEF BoundsInv, OwnersInv, LsnsInv, Owns, Place, ResponsesInv, Storing, Writing
  <1>12. LfcInv'
    BY <1>1, <1>2, <1>5, <1>6, <1>8
       DEF BoundsInv, OwnersInv, Owns, Place, Writing, LsnsInv, ResponsesInv, Storing, LfcInv,
       Outdated, Changed
  <1>. QED BY <1>7, <1>8, <1>9, <1>10, <1>11, <1>12 DEF PcInv

(* lfc_prefetch is going to write the block.                               *)
LEMMA StoreBegins ==
  ASSUME PcInv, NEW b \in PcBackends,
         op[b].pc \in {"store", "storex"}, lfc.on, lfc.st = "UNAVAILABLE",
         Changed \/ Latest <= prefetched[b].nms, lfc' = [lfc EXCEPT !.st = "PENDING"],
         UNCHANGED <<walEnd, mods>>, LwRaised, UNCHANGED buf,
         Goto(b, [op[b] EXCEPT !.pc = "storew", !.max = 0, !.gen = lfc.gen]),
         UNCHANGED prefetched
  PROVE  PcInv'
  <1>1. PcTypeOK /\ BoundsInv /\ OwnersInv /\ LsnsInv /\ ResponsesInv /\ LfcInv
    BY DEF PcInv
  <1>2. Latest' = Latest
    BY LatestSame
  <1>3. /\ op[b] \in OpRecords
        /\ [op[b] EXCEPT !.pc = "storew", !.max = 0, !.gen = lfc.gen] \in OpRecords
    <2>1. op[b] \in OpRecords /\ lfc.gen \in Nat /\ lwMax \in Nat /\ prefetched[b].v \in Nat
      BY <1>1, PcNumbers DEF PcTypeOK
    <2>. QED BY <2>1, <1>1 DEF OpRecords
  <1>4. /\ op' \in [PcBackends -> OpRecords]
        /\ op'[b] = [op[b] EXCEPT !.pc = "storew", !.max = 0, !.gen = lfc.gen]
        /\ \A c \in PcBackends : c # b => op'[c] = op[c]
    BY <1>1, <1>3, OpMoves DEF PcTypeOK
  <1>5. /\ op'[b].pc = "storew" /\ op'[b].for = op[b].for /\ op'[b].lsn = op[b].lsn
        /\ op'[b].max = 0 /\ op'[b].v = op[b].v /\ op'[b].gen = lfc.gen
        /\ op'[b].ret = op[b].ret
    BY <1>3, <1>4 DEF OpRecords
  <1>6. \A c \in PcBackends : c # b => op'[c] = op[c]
    BY <1>4
  <1>7. lfc'.on = lfc.on /\ lfc'.gen = lfc.gen /\ lfc'.st = "PENDING" /\ lfc'.v = lfc.v
    BY <1>1 DEF PcTypeOK, LfcRecords, SwitchedOff
  <1>8. PcTypeOK'
    BY <1>1, <1>4
       DEF PcTypeOK, BufRecords, LfcRecords, SlotRecords, OpRecords, LwRaised, SwitchedOff
  <1>. USE <1>8, PcNumbers
  <1>9. BoundsInv'
    BY <1>1, <1>2, <1>5, <1>6, <1>7 DEF BoundsInv, OwnersInv, Place, Storing, LwRaised
  <1>10. OwnersInv'
    BY <1>1, <1>2, <1>5, <1>6, <1>7 DEF OwnersInv, Owns, Place, Storing, Writing
  <1>11. LsnsInv'
    BY <1>1, <1>2, <1>5, <1>6, <1>7, <1>9
       DEF BoundsInv, OwnersInv, Owns, ResponsesInv, LfcInv, Outdated, LsnsInv, Changed,
       LwLsn, Place, Storing, Writing, LwRaised
  <1>12. ResponsesInv'
    BY <1>1, <1>2, <1>5, <1>6, <1>7
       DEF BoundsInv, OwnersInv, LsnsInv, Owns, Place, ResponsesInv, Storing, Writing
  <1>13. LfcInv'
    BY <1>1, <1>2, <1>5, <1>6, <1>7, <1>9
       DEF BoundsInv, OwnersInv, Owns, Place, Writing, LsnsInv, ResponsesInv, Storing, LfcInv,
       Outdated, Changed
  <1>. QED BY <1>8, <1>9, <1>10, <1>11, <1>12, <1>13 DEF PcInv

(* lfc_prefetch finds no LwLSN under the shared lock.                      *)
LEMMA StoreLooksAgain ==
  ASSUME PcInv, NEW b \in PcBackends,
         op[b].pc = "store", lfc.on, lw = 0, UNCHANGED <<walEnd, mods>>,
         UNCHANGED <<lw, lwMax>>, UNCHANGED buf, UNCHANGED lfc,
         Goto(b, [op[b] EXCEPT !.pc = "storex", !.max = lwMax]), UNCHANGED prefetched
  PROVE  PcInv'
  <1>1. PcTypeOK /\ BoundsInv /\ OwnersInv /\ LsnsInv /\ ResponsesInv /\ LfcInv
    BY DEF PcInv
  <1>2. Latest' = Latest
    BY LatestSame
  <1>3. op[b] \in OpRecords /\ [op[b] EXCEPT !.pc = "storex", !.max = lwMax] \in OpRecords
    <2>1. op[b] \in OpRecords /\ lfc.gen \in Nat /\ lwMax \in Nat /\ prefetched[b].v \in Nat
      BY <1>1, PcNumbers DEF PcTypeOK
    <2>. QED BY <2>1, <1>1 DEF OpRecords
  <1>4. /\ op' \in [PcBackends -> OpRecords]
        /\ op'[b] = [op[b] EXCEPT !.pc = "storex", !.max = lwMax]
        /\ \A c \in PcBackends : c # b => op'[c] = op[c]
    BY <1>1, <1>3, OpMoves DEF PcTypeOK
  <1>5. /\ op'[b].pc = "storex" /\ op'[b].for = op[b].for /\ op'[b].lsn = op[b].lsn
        /\ op'[b].max = lwMax /\ op'[b].v = op[b].v /\ op'[b].gen = op[b].gen
        /\ op'[b].ret = op[b].ret
    BY <1>3, <1>4 DEF OpRecords
  <1>6. \A c \in PcBackends : c # b => op'[c] = op[c]
    BY <1>4
  <1>7. PcTypeOK'
    BY <1>1, <1>4
       DEF PcTypeOK, BufRecords, LfcRecords, SlotRecords, OpRecords, LwRaised, SwitchedOff
  <1>. USE <1>7, PcNumbers
  <1>8. BoundsInv'
    BY <1>1, <1>2, <1>5, <1>6 DEF BoundsInv, OwnersInv, Place, Storing
  <1>9. OwnersInv'
    BY <1>1, <1>2, <1>5, <1>6 DEF OwnersInv, Owns, Place, Storing, Writing
  <1>10. LsnsInv'
    BY <1>1, <1>2, <1>5, <1>6, <1>8
       DEF BoundsInv, OwnersInv, Owns, ResponsesInv, LfcInv, Outdated, LsnsInv, Changed,
       LwLsn, Place, Storing, Writing
  <1>11. ResponsesInv'
    BY <1>1, <1>2, <1>5, <1>6
       DEF BoundsInv, OwnersInv, LsnsInv, Owns, Place, ResponsesInv, Storing, Writing
  <1>12. LfcInv'
    BY <1>1, <1>2, <1>5, <1>6, <1>8
       DEF BoundsInv, OwnersInv, Owns, Place, Writing, LsnsInv, ResponsesInv, Storing, LfcInv,
       Outdated, Changed
  <1>. QED BY <1>7, <1>8, <1>9, <1>10, <1>11, <1>12 DEF PcInv

(* lfc_prefetch has written the block.                                     *)
LEMMA StoreEnds ==
  ASSUME PcInv, NEW b \in PcBackends,
         op[b].pc = "storew", LfcLockFree, lfc.gen = op[b].gen,
         lfc' = [lfc EXCEPT !.st = "AVAILABLE", !.v = prefetched[b].v],
         UNCHANGED <<walEnd, mods>>, UNCHANGED <<lw, lwMax>>, UNCHANGED buf,
         Goto(b, [op[b] EXCEPT !.pc = op[b].ret, !.max = 0, !.gen = 0, !.ret = "idle"]),
         UNCHANGED prefetched
  PROVE  PcInv'
  <1>1. PcTypeOK /\ BoundsInv /\ OwnersInv /\ LsnsInv /\ ResponsesInv /\ LfcInv
    BY DEF PcInv
  <1>2. Latest' = Latest
    BY LatestSame
  <1>3. /\ op[b] \in OpRecords
        /\ [op[b] EXCEPT !.pc = op[b].ret, !.max = 0, !.gen = 0, !.ret = "idle"] \in OpRecords
    <2>1. op[b] \in OpRecords /\ lfc.gen \in Nat /\ lwMax \in Nat /\ prefetched[b].v \in Nat
      BY <1>1, PcNumbers DEF PcTypeOK
    <2>. QED BY <2>1, <1>1 DEF OpRecords
  <1>4. /\ op' \in [PcBackends -> OpRecords]
        /\ op'[b] = [op[b] EXCEPT !.pc = op[b].ret, !.max = 0, !.gen = 0, !.ret = "idle"]
        /\ \A c \in PcBackends : c # b => op'[c] = op[c]
    BY <1>1, <1>3, OpMoves DEF PcTypeOK
  <1>5. /\ op'[b].pc = op[b].ret /\ op'[b].for = op[b].for /\ op'[b].lsn = op[b].lsn
        /\ op'[b].max = 0 /\ op'[b].v = op[b].v /\ op'[b].gen = 0 /\ op'[b].ret = "idle"
    BY <1>3, <1>4 DEF OpRecords
  <1>6. \A c \in PcBackends : c # b => op'[c] = op[c]
    BY <1>4
  <1>7. /\ lfc'.on = lfc.on /\ lfc'.gen = lfc.gen /\ lfc'.st = "AVAILABLE"
        /\ lfc'.v = prefetched[b].v
    BY <1>1 DEF PcTypeOK, LfcRecords, SwitchedOff
  <1>8. PcTypeOK'
    BY <1>1, <1>4
       DEF PcTypeOK, BufRecords, LfcRecords, SlotRecords, OpRecords, LwRaised, SwitchedOff
  <1>. USE <1>8, PcNumbers
  <1>9. BoundsInv'
    BY <1>1, <1>2, <1>5, <1>6, <1>7 DEF BoundsInv, OwnersInv, Place, Storing
  <1>10. OwnersInv'
    BY <1>1, <1>2, <1>5, <1>6, <1>7 DEF OwnersInv, Owns, Place, Storing, Writing
  <1>11. LsnsInv'
    BY <1>1, <1>2, <1>5, <1>6, <1>7, <1>9
       DEF BoundsInv, OwnersInv, Owns, ResponsesInv, LfcInv, Outdated, LsnsInv, Changed,
       LwLsn, Place, Storing, Writing
  <1>12. ResponsesInv'
    BY <1>1, <1>2, <1>5, <1>6, <1>7
       DEF BoundsInv, OwnersInv, LsnsInv, Owns, Place, ResponsesInv, Storing, Writing
  <1>13. LfcInv'
    BY <1>1, <1>2, <1>5, <1>6, <1>7, <1>9
       DEF BoundsInv, OwnersInv, Owns, Place, Writing, LsnsInv, ResponsesInv, Storing, LfcInv,
       Outdated, Changed, LfcLockFree, PcAt
  <1>. QED BY <1>8, <1>9, <1>10, <1>11, <1>12, <1>13 DEF PcInv

(* lfc_prefetch has written to a file that was replaced.                   *)
LEMMA StoreEndsLate ==
  ASSUME PcInv, NEW b \in PcBackends,
         op[b].pc = "storew", lfc.gen # op[b].gen \/ ~lfc.on, UNCHANGED <<walEnd, mods>>,
         UNCHANGED <<lw, lwMax>>, UNCHANGED buf, UNCHANGED lfc,
         Goto(b, [op[b] EXCEPT !.pc = op[b].ret, !.max = 0, !.gen = 0, !.ret = "idle"]),
         UNCHANGED prefetched
  PROVE  PcInv'
  <1>1. PcTypeOK /\ BoundsInv /\ OwnersInv /\ LsnsInv /\ ResponsesInv /\ LfcInv
    BY DEF PcInv
  <1>2. Latest' = Latest
    BY LatestSame
  <1>3. /\ op[b] \in OpRecords
        /\ [op[b] EXCEPT !.pc = op[b].ret, !.max = 0, !.gen = 0, !.ret = "idle"] \in OpRecords
    <2>1. op[b] \in OpRecords /\ lfc.gen \in Nat /\ lwMax \in Nat /\ prefetched[b].v \in Nat
      BY <1>1, PcNumbers DEF PcTypeOK
    <2>. QED BY <2>1, <1>1 DEF OpRecords
  <1>4. /\ op' \in [PcBackends -> OpRecords]
        /\ op'[b] = [op[b] EXCEPT !.pc = op[b].ret, !.max = 0, !.gen = 0, !.ret = "idle"]
        /\ \A c \in PcBackends : c # b => op'[c] = op[c]
    BY <1>1, <1>3, OpMoves DEF PcTypeOK
  <1>5. /\ op'[b].pc = op[b].ret /\ op'[b].for = op[b].for /\ op'[b].lsn = op[b].lsn
        /\ op'[b].max = 0 /\ op'[b].v = op[b].v /\ op'[b].gen = 0 /\ op'[b].ret = "idle"
    BY <1>3, <1>4 DEF OpRecords
  <1>6. \A c \in PcBackends : c # b => op'[c] = op[c]
    BY <1>4
  <1>7. PcTypeOK'
    BY <1>1, <1>4
       DEF PcTypeOK, BufRecords, LfcRecords, SlotRecords, OpRecords, LwRaised, SwitchedOff
  <1>. USE <1>7, PcNumbers
  <1>8. BoundsInv'
    BY <1>1, <1>2, <1>5, <1>6 DEF BoundsInv, OwnersInv, Place, Storing
  <1>9. OwnersInv'
    BY <1>1, <1>2, <1>5, <1>6 DEF OwnersInv, Owns, Place, Storing, Writing
  <1>10. LsnsInv'
    BY <1>1, <1>2, <1>5, <1>6, <1>8
       DEF BoundsInv, OwnersInv, Owns, ResponsesInv, LfcInv, Outdated, LsnsInv, Changed,
       LwLsn, Place, Storing, Writing
  <1>11. ResponsesInv'
    BY <1>1, <1>2, <1>5, <1>6
       DEF BoundsInv, OwnersInv, LsnsInv, Owns, Place, ResponsesInv, Storing, Writing
  <1>12. LfcInv'
    BY <1>1, <1>2, <1>5, <1>6, <1>8
       DEF BoundsInv, OwnersInv, Owns, Place, Writing, LsnsInv, ResponsesInv, Storing, LfcInv,
       Outdated, Changed
  <1>. QED BY <1>7, <1>8, <1>9, <1>10, <1>11, <1>12 DEF PcInv

(* The write of lfc_prefetch fails.                                        *)
LEMMA StoreFails ==
  ASSUME PcInv, NEW b \in PcBackends,
         op[b].pc = "storew", LfcLockFree, lfc' = SwitchedOff, UNCHANGED <<walEnd, mods>>,
         UNCHANGED <<lw, lwMax>>, UNCHANGED buf,
         Goto(b, [op[b] EXCEPT !.pc = op[b].ret, !.max = 0, !.gen = 0, !.ret = "idle"]),
         UNCHANGED prefetched
  PROVE  PcInv'
  <1>1. PcTypeOK /\ BoundsInv /\ OwnersInv /\ LsnsInv /\ ResponsesInv /\ LfcInv
    BY DEF PcInv
  <1>2. Latest' = Latest
    BY LatestSame
  <1>3. /\ op[b] \in OpRecords
        /\ [op[b] EXCEPT !.pc = op[b].ret, !.max = 0, !.gen = 0, !.ret = "idle"] \in OpRecords
    <2>1. op[b] \in OpRecords /\ lfc.gen \in Nat /\ lwMax \in Nat /\ prefetched[b].v \in Nat
      BY <1>1, PcNumbers DEF PcTypeOK
    <2>. QED BY <2>1, <1>1 DEF OpRecords
  <1>4. /\ op' \in [PcBackends -> OpRecords]
        /\ op'[b] = [op[b] EXCEPT !.pc = op[b].ret, !.max = 0, !.gen = 0, !.ret = "idle"]
        /\ \A c \in PcBackends : c # b => op'[c] = op[c]
    BY <1>1, <1>3, OpMoves DEF PcTypeOK
  <1>5. /\ op'[b].pc = op[b].ret /\ op'[b].for = op[b].for /\ op'[b].lsn = op[b].lsn
        /\ op'[b].max = 0 /\ op'[b].v = op[b].v /\ op'[b].gen = 0 /\ op'[b].ret = "idle"
    BY <1>3, <1>4 DEF OpRecords
  <1>6. \A c \in PcBackends : c # b => op'[c] = op[c]
    BY <1>4
  <1>7. lfc'.on = FALSE /\ lfc'.gen = lfc.gen + 1 /\ lfc'.st = "UNAVAILABLE" /\ lfc'.v = 0
    BY <1>1 DEF PcTypeOK, LfcRecords, SwitchedOff
  <1>8. PcTypeOK'
    BY <1>1, <1>4
       DEF PcTypeOK, BufRecords, LfcRecords, SlotRecords, OpRecords, LwRaised, SwitchedOff
  <1>. USE <1>8, PcNumbers
  <1>9. BoundsInv'
    BY <1>1, <1>2, <1>5, <1>6, <1>7 DEF BoundsInv, OwnersInv, Place, Storing
  <1>10. OwnersInv'
    BY <1>1, <1>2, <1>5, <1>6, <1>7 DEF OwnersInv, Owns, Place, Storing, Writing
  <1>11. LsnsInv'
    BY <1>1, <1>2, <1>5, <1>6, <1>7, <1>9
       DEF BoundsInv, OwnersInv, Owns, ResponsesInv, LfcInv, Outdated, LsnsInv, Changed,
       LwLsn, Place, Storing, Writing
  <1>12. ResponsesInv'
    BY <1>1, <1>2, <1>5, <1>6, <1>7
       DEF BoundsInv, OwnersInv, LsnsInv, Owns, Place, ResponsesInv, Storing, Writing
  <1>13. LfcInv'
    BY <1>1, <1>2, <1>5, <1>6, <1>7, <1>9
       DEF BoundsInv, OwnersInv, Owns, Place, Writing, LsnsInv, ResponsesInv, Storing, LfcInv,
       Outdated, Changed, LfcLockFree, PcAt
  <1>. QED BY <1>8, <1>9, <1>10, <1>11, <1>12, <1>13 DEF PcInv

(* The page is done, and no block of it is there.                          *)
LEMMA PageDoneUnwritten ==
  ASSUME PcInv, NEW b \in PcBackends,
         Writing(b),
         \/ op[b].pc = "write" /\ (~lfc.on \/ lfc.st = "UNAVAILABLE")
         \/ op[b].pc # "write" /\ (~lfc.on \/ lfc.gen # op[b].gen),
         buf' = [st |-> "in", v |-> op[b].v, dirty |-> FALSE], UNCHANGED <<walEnd, mods>>,
         UNCHANGED <<lw, lwMax>>, UNCHANGED lfc, Goto(b, AtRest), UNCHANGED prefetched
  PROVE  PcInv'
  <1>1. PcTypeOK /\ BoundsInv /\ OwnersInv /\ LsnsInv /\ ResponsesInv /\ LfcInv
    BY DEF PcInv
  <1>2. Latest' = Latest
    BY LatestSame
  <1>3. op[b] \in OpRecords /\ AtRest \in OpRecords
    <2>1. op[b] \in OpRecords /\ lfc.gen \in Nat /\ lwMax \in Nat /\ prefetched[b].v \in Nat
      BY <1>1, PcNumbers DEF PcTypeOK
    <2>. QED BY <2>1, <1>1 DEF OpRecords, AtRest
  <1>4. /\ op' \in [PcBackends -> OpRecords]
        /\ op'[b] = AtRest
        /\ \A c \in PcBackends : c # b => op'[c] = op[c]
    BY <1>1, <1>3, OpMoves DEF PcTypeOK
  <1>5. /\ op'[b].pc = "idle" /\ op'[b].for = "none" /\ op'[b].lsn = 0 /\ op'[b].max = 0
        /\ op'[b].v = 0 /\ op'[b].gen = 0 /\ op'[b].ret = "idle"
    BY <1>3, <1>4 DEF OpRecords, AtRest
  <1>6. \A c \in PcBackends : c # b => op'[c] = op[c]
    BY <1>4
  <1>7. buf'.st = "in" /\ buf'.v = op[b].v /\ buf'.dirty = FALSE
    BY <1>1 DEF PcTypeOK, BufRecords
  <1>8. PcTypeOK'
    BY <1>1, <1>4
       DEF PcTypeOK, BufRecords, LfcRecords, SlotRecords, OpRecords, LwRaised, SwitchedOff
  <1>. USE <1>8, PcNumbers
  <1>9. BoundsInv'
    BY <1>1, <1>2, <1>5, <1>6, <1>7 DEF BoundsInv, OwnersInv, Place, Storing
  <1>10. OwnersInv'
    BY <1>1, <1>2, <1>5, <1>6, <1>7 DEF OwnersInv, Owns, Place, Storing, Writing
  <1>11. LsnsInv'
    BY <1>1, <1>2, <1>5, <1>6, <1>7, <1>9
       DEF BoundsInv, OwnersInv, Owns, ResponsesInv, LfcInv, Outdated, LsnsInv, Changed,
       LwLsn, Place, Storing, Writing
  <1>12. ResponsesInv'
    BY <1>1, <1>2, <1>5, <1>6, <1>7
       DEF BoundsInv, OwnersInv, LsnsInv, Owns, Place, ResponsesInv, Storing, Writing
  <1>13. LfcInv'
    BY <1>1, <1>2, <1>5, <1>6, <1>7, <1>9
       DEF BoundsInv, OwnersInv, Owns, Place, Writing, LsnsInv, ResponsesInv, Storing, LfcInv,
       Outdated, Changed
  <1>. QED BY <1>8, <1>9, <1>10, <1>11, <1>12, <1>13 DEF PcInv

(* The page is done and its block written.                                 *)
LEMMA PageDoneWritten ==
  ASSUME PcInv, NEW b \in PcBackends,
         op[b].pc = "lfcw", LfcLockFree, lfc.gen = op[b].gen,
         lfc' = [lfc EXCEPT !.st = "AVAILABLE", !.v = op[b].v],
         buf' = [st |-> "in", v |-> op[b].v, dirty |-> FALSE], UNCHANGED <<walEnd, mods>>,
         UNCHANGED <<lw, lwMax>>, Goto(b, AtRest), UNCHANGED prefetched
  PROVE  PcInv'
  <1>1. PcTypeOK /\ BoundsInv /\ OwnersInv /\ LsnsInv /\ ResponsesInv /\ LfcInv
    BY DEF PcInv
  <1>2. Latest' = Latest
    BY LatestSame
  <1>3. op[b] \in OpRecords /\ AtRest \in OpRecords
    <2>1. op[b] \in OpRecords /\ lfc.gen \in Nat /\ lwMax \in Nat /\ prefetched[b].v \in Nat
      BY <1>1, PcNumbers DEF PcTypeOK
    <2>. QED BY <2>1, <1>1 DEF OpRecords, AtRest
  <1>4. /\ op' \in [PcBackends -> OpRecords]
        /\ op'[b] = AtRest
        /\ \A c \in PcBackends : c # b => op'[c] = op[c]
    BY <1>1, <1>3, OpMoves DEF PcTypeOK
  <1>5. /\ op'[b].pc = "idle" /\ op'[b].for = "none" /\ op'[b].lsn = 0 /\ op'[b].max = 0
        /\ op'[b].v = 0 /\ op'[b].gen = 0 /\ op'[b].ret = "idle"
    BY <1>3, <1>4 DEF OpRecords, AtRest
  <1>6. \A c \in PcBackends : c # b => op'[c] = op[c]
    BY <1>4
  <1>7. buf'.st = "in" /\ buf'.v = op[b].v /\ buf'.dirty = FALSE
    BY <1>1 DEF PcTypeOK, BufRecords
  <1>8. lfc'.on = lfc.on /\ lfc'.gen = lfc.gen /\ lfc'.st = "AVAILABLE" /\ lfc'.v = op[b].v
    BY <1>1 DEF PcTypeOK, LfcRecords, SwitchedOff
  <1>9. PcTypeOK'
    BY <1>1, <1>4
       DEF PcTypeOK, BufRecords, LfcRecords, SlotRecords, OpRecords, LwRaised, SwitchedOff
  <1>. USE <1>9, PcNumbers
  <1>10. BoundsInv'
    BY <1>1, <1>2, <1>5, <1>6, <1>7, <1>8 DEF BoundsInv, OwnersInv, Place, Storing
  <1>11. OwnersInv'
    BY <1>1, <1>2, <1>5, <1>6, <1>7, <1>8 DEF OwnersInv, Owns, Place, Storing, Writing
  <1>12. LsnsInv'
    BY <1>1, <1>2, <1>5, <1>6, <1>7, <1>8, <1>10
       DEF BoundsInv, OwnersInv, Owns, ResponsesInv, LfcInv, Outdated, LsnsInv, Changed,
       LwLsn, Place, Storing, Writing
  <1>13. ResponsesInv'
    BY <1>1, <1>2, <1>5, <1>6, <1>7, <1>8
       DEF BoundsInv, OwnersInv, LsnsInv, Owns, Place, ResponsesInv, Storing, Writing
  <1>14. LfcInv'
    BY <1>1, <1>2, <1>5, <1>6, <1>7, <1>8, <1>10
       DEF BoundsInv, OwnersInv, Owns, Place, Writing, LsnsInv, ResponsesInv, Storing, LfcInv,
       Outdated, Changed, LfcLockFree, PcAt
  <1>. QED BY <1>9, <1>10, <1>11, <1>12, <1>13, <1>14 DEF PcInv

(* The page is done, but not the write of its block.                       *)
LEMMA PageDoneFails ==
  ASSUME PcInv, NEW b \in PcBackends,
         op[b].pc = "lfcw", LfcLockFree, lfc' = SwitchedOff,
         buf' = [st |-> "in", v |-> op[b].v, dirty |-> FALSE], UNCHANGED <<walEnd, mods>>,
         UNCHANGED <<lw, lwMax>>, Goto(b, AtRest), UNCHANGED prefetched
  PROVE  PcInv'
  <1>1. PcTypeOK /\ BoundsInv /\ OwnersInv /\ LsnsInv /\ ResponsesInv /\ LfcInv
    BY DEF PcInv
  <1>2. Latest' = Latest
    BY LatestSame
  <1>3. op[b] \in OpRecords /\ AtRest \in OpRecords
    <2>1. op[b] \in OpRecords /\ lfc.gen \in Nat /\ lwMax \in Nat /\ prefetched[b].v \in Nat
      BY <1>1, PcNumbers DEF PcTypeOK
    <2>. QED BY <2>1, <1>1 DEF OpRecords, AtRest
  <1>4. /\ op' \in [PcBackends -> OpRecords]
        /\ op'[b] = AtRest
        /\ \A c \in PcBackends : c # b => op'[c] = op[c]
    BY <1>1, <1>3, OpMoves DEF PcTypeOK
  <1>5. /\ op'[b].pc = "idle" /\ op'[b].for = "none" /\ op'[b].lsn = 0 /\ op'[b].max = 0
        /\ op'[b].v = 0 /\ op'[b].gen = 0 /\ op'[b].ret = "idle"
    BY <1>3, <1>4 DEF OpRecords, AtRest
  <1>6. \A c \in PcBackends : c # b => op'[c] = op[c]
    BY <1>4
  <1>7. buf'.st = "in" /\ buf'.v = op[b].v /\ buf'.dirty = FALSE
    BY <1>1 DEF PcTypeOK, BufRecords
  <1>8. lfc'.on = FALSE /\ lfc'.gen = lfc.gen + 1 /\ lfc'.st = "UNAVAILABLE" /\ lfc'.v = 0
    BY <1>1 DEF PcTypeOK, LfcRecords, SwitchedOff
  <1>9. PcTypeOK'
    BY <1>1, <1>4
       DEF PcTypeOK, BufRecords, LfcRecords, SlotRecords, OpRecords, LwRaised, SwitchedOff
  <1>. USE <1>9, PcNumbers
  <1>10. BoundsInv'
    BY <1>1, <1>2, <1>5, <1>6, <1>7, <1>8 DEF BoundsInv, OwnersInv, Place, Storing
  <1>11. OwnersInv'
    BY <1>1, <1>2, <1>5, <1>6, <1>7, <1>8 DEF OwnersInv, Owns, Place, Storing, Writing
  <1>12. LsnsInv'
    BY <1>1, <1>2, <1>5, <1>6, <1>7, <1>8, <1>10
       DEF BoundsInv, OwnersInv, Owns, ResponsesInv, LfcInv, Outdated, LsnsInv, Changed,
       LwLsn, Place, Storing, Writing
  <1>13. ResponsesInv'
    BY <1>1, <1>2, <1>5, <1>6, <1>7, <1>8
       DEF BoundsInv, OwnersInv, LsnsInv, Owns, Place, ResponsesInv, Storing, Writing
  <1>14. LfcInv'
    BY <1>1, <1>2, <1>5, <1>6, <1>7, <1>8, <1>10
       DEF BoundsInv, OwnersInv, Owns, Place, Writing, LsnsInv, ResponsesInv, Storing, LfcInv,
       Outdated, Changed, LfcLockFree, PcAt
  <1>. QED BY <1>9, <1>10, <1>11, <1>12, <1>13, <1>14 DEF PcInv

(* lfc_write is going to write the block.                                  *)
LEMMA WriteBegins ==
  ASSUME PcInv, NEW b \in PcBackends,
         op[b].pc = "write", lfc.on, lfc.st # "PENDING",
         lfc' = [lfc EXCEPT !.st = IF @ = "UNAVAILABLE" THEN "PENDING" ELSE @],
         UNCHANGED <<walEnd, mods>>, UNCHANGED <<lw, lwMax>>, UNCHANGED buf,
         Goto(b, [op[b] EXCEPT !.pc = "lfcw", !.gen = lfc.gen]), UNCHANGED prefetched
  PROVE  PcInv'
  <1>1. PcTypeOK /\ BoundsInv /\ OwnersInv /\ LsnsInv /\ ResponsesInv /\ LfcInv
    BY DEF PcInv
  <1>2. Latest' = Latest
    BY LatestSame
  <1>3. op[b] \in OpRecords /\ [op[b] EXCEPT !.pc = "lfcw", !.gen = lfc.gen] \in OpRecords
    <2>1. op[b] \in OpRecords /\ lfc.gen \in Nat /\ lwMax \in Nat /\ prefetched[b].v \in Nat
      BY <1>1, PcNumbers DEF PcTypeOK
    <2>. QED BY <2>1, <1>1 DEF OpRecords
  <1>4. /\ op' \in [PcBackends -> OpRecords]
        /\ op'[b] = [op[b] EXCEPT !.pc = "lfcw", !.gen = lfc.gen]
        /\ \A c \in PcBackends : c # b => op'[c] = op[c]
    BY <1>1, <1>3, OpMoves DEF PcTypeOK
  <1>5. /\ op'[b].pc = "lfcw" /\ op'[b].for = op[b].for /\ op'[b].lsn = op[b].lsn
        /\ op'[b].max = op[b].max /\ op'[b].v = op[b].v /\ op'[b].gen = lfc.gen
        /\ op'[b].ret = op[b].ret
    BY <1>3, <1>4 DEF OpRecords
  <1>6. \A c \in PcBackends : c # b => op'[c] = op[c]
    BY <1>4
  <1>7. /\ lfc'.on = lfc.on /\ lfc'.gen = lfc.gen
        /\ lfc'.st = (IF lfc.st = "UNAVAILABLE" THEN "PENDING" ELSE lfc.st) /\ lfc'.v = lfc.v
    BY <1>1 DEF PcTypeOK, LfcRecords, SwitchedOff
  <1>8. PcTypeOK'
    BY <1>1, <1>4
       DEF PcTypeOK, BufRecords, LfcRecords, SlotRecords, OpRecords, LwRaised, SwitchedOff
  <1>. USE <1>8, PcNumbers
  <1>9. BoundsInv'
    BY <1>1, <1>2, <1>5, <1>6, <1>7 DEF BoundsInv, OwnersInv, Place, Storing
  <1>10. OwnersInv'
    BY <1>1, <1>2, <1>5, <1>6, <1>7 DEF OwnersInv, Owns, Place, Storing, Writing
  <1>11. LsnsInv'
    BY <1>1, <1>2, <1>5, <1>6, <1>7, <1>9
       DEF BoundsInv, OwnersInv, Owns, ResponsesInv, LfcInv, Outdated, LsnsInv, Changed,
       LwLsn, Place, Storing, Writing
  <1>12. ResponsesInv'
    BY <1>1, <1>2, <1>5, <1>6, <1>7
       DEF BoundsInv, OwnersInv, LsnsInv, Owns, Place, ResponsesInv, Storing, Writing
  <1>13. LfcInv'
    BY <1>1, <1>2, <1>5, <1>6, <1>7, <1>9
       DEF BoundsInv, OwnersInv, Owns, Place, Writing, LsnsInv, ResponsesInv, Storing, LfcInv,
       Outdated, Changed
  <1>. QED BY <1>8, <1>9, <1>10, <1>11, <1>12, <1>13 DEF PcInv

(* lfc_write waits for another who writes the block.                       *)
LEMMA WriteWaits ==
  ASSUME PcInv, NEW b \in PcBackends,
         op[b].pc = "write", lfc.on, lfc.st = "PENDING", UNCHANGED <<walEnd, mods>>,
         UNCHANGED <<lw, lwMax>>, UNCHANGED buf, UNCHANGED lfc,
         Goto(b, [op[b] EXCEPT !.pc = "lfcww", !.gen = lfc.gen]), UNCHANGED prefetched
  PROVE  PcInv'
  <1>1. PcTypeOK /\ BoundsInv /\ OwnersInv /\ LsnsInv /\ ResponsesInv /\ LfcInv
    BY DEF PcInv
  <1>2. Latest' = Latest
    BY LatestSame
  <1>3. op[b] \in OpRecords /\ [op[b] EXCEPT !.pc = "lfcww", !.gen = lfc.gen] \in OpRecords
    <2>1. op[b] \in OpRecords /\ lfc.gen \in Nat /\ lwMax \in Nat /\ prefetched[b].v \in Nat
      BY <1>1, PcNumbers DEF PcTypeOK
    <2>. QED BY <2>1, <1>1 DEF OpRecords
  <1>4. /\ op' \in [PcBackends -> OpRecords]
        /\ op'[b] = [op[b] EXCEPT !.pc = "lfcww", !.gen = lfc.gen]
        /\ \A c \in PcBackends : c # b => op'[c] = op[c]
    BY <1>1, <1>3, OpMoves DEF PcTypeOK
  <1>5. /\ op'[b].pc = "lfcww" /\ op'[b].for = op[b].for /\ op'[b].lsn = op[b].lsn
        /\ op'[b].max = op[b].max /\ op'[b].v = op[b].v /\ op'[b].gen = lfc.gen
        /\ op'[b].ret = op[b].ret
    BY <1>3, <1>4 DEF OpRecords
  <1>6. \A c \in PcBackends : c # b => op'[c] = op[c]
    BY <1>4
  <1>7. PcTypeOK'
    BY <1>1, <1>4
       DEF PcTypeOK, BufRecords, LfcRecords, SlotRecords, OpRecords, LwRaised, SwitchedOff
  <1>. USE <1>7, PcNumbers
  <1>8. BoundsInv'
    BY <1>1, <1>2, <1>5, <1>6 DEF BoundsInv, OwnersInv, Place, Storing
  <1>9. OwnersInv'
    BY <1>1, <1>2, <1>5, <1>6 DEF OwnersInv, Owns, Place, Storing, Writing
  <1>10. LsnsInv'
    BY <1>1, <1>2, <1>5, <1>6, <1>8
       DEF BoundsInv, OwnersInv, Owns, ResponsesInv, LfcInv, Outdated, LsnsInv, Changed,
       LwLsn, Place, Storing, Writing
  <1>11. ResponsesInv'
    BY <1>1, <1>2, <1>5, <1>6
       DEF BoundsInv, OwnersInv, LsnsInv, Owns, Place, ResponsesInv, Storing, Writing
  <1>12. LfcInv'
    BY <1>1, <1>2, <1>5, <1>6, <1>8
       DEF BoundsInv, OwnersInv, Owns, Place, Writing, LsnsInv, ResponsesInv, Storing, LfcInv,
       Outdated, Changed
  <1>. QED BY <1>7, <1>8, <1>9, <1>10, <1>11, <1>12 DEF PcInv

(* lfc_write has waited for the other.                                     *)
LEMMA WriteResumes ==
  ASSUME PcInv, NEW b \in PcBackends,
         op[b].pc = "lfcww", lfc.gen = op[b].gen, lfc.st # "PENDING",
         UNCHANGED <<walEnd, mods>>, UNCHANGED <<lw, lwMax>>, UNCHANGED buf, UNCHANGED lfc,
         Goto(b, [op[b] EXCEPT !.pc = "lfcw"]), UNCHANGED prefetched
  PROVE  PcInv'
  <1>1. PcTypeOK /\ BoundsInv /\ OwnersInv /\ LsnsInv /\ ResponsesInv /\ LfcInv
    BY DEF PcInv
  <1>2. Latest' = Latest
    BY LatestSame
  <1>3. op[b] \in OpRecords /\ [op[b] EXCEPT !.pc = "lfcw"] \in OpRecords
    <2>1. op[b] \in OpRecords /\ lfc.gen \in Nat /\ lwMax \in Nat /\ prefetched[b].v \in Nat
      BY <1>1, PcNumbers DEF PcTypeOK
    <2>. QED BY <2>1, <1>1 DEF OpRecords
  <1>4. /\ op' \in [PcBackends -> OpRecords]
        /\ op'[b] = [op[b] EXCEPT !.pc = "lfcw"]
        /\ \A c \in PcBackends : c # b => op'[c] = op[c]
    BY <1>1, <1>3, OpMoves DEF PcTypeOK
  <1>5. /\ op'[b].pc = "lfcw" /\ op'[b].for = op[b].for /\ op'[b].lsn = op[b].lsn
        /\ op'[b].max = op[b].max /\ op'[b].v = op[b].v /\ op'[b].gen = op[b].gen
        /\ op'[b].ret = op[b].ret
    BY <1>3, <1>4 DEF OpRecords
  <1>6. \A c \in PcBackends : c # b => op'[c] = op[c]
    BY <1>4
  <1>7. PcTypeOK'
    BY <1>1, <1>4
       DEF PcTypeOK, BufRecords, LfcRecords, SlotRecords, OpRecords, LwRaised, SwitchedOff
  <1>. USE <1>7, PcNumbers
  <1>8. BoundsInv'
    BY <1>1, <1>2, <1>5, <1>6 DEF BoundsInv, OwnersInv, Place, Storing
  <1>9. OwnersInv'
    BY <1>1, <1>2, <1>5, <1>6 DEF OwnersInv, Owns, Place, Storing, Writing
  <1>10. LsnsInv'
    BY <1>1, <1>2, <1>5, <1>6, <1>8
       DEF BoundsInv, OwnersInv, Owns, ResponsesInv, LfcInv, Outdated, LsnsInv, Changed,
       LwLsn, Place, Storing, Writing
  <1>11. ResponsesInv'
    BY <1>1, <1>2, <1>5, <1>6
       DEF BoundsInv, OwnersInv, LsnsInv, Owns, Place, ResponsesInv, Storing, Writing
  <1>12. LfcInv'
    BY <1>1, <1>2, <1>5, <1>6, <1>8
       DEF BoundsInv, OwnersInv, Owns, Place, Writing, LsnsInv, ResponsesInv, Storing, LfcInv,
       Outdated, Changed
  <1>. QED BY <1>7, <1>8, <1>9, <1>10, <1>11, <1>12 DEF PcInv

(* The page is to be prefetched.                                           *)
LEMMA PrefetchBegins ==
  ASSUME PcInv, NEW b \in PcBackends,
         op[b].pc = "idle", UNCHANGED <<walEnd, mods>>, UNCHANGED <<lw, lwMax>>,
         UNCHANGED buf, UNCHANGED lfc,
         Goto(b, [AtRest EXCEPT !.pc = "lsns", !.for = "prefetch"]), UNCHANGED prefetched
  PROVE  PcInv'
  <1>1. PcTypeOK /\ BoundsInv /\ OwnersInv /\ LsnsInv /\ ResponsesInv /\ LfcInv
    BY DEF PcInv
  <1>2. Latest' = Latest
    BY LatestSame
  <1>3. op[b] \in OpRecords /\ [AtRest EXCEPT !.pc = "lsns", !.for = "prefetch"] \in OpRecords
    <2>1. op[b] \in OpRecords /\ lfc.gen \in Nat /\ lwMax \in Nat /\ prefetched[b].v \in Nat
      BY <1>1, PcNumbers DEF PcTypeOK
    <2>. QED BY <2>1, <1>1 DEF OpRecords, AtRest
  <1>4. /\ op' \in [PcBackends -> OpRecords]
        /\ op'[b] = [AtRest EXCEPT !.pc = "lsns", !.for = "prefetch"]
        /\ \A c \in PcBackends : c # b => op'[c] = op[c]
    BY <1>1, <1>3, OpMoves DEF PcTypeOK
  <1>5. /\ op'[b].pc = "lsns" /\ op'[b].for = "prefetch" /\ op'[b].lsn = 0 /\ op'[b].max = 0
        /\ op'[b].v = 0 /\ op'[b].gen = 0 /\ op'[b].ret = "idle"
    BY <1>3, <1>4 DEF OpRecords, AtRest
  <1>6. \A c \in PcBackends : c # b => op'[c] = op[c]
    BY <1>4
  <1>7. PcTypeOK'
    BY <1>1, <1>4
       DEF PcTypeOK, BufRecords, LfcRecords, SlotRecords, OpRecords, LwRaised, SwitchedOff
  <1>. USE <1>7, PcNumbers
  <1>8. BoundsInv'
    BY <1>1, <1>2, <1>5, <1>6 DEF BoundsInv, OwnersInv, Place, Storing
  <1>9. OwnersInv'
    BY <1>1, <1>2, <1>5, <1>6 DEF OwnersInv, Owns, Place, Storing, Writing
  <1>10. LsnsInv'
    BY <1>1, <1>2, <1>5, <1>6, <1>8
       DEF BoundsInv, OwnersInv, Owns, ResponsesInv, LfcInv, Outdated, LsnsInv, Changed,
       LwLsn, Place, Storing, Writing
  <1>11. ResponsesInv'
    BY <1>1, <1>2, <1>5, <1>6
       DEF BoundsInv, OwnersInv, LsnsInv, Owns, Place, ResponsesInv, Storing, Writing
  <1>12. LfcInv'
    BY <1>1, <1>2, <1>5, <1>6, <1>8
       DEF BoundsInv, OwnersInv, Owns, Place, Writing, LsnsInv, ResponsesInv, Storing, LfcInv,
       Outdated, Changed
  <1>. QED BY <1>7, <1>8, <1>9, <1>10, <1>11, <1>12 DEF PcInv

(* A response is received, and offered to the file cache.                  *)
LEMMA ReceivesToStore ==
  ASSUME PcInv, NEW b \in PcBackends,
         prefetched[b].st = "ANSWERED", op[b].pc \in {"idle", "lsns", "wait"},
         UNCHANGED <<walEnd, mods>>, UNCHANGED <<lw, lwMax>>, UNCHANGED buf, UNCHANGED lfc,
         Goto(b, [op[b] EXCEPT !.pc = "store", !.ret = op[b].pc]),
         prefetched' = [prefetched EXCEPT ![b] = [prefetched[b] EXCEPT !.st = "RECEIVED"]]
  PROVE  PcInv'
  <1>1. PcTypeOK /\ BoundsInv /\ OwnersInv /\ LsnsInv /\ ResponsesInv /\ LfcInv
    BY DEF PcInv
  <1>2. Latest' = Latest
    BY LatestSame
  <1>3. op[b] \in OpRecords /\ [op[b] EXCEPT !.pc = "store", !.ret = op[b].pc] \in OpRecords
    <2>1. op[b] \in OpRecords /\ lfc.gen \in Nat /\ lwMax \in Nat /\ prefetched[b].v \in Nat
      BY <1>1, PcNumbers DEF PcTypeOK
    <2>. QED BY <2>1, <1>1 DEF OpRecords
  <1>4. /\ op' \in [PcBackends -> OpRecords]
        /\ op'[b] = [op[b] EXCEPT !.pc = "store", !.ret = op[b].pc]
        /\ \A c \in PcBackends : c # b => op'[c] = op[c]
    BY <1>1, <1>3, OpMoves DEF PcTypeOK
  <1>5. /\ op'[b].pc = "store" /\ op'[b].for = op[b].for /\ op'[b].lsn = op[b].lsn
        /\ op'[b].max = op[b].max /\ op'[b].v = op[b].v /\ op'[b].gen = op[b].gen
        /\ op'[b].ret = op[b].pc
    BY <1>3, <1>4 DEF OpRecords
  <1>6. \A c \in PcBackends : c # b => op'[c] = op[c]
    BY <1>4
  <1>7. /\ prefetched[b] \in SlotRecords
        /\ [prefetched[b] EXCEPT !.st = "RECEIVED"] \in SlotRecords
    BY <1>1 DEF PcTypeOK, BufRecords, LfcRecords, SlotRecords, OpRecords, NoSlot
  <1>8. /\ prefetched' \in [PcBackends -> SlotRecords]
        /\ prefetched'[b] = [prefetched[b] EXCEPT !.st = "RECEIVED"]
        /\ \A c \in PcBackends : c # b => prefetched'[c] = prefetched[c]
    BY <1>1, <1>7, SlotMoves DEF PcTypeOK
  <1>9. /\ prefetched'[b].st = "RECEIVED" /\ prefetched'[b].nms = prefetched[b].nms
        /\ prefetched'[b].v = prefetched[b].v
    BY <1>7, <1>8 DEF SlotRecords, NoSlot
  <1>10. \A c \in PcBackends : c # b => prefetched'[c] = prefetched[c]
    BY <1>8
  <1>11. PcTypeOK'
    BY <1>1, <1>4, <1>8
       DEF PcTypeOK, BufRecords, LfcRecords, SlotRecords, OpRecords, LwRaised, SwitchedOff
  <1>. USE <1>11, PcNumbers
  <1>12. BoundsInv'
    BY <1>1, <1>2, <1>5, <1>6, <1>9, <1>10 DEF BoundsInv, OwnersInv, Place, Storing
  <1>13. OwnersInv'
    BY <1>1, <1>2, <1>5, <1>6, <1>9, <1>10 DEF OwnersInv, Owns, Place, Storing, Writing
  <1>14. LsnsInv'
    BY <1>1, <1>2, <1>5, <1>6, <1>9, <1>10, <1>12
       DEF BoundsInv, OwnersInv, Owns, ResponsesInv, LfcInv, Outdated, LsnsInv, Changed,
       LwLsn, Place, Storing, Writing
  <1>15. ResponsesInv'
    BY <1>1, <1>2, <1>5, <1>6, <1>9, <1>10
       DEF BoundsInv, OwnersInv, LsnsInv, Owns, Place, ResponsesInv, Storing, Writing
  <1>16. LfcInv'
    BY <1>1, <1>2, <1>5, <1>6, <1>9, <1>10, <1>12
       DEF BoundsInv, OwnersInv, Owns, Place, Writing, LsnsInv, ResponsesInv, Storing, LfcInv,
       Outdated, Changed
  <1>. QED BY <1>11, <1>12, <1>13, <1>14, <1>15, <1>16 DEF PcInv

(* A response is received.                                                 *)
LEMMA ReceivesOnly ==
  ASSUME PcInv, NEW b \in PcBackends,
         prefetched[b].st = "ANSWERED", UNCHANGED <<walEnd, mods>>, UNCHANGED <<lw, lwMax>>,
         UNCHANGED buf, UNCHANGED lfc, UNCHANGED op,
         prefetched' = [prefetched EXCEPT ![b] = [prefetched[b] EXCEPT !.st = "RECEIVED"]]
  PROVE  PcInv'
  <1>1. PcTypeOK /\ BoundsInv /\ OwnersInv /\ LsnsInv /\ ResponsesInv /\ LfcInv
    BY DEF PcInv
  <1>2. Latest' = Latest
    BY LatestSame
  <1>3. /\ prefetched[b] \in SlotRecords
        /\ [prefetched[b] EXCEPT !.st = "RECEIVED"] \in SlotRecords
    BY <1>1 DEF PcTypeOK, BufRecords, LfcRecords, SlotRecords, OpRecords, NoSlot
  <1>4. /\ prefetched' \in [PcBackends -> SlotRecords]
        /\ prefetched'[b] = [prefetched[b] EXCEPT !.st = "RECEIVED"]
        /\ \A c \in PcBackends : c # b => prefetched'[c] = prefetched[c]
    BY <1>1, <1>3, SlotMoves DEF PcTypeOK
  <1>5. /\ prefetched'[b].st = "RECEIVED" /\ prefetched'[b].nms = prefetched[b].nms
        /\ prefetched'[b].v = prefetched[b].v
    BY <1>3, <1>4 DEF SlotRecords, NoSlot
  <1>6. \A c \in PcBackends : c # b => prefetched'[c] = prefetched[c]
    BY <1>4
  <1>7. PcTypeOK'
    BY <1>1, <1>4
       DEF PcTypeOK, BufRecords, LfcRecords, SlotRecords, OpRecords, LwRaised, SwitchedOff
  <1>. USE <1>7, PcNumbers
  <1>8. BoundsInv'
    BY <1>1, <1>2, <1>5, <1>6 DEF BoundsInv, OwnersInv, Place, Storing
  <1>9. OwnersInv'
    BY <1>1, <1>2, <1>5, <1>6 DEF OwnersInv, Owns, Place, Storing, Writing
  <1>10. LsnsInv'
    BY <1>1, <1>2, <1>5, <1>6, <1>8
       DEF BoundsInv, OwnersInv, Owns, ResponsesInv, LfcInv, Outdated, LsnsInv, Changed,
       LwLsn, Place, Storing, Writing
  <1>11. ResponsesInv'
    BY <1>1, <1>2, <1>5, <1>6
       DEF BoundsInv, OwnersInv, LsnsInv, Owns, Place, ResponsesInv, Storing, Writing
  <1>12. LfcInv'
    BY <1>1, <1>2, <1>5, <1>6, <1>8
       DEF BoundsInv, OwnersInv, Owns, Place, Writing, LsnsInv, ResponsesInv, Storing, LfcInv,
       Outdated, Changed
  <1>. QED BY <1>7, <1>8, <1>9, <1>10, <1>11, <1>12 DEF PcInv

(* The page is to be read.                                                 *)
LEMMA ReadBegins ==
  ASSUME PcInv, NEW b \in PcBackends,
         op[b].pc = "idle", buf.st = "out", buf' = [buf EXCEPT !.st = "reading"],
         UNCHANGED <<walEnd, mods>>, UNCHANGED <<lw, lwMax>>, UNCHANGED lfc,
         Goto(b, [AtRest EXCEPT !.pc = "lsns", !.for = "read"]), UNCHANGED prefetched
  PROVE  PcInv'
  <1>1. PcTypeOK /\ BoundsInv /\ OwnersInv /\ LsnsInv /\ ResponsesInv /\ LfcInv
    BY DEF PcInv
  <1>2. Latest' = Latest
    BY LatestSame
  <1>3. op[b] \in OpRecords /\ [AtRest EXCEPT !.pc = "lsns", !.for = "read"] \in OpRecords
    <2>1. op[b] \in OpRecords /\ lfc.gen \in Nat /\ lwMax \in Nat /\ prefetched[b].v \in Nat
      BY <1>1, PcNumbers DEF PcTypeOK
    <2>. QED BY <2>1, <1>1 DEF OpRecords, AtRest
  <1>4. /\ op' \in [PcBackends -> OpRecords]
        /\ op'[b] = [AtRest EXCEPT !.pc = "lsns", !.for = "read"]
        /\ \A c \in PcBackends : c # b => op'[c] = op[c]
    BY <1>1, <1>3, OpMoves DEF PcTypeOK
  <1>5. /\ op'[b].pc = "lsns" /\ op'[b].for = "read" /\ op'[b].lsn = 0 /\ op'[b].max = 0
        /\ op'[b].v = 0 /\ op'[b].gen = 0 /\ op'[b].ret = "idle"
    BY <1>3, <1>4 DEF OpRecords, AtRest
  <1>6. \A c \in PcBackends : c # b => op'[c] = op[c]
    BY <1>4
  <1>7. buf'.st = "reading" /\ buf'.v = buf.v /\ buf'.dirty = buf.dirty
    BY <1>1 DEF PcTypeOK, BufRecords
  <1>8. PcTypeOK'
    BY <1>1, <1>4
       DEF PcTypeOK, BufRecords, LfcRecords, SlotRecords, OpRecords, LwRaised, SwitchedOff
  <1>. USE <1>8, PcNumbers
  <1>9. BoundsInv'
    BY <1>1, <1>2, <1>5, <1>6, <1>7 DEF BoundsInv, OwnersInv, Place, Storing
  <1>10. OwnersInv'
    BY <1>1, <1>2, <1>5, <1>6, <1>7 DEF OwnersInv, Owns, Place, Storing, Writing
  <1>11. LsnsInv'
    BY <1>1, <1>2, <1>5, <1>6, <1>7, <1>9
       DEF BoundsInv, OwnersInv, Owns, ResponsesInv, LfcInv, Outdated, LsnsInv, Changed,
       LwLsn, Place, Storing, Writing
  <1>12. ResponsesInv'
    BY <1>1, <1>2, <1>5, <1>6, <1>7
       DEF BoundsInv, OwnersInv, LsnsInv, Owns, Place, ResponsesInv, Storing, Writing
  <1>13. LfcInv'
    BY <1>1, <1>2, <1>5, <1>6, <1>7, <1>9
       DEF BoundsInv, OwnersInv, Owns, Place, Writing, LsnsInv, ResponsesInv, Storing, LfcInv,
       Outdated, Changed
  <1>. QED BY <1>8, <1>9, <1>10, <1>11, <1>12, <1>13 DEF PcInv

(* The page is to be written out.                                          *)
LEMMA WriteOutBegins ==
  ASSUME PcInv, NEW b \in PcBackends,
         op[b].pc = "idle", buf.st = "in", buf.dirty, buf' = [buf EXCEPT !.st = "writing"],
         UNCHANGED <<walEnd, mods>>, lwMax' = lwMax, lw' \in Nat, lw <= lw', lw' <= walEnd,
         buf.v <= lw', UNCHANGED lfc, Goto(b, [AtRest EXCEPT !.pc = "write", !.v = buf.v]),
         UNCHANGED prefetched
  PROVE  PcInv'
  <1>1. PcTypeOK /\ BoundsInv /\ OwnersInv /\ LsnsInv /\ ResponsesInv /\ LfcInv
    BY DEF PcInv
  <1>2. Latest' = Latest
    BY LatestSame
  <1>3. op[b] \in OpRecords /\ [AtRest EXCEPT !.pc = "write", !.v = buf.v] \in OpRecords
    <2>1. op[b] \in OpRecords /\ lfc.gen \in Nat /\ lwMax \in Nat /\ prefetched[b].v \in Nat
      BY <1>1, PcNumbers DEF PcTypeOK
    <2>. QED BY <2>1, <1>1 DEF OpRecords, AtRest, PcTypeOK, BufRecords
  <1>4. /\ op' \in [PcBackends -> OpRecords]
        /\ op'[b] = [AtRest EXCEPT !.pc = "write", !.v = buf.v]
        /\ \A c \in PcBackends : c # b => op'[c] = op[c]
    BY <1>1, <1>3, OpMoves DEF PcTypeOK
  <1>5. /\ op'[b].pc = "write" /\ op'[b].for = "none" /\ op'[b].lsn = 0 /\ op'[b].max = 0
        /\ op'[b].v = buf.v /\ op'[b].gen = 0 /\ op'[b].ret = "idle"
    BY <1>3, <1>4 DEF OpRecords, AtRest
  <1>6. \A c \in PcBackends : c # b => op'[c] = op[c]
    BY <1>4
  <1>7. buf'.st = "writing" /\ buf'.v = buf.v /\ buf'.dirty = buf.dirty
    BY <1>1 DEF PcTypeOK, BufRecords
  <1>8. PcTypeOK'
    BY <1>1, <1>4
       DEF PcTypeOK, BufRecords, LfcRecords, SlotRecords, OpRecords, LwRaised, SwitchedOff
  <1>. USE <1>8, PcNumbers
  <1>9. BoundsInv'
    BY <1>1, <1>2, <1>5, <1>6, <1>7 DEF BoundsInv, OwnersInv, Place, Storing
  <1>10. OwnersInv'
    BY <1>1, <1>2, <1>5, <1>6, <1>7 DEF OwnersInv, Owns, Place, Storing, Writing
  <1>11. LsnsInv'
    BY <1>1, <1>2, <1>5, <1>6, <1>7, <1>9
       DEF BoundsInv, OwnersInv, Owns, ResponsesInv, LfcInv, Outdated, LsnsInv, Changed,
       LwLsn, Place, Storing, Writing
  <1>12. ResponsesInv'
    BY <1>1, <1>2, <1>5, <1>6, <1>7
       DEF BoundsInv, OwnersInv, LsnsInv, Owns, Place, ResponsesInv, Storing, Writing
  <1>13. LfcInv'
    BY <1>1, <1>2, <1>5, <1>6, <1>7, <1>9
       DEF BoundsInv, OwnersInv, Owns, Place, Writing, LsnsInv, ResponsesInv, Storing, LfcInv,
       Outdated, Changed
  <1>. QED BY <1>8, <1>9, <1>10, <1>11, <1>12, <1>13 DEF PcInv

(* A change of the page keeps the invariant.                               *)
LEMMA ModifyStep ==
  ASSUME PcInv, Modify
  PROVE  PcInv'
  <1>. USE DEF Modify, wal, lwCache
  <1>1. PcTypeOK /\ BoundsInv /\ OwnersInv /\ LsnsInv /\ ResponsesInv /\ LfcInv
    BY DEF PcInv
  <1>2. Latest' = walEnd + 1
    <2>1. mods' \subseteq Nat /\ walEnd + 1 \in mods' /\ \A n \in mods' : n <= walEnd + 1
      BY <1>1 DEF PcTypeOK, BoundsInv
    <2>. QED BY <2>1, MaxIs DEF Latest
  <1>3. PcTypeOK'
    BY <1>1, <1>2, MaxOfTwo DEF PcTypeOK, BufRecords, LfcRecords, SlotRecords, OpRecords
  <1>4. BoundsInv'
    BY <1>1, <1>2, MaxOfTwo, <1>3
       DEF PcTypeOK, BufRecords, LfcRecords, SlotRecords, OpRecords, BoundsInv, OwnersInv,
       LsnsInv, ResponsesInv, Place, Storing
  <1>5. OwnersInv'
    BY <1>1, <1>2, MaxOfTwo, <1>3
       DEF PcTypeOK, BufRecords, LfcRecords, SlotRecords, OpRecords, OwnersInv, Owns, Place,
       Storing, Writing
  <1>6. LsnsInv'
    BY <1>1, <1>2, MaxOfTwo, <1>3, <1>4, <1>5
       DEF PcTypeOK, BufRecords, LfcRecords, SlotRecords, OpRecords, BoundsInv, OwnersInv,
       Owns, ResponsesInv, LfcInv, Outdated, LsnsInv, Changed, LwLsn, Place, Storing, Writing
  <1>7. ResponsesInv'
    BY <1>1, <1>2, MaxOfTwo, <1>3, <1>4
       DEF PcTypeOK, BufRecords, LfcRecords, SlotRecords, OpRecords, BoundsInv, OwnersInv,
       Owns, Writing, Place, ResponsesInv, Storing
  <1>8. LfcInv'
    BY <1>1, <1>2, MaxOfTwo, <1>3, <1>4, <1>5, <1>6
       DEF PcTypeOK, BufRecords, LfcRecords, SlotRecords, OpRecords, BoundsInv, OwnersInv,
       Owns, Writing, Place, LsnsInv, ResponsesInv, Storing, LwLsn, LfcInv, Outdated, Changed
  <1>. QED BY <1>3, <1>4, <1>5, <1>6, <1>7, <1>8 DEF PcInv

(* WAL of other pages.                                                     *)
LEMMA ModifyOtherStep ==
  ASSUME PcInv, ModifyOther
  PROVE  PcInv'
  <1>. USE DEF ModifyOther, wal, lwCache, LfcLockFree, PcAt, Pinned, SwitchedOff
  <1>1. PcTypeOK /\ BoundsInv /\ OwnersInv /\ LsnsInv /\ ResponsesInv /\ LfcInv
    BY DEF PcInv
  <1>2. Latest' = Latest
    BY DEF Latest, wal
  <1>3. PcTypeOK'
    BY <1>1, <1>2, MaxOfTwo DEF PcTypeOK, BufRecords, LfcRecords, SlotRecords, OpRecords
  <1>4. BoundsInv'
    BY <1>1, <1>2, MaxOfTwo, <1>3
       DEF PcTypeOK, BufRecords, LfcRecords, SlotRecords, OpRecords, BoundsInv, OwnersInv,
       LsnsInv, ResponsesInv, Place, Storing
  <1>5. OwnersInv'
    BY <1>1, <1>2, MaxOfTwo, <1>3
       DEF PcTypeOK, BufRecords, LfcRecords, SlotRecords, OpRecords, OwnersInv, Owns, Place,
       Storing, Writing
  <1>6. LsnsInv'
    BY <1>1, <1>2, MaxOfTwo, <1>3, <1>4, <1>5
       DEF PcTypeOK, BufRecords, LfcRecords, SlotRecords, OpRecords, BoundsInv, OwnersInv,
       Owns, ResponsesInv, LfcInv, Outdated, LsnsInv, Changed, LwLsn, Place, Storing, Writing
  <1>7. ResponsesInv'
    BY <1>1, <1>2, MaxOfTwo, <1>3, <1>4
       DEF PcTypeOK, BufRecords, LfcRecords, SlotRecords, OpRecords, BoundsInv, OwnersInv,
       Owns, Writing, Place, ResponsesInv, Storing
  <1>8. LfcInv'
    BY <1>1, <1>2, MaxOfTwo, <1>3, <1>4, <1>5, <1>6
       DEF PcTypeOK, BufRecords, LfcRecords, SlotRecords, OpRecords, BoundsInv, OwnersInv,
       Owns, Writing, Place, LsnsInv, ResponsesInv, Storing, LwLsn, LfcInv, Outdated, Changed
  <1>. QED BY <1>3, <1>4, <1>5, <1>6, <1>7, <1>8 DEF PcInv

(* A clean page leaves shared buffers.                                     *)
LEMMA EvictBufferStep ==
  ASSUME PcInv, EvictBuffer
  PROVE  PcInv'
  <1>. USE DEF EvictBuffer, wal, lwCache, LfcLockFree, PcAt, Pinned, SwitchedOff
  <1>1. PcTypeOK /\ BoundsInv /\ OwnersInv /\ LsnsInv /\ ResponsesInv /\ LfcInv
    BY DEF PcInv
  <1>2. Latest' = Latest
    BY DEF Latest, wal
  <1>3. PcTypeOK'
    BY <1>1, <1>2, MaxOfTwo DEF PcTypeOK, BufRecords, LfcRecords, SlotRecords, OpRecords
  <1>4. BoundsInv'
    BY <1>1, <1>2, MaxOfTwo, <1>3
       DEF PcTypeOK, BufRecords, LfcRecords, SlotRecords, OpRecords, BoundsInv, OwnersInv,
       LsnsInv, ResponsesInv, Place, Storing
  <1>5. OwnersInv'
    BY <1>1, <1>2, MaxOfTwo, <1>3
       DEF PcTypeOK, BufRecords, LfcRecords, SlotRecords, OpRecords, OwnersInv, Owns, Place,
       Storing, Writing
  <1>6. LsnsInv'
    BY <1>1, <1>2, MaxOfTwo, <1>3, <1>4, <1>5
       DEF PcTypeOK, BufRecords, LfcRecords, SlotRecords, OpRecords, BoundsInv, OwnersInv,
       Owns, ResponsesInv, LfcInv, Outdated, LsnsInv, Changed, LwLsn, Place, Storing, Writing
  <1>7. ResponsesInv'
    BY <1>1, <1>2, MaxOfTwo, <1>3, <1>4
       DEF PcTypeOK, BufRecords, LfcRecords, SlotRecords, OpRecords, BoundsInv, OwnersInv,
       Owns, Writing, Place, ResponsesInv, Storing
  <1>8. LfcInv'
    BY <1>1, <1>2, MaxOfTwo, <1>3, <1>4, <1>5, <1>6
       DEF PcTypeOK, BufRecords, LfcRecords, SlotRecords, OpRecords, BoundsInv, OwnersInv,
       Owns, Writing, Place, LsnsInv, ResponsesInv, Storing, LwLsn, LfcInv, Outdated, Changed
  <1>. QED BY <1>3, <1>4, <1>5, <1>6, <1>7, <1>8 DEF PcInv

(* A chunk of the file cache makes room for another.                       *)
LEMMA EvictChunkStep ==
  ASSUME PcInv, EvictChunk
  PROVE  PcInv'
  <1>. USE DEF EvictChunk, wal, lwCache, LfcLockFree, PcAt, Pinned, SwitchedOff
  <1>1. PcTypeOK /\ BoundsInv /\ OwnersInv /\ LsnsInv /\ ResponsesInv /\ LfcInv
    BY DEF PcInv
  <1>2. Latest' = Latest
    BY DEF Latest, wal
  <1>3. PcTypeOK'
    BY <1>1, <1>2, MaxOfTwo DEF PcTypeOK, BufRecords, LfcRecords, SlotRecords, OpRecords
  <1>4. BoundsInv'
    BY <1>1, <1>2, MaxOfTwo, <1>3
       DEF PcTypeOK, BufRecords, LfcRecords, SlotRecords, OpRecords, BoundsInv, OwnersInv,
       LsnsInv, ResponsesInv, Place, Storing
  <1>5. OwnersInv'
    BY <1>1, <1>2, MaxOfTwo, <1>3
       DEF PcTypeOK, BufRecords, LfcRecords, SlotRecords, OpRecords, OwnersInv, Owns, Place,
       Storing, Writing
  <1>6. LsnsInv'
    BY <1>1, <1>2, MaxOfTwo, <1>3, <1>4, <1>5
       DEF PcTypeOK, BufRecords, LfcRecords, SlotRecords, OpRecords, BoundsInv, OwnersInv,
       Owns, ResponsesInv, LfcInv, Outdated, LsnsInv, Changed, LwLsn, Place, Storing, Writing
  <1>7. ResponsesInv'
    BY <1>1, <1>2, MaxOfTwo, <1>3, <1>4
       DEF PcTypeOK, BufRecords, LfcRecords, SlotRecords, OpRecords, BoundsInv, OwnersInv,
       Owns, Writing, Place, ResponsesInv, Storing
  <1>8. LfcInv'
    BY <1>1, <1>2, MaxOfTwo, <1>3, <1>4, <1>5, <1>6
       DEF PcTypeOK, BufRecords, LfcRecords, SlotRecords, OpRecords, BoundsInv, OwnersInv,
       Owns, Writing, Place, LsnsInv, ResponsesInv, Storing, LwLsn, LfcInv, Outdated, Changed
  <1>. QED BY <1>3, <1>4, <1>5, <1>6, <1>7, <1>8 DEF PcInv

(* The file cache is switched off.                                         *)
LEMMA SwitchOffStep ==
  ASSUME PcInv, SwitchOff
  PROVE  PcInv'
  <1>. USE DEF SwitchOff, wal, lwCache, LfcLockFree, PcAt, Pinned, SwitchedOff
  <1>1. PcTypeOK /\ BoundsInv /\ OwnersInv /\ LsnsInv /\ ResponsesInv /\ LfcInv
    BY DEF PcInv
  <1>2. Latest' = Latest
    BY DEF Latest, wal
  <1>3. PcTypeOK'
    BY <1>1, <1>2, MaxOfTwo DEF PcTypeOK, BufRecords, LfcRecords, SlotRecords, OpRecords
  <1>4. BoundsInv'
    BY <1>1, <1>2, MaxOfTwo, <1>3
       DEF PcTypeOK, BufRecords, LfcRecords, SlotRecords, OpRecords, BoundsInv, OwnersInv,
       LsnsInv, ResponsesInv, Place, Storing
  <1>5. OwnersInv'
    BY <1>1, <1>2, MaxOfTwo, <1>3
       DEF PcTypeOK, BufRecords, LfcRecords, SlotRecords, OpRecords, OwnersInv, Owns, Place,
       Storing, Writing
  <1>6. LsnsInv'
    BY <1>1, <1>2, MaxOfTwo, <1>3, <1>4, <1>5
       DEF PcTypeOK, BufRecords, LfcRecords, SlotRecords, OpRecords, BoundsInv, OwnersInv,
       Owns, ResponsesInv, LfcInv, Outdated, LsnsInv, Changed, LwLsn, Place, Storing, Writing
  <1>7. ResponsesInv'
    BY <1>1, <1>2, MaxOfTwo, <1>3, <1>4
       DEF PcTypeOK, BufRecords, LfcRecords, SlotRecords, OpRecords, BoundsInv, OwnersInv,
       Owns, Writing, Place, ResponsesInv, Storing
  <1>8. LfcInv'
    BY <1>1, <1>2, MaxOfTwo, <1>3, <1>4, <1>5, <1>6
       DEF PcTypeOK, BufRecords, LfcRecords, SlotRecords, OpRecords, BoundsInv, OwnersInv,
       Owns, Writing, Place, LsnsInv, ResponsesInv, Storing, LwLsn, LfcInv, Outdated, Changed
  <1>. QED BY <1>3, <1>4, <1>5, <1>6, <1>7, <1>8 DEF PcInv

(* The file cache is enabled again.                                        *)
LEMMA SwitchOnStep ==
  ASSUME PcInv, SwitchOn
  PROVE  PcInv'
  <1>. USE DEF SwitchOn, wal, lwCache, LfcLockFree, PcAt, Pinned, SwitchedOff
  <1>1. PcTypeOK /\ BoundsInv /\ OwnersInv /\ LsnsInv /\ ResponsesInv /\ LfcInv
    BY DEF PcInv
  <1>2. Latest' = Latest
    BY DEF Latest, wal
  <1>3. PcTypeOK'
    BY <1>1, <1>2, MaxOfTwo DEF PcTypeOK, BufRecords, LfcRecords, SlotRecords, OpRecords
  <1>4. BoundsInv'
    BY <1>1, <1>2, MaxOfTwo, <1>3
       DEF PcTypeOK, BufRecords, LfcRecords, SlotRecords, OpRecords, BoundsInv, OwnersInv,
       LsnsInv, ResponsesInv, Place, Storing
  <1>5. OwnersInv'
    BY <1>1, <1>2, MaxOfTwo, <1>3
       DEF PcTypeOK, BufRecords, LfcRecords, SlotRecords, OpRecords, OwnersInv, Owns, Place,
       Storing, Writing
  <1>6. LsnsInv'
    BY <1>1, <1>2, MaxOfTwo, <1>3, <1>4, <1>5
       DEF PcTypeOK, BufRecords, LfcRecords, SlotRecords, OpRecords, BoundsInv, OwnersInv,
       Owns, ResponsesInv, LfcInv, Outdated, LsnsInv, Changed, LwLsn, Place, Storing, Writing
  <1>7. ResponsesInv'
    BY <1>1, <1>2, MaxOfTwo, <1>3, <1>4
       DEF PcTypeOK, BufRecords, LfcRecords, SlotRecords, OpRecords, BoundsInv, OwnersInv,
       Owns, Writing, Place, ResponsesInv, Storing
  <1>8. LfcInv'
    BY <1>1, <1>2, MaxOfTwo, <1>3, <1>4, <1>5, <1>6
       DEF PcTypeOK, BufRecords, LfcRecords, SlotRecords, OpRecords, BoundsInv, OwnersInv,
       Owns, Writing, Place, LsnsInv, ResponsesInv, Storing, LwLsn, LfcInv, Outdated, Changed
  <1>. QED BY <1>3, <1>4, <1>5, <1>6, <1>7, <1>8 DEF PcInv

(* The LwLSN cache loses the entry of another page.                        *)
LEMMA OtherLwVictimStep ==
  ASSUME PcInv, OtherLwVictim
  PROVE  PcInv'
  <1>. USE DEF OtherLwVictim, wal, lwCache, LfcLockFree, PcAt, Pinned, SwitchedOff
  <1>1. PcTypeOK /\ BoundsInv /\ OwnersInv /\ LsnsInv /\ ResponsesInv /\ LfcInv
    BY DEF PcInv
  <1>2. Latest' = Latest
    BY DEF Latest, wal
  <1>3. PcTypeOK'
    BY <1>1, <1>2, MaxOfTwo DEF PcTypeOK, BufRecords, LfcRecords, SlotRecords, OpRecords
  <1>4. BoundsInv'
    BY <1>1, <1>2, MaxOfTwo, <1>3
       DEF PcTypeOK, BufRecords, LfcRecords, SlotRecords, OpRecords, BoundsInv, OwnersInv,
       LsnsInv, ResponsesInv, Place, Storing
  <1>5. OwnersInv'
    BY <1>1, <1>2, MaxOfTwo, <1>3
       DEF PcTypeOK, BufRecords, LfcRecords, SlotRecords, OpRecords, OwnersInv, Owns, Place,
       Storing, Writing
  <1>6. LsnsInv'
    BY <1>1, <1>2, MaxOfTwo, <1>3, <1>4, <1>5
       DEF PcTypeOK, BufRecords, LfcRecords, SlotRecords, OpRecords, BoundsInv, OwnersInv,
       Owns, ResponsesInv, LfcInv, Outdated, LsnsInv, Changed, LwLsn, Place, Storing, Writing
  <1>7. ResponsesInv'
    BY <1>1, <1>2, MaxOfTwo, <1>3, <1>4
       DEF PcTypeOK, BufRecords, LfcRecords, SlotRecords, OpRecords, BoundsInv, OwnersInv,
       Owns, Writing, Place, ResponsesInv, Storing
  <1>8. LfcInv'
    BY <1>1, <1>2, MaxOfTwo, <1>3, <1>4, <1>5, <1>6
       DEF PcTypeOK, BufRecords, LfcRecords, SlotRecords, OpRecords, BoundsInv, OwnersInv,
       Owns, Writing, Place, LsnsInv, ResponsesInv, Storing, LwLsn, LfcInv, Outdated, Changed
  <1>. QED BY <1>3, <1>4, <1>5, <1>6, <1>7, <1>8 DEF PcInv

(* The LwLSN cache loses the entry of the page.                            *)
LEMMA LwVictimStep ==
  ASSUME PcInv, LwVictim /\ ~FastTurnover
  PROVE  PcInv'
  <1>. USE DEF LwVictim, PcAt, wal, lwCache
  <1>1. PcTypeOK /\ BoundsInv /\ OwnersInv /\ LsnsInv /\ ResponsesInv /\ LfcInv
    BY DEF PcInv
  <1>2. Latest' = Latest
    BY DEF Latest, wal
  <1>3. PcTypeOK'
    BY <1>1, <1>2, MaxOfTwo DEF PcTypeOK, BufRecords, LfcRecords, SlotRecords, OpRecords
  <1>4. BoundsInv'
    BY <1>1, <1>2, MaxOfTwo, <1>3
       DEF PcTypeOK, BufRecords, LfcRecords, SlotRecords, OpRecords, BoundsInv, OwnersInv,
       LsnsInv, ResponsesInv, Place, Storing
  <1>5. OwnersInv'
    BY <1>1, <1>2, MaxOfTwo, <1>3
       DEF PcTypeOK, BufRecords, LfcRecords, SlotRecords, OpRecords, OwnersInv, Owns, Place,
       Storing, Writing
  <1>6. LsnsInv'
    BY <1>1, <1>2, MaxOfTwo, <1>3, <1>4, <1>5
       DEF PcTypeOK, BufRecords, LfcRecords, SlotRecords, OpRecords, BoundsInv, OwnersInv,
       Owns, ResponsesInv, LfcInv, Outdated, LsnsInv, Changed, LwLsn, Place, Storing, Writing
  <1>7. ResponsesInv'
    BY <1>1, <1>2, MaxOfTwo, <1>3, <1>4
       DEF PcTypeOK, BufRecords, LfcRecords, SlotRecords, OpRecords, BoundsInv, OwnersInv,
       Owns, Writing, Place, ResponsesInv, Storing
  <1>8. LfcInv'
    BY <1>1, <1>2, MaxOfTwo, <1>3, <1>4, <1>5, <1>6
       DEF PcTypeOK, BufRecords, LfcRecords, SlotRecords, OpRecords, BoundsInv, OwnersInv,
       Owns, Writing, Place, LsnsInv, ResponsesInv, Storing, LwLsn, LfcInv, Outdated, Changed
  <1>. QED BY <1>3, <1>4, <1>5, <1>6, <1>7, <1>8 DEF PcInv

(* The LwLSN entry stays, or is raised to the maximum.                     *)
LEMMA LwUnchanged ==
  ASSUME PcInv, UNCHANGED <<lw, lwMax, mods>>
  PROVE  LwRaised
  <1>1. Latest' = Latest
    BY LatestSame
  <1>. QED BY <1>1 DEF PcInv, PcTypeOK, BoundsInv, LsnsInv, LwRaised, LwLsn, Changed

(* What neon_get_lwlsn does under the exclusive lock.                      *)
LEMMA LwInserted ==
  ASSUME PcInv, UNCHANGED <<lwMax, mods>>, NEW l \in Nat, l <= walEnd, SetLwLsn(l),
         Changed \/ Latest <= lw \/ Latest <= l
  PROVE  LwRaised
  <1>1. PcTypeOK /\ BoundsInv
    BY DEF PcInv
  <1>2. lw' \in Nat /\ lw' \in {lw, l} /\ lw <= lw' /\ l <= lw'
    BY <1>1, MaxOfTwo DEF SetLwLsn, PcTypeOK
  <1>3. Latest \in Nat /\ 1 <= Latest
    BY <1>1 DEF PcTypeOK, BoundsInv
  <1>. QED BY <1>1, <1>2, <1>3 DEF PcTypeOK, BoundsInv, LwRaised, LwLsn

(* A response that is usable was asked for with the LSN l.                 *)
LEMMA TakesResponse ==
  ASSUME PcInv, NEW b \in PcBackends, NEW l \in Nat,
         op[b].pc \in {"lsns", "lsnsx", "wait"}, op[b].for = "read",
         Latest <= l, Usable(b, l), TakeResponse(b),
         UNCHANGED <<walEnd, mods>>, LwRaised, UNCHANGED lfc
  PROVE  PcInv'
  <1>1. prefetched[b].st = "RECEIVED" /\ prefetched[b].nms = l
    BY PcNumbers DEF PcInv, Usable
  <1>2. CASE b \in StoresPrefetch
    BY <1>1, <1>2, TakesStored DEF TakeResponse
  <1>3. CASE b \notin StoresPrefetch
    BY <1>1, <1>3, TakesToStore DEF TakeResponse
  <1>. QED BY <1>2, <1>3

(* neon_get_request_lsns has found the LSN l.                              *)
LEMMA RequestLsnFound ==
  ASSUME PcInv, NEW b \in PcBackends, NEW l \in Nat, 1 <= l /\ l <= walEnd,
         op[b].pc \in {"lsns", "lsnsx"}, op[b].for = "read" => Latest <= l,
         HasRequestLsn(b, l), UNCHANGED <<walEnd, mods>>, LwRaised, UNCHANGED lfc
  PROVE  PcInv'
  <1>1. CASE op[b].for = "prefetch" /\ Request(b, l) /\ Goto(b, AtRest) /\ UNCHANGED buf
    BY <1>1, AsksToPrefetch DEF Request
  <1>2. CASE op[b].for = "read" /\ Usable(b, l) /\ TakeResponse(b)
    BY <1>2, TakesResponse
  <1>3. CASE /\ op[b].for = "read" /\ ~Usable(b, l)
             /\ Goto(b, [op[b] EXCEPT !.pc = "lfcr", !.lsn = l])
             /\ UNCHANGED <<buf, prefetched>>
    BY <1>3, GoesToLfc
  <1>. QED BY <1>1, <1>2, <1>3 DEF HasRequestLsn

(* The look-up under the shared lock keeps the invariant.                  *)
LEMMA GetLwLsnVStep ==
  ASSUME PcInv, NEW b \in PcBackends, GetLwLsnV(b)
  PROVE  PcInv'
  <1>1. /\ UNCHANGED <<walEnd, mods>> /\ UNCHANGED <<lw, lwMax>> /\ UNCHANGED lfc
        /\ op[b].pc = "lsns"
    BY DEF GetLwLsnV, wal, lwCache, PcAt
  <1>2. CASE lw # 0
    <2>1. LwRaised
      BY <1>1, LwUnchanged
    <2>2. lw \in Nat /\ 1 <= lw /\ lw <= walEnd
      BY <1>2 DEF PcInv, PcTypeOK, BoundsInv
    <2>3. op[b].for = "read" => Latest <= lw
      BY <1>2 DEF PcInv, OwnersInv, LsnsInv, Changed, LwLsn
    <2>4. HasRequestLsn(b, lw)
      BY <1>2 DEF GetLwLsnV
    <2>. QED BY <1>1, <2>1, <2>2, <2>3, <2>4, RequestLsnFound
  <1>3. CASE lw = 0
    BY <1>1, <1>3, FindsNoEntry DEF GetLwLsnV
  <1>. QED BY <1>2, <1>3

(* The insertion under the exclusive lock keeps the invariant.             *)
LEMMA InsertLwLsnVStep ==
  ASSUME PcInv, NEW b \in PcBackends, InsertLwLsnV(b)
  PROVE  PcInv'
  <1>1. UNCHANGED <<walEnd, mods>> /\ lwMax' = lwMax /\ UNCHANGED lfc /\ op[b].pc = "lsnsx"
    BY DEF InsertLwLsnV, wal, PcAt
  <1>2. lwMax \in Nat /\ 1 <= lwMax /\ lwMax <= walEnd
    BY DEF PcInv, PcTypeOK, BoundsInv
  <1>3. op[b].for = "read" => Latest <= lwMax
    BY <1>1 DEF PcInv, LsnsInv
  <1>4. Changed \/ Latest <= lw \/ Latest <= lwMax
    BY DEF PcInv, LsnsInv, LwLsn
  <1>5. LwRaised
    BY <1>1, <1>2, <1>4, LwInserted DEF InsertLwLsnV
  <1>. QED BY <1>1, <1>2, <1>3, <1>5, RequestLsnFound DEF InsertLwLsnV

(* lfc_prefetch knows the LwLSN, and the block.                            *)
LEMMA StoreIfUnchangedStep ==
  ASSUME PcInv, NEW b \in PcBackends, NEW l \in Nat, op[b].pc \in {"store", "storex"}, lfc.on,
         Changed \/ Latest <= l, StoreIfUnchanged(b, l),
         UNCHANGED <<walEnd, mods>>, LwRaised, UNCHANGED buf, UNCHANGED prefetched
  PROVE  PcInv'
  <1>1. CASE Stored(b) /\ UNCHANGED lfc
    BY <1>1, StoresNothing DEF Stored
  <1>2. CASE /\ l <= prefetched[b].nms /\ lfc.st = "UNAVAILABLE"
             /\ lfc' = [lfc EXCEPT !.st = "PENDING"]
             /\ Goto(b, [op[b] EXCEPT !.pc = "storew", !.max = 0, !.gen = lfc.gen])
    <2>1. Latest \in Nat /\ prefetched[b].nms \in Nat
      BY PcNumbers DEF PcInv, BoundsInv
    <2>2. Changed \/ Latest <= prefetched[b].nms
      BY <1>2, <2>1
    <2>. QED BY <1>2, <2>2, StoreBegins
  <1>. QED BY <1>1, <1>2 DEF StoreIfUnchanged

(* lfc_prefetch, under lfc_lock and the shared lock.                       *)
LEMMA StoreStep ==
  ASSUME PcInv, NEW b \in PcBackends, Store(b)
  PROVE  PcInv'
  <1>1. /\ UNCHANGED <<walEnd, mods>> /\ UNCHANGED <<lw, lwMax>> /\ UNCHANGED buf
        /\ UNCHANGED prefetched /\ op[b].pc = "store"
    BY DEF Store, wal, lwCache, PcAt
  <1>2. LwRaised
    BY <1>1, LwUnchanged
  <1>3. CASE ~lfc.on /\ Stored(b) /\ UNCHANGED lfc
    BY <1>1, <1>2, <1>3, StoresNothing DEF Stored
  <1>4. CASE lfc.on /\ lw # 0 /\ StoreIfUnchanged(b, lw)
    <2>1. lw \in Nat /\ (Changed \/ Latest <= lw)
      BY <1>4 DEF PcInv, PcTypeOK, LsnsInv, LwLsn
    <2>. QED BY <1>1, <1>2, <1>4, <2>1, StoreIfUnchangedStep
  <1>5. CASE /\ lfc.on /\ lw = 0
             /\ Goto(b, [op[b] EXCEPT !.pc = "storex", !.max = lwMax])
             /\ UNCHANGED lfc
    BY <1>1, <1>5, StoreLooksAgain
  <1>. QED BY <1>3, <1>4, <1>5 DEF Store

(* lfc_prefetch, under lfc_lock and the exclusive lock.                    *)
LEMMA StoreInsertStep ==
  ASSUME PcInv, NEW b \in PcBackends, StoreInsert(b)
  PROVE  PcInv'
  <1>1. /\ UNCHANGED <<walEnd, mods>> /\ lwMax' = lwMax /\ UNCHANGED buf
        /\ UNCHANGED prefetched /\ op[b].pc = "storex"
    BY DEF StoreInsert, wal, PcAt
  <1>2. op[b].max \in Nat /\ lw \in Nat /\ op[b].max <= walEnd /\ Latest \in Nat
    BY PcNumbers DEF PcInv, BoundsInv
  <1>3. lfc.on /\ (Changed \/ Latest <= lw \/ Latest <= op[b].max)
    BY <1>1 DEF PcInv, LsnsInv, LfcInv
  <1>4. LwRaised
    BY <1>1, <1>2, <1>3, LwInserted DEF StoreInsert
  <1> DEFINE m == Max({lw, op[b].max})
  <1>5. m \in Nat /\ m >= lw /\ m >= op[b].max
    BY <1>2, MaxOfTwo
  <1>6. StoreIfUnchanged(b, m)
    BY DEF StoreInsert
  <1> HIDE DEF m
  <1>7. Changed \/ Latest <= m
    BY <1>2, <1>3, <1>5
  <1>. QED BY <1>1, <1>3, <1>4, <1>5, <1>6, <1>7, StoreIfUnchangedStep

(* lfc_prefetch after the write of the file.                               *)
LEMMA StoreWriteStep ==
  ASSUME PcInv, NEW b \in PcBackends, StoreWrite(b)
  PROVE  PcInv'
  <1>1. /\ UNCHANGED <<walEnd, mods>> /\ UNCHANGED <<lw, lwMax>> /\ UNCHANGED buf
        /\ UNCHANGED prefetched /\ op[b].pc = "storew" /\ LfcLockFree
    BY DEF StoreWrite, wal, lwCache, PcAt
  <1>2. CASE lfc.gen = op[b].gen
    BY <1>1, <1>2, StoreEnds DEF StoreWrite, WriteFile, Stored
  <1>3. CASE lfc.gen # op[b].gen
    BY <1>1, <1>3, StoreEndsLate DEF StoreWrite, WriteFile, Stored
  <1>. QED BY <1>2, <1>3

(* lfc_write up to the write of the file.                                  *)
LEMMA LfcWriteStep ==
  ASSUME PcInv, NEW b \in PcBackends, LfcWrite(b)
  PROVE  PcInv'
  <1>1. /\ UNCHANGED <<walEnd, mods>> /\ UNCHANGED <<lw, lwMax>>
        /\ UNCHANGED prefetched /\ op[b].pc = "write" /\ Writing(b)
    BY DEF LfcWrite, wal, lwCache, PcAt, Writing
  <1>2. CASE PageDone(b) /\ (~lfc.on \/ lfc.st = "UNAVAILABLE") /\ UNCHANGED lfc
    BY <1>1, <1>2, PageDoneUnwritten DEF PageDone
  <1>3. CASE /\ lfc.on /\ lfc.st # "PENDING"
             /\ lfc' = [lfc EXCEPT !.st = IF @ = "UNAVAILABLE" THEN "PENDING" ELSE @]
             /\ Goto(b, [op[b] EXCEPT !.pc = "lfcw", !.gen = lfc.gen])
             /\ UNCHANGED buf
    BY <1>1, <1>3, WriteBegins
  <1>4. CASE /\ lfc.on /\ lfc.st = "PENDING"
             /\ Goto(b, [op[b] EXCEPT !.pc = "lfcww", !.gen = lfc.gen])
             /\ UNCHANGED <<lfc, buf>>
    BY <1>1, <1>4, WriteWaits
  <1>. QED BY <1>2, <1>3, <1>4 DEF LfcWrite

(* lfc_write after the wait for another who writes.                        *)
LEMMA LfcWriteWaitedStep ==
  ASSUME PcInv, NEW b \in PcBackends, LfcWriteWaited(b)
  PROVE  PcInv'
  <1>1. /\ UNCHANGED <<walEnd, mods>> /\ UNCHANGED <<lw, lwMax>> /\ UNCHANGED lfc
        /\ UNCHANGED prefetched /\ op[b].pc = "lfcww" /\ Writing(b) /\ op[b].pc # "write"
    BY DEF LfcWriteWaited, wal, lwCache, PcAt, Writing
  <1>2. CASE lfc.gen # op[b].gen /\ PageDone(b)
    BY <1>1, <1>2, PageDoneUnwritten DEF PageDone
  <1>3. CASE /\ lfc.gen = op[b].gen /\ lfc.st # "PENDING"
             /\ Goto(b, [op[b] EXCEPT !.pc = "lfcw"]) /\ UNCHANGED buf
    BY <1>1, <1>3, WriteResumes
  <1>. QED BY <1>2, <1>3 DEF LfcWriteWaited

(* lfc_write after the write of the file.                                  *)
LEMMA LfcWrittenStep ==
  ASSUME PcInv, NEW b \in PcBackends, LfcWritten(b)
  PROVE  PcInv'
  <1>1. /\ UNCHANGED <<walEnd, mods>> /\ UNCHANGED <<lw, lwMax>> /\ UNCHANGED prefetched
        /\ op[b].pc = "lfcw" /\ Writing(b) /\ op[b].pc # "write" /\ LfcLockFree
    BY DEF LfcWritten, wal, lwCache, PcAt, Writing
  <1>2. CASE lfc.gen = op[b].gen
    BY <1>1, <1>2, PageDoneWritten DEF LfcWritten, WriteFile, PageDone
  <1>3. CASE lfc.gen # op[b].gen
    BY <1>1, <1>3, PageDoneUnwritten DEF LfcWritten, WriteFile, PageDone
  <1>. QED BY <1>2, <1>3

(* A write of the file that fails.                                         *)
LEMMA WriteFileFailsStep ==
  ASSUME PcInv, NEW b \in PcBackends, WriteFileFails(b)
  PROVE  PcInv'
  <1>1. /\ UNCHANGED <<walEnd, mods>> /\ UNCHANGED <<lw, lwMax>> /\ UNCHANGED prefetched
        /\ LfcLockFree /\ op[b].pc \in {"storew", "lfcw"}
    BY DEF WriteFileFails, wal, lwCache
  <1>2. CASE op[b].pc = "storew"
    <2>1. Goto(b, [op[b] EXCEPT !.pc = op[b].ret, !.max = 0, !.gen = 0, !.ret = "idle"])
          /\ UNCHANGED buf
      BY <1>2 DEF WriteFileFails, PcAt, Stored
    <2>2. CASE lfc.on
      BY <1>1, <1>2, <2>1, <2>2, StoreFails DEF WriteFileFails
    <2>3. CASE ~lfc.on
      BY <1>1, <1>2, <2>1, <2>3, StoreEndsLate DEF WriteFileFails
    <2>. QED BY <2>2, <2>3
  <1>3. CASE op[b].pc = "lfcw"
    <2>1. /\ buf' = [st |-> "in", v |-> op[b].v, dirty |-> FALSE] /\ Goto(b, AtRest)
          /\ Writing(b) /\ op[b].pc # "write"
      BY <1>3 DEF WriteFileFails, PcAt, PageDone, Writing
    <2>2. CASE lfc.on
      BY <1>1, <1>3, <2>1, <2>2, PageDoneFails DEF WriteFileFails
    <2>3. CASE ~lfc.on
      BY <1>1, <1>3, <2>1, <2>3, PageDoneUnwritten DEF WriteFileFails
    <2>. QED BY <2>2, <2>3
  <1>. QED BY <1>1, <1>2, <1>3

(* lfc_read did not find the block.                                        *)
LEMMA MissStep ==
  ASSUME PcInv, NEW b \in PcBackends, op[b].pc \in {"lfcr", "lfcrw"}, Miss(b),
         UNCHANGED <<walEnd, mods>>, UNCHANGED <<lw, lwMax>>, UNCHANGED lfc
  PROVE  PcInv'
  <1>1. CASE prefetched[b].st \in {"UNUSED", "RECEIVED"}
    BY <1>1, MissesAndAsks DEF Miss, Request
  <1>2. CASE prefetched[b].st \notin {"UNUSED", "RECEIVED"}
    BY <1>2, MissesAndWaits DEF Miss
  <1>. QED BY <1>1, <1>2

(* lfc_read.                                                               *)
LEMMA LfcReadStep ==
  ASSUME PcInv, NEW b \in PcBackends, LfcRead(b)
  PROVE  PcInv'
  <1>1. /\ UNCHANGED <<walEnd, mods>> /\ UNCHANGED <<lw, lwMax>> /\ UNCHANGED lfc
        /\ op[b].pc = "lfcr"
    BY DEF LfcRead, wal, lwCache, PcAt
  <1>2. CASE lfc.on /\ lfc.st = "AVAILABLE" /\ Hit(b)
    BY <1>1, <1>2, Hits DEF Hit
  <1>3. CASE /\ lfc.on /\ lfc.st = "PENDING"
             /\ Goto(b, [op[b] EXCEPT !.pc = "lfcrw", !.gen = lfc.gen])
             /\ UNCHANGED <<buf, prefetched>>
    BY <1>1, <1>3, WaitsForLfc
  <1>4. CASE (lfc.on => lfc.st = "UNAVAILABLE") /\ Miss(b)
    BY <1>1, <1>4, MissStep
  <1>. QED BY <1>2, <1>3, <1>4 DEF LfcRead

(* lfc_read after the wait for one who writes.                             *)
LEMMA LfcReadWaitedStep ==
  ASSUME PcInv, NEW b \in PcBackends, LfcReadWaited(b)
  PROVE  PcInv'
  <1>1. /\ UNCHANGED <<walEnd, mods>> /\ UNCHANGED <<lw, lwMax>> /\ UNCHANGED lfc
        /\ op[b].pc = "lfcrw"
    BY DEF LfcReadWaited, wal, lwCache, PcAt
  <1>2. CASE lfc.gen = op[b].gen /\ lfc.st = "AVAILABLE" /\ Hit(b)
    BY <1>1, <1>2, Hits DEF Hit
  <1>3. CASE lfc.gen # op[b].gen /\ Miss(b)
    BY <1>1, <1>3, MissStep
  <1>. QED BY <1>2, <1>3 DEF LfcReadWaited

(* communicator_read_at_lsnv.                                              *)
LEMMA ReadAtLsnStep ==
  ASSUME PcInv, NEW b \in PcBackends, ReadAtLsn(b)
  PROVE  PcInv'
  <1>1. /\ UNCHANGED <<walEnd, mods>> /\ UNCHANGED <<lw, lwMax>> /\ UNCHANGED lfc
        /\ op[b].pc = "wait"
    BY DEF ReadAtLsn, wal, lwCache, PcAt
  <1>2. CASE Usable(b, op[b].lsn) /\ TakeResponse(b)
    <2>1. LwRaised
      BY <1>1, LwUnchanged
    <2>2. op[b].lsn \in Nat /\ op[b].for = "read" /\ Latest <= op[b].lsn
      BY <1>1, PcNumbers DEF PcInv, OwnersInv, LsnsInv, Place, Storing
    <2>. QED BY <1>1, <1>2, <2>1, <2>2, TakesResponse
  <1>3. CASE ~Usable(b, op[b].lsn) /\ Request(b, op[b].lsn) /\ UNCHANGED <<buf, op>>
    BY <1>1, <1>3, AsksAgain DEF Request
  <1>. QED BY <1>2, <1>3 DEF ReadAtLsn

(* A connection that is lost.                                              *)
LEMMA LoseConnectionStep ==
  ASSUME PcInv, NEW b \in PcBackends, LoseConnection(b)
  PROVE  PcInv'
  <1>1. /\ UNCHANGED <<walEnd, mods>> /\ UNCHANGED <<lw, lwMax>> /\ UNCHANGED lfc
        /\ UNCHANGED op /\ UNCHANGED buf
    BY DEF LoseConnection, wal, lwCache
  <1>2. CASE PcAt(b, "idle") /\ prefetched' = [prefetched EXCEPT ![b] = NoSlot]
    BY <1>1, <1>2, DropsSlot DEF PcAt
  <1>3. CASE PcAt(b, "wait") /\ Request(b, op[b].lsn)
    BY <1>1, <1>3, AsksAgain DEF PcAt, Request
  <1>. QED BY <1>2, <1>3 DEF LoseConnection

(* The receipt of a response.                                              *)
LEMMA ReceiveStep ==
  ASSUME PcInv, NEW b \in PcBackends, Receive(b)
  PROVE  PcInv'
  <1>1. /\ /\ UNCHANGED <<walEnd, mods>> /\ UNCHANGED <<lw, lwMax>> /\ UNCHANGED lfc
        /\ UNCHANGED buf
        /\ prefetched[b].st = "ANSWERED" /\ op[b].pc \in {"idle", "lsns", "wait"}
    BY DEF Receive, wal, lwCache
  <1>2. prefetched' = [prefetched EXCEPT ![b] = [prefetched[b] EXCEPT !.st = "RECEIVED"]]
    BY DEF Receive
  <1>3. CASE b \in StoresPrefetch
    BY <1>1, <1>2, <1>3, ReceivesToStore DEF Receive
  <1>4. CASE b \notin StoresPrefetch
    BY <1>1, <1>2, <1>4, ReceivesOnly DEF Receive
  <1>. QED BY <1>3, <1>4

(* The beginning of a prefetch, a read and a write.                        *)
LEMMA SmgrStep ==
  ASSUME PcInv, NEW b \in PcBackends, SmgrPrefetch(b) \/ SmgrRead(b) \/ WalLogPage(b)
  PROVE  PcInv'
  <1>1. CASE SmgrPrefetch(b)
    BY <1>1, PrefetchBegins DEF SmgrPrefetch, wal, lwCache, PcAt
  <1>2. CASE SmgrRead(b)
    BY <1>2, ReadBegins DEF SmgrRead, wal, lwCache, PcAt
  <1>3. CASE WalLogPage(b)
    <2>0. PcTypeOK /\ BoundsInv /\ LsnsInv
      BY DEF PcInv
    <2>1. /\ UNCHANGED <<walEnd, mods>> /\ UNCHANGED lfc /\ UNCHANGED prefetched /\ lwMax' = lwMax
          /\ op[b].pc = "idle" /\ buf.st = "in" /\ buf.dirty
          /\ buf' = [buf EXCEPT !.st = "writing"] /\ SetLwLsn(buf.v)
          /\ Goto(b, [AtRest EXCEPT !.pc = "write", !.v = buf.v])
      BY <1>3 DEF WalLogPage, wal, PcAt
    <2>2. lw \in Nat /\ buf.v \in Nat /\ lw <= walEnd /\ buf.v <= walEnd
      BY <2>0, <2>1 DEF PcTypeOK, BufRecords, BoundsInv, LsnsInv
    <2>3. lw' \in Nat /\ lw <= lw' /\ lw' <= walEnd /\ buf.v <= lw'
      BY <2>1, <2>2, MaxOfTwo DEF SetLwLsn
    <2>. QED BY <2>1, <2>3, WriteOutBegins
  <1>. QED BY <1>1, <1>2, <1>3

(* The pageserver answers: a bounded set of versions has a last one.       *)
LEMMA AnswerRequestStep ==
  ASSUME PcInv, NEW b \in PcBackends, AnswerRequest(b)
  PROVE  PcInv'
  <1>1. PcTypeOK /\ BoundsInv /\ OwnersInv /\ LsnsInv /\ ResponsesInv /\ LfcInv
    BY DEF PcInv
  <1>2. Latest' = Latest
    BY LatestSame DEF AnswerRequest, wal
  <1>3. UNCHANGED <<walEnd, mods, buf, lw, lwMax, lfc, op>>
    BY DEF AnswerRequest, wal, lwCache
  <1>4. PICK l \in prefetched[b].nms..walEnd :
          prefetched' = [prefetched EXCEPT ![b].st = "ANSWERED",
                                           ![b].v = Max({m \in mods : m <= l})]
    BY DEF AnswerRequest
  <1> DEFINE S == {m \in mods : m <= l}
  <1>5. l \in Nat /\ prefetched[b].nms \in Nat /\ prefetched[b].nms <= l /\ 1 <= l
    <2>1. prefetched[b].nms \in Nat /\ walEnd \in Nat
      BY <1>1, PcNumbers
    <2>2. 1 <= prefetched[b].nms
      BY <1>1 DEF ResponsesInv, AnswerRequest
    <2>. QED BY <1>4, <2>1, <2>2
  <1>6. PICK v \in S : \A m \in S : m <= v
    <2>1. S \in SUBSET (0..l)
      <3>1. mods \subseteq Nat
        BY <1>1 DEF PcTypeOK
      <3>2. \A m \in S : m \in Nat /\ m <= l
        BY <3>1
      <3> HIDE DEF S
      <3>3. \A m \in S : m \in 0..l
        BY <1>5, <3>2
      <3>. QED BY <3>3
    <2>2. 1 \in S
      BY <1>1, <1>5 DEF BoundsInv
    <2> HIDE DEF S
    <2>. QED BY <1>5, <2>1, <2>2, GreatestNatural
  <1>7. Max(S) = v /\ v \in Nat /\ v \in mods
    BY <1>1, <1>6, MaxIs DEF PcTypeOK
  <1>8. \A m \in mods : m <= prefetched[b].nms => m <= v
    BY <1>1, <1>5, <1>6 DEF PcTypeOK
  <1>9. prefetched' = [prefetched EXCEPT ![b] = [prefetched[b] EXCEPT !.st = "ANSWERED", !.v = v]]
    BY <1>4, <1>7
  <1> HIDE DEF S
  <1>10. /\ prefetched[b] \in SlotRecords
         /\ [prefetched[b] EXCEPT !.st = "ANSWERED", !.v = v] \in SlotRecords
    BY <1>1, <1>7 DEF PcTypeOK, SlotRecords
  <1>11. /\ prefetched' \in [PcBackends -> SlotRecords]
         /\ prefetched'[b] = [prefetched[b] EXCEPT !.st = "ANSWERED", !.v = v]
         /\ \A c \in PcBackends : c # b => prefetched'[c] = prefetched[c]
    BY <1>1, <1>9, <1>10, SlotMoves DEF PcTypeOK
  <1>12. /\ prefetched'[b].st = "ANSWERED" /\ prefetched'[b].v = v
         /\ prefetched'[b].nms = prefetched[b].nms
    BY <1>10, <1>11 DEF SlotRecords
  <1>13. PcTypeOK'
    BY <1>1, <1>3, <1>11 DEF PcTypeOK
  <1>14. prefetched[b].st = "REQUESTED"
    BY DEF AnswerRequest
  <1>15. \A c \in PcBackends : c # b => prefetched'[c] = prefetched[c]
    BY <1>11
  <1>16. BoundsInv' /\ OwnersInv' /\ LsnsInv'
    BY <1>1, <1>2, <1>3, <1>12, <1>15
       DEF BoundsInv, OwnersInv, LsnsInv, Owns, Place, Storing, Writing, Changed, LwLsn
  <1>17. ResponsesInv'
    BY <1>1, <1>3, <1>7, <1>8, <1>12, <1>14, <1>15 DEF ResponsesInv, Storing
  <1>18. LfcInv'
    BY <1>1, <1>2, <1>3, <1>12, <1>14, <1>15
       DEF LfcInv, ResponsesInv, Storing, Outdated, Changed
  <1>. QED BY <1>13, <1>16, <1>17, <1>18 DEF PcInv

(* Every step keeps the invariant, unless the LwLSN cache turns over while lfc_prefetch is in it. *)
LEMMA PcSteps == ~FastTurnover /\ PcInv /\ [PcNext]_pcVars => PcInv'
  <1>. SUFFICES ASSUME ~FastTurnover, PcInv, [PcNext]_pcVars PROVE PcInv'
    OBVIOUS
  <1>1. CASE UNCHANGED pcVars
    BY <1>1
       DEF pcVars, PcInv, PcTypeOK, BoundsInv, OwnersInv, LsnsInv, ResponsesInv, LfcInv,
       Latest,
       Owns, Place, Storing, Writing, Changed, LwLsn, Outdated
  <1>2. CASE Modify \/ ModifyOther \/ EvictBuffer
    BY <1>2, ModifyStep, ModifyOtherStep, EvictBufferStep
  <1>3. CASE LwVictim \/ OtherLwVictim \/ EvictChunk \/ SwitchOff \/ SwitchOn
    BY <1>3, LwVictimStep, OtherLwVictimStep, EvictChunkStep, SwitchOffStep, SwitchOnStep
  <1>4. ASSUME NEW b \in PcBackends,
               AnswerRequest(b) \/ LoseConnection(b) \/ GetLwLsnV(b) \/ InsertLwLsnV(b)
        PROVE  PcInv'
    BY <1>4, AnswerRequestStep, LoseConnectionStep, GetLwLsnVStep, InsertLwLsnVStep
  <1>5. ASSUME NEW b \in PcBackends,
               \/ Store(b) \/ StoreInsert(b) \/ StoreWrite(b)
               \/ LfcWrite(b) \/ LfcWriteWaited(b) \/ LfcWritten(b) \/ WriteFileFails(b)
        PROVE  PcInv'
    BY <1>5, StoreStep, StoreInsertStep, StoreWriteStep, LfcWriteStep, LfcWriteWaitedStep,
       LfcWrittenStep, WriteFileFailsStep
  <1>6. ASSUME NEW b \in PcBackends,
               \/ SmgrPrefetch(b) \/ Receive(b) \/ SmgrRead(b)
               \/ LfcRead(b) \/ LfcReadWaited(b) \/ ReadAtLsn(b) \/ WalLogPage(b)
        PROVE  PcInv'
    BY <1>6, SmgrStep, ReceiveStep, LfcReadStep, LfcReadWaitedStep, ReadAtLsnStep
  <1>. QED BY <1>1, <1>2, <1>3, <1>4, <1>5, <1>6 DEF PcNext

(* A page that is read is the last version of it, from whichever cache or  *)
(* response: neon_get_request_lsns never returns less than the last change *)
(* that was written out, and neither lfc_prefetch nor a late lfc_write     *)
(* leaves an older block behind.  With a turnover of the LwLSN cache       *)
(* between the two locks of neon_get_lwlsn this does not hold.             *)
THEOREM PagesAreFresh == ~FastTurnover => (PcSpec => []ReadsAreFresh)
  <1>. SUFFICES ASSUME ~FastTurnover PROVE PcSpec => []ReadsAreFresh
    OBVIOUS
  <1>1. PcInit => PcInv
    BY PcInitial
  <1>2. PcInv /\ [PcNext]_pcVars => PcInv'
    BY PcSteps
  <1>3. PcInv => ReadsAreFresh
    BY DEF PcInv, LsnsInv, ReadsAreFresh, Latest
  <1>. QED BY <1>1, <1>2, <1>3, PTL DEF PcSpec

=============================================================================
