------------------------------- MODULE SeqWait -------------------------------
(***************************************************************************)
(* Waiting for a number to arrive (libs/utils/src/seqwait.rs).  What is    *)
(* done under the mutex is one step; the channels taken off the heap are   *)
(* woken, or dropped by a shutdown, after it is released.                  *)
(***************************************************************************)
EXTENDS Integers, FiniteSets

CONSTANTS
  Waiters,       \* tasks that wait
  Advancers,     \* tasks that announce numbers
  MaxNum,        \* bound: numbers
  MaxWaits       \* bound: calls of wait_for_timeout per waiter

ASSUME SeqWaitAssumption ==
  IsFiniteSet(Waiters) /\ IsFiniteSet(Advancers) /\ MaxNum \in Nat /\ MaxWaits \in Nat

VARIABLES
  current,       \* the counter
  heap,          \* registered channels: [who, call, num]
  shutdown,
  wait,          \* waiter -> its state, number and how often it called
  wake,          \* advancer -> channels it has still to send to
  dropping       \* channels that shutdown has still to drop

swVars == <<current, heap, shutdown, wait, wake, dropping>>

SwInit ==
  /\ current = 0 /\ heap = {} /\ shutdown = FALSE /\ dropping = {}
  /\ wait = [w \in Waiters |-> [st |-> "idle", num |-> 0, call |-> 0]]
  /\ wake = [a \in Advancers |-> {}]

Channel(w) == [who |-> w, call |-> wait[w].call, num |-> wait[w].num]

(* queue_for_wait: the number first, then shutdown, then registration.     *)
QueueForWait(w, n) ==
  /\ wait[w].st # "waiting" /\ wait[w].call < MaxWaits
  /\ LET st == IF current >= n THEN "ok" ELSE IF shutdown THEN "shutdown" ELSE "waiting"
     IN  /\ wait' = [wait EXCEPT ![w] = [st |-> st, num |-> n, call |-> @.call + 1]]
         /\ heap' = IF st = "waiting"
                    THEN heap \union {[who |-> w, call |-> wait[w].call + 1, num |-> n]}
                    ELSE heap
  /\ UNCHANGED <<current, shutdown, wake, dropping>>

(* Mutant: leaves the waiters of the number itself.                        *)
PopLess(n) == {c \in heap : c.num < n}

(* pop_leq.                                                                *)
PopLeq(n) == {c \in heap : c.num <= n}

(* advance, up to the end of the critical section.                         *)
Advance(a, n) ==
  /\ wake[a] = {} /\ current < n
  /\ current' = n
  /\ wake' = [wake EXCEPT ![a] = PopLeq(n)]
  /\ heap' = heap \ PopLeq(n)
  /\ UNCHANGED <<shutdown, wait, dropping>>

(* The receiver of a channel gets st, unless it has given up.              *)
Receives(c, st) ==
  wait' = IF wait[c.who].st = "waiting" /\ Channel(c.who) = c
          THEN [wait EXCEPT ![c.who].st = st] ELSE wait

Send(a) ==
  \E c \in wake[a] :
    /\ Receives(c, "ok")
    /\ wake' = [wake EXCEPT ![a] = @ \ {c}]
    /\ UNCHANGED <<current, heap, shutdown, dropping>>

Shutdown ==
  /\ ~shutdown
  /\ shutdown' = TRUE
  /\ dropping' = heap
  /\ heap' = {}
  /\ UNCHANGED <<current, wait, wake>>

DropWaiter ==
  \E c \in dropping :
    /\ Receives(c, "shutdown")
    /\ dropping' = dropping \ {c}
    /\ UNCHANGED <<current, heap, shutdown, wake>>

(* wait_for_timeout: its channel stays in the heap.                        *)
Timeout(w) ==
  /\ wait[w].st = "waiting"
  /\ wait' = [wait EXCEPT ![w].st = "timeout"]
  /\ UNCHANGED <<current, heap, shutdown, wake, dropping>>

SwNext ==
  \/ \E w \in Waiters : Timeout(w) \/ \E n \in 1..MaxNum : QueueForWait(w, n)
  \/ \E a \in Advancers : Send(a) \/ \E n \in 1..MaxNum : Advance(a, n)
  \/ Shutdown \/ DropWaiter

SwSpec == SwInit /\ [][SwNext]_swVars

-----------------------------------------------------------------------------

(* No wake-up is lost: whoever waits for a number that has arrived, or     *)
(* waits after shutdown, is about to be woken; and nobody is told that a   *)
(* number has arrived before it has.                                       *)
NobodySleepsOn ==
  \A w \in Waiters :
    /\ wait[w].st = "waiting" /\ (shutdown \/ current >= wait[w].num) =>
         Channel(w) \in dropping \union UNION {wake[a] : a \in Advancers}
    /\ wait[w].st = "ok" => current >= wait[w].num
=============================================================================
