------------------------------ MODULE SpscFold -------------------------------
(***************************************************************************)
(* The channel of one sender and one receiver that folds a value into the  *)
(* one that was not consumed yet (libs/utils/src/sync/spsc_fold.rs).  A    *)
(* poll is one step under the mutex, the notification included.  A parked  *)
(* task is polled again when its waker was notified.  Values are numbers;  *)
(* the channel holds the sequence of those folded together.                *)
(***************************************************************************)
EXTENDS Integers, Sequences

CONSTANT MaxSends     \* bound: values sent

ASSUME SpscAssumption == MaxSends \in Nat

VARIABLES
  chan,         \* State: its name and data
  sender,       \* idle, polling (to be polled), parked, or gone
  receiver,     \* likewise
  wakers,       \* whose wakers are registered
  sent,         \* values sent so far
  accepted,     \* history: values whose send returned Ok
  received      \* history: values received

spVars == <<chan, sender, receiver, wakers, sent, accepted, received>>

State(st, data) == [st |-> st, data |-> data]

SpInit ==
  /\ chan = State("NoData", <<>>) /\ sender = "idle" /\ receiver = "idle"
  /\ wakers = {} /\ sent = 0 /\ accepted = <<>> /\ received = <<>>

Woken(task, who) == IF task = "parked" /\ who \in wakers THEN "polling" ELSE task

-----------------------------------------------------------------------------

BeginSend ==
  /\ sender = "idle" /\ sent < MaxSends
  /\ sender' = "polling" /\ sent' = sent + 1
  /\ UNCHANGED <<chan, receiver, wakers, accepted, received>>

Accept == accepted' = Append(accepted, sent)

SendEmpty ==
  /\ sender = "polling" /\ chan.st = "NoData"
  /\ chan' = State("HasData", <<sent>>)
  /\ receiver' = Woken(receiver, "receiver") /\ wakers' = wakers \ {"receiver"}
  /\ Accept /\ sender' = "idle"
  /\ UNCHANGED <<sent, received>>

(* No need to wake the receiver.                                           *)
SendFold ==
  /\ sender = "polling" /\ chan.st = "HasData"
  /\ chan' = [chan EXCEPT !.data = Append(@, sent)]
  /\ Accept /\ sender' = "idle"
  /\ UNCHANGED <<receiver, wakers, sent, received>>

SendWaits ==
  /\ sender = "polling" /\ chan.st \in {"HasData", "SenderWaits"}
  /\ chan' = [chan EXCEPT !.st = "SenderWaits"]
  /\ sender' = "parked" /\ wakers' = wakers \union {"sender"}
  /\ UNCHANGED <<receiver, sent, accepted, received>>

SendRefused ==
  /\ sender = "polling" /\ chan.st = "ReceiverGone"
  /\ sender' = "idle"
  /\ UNCHANGED <<chan, receiver, wakers, sent, accepted, received>>

(* The future of send is dropped, its value with it.                       *)
CancelSend ==
  /\ sender \in {"polling", "parked"}
  /\ sender' = "idle"
  /\ UNCHANGED <<chan, receiver, wakers, sent, accepted, received>>

DropSender ==
  /\ sender = "idle"
  /\ sender' = "gone"
  /\ chan' = IF chan.st = "ReceiverGone" THEN State("AllGone", <<>>)
             ELSE State("SenderGone", chan.data)
  /\ receiver' = Woken(receiver, "receiver") /\ wakers' = wakers \ {"receiver"}
  /\ UNCHANGED <<sent, accepted, received>>

-----------------------------------------------------------------------------

BeginRecv ==
  /\ receiver = "idle"
  /\ receiver' = "polling"
  /\ UNCHANGED <<chan, sender, wakers, sent, accepted, received>>

RecvWaits ==
  /\ receiver = "polling" /\ chan.st = "NoData"
  /\ receiver' = "parked" /\ wakers' = wakers \union {"receiver"}
  /\ UNCHANGED <<chan, sender, sent, accepted, received>>

(* Mutant: forgets the data that the sender waits to get rid of.           *)
TakeDataOfHasData == IF chan.st = "SenderGone" THEN State("SenderGone", <<>>)
                     ELSE IF chan.st = "HasData" THEN State("NoData", <<>>)
                     ELSE State("SenderWaits", <<>>)

(* take_data.                                                              *)
TakeData == IF chan.st = "SenderGone" THEN State("SenderGone", <<>>) ELSE State("NoData", <<>>)

RecvData ==
  /\ receiver = "polling" /\ chan.data # <<>>
  /\ received' = received \o chan.data
  /\ chan' = TakeData
  /\ sender' = Woken(sender, "sender") /\ wakers' = wakers \ {"sender"}
  /\ receiver' = "idle"
  /\ UNCHANGED <<sent, accepted>>

RecvEnd ==
  /\ receiver = "polling" /\ chan = State("SenderGone", <<>>)
  /\ receiver' = "idle"
  /\ UNCHANGED <<chan, sender, wakers, sent, accepted, received>>

CancelRecv ==
  /\ receiver \in {"polling", "parked"}
  /\ receiver' = "idle"
  /\ UNCHANGED <<chan, sender, wakers, sent, accepted, received>>

DropReceiver ==
  /\ receiver = "idle"
  /\ receiver' = "gone"
  /\ chan' = State(IF chan.st = "SenderGone" THEN "AllGone" ELSE "ReceiverGone", <<>>)
  /\ sender' = Woken(sender, "sender") /\ wakers' = wakers \ {"sender"}
  /\ UNCHANGED <<sent, accepted, received>>

SpNext ==
  \/ BeginSend \/ SendEmpty \/ SendFold \/ SendWaits \/ SendRefused \/ CancelSend \/ DropSender
  \/ BeginRecv \/ RecvWaits \/ RecvData \/ RecvEnd \/ CancelRecv \/ DropReceiver

SpSpec == SpInit /\ [][SpNext]_spVars

-----------------------------------------------------------------------------

(* A task is parked only while it has to be: the receiver while there is   *)
(* nothing to take and the sender exists, the sender while its predecessor *)
(* is not consumed; a send that is cancelled and repeated does not change  *)
(* that.  As long as the receiver exists, what it got and what is in the   *)
(* channel are the values that send accepted, in order.                    *)
ParkedOnlyIfNeeded ==
  /\ receiver = "parked" => chan.st = "NoData"
  /\ sender = "parked" => chan.st = "SenderWaits" /\ chan.data # <<>>
  /\ receiver # "gone" => received \o chan.data = accepted
=============================================================================
