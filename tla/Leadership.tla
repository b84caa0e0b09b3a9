----------------------------- MODULE Leadership ------------------------------
(***************************************************************************)
(* Which storage controller acts: a new instance reads the leader's row,   *)
(* asks that leader to step down, replaces the row if it is still the same *)
(* and becomes leader.  All instances start as candidates.  There is one   *)
(* process per address; the row of the first leader exists already.        *)
(***************************************************************************)
EXTENDS Integers, FiniteSets

CONSTANTS
  Addresses,      \* address_for_peers of the instances
  LdNone,         \* no value
  MaxStarts,      \* bound: processes started
  MaxGiveUps      \* bound: step-down requests that stay unanswered

ASSUME LeadershipAssumption ==
  IsFiniteSet(Addresses) /\ LdNone \notin Addresses /\ MaxStarts \in Nat /\ MaxGiveUps \in Nat

VARIABLES
  controllers,    \* the table: [address, started_at]
  process,        \* address -> the process there
  starts,         \* processes started so far, the clock of started_at
  gaveUp          \* step-down requests that went unanswered

ldVars == <<controllers, process, starts, gaveUp>>

Process(st, pc) == [status |-> st, pc |-> pc, leader |-> LdNone, reconciling |-> FALSE]
Down == Process("Down", "none")
Row(a, t) == [address |-> a, started_at |-> t]

LdInit ==
  \E a \in Addresses :
    /\ controllers = {Row(a, 0)}
    /\ process = [b \in Addresses |->
                    IF a = b THEN [Process("Leader", "up") EXCEPT !.reconciling = TRUE] ELSE Down]
    /\ starts = 0 /\ gaveUp = 0

Set(a, p) == process' = [process EXCEPT ![a] = p]

-----------------------------------------------------------------------------

Start(a) ==
  /\ process[a] = Down /\ starts < MaxStarts
  /\ Set(a, Process("Candidate", "read"))
  /\ starts' = starts + 1
  /\ UNCHANGED <<controllers, gaveUp>>

(* step_down_current_leader: its own row means that this is a restart.     *)
CurrentLeader(a) ==
  /\ process[a].pc = "read"
  /\ \E r \in controllers :
       Set(a, [process[a] EXCEPT !.leader = r, !.pc = IF r.address = a THEN "persist" ELSE "ask"])
  /\ UNCHANGED <<controllers, starts, gaveUp>>

(* request_step_down reaches the leader.  A candidate answers 503, also    *)
(* when it is the process that has replaced the leader of the row.         *)
StepDown(a) ==
  LET b == process[a].leader.address
  IN  /\ process[a].pc = "ask"
      /\ process[b].status = "Leader"
      /\ Set(b, [process[b] EXCEPT !.status = "SteppedDown"])
      /\ UNCHANGED <<controllers, starts, gaveUp>>

(* stop_reconciliations.                                                   *)
ReconcilersStop(b) ==
  /\ process[b].status = "SteppedDown" /\ process[b].reconciling
  /\ Set(b, [process[b] EXCEPT !.reconciling = FALSE])
  /\ UNCHANGED <<controllers, starts, gaveUp>>

(* step_down_task answers when no reconciliation is running.               *)
Answers(p) == p.status = "SteppedDown" /\ ~p.reconciling

StepDownAnswered(a) ==
  /\ process[a].pc = "ask" /\ Answers(process[process[a].leader.address])
  /\ Set(a, [process[a] EXCEPT !.pc = "persist"])
  /\ UNCHANGED <<controllers, starts, gaveUp>>

(* All retries timed out or were refused: start-up goes on regardless.     *)
StepDownUnanswered(a) ==
  /\ process[a].pc = "ask" /\ gaveUp < MaxGiveUps
  /\ Set(a, [process[a] EXCEPT !.pc = "persist"])
  /\ gaveUp' = gaveUp + 1
  /\ UNCHANGED <<controllers, starts>>

(* Mutant: compares the address only.                                      *)
SameAddress(r) == \E c \in controllers : c.address = r.address

(* update_leader: the row must be the one that was read.                   *)
StillThere(r) == r \in controllers

UpdateLeader(a) ==
  /\ process[a].pc = "persist"
  /\ IF StillThere(process[a].leader)
     THEN /\ controllers' = {Row(a, starts)}
          /\ Set(a, [process[a] EXCEPT !.pc = "become"])
     ELSE Set(a, Down) /\ UNCHANGED controllers            \* exit(1)
  /\ UNCHANGED <<starts, gaveUp>>

BecomeLeader(a) ==
  /\ process[a].pc = "become"
  /\ Set(a, [process[a] EXCEPT !.pc = "up", !.status = "Leader", !.reconciling = TRUE])
  /\ UNCHANGED <<controllers, starts, gaveUp>>

Crash(a) ==
  /\ process[a] # Down /\ starts < MaxStarts
  /\ Set(a, Down)
  /\ UNCHANGED <<controllers, starts, gaveUp>>

LdNext ==
  \E a \in Addresses :
    \/ Start(a) \/ CurrentLeader(a) \/ StepDown(a) \/ ReconcilersStop(a) \/ StepDownAnswered(a)
    \/ StepDownUnanswered(a) \/ UpdateLeader(a) \/ BecomeLeader(a) \/ Crash(a)

LdSpec == LdInit /\ [][LdNext]_ldVars

-----------------------------------------------------------------------------

(* While one instance is leader no other acts on the cluster, not even     *)
(* with reconciliations it has not finished, unless a step-down request    *)
(* went unanswered, the case the TODO in request_step_down leaves open.    *)
OneActs ==
  gaveUp = 0 =>
    \A a, b \in Addresses :
      a # b /\ process[a].status = "Leader"
        => process[b].status # "Leader" /\ ~process[b].reconciling
=============================================================================
