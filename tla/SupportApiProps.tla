-------------------------- MODULE SupportApiProps ---------------------------
(***************************************************************************)
(* What is expected of SupportApi.                                         *)
(***************************************************************************)
EXTENDS SupportApi

\* The turn is between the acquire and the release of its thread's lock.
Inside(t) == turn[t].at \in {"reading", "invoking", "model", "tools", "unwinding"}

(***************************************************************************)
(* One turn per conversation at a time (api.py: "Two turns at once on one  *)
(* thread would both read the same checkpoint and both run the model").    *)
(***************************************************************************)
OneTurnPerThread ==
  \A t, u \in Turns :
    /\ Inside(t) /\ Inside(u)
    /\ turn[t].conversation = turn[u].conversation
    => t = u

(***************************************************************************)
(* A pause can always be carried out: while a refund waits, its thread has *)
(* no other call without a result, which the model API would reject on     *)
(* every later turn (_run_turn), and no message has gone past it, also not *)
(* one admitted before the pause or racing the turn that pauses.  What a   *)
(* message does go past is only a call of a run that ended without a       *)
(* result for it and without pausing on it.                                *)
(***************************************************************************)
PausesStayAnswerable ==
  \A c \in Conversations :
    /\ Paused(c) => ~thread[c].dangling /\ ~thread[c].orphaned
    /\ thread[c].orphaned => thread[c].dangling

(***************************************************************************)
(* No message ever goes past a call without a result, what _run_turn's     *)
(* guard is for.  The guard looks for an interrupt, and a run whose card   *)
(* raised, whose tool raised or which its limit ended has left none.       *)
(***************************************************************************)
HistoryAnswerable == \A c \in Conversations : ~thread[c].orphaned

(***************************************************************************)
(* The model never runs on a turn that was given back: what a session made *)
(* the service spend is never more than what its counter says, whatever is *)
(* refused, busy or failing around it.                                     *)
(***************************************************************************)
NoFreeModelRun == \A s \in Sessions : ran[s] <= bySession[s]

(***************************************************************************)
(* A thread changes only under its lock, in a turn of the session that     *)
(* opened it and of the customer who owns it; a restart, which no longer   *)
(* knows any conversation, wipes it.                                       *)
(***************************************************************************)
ServedBy(t, c) ==
  /\ lock[c] = t
  /\ turn[t].conversation = c
  /\ turn[t].session = sessionOf[c]
  /\ owner[c] = CustomerOf[turn[t].session]

ThreadIsPrivate ==
  [][\A c \in Conversations :
       thread'[c] # thread[c] =>
         \/ \E t \in Turns : ServedBy(t, c)
         \/ \A d \in Conversations : sessionOf'[d] = None]_vars

(***************************************************************************)
(* The service keeps the refund promise: calls of one pause are decided    *)
(* once and together, and only approved ones are filed.                    *)
(***************************************************************************)
Life == [k \in Calls |-> IF k \in filed THEN "filed" ELSE fate[k]]
Promise == INSTANCE RefundPromise WITH life <- Life
KeepsRefundPromise == Promise!PromiseSpec

(***************************************************************************)
(* Every admitted turn is answered, and no thread stays locked: a visitor  *)
(* is never told "still working on your last message" for ever.            *)
(***************************************************************************)
EveryTurnSettles ==
  \A t \in Turns : turn[t].at # "idle" ~> turn[t].at = "idle"

EveryLockIsFreed ==
  \A c \in Conversations : lock[c] # None ~> lock[c] = None
=============================================================================
