-------------------------- MODULE SupportApiProofs --------------------------
(***************************************************************************)
(* The service's safety for any number of sessions, workers, conversations *)
(* and refund calls.  ApiInv is the inductive invariant; its parts tell    *)
(* what a turn knows at each of its places.                                *)
(***************************************************************************)
EXTENDS SupportApiProps, BudgetProofs

\* A turn in flight serves some session on some conversation.
TurnsAreAddressed ==
  \A t \in Turns : turn[t].at # "idle" => /\ turn[t].session \in Sessions
                                          /\ turn[t].conversation \in Conversations

\* A lock names the one turn that is inside on its conversation.
LocksAreHeld ==
  \A c \in Conversations, t \in Turns :
    lock[c] = t <=> Inside(t) /\ turn[t].conversation = c

\* What get_state returned still holds when the agent is invoked.
ChecksStillHold ==
  \A t \in Turns : turn[t].at = "invoking" =>
    /\ turn[t].calls = thread[turn[t].conversation].pending
    /\ FitsThread(t)

\* Every call on a pause waits, and is on that pause only.
PausesWait ==
  \A c \in Conversations, k \in Calls :
    k \in thread[c].pending => /\ fate[k] = "waiting"
                               /\ \A d \in Conversations \ {c} : k \notin thread[d].pending

\* Every call about to execute was approved, is not filed, and no other turn
\* is about to execute it.
ExecutedOnce ==
  \A t \in Turns, k \in Calls :
    turn[t].at = "tools" /\ k \in turn[t].calls =>
      /\ fate[k] = "approve" /\ k \notin filed
      /\ \A u \in Turns \ {t} : turn[u].at = "tools" => k \notin turn[u].calls

FiledWereApproved == \A k \in filed : fate[k] = "approve"

\* A run goes on only on a thread that is not paused and, unless a message has
\* gone past one, has no call without a result.
RunsAreClean ==
  \A t \in Turns : turn[t].at \in {"model", "tools"} =>
    LET held == thread[turn[t].conversation] IN
    /\ held.pending = {}
    /\ held.dangling => held.orphaned

TurnsInv ==
  /\ ApiTypeOK
  /\ TurnsAreAddressed
  /\ LocksAreHeld
  /\ ChecksStillHold
  /\ PausesWait
  /\ ExecutedOnce
  /\ FiledWereApproved
  /\ RunsAreClean
  /\ PausesStayAnswerable

ApiInv == BudgetInv /\ TurnsInv

-----------------------------------------------------------------------------
(* The service drives the budget only through its operations *)

\* Every step of the service is a step of the budget, or leaves it alone.
LEMMA StepsAreBudgetSteps == [ApiNext]_vars => [BudgetNext]_budgetVars
<1> SUFFICES ASSUME [ApiNext]_vars PROVE [BudgetNext]_budgetVars
  OBVIOUS
<1>1. CASE Visit
  <2>1. ASSUME NEW s \in Sessions, IssueSession(s) \/ ExpireSession(s)
        PROVE  UNCHANGED budgetVars
    BY <2>1 DEF IssueSession, ExpireSession
  <2>2. ASSUME NEW s \in Sessions, StartFails(s)
        PROVE  BudgetNext
    BY <2>2 DEF StartFails, BudgetNext
  <2>3. ASSUME NEW s \in Sessions, NEW c \in Conversations, StartConversation(s, c)
        PROVE  BudgetNext
    BY <2>3 DEF StartConversation, BudgetNext
  <2>4. ASSUME NEW s \in Sessions, NEW c \in Conversations, Limited(s, c)
        PROVE  BudgetNext
    BY <2>4 DEF Limited, BudgetNext
  <2>5. ASSUME NEW t \in Turns, NEW s \in Sessions, NEW c \in Conversations,
               NEW says \in {"message", "approve", "reject"}, Admit(t, s, c, says)
        PROVE  BudgetNext
    BY <2>5 DEF Admit, BudgetNext
  <2> QED BY <1>1, <2>1, <2>2, <2>3, <2>4, <2>5 DEF Visit
<1>2. CASE Tick
  BY <1>2 DEF Tick, BudgetNext
<1>3. ASSUME NEW t \in Turns, Step(t) PROVE [BudgetNext]_budgetVars
  <2>1. CASE Settle(t)
    BY <2>1 DEF Settle, BudgetNext
  <2>2. CASE ~Settle(t)
    BY <1>3, <2>2 DEF Step, Authorize, StoreFails, AcquireLock, Busy, ReadState, Invoke,
       ModelAnswers, ModelFails, PreflightRaises, ToolRaises, LimitEnds, Strands,
       ModelAsksRefund, FileRefund, ToolDeclines, ReleaseLock
  <2> QED BY <2>1, <2>2
<1>4. ASSUME NEW keepsStore \in BOOLEAN, NEW keepsSecret \in BOOLEAN,
             Restart(keepsStore, keepsSecret)
      PROVE  BudgetNext
  BY <1>4 DEF Restart, BudgetNext
<1>5. CASE UNCHANGED vars
  BY <1>5 DEF vars
<1> QED BY <1>1, <1>2, <1>3, <1>4, <1>5 DEF ApiNext

\* The service implements the budget: whatever was proved of the budget by
\* itself holds of the budget inside the service.
THEOREM ServiceUsesBudget == ApiSpec => BudgetSpec
<1>1. ApiInit => BudgetInit
  BY DEF ApiInit
<1> QED BY <1>1, StepsAreBudgetSteps, PTL DEF ApiSpec, BudgetSpec

\* No session passes its limit and no refused turn costs one, in the service
\* with its locks, pauses, failures and restarts.
THEOREM ServiceSessionsAreExact == ApiSpec => []SessionLedger
<1> QED BY ServiceUsesBudget, SessionsAreExact

-----------------------------------------------------------------------------
(* How the steps of a turn change turn *)

\* Only worker t's turn changes; its address stays.
Advances(t) ==
  /\ turn' \in [Turns -> TurnStates]
  /\ \A u \in Turns \ {t} : turn'[u] = turn[u]
  /\ turn'[t].session = turn[t].session
  /\ turn'[t].conversation = turn[t].conversation
  /\ turn'[t].says = turn[t].says

LEMMA MoveToAdvances ==
  ASSUME NEW t \in Turns, NEW place \in Places, turn \in [Turns -> TurnStates],
         MoveTo(t, place)
  PROVE  /\ Advances(t)
         /\ turn'[t].at = place
         /\ turn'[t].calls = turn[t].calls
BY DEF MoveTo, Advances, TurnStates

LEMMA EndAdvances ==
  ASSUME NEW t \in Turns, NEW place \in Places, turn \in [Turns -> TurnStates],
         NEW ends \in {"unknown", "refused", "failed", "answered"},
         NEW S \in SUBSET Calls, End(t, place, ends, S)
  PROVE  /\ Advances(t)
         /\ turn'[t].at = place
         /\ turn'[t].calls = S
         /\ turn'[t].ends = ends
<1> DEFINE new == [turn[t] EXCEPT !.at = place, !.calls = S, !.ends = ends]
<1>1. turn[t] \in TurnStates
  OBVIOUS
<1>2. /\ new \in TurnStates /\ new.at = place /\ new.calls = S /\ new.ends = ends
      /\ new.session = turn[t].session /\ new.conversation = turn[t].conversation
      /\ new.says = turn[t].says
  BY <1>1 DEF TurnStates
<1>3. turn' = [turn EXCEPT ![t] = new]
  BY DEF End
<1> QED BY <1>2, <1>3 DEF Advances

LEMMA CallsChangeAdvances ==
  ASSUME NEW t \in Turns, NEW place \in Places, turn \in [Turns -> TurnStates],
         NEW S \in SUBSET Calls,
         turn' = [turn EXCEPT ![t].at = place, ![t].calls = S]
  PROVE  /\ Advances(t)
         /\ turn'[t].at = place
         /\ turn'[t].calls = S
         /\ turn'[t].ends = turn[t].ends
<1> DEFINE new == [turn[t] EXCEPT !.at = place, !.calls = S]
<1>1. turn[t] \in TurnStates
  OBVIOUS
<1>2. /\ new \in TurnStates /\ new.at = place /\ new.calls = S /\ new.ends = turn[t].ends
      /\ new.session = turn[t].session /\ new.conversation = turn[t].conversation
      /\ new.says = turn[t].says
  BY <1>1 DEF TurnStates
<1>3. turn' = [turn EXCEPT ![t] = new]
  OBVIOUS
<1> QED BY <1>2, <1>3 DEF Advances

LEMMA CallFinishedAdvances ==
  ASSUME NEW t \in Turns, NEW k \in Calls, turn \in [Turns -> TurnStates],
         turn[t].at = "tools", CallFinished(t, k)
  PROVE  /\ Advances(t)
         /\ turn'[t].at \in {"model", "tools"}
         /\ turn'[t].calls = turn[t].calls \ {k}
<1> DEFINE left == turn[t].calls \ {k}
           next == IF left = {} THEN "model" ELSE "tools"
<1>1. turn' = [turn EXCEPT ![t].at = next, ![t].calls = left]
  BY DEF CallFinished
<1>2. left \in SUBSET Calls /\ next \in {"model", "tools"} /\ next \in Places
  BY DEF TurnStates, Places
<1> HIDE DEF left, next
<1>3. Advances(t) /\ turn'[t].at = next /\ turn'[t].calls = left
  BY <1>1, <1>2, CallsChangeAdvances, Zenon
<1> QED BY <1>2, <1>3 DEF left

-----------------------------------------------------------------------------
(* The invariant, one lemma per kind of step *)

LEMMA TurnsInvInit == ApiInit /\ BudgetInv => TurnsInv
<1> SUFFICES ASSUME ApiInit, BudgetInv PROVE TurnsInv
  OBVIOUS
<1> USE IdentityAssumption DEF ApiInit, IdleTurn, NewThread, Inside
<1>1. ApiTypeOK
  BY DEF ApiTypeOK, BudgetInv, Zero, TurnStates, Places, Threads, Fates
<1>2. TurnsAreAddressed /\ LocksAreHeld /\ ChecksStillHold
  BY DEF TurnsAreAddressed, LocksAreHeld, ChecksStillHold
<1>3. PausesWait /\ ExecutedOnce /\ FiledWereApproved
  BY DEF PausesWait, ExecutedOnce, FiledWereApproved
<1>4. RunsAreClean /\ PausesStayAnswerable
  BY DEF RunsAreClean, PausesStayAnswerable, Paused
<1> QED BY <1>1, <1>2, <1>3, <1>4 DEF TurnsInv

\* A step that touches neither turns, locks, threads nor refund calls.
LEMMA ElsewhereKeepsTurnsInv ==
  ASSUME TurnsInv, ApiTypeOK', UNCHANGED <<lock, thread, turn, fate, filed>>
  PROVE  TurnsInv'
<1> USE DEF TurnsInv
<1>1. TurnsAreAddressed' /\ LocksAreHeld' /\ ChecksStillHold'
  BY DEF TurnsAreAddressed, LocksAreHeld, ChecksStillHold, Inside, FitsThread, Resuming, Paused
<1>2. PausesWait' /\ ExecutedOnce' /\ FiledWereApproved'
  BY DEF PausesWait, ExecutedOnce, FiledWereApproved
<1>3. RunsAreClean' /\ PausesStayAnswerable'
  BY DEF RunsAreClean, PausesStayAnswerable, Paused
<1> QED BY <1>1, <1>2, <1>3

\* A turn that moves on without entering or leaving the lock, to a place where
\* nothing is known of its calls, and touches nothing else.
LEMMA QuietKeepsTurnsInv ==
  ASSUME NEW t \in Turns, TurnsInv, ApiTypeOK', Advances(t),
         turn[t].at # "idle", turn'[t].at \notin {"invoking", "model", "tools"},
         Inside(t)' <=> Inside(t),
         UNCHANGED <<lock, thread, fate, filed>>
  PROVE  TurnsInv'
<1> USE DEF TurnsInv, Advances
<1>1. TurnsAreAddressed'
  BY DEF TurnsAreAddressed
<1>2. LocksAreHeld'
  BY DEF LocksAreHeld, Inside
<1>3. ChecksStillHold'
  BY DEF ChecksStillHold, FitsThread, Resuming, Paused
<1>4. ExecutedOnce'
  BY DEF ExecutedOnce
<1>5. PausesWait' /\ FiledWereApproved'
  BY DEF PausesWait, FiledWereApproved
<1>6. RunsAreClean' /\ PausesStayAnswerable'
  BY DEF RunsAreClean, PausesStayAnswerable, Paused
<1> QED BY <1>1, <1>2, <1>3, <1>4, <1>5, <1>6

LEMMA AdmitKeepsTurnsInv ==
  ASSUME NEW t \in Turns, NEW s \in Sessions, NEW c \in Conversations,
         NEW says \in {"message", "approve", "reject"},
         TurnsInv, BudgetTypeOK', Admit(t, s, c, says)
  PROVE  TurnsInv'
<1> USE DEF TurnsInv
<1>1. PerSession - bySession[s] - 1 \in Nat
  BY LimitsAssumption DEF Admit, Charge, SessionFull, ApiTypeOK, BudgetTypeOK
<1> DEFINE new == [IdleTurn EXCEPT !.at = "authorizing", !.session = s, !.conversation = c,
                                   !.says = says, !.left = PerSession - bySession[s] - 1]
<1>2. turn' = [turn EXCEPT ![t] = new]
  BY DEF Admit
<1>3. /\ new \in TurnStates
      /\ new.at = "authorizing" /\ new.session = s /\ new.conversation = c
  BY <1>1 DEF IdleTurn, TurnStates, Places
<1> HIDE DEF new
<1>4. /\ turn' \in [Turns -> TurnStates]
      /\ \A u \in Turns \ {t} : turn'[u] = turn[u]
      /\ turn'[t].at = "authorizing"
      /\ turn'[t].session = s /\ turn'[t].conversation = c
      /\ turn[t].at = "idle"
  BY <1>2, <1>3 DEF ApiTypeOK, Admit
<1>5. ApiTypeOK' /\ UNCHANGED <<lock, thread, fate, filed>>
  BY <1>4 DEF ApiTypeOK, Admit
<1>6. TurnsAreAddressed'
  BY <1>4 DEF TurnsAreAddressed
<1>7. LocksAreHeld'
  BY <1>4, <1>5 DEF LocksAreHeld, Inside
<1>8. ChecksStillHold'
  BY <1>4, <1>5 DEF ChecksStillHold, FitsThread, Resuming, Paused
<1>9. ExecutedOnce'
  BY <1>4, <1>5 DEF ExecutedOnce
<1>10. PausesWait' /\ FiledWereApproved'
  BY <1>5 DEF PausesWait, FiledWereApproved
<1>11. RunsAreClean' /\ PausesStayAnswerable'
  BY <1>4, <1>5 DEF RunsAreClean, PausesStayAnswerable, Paused
<1> QED BY <1>5, <1>6, <1>7, <1>8, <1>9, <1>10, <1>11

LEMMA AcquireKeepsTurnsInv ==
  ASSUME NEW t \in Turns, TurnsInv, BudgetTypeOK', AcquireLock(t)
  PROVE  TurnsInv'
<1> DEFINE c == turn[t].conversation
<1> USE DEF TurnsInv
<1>1. /\ turn[t].at = "acquiring" /\ lock[c] = None /\ c \in Conversations
      /\ lock' = [lock EXCEPT ![c] = t]
      /\ UNCHANGED <<token, sessionOf, owner, thread, fate, filed, ran>>
  BY DEF AcquireLock, LockFree, TurnsAreAddressed
<1>2. Advances(t) /\ turn'[t].at = "reading" /\ turn'[t].conversation = c
  BY MoveToAdvances DEF AcquireLock, ApiTypeOK, Places, Advances
<1>3. ApiTypeOK'
  BY <1>1, <1>2 DEF ApiTypeOK, Advances
<1>4. TurnsAreAddressed'
  BY <1>1, <1>2 DEF TurnsAreAddressed, Advances
<1>5. LocksAreHeld'
  <2> SUFFICES ASSUME NEW d \in Conversations, NEW u \in Turns
               PROVE  lock'[d] = u <=> Inside(u)' /\ turn'[u].conversation = d
    BY DEF LocksAreHeld, Inside
  <2>1. lock'[d] = IF d = c THEN t ELSE lock[d]
    BY <1>1 DEF ApiTypeOK
  <2>2. CASE u = t
    BY <1>1, <1>2, <2>1, <2>2 DEF LocksAreHeld, Inside
  <2>3. CASE u # t
    BY <1>1, <1>2, <2>1, <2>3, IdentityAssumption DEF LocksAreHeld, Inside, Advances
  <2> QED BY <2>2, <2>3
<1>6. ChecksStillHold'
  BY <1>1, <1>2 DEF ChecksStillHold, FitsThread, Resuming, Paused, Advances
<1>7. ExecutedOnce'
  BY <1>1, <1>2 DEF ExecutedOnce, Advances
<1>8. PausesWait' /\ FiledWereApproved'
  BY <1>1 DEF PausesWait, FiledWereApproved
<1>9. RunsAreClean' /\ PausesStayAnswerable'
  BY <1>1, <1>2 DEF RunsAreClean, PausesStayAnswerable, Paused, Advances
<1> QED BY <1>3, <1>4, <1>5, <1>6, <1>7, <1>8, <1>9

LEMMA ReadKeepsTurnsInv ==
  ASSUME NEW t \in Turns, TurnsInv, BudgetTypeOK', ReadState(t)
  PROVE  TurnsInv'
<1> DEFINE c == turn[t].conversation
<1> USE DEF TurnsInv
<1>1. /\ turn[t].at = "reading" /\ c \in Conversations
      /\ UNCHANGED <<token, sessionOf, owner, lock, thread, fate, filed, ran>>
  BY DEF ReadState, TurnsAreAddressed
<1>2. CASE ~FitsThread(t)
  <2>1. Advances(t) /\ turn'[t].at = "unwinding"
    BY <1>2, EndAdvances DEF ReadState, ApiTypeOK, Places
  <2>2. ApiTypeOK'
    BY <1>1, <2>1 DEF ApiTypeOK, Advances
  <2> QED BY <1>1, <2>1, <2>2, QuietKeepsTurnsInv DEF Inside
<1>3. CASE FitsThread(t)
  <2>1. thread[c].pending \in SUBSET Calls
    BY <1>1 DEF ApiTypeOK, Threads
  <2>2. turn' = [turn EXCEPT ![t].at = "invoking", ![t].calls = thread[c].pending]
    BY <1>3 DEF ReadState
  <2>3. Advances(t) /\ turn'[t].at = "invoking" /\ turn'[t].calls = thread[c].pending
    <3> DEFINE S == thread[c].pending
    <3>1. turn \in [Turns -> TurnStates] /\ "invoking" \in Places
      BY DEF ApiTypeOK, Places
    <3>2. S \in SUBSET Calls /\ turn' = [turn EXCEPT ![t].at = "invoking", ![t].calls = S]
      BY <2>1, <2>2
    <3> HIDE DEF S
    <3>3. Advances(t) /\ turn'[t].at = "invoking" /\ turn'[t].calls = S
      BY <3>1, <3>2, CallsChangeAdvances, Zenon
    <3> QED BY <3>3 DEF S
  <2>4. ApiTypeOK'
    BY <1>1, <2>3 DEF ApiTypeOK, Advances
  <2>5. TurnsAreAddressed' /\ LocksAreHeld'
    BY <1>1, <2>3 DEF TurnsAreAddressed, LocksAreHeld, Inside, Advances
  <2>6. ChecksStillHold'
    BY <1>1, <1>3, <2>3 DEF ChecksStillHold, FitsThread, Resuming, Paused, Advances
  <2>7. ExecutedOnce'
    BY <1>1, <2>3 DEF ExecutedOnce, Advances
  <2>8. PausesWait' /\ FiledWereApproved'
    BY <1>1 DEF PausesWait, FiledWereApproved
  <2>9. RunsAreClean' /\ PausesStayAnswerable'
    BY <1>1, <2>3 DEF RunsAreClean, PausesStayAnswerable, Paused, Advances
  <2> QED BY <2>4, <2>5, <2>6, <2>7, <2>8, <2>9
<1> QED BY <1>2, <1>3

\* While t is inside, no other turn on its conversation has read the thread.
LEMMA AloneInside ==
  ASSUME NEW t \in Turns, NEW u \in Turns \ {t}, TurnsInv, Inside(t), Inside(u)
  PROVE  turn[u].conversation # turn[t].conversation
<1>1. /\ turn[t].conversation \in Conversations
      /\ turn[t].at # "idle" /\ turn[u].at # "idle"
  BY DEF TurnsInv, TurnsAreAddressed, Inside
<1> QED BY <1>1 DEF TurnsInv, LocksAreHeld

\* A turn that leaves the agent and changes its own thread touches no other run.
LEMMA RunsElsewhereStayClean ==
  ASSUME NEW t \in Turns, TurnsInv, Inside(t), Advances(t), turn'[t].at = "unwinding",
         \A d \in Conversations \ {turn[t].conversation} : thread'[d] = thread[d]
  PROVE  RunsAreClean'
<1> SUFFICES ASSUME NEW u \in Turns, turn'[u].at \in {"model", "tools"}
             PROVE  /\ thread'[turn'[u].conversation].pending = {}
                    /\ thread'[turn'[u].conversation].dangling
                         => thread'[turn'[u].conversation].orphaned
  BY DEF RunsAreClean
<1>1. u # t /\ turn'[u] = turn[u] /\ Inside(u)
  BY DEF Advances, Inside
<1>2. turn[u].conversation \in Conversations \ {turn[t].conversation}
  BY <1>1, AloneInside DEF TurnsInv, TurnsAreAddressed, Inside
<1> QED BY <1>1, <1>2 DEF TurnsInv, RunsAreClean

LEMMA InvokeKeepsTurnsInv ==
  ASSUME NEW t \in Turns, TurnsInv, BudgetTypeOK', Invoke(t)
  PROVE  TurnsInv'
<1> DEFINE c == turn[t].conversation
           S == turn[t].calls
<1> USE DEF TurnsInv
<1>1. /\ turn[t].at = "invoking" /\ c \in Conversations
      /\ S = thread[c].pending /\ S \in SUBSET Calls /\ FitsThread(t)
      /\ turn[t].says \in {"message", "approve", "reject"}
      /\ UNCHANGED <<token, sessionOf, owner, lock, filed>>
  BY DEF Invoke, TurnsAreAddressed, ChecksStillHold, ApiTypeOK, TurnStates
<1>2. /\ Advances(t) /\ turn'[t].at \in {"model", "tools"} /\ turn'[t].calls = S
      /\ turn'[t].at = "tools" => turn[t].says = "approve"
  <2>1. AfterDecision(t) \in {"model", "tools"} \cap Places
    BY DEF AfterDecision, Places
  <2>2. MoveTo(t, AfterDecision(t))
    BY DEF Invoke
  <2>3. AfterDecision(t) = "tools" => turn[t].says = "approve"
    BY DEF AfterDecision
  <2> QED BY <2>1, <2>2, <2>3, MoveToAdvances DEF ApiTypeOK
<1>3. /\ thread'[c].pending = {}
      /\ thread'[c].dangling = thread[c].dangling
      /\ thread'[c].orphaned => thread[c].dangling
      /\ thread[c].dangling => thread'[c].orphaned
      /\ \A d \in Conversations \ {c} : thread'[d] = thread[d]
      /\ thread' \in [Conversations -> Threads]
  <2>1. CASE Resuming(t)
    <3>1. /\ thread' = [thread EXCEPT ![c].pending = {}]
          /\ ~thread[c].dangling /\ ~thread[c].orphaned
      BY <1>1, <2>1 DEF Invoke, FitsThread, PausesStayAnswerable
    <3> QED BY <1>1, <3>1 DEF ApiTypeOK, Threads
  <2>2. CASE ~Resuming(t)
    <3> DEFINE new == [thread[c] EXCEPT !.pending = {},
                                        !.orphaned = @ \/ Paused(c) \/ thread[c].dangling]
    <3>1. thread' = [thread EXCEPT ![c] = new]
      BY <2>2 DEF Invoke
    <3>2. ~Paused(c) /\ (thread[c].orphaned => thread[c].dangling)
      BY <1>1, <2>2 DEF FitsThread, PausesStayAnswerable
    <3>3. /\ new \in Threads /\ new.pending = {} /\ new.dangling = thread[c].dangling
          /\ new.orphaned <=> thread[c].dangling
      BY <1>1, <3>2 DEF ApiTypeOK, Threads
    <3> HIDE DEF new
    <3> QED BY <1>1, <3>1, <3>3 DEF ApiTypeOK
  <2> QED BY <2>1, <2>2
<1>4. /\ fate' \in [Calls -> Fates]
      /\ \A k \in Calls : k \in S => fate'[k] = turn[t].says
      /\ \A k \in Calls : k \notin S => fate'[k] = fate[k]
  <2>1. CASE Resuming(t)
    BY <1>1, <2>1 DEF Invoke, ApiTypeOK, Fates, Resuming
  <2>2. CASE ~Resuming(t)
    BY <1>1, <2>2 DEF Invoke, ApiTypeOK, FitsThread, Paused
  <2> QED BY <2>1, <2>2
<1>5. ran' \in [Sessions -> Nat]
  BY <1>1 DEF Invoke, ApiTypeOK, TurnsAreAddressed
<1>6. ApiTypeOK'
  BY <1>1, <1>2, <1>3, <1>4, <1>5 DEF ApiTypeOK, Advances
<1>7. TurnsAreAddressed' /\ LocksAreHeld'
  BY <1>1, <1>2 DEF TurnsAreAddressed, LocksAreHeld, Inside, Advances
<1>8. ChecksStillHold'
  <2> SUFFICES ASSUME NEW u \in Turns, turn'[u].at = "invoking"
               PROVE  /\ turn'[u].calls = thread'[turn'[u].conversation].pending
                      /\ FitsThread(u)'
    BY DEF ChecksStillHold, FitsThread, Resuming, Paused
  <2>1. u # t /\ turn'[u] = turn[u]
    BY <1>2 DEF Advances
  <2>2. Inside(t) /\ Inside(u)
    BY <1>1, <2>1 DEF Inside
  <2>3. turn[u].conversation \in Conversations \ {c}
    BY <2>1, <2>2, AloneInside DEF TurnsAreAddressed
  <2> QED BY <1>3, <2>1, <2>3 DEF ChecksStillHold, FitsThread, Resuming, Paused
<1>9. \A k \in S : /\ fate[k] = "waiting"
                   /\ \A d \in Conversations \ {c} : k \notin thread[d].pending
  BY <1>1 DEF PausesWait
<1>10. PausesWait'
  BY <1>3, <1>4, <1>9 DEF PausesWait
<1>11. FiledWereApproved'
  BY <1>1, <1>4, <1>9 DEF FiledWereApproved, ApiTypeOK
<1>12. ExecutedOnce'
  <2> SUFFICES ASSUME NEW u \in Turns, NEW k \in Calls,
                      turn'[u].at = "tools", k \in turn'[u].calls
               PROVE  /\ fate'[k] = "approve" /\ k \notin filed
                      /\ \A v \in Turns \ {u} : turn'[v].at = "tools" => k \notin turn'[v].calls
    BY <1>1 DEF ExecutedOnce
  <2>1. CASE u = t
    <3>1. k \in S /\ turn[t].says = "approve"
      BY <1>2, <2>1
    <3>2. k \notin filed
      BY <1>9, <3>1 DEF FiledWereApproved
    <3>3. \A v \in Turns \ {u} : turn[v].at = "tools" => k \notin turn[v].calls
      BY <1>9, <3>1 DEF ExecutedOnce
    <3> QED BY <1>2, <1>4, <2>1, <3>1, <3>2, <3>3 DEF Advances
  <2>2. CASE u # t
    <3>1. turn[u].at = "tools" /\ k \in turn[u].calls
      BY <1>2, <2>2 DEF Advances
    <3>2. fate[k] = "approve" /\ k \notin filed /\ k \notin S
      BY <1>9, <3>1 DEF ExecutedOnce
    <3> QED BY <1>2, <1>4, <2>2, <3>1, <3>2 DEF ExecutedOnce, Advances
  <2> QED BY <2>1, <2>2
<1>13. PausesStayAnswerable'
  BY <1>1, <1>3 DEF PausesStayAnswerable, Paused
<1>14. RunsAreClean'
  <2> SUFFICES ASSUME NEW u \in Turns, turn'[u].at \in {"model", "tools"}
               PROVE  /\ thread'[turn'[u].conversation].pending = {}
                      /\ thread'[turn'[u].conversation].dangling
                           => thread'[turn'[u].conversation].orphaned
    BY DEF RunsAreClean
  <2>1. CASE u = t
    BY <1>2, <1>3, <2>1 DEF Advances
  <2>2. CASE u # t
    <3>1. turn'[u] = turn[u] /\ Inside(t) /\ Inside(u)
      BY <1>1, <1>2, <2>2 DEF Advances, Inside
    <3>2. turn[u].conversation \in Conversations \ {c}
      BY <2>2, <3>1, AloneInside DEF TurnsAreAddressed, Inside
    <3> QED BY <1>3, <3>1, <3>2 DEF RunsAreClean
  <2> QED BY <2>1, <2>2
<1> QED BY <1>6, <1>7, <1>8, <1>10, <1>11, <1>12, <1>13, <1>14

LEMMA AskKeepsTurnsInv ==
  ASSUME NEW t \in Turns, NEW S \in SUBSET Calls, TurnsInv, BudgetTypeOK',
         ModelAsksRefund(t, S)
  PROVE  TurnsInv'
<1> DEFINE c == turn[t].conversation
<1> USE DEF TurnsInv
<1>1. /\ turn[t].at = "model" /\ c \in Conversations
      /\ \A k \in S : fate[k] = "unasked"
      /\ UNCHANGED <<token, sessionOf, owner, lock, filed, ran>>
  BY DEF ModelAsksRefund, TurnsAreAddressed
<1>2. Advances(t) /\ turn'[t].at = "unwinding"
  BY EndAdvances DEF ModelAsksRefund, ApiTypeOK, Places
<1>3. /\ thread'[c].pending = S
      /\ thread'[c].orphaned = thread[c].orphaned
      /\ thread'[c].dangling = thread[c].dangling
      /\ \A d \in Conversations \ {c} : thread'[d] = thread[d]
      /\ thread' \in [Conversations -> Threads]
  <2> DEFINE new == [thread[c] EXCEPT !.pending = S]
  <2>1. thread \in [Conversations -> Threads] /\ thread[c] \in Threads
    BY <1>1 DEF ApiTypeOK
  <2>2. /\ new \in Threads /\ new.pending = S
        /\ new.orphaned = thread[c].orphaned /\ new.dangling = thread[c].dangling
    BY <2>1 DEF Threads
  <2>3. thread' = [thread EXCEPT ![c] = new]
    BY DEF ModelAsksRefund
  <2> QED BY <1>1, <2>1, <2>2, <2>3
<1>4. /\ fate' \in [Calls -> Fates]
      /\ \A k \in Calls : k \in S => fate'[k] = "waiting"
      /\ \A k \in Calls : k \notin S => fate'[k] = fate[k]
  BY DEF ModelAsksRefund, ApiTypeOK, Fates
<1>5. ApiTypeOK'
  BY <1>1, <1>2, <1>3, <1>4 DEF ApiTypeOK, Advances
<1>6. TurnsAreAddressed' /\ LocksAreHeld'
  BY <1>1, <1>2 DEF TurnsAreAddressed, LocksAreHeld, Inside, Advances
<1>7. ChecksStillHold'
  <2> SUFFICES ASSUME NEW u \in Turns, turn'[u].at = "invoking"
               PROVE  /\ turn'[u].calls = thread'[turn'[u].conversation].pending
                      /\ FitsThread(u)'
    BY DEF ChecksStillHold, FitsThread, Resuming, Paused
  <2>1. u # t /\ turn'[u] = turn[u]
    BY <1>2 DEF Advances
  <2>2. Inside(t) /\ Inside(u)
    BY <1>1, <2>1 DEF Inside
  <2>3. turn[u].conversation \in Conversations \ {c}
    BY <2>1, <2>2, AloneInside DEF TurnsAreAddressed
  <2> QED BY <1>3, <2>1, <2>3 DEF ChecksStillHold, FitsThread, Resuming, Paused
<1>8. PausesWait'
  <2>1. \A d \in Conversations, k \in S : k \notin thread[d].pending
    BY <1>1 DEF PausesWait
  <2> QED BY <1>3, <1>4, <2>1 DEF PausesWait
<1>9. ExecutedOnce'
  BY <1>1, <1>2, <1>4 DEF ExecutedOnce, Advances
<1>10. FiledWereApproved'
  BY <1>1, <1>4 DEF FiledWereApproved, ApiTypeOK
<1>11. PausesStayAnswerable'
  <2>1. ~thread[c].orphaned /\ ~thread[c].dangling
    BY <1>1 DEF ModelAsksRefund, RunsAreClean
  <2> QED BY <1>3, <2>1 DEF PausesStayAnswerable, Paused
<1>12. RunsAreClean'
  BY <1>1, <1>2, <1>3, RunsElsewhereStayClean DEF Inside
<1> QED BY <1>5, <1>6, <1>7, <1>8, <1>9, <1>10, <1>11, <1>12

\* A run that ends with a call left unanswered.
LEMMA StrandsKeepsTurnsInv ==
  ASSUME NEW t \in Turns, NEW ends \in {"failed", "answered"}, TurnsInv, BudgetTypeOK',
         turn[t].at \in {"model", "tools"}, Strands(t, ends)
  PROVE  TurnsInv'
<1> DEFINE c == turn[t].conversation
<1> USE DEF TurnsInv
<1>1. /\ c \in Conversations /\ ~thread[c].orphaned /\ thread[c].pending = {}
      /\ UNCHANGED <<token, sessionOf, owner, lock, fate, filed, ran>>
  BY DEF Strands, TurnsAreAddressed, RunsAreClean
<1>2. Advances(t) /\ turn'[t].at = "unwinding"
  BY EndAdvances DEF Strands, ApiTypeOK, Places
<1>3. /\ thread' \in [Conversations -> Threads]
      /\ \A d \in Conversations \ {c} : thread'[d] = thread[d]
      /\ \A d \in Conversations : /\ thread'[d].pending = thread[d].pending
                                  /\ thread'[d].orphaned = thread[d].orphaned
                                  /\ thread[d].dangling => thread'[d].dangling
  <2> DEFINE new == [thread[c] EXCEPT !.dangling = TRUE]
  <2>1. thread \in [Conversations -> Threads] /\ thread[c] \in Threads
    BY <1>1 DEF ApiTypeOK
  <2>2. /\ new \in Threads /\ new.pending = thread[c].pending
        /\ new.orphaned = thread[c].orphaned /\ new.dangling
    BY <2>1 DEF Threads
  <2>3. thread' = [thread EXCEPT ![c] = new]
    BY DEF Strands
  <2> QED BY <1>1, <2>1, <2>2, <2>3
<1>4. ApiTypeOK'
  BY <1>1, <1>2, <1>3 DEF ApiTypeOK, Advances
<1>5. TurnsAreAddressed' /\ LocksAreHeld'
  BY <1>1, <1>2 DEF TurnsAreAddressed, LocksAreHeld, Inside, Advances
<1>6. ChecksStillHold'
  <2> SUFFICES ASSUME NEW u \in Turns, turn'[u].at = "invoking"
               PROVE  /\ turn'[u].calls = thread'[turn'[u].conversation].pending
                      /\ FitsThread(u)'
    BY DEF ChecksStillHold, FitsThread, Resuming, Paused
  <2>1. turn'[u] = turn[u] /\ turn[u].conversation \in Conversations
    BY <1>2 DEF Advances, TurnsAreAddressed
  <2> QED BY <1>3, <2>1 DEF ChecksStillHold, FitsThread, Resuming, Paused
<1>7. ExecutedOnce'
  BY <1>1, <1>2 DEF ExecutedOnce, Advances
<1>8. PausesWait' /\ FiledWereApproved'
  BY <1>1, <1>3 DEF PausesWait, FiledWereApproved
<1>9. PausesStayAnswerable'
  BY <1>1, <1>3 DEF PausesStayAnswerable, Paused
<1>10. RunsAreClean'
  BY <1>2, <1>3, RunsElsewhereStayClean DEF Inside
<1> QED BY <1>4, <1>5, <1>6, <1>7, <1>8, <1>9, <1>10

\* An approved call gets its result, with a ticket or without one.
LEMMA ExecuteKeepsTurnsInv ==
  ASSUME NEW t \in Turns, NEW k \in Calls, TurnsInv, BudgetTypeOK',
         FileRefund(t, k) \/ ToolDeclines(t, k)
  PROVE  TurnsInv'
<1> USE DEF TurnsInv
<1>1. /\ turn[t].at = "tools" /\ k \in turn[t].calls
      /\ filed' \in {filed, filed \cup {k}}
      /\ UNCHANGED <<token, sessionOf, owner, lock, thread, fate, ran>>
  BY DEF FileRefund, ToolDeclines
<1>2. /\ Advances(t) /\ turn'[t].at \in {"model", "tools"}
      /\ turn'[t].calls = turn[t].calls \ {k}
  BY <1>1, CallFinishedAdvances DEF FileRefund, ToolDeclines, ApiTypeOK
<1>3. ApiTypeOK'
  BY <1>1, <1>2 DEF ApiTypeOK, Advances
<1>4. TurnsAreAddressed' /\ LocksAreHeld'
  BY <1>1, <1>2 DEF TurnsAreAddressed, LocksAreHeld, Inside, Advances
<1>5. ChecksStillHold'
  BY <1>1, <1>2 DEF ChecksStillHold, FitsThread, Resuming, Paused, Advances
<1>6. ExecutedOnce'
  <2> SUFFICES ASSUME NEW u \in Turns, NEW j \in Calls,
                      turn'[u].at = "tools", j \in turn'[u].calls
               PROVE  /\ fate[j] = "approve" /\ j \notin filed'
                      /\ \A v \in Turns \ {u} : turn'[v].at = "tools" => j \notin turn'[v].calls
    BY <1>1 DEF ExecutedOnce
  <2>1. turn[u].at = "tools" /\ j \in turn[u].calls /\ (u = t => j # k)
    BY <1>1, <1>2 DEF Advances
  <2>2. j # k
    BY <1>1, <2>1 DEF ExecutedOnce
  <2> QED BY <1>1, <1>2, <2>1, <2>2 DEF ExecutedOnce, Advances
<1>7. FiledWereApproved'
  BY <1>1 DEF FiledWereApproved, ExecutedOnce
<1>8. PausesWait' /\ PausesStayAnswerable'
  BY <1>1 DEF PausesWait, PausesStayAnswerable, Paused
<1>9. RunsAreClean'
  BY <1>1, <1>2 DEF RunsAreClean, Advances
<1> QED BY <1>3, <1>4, <1>5, <1>6, <1>7, <1>8, <1>9

LEMMA ReleaseKeepsTurnsInv ==
  ASSUME NEW t \in Turns, TurnsInv, BudgetTypeOK', ReleaseLock(t)
  PROVE  TurnsInv'
<1> DEFINE c == turn[t].conversation
<1> USE DEF TurnsInv
<1>1. /\ turn[t].at = "unwinding" /\ c \in Conversations
      /\ lock' = [lock EXCEPT ![c] = None]
      /\ UNCHANGED <<token, sessionOf, owner, thread, fate, filed, ran>>
  BY DEF ReleaseLock, Unlock, TurnsAreAddressed
<1>2. Advances(t) /\ turn'[t].at = "settling"
  BY MoveToAdvances DEF ReleaseLock, ApiTypeOK, Places
<1>3. ApiTypeOK'
  BY <1>1, <1>2 DEF ApiTypeOK, Advances
<1>4. TurnsAreAddressed'
  BY <1>1, <1>2 DEF TurnsAreAddressed, Advances
<1>5. LocksAreHeld'
  <2> SUFFICES ASSUME NEW d \in Conversations, NEW u \in Turns
               PROVE  lock'[d] = u <=> Inside(u)' /\ turn'[u].conversation = d
    BY DEF LocksAreHeld, Inside
  <2>1. lock'[d] = IF d = c THEN None ELSE lock[d]
    BY <1>1 DEF ApiTypeOK
  <2>2. CASE u = t
    BY <1>1, <1>2, <2>1, <2>2, IdentityAssumption DEF LocksAreHeld, Inside, Advances
  <2>3. CASE u # t
    <3>1. Inside(u) => turn[u].conversation # c
      BY <1>1, <2>3, AloneInside DEF Inside
    <3> QED BY <1>2, <2>1, <2>3, <3>1, IdentityAssumption DEF LocksAreHeld, Inside, Advances
  <2> QED BY <2>2, <2>3
<1>6. ChecksStillHold'
  BY <1>1, <1>2 DEF ChecksStillHold, FitsThread, Resuming, Paused, Advances
<1>7. ExecutedOnce'
  BY <1>1, <1>2 DEF ExecutedOnce, Advances
<1>8. PausesWait' /\ FiledWereApproved'
  BY <1>1 DEF PausesWait, FiledWereApproved
<1>9. RunsAreClean' /\ PausesStayAnswerable'
  BY <1>1, <1>2 DEF RunsAreClean, PausesStayAnswerable, Paused, Advances
<1> QED BY <1>3, <1>4, <1>5, <1>6, <1>7, <1>8, <1>9

LEMMA SettleKeepsTurnsInv ==
  ASSUME NEW t \in Turns, TurnsInv, BudgetTypeOK', Settle(t)
  PROVE  TurnsInv'
<1> USE DEF TurnsInv
<1>1. /\ turn[t].at = "settling"
      /\ turn' = [turn EXCEPT ![t] = IdleTurn]
      /\ UNCHANGED <<token, sessionOf, owner, lock, thread, fate, filed, ran>>
  BY DEF Settle
<1>2. IdleTurn \in TurnStates /\ IdleTurn.at = "idle"
  BY DEF IdleTurn, TurnStates, Places
<1>3. /\ turn' \in [Turns -> TurnStates]
      /\ \A u \in Turns \ {t} : turn'[u] = turn[u]
      /\ turn'[t].at = "idle"
  BY <1>1, <1>2 DEF ApiTypeOK
<1>4. ApiTypeOK'
  BY <1>1, <1>3 DEF ApiTypeOK
<1>5. TurnsAreAddressed' /\ LocksAreHeld'
  BY <1>1, <1>3 DEF TurnsAreAddressed, LocksAreHeld, Inside
<1>6. ChecksStillHold'
  BY <1>1, <1>3 DEF ChecksStillHold, FitsThread, Resuming, Paused
<1>7. ExecutedOnce'
  BY <1>1, <1>3 DEF ExecutedOnce
<1>8. PausesWait' /\ FiledWereApproved'
  BY <1>1 DEF PausesWait, FiledWereApproved
<1>9. RunsAreClean' /\ PausesStayAnswerable'
  BY <1>1, <1>3 DEF RunsAreClean, PausesStayAnswerable, Paused
<1> QED BY <1>4, <1>5, <1>6, <1>7, <1>8, <1>9

LEMMA RestartKeepsTurnsInv ==
  ASSUME NEW keepsStore \in BOOLEAN, NEW keepsSecret \in BOOLEAN,
         TurnsInv, BudgetTypeOK', Restart(keepsStore, keepsSecret)
  PROVE  TurnsInv'
<1> USE DEF TurnsInv
<1>1. /\ lock' = [c \in Conversations |-> None]
      /\ thread' = [c \in Conversations |-> NewThread]
      /\ turn' = [t \in Turns |-> IdleTurn]
      /\ UNCHANGED <<fate, filed>>
  BY DEF Restart
<1>2. /\ IdleTurn \in TurnStates /\ IdleTurn.at = "idle"
      /\ NewThread \in Threads /\ NewThread.pending = {} /\ ~NewThread.orphaned
  BY DEF IdleTurn, TurnStates, Places, NewThread, Threads
<1>3. ApiTypeOK'
  BY <1>1, <1>2 DEF Restart, ApiTypeOK, Zero
<1>4. TurnsAreAddressed' /\ LocksAreHeld'
  BY <1>1, <1>2, IdentityAssumption DEF TurnsAreAddressed, LocksAreHeld, Inside
<1>5. ChecksStillHold' /\ ExecutedOnce'
  BY <1>1, <1>2 DEF ChecksStillHold, ExecutedOnce
<1>6. PausesWait' /\ FiledWereApproved'
  BY <1>1, <1>2 DEF PausesWait, FiledWereApproved
<1>7. RunsAreClean' /\ PausesStayAnswerable'
  BY <1>1, <1>2 DEF RunsAreClean, PausesStayAnswerable, Paused
<1> QED BY <1>3, <1>4, <1>5, <1>6, <1>7

\* The steps of a worker.
LEMMA StepKeepsTurnsInv ==
  ASSUME NEW t \in Turns, TurnsInv, BudgetTypeOK', Step(t)
  PROVE  TurnsInv'
<1> USE DEF TurnsInv
<1>1. CASE Authorize(t)
  <2>1. /\ Advances(t) /\ turn[t].at = "authorizing"
        /\ turn'[t].at \in {"acquiring", "settling"}
    BY <1>1, MoveToAdvances, EndAdvances DEF Authorize, ApiTypeOK, Places
  <2>2. ApiTypeOK'
    BY <1>1, <2>1 DEF Authorize, ApiTypeOK, Advances
  <2> QED BY <1>1, <2>1, <2>2, QuietKeepsTurnsInv DEF Authorize, Inside
<1>2. CASE StoreFails(t)
  <2>1. Advances(t) /\ turn[t].at = "authorizing" /\ turn'[t].at = "settling"
    BY <1>2, EndAdvances DEF StoreFails, ApiTypeOK, Places
  <2>2. ApiTypeOK'
    BY <1>2, <2>1 DEF StoreFails, ApiTypeOK, Advances
  <2> QED BY <1>2, <2>1, <2>2, QuietKeepsTurnsInv DEF StoreFails, Inside
<1>3. CASE Busy(t)
  <2>1. Advances(t) /\ turn[t].at = "acquiring" /\ turn'[t].at = "settling"
    BY <1>3, EndAdvances DEF Busy, ApiTypeOK, Places
  <2>2. ApiTypeOK'
    BY <1>3, <2>1 DEF Busy, ApiTypeOK, Advances
  <2> QED BY <1>3, <2>1, <2>2, QuietKeepsTurnsInv DEF Busy, Inside
<1>4. CASE ModelAnswers(t)
  <2>1. Advances(t) /\ turn[t].at = "model" /\ turn'[t].at = "unwinding"
    BY <1>4, EndAdvances DEF ModelAnswers, ApiTypeOK, Places
  <2>2. ApiTypeOK'
    BY <1>4, <2>1 DEF ModelAnswers, ApiTypeOK, Advances
  <2> QED BY <1>4, <2>1, <2>2, QuietKeepsTurnsInv DEF ModelAnswers, Inside
<1>5. CASE ModelFails(t)
  <2>1. Advances(t) /\ turn[t].at = "model" /\ turn'[t].at = "unwinding"
    BY <1>5, EndAdvances DEF ModelFails, ApiTypeOK, Places
  <2>2. ApiTypeOK'
    BY <1>5, <2>1 DEF ModelFails, ApiTypeOK, Advances
  <2> QED BY <1>5, <2>1, <2>2, QuietKeepsTurnsInv DEF ModelFails, Inside
<1>6. CASE AcquireLock(t)
  BY <1>6, AcquireKeepsTurnsInv
<1>7. CASE ReadState(t)
  BY <1>7, ReadKeepsTurnsInv
<1>8. CASE Invoke(t)
  BY <1>8, InvokeKeepsTurnsInv
<1>9. ASSUME NEW S \in SUBSET Calls, ModelAsksRefund(t, S) PROVE TurnsInv'
  BY <1>9, AskKeepsTurnsInv
<1>10. ASSUME NEW k \in Calls, FileRefund(t, k) \/ ToolDeclines(t, k) PROVE TurnsInv'
  BY <1>10, ExecuteKeepsTurnsInv
<1>11. CASE ReleaseLock(t)
  BY <1>11, ReleaseKeepsTurnsInv
<1>12. CASE Settle(t)
  BY <1>12, SettleKeepsTurnsInv
<1>13. CASE PreflightRaises(t) \/ ToolRaises(t) \/ LimitEnds(t)
  BY <1>13, StrandsKeepsTurnsInv DEF PreflightRaises, ToolRaises, LimitEnds
<1> HIDE DEF TurnsInv
<1> QED BY <1>1, <1>2, <1>3, <1>4, <1>5, <1>6, <1>7, <1>8, <1>9, <1>10, <1>11, <1>12, <1>13
        DEF Step

LEMMA ApiInvStep == ApiInv /\ [ApiNext]_vars => ApiInv'
<1> SUFFICES ASSUME ApiInv, [ApiNext]_vars PROVE ApiInv'
  OBVIOUS
<1>1. BudgetInv' /\ BudgetTypeOK'
  BY StepsAreBudgetSteps, BudgetInvStep DEF ApiInv, BudgetInv
<1> USE DEF ApiInv
<1>2. CASE Visit
  <2>1. ASSUME NEW s \in Sessions,
               IssueSession(s) \/ ExpireSession(s) \/ StartFails(s)
        PROVE  TurnsInv'
    <3>1. ApiTypeOK' /\ UNCHANGED <<lock, thread, turn, fate, filed>>
      BY <1>1, <2>1 DEF TurnsInv, ApiTypeOK, IssueSession, ExpireSession, StartFails, apiVars
    <3> QED BY <3>1, ElsewhereKeepsTurnsInv
  <2>2. ASSUME NEW s \in Sessions, NEW c \in Conversations,
               StartConversation(s, c) \/ Limited(s, c)
        PROVE  TurnsInv'
    <3>1. ApiTypeOK' /\ UNCHANGED <<lock, thread, turn, fate, filed>>
      BY <1>1, <2>2, IdentityAssumption
         DEF TurnsInv, ApiTypeOK, StartConversation, Bind, Limited, apiVars
    <3> QED BY <3>1, ElsewhereKeepsTurnsInv
  <2>3. ASSUME NEW t \in Turns, NEW s \in Sessions, NEW c \in Conversations,
               NEW says \in {"message", "approve", "reject"}, Admit(t, s, c, says)
        PROVE  TurnsInv'
    BY <1>1, <2>3, AdmitKeepsTurnsInv
  <2> QED BY <1>1, <1>2, <2>1, <2>2, <2>3 DEF Visit
<1>3. CASE Tick \/ UNCHANGED vars
  <2>1. ApiTypeOK' /\ UNCHANGED <<lock, thread, turn, fate, filed>>
    BY <1>1, <1>3 DEF TurnsInv, ApiTypeOK, Tick, vars, apiVars
  <2> QED BY <1>1, <2>1, ElsewhereKeepsTurnsInv
<1>4. ASSUME NEW t \in Turns, Step(t) PROVE TurnsInv'
  BY <1>1, <1>4, StepKeepsTurnsInv
<1>5. ASSUME NEW keepsStore \in BOOLEAN, NEW keepsSecret \in BOOLEAN,
             Restart(keepsStore, keepsSecret)
      PROVE  TurnsInv'
  BY <1>1, <1>5, RestartKeepsTurnsInv
<1> QED BY <1>1, <1>2, <1>3, <1>4, <1>5 DEF ApiNext

-----------------------------------------------------------------------------
(* The theorems *)

THEOREM ApiInvariant == ApiSpec => []ApiInv
<1>1. ApiInit => ApiInv
  BY BudgetInvInit, TurnsInvInit DEF ApiInit, ApiInv
<1> QED BY <1>1, ApiInvStep, PTL DEF ApiSpec

THEOREM ApiTyped == ApiSpec => []ApiTypeOK
<1>1. ApiInv => ApiTypeOK
  BY DEF ApiInv, TurnsInv
<1> QED BY <1>1, ApiInvariant, PTL

\* Two turns are never at once between the acquire and the release of one
\* conversation's lock, however many workers there are.
THEOREM TurnsExclude == ApiSpec => []OneTurnPerThread
<1>1. ApiInv => OneTurnPerThread
  <2> SUFFICES ASSUME TurnsInv PROVE OneTurnPerThread
    BY DEF ApiInv
  <2> QED BY AloneInside DEF OneTurnPerThread
<1> QED BY <1>1, ApiInvariant, PTL

\* A pause can always be carried out, whatever races, fails or restarts: no
\* other call of its thread lacks a result, no message has gone past it, and
\* what a message goes past is a call of a run that ended without either.
THEOREM PausesAreNeverOrphaned == ApiSpec => []PausesStayAnswerable
<1>1. ApiInv => PausesStayAnswerable
  BY DEF ApiInv, TurnsInv
<1> QED BY <1>1, ApiInvariant, PTL

-----------------------------------------------------------------------------
(* The refund promise *)

\* A step of the service is a step of the promise, or leaves every call alone.
LEMMA LifeStep ==
  ASSUME ApiInv, [ApiNext]_vars
  PROVE  [Promise!PromiseNext]_Life
<1> USE DEF ApiInv, TurnsInv
<1>1. CASE UNCHANGED <<fate, filed>>
  BY <1>1 DEF Life
<1>2. ASSUME NEW t \in Turns, Invoke(t), Resuming(t)
      PROVE  Promise!PromiseNext
  <2> DEFINE S == turn[t].calls
  <2>1. /\ S \in SUBSET Calls /\ S # {}
        /\ turn[t].says \in {"approve", "reject"}
        /\ \A k \in S : fate[k] = "waiting" /\ k \notin filed
    BY <1>2 DEF Invoke, ChecksStillHold, FitsThread, Paused, Resuming, PausesWait,
       FiledWereApproved, TurnsAreAddressed, ApiTypeOK, TurnStates
  <2>2. /\ filed' = filed
        /\ fate' = [k \in Calls |-> IF k \in S THEN turn[t].says ELSE fate[k]]
    BY <1>2 DEF Invoke
  <2> HIDE DEF S
  <2>3. /\ \A k \in S : Life[k] = "waiting"
        /\ Life' = [k \in Calls |-> IF k \in S THEN turn[t].says ELSE Life[k]]
    BY <2>1, <2>2 DEF Life
  <2>4. Promise!Approve(S) \/ Promise!Decline(S)
    BY <2>1, <2>3 DEF Promise!Approve, Promise!Decline, Promise!Move
  <2> QED BY <2>1, <2>4 DEF Promise!PromiseNext
<1>3. ASSUME NEW t \in Turns, NEW S \in SUBSET Calls, ModelAsksRefund(t, S)
      PROVE  Promise!PromiseNext
  <2>1. \A k \in S : fate[k] = "unasked" /\ k \notin filed
    BY <1>3 DEF ModelAsksRefund, FiledWereApproved
  <2>2. /\ \A k \in S : Life[k] = "unasked"
        /\ Life' = [k \in Calls |-> IF k \in S THEN "waiting" ELSE Life[k]]
    BY <1>3, <2>1 DEF ModelAsksRefund, Life
  <2>3. Promise!Ask(S)
    BY <1>3, <2>2 DEF ModelAsksRefund, Promise!Ask, Promise!Move
  <2> QED BY <2>3 DEF Promise!PromiseNext
<1>4. ASSUME NEW t \in Turns, NEW k \in Calls, FileRefund(t, k)
      PROVE  Promise!PromiseNext
  <2>1. fate[k] = "approve" /\ k \notin filed
    BY <1>4 DEF FileRefund, ExecutedOnce
  <2>2. /\ \A j \in {k} : Life[j] = "approve"
        /\ Life' = [j \in Calls |-> IF j \in {k} THEN "filed" ELSE Life[j]]
    BY <1>4, <2>1 DEF FileRefund, Life
  <2>3. Promise!File(k)
    BY <2>2 DEF Promise!File, Promise!Move
  <2> QED BY <2>3 DEF Promise!PromiseNext
<1>5. ASSUME NEW t \in Turns, Step(t)
      PROVE  Promise!PromiseNext \/ UNCHANGED <<fate, filed>>
  <2>1. ASSUME Invoke(t), ~Resuming(t) PROVE UNCHANGED <<fate, filed>>
    BY <2>1 DEF Invoke
  <2>2. ASSUME NEW k \in Calls, ToolDeclines(t, k) PROVE UNCHANGED <<fate, filed>>
    BY <2>2 DEF ToolDeclines
  <2>3. ASSUME \/ Authorize(t) \/ StoreFails(t) \/ AcquireLock(t) \/ Busy(t) \/ ReadState(t)
               \/ ModelAnswers(t) \/ ModelFails(t) \/ PreflightRaises(t) \/ ToolRaises(t)
               \/ LimitEnds(t) \/ ReleaseLock(t) \/ Settle(t)
        PROVE  UNCHANGED <<fate, filed>>
    BY <2>3 DEF Authorize, StoreFails, AcquireLock, Busy, ReadState, ModelAnswers, ModelFails,
       PreflightRaises, ToolRaises, LimitEnds, Strands, ReleaseLock, Settle
  <2> QED BY <1>2, <1>3, <1>4, <1>5, <2>1, <2>2, <2>3 DEF Step
<1>6. CASE Visit \/ Tick \/ UNCHANGED vars
  BY <1>1, <1>6 DEF Visit, Tick, vars, apiVars, IssueSession, ExpireSession, StartFails,
     StartConversation, Limited, Admit
<1>7. ASSUME NEW keepsStore \in BOOLEAN, NEW keepsSecret \in BOOLEAN,
             Restart(keepsStore, keepsSecret)
      PROVE  UNCHANGED <<fate, filed>>
  BY <1>7 DEF Restart
<1> QED BY <1>1, <1>5, <1>6, <1>7 DEF ApiNext

\* The service implements RefundPromise: calls of one pause are decided once
\* and together, and nothing is filed that was not approved.
THEOREM ServiceKeepsRefundPromise == ApiSpec => KeepsRefundPromise
<1>1. ApiInit => Promise!PromiseInit
  BY DEF ApiInit, Promise!PromiseInit, Life
<1>2. ApiInv /\ [ApiNext]_vars => [Promise!PromiseNext]_Life
  BY LifeStep
<1> QED BY <1>1, <1>2, ApiInvariant, PTL DEF ApiSpec, KeepsRefundPromise, Promise!PromiseSpec

-----------------------------------------------------------------------------
(* Privacy of threads *)

\* Both records of a conversation name one visitor, and a turn in flight is
\* that visitor's.
BindingsAgree ==
  \A c \in Conversations : sessionOf[c] # None => owner[c] = CustomerOf[sessionOf[c]]

TurnsStayBound ==
  \A t \in Turns : turn[t].at # "idle" => sessionOf[turn[t].conversation] = turn[t].session

BoundInv == BindingsAgree /\ TurnsStayBound

\* No step of a worker re-addresses a turn or touches the two records.
LEMMA StepKeepsAddress ==
  ASSUME NEW t \in Turns, TurnsInv, Step(t)
  PROVE  /\ UNCHANGED <<sessionOf, owner>>
         /\ turn[t].at # "idle"
         /\ \A u \in Turns \ {t} : turn'[u] = turn[u]
         /\ \/ turn'[t].at = "idle"
            \/ /\ turn'[t].session = turn[t].session
               /\ turn'[t].conversation = turn[t].conversation
<1> USE DEF TurnsInv, ApiTypeOK, Advances
<1>1. ASSUME NEW place \in Places, MoveTo(t, place)
      PROVE  Advances(t)
  BY <1>1, MoveToAdvances
<1>2. ASSUME NEW place \in Places, NEW S \in SUBSET Calls,
             NEW ends \in {"unknown", "refused", "failed", "answered"},
             End(t, place, ends, S)
      PROVE  Advances(t)
  BY <1>2, EndAdvances
<1>3. CASE Authorize(t) \/ StoreFails(t) \/ AcquireLock(t) \/ Busy(t) \/ ReleaseLock(t)
  BY <1>1, <1>2, <1>3 DEF Authorize, StoreFails, AcquireLock, Busy, ReleaseLock, Places
<1>4. CASE ModelAnswers(t) \/ ModelFails(t) \/ PreflightRaises(t) \/ ToolRaises(t) \/ LimitEnds(t)
  BY <1>2, <1>4
     DEF ModelAnswers, ModelFails, PreflightRaises, ToolRaises, LimitEnds, Strands, Places
<1>5. CASE ReadState(t)
  <2>1. CASE FitsThread(t)
    <3>1. turn' = [turn EXCEPT ![t].at = "invoking",
                               ![t].calls = thread[turn[t].conversation].pending]
      BY <1>5, <2>1 DEF ReadState
    <3>2. /\ \A u \in Turns \ {t} : turn'[u] = turn[u]
          /\ turn'[t].session = turn[t].session
          /\ turn'[t].conversation = turn[t].conversation
      BY <3>1 DEF TurnStates
    <3> QED BY <1>5, <3>2 DEF ReadState
  <2>2. CASE ~FitsThread(t)
    BY <1>2, <1>5, <2>2 DEF ReadState, Places
  <2> QED BY <2>1, <2>2
<1>6. CASE Invoke(t)
  <2>1. AfterDecision(t) \in Places
    BY DEF AfterDecision, Places
  <2> QED BY <1>1, <1>6, <2>1 DEF Invoke
<1>7. ASSUME NEW S \in SUBSET Calls, ModelAsksRefund(t, S)
      PROVE  /\ UNCHANGED <<sessionOf, owner>> /\ turn[t].at # "idle" /\ Advances(t)
  BY <1>2, <1>7 DEF ModelAsksRefund, Places
<1>8. ASSUME NEW k \in Calls, FileRefund(t, k) \/ ToolDeclines(t, k)
      PROVE  /\ UNCHANGED <<sessionOf, owner>> /\ turn[t].at # "idle" /\ Advances(t)
  BY <1>8, CallFinishedAdvances DEF FileRefund, ToolDeclines
<1>9. CASE Settle(t)
  BY <1>9 DEF Settle, IdleTurn
<1> QED BY <1>3, <1>4, <1>5, <1>6, <1>7, <1>8, <1>9 DEF Step

LEMMA BoundInvStep == ApiInv /\ BoundInv /\ [ApiNext]_vars => BoundInv'
<1> SUFFICES ASSUME ApiInv, BoundInv, [ApiNext]_vars PROVE BoundInv'
  OBVIOUS
<1> USE DEF ApiInv, TurnsInv, BoundInv
<1>1. CASE UNCHANGED <<sessionOf, owner, turn>>
  BY <1>1 DEF BindingsAgree, TurnsStayBound
<1>2. ASSUME NEW s \in Sessions, NEW c \in Conversations, StartConversation(s, c)
      PROVE  BoundInv'
  <2>1. /\ owner[c] = None /\ turn' = turn
        /\ owner' = [owner EXCEPT ![c] = CustomerOf[s]]
        /\ sessionOf' = [sessionOf EXCEPT ![c] = s]
    BY <1>2 DEF StartConversation, Bind
  <2>2. sessionOf[c] = None
    BY <2>1, IdentityAssumption DEF BindingsAgree, ApiTypeOK
  <2>3. BindingsAgree'
    BY <2>1, IdentityAssumption DEF BindingsAgree, ApiTypeOK
  <2>4. TurnsStayBound'
    BY <2>1, <2>2, IdentityAssumption DEF TurnsStayBound, TurnsAreAddressed, ApiTypeOK
  <2> QED BY <2>3, <2>4
<1>3. ASSUME NEW t \in Turns, NEW s \in Sessions, NEW c \in Conversations,
             NEW says \in {"message", "approve", "reject"}, Admit(t, s, c, says)
      PROVE  BoundInv'
  <2>1. /\ sessionOf[c] = s /\ UNCHANGED <<sessionOf, owner>>
        /\ \A u \in Turns \ {t} : turn'[u] = turn[u]
        /\ turn'[t].session = s /\ turn'[t].conversation = c
    BY <1>3 DEF Admit, MaySpeak, IdleTurn, ApiTypeOK
  <2> QED BY <2>1 DEF BindingsAgree, TurnsStayBound
<1>4. ASSUME NEW t \in Turns, Step(t)
      PROVE  BoundInv'
  <2>1. /\ UNCHANGED <<sessionOf, owner>>
        /\ turn[t].at # "idle"
        /\ \A u \in Turns \ {t} : turn'[u] = turn[u]
        /\ \/ turn'[t].at = "idle"
           \/ /\ turn'[t].session = turn[t].session
              /\ turn'[t].conversation = turn[t].conversation
    BY <1>4, StepKeepsAddress
  <2> QED BY <2>1 DEF BindingsAgree, TurnsStayBound
<1>5. ASSUME NEW keepsStore \in BOOLEAN, NEW keepsSecret \in BOOLEAN,
             Restart(keepsStore, keepsSecret)
      PROVE  BoundInv'
  BY <1>5 DEF Restart, BindingsAgree, TurnsStayBound, IdleTurn
<1>6. CASE Visit
  BY <1>1, <1>2, <1>3, <1>6 DEF Visit, IssueSession, ExpireSession, StartFails, Limited, apiVars
<1>7. CASE Tick \/ UNCHANGED vars
  BY <1>1, <1>7 DEF Tick, vars, apiVars
<1> QED BY <1>4, <1>5, <1>6, <1>7 DEF ApiNext

LEMMA ThreadStepIsPrivate ==
  ASSUME ApiInv, BoundInv, [ApiNext]_vars
  PROVE  [\A c \in Conversations :
            thread'[c] # thread[c] =>
              \/ \E t \in Turns : ServedBy(t, c)
              \/ \A d \in Conversations : sessionOf'[d] = None]_vars
<1> USE DEF ApiInv, TurnsInv, BoundInv
<1>1. ASSUME NEW t \in Turns,
             turn[t].at \in {"invoking", "model", "tools"},
             \A d \in Conversations \ {turn[t].conversation} : thread'[d] = thread[d],
             NEW c \in Conversations, thread'[c] # thread[c]
      PROVE  ServedBy(t, c)
  <2>1. Inside(t) /\ turn[t].at # "idle" /\ c = turn[t].conversation
    BY <1>1 DEF Inside
  <2>2. lock[c] = t
    BY <2>1 DEF LocksAreHeld
  <2>3. turn[t].session = sessionOf[c] /\ turn[t].session \in Sessions
    BY <2>1 DEF TurnsStayBound, TurnsAreAddressed
  <2>4. owner[c] = CustomerOf[turn[t].session]
    BY <2>3, IdentityAssumption DEF BindingsAgree
  <2> QED BY <2>1, <2>2, <2>3, <2>4 DEF ServedBy
<1>2. ASSUME NEW t \in Turns, Step(t), NEW c \in Conversations, thread'[c] # thread[c]
      PROVE  \E u \in Turns : ServedBy(u, c)
  <2>1. CASE Invoke(t)
    <3>1. /\ turn[t].at = "invoking"
          /\ \A d \in Conversations \ {turn[t].conversation} : thread'[d] = thread[d]
      BY <2>1 DEF Invoke, ApiTypeOK
    <3> QED BY <1>1, <1>2, <3>1
  <2>2. CASE \/ PreflightRaises(t) \/ ToolRaises(t) \/ LimitEnds(t)
             \/ \E S \in SUBSET Calls : ModelAsksRefund(t, S)
    <3>1. /\ turn[t].at \in {"model", "tools"}
          /\ \A d \in Conversations \ {turn[t].conversation} : thread'[d] = thread[d]
      BY <2>2 DEF PreflightRaises, ToolRaises, LimitEnds, Strands, ModelAsksRefund, ApiTypeOK
    <3> QED BY <1>1, <1>2, <3>1
  <2>3. CASE \/ Authorize(t) \/ StoreFails(t) \/ AcquireLock(t) \/ Busy(t) \/ ReadState(t)
             \/ ModelAnswers(t) \/ ModelFails(t) \/ ReleaseLock(t) \/ Settle(t)
             \/ \E k \in Calls : FileRefund(t, k) \/ ToolDeclines(t, k)
    BY <1>2, <2>3 DEF Authorize, StoreFails, AcquireLock, Busy, ReadState, ModelAnswers,
       ModelFails, ReleaseLock, Settle, FileRefund, ToolDeclines
  <2> QED BY <1>2, <2>1, <2>2, <2>3 DEF Step
<1>3. ASSUME NEW keepsStore \in BOOLEAN, NEW keepsSecret \in BOOLEAN,
             Restart(keepsStore, keepsSecret)
      PROVE  \A d \in Conversations : sessionOf'[d] = None
  BY <1>3 DEF Restart
<1>4. CASE Visit \/ Tick \/ UNCHANGED vars
  <2>1. thread' = thread
    BY <1>4 DEF Visit, Tick, vars, apiVars, IssueSession, ExpireSession, StartFails,
       StartConversation, Limited, Admit
  <2> QED BY <2>1
<1> QED BY <1>2, <1>3, <1>4 DEF ApiNext

\* Whatever interleaves, a thread is written only under its lock, by a turn of
\* the session that opened it, which the owning customer's token was issued for.
THEOREM ThreadsArePrivate == ApiSpec => ThreadIsPrivate
<1>1. ApiInit => BoundInv
  BY DEF ApiInit, BoundInv, BindingsAgree, TurnsStayBound, IdleTurn
<1>2. ApiInv /\ BoundInv /\ [ApiNext]_vars => BoundInv'
  BY BoundInvStep
<1>3. ApiInv /\ BoundInv /\ [ApiNext]_vars =>
        [\A c \in Conversations :
            thread'[c] # thread[c] =>
              \/ \E t \in Turns : ServedBy(t, c)
              \/ \A d \in Conversations : sessionOf'[d] = None]_vars
  BY ThreadStepIsPrivate
<1> QED BY <1>1, <1>2, <1>3, ApiInvariant, PTL DEF ApiSpec, ThreadIsPrivate

-----------------------------------------------------------------------------
(* What the model runs cost *)

\* The run of t reached agent.invoke, or ended as if it had.
HasRun(t) ==
  \/ turn[t].at \in {"model", "tools"}
  \/ turn[t].at \in {"unwinding", "settling"} /\ turn[t].ends # "refused"

RunsBy(s) == {o \in open : o.session = s /\ HasRun(o.turn)}

\* Each turn in flight holds the one open charge made in its name.
ChargesMatchTurns ==
  /\ \A t \in Turns : turn[t].at # "idle" => \E o \in open : o.turn = t
  /\ \A o \in open : turn[o.turn].at # "idle" /\ turn[o.turn].session = o.session
  /\ \A o, p \in open : o.turn = p.turn => o = p

\* Every agent.invoke belongs to a charge that was kept or will be.
RunsArePaid ==
  \A s \in Sessions : ran[s] <= keptBy[s] + Cardinality(RunsBy(s))

PaidInv == ChargesMatchTurns /\ RunsArePaid

LEMMA RunsAreCounted ==
  ASSUME IsFiniteSet(open), NEW s
  PROVE  /\ IsFiniteSet(RunsBy(s)) /\ Cardinality(RunsBy(s)) \in Nat
         /\ Cardinality(RunsBy(s)) <= Cardinality(OpenBy(s))
<1>1. RunsBy(s) \in SUBSET OpenBy(s)
  BY DEF RunsBy, OpenBy
<1>2. IsFiniteSet(OpenBy(s))
  BY Counts
<1> QED BY <1>1, <1>2, FS_Subset, FS_CardinalityType

\* More runs never cost fewer charges.
LEMMA RunsGrow ==
  ASSUME IsFiniteSet(open'), NEW s, RunsBy(s) \subseteq RunsBy(s)'
  PROVE  Cardinality(RunsBy(s)) <= Cardinality(RunsBy(s)')
<1>1. RunsBy(s)' \in SUBSET open'
  BY DEF RunsBy
<1>2. RunsBy(s) \in SUBSET RunsBy(s)'
  OBVIOUS
<1> QED BY <1>1, <1>2, FS_Subset

\* How a step of t before its settling changes what has run.
LEMMA StepKeepsRuns ==
  ASSUME NEW t \in Turns, TurnsInv, Step(t), ~Settle(t)
  PROVE  /\ UNCHANGED <<open, keptBy>>
         /\ HasRun(t) => HasRun(t)'
         /\ turn[t].at # "idle" /\ turn'[t].at # "idle" /\ turn'[t].session = turn[t].session
         /\ \A u \in Turns \ {t} : turn'[u] = turn[u]
         /\ \/ ran' = ran
            \/ /\ ran' = [ran EXCEPT ![turn[t].session] = @ + 1]
               /\ ~HasRun(t) /\ HasRun(t)'
<1> USE DEF TurnsInv, ApiTypeOK, Advances
<1>1. ASSUME NEW place \in Places, MoveTo(t, place)
      PROVE  /\ Advances(t) /\ turn'[t].at = place /\ turn'[t].ends = turn[t].ends
  BY <1>1, MoveToAdvances DEF MoveTo, TurnStates
<1>2. ASSUME NEW place \in Places, NEW S \in SUBSET Calls,
             NEW ends \in {"unknown", "refused", "failed", "answered"},
             End(t, place, ends, S)
      PROVE  /\ Advances(t) /\ turn'[t].at = place /\ turn'[t].ends = ends
  <2>1. turn' = [turn EXCEPT ![t].at = place, ![t].calls = S, ![t].ends = ends]
    BY <1>2 DEF End
  <2>2. turn'[t] = [turn[t] EXCEPT !.at = place, !.calls = S, !.ends = ends]
    BY <2>1
  <2>3. turn[t] \in TurnStates
    OBVIOUS
  <2>4. turn'[t].ends = ends
    BY <2>2, <2>3 DEF TurnStates
  <2>5. turn \in [Turns -> TurnStates]
    OBVIOUS
  <2> QED BY <1>2, <2>4, <2>5, EndAdvances
<1> USE DEF budgetVars, counters, ledger, HasRun
<1>3. CASE Authorize(t) \/ StoreFails(t) \/ AcquireLock(t) \/ Busy(t) \/ ReleaseLock(t)
  BY <1>1, <1>2, <1>3 DEF Authorize, StoreFails, AcquireLock, Busy, ReleaseLock, Places
<1>4. CASE ModelAnswers(t) \/ ModelFails(t) \/ PreflightRaises(t) \/ ToolRaises(t) \/ LimitEnds(t)
  BY <1>2, <1>4
     DEF ModelAnswers, ModelFails, PreflightRaises, ToolRaises, LimitEnds, Strands, Places
<1>5. CASE ReadState(t)
  <2>1. CASE FitsThread(t)
    <3>1. turn' = [turn EXCEPT ![t].at = "invoking",
                               ![t].calls = thread[turn[t].conversation].pending]
      BY <1>5, <2>1 DEF ReadState
    <3>2. /\ \A u \in Turns \ {t} : turn'[u] = turn[u]
          /\ turn'[t].session = turn[t].session /\ turn'[t].at = "invoking"
      BY <3>1 DEF TurnStates
    <3> QED BY <1>5, <3>2 DEF ReadState
  <2>2. CASE ~FitsThread(t)
    BY <1>2, <1>5, <2>2 DEF ReadState, Places
  <2> QED BY <2>1, <2>2
<1>6. CASE Invoke(t)
  <2>1. AfterDecision(t) \in Places \cap {"model", "tools"}
    BY DEF AfterDecision, Places
  <2> QED BY <1>1, <1>6, <2>1 DEF Invoke
<1>7. CASE \E S \in SUBSET Calls : ModelAsksRefund(t, S)
  BY <1>2, <1>7 DEF ModelAsksRefund, Places
<1>8. CASE \E k \in Calls : FileRefund(t, k) \/ ToolDeclines(t, k)
  BY <1>8, CallFinishedAdvances DEF FileRefund, ToolDeclines
<1> QED BY <1>3, <1>4, <1>5, <1>6, <1>7, <1>8 DEF Step

\* Runs and kept charges balance before the step; this is what balances after.
LEMMA StepKeepsPaid ==
  ASSUME NEW t \in Turns, ApiInv, PaidInv, Step(t), ~Settle(t)
  PROVE  PaidInv'
<1> USE DEF PaidInv
<1>1. TurnsInv /\ BudgetTypeOK /\ IsFiniteSet(open)
      /\ \A o \in open : o.turn \in Turns /\ o.session \in Sessions
  BY DEF ApiInv, TurnsInv, ApiTypeOK, BudgetTypeOK, Charges
<1>2. /\ UNCHANGED <<open, keptBy>>
      /\ HasRun(t) => HasRun(t)'
      /\ turn[t].at # "idle" /\ turn'[t].at # "idle" /\ turn'[t].session = turn[t].session
      /\ \A u \in Turns \ {t} : turn'[u] = turn[u]
      /\ \/ ran' = ran
         \/ /\ ran' = [ran EXCEPT ![turn[t].session] = @ + 1]
            /\ ~HasRun(t) /\ HasRun(t)'
  BY <1>1, StepKeepsRuns
<1>3. ChargesMatchTurns'
  BY <1>1, <1>2 DEF ChargesMatchTurns
<1>4. \A u \in Turns : HasRun(u) => HasRun(u)'
  BY <1>2 DEF HasRun
<1>5. ASSUME NEW s \in Sessions
      PROVE  /\ RunsBy(s) \subseteq RunsBy(s)'
             /\ Cardinality(RunsBy(s)) \in Nat /\ Cardinality(RunsBy(s)') \in Nat
             /\ Cardinality(RunsBy(s)) <= Cardinality(RunsBy(s)')
             /\ IsFiniteSet(RunsBy(s))
  <2>1. RunsBy(s) \subseteq RunsBy(s)'
    BY <1>1, <1>2, <1>4 DEF RunsBy
  <2>2. IsFiniteSet(RunsBy(s)) /\ Cardinality(RunsBy(s)) \in Nat
    BY <1>1, RunsAreCounted
  <2>3. RunsBy(s)' \in SUBSET open /\ IsFiniteSet(open')
    BY <1>1, <1>2 DEF RunsBy
  <2>4. IsFiniteSet(RunsBy(s)')
    BY <1>1, <2>3, FS_Subset
  <2> QED BY <2>1, <2>2, <2>3, <2>4, RunsGrow, FS_CardinalityType
<1>6. ran \in [Sessions -> Nat] /\ keptBy \in [Sessions -> Nat]
  BY DEF ApiInv, TurnsInv, ApiTypeOK, BudgetTypeOK
<1>7. CASE ran' = ran
  BY <1>2, <1>3, <1>5, <1>6, <1>7 DEF RunsArePaid
<1>8. CASE /\ ran' = [ran EXCEPT ![turn[t].session] = @ + 1]
           /\ ~HasRun(t) /\ HasRun(t)'
  <2>1. PICK o \in open : o.turn = t
    BY <1>2 DEF ChargesMatchTurns
  <2>2. turn[t].session = o.session /\ o.session \in Sessions
    BY <1>1, <2>1 DEF ChargesMatchTurns
  <2>3. o \notin RunsBy(o.session) /\ o \in RunsBy(o.session)'
    BY <1>2, <1>8, <2>1 DEF RunsBy
  <2>4. RunsBy(o.session)' = RunsBy(o.session) \cup {o}
    <3>1. ASSUME NEW p \in open, p # o PROVE HasRun(p.turn)' <=> HasRun(p.turn)
      <4>1. p.turn \in Turns \ {t}
        BY <1>1, <2>1, <3>1 DEF ChargesMatchTurns
      <4> QED BY <1>2, <4>1 DEF HasRun
    <3>2. RunsBy(o.session)' \subseteq RunsBy(o.session) \cup {o}
      BY <1>2, <3>1 DEF RunsBy
    <3> QED BY <1>5, <2>2, <2>3, <3>2
  <2>5. Cardinality(RunsBy(o.session)') = Cardinality(RunsBy(o.session)) + 1
    BY <1>5, <2>2, <2>3, <2>4, FS_AddElement
  <2>6. ASSUME NEW s \in Sessions
        PROVE  ran'[s] <= keptBy'[s] + Cardinality(RunsBy(s)')
    <3>1. ran[s] <= keptBy[s] + Cardinality(RunsBy(s))
      BY DEF RunsArePaid
    <3>2. CASE s = o.session
      <4>1. ran'[s] = ran[s] + 1 /\ keptBy'[s] = keptBy[s] /\ ran[s] \in Nat /\ keptBy[s] \in Nat
        BY <1>2, <1>6, <1>8, <2>2, <3>2
      <4>2. Cardinality(RunsBy(s)') = Cardinality(RunsBy(s)) + 1
        BY <2>5, <3>2
      <4>3. Cardinality(RunsBy(s)) \in Nat
        BY <1>5
      <4> QED BY <3>1, <4>1, <4>2, <4>3
    <3>3. CASE s # o.session
      <4>1. ran'[s] = ran[s] /\ keptBy'[s] = keptBy[s] /\ ran[s] \in Nat /\ keptBy[s] \in Nat
        BY <1>2, <1>6, <1>8, <2>2, <3>3
      <4>2. /\ Cardinality(RunsBy(s)) \in Nat /\ Cardinality(RunsBy(s)') \in Nat
            /\ Cardinality(RunsBy(s)) <= Cardinality(RunsBy(s)')
        BY <1>5
      <4> QED BY <3>1, <4>1, <4>2
    <3> QED BY <3>2, <3>3
  <2> QED BY <1>3, <2>6 DEF RunsArePaid
<1> QED BY <1>2, <1>7, <1>8

LEMMA AdmitKeepsPaid ==
  ASSUME NEW t \in Turns, NEW s \in Sessions, NEW c \in Conversations,
         NEW says \in {"message", "approve", "reject"},
         ApiInv, PaidInv, Admit(t, s, c, says)
  PROVE  PaidInv'
<1> USE DEF PaidInv
<1> DEFINE x == [turn |-> t, session |-> s, day |-> clock]
<1>1. /\ \A o \in open : o.turn \in Turns \ {t}
      /\ open' = open \cup {x} /\ UNCHANGED <<keptBy, ran>>
  BY DEF Admit, Charge, ApiInv, TurnsInv, ApiTypeOK, BudgetTypeOK, Charges
<1>2. /\ \A u \in Turns \ {t} : turn'[u] = turn[u]
      /\ turn'[t].at = "authorizing" /\ turn'[t].session = s
  BY DEF Admit, ApiInv, TurnsInv, ApiTypeOK, IdleTurn
<1>3. ChargesMatchTurns'
  <2>1. \A u \in Turns : turn'[u].at # "idle" => \E p \in open' : p.turn = u
    <3>1. x \in open' /\ x.turn = t
      BY <1>1
    <3> QED BY <1>1, <1>2, <3>1 DEF ChargesMatchTurns
  <2>2. turn'[t].at # "idle" /\ turn'[t].session = s /\ x.turn = t /\ x.session = s
    BY <1>2
  <2>3. \A p \in open' : turn'[p.turn].at # "idle" /\ turn'[p.turn].session = p.session
    BY <1>1, <1>2, <2>2 DEF ChargesMatchTurns
  <2>4. \A o, p \in open' : o.turn = p.turn => o = p
    BY <1>1, <2>2 DEF ChargesMatchTurns
  <2> QED BY <2>1, <2>3, <2>4 DEF ChargesMatchTurns
<1>4. ASSUME NEW r \in Sessions PROVE RunsBy(r)' = RunsBy(r)
  BY <1>1, <1>2 DEF RunsBy, HasRun
<1> QED BY <1>1, <1>3, <1>4 DEF RunsArePaid

LEMMA SettleKeepsPaid ==
  ASSUME NEW t \in Turns, ApiInv, PaidInv, Settle(t)
  PROVE  PaidInv'
<1> USE DEF PaidInv
<1>1. /\ IsFiniteSet(open) /\ \A o \in open : o.turn \in Turns /\ o.session \in Sessions
      /\ ran \in [Sessions -> Nat] /\ keptBy \in [Sessions -> Nat]
  BY DEF ApiInv, TurnsInv, ApiTypeOK, BudgetTypeOK, Charges
<1>2. PICK o \in open : /\ o.turn = t /\ turn[t].at = "settling" /\ ran' = ran
                        /\ IF Refunded(t) THEN Refund(o) ELSE Keep(o)
  BY DEF Settle
<1>3. open' = open \ {o}
  BY <1>2 DEF Refund, Keep
<1>4. \A u \in Turns \ {t} : turn'[u] = turn[u]
  BY DEF Settle, ApiInv, TurnsInv, ApiTypeOK
<1>5. turn'[t].at = "idle"
  BY DEF Settle, ApiInv, TurnsInv, ApiTypeOK, IdleTurn
<1>6. \A p \in open' : p.turn \in Turns \ {t}
  BY <1>1, <1>2, <1>3 DEF ChargesMatchTurns
<1>7. ChargesMatchTurns'
  <2>1. \A u \in Turns : turn'[u].at # "idle" => \E p \in open' : p.turn = u
    BY <1>2, <1>3, <1>4, <1>5 DEF ChargesMatchTurns
  <2>2. \A p \in open' : turn'[p.turn].at # "idle" /\ turn'[p.turn].session = p.session
    BY <1>3, <1>4, <1>6 DEF ChargesMatchTurns
  <2> QED BY <1>3, <2>1, <2>2 DEF ChargesMatchTurns
<1>8. ASSUME NEW s \in Sessions PROVE RunsBy(s)' = RunsBy(s) \ {o}
  BY <1>3, <1>4, <1>6 DEF RunsBy, HasRun
<1>9. ASSUME NEW s \in Sessions
      PROVE  ran'[s] <= keptBy'[s] + Cardinality(RunsBy(s)')
  <2>1. /\ ran[s] <= keptBy[s] + Cardinality(RunsBy(s)) /\ ran'[s] = ran[s]
        /\ ran[s] \in Nat /\ keptBy[s] \in Nat
    BY <1>1, <1>2 DEF RunsArePaid
  <2>2. IsFiniteSet(RunsBy(s)) /\ Cardinality(RunsBy(s)) \in Nat
    BY <1>1, RunsAreCounted
  <2>3. CASE Refunded(t)
    <3>1. ~HasRun(t) /\ keptBy' = keptBy
      BY <1>2, <2>3 DEF Refunded, HasRun, Refund
    <3>2. RunsBy(s)' = RunsBy(s)
      BY <1>2, <1>8, <3>1 DEF RunsBy
    <3> QED BY <2>1, <3>1, <3>2
  <2>4. CASE ~Refunded(t) /\ s = o.session
    <3>1. keptBy'[s] = keptBy[s] + 1
      BY <1>1, <1>2, <2>4 DEF Keep
    <3>2. Cardinality(RunsBy(s)') \in Nat
          /\ Cardinality(RunsBy(s)) <= Cardinality(RunsBy(s)') + 1
      <4>1. CASE o \in RunsBy(s)
        <5> DEFINE others == RunsBy(s) \ {o}
        <5>1. IsFiniteSet(others) /\ Cardinality(others) = Cardinality(RunsBy(s)) - 1
          BY <2>2, <4>1, FS_RemoveElement
        <5>2. RunsBy(s)' = others
          BY <1>8
        <5> HIDE DEF others
        <5>3. Cardinality(others) \in Nat
          BY <5>1, FS_CardinalityType
        <5> QED BY <2>2, <5>1, <5>2, <5>3
      <4>2. CASE o \notin RunsBy(s)
        <5>1. RunsBy(s)' = RunsBy(s)
          BY <1>8, <4>2
        <5> QED BY <2>2, <5>1
      <4> QED BY <4>1, <4>2
    <3> QED BY <2>1, <2>2, <3>1, <3>2
  <2>5. CASE ~Refunded(t) /\ s # o.session
    <3>1. keptBy'[s] = keptBy[s]
      BY <1>1, <1>2, <2>5 DEF Keep
    <3>2. RunsBy(s)' = RunsBy(s)
      BY <1>8, <2>5 DEF RunsBy
    <3> QED BY <2>1, <3>1, <3>2
  <2> QED BY <2>3, <2>4, <2>5
<1> QED BY <1>7, <1>9 DEF RunsArePaid

LEMMA PaidInvStep == ApiInv /\ PaidInv /\ [ApiNext]_vars => PaidInv'
<1> SUFFICES ASSUME ApiInv, PaidInv, [ApiNext]_vars PROVE PaidInv'
  OBVIOUS
<1>1. ASSUME UNCHANGED <<open, keptBy, turn, ran>> PROVE PaidInv'
  BY <1>1 DEF PaidInv, ChargesMatchTurns, RunsArePaid, RunsBy, HasRun
<1>2. CASE Visit
  <2>1. CASE \E t \in Turns, s \in Sessions, c \in Conversations,
               says \in {"message", "approve", "reject"} : Admit(t, s, c, says)
    BY <2>1, AdmitKeepsPaid
  <2>2. CASE \/ \E s \in Sessions : IssueSession(s) \/ ExpireSession(s) \/ StartFails(s)
             \/ \E s \in Sessions, c \in Conversations : StartConversation(s, c) \/ Limited(s, c)
    BY <1>1, <2>2 DEF IssueSession, ExpireSession, StartFails, StartConversation, Limited,
       OpenConversation, ConversationRefused, ChargeRefused, budgetVars, ledger, apiVars
  <2> QED BY <1>2, <2>1, <2>2 DEF Visit
<1>3. CASE Tick \/ UNCHANGED vars
  BY <1>1, <1>3 DEF Tick, Midnight, vars, apiVars, budgetVars, ledger
<1>4. ASSUME NEW t \in Turns, Step(t) PROVE PaidInv'
  BY <1>4, SettleKeepsPaid, StepKeepsPaid
<1>5. ASSUME NEW keepsStore \in BOOLEAN, NEW keepsSecret \in BOOLEAN,
             Restart(keepsStore, keepsSecret)
      PROVE  PaidInv'
  <2>1. /\ open' = {} /\ keptBy' = Zero(Sessions) /\ ran' = Zero(Sessions)
        /\ turn' = [t \in Turns |-> IdleTurn]
    BY <1>5 DEF Restart, BudgetRestart
  <2>2. ChargesMatchTurns'
    BY <2>1 DEF ChargesMatchTurns, IdleTurn
  <2>3. ASSUME NEW s \in Sessions PROVE ran'[s] <= keptBy'[s] + Cardinality(RunsBy(s)')
    <3>1. RunsBy(s)' = {}
      BY <2>1 DEF RunsBy
    <3> QED BY <2>1, <3>1, FS_EmptySet DEF Zero
  <2> QED BY <2>2, <2>3 DEF PaidInv, RunsArePaid
<1> QED BY <1>2, <1>3, <1>4, <1>5 DEF ApiNext

\* Every agent.invoke is paid for: however turns of one session overlap, are
\* refused, fail or are refunded, the runs never outnumber its counter.
THEOREM RunsAreNeverFree == ApiSpec => []NoFreeModelRun
<1>1. ApiInit => PaidInv
  <2> SUFFICES ASSUME ApiInit PROVE PaidInv
    OBVIOUS
  <2>1. \A s \in Sessions : RunsBy(s) = {}
    BY DEF ApiInit, BudgetInit, RunsBy
  <2>2. ASSUME NEW s \in Sessions PROVE ran[s] <= keptBy[s] + Cardinality(RunsBy(s))
    <3>1. ran[s] = 0 /\ keptBy[s] = 0
      BY DEF ApiInit, BudgetInit, Zero
    <3>2. Cardinality(RunsBy(s)) = 0
      BY <2>1, FS_EmptySet
    <3> QED BY <3>1, <3>2
  <2> QED BY <2>2 DEF PaidInv, RunsArePaid, ChargesMatchTurns, ApiInit, BudgetInit, IdleTurn
<1>2. ApiInv /\ PaidInv /\ [ApiNext]_vars => PaidInv'
  BY PaidInvStep
<1>3. ApiInv /\ PaidInv => NoFreeModelRun
  <2> SUFFICES ASSUME ApiInv, PaidInv, NEW s \in Sessions PROVE ran[s] <= bySession[s]
    BY DEF NoFreeModelRun
  <2>1. /\ IsFiniteSet(open) /\ bySession[s] = keptBy[s] + Cardinality(OpenBy(s))
        /\ ran[s] \in Nat /\ keptBy[s] \in Nat
    BY DEF ApiInv, BudgetInv, TurnsInv, ApiTypeOK, BudgetTypeOK, SessionLedger
  <2>2. Cardinality(OpenBy(s)) \in Nat
    BY <2>1, Counts
  <2>3. /\ Cardinality(RunsBy(s)) \in Nat
        /\ Cardinality(RunsBy(s)) <= Cardinality(OpenBy(s))
    BY <2>1, RunsAreCounted
  <2>4. ran[s] <= keptBy[s] + Cardinality(RunsBy(s))
    BY DEF PaidInv, RunsArePaid
  <2> QED BY <2>1, <2>2, <2>3, <2>4
<1> QED BY <1>1, <1>2, <1>3, ApiInvariant, PTL DEF ApiSpec
=============================================================================
