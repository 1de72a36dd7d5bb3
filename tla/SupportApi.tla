----------------------------- MODULE SupportApi -----------------------------
(***************************************************************************)
(* The public HTTP service: create_app, make_runner and _run_turn of       *)
(* src/api.py, over SupportGateway and ThreadOwnershipStore of             *)
(* src/gateway.py.  Requests are served by worker threads, so every step   *)
(* of run() below interleaves with the steps of other requests.            *)
(*                                                                         *)
(* A turn moves through the places of Places: charged by the budget,       *)
(* authorized by the gateway, given the thread's lock, checked against the *)
(* checkpoint, run by the agent, and settled.  The agent itself is reduced *)
(* to what the service can observe of it: it answers, pauses on refund     *)
(* calls, files an approved call, or ends with a call left unanswered.     *)
(***************************************************************************)
EXTENDS Budget

CONSTANTS
  Customers,
  CustomerOf,     \* the customer a session's token was signed for
  Conversations,  \* conversation ids; each stands for its thread id too
  Calls,          \* refund tool calls a model can make
  None

ASSUME IdentityAssumption ==
  /\ CustomerOf \in [Sessions -> Customers]
  /\ None \notin Sessions \cup Turns \cup Customers \cup Conversations

VARIABLES
  token,      \* token[s]: "unissued", "valid" or "expired"
  sessionOf,  \* session_of: the session a conversation was opened by
  owner,      \* thread_owner rows of support.db
  lock,       \* lock[c]: the turn holding the thread's lock
  thread,     \* thread[c]: what the checkpointer holds for c
  turn,       \* turn[t]: the request worker t is serving
  fate,       \* fate[k]: what became of refund call k
  filed,      \* calls whose ticket was committed
  ran         \* ran[s]: agent.invoke calls made for s by this process

apiVars == <<token, sessionOf, owner, lock, thread, turn, fate, filed, ran>>
vars    == <<budgetVars, apiVars>>

Places == {"idle", "authorizing", "acquiring", "reading", "invoking",
           "model", "tools", "unwinding", "settling"}
Fates  == {"unasked", "waiting", "approve", "reject"}

\* pending: the calls of the interrupt, {} when the thread is not paused.
\* dangling: a run ended with a call of the model's that has no result, and
\* without a pause.
\* orphaned: the history goes on after a call that never got a result.
Threads   == [pending : SUBSET Calls, dangling : BOOLEAN, orphaned : BOOLEAN]
NewThread == [pending |-> {}, dangling |-> FALSE, orphaned |-> FALSE]

\* says: the body of the request.  calls: the refund calls of the interrupt
\* get_state returned, then those still to execute, then those of the slip in
\* the answer.  left: messages_left.  ends: how run() leaves its try block.
TurnStates == [at : Places, session : Sessions \cup {None},
               conversation : Conversations \cup {None},
               says : {"message", "approve", "reject"},
               calls : SUBSET Calls, left : Nat,
               ends : {"unknown", "refused", "failed", "answered"}]
IdleTurn == [at |-> "idle", session |-> None, conversation |-> None,
             says |-> "message", calls |-> {}, left |-> 0, ends |-> "unknown"]

ApiTypeOK ==
  /\ BudgetTypeOK
  /\ token \in [Sessions -> {"unissued", "valid", "expired"}]
  /\ sessionOf \in [Conversations -> Sessions \cup {None}]
  /\ owner \in [Conversations -> Customers \cup {None}]
  /\ lock \in [Conversations -> Turns \cup {None}]
  /\ thread \in [Conversations -> Threads]
  /\ turn \in [Turns -> TurnStates]
  /\ fate \in [Calls -> Fates]
  /\ filed \subseteq Calls
  /\ ran \in [Sessions -> Nat]

ApiInit ==
  /\ BudgetInit
  /\ token = [s \in Sessions |-> "unissued"]
  /\ sessionOf = [c \in Conversations |-> None]
  /\ owner = [c \in Conversations |-> None]
  /\ lock = [c \in Conversations |-> None]
  /\ thread = [c \in Conversations |-> NewThread]
  /\ turn = [t \in Turns |-> IdleTurn]
  /\ fate = [k \in Calls |-> "unasked"]
  /\ filed = {}
  /\ ran = Zero(Sessions)

-----------------------------------------------------------------------------
(* Sessions and conversations *)

\* POST /api/session: a token with a fresh session id.
IssueSession(s) ==
  /\ token[s] = "unissued"
  /\ token' = [token EXCEPT ![s] = "valid"]
  /\ UNCHANGED <<budgetVars, sessionOf, owner, lock, thread, turn, fate, filed, ran>>

\* SESSION_TTL_SECONDS pass.  A turn already admitted runs on.
ExpireSession(s) ==
  /\ token[s] = "valid"
  /\ token' = [token EXCEPT ![s] = "expired"]
  /\ UNCHANGED <<budgetVars, sessionOf, owner, lock, thread, turn, fate, filed, ran>>

\* session_of: a conversation belongs to a session, not just to a customer.
BindToCustomer(s, c) == sessionOf' = [sessionOf EXCEPT ![c] = CustomerOf[s]]
Bind(s, c) == sessionOf' = [sessionOf EXCEPT ![c] = s]

(***************************************************************************)
(* POST /api/conversations: counted, then recorded in support.db for the   *)
(* token's customer, then bound to the session.  The id is random, so a    *)
(* conversation is opened once.                                            *)
(***************************************************************************)
StartConversation(s, c) ==
  /\ token[s] = "valid"
  /\ owner[c] = None
  /\ OpenConversation
  /\ owner' = [owner EXCEPT ![c] = CustomerOf[s]]
  /\ Bind(s, c)
  /\ UNCHANGED <<token, lock, thread, turn, fate, filed, ran>>

\* The same request when support.db refuses the INSERT (a 500), or when the
\* day's conversations are used up (429): counted in the first case.
StartFails(s) ==
  /\ token[s] = "valid"
  /\ OpenConversation \/ ConversationRefused
  /\ UNCHANGED apiVars

-----------------------------------------------------------------------------
(* A turn *)

MoveTo(t, place) == turn' = [turn EXCEPT ![t].at = place]

\* The turn leaves the agent or the gateway, with the calls S on its slip.
End(t, place, ends, S) ==
  turn' = [turn EXCEPT ![t].at = place, ![t].calls = S, ![t].ends = ends]

\* run(): the check every turn passes before it is charged.
MaySpeakAsCustomer(s, c) == owner[c] = CustomerOf[s]
MaySpeak(s, c) == sessionOf[c] = s

\* POST .../messages or .../decision with a valid token, within the limits.
\* A session the conversation is not bound to gets a 404 and changes nothing.
Admit(t, s, c, says) ==
  /\ token[s] = "valid"
  /\ turn[t].at = "idle"
  /\ MaySpeak(s, c)
  /\ Charge(t, s)
  /\ turn' = [turn EXCEPT ![t] = [IdleTurn EXCEPT !.at = "authorizing",
                                    !.session = s, !.conversation = c, !.says = says,
                                    !.left = PerSession - bySession[s] - 1]]
  /\ UNCHANGED <<token, sessionOf, owner, lock, thread, fate, filed, ran>>

\* The same request over a limit: 429.
Limited(s, c) ==
  /\ token[s] = "valid"
  /\ MaySpeak(s, c)
  /\ ChargeRefused(s)
  /\ UNCHANGED apiVars

\* SupportGateway._authorize: the ownership row must name the caller.
Authorize(t) ==
  /\ turn[t].at = "authorizing"
  /\ IF owner[turn[t].conversation] = CustomerOf[turn[t].session]
       THEN MoveTo(t, "acquiring")
       ELSE End(t, "settling", "refused", {})
  /\ UNCHANGED <<budgetVars, token, sessionOf, owner, lock, thread, fate, filed, ran>>

\* The lookup raises (support.db locked): any other exception is a 503, and
\* the charge stands although no model ran.
StoreFails(t) ==
  /\ turn[t].at = "authorizing"
  /\ End(t, "settling", "failed", {})
  /\ UNCHANGED <<budgetVars, token, sessionOf, owner, lock, thread, fate, filed, ran>>

LockNotTaken(c) == TRUE
LockFree(c) == lock[c] = None

\* runner(): a non-blocking acquire of the thread's lock.
AcquireLock(t) ==
  LET c == turn[t].conversation IN
  /\ turn[t].at = "acquiring"
  /\ LockFree(c)
  /\ lock' = [lock EXCEPT ![c] = t]
  /\ MoveTo(t, "reading")
  /\ UNCHANGED <<budgetVars, token, sessionOf, owner, thread, fate, filed, ran>>

\* ConversationBusy: 409.
Busy(t) ==
  /\ turn[t].at = "acquiring"
  /\ ~LockFree(turn[t].conversation)
  /\ End(t, "settling", "refused", {})
  /\ UNCHANGED <<budgetVars, token, sessionOf, owner, lock, thread, fate, filed, ran>>

Paused(c) == thread[c].pending # {}
Resuming(t) == turn[t].says # "message"

\* _run_turn: a paused thread takes a decision and nothing else.
OnlyDecisionsNeedAPause(t) == Resuming(t) => Paused(turn[t].conversation)
FitsThread(t) == Resuming(t) <=> Paused(turn[t].conversation)

\* get_state: remember the interrupt's calls, or raise PendingApprovalError.
ReadState(t) ==
  /\ turn[t].at = "reading"
  /\ IF FitsThread(t)
       THEN turn' = [turn EXCEPT ![t].at = "invoking",
                                 ![t].calls = thread[turn[t].conversation].pending]
       ELSE End(t, "unwinding", "refused", {})
  /\ UNCHANGED <<budgetVars, token, sessionOf, owner, lock, thread, fate, filed, ran>>

(***************************************************************************)
(* agent.invoke.  A decision is replicated to every call of the interrupt; *)
(* approved calls go on to execute, declined ones are answered at once and *)
(* the model speaks again.  A message starts a new run: a call that has no *)
(* result yet is left in the history without one.                          *)
(***************************************************************************)
DeclinedRuns(t) == IF turn[t].says = "message" THEN "model" ELSE "tools"
AfterDecision(t) == IF turn[t].says = "approve" THEN "tools" ELSE "model"

Invoke(t) ==
  LET c == turn[t].conversation IN
  /\ turn[t].at = "invoking"
  /\ IF Resuming(t)
       THEN /\ fate' = [k \in Calls |-> IF k \in turn[t].calls THEN turn[t].says
                                                               ELSE fate[k]]
            /\ thread' = [thread EXCEPT ![c].pending = {}]
       ELSE /\ thread' = [thread EXCEPT ![c].pending = {},
                                        ![c].orphaned = @ \/ Paused(c) \/ thread[c].dangling]
            /\ UNCHANGED fate
  /\ ran' = [ran EXCEPT ![turn[t].session] = @ + 1]
  /\ MoveTo(t, AfterDecision(t))
  /\ UNCHANGED <<budgetVars, token, sessionOf, owner, lock, filed>>

\* The model's message has no gated call: the run is over.
ModelAnswers(t) ==
  /\ turn[t].at = "model"
  /\ ~thread[turn[t].conversation].orphaned
  /\ End(t, "unwinding", "answered", {})
  /\ UNCHANGED <<budgetVars, token, sessionOf, owner, lock, thread, fate, filed, ran>>

\* The model asks for refunds: the gate interrupts the run on all of them.
ModelAsksRefund(t, S) ==
  /\ turn[t].at = "model"
  /\ ~thread[turn[t].conversation].orphaned
  /\ S # {} /\ \A k \in S : fate[k] = "unasked"
  /\ fate' = [k \in Calls |-> IF k \in S THEN "waiting" ELSE fate[k]]
  /\ thread' = [thread EXCEPT ![turn[t].conversation].pending = S]
  /\ End(t, "unwinding", "answered", S)
  /\ UNCHANGED <<budgetVars, token, sessionOf, owner, lock, filed, ran>>

(***************************************************************************)
(* The run ends with a call of the model's in the checkpoint that has no   *)
(* result, and no interrupt that waits for one.  Nothing refused is given  *)
(* back: the model ran.                                                    *)
(***************************************************************************)
Strands(t, ends) ==
  /\ ~thread[turn[t].conversation].orphaned
  /\ thread' = [thread EXCEPT ![turn[t].conversation].dangling = TRUE]
  /\ End(t, "unwinding", ends, {})
  /\ UNCHANGED <<budgetVars, token, sessionOf, owner, lock, fate, filed, ran>>

\* The model asks for refunds, and RefundApprovalPreflight raises while it
\* builds the card (get_invoice_line does int() on the argument as written).
PreflightRaises(t) == turn[t].at = "model" /\ Strands(t, "failed")

(***************************************************************************)
(* A tool raises: only sqlite3.OperationalError is retried and turned into *)
(* a result, anything else leaves agent.invoke.  At "tools" it is a refund *)
(* or a read of the approved message, whose refunds in progress are filed  *)
(* first and whose others never are; at "model", a read of a message       *)
(* nothing gates, or one that outlasts the refunds.                        *)
(***************************************************************************)
ToolRaises(t) ==
  /\ turn[t].at = "model" \/ (turn[t].at = "tools" /\ turn[t].calls # {})
  /\ Strands(t, "failed")

\* The message takes the run over MAX_TOOL_CALLS_PER_RUN.  The limit looks at
\* it before the gate does, answers the calls over the limit and ends the run;
\* a call of the same message within the limit gets nothing.
LimitEnds(t) == turn[t].at = "model" /\ Strands(t, "answered")

\* The model call raises: retries are used up, or the history is refused.
ModelFails(t) ==
  /\ turn[t].at = "model"
  /\ End(t, "unwinding", "failed", {})
  /\ UNCHANGED <<budgetVars, token, sessionOf, owner, lock, thread, fate, filed, ran>>

\* One approved call has its result; the model speaks when the last one has.
StaysInTools(t, k) == turn' = [turn EXCEPT ![t].calls = @ \ {k}]
CallFinished(t, k) ==
  LET left == turn[t].calls \ {k}
  IN  turn' = [turn EXCEPT ![t].calls = left,
                           ![t].at = IF left = {} THEN "model" ELSE "tools"]

\* create_refund_request commits a ticket.
FileRefund(t, k) ==
  /\ turn[t].at = "tools" /\ k \in turn[t].calls
  /\ filed' = filed \cup {k}
  /\ CallFinished(t, k)
  /\ UNCHANGED <<budgetVars, token, sessionOf, owner, lock, thread, fate, ran>>

\* It does not: the line is not on the account, or support.db stays locked.
ToolDeclines(t, k) ==
  /\ turn[t].at = "tools" /\ k \in turn[t].calls
  /\ CallFinished(t, k)
  /\ UNCHANGED <<budgetVars, token, sessionOf, owner, lock, thread, fate, filed, ran>>

\* The finally of runner().
LeaveLocked(c) == lock' = lock
Unlock(c) == lock' = [lock EXCEPT ![c] = None]

ReleaseLock(t) ==
  /\ turn[t].at = "unwinding"
  /\ Unlock(turn[t].conversation)
  /\ MoveTo(t, "settling")
  /\ UNCHANGED <<budgetVars, token, sessionOf, owner, thread, fate, filed, ran>>

\* run(): a refused turn is given back, every other charge stands.
RefundedUnlessAnswered(t) == turn[t].ends # "answered"
Refunded(t) == turn[t].ends = "refused"

Settle(t) ==
  /\ turn[t].at = "settling"
  /\ \E o \in open : o.turn = t /\ IF Refunded(t) THEN Refund(o) ELSE Keep(o)
  /\ turn' = [turn EXCEPT ![t] = IdleTurn]
  /\ UNCHANGED <<token, sessionOf, owner, lock, thread, fate, filed, ran>>

-----------------------------------------------------------------------------

(***************************************************************************)
(* The process is replaced.  Threads, locks, session_of, counters and the  *)
(* requests being served are in memory.  support.db survives a process     *)
(* restart and not a container's; tokens survive when SESSION_SECRET is    *)
(* configured.                                                             *)
(***************************************************************************)
Restart(keepsStore, keepsSecret) ==
  /\ BudgetRestart
  /\ token' = [s \in Sessions |-> IF token[s] = "valid" /\ ~keepsSecret
                                    THEN "expired" ELSE token[s]]
  /\ sessionOf' = [c \in Conversations |-> None]
  /\ owner' = IF keepsStore THEN owner ELSE [c \in Conversations |-> None]
  /\ lock' = [c \in Conversations |-> None]
  /\ thread' = [c \in Conversations |-> NewThread]
  /\ turn' = [t \in Turns |-> IdleTurn]
  /\ ran' = Zero(Sessions)
  /\ UNCHANGED <<fate, filed>>

\* What the worker serving a turn does next.
Step(t) ==
  \/ Authorize(t) \/ StoreFails(t)
  \/ AcquireLock(t) \/ Busy(t)
  \/ ReadState(t) \/ Invoke(t)
  \/ ModelAnswers(t) \/ ModelFails(t)
  \/ PreflightRaises(t) \/ ToolRaises(t) \/ LimitEnds(t)
  \/ \E S \in SUBSET Calls : ModelAsksRefund(t, S)
  \/ \E k \in Calls : FileRefund(t, k) \/ ToolDeclines(t, k)
  \/ ReleaseLock(t) \/ Settle(t)

\* What visitors, the clock and the host do.
Visit ==
  \/ \E s \in Sessions : IssueSession(s) \/ ExpireSession(s) \/ StartFails(s)
  \/ \E s \in Sessions, c \in Conversations : StartConversation(s, c) \/ Limited(s, c)
  \/ \E t \in Turns, s \in Sessions, c \in Conversations,
        says \in {"message", "approve", "reject"} : Admit(t, s, c, says)

Tick == Midnight /\ UNCHANGED apiVars

ApiNext ==
  \/ Visit
  \/ Tick
  \/ \E t \in Turns : Step(t)
  \/ \E keepsStore, keepsSecret \in BOOLEAN : Restart(keepsStore, keepsSecret)

ApiSpec == ApiInit /\ [][ApiNext]_vars

(***************************************************************************)
(* A worker thread that is serving a turn keeps running: nothing in run()  *)
(* blocks (the acquire is non-blocking, the model call is bounded by its   *)
(* 20 s timeout and two retries).  Visitors, the clock and restarts owe    *)
(* nothing.                                                                *)
(***************************************************************************)
FairApiSpec == ApiSpec /\ \A t \in Turns : WF_vars(Step(t))
=============================================================================
