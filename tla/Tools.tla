------------------------------- MODULE Tools --------------------------------
(***************************************************************************)
(* A turn of the agent and the tools it calls: build_agent of graph.py and *)
(* build_supervisor of graph_supervisor.py with TenantResultGuard, the     *)
(* call limits and ToolRetryMiddleware, over the audit scopes of audit.py. *)
(*                                                                         *)
(* The calls of one model message run in parallel threads.  A call of the  *)
(* supervisor may delegate: a specialist is an agent of its own, inside    *)
(* that call, and its calls run inside the call's audit scope.  One tool,  *)
(* "forgetful", reads any customer's rows and checks nothing: the tool     *)
(* "added six months from now" the guard is there for, and the leaky tool  *)
(* of tests/test_tenant_guard.py.                                          *)
(***************************************************************************)
EXTENDS Repository

CONSTANTS
  MaxCalls,            \* bound: tool calls in progress at once
  Root,                \* the agent the turn was given to
  None,
  MaxToolCalls, MaxSpecialistCalls, MaxRetries,
  Served               \* bound: the databases an agent is run on

Calls == 1 .. MaxCalls

ASSUME ToolsAssumption ==
  /\ MaxCalls \in Nat /\ Root \notin Calls /\ None \notin Customers
  /\ MaxToolCalls \in Nat /\ MaxSpecialistCalls \in Nat /\ MaxRetries \in Nat

VARIABLES
  caller,    \* the customer in the runtime context, or None
  arm,       \* "flat" or "supervisor"
  watched,   \* whether an evaluator opened a scope around the turn
  agent,     \* agent[a]: the loop of the root agent, or of a call's specialist
  call,      \* call[k]: a tool call in progress
  log,       \* log[a]: the audit log of the scope opened by a
  touched,   \* customers whose rows any call of the turn has read
  told,      \* customers whose rows are in results the root model was given
  nested,    \* calls specialists asked for, while watched
  recorded   \* NestedActivity.tool_calls

toolVars == <<caller, arm, watched, agent, call, log, touched, told, nested, recorded>>
vars     == <<repositoryVars, toolVars>>

Agents == Calls \cup {Root}

\* used: calls counted against the limit.  asked: calls in a watched specialist's
\* messages.
AgentStates == [at : {"off", "model", "tools", "over", "failed"}, used : Nat, asked : Nat]
Off         == [at |-> "off", used |-> 0, asked |-> 0]
Started     == [Off EXCEPT !.at = "model"]

\* step: the next read.  tries: retries spent.  seen: customers of the rows in
\* the result so far.  met: customers of all rows read, by every attempt.
ToolNames == {"billing", "catalog", "delegate", "forgetful"}
CallStates ==
  [at : {"idle", "reading", "delegating", "returning", "done", "raised"},
   tool : ToolNames, parent : Agents, step : Nat, tries : Nat,
   seen : SUBSET Customers, met : SUBSET Customers]
Idle == [at |-> "idle", tool |-> "billing", parent |-> Root, step |-> 1,
         tries |-> 0, seen |-> {}, met |-> {}]

ToolsTypeOK ==
  /\ chinook \in Databases
  /\ caller \in Customers \cup {None}
  /\ arm \in {"flat", "supervisor"}
  /\ watched \in BOOLEAN
  /\ agent \in [Agents -> AgentStates]
  /\ call \in [Calls -> CallStates]
  /\ log \in [Agents -> SUBSET Customers]
  /\ touched \subseteq Customers
  /\ told \subseteq Customers
  /\ nested \in Nat
  /\ recorded \in Nat

ToolsInit ==
  /\ RepositoryInit
  /\ caller = None
  /\ arm = "flat"
  /\ watched = FALSE
  /\ agent = [a \in Agents |-> Off]
  /\ call = [k \in Calls |-> Idle]
  /\ log = [a \in Agents |-> {}]
  /\ touched = {}
  /\ told = {}
  /\ nested = 0
  /\ recorded = 0

Running == agent[Root].at \in {"model", "tools"}

\* agent.invoke, or run_example when an evaluator watches.
StartTurn(c, which, observed) ==
  /\ ~Running
  /\ chinook \in Served /\ answer = Nothing
  /\ caller' = c
  /\ arm' = which
  /\ watched' = observed
  /\ agent' = [a \in Agents |-> IF a = Root THEN Started ELSE Off]
  /\ call' = [k \in Calls |-> Idle]
  /\ log' = [a \in Agents |-> {}]
  /\ touched' = {}
  /\ told' = {}
  /\ nested' = 0
  /\ recorded' = 0
  /\ UNCHANGED repositoryVars

-----------------------------------------------------------------------------
(* The model of an agent *)

\* W3's tools are left to Tickets.
ToolsOf(a) ==
  {"forgetful"} \cup IF a = Root /\ arm = "supervisor" THEN {"delegate"}
                                                       ELSE {"billing", "catalog"}

Limit(a) == IF a = Root THEN MaxToolCalls ELSE MaxSpecialistCalls

\* How many of them an evaluator cannot see in the root's messages.
Traced(a, n) == IF watched /\ a # Root THEN n ELSE 0

Asks(a, n) ==
  /\ agent[a].at = "model"
  /\ nested' = nested + Traced(a, n)
  /\ UNCHANGED <<repositoryVars, caller, arm, watched, touched, told, recorded>>

\* The guard opens a call with the caller's identity: without one it raises.
Opened(a, tool) ==
  [Idle EXCEPT !.at = IF caller = None THEN "raised" ELSE "reading",
               !.tool = tool, !.parent = a]

PerMessage(a, n) == n
Counted(a, n) == agent[a].used + n
Allowed(a, n) == Counted(a, n) <= Limit(a)

\* The n lowest numbers no call has: which numbers does not matter.
Free   == {k \in Calls : call[k].at = "idle"}
New(n) == {k \in Free : Cardinality({j \in Free : j < k}) < n}

\* The model's message asks for n calls; all of them run.  A scope that a call
\* opens starts with an empty log.
AskTools(a, n, tool) ==
  LET S == New(n) IN
  /\ Asks(a, n)
  /\ n <= Cardinality(Free)
  /\ Allowed(a, n)
  /\ agent' = [agent EXCEPT ![a] = [at |-> "tools", used |-> Counted(a, n),
                                    asked |-> @.asked + Traced(a, n)]]
  /\ call' = [k \in Calls |-> IF k \in S THEN Opened(a, tool[k]) ELSE call[k]]
  /\ log' = [b \in Agents |-> IF b \in S THEN {} ELSE log[b]]

\* It goes over the limit: exit_behavior="end" ends the run before any call.
AskTooMany(a, n) ==
  /\ Asks(a, n)
  /\ ~Allowed(a, n)
  /\ agent' = [agent EXCEPT ![a].at = "over", ![a].asked = @ + Traced(a, n)]
  /\ UNCHANGED <<call, log>>

EndsAs(a, how) ==
  /\ agent[a].at = "model"
  /\ agent' = [agent EXCEPT ![a].at = how]
  /\ UNCHANGED <<repositoryVars, caller, arm, watched, call, log, touched, told, nested, recorded>>

\* The model answers, or raises when its own retries are used up.
ModelAnswers(a) == EndsAs(a, "over")
ModelFails(a)   == EndsAs(a, "failed")

-----------------------------------------------------------------------------
(* A tool call, inside the guard and inside the retries *)

\* audit_scope(): an active log is used again, so scopes flatten.
OwnScope(k) == k
TurnScope(k) == Root
Scope(k) == IF watched THEN Root
            ELSE IF call[k].parent = Root THEN k ELSE call[k].parent

\* The repository reads of a tool, in order.  Each billing tool has one.
ReadsOf(tool) ==
  IF tool = "catalog" THEN <<"owned_track_ids", "owned_artists", "genre_affinity">>
                      ELSE <<"invoices">>

\* What audit.record is told: the customers of the rows returned.
CustomersIn(c, read) ==
  IF read = "invoices" THEN {chinook.customerOf[i] : i \in OwnInvoices(c)}
                            ELSE {BuyerOf(l) : l \in OwnLines(c)}

\* A billing read may find nothing: an invoice that is not theirs, a year
\* without purchases.
Found(c, read) ==
  {CustomersIn(c, read)} \cup IF read = "invoices" THEN {{}} ELSE {}

\* Tools are bound to the caller, the forgetful one to whom it pleases.
MayReadAs(k) == IF call[k].tool = "forgetful" THEN Customers ELSE {caller}

\* One read: the rows reach the log before the tool can use them.
ReadRows(k, c) ==
  LET reads == ReadsOf(call[k].tool) IN
  /\ call[k].at = "reading" /\ call[k].tool # "delegate"
  /\ c \in MayReadAs(k)
  /\ \E rows \in Found(c, reads[call[k].step]) :
       /\ call' = [call EXCEPT ![k].seen = @ \cup rows,
                               ![k].met  = @ \cup rows,
                               ![k].step = @ + 1,
                               ![k].at   = IF call[k].step = Len(reads) THEN "returning" ELSE @]
       /\ log' = [log EXCEPT ![Scope(k)] = @ \cup rows]
       /\ touched' = touched \cup rows
  /\ UNCHANGED <<repositoryVars, caller, arm, watched, agent, told, nested, recorded>>

\* recommend_for_me stops before its first read when the catalog has no such
\* genre, and after it when there is one to stay inside.
StopsEarly(k) ==
  /\ call[k].at = "reading" /\ call[k].tool = "catalog" /\ call[k].step <= 2
  /\ call' = [call EXCEPT ![k].at = "returning"]
  /\ UNCHANGED <<repositoryVars, caller, arm, watched, agent, log, touched, told, nested, recorded>>

(***************************************************************************)
(* sqlite3.OperationalError: ToolRetryMiddleware, inside the guard, runs   *)
(* the tool again from its start; after the last retry the result is its   *)
(* own message.  What the attempt has read stays in the log.               *)
(***************************************************************************)
ReadFails(k) ==
  /\ call[k].at = "reading" /\ call[k].tool # "delegate"
  /\ call' = [call EXCEPT ![k].seen = {}, ![k].step = 1,
                          ![k].tries = IF @ < MaxRetries THEN @ + 1 ELSE @,
                          ![k].at = IF call[k].tries < MaxRetries THEN @ ELSE "returning"]
  /\ UNCHANGED <<repositoryVars, caller, arm, watched, agent, log, touched, told, nested, recorded>>

\* _delegate: the specialist is invoked with the caller's context.
Delegate(k) ==
  /\ call[k].at = "reading" /\ call[k].tool = "delegate"
  /\ call' = [call EXCEPT ![k].at = "delegating"]
  /\ agent' = [agent EXCEPT ![k] = Started]
  /\ UNCHANGED <<repositoryVars, caller, arm, watched, log, touched, told, nested, recorded>>

\* _record_nested: no sink unless an evaluator opened one.  The specialist's
\* last message is the call's result.
RecordAnswersOnly(k) == recorded' = recorded + Traced(k, agent[k].used)
RecordNested(k) == recorded' = recorded + agent[k].asked

HandBack(k) ==
  /\ call[k].at = "delegating" /\ agent[k].at = "over"
  /\ call' = [call EXCEPT ![k].at = "returning"]
  /\ agent' = [agent EXCEPT ![k] = Off]
  /\ RecordNested(k)
  /\ UNCHANGED <<repositoryVars, caller, arm, watched, log, touched, told, nested>>

\* The specialist raised: so does the call, and nothing is recorded.
SpecialistRaises(k) ==
  /\ call[k].at = "delegating" /\ agent[k].at = "failed"
  /\ call' = [call EXCEPT ![k].at = "raised"]
  /\ agent' = [agent EXCEPT ![k] = Off]
  /\ UNCHANGED <<repositoryVars, caller, arm, watched, log, touched, told, nested, recorded>>

\* assert_scoped_to: by the tool (_finish), then by the guard around it.
MentionsCaller(k) == log[Scope(k)] = {} \/ caller \in log[Scope(k)]
ScopedToCaller(k) == log[Scope(k)] \subseteq {caller}

\* The result reaches the agent that asked.
Return(k) ==
  LET p == call[k].parent IN
  /\ call[k].at = "returning"
  /\ ScopedToCaller(k)
  /\ call' = [j \in Calls |-> IF j = k THEN [call[k] EXCEPT !.at = "done"]
                              ELSE IF j = p THEN [call[p] EXCEPT !.seen = @ \cup call[k].seen]
                              ELSE call[j]]
  /\ told' = IF p = Root THEN told \cup call[k].seen ELSE told
  /\ UNCHANGED <<repositoryVars, caller, arm, watched, agent, log, touched, nested, recorded>>

\* TenantIsolationError.
GuardFires(k) ==
  /\ call[k].at = "returning"
  /\ ~ScopedToCaller(k)
  /\ call' = [call EXCEPT ![k].at = "raised"]
  /\ UNCHANGED <<repositoryVars, caller, arm, watched, agent, log, touched, told, nested, recorded>>

(***************************************************************************)
(* The tools node waits for every call of the message, then goes back to   *)
(* the model, or raises the first exception: the other results are lost.   *)
(***************************************************************************)
Batch(a) == {k \in Calls : call[k].at # "idle" /\ call[k].parent = a}

BatchEnds(a) ==
  /\ agent[a].at = "tools"
  /\ \A k \in Batch(a) : call[k].at \in {"done", "raised"}
  /\ agent' = [agent EXCEPT ![a].at = IF \E k \in Batch(a) : call[k].at = "raised"
                                        THEN "failed" ELSE "model"]
  /\ call' = [k \in Calls |-> IF k \in Batch(a) THEN Idle ELSE call[k]]
  /\ UNCHANGED <<repositoryVars, caller, arm, watched, log, touched, told, nested, recorded>>

-----------------------------------------------------------------------------

Work ==
  \/ \E a \in Agents :
       \/ \E n \in Calls : \/ \E tool \in [New(n) -> ToolsOf(a)] : AskTools(a, n, tool)
                         \/ AskTooMany(a, n)
       \/ ModelAnswers(a) \/ ModelFails(a) \/ BatchEnds(a)
  \/ \E k \in Calls :
       \/ \E c \in Customers : ReadRows(k, c)
       \/ StopsEarly(k) \/ ReadFails(k) \/ Delegate(k) \/ HandBack(k) \/ SpecialistRaises(k)
       \/ Return(k) \/ GuardFires(k)

ToolsNext ==
  \/ Work
  \/ \E c \in Customers \cup {None}, which \in {"flat", "supervisor"}, observed \in BOOLEAN :
       StartTurn(c, which, observed)
  \/ agent[Root].at = "off" /\ (Ask \/ Leave) /\ UNCHANGED toolVars

ToolsSpec == ToolsInit /\ [][ToolsNext]_vars

(***************************************************************************)
(* A turn that is running goes on: model calls and reads are bounded by    *)
(* their timeouts, threads of the tools node are joined.  Nothing is       *)
(* assumed of when a turn starts, or of what the model asks for.           *)
(***************************************************************************)
FairToolsSpec == ToolsSpec /\ WF_vars(Work)

-----------------------------------------------------------------------------

(***************************************************************************)
(* No result the model is given was made from another customer's rows,     *)
(* whatever a tool forgets, whoever watches, in either arm, after any      *)
(* retry: the guard raises before the result exists (tenancy.py).          *)
(***************************************************************************)
NoForeignResult == told \subseteq {caller}

(***************************************************************************)
(* An evaluator's log has every customer whose rows were read in the turn, *)
(* by nested calls and by failed attempts too: "if the inner scope         *)
(* shadowed the outer, the evaluator would inspect an empty log".          *)
(***************************************************************************)
EvidenceKept == watched => touched \subseteq log[Root]

(***************************************************************************)
(* Outside an evaluation a call is failed for its own reads only: parallel *)
(* calls of one message do not share a log.                                *)
(***************************************************************************)
SiblingsAreApart ==
  ~watched /\ caller # None =>
    \A k \in Calls :
      call[k].at = "raised" /\ call[k].parent = Root /\ call[k].tool # "delegate"
        => ~(call[k].met \subseteq {caller})

(***************************************************************************)
(* When a watched turn ends normally, every call a specialist asked for is *)
(* in the trajectory the evaluator is given, however the specialist ended. *)
(***************************************************************************)
TrajectoryIsComplete == watched /\ agent[Root].at = "over" => recorded = nested

\* What each agent and each call may still do: an agent asks for calls under its
\* limit, a call makes three reads at most and starts over when it retries.
Workers == ({"agent"} \X Agents) \cup ({"call"} \X Calls)
AgentLeft(a) ==
  [off |-> 0, over |-> 0, failed |-> 0,
   model |-> 2 * (Limit(a) - agent[a].used) + 1,
   tools |-> 2 * (Limit(a) - agent[a].used) + 2][agent[a].at]
CallLeft(k) ==
  [idle |-> 0, done |-> 0, raised |-> 0, returning |-> 1, delegating |-> 2,
   reading |-> 4 * (MaxRetries + 1 - call[k].tries) + 2 - call[k].step][call[k].at]
Left(x) == IF x[1] = "agent" THEN AgentLeft(x[2]) ELSE CallLeft(x[2])
Boss(x) == IF x[1] = "agent" THEN <<"call", x[2]>> ELSE <<"agent", call[x[2]].parent>>

(***************************************************************************)
(* Nothing in a turn is free: each step uses up what one agent or call has *)
(* left, and can give more only to those that work for it, a call to its   *)
(* specialist or an agent to its calls.  As these nest, no turn goes on    *)
(* for ever.                                                               *)
(***************************************************************************)
Spends ==
  \E x \in Workers :
    /\ Left(x)' < Left(x)
    /\ \A y \in Workers : y = x \/ Left(y)' <= Left(y) \/ Boss(y)' = x
StepsAreSpent == [][Running => Spends]_vars

(***************************************************************************)
(* Every turn ends, even if models only ever ask for more calls: the two   *)
(* limits bound the loop inside a specialist as well as the one around it. *)
(***************************************************************************)
EveryTurnEnds == Running ~> ~Running
=============================================================================
