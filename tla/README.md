# A TLA+ model of the Chinook support agent

This directory holds TLA+ modules that model the support agent of this repository, TLC
configurations that check them on small instances, and TLAPS proofs of the properties that
matter for every instance. Paths below are relative to the repository root.

## 1. The system

A visitor signs in as one of two demo customers on a web page. The page talks to a FastAPI
service, which charges each turn to a budget, checks who owns the conversation, runs an agent
on the conversation's thread and returns what the agent did. The agent reads the customer's
purchases through tools bound to that customer. It may ask to file a refund; it then pauses
until the visitor, playing the reviewer, approves or declines. The same graph is also served by
a LangGraph Agent Server, to Studio and to clients with a token, and graded by a harness that
decides whether a supervisor with specialists should replace the flat agent.

| Component | State | Operations | Talks to |
| --- | --- | --- | --- |
| `Budget` (`src/api.py:141`) | turns per session, turns and conversations of one UTC day | charge, refund, open_conversation | called by the service under its own lock |
| Turn service (`create_app`, `make_runner`, `_run_turn`) | `session_of`, one lock per thread, the request being served by each worker thread | session, conversations, messages, decision | budget, gateway, agent |
| `SessionSigner` | none; a token carries session, customer and expiry | issue, verify | service |
| `SupportGateway`, `ThreadOwnershipStore` (`src/gateway.py`) | `thread_owner` rows in `support.db` | start_conversation, send | service, Agent Server; a runner |
| Agent graph (`src/agent/graph.py`) and its middleware | the checkpoint of each thread: messages, interrupt, brief, cards | model call, parallel tool calls, retries, limits, pause, resume | model, tools |
| Supervisor arm (`graph_supervisor.py`) | nested activity of one run | delegate to a specialist | specialists |
| Refund gate (`middleware/approval.py`, `tools/support.py`, `data/db.py`) | interrupt in the checkpoint, `refund_requests` and `handoff_requests` rows | build the card, file a ticket once per call | repository, `support.db` |
| Tenant guard and audit log (`middleware/tenancy.py`, `data/audit.py`) | the active audit scope | record, assert_scoped_to | every repository read |
| Repository (`src/data/db.py`) | none (read-only `chinook.db`) | scoped reads, recommendations | tools |
| Agent Server auth and runner (`security/auth.py`, `agent_server.py`) | the server's threads and their owner metadata | authenticate, authorize, run | gateway, Studio |
| Web client (`web/src`) | entries, slip, failed call, messages left | sign in, switch, send, decide, Try again, recover | the service, over a network |
| Scripts | `chinook.db`, `support.db`, the server's assistants | set up, pin assistants, reset | files, Agent Server |
| Evaluation harness (`evals/`, freeze and upload scripts) | result files, the dataset on the server | run an example, grade, compare, publish, upload | agent, git, LangSmith |

What is hard about it: worker threads interleave at every step of a turn; a thread's state is
read, then a model runs for seconds, then the state is written; a refused turn has to be given
back and a failed one must not be; midnight passes between a charge and its refund; the process
restarts and loses some of its state but not all; answers get lost and the page offers to
repeat the request; two visitors are the same customer; audit scopes nest and flatten while
calls run in parallel; a run is authorized when created and starts later; scripts die half way
and are run again; a tree is edited while an experiment runs on it.

What makes each component correct:

- budget: the counters agree with what was really charged, and the caps hold;
- turn service: one turn per thread, no free model run, no turn on another session's thread,
  no message behind an unanswered refund call, every turn answered, every lock freed;
- refund gate: a call is decided once, together with the calls it was shown with, and filed
  only if approved, at most one ticket per call;
- web client: no ticket without a click on the slip that showed it, every pause visible;
- agent, guard, supervisor: no result made from another customer's rows reaches the model, no
  read escapes the evaluator, a call is failed for its own reads only, every turn ends;
- repository: recommendations are new, fair and as many as there can be; the reads agree;
- Agent Server: no thread, run or reply of another customer, whatever the request claims;
- scripts: a reported success is one, no ticket is lost, assistants run as who they name;
- harness: grades tell what happened, published arms ran the same code, uploads lose nothing.

`PROJECT.json` lists every component with what is modelled of it, and every hazard with the
source line where it bites and the properties that cover it.

## 2. The modules

    Budget  <-- SupportApi  <-- ChatPage  <-- ChatPageProofs          (EXTENDS)
       ^            ^  ^
       |            |  SupportApiProps --> RefundPromise               (INSTANCE)
    BudgetProofs <-- SupportApiProofs  <-- ChatPageProofs
    Tickets --> TicketPromise                                          (INSTANCE)
       ^--- TicketsProofs
    Repository <-- Tools <-- ToolsProofs;   Repository <-- RepositoryProofs <-- ToolsProofs
    SetupData <-- Assistants <-- AgentServer <-- AgentServerProofs
    Evaluators <-- EvalTarget, Experiment;   DatasetSync;   EvalsProofs
    MCBudget, MCSupportApi, MCChatPage, MCTickets, MCTools, MCServers, MCEvals: for TLC

**Budget.** `clock` is the date the code reads, `day`, `bySession`, `today`, `conversations` are
the fields of the class. One action per method outcome: `Charge`, `ChargeRefused`, `Refund`,
`Keep`, `OpenConversation`, `ConversationRefused`; each holds the budget's lock for its whole
body, so it is one step. `open`, `keptBy`, `keptOn`, `late`, `opened` are books kept beside the
code (no guard reads them except that a turn is charged once): the properties relate counters
to books.

**SupportApi.** A turn is served by a worker thread `t`; `turn[t].at` is its place in `run()`:
charged and about to be authorized, about to take the lock, about to read the checkpoint, about
to invoke, in the model, in the tools, about to release, about to settle. Other requests may
act between any two places. Each action is named after the code it stands for; the mapping to
lines is in `PROJECT.json`. The agent is reduced to what the service can observe: `ModelAnswers`,
`ModelAsksRefund`, `FileRefund`, `ToolDeclines`, `ModelFails`, and three ways in which a run
leaves a call of the model's without a result and without a pause (`Strands`): the card raises
(`PreflightRaises`), a tool raises anything but `sqlite3.OperationalError` (`ToolRaises`: a refund,
a read beside it in the approved message, or a read nothing gates), or the tool call limit, which
looks at a message before the gate, ends the run on a message partly over it (`LimitEnds`). Read
tools that return, handoffs and the wording of replies are left out, they change nothing the service looks at.
`thread[c]` is the checkpoint: `pending` (the calls of the interrupt), `dangling` (a run
ended with a call that has no result and no pause), `orphaned` (a message follows a call without
a result, which the model API refuses from then on). `fate`, `filed` are the decisions and
tickets, `ran` counts `agent.invoke`.

Three points of translation. Sessions, conversations and calls are names taken once: the code
draws them at random. The ownership check of the gateway is in the model (`Authorize`) although
the session binding, checked before, never lets a foreign turn reach it: its refusal branch is
defence in depth and, in this service, dead. `ModelFails` is possible at any model call and the
only outcome on an orphaned thread. One asymmetry of the code is kept as it is: a failure of
`support.db` in the ownership lookup is a 503 that keeps the charge although no model ran
(`src/api.py:439`), while a refused turn is given back.

**RefundPromise** is the abstract specification of a refund call's life: unasked, waiting,
approved or declined together with the calls it waits with, filed only from approved.
`SupportApiProps!Promise` maps `life` to `fate` and `filed`.

**ChatPage** adds one page per session: the conversation it shows, the request `run()` awaits,
the slip without a decision, the failed call behind Try again. Its actions are the handlers of
`Chat.tsx` and `page.tsx`; each composes a click with the service's admission of the request,
because the page waits for the answer. `SwitchCustomer` closes the page with whatever it waits
for or shows; the request goes on and nobody takes its answer. `consent` records the calls that
were on a slip when the visitor clicked Approve. With `Lossy` an answer may be lost while the
server works on, and `lost` remembers that one was.

**Tickets** is what `SupportApi` takes in one step (`FileRefund`, `ToolDeclines`): the tools
`create_refund_request` and `escalate_to_human` over the two ticket tables. `attempt[a]` is one
execution of a tool on a connection of its own: it reads `chinook.db`, inserts, commits and
reports, and other attempts, a crash of its process or a reset can act between any two of these
steps. `writer` is SQLite's write lock; it is taken by the INSERT and given back when
`support_connection` closes, also when the INSERT fails on the key, because a constraint error
leaves the transaction open. `Enter` may take a call again at any time, and about something else
than before: a retry, a second delivery, an operator replaying the thread, a reviewer's edit.
`OperationalError` is the only exception `ToolRetryMiddleware` retries; the message after
its last retry is the middleware's. `ledger` and `answers` are an auditor's lists of everything
ever committed and of the answers that name a ticket. A row's number is one past
`sequence`: inserts and resets keep every row of a table at or below its counter.

**TicketPromise** is the abstract table: a call's ticket appears at most once, about something
its caller may file about, until somebody clears it.

**Repository** is `CustomerRepository` as operators over a database record: each read is a set
or a sequence over the rows, with the WHERE and ORDER BY of its query, and `recommend_tracks`
the same folds over artists, genres and tracks as the code's loops. `InOrder` is ORDER BY: the
n-th row has n - 1 of the set before it, which is the one list there is when the order is total. `chinook` is chosen once, for
the file is opened read-only. `Ask` is a caller with a repository of its own (a script, a test,
the harness); the properties compare its answers with definitions that do not fold, or with each
other.

**Tools** is one turn of the agent, in either arm. `agent[a]` is the loop of the root agent or
of the specialist inside call `a`; `call[k]` a tool call in progress in a thread of its own.
`AskTools`, `AskTooMany`, `ModelAnswers`, `ModelFails` are the outcomes of a model call under the
limits; `ReadRows`, `StopsEarly`, `ReadFails` a tool inside the retries; `Delegate`, `HandBack`,
`SpecialistRaises` the supervisor; `Return`, `GuardFires` the tenant guard around every call;
`BatchEnds` the tools node, which waits for every call of a message. `Scope(k)` is the audit log a
call's reads go to: the evaluator's when there is one, else that of the outermost call. One tool,
`forgetful`, reads as any customer and checks nothing: it stands for the leaky tool of
`tests/test_tenant_guard.py`, and without it the guard would have nothing to do.
The writing tools (refund, handoff) are left to `Tickets` and `SupportApi`, and so is a tool that
raises something of its own: like the guard it fails the turn, and what it leaves on the thread is
`SupportApi!ToolRaises`.

**SetupData** is `setup_data.py` file by file: a step keeps the file it finds, writes it whole, or
leaves what a broken download, a dead process or a failing statement can leave. A dump that ends
between two statements builds a database that raises nothing and is not whole. The service may
file tickets at any time. **Assistants** is `setup_studio_assistants.py` request by request over
the server's assistants, which people edit and a restart forgets.

**AgentServer** is the Agent Server behind the handlers of `security/auth.py`: `Principal` is
`authenticate` over the forms a credential can have, `Sees` and `Stamped` the filter and the owner
stamp, `Identities` whom a run can run as, given what its context, its configurable and the named
assistant claim. A run is created by one request and executed later, so `CreateRun` and
`ExecuteRun` are two actions. `guarded = FALSE` is a server without handlers, the one
`demo_thread_ownership.py` puts `SupportGateway` and `AgentServerRunner` in front of. The brief
that `before_agent` caches in the checkpoint is `thread[t].brief`. The server itself is external:
it is modelled from how the handlers, the runner and the scripts use it. Handlers that only
refuse (crons, the store, a customer's assistants) admit nothing and are left out.

**Evaluators** has no state: one example of each kind in `dataset.py`, the eight code evaluators,
the row that is kept of a run, and the eight bars of `compare.py`. **EvalTarget** is
`run_example`, step by step, over an agent that may have the flaw an evaluator is there to find:
a leaking tool, a read outside any tool, a write without a pause. **Experiment** is `run.py`
writing result files with their provenance while people edit, commit and check out, and
`freeze_experiment.py` refusing or publishing a pair. **DatasetSync** is `upload_dataset.py`
against the copies on the server, with uploads that overlap or die and people at the web page.

## 3. The runs

| Run | Bounds | Shows |
| --- | --- | --- |
| `budget_midnight` | 2 sessions, 3 turns, limits 2/2/2, 2 days | **violated**: `DailyCap` |
| `races` | 1 session, 2 turns, 1 conversation, 2 calls, 4 turns each day | exclusion, paused-thread guard, refinement of `RefundPromise` |
| `tenants` | 3 sessions (2 of one customer), 2 turns, 2 conversations, 1 call | `ThreadIsPrivate`, `NoFreeModelRun` |
| `live` | 1 session, 2 turns, 1 conversation, 1 call, 2 days | every turn settles, every lock is freed |
| `stranded` | as `live`, 1 day | **violated**: `HistoryAnswerable` |
| `chat` | 1 page, 2 turns, 2 conversations, 2 calls, limits 3/3/2, loss | `NoClickNoTicket`; `ApprovedUnlessLost` and `PauseShownUnlessLost` |
| `chat_lossy` | as `chat`, limits 4, 3 calls | **violated**: `ApprovedAsSeen` |
| `tickets` | 2 attempts, 1 refund, 1 handoff, 2 subjects, 1 retry, 1 reset | one ticket per call, answers backed, collisions find their ticket, the write lock comes back, refinement of `TicketPromise`, attempts end |
| `tools` | 2 customers; 1024 databases of 3 invoices, 4 lines, 4 tracks for the reads, 1 of them for turns; 3 calls in progress, limits 2/2, 1 retry | recommendations and reads; isolation, evidence, blame, trajectory; every step uses something up, turns end |
| `servers` | `Budget`: 2 sessions, 3 turns, limits 3/3/2, 3 days; `AgentServer`: 2 customers, Studio, operator, unknown; 2 threads, 1 run waiting, 1 ticket, 1 hand edit | the budget's ledgers and caps; threads, runs and replies stay a customer's; the two scripts keep their word |
| `evals` | the whole of `EvalTarget`; 2 models, 2 edits, 2 files; 1 name and others, 2 ids, 2 uploads | grades, published arms, dry arms, uploads |
| `ungated` | as `evals` | **violated**: `WritesWerePaused` |

Why the bounds are enough. Every race of the service is between two requests (the code compares
a turn with what one other turn did to the lock, the checkpoint or a counter); a third turn in
`servers` lets a charge be refused while two are in flight. Two calls make a slip with several
calls and, after a first pause, a second one; the limits are one or two more than the shortest
run that pauses and resumes. Three sessions of two customers give the three relations two
sessions can have. Three days let a turn be refunded one and two days late. `PerSession`,
`PerDay`, `ConversationsPerDay` bound the counters as they do in the code; `LastDay` is the only
bound that is not the code's. `ran` is bounded by the session's limit. `chat` has the two
conversations a page can come to hold, and limits that let it pause, decide and send
again; `chat_lossy` leaves more turns and slips than its counterexample uses.

In `tickets` two attempts contend for the lock and for one key, or work on the two tables;
`MaxRetries` is 1 (2 in the code), enough for a retry to succeed, collide or be the last; the
handoff baseline is 1 (3 in the code), so a reset keeps one handoff and clears another;
`MaxResets` is a bound of the model.

In `tools` the limits are 2 (12 in the code): enough for a batch of two, a second batch, and a
message that goes over. Three calls in progress are a delegation with a batch of two inside, or a
delegation and two sibling calls. The reads are checked on every assignment of four lines to four
tracks, with two catalogs and two calendars: ties, NULL albums, a customer who owns all of an
artist or a genre, limits below, at and above the list, years that split the purchases. A turn
uses one of these databases: it only looks at whose rows a read returns. `Limits`, `Years` are the arguments tried.

In `servers` every form of credential, payload and claimed owner is tried; two threads are
what confusing one thread with another takes, and the gateway's thread beside another's. `MaxRuns`
and `MaxEdits` bound what accumulates. A request sees at most one thread, so more of them add
nothing but interleavings. `evals` needs no bound for `EvalTarget`: its state is finite as it is
(two tickets are one more than any example expects). Two edits and two files are an edit between
the runs of a pair and one during a run; two uploads overlap; two ids run out.
`--repeat` is 1, `--arm` is left out (no reader of a result file looks at it), and so are the
splits of the uploaded dataset.

`servers` and `evals` check parts that share no state. Their next-state relation lets one
part move while the others are at their initial state: the product of their interleavings would
be checked for nothing. Nothing is lost by it: the proofs are of the interleaved system
(`OneAtATimeIsInterleaved` shows that what TLC runs of server and scripts is some of it) and of
the parts' own specifications (`BudgetSpec`, `ExperimentSpec`, `SyncSpec`). `Budget` is run beside
one of the server's initial states.

Deadlock checking is on in every run but `evals` and `ungated`, where edits and files are used up
and nothing is left to do.

Symmetry is used only in runs without liveness properties, over calls, turns, conversations,
threads, models, ids, uploads and the two sessions of one customer, none of which a definition
tells apart.

Fairness (runs `live`, `tickets`, `tools`). In `live` it is `WF_vars(Step(t))` for each worker: a
worker thread that has a request runs on, because nothing in `run()` blocks, the lock is taken
with `blocking=False`, a model call is bounded by a 20 s timeout and two retries
(`src/api.py:362`, `src/agent/graph.py:127`) and tools by SQLite's own timeout. In `tickets` it is
`WF_ticketVars(Work(a))`: a wait for the write lock ends in the lock or in an `OperationalError`
after the connection's timeout. In `tools` it is `WF_vars(Work)`, the turn as a whole: the same
timeouts, and a tools node that joins its threads. Nothing is assumed of which call goes on, nor
of what a model asks for. Visitors, crashes, resets, the clock and restarts are not assumed to act.

### What the four violations say

`DailyCap`. `refund()` subtracts from the counter of the day it finds, not of the day charged
(`src/api.py:193`). `DailyCapUpToLateRefunds` is the exact cap that holds, and it is proved.

`HistoryAnswerable`. The guard against a message behind an unanswered call looks for an
interrupt (`src/api.py:248`). A run that ends between the model's call and its result leaves none:
the reviewer's card raises, a tool raises what is not retried, or the limit ends the run on a
message partly over it. The next message is let through, the model API refuses the history, and
the conversation is lost, one charged 503 at a time. A tool that raises in an approved message
also leaves the message's other refunds as they are: the ones in progress are filed, the rest are
neither filed nor declined. What the guard does give is `PausesStayAnswerable`, checked and proved:
while a refund waits for its decision, nothing else of its thread is unanswered and no message
has gone past it, so the decision can always be carried out; and nothing but such an ended run is
ever gone past.

`ApprovedAsSeen` under loss. A decision does not name the pause it answers (`src/api.py:464`), so
a repeated Approve can approve the next pause unseen. Until an answer is lost it holds, through
restarts, expired sessions, abandoned pages and Try again, and with loss a visitor who never
approves still has no ticket (`NoClickNoTicket`). All three are proved for any number of pages.

`WritesWerePaused`. `gated_before_write` is to show that a refund paused before it wrote anything
(`evals/evaluators.py:96`), but applies only to examples that name the refund tool in
`expect_tools`. Neither example that expects a ticket does, so on those an agent without the gate
passes every check. `GradesAreHonest` has what holds: such an agent is blocked on the example that
must pause and write nothing.

### What the exceptions in the properties say

Some properties hold only with an exception, and the exception is part of the result.

- `GradesAreHonest`: a foreign read in a run that another exception than the guard's ends is not a
  blocking failure. A breach is to be counted whatever happens (`evals/target.py:12`), but
  `foreign_tenants` is set after the last turn, inside the `try` (`evals/target.py:125`), so such a
  run fails only as an error. Nor does the property say anything of a pause before a ticket an
  example expects (`WritesWerePaused`). It speaks of one example of each kind, with the flaws of
  `Flaws`.
- `PublishedArmsAgree`: not if the tree moved during one of the runs. Provenance is taken when a
  run ends (`evals/run.py:213`).
- `ADryArmNeverShips`: of the whole dataset. No reader of a result file asks whether it was dry;
  it is the failed refund examples that block, and a slice without them has none.
- `ThreadsHoldOneCustomer`, `NobodyIsSentAnothers`: not of a thread that Studio wrote, or, on a
  server without handlers, any direct client. Their identity is configuration.
- `AssistantsArePinned`: the default assistant runs as somebody only if no other assistant lacks
  a customer's name; the script defuses one of them.
- `AnswersAreBacked`: an "already filed" answer names a ticket of the same call, which after an
  edited approval may be about another line.

## 4. The proofs

All theorems hold for any sets of sessions, turns, conversations, calls, customers, threads,
names and copies, any limits and any number of days. They rest on the assumptions the modules
name: `LimitsAssumption` (limits are natural numbers), `IdentityAssumption` (a session has one
customer, `None` names nothing), `LossyAssumption`, `TicketsAssumption` (a call is of one tool and
has one caller), `CapAssumption` and `DatabaseAssumption` (caps are positive; every invoice has a
customer, every line an invoice and a track, as the schema's NOT NULL columns say),
`IdsAssumption` (the tables are finite and their keys integers, INTEGER PRIMARY KEY),
`YearsAssumption` (the years a caller sums over are finitely many and include every year something
was bought in; 0, which means any year, is none of them), `CustomersAssumption` (the two customers
of the examples differ), `ToolsAssumption`, `AssistantsAssumption` and `AgentServerAssumption` (principals are distinct),
`ExperimentAssumption`, `DatasetAssumption`.

Type correctness is proved of every module with variables that a proof needs it of (`BudgetTyped`,
`ApiTyped`, `ChatTyped`, `TicketsTyped`, `ToolsTyped`). TLC checks the first two, where a wrong
counter or binding would show; for the others the theorem says all that a run could.

`BudgetProofs`. The ledgers are not inductive alone: after a restart or a roll the books of a
day the counters reach must be empty. `BudgetInv` adds `FutureIsBlank` (nothing is booked after
the counters' day, which is never after the clock) and `TodayCapped`. One lemma per action, with
the counting of open charges factored out (`CountsAfterCharge`, `CountsAfterSettling`).

`SupportApiProofs`.

- `ServiceUsesBudget`: every step of the service is a budget step or leaves the budget alone.
  The budget's theorems are inherited through it.
- `ApiInvariant`: `ApiInv` is `BudgetInv` and what is known of turns. `LocksAreHeld` (the lock
  names exactly the turn inside) carries mutual exclusion; `ChecksStillHold` (what a turn read
  about its thread is still true when it invokes) carries the paused-thread guard, and is where
  the lock is needed; `PausesWait` and `ExecutedOnce` tie pending and executing calls to their
  fate; `RunsAreClean` (a run goes on only on an unpaused thread, and only behind an unanswered call
  if a message has gone past it) is what lets a new pause find its thread clean. `TurnsExclude`
  and `PausesAreNeverOrphaned` follow from it.
- `ServiceKeepsRefundPromise`: the refinement, step by step (`LifeStep`).
- `ThreadsArePrivate`: adds `BindingsAgree` (a bound conversation is owned by its session's
  customer) and `TurnsStayBound`.
- `RunsAreNeverFree`: `PaidInv` counts, per session, the turns in flight whose run has started;
  runs never exceed kept charges plus those, which never exceed open charges.

`ChatPageProofs`. `PagesUseTheService`: every step of a page is a step of the service or leaves
it alone, so `ApiInv` holds under the page (`Served`). `TicketsTakeAClick` needs little more
(`NobodyApproved`: while nobody has clicked, no request says approve and nothing is approved).
`ApprovalsAreSeen` and `PausesAreShown` take `PagesInv`, true until an answer is lost: a page that
waits does so for a turn of its own (`Awaits`); a page at rest on its own conversation shows the
pause it is in, and nothing runs there (`Rests`); a turn that approves is about calls the visitor
approved, and the slip of one that has answered is the pause (`TurnIsCovered`); two turns in flight
are never on one conversation (`TurnsAreAlone`: a page that was closed comes back on a new one);
and a conversation nobody has opened holds no pause (`UnopenedIsBlank`).

`TicketsProofs`. `OneTicketPerCall` is not inductive: `TicketsInv` adds that an attempt
between its INSERT and its close holds the lock (`WritersHoldTheLock`), that no committed row has
the key of a row waiting for its commit (`PendingRowsAreNew`), and that the tables hold every
ticket the ledger has from after the last reset (`TablesAgree`). The step is proved in three parts,
types, attempts and ledger. `TicketsKeepPromise` is the refinement: `Commit` is the promise's
`File`, `Reset` its `Clear`. `TheLockComesBack` is the other half of `WritersHoldTheLock`: whoever
has the lock is at work on its row. Liveness does not cover it, as an attempt that waits for a lock
nobody gives back times out and ends. `AttemptsMakeProgress` needs `RetriesAreCounted`; it and
the lock follow from what one step can be to an attempt (`OneAttemptMoves`).

`ToolsProofs`. Isolation is proved over how calls nest: a specialist runs only inside a delegating
call of the root agent (`SpecialistsAreInside`), and an agent with a call in progress is in its
tools node, waiting (`AskersWait`). What a result was made from is in the log the guard will read
(`ResultsAreLogged`), and unwatched logs belong to the outermost call (`ScopesAreOwn`).
`NoForeignResult` rests on the first, `SiblingsAreApart` on the second. `TrajectoriesAreComplete`
counts: `Unreported` has one pair for each call a specialist has asked for and its delegating call
has not handed back, and while the turn can still end normally what was nested is what is recorded
plus the pairs (`Accounted`). It stops being true only when a specialist raises, and then the
delegating call has raised too, so the turn fails (`TurnIsLost`). `NothingIsFree` is the safety half
of `EveryTurnEnds`: every agent has its limit left, every call its reads and retries
(`WithinBounds`), and each step uses some of that up and gives more only to those that work for
the one that paid, a call to its specialist or an agent to its calls.

`RepositoryProofs` is about what the queries return, for every database. The library's induction
theorems take a predicate, which the provers cannot instantiate, and a fold is defined by CHOOSE of
a recursive function. So induction is over the set of cases for which a claim holds, subsets of a
finite set or the numbers up to n: when no smallest case is missing from it, none is
(`SubsetInduction`, `CountUp`, from the library's well-founded orderings). `LoopExists` proves with it that the function a fold chooses exists, once for all loops,
and the rest works on what the loop has made after n rounds.

- `Ranking`: under a total order, counting what comes before numbers a finite set from 1 on, so
  `InOrder` is a list of all of it, sorted. `NewestFirst`, `MostBoughtLists`, `CatalogLists` are the
  three ORDER BYs.
- `Recommended`: one call of `take()` keeps a list `Sound` (nothing owned, nothing outside the
  profile, no artist twice, not too long), makes it `Covers` what it was given (whatever could not
  be added had its artist credited, or the list is full) and only appends (`Extends`); `TakePasses`
  and `TakeEachPasses` carry this through the two loops, and `PrefixCredit` through the order of
  artists and genres.
- `SummaryAgrees`: `IsSum` says what the sum over any set of invoices must be; it takes the members
  in any order (`SumTakesAny`), splits over disjoint sets (`SumSplits`), hence by years
  (`YearsAddUp`); the sort gives the newest and the oldest invoice (`ListEnds`).
- `AnswersAreTrue`, the invariant: the answer a caller still holds is what its query says of the
  database, which nothing changes. `ToolsProofs` adds that no step of an agent touches it:
  `RecommendationsCanBeTrusted`, `ReadsTellOneStory`, `RefundsFollowTheScreen`.

`AgentServerProofs` is about the server and the scripts acting at any time. `ServerInv`: on a
guarded server an unmeddled thread keeps the owner it was created with (`OwnersAreCreators`), and
a run on it is the owner's, as the owner (`RunsAreOwn`), which is why an authorization given when
a run is created is still good when it starts. `DataInv` says what a run of `setup_data.py` has
made sure of at each stage; `PinInv` which assistants the other script is past.

`EvalsProofs`. `PublishedArmsRanTheSame`: a run that the tree did not move under ran the tree
there is (`RunsKnowTheTree`), so a clean file names the commit it ran (`Truthful`), and commits
are only added. `UploadsSettle`: while nobody else writes, what an upload listed and created is
still there, and it listed a copy of every name (`CountsOn`); no id is on two copies.
`GradesTellTheTruth` follows a run to its end: until then only the flaw no guard sees has put
another customer in the log (`Unfinished`), then the outcome of a run that came to its end
names whose rows were read (`Finished`), and a run without a gate never paused (`NeverPaused`).
`DryArmsNeverShip`: a file's rows are those its own arguments produce (`DryInv`), and a dry run of
the whole dataset fails the example that must pause, which blocks (`DryRunsAreBlocked`).

Every invariant and action property of a passing run is a theorem, and so is every refinement.
Only model-checked is liveness: `EveryTurnSettles`, `EveryLockIsFreed`, `EveryAttemptEnds` and
`EveryTurnEnds` need fairness, that is ENABLED, which is out of the prover's reach.
`AttemptsGetNearer` and `StepsAreSpent` are the part of the last two that is proved: every step
uses something up. That this cannot go on for ever (agents and calls nest two deep) is an
argument of this text, and that a thread with work left takes its next step is the fairness
assumed.

## 5. What is left out, and why

- Tokens: a token is unissued, valid or expired. The HMAC and the encoding are not modelled.
- Prompts, context, settings, message utilities, the card's text, redaction: wording and constants.
- Judges: a model's prose, off by default, never in a pass count.
- Trace and slide scripts, the document `freeze_experiment.py` writes, presentational web code:
  one-shot output without a state of its own.
- `create_dataset` for a dataset that is not there: it counts as an empty one.
- The async variants of the hooks: the same bodies behind `await`.
- Token counts of nested activity, and the cost in words of a comparison.
- The late callback of a page that Switch customer closed (`web/src/app/page.tsx:40`): its 401
  can only close a page again, which a sign-in undoes.
- `messages_left` is computed before the run and may be stale when shown (`src/api.py:448`); the
  next charge corrects it. A turn that will be refused holds the day's last slot while it is in
  flight (`src/api.py:183`). Locks and bindings are never pruned (`src/api.py:223`), which is
  memory, and bounded per day by the conversation cap.

What could be added: the service and `Tickets` in one specification (today each takes the other's
part as one step), and the Agent Server's own pause and resume, which goes through Studio only.
