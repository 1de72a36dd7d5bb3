------------------------------ MODULE Tickets -------------------------------
(***************************************************************************)
(* The write path: the tools create_refund_request and escalate_to_human   *)
(* (src/agent/tools/support.py) over CustomerRepository (src/data/db.py)   *)
(* and the tables of support.db.  SupportApi takes a tool call in one step *)
(* (FileRefund, ToolDeclines); here it is the attempts it is made of.      *)
(*                                                                         *)
(* A call can be attempted again and again: by ToolRetryMiddleware after a *)
(* locked database, by a second delivery of the approval, by an operator   *)
(* who replays the thread, after a crash between the commit and the        *)
(* checkpoint.  Each attempt has a connection of its own, and one of them  *)
(* at a time can hold SQLite's write lock.                                 *)
(***************************************************************************)
EXTENDS Integers, FiniteSets

CONSTANTS
  Attempts,    \* connections at work: threads of ToolNode, in any process
  RefundCalls, HandoffCalls,  \* tool calls, by tool
  Customers,
  CallerOf,    \* the customer in the runtime context of a call
  Subjects,    \* invoice lines, or the summaries of handoffs
  LinesOf,     \* the subjects that are lines on a customer's invoices
  MaxRetries,  \* ToolRetryMiddleware(max_retries)
  HandoffBaseline,
  MaxResets,   \* bound: how often an operator resets the demo state
  None

Calls == RefundCalls \cup HandoffCalls

ASSUME TicketsAssumption ==
  /\ RefundCalls \cap HandoffCalls = {}
  /\ CallerOf \in [Calls -> Customers]
  /\ LinesOf \in [Customers -> SUBSET Subjects]
  /\ MaxRetries \in Nat
  /\ HandoffBaseline \in Nat
  /\ MaxResets \in Nat
  /\ None \notin Attempts \cup Calls \cup Subjects

VARIABLES
  rows,      \* the committed rows of refund_requests and handoff_requests
  sequence,  \* sqlite_sequence: the highest id each table has given out
  writer,    \* the attempt whose transaction holds the write lock
  attempt,   \* attempt[a]: the tool call a is executing
  resets,    \* how often the demo state was reset
  ledger,    \* an auditor's list: every ticket that was ever committed
  answers    \* tool messages naming a ticket that reached the checkpoint

ticketVars == <<rows, sequence, writer, attempt, resets, ledger, answers>>

Tables == {"refund_requests", "handoff_requests"}
TableOf(k) == IF k \in RefundCalls THEN "refund_requests" ELSE "handoff_requests"

Rows == [table : Tables, id : Nat, customer : Customers, about : Subjects, key : Calls]
Entries == [row : Rows, call : Calls, reset : Nat]
Answers == [call : Calls, about : Subjects, id : Nat,
            says : {"filed", "already filed"}]

\* row: the row the attempt inserted.
Places == {"idle", "checking", "inserting", "committing", "collided", "committed"}
AttemptStates == [at : Places, call : Calls \cup {None}, about : Subjects \cup {None},
                  tries : Nat, row : Rows \cup {None}]
IdleAttempt == [at |-> "idle", call |-> None, about |-> None, tries |-> 0, row |-> None]

TicketsTypeOK ==
  /\ rows \subseteq Rows
  /\ sequence \in [Tables -> Nat]
  /\ writer \in Attempts \cup {None}
  /\ attempt \in [Attempts -> AttemptStates]
  /\ resets \in 0 .. MaxResets
  /\ ledger \subseteq Entries
  /\ answers \subseteq Answers

TicketsInit ==
  /\ rows = {}
  /\ sequence = [t \in Tables |-> 0]
  /\ writer = None
  /\ attempt = [a \in Attempts |-> IdleAttempt]
  /\ resets = 0
  /\ ledger = {}
  /\ answers = {}

-----------------------------------------------------------------------------

Goes(a, place) == attempt' = [attempt EXCEPT ![a].at = place]

\* The attempt is over.  Its tool message names no ticket ("no purchase with
\* that line number", or the middleware's when it gives up).
Ends(a) == attempt' = [attempt EXCEPT ![a] = IdleAttempt] /\ UNCHANGED answers

\* It is over, and its message names a ticket.
Says(a, words, id) ==
  /\ attempt' = [attempt EXCEPT ![a] = IdleAttempt]
  /\ answers' = answers \cup {[call |-> attempt[a].call, about |-> attempt[a].about,
                               id |-> id, says |-> words]}

\* The tool is entered: for the first time or once more.  A reviewer may
\* have edited what the call is about; its id stays the same.
Enter(a, k, about) ==
  /\ attempt[a].at = "idle"
  /\ attempt' = [attempt EXCEPT ![a] = [IdleAttempt EXCEPT
                   !.at = "checking", !.call = k, !.about = about]]
  /\ UNCHANGED <<rows, sequence, writer, resets, ledger, answers>>

\* get_invoice_line: a line of somebody else is no line.
AnyLine(k, about) == TRUE
LineResolves(k, about) == about \in LinesOf[CallerOf[k]]

FindsLine(a) ==
  /\ attempt[a].at = "checking"
  /\ attempt[a].call \in RefundCalls
  /\ IF LineResolves(attempt[a].call, attempt[a].about)
       THEN Goes(a, "inserting") /\ UNCHANGED answers
       ELSE Ends(a)
  /\ UNCHANGED <<rows, sequence, writer, resets, ledger>>

\* escalate_to_human reads the profile for the rep's name, and needs none.
FindsRep(a) ==
  /\ attempt[a].at = "checking"
  /\ attempt[a].call \in HandoffCalls
  /\ Goes(a, "inserting")
  /\ UNCHANGED <<rows, sequence, writer, resets, ledger, answers>>

\* IdempotencyKey: thread and tool call, nothing of the attempt.
FreshKey(a) == a
Key(a) == attempt[a].call

\* AUTOINCREMENT counts on; no row of a table is past its counter.
NextId(t) == sequence[t] + 1

NewRow(a) == [table |-> TableOf(attempt[a].call), id |-> NextId(TableOf(attempt[a].call)),
              customer |-> CallerOf[attempt[a].call], about |-> attempt[a].about,
              key |-> Key(a)]

\* INSERT, with the UNIQUE constraint satisfied.  The row is not committed.
Insert(a) ==
  /\ attempt[a].at = "inserting"
  /\ writer = None
  /\ \A r \in rows : r.key # Key(a)
  /\ writer' = a
  /\ attempt' = [attempt EXCEPT ![a].at = "committing", ![a].row = NewRow(a)]
  /\ UNCHANGED <<rows, sequence, resets, ledger, answers>>

\* IntegrityError.  The transaction stays open, and with it the write lock.
LockDropped(a) == None
LockKept(a) == a

Collide(a) ==
  /\ attempt[a].at = "inserting"
  /\ writer = None
  /\ \E r \in rows : r.key = Key(a)
  /\ writer' = LockKept(a)
  /\ Goes(a, "collided")
  /\ UNCHANGED <<rows, sequence, resets, ledger, answers>>

\* The finally of support_connection gives the lock back.
LeftOpen(a) == UNCHANGED writer
Closes(a) == writer' = IF writer = a THEN None ELSE writer

\* _existing_request, _existing_handoff: the ticket the call collided with.
Existing(a) == {r \in rows : r.key = Key(a)}

ReadExisting(a) ==
  /\ attempt[a].at = "collided"
  /\ \E r \in Existing(a) : Says(a, "already filed", r.id)
  /\ Closes(a)
  /\ UNCHANGED <<rows, sequence, resets, ledger>>

\* The commit returns and the connection is closed, which by itself would
\* roll the row back.
CommitForgotten(a) ==
  /\ attempt[a].at = "committing"
  /\ Closes(a)
  /\ Goes(a, "committed")
  /\ UNCHANGED <<rows, sequence, resets, ledger, answers>>

Commit(a) ==
  LET row == attempt[a].row IN
  /\ attempt[a].at = "committing"
  /\ rows' = rows \cup {row}
  /\ sequence' = [sequence EXCEPT ![row.table] = row.id]
  /\ ledger' = ledger \cup {[row |-> row, call |-> attempt[a].call, reset |-> resets]}
  /\ Closes(a)
  /\ Goes(a, "committed")
  /\ UNCHANGED <<resets, answers>>

\* The tool's message, from the committed row.
Tell(a) ==
  /\ attempt[a].at = "committed"
  /\ Says(a, "filed", attempt[a].row.id)
  /\ UNCHANGED <<rows, sequence, writer, resets, ledger>>

(***************************************************************************)
(* sqlite3.OperationalError (locked past the connection's timeout, or an   *)
(* I/O error) at a read, the INSERT or the commit.  Nothing was committed; *)
(* the middleware enters the tool again, or gives up after MaxRetries.     *)
(***************************************************************************)
NotCounted(a) == attempt[a].tries
OneMore(a) == attempt[a].tries + 1
RetriesUsedUp(a) == attempt[a].tries >= MaxRetries

OperationalError(a) ==
  /\ attempt[a].at \in {"checking", "inserting", "committing", "collided"}
  /\ IF RetriesUsedUp(a)
       THEN Ends(a)
       ELSE /\ attempt' = [attempt EXCEPT ![a].at = "checking", ![a].row = None,
                                          ![a].tries = OneMore(a)]
            /\ UNCHANGED answers
  /\ Closes(a)
  /\ UNCHANGED <<rows, sequence, resets, ledger>>

\* The process of an attempt dies, between any two of its steps.
Crash(a) ==
  /\ attempt[a].at # "idle"
  /\ Ends(a)
  /\ Closes(a)
  /\ UNCHANGED <<rows, sequence, resets, ledger>>

(***************************************************************************)
(* scripts/reset_demo_state.py: the refunds, and on request the handoffs   *)
(* past the baseline, in one transaction.  The counter of a table that     *)
(* never had a row has no entry to update.                                 *)
(***************************************************************************)
Keep(t) == IF t = "refund_requests" THEN 0 ELSE HandoffBaseline

Reset(cleared) ==
  /\ resets < MaxResets
  /\ writer = None
  /\ rows' = {r \in rows : r.table \in cleared => r.id <= Keep(r.table)}
  /\ sequence' = [t \in Tables |-> IF t \in cleared /\ sequence[t] > 0 THEN Keep(t)
                                                                       ELSE sequence[t]]
  /\ resets' = resets + 1
  /\ UNCHANGED <<writer, attempt, ledger, answers>>

\* What the thread running an attempt does next.
Work(a) ==
  \/ FindsLine(a) \/ FindsRep(a)
  \/ Insert(a) \/ Collide(a) \/ ReadExisting(a) \/ Commit(a)
  \/ Tell(a) \/ OperationalError(a)

TicketsNext ==
  \/ \E a \in Attempts, k \in Calls, about \in Subjects : Enter(a, k, about)
  \/ \E a \in Attempts : Work(a) \/ Crash(a)
  \/ \E cleared \in {{"refund_requests"}, Tables} : Reset(cleared)

TicketsSpec == TicketsInit /\ [][TicketsNext]_ticketVars

\* A thread in a tool goes on: every wait for the lock ends in its timeout.
FairTicketsSpec == TicketsSpec /\ \A a \in Attempts : WF_ticketVars(Work(a))

-----------------------------------------------------------------------------

(***************************************************************************)
(* A call commits one ticket, however many attempts, deliveries, replays   *)
(* and crashes it goes through ("at most once per idempotency key"), until *)
(* an operator clears the tables.                                          *)
(***************************************************************************)
OneTicketPerCall ==
  \A x, y \in ledger : x.call = y.call /\ x.reset = y.reset => x = y

(***************************************************************************)
(* What the customer is told was written was written: an answer that names *)
(* a ticket names one committed for that very call, and "filed" one about  *)
(* that very line.  ("The claim in the reply has to have a row behind it", *)
(* tests/test_hitl_refunds.py.)                                            *)
(***************************************************************************)
AnswersAreBacked ==
  \A x \in answers :
    \E e \in ledger : /\ e.call = x.call /\ e.row.id = x.id
                      /\ x.says = "filed" => e.row.about = x.about

\* _existing_request finds the row it reads the fields of: neither another
\* attempt nor a reset can take it away after the IntegrityError.
CollisionFindsTicket ==
  \A a \in Attempts : attempt[a].at = "collided" => Existing(a) # {}

(***************************************************************************)
(* The write lock is never left behind: whoever has it is an attempt still *)
(* at work on its row, not one that failed, gave up, died or was answered. *)
(* The other attempts could only time out, and would: no liveness property *)
(* notices a database nobody can write to.                                 *)
(***************************************************************************)
LockIsGivenBack ==
  writer # None => attempt[writer].at \in {"committing", "collided"}

\* The steps ahead of an attempt, with all of its retries.
Ahead(a) ==
  IF attempt[a].at = "idle" THEN 0
  ELSE 4 * (MaxRetries - attempt[a].tries)
       + [checking |-> 4, inserting |-> 3, committing |-> 2, collided |-> 2,
          committed |-> 1][attempt[a].at]

(***************************************************************************)
(* Whatever happens to an attempt brings it nearer to its end, a retry     *)
(* too; and what the others do, contend, crash or reset, never sets it     *)
(* back.                                                                   *)
(***************************************************************************)
AttemptsGetNearer ==
  [][\A a \in Attempts :
       attempt[a].at # "idle" => attempt'[a] = attempt[a] \/ Ahead(a)' < Ahead(a)]_ticketVars

\* The abstract table: rows by call.  A handoff may be about anything.
OnFile == {[call |-> r.key, about |-> r.about] : r \in rows}
MayBeAbout(k) == IF k \in RefundCalls THEN LinesOf[CallerOf[k]] ELSE Subjects
Promise == INSTANCE TicketPromise
             WITH tickets <- OnFile, MayFile <- [k \in Calls |-> MayBeAbout(k)]

\* The write path implements TicketPromise: a ticket appears in one step, once
\* per call, and a refund ticket only about a line of its caller.
KeepsTicketPromise == Promise!TicketsSpec

\* Every tool execution comes to an answer or dies with its process, although
\* the attempts of other calls contend for the one write lock.
EveryAttemptEnds ==
  \A a \in Attempts : attempt[a].at # "idle" ~> attempt[a].at = "idle"
=============================================================================
