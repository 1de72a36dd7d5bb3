--------------------------- MODULE TicketsProofs ----------------------------
(***************************************************************************)
(* The write path for any number of attempts, calls and resets.            *)
(* TicketsInv is the inductive invariant: what the write lock protects,    *)
(* what an attempt knows of the row it is about to commit, and how the     *)
(* tables and the auditor's ledger agree.                                  *)
(***************************************************************************)
EXTENDS Tickets, TLAPS

\* An attempt at work executes some call, about a subject it may file about.
AttemptsAreAddressed ==
  \A a \in Attempts :
    /\ attempt[a].at # "idle" => attempt[a].call \in Calls /\ attempt[a].about \in Subjects
    /\ attempt[a].at \in {"inserting", "committing", "collided"}
         => attempt[a].about \in MayBeAbout(attempt[a].call)

\* Between its INSERT and the close of its connection an attempt is the writer.
WritersHoldTheLock ==
  \A a \in Attempts : attempt[a].at \in {"committing", "collided"} => writer = a

\* The row an attempt inserted is its call's.
RowsFitTheirCalls ==
  \A a \in Attempts : attempt[a].at \in {"committing", "committed"} =>
    /\ attempt[a].row \in Rows
    /\ attempt[a].row.key = attempt[a].call
    /\ attempt[a].row.about = attempt[a].about

\* An attempt is never retried more often than ToolRetryMiddleware allows.
RetriesAreCounted == \A a \in Attempts : attempt[a].tries <= MaxRetries

\* While an inserted row waits for its commit no other row has its key.
PendingRowsAreNew ==
  \A a \in Attempts : attempt[a].at = "committing" =>
    \A r \in rows : r.key # attempt[a].call

\* What an attempt is about to report is in the ledger.
CommittedIsRecorded ==
  \A a \in Attempts : attempt[a].at = "committed" =>
    \E e \in ledger : e.call = attempt[a].call /\ e.row = attempt[a].row

\* The tables hold recorded tickets, and all of those since the last reset.
TablesAgree ==
  /\ \A r \in rows : \E e \in ledger : e.row = r /\ e.call = r.key
  /\ \A e \in ledger : e.reset = resets => e.row \in rows /\ e.row.key = e.call
  /\ \A e \in ledger : e.reset <= resets

TicketsInv ==
  /\ TicketsTypeOK
  /\ AttemptsAreAddressed
  /\ WritersHoldTheLock
  /\ RowsFitTheirCalls
  /\ PendingRowsAreNew
  /\ CommittedIsRecorded
  /\ TablesAgree
  /\ CollisionFindsTicket
  /\ LockIsGivenBack
  /\ RetriesAreCounted
  /\ OneTicketPerCall
  /\ AnswersAreBacked

-----------------------------------------------------------------------------

\* The parts that speak of attempts, the lock and the table only.
AttemptParts ==
  /\ AttemptsAreAddressed
  /\ WritersHoldTheLock
  /\ RowsFitTheirCalls
  /\ PendingRowsAreNew
  /\ CollisionFindsTicket

\* The parts that speak of the ledger.
LedgerParts ==
  /\ CommittedIsRecorded
  /\ TablesAgree
  /\ OneTicketPerCall
  /\ AnswersAreBacked

\* The row an INSERT makes is a row of its table, with the call's key.
LEMMA NewRowIsARow ==
  ASSUME TicketsTypeOK, AttemptsAreAddressed, NEW a \in Attempts,
         attempt[a].at # "idle"
  PROVE  /\ NewRow(a) \in Rows
         /\ NewRow(a).key = attempt[a].call
         /\ NewRow(a).about = attempt[a].about
<1>1. attempt[a].call \in Calls /\ attempt[a].about \in Subjects
  BY DEF AttemptsAreAddressed
<1>2. TableOf(attempt[a].call) \in Tables
  BY DEF TableOf, Tables
<1>3. NextId(TableOf(attempt[a].call)) \in Nat
  BY <1>2 DEF NextId, TicketsTypeOK
<1>4. CallerOf[attempt[a].call] \in Customers
  BY <1>1, TicketsAssumption
<1> QED
  BY <1>1, <1>2, <1>3, <1>4 DEF NewRow, Rows, Key

\* Going to another place leaves the record of an attempt well-formed.
LEMMA GoesTyped ==
  ASSUME TicketsTypeOK, NEW a \in Attempts, NEW p \in Places, Goes(a, p)
  PROVE  attempt' \in [Attempts -> AttemptStates]
  BY DEF TicketsTypeOK, Goes, AttemptStates

\* So does coming to an answer, which is an answer about the call.
LEMMA SaysTyped ==
  ASSUME TicketsTypeOK, AttemptsAreAddressed, NEW a \in Attempts,
         attempt[a].at # "idle",
         NEW words \in {"filed", "already filed"},
         NEW id \in Nat, Says(a, words, id)
  PROVE  attempt' \in [Attempts -> AttemptStates] /\ answers' \subseteq Answers
<1>1. IdleAttempt \in AttemptStates
  BY DEF IdleAttempt, AttemptStates, Places
<1>2. attempt[a].call \in Calls /\ attempt[a].about \in Subjects
  BY DEF AttemptsAreAddressed
<1>3. attempt' \in [Attempts -> AttemptStates]
  BY <1>1 DEF Says, TicketsTypeOK
<1>4. [call |-> attempt[a].call, about |-> attempt[a].about, id |-> id, says |-> words]
        \in Answers
  BY <1>2 DEF Answers
<1> QED
  BY <1>3, <1>4 DEF Says, TicketsTypeOK

\* And coming to an end without a ticket to name.
LEMMA EndsTyped ==
  ASSUME TicketsTypeOK, NEW a \in Attempts, Ends(a)
  PROVE  attempt' \in [Attempts -> AttemptStates] /\ answers' \subseteq Answers
<1>1. IdleAttempt \in AttemptStates
  BY DEF IdleAttempt, AttemptStates, Places
<1> QED
  BY <1>1 DEF Ends, TicketsTypeOK

\* Giving the lock back leaves it to nobody, or to who had it.
LEMMA ClosesTyped ==
  ASSUME TicketsTypeOK, NEW a \in Attempts, Closes(a)
  PROVE  writer' \in Attempts \cup {None}
  BY DEF TicketsTypeOK, Closes

-----------------------------------------------------------------------------
(* One step *)

\* Every step keeps the types.
LEMMA TypeStep == TicketsInv /\ [TicketsNext]_ticketVars => TicketsTypeOK'
<1> SUFFICES ASSUME TicketsInv, [TicketsNext]_ticketVars PROVE TicketsTypeOK'
  OBVIOUS
<1> USE DEF TicketsInv
<1>1. ASSUME NEW a \in Attempts, NEW k \in Calls, NEW about \in Subjects, Enter(a, k, about)
      PROVE  TicketsTypeOK'
  <2>1. [IdleAttempt EXCEPT !.at = "checking", !.call = k, !.about = about] \in AttemptStates
    BY DEF IdleAttempt, AttemptStates, Places
  <2> QED
    BY <1>1, <2>1 DEF Enter, TicketsTypeOK
<1>2. ASSUME NEW a \in Attempts, FindsLine(a) PROVE TicketsTypeOK'
  <2>1. attempt' \in [Attempts -> AttemptStates] /\ answers' \subseteq Answers
    <3>1. CASE Goes(a, "inserting") /\ UNCHANGED answers
      BY <3>1, GoesTyped DEF Places, TicketsTypeOK
    <3>2. CASE Ends(a)
      BY <3>2, EndsTyped
    <3> QED
      BY <1>2, <3>1, <3>2 DEF FindsLine
  <2> QED
    BY <1>2, <2>1 DEF FindsLine, TicketsTypeOK
<1>3. ASSUME NEW a \in Attempts, FindsRep(a) PROVE TicketsTypeOK'
  <2>1. attempt' \in [Attempts -> AttemptStates]
    BY <1>3, GoesTyped DEF FindsRep, Places
  <2> QED
    BY <1>3, <2>1 DEF FindsRep, TicketsTypeOK
<1>4. ASSUME NEW a \in Attempts, Insert(a) PROVE TicketsTypeOK'
  <2>1. NewRow(a) \in Rows
    BY <1>4, NewRowIsARow DEF Insert
  <2>2. attempt' \in [Attempts -> AttemptStates]
    <3> DEFINE new == [attempt[a] EXCEPT !.at = "committing", !.row = NewRow(a)]
    <3>1. attempt \in [Attempts -> AttemptStates] /\ attempt[a] \in AttemptStates
      BY DEF TicketsTypeOK
    <3>2. new \in AttemptStates
      BY <2>1, <3>1 DEF AttemptStates, Places
    <3>3. attempt' = [attempt EXCEPT ![a] = new]
      BY <1>4 DEF Insert
    <3> QED
      BY <3>1, <3>2, <3>3
  <2> QED
    BY <1>4, <2>2 DEF Insert, TicketsTypeOK
<1>5. ASSUME NEW a \in Attempts, Collide(a) PROVE TicketsTypeOK'
  <2>1. attempt' \in [Attempts -> AttemptStates]
    BY <1>5, GoesTyped DEF Collide, Places
  <2> QED
    BY <1>5, <2>1 DEF Collide, LockKept, TicketsTypeOK
<1>6. ASSUME NEW a \in Attempts, ReadExisting(a) PROVE TicketsTypeOK'
  <2>1. PICK r \in Existing(a) : Says(a, "already filed", r.id)
    BY <1>6 DEF ReadExisting
  <2>2. r.id \in Nat
    BY <2>1 DEF Existing, TicketsTypeOK, Rows
  <2>3. attempt' \in [Attempts -> AttemptStates] /\ answers' \subseteq Answers
    BY <1>6, <2>1, <2>2, SaysTyped DEF ReadExisting
  <2>4. writer' \in Attempts \cup {None}
    BY <1>6, ClosesTyped DEF ReadExisting
  <2> QED
    BY <1>6, <2>3, <2>4 DEF ReadExisting, TicketsTypeOK
<1>7. ASSUME NEW a \in Attempts, Commit(a) PROVE TicketsTypeOK'
  <2>1. attempt[a].row \in Rows /\ attempt[a].call \in Calls
    BY <1>7 DEF Commit, RowsFitTheirCalls, AttemptsAreAddressed
  <2>2. [row |-> attempt[a].row, call |-> attempt[a].call, reset |-> resets] \in Entries
    BY <2>1 DEF Entries, TicketsTypeOK
  <2>3. sequence' \in [Tables -> Nat]
    BY <1>7, <2>1 DEF Commit, TicketsTypeOK, Rows
  <2>4. attempt' \in [Attempts -> AttemptStates]
    BY <1>7, GoesTyped DEF Commit, Places
  <2>5. writer' \in Attempts \cup {None}
    BY <1>7, ClosesTyped DEF Commit
  <2> QED
    BY <1>7, <2>1, <2>2, <2>3, <2>4, <2>5 DEF Commit, TicketsTypeOK
<1>8. ASSUME NEW a \in Attempts, Tell(a) PROVE TicketsTypeOK'
  <2>1. attempt[a].row.id \in Nat
    BY <1>8 DEF Tell, RowsFitTheirCalls, Rows
  <2>2. attempt' \in [Attempts -> AttemptStates] /\ answers' \subseteq Answers
    BY <1>8, <2>1, SaysTyped DEF Tell
  <2> QED
    BY <1>8, <2>2 DEF Tell, TicketsTypeOK
<1>9. ASSUME NEW a \in Attempts, OperationalError(a) PROVE TicketsTypeOK'
  <2>1. attempt' \in [Attempts -> AttemptStates] /\ answers' \subseteq Answers
    <3>1. CASE Ends(a)
      BY <3>1, EndsTyped
    <3>2. CASE /\ attempt' = [attempt EXCEPT ![a].at = "checking", ![a].row = None,
                                             ![a].tries = OneMore(a)]
               /\ UNCHANGED answers
      BY <3>2 DEF OneMore, TicketsTypeOK, AttemptStates, Places
    <3> QED
      BY <1>9, <3>1, <3>2 DEF OperationalError
  <2>2. writer' \in Attempts \cup {None}
    BY <1>9, ClosesTyped DEF OperationalError
  <2> QED
    BY <1>9, <2>1, <2>2 DEF OperationalError, TicketsTypeOK
<1>10. ASSUME NEW a \in Attempts, Crash(a) PROVE TicketsTypeOK'
  <2>1. attempt' \in [Attempts -> AttemptStates] /\ answers' \subseteq Answers
    BY <1>10, EndsTyped DEF Crash
  <2>2. writer' \in Attempts \cup {None}
    BY <1>10, ClosesTyped DEF Crash
  <2> QED
    BY <1>10, <2>1, <2>2 DEF Crash, TicketsTypeOK
<1>11. ASSUME NEW cleared \in {{"refund_requests"}, Tables}, Reset(cleared)
       PROVE  TicketsTypeOK'
  BY <1>11, TicketsAssumption DEF Reset, Keep, TicketsTypeOK
<1>12. CASE UNCHANGED ticketVars
  BY <1>12 DEF ticketVars, TicketsTypeOK
<1> QED
  BY <1>1, <1>2, <1>3, <1>4, <1>5, <1>6, <1>7, <1>8, <1>9, <1>10, <1>11, <1>12
  DEF TicketsNext, Work

(***************************************************************************)
(* An attempt that is over, or back at the start, knows nothing; the rows  *)
(* and the lock of the others are as they were.                            *)
(***************************************************************************)
LEMMA LeavingKeepsAttemptParts ==
  ASSUME TicketsInv, NEW a \in Attempts, Closes(a), rows' = rows,
         \A b \in Attempts \ {a} : attempt'[b] = attempt[b],
         \/ attempt'[a].at = "idle"
         \/ /\ attempt'[a].at = "checking"
            /\ attempt'[a].call \in Calls /\ attempt'[a].about \in Subjects
  PROVE  AttemptParts'
<1>1. AttemptsAreAddressed'
  BY DEF TicketsInv, AttemptsAreAddressed
<1>2. WritersHoldTheLock'
  BY DEF TicketsInv, WritersHoldTheLock, Closes
<1>3. RowsFitTheirCalls'
  BY DEF TicketsInv, RowsFitTheirCalls
<1>4. PendingRowsAreNew'
  BY DEF TicketsInv, PendingRowsAreNew
<1>5. CollisionFindsTicket'
  BY DEF TicketsInv, CollisionFindsTicket, Existing, Key
<1> QED
  BY <1>1, <1>2, <1>3, <1>4, <1>5 DEF AttemptParts

\* An attempt that is over is idle, every other one as it was.
LEMMA SaysLeaves ==
  ASSUME TicketsTypeOK, NEW a \in Attempts,
         Ends(a) \/ \E words, id : Says(a, words, id)
  PROVE  attempt'[a].at = "idle" /\ \A b \in Attempts \ {a} : attempt'[b] = attempt[b]
<1>1. attempt' = [attempt EXCEPT ![a] = IdleAttempt]
  BY DEF Ends, Says
<1> QED
  BY <1>1 DEF TicketsTypeOK, IdleAttempt

\* An attempt goes on to its INSERT about something it may file about.
LEMMA CheckedKeepsAttemptParts ==
  ASSUME TicketsTypeOK, AttemptParts, NEW a \in Attempts, attempt[a].at = "checking",
         Goes(a, "inserting"), UNCHANGED <<rows, writer>>,
         attempt[a].about \in MayBeAbout(attempt[a].call)
  PROVE  AttemptParts'
<1>1. /\ attempt'[a].at = "inserting" /\ attempt'[a].call = attempt[a].call
      /\ attempt'[a].about = attempt[a].about
      /\ \A b \in Attempts \ {a} : attempt'[b] = attempt[b]
  BY DEF Goes, TicketsTypeOK, AttemptStates
<1>2. AttemptsAreAddressed'
  BY <1>1 DEF AttemptParts, AttemptsAreAddressed, MayBeAbout
<1>3. WritersHoldTheLock' /\ RowsFitTheirCalls'
  BY <1>1 DEF AttemptParts, WritersHoldTheLock, RowsFitTheirCalls
<1>4. PendingRowsAreNew' /\ CollisionFindsTicket'
  BY <1>1 DEF AttemptParts, PendingRowsAreNew, CollisionFindsTicket, Existing, Key
<1> QED
  BY <1>2, <1>3, <1>4 DEF AttemptParts

\* Every step keeps what attempts know of the lock and the table.
LEMMA AttemptStep == TicketsInv /\ [TicketsNext]_ticketVars => AttemptParts'
<1> SUFFICES ASSUME TicketsInv, [TicketsNext]_ticketVars PROVE AttemptParts'
  OBVIOUS
<1>0. TicketsTypeOK /\ AttemptParts
  BY DEF TicketsInv, AttemptParts
<1>1. ASSUME NEW a \in Attempts, NEW k \in Calls, NEW about \in Subjects, Enter(a, k, about)
      PROVE  AttemptParts'
  BY <1>0, <1>1 DEF Enter, IdleAttempt, TicketsTypeOK, AttemptParts, AttemptsAreAddressed,
     WritersHoldTheLock, RowsFitTheirCalls, PendingRowsAreNew, CollisionFindsTicket,
     Existing, Key
<1>2. ASSUME NEW a \in Attempts, FindsLine(a) PROVE AttemptParts'
  <2>1. CASE LineResolves(attempt[a].call, attempt[a].about)
    <3>1. attempt[a].about \in MayBeAbout(attempt[a].call)
      BY <1>2, <2>1 DEF FindsLine, LineResolves, MayBeAbout
    <3> QED
      BY <1>0, <1>2, <2>1, <3>1, CheckedKeepsAttemptParts DEF FindsLine
  <2>2. CASE ~LineResolves(attempt[a].call, attempt[a].about)
    <3>1. Ends(a) /\ attempt[a].at = "checking"
      BY <1>2, <2>2 DEF FindsLine
    <3>2. attempt'[a].at = "idle" /\ \A b \in Attempts \ {a} : attempt'[b] = attempt[b]
      BY <1>0, <3>1, SaysLeaves
    <3> QED
      BY <1>0, <1>2, <3>1, <3>2 DEF FindsLine, AttemptParts, AttemptsAreAddressed,
         WritersHoldTheLock, RowsFitTheirCalls, PendingRowsAreNew, CollisionFindsTicket,
         Existing, Key
  <2> QED
    BY <2>1, <2>2
<1>3. ASSUME NEW a \in Attempts, FindsRep(a) PROVE AttemptParts'
  <2>1. attempt[a].call \notin RefundCalls
    BY <1>3, TicketsAssumption DEF FindsRep
  <2> QED
    <3>1. attempt[a].about \in MayBeAbout(attempt[a].call)
      BY <1>0, <1>3, <2>1 DEF FindsRep, AttemptParts, AttemptsAreAddressed, MayBeAbout
    <3> QED
      BY <1>0, <1>3, <3>1, CheckedKeepsAttemptParts DEF FindsRep
<1>4. ASSUME NEW a \in Attempts, Insert(a) PROVE AttemptParts'
  <2>1. /\ NewRow(a) \in Rows
        /\ NewRow(a).key = attempt[a].call
        /\ NewRow(a).about = attempt[a].about
    BY <1>0, <1>4, NewRowIsARow DEF Insert, AttemptParts
  <2>2. /\ attempt'[a].at = "committing" /\ attempt'[a].row = NewRow(a)
        /\ attempt'[a].call = attempt[a].call /\ attempt'[a].about = attempt[a].about
        /\ \A b \in Attempts \ {a} : attempt'[b] = attempt[b]
    BY <1>0, <1>4 DEF Insert, TicketsTypeOK, AttemptStates
  <2>3. \A b \in Attempts : attempt[b].at \notin {"committing", "collided"}
    BY <1>0, <1>4, TicketsAssumption DEF Insert, AttemptParts, WritersHoldTheLock
  <2>4. AttemptsAreAddressed' /\ WritersHoldTheLock' /\ RowsFitTheirCalls'
    <3>1. attempt[a].at = "inserting" /\ writer' = a
      BY <1>4 DEF Insert
    <3>2. AttemptsAreAddressed'
      BY <1>0, <2>2, <3>1 DEF AttemptParts, AttemptsAreAddressed, MayBeAbout
    <3>3. WritersHoldTheLock'
      BY <2>2, <2>3, <3>1 DEF WritersHoldTheLock
    <3>4. RowsFitTheirCalls'
      BY <1>0, <2>1, <2>2 DEF AttemptParts, RowsFitTheirCalls
    <3> QED
      BY <3>2, <3>3, <3>4
  <2>5. PendingRowsAreNew' /\ CollisionFindsTicket'
    BY <1>0, <1>4, <2>2, <2>3 DEF Insert, AttemptParts, PendingRowsAreNew,
       CollisionFindsTicket, Existing, Key
  <2> QED
    BY <2>4, <2>5 DEF AttemptParts
<1>5. ASSUME NEW a \in Attempts, Collide(a) PROVE AttemptParts'
  <2>1. /\ attempt'[a].at = "collided"
        /\ attempt'[a].call = attempt[a].call /\ attempt'[a].about = attempt[a].about
        /\ \A b \in Attempts \ {a} : attempt'[b] = attempt[b]
    BY <1>0, <1>5 DEF Collide, Goes, TicketsTypeOK, AttemptStates
  <2>2. \A b \in Attempts : attempt[b].at \notin {"committing", "collided"}
    BY <1>0, <1>5, TicketsAssumption DEF Collide, AttemptParts, WritersHoldTheLock
  <2>3. attempt[a].at = "inserting" /\ writer' = a /\ rows' = rows
    BY <1>5 DEF Collide, LockKept
  <2>4. AttemptsAreAddressed'
    BY <1>0, <2>1, <2>3 DEF AttemptParts, AttemptsAreAddressed, MayBeAbout
  <2>5. WritersHoldTheLock' /\ RowsFitTheirCalls'
    BY <1>0, <2>1, <2>2, <2>3 DEF AttemptParts, WritersHoldTheLock, RowsFitTheirCalls
  <2>6. PendingRowsAreNew' /\ CollisionFindsTicket'
    BY <1>0, <1>5, <2>1, <2>2, <2>3 DEF Collide, AttemptParts, PendingRowsAreNew,
       CollisionFindsTicket, Existing, Key
  <2> QED
    BY <2>4, <2>5, <2>6 DEF AttemptParts
<1>6. ASSUME NEW a \in Attempts, ReadExisting(a) PROVE AttemptParts'
  <2>1. PICK r \in Existing(a) : Says(a, "already filed", r.id)
    BY <1>6 DEF ReadExisting
  <2> QED
    BY <1>0, <1>6, <2>1, SaysLeaves, LeavingKeepsAttemptParts DEF ReadExisting
<1>7. ASSUME NEW a \in Attempts, Commit(a) PROVE AttemptParts'
  <2>1. /\ attempt'[a].at = "committed"
        /\ attempt'[a].call = attempt[a].call /\ attempt'[a].about = attempt[a].about
        /\ attempt'[a].row = attempt[a].row
        /\ \A b \in Attempts \ {a} : attempt'[b] = attempt[b]
    BY <1>0, <1>7 DEF Commit, Goes, TicketsTypeOK, AttemptStates
  <2>2. \A b \in Attempts \ {a} : attempt[b].at \notin {"committing", "collided"}
    BY <1>0, <1>7 DEF Commit, AttemptParts, WritersHoldTheLock
  <2> QED
    BY <1>0, <1>7, <2>1, <2>2 DEF Commit, AttemptParts, AttemptsAreAddressed,
       WritersHoldTheLock, RowsFitTheirCalls, PendingRowsAreNew, CollisionFindsTicket,
       Existing, Key
<1>8. ASSUME NEW a \in Attempts, Tell(a) PROVE AttemptParts'
  <2>1. attempt'[a].at = "idle" /\ \A b \in Attempts \ {a} : attempt'[b] = attempt[b]
    BY <1>0, <1>8, SaysLeaves DEF Tell
  <2> QED
    BY <1>0, <1>8, <2>1 DEF Tell, AttemptParts, AttemptsAreAddressed, WritersHoldTheLock,
       RowsFitTheirCalls, PendingRowsAreNew, CollisionFindsTicket, Existing, Key
<1>9. ASSUME NEW a \in Attempts, OperationalError(a) PROVE AttemptParts'
  <2>1. CASE Ends(a)
    BY <1>0, <1>9, <2>1, SaysLeaves, LeavingKeepsAttemptParts DEF OperationalError
  <2>2. CASE attempt' = [attempt EXCEPT ![a].at = "checking", ![a].row = None,
                                        ![a].tries = OneMore(a)]
    <3>1. /\ attempt'[a].at = "checking"
          /\ attempt'[a].call = attempt[a].call /\ attempt'[a].about = attempt[a].about
          /\ \A b \in Attempts \ {a} : attempt'[b] = attempt[b]
      BY <1>0, <2>2 DEF TicketsTypeOK, AttemptStates
    <3>2. attempt[a].call \in Calls /\ attempt[a].about \in Subjects
      BY <1>0, <1>9 DEF OperationalError, AttemptParts, AttemptsAreAddressed
    <3> QED
      BY <1>9, <3>1, <3>2, LeavingKeepsAttemptParts DEF OperationalError
  <2> QED
    BY <1>9, <2>1, <2>2 DEF OperationalError
<1>10. ASSUME NEW a \in Attempts, Crash(a) PROVE AttemptParts'
  <2>1. attempt'[a].at = "idle" /\ \A b \in Attempts \ {a} : attempt'[b] = attempt[b]
    BY <1>0, <1>10, SaysLeaves DEF Crash
  <2> QED
    BY <1>10, <2>1, LeavingKeepsAttemptParts DEF Crash
<1>11. ASSUME NEW cleared \in {{"refund_requests"}, Tables}, Reset(cleared)
       PROVE  AttemptParts'
  <2>1. \A b \in Attempts : attempt[b].at \notin {"committing", "collided"}
    BY <1>0, <1>11, TicketsAssumption DEF Reset, AttemptParts, WritersHoldTheLock
  <2> QED
    BY <1>0, <1>11, <2>1 DEF Reset, AttemptParts, AttemptsAreAddressed, WritersHoldTheLock,
       RowsFitTheirCalls, PendingRowsAreNew, CollisionFindsTicket, Existing, Key
<1>12. CASE UNCHANGED ticketVars
  BY <1>0, <1>12 DEF ticketVars, AttemptParts, AttemptsAreAddressed, WritersHoldTheLock,
     RowsFitTheirCalls, PendingRowsAreNew, CollisionFindsTicket, Existing, Key
<1> QED
  BY <1>1, <1>2, <1>3, <1>4, <1>5, <1>6, <1>7, <1>8, <1>9, <1>10, <1>11, <1>12
  DEF TicketsNext, Work

(***************************************************************************)
(* A step that commits nothing, clears nothing and has nothing more to     *)
(* tell keeps the ledger's parts if its new answers are backed.            *)
(***************************************************************************)
LEMMA QuietKeepsLedgerParts ==
  ASSUME TicketsInv, rows' = rows, ledger' = ledger, resets' = resets, AnswersAreBacked',
         \A b \in Attempts : attempt'[b].at = "committed" => attempt'[b] = attempt[b]
  PROVE  LedgerParts'
<1>1. CommittedIsRecorded'
  BY DEF TicketsInv, CommittedIsRecorded
<1>2. TablesAgree' /\ OneTicketPerCall'
  BY DEF TicketsInv, TablesAgree, OneTicketPerCall
<1> QED
  BY <1>1, <1>2 DEF LedgerParts

\* An answer is backed if the ledger has the ticket it names.
LEMMA SaysKeepsBacked ==
  ASSUME TicketsInv, NEW a \in Attempts, NEW words, NEW id, Says(a, words, id),
         ledger' = ledger,
         \E e \in ledger : /\ e.call = attempt[a].call /\ e.row.id = id
                           /\ words = "filed" => e.row.about = attempt[a].about
  PROVE  AnswersAreBacked'
<1> DEFINE new == [call |-> attempt[a].call, about |-> attempt[a].about,
                   id |-> id, says |-> words]
<1>1. answers' = answers \cup {new}
  BY DEF Says
<1>2. /\ new.call = attempt[a].call /\ new.about = attempt[a].about
      /\ new.id = id /\ new.says = words
  OBVIOUS
<1>3. AnswersAreBacked
  BY DEF TicketsInv
<1> HIDE DEF new
<1> QED
  BY <1>1, <1>2, <1>3 DEF AnswersAreBacked

\* Every step keeps the agreement of tables, ledger and answers.
LEMMA LedgerStep == TicketsInv /\ [TicketsNext]_ticketVars => LedgerParts'
<1> SUFFICES ASSUME TicketsInv, [TicketsNext]_ticketVars PROVE LedgerParts'
  OBVIOUS
<1>0. TicketsTypeOK /\ LedgerParts
  BY DEF TicketsInv, LedgerParts
<1>1. ASSUME NEW a \in Attempts, NEW k \in Calls, NEW about \in Subjects, Enter(a, k, about)
      PROVE  LedgerParts'
  <2>1. AnswersAreBacked'
    BY <1>0, <1>1 DEF Enter, LedgerParts, AnswersAreBacked
  <2>2. \A b \in Attempts : attempt'[b].at = "committed" => attempt'[b] = attempt[b]
    BY <1>0, <1>1 DEF Enter, TicketsTypeOK, IdleAttempt
  <2> QED
    BY <1>1, <2>1, <2>2, QuietKeepsLedgerParts DEF Enter
<1>2. ASSUME NEW a \in Attempts, FindsLine(a) PROVE LedgerParts'
  <2>1. AnswersAreBacked'
    BY <1>0, <1>2 DEF FindsLine, Ends, LedgerParts, AnswersAreBacked
  <2>2. \A b \in Attempts : attempt'[b].at = "committed" => attempt'[b] = attempt[b]
    <3>1. CASE Goes(a, "inserting")
      BY <1>0, <3>1 DEF Goes, TicketsTypeOK, AttemptStates
    <3>2. CASE Ends(a)
      BY <1>0, <3>2, SaysLeaves
    <3> QED
      BY <1>2, <3>1, <3>2 DEF FindsLine
  <2> QED
    BY <1>2, <2>1, <2>2, QuietKeepsLedgerParts DEF FindsLine
<1>3. ASSUME NEW a \in Attempts, FindsRep(a) \/ Insert(a) \/ Collide(a)
      PROVE  LedgerParts'
  <2>1. AnswersAreBacked'
    BY <1>0, <1>3 DEF FindsRep, Insert, Collide, LedgerParts, AnswersAreBacked
  <2>2. \A b \in Attempts : attempt'[b].at = "committed" => attempt'[b] = attempt[b]
    BY <1>0, <1>3 DEF FindsRep, Insert, Collide, Goes, TicketsTypeOK, AttemptStates
  <2> QED
    BY <1>3, <2>1, <2>2, QuietKeepsLedgerParts DEF FindsRep, Insert, Collide
<1>4. ASSUME NEW a \in Attempts, ReadExisting(a) PROVE LedgerParts'
  <2>1. PICK r \in rows : r.key = attempt[a].call /\ Says(a, "already filed", r.id)
    BY <1>4 DEF ReadExisting, Existing, Key
  <2>2. PICK e \in ledger : e.row = r /\ e.call = attempt[a].call
    BY <1>0, <2>1 DEF LedgerParts, TablesAgree
  <2>3. AnswersAreBacked'
    <3>1. /\ e.call = attempt[a].call /\ e.row.id = r.id
          /\ "already filed" = "filed" => e.row.about = attempt[a].about
      BY <2>2
    <3>2. ledger' = ledger
      BY <1>4 DEF ReadExisting
    <3> QED
      BY <2>1, <3>1, <3>2, SaysKeepsBacked
  <2>4. \A b \in Attempts : attempt'[b].at = "committed" => attempt'[b] = attempt[b]
    BY <1>0, <2>1, SaysLeaves
  <2> QED
    BY <1>4, <2>3, <2>4, QuietKeepsLedgerParts DEF ReadExisting
<1>5. ASSUME NEW a \in Attempts, Commit(a) PROVE LedgerParts'
  <2> DEFINE row == attempt[a].row
             e == [row |-> row, call |-> attempt[a].call, reset |-> resets]
  <2>1. /\ rows' = rows \cup {row} /\ ledger' = ledger \cup {e}
        /\ resets' = resets /\ answers' = answers /\ resets \in Nat
    BY <1>0, <1>5 DEF Commit, TicketsTypeOK
  <2>2. /\ e.row = row /\ e.call = attempt[a].call /\ e.reset = resets
        /\ row.key = attempt[a].call
    BY <1>5 DEF Commit, TicketsInv, RowsFitTheirCalls
  <2>3. \A r \in rows : r.key # attempt[a].call
    BY <1>5 DEF Commit, TicketsInv, PendingRowsAreNew
  <2>4. CommittedIsRecorded'
    <3>1. /\ attempt'[a].call = attempt[a].call /\ attempt'[a].row = row
          /\ \A b \in Attempts \ {a} : attempt'[b] = attempt[b]
      BY <1>0, <1>5 DEF Commit, Goes, TicketsTypeOK, AttemptStates
    <3> QED
      BY <1>0, <2>1, <2>2, <3>1 DEF LedgerParts, CommittedIsRecorded
  <2>5. TablesAgree'
    <3> HIDE DEF e, row
    <3> QED
      BY <1>0, <2>1, <2>2 DEF LedgerParts, TablesAgree
  <2>6. OneTicketPerCall'
    <3>1. \A y \in ledger : ~(y.call = e.call /\ y.reset = e.reset)
      <4> HIDE DEF e, row
      <4> QED
        BY <1>0, <2>2, <2>3 DEF LedgerParts, TablesAgree
    <3> HIDE DEF e, row
    <3> QED
      BY <1>0, <2>1, <3>1 DEF LedgerParts, OneTicketPerCall
  <2>7. AnswersAreBacked'
    BY <1>0, <2>1 DEF LedgerParts, AnswersAreBacked
  <2> QED
    BY <2>4, <2>5, <2>6, <2>7 DEF LedgerParts
<1>6. ASSUME NEW a \in Attempts, Tell(a) PROVE LedgerParts'
  <2>1. PICK e \in ledger : e.call = attempt[a].call /\ e.row = attempt[a].row
    BY <1>0, <1>6 DEF Tell, LedgerParts, CommittedIsRecorded
  <2>2. e.row.about = attempt[a].about
    BY <1>6, <2>1 DEF Tell, TicketsInv, RowsFitTheirCalls
  <2>3. AnswersAreBacked'
    <3>1. e.row.id = attempt[a].row.id
      BY <2>1
    <3> QED
      BY <1>6, <2>1, <2>2, <3>1, SaysKeepsBacked DEF Tell
  <2>4. \A b \in Attempts : attempt'[b].at = "committed" => attempt'[b] = attempt[b]
    BY <1>0, <1>6, SaysLeaves DEF Tell
  <2> QED
    BY <1>6, <2>3, <2>4, QuietKeepsLedgerParts DEF Tell
<1>7. ASSUME NEW a \in Attempts, OperationalError(a) PROVE LedgerParts'
  <2>1. AnswersAreBacked'
    BY <1>0, <1>7 DEF OperationalError, Ends, LedgerParts, AnswersAreBacked
  <2>2. \A b \in Attempts : attempt'[b].at = "committed" => attempt'[b] = attempt[b]
    <3>1. CASE attempt' = [attempt EXCEPT ![a].at = "checking", ![a].row = None,
                                          ![a].tries = OneMore(a)]
      BY <1>0, <3>1 DEF TicketsTypeOK, AttemptStates
    <3>2. CASE Ends(a)
      BY <1>0, <3>2, SaysLeaves
    <3> QED
      BY <1>7, <3>1, <3>2 DEF OperationalError
  <2> QED
    BY <1>7, <2>1, <2>2, QuietKeepsLedgerParts DEF OperationalError
<1>8. ASSUME NEW a \in Attempts, Crash(a) PROVE LedgerParts'
  <2>1. AnswersAreBacked'
    BY <1>0, <1>8 DEF Crash, Ends, LedgerParts, AnswersAreBacked
  <2>2. \A b \in Attempts : attempt'[b].at = "committed" => attempt'[b] = attempt[b]
    BY <1>0, <1>8, SaysLeaves DEF Crash
  <2> QED
    BY <1>8, <2>1, <2>2, QuietKeepsLedgerParts DEF Crash
<1>9. ASSUME NEW cleared \in {{"refund_requests"}, Tables}, Reset(cleared)
      PROVE  LedgerParts'
  <2>1. /\ rows' \subseteq rows /\ ledger' = ledger /\ resets' = resets + 1
        /\ resets \in Nat /\ attempt' = attempt /\ answers' = answers
    BY <1>0, <1>9 DEF Reset, TicketsTypeOK
  <2>2. \A e \in ledger : e.reset \in Nat
    BY <1>0 DEF TicketsTypeOK, Entries
  <2>3. TablesAgree'
    BY <1>0, <2>1, <2>2 DEF LedgerParts, TablesAgree
  <2> QED
    BY <1>0, <2>1, <2>3 DEF LedgerParts, CommittedIsRecorded, OneTicketPerCall,
       AnswersAreBacked
<1>10. CASE UNCHANGED ticketVars
  BY <1>0, <1>10 DEF ticketVars, LedgerParts, CommittedIsRecorded, TablesAgree,
     OneTicketPerCall, AnswersAreBacked
<1> QED
  BY <1>1, <1>2, <1>3, <1>4, <1>5, <1>6, <1>7, <1>8, <1>9, <1>10 DEF TicketsNext, Work

-----------------------------------------------------------------------------
(* The lock and the retries *)

\* What a step can be to an attempt: it is entered, it is over, it goes on
\* to its next place, or it is retried.
Starts(a) ==
  /\ attempt[a].at = "idle" /\ writer' = writer
  /\ attempt'[a].at = "checking" /\ attempt'[a].tries = 0
Stops(a) ==
  /\ attempt[a].at # "idle" /\ attempt'[a].at = "idle" /\ attempt'[a].tries = 0
  /\ Closes(a) \/ (writer' = writer /\ attempt[a].at \in {"checking", "committed"})
Advances(a) ==
  /\ attempt'[a].tries = attempt[a].tries
  /\ \/ /\ attempt[a].at = "checking" /\ attempt'[a].at = "inserting"
        /\ writer' = writer
     \/ /\ attempt[a].at = "inserting" /\ attempt'[a].at \in {"committing", "collided"}
        /\ writer = None /\ writer' = a
     \/ /\ attempt[a].at = "committing" /\ attempt'[a].at = "committed"
        /\ Closes(a)
Retries(a) ==
  /\ attempt[a].at \in {"checking", "inserting", "committing", "collided"}
  /\ attempt'[a].at = "checking" /\ attempt'[a].tries = attempt[a].tries + 1
  /\ attempt[a].tries < MaxRetries
  /\ Closes(a)

\* One step changes one attempt at most: what the others have is as it was.
LEMMA OneAttemptMoves ==
  ASSUME TicketsInv, [TicketsNext]_ticketVars
  PROVE  \/ UNCHANGED <<attempt, writer>>
         \/ \E a \in Attempts :
              /\ \A b \in Attempts \ {a} : attempt'[b] = attempt[b]
              /\ Starts(a) \/ Stops(a) \/ Advances(a) \/ Retries(a)
<1>0. /\ attempt \in [Attempts -> AttemptStates]
      /\ IdleAttempt.at = "idle" /\ IdleAttempt.tries = 0
  BY DEF TicketsInv, TicketsTypeOK, IdleAttempt
<1>1. ASSUME NEW a \in Attempts, NEW place, Goes(a, place)
      PROVE  /\ \A b \in Attempts \ {a} : attempt'[b] = attempt[b]
             /\ attempt'[a].at = place /\ attempt'[a].tries = attempt[a].tries
  BY <1>0, <1>1 DEF Goes, AttemptStates
<1>2. ASSUME NEW a \in Attempts, Ends(a) \/ \E words, id : Says(a, words, id)
      PROVE  /\ \A b \in Attempts \ {a} : attempt'[b] = attempt[b]
             /\ attempt'[a].at = "idle" /\ attempt'[a].tries = 0
  <2>1. attempt' = [attempt EXCEPT ![a] = IdleAttempt]
    BY <1>2 DEF Ends, Says
  <2> QED
    BY <1>0, <2>1
<1> DEFINE Moves(a) == /\ \A b \in Attempts \ {a} : attempt'[b] = attempt[b]
                       /\ Starts(a) \/ Stops(a) \/ Advances(a) \/ Retries(a)
<1>3. ASSUME NEW a \in Attempts, NEW k \in Calls, NEW about \in Subjects, Enter(a, k, about)
      PROVE  Moves(a)
  <2>1. attempt' = [attempt EXCEPT ![a] = [IdleAttempt EXCEPT
                      !.at = "checking", !.call = k, !.about = about]]
    BY <1>3 DEF Enter
  <2>2. attempt'[a].at = "checking" /\ attempt'[a].tries = 0
    BY <1>0, <2>1 DEF IdleAttempt
  <2>3. \A b \in Attempts \ {a} : attempt'[b] = attempt[b]
    BY <1>0, <2>1
  <2> QED
    BY <1>3, <2>2, <2>3 DEF Enter, Starts
<1>4. ASSUME NEW a \in Attempts, FindsLine(a) \/ FindsRep(a) PROVE Moves(a)
  <2>1. CASE Goes(a, "inserting")
    BY <1>1, <1>4, <2>1 DEF FindsLine, FindsRep, Advances
  <2>2. CASE Ends(a)
    <3>1. attempt[a].at = "checking" /\ writer' = writer
      BY <1>4 DEF FindsLine, FindsRep
    <3> QED
      BY <1>2, <2>2, <3>1 DEF Stops
  <2> QED
    BY <1>4, <2>1, <2>2 DEF FindsLine, FindsRep
<1>5. ASSUME NEW a \in Attempts, Insert(a) PROVE Moves(a)
  <2>1. attempt' = [attempt EXCEPT ![a] = [attempt[a] EXCEPT
                      !.at = "committing", !.row = NewRow(a)]]
    BY <1>0, <1>5 DEF Insert
  <2>2. attempt'[a].at = "committing" /\ attempt'[a].tries = attempt[a].tries
    BY <1>0, <2>1 DEF AttemptStates
  <2>3. \A b \in Attempts \ {a} : attempt'[b] = attempt[b]
    BY <1>0, <2>1
  <2> QED
    BY <1>5, <2>2, <2>3 DEF Insert, Advances
<1>6. ASSUME NEW a \in Attempts, Collide(a) PROVE Moves(a)
  BY <1>1, <1>6 DEF Collide, LockKept, Advances
<1>7. ASSUME NEW a \in Attempts, Commit(a) PROVE Moves(a)
  BY <1>1, <1>7 DEF Commit, Advances
<1>8. ASSUME NEW a \in Attempts, ReadExisting(a) \/ Tell(a) \/ Crash(a) PROVE Moves(a)
  <2>1. Ends(a) \/ \E words, id : Says(a, words, id)
    BY <1>8 DEF ReadExisting, Tell, Crash
  <2>2. /\ attempt[a].at # "idle"
        /\ Closes(a) \/ (writer' = writer /\ attempt[a].at = "committed")
    BY <1>8 DEF ReadExisting, Tell, Crash
  <2> QED
    BY <1>2, <2>1, <2>2 DEF Stops
<1>9. ASSUME NEW a \in Attempts, OperationalError(a) PROVE Moves(a)
  <2>0. /\ attempt[a].at \in {"checking", "inserting", "committing", "collided"}
        /\ Closes(a)
    BY <1>9 DEF OperationalError
  <2>1. CASE RetriesUsedUp(a)
    BY <1>2, <1>9, <2>0, <2>1 DEF OperationalError, Stops
  <2>2. CASE ~ RetriesUsedUp(a)
    <3>1. attempt' = [attempt EXCEPT ![a] = [attempt[a] EXCEPT
                        !.at = "checking", !.row = None, !.tries = OneMore(a)]]
      BY <1>0, <1>9, <2>2 DEF OperationalError
    <3>2. attempt'[a].at = "checking" /\ attempt'[a].tries = attempt[a].tries + 1
      BY <1>0, <3>1 DEF AttemptStates, OneMore
    <3>3. attempt[a].tries < MaxRetries
      BY <1>0, <2>2, TicketsAssumption DEF RetriesUsedUp, AttemptStates
    <3>4. \A b \in Attempts \ {a} : attempt'[b] = attempt[b]
      BY <1>0, <3>1
    <3> QED
      BY <2>0, <3>2, <3>3, <3>4 DEF Retries
  <2> QED
    BY <2>1, <2>2
<1>10. ASSUME NEW cleared, Reset(cleared) PROVE attempt' = attempt /\ writer' = writer
  BY <1>10 DEF Reset
<1>11. CASE UNCHANGED ticketVars
  BY <1>11 DEF ticketVars
<1> QED
  BY <1>3, <1>4, <1>5, <1>6, <1>7, <1>8, <1>9, <1>10, <1>11 DEF TicketsNext, Work

\* No step leaves the lock with an attempt that is through with its row: the
\* writer alone can move on, and it closes its connection when it does.
LEMMA LockStep == TicketsInv /\ [TicketsNext]_ticketVars => LockIsGivenBack'
<1> SUFFICES ASSUME TicketsInv, [TicketsNext]_ticketVars PROVE LockIsGivenBack'
  OBVIOUS
<1>1. /\ writer \in Attempts \cup {None} /\ None \notin Attempts
      /\ LockIsGivenBack /\ WritersHoldTheLock
  BY TicketsAssumption DEF TicketsInv, TicketsTypeOK
<1>2. CASE attempt' = attempt /\ writer' = writer
  BY <1>1, <1>2 DEF LockIsGivenBack
<1>3. ASSUME NEW a \in Attempts, \A b \in Attempts \ {a} : attempt'[b] = attempt[b],
             Starts(a) \/ Stops(a) \/ Advances(a) \/ Retries(a)
      PROVE  LockIsGivenBack'
  <2>1. CASE Starts(a)
    BY <1>1, <1>3, <2>1 DEF LockIsGivenBack, Starts
  <2>2. CASE Stops(a)
    BY <1>1, <1>3, <2>2 DEF LockIsGivenBack, Stops, Closes
  <2>3. CASE Advances(a)
    BY <1>1, <1>3, <2>3 DEF LockIsGivenBack, Advances, Closes
  <2>4. CASE Retries(a)
    BY <1>1, <1>3, <2>4 DEF LockIsGivenBack, Retries, Closes
  <2> QED
    BY <1>3, <2>1, <2>2, <2>3, <2>4
<1> QED
  BY <1>2, <1>3, OneAttemptMoves

\* No step takes an attempt past its retries.
LEMMA RetryStep == TicketsInv /\ [TicketsNext]_ticketVars => RetriesAreCounted'
<1> SUFFICES ASSUME TicketsInv, [TicketsNext]_ticketVars, NEW c \in Attempts
             PROVE  attempt'[c].tries <= MaxRetries
  BY DEF RetriesAreCounted
<1>1. /\ \A a \in Attempts : attempt[a].tries \in Nat /\ attempt[a].tries <= MaxRetries
      /\ MaxRetries \in Nat
  BY TicketsAssumption DEF TicketsInv, TicketsTypeOK, AttemptStates, RetriesAreCounted
<1>2. CASE attempt' = attempt
  BY <1>1, <1>2
<1>3. ASSUME NEW a \in Attempts, \A b \in Attempts \ {a} : attempt'[b] = attempt[b],
             Starts(a) \/ Stops(a) \/ Advances(a) \/ Retries(a)
      PROVE  attempt'[c].tries <= MaxRetries
  BY <1>1, <1>3 DEF Starts, Stops, Advances, Retries
<1> QED
  BY <1>2, <1>3, OneAttemptMoves

\* What is ahead of an attempt, place by place.
AheadByPlace(a) ==
  LET rest == 4 * (MaxRetries - attempt[a].tries) IN
  /\ attempt[a].at = "idle" => Ahead(a) = 0
  /\ attempt[a].at # "idle" => Ahead(a) \in rest + 1 .. rest + 4
  /\ attempt[a].at = "checking" => Ahead(a) = rest + 4
  /\ attempt[a].at = "inserting" => Ahead(a) = rest + 3
  /\ attempt[a].at \in {"committing", "collided"} => Ahead(a) = rest + 2
  /\ attempt[a].at = "committed" => Ahead(a) = rest + 1

AllAhead == \A a \in Attempts : AheadByPlace(a)

LEMMA AheadNow == TicketsTypeOK => AllAhead
<1> SUFFICES ASSUME TicketsTypeOK, NEW a \in Attempts PROVE AheadByPlace(a)
  BY DEF AllAhead
<1>1. attempt[a].at \in Places /\ attempt[a].tries \in Nat /\ MaxRetries \in Nat
  BY TicketsAssumption DEF TicketsTypeOK, AttemptStates
<1> QED
  BY <1>1 DEF Ahead, AheadByPlace, Places

LEMMA AheadNext == TicketsTypeOK' => AllAhead'
  BY AheadNow, PTL

\* Every step of an attempt at work brings it nearer to its end.
LEMMA NearerStep ==
  ASSUME TicketsInv, TicketsInv', [TicketsNext]_ticketVars, NEW c \in Attempts,
         attempt[c].at # "idle"
  PROVE  attempt'[c] = attempt[c] \/ Ahead(c)' < Ahead(c)
<1>1. /\ attempt[c].tries \in Nat /\ attempt'[c].tries \in Nat /\ MaxRetries \in Nat
      /\ attempt[c].tries <= MaxRetries /\ attempt'[c].tries <= MaxRetries
      /\ TicketsTypeOK /\ TicketsTypeOK'
  BY TicketsAssumption DEF TicketsInv, TicketsTypeOK, AttemptStates, RetriesAreCounted
<1>0. AheadByPlace(c) /\ AheadByPlace(c)'
  BY <1>1, AheadNow, AheadNext DEF AllAhead
<1>2. ASSUME NEW a \in Attempts, \A b \in Attempts \ {a} : attempt'[b] = attempt[b],
             Starts(a) \/ Stops(a) \/ Advances(a) \/ Retries(a)
      PROVE  attempt'[c] = attempt[c] \/ Ahead(c)' < Ahead(c)
  <2>1. CASE a # c
    BY <1>2, <2>1
  <2>2. CASE a = c
    <3>1. CASE Starts(a)
      BY <2>2, <3>1 DEF Starts
    <3>2. CASE Stops(a)
      <4>1. Ahead(c)' = 0
        BY <1>1, <2>2, <3>2, <1>0 DEF AheadByPlace, Stops
      <4>2. Ahead(c) > 0
        BY <1>0, <1>1 DEF AheadByPlace
      <4> QED
        BY <4>1, <4>2
    <3>3. CASE Advances(a)
      <4>1. attempt[c].at \in {"checking", "inserting", "committing"}
        BY <2>2, <3>3 DEF Advances
      <4>2. attempt[c].at = "checking" => Ahead(c)' < Ahead(c)
        BY <1>1, <2>2, <3>3, <1>0 DEF AheadByPlace, Advances
      <4>3. attempt[c].at = "inserting" => Ahead(c)' < Ahead(c)
        BY <1>1, <2>2, <3>3, <1>0 DEF AheadByPlace, Advances
      <4>4. attempt[c].at = "committing" => Ahead(c)' < Ahead(c)
        BY <1>1, <2>2, <3>3, <1>0 DEF AheadByPlace, Advances
      <4> QED
        BY <4>1, <4>2, <4>3, <4>4
    <3>4. CASE Retries(a)
      <4>1. Ahead(c)' = 4 * (MaxRetries - attempt[c].tries)
        BY <1>1, <2>2, <3>4, <1>0 DEF AheadByPlace, Retries
      <4>2. Ahead(c) > 4 * (MaxRetries - attempt[c].tries)
        BY <1>0, <1>1 DEF AheadByPlace
      <4> QED
        BY <4>1, <4>2
    <3> QED
      BY <1>2, <3>1, <3>2, <3>3, <3>4
  <2> QED
    BY <2>1, <2>2
<1> QED
  BY <1>2, OneAttemptMoves

-----------------------------------------------------------------------------
(* The theorems *)

\* TicketsInv is an invariant of the write path.
THEOREM TicketsAreSafe == TicketsSpec => []TicketsInv
<1>1. TicketsInit => TicketsInv
  BY TicketsAssumption DEF TicketsInit, IdleAttempt, TicketsInv, TicketsTypeOK, AttemptStates,
     Places, AttemptsAreAddressed, WritersHoldTheLock, RowsFitTheirCalls, PendingRowsAreNew,
     CommittedIsRecorded, TablesAgree, CollisionFindsTicket, LockIsGivenBack,
     RetriesAreCounted, OneTicketPerCall, AnswersAreBacked
<1>2. TicketsInv /\ [TicketsNext]_ticketVars => TicketsInv'
  BY TypeStep, AttemptStep, LedgerStep, LockStep, RetryStep DEF TicketsInv, AttemptParts, LedgerParts
<1> QED
  BY <1>1, <1>2, PTL DEF TicketsSpec

\* Type correctness of the write path.
THEOREM TicketsTyped == TicketsSpec => []TicketsTypeOK
<1>1. TicketsInv => TicketsTypeOK
  BY DEF TicketsInv
<1> QED
  BY <1>1, TicketsAreSafe, PTL

\* A call commits at most one ticket between two resets, whatever is retried,
\* delivered twice, replayed or interrupted (the UNIQUE key of setup_data.py).
THEOREM CallsFileOnce == TicketsSpec => []OneTicketPerCall
<1>1. TicketsInv => OneTicketPerCall
  BY DEF TicketsInv
<1> QED
  BY <1>1, TicketsAreSafe, PTL

\* An answer that names a ticket names one that was committed for its call.
THEOREM NoAnswerIsInvented == TicketsSpec => []AnswersAreBacked
<1>1. TicketsInv => AnswersAreBacked
  BY DEF TicketsInv
<1> QED
  BY <1>1, TicketsAreSafe, PTL

\* _existing_request always finds its row.
THEOREM CollisionsFindTickets == TicketsSpec => []CollisionFindsTicket
<1>1. TicketsInv => CollisionFindsTicket
  BY DEF TicketsInv
<1> QED
  BY <1>1, TicketsAreSafe, PTL

\* Nobody is left with the write lock, whatever fails, dies or gives up: the
\* finally of support_connection closes after every way out of an attempt.
THEOREM TheLockComesBack == TicketsSpec => []LockIsGivenBack
<1>1. TicketsInv => LockIsGivenBack
  BY DEF TicketsInv
<1> QED
  BY <1>1, TicketsAreSafe, PTL

\* An attempt only ever comes nearer to its end, for any number of retries
\* and whatever the other attempts do meanwhile.
THEOREM AttemptsMakeProgress == TicketsSpec => AttemptsGetNearer
<1>1. TicketsInv /\ TicketsInv' /\ [TicketsNext]_ticketVars
      => [\A a \in Attempts :
            attempt[a].at # "idle" => attempt'[a] = attempt[a] \/ Ahead(a)' < Ahead(a)]_ticketVars
  BY NearerStep
<1> QED
  BY <1>1, TicketsAreSafe, PTL DEF TicketsSpec, AttemptsGetNearer

\* The write path implements TicketPromise: a commit is the promise's File, a
\* reset its Clear, and every other step leaves the tickets on file alone.
THEOREM TicketsKeepPromise == TicketsSpec => KeepsTicketPromise
<1>1. TicketsInit => Promise!TicketsInit
  BY DEF TicketsInit, Promise!TicketsInit, OnFile
<1>2. TicketsInv /\ [TicketsNext]_ticketVars => [Promise!TicketsNext]_OnFile
  <2> SUFFICES ASSUME TicketsInv, [TicketsNext]_ticketVars
               PROVE  [Promise!TicketsNext]_OnFile
    OBVIOUS
  <2>1. ASSUME NEW a \in Attempts, Commit(a) PROVE Promise!TicketsNext
    <3> DEFINE k == attempt[a].call
               about == attempt[a].about
    <3>1. /\ k \in Calls /\ about \in MayBeAbout(k)
          /\ attempt[a].row.key = k /\ attempt[a].row.about = about
          /\ \A r \in rows : r.key # k
      BY <2>1 DEF Commit, TicketsInv, AttemptsAreAddressed, RowsFitTheirCalls,
         PendingRowsAreNew
    <3>2. OnFile' = OnFile \cup {[call |-> k, about |-> about]}
      BY <2>1, <3>1 DEF Commit, OnFile
    <3>3. ~Promise!HasTicket(k)
      BY <3>1 DEF Promise!HasTicket, OnFile
    <3>4. Promise!File(k, about)
      BY <3>2, <3>3 DEF Promise!File
    <3> QED
      BY <3>1, <3>4 DEF Promise!TicketsNext
  <2>2. ASSUME NEW cleared \in {{"refund_requests"}, Tables}, Reset(cleared)
        PROVE  Promise!TicketsNext
    <3>1. rows' \subseteq rows
      BY <2>2 DEF Reset
    <3>2. OnFile' \subseteq OnFile
      BY <3>1 DEF OnFile
    <3> QED
      BY <3>2 DEF Promise!TicketsNext, Promise!Clear
  <2>3. CASE rows' = rows
    BY <2>3 DEF OnFile
  <2>4. ASSUME NEW a \in Attempts,
               \/ \E k \in Calls, about \in Subjects : Enter(a, k, about)
               \/ FindsLine(a) \/ FindsRep(a) \/ Insert(a) \/ Collide(a)
               \/ ReadExisting(a) \/ Tell(a) \/ OperationalError(a) \/ Crash(a)
        PROVE  rows' = rows
    BY <2>4 DEF Enter, FindsLine, FindsRep, Insert, Collide, ReadExisting, Tell,
       OperationalError, Crash
  <2> QED
    BY <2>1, <2>2, <2>3, <2>4 DEF TicketsNext, Work, ticketVars
<1> QED
  BY <1>1, <1>2, TicketsAreSafe, PTL DEF TicketsSpec, KeepsTicketPromise, Promise!TicketsSpec
=============================================================================
