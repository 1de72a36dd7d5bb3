------------------------------- MODULE Budget -------------------------------
(***************************************************************************)
(* The turn quota of the public API: class Budget of src/api.py, with the  *)
(* discipline its only caller follows (a turn is charged, and later either *)
(* kept or, when it was refused before the model ran, refunded).           *)
(*                                                                         *)
(* The counters of the code are day, bySession, today and conversations;   *)
(* clock is the UTC date the code reads.  open, keptBy, keptOn, late and   *)
(* opened are the books an auditor would keep beside them: which charges   *)
(* are still undecided, how many were kept, by whom and for which day, how *)
(* often a refund was taken from a day that never saw the charge, and how  *)
(* many conversations each day admitted.                                   *)
(***************************************************************************)
EXTENDS Integers, FiniteSets

CONSTANTS
  Sessions,             \* session ids a token can carry
  Turns,                \* names for turns in flight (worker threads)
  PerSession,           \* SESSION_MESSAGE_LIMIT
  PerDay,               \* DAILY_MESSAGE_LIMIT
  ConversationsPerDay,  \* 2 * PerDay in create_app
  LastDay               \* bound: the clock stops at this day

ASSUME LimitsAssumption ==
  /\ PerSession \in Nat
  /\ PerDay \in Nat
  /\ ConversationsPerDay \in Nat
  /\ LastDay \in Nat \ {0}

Days   == 1 .. LastDay
NoDay  == 0              \* _day = "" of a fresh process
Charges == [turn : Turns, session : Sessions, day : Days]

VARIABLES
  clock,          \* today's UTC date
  day,            \* _day: the day the two daily counters belong to
  bySession,      \* _by_session
  today,          \* _today
  conversations,  \* _conversations
  open,           \* charges whose turn is still in flight
  keptBy,         \* keptBy[s]: turns of s that were charged and not refunded
  keptOn,         \* keptOn[d]: turns charged on day d and not refunded
  late,           \* late[d]: decrements of d's counter for an earlier day's turn
  opened          \* opened[d]: conversations admitted on day d

counters   == <<day, bySession, today, conversations>>
ledger     == <<open, keptBy, keptOn, late, opened>>
budgetVars == <<clock, counters, ledger>>

OpenBy(s) == {o \in open : o.session = s}
OpenOn(d) == {o \in open : o.day = d}

BudgetTypeOK ==
  /\ clock \in Days
  /\ day \in Days \cup {NoDay}
  /\ bySession \in [Sessions -> Nat]
  /\ today \in Nat
  /\ conversations \in Nat
  /\ open \subseteq Charges
  /\ IsFiniteSet(open)
  /\ keptBy \in [Sessions -> Nat]
  /\ keptOn \in [Days -> Nat]
  /\ late \in [Days -> Nat]
  /\ opened \in [Days -> Nat]

-----------------------------------------------------------------------------

\* Every counter of a process that has just started, and its empty books.
Zero(S) == [x \in S |-> 0]

BudgetInit ==
  /\ clock = 1
  /\ day = NoDay
  /\ bySession = Zero(Sessions)
  /\ today = 0
  /\ conversations = 0
  /\ open = {}
  /\ keptBy = Zero(Sessions)
  /\ keptOn = Zero(Days)
  /\ late = Zero(Days)
  /\ opened = Zero(Days)

\* Midnight UTC passes.
Midnight ==
  /\ clock < LastDay
  /\ clock' = clock + 1
  /\ UNCHANGED <<counters, ledger>>

(***************************************************************************)
(* _roll_day: a daily counter as every operation that rolls first sees it. *)
(* A new date zeroes the daily counters; the session counters stay.        *)
(***************************************************************************)
NeverRolled(n) == n
Rolled(n) == IF day = clock THEN n ELSE 0

OneTooManyForSession(s) == bySession[s] > PerSession
SessionFull(s) == bySession[s] >= PerSession

OneTooManyForDay == Rolled(today) > PerDay
DayFull == Rolled(today) >= PerDay

OneTooManyConversations == Rolled(conversations) > ConversationsPerDay
ConversationsFull == Rolled(conversations) >= ConversationsPerDay

\* charge() succeeds: one turn for the session and one for the day.
Charge(t, s) ==
  /\ \A o \in open : o.turn # t
  /\ ~SessionFull(s)
  /\ ~DayFull
  /\ day' = clock
  /\ bySession' = [bySession EXCEPT ![s] = @ + 1]
  /\ today' = Rolled(today) + 1
  /\ conversations' = Rolled(conversations)
  /\ open' = open \cup {[turn |-> t, session |-> s, day |-> clock]}
  /\ UNCHANGED <<clock, keptBy, keptOn, late, opened>>

\* charge() raises LimitExceeded; rolling the day came first.
ChargeRefused(s) ==
  /\ SessionFull(s) \/ DayFull
  /\ day' = clock
  /\ today' = Rolled(today)
  /\ conversations' = Rolled(conversations)
  /\ UNCHANGED <<clock, bySession, ledger>>

(***************************************************************************)
(* refund(): gives the turn back to its session and to whatever day the    *)
(* counters are on now.  It does not roll the day first, and it does not   *)
(* know which day the turn was charged on.                                 *)
(***************************************************************************)
Unclamped(n) == n - 1
OneLess(n) == IF n = 0 THEN 0 ELSE n - 1

Refund(o) ==
  /\ o \in open
  /\ bySession' = [bySession EXCEPT ![o.session] = OneLess(@)]
  /\ today' = OneLess(today)
  /\ late' = [late EXCEPT ![day] = IF o.day # day /\ today > 0 THEN @ + 1 ELSE @]
  /\ open' = open \ {o}
  /\ UNCHANGED <<clock, day, conversations, keptBy, keptOn, opened>>

\* The turn ran, or failed with a 503: its charge stands.
Keep(o) ==
  /\ o \in open
  /\ open' = open \ {o}
  /\ keptBy' = [keptBy EXCEPT ![o.session] = @ + 1]
  /\ keptOn' = [keptOn EXCEPT ![o.day] = @ + 1]
  /\ UNCHANGED <<clock, counters, late, opened>>

\* open_conversation() admits one more conversation today.
OpenConversation ==
  /\ ~ConversationsFull
  /\ day' = clock
  /\ today' = Rolled(today)
  /\ conversations' = Rolled(conversations) + 1
  /\ opened' = [opened EXCEPT ![clock] = @ + 1]
  /\ UNCHANGED <<clock, bySession, open, keptBy, keptOn, late>>

\* open_conversation() raises LimitExceeded.
ConversationRefused ==
  /\ ConversationsFull
  /\ day' = clock
  /\ today' = Rolled(today)
  /\ conversations' = Rolled(conversations)
  /\ UNCHANGED <<clock, bySession, ledger>>

\* The process dies: the counters and the turns in flight go with it.
BudgetRestart ==
  /\ day' = NoDay
  /\ bySession' = Zero(Sessions)
  /\ today' = 0
  /\ conversations' = 0
  /\ open' = {}
  /\ keptBy' = Zero(Sessions)
  /\ keptOn' = Zero(Days)
  /\ late' = Zero(Days)
  /\ opened' = Zero(Days)
  /\ UNCHANGED clock

BudgetNext ==
  \/ Midnight
  \/ \E t \in Turns, s \in Sessions : Charge(t, s)
  \/ \E s \in Sessions : ChargeRefused(s)
  \/ \E o \in open : Refund(o)
  \/ \E o \in open : Keep(o)
  \/ OpenConversation
  \/ ConversationRefused
  \/ BudgetRestart

BudgetSpec == BudgetInit /\ [][BudgetNext]_budgetVars

-----------------------------------------------------------------------------

(***************************************************************************)
(* A session's counter is exactly its kept turns plus its turns in flight, *)
(* across midnights and refunds, so no interleaving of charges and refunds *)
(* lets a session past its limit or loses it a turn.                       *)
(***************************************************************************)
SessionLedger ==
  \A s \in Sessions :
    /\ bySession[s] = keptBy[s] + Cardinality(OpenBy(s))
    /\ bySession[s] <= PerSession

(***************************************************************************)
(* The daily counter never overstates the day it belongs to (a visitor is  *)
(* never refused for turns nobody took), and understates it by no more     *)
(* than the refunds that were taken from it for an earlier day's turns.    *)
(***************************************************************************)
DayLedger ==
  day # NoDay =>
    LET turns == keptOn[day] + Cardinality(OpenOn(day))
    IN  /\ today <= turns
        /\ turns <= today + late[day]

(***************************************************************************)
(* No day takes more turns than its limit, but for one more per late       *)
(* refund: the exact strength of the daily cap the code has.               *)
(***************************************************************************)
DailyCapUpToLateRefunds ==
  \A d \in Days : keptOn[d] + Cardinality(OpenOn(d)) <= PerDay + late[d]

\* No day admits more conversations than conversations_per_day.
ConversationCap ==
  /\ \A d \in Days : opened[d] <= ConversationsPerDay
  /\ day # NoDay => conversations = opened[day]

(***************************************************************************)
(* The cap as ADR-025 states it: "500 per UTC day", refused turns given    *)
(* back.  A turn charged before midnight and refused after another visitor *)
(* has rolled the day over breaks it.                                      *)
(***************************************************************************)
DailyCap == \A d \in Days : keptOn[d] <= PerDay
=============================================================================
