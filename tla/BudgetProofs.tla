---------------------------- MODULE BudgetProofs ----------------------------
(***************************************************************************)
(* The budget's properties for any number of sessions, turns, days and     *)
(* limits.  The ledgers are not inductive alone: BudgetInv adds that the   *)
(* books of the days the counters have not reached are empty.              *)
(***************************************************************************)
EXTENDS Budget, FiniteSetTheorems, TLAPS

\* The day of the counters is never ahead of the clock, and nothing was ever
\* charged, kept, refunded late or opened on a day after it.
FutureIsBlank ==
  /\ day <= clock
  /\ \A o \in open : o.day <= day
  /\ \A d \in Days : d > day => keptOn[d] = 0 /\ late[d] = 0 /\ opened[d] = 0

\* The daily counter respects the limit on its own day.
TodayCapped == day # NoDay => today <= PerDay

BudgetInv ==
  /\ BudgetTypeOK
  /\ SessionLedger
  /\ FutureIsBlank
  /\ DayLedger
  /\ TodayCapped
  /\ DailyCapUpToLateRefunds
  /\ ConversationCap

-----------------------------------------------------------------------------
(* Counting charges *)

\* The counts the ledgers speak of are natural numbers.
LEMMA Counts ==
  ASSUME IsFiniteSet(open)
  PROVE  /\ \A s : IsFiniteSet(OpenBy(s)) /\ Cardinality(OpenBy(s)) \in Nat
         /\ \A d : IsFiniteSet(OpenOn(d)) /\ Cardinality(OpenOn(d)) \in Nat
         /\ \A d : (\A o \in open : o.day # d) => Cardinality(OpenOn(d)) = 0
<1>1. \A s : OpenBy(s) \in SUBSET open
  BY DEF OpenBy
<1>2. \A d : OpenOn(d) \in SUBSET open
  BY DEF OpenOn
<1>3. \A d : (\A o \in open : o.day # d) => OpenOn(d) = {}
  BY DEF OpenOn
<1> QED BY <1>1, <1>2, <1>3, FS_Subset, FS_CardinalityType, FS_EmptySet

\* How the counts move when a charge x is made, and when it is settled.
LEMMA CountsAfterCharge ==
  ASSUME NEW x, IsFiniteSet(open), x \notin open, open' = open \cup {x}
  PROVE  /\ \A s : Cardinality(OpenBy(s)') =
                     Cardinality(OpenBy(s)) + IF x.session = s THEN 1 ELSE 0
         /\ \A d : Cardinality(OpenOn(d)') =
                     Cardinality(OpenOn(d)) + IF x.day = d THEN 1 ELSE 0
<1>1. ASSUME NEW s
      PROVE  Cardinality(OpenBy(s)') =
               Cardinality(OpenBy(s)) + IF x.session = s THEN 1 ELSE 0
  <2>1. IsFiniteSet(OpenBy(s)) /\ Cardinality(OpenBy(s)) \in Nat
    BY Counts
  <2>2. CASE x.session = s
    <3>1. OpenBy(s)' = OpenBy(s) \cup {x} /\ x \notin OpenBy(s)
      BY <2>2 DEF OpenBy
    <3> QED BY <2>1, <2>2, <3>1, FS_AddElement
  <2>3. CASE x.session # s
    <3>1. OpenBy(s)' = OpenBy(s)
      BY <2>3 DEF OpenBy
    <3> QED BY <2>1, <2>3, <3>1
  <2> QED BY <2>2, <2>3
<1>2. ASSUME NEW d
      PROVE  Cardinality(OpenOn(d)') =
               Cardinality(OpenOn(d)) + IF x.day = d THEN 1 ELSE 0
  <2>1. IsFiniteSet(OpenOn(d)) /\ Cardinality(OpenOn(d)) \in Nat
    BY Counts
  <2>2. CASE x.day = d
    <3>1. OpenOn(d)' = OpenOn(d) \cup {x} /\ x \notin OpenOn(d)
      BY <2>2 DEF OpenOn
    <3> QED BY <2>1, <2>2, <3>1, FS_AddElement
  <2>3. CASE x.day # d
    <3>1. OpenOn(d)' = OpenOn(d)
      BY <2>3 DEF OpenOn
    <3> QED BY <2>1, <2>3, <3>1
  <2> QED BY <2>2, <2>3
<1> QED BY <1>1, <1>2

LEMMA CountsAfterSettling ==
  ASSUME NEW x \in open, IsFiniteSet(open), open' = open \ {x}
  PROVE  /\ \A s : Cardinality(OpenBy(s)') =
                     Cardinality(OpenBy(s)) - IF x.session = s THEN 1 ELSE 0
         /\ \A d : Cardinality(OpenOn(d)') =
                     Cardinality(OpenOn(d)) - IF x.day = d THEN 1 ELSE 0
<1>1. ASSUME NEW s
      PROVE  Cardinality(OpenBy(s)') =
               Cardinality(OpenBy(s)) - IF x.session = s THEN 1 ELSE 0
  <2>1. IsFiniteSet(OpenBy(s)) /\ Cardinality(OpenBy(s)) \in Nat
    BY Counts
  <2>2. CASE x.session = s
    <3>1. OpenBy(s)' = OpenBy(s) \ {x} /\ x \in OpenBy(s)
      BY <2>2 DEF OpenBy
    <3> QED BY <2>1, <2>2, <3>1, FS_RemoveElement
  <2>3. CASE x.session # s
    <3>1. OpenBy(s)' = OpenBy(s)
      BY <2>3 DEF OpenBy
    <3> QED BY <2>1, <2>3, <3>1
  <2> QED BY <2>2, <2>3
<1>2. ASSUME NEW d
      PROVE  Cardinality(OpenOn(d)') =
               Cardinality(OpenOn(d)) - IF x.day = d THEN 1 ELSE 0
  <2>1. IsFiniteSet(OpenOn(d)) /\ Cardinality(OpenOn(d)) \in Nat
    BY Counts
  <2>2. CASE x.day = d
    <3>1. OpenOn(d)' = OpenOn(d) \ {x} /\ x \in OpenOn(d)
      BY <2>2 DEF OpenOn
    <3> QED BY <2>1, <2>2, <3>1, FS_RemoveElement
  <2>3. CASE x.day # d
    <3>1. OpenOn(d)' = OpenOn(d)
      BY <2>3 DEF OpenOn
    <3> QED BY <2>1, <2>3, <3>1
  <2> QED BY <2>2, <2>3
<1> QED BY <1>1, <1>2

-----------------------------------------------------------------------------
(* The invariant *)

LEMMA BudgetInvInit == BudgetInit => BudgetInv
<1> SUFFICES ASSUME BudgetInit PROVE BudgetInv
  OBVIOUS
<1> USE LimitsAssumption DEF BudgetInit, Zero, Days, NoDay
<1>1. BudgetTypeOK
  BY FS_EmptySet DEF BudgetTypeOK
<1>2. /\ \A s : Cardinality(OpenBy(s)) = 0
      /\ \A d : Cardinality(OpenOn(d)) = 0
  <2>1. (\A s : OpenBy(s) = {}) /\ (\A d : OpenOn(d) = {})
    BY DEF OpenBy, OpenOn
  <2> QED BY <2>1, FS_EmptySet
<1>3. SessionLedger /\ DailyCapUpToLateRefunds
  BY <1>2 DEF SessionLedger, DailyCapUpToLateRefunds
<1>4. FutureIsBlank /\ DayLedger /\ TodayCapped /\ ConversationCap
  BY DEF FutureIsBlank, DayLedger, TodayCapped, ConversationCap
<1> QED BY <1>1, <1>3, <1>4 DEF BudgetInv

\* _roll_day, seen from the ledgers: moving the daily counters to today's date
\* keeps them right, because the books of a day not reached yet are empty.
LEMMA RollingKeepsLedgers ==
  ASSUME BudgetInv, day' = clock, today' = Rolled(today),
         UNCHANGED <<clock, bySession, open, keptBy, keptOn, late>>
  PROVE  SessionLedger' /\ DayLedger' /\ TodayCapped' /\ DailyCapUpToLateRefunds'
<1> USE DEF BudgetInv
<1>1. SessionLedger' /\ DailyCapUpToLateRefunds'
  BY DEF SessionLedger, DailyCapUpToLateRefunds, OpenBy, OpenOn
<1>2. OpenOn(clock)' = OpenOn(clock)
  BY DEF OpenOn
<1>3. CASE day = clock
  BY <1>1, <1>2, <1>3 DEF DayLedger, TodayCapped, Rolled, OpenOn
<1>4. CASE day # clock
  <2>1. clock \in Days /\ clock > day
    BY <1>4 DEF BudgetTypeOK, FutureIsBlank, Days, NoDay
  <2>2. keptOn[clock] = 0 /\ late[clock] = 0
    BY <2>1 DEF FutureIsBlank
  <2>3. \A o \in open : o.day # clock
    BY <2>1 DEF FutureIsBlank, BudgetTypeOK, Charges, Days, NoDay
  <2>4. Cardinality(OpenOn(clock)) = 0
    BY <2>3, Counts DEF BudgetTypeOK
  <2>5. today' = 0
    BY <1>4 DEF Rolled
  <2>6. DayLedger'
    BY <1>2, <2>2, <2>4, <2>5 DEF DayLedger
  <2>7. TodayCapped'
    BY <2>5, LimitsAssumption DEF TodayCapped
  <2> QED BY <1>1, <2>6, <2>7
<1> QED BY <1>1, <1>3, <1>4

\* Rolling keeps the other parts too, when no conversation is opened.
LEMMA RollingKeepsInv ==
  ASSUME BudgetInv, day' = clock, today' = Rolled(today),
         conversations' = Rolled(conversations),
         UNCHANGED <<clock, bySession, ledger>>
  PROVE  BudgetInv'
<1> USE DEF BudgetInv, ledger
<1>1. BudgetTypeOK'
  BY DEF BudgetTypeOK, Rolled
<1>2. SessionLedger' /\ DayLedger' /\ TodayCapped' /\ DailyCapUpToLateRefunds'
  BY RollingKeepsLedgers
<1>3. FutureIsBlank'
  BY DEF FutureIsBlank, BudgetTypeOK, Charges, Days, NoDay
<1>4. ConversationCap'
  BY DEF ConversationCap, FutureIsBlank, BudgetTypeOK, Rolled, Days, NoDay
<1> QED BY <1>1, <1>2, <1>3, <1>4

LEMMA MidnightKeepsInv == BudgetInv /\ Midnight => BudgetInv'
<1> SUFFICES ASSUME BudgetInv, Midnight PROVE BudgetInv'
  OBVIOUS
<1> USE DEF BudgetInv, Midnight, counters, ledger
<1>1. BudgetTypeOK'
  BY LimitsAssumption DEF BudgetTypeOK, Days
<1>2. FutureIsBlank'
  BY DEF FutureIsBlank, BudgetTypeOK, Days, NoDay
<1>3. SessionLedger' /\ DayLedger' /\ DailyCapUpToLateRefunds'
  BY DEF SessionLedger, DayLedger, DailyCapUpToLateRefunds, OpenBy, OpenOn
<1>4. TodayCapped' /\ ConversationCap'
  BY DEF TodayCapped, ConversationCap
<1> QED BY <1>1, <1>2, <1>3, <1>4

LEMMA ChargeKeepsInv ==
  ASSUME NEW t \in Turns, NEW s \in Sessions, BudgetInv, Charge(t, s)
  PROVE  BudgetInv'
<1> DEFINE x == [turn |-> t, session |-> s, day |-> clock]
<1> USE DEF BudgetInv
<1>1. x \notin open /\ open' = open \cup {x} /\ x \in Charges
  BY DEF Charge, BudgetTypeOK, Charges
<1>2. IsFiniteSet(open)
  BY DEF BudgetTypeOK
<1>3. BudgetTypeOK'
  <2>1. open' \subseteq Charges /\ IsFiniteSet(open')
    BY <1>1, <1>2, FS_AddElement DEF BudgetTypeOK
  <2> QED BY <2>1 DEF BudgetTypeOK, Charge, Rolled
<1>4. FutureIsBlank'
  BY <1>1 DEF FutureIsBlank, BudgetTypeOK, Charges, Charge, Days, NoDay
<1>5. SessionLedger'
  <2> SUFFICES ASSUME NEW u \in Sessions
               PROVE  /\ bySession'[u] = keptBy'[u] + Cardinality(OpenBy(u)')
                      /\ bySession'[u] <= PerSession
    BY DEF SessionLedger, OpenBy
  <2>1. Cardinality(OpenBy(u)') = Cardinality(OpenBy(u)) + IF s = u THEN 1 ELSE 0
    BY <1>1, <1>2, CountsAfterCharge
  <2>2. Cardinality(OpenBy(u)) \in Nat
    BY <1>2, Counts
  <2>3. bySession'[u] = bySession[u] + IF s = u THEN 1 ELSE 0
    BY DEF Charge, BudgetTypeOK
  <2>4. bySession[s] < PerSession
    BY LimitsAssumption DEF Charge, SessionFull, BudgetTypeOK
  <2>5. keptBy' = keptBy /\ keptBy[u] \in Nat /\ bySession[u] \in Nat
    BY DEF Charge, BudgetTypeOK
  <2>6. bySession[u] = keptBy[u] + Cardinality(OpenBy(u)) /\ bySession[u] <= PerSession
    BY DEF SessionLedger
  <2> QED BY <2>1, <2>2, <2>3, <2>4, <2>5, <2>6, LimitsAssumption
<1> DEFINE n(d) == Cardinality(OpenOn(d))
<1>6. \A d \in Days : /\ n(d) \in Nat
                      /\ Cardinality(OpenOn(d)') = n(d) + IF d = clock THEN 1 ELSE 0
  BY <1>1, <1>2, CountsAfterCharge, Counts
<1>7. /\ clock \in Days /\ Rolled(today) \in Nat /\ Rolled(today) < PerDay
      /\ day' = clock /\ today' = Rolled(today) + 1
      /\ UNCHANGED <<clock, keptOn, late>>
      /\ \A d \in Days : keptOn[d] \in Nat /\ late[d] \in Nat
  BY LimitsAssumption DEF Charge, DayFull, BudgetTypeOK, Rolled
<1>8. /\ Rolled(today) <= keptOn[clock] + n(clock)
      /\ keptOn[clock] + n(clock) <= Rolled(today) + late[clock]
  <2>1. CASE day = clock
    BY <2>1, <1>7 DEF DayLedger, Rolled, Days, NoDay
  <2>2. CASE day # clock
    <3>1. clock > day
      BY <2>2 DEF BudgetTypeOK, FutureIsBlank, Days, NoDay
    <3>2. \A o \in open : o.day # clock
      BY <3>1 DEF FutureIsBlank, BudgetTypeOK, Charges, Days, NoDay
    <3>3. n(clock) = 0 /\ keptOn[clock] = 0 /\ late[clock] = 0
      BY <3>1, <3>2, <1>2, <1>7, Counts DEF FutureIsBlank
    <3> QED BY <2>2, <3>3, <1>7 DEF Rolled
  <2> QED BY <2>1, <2>2
<1>9. DayLedger'
  <2>1. LET turns == keptOn[clock] + n(clock) + 1
        IN  today' <= turns /\ turns <= today' + late[clock]
    <3> HIDE DEF n
    <3> QED BY <1>6, <1>7, <1>8
  <2>2. PICK d \in Days : d = clock
    BY <1>7
  <2>3. Cardinality(OpenOn(d)') = n(clock) + 1 /\ OpenOn(day)' = OpenOn(d)'
    BY <2>2, <1>6, <1>7 DEF OpenOn
  <2> HIDE DEF n
  <2> QED BY <2>1, <2>2, <2>3, <1>6, <1>7 DEF DayLedger
<1>10. TodayCapped'
  BY <1>7, LimitsAssumption DEF TodayCapped
<1>11. DailyCapUpToLateRefunds'
  <2> SUFFICES ASSUME NEW d \in Days
               PROVE  keptOn'[d] + Cardinality(OpenOn(d)') <= PerDay + late'[d]
    BY DEF DailyCapUpToLateRefunds, OpenOn
  <2>1. keptOn[d] + n(d) <= PerDay + late[d]
    BY DEF DailyCapUpToLateRefunds
  <2> HIDE DEF n
  <2> QED BY <2>1, <1>6, <1>7, <1>8, LimitsAssumption
<1>12. ConversationCap'
  BY DEF ConversationCap, FutureIsBlank, BudgetTypeOK, Charge, Rolled, Days, NoDay
<1> QED BY <1>3, <1>4, <1>5, <1>9, <1>10, <1>11, <1>12

LEMMA RefundKeepsInv ==
  ASSUME NEW x \in open, BudgetInv, Refund(x)
  PROVE  BudgetInv'
<1> USE DEF BudgetInv
<1>1. /\ x \in Charges /\ x.session \in Sessions /\ x.day \in Days
      /\ IsFiniteSet(open) /\ open' = open \ {x}
      /\ day \in Days
  BY DEF Refund, BudgetTypeOK, FutureIsBlank, Charges, Days, NoDay
<1>2. BudgetTypeOK'
  <2>1. open' \subseteq Charges /\ IsFiniteSet(open')
    BY <1>1, FS_RemoveElement DEF BudgetTypeOK
  <2> QED BY <1>1, <2>1 DEF BudgetTypeOK, Refund, OneLess
<1>3. FutureIsBlank'
  BY <1>1 DEF FutureIsBlank, BudgetTypeOK, Refund, Days
<1>4. SessionLedger'
  <2> SUFFICES ASSUME NEW u \in Sessions
               PROVE  /\ bySession'[u] = keptBy'[u] + Cardinality(OpenBy(u)')
                      /\ bySession'[u] <= PerSession
    BY DEF SessionLedger, OpenBy
  <2>1. Cardinality(OpenBy(u)') = Cardinality(OpenBy(u)) - IF x.session = u THEN 1 ELSE 0
    BY <1>1, CountsAfterSettling
  <2>2. Cardinality(OpenBy(u)) \in Nat
    BY <1>1, Counts
  <2>3. x.session = u => Cardinality(OpenBy(u)) # 0
    <3>1. x.session = u => OpenBy(u) # {}
      BY DEF OpenBy
    <3> QED BY <1>1, <3>1, Counts, FS_EmptySet
  <2>4. bySession'[u] = IF x.session = u THEN OneLess(bySession[u]) ELSE bySession[u]
    BY DEF Refund, BudgetTypeOK
  <2>5. keptBy' = keptBy /\ keptBy[u] \in Nat /\ bySession[u] \in Nat
    BY DEF Refund, BudgetTypeOK
  <2>6. bySession[u] = keptBy[u] + Cardinality(OpenBy(u)) /\ bySession[u] <= PerSession
    BY DEF SessionLedger
  <2> QED BY <2>1, <2>2, <2>3, <2>4, <2>5, <2>6, LimitsAssumption DEF OneLess
<1>5. \A d \in Days : /\ Cardinality(OpenOn(d)) \in Nat
                      /\ Cardinality(OpenOn(d)') =
                           Cardinality(OpenOn(d)) - IF x.day = d THEN 1 ELSE 0
  BY <1>1, Counts, CountsAfterSettling
<1>6. /\ today \in Nat /\ today' = OneLess(today)
      /\ UNCHANGED <<day, keptOn>>
      /\ \A d \in Days : /\ keptOn[d] \in Nat /\ late[d] \in Nat
                         /\ late'[d] = IF d = day /\ x.day # day /\ today > 0
                                         THEN late[d] + 1 ELSE late[d]
  BY <1>1 DEF Refund, BudgetTypeOK
<1>7. DayLedger'
  <2>1. /\ today <= keptOn[day] + Cardinality(OpenOn(day))
        /\ keptOn[day] + Cardinality(OpenOn(day)) <= today + late[day]
    BY <1>1 DEF DayLedger, Days, NoDay
  <2>2. OpenOn(day)' = {o \in open' : o.day = day}
    BY <1>6 DEF OpenOn
  <2>3. Cardinality(OpenOn(day)') =
          Cardinality(OpenOn(day)) - IF x.day = day THEN 1 ELSE 0
    BY <1>1, <1>5, <2>2 DEF OpenOn
  <2>4. x.day = day => Cardinality(OpenOn(day)) # 0
    BY <1>1, Counts, FS_EmptySet DEF OpenOn
  <2>5. /\ today' <= keptOn[day] + Cardinality(OpenOn(day)')
        /\ keptOn[day] + Cardinality(OpenOn(day)') <= today' + late'[day]
    BY <1>1, <1>5, <1>6, <2>1, <2>3, <2>4 DEF OneLess
  <2> QED BY <2>5, <1>6 DEF DayLedger
<1>8. TodayCapped'
  BY <1>1, <1>6, LimitsAssumption DEF TodayCapped, OneLess, Days, NoDay
<1>9. DailyCapUpToLateRefunds'
  <2> SUFFICES ASSUME NEW d \in Days
               PROVE  keptOn'[d] + Cardinality(OpenOn(d)') <= PerDay + late'[d]
    BY DEF DailyCapUpToLateRefunds, OpenOn
  <2>1. keptOn[d] + Cardinality(OpenOn(d)) <= PerDay + late[d]
    BY DEF DailyCapUpToLateRefunds
  <2> QED BY <2>1, <1>5, <1>6, LimitsAssumption
<1>10. ConversationCap'
  BY DEF ConversationCap, Refund
<1> QED BY <1>2, <1>3, <1>4, <1>7, <1>8, <1>9, <1>10

LEMMA KeepKeepsInv ==
  ASSUME NEW x \in open, BudgetInv, Keep(x)
  PROVE  BudgetInv'
<1> USE DEF BudgetInv, counters
<1>1. /\ x \in Charges /\ x.session \in Sessions /\ x.day \in Days
      /\ IsFiniteSet(open) /\ open' = open \ {x}
  BY DEF Keep, BudgetTypeOK, Charges
<1>2. BudgetTypeOK'
  <2>1. open' \subseteq Charges /\ IsFiniteSet(open')
    BY <1>1, FS_RemoveElement DEF BudgetTypeOK
  <2> QED BY <1>1, <2>1 DEF BudgetTypeOK, Keep
<1>3. FutureIsBlank'
  <2>1. x.day <= day
    BY DEF FutureIsBlank
  <2> QED BY <1>1, <2>1 DEF FutureIsBlank, BudgetTypeOK, Keep, Days, NoDay
<1>4. SessionLedger'
  <2> SUFFICES ASSUME NEW u \in Sessions
               PROVE  /\ bySession'[u] = keptBy'[u] + Cardinality(OpenBy(u)')
                      /\ bySession'[u] <= PerSession
    BY DEF SessionLedger, OpenBy
  <2>1. Cardinality(OpenBy(u)') = Cardinality(OpenBy(u)) - IF x.session = u THEN 1 ELSE 0
    BY <1>1, CountsAfterSettling
  <2>2. Cardinality(OpenBy(u)) \in Nat
    BY <1>1, Counts
  <2>3. keptBy'[u] = keptBy[u] + IF x.session = u THEN 1 ELSE 0
    BY DEF Keep, BudgetTypeOK
  <2>4. bySession' = bySession /\ keptBy[u] \in Nat /\ bySession[u] \in Nat
    BY DEF Keep, BudgetTypeOK
  <2>5. bySession[u] = keptBy[u] + Cardinality(OpenBy(u)) /\ bySession[u] <= PerSession
    BY DEF SessionLedger
  <2> QED BY <2>1, <2>2, <2>3, <2>4, <2>5
<1>5. \A d \in Days : /\ Cardinality(OpenOn(d)) \in Nat /\ keptOn[d] \in Nat
                      /\ Cardinality(OpenOn(d)') =
                           Cardinality(OpenOn(d)) - IF x.day = d THEN 1 ELSE 0
                      /\ keptOn'[d] = keptOn[d] + IF x.day = d THEN 1 ELSE 0
  <2>1. \A d \in Days : keptOn'[d] = keptOn[d] + IF x.day = d THEN 1 ELSE 0
    BY DEF Keep, BudgetTypeOK
  <2> QED BY <1>1, <2>1, Counts, CountsAfterSettling DEF BudgetTypeOK
<1>6. \A d \in Days : keptOn'[d] + Cardinality(OpenOn(d)') = keptOn[d] + Cardinality(OpenOn(d))
  BY <1>5
<1>7. DayLedger'
  <2>1. OpenOn(day)' = {o \in open' : o.day = day}
    BY DEF OpenOn, Keep
  <2>2. day # NoDay =>
          keptOn'[day] + Cardinality(OpenOn(day)') = keptOn[day] + Cardinality(OpenOn(day))
    BY <1>6, <2>1 DEF OpenOn, BudgetTypeOK
  <2> QED BY <2>2 DEF DayLedger, Keep
<1>8. TodayCapped' /\ ConversationCap'
  BY DEF TodayCapped, ConversationCap, Keep
<1>9. DailyCapUpToLateRefunds'
  <2> SUFFICES ASSUME NEW d \in Days
               PROVE  keptOn'[d] + Cardinality(OpenOn(d)') <= PerDay + late'[d]
    BY DEF DailyCapUpToLateRefunds, OpenOn
  <2> QED BY <1>6 DEF DailyCapUpToLateRefunds, Keep
<1> QED BY <1>2, <1>3, <1>4, <1>7, <1>8, <1>9

LEMMA OpenConversationKeepsInv == BudgetInv /\ OpenConversation => BudgetInv'
<1> SUFFICES ASSUME BudgetInv, OpenConversation PROVE BudgetInv'
  OBVIOUS
<1> USE DEF BudgetInv
<1>1. BudgetTypeOK'
  BY DEF BudgetTypeOK, OpenConversation, Rolled
<1>2. SessionLedger' /\ DayLedger' /\ TodayCapped' /\ DailyCapUpToLateRefunds'
  BY RollingKeepsLedgers DEF OpenConversation
<1>3. FutureIsBlank'
  BY DEF FutureIsBlank, BudgetTypeOK, Charges, OpenConversation, Days, NoDay
<1>4. ConversationCap'
  <2>1. Rolled(conversations) = opened[clock]
    BY DEF ConversationCap, FutureIsBlank, BudgetTypeOK, Rolled, Days, NoDay
  <2>2. opened[clock] < ConversationsPerDay /\ opened[clock] \in Nat
    BY <2>1, LimitsAssumption DEF OpenConversation, ConversationsFull, BudgetTypeOK
  <2>3. \A d \in Days : opened'[d] = IF d = clock THEN opened[d] + 1 ELSE opened[d]
    BY DEF OpenConversation, BudgetTypeOK
  <2>4. \A d \in Days : opened'[d] <= ConversationsPerDay
    BY <2>2, <2>3, LimitsAssumption DEF ConversationCap
  <2>5. conversations' = opened'[clock] /\ day' = clock
    BY <2>1, <2>3 DEF OpenConversation, BudgetTypeOK
  <2> QED BY <2>4, <2>5 DEF ConversationCap
<1> QED BY <1>1, <1>2, <1>3, <1>4

LEMMA RestartKeepsInv == BudgetInv /\ BudgetRestart => BudgetInv'
<1> SUFFICES ASSUME BudgetInv, BudgetRestart PROVE BudgetInv'
  OBVIOUS
<1> USE LimitsAssumption DEF BudgetRestart, Zero, Days, NoDay
<1>1. BudgetTypeOK'
  BY FS_EmptySet DEF BudgetTypeOK, BudgetInv
<1>2. /\ \A s : Cardinality(OpenBy(s)') = 0
      /\ \A d : Cardinality(OpenOn(d)') = 0
  <2>1. (\A s : OpenBy(s)' = {}) /\ (\A d : OpenOn(d)' = {})
    BY DEF OpenBy, OpenOn
  <2> QED BY <2>1, FS_EmptySet
<1>3. SessionLedger' /\ DailyCapUpToLateRefunds'
  BY <1>2 DEF SessionLedger, DailyCapUpToLateRefunds
<1>4. FutureIsBlank' /\ DayLedger' /\ TodayCapped' /\ ConversationCap'
  BY DEF FutureIsBlank, DayLedger, TodayCapped, ConversationCap, BudgetInv, BudgetTypeOK
<1> QED BY <1>1, <1>3, <1>4 DEF BudgetInv

LEMMA StutterKeepsInv == BudgetInv /\ UNCHANGED budgetVars => BudgetInv'
<1> SUFFICES ASSUME BudgetInv, UNCHANGED budgetVars PROVE BudgetInv'
  OBVIOUS
<1> USE DEF BudgetInv, budgetVars, counters, ledger
<1>1. BudgetTypeOK' /\ FutureIsBlank' /\ TodayCapped' /\ ConversationCap'
  BY DEF BudgetTypeOK, FutureIsBlank, TodayCapped, ConversationCap
<1>2. SessionLedger' /\ DayLedger' /\ DailyCapUpToLateRefunds'
  BY DEF SessionLedger, DayLedger, DailyCapUpToLateRefunds, OpenBy, OpenOn
<1> QED BY <1>1, <1>2

LEMMA BudgetInvStep == BudgetInv /\ [BudgetNext]_budgetVars => BudgetInv'
<1> SUFFICES ASSUME BudgetInv, [BudgetNext]_budgetVars PROVE BudgetInv'
  OBVIOUS
<1>1. CASE Midnight
  BY <1>1, MidnightKeepsInv
<1>2. ASSUME NEW t \in Turns, NEW s \in Sessions, Charge(t, s) PROVE BudgetInv'
  BY <1>2, ChargeKeepsInv
<1>3. ASSUME NEW s \in Sessions, ChargeRefused(s) PROVE BudgetInv'
  BY <1>3, RollingKeepsInv DEF ChargeRefused
<1>4. ASSUME NEW o \in open, Refund(o) PROVE BudgetInv'
  BY <1>4, RefundKeepsInv
<1>5. ASSUME NEW o \in open, Keep(o) PROVE BudgetInv'
  BY <1>5, KeepKeepsInv
<1>6. CASE OpenConversation
  BY <1>6, OpenConversationKeepsInv
<1>7. CASE ConversationRefused
  BY <1>7, RollingKeepsInv DEF ConversationRefused
<1>8. CASE BudgetRestart
  BY <1>8, RestartKeepsInv
<1>9. CASE UNCHANGED budgetVars
  BY <1>9, StutterKeepsInv
<1> QED BY <1>1, <1>2, <1>3, <1>4, <1>5, <1>6, <1>7, <1>8, <1>9 DEF BudgetNext

-----------------------------------------------------------------------------
(* The theorems *)

\* The inductive invariant holds in every reachable state of the budget.
THEOREM BudgetInvariant == BudgetSpec => []BudgetInv
<1> QED BY BudgetInvInit, BudgetInvStep, PTL DEF BudgetSpec

\* The counters keep their types: no refund takes one below zero.
THEOREM BudgetTyped == BudgetSpec => []BudgetTypeOK
<1>1. BudgetInv => BudgetTypeOK
  BY DEF BudgetInv
<1> QED BY <1>1, BudgetInvariant, PTL

\* Session counters are exact and capped, whatever charges, refunds and
\* midnights interleave.
THEOREM SessionsAreExact == BudgetSpec => []SessionLedger
<1>1. BudgetInv => SessionLedger
  BY DEF BudgetInv
<1> QED BY <1>1, BudgetInvariant, PTL

\* The daily counter never overstates its day, and understates it by late
\* refunds only.
THEOREM DaysAreAccounted == BudgetSpec => []DayLedger
<1>1. BudgetInv => DayLedger
  BY DEF BudgetInv
<1> QED BY <1>1, BudgetInvariant, PTL

\* The daily cap, as strong as the code has it: exact but for late refunds.
THEOREM DailyCapHolds == BudgetSpec => []DailyCapUpToLateRefunds
<1>1. BudgetInv => DailyCapUpToLateRefunds
  BY DEF BudgetInv
<1> QED BY <1>1, BudgetInvariant, PTL

\* No day admits more conversations than its cap.
THEOREM ConversationsAreCapped == BudgetSpec => []ConversationCap
<1>1. BudgetInv => ConversationCap
  BY DEF BudgetInv
<1> QED BY <1>1, BudgetInvariant, PTL
=============================================================================
