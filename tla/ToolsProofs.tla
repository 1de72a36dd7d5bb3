---------------------------- MODULE ToolsProofs -----------------------------
(***************************************************************************)
(* The tenant guard's promises for any customers, databases, limits and    *)
(* number of calls in progress.  They rest on how scopes and calls nest:   *)
(* a specialist runs inside a delegating call of the root agent, and its   *)
(* calls write to that call's log.                                         *)
(***************************************************************************)
EXTENDS Tools, RepositoryProofs, FiniteSetTheorems, TLAPS

\* A specialist is running only inside a delegating call of the root agent.
SpecialistsAreInside ==
  \A k \in Calls :
    /\ agent[k].at # "off" => call[k].at = "delegating"
    /\ call[k].at = "delegating" => call[k].tool = "delegate"
    /\ call[k].at # "idle" /\ call[k].tool = "delegate" => call[k].parent = Root

\* An agent with calls in progress is waiting for them.
AskersWait ==
  \A k \in Calls : call[k].at # "idle" => agent[call[k].parent].at = "tools"

\* A result in the making holds nothing its scope has not logged.
ResultsAreLogged ==
  \A k \in Calls : call[k].at # "idle" => call[k].seen \subseteq log[Scope(k)]

\* What a call's own scope has logged, the call has read.
ScopesAreOwn ==
  ~watched =>
    \A k \in Calls :
      call[k].at \in {"reading", "returning"} /\ call[k].parent = Root
        /\ call[k].tool # "delegate" => log[k] \subseteq call[k].met

ToolsInv ==
  /\ ToolsTypeOK
  /\ SpecialistsAreInside
  /\ AskersWait
  /\ ResultsAreLogged
  /\ ScopesAreOwn
  /\ NoForeignResult
  /\ EvidenceKept
  /\ SiblingsAreApart

\* The numbers of a limit and of a call.
LEMMA Numbers ==
  /\ Calls \subseteq Nat /\ Root \in Agents /\ Calls \subseteq Agents
  /\ Root \notin Calls /\ Agents = Calls \cup {Root}
  BY ToolsAssumption DEF Calls, Agents

LEMMA OpenedTyped ==
  ASSUME NEW a \in Agents, NEW tool \in ToolNames
  PROVE  /\ Opened(a, tool) \in CallStates
         /\ Opened(a, tool).tool = tool /\ Opened(a, tool).parent = a
         /\ Opened(a, tool).seen = {} /\ Opened(a, tool).met = {}
         /\ Opened(a, tool).at = IF caller = None THEN "raised" ELSE "reading"
  BY Numbers DEF Opened, Idle, CallStates

\* A read records customers, because every invoice has one.
LEMMA FoundTyped ==
  ASSUME chinook \in Databases, NEW c, NEW read
  PROVE  Found(c, read) \subseteq SUBSET Customers
<1>1. chinook.customerOf \in [Invoices -> Customers] /\ chinook.invoiceOf \in [Lines -> Invoices]
  BY DatabaseAssumption DEF DatabaseShape
<1> QED
  BY <1>1 DEF Found, CustomersIn, OwnInvoices, OwnLines, BuyerOf

\* The effect of a read that returned these customers' rows.
Reads(k, c, rows) ==
  /\ call[k].at = "reading" /\ call[k].tool # "delegate"
  /\ c \in MayReadAs(k)
  /\ call' = [call EXCEPT ![k].seen = @ \cup rows, ![k].met = @ \cup rows,
                          ![k].step = @ + 1,
                          ![k].at = IF call[k].step = Len(ReadsOf(call[k].tool))
                                      THEN "returning" ELSE @]
  /\ log' = [log EXCEPT ![Scope(k)] = @ \cup rows]
  /\ touched' = touched \cup rows

-----------------------------------------------------------------------------
(* Types *)

LEMMA TypeStep == ToolsTypeOK /\ [ToolsNext]_vars => ToolsTypeOK'
<1> SUFFICES ASSUME ToolsTypeOK, [ToolsNext]_vars PROVE ToolsTypeOK'
  OBVIOUS
<1> USE Numbers DEF ToolsTypeOK
<1>1. ASSUME NEW c \in Customers \cup {None}, NEW which \in {"flat", "supervisor"},
             NEW observed \in BOOLEAN, StartTurn(c, which, observed)
      PROVE  ToolsTypeOK'
  BY <1>1 DEF StartTurn, Started, Off, AgentStates, Idle, CallStates, ToolNames, repositoryVars
<1>2. ASSUME NEW a \in Agents, NEW n \in Calls, NEW tool \in [New(n) -> ToolsOf(a)],
             AskTools(a, n, tool)
      PROVE  ToolsTypeOK'
  <2>1. Traced(a, n) \in Nat /\ Counted(a, n) \in Nat
    BY DEF Traced, Counted, AgentStates
  <2>2. agent' \in [Agents -> AgentStates]
    BY <1>2, <2>1 DEF AskTools, AgentStates
  <2>3. \A k \in New(n) : Opened(a, tool[k]) \in CallStates
    BY OpenedTyped DEF ToolsOf, ToolNames
  <2>4. call' \in [Calls -> CallStates]
    BY <1>2, <2>3 DEF AskTools
  <2>5. log' \in [Agents -> SUBSET Customers]
    BY <1>2 DEF AskTools
  <2> QED
    BY <1>2, <2>1, <2>2, <2>4, <2>5 DEF AskTools, Asks, repositoryVars
<1>3. ASSUME NEW a \in Agents, NEW n \in Calls, AskTooMany(a, n) PROVE ToolsTypeOK'
  <2>1. Traced(a, n) \in Nat
    BY DEF Traced
  <2> QED
    BY <1>3, <2>1 DEF AskTooMany, Asks, AgentStates, repositoryVars
<1>4. ASSUME NEW a \in Agents, ModelAnswers(a) \/ ModelFails(a) PROVE ToolsTypeOK'
  BY <1>4 DEF ModelAnswers, ModelFails, EndsAs, AgentStates, repositoryVars
<1>5. ASSUME NEW a \in Agents, BatchEnds(a) PROVE ToolsTypeOK'
  <2>1. agent' \in [Agents -> AgentStates]
    BY <1>5 DEF BatchEnds, AgentStates
  <2>2. Idle \in CallStates
    BY DEF Idle, CallStates, ToolNames
  <2> QED
    BY <1>5, <2>1, <2>2 DEF BatchEnds, repositoryVars
<1>6. ASSUME NEW k \in Calls, NEW c \in Customers, ReadRows(k, c)
      PROVE  ToolsTypeOK'
  <2>1. PICK rows \in SUBSET Customers : Reads(k, c, rows)
    <3>1. PICK rows \in Found(c, ReadsOf(call[k].tool)[call[k].step]) : Reads(k, c, rows)
      BY <1>6 DEF ReadRows, Reads
    <3>2. rows \in SUBSET Customers
      BY <3>1, FoundTyped
    <3> QED
      BY <3>1, <3>2
  <2>2. call' \in [Calls -> CallStates]
    BY <2>1 DEF Reads, CallStates
  <2>3. log' \in [Agents -> SUBSET Customers]
    BY <2>1 DEF Reads
  <2> QED
    BY <1>6, <2>1, <2>2, <2>3 DEF ReadRows, Reads, repositoryVars
<1>7. ASSUME NEW k \in Calls, StopsEarly(k) \/ ReadFails(k) PROVE ToolsTypeOK'
  <2>1. call' \in [Calls -> CallStates]
    BY <1>7 DEF StopsEarly, ReadFails, CallStates
  <2> QED
    BY <1>7, <2>1 DEF StopsEarly, ReadFails, repositoryVars
<1>8. ASSUME NEW k \in Calls, Delegate(k) PROVE ToolsTypeOK'
  BY <1>8 DEF Delegate, CallStates, AgentStates, Started, Off, repositoryVars
<1>9. ASSUME NEW k \in Calls, HandBack(k) \/ SpecialistRaises(k) PROVE ToolsTypeOK'
  <2>1. call' \in [Calls -> CallStates]
    BY <1>9 DEF HandBack, SpecialistRaises, CallStates
  <2>3. Off \in AgentStates
    BY DEF Off, AgentStates
  <2>4. agent' \in [Agents -> AgentStates]
    BY <1>9, <2>3 DEF HandBack, SpecialistRaises
  <2>2. recorded' \in Nat
    BY <1>9 DEF HandBack, SpecialistRaises, RecordNested, AgentStates
  <2> QED
    BY <1>9, <2>1, <2>2, <2>4 DEF HandBack, SpecialistRaises, repositoryVars
<1>10. ASSUME NEW k \in Calls, Return(k) PROVE ToolsTypeOK'
  <2>1. call' \in [Calls -> CallStates]
    BY <1>10 DEF Return, CallStates
  <2> QED
    BY <1>10, <2>1 DEF Return, CallStates, repositoryVars
<1>11. ASSUME NEW k \in Calls, GuardFires(k) PROVE ToolsTypeOK'
  BY <1>11 DEF GuardFires, CallStates, repositoryVars
<1>12. ASSUME (Ask \/ Leave) /\ UNCHANGED toolVars PROVE ToolsTypeOK'
  BY <1>12 DEF Ask, AskInvoices, AskDetail, AskSummary, AskLine, AskRecommendations, Answers,
     Leave, toolVars
<1>13. CASE UNCHANGED vars
  BY <1>13 DEF vars, toolVars, repositoryVars
<1> QED
  BY <1>1, <1>2, <1>3, <1>4, <1>5, <1>6, <1>7, <1>8, <1>9, <1>10, <1>11, <1>12, <1>13
     DEF ToolsNext, Work

-----------------------------------------------------------------------------
(* How scopes and calls nest *)

Nesting == SpecialistsAreInside /\ AskersWait

\* The calls a message adds.
LEMMA NewCalls ==
  ASSUME ToolsTypeOK, NEW a \in Agents, NEW n \in Calls, NEW tool \in [New(n) -> ToolsOf(a)],
         AskTools(a, n, tool), NEW k \in New(n)
  PROVE  /\ k \in Calls /\ call[k].at = "idle" /\ log'[k] = {}
         /\ tool[k] \in ToolsOf(a) /\ tool[k] \in ToolNames
         /\ call'[k] = Opened(a, tool[k])
<1>1. k \in Calls /\ call[k].at = "idle"
  BY DEF New, Free
<1>2. tool[k] \in ToolsOf(a) /\ tool[k] \in ToolNames
  BY DEF ToolsOf, ToolNames
<1>3. log' = [b \in Agents |-> IF b \in New(n) THEN {} ELSE log[b]]
  BY DEF AskTools
<1>4. call' = [j \in Calls |-> IF j \in New(n) THEN Opened(a, tool[j]) ELSE call[j]]
  BY DEF AskTools
<1> QED
  BY <1>1, <1>2, <1>3, <1>4, Numbers

\* A call that moves on, but neither begins, ends nor delegates.
LEMMA MovingOn ==
  ASSUME Nesting, NEW k \in Calls, agent' = agent,
         \A j \in Calls \ {k} : call'[j] = call[j],
         call'[k].tool = call[k].tool, call'[k].parent = call[k].parent,
         call[k].at \in {"reading", "returning"},
         call'[k].at \in {"reading", "returning", "raised"}
  PROVE  Nesting'
<1> USE DEF Nesting, SpecialistsAreInside, AskersWait
<1>1. SpecialistsAreInside'
  OBVIOUS
<1>2. AskersWait'
  OBVIOUS
<1> QED
  BY <1>1, <1>2

\* An agent that stops asking, with no call in progress.
LEMMA StoppingToAsk ==
  ASSUME ToolsTypeOK, Nesting, NEW a \in Agents, agent[a].at = "model",
         NEW how \in {"over", "failed"}, agent'[a].at = how,
         \A b \in Agents \ {a} : agent'[b] = agent[b], call' = call
  PROVE  Nesting'
<1> USE DEF Nesting, SpecialistsAreInside, AskersWait
<1>1. \A k \in Calls : agent[k].at = "off" => agent'[k].at = "off"
  BY Numbers
<1>2. SpecialistsAreInside'
  BY <1>1
<1>3. \A k \in Calls : call[k].parent \in Agents
  BY DEF ToolsTypeOK, CallStates
<1>4. AskersWait'
  BY <1>3
<1> QED
  BY <1>2, <1>4

LEMMA NestingStep == ToolsTypeOK /\ Nesting /\ [ToolsNext]_vars => Nesting'
<1> SUFFICES ASSUME ToolsTypeOK, Nesting, [ToolsNext]_vars PROVE Nesting'
  OBVIOUS
<1> USE Numbers DEF Nesting, SpecialistsAreInside, AskersWait
<1>1. ASSUME NEW c \in Customers \cup {None}, NEW which \in {"flat", "supervisor"},
             NEW observed \in BOOLEAN, StartTurn(c, which, observed)
      PROVE  Nesting'
  BY <1>1 DEF ToolsTypeOK, StartTurn, Off, Idle
<1>2. ASSUME NEW a \in Agents, NEW n \in Calls, NEW tool \in [New(n) -> ToolsOf(a)],
             AskTools(a, n, tool)
      PROVE  Nesting'
  <2>1. \A k \in New(n) :
          /\ call[k].at = "idle" /\ agent[k].at = "off"
          /\ call'[k].at \in {"raised", "reading"} /\ call'[k].parent = a
          /\ call'[k].tool = tool[k]
    <3> SUFFICES ASSUME NEW k \in New(n)
                 PROVE  /\ call[k].at = "idle" /\ agent[k].at = "off"
                        /\ call'[k].at \in {"raised", "reading"} /\ call'[k].parent = a
                        /\ call'[k].tool = tool[k]
      OBVIOUS
    <3>1. /\ k \in Calls /\ call[k].at = "idle" /\ tool[k] \in ToolNames
          /\ call'[k] = Opened(a, tool[k])
      BY <1>2, NewCalls
    <3> QED
      BY <3>1, OpenedTyped
  <2>2. \A k \in Calls \ New(n) : call'[k] = call[k]
    BY <1>2 DEF ToolsTypeOK, AskTools
  <2>3. /\ agent[a].at = "model" /\ agent'[a].at = "tools"
        /\ \A b \in Agents \ {a} : agent'[b] = agent[b]
    BY <1>2 DEF ToolsTypeOK, AskTools, Asks
  <2>4. \A k \in New(n) : tool[k] = "delegate" => a = Root
    BY DEF ToolsOf
  <2>5. SpecialistsAreInside'
    <3> SUFFICES ASSUME NEW k \in Calls
                 PROVE  /\ agent'[k].at # "off" => call'[k].at = "delegating"
                        /\ call'[k].at = "delegating" => call'[k].tool = "delegate"
                        /\ call'[k].at # "idle" /\ call'[k].tool = "delegate"
                             => call'[k].parent = Root
      OBVIOUS
    <3>1. CASE k \in New(n)
      BY <3>1, <2>1, <2>3, <2>4
    <3>2. CASE k \notin New(n)
      <4>1. agent'[k].at # "off" => agent[k].at # "off"
        BY <2>3
      <4>2. call'[k] = call[k]
        BY <3>2, <2>2
      <4> QED
        BY <4>1, <4>2
    <3> QED
      BY <3>1, <3>2
  <2>6. AskersWait'
    <3> SUFFICES ASSUME NEW k \in Calls, call'[k].at # "idle"
                 PROVE  agent'[call'[k].parent].at = "tools"
      OBVIOUS
    <3>1. CASE k \in New(n)
      BY <3>1, <2>1, <2>3
    <3>2. CASE k \notin New(n)
      <4>1. call'[k] = call[k] /\ call[k].parent \in Agents
        BY <3>2, <2>2 DEF ToolsTypeOK, CallStates
      <4>2. agent[call[k].parent].at = "tools"
        BY <4>1
      <4> QED
        BY <4>1, <4>2, <2>3
    <3> QED
      BY <3>1, <3>2
  <2> QED
    BY <2>5, <2>6
<1>4. ASSUME NEW a \in Agents, BatchEnds(a) PROVE Nesting'
  <2>1. \A k \in Calls : call[k].at # "idle" =>
          call'[k] = IF call[k].parent = a THEN Idle ELSE call[k]
    BY <1>4 DEF ToolsTypeOK, BatchEnds, Batch
  <2>2. \A k \in Calls : call[k].at = "idle" => call'[k] = call[k]
    BY <1>4 DEF ToolsTypeOK, BatchEnds, Batch
  <2>3. \A k \in Calls : call[k].at = "delegating" => call'[k] = call[k]
    BY <1>4, <2>1 DEF ToolsTypeOK, BatchEnds, Batch
  <2>4. /\ agent[a].at = "tools" /\ agent'[a].at \in {"model", "failed"}
        /\ \A b \in Agents \ {a} : agent'[b] = agent[b]
    BY <1>4 DEF ToolsTypeOK, BatchEnds
  <2>5. SpecialistsAreInside'
    <3> SUFFICES ASSUME NEW k \in Calls
                 PROVE  /\ agent'[k].at # "off" => call'[k].at = "delegating"
                        /\ call'[k].at = "delegating" => call'[k].tool = "delegate"
                        /\ call'[k].at # "idle" /\ call'[k].tool = "delegate"
                             => call'[k].parent = Root
      OBVIOUS
    <3>1. agent'[k].at # "off" => agent[k].at # "off"
      BY <2>4
    <3>2. call'[k] = call[k] \/ call'[k] = Idle
      BY <2>1, <2>2
    <3> QED
      BY <3>1, <3>2, <2>3 DEF Idle
  <2>6. AskersWait'
    <3> SUFFICES ASSUME NEW k \in Calls, call'[k].at # "idle"
                 PROVE  agent'[call'[k].parent].at = "tools"
      OBVIOUS
    <3>1. call[k].at # "idle" /\ call[k].parent # a /\ call'[k] = call[k]
      BY <2>1, <2>2 DEF Idle
    <3>2. agent[call[k].parent].at = "tools" /\ call[k].parent \in Agents
      BY <3>1 DEF ToolsTypeOK, CallStates
    <3>3. agent'[call[k].parent] = agent[call[k].parent]
      BY <3>1, <3>2, <2>4, Zenon
    <3> QED
      BY <3>1, <3>2, <3>3
  <2> QED
    BY <2>5, <2>6
<1>5. ASSUME NEW k \in Calls, NEW c \in Customers, ReadRows(k, c)
      PROVE  Nesting'
  <2>1. PICK rows : Reads(k, c, rows)
    BY <1>5 DEF ReadRows, Reads
  <2>2. \A j \in Calls \ {k} : call'[j] = call[j]
    BY <2>1 DEF Reads, ToolsTypeOK
  <2>3. /\ call'[k].tool = call[k].tool /\ call'[k].parent = call[k].parent
        /\ call[k].at = "reading" /\ call'[k].at \in {"reading", "returning"}
    BY <2>1 DEF Reads, ToolsTypeOK, CallStates
  <2>4. agent' = agent
    BY <1>5 DEF ReadRows
  <2> QED
    BY <2>2, <2>3, <2>4, MovingOn
<1>13. ASSUME NEW k \in Calls, StopsEarly(k) PROVE Nesting'
  BY <1>13, MovingOn DEF StopsEarly, ToolsTypeOK, CallStates
<1>14. ASSUME NEW k \in Calls, ReadFails(k) PROVE Nesting'
  <2>1. /\ agent' = agent /\ call[k].at = "reading"
        /\ \A j \in Calls \ {k} : call'[j] = call[j]
    BY <1>14 DEF ReadFails, ToolsTypeOK
  <2>2. /\ call'[k].tool = call[k].tool /\ call'[k].parent = call[k].parent
        /\ call'[k].at \in {"reading", "returning"}
    BY <1>14 DEF ReadFails, ToolsTypeOK, CallStates
  <2> QED
    BY <2>1, <2>2, MovingOn
<1>15. ASSUME NEW k \in Calls, GuardFires(k) PROVE Nesting'
  BY <1>15, MovingOn DEF GuardFires, ToolsTypeOK, CallStates
<1>6. ASSUME NEW k \in Calls, Delegate(k) PROVE Nesting'
  <2>1. /\ \A j \in Calls \ {k} : call'[j] = call[j]
        /\ call[k].tool = "delegate" /\ call'[k].tool = "delegate"
        /\ call'[k].parent = call[k].parent
        /\ call[k].at = "reading" /\ call'[k].at = "delegating"
        /\ \A b \in Agents \ {k} : agent'[b] = agent[b]
    BY <1>6 DEF ToolsTypeOK, Delegate, CallStates
  <2>2. \A j \in Calls : call[j].at # "idle" => call[j].parent # k
    BY <2>1
  <2>3. SpecialistsAreInside'
    <3> SUFFICES ASSUME NEW j \in Calls
                 PROVE  /\ agent'[j].at # "off" => call'[j].at = "delegating"
                        /\ call'[j].at = "delegating" => call'[j].tool = "delegate"
                        /\ call'[j].at # "idle" /\ call'[j].tool = "delegate"
                             => call'[j].parent = Root
      OBVIOUS
    <3>1. CASE j = k
      BY <3>1, <2>1
    <3>2. CASE j # k
      BY <3>2, <2>1
    <3> QED
      BY <3>1, <3>2
  <2>4. \A j \in Calls : call'[j].at # "idle" =>
          /\ call[j].at # "idle" /\ call'[j].parent = call[j].parent
          /\ call[j].parent \in Agents \ {k}
    BY <2>1, <2>2 DEF ToolsTypeOK, CallStates
  <2>5. \A b \in Agents \ {k} : agent'[b].at = agent[b].at
    BY <2>1
  <2>6. AskersWait'
    BY <2>4, <2>5
  <2> QED
    BY <2>3, <2>6
<1>7. ASSUME NEW k \in Calls, HandBack(k) \/ SpecialistRaises(k) PROVE Nesting'
  <2>1. /\ \A j \in Calls \ {k} : call'[j] = call[j]
        /\ call'[k].tool = call[k].tool /\ call'[k].parent = call[k].parent
        /\ call[k].at = "delegating" /\ call'[k].at \in {"returning", "raised"}
        /\ \A b \in Agents \ {k} : agent'[b] = agent[b]
        /\ agent[k].at \in {"over", "failed"} /\ agent'[k].at = "off"
    <3>1. /\ call[k].at = "delegating" /\ agent[k].at \in {"over", "failed"}
          /\ agent' = [agent EXCEPT ![k] = Off]
      BY <1>7 DEF HandBack, SpecialistRaises
    <3>2. PICK how \in {"returning", "raised"} : call' = [call EXCEPT ![k].at = how]
      BY <1>7 DEF HandBack, SpecialistRaises
    <3>3. agent'[k].at = "off" /\ \A b \in Agents \ {k} : agent'[b] = agent[b]
      BY <3>1 DEF ToolsTypeOK, Off
    <3>4. /\ \A j \in Calls \ {k} : call'[j] = call[j]
          /\ call'[k].tool = call[k].tool /\ call'[k].parent = call[k].parent
          /\ call'[k].at = how
      BY <3>2 DEF ToolsTypeOK, CallStates
    <3> QED
      BY <3>1, <3>2, <3>3, <3>4
  <2>2. \A j \in Calls : call[j].at # "idle" => call[j].parent # k
    BY <2>1
  <2>3. SpecialistsAreInside'
    <3> SUFFICES ASSUME NEW j \in Calls
                 PROVE  /\ agent'[j].at # "off" => call'[j].at = "delegating"
                        /\ call'[j].at = "delegating" => call'[j].tool = "delegate"
                        /\ call'[j].at # "idle" /\ call'[j].tool = "delegate"
                             => call'[j].parent = Root
      OBVIOUS
    <3>1. CASE j = k
      BY <3>1, <2>1
    <3>2. CASE j # k
      BY <3>2, <2>1
    <3> QED
      BY <3>1, <3>2
  <2>4. \A j \in Calls : call'[j].at # "idle" =>
          /\ call[j].at # "idle" /\ call'[j].parent = call[j].parent
          /\ call[j].parent \in Agents \ {k}
    BY <2>1, <2>2 DEF ToolsTypeOK, CallStates
  <2>5. \A b \in Agents \ {k} : agent'[b].at = agent[b].at
    BY <2>1
  <2>6. AskersWait'
    <3> SUFFICES ASSUME NEW j \in Calls, call'[j].at # "idle"
                 PROVE  agent'[call'[j].parent].at = "tools"
      OBVIOUS
    <3>1. agent[call[j].parent].at = "tools"
      BY <2>4
    <3> QED
      BY <3>1, <2>4, <2>5
  <2> QED
    BY <2>3, <2>6
<1>8. ASSUME NEW k \in Calls, Return(k) PROVE Nesting'
  <2>1. \A j \in Calls :
          /\ call'[j].tool = call[j].tool /\ call'[j].parent = call[j].parent
          /\ j # k => call'[j].at = call[j].at
    BY <1>8 DEF ToolsTypeOK, Return, CallStates
  <2>2. call[k].at = "returning" /\ call'[k].at = "done" /\ agent' = agent
    BY <1>8 DEF ToolsTypeOK, Return, CallStates
  <2> QED
    BY <2>1, <2>2
<1>9. ASSUME (Ask \/ Leave) /\ UNCHANGED toolVars PROVE Nesting'
  BY <1>9 DEF toolVars
<1>10. CASE UNCHANGED vars
  BY <1>10 DEF vars, toolVars
<1>11. ASSUME NEW a \in Agents, NEW n \in Calls, AskTooMany(a, n) PROVE Nesting'
  <2>1. /\ agent[a].at = "model" /\ agent'[a].at = "over" /\ call' = call
        /\ \A b \in Agents \ {a} : agent'[b] = agent[b]
    BY <1>11 DEF ToolsTypeOK, AskTooMany, Asks, AgentStates
  <2> QED
    BY StoppingToAsk, <2>1
<1>12. ASSUME NEW a \in Agents, NEW how \in {"over", "failed"}, EndsAs(a, how) PROVE Nesting'
  <2>1. /\ agent[a].at = "model" /\ agent'[a].at = how /\ call' = call
        /\ \A b \in Agents \ {a} : agent'[b] = agent[b]
    BY <1>12 DEF ToolsTypeOK, EndsAs, AgentStates
  <2> QED
    BY StoppingToAsk, <2>1
<1> QED
  BY <1>1, <1>2, <1>4, <1>5, <1>6, <1>7, <1>8, <1>9, <1>10, <1>11, <1>12, <1>13, <1>14, <1>15
     DEF ToolsNext, Work, ModelAnswers, ModelFails

-----------------------------------------------------------------------------
(* What the logs know *)

Isolation ==
  /\ ResultsAreLogged
  /\ ScopesAreOwn
  /\ NoForeignResult
  /\ EvidenceKept
  /\ SiblingsAreApart

\* A nested call and the call that delegated share a log.
LEMMA ScopesFlatten ==
  ASSUME ToolsTypeOK, Nesting, NEW k \in Calls, call[k].at # "idle"
  PROVE  /\ Scope(k) \in Agents
         /\ watched => Scope(k) = Root
         /\ ~watched /\ call[k].parent = Root => Scope(k) = k
         /\ call[k].parent # Root =>
              LET p == call[k].parent IN
              /\ p \in Calls /\ p # k
              /\ call[p].at = "delegating" /\ call[p].tool = "delegate"
              /\ Scope(p) = Scope(k) /\ (~watched => Scope(k) = p)
<1>1. call[k].parent \in Agents
  BY DEF ToolsTypeOK, CallStates
<1>2. CASE call[k].parent = Root
  BY <1>1, <1>2, Numbers DEF Scope
<1>3. CASE call[k].parent # Root
  <2> DEFINE p == call[k].parent
  <2>1. p \in Calls
    BY <1>1, <1>3, Numbers
  <2>2. agent[p].at = "tools"
    BY DEF Nesting, AskersWait
  <2>3. call[p].at = "delegating" /\ call[p].tool = "delegate" /\ call[p].parent = Root
    BY <2>1, <2>2 DEF Nesting, SpecialistsAreInside
  <2>4. p # k
    BY <1>3, <2>3
  <2>5. Scope(p) = Scope(k) /\ (~watched => Scope(k) = p)
    BY <1>3, <2>3 DEF Scope
  <2>6. Scope(k) \in Agents /\ (watched => Scope(k) = Root)
    BY <1>1, Numbers DEF Scope
  <2> QED
    BY <1>3, <2>1, <2>3, <2>4, <2>5, <2>6
<1> QED
  BY <1>2, <1>3

\* Every step keeps what the logs know.
LEMMA IsolationStep ==
  ToolsTypeOK /\ Nesting /\ Isolation /\ [ToolsNext]_vars => Isolation'
<1> SUFFICES ASSUME ToolsTypeOK, Nesting, Isolation, [ToolsNext]_vars PROVE Isolation'
  OBVIOUS
<1> USE DEF Isolation, ResultsAreLogged, ScopesAreOwn, NoForeignResult, EvidenceKept,
            SiblingsAreApart
<1>1. ASSUME NEW c \in Customers \cup {None}, NEW which \in {"flat", "supervisor"},
             NEW observed \in BOOLEAN, StartTurn(c, which, observed)
      PROVE  Isolation'
  BY <1>1 DEF StartTurn, Idle
<1>2. ASSUME NEW a \in Agents, NEW n \in Calls, NEW tool \in [New(n) -> ToolsOf(a)],
             AskTools(a, n, tool)
      PROVE  Isolation'
  <2>1. \A k \in New(n) :
          /\ call[k].at = "idle" /\ call'[k].parent = a
          /\ call'[k].seen = {} /\ call'[k].met = {} /\ log'[k] = {}
          /\ call'[k].at = IF caller = None THEN "raised" ELSE "reading"
    <3> SUFFICES ASSUME NEW k \in New(n)
                 PROVE  /\ call[k].at = "idle" /\ call'[k].parent = a
                        /\ call'[k].seen = {} /\ call'[k].met = {} /\ log'[k] = {}
                        /\ call'[k].at = IF caller = None THEN "raised" ELSE "reading"
      OBVIOUS
    <3>1. /\ k \in Calls /\ call[k].at = "idle" /\ tool[k] \in ToolNames /\ log'[k] = {}
          /\ call'[k] = Opened(a, tool[k])
      BY <1>2, NewCalls
    <3> QED
      BY <3>1, OpenedTyped
  <2>2. \A k \in Calls \ New(n) : call'[k] = call[k]
    BY <1>2 DEF AskTools
  <2>3. \A b \in Agents \ New(n) : log'[b] = log[b]
    BY <1>2 DEF AskTools
  <2>4. UNCHANGED <<caller, watched, touched, told>>
    BY <1>2 DEF AskTools, Asks
  <2>5. ASSUME NEW k \in Calls, k \notin New(n), call[k].at # "idle"
        PROVE  Scope(k)' = Scope(k) /\ log'[Scope(k)] = log[Scope(k)]
    <3>1. Scope(k) \notin New(n)
      BY <2>1, <2>5, ScopesFlatten, Numbers DEF New, Free
    <3>2. Scope(k)' = Scope(k)
      BY <2>2, <2>4, <2>5 DEF Scope
    <3> QED
      BY <3>1, <3>2, <2>3, <2>5, ScopesFlatten
  <2>6. ResultsAreLogged'
    BY <2>1, <2>2, <2>5
  <2>7. ScopesAreOwn'
    BY <2>1, <2>2, <2>3, <2>4, Numbers
  <2>8. EvidenceKept'
    BY <2>3, <2>4, Numbers DEF New, Free
  <2>9. SiblingsAreApart'
    BY <2>1, <2>2, <2>4
  <2> QED
    BY <2>4, <2>6, <2>7, <2>8, <2>9
<1>3. ASSUME UNCHANGED <<caller, watched, log, touched, told>>,
             \A k \in Calls : call'[k] = call[k] \/ call'[k].at = "idle"
      PROVE  Isolation'
  BY <1>3 DEF Scope
<1>4. ASSUME NEW k \in Calls, NEW c \in Customers, ReadRows(k, c) PROVE Isolation'
  <2>1. PICK rows : Reads(k, c, rows)
    BY <1>4 DEF ReadRows, Reads
  <2>2. \A j \in Calls \ {k} : call'[j] = call[j]
    BY <2>1 DEF Reads, ToolsTypeOK
  <2>3. /\ call[k].at = "reading" /\ call[k].tool # "delegate"
        /\ call'[k].at \in {"reading", "returning"}
        /\ call'[k].tool = call[k].tool /\ call'[k].parent = call[k].parent
        /\ call'[k].seen = call[k].seen \cup rows /\ call'[k].met = call[k].met \cup rows
    BY <2>1 DEF Reads, ToolsTypeOK, CallStates
  <2>4. /\ log'[Scope(k)] = log[Scope(k)] \cup rows
        /\ \A b \in Agents \ {Scope(k)} : log'[b] = log[b]
    <3>1. Scope(k) \in Agents
      BY <2>3, ScopesFlatten
    <3> QED
      BY <2>1, <3>1 DEF Reads, ToolsTypeOK
  <2>5. UNCHANGED <<caller, watched, told>> /\ touched' = touched \cup rows
    BY <1>4, <2>1 DEF ReadRows, Reads
  <2>6. \A j \in Calls : Scope(j)' = Scope(j)
    BY <2>2, <2>3, <2>5 DEF Scope
  <2>7. \A b \in Agents : log[b] \subseteq log'[b]
    BY <2>4
  <2>8. ResultsAreLogged'
    <3> SUFFICES ASSUME NEW j \in Calls, call'[j].at # "idle"
                 PROVE  call'[j].seen \subseteq log'[Scope(j)]
      BY <2>6
    <3>1. CASE j = k
      BY <3>1, <2>3, <2>4
    <3>2. CASE j # k
      <4>1. call'[j] = call[j] /\ call[j].seen \subseteq log[Scope(j)]
        BY <3>2, <2>2
      <4>2. Scope(j) \in Agents
        BY <4>1, ScopesFlatten
      <4> QED
        BY <4>1, <4>2, <2>7
    <3> QED
      BY <3>1, <3>2
  <2>9. ScopesAreOwn'
    <3> SUFFICES ASSUME ~watched, NEW j \in Calls, call'[j].parent = Root,
                        call'[j].at \in {"reading", "returning"},
                        call'[j].tool # "delegate"
                 PROVE  log'[j] \subseteq call'[j].met
      BY <2>5
    <3>1. CASE j = k
      BY <3>1, <2>3, <2>4, ScopesFlatten
    <3>2. CASE j # k
      <4>1. call'[j] = call[j] /\ log[j] \subseteq call[j].met
        BY <3>2, <2>2
      <4>2. Scope(k) # j
        BY <3>2, <4>1, <2>3, ScopesFlatten
      <4> QED
        BY <4>1, <4>2, <2>4, Numbers
    <3> QED
      BY <3>1, <3>2
  <2>10. EvidenceKept'
    <3> SUFFICES ASSUME watched PROVE touched \cup rows \subseteq log'[Root]
      BY <2>5
    <3>1. Scope(k) = Root
      BY <2>3, ScopesFlatten
    <3> QED
      BY <3>1, <2>4
  <2>11. SiblingsAreApart'
    BY <2>2, <2>3, <2>5
  <2> QED
    BY <2>5, <2>8, <2>9, <2>10, <2>11
<1>5. ASSUME NEW k \in Calls,
             UNCHANGED <<caller, watched, log, touched, told>>,
             \A j \in Calls \ {k} : call'[j] = call[j],
             call[k].at # "idle",
             call'[k].tool = call[k].tool, call'[k].parent = call[k].parent,
             call'[k].met = call[k].met, call'[k].seen \subseteq call[k].seen,
             \/ call[k].at = "reading" /\ call'[k].at # "raised"
             \/ call[k].tool = "delegate"
             \/ call[k].at = "returning" /\ ~(log[Scope(k)] \subseteq {caller})
                 /\ call'[k].at = "raised"
      PROVE  Isolation'
  <2>1. \A j \in Calls : Scope(j)' = Scope(j)
    BY <1>5 DEF Scope
  <2>2. ResultsAreLogged'
    BY <1>5, <2>1
  <2>3. ScopesAreOwn'
    BY <1>5
  <2>4. SiblingsAreApart'
    BY <1>5, ScopesFlatten
  <2> QED
    BY <1>5, <2>2, <2>3, <2>4
<1>6. ASSUME NEW k \in Calls, StopsEarly(k) PROVE Isolation'
  BY <1>5, <1>6 DEF StopsEarly, ToolsTypeOK, CallStates
<1>7. ASSUME NEW k \in Calls, ReadFails(k) PROVE Isolation'
  <2>1. \A j \in Calls \ {k} : call'[j] = call[j]
    BY <1>7 DEF ReadFails, ToolsTypeOK
  <2>2. /\ call[k].at = "reading" /\ call'[k].at \in {"reading", "returning"}
        /\ call'[k].tool = call[k].tool /\ call'[k].parent = call[k].parent
        /\ call'[k].met = call[k].met /\ call'[k].seen = {}
    BY <1>7 DEF ReadFails, ToolsTypeOK, CallStates
  <2> QED
    BY <1>5, <1>7, <2>1, <2>2 DEF ReadFails
<1>8. ASSUME NEW k \in Calls, Delegate(k) PROVE Isolation'
  BY <1>5, <1>8 DEF Delegate, ToolsTypeOK, CallStates
<1>9. ASSUME NEW k \in Calls, HandBack(k) \/ SpecialistRaises(k) PROVE Isolation'
  <2>1. call[k].tool = "delegate"
    BY <1>9 DEF HandBack, SpecialistRaises, Nesting, SpecialistsAreInside
  <2> QED
    BY <1>5, <1>9, <2>1 DEF HandBack, SpecialistRaises, ToolsTypeOK, CallStates
<1>10. ASSUME NEW k \in Calls, Return(k) PROVE Isolation'
  <2> DEFINE p == call[k].parent
  <2>1. \A j \in Calls :
          /\ call'[j].tool = call[j].tool /\ call'[j].parent = call[j].parent
          /\ call'[j].met = call[j].met
          /\ j # k => call'[j].at = call[j].at
          /\ call'[j].seen = IF j = p /\ j # k THEN call[p].seen \cup call[k].seen
                                               ELSE call[j].seen
    BY <1>10 DEF Return, ToolsTypeOK, CallStates
  <2>2. /\ call[k].at = "returning" /\ call'[k].at = "done"
        /\ log[Scope(k)] \subseteq {caller}
        /\ told' = IF p = Root THEN told \cup call[k].seen ELSE told
        /\ UNCHANGED <<caller, watched, log, touched>>
    BY <1>10 DEF Return, ScopedToCaller, ToolsTypeOK, CallStates
  <2>3. \A j \in Calls : Scope(j)' = Scope(j)
    BY <2>1, <2>2 DEF Scope
  <2>4. call[k].seen \subseteq log[Scope(k)]
    BY <2>2
  <2>5. ResultsAreLogged'
    <3> SUFFICES ASSUME NEW j \in Calls, call'[j].at # "idle"
                 PROVE  call'[j].seen \subseteq log[Scope(j)]
      BY <2>2, <2>3
    <3>1. call[j].at # "idle" /\ call[j].seen \subseteq log[Scope(j)]
      BY <2>1, <2>2
    <3>2. CASE j = p /\ j # k
      <4>1. p # Root
        BY <3>2, Numbers
      <4>2. Scope(p) = Scope(k)
        BY <4>1, <2>2, ScopesFlatten
      <4> QED
        BY <3>1, <3>2, <4>2, <2>1, <2>4
    <3>3. CASE ~(j = p /\ j # k)
      BY <3>1, <3>3, <2>1
    <3> QED
      BY <3>2, <3>3
  <2>6. ScopesAreOwn' /\ EvidenceKept' /\ SiblingsAreApart'
    BY <2>1, <2>2
  <2>7. NoForeignResult'
    BY <2>2, <2>4
  <2> QED
    BY <2>5, <2>6, <2>7
<1>11. ASSUME NEW k \in Calls, GuardFires(k) PROVE Isolation'
  BY <1>5, <1>11 DEF GuardFires, ScopedToCaller, ToolsTypeOK, CallStates
<1>12. ASSUME NEW a \in Agents, NEW n \in Calls, AskTooMany(a, n) PROVE Isolation'
  BY <1>3, <1>12 DEF AskTooMany, Asks
<1>13. ASSUME NEW a \in Agents, NEW how, EndsAs(a, how) PROVE Isolation'
  BY <1>3, <1>13 DEF EndsAs
<1>14. ASSUME NEW a \in Agents, BatchEnds(a) PROVE Isolation'
  BY <1>3, <1>14 DEF BatchEnds, Idle
<1>15. ASSUME (Ask \/ Leave) /\ UNCHANGED toolVars PROVE Isolation'
  BY <1>3, <1>15 DEF toolVars
<1>16. CASE UNCHANGED vars
  BY <1>3, <1>16 DEF vars, toolVars
<1> QED
  BY <1>1, <1>2, <1>4, <1>6, <1>7, <1>8, <1>9, <1>10, <1>11, <1>12, <1>13, <1>14, <1>15, <1>16
     DEF ToolsNext, Work, ModelAnswers, ModelFails

-----------------------------------------------------------------------------
(* The theorems *)

\* ToolsInv is an invariant of a turn.
THEOREM ToolsAreSafe == ToolsSpec => []ToolsInv
<1>1. ToolsInit => ToolsInv
  <2> SUFFICES ASSUME ToolsInit PROVE ToolsInv
    OBVIOUS
  <2>1. Off \in AgentStates /\ Idle \in CallStates
    BY Numbers DEF Off, Idle, AgentStates, CallStates, ToolNames
  <2>2. ToolsTypeOK
    BY <2>1 DEF ToolsInit, RepositoryInit, ToolsTypeOK
  <2>3. \A k \in Calls : call[k].at = "idle" /\ agent[k].at = "off"
    BY Numbers DEF ToolsInit, Idle, Off
  <2>4. told = {} /\ touched = {}
    BY DEF ToolsInit
  <2> QED
    BY <2>2, <2>3, <2>4 DEF ToolsInv, SpecialistsAreInside, AskersWait, ResultsAreLogged,
       ScopesAreOwn, NoForeignResult, EvidenceKept, SiblingsAreApart
<1>2. ToolsInv /\ [ToolsNext]_vars => ToolsInv'
  BY TypeStep, NestingStep, IsolationStep DEF ToolsInv, Nesting, Isolation
<1> QED
  BY <1>1, <1>2, PTL DEF ToolsSpec

\* Type correctness of a turn and its tool calls.
THEOREM ToolsTyped == ToolsSpec => []ToolsTypeOK
<1>1. ToolsInv => ToolsTypeOK
  BY DEF ToolsInv
<1> QED
  BY <1>1, ToolsAreSafe, PTL

\* No result the model is given was made from another customer's rows.
THEOREM ResultsAreTheCallers == ToolsSpec => []NoForeignResult
<1>1. ToolsInv => NoForeignResult
  BY DEF ToolsInv
<1> QED
  BY <1>1, ToolsAreSafe, PTL

\* An evaluator's log misses no customer whose rows the turn read.
THEOREM NoReadIsLost == ToolsSpec => []EvidenceKept
<1>1. ToolsInv => EvidenceKept
  BY DEF ToolsInv
<1> QED
  BY <1>1, ToolsAreSafe, PTL

\* Outside an evaluation a call is failed only for rows it has read itself.
THEOREM CallsAnswerForThemselves == ToolsSpec => []SiblingsAreApart
<1>1. ToolsInv => SiblingsAreApart
  BY DEF ToolsInv
<1> QED
  BY <1>1, ToolsAreSafe, PTL

-----------------------------------------------------------------------------
(* What a watched turn has not recorded yet *)

\* One pair for each call a specialist has asked for and not handed back.
Owes(k)    == {k} \X (1 .. agent[k].asked)
Unreported == UNION {Owes(k) : k \in Calls}

\* A specialist's calls are lost only with the turn: its call has raised, and
\* so will the root's tools node.
TurnIsLost ==
  \/ agent[Root].at = "failed"
  \/ \E k \in Calls : call[k].at = "raised" /\ call[k].parent = Root

Accounted == nested = recorded + Cardinality(Unreported)

Trajectory ==
  /\ \A k \in Calls : agent[k].at = "off" => agent[k].asked = 0
  /\ IsFiniteSet(Unreported)
  /\ watched => Accounted \/ TurnIsLost

\* The pairs of n calls asked for after the first m.
Batched(k, m, n) == {k} \X (m + 1 .. m + n)

LEMMA OwedSize ==
  ASSUME NEW k, NEW m \in Nat, NEW n \in Nat
  PROVE  IsFiniteSet(Batched(k, m, n)) /\ Cardinality(Batched(k, m, n)) = n
<1>1. IsFiniteSet(m + 1 .. m + n) /\ Cardinality(m + 1 .. m + n) = n
  BY FS_Interval
<1>2. IsFiniteSet({k}) /\ Cardinality({k}) = 1
  BY FS_Singleton
<1> QED
  BY <1>1, <1>2, FS_Product DEF Batched

\* A specialist asks for n calls more.
LEMMA AskingMore ==
  ASSUME ToolsTypeOK, IsFiniteSet(Unreported), NEW k \in Calls, NEW n \in Nat,
         agent'[k].asked = agent[k].asked + n,
         \A j \in Calls \ {k} : agent'[j].asked = agent[j].asked
  PROVE  /\ IsFiniteSet(Unreported')
         /\ Cardinality(Unreported') = Cardinality(Unreported) + n
<1> DEFINE m == agent[k].asked
           more == Batched(k, m, n)
<1>1. m \in Nat /\ \A j \in Calls : agent[j].asked \in Nat
  BY Numbers DEF ToolsTypeOK, AgentStates
<1>2. Owes(k)' = Owes(k) \cup more
  BY <1>1 DEF Owes, Batched
<1>3. \A j \in Calls \ {k} : Owes(j)' = Owes(j)
  BY DEF Owes
<1>4. Unreported' = Unreported \cup more
  BY <1>2, <1>3 DEF Unreported
<1>5. Unreported \cap more = {}
  BY <1>1 DEF Unreported, Owes, Batched
<1>6. IsFiniteSet(more) /\ Cardinality(more) = n
  BY <1>1, OwedSize
<1> HIDE DEF more
<1>7. Cardinality(Unreported \cap more) = 0
  BY <1>5, FS_EmptySet
<1>8. /\ IsFiniteSet(Unreported \cup more)
      /\ Cardinality(Unreported \cup more) =
           Cardinality(Unreported) + Cardinality(more) - Cardinality(Unreported \cap more)
  BY <1>6, FS_Union
<1> QED
  BY <1>4, <1>6, <1>7, <1>8, FS_CardinalityType

\* A specialist's account is closed.
LEMMA HandingBack ==
  ASSUME ToolsTypeOK, IsFiniteSet(Unreported), NEW k \in Calls, agent'[k].asked = 0,
         \A j \in Calls \ {k} : agent'[j].asked = agent[j].asked
  PROVE  /\ IsFiniteSet(Unreported')
         /\ Cardinality(Unreported) = Cardinality(Unreported') + agent[k].asked
<1>1. agent[k].asked \in Nat
  BY Numbers DEF ToolsTypeOK, AgentStates
<1>2. Owes(k)' = {} /\ \A j \in Calls \ {k} : Owes(j)' = Owes(j)
  BY DEF Owes
<1>3. Unreported = Unreported' \cup Owes(k) /\ Unreported' \cap Owes(k) = {}
  <2>1. \A j \in Calls \ {k} : Owes(j) \cap Owes(k) = {}
    BY DEF Owes
  <2> QED
    BY <1>2, <2>1 DEF Unreported
<1>4. IsFiniteSet(Owes(k)) /\ Cardinality(Owes(k)) = agent[k].asked
  <2>1. Owes(k) = Batched(k, 0, agent[k].asked)
    BY <1>1 DEF Owes, Batched
  <2> QED
    BY <1>1, <2>1, OwedSize
<1>5. IsFiniteSet(Unreported')
  BY <1>3, FS_Subset
<1>6. Cardinality(Unreported' \cup Owes(k)) = Cardinality(Unreported') + agent[k].asked - 0
  BY <1>3, <1>4, <1>5, FS_Union, FS_EmptySet
<1> QED
  BY <1>1, <1>3, <1>5, <1>6, FS_CardinalityType

\* Nothing a specialist owes has changed.
LEMMA SameAccount ==
  ASSUME Trajectory, UNCHANGED <<watched, nested, recorded>>,
         \A j \in Calls : agent'[j].asked = agent[j].asked,
         \A j \in Calls : agent'[j].at = "off" => agent[j].at = "off" \/ agent'[j].asked = 0,
         TurnIsLost => TurnIsLost'
  PROVE  Trajectory'
<1>1. \A j \in Calls : Owes(j)' = Owes(j)
  BY DEF Owes
<1>2. Unreported' = Unreported
  BY <1>1 DEF Unreported
<1> QED
  BY <1>2 DEF Trajectory, Accounted

\* A step of one call neither starts nor ends it, and keeps what raised.
LEMMA StillLost ==
  ASSUME TurnIsLost, agent'[Root].at = agent[Root].at \/ agent'[Root].at = "failed",
         \A j \in Calls : call[j].at = "raised" =>
           call'[j].at = "raised" /\ call'[j].parent = call[j].parent
  PROVE  TurnIsLost'
  BY DEF TurnIsLost

LEMMA TrajectoryStep ==
  ToolsTypeOK /\ Nesting /\ Trajectory /\ [ToolsNext]_vars => Trajectory'
<1> SUFFICES ASSUME ToolsTypeOK, Nesting, Trajectory, [ToolsNext]_vars PROVE Trajectory'
  OBVIOUS
<1> USE Numbers
<1>1. ASSUME NEW c \in Customers \cup {None}, NEW which \in {"flat", "supervisor"},
             NEW observed \in BOOLEAN, StartTurn(c, which, observed)
      PROVE  Trajectory'
  <2>1. \A k \in Calls : agent'[k].asked = 0
    BY <1>1 DEF StartTurn, Off
  <2>2. Unreported' = {}
    BY <2>1 DEF Unreported, Owes
  <2>3. nested' = 0 /\ recorded' = 0
    BY <1>1 DEF StartTurn
  <2> QED
    BY <2>1, <2>2, <2>3, FS_EmptySet DEF Trajectory, Accounted
<1>2. ASSUME NEW a \in Agents, NEW n \in Calls, Asks(a, n),
             agent'[a].asked = agent[a].asked + Traced(a, n),
             agent'[a].at \in {"tools", "over"},
             \A b \in Agents \ {a} : agent'[b] = agent[b],
             TurnIsLost => TurnIsLost'
      PROVE  Trajectory'
  <2>1. /\ agent[a].at = "model" /\ nested' = nested + Traced(a, n)
        /\ UNCHANGED <<watched, recorded>>
    BY <1>2 DEF Asks
  <2>2. nested \in Nat /\ recorded \in Nat /\ \A k \in Calls : agent[k].asked \in Nat
    BY DEF ToolsTypeOK, AgentStates
  <2>3. CASE a = Root \/ ~watched
    <3>1. Traced(a, n) = 0
      BY <2>3 DEF Traced
    <3>2. \A k \in Calls : agent'[k].asked = agent[k].asked
      BY <1>2, <2>2, <3>1
    <3>3. nested' = nested
      BY <2>1, <2>2, <3>1
    <3> QED
      BY <1>2, <2>1, <3>2, <3>3, SameAccount
  <2>4. CASE a # Root /\ watched
    <3>1. a \in Calls /\ Traced(a, n) = n /\ n \in Nat
      BY <2>4 DEF Traced
    <3>2. /\ IsFiniteSet(Unreported')
          /\ Cardinality(Unreported') = Cardinality(Unreported) + n
      BY <1>2, <3>1, AskingMore DEF Trajectory
    <3>3. Cardinality(Unreported) \in Nat
      BY FS_CardinalityType DEF Trajectory
    <3>4. Accounted => Accounted'
      BY <2>1, <2>2, <3>1, <3>2, <3>3 DEF Accounted
    <3>5. \A k \in Calls : agent'[k].at = "off" => agent'[k].asked = 0
      BY <1>2 DEF Trajectory
    <3> QED
      BY <1>2, <2>1, <3>2, <3>4, <3>5 DEF Trajectory
  <2> QED
    BY <2>3, <2>4
<1>3. ASSUME NEW a \in Agents, NEW n \in Calls, NEW tool \in [New(n) -> ToolsOf(a)],
             AskTools(a, n, tool)
      PROVE  Trajectory'
  <2>1. /\ Asks(a, n) /\ agent[a].at = "model"
        /\ agent'[a].asked = agent[a].asked + Traced(a, n) /\ agent'[a].at = "tools"
        /\ \A b \in Agents \ {a} : agent'[b] = agent[b]
    BY <1>3 DEF AskTools, Asks, ToolsTypeOK
  <2>2. \A j \in Calls : call[j].at = "raised" => call'[j] = call[j]
    BY <1>3 DEF AskTools, New, Free
  <2>3. TurnIsLost => TurnIsLost'
    BY <2>1, <2>2 DEF TurnIsLost
  <2> QED
    BY <1>2, <2>1, <2>3
<1>4. ASSUME NEW a \in Agents, NEW n \in Calls, AskTooMany(a, n) PROVE Trajectory'
  <2>1. /\ Asks(a, n) /\ agent[a].at = "model"
        /\ agent'[a].asked = agent[a].asked + Traced(a, n) /\ agent'[a].at = "over"
        /\ \A b \in Agents \ {a} : agent'[b] = agent[b]
    BY <1>4 DEF AskTooMany, Asks, ToolsTypeOK, AgentStates
  <2>2. call' = call
    BY <1>4 DEF AskTooMany
  <2>3. TurnIsLost => TurnIsLost'
    BY <2>1, <2>2 DEF TurnIsLost
  <2> QED
    BY <1>2, <2>1, <2>3
<1>5. ASSUME NEW a \in Agents, NEW how \in {"over", "failed"}, EndsAs(a, how) PROVE Trajectory'
  <2>1. /\ agent[a].at = "model" /\ agent'[a].at = how /\ agent'[a].asked = agent[a].asked
        /\ \A b \in Agents \ {a} : agent'[b] = agent[b]
        /\ UNCHANGED <<watched, call, nested, recorded>>
    BY <1>5 DEF EndsAs, ToolsTypeOK, AgentStates
  <2>2. TurnIsLost => TurnIsLost'
    BY <2>1 DEF TurnIsLost
  <2> QED
    BY <2>1, <2>2, SameAccount
<1>6. ASSUME NEW a \in Agents, BatchEnds(a) PROVE Trajectory'
  <2>1. /\ agent[a].at = "tools" /\ agent'[a].asked = agent[a].asked
        /\ agent'[a].at = IF \E k \in Batch(a) : call[k].at = "raised" THEN "failed" ELSE "model"
        /\ \A b \in Agents \ {a} : agent'[b] = agent[b]
        /\ UNCHANGED <<watched, nested, recorded>>
    BY <1>6 DEF BatchEnds, ToolsTypeOK, AgentStates
  <2>2. \A k \in Calls \ Batch(a) : call'[k] = call[k]
    BY <1>6 DEF BatchEnds
  <2>3. TurnIsLost => TurnIsLost'
    <3>1. CASE agent[Root].at = "failed"
      BY <3>1, <2>1 DEF TurnIsLost
    <3>2. ASSUME NEW k \in Calls, call[k].at = "raised", call[k].parent = Root
          PROVE  TurnIsLost'
      <4>1. CASE a = Root
        BY <3>2, <4>1, <2>1 DEF TurnIsLost, Batch
      <4>2. CASE a # Root
        BY <3>2, <4>2, <2>2 DEF TurnIsLost, Batch
      <4> QED
        BY <4>1, <4>2
    <3> QED
      BY <3>1, <3>2 DEF TurnIsLost
  <2>4. \A j \in Calls : agent'[j].at = "off" => agent[j].at = "off"
    BY <2>1
  <2>5. \A j \in Calls : agent'[j].asked = agent[j].asked
    BY <2>1
  <2> QED
    BY <2>1, <2>3, <2>4, <2>5, SameAccount
<1>7. ASSUME NEW k \in Calls, call[k].at # "raised",
             \A j \in Calls \ {k} : call'[j].at = call[j].at /\ call'[j].parent = call[j].parent,
             UNCHANGED <<agent, watched, nested, recorded>>
      PROVE  Trajectory'
  <2>1. TurnIsLost => TurnIsLost'
    BY <1>7 DEF TurnIsLost
  <2> QED
    BY <1>7, <2>1, SameAccount
<1>8. ASSUME NEW k \in Calls, NEW c \in Customers, ReadRows(k, c) PROVE Trajectory'
  BY <1>7, <1>8 DEF ReadRows, ToolsTypeOK
<1>9. ASSUME NEW k \in Calls, StopsEarly(k) \/ ReadFails(k) PROVE Trajectory'
  BY <1>7, <1>9 DEF StopsEarly, ReadFails, ToolsTypeOK
<1>10. ASSUME NEW k \in Calls, Return(k) \/ GuardFires(k) PROVE Trajectory'
  BY <1>7, <1>10 DEF Return, GuardFires, ToolsTypeOK, CallStates
<1>11. ASSUME NEW k \in Calls, Delegate(k) PROVE Trajectory'
  <2>1. /\ call[k].at = "reading" /\ agent'[k].at = "model" /\ agent'[k].asked = 0
        /\ \A j \in Calls \ {k} : call'[j] = call[j]
        /\ \A b \in Agents \ {k} : agent'[b] = agent[b]
        /\ UNCHANGED <<watched, nested, recorded>>
    BY <1>11 DEF Delegate, Started, Off, ToolsTypeOK
  <2>2. agent[k].at = "off"
    BY <2>1 DEF Nesting, SpecialistsAreInside
  <2>3. agent[k].asked = 0
    BY <2>2 DEF Trajectory
  <2>4. TurnIsLost => TurnIsLost'
    BY <2>1 DEF TurnIsLost
  <2>5. \A j \in Calls : agent'[j].asked = agent[j].asked
    BY <2>1, <2>3
  <2>6. \A j \in Calls : agent'[j].at = "off" => agent[j].at = "off"
    BY <2>1
  <2> QED
    BY <2>1, <2>4, <2>5, <2>6, SameAccount
<1>12. ASSUME NEW k \in Calls, HandBack(k) PROVE Trajectory'
  <2>1. /\ call[k].at = "delegating" /\ agent'[k].at = "off" /\ agent'[k].asked = 0
        /\ \A j \in Calls \ {k} : call'[j] = call[j]
        /\ \A b \in Agents \ {k} : agent'[b] = agent[b]
        /\ recorded' = recorded + agent[k].asked
        /\ UNCHANGED <<watched, nested>>
    BY <1>12 DEF HandBack, RecordNested, Off, ToolsTypeOK
  <2>2. TurnIsLost => TurnIsLost'
    BY <2>1 DEF TurnIsLost
  <2>3. /\ IsFiniteSet(Unreported')
        /\ Cardinality(Unreported) = Cardinality(Unreported') + agent[k].asked
    BY <2>1, HandingBack DEF Trajectory
  <2>4. /\ nested \in Nat /\ recorded \in Nat /\ agent[k].asked \in Nat
        /\ Cardinality(Unreported') \in Nat
    BY <2>3, FS_CardinalityType DEF ToolsTypeOK, AgentStates
  <2>5. Accounted => Accounted'
    BY <2>1, <2>3, <2>4 DEF Accounted
  <2>6. \A j \in Calls : agent'[j].at = "off" => agent'[j].asked = 0
    BY <2>1 DEF Trajectory
  <2> QED
    BY <2>1, <2>2, <2>3, <2>5, <2>6 DEF Trajectory
<1>13. ASSUME NEW k \in Calls, SpecialistRaises(k) PROVE Trajectory'
  <2>1. /\ call[k].at = "delegating" /\ agent'[k].at = "off" /\ agent'[k].asked = 0
        /\ call'[k].at = "raised" /\ call'[k].parent = call[k].parent
        /\ \A b \in Agents \ {k} : agent'[b] = agent[b]
    BY <1>13 DEF SpecialistRaises, Off, ToolsTypeOK, CallStates
  <2>2. call[k].parent = Root
    BY <2>1 DEF Nesting, SpecialistsAreInside
  <2>3. TurnIsLost'
    BY <2>1, <2>2 DEF TurnIsLost
  <2>4. IsFiniteSet(Unreported')
    BY <2>1, HandingBack DEF Trajectory
  <2>5. \A j \in Calls : agent'[j].at = "off" => agent'[j].asked = 0
    BY <2>1 DEF Trajectory
  <2> QED
    BY <2>3, <2>4, <2>5 DEF Trajectory
<1>14. CASE UNCHANGED toolVars
  <2>1. UNCHANGED <<watched, nested, recorded, agent, call>>
    BY <1>14 DEF toolVars
  <2>2. TurnIsLost => TurnIsLost'
    BY <2>1 DEF TurnIsLost
  <2> QED
    BY <2>1, <2>2, SameAccount
<1> QED
  BY <1>1, <1>3, <1>4, <1>5, <1>6, <1>8, <1>9, <1>10, <1>11, <1>12, <1>13, <1>14
     DEF ToolsNext, Work, ModelAnswers, ModelFails, vars

\* When a watched turn ends normally, every call its specialists asked for has
\* been recorded.
THEOREM TrajectoriesAreComplete == ToolsSpec => []TrajectoryIsComplete
<1>1. ToolsInit => Trajectory
  <2> SUFFICES ASSUME ToolsInit PROVE Trajectory
    OBVIOUS
  <2>1. watched = FALSE /\ \A k \in Calls : agent[k].asked = 0
    BY Numbers DEF ToolsInit, Off
  <2>2. Unreported = {}
    BY <2>1 DEF Unreported, Owes
  <2> QED
    BY <2>1, <2>2, FS_EmptySet DEF Trajectory
<1>2. ToolsInv => ToolsTypeOK /\ Nesting
  BY DEF ToolsInv, Nesting
<1>3. ToolsTypeOK /\ Nesting /\ Trajectory => TrajectoryIsComplete
  <2> SUFFICES ASSUME ToolsTypeOK, Nesting, Trajectory, watched, agent[Root].at = "over"
               PROVE  recorded = nested
    BY DEF TrajectoryIsComplete
  <2>1. \A k \in Calls : call[k].at # "idle" => call[k].parent # Root
    BY DEF Nesting, AskersWait
  <2>2. \A k \in Calls : agent[k].at = "off" /\ agent[k].asked = 0
    BY <2>1 DEF Nesting, SpecialistsAreInside, Trajectory
  <2>3. Unreported = {}
    BY <2>2 DEF Unreported, Owes
  <2>4. ~TurnIsLost
    BY <2>1 DEF TurnIsLost
  <2> QED
    BY <2>3, <2>4, FS_EmptySet DEF Trajectory, Accounted, ToolsTypeOK
<1> QED
  BY <1>1, <1>2, <1>3, ToolsAreSafe, TrajectoryStep, PTL DEF ToolsSpec

-----------------------------------------------------------------------------
(* What a caller outside an agent is told *)

\* An agent at work leaves a direct caller's answer alone.
LEMMA RepositorySteps ==
  [ToolsNext]_vars => Ask \/ Leave \/ UNCHANGED repositoryVars
<1>1. ASSUME Work PROVE UNCHANGED repositoryVars
  <2>1. ASSUME NEW a \in Agents, NEW n \in Calls, NEW tool \in [New(n) -> ToolsOf(a)],
               AskTools(a, n, tool)
        PROVE  UNCHANGED repositoryVars
    BY <2>1 DEF AskTools, Asks
  <2>2. ASSUME NEW a \in Agents, NEW n \in Calls, AskTooMany(a, n)
        PROVE  UNCHANGED repositoryVars
    BY <2>2 DEF AskTooMany, Asks
  <2>3. ASSUME NEW a \in Agents, ModelAnswers(a) \/ ModelFails(a) \/ BatchEnds(a)
        PROVE  UNCHANGED repositoryVars
    BY <2>3 DEF ModelAnswers, ModelFails, EndsAs, BatchEnds
  <2>4. ASSUME NEW k \in Calls,
               \/ \E c \in Customers : ReadRows(k, c)
               \/ StopsEarly(k) \/ ReadFails(k) \/ Delegate(k) \/ HandBack(k)
               \/ SpecialistRaises(k) \/ Return(k) \/ GuardFires(k)
        PROVE  UNCHANGED repositoryVars
    BY <2>4 DEF ReadRows, StopsEarly, ReadFails, Delegate, HandBack, SpecialistRaises,
       Return, GuardFires
  <2> QED
    BY <1>1, <2>1, <2>2, <2>3, <2>4 DEF Work
<1>2. ASSUME NEW c, NEW which, NEW observed, StartTurn(c, which, observed)
      PROVE  UNCHANGED repositoryVars
  BY <1>2 DEF StartTurn
<1> QED
  BY <1>1, <1>2 DEF ToolsNext, vars

\* Every answer a caller still holds is what its query computes of the database.
THEOREM AnswersAreKept == ToolsSpec => []AnswersAreTrue
<1>1. ToolsInit => AnswersAreTrue
  BY AnswersStayTrue DEF ToolsInit
<1>2. AnswersAreTrue /\ [ToolsNext]_vars => AnswersAreTrue'
  BY AnswersStayTrue, RepositorySteps
<1> QED
  BY <1>1, <1>2, PTL DEF ToolsSpec

\* What is recommended is not owned, one track an artist, inside the profile,
\* familiar artists first, and nothing more could be: for any purchases.
THEOREM RecommendationsCanBeTrusted == ToolsSpec => []RecommendationsAreSound
  BY AnswersAreKept, TrueAnswersSuffice, PTL

\* A customer can refund the lines of the invoices they can open, whatever the
\* database holds: the two reads check ownership alike.
THEOREM RefundsFollowTheScreen == ToolsSpec => []RefundableIsShown
  BY AnswersAreKept, TrueAnswersSuffice, PTL

\* Refunds follow the screen, and the summary SQL adds up agrees with the
\* invoices a customer can open and with the list of them.
THEOREM ReadsTellOneStory == ToolsSpec => []ReadsAgree
<1>1. AnswersAreTrue => ReadsAgree
  BY TrueAnswersSuffice DEF ReadsAgree
<1> QED
  BY <1>1, AnswersAreKept, PTL

-----------------------------------------------------------------------------
(* What a step uses up *)

\* The reads a tool makes, at most.
HowMany(tool) == IF tool = "catalog" THEN 3 ELSE 1

\* Agents keep to their limits, and calls to their retries and their reads.
WithinBounds ==
  /\ \A a \in Agents : agent[a].at \in {"model", "tools"} => agent[a].used <= Limit(a)
  /\ \A k \in Calls :
       call[k].at = "reading" =>
         call[k].tries <= MaxRetries /\ call[k].step <= HowMany(call[k].tool)

LEMMA ToolLengths ==
  \A tool : Len(ReadsOf(tool)) = HowMany(tool)
  BY DEF ReadsOf, HowMany

LEMMA LimitsAreNumbers == \A a : Limit(a) \in Nat
  BY ToolsAssumption DEF Limit

LEMMA AgentsHaveLeft ==
  ASSUME ToolsTypeOK, NEW a \in Agents
  PROVE  /\ AgentLeft(a) \in Int
         /\ agent[a].at \in {"off", "over", "failed"} => AgentLeft(a) = 0
         /\ agent[a].at = "model" => AgentLeft(a) = 2 * (Limit(a) - agent[a].used) + 1
         /\ agent[a].at = "tools" => AgentLeft(a) = 2 * (Limit(a) - agent[a].used) + 2
<1>1. agent[a].at \in {"off", "model", "tools", "over", "failed"} /\ agent[a].used \in Nat
  BY DEF ToolsTypeOK, AgentStates
<1> QED
  BY <1>1, LimitsAreNumbers DEF AgentLeft

LEMMA CallsHaveLeft ==
  ASSUME ToolsTypeOK, NEW k \in Calls
  PROVE  /\ CallLeft(k) \in Int
         /\ call[k].at \in {"idle", "done", "raised"} => CallLeft(k) = 0
         /\ call[k].at = "returning" => CallLeft(k) = 1
         /\ call[k].at = "delegating" => CallLeft(k) = 2
         /\ call[k].at = "reading" =>
              CallLeft(k) = 4 * (MaxRetries + 1 - call[k].tries) + 2 - call[k].step
         /\ WithinBounds /\ call[k].at = "reading" => CallLeft(k) > 2
<1>1. /\ call[k].at \in {"idle", "reading", "delegating", "returning", "done", "raised"}
      /\ call[k].tries \in Nat /\ call[k].step \in Nat /\ MaxRetries \in Nat
  BY ToolsAssumption DEF ToolsTypeOK, CallStates
<1>2. /\ call[k].at \in {"idle", "done", "raised"} => CallLeft(k) = 0
      /\ call[k].at = "returning" => CallLeft(k) = 1
      /\ call[k].at = "delegating" => CallLeft(k) = 2
      /\ call[k].at = "reading" =>
           CallLeft(k) = 4 * (MaxRetries + 1 - call[k].tries) + 2 - call[k].step
  BY <1>1 DEF CallLeft
<1>3. WithinBounds /\ call[k].at = "reading" =>
        call[k].tries <= MaxRetries /\ call[k].step <= 3
  <2>1. HowMany(call[k].tool) \in 1 .. 3
    BY DEF HowMany
  <2> QED
    BY <1>1, <2>1 DEF WithinBounds
<1> QED
  BY <1>1, <1>2, <1>3

\* The same of the next state.
LEMMA HaveLeftNext ==
  ASSUME ToolsTypeOK'
  PROVE  /\ \A a \in Agents :
              /\ AgentLeft(a)' \in Int
              /\ agent'[a].at \in {"off", "over", "failed"} => AgentLeft(a)' = 0
              /\ agent'[a].at = "model" => AgentLeft(a)' = 2 * (Limit(a) - agent'[a].used) + 1
              /\ agent'[a].at = "tools" => AgentLeft(a)' = 2 * (Limit(a) - agent'[a].used) + 2
         /\ \A k \in Calls :
              /\ CallLeft(k)' \in Int
              /\ call'[k].at \in {"idle", "done", "raised"} => CallLeft(k)' = 0
              /\ call'[k].at = "returning" => CallLeft(k)' = 1
              /\ call'[k].at = "delegating" => CallLeft(k)' = 2
              /\ call'[k].at = "reading" =>
                   CallLeft(k)' = 4 * (MaxRetries + 1 - call'[k].tries) + 2 - call'[k].step
<1>1. ASSUME NEW a \in Agents
      PROVE  /\ AgentLeft(a)' \in Int
             /\ agent'[a].at \in {"off", "over", "failed"} => AgentLeft(a)' = 0
             /\ agent'[a].at = "model" => AgentLeft(a)' = 2 * (Limit(a) - agent'[a].used) + 1
             /\ agent'[a].at = "tools" => AgentLeft(a)' = 2 * (Limit(a) - agent'[a].used) + 2
  <2>1. agent'[a].at \in {"off", "model", "tools", "over", "failed"} /\ agent'[a].used \in Nat
    BY DEF ToolsTypeOK, AgentStates
  <2> QED
    BY <2>1, LimitsAreNumbers DEF AgentLeft
<1>2. ASSUME NEW k \in Calls
      PROVE  /\ CallLeft(k)' \in Int
             /\ call'[k].at \in {"idle", "done", "raised"} => CallLeft(k)' = 0
             /\ call'[k].at = "returning" => CallLeft(k)' = 1
             /\ call'[k].at = "delegating" => CallLeft(k)' = 2
             /\ call'[k].at = "reading" =>
                  CallLeft(k)' = 4 * (MaxRetries + 1 - call'[k].tries) + 2 - call'[k].step
  <2>1. /\ call'[k].at \in {"idle", "reading", "delegating", "returning", "done", "raised"}
        /\ call'[k].tries \in Nat /\ call'[k].step \in Nat /\ MaxRetries \in Nat
    BY ToolsAssumption DEF ToolsTypeOK, CallStates
  <2> QED
    BY <2>1 DEF CallLeft
<1> QED
  BY <1>1, <1>2

LEMMA AgentSpends ==
  ASSUME NEW a \in Agents, AgentLeft(a)' < AgentLeft(a),
         \A b \in Agents : b # a => AgentLeft(b)' <= AgentLeft(b),
         \A k \in Calls : CallLeft(k)' <= CallLeft(k) \/ call'[k].parent = a
  PROVE  Spends
<1> DEFINE x == <<"agent", a>>
<1>1. x \in Workers
  BY DEF Workers
<1>2. Left(x)' < Left(x)
  BY DEF Left
<1>3. ASSUME NEW y \in Workers PROVE y = x \/ Left(y)' <= Left(y) \/ Boss(y)' = x
  <2>1. CASE y \in {"agent"} \X Agents
    <3>1. PICK b \in Agents : y = <<"agent", b>>
      BY <2>1
    <3> QED
      BY <3>1 DEF Left
  <2>2. CASE y \in {"call"} \X Calls
    <3>1. PICK k \in Calls : y = <<"call", k>>
      BY <2>2
    <3> QED
      BY <3>1 DEF Left, Boss
  <2> QED
    BY <2>1, <2>2 DEF Workers
<1> HIDE DEF x
<1> QED
  BY <1>1, <1>2, <1>3 DEF Spends

LEMMA CallSpends ==
  ASSUME NEW k \in Calls, CallLeft(k)' < CallLeft(k),
         \A j \in Calls : j # k => CallLeft(j)' <= CallLeft(j),
         \A a \in Agents : AgentLeft(a)' <= AgentLeft(a) \/ a = k
  PROVE  Spends
<1> DEFINE x == <<"call", k>>
<1>1. x \in Workers
  BY DEF Workers
<1>2. Left(x)' < Left(x)
  BY DEF Left
<1>3. ASSUME NEW y \in Workers PROVE y = x \/ Left(y)' <= Left(y) \/ Boss(y)' = x
  <2>1. CASE y \in {"agent"} \X Agents
    <3>1. PICK b \in Agents : y = <<"agent", b>>
      BY <2>1
    <3> QED
      BY <3>1 DEF Left, Boss
  <2>2. CASE y \in {"call"} \X Calls
    <3>1. PICK j \in Calls : y = <<"call", j>>
      BY <2>2
    <3> QED
      BY <3>1 DEF Left
  <2> QED
    BY <2>1, <2>2 DEF Workers
<1> HIDE DEF x
<1> QED
  BY <1>1, <1>2, <1>3 DEF Spends

LEMMA BoundsStep ==
  ASSUME ToolsTypeOK, ToolsTypeOK', WithinBounds, [ToolsNext]_vars
  PROVE  WithinBounds'
<1> USE Numbers DEF WithinBounds
<1>1. ASSUME NEW c \in Customers \cup {None}, NEW which \in {"flat", "supervisor"},
             NEW observed \in BOOLEAN, StartTurn(c, which, observed)
      PROVE  WithinBounds'
  BY <1>1, LimitsAreNumbers DEF StartTurn, Started, Off, Idle
<1>2. ASSUME NEW a \in Agents, NEW n \in Calls, NEW tool \in [New(n) -> ToolsOf(a)],
             AskTools(a, n, tool)
      PROVE  WithinBounds'
  <2>1. \A b \in Agents : agent'[b].at \in {"model", "tools"} => agent'[b].used <= Limit(b)
    BY <1>2 DEF AskTools, Allowed, ToolsTypeOK
  <2>2. \A k \in New(n) : Opened(a, tool[k]).tries = 0 /\ Opened(a, tool[k]).step = 1
    BY DEF Opened, Idle
  <2>3. \A k \in Calls : call'[k] = IF k \in New(n) THEN Opened(a, tool[k]) ELSE call[k]
    BY <1>2 DEF AskTools
  <2>4. ASSUME NEW k \in Calls, call'[k].at = "reading"
        PROVE  call'[k].tries <= MaxRetries /\ call'[k].step <= HowMany(call'[k].tool)
    <3>1. HowMany(call'[k].tool) \in 1 .. 3
      BY DEF HowMany
    <3>2. CASE k \in New(n)
      BY <2>2, <2>3, <3>1, <3>2, ToolsAssumption
    <3>3. CASE k \notin New(n)
      BY <2>3, <2>4, <3>3
    <3> QED
      BY <3>2, <3>3
  <2> QED
    BY <2>1, <2>4 DEF Limit
<1>3. ASSUME NEW a \in Agents, (\E n \in Calls : AskTooMany(a, n)) \/ ModelAnswers(a) \/ ModelFails(a)
      PROVE  WithinBounds'
  <2>1. call' = call /\ \A b \in Agents : agent'[b].at \in {"model", "tools"} => agent'[b] = agent[b]
    BY <1>3 DEF AskTooMany, ModelAnswers, ModelFails, EndsAs, ToolsTypeOK, AgentStates
  <2> QED
    BY <2>1 DEF Limit
<1>4. ASSUME NEW a \in Agents, BatchEnds(a) PROVE WithinBounds'
  <2>1. \A b \in Agents : agent'[b].at \in {"model", "tools"} => agent'[b].used <= Limit(b)
    BY <1>4 DEF BatchEnds, ToolsTypeOK, AgentStates
  <2>2. \A k \in Calls : call'[k] = IF k \in Batch(a) THEN Idle ELSE call[k]
    BY <1>4 DEF BatchEnds
  <2>3. Idle.at # "reading"
    BY DEF Idle
  <2> QED
    BY <2>1, <2>2, <2>3 DEF Limit
<1>5. ASSUME NEW k \in Calls, agent' = agent, NEW j \in Calls,
             \A i \in Calls : i # k /\ i # j => call'[i] = call[i],
             j # k => call'[j] = [call[j] EXCEPT !.seen = call'[j].seen],
             call'[k].at = "reading" =>
               call'[k].tries <= MaxRetries /\ call'[k].step <= HowMany(call'[k].tool)
      PROVE  WithinBounds'
  <2>1. \A i \in Calls : i # k =>
          call'[i].at = call[i].at /\ call'[i].tries = call[i].tries
            /\ call'[i].step = call[i].step /\ call'[i].tool = call[i].tool
    BY <1>5 DEF ToolsTypeOK, CallStates
  <2> QED
    BY <1>5, <2>1 DEF Limit
<1>6. ASSUME NEW k \in Calls, NEW c \in Customers, ReadRows(k, c) PROVE WithinBounds'
  <2>1. PICK rows : Reads(k, c, rows) /\ agent' = agent
    BY <1>6 DEF ReadRows, Reads
  <2>2. \A i \in Calls : i # k => call'[i] = call[i]
    BY <2>1 DEF Reads, ToolsTypeOK
  <2>3. call'[k].at = "reading" =>
          call'[k].tries <= MaxRetries /\ call'[k].step <= HowMany(call'[k].tool)
    <3>1. /\ call[k].at = "reading" /\ call'[k].tries = call[k].tries
          /\ call'[k].step = call[k].step + 1 /\ call'[k].tool = call[k].tool
          /\ call'[k].at = "reading" => call[k].step # HowMany(call[k].tool)
      BY <2>1, ToolLengths DEF Reads, ToolsTypeOK, CallStates
    <3>2. HowMany(call[k].tool) \in 1 .. 3 /\ call[k].step \in Nat
      BY DEF HowMany, ToolsTypeOK, CallStates
    <3>3. call[k].tries <= MaxRetries /\ call[k].step <= HowMany(call[k].tool)
      BY <3>1
    <3>4. call[k].step # HowMany(call[k].tool) => call[k].step + 1 <= HowMany(call[k].tool)
      BY <3>2, <3>3
    <3> QED
      BY <3>1, <3>3, <3>4
  <2> QED
    BY <1>5, <2>1, <2>2, <2>3
<1>7. ASSUME NEW k \in Calls, StopsEarly(k) \/ GuardFires(k) PROVE WithinBounds'
  <2>1. agent' = agent /\ \A j \in Calls : call'[j].at = "reading" => call'[j] = call[j]
    BY <1>7 DEF StopsEarly, GuardFires, ToolsTypeOK, CallStates
  <2> QED
    BY <2>1 DEF Limit
<1>8. ASSUME NEW k \in Calls, ReadFails(k) PROVE WithinBounds'
  <2>1. agent' = agent /\ \A i \in Calls : i # k => call'[i] = call[i]
    BY <1>8 DEF ReadFails, ToolsTypeOK
  <2>2. call'[k].at = "reading" =>
          /\ call'[k].tries = call[k].tries + 1 /\ call[k].tries < MaxRetries
          /\ call'[k].step = 1
    BY <1>8 DEF ReadFails, ToolsTypeOK, CallStates
  <2>3. call[k].tries \in Nat
    BY DEF ToolsTypeOK, CallStates
  <2>4. call'[k].at = "reading" =>
          call'[k].tries <= MaxRetries /\ call'[k].step <= HowMany(call'[k].tool)
    <3>1. HowMany(call'[k].tool) \in 1 .. 3
      BY DEF HowMany
    <3> QED
      BY <2>2, <2>3, <3>1, ToolsAssumption
  <2> QED
    BY <1>5, <2>1, <2>4
<1>9. ASSUME NEW k \in Calls, Delegate(k) \/ HandBack(k) \/ SpecialistRaises(k)
      PROVE  WithinBounds'
  <2>1. \A b \in Agents : agent'[b].at \in {"model", "tools"} => agent'[b].used <= Limit(b)
    BY <1>9, LimitsAreNumbers DEF Delegate, HandBack, SpecialistRaises, ToolsTypeOK, Started, Off
  <2>2. \A j \in Calls : call'[j].at = "reading" => call'[j] = call[j]
    BY <1>9 DEF Delegate, HandBack, SpecialistRaises, ToolsTypeOK, CallStates
  <2> QED
    BY <2>1, <2>2 DEF Limit
<1>10. ASSUME NEW k \in Calls, Return(k) PROVE WithinBounds'
  <2>1. agent' = agent
    BY <1>10 DEF Return
  <2>2. \A j \in Calls : call'[j].at = "reading" =>
          call[j].at = "reading" /\ call'[j].tries = call[j].tries
            /\ call'[j].step = call[j].step /\ call'[j].tool = call[j].tool
    BY <1>10 DEF Return, ToolsTypeOK, CallStates
  <2> QED
    BY <2>1, <2>2 DEF Limit
<1>11. ASSUME (Ask \/ Leave) /\ UNCHANGED toolVars PROVE WithinBounds'
  BY <1>11 DEF toolVars, Limit
<1>12. CASE UNCHANGED vars
  BY <1>12 DEF vars, toolVars, Limit
<1> QED
  BY <1>1, <1>2, <1>3, <1>4, <1>6, <1>7, <1>8, <1>9, <1>10, <1>11, <1>12 DEF ToolsNext, Work

LEMMA EachStepSpends ==
  ASSUME ToolsTypeOK, ToolsTypeOK', WithinBounds, Work
  PROVE  Spends
<1> USE Numbers
<1>1. /\ \A a \in Agents : AgentLeft(a) \in Int /\ AgentLeft(a)' \in Int
                             /\ (agent'[a] = agent[a] => AgentLeft(a)' = AgentLeft(a))
      /\ \A k \in Calls : CallLeft(k) \in Int /\ CallLeft(k)' \in Int
                            /\ (call'[k] = call[k] => CallLeft(k)' = CallLeft(k))
  BY AgentsHaveLeft, CallsHaveLeft, HaveLeftNext DEF AgentLeft, CallLeft, Limit
<1>2. ASSUME NEW a \in Agents, NEW n \in Calls, NEW tool \in [New(n) -> ToolsOf(a)],
             AskTools(a, n, tool)
      PROVE  Spends
  <2>1. /\ agent[a].at = "model" /\ agent'[a].at = "tools"
        /\ agent'[a].used = agent[a].used + n
        /\ \A b \in Agents : b # a => agent'[b] = agent[b]
    BY <1>2 DEF AskTools, Asks, Counted, ToolsTypeOK, AgentStates
  <2>2. AgentLeft(a)' < AgentLeft(a)
    <3>1. n \in Nat \ {0} /\ agent[a].used \in Nat /\ Limit(a) \in Nat
      BY LimitsAreNumbers DEF Calls, ToolsTypeOK, AgentStates
    <3>2. /\ AgentLeft(a) = 2 * (Limit(a) - agent[a].used) + 1
          /\ AgentLeft(a)' = 2 * (Limit(a) - agent'[a].used) + 2
      BY <2>1, AgentsHaveLeft, HaveLeftNext
    <3> QED
      BY <2>1, <3>1, <3>2
  <2>3. \A k \in Calls : CallLeft(k)' <= CallLeft(k) \/ call'[k].parent = a
    <3>1. \A k \in Calls : k \in New(n) => call'[k].parent = a
      BY <1>2 DEF AskTools, Opened, Idle
    <3>2. \A k \in Calls : k \notin New(n) => call'[k] = call[k]
      BY <1>2 DEF AskTools
    <3> QED
      BY <1>1, <3>1, <3>2
  <2> QED
    BY <1>1, <2>1, <2>2, <2>3, AgentSpends
<1>3. ASSUME NEW a \in Agents, NEW how \in {"over", "failed"}, agent[a].at = "model",
             agent'[a].at = how, \A b \in Agents : b # a => agent'[b] = agent[b], call' = call
      PROVE  Spends
  <2>1. AgentLeft(a) > 0 /\ AgentLeft(a)' = 0
    <3>1. agent[a].used <= Limit(a) /\ agent[a].used \in Nat /\ Limit(a) \in Nat
      BY <1>3, LimitsAreNumbers DEF WithinBounds, ToolsTypeOK, AgentStates
    <3> QED
      BY <1>3, <3>1, AgentsHaveLeft, HaveLeftNext
  <2> QED
    BY <1>1, <1>3, <2>1, AgentSpends
<1>4. ASSUME NEW a \in Agents, BatchEnds(a) PROVE Spends
  <2>1. /\ agent[a].at = "tools" /\ agent'[a].at \in {"failed", "model"}
        /\ agent'[a].used = agent[a].used
        /\ \A b \in Agents : b # a => agent'[b] = agent[b]
    BY <1>4 DEF BatchEnds, ToolsTypeOK, AgentStates
  <2>2. AgentLeft(a)' < AgentLeft(a)
    <3>1. agent[a].used <= Limit(a) /\ agent[a].used \in Nat /\ Limit(a) \in Nat
      BY <2>1, LimitsAreNumbers DEF WithinBounds, ToolsTypeOK, AgentStates
    <3> QED
      BY <2>1, <3>1, AgentsHaveLeft, HaveLeftNext
  <2>3. \A k \in Calls : CallLeft(k)' <= CallLeft(k)
    <3> TAKE k \in Calls
    <3>1. CASE k \in Batch(a)
      <4>1. call[k].at \in {"done", "raised"} /\ call'[k].at = "idle"
        BY <1>4, <3>1 DEF BatchEnds, Idle
      <4> QED
        BY <4>1, CallsHaveLeft, HaveLeftNext
    <3>2. CASE k \notin Batch(a)
      BY <1>1, <1>4, <3>2 DEF BatchEnds
    <3> QED
      BY <3>1, <3>2
  <2> QED
    BY <1>1, <2>1, <2>2, <2>3, AgentSpends
<1>5. ASSUME NEW k \in Calls, CallLeft(k)' < CallLeft(k),
             \A j \in Calls : j # k => call'[j] = call[j],
             \A a \in Agents : a # k => agent'[a] = agent[a]
      PROVE  Spends
  <2>1. \A a \in Agents : AgentLeft(a)' <= AgentLeft(a) \/ a = k
    BY <1>1, <1>5
  <2> QED
    BY <1>1, <1>5, <2>1, CallSpends
<1>6. ASSUME NEW k \in Calls, NEW c \in Customers, ReadRows(k, c) PROVE Spends
  <2>1. PICK rows : Reads(k, c, rows) /\ agent' = agent
    BY <1>6 DEF ReadRows, Reads
  <2>2. /\ call[k].at = "reading" /\ call'[k].at \in {"reading", "returning"}
        /\ call'[k].step = call[k].step + 1 /\ call'[k].tries = call[k].tries
        /\ \A j \in Calls : j # k => call'[j] = call[j]
    BY <2>1 DEF Reads, ToolsTypeOK, CallStates
  <2>3. call[k].step \in Nat /\ call[k].tries \in Nat /\ MaxRetries \in Nat
    BY ToolsAssumption DEF ToolsTypeOK, CallStates
  <2>4. CallLeft(k)' < CallLeft(k)
    BY <2>2, <2>3, CallsHaveLeft, HaveLeftNext
  <2> QED
    BY <1>5, <2>1, <2>2, <2>4
<1>7. ASSUME NEW k \in Calls, ReadFails(k) PROVE Spends
  <2>1. /\ call[k].at = "reading" /\ agent' = agent
        /\ \A j \in Calls : j # k => call'[j] = call[j]
    BY <1>7 DEF ReadFails, ToolsTypeOK
  <2>2. \/ call'[k].at = "returning"
        \/ /\ call'[k].at = "reading" /\ call'[k].step = 1
           /\ call'[k].tries = call[k].tries + 1
    BY <1>7 DEF ReadFails, ToolsTypeOK, CallStates
  <2>3. /\ call[k].step \in Nat /\ call[k].tries \in Nat /\ MaxRetries \in Nat
        /\ call[k].step <= 3
    <3>1. HowMany(call[k].tool) \in 1 .. 3
      BY DEF HowMany
    <3>2. call[k].step \in Nat /\ call[k].tries \in Nat /\ MaxRetries \in Nat
      BY ToolsAssumption DEF ToolsTypeOK, CallStates
    <3>3. call[k].step <= HowMany(call[k].tool)
      BY <2>1 DEF WithinBounds
    <3> QED
      BY <3>1, <3>2, <3>3
  <2>4. CallLeft(k)' < CallLeft(k)
    <3>1. CallLeft(k) = 4 * (MaxRetries + 1 - call[k].tries) + 2 - call[k].step /\ CallLeft(k) > 2
      BY <2>1, CallsHaveLeft
    <3>2. CASE call'[k].at = "returning"
      BY <1>1, <3>1, <3>2, HaveLeftNext
    <3>3. CASE call'[k].at = "reading" /\ call'[k].step = 1 /\ call'[k].tries = call[k].tries + 1
      <4>1. CallLeft(k)' = 4 * (MaxRetries + 1 - (call[k].tries + 1)) + 2 - 1
        BY <3>3, HaveLeftNext
      <4> QED
        BY <2>3, <3>1, <4>1
    <3> QED
      BY <2>2, <3>2, <3>3
  <2> QED
    BY <1>5, <2>1, <2>4
<1>8. ASSUME NEW k \in Calls, StopsEarly(k) \/ GuardFires(k) PROVE Spends
  <2>1. /\ agent' = agent /\ \A j \in Calls : j # k => call'[j] = call[j]
        /\ \/ call[k].at = "reading" /\ call'[k].at = "returning"
           \/ call[k].at = "returning" /\ call'[k].at = "raised"
    BY <1>8 DEF StopsEarly, GuardFires, ToolsTypeOK, CallStates
  <2>2. CallLeft(k)' < CallLeft(k)
    BY <1>1, <2>1, CallsHaveLeft, HaveLeftNext
  <2> QED
    BY <1>5, <2>1, <2>2
<1>9. ASSUME NEW k \in Calls, Delegate(k) \/ HandBack(k) \/ SpecialistRaises(k) PROVE Spends
  <2>1. /\ \A j \in Calls : j # k => call'[j] = call[j]
        /\ \A a \in Agents : a # k => agent'[a] = agent[a]
        /\ \/ call[k].at = "reading" /\ call'[k].at = "delegating"
           \/ call[k].at = "delegating" /\ call'[k].at \in {"returning", "raised"}
    BY <1>9 DEF Delegate, HandBack, SpecialistRaises, ToolsTypeOK, CallStates
  <2>2. CallLeft(k)' < CallLeft(k)
    BY <1>1, <2>1, CallsHaveLeft, HaveLeftNext
  <2> QED
    BY <1>5, <2>1, <2>2
<1>10. ASSUME NEW k \in Calls, Return(k) PROVE Spends
  <2>1. /\ agent' = agent /\ call[k].at = "returning" /\ call'[k].at = "done"
        /\ \A j \in Calls : j # k =>
             call'[j].at = call[j].at /\ call'[j].tries = call[j].tries
               /\ call'[j].step = call[j].step
    BY <1>10 DEF Return, ToolsTypeOK, CallStates
  <2>2. CallLeft(k)' < CallLeft(k)
    BY <2>1, CallsHaveLeft, HaveLeftNext
  <2>3. \A j \in Calls : j # k => CallLeft(j)' = CallLeft(j) /\ CallLeft(j) \in Int
    BY <1>1, <2>1 DEF CallLeft
  <2>4. \A a \in Agents : AgentLeft(a)' <= AgentLeft(a)
    BY <1>1, <2>1
  <2>5. \A j \in Calls : j # k => CallLeft(j)' <= CallLeft(j)
    BY <2>3
  <2> QED
    BY <2>2, <2>4, <2>5, CallSpends
<1>11. ASSUME NEW a \in Agents, (\E n \in Calls : AskTooMany(a, n)) \/ ModelAnswers(a) \/ ModelFails(a)
       PROVE  Spends
  <2>1. /\ agent[a].at = "model" /\ agent'[a].at \in {"over", "failed"}
        /\ \A b \in Agents : b # a => agent'[b] = agent[b] 
        /\ call' = call
    BY <1>11 DEF AskTooMany, Asks, ModelAnswers, ModelFails, EndsAs, ToolsTypeOK, AgentStates
  <2> QED
    BY <1>3, <2>1
<1> QED
  BY <1>2, <1>4, <1>6, <1>7, <1>8, <1>9, <1>10, <1>11, Zenon DEF Work

\* Every step of a turn uses up what one agent or call has left, and gives more
\* only to what works for it: for any limits, retries and calls in progress.
THEOREM NothingIsFree == ToolsSpec => StepsAreSpent
<1>1. ToolsInit => WithinBounds
  BY Numbers DEF ToolsInit, WithinBounds, Off, Idle
<1>2. ToolsTypeOK /\ ToolsTypeOK' /\ WithinBounds /\ [ToolsNext]_vars
        => WithinBounds' /\ [Running => Spends]_vars
  <2> SUFFICES ASSUME ToolsTypeOK, ToolsTypeOK', WithinBounds, [ToolsNext]_vars
               PROVE  WithinBounds' /\ [Running => Spends]_vars
    OBVIOUS
  <2>1. WithinBounds'
    BY BoundsStep
  <2>2. ASSUME Running, ToolsNext PROVE Work
    BY <2>2 DEF Running, ToolsNext, StartTurn
  <2>3. ToolsNext => (Running => Spends)
    BY <2>2, EachStepSpends
  <2> QED
    BY <2>1, <2>3
<1> QED
  BY <1>1, <1>2, ToolsTyped, PTL DEF ToolsSpec, StepsAreSpent
=============================================================================
