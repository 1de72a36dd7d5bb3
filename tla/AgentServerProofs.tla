------------------------- MODULE AgentServerProofs --------------------------
(***************************************************************************)
(* The Agent Server and its scripts for any customers, threads, tickets    *)
(* and bounds, with the server and the scripts acting at any time: the run *)
(* that checks them one at a time loses nothing.                           *)
(***************************************************************************)
EXTENDS AgentServer, TLAPS

InterleavedNext ==
  \/ ServerNext /\ UNCHANGED scriptVars
  \/ ScriptsNext /\ UNCHANGED serverVars

InterleavedSpec == AgentServerInit /\ [][InterleavedNext]_vars

\* What TLC checks is some of what is proved here.
THEOREM OneAtATimeIsInterleaved == AgentServerSpec => InterleavedSpec
<1>1. [AgentServerNext]_vars => [InterleavedNext]_vars
  BY DEF AgentServerNext, InterleavedNext
<1> QED
  BY <1>1, PTL DEF AgentServerSpec, InterleavedSpec

-----------------------------------------------------------------------------
(* The server *)

ServerTypeOK ==
  /\ guarded \in BOOLEAN
  /\ thread \in [Threads -> ThreadShape]
  /\ runs \subseteq RunShape
  /\ rowOf \in [Threads -> Someone]
  /\ meddled \subseteq Threads
  /\ leaks \subseteq Customers \X Threads

\* On a guarded server a thread keeps the owner it was made with.
OwnersAreCreators ==
  guarded => \A t \in Threads \ meddled : thread[t].exists => thread[t].owner = thread[t].by

\* A run on a thread nobody has meddled with is of the customer it was opened for.
RunsAreOwn ==
  \A r \in runs :
    /\ guarded /\ r.by \in Customers => r.as = r.by
    /\ r.on \notin meddled =>
         /\ thread[r.on].exists /\ r.as = r.by
         /\ OpenedFor(r.on) = r.by

ServerInv ==
  /\ ServerTypeOK
  /\ OwnersAreCreators
  /\ RunsAreOwn
  /\ ThreadsHoldOneCustomer
  /\ NobodyIsSentAnothers

\* Who a request comes from.
LEMMA WhoAsks ==
  ASSUME NEW p \in Requesters
  PROVE  /\ p \in Clients
         /\ ~guarded => p \in {Studio, Unknown}
  BY DEF Requesters, Headers, Principal, Clients

\* The owner stamped on a thread.
LEMMA WhoIsStamped ==
  ASSUME NEW p \in Requesters, Admitted(p), NEW given \in Someone
  PROVE  /\ Stamped(p, given) \in Someone \cup {Operator}
         /\ ~Exempt(p) => Stamped(p, given) = p
  BY WhoAsks DEF Stamped, Admitted, Exempt, Clients, Someone

\* A run is its principal's own, unless the principal is exempt.
LEMMA WhoRuns ==
  ASSUME NEW p \in Requesters, NEW t \in Threads, NEW as \in Identities(p, t), ~Exempt(p)
  PROVE  as = p /\ p \in Customers /\ thread[t].owner = p
  BY DEF Identities, Derived, MayRun

\* A thread as CreateThread makes it.
NewThread(p, owner) == [NoThread EXCEPT !.exists = TRUE, !.by = p, !.owner = owner]

LEMMA NewThreadTyped ==
  ASSUME NEW p \in Clients, NEW owner \in Someone \cup {Operator}
  PROVE  /\ NewThread(p, owner) \in ThreadShape
         /\ NewThread(p, owner).by = p /\ NewThread(p, owner).owner = owner
         /\ NewThread(p, owner).holds = {} /\ NewThread(p, owner).brief = NoOne
  BY DEF NewThread, NoThread, ThreadShape, Clients, Someone

\* Steps of the server, one thread or run at a time.
LEMMA ServerStep == ServerInv /\ ServerNext => ServerInv'
<1> SUFFICES ASSUME ServerInv, ServerNext PROVE ServerInv'
  OBVIOUS
<1> USE DEF ServerInv, ServerTypeOK, OwnersAreCreators, RunsAreOwn, ThreadsHoldOneCustomer,
            NobodyIsSentAnothers, OpenedFor
<1>1. ASSUME NEW p \in Requesters, NEW t \in Threads, NEW given \in Someone,
             CreateThread(p, t, given)
      PROVE  ServerInv'
  <2> DEFINE new == NewThread(p, Stamped(p, given))
  <2>1. thread' = [thread EXCEPT ![t] = new] /\ ~thread[t].exists /\ Admitted(p)
    BY <1>1 DEF CreateThread, NewThread
  <2>2. /\ new \in ThreadShape /\ new.by = p /\ new.owner = Stamped(p, given)
        /\ new.holds = {} /\ new.brief = NoOne
    <3>1. p \in Clients /\ Stamped(p, given) \in Someone \cup {Operator}
      BY <2>1, WhoAsks, WhoIsStamped
    <3> QED
      BY <3>1, NewThreadTyped
  <2>3. /\ UNCHANGED <<guarded, runs, rowOf, leaks>>
        /\ meddled' = IF Exempt(p) THEN meddled \cup {t} ELSE meddled
    BY <1>1 DEF CreateThread, Meddles
  <2>4. thread'[t] = new /\ \A u \in Threads \ {t} : thread'[u] = thread[u]
    BY <2>1
  <2>5. \A r \in runs : r.on \notin meddled => r.on # t
    BY <2>1
  <2>6. t \notin meddled' => new.owner = new.by
    BY <2>1, <2>2, <2>3, WhoIsStamped
  <2>7. ServerTypeOK'
    BY <2>1, <2>2, <2>3
  <2>8. OwnersAreCreators'
    BY <2>3, <2>4, <2>6
  <2>9. RunsAreOwn'
    BY <2>3, <2>4, <2>5 DEF RunShape
  <2>10. ThreadsHoldOneCustomer'
    BY <2>2, <2>3, <2>4
  <2> QED
    BY <2>3, <2>7, <2>8, <2>9, <2>10
<1>2. ASSUME NEW p \in Requesters, NEW t \in Threads, NEW given \in Someone,
             UpdateThread(p, t, given)
      PROVE  ServerInv'
  <2>1. /\ thread' = [thread EXCEPT ![t].owner = Stamped(p, given)]
        /\ Admitted(p) /\ Sees(p, t)
        /\ UNCHANGED <<guarded, runs, rowOf, leaks>>
        /\ meddled' = IF Exempt(p) THEN meddled \cup {t} ELSE meddled
    BY <1>2 DEF UpdateThread, Meddles
  <2>2. thread' \in [Threads -> ThreadShape]
    BY <2>1, WhoIsStamped DEF ThreadShape
  <2>3. \A u \in Threads :
          /\ u # t => thread'[u] = thread[u]
          /\ thread'[u].exists = thread[u].exists /\ thread'[u].by = thread[u].by
          /\ thread'[u].holds = thread[u].holds /\ thread'[u].brief = thread[u].brief
    BY <2>1 DEF ThreadShape
  <2>4. t \notin meddled' => thread'[t].owner = thread[t].owner
    BY <2>1, WhoIsStamped DEF Sees, ThreadShape
  <2>5. OwnersAreCreators'
    BY <2>1, <2>3, <2>4
  <2>6. RunsAreOwn'
    BY <2>1, <2>3 DEF RunShape
  <2>7. ThreadsHoldOneCustomer'
    BY <2>1, <2>3
  <2> QED
    BY <2>1, <2>2, <2>5, <2>6, <2>7
<1>3. ASSUME NEW p \in Requesters, NEW t \in Threads, ReadThread(p, t) PROVE ServerInv'
  <2>1. UNCHANGED <<guarded, thread, runs, rowOf, meddled>> /\ Sees(p, t)
    BY <1>3 DEF ReadThread
  <2>2. ASSUME p \in Customers, ~(thread[t].holds \subseteq {p}) PROVE t \in meddled
    <3>1. guarded /\ ~Exempt(p)
      BY <2>2, WhoAsks, AgentServerAssumption DEF Exempt
    <3>2. thread[t].exists /\ thread[t].owner = p
      BY <2>1, <3>1 DEF Sees
    <3> QED
      BY <2>2, <3>1, <3>2
  <2>3. NobodyIsSentAnothers' /\ leaks' \subseteq Customers \X Threads
    BY <1>3, <2>1, <2>2 DEF ReadThread, Send
  <2> QED
    BY <2>1, <2>3
<1>4. ASSUME NEW p \in Requesters, NEW t \in Threads, NEW as \in Customers, CreateRun(p, t, as)
      PROVE  ServerInv'
  <2> DEFINE new == [on |-> t, by |-> p, as |-> as]
  <2>1. /\ UNCHANGED <<guarded, thread, rowOf, leaks>> /\ runs' = runs \cup {new}
        /\ meddled' = IF Exempt(p) THEN meddled \cup {t} ELSE meddled
        /\ thread[t].exists /\ as \in Identities(p, t)
    BY <1>4 DEF CreateRun, Meddles
  <2>2. new \in RunShape
    BY WhoAsks DEF RunShape
  <2>3. ~Exempt(p) => as = p /\ thread[t].owner = p /\ guarded
    BY <2>1, WhoRuns DEF Exempt
  <2>4. guarded /\ p \in Customers => ~Exempt(p)
    BY AgentServerAssumption DEF Exempt
  <2>5. RunsAreOwn'
    <3> SUFFICES ASSUME NEW r \in runs'
                 PROVE  /\ guarded /\ r.by \in Customers => r.as = r.by
                        /\ r.on \notin meddled' =>
                             /\ thread[r.on].exists /\ r.as = r.by
                             /\ (IF guarded THEN thread[r.on].by ELSE rowOf[r.on]) = r.by
      BY <2>1
    <3>1. CASE r = new
      <4>1. r.on = t /\ r.by = p /\ r.as = as
        BY <3>1
      <4>2. t \notin meddled' => ~Exempt(p) /\ t \notin meddled
        BY <2>1
      <4>3. t \notin meddled' => as = p /\ guarded /\ thread[t].by = p
        BY <4>2, <2>1, <2>3
      <4> QED
        BY <4>1, <4>3, <2>1, <2>3, <2>4
    <3>2. CASE r \in runs
      BY <3>2, <2>1
    <3> QED
      BY <3>1, <3>2, <2>1
  <2> QED
    BY <2>1, <2>2, <2>5
<1>5. ASSUME NEW r \in runs, ExecuteRun(r) PROVE ServerInv'
  <2>1. /\ UNCHANGED <<guarded, rowOf, meddled>> /\ runs' = runs \ {r}
        /\ thread' = [thread EXCEPT ![r.on].holds = @ \cup {r.as}, ![r.on].brief = CachedBrief(r)]
        /\ r.on \in Threads /\ r.by \in Clients /\ r.as \in Customers
    BY <1>5 DEF ExecuteRun, RunShape
  <2>2. CachedBrief(r) \in Someone /\ CachedBrief(r) \in {thread[r.on].brief, r.as}
    BY <2>1 DEF CachedBrief, ThreadShape, Someone
  <2>3. thread' \in [Threads -> ThreadShape]
    BY <2>1, <2>2 DEF ThreadShape
  <2>4. /\ \A u \in Threads :
             /\ u # r.on => thread'[u] = thread[u]
             /\ thread'[u].exists = thread[u].exists /\ thread'[u].by = thread[u].by
             /\ thread'[u].owner = thread[u].owner
        /\ thread'[r.on].holds = thread[r.on].holds \cup {r.as}
        /\ thread'[r.on].brief = CachedBrief(r)
    BY <2>1, <2>2 DEF ThreadShape
  <2>5. r.on \notin meddled =>
          /\ thread'[r.on].holds \subseteq {r.by} /\ r.by = OpenedFor(r.on)
          /\ thread'[r.on].brief \in {NoOne, r.by}
    BY <2>1, <2>2, <2>4
  <2>6. OwnersAreCreators' /\ RunsAreOwn'
    BY <2>1, <2>4 DEF RunShape
  <2>7. ThreadsHoldOneCustomer'
    BY <2>1, <2>4, <2>5
  <2>8. NobodyIsSentAnothers' /\ leaks' \subseteq Customers \X Threads
    <3>1. CASE leaks' = leaks
      BY <2>1, <3>1
    <3>2. CASE ~(thread'[r.on].holds \subseteq {r.by}) /\ r.by \in Customers
               /\ leaks' = leaks \cup {<<r.by, r.on>>}
      <4>1. r.on \in meddled
        BY <2>5, <3>2
      <4> QED
        BY <2>1, <3>2, <4>1
    <3> QED
      BY <1>5, <3>1, <3>2 DEF ExecuteRun, Send
  <2> QED
    BY <2>1, <2>3, <2>6, <2>7, <2>8
<1>6. ASSUME NEW c \in Customers, NEW t \in Threads, GatewayOpens(c, t) PROVE ServerInv'
  <2> DEFINE new == [NoThread EXCEPT !.exists = TRUE]
  <2>1. /\ UNCHANGED <<guarded, runs, meddled, leaks>> /\ ~guarded /\ ~thread[t].exists
        /\ thread' = [thread EXCEPT ![t] = new]
        /\ rowOf' = rowOf \/ rowOf' = [rowOf EXCEPT ![t] = c]
    BY <1>6 DEF GatewayOpens, Recorded
  <2>2. new \in ThreadShape /\ new.holds = {} /\ new.brief = NoOne
    BY DEF NoThread, ThreadShape, Clients, Someone
  <2>3. \A u \in Threads \ {t} : thread'[u] = thread[u] /\ rowOf'[u] = rowOf[u]
    BY <2>1
  <2>4. \A r \in runs : r.on \notin meddled => r.on # t
    BY <2>1
  <2>5. RunsAreOwn'
    BY <2>1, <2>3, <2>4 DEF RunShape
  <2>6. ThreadsHoldOneCustomer'
    BY <2>1, <2>2, <2>3
  <2>7. rowOf' \in [Threads -> Someone]
    BY <2>1 DEF Someone
  <2> QED
    BY <2>1, <2>2, <2>5, <2>6, <2>7
<1>7. ASSUME NEW c \in Customers, NEW t \in Threads, GatewaySends(c, t) PROVE ServerInv'
  BY <1>7 DEF GatewaySends, OwnRow, RunShape, Clients
<1>8. CASE Restart
  <2>1. UNCHANGED <<guarded, rowOf, meddled, leaks>> /\ runs' = {}
    BY <1>8 DEF Restart
  <2>2. CASE thread' = thread
    BY <2>1, <2>2
  <2>3. CASE thread' = [t \in Threads |-> NoThread]
    BY <2>1, <2>3 DEF NoThread, ThreadShape, Clients, Someone
  <2> QED
    BY <1>8, <2>2, <2>3 DEF Restart
<1> QED
  BY <1>1, <1>2, <1>3, <1>4, <1>5, <1>6, <1>7, <1>8 DEF ServerNext

\* ServerInv is an invariant, whatever the scripts do meanwhile.
THEOREM ServerIsSafe == InterleavedSpec => []ServerInv
<1>1. AgentServerInit => ServerInv
  BY DEF AgentServerInit, ServerInit, ServerInv, ServerTypeOK, OwnersAreCreators, RunsAreOwn,
     ThreadsHoldOneCustomer, NobodyIsSentAnothers, OpenedFor, NoThread, ThreadShape, Clients,
     Someone
<1>2. ServerInv /\ UNCHANGED serverVars => ServerInv'
  BY DEF serverVars, ServerInv, ServerTypeOK, OwnersAreCreators, RunsAreOwn,
     ThreadsHoldOneCustomer, NobodyIsSentAnothers, OpenedFor
<1>3. ServerInv /\ [InterleavedNext]_vars => ServerInv'
  BY <1>2, ServerStep DEF InterleavedNext, vars
<1> QED
  BY <1>1, <1>3, PTL DEF InterleavedSpec

\* A thread without an unidentified writer holds one customer's data.
THEOREM ThreadsAreOneCustomers == InterleavedSpec => []ThreadsHoldOneCustomer
<1>1. ServerInv => ThreadsHoldOneCustomer
  BY DEF ServerInv
<1> QED
  BY <1>1, ServerIsSafe, PTL

\* What was authorized when a run was created is still true when it starts.
THEOREM AuthorizationLasts == InterleavedSpec => []RunsStayAuthorized
<1>1. ServerInv => RunsStayAuthorized
  BY DEF ServerInv, ServerTypeOK, RunShape, OwnersAreCreators, RunsAreOwn, OpenedFor,
     RunsStayAuthorized
<1> QED
  BY <1>1, ServerIsSafe, PTL

\* No read and no reply hands one customer another's data.
THEOREM NobodyReadsAnothers == InterleavedSpec => []NobodyIsSentAnothers
<1>1. ServerInv => NobodyIsSentAnothers
  BY DEF ServerInv
<1> QED
  BY <1>1, ServerIsSafe, PTL

-----------------------------------------------------------------------------
(* setup_data.py *)

\* What a run of the script has made sure of by the stage it is in.
StagesHaveDone ==
  /\ script.at \in {"chinook", "support", "counts", "ok"} => dump # "absent"
  /\ script.at \in {"counts", "ok"} => supportDb.tables = "current"
  /\ script.at = "ok" => chinookDb = "whole"
  /\ script.at # "off" /\ ~script.force =>
       script.found \subseteq supportDb.tickets

DataInv == SetupDataTypeOK /\ StagesHaveDone

\* Every step of setup_data.py keeps DataInv.
LEMMA DataStep == DataInv /\ [SetupDataNext]_dataVars => DataInv'
<1> SUFFICES ASSUME DataInv, [SetupDataNext]_dataVars PROVE DataInv'
  OBVIOUS
<1> USE DEF DataInv, SetupDataTypeOK, StagesHaveDone, FileStates, Stages
<1>1. ASSUME NEW force \in BOOLEAN, Starts(force) PROVE DataInv'
  BY <1>1 DEF Starts
<1>2. CASE DownloadDump
  BY <1>2 DEF DownloadDump, On, Kept
<1>3. CASE BuildChinook
  BY <1>3 DEF BuildChinook, On, Kept
<1>4. CASE BuildSupport
  BY <1>4 DEF BuildSupport, On, Completed
<1>5. CASE VerifyCounts
  BY <1>5 DEF VerifyCounts, On
<1>6. CASE ScriptDies
  BY <1>6 DEF ScriptDies
<1>7. ASSUME NEW k \in Tickets, FileTicket(k) PROVE DataInv'
  BY <1>7 DEF FileTicket
<1>8. CASE UNCHANGED dataVars
  BY <1>8 DEF dataVars
<1> QED
  BY <1>1, <1>2, <1>3, <1>4, <1>5, <1>6, <1>7, <1>8 DEF SetupDataNext

\* DataInv is an invariant of the script, whatever the server does meanwhile.
LEMMA DataIsSafe == InterleavedSpec => []DataInv
<1>1. AgentServerInit => DataInv
  BY DEF AgentServerInit, ScriptsInit, SetupDataInit, NotStarted, DataInv, SetupDataTypeOK,
     StagesHaveDone, FileStates, Stages
<1>2. [InterleavedNext]_vars => [SetupDataNext]_dataVars
  BY DEF InterleavedNext, ScriptsNext, scriptVars, dataVars, vars
<1> QED
  BY <1>1, <1>2, DataStep, PTL DEF InterleavedSpec

\* A run of setup_data.py that reports success left everything complete, and
\* without --force kept every ticket.
THEOREM SetupKeepsItsWord == InterleavedSpec => []SetupIsHonest
<1>1. DataInv => SetupIsHonest
  BY DEF DataInv, StagesHaveDone, SetupIsHonest
<1> QED
  BY <1>1, DataIsSafe, PTL

-----------------------------------------------------------------------------
(* setup_studio_assistants.py *)

\* The customers it has come past, undisturbed, have their assistant.
DoneArePinned ==
  setup.calm =>
    /\ \A c \in setup.done : assistant[c] = Pinned(c)
    /\ setup.step \in {"defusing", "pruning"} => setup.done = Customers
    /\ setup.step = "pruning" /\ Unnamed = {Default} => assistant[Default].as # NoOne

ScriptIsBetweenRuns ==
  setup.step \in {"idle", "ready"} => setup.done = {}

PinInv == AssistantsTypeOK /\ ScriptIsBetweenRuns /\ DoneArePinned /\ AssistantsArePinned

\* What a restart mints is well-formed.
LEMMA MintedTyped == Minted \in [Assistants -> AssistantShape]
<1>1. NoAssistant \in AssistantShape
  BY DEF AssistantShape
<1>2. [NoAssistant EXCEPT !.exists = TRUE] \in AssistantShape
  BY DEF NoAssistant, AssistantShape, Someone
<1> QED
  BY <1>1, <1>2 DEF Minted

\* An assistant that exists has a context of its own.
LEMMA ExistingShape ==
  ASSUME NEW x \in AssistantShape, x.exists
  PROVE  x \in [exists : {TRUE}, named : BOOLEAN, as : Someone]
<1>1. NoAssistant.exists = FALSE
  BY DEF NoAssistant
<1>2. x # NoAssistant
  BY <1>1
<1> QED
  BY <1>2 DEF AssistantShape

\* Every step of the script, and of who disturbs it, keeps PinInv.
LEMMA PinStep == PinInv /\ [AssistantsNext]_assistantVars => PinInv'
<1> SUFFICES ASSUME PinInv, [AssistantsNext]_assistantVars PROVE PinInv'
  OBVIOUS
<1> USE AssistantsAssumption
    DEF PinInv, AssistantsTypeOK, ScriptIsBetweenRuns, DoneArePinned, AssistantsArePinned,
        Steps
<1>1. ASSUME NEW c \in Customers, PostAssistant(c) PROVE PinInv'
  <2>1. \A x \in Customers : Pinned(x) \in AssistantShape
    BY DEF Pinned, AssistantShape, Someone
  <2>2. /\ assistant' = [assistant EXCEPT ![c] = IF @.exists THEN @ ELSE Pinned(c)]
        /\ setup' = [setup EXCEPT !.step = "posted", !.now = c,
                                  !.calm = @ \/ setup.step # "posted"]
        /\ c \notin setup.done /\ edits' = edits
        /\ setup.step \in {"idle", "ready", "posted"}
    BY <1>1 DEF PostAssistant
  <2>3. \A x \in setup.done : assistant'[x] = assistant[x]
    BY <2>2 DEF Assistants
  <2>4. AssistantsTypeOK'
    BY <2>1, <2>2 DEF Assistants, Someone
  <2>5. /\ setup'.step = "posted" /\ setup'.done = setup.done
        /\ setup'.calm /\ setup.step = "posted" => setup.calm
    BY <2>2
  <2> QED
    BY <2>2, <2>3, <2>4, <2>5
<1>2. ASSUME NEW c \in Customers, PatchAssistant(c) PROVE PinInv'
  <2>1. /\ assistant' = [assistant EXCEPT ![c].named = TRUE, ![c].as = c]
        /\ setup' = [setup EXCEPT !.step = IF setup.done \cup {c} = Customers
                                             THEN "defusing" ELSE @,
                                  !.done = @ \cup {c}, !.now = NoOne]
        /\ setup.step = "posted" /\ assistant[c].exists /\ edits' = edits
    BY <1>2 DEF PatchAssistant, Repinned
  <2>2. assistant'[c] = Pinned(c) /\ Pinned(c) \in AssistantShape
    <3>1. c \in Assistants /\ assistant[c] \in [exists : {TRUE}, named : BOOLEAN, as : Someone]
      <4>1. c \in Assistants /\ assistant[c] \in AssistantShape
        BY DEF Assistants
      <4> QED
        BY <4>1, <2>1, ExistingShape
    <3>2. assistant'[c] = [assistant[c] EXCEPT !.named = TRUE, !.as = c]
      BY <2>1, <3>1
    <3> QED
      BY <3>1, <3>2 DEF AssistantShape, Pinned, Someone
  <2>3. \A x \in Assistants \ {c} : assistant'[x] = assistant[x]
    BY <2>1
  <2>4. AssistantsTypeOK'
    BY <2>1, <2>2, <2>3 DEF Assistants, Someone
  <2>5. \A x \in setup'.done : setup.calm => assistant'[x] = Pinned(x)
    BY <2>1, <2>2, <2>3 DEF Assistants
  <2> QED
    BY <2>1, <2>4, <2>5
<1>3. CASE Defuse
  <2>1. /\ setup' = [setup EXCEPT !.step = "pruning"] /\ setup.step = "defusing"
        /\ edits' = edits
    BY <1>3 DEF Defuse
  <2>2. \A x \in Customers : assistant[x] = Pinned(x) => x \notin Unnamed
    BY DEF Unnamed, Pinned
  <2>3. CASE Unnamed = {} /\ assistant' = assistant
    <3>1. Unnamed' = {}
      BY <2>3 DEF Unnamed
    <3> QED
      BY <2>1, <2>3, <3>1
  <2>4. ASSUME NEW a \in Unnamed, assistant' = [assistant EXCEPT ![a].as = First]
        PROVE  PinInv'
    <3>1. a \in Assistants /\ assistant[a] \in AssistantShape /\ assistant[a].exists
      BY DEF Unnamed
    <3>2. /\ assistant'[a].as = First /\ assistant'[a] \in AssistantShape
          /\ assistant'[a].exists = assistant[a].exists
          /\ assistant'[a].named = assistant[a].named
          /\ \A x \in Assistants \ {a} : assistant'[x] = assistant[x]
      <4>1. assistant[a] \in [exists : {TRUE}, named : BOOLEAN, as : Someone]
        BY <3>1, ExistingShape
      <4>2. assistant'[a] = [assistant[a] EXCEPT !.as = First]
        BY <2>4, <3>1
      <4>3. \A x \in Assistants \ {a} : assistant'[x] = assistant[x]
        BY <2>4
      <4>4. /\ assistant'[a].as = First /\ assistant'[a].exists = assistant[a].exists
            /\ assistant'[a].named = assistant[a].named
        BY <4>1, <4>2
      <4>5. assistant'[a] \in [exists : {TRUE}, named : BOOLEAN, as : Someone]
        BY <4>1, <4>2 DEF Someone
      <4> QED
        BY <4>3, <4>4, <4>5 DEF AssistantShape
    <3>3. Unnamed' = Unnamed
      BY <3>1, <3>2 DEF Unnamed
    <3>4. assistant' \in [Assistants -> AssistantShape]
      BY <2>4, <3>1, <3>2
    <3>5. setup.calm => \A x \in Customers : assistant'[x] = Pinned(x)
      BY <2>1, <2>2, <3>2 DEF Assistants
    <3>6. Unnamed' = {Default} => assistant'[Default].as = First
      BY <3>2, <3>3
    <3> QED
      BY <2>1, <3>4, <3>5, <3>6
  <2> QED
    BY <1>3, <2>3, <2>4 DEF Defuse
<1>4. CASE Prune
  <2>1. /\ setup' = [setup EXCEPT !.step = "ready", !.done = {}] /\ setup.step = "pruning"
        /\ edits' = edits
    BY <1>4 DEF Prune
  <2>2. PICK gone \in SUBSET {a \in Assistants : Stale(a)} :
          assistant' = [a \in Assistants |-> IF a \in gone THEN NoAssistant ELSE assistant[a]]
    BY <1>4 DEF Prune
  <2>3. assistant' \in [Assistants -> AssistantShape]
    BY <2>2 DEF AssistantShape
  <2>4. \A c \in Customers : assistant'[c] = assistant[c]
    BY <2>2 DEF Stale, Assistants
  <2>5. Unnamed' = Unnamed /\ \A a \in Unnamed : assistant'[a] = assistant[a]
    BY <2>2 DEF Unnamed, Stale, NoAssistant
  <2>6. setup.calm => AssistantsArePinned'
    BY <2>1, <2>4, <2>5
  <2>7. setup' \in [step : Steps, done : SUBSET Customers, now : Someone, calm : BOOLEAN]
    BY <2>1
  <2>8. setup'.step = "ready" /\ setup'.done = {} /\ setup'.calm = setup.calm
    BY <2>1
  <2>9. AssistantsTypeOK'
    BY <2>1, <2>3, <2>7
  <2> QED
    BY <2>6, <2>8, <2>9
<1>5. CASE SetupDies \/ ServerRestarts
  <2>1. setup' = NotRun /\ edits' = edits /\ assistant' \in {assistant, Minted}
    BY <1>5 DEF SetupDies, ServerRestarts
  <2>2. Minted \in [Assistants -> AssistantShape]
    BY MintedTyped
  <2>3. setup'.step = "idle" /\ setup'.done = {} /\ setup' \in
          [step : Steps, done : SUBSET Customers, now : Someone, calm : BOOLEAN]
    BY <2>1 DEF NotRun, Someone
  <2> QED
    BY <2>1, <2>2, <2>3
<1>6. ASSUME NEW a \in Assistants, NEW x \in AssistantShape, EditAssistant(a, x) PROVE PinInv'
  <2>1. /\ assistant' = [assistant EXCEPT ![a] = x] /\ edits' = edits + 1
        /\ setup' = [setup EXCEPT !.calm = FALSE]
    BY <1>6 DEF EditAssistant
  <2>2. /\ ~setup'.calm /\ setup'.step = setup.step /\ setup'.done = setup.done
        /\ setup' \in [step : Steps, done : SUBSET Customers, now : Someone, calm : BOOLEAN]
    BY <2>1
  <2> QED
    BY <2>1, <2>2
<1>7. CASE UNCHANGED assistantVars
  BY <1>7 DEF assistantVars, Unnamed
<1> QED
  BY <1>1, <1>2, <1>3, <1>4, <1>5, <1>6, <1>7 DEF AssistantsNext

\* PinInv is an invariant of the script, whatever the server does meanwhile.
LEMMA PinsAreSafe == InterleavedSpec => []PinInv
<1>1. AgentServerInit => PinInv
  BY MintedTyped DEF AgentServerInit, ScriptsInit, AssistantsInit, NotRun, PinInv,
     AssistantsTypeOK, Someone, Steps, ScriptIsBetweenRuns, DoneArePinned, AssistantsArePinned
<1>2. [InterleavedNext]_vars => [AssistantsNext]_assistantVars
  BY DEF InterleavedNext, ScriptsNext, scriptVars, assistantVars, vars
<1> QED
  BY <1>1, <1>2, PinStep, PTL DEF InterleavedSpec

\* When the script has ended, every customer's assistant runs as that customer.
THEOREM ScriptPinsAssistants == InterleavedSpec => []AssistantsArePinned
<1>1. PinInv => AssistantsArePinned
  BY DEF PinInv
<1> QED
  BY <1>1, PinsAreSafe, PTL

\* The server and both scripts keep the shape of their state.
THEOREM AgentServerTyped == InterleavedSpec => []AgentServerTypeOK
<1>1. ServerInv /\ DataInv /\ PinInv => AgentServerTypeOK
  BY DEF ServerInv, ServerTypeOK, DataInv, PinInv, AgentServerTypeOK
<1> QED
  BY <1>1, ServerIsSafe, DataIsSafe, PinsAreSafe, PTL
=============================================================================
