---------------------------- MODULE AgentServer -----------------------------
(***************************************************************************)
(* The LangGraph Agent Server as this project configures and uses it: the  *)
(* handlers of src/security/auth.py, SupportGateway in front of the server *)
(* (src/agent_server.py), Studio, and the script that pins assistants to   *)
(* customers (scripts/setup_studio_assistants.py).                         *)
(*                                                                         *)
(* The server itself is external: threads with metadata, assistants, runs  *)
(* that are created by one request and executed later.  With no "auth" key *)
(* in langgraph.json (guarded = FALSE) it asks nobody who they are; that   *)
(* is the server demo_thread_ownership.py puts the gateway in front of.    *)
(***************************************************************************)
EXTENDS Assistants

CONSTANTS
  Threads,                \* threads the server can hold
  Studio, Operator, Unknown,
  MaxRuns                 \* bound: runs created and not executed yet

ASSUME AgentServerAssumption ==
  /\ {Studio, Operator, Unknown} \cap (Customers \cup {NoOne}) = {}
  /\ Studio # Operator /\ Studio # Unknown /\ Operator # Unknown
  /\ MaxRuns \in Nat

VARIABLES
  guarded,    \* langgraph.json names src/security/auth.py
  thread,     \* the server's threads, with what their checkpoints hold
  runs,       \* runs created and not executed
  rowOf,      \* thread_owner in support.db: the customer, by server thread
  meddled,    \* threads written by a client whose identity is configuration
  leaks       \* <<c, t>>: c was sent another customer's data out of t

serverVars == <<guarded, thread, runs, rowOf, meddled, leaks>>
vars       == <<serverVars, scriptVars>>

Clients == Customers \cup {Studio, Operator, Unknown}

\* by: the creator.  owner: metadata.owner.  holds: customers whose data is in
\* the messages.  brief: whose customer_brief the state carries.
NoThread    == [exists |-> FALSE, by |-> Unknown, owner |-> NoOne, holds |-> {}, brief |-> NoOne]
ThreadShape ==
  [exists : BOOLEAN, by : Clients, owner : Someone \cup {Operator},
   holds : SUBSET Customers, brief : Someone]
RunShape == [on : Threads, by : Clients, as : Customers]

AgentServerTypeOK ==
  /\ guarded \in BOOLEAN
  /\ thread \in [Threads -> ThreadShape]
  /\ runs \subseteq RunShape
  /\ rowOf \in [Threads -> Someone]
  /\ meddled \subseteq Threads
  /\ leaks \subseteq Customers \X Threads
  /\ AssistantsTypeOK /\ SetupDataTypeOK

ServerInit ==
  /\ guarded \in BOOLEAN
  /\ thread = [t \in Threads |-> NoThread]
  /\ runs = {}
  /\ rowOf = [t \in Threads |-> NoOne]
  /\ meddled = {}
  /\ leaks = {}

AgentServerInit == ServerInit /\ ScriptsInit

-----------------------------------------------------------------------------
(* Authentication and authorization *)

\* What a request may carry: "Bearer <token>", the token alone, another scheme
\* before it; or the header Studio sends.
Headers == [form : {"bearer", "bare", "other"}, token : Customers \cup {Operator, Unknown}]
             \cup [form : {"studio"}, token : {Unknown}]

\* authenticate and _bearer.  Unknown is a 401; without handlers it is everyone.
Principal(h) ==
  IF h.form = "studio" THEN Studio
  ELSE IF guarded /\ h.form \in {"bearer", "bare"} THEN h.token ELSE Unknown

Requesters == {Principal(h) : h \in Headers}

Exempt(p)   == p = Studio \/ ~guarded
Admitted(p) == p # Unknown \/ ~guarded

\* threads_are_private: the filter, and the owner stamped over the client's.
\* Without handlers nobody looks at the owner, and none is kept here.
AnyThread(p, t)       == thread[t].exists
Sees(p, t)            == thread[t].exists /\ (Exempt(p) \/ thread[t].owner = p)
ClientsWord(p, given) == given
Stamped(p, given)     == IF ~guarded THEN NoOne ELSE IF p = Studio THEN given ELSE p

\* A thread an unidentified client has written is no one's in particular.
Meddles(p, t) == meddled' = IF Exempt(p) THEN meddled \cup {t} ELSE meddled

-----------------------------------------------------------------------------
(* Threads.  The server gives an id out once. *)

CreateThread(p, t, given) ==
  /\ Admitted(p) /\ ~thread[t].exists /\ rowOf[t] = NoOne
  /\ thread' = [thread EXCEPT ![t] = [NoThread EXCEPT !.exists = TRUE, !.by = p,
                                                      !.owner = Stamped(p, given)]]
  /\ Meddles(p, t)
  /\ UNCHANGED <<guarded, runs, rowOf, leaks>>

\* PATCH /threads/{t} with metadata of the client's choosing.
UpdateThread(p, t, given) ==
  /\ Admitted(p) /\ Sees(p, t)
  /\ thread' = [thread EXCEPT ![t].owner = Stamped(p, given)]
  /\ Meddles(p, t)
  /\ UNCHANGED <<guarded, runs, rowOf, leaks>>

Send(p, t) ==
  leaks' = IF p \in Customers /\ ~(thread'[t].holds \subseteq {p}) THEN leaks \cup {<<p, t>>}
                                                                  ELSE leaks

\* GET /threads/{t}/state: what is in the messages.
ReadThread(p, t) ==
  /\ Admitted(p) /\ Sees(p, t)
  /\ UNCHANGED <<guarded, thread, runs, rowOf, meddled>>
  /\ Send(p, t)

-----------------------------------------------------------------------------
(* Runs *)

\* runs_inherit_thread_ownership.  context and configurable: the customer_id
\* the payload carries in either place.
MayRun(p, t, context, configurable) ==
  \/ Exempt(p)
  \/ /\ p \in Customers
     /\ {context, configurable} \subseteq {NoOne, p}
     /\ thread[t].owner = p

\* The run's context overrides the assistant's, which can be anyone's.
Requested(p, context, configurable, assistants) ==
  IF context # NoOne THEN context
  ELSE IF configurable # NoOne THEN configurable ELSE assistants
Derived(p, context, configurable, assistants) ==
  IF Exempt(p) THEN Requested(p, context, configurable, assistants) ELSE p

\* Who a run started by p can run as.  With NoOne AuthContext() raises.
Payloads == [context : Someone, configurable : Someone, assistants : Someone]
Identities(p, t) ==
  {Derived(p, x.context, x.configurable, x.assistants) :
     x \in {y \in Payloads : MayRun(p, t, y.context, y.configurable)}} \ {NoOne}

CreateRun(p, t, as) ==
  /\ Admitted(p) /\ thread[t].exists /\ as \in Identities(p, t)
  /\ Cardinality(runs) < MaxRuns
  /\ runs' = runs \cup {[on |-> t, by |-> p, as |-> as]}
  /\ Meddles(p, t)
  /\ UNCHANGED <<guarded, thread, rowOf, leaks>>

\* before_agent: a brief is loaded when the state has none.
CachedBrief(r)     == IF thread[r.on].brief = NoOne THEN r.as ELSE thread[r.on].brief

\* The graph: the brief, then tools that read as the run's customer.
ExecuteRun(r) ==
  /\ r \in runs
  /\ runs' = runs \ {r}
  /\ thread' = [thread EXCEPT ![r.on].holds = @ \cup {r.as}, ![r.on].brief = CachedBrief(r)]
  /\ Send(r.by, r.on)
  /\ UNCHANGED <<guarded, rowOf, meddled>>

-----------------------------------------------------------------------------
(* SupportGateway over AgentServerRunner.  The runner sends no credential, *)
(* so on a guarded server its first request is a 401.                      *)

\* store.create can fail, and the thread is left without a row.
Recorded(c, t) == rowOf' \in {rowOf, [rowOf EXCEPT ![t] = c]}
OwnRow(c, t)   == rowOf[t] = c

GatewayOpens(c, t) ==
  /\ ~guarded /\ ~thread[t].exists /\ rowOf[t] = NoOne
  /\ thread' = [thread EXCEPT ![t] = [NoThread EXCEPT !.exists = TRUE]]
  /\ Recorded(c, t)
  /\ UNCHANGED <<guarded, runs, meddled, leaks>>

\* send: _authorize reads the row, then the runner creates the run.
GatewaySends(c, t) ==
  /\ ~guarded /\ thread[t].exists /\ OwnRow(c, t)
  /\ Cardinality(runs) < MaxRuns
  /\ runs' = runs \cup {[on |-> t, by |-> c, as |-> c]}
  /\ UNCHANGED <<guarded, thread, rowOf, meddled, leaks>>

\* Threads are kept, or lost; so are the assistants.
Restart ==
  /\ runs' = {}
  /\ thread' \in {thread, [t \in Threads |-> NoThread]}
  /\ UNCHANGED <<guarded, rowOf, meddled, leaks>>

-----------------------------------------------------------------------------

ServerNext ==
  \/ \E p \in Requesters, t \in Threads :
       \/ \E given \in Someone : CreateThread(p, t, given) \/ UpdateThread(p, t, given)
       \/ ReadThread(p, t)
       \/ \E as \in Customers : CreateRun(p, t, as)
  \/ \E r \in runs : ExecuteRun(r)
  \/ \E c \in Customers, t \in Threads :
       GatewayOpens(c, t) \/ GatewaySends(c, t)
  \/ Restart

\* A run's identity is any an assistant could have, so neither side reads the
\* other's state: bound, the scripts and the threads are checked one at a time.
AgentServerNext ==
  \/ ScriptsInit /\ ServerNext /\ UNCHANGED scriptVars
  \/ ServerInit /\ ScriptsNext /\ UNCHANGED serverVars

AgentServerSpec == AgentServerInit /\ [][AgentServerNext]_vars

-----------------------------------------------------------------------------

\* The customer a thread was opened for.
OpenedFor(t) == IF guarded THEN thread[t].by ELSE rowOf[t]

(***************************************************************************)
(* A thread only ever written by callers with an identity of their own     *)
(* holds one customer's data and speaks to that customer, whatever owner   *)
(* or customer_id the requests claimed and whichever assistant they named. *)
(* On a server without handlers that is what the gateway's row gives.      *)
(***************************************************************************)
ThreadsHoldOneCustomer ==
  \A t \in Threads \ meddled :
    thread[t].exists =>
      /\ thread[t].holds \subseteq {OpenedFor(t)}
      /\ thread[t].brief \in {NoOne, OpenedFor(t)}

(***************************************************************************)
(* Authorization is checked when a run is created; the run starts later.   *)
(* It still is its starter's own by then: no request in between, of any    *)
(* caller but Studio, can give the thread to someone else.                 *)
(***************************************************************************)
RunsStayAuthorized ==
  guarded =>
    \A r \in runs : r.by \in Customers =>
      /\ r.as = r.by
      /\ r.on \notin meddled => thread[r.on].exists /\ thread[r.on].owner = r.by

(***************************************************************************)
(* Nobody is sent another customer's data: not by a read, not by the reply *)
(* to a run, except out of a thread that Studio, or with no handlers a     *)
(* direct client, has written.                                             *)
(***************************************************************************)
NobodyIsSentAnothers == \A sent \in leaks : sent[2] \in meddled
=============================================================================
