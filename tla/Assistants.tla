----------------------------- MODULE Assistants -----------------------------
(***************************************************************************)
(* scripts/setup_studio_assistants.py: the assistants of the Agent Server  *)
(* that Studio offers in its dropdown, each with a customer's identity in  *)
(* its context, and the script that pins them, which may die at any of its *)
(* requests and is run again.  It names an assistant after the profile in  *)
(* chinook.db, so it needs what setup_data.py builds.                      *)
(***************************************************************************)
EXTENDS SetupData

CONSTANTS
  Customers, First,       \* DEMO_CUSTOMERS, and the one the default is given
  Default, Spare,         \* assistant ids: the server's own, and any other
  NoOne,
  MaxEdits                \* bound: assistants made or changed by hand

ASSUME AssistantsAssumption ==
  /\ First \in Customers /\ NoOne \notin Customers
  /\ {Default, Spare} \cap Customers = {} /\ Default # Spare
  /\ MaxEdits \in Nat

VARIABLES
  assistant,  \* assistants, by id
  setup,      \* how far the script is; calm: no hand edit since it started
  edits       \* hand edits so far

assistantVars == <<assistant, setup, edits>>
scriptVars    == <<dataVars, assistantVars>>

Someone    == Customers \cup {NoOne}
Assistants == Customers \cup {Default, Spare}   \* assistant_id_for(c) is c

\* named: the name has "(customer " in it.  as: context.customer_id.
NoAssistant    == [exists |-> FALSE, named |-> FALSE, as |-> NoOne]
AssistantShape == {NoAssistant} \cup [exists : {TRUE}, named : BOOLEAN, as : Someone]
Steps == {"idle", "posted", "defusing", "pruning", "ready"}

AssistantsTypeOK ==
  /\ assistant \in [Assistants -> AssistantShape]
  /\ setup \in [step : Steps, done : SUBSET Customers, now : Someone, calm : BOOLEAN]
  /\ edits \in Nat

\* The server mints one assistant for the graph, with no context.
Minted == [a \in Assistants |->
             IF a = Default THEN [NoAssistant EXCEPT !.exists = TRUE] ELSE NoAssistant]
NotRun == [step |-> "idle", done |-> {}, now |-> NoOne, calm |-> TRUE]

AssistantsInit == assistant = Minted /\ setup = NotRun /\ edits = 0
ScriptsInit    == SetupDataInit /\ AssistantsInit

-----------------------------------------------------------------------------
(* The script, one request a step *)

Pinned(c) == [exists |-> TRUE, named |-> TRUE, as |-> c]

\* get_profile: without the customer's row the script exits.  A half-built
\* chinook.db may have it or not.
HasProfile == chinookDb # "absent"

\* POST with if_exists: do_nothing.
PostAssistant(c) ==
  /\ HasProfile
  /\ setup.step \in {"idle", "ready", "posted"} /\ setup.now = NoOne
  /\ c \notin setup.done /\ (c = First \/ First \in setup.done)
  /\ assistant' = [assistant EXCEPT ![c] = IF @.exists THEN @ ELSE Pinned(c)]
  /\ setup' = [setup EXCEPT !.step = "posted", !.now = c,
                            !.calm = @ \/ setup.step # "posted"]
  /\ UNCHANGED edits

LeftAsFound(c) == assistant
Repinned(c)    == [assistant EXCEPT ![c].named = TRUE, ![c].as = c]

PatchAssistant(c) ==
  /\ setup.step = "posted" /\ setup.now = c /\ assistant[c].exists
  /\ assistant' = Repinned(c)
  /\ setup' = [setup EXCEPT !.step = IF setup.done \cup {c} = Customers THEN "defusing" ELSE @,
                            !.done = @ \cup {c}, !.now = NoOne]
  /\ UNCHANGED edits

\* The first assistant found whose name is not a customer's, if there is one.
Unnamed == {a \in Assistants : assistant[a].exists /\ ~assistant[a].named}

Defuse ==
  /\ setup.step = "defusing"
  /\ \/ \E a \in Unnamed : assistant' = [assistant EXCEPT ![a].as = First]
     \/ Unnamed = {} /\ UNCHANGED assistant
  /\ setup' = [setup EXCEPT !.step = "pruning"]
  /\ UNCHANGED edits

\* DELETE what carries a customer's name and is not one of the two; whether the
\* server did is not looked at.
Stale(a) == assistant[a].exists /\ assistant[a].named /\ a \notin Customers

Prune ==
  /\ setup.step = "pruning"
  /\ \E gone \in SUBSET {a \in Assistants : Stale(a)} :
       assistant' = [a \in Assistants |-> IF a \in gone THEN NoAssistant ELSE assistant[a]]
  /\ setup' = [setup EXCEPT !.step = "ready", !.done = {}]
  /\ UNCHANGED edits

\* A request of the script fails: it ends where it is, and is run again.
SetupDies ==
  /\ setup.step \in {"posted", "defusing", "pruning"}
  /\ setup' = NotRun
  /\ UNCHANGED <<assistant, edits>>

\* A person, or an earlier version of the script, makes or changes one.
EditAssistant(a, x) ==
  /\ edits < MaxEdits
  /\ assistant' = [assistant EXCEPT ![a] = x]
  /\ setup' = [setup EXCEPT !.calm = FALSE]
  /\ edits' = edits + 1

\* "Assistants live in the dev server's store": a restart mints the default again.
ServerRestarts ==
  /\ assistant' = Minted
  /\ setup' = NotRun
  /\ UNCHANGED edits

AssistantsNext ==
  \/ \E c \in Customers : PostAssistant(c) \/ PatchAssistant(c)
  \/ Defuse \/ Prune \/ SetupDies \/ ServerRestarts
  \/ \E a \in Assistants, x \in AssistantShape : EditAssistant(a, x)

ScriptsNext ==
  \/ SetupDataNext /\ UNCHANGED assistantVars
  \/ AssistantsNext /\ UNCHANGED dataVars

-----------------------------------------------------------------------------

(***************************************************************************)
(* When the script has ended, however often it died before and whatever    *)
(* identity an assistant was left with, each customer's assistant runs as  *)
(* that customer, and the server's own, if no other lacks a customer's     *)
(* name, runs as somebody ("a misclick behaves as Helena").                *)
(***************************************************************************)
AssistantsArePinned ==
  setup.step = "ready" /\ setup.calm =>
    /\ \A c \in Customers : assistant[c] = Pinned(c)
    /\ Unnamed = {Default} => assistant[Default].as # NoOne
=============================================================================
