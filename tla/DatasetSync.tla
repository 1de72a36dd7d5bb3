----------------------------- MODULE DatasetSync ----------------------------
(***************************************************************************)
(* scripts/upload_dataset.py: the examples of evals/dataset.py pushed into *)
(* a LangSmith dataset, one direction only.  People add and edit examples  *)
(* on the server, the file is edited, an upload may die between its calls, *)
(* and two of them may overlap.                                            *)
(***************************************************************************)
EXTENDS Naturals, FiniteSets

CONSTANTS
  Names, Unnamed,   \* metadata.name: the file's, or another
  Ids,              \* copies the server can hold
  Uploads           \* processes of the script

ASSUME DatasetAssumption == Unnamed \notin Names

VARIABLES
  file,     \* the example of a name in evals/dataset.py, or Absent
  server,   \* the dataset's copies, or none
  upload    \* the state of each process

syncVars == <<file, server, upload>>

\* A body: inputs, outputs and notes.  The slice, the copy's split, is left out:
\* _differs does not look at it.
Bodies == 0 .. 1
Absent == 2
Copy   == [id : Ids, name : Names \cup {Unnamed}, body : Bodies]

\* calm: nobody else has written to the dataset since it was listed.
Stopped == [at |-> "off", local |-> [n \in Names |-> Absent], found |-> {}, calm |-> TRUE]

SyncInit ==
  /\ file = [n \in Names |-> 0]
  /\ server = {}
  /\ upload = [u \in Uploads |-> Stopped]

Disturbs(u) == [v \in Uploads |-> IF v = u THEN upload[v] ELSE [upload[v] EXCEPT !.calm = FALSE]]

-----------------------------------------------------------------------------

\* local is read when the module is imported, existing by list_examples.  Of two
\* copies of a name the dict keeps one.  A dataset that is not there yet counts as
\* an empty one: create_dataset makes it, and of two the later fails.
List(u) ==
  /\ upload[u].at \in {"off", "over"}
  /\ \E found \in SUBSET server :
       /\ {c.name : c \in found} = {c.name : c \in server}
       /\ \A c, d \in found : c.name = d.name => c = d
       /\ upload' = [upload EXCEPT ![u] = [at |-> "listed", local |-> file, found |-> found,
                                           calm |-> TRUE]]
  /\ UNCHANGED <<file, server>>

Managed(u)  == {n \in Names : upload[u].local[n] # Absent}
Missing(u)  == Managed(u) \ {c.name : c \in upload[u].found}
Local(u, c)   == upload[u].local[c.name]
Differs(u, c) == c.body # Local(u, c)
ToUpdate(u)   == {c \in upload[u].found : c.name \in Managed(u) /\ Differs(u, c)}
Pulled(u, c)  == c
Pushed(u, c)  == [c EXCEPT !.body = Local(u, c)]

\* create_examples, in one request; the server picks the ids.
CreateExamples(u) ==
  /\ upload[u].at = "listed"
  /\ \E id \in [Missing(u) -> Ids \ {c.id : c \in server}] :
       /\ \A m, n \in Missing(u) : id[m] = id[n] => m = n
       /\ server' = server \cup
            {[id |-> id[n], name |-> n, body |-> upload[u].local[n]] : n \in Missing(u)}
  /\ upload' = [IF Missing(u) = {} THEN upload ELSE Disturbs(u) EXCEPT ![u].at = "created"]
  /\ UNCHANGED file

\* update_examples: an id that is gone fails the request.
UpdateExamples(u) ==
  /\ upload[u].at = "created"
  /\ {c.id : c \in ToUpdate(u)} \subseteq {c.id : c \in server}
  /\ server' = {c \in server : ~\E d \in ToUpdate(u) : d.id = c.id}
                 \cup {Pushed(u, d) : d \in ToUpdate(u)}
  /\ upload' = [IF ToUpdate(u) = {} THEN upload ELSE Disturbs(u) EXCEPT ![u].at = "over"]
  /\ UNCHANGED file

Dies(u) ==
  /\ upload[u].at \in {"listed", "created"}
  /\ upload' = [upload EXCEPT ![u] = Stopped]
  /\ UNCHANGED <<file, server>>

\* Somebody at the LangSmith page, where a trace becomes an example.
PageWrites ==
  /\ \/ \E id \in Ids \ {c.id : c \in server}, b \in Bodies :
          server' = server \cup {[id |-> id, name |-> Unnamed, body |-> b]}
     \/ \E c \in server, b \in Bodies : server' = (server \ {c}) \cup {[c EXCEPT !.body = b]}
     \/ \E c \in server : server' = server \ {c}
  /\ upload' = [u \in Uploads |-> [upload[u] EXCEPT !.calm = FALSE]]
  /\ UNCHANGED file

EditFile ==
  /\ \E n \in Names, b \in Bodies \cup {Absent} : file' = [file EXCEPT ![n] = b]
  /\ UNCHANGED <<server, upload>>

SyncNext ==
  \/ \E u \in Uploads : List(u) \/ CreateExamples(u) \/ UpdateExamples(u) \/ Dies(u)
  \/ PageWrites \/ EditFile

SyncSpec == SyncInit /\ [][SyncNext]_syncVars

-----------------------------------------------------------------------------

(***************************************************************************)
(* An upload that ends with nobody else writing leaves the dataset with    *)
(* what the file held when it started, whatever earlier uploads, dead or   *)
(* overlapping, left there, and with every example it does not manage.     *)
(***************************************************************************)
SyncSettles ==
  \A u \in Uploads :
    upload[u].at = "over" /\ upload[u].calm =>
      /\ \A n \in Managed(u) :
           \E c \in server : c.name = n /\ c.body = upload[u].local[n]
      /\ \A c \in upload[u].found : \E d \in server : d.id = c.id /\ d.name = c.name
=============================================================================
