----------------------------- MODULE SetupData ------------------------------
(***************************************************************************)
(* scripts/setup_data.py: the dump, chinook.db built from it and the       *)
(* writable support.db, by a script that may die anywhere and is run       *)
(* again, with or without --force.  A file that is there is taken as it    *)
(* is: only the counts at the end can tell a whole chinook.db from one a   *)
(* dead run left half built.                                               *)
(***************************************************************************)
EXTENDS Naturals, FiniteSets

CONSTANT Tickets   \* tickets that support.db may hold

VARIABLES
  dump, chinookDb,  \* "absent", "partial" or "whole"
  supportDb,        \* its tables, and the tickets filed in it
  script            \* the run of setup_data.py in progress, and its --force

dataVars == <<dump, chinookDb, supportDb, script>>

FileStates == {"absent", "partial", "whole"}
Stages     == {"off", "download", "chinook", "support", "counts", "ok", "failed"}

SetupDataTypeOK ==
  /\ dump \in FileStates /\ chinookDb \in FileStates
  /\ supportDb \in [tables : {"none", "older", "current"}, tickets : SUBSET Tickets]
  /\ script \in [at : Stages, force : BOOLEAN, found : SUBSET Tickets]

\* found: the tickets there when the run started.
NotStarted == [at |-> "off", force |-> FALSE, found |-> {}]

SetupDataInit ==
  /\ dump = "absent" /\ chinookDb = "absent"
  /\ supportDb \in [tables : {"none", "older"}, tickets : {{}}]
  /\ script = NotStarted

Starts(force) ==
  /\ script.at \in {"off", "ok", "failed"}
  /\ script' = [at |-> "download", force |-> force, found |-> supportDb.tickets]
  /\ UNCHANGED <<dump, chinookDb, supportDb>>

On(stage, next) == script.at = stage /\ script' = [script EXCEPT !.at = next]

\* What a step that writes a file can leave: all of it, or what was written
\* when the download broke off, the script died or the SQL did.
Kept(file, force) == file # "absent" /\ ~force

DownloadDump ==
  /\ \/ Kept(dump, script.force) /\ dump' = dump /\ On("download", "chinook")
     \/ ~Kept(dump, script.force) /\ dump' = "whole" /\ On("download", "chinook")
     \/ ~Kept(dump, script.force) /\ dump' = "partial" /\ On("download", "failed")
  /\ UNCHANGED <<chinookDb, supportDb>>

\* A partial dump may end between two statements, and then nothing is raised.
BuildChinook ==
  /\ \/ Kept(chinookDb, script.force) /\ chinookDb' = chinookDb /\ On("chinook", "support")
     \/ ~Kept(chinookDb, script.force) /\ chinookDb' = dump /\ On("chinook", "support")
     \/ ~Kept(chinookDb, script.force) /\ chinookDb' = "partial" /\ On("chinook", "failed")
  /\ UNCHANGED <<dump, supportDb>>

\* CREATE TABLE IF NOT EXISTS, in a new file only under --force.
Rebuilt(force) == [tables |-> "current", tickets |-> {}]
Completed(force) ==
  [tables |-> "current", tickets |-> IF force THEN {} ELSE supportDb.tickets]

BuildSupport ==
  /\ \/ supportDb' = Completed(script.force) /\ On("support", "counts")
     \/ script.force /\ supportDb' = [tables |-> "none", tickets |-> {}] /\ On("support", "failed")
  /\ UNCHANGED <<dump, chinookDb>>

\* verify_counts raises on a mismatch; verify_read_only passes.
VerifyCounts ==
  /\ \/ chinookDb = "whole" /\ On("counts", "ok")
     \/ chinookDb # "whole" /\ On("counts", "failed")
  /\ UNCHANGED <<dump, chinookDb, supportDb>>

ScriptDies ==
  /\ script.at \notin {"off", "ok", "failed"}
  /\ script' = [script EXCEPT !.at = "failed"]
  /\ UNCHANGED <<dump, chinookDb, supportDb>>

\* The service files tickets whenever the table is there.
FileTicket(k) ==
  /\ supportDb.tables # "none" /\ k \notin supportDb.tickets
  /\ supportDb' = [supportDb EXCEPT !.tickets = @ \cup {k}]
  /\ UNCHANGED <<dump, chinookDb, script>>

SetupDataNext ==
  \/ \E force \in BOOLEAN : Starts(force)
  \/ DownloadDump \/ BuildChinook \/ BuildSupport \/ VerifyCounts \/ ScriptDies
  \/ \E k \in Tickets : FileTicket(k)

(***************************************************************************)
(* A run that reports success leaves every file complete, whatever earlier *)
(* runs left behind, and without --force no ticket it found is gone        *)
(* ("adds tables ... rather than discarding it").                          *)
(***************************************************************************)
SetupIsHonest ==
  script.at = "ok" =>
    /\ dump # "absent" /\ chinookDb = "whole" /\ supportDb.tables = "current"
    /\ ~script.force => script.found \subseteq supportDb.tickets
=============================================================================
