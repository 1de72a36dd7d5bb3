----------------------------- MODULE Experiment -----------------------------
(***************************************************************************)
(* The flat-versus-supervisor experiment: evals/run.py writes one file for *)
(* each run of an arm, scripts/freeze_experiment.py refuses or publishes a *)
(* pair of files with the verdict of evals/compare.py.  People edit and    *)
(* commit meanwhile.  A run imports the code when it starts and asks git   *)
(* and hashes the graders when it ends.                                    *)
(***************************************************************************)
EXTENDS Evaluators

CONSTANTS
  Models,
  MaxEdits, MaxFiles   \* bounds: changes of the tree; result files

ASSUME ExperimentAssumption == MaxEdits \in Nat /\ MaxFiles \in Nat

VARIABLES
  tree,       \* the working tree: a version of each part
  commits,    \* the trees committed; a commit is its place
  head,
  edits,
  runs,       \* runs in progress
  files,      \* result files
  published   \* the last frozen pair, or nothing

experimentVars == <<tree, commits, head, edits, runs, files, published>>

Parts == {"agent", "dataset", "evaluators"}
Clean == tree = commits[head]

ExperimentInit ==
  /\ tree = [p \in Parts |-> 0]
  /\ commits = <<tree>> /\ head = 1
  /\ edits = 0
  /\ runs = {} /\ files = {} /\ published = {}

\* The tree moves under every run in progress.
Moves ==
  /\ edits < MaxEdits /\ edits' = edits + 1
  /\ runs' = {[r EXCEPT !.moved = TRUE] : r \in runs}
  /\ UNCHANGED <<files, published>>

Edit(p)     == Moves /\ tree' = [tree EXCEPT ![p] = 1 - @] /\ UNCHANGED <<commits, head>>
Commit      == Moves /\ ~Clean /\ commits' = Append(commits, tree)
                     /\ head' = Len(commits) + 1 /\ UNCHANGED tree
Checkout(c) == Moves /\ Clean /\ head' = c /\ tree' = commits[c] /\ UNCHANGED commits

-----------------------------------------------------------------------------
(* evals/run.py *)

Selected(slices) ==
  IF slices = "billing" THEN {"spend"}
  ELSE {"spend", "pending_no_write", "two_turn_refund", "escalate_and_answer"}

\* --arm is left out, no reader of the file looks at it; --repeat is 1.
Args == [model : Models, slices : {"all", "billing"}, dry : BOOLEAN]

StartRun(args) ==
  /\ runs = {} /\ Cardinality(files) < MaxFiles
  /\ runs' = {[args |-> args, ran |-> tree, moved |-> FALSE]}
  /\ UNCHANGED <<tree, commits, head, edits, files, published>>

\* How an arm does: all of it right; slow, with lookups and facts dropped; or
\* an exception each time.  A dry run grades an outcome of its own.
Qualities == {"right", "poor", "broken"}

Right(name) ==
  LET ex == EXAMPLES[name] IN
  [RunOutcome EXCEPT !.answer = {"words", "facts"}, !.tools = ex.expectTools, !.calls = 1,
                     !.writes = ex.writes, !.interrupted = RefundTool \in ex.expectTools,
                     !.seconds = 2, !.cost = 1]

OutcomeOf(args, quality, name) ==
  CASE args.dry -> [RunOutcome EXCEPT !.error = TRUE]
    [] ~args.dry /\ quality = "right"  -> Right(name)
    [] ~args.dry /\ quality = "poor"   ->
         [Right(name) EXCEPT !.answer = {"words"}, !.tools = @ \ {"lookup"},
                             !.calls = 4, !.seconds = 5, !.cost = 2]
    [] ~args.dry /\ quality = "broken" -> [RunOutcome EXCEPT !.error = TRUE, !.seconds = 2]

RowsOf(args, quality) ==
  [name \in Selected(args.slices) |-> Row(name, OutcomeOf(args, quality, name))]

\* Without git: commit unknown, dirty.
GitCommit ==
  {[commit |-> head, dirty |-> ~Clean], [commit |-> 0, dirty |-> TRUE]}

\* _provenance, after the last row.
FinishRun(r, git, quality) ==
  /\ runs' = runs \ {r}
  /\ files' = files \cup
       {[args |-> r.args, git |-> git, agent_model |-> r.args.model,
         dataset |-> [slices |-> r.args.slices, digest |-> tree["dataset"]],
         evaluators_digest |-> tree["evaluators"],
         rows |-> RowsOf(r.args, quality), ran |-> r.ran, moved |-> r.moved]}
  /\ UNCHANGED <<tree, commits, head, edits, published>>

-----------------------------------------------------------------------------
(* scripts/freeze_experiment.py *)

SameRecorded(f, g) ==
  /\ f.agent_model = g.agent_model
  /\ f.evaluators_digest = g.evaluators_digest
  /\ f.dataset = g.dataset
SameCommit(f, g) == SameRecorded(f, g) /\ f.git.commit = g.git.commit
Comparable(f, g) == SameCommit(f, g) /\ ~f.git.dirty /\ ~g.git.dirty

\* Any two files: which arm a file is of is not looked at.
Freeze(f, g) ==
  /\ Comparable(f, g)
  /\ published' = {[flat |-> f, sup |-> g, ships |-> Ships(f.rows, g.rows)]}
  /\ UNCHANGED <<tree, commits, head, edits, runs, files>>

ExperimentNext ==
  \/ \E p \in Parts : Edit(p)
  \/ Commit
  \/ \E c \in DOMAIN commits : Checkout(c)
  \/ \E args \in Args : StartRun(args)
  \/ \E r \in runs, git \in GitCommit, quality \in Qualities : FinishRun(r, git, quality)
  \/ \E f, g \in files : Freeze(f, g)

ExperimentSpec == ExperimentInit /\ [][ExperimentNext]_experimentVars

-----------------------------------------------------------------------------

(***************************************************************************)
(* Two arms that are published ran the same agent, dataset and graders on  *)
(* the same model ("two arms compared across an edit are two different     *)
(* systems"), unless the tree moved while one of them was running.         *)
(***************************************************************************)
PublishedArmsAgree ==
  \A p \in published :
    ~p.flat.moved /\ ~p.sup.moved =>
      /\ p.flat.ran = p.sup.ran
      /\ p.flat.args.model = p.sup.args.model
      /\ p.flat.args.slices = p.sup.args.slices

(***************************************************************************)
(* No dry run of the whole dataset ever makes the supervisor ship, on      *)
(* either side, though nothing that reads a result file asks whether it    *)
(* was dry: an arm that did nothing fails the examples that must pause or  *)
(* write, and those failures block.                                        *)
(***************************************************************************)
ADryArmNeverShips ==
  \A p \in published :
    p.ships /\ p.flat.args.slices = "all" => ~p.flat.args.dry /\ ~p.sup.args.dry
=============================================================================
