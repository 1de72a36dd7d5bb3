---------------------------- MODULE EvalsProofs -----------------------------
(***************************************************************************)
(* One run of the target and its grades, the experiment for any number of  *)
(* edits, runs and files, and the dataset for any names, copies and        *)
(* uploads.                                                                *)
(***************************************************************************)
EXTENDS EvalTarget, Experiment, DatasetSync, FiniteSetTheorems, TLAPS

(* One run, and what the evaluators say of it *)

Outcomes ==
  [answer : SUBSET Sayings, tools : SUBSET ToolNames, calls : Nat,
   foreign : SUBSET Customers, writes : Nat, interrupted : BOOLEAN, guardFired : BOOLEAN,
   error : BOOLEAN, seconds : Nat, cost : Nat]

TargetTypeOK ==
  /\ example \in DOMAIN EXAMPLES /\ flaw \in Flaws
  /\ at \in {"ready", "working", "over"}
  /\ asked \subseteq ToolNames /\ hidden \subseteq ToolNames /\ nested \subseteq ToolNames
  /\ log \subseteq Customers
  /\ pending \in Nat /\ tickets \in Nat
  /\ outcome \in Outcomes

\* While the run goes on nothing has been set that an exception or the end sets,
\* and only a flaw no guard sees has put a foreign customer in the log.
Unfinished ==
  at # "over" =>
    /\ ~outcome.error /\ ~outcome.guardFired /\ outcome.foreign = {}
    /\ flaw # "peeks" => log \subseteq {ex.customer}

\* A run that came to its end says whose rows were read.
Finished ==
  at = "over" /\ ~outcome.error =>
    ~outcome.guardFired /\ outcome.foreign = log \ {ex.customer}

\* Without the gate nothing ever pauses.
NeverPaused == flaw = "ungated" => pending = 0 /\ ~outcome.interrupted

TargetInv == TargetTypeOK /\ Unfinished /\ Finished /\ NeverPaused

\* The customer of an example, and the one that is not.
LEMMA TwoCustomers ==
  ASSUME TargetTypeOK
  PROVE  ex.customer \in Customers /\ Other \in Customers /\ Other # ex.customer
<1>1. ex.customer \in {Helena, Richard}
  <2>1. \A name \in DOMAIN EXAMPLES : EXAMPLES[name].customer \in {Helena, Richard}
    <3> DEFINE E == EXAMPLES
    <3>1. DOMAIN E = {"spend", "borrowed_consent", "pending_no_write", "approved_writes_once",
                      "rejected_writes_nothing", "foreign_line_refused",
                      "whole_invoice_escalates", "two_turn_refund", "escalate_and_answer"}
      BY DEF EXAMPLES
    <3>2. /\ E["spend"].customer = Helena /\ E["borrowed_consent"].customer = Helena
          /\ E["pending_no_write"].customer = Helena
          /\ E["approved_writes_once"].customer = Helena
          /\ E["rejected_writes_nothing"].customer = Helena
          /\ E["foreign_line_refused"].customer = Richard
          /\ E["whole_invoice_escalates"].customer = Helena
          /\ E["two_turn_refund"].customer = Helena
          /\ E["escalate_and_answer"].customer = Helena
      BY DEF EXAMPLES, Plain
    <3> HIDE DEF E
    <3>3. \A name \in DOMAIN E : E[name].customer \in {Helena, Richard}
      BY <3>1, <3>2
    <3> QED
      BY <3>3 DEF E
  <2> QED
    BY <2>1 DEF TargetTypeOK, ex
<1>2. \E c \in Customers : c # ex.customer
  BY <1>1, CustomersAssumption DEF Customers
<1> QED
  BY <1>1, <1>2 DEF Other, Customers

\* The marks a grade gives, one by one.
LEMMA Marks ==
  ASSUME NEW out, NEW e
  PROVE  /\ ~NoCrossTenantAccess(out, e) => "no_cross_tenant_access" \in Blocking(out, e)
         /\ ~GatedBeforeWrite(out, e) => "gated_before_write" \in Blocking(out, e)
         /\ Failed(out, e) = {} =>
              /\ NoCrossTenantAccess(out, e) /\ CorrectWriteCount(out, e)
              /\ CompletedWithoutError(out, e)
<1> DEFINE g == Grade(out, e)
<1>1. /\ {"no_cross_tenant_access", "correct_write_count", "gated_before_write",
          "completed_without_error"} \subseteq DOMAIN g
      /\ g["no_cross_tenant_access"] = NoCrossTenantAccess(out, e)
      /\ g["correct_write_count"] = CorrectWriteCount(out, e)
      /\ g["gated_before_write"] = GatedBeforeWrite(out, e)
      /\ g["completed_without_error"] = CompletedWithoutError(out, e)
  BY DEF Grade
<1>2. Failed(out, e) = {k \in DOMAIN g : ~g[k]}
  BY DEF Failed
<1> HIDE DEF g
<1> QED
  BY <1>1, <1>2 DEF Blocking, BlockingKeys

\* A write adds at most one row.
LEMMA FilesTyped == tickets \in Nat /\ Files => tickets' \in Nat
  BY DEF Files

\* What the actions that write say of the pause, the rows and the outcome.
LEMMA Asking ==
  ASSUME NEW n \in 1 .. 2, AskRefund(n), tickets \in Nat
  PROVE  /\ Working /\ asked' = asked \cup {RefundTool}
         /\ tickets' \in Nat /\ pending' \in Nat
         /\ flaw = "ungated" => pending' = 0
         /\ UNCHANGED <<at, hidden, nested, log, outcome>>
<1>1. (Files /\ pending' = 0) \/ (tickets' = tickets /\ flaw # "ungated" /\ pending' \in {0, n})
  BY Zenon DEF AskRefund
<1>2. /\ Working /\ asked' = asked \cup {RefundTool}
      /\ UNCHANGED <<at, hidden, nested, log, outcome>>
  BY Zenon DEF AskRefund
<1> QED
  BY <1>1, <1>2, FilesTyped

LEMMA Resuming ==
  ASSUME Resume, tickets \in Nat
  PROVE  /\ Working /\ pending = 1 /\ pending' = 0 /\ tickets' \in Nat
         /\ outcome' = [outcome EXCEPT !.interrupted = TRUE]
         /\ UNCHANGED <<at, asked, hidden, nested, log>>
<1>1. Files \/ tickets' = tickets
  BY Zenon DEF Resume
<1>2. /\ Working /\ pending = 1 /\ pending' = 0
      /\ outcome' = [outcome EXCEPT !.interrupted = TRUE]
      /\ UNCHANGED <<at, asked, hidden, nested, log>>
  BY Zenon DEF Resume
<1> QED
  BY <1>1, <1>2, FilesTyped

LEMMA TargetStep == TargetInv /\ [TargetNext]_targetVars => TargetInv'
<1> SUFFICES ASSUME TargetInv, [TargetNext]_targetVars PROVE TargetInv'
  OBVIOUS
<1> USE DEF TargetInv, TargetTypeOK, Unfinished, Finished, NeverPaused
<1>0. ex.customer \in Customers /\ Other \in Customers /\ Other # ex.customer
  BY TwoCustomers
<1>1. ASSUME at = "working", UNCHANGED <<example, flaw>> PROVE ex' = ex
  BY <1>1 DEF ex
<1>2. ASSUME Working, at' = at, UNCHANGED outcome,
             pending' \in Nat, asked' \subseteq ToolNames, hidden' \subseteq ToolNames,
             nested' \subseteq ToolNames, tickets' \in Nat,
             log' \subseteq Customers, flaw # "peeks" => log' \subseteq {ex.customer},
             flaw = "ungated" => pending' = 0
      PROVE  TargetInv'
  BY <1>1, <1>2 DEF Working
<1>3. ASSUME NEW delegated \in BOOLEAN, Lookup(delegated) PROVE TargetInv'
  BY <1>0, <1>2, <1>3 DEF Lookup, Working, ToolNames
<1>4. ASSUME NEW guard \in BOOLEAN, LeakyLookup(guard) PROVE TargetInv'
  <2>1. outcome' = [outcome EXCEPT !.error = TRUE, !.guardFired = guard]
    BY <1>4 DEF LeakyLookup, Raises
  <2>2. outcome' \in Outcomes /\ outcome'.error
    BY <2>1 DEF Outcomes
  <2> QED
    BY <1>0, <1>4, <2>2 DEF LeakyLookup, Raises, Working
<1>5. CASE Peek
  BY <1>0, <1>2, <1>5 DEF Peek, Working
<1>6. CASE SpecialistReturns
  BY <1>2, <1>6 DEF SpecialistReturns, Working
<1>7. CASE Escalate
  BY <1>2, <1>7 DEF Escalate, Working, ToolNames
<1>8. ASSUME NEW n \in 1 .. 2, AskRefund(n) PROVE TargetInv'
  <2>1. /\ Working /\ asked' = asked \cup {RefundTool}
        /\ tickets' \in Nat /\ pending' \in Nat
        /\ flaw = "ungated" => pending' = 0
        /\ UNCHANGED <<at, hidden, nested, log, outcome>>
    BY <1>8, Asking
  <2> QED
    BY <1>2, <2>1 DEF Working, ToolNames
<1>9. ASSUME NEW o \in Outcomes, Working, TurnEnds(o), ~o.error, ~o.guardFired, o.foreign = {},
             flaw = "ungated" => ~o.interrupted
      PROVE  TargetInv'
  <2>1. ex' = ex
    BY <1>1, <1>9 DEF Working
  <2>2. Inspected(o) \in Outcomes /\ Inspected(o).foreign = log \ {ex.customer}
        /\ Inspected(o).error = o.error /\ Inspected(o).guardFired = o.guardFired
        /\ Inspected(o).interrupted = o.interrupted
    BY DEF Inspected, Outcomes
  <2>3. CASE turn = ex.turns /\ at' = "over" /\ outcome' = Inspected(o)
    BY <1>9, <2>1, <2>2, <2>3 DEF TurnEnds, Working
  <2>4. CASE at' = at /\ outcome' = o
    BY <1>9, <2>1, <2>4 DEF TurnEnds, Working
  <2> QED
    BY <1>9, <2>3, <2>4 DEF TurnEnds
<1>10. ASSUME NEW said \in SUBSET Sayings, Answer(said) PROVE TargetInv'
  <2>1. /\ Seen(said) \in Outcomes /\ Seen(said).error = outcome.error
        /\ Seen(said).guardFired = outcome.guardFired /\ Seen(said).foreign = outcome.foreign
        /\ Seen(said).interrupted = outcome.interrupted
    BY DEF Seen, Outcomes
  <2> QED
    BY <1>9, <1>10, <2>1 DEF Answer, Working
<1>11. ASSUME NEW said \in SUBSET Sayings, StaysPaused(said) PROVE TargetInv'
  <2> DEFINE o == [Seen(said) EXCEPT !.interrupted = TRUE]
  <2>1. /\ o \in Outcomes /\ o.error = outcome.error
        /\ o.guardFired = outcome.guardFired /\ o.foreign = outcome.foreign
    BY DEF Seen, Outcomes
  <2>2. pending > 0 /\ Working /\ TurnEnds(o)
    BY <1>11 DEF StaysPaused
  <2> HIDE DEF o
  <2> QED
    BY <1>9, <2>1, <2>2 DEF Working
<1>12. CASE Resume
  <2>1. /\ Working /\ pending = 1 /\ pending' = 0 /\ tickets' \in Nat
        /\ outcome' = [outcome EXCEPT !.interrupted = TRUE]
        /\ UNCHANGED <<at, asked, hidden, nested, log>>
    BY <1>12, Resuming
  <2>2. /\ outcome' \in Outcomes /\ outcome'.error = outcome.error
        /\ outcome'.guardFired = outcome.guardFired /\ outcome'.foreign = outcome.foreign
    BY <2>1 DEF Outcomes
  <2> QED
    BY <1>1, <2>1, <2>2 DEF Working
<1>13. CASE ResumeFails
  <2>1. outcome' \in Outcomes /\ outcome'.error /\ pending > 1
    BY <1>13 DEF ResumeFails, Outcomes
  <2> QED
    BY <1>1, <1>13, <2>1 DEF ResumeFails, Working
<1>14. CASE Fails
  <2>1. /\ outcome' \in Outcomes /\ outcome'.error
        /\ outcome'.interrupted = outcome.interrupted
    BY <1>14 DEF Fails, Raises, Outcomes
  <2> QED
    BY <1>1, <1>14, <2>1 DEF Fails, Raises, Working
<1>15. CASE NextExample
  <2>1. /\ RunOutcome \in Outcomes /\ ~RunOutcome.error /\ ~RunOutcome.guardFired
        /\ RunOutcome.foreign = {} /\ ~RunOutcome.interrupted
    BY DEF RunOutcome, Outcomes
  <2> QED
    BY <1>15, <2>1 DEF NextExample
<1>16. CASE UNCHANGED targetVars
  BY <1>16 DEF targetVars, ex
<1> QED
  BY <1>3, <1>4, <1>5, <1>6, <1>7, <1>8, <1>10, <1>11, <1>12, <1>13, <1>14, <1>15, <1>16
     DEF TargetNext

\* In every run of any example, by any agent: to pass every check is to have
\* read nobody else's rows and written what the example expects; an agent that
\* does not pause is blocked on the example that must; and a foreign read is a
\* blocking failure unless an exception other than the guard's ended the run.
THEOREM GradesTellTheTruth == TargetSpec => []GradesAreHonest
<1>1. TargetInit => TargetInv
  <2> SUFFICES ASSUME TargetInit PROVE TargetInv
    OBVIOUS
  <2>1. /\ RunOutcome \in Outcomes /\ ~RunOutcome.error /\ ~RunOutcome.guardFired
        /\ RunOutcome.foreign = {} /\ ~RunOutcome.interrupted
    BY DEF RunOutcome, Outcomes
  <2>2. "spend" \in DOMAIN EXAMPLES
    BY DEF EXAMPLES
  <2> QED
    BY <2>1, <2>2 DEF TargetInit, TargetInv, TargetTypeOK, Unfinished, Finished, NeverPaused,
       Flaws
<1>2. TargetInv => GradesAreHonest
  <2> SUFFICES ASSUME TargetInv, at = "over" PROVE GradesAreHonest
    BY DEF GradesAreHonest
  <2> USE DEF TargetInv, TargetTypeOK
  <2>1. /\ Returned.error = outcome.error /\ Returned.guardFired = outcome.guardFired
        /\ Returned.foreign = outcome.foreign /\ Returned.writes = tickets
        /\ Returned.interrupted = outcome.interrupted
    BY DEF Returned, Outcomes
  <2>2. ASSUME Failed(Returned, ex) = {}
        PROVE  log \subseteq {ex.customer} /\ tickets = ex.writes
    <3>1. /\ NoCrossTenantAccess(Returned, ex) /\ CorrectWriteCount(Returned, ex)
          /\ CompletedWithoutError(Returned, ex)
      BY <2>2, Marks
    <3>2. ~outcome.error
      BY <2>1, <3>1 DEF CompletedWithoutError
    <3>3. log \subseteq {ex.customer}
      BY <2>1, <3>1, <3>2 DEF NoCrossTenantAccess, Finished
    <3>4. tickets = ex.writes
      BY <2>1, <3>1 DEF CorrectWriteCount
    <3> QED
      BY <3>3, <3>4
  <2>3. ASSUME flaw = "ungated", RefundTool \in ex.expectTools
        PROVE  Blocking(Returned, ex) # {}
    <3>1. ~GatedBeforeWrite(Returned, ex)
      BY <2>1, <2>3 DEF GatedBeforeWrite, NeverPaused
    <3> QED
      BY <3>1, Marks
  <2>4. ASSUME Other \in log, outcome.guardFired \/ ~outcome.error
        PROVE  Blocking(Returned, ex) # {}
    <3>1. Other # ex.customer
      BY TwoCustomers
    <3>2. ~NoCrossTenantAccess(Returned, ex)
      BY <2>1, <2>4, <3>1 DEF NoCrossTenantAccess, Finished
    <3> QED
      BY <3>2, Marks
  <2> QED
    BY <2>2, <2>3, <2>4 DEF GradesAreHonest
<1> QED
  BY <1>1, <1>2, TargetStep, PTL DEF TargetSpec

-----------------------------------------------------------------------------
(* The experiment *)

Trees == [Parts -> 0 .. 1]

HistoryIsKept ==
  /\ tree \in Trees
  /\ commits \in Seq(Trees) /\ head \in DOMAIN commits
  /\ runs \subseteq [args : Args, ran : Trees, moved : BOOLEAN]

\* A run that was not disturbed ran the tree there is now.
RunsKnowTheTree == \A r \in runs : ~r.moved => r.ran = tree

\* What a result file says of itself is so, if it says it was clean.
Truthful(f) ==
  /\ f.agent_model = f.args.model /\ f.dataset.slices = f.args.slices
  /\ ~f.moved /\ ~f.git.dirty =>
       f.git.commit \in DOMAIN commits /\ f.ran = commits[f.git.commit]

ExperimentInv ==
  /\ HistoryIsKept
  /\ RunsKnowTheTree
  /\ \A f \in files : Truthful(f)
  /\ PublishedArmsAgree

\* Commits are only ever added.
LEMMA TruthLasts ==
  ASSUME NEW f, Truthful(f), commits \in Seq(Trees),
         commits' = commits \/ \E t \in Trees : commits' = Append(commits, t)
  PROVE  Truthful(f)'
  BY DEF Truthful

\* Every step of the experiment keeps ExperimentInv.
LEMMA ExperimentStep == ExperimentInv /\ [ExperimentNext]_experimentVars => ExperimentInv'
<1> SUFFICES ASSUME ExperimentInv, [ExperimentNext]_experimentVars PROVE ExperimentInv'
  OBVIOUS
<1> USE DEF ExperimentInv, HistoryIsKept, RunsKnowTheTree
<1>1. ASSUME Moves, tree' \in Trees, head' \in DOMAIN commits',
             commits' = commits \/ commits' = Append(commits, tree)
      PROVE  ExperimentInv'
  <2>1. /\ runs' = {[r EXCEPT !.moved = TRUE] : r \in runs}
        /\ UNCHANGED <<files, published>>
    BY <1>1 DEF Moves
  <2>2. commits' \in Seq(Trees)
    <3>1. commits \in Seq(Trees) /\ tree \in Trees
      OBVIOUS
    <3>2. Append(commits, tree) \in Seq(Trees)
      BY <3>1
    <3> QED
      BY <1>1, <3>1, <3>2, Zenon
  <2>3. \A f \in files' : Truthful(f)'
    BY <1>1, <2>1, TruthLasts
  <2>4. PublishedArmsAgree'
    BY <2>1 DEF PublishedArmsAgree
  <2>5. \A r \in runs' : r \in [args : Args, ran : Trees, moved : BOOLEAN] /\ r.moved
    <3> SUFFICES ASSUME NEW r \in runs
                 PROVE  LET m == [r EXCEPT !.moved = TRUE]
                        IN  m \in [args : Args, ran : Trees, moved : BOOLEAN] /\ m.moved
      BY <2>1
    <3> QED
      OBVIOUS
  <2> QED
    BY <1>1, <2>1, <2>2, <2>3, <2>4, <2>5
<1>2. ASSUME NEW p \in Parts, Edit(p) PROVE ExperimentInv'
  <2>1. Moves /\ UNCHANGED <<commits, head>> /\ tree' = [tree EXCEPT ![p] = 1 - @]
    BY <1>2 DEF Edit
  <2>2. 1 - tree[p] \in 0 .. 1
    BY DEF Trees
  <2>3. tree' \in Trees
    BY <2>1, <2>2 DEF Trees
  <2> QED
    BY <1>1, <2>1, <2>3
<1>3. CASE Commit
  <2>1. /\ Moves /\ tree' = tree /\ commits' = Append(commits, tree)
        /\ head' = Len(commits) + 1
    BY <1>3 DEF Commit
  <2>2. head' \in DOMAIN commits'
    BY <2>1
  <2> QED
    BY <1>1, <2>1, <2>2
<1>4. ASSUME NEW c \in DOMAIN commits, Checkout(c) PROVE ExperimentInv'
  BY <1>1, <1>4 DEF Checkout
<1>5. ASSUME NEW args \in Args, StartRun(args) PROVE ExperimentInv'
  BY <1>5 DEF StartRun, Truthful, PublishedArmsAgree
<1>6. ASSUME NEW r \in runs, NEW git \in GitCommit, NEW quality \in Qualities,
             FinishRun(r, git, quality)
      PROVE  ExperimentInv'
  <2> DEFINE new ==
        [args |-> r.args, git |-> git, agent_model |-> r.args.model,
         dataset |-> [slices |-> r.args.slices, digest |-> tree["dataset"]],
         evaluators_digest |-> tree["evaluators"],
         rows |-> RowsOf(r.args, quality), ran |-> r.ran, moved |-> r.moved]
  <2>1. files' = files \cup {new}
    BY <1>6 DEF FinishRun
  <2>2. UNCHANGED <<tree, commits, head, edits, published>> /\ runs' \subseteq runs
    BY <1>6 DEF FinishRun
  <2>3. ~git.dirty => git.commit = head /\ tree = commits[head]
    <3>1. git = [commit |-> head, dirty |-> ~Clean] \/ git = [commit |-> 0, dirty |-> TRUE]
      BY DEF GitCommit
    <3>2. CASE git = [commit |-> head, dirty |-> ~Clean]
      <4>1. git.commit = head /\ git.dirty = ~Clean
        BY <3>2
      <4> QED
        BY <4>1, Zenon DEF Clean
    <3>3. CASE git = [commit |-> 0, dirty |-> TRUE]
      BY <3>3
    <3> QED
      BY <3>1, <3>2, <3>3
  <2>4. Truthful(new)'
    BY <2>1, <2>2, <2>3 DEF Truthful
  <2>5. \A f \in files : Truthful(f)'
    BY <2>2, TruthLasts
  <2> QED
    BY <2>1, <2>2, <2>4, <2>5 DEF PublishedArmsAgree
<1>7. ASSUME NEW f \in files, NEW g \in files, Freeze(f, g) PROVE ExperimentInv'
  <2>1. /\ Comparable(f, g) /\ UNCHANGED <<tree, commits, head, edits, runs, files>>
        /\ published' = {[flat |-> f, sup |-> g, ships |-> Ships(f.rows, g.rows)]}
    BY <1>7 DEF Freeze
  <2>2. ~f.moved /\ ~g.moved =>
          /\ f.ran = g.ran /\ f.args.model = g.args.model /\ f.args.slices = g.args.slices
    BY <2>1 DEF Comparable, SameCommit, SameRecorded, Truthful
  <2>3. PublishedArmsAgree'
    BY <2>1, <2>2 DEF PublishedArmsAgree
  <2> QED
    BY <2>1, <2>3 DEF Truthful
<1>8. CASE UNCHANGED experimentVars
  BY <1>8 DEF experimentVars, Truthful, PublishedArmsAgree
<1> QED
  BY <1>2, <1>3, <1>4, <1>5, <1>6, <1>7, <1>8 DEF ExperimentNext

\* ExperimentInv is an invariant of the experiment.
LEMMA ExperimentIsSafe == ExperimentSpec => []ExperimentInv
<1>1. ExperimentInit => ExperimentInv
  BY DEF ExperimentInit, ExperimentInv, HistoryIsKept, Trees, Parts, RunsKnowTheTree,
     PublishedArmsAgree
<1> QED
  BY <1>1, ExperimentStep, PTL DEF ExperimentSpec

\* Two arms that are published ran the same code, dataset and graders on the same
\* model, unless the tree moved under one of them.
THEOREM PublishedArmsRanTheSame == ExperimentSpec => []PublishedArmsAgree
<1>1. ExperimentInv => PublishedArmsAgree
  BY DEF ExperimentInv
<1> QED
  BY <1>1, ExperimentIsSafe, PTL

-----------------------------------------------------------------------------
(* What a dry run may decide *)

\* The rows of a file are those its run would write, whatever it found.
Honest(f) == \E quality \in Qualities : f.rows = RowsOf(f.args, quality)

DryInv ==
  /\ \A f \in files : f.args \in Args /\ f.dataset.slices = f.args.slices /\ Honest(f)
  /\ \A p \in published :
       /\ Honest(p.flat) /\ Honest(p.sup)
       /\ p.flat.args \in Args /\ p.sup.args \in Args
       /\ p.sup.args.slices = p.flat.args.slices
       /\ p.ships = Ships(p.flat.rows, p.sup.rows)

\* A dry run of the whole dataset fails an example that must pause.
LEMMA DryRunsAreBlocked ==
  ASSUME NEW args \in Args, args.dry, args.slices = "all", NEW quality
  PROVE  SecurityFailures(RowsOf(args, quality)) # 0
<1> DEFINE rows == RowsOf(args, quality)
           out  == [RunOutcome EXCEPT !.error = TRUE]
           e    == EXAMPLES["pending_no_write"]
           bad  == {i \in DOMAIN rows : rows[i].blocking # {}}
<1>1. /\ DOMAIN rows = {"spend", "pending_no_write", "two_turn_refund", "escalate_and_answer"}
      /\ rows["pending_no_write"] = Row("pending_no_write", out)
  <2>1. Selected("all") = {"spend", "pending_no_write", "two_turn_refund", "escalate_and_answer"}
    BY DEF Selected
  <2>2. OutcomeOf(args, quality, "pending_no_write") = out
    BY DEF OutcomeOf
  <2> QED
    BY <2>1, <2>2 DEF RowsOf
<1>2. "gated_before_write" \in Blocking(out, e)
  <2>1. RefundTool \in e.expectTools
    BY DEF EXAMPLES, Plain
  <2>2. ~out.interrupted
    BY DEF RunOutcome
  <2>3. ~GatedBeforeWrite(out, e)
    BY <2>1, <2>2 DEF GatedBeforeWrite
  <2> HIDE DEF out, e
  <2>4. /\ "gated_before_write" \in DOMAIN Grade(out, e)
        /\ Grade(out, e)["gated_before_write"] = GatedBeforeWrite(out, e)
    BY DEF Grade
  <2> QED
    BY <2>3, <2>4 DEF Blocking, BlockingKeys, Failed
<1>3. "pending_no_write" \in bad
  BY <1>1, <1>2 DEF Row
<1>4. IsFiniteSet(DOMAIN rows)
  <2>1. IsFiniteSet({"spend"} \cup {"pending_no_write"})
    BY FS_Singleton, FS_Union
  <2>2. IsFiniteSet({"two_turn_refund"} \cup {"escalate_and_answer"})
    BY FS_Singleton, FS_Union
  <2>3. IsFiniteSet(({"spend"} \cup {"pending_no_write"})
                      \cup ({"two_turn_refund"} \cup {"escalate_and_answer"}))
    BY <2>1, <2>2, FS_Union
  <2>4. DOMAIN rows = ({"spend"} \cup {"pending_no_write"})
                        \cup ({"two_turn_refund"} \cup {"escalate_and_answer"})
    BY <1>1
  <2> QED
    BY <2>3, <2>4
<1>5. IsFiniteSet(bad)
  BY <1>4, FS_Subset
<1>6. Cardinality(bad) # 0
  BY <1>3, <1>5, FS_EmptySet
<1> QED
  BY <1>6 DEF SecurityFailures, Count

LEMMA DryStep == ExperimentInv /\ DryInv /\ [ExperimentNext]_experimentVars => DryInv'
<1> SUFFICES ASSUME ExperimentInv, DryInv, [ExperimentNext]_experimentVars PROVE DryInv'
  OBVIOUS
<1> USE DEF DryInv
<1>1. CASE Moves
  BY <1>1 DEF Moves, Honest, ExperimentInv, HistoryIsKept
<1>2. ASSUME NEW args \in Args, StartRun(args) PROVE DryInv'
  BY <1>2 DEF StartRun, Honest
<1>3. ASSUME NEW r \in runs, NEW git \in GitCommit, NEW quality \in Qualities,
             FinishRun(r, git, quality)
      PROVE  DryInv'
  <2> DEFINE f == [args |-> r.args, git |-> git, agent_model |-> r.args.model,
                   dataset |-> [slices |-> r.args.slices, digest |-> tree["dataset"]],
                   evaluators_digest |-> tree["evaluators"],
                   rows |-> RowsOf(r.args, quality), ran |-> r.ran, moved |-> r.moved]
  <2>0. r.args \in Args
    BY DEF ExperimentInv, HistoryIsKept
  <2>1. runs' \subseteq runs /\ files' = files \cup {f} /\ published' = published
    BY <1>3 DEF FinishRun
  <2>2. f.args \in Args /\ f.dataset.slices = f.args.slices /\ Honest(f)
    BY <2>0 DEF Honest
  <2> HIDE DEF f
  <2> QED
    BY <2>1, <2>2
<1>4. ASSUME NEW f \in files, NEW g \in files, Freeze(f, g) PROVE DryInv'
  <2>1. /\ published' = {[flat |-> f, sup |-> g, ships |-> Ships(f.rows, g.rows)]}
        /\ runs' = runs /\ files' = files
    BY <1>4 DEF Freeze
  <2>2. f.args.slices = g.args.slices
    BY <1>4 DEF Freeze, Comparable, SameCommit, SameRecorded
  <2> QED
    BY <2>1, <2>2
<1>5. CASE UNCHANGED experimentVars
  BY <1>5 DEF experimentVars
<1> QED
  BY <1>1, <1>2, <1>3, <1>4, <1>5 DEF ExperimentNext, Edit, Commit, Checkout

\* No dry run of the whole dataset makes the supervisor ship, on either side.
THEOREM DryArmsNeverShip == ExperimentSpec => []ADryArmNeverShips
<1>1. ExperimentInit => DryInv
  BY DEF ExperimentInit, DryInv
<1>2. DryInv => ADryArmNeverShips
  <2> SUFFICES ASSUME DryInv, NEW p \in published, p.ships, p.flat.args.slices = "all"
               PROVE  ~p.flat.args.dry /\ ~p.sup.args.dry
    BY DEF ADryArmNeverShips
  <2>1. SecurityFailures(p.flat.rows) = 0 /\ SecurityFailures(p.sup.rows) = 0
    <3>1. Bars(p.flat.rows, p.sup.rows).security /\ "security" \in DOMAIN Bars(p.flat.rows, p.sup.rows)
      BY DEF DryInv, Ships, Bars
    <3> QED
      BY <3>1 DEF Bars
  <2>2. /\ \E quality \in Qualities : p.flat.rows = RowsOf(p.flat.args, quality)
        /\ \E quality \in Qualities : p.sup.rows = RowsOf(p.sup.args, quality)
        /\ p.flat.args \in Args /\ p.sup.args \in Args /\ p.sup.args.slices = "all"
    BY DEF DryInv, Honest
  <2> QED
    BY <2>1, <2>2, DryRunsAreBlocked
<1> QED
  BY <1>1, <1>2, ExperimentIsSafe, DryStep, PTL DEF ExperimentSpec

-----------------------------------------------------------------------------
(* The dataset *)

UploadStates ==
  [at : {"off", "listed", "created", "over"}, local : [Names -> Bodies \cup {Absent}],
   found : SUBSET Copy, calm : BOOLEAN]

SyncTypeOK ==
  /\ file \in [Names -> Bodies \cup {Absent}]
  /\ server \subseteq Copy
  /\ upload \in [Uploads -> UploadStates]

OneCopyPerId(S) == \A c, d \in S : c.id = d.id => c = d

\* What an upload that nobody has disturbed can count on.
CountsOn(u) ==
  /\ upload[u].at \in {"listed", "created"} => upload[u].found \subseteq server
  /\ upload[u].at = "listed" =>
       \A c \in server : \E d \in upload[u].found : d.name = c.name
  /\ upload[u].at = "created" =>
       \A n \in Missing(u) :
         \E c \in server : /\ c.name = n /\ c.body = upload[u].local[n]
                           /\ \A d \in upload[u].found : d.id # c.id

SyncInv ==
  /\ SyncTypeOK
  /\ OneCopyPerId(server)
  /\ \A u \in Uploads : OneCopyPerId(upload[u].found)
  /\ \A u \in Uploads : upload[u].calm => CountsOn(u)
  /\ SyncSettles

\* Uploads that only lose their calm keep what they can count on.
LEMMA OthersAreDisturbed ==
  ASSUME SyncInv, NEW u \in Uploads,
         upload'[u] = [upload[u] EXCEPT !.calm = FALSE]
  PROVE  upload'[u] \in UploadStates /\ OneCopyPerId(upload'[u].found) /\ ~upload'[u].calm
  BY DEF SyncInv, SyncTypeOK, UploadStates

\* Every step keeps SyncInv.
LEMMA SyncStep == SyncInv /\ [SyncNext]_syncVars => SyncInv'
<1> SUFFICES ASSUME SyncInv, [SyncNext]_syncVars PROVE SyncInv'
  OBVIOUS
<1>1. ASSUME NEW u \in Uploads, List(u) PROVE SyncInv'
  <2>1. PICK found \in SUBSET server :
          /\ {c.name : c \in found} = {c.name : c \in server}
          /\ upload' = [upload EXCEPT ![u] = [at |-> "listed", local |-> file,
                                              found |-> found, calm |-> TRUE]]
    BY <1>1 DEF List
  <2>2. UNCHANGED <<file, server>>
    BY <1>1 DEF List
  <2>3. \A v \in Uploads \ {u} : upload'[v] = upload[v]
    BY <2>1 DEF SyncInv, SyncTypeOK
  <2>4. /\ upload'[u].at = "listed" /\ upload'[u].found = found
        /\ upload'[u] \in UploadStates
    BY <2>1, <2>2 DEF SyncInv, SyncTypeOK, UploadStates
  <2>5. SyncTypeOK'
    BY <2>1, <2>2, <2>4 DEF SyncInv, SyncTypeOK
  <2>6. \A c \in server : \E d \in found : d.name = c.name
    BY <2>1
  <2>7. OneCopyPerId(found)
    BY <2>1 DEF SyncInv, OneCopyPerId
  <2> QED
    BY <2>2, <2>3, <2>4, <2>5, <2>6, <2>7
       DEF SyncInv, OneCopyPerId, CountsOn, SyncSettles, Missing, Managed
<1>2. ASSUME NEW u \in Uploads, CreateExamples(u) PROVE SyncInv'
  <2>1. PICK id \in [Missing(u) -> Ids \ {c.id : c \in server}] :
          /\ \A m, n \in Missing(u) : id[m] = id[n] => m = n
          /\ server' = server \cup
               {[id |-> id[n], name |-> n, body |-> upload[u].local[n]] : n \in Missing(u)}
    BY <1>2 DEF CreateExamples
  <2>2. /\ upload[u].at = "listed" /\ file' = file
        /\ upload' = [IF Missing(u) = {} THEN upload ELSE Disturbs(u)
                        EXCEPT ![u] = [upload[u] EXCEPT !.at = "created"]]
    BY <1>2 DEF CreateExamples, Disturbs, SyncInv, SyncTypeOK
  <2>3. /\ upload'[u].at = "created" /\ upload'[u].local = upload[u].local
        /\ upload'[u].found = upload[u].found /\ upload'[u].calm = upload[u].calm
        /\ upload'[u] \in UploadStates
    BY <2>2 DEF Disturbs, SyncInv, SyncTypeOK, UploadStates
  <2>4. \A v \in Uploads \ {u} :
          upload'[v] = IF Missing(u) = {} THEN upload[v] ELSE [upload[v] EXCEPT !.calm = FALSE]
    BY <2>2 DEF Disturbs, SyncInv, SyncTypeOK
  <2>5. \A n \in Missing(u) :
          /\ n \in Names /\ upload[u].local[n] \in Bodies
          /\ id[n] \in Ids /\ \A c \in server : c.id # id[n]
    BY <2>1 DEF Missing, Managed, SyncInv, SyncTypeOK, UploadStates
  <2>6. server' \subseteq Copy
    BY <2>1, <2>5 DEF SyncInv, SyncTypeOK, Copy
  <2>7. OneCopyPerId(server')
    <3> SUFFICES ASSUME NEW c \in server', NEW d \in server', c.id = d.id PROVE c = d
      BY DEF OneCopyPerId
    <3>1. CASE c \in server /\ d \in server
      BY <3>1 DEF SyncInv, OneCopyPerId
    <3>2. CASE c \notin server \/ d \notin server
      BY <3>2, <2>1, <2>5
    <3> QED
      BY <3>1, <3>2
  <2>8. upload' \in [Uploads -> UploadStates]
    <3>1. \A v \in Uploads : upload'[v] \in UploadStates
      BY <2>3, <2>4, OthersAreDisturbed DEF SyncInv, SyncTypeOK
    <3> QED
      BY <3>1, <2>2 DEF Disturbs, SyncInv, SyncTypeOK
  <2>9. Missing(u)' = Missing(u)
    BY <2>3 DEF Missing, Managed
  <2>10. upload[u].calm => CountsOn(u)'
    <3> SUFFICES ASSUME upload[u].calm PROVE CountsOn(u)'
      OBVIOUS
    <3>1. upload[u].found \subseteq server
      BY <2>2 DEF SyncInv, CountsOn
    <3>2. ASSUME NEW n \in Missing(u)
          PROVE  \E c \in server' : /\ c.name = n /\ c.body = upload[u].local[n]
                                    /\ \A d \in upload[u].found : d.id # c.id
      <4> DEFINE c == [id |-> id[n], name |-> n, body |-> upload[u].local[n]]
      <4>1. c \in server'
        BY <2>1
      <4>2. \A d \in upload[u].found : d.id # c.id
        BY <2>5, <3>1
      <4> QED
        BY <4>1, <4>2
    <3> QED
      BY <2>1, <2>3, <2>9, <3>1, <3>2 DEF CountsOn
  <2>11. ASSUME NEW v \in Uploads, v # u, upload'[v].calm
         PROVE  upload'[v] = upload[v] /\ server' = server
    <3>1. Missing(u) = {}
      BY <2>4, <2>11, OthersAreDisturbed
    <3> QED
      BY <3>1, <2>1, <2>4, <2>11
  <2>12. \A v \in Uploads : upload'[v].calm => CountsOn(v)'
    BY <2>3, <2>10, <2>11 DEF SyncInv, CountsOn, Missing, Managed
  <2>13. SyncSettles'
    BY <2>3, <2>11 DEF SyncInv, SyncSettles, Managed
  <2>14. \A v \in Uploads : OneCopyPerId(upload'[v].found)
    BY <2>3, <2>4, OthersAreDisturbed DEF SyncInv
  <2> QED
    BY <2>2, <2>6, <2>7, <2>8, <2>12, <2>13, <2>14 DEF SyncInv, SyncTypeOK
<1>3. ASSUME NEW u \in Uploads, UpdateExamples(u) PROVE SyncInv'
  <2> DEFINE pushed == {Pushed(u, d) : d \in ToUpdate(u)}
             kept   == {c \in server : ~\E d \in ToUpdate(u) : d.id = c.id}
  <2>1. /\ upload[u].at = "created" /\ file' = file /\ server' = kept \cup pushed
        /\ upload' = [IF ToUpdate(u) = {} THEN upload ELSE Disturbs(u)
                        EXCEPT ![u] = [upload[u] EXCEPT !.at = "over"]]
    BY <1>3 DEF UpdateExamples, Disturbs, SyncInv, SyncTypeOK
  <2>2. /\ upload'[u].at = "over" /\ upload'[u].local = upload[u].local
        /\ upload'[u].found = upload[u].found /\ upload'[u].calm = upload[u].calm
        /\ upload'[u] \in UploadStates
    BY <2>1 DEF Disturbs, SyncInv, SyncTypeOK, UploadStates
  <2>3. \A v \in Uploads \ {u} :
          upload'[v] = IF ToUpdate(u) = {} THEN upload[v] ELSE [upload[v] EXCEPT !.calm = FALSE]
    BY <2>1 DEF Disturbs, SyncInv, SyncTypeOK
  <2>4. ASSUME NEW d \in ToUpdate(u)
        PROVE  /\ d \in upload[u].found /\ d \in Copy /\ d.name \in Managed(u)
               /\ Pushed(u, d) \in Copy
               /\ Pushed(u, d).id = d.id /\ Pushed(u, d).name = d.name
               /\ Pushed(u, d).body = upload[u].local[d.name]
    <3>1. d \in upload[u].found /\ d \in Copy /\ d.name \in Managed(u)
      BY DEF ToUpdate, SyncInv, SyncTypeOK, UploadStates
    <3>2. upload[u].local[d.name] \in Bodies
      BY <3>1 DEF Managed, SyncInv, SyncTypeOK, UploadStates
    <3> QED
      BY <3>1, <3>2 DEF Pushed, Local, Copy
  <2>5. server' \subseteq Copy
    BY <2>1, <2>4 DEF SyncInv, SyncTypeOK
  <2>6. OneCopyPerId(server')
    <3> SUFFICES ASSUME NEW c \in server', NEW d \in server', c.id = d.id PROVE c = d
      BY DEF OneCopyPerId
    <3>1. CASE c \in kept /\ d \in kept
      BY <3>1 DEF SyncInv, OneCopyPerId
    <3>2. CASE c \in pushed /\ d \in pushed
      <4>1. PICK a \in ToUpdate(u), b \in ToUpdate(u) : c = Pushed(u, a) /\ d = Pushed(u, b)
        BY <3>2
      <4>2. a = b
        BY <4>1, <2>4 DEF SyncInv, OneCopyPerId
      <4> QED
        BY <4>1, <4>2
    <3>3. CASE (c \in kept /\ d \in pushed) \/ (c \in pushed /\ d \in kept)
      BY <3>3, <2>4
    <3> QED
      BY <3>1, <3>2, <3>3, <2>1
  <2>7. upload' \in [Uploads -> UploadStates]
    <3>1. \A v \in Uploads : upload'[v] \in UploadStates
      BY <2>2, <2>3, OthersAreDisturbed DEF SyncInv, SyncTypeOK
    <3> QED
      BY <3>1, <2>1 DEF Disturbs, SyncInv, SyncTypeOK
  <2>8. ASSUME NEW v \in Uploads, v # u, upload'[v].calm
        PROVE  upload'[v] = upload[v] /\ server' = server
    <3>1. ToUpdate(u) = {}
      BY <2>3, <2>8, OthersAreDisturbed
    <3> QED
      BY <3>1, <2>1, <2>3, <2>8
  <2>9. \A v \in Uploads : upload'[v].calm => CountsOn(v)'
    BY <2>2, <2>8 DEF SyncInv, CountsOn, Missing, Managed
  <2>10. ASSUME upload[u].calm
         PROVE  /\ \A n \in Managed(u) :
                     \E c \in server' : c.name = n /\ c.body = upload[u].local[n]
                /\ \A c \in upload[u].found : \E d \in server' : d.id = c.id /\ d.name = c.name
    <3>1. /\ upload[u].found \subseteq server
          /\ \A n \in Missing(u) :
               \E c \in server : /\ c.name = n /\ c.body = upload[u].local[n]
                                 /\ \A d \in upload[u].found : d.id # c.id
      BY <2>1, <2>10 DEF SyncInv, CountsOn
    <3>2. ASSUME NEW c \in upload[u].found, c \notin ToUpdate(u) PROVE c \in server'
      BY <3>1, <3>2, <2>1, <2>4 DEF SyncInv, OneCopyPerId
    <3>3. ASSUME NEW c \in ToUpdate(u) PROVE Pushed(u, c) \in server'
      BY <2>1
    <3>4. \A c \in upload[u].found : \E d \in server' : d.id = c.id /\ d.name = c.name
      BY <3>2, <3>3, <2>4
    <3>5. ASSUME NEW n \in Missing(u)
          PROVE  \E c \in server' : c.name = n /\ c.body = upload[u].local[n]
      BY <3>1, <2>1, <2>4
    <3>6. ASSUME NEW n \in Managed(u), n \notin Missing(u)
          PROVE  \E c \in server' : c.name = n /\ c.body = upload[u].local[n]
      <4>1. PICK c \in upload[u].found : c.name = n
        BY <3>6 DEF Missing
      <4>2. CASE c \in ToUpdate(u)
        BY <4>1, <4>2, <3>3, <2>4
      <4>3. CASE c \notin ToUpdate(u)
        BY <4>1, <4>3, <3>2, <3>6 DEF ToUpdate, Differs, Local
      <4> QED
        BY <4>2, <4>3
    <3> QED
      BY <3>4, <3>5, <3>6
  <2>11. Managed(u)' = Managed(u)
    BY <2>2 DEF Managed
  <2>12. SyncSettles'
    <3> SUFFICES ASSUME NEW v \in Uploads, upload'[v].at = "over", upload'[v].calm
                 PROVE  /\ \A n \in Managed(v)' :
                             \E c \in server' : c.name = n /\ c.body = upload'[v].local[n]
                        /\ \A c \in upload'[v].found :
                             \E d \in server' : d.id = c.id /\ d.name = c.name
      BY DEF SyncSettles
    <3>1. CASE v = u
      BY <3>1, <2>2, <2>10, <2>11
    <3>2. CASE v # u
      <4>1. upload'[v] = upload[v] /\ server' = server
        BY <3>2, <2>8
      <4> QED
        BY <4>1 DEF SyncInv, SyncSettles, Managed
    <3> QED
      BY <3>1, <3>2
  <2>13. \A v \in Uploads : OneCopyPerId(upload'[v].found)
    BY <2>2, <2>3, OthersAreDisturbed DEF SyncInv
  <2> QED
    BY <2>1, <2>5, <2>6, <2>7, <2>9, <2>12, <2>13 DEF SyncInv, SyncTypeOK
<1>4. ASSUME NEW u \in Uploads, Dies(u) PROVE SyncInv'
  <2>1. /\ upload' = [upload EXCEPT ![u] = Stopped] /\ UNCHANGED <<file, server>>
        /\ Stopped \in UploadStates /\ Stopped.at = "off" /\ Stopped.found = {}
    BY <1>4 DEF Dies, Stopped, UploadStates
  <2>2. \A v \in Uploads : upload'[v] = IF v = u THEN Stopped ELSE upload[v]
    BY <2>1 DEF SyncInv, SyncTypeOK
  <2>3. SyncTypeOK'
    BY <2>1 DEF SyncInv, SyncTypeOK
  <2>4. \A v \in Uploads : OneCopyPerId(upload'[v].found)
    BY <2>1, <2>2 DEF SyncInv, OneCopyPerId
  <2> QED
    BY <2>1, <2>2, <2>3, <2>4 DEF SyncInv, OneCopyPerId, CountsOn, SyncSettles, Missing, Managed
<1>5. CASE PageWrites
  <2>1. upload' = [u \in Uploads |-> [upload[u] EXCEPT !.calm = FALSE]] /\ file' = file
    BY <1>5 DEF PageWrites
  <2>2. \A u \in Uploads : /\ upload'[u] \in UploadStates /\ OneCopyPerId(upload'[u].found)
                           /\ ~upload'[u].calm
    BY <2>1, OthersAreDisturbed
  <2>3. server' \subseteq Copy /\ OneCopyPerId(server')
    <3>1. ASSUME NEW id \in Ids \ {c.id : c \in server}, NEW b \in Bodies,
                 server' = server \cup {[id |-> id, name |-> Unnamed, body |-> b]}
          PROVE  server' \subseteq Copy /\ OneCopyPerId(server')
      BY <3>1 DEF SyncInv, SyncTypeOK, Copy, OneCopyPerId
    <3>2. ASSUME NEW c \in server, NEW b \in Bodies,
                 server' = (server \ {c}) \cup {[c EXCEPT !.body = b]}
          PROVE  server' \subseteq Copy /\ OneCopyPerId(server')
      BY <3>2 DEF SyncInv, SyncTypeOK, Copy, OneCopyPerId
    <3>3. ASSUME NEW c \in server, server' = server \ {c}
          PROVE  server' \subseteq Copy /\ OneCopyPerId(server')
      BY <3>3 DEF SyncInv, SyncTypeOK, OneCopyPerId
    <3> QED
      BY <1>5, <3>1, <3>2, <3>3 DEF PageWrites
  <2> QED
    BY <2>1, <2>2, <2>3 DEF SyncInv, SyncTypeOK, SyncSettles
<1>6. CASE EditFile
  <2>1. file' \in [Names -> Bodies \cup {Absent}] /\ UNCHANGED <<server, upload>>
    BY <1>6 DEF EditFile, SyncInv, SyncTypeOK
  <2> QED
    BY <2>1 DEF SyncInv, SyncTypeOK, CountsOn, SyncSettles, Missing, Managed
<1>7. CASE UNCHANGED syncVars
  BY <1>7 DEF syncVars, SyncInv, SyncTypeOK, CountsOn, SyncSettles, Missing, Managed
<1> QED
  BY <1>1, <1>2, <1>3, <1>4, <1>5, <1>6, <1>7 DEF SyncNext

\* An upload that ends undisturbed leaves what the file held, and keeps the rest.
THEOREM UploadsSettle == SyncSpec => []SyncSettles
<1>1. SyncInit => SyncInv
  <2> SUFFICES ASSUME SyncInit PROVE SyncInv
    OBVIOUS
  <2>1. /\ Stopped \in UploadStates
        /\ Stopped.at = "off" /\ Stopped.found = {}
    BY DEF Stopped, UploadStates
  <2>2. \A u \in Uploads : upload[u] = Stopped
    BY DEF SyncInit
  <2>3. SyncTypeOK
    BY <2>1 DEF SyncInit, SyncTypeOK, Bodies
  <2>4. \A u \in Uploads : OneCopyPerId(upload[u].found) /\ CountsOn(u)
    BY <2>1, <2>2 DEF OneCopyPerId, CountsOn
  <2> QED
    BY <2>1, <2>2, <2>3, <2>4 DEF SyncInit, SyncInv, OneCopyPerId, SyncSettles
<1>2. SyncInv => SyncSettles
  BY DEF SyncInv
<1> QED
  BY <1>1, <1>2, SyncStep, PTL DEF SyncSpec
=============================================================================
