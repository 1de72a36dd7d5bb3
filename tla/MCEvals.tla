------------------------------ MODULE MCEvals -------------------------------
\* The parts of the evaluation harness for TLC.  They share no state: bound, a
\* run of one example, the experiment and the upload are checked one at a time.
EXTENDS EvalTarget, Experiment, DatasetSync, TLC
CONSTANTS m1, m2, n1, n2, i1, i2, u1, u2

vars == <<targetVars, experimentVars, syncVars>>

MCInit == TargetInit /\ ExperimentInit /\ SyncInit

Target     == TargetNext /\ UNCHANGED <<experimentVars, syncVars>>
Comparing  == ExperimentNext /\ UNCHANGED <<targetVars, syncVars>>
Sync       == SyncNext /\ UNCHANGED <<targetVars, experimentVars>>

MCNext ==
  \/ ExperimentInit /\ SyncInit /\ Target
  \/ TargetInit /\ SyncInit /\ Comparing
  \/ TargetInit /\ ExperimentInit /\ Sync

MCSpec == MCInit /\ [][MCNext]_vars

MCSymmetry == Permutations({i1, i2}) \cup Permutations({u1, u2}) \cup Permutations({m1, m2})
=============================================================================
