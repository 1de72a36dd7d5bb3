----------------------------- MODULE MCServers ------------------------------
\* The counters of the public service, the Agent Server and the scripts for
\* TLC.  They share no state: they are checked one at a time, the counters
\* beside one of the others' initial states.
EXTENDS AgentServer, Budget, TLC
CONSTANTS helena, richard, t1, t2, k1, s1, s2, w1, w2, w3

MCInit == AgentServerInit /\ BudgetInit

Serving  == AgentServerNext /\ UNCHANGED budgetVars
Counting == BudgetNext /\ UNCHANGED vars

MCNext ==
  \/ BudgetInit /\ Serving
  \/ AgentServerInit /\ guarded /\ supportDb.tables = "none" /\ Counting

MCSpec == MCInit /\ [][MCNext]_<<vars, budgetVars>>

MCSymmetry == Permutations(Threads)
=============================================================================
