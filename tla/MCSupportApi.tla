---------------------------- MODULE MCSupportApi ----------------------------
\* Instances of SupportApi for TLC.
EXTENDS SupportApiProps, TLC
CONSTANTS s1, s2, s3, t1, t2, c1, c2, k1, k2, k3, helena, richard

\* Two sessions signed in as Helena, one as Richard.
MCCustomerOf == [s \in Sessions |-> IF s = s3 THEN richard ELSE helena]

OneCustomer == Permutations(Calls) \cup Permutations(Turns)
TwoCustomers == Permutations({s1, s2}) \cup Permutations(Turns) \cup Permutations(Conversations)
=============================================================================
