----------------------------- MODULE MCChatPage -----------------------------
\* Instances of ChatPage for TLC: one visitor.
EXTENDS ChatPage, TLC
CONSTANTS s1, t1, t2, c1, c2, k1, k2, k3, helena
MCCustomerOf == [s \in Sessions |-> helena]
MCSymmetry == Permutations(Calls) \cup Permutations(Turns) \cup Permutations(Conversations)
=============================================================================
