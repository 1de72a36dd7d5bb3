------------------------------ MODULE MCTickets -----------------------------
\* Instances of Tickets for TLC.
EXTENDS Tickets, TLC
CONSTANTS a1, a2, r1, r2, h1, helena, richard, l1, l2
\* Helena bought line l1, Richard l2.
MCCallerOf == [k \in Calls |-> IF k = r2 THEN richard ELSE helena]
MCLinesOf == [c \in Customers |-> IF c = helena THEN {l1} ELSE {l2}]
MCSymmetry == Permutations(Attempts)
=============================================================================
