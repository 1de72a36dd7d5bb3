------------------------------ MODULE MCTools -------------------------------
\* Instances of Tools for TLC.
EXTENDS Tools
CONSTANTS helena, richard

\* Helena bought invoices 1 and 2, Richard invoice 3; track 4 has no album.
Shop(tracks, albums, dates) ==
  [customerOf |-> <<helena, helena, richard>>, date |-> dates, total |-> <<2, 3, 5>>,
   invoiceOf |-> <<1, 1, 2, 3>>, trackOf |-> tracks, albumOf |-> albums,
   genreOf |-> <<1, 1, 2, 2>>, artistOf |-> <<1, 2>>]

MCDatabases == {Shop(tracks, albums, dates) :
                  tracks \in [Lines -> Tracks], albums \in {<<1, 1, 2, 0>>, <<2, 1, 0, 0>>},
                  dates \in {<<11, 12, 11>>, <<21, 12, 15>>}}
MCServed == {Shop(<<1, 2, 1, 3>>, <<1, 1, 2, 0>>, <<11, 12, 11>>)}
=============================================================================
