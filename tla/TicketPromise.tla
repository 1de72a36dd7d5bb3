--------------------------- MODULE TicketPromise ----------------------------
(***************************************************************************)
(* What the support database promises of tickets, in the words of its      *)
(* schema (scripts/setup_data.py) and of CustomerRepository: a call files  *)
(* "at most once per idempotency key", and a refund only for a line that   *)
(* resolves for its caller.  An operator may clear tickets away.           *)
(***************************************************************************)
CONSTANTS
  Calls,
  MayFile  \* MayFile[k]: what call k may file a ticket about

VARIABLE tickets  \* the tickets on file

HasTicket(k) == \E x \in tickets : x.call = k

TicketsInit == tickets = {}

File(k, about) ==
  /\ ~HasTicket(k)
  /\ tickets' = tickets \cup {[call |-> k, about |-> about]}

Clear == tickets' \subseteq tickets

TicketsNext == Clear \/ \E k \in Calls : \E about \in MayFile[k] : File(k, about)

TicketsSpec == TicketsInit /\ [][TicketsNext]_tickets
=============================================================================
