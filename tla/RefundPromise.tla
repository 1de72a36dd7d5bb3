--------------------------- MODULE RefundPromise ----------------------------
(***************************************************************************)
(* What the service promises about refund calls, in the words of its front *)
(* page: "Refunds wait for a person.  Nothing is filed until a reviewer    *)
(* approves it" (web AccountPicker), and of ADR-025: "one decision covers  *)
(* both" calls of a slip.  A call waits from the moment the model makes    *)
(* it, is decided at most once, together with the other calls of its slip, *)
(* and reaches the ticket table only if that decision was to approve.      *)
(***************************************************************************)
CONSTANT Calls

VARIABLE life

PromiseInit == life = [k \in Calls |-> "unasked"]

\* The calls S, all at stage before, move together to stage after.
Move(S, before, after) ==
  /\ S # {}
  /\ \A k \in S : life[k] = before
  /\ life' = [k \in Calls |-> IF k \in S THEN after ELSE life[k]]

Ask(S)     == Move(S, "unasked", "waiting")
Approve(S) == Move(S, "waiting", "approve")
Decline(S) == Move(S, "waiting", "reject")
File(k)    == Move({k}, "approve", "filed")

PromiseNext ==
  \/ \E S \in SUBSET Calls : Ask(S) \/ Approve(S) \/ Decline(S)
  \/ \E k \in Calls : File(k)

PromiseSpec == PromiseInit /\ [][PromiseNext]_life
=============================================================================
