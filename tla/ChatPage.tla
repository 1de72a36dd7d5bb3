------------------------------ MODULE ChatPage ------------------------------
(***************************************************************************)
(* The web client (web/src/components/Chat.tsx, ApprovalSlip.tsx, app/     *)
(* page.tsx) driving SupportApi: one page per session, one request of a    *)
(* page at a time, and the error recovery of recover().  What the page     *)
(* shows is the visitor's only knowledge of the server.                    *)
(***************************************************************************)
EXTENDS SupportApi

CONSTANT Lossy  \* whether an answer can be lost on its way to the page

ASSUME LossyAssumption == Lossy \in BOOLEAN

VARIABLES
  page,    \* page[s]: the state of the page signed in as s
  consent, \* refund calls the visitor was shown and clicked Approve on
  lost     \* an answer has been lost on its way to the page

chatVars == <<vars, page, consent, lost>>

\* waits: the request run() awaits.  slip: the calls of the slip that has no
\* decision yet.  failed: the call the Try again button repeats.  out: no
\* messages left.  A page without a conversation is on the account picker.
Pages == [conversation : Conversations \cup {None}, waits : Turns \cup {None},
          says : {"message", "approve", "reject"}, slip : SUBSET Calls,
          failed : BOOLEAN, out : BOOLEAN]
ClosedPage == [conversation |-> None, waits |-> None, says |-> "message",
               slip |-> {}, failed |-> FALSE, out |-> FALSE]

ChatTypeOK ==
  /\ ApiTypeOK
  /\ page \in [Sessions -> Pages]
  /\ consent \subseteq Calls
  /\ lost \in BOOLEAN

ChatInit ==
  /\ ApiInit
  /\ page = [s \in Sessions |-> ClosedPage]
  /\ consent = {}
  /\ lost = FALSE

Shows(s, p) == page' = [page EXCEPT ![s] = p]
Open(s)     == page[s].conversation # None
NotBusy(s)  == Open(s) /\ page[s].waits = None

\* signIn(), first half: a token.
SignIn(s) == IssueSession(s) /\ UNCHANGED <<page, consent>>

\* signIn(), second half: a conversation, then the chat opens on it.
OpenChat(s, c) ==
  /\ ~Open(s)
  /\ StartConversation(s, c)
  /\ Shows(s, [ClosedPage EXCEPT !.conversation = c])
  /\ UNCHANGED consent

(***************************************************************************)
(* run(call) with the page already as the click left it, p.  The server    *)
(* takes the turn, or answers at once: 401 closes the page, 404 opens a    *)
(* fresh conversation in place of the one the server no longer knows (or   *)
(* offers the retry when that fails), 429 ends the conversation.           *)
(***************************************************************************)
Post(t, s, p) ==
  LET c == p.conversation IN
  \/ /\ Admit(t, s, c, p.says)
     /\ Shows(s, [p EXCEPT !.waits = t])
  \/ /\ token[s] = "expired"
     /\ Shows(s, ClosedPage)
     /\ UNCHANGED vars
  \/ /\ Limited(s, c)
     /\ Shows(s, [p EXCEPT !.out = TRUE])
  \/ /\ ~MaySpeak(s, c)
     /\ \/ \E fresh \in Conversations : /\ StartConversation(s, fresh)
                                        /\ Shows(s, [p EXCEPT !.conversation = fresh])
        \/ /\ StartFails(s)
           /\ Shows(s, [p EXCEPT !.failed = TRUE])

\* send(): not while a slip waits for its decision.
MayWrite(s) == page[s].slip = {} /\ ~page[s].out

SendMessage(t, s) ==
  /\ NotBusy(s) /\ MayWrite(s)
  /\ Post(t, s, [page[s] EXCEPT !.says = "message", !.failed = FALSE])
  /\ UNCHANGED consent

\* decide(): the slip is stamped before the server has answered.
Decide(t, s, says) ==
  /\ NotBusy(s) /\ page[s].slip # {}
  /\ Post(t, s, [page[s] EXCEPT !.says = says, !.slip = {}, !.failed = FALSE])
  /\ consent' = IF says = "approve" THEN consent \cup page[s].slip ELSE consent

\* Try again: run() once more with the same call.
RetryAsApproval(s) == [page[s] EXCEPT !.says = "approve", !.failed = FALSE]
Again(s) == [page[s] EXCEPT !.failed = FALSE]

Retry(t, s) ==
  /\ NotBusy(s) /\ page[s].failed
  /\ Post(t, s, Again(s))
  /\ UNCHANGED consent

(***************************************************************************)
(* The answer arrives.  A turn appends its slip, if it paused; any other   *)
(* answer a settled turn can give (409, 503) offers the retry.             *)
(***************************************************************************)
SlipDropped(t) == {}
FirstCallOnly(t) == {k \in turn[t].calls : k = CHOOSE j \in turn[t].calls : TRUE}
SlipOf(t) == turn[t].calls

Receive(s, t) ==
  /\ page[s].waits = t
  /\ IF turn[t].ends = "answered"
       THEN Shows(s, [page[s] EXCEPT !.waits = None, !.slip = SlipOf(t),
                                     !.out = turn[t].left = 0])
       ELSE Shows(s, [page[s] EXCEPT !.waits = None, !.failed = TRUE])

\* A turn settles: its page hears of it, unless nobody waits any more.
Answer(t) ==
  /\ Settle(t)
  /\ \/ \E s \in Sessions : Receive(s, t)
     \/ /\ \A s \in Sessions : page[s].waits # t
        /\ UNCHANGED page
  /\ UNCHANGED consent

\* fetch rejects although the server has the request: status 0.
LoseAnswer(s) ==
  /\ Lossy
  /\ page[s].waits # None
  /\ Shows(s, [page[s] EXCEPT !.waits = None, !.failed = TRUE])
  /\ lost' = TRUE
  /\ UNCHANGED <<vars, consent>>

\* The server restarts: every request in flight fails on its page.
ServerRestarts ==
  /\ \E keepsStore, keepsSecret \in BOOLEAN : Restart(keepsStore, keepsSecret)
  /\ page' = [s \in Sessions |->
                IF page[s].waits = None THEN page[s]
                ELSE [page[s] EXCEPT !.waits = None, !.failed = TRUE]]
  /\ UNCHANGED consent

\* The server works on a turn; pages and visitors see nothing yet.
ServerWorks(t) ==
  /\ Step(t)
  /\ turn[t].at # "settling"
  /\ UNCHANGED <<page, consent>>

Expires(s) == ExpireSession(s) /\ UNCHANGED <<page, consent>>

\* onSwitch: the page is closed with whatever it waits for or shows; a request
\* in flight goes on, and nobody takes its answer.
SwitchCustomer(s) == Open(s) /\ Shows(s, ClosedPage) /\ UNCHANGED <<vars, consent>>

ChatNext ==
  \/ /\ \/ \E s \in Sessions : SignIn(s) \/ Expires(s) \/ SwitchCustomer(s)
        \/ \E s \in Sessions, c \in Conversations : OpenChat(s, c)
        \/ \E t \in Turns, s \in Sessions :
             \/ SendMessage(t, s) \/ Retry(t, s)
             \/ Decide(t, s, "approve") \/ Decide(t, s, "reject")
        \/ \E t \in Turns : ServerWorks(t) \/ Answer(t)
        \/ ServerRestarts
     /\ UNCHANGED lost
  \/ \E s \in Sessions : LoseAnswer(s)

ChatSpec == ChatInit /\ [][ChatNext]_chatVars

-----------------------------------------------------------------------------

(***************************************************************************)
(* No ticket without a click: every filed refund was on a slip this        *)
(* visitor saw and approved.  "Nothing is filed until a reviewer approves  *)
(* it, and a retried approval can't file twice."                           *)
(***************************************************************************)
ApprovedAsSeen == filed \subseteq consent

\* The network apart, ApprovedAsSeen holds through restarts, expired sessions,
\* abandoned pages and Try again.
ApprovedUnlessLost == lost \/ ApprovedAsSeen

(***************************************************************************)
(* A visitor who never clicked Approve has no ticket, whatever answers are *)
(* lost and whatever Try again repeats: what is left of ApprovedAsSeen     *)
(* when the network may lose an answer.                                    *)
(***************************************************************************)
NoClickNoTicket == consent = {} => filed = {}

(***************************************************************************)
(* A page that is not waiting shows the pause its conversation is in: the  *)
(* slip with exactly those calls, or a failed call to try again.  Otherwise*)
(* the server would refuse everything the visitor can still do.            *)
(***************************************************************************)
PauseIsShown ==
  \A s \in Sessions :
    NotBusy(s) /\ sessionOf[page[s].conversation] = s /\ Paused(page[s].conversation)
      => \/ page[s].slip = thread[page[s].conversation].pending
         \/ page[s].failed \/ page[s].out

\* A lost slip is not shown again, so this too is said of the network apart.
PauseShownUnlessLost == lost \/ PauseIsShown
=============================================================================
