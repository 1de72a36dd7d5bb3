--------------------------- MODULE ChatPageProofs ---------------------------
(***************************************************************************)
(* The pages over the service, for any number of visitors, conversations,  *)
(* turns and calls.  Of the service they use the invariants of             *)
(* SupportApiProofs.                                                       *)
(***************************************************************************)
EXTENDS ChatPage, SupportApiProofs

PageTypes ==
  /\ page \in [Sessions -> Pages]
  /\ consent \subseteq Calls
  /\ lost \in BOOLEAN

Served == ApiInv /\ BoundInv /\ PageTypes

InFlight(t) == turn[t].at # "idle"

-----------------------------------------------------------------------------
(* What a worker does to a turn that is not over *)

\* What is known of a turn as long as no answer has been lost: while it has not
\* answered, an approval is about calls the visitor approved; when it has, its
\* slip is the pause.
TurnIsCovered(t) ==
  LET pending == thread[turn[t].conversation].pending IN
  InFlight(t) =>
    /\ turn[t].ends = "answered" => turn[t].at \in {"unwinding", "settling"}
                                    /\ turn[t].calls = pending
    /\ turn[t].ends # "answered" /\ turn[t].says = "approve" => pending \subseteq consent
    /\ turn[t].at \in {"model", "tools"} => pending = {}
    /\ turn[t].at = "tools" => turn[t].calls \subseteq consent

\* What a worker's step leaves alone.
Works(t) ==
  /\ Advances(t)
  /\ InFlight(t) /\ InFlight(t)'
  /\ UNCHANGED <<sessionOf, owner>>
  /\ \A c \in Conversations \ {turn[t].conversation} : thread'[c] = thread[c]
  /\ filed' \subseteq filed \cup (IF turn[t].at = "tools" THEN turn[t].calls ELSE {})
  /\ turn'[t].at = "tools" => turn[t].at = "tools" \/ turn[t].says = "approve"

LEMMA WorkerWorks ==
  ASSUME NEW t \in Turns, ApiInv, Step(t), turn[t].at # "settling", UNCHANGED consent
  PROVE  Works(t) /\ (TurnIsCovered(t) => TurnIsCovered(t)')
<1> USE DEF ApiInv, TurnsInv, ApiTypeOK, Works, TurnIsCovered, InFlight
<1>0. turn[t].at # "idle" => turn[t].conversation \in Conversations
  BY DEF TurnsAreAddressed
<1>1. ASSUME NEW place \in Places, MoveTo(t, place)
      PROVE  Advances(t) /\ turn'[t].at = place /\ turn'[t].calls = turn[t].calls
             /\ turn'[t].ends = turn[t].ends
  BY <1>1 DEF MoveTo, Advances, TurnStates
<1>2. ASSUME NEW place \in Places, NEW S \in SUBSET Calls,
             NEW ends \in {"unknown", "refused", "failed", "answered"},
             End(t, place, ends, S)
      PROVE  Advances(t) /\ turn'[t].at = place /\ turn'[t].calls = S
             /\ turn'[t].ends = ends
  BY <1>2, EndAdvances
<1>3. CASE Authorize(t) \/ StoreFails(t) \/ AcquireLock(t) \/ Busy(t) \/ ReleaseLock(t)
  BY <1>0, <1>1, <1>2, <1>3
     DEF Authorize, StoreFails, AcquireLock, Busy, ReleaseLock, Places, Advances
<1>4. CASE ModelAnswers(t) \/ ModelFails(t)
  BY <1>0, <1>2, <1>4 DEF ModelAnswers, ModelFails, Places, Advances
<1>5. CASE PreflightRaises(t) \/ ToolRaises(t) \/ LimitEnds(t)
  <2>1. PICK ends \in {"failed", "answered"} : Strands(t, ends)
    BY <1>5 DEF PreflightRaises, ToolRaises, LimitEnds
  <2>2. turn[t].at \in {"model", "tools"}
    BY <1>5 DEF PreflightRaises, ToolRaises, LimitEnds
  <2>3. /\ Advances(t) /\ turn'[t].at = "unwinding" /\ turn'[t].calls = {}
        /\ turn'[t].ends = ends
    BY <1>2, <2>1 DEF Strands, Places
  <2>4. /\ thread'[turn[t].conversation].pending = thread[turn[t].conversation].pending
        /\ \A c \in Conversations \ {turn[t].conversation} : thread'[c] = thread[c]
    BY <1>0, <2>1, <2>2 DEF Strands, Threads
  <2> QED
    BY <2>1, <2>2, <2>3, <2>4 DEF Strands, Advances
<1>6. CASE ReadState(t)
  <2>1. CASE FitsThread(t)
    <3> DEFINE S == thread[turn[t].conversation].pending
    <3>1. turn' = [turn EXCEPT ![t].at = "invoking", ![t].calls = S]
      BY <1>6, <2>1 DEF ReadState
    <3>2. S \in SUBSET Calls
      BY <1>0, <1>6 DEF ReadState, Threads
    <3> HIDE DEF S
    <3>3. Advances(t) /\ turn'[t].at = "invoking" /\ turn'[t].ends = turn[t].ends
      <4>1. turn \in [Turns -> TurnStates] /\ "invoking" \in Places
        BY DEF Places
      <4> QED
        BY <3>1, <3>2, <4>1, CallsChangeAdvances, Zenon
    <3> QED
      BY <1>0, <1>6, <3>3 DEF ReadState, Advances
  <2>2. CASE ~FitsThread(t)
    BY <1>0, <1>2, <1>6, <2>2 DEF ReadState, Places, Advances
  <2> QED
    BY <2>1, <2>2
<1>7. CASE Invoke(t)
  <2>1. AfterDecision(t) \in {"model", "tools"} \cap Places
        /\ (AfterDecision(t) = "tools" => turn[t].says = "approve")
    BY DEF AfterDecision, Places
  <2>2. /\ Advances(t) /\ turn'[t].at \in {"model", "tools"} /\ turn[t].at = "invoking"
        /\ turn'[t].at = "tools" => turn[t].says = "approve"
        /\ turn'[t].calls = turn[t].calls /\ turn'[t].ends = turn[t].ends
        /\ UNCHANGED <<sessionOf, owner, filed>>
    BY <1>1, <1>7, <2>1 DEF Invoke
  <2>3. /\ thread'[turn[t].conversation].pending = {}
        /\ \A c \in Conversations \ {turn[t].conversation} : thread'[c] = thread[c]
    BY <1>0, <1>7 DEF Invoke, Threads
  <2>4. turn[t].calls = thread[turn[t].conversation].pending
    BY <2>2 DEF ChecksStillHold
  <2> QED
    BY <2>2, <2>3, <2>4 DEF Advances
<1>8. ASSUME NEW S \in SUBSET Calls, ModelAsksRefund(t, S)
      PROVE  Works(t) /\ (TurnIsCovered(t) => TurnIsCovered(t)')
  <2>1. /\ Advances(t) /\ turn[t].at = "model" /\ turn'[t].at = "unwinding"
        /\ turn'[t].calls = S /\ turn'[t].ends = "answered"
    BY <1>2, <1>8 DEF ModelAsksRefund, Places
  <2>2. /\ thread'[turn[t].conversation].pending = S
        /\ \A c \in Conversations \ {turn[t].conversation} : thread'[c] = thread[c]
    BY <1>0, <1>8 DEF ModelAsksRefund, Threads
  <2> QED
    BY <1>8, <2>1, <2>2 DEF ModelAsksRefund, Advances
<1>9. ASSUME NEW k \in Calls, FileRefund(t, k) \/ ToolDeclines(t, k)
      PROVE  Works(t) /\ (TurnIsCovered(t) => TurnIsCovered(t)')
  <2>1. /\ Advances(t) /\ turn'[t].at \in {"model", "tools"}
        /\ turn'[t].calls = turn[t].calls \ {k}
    BY <1>9, CallFinishedAdvances DEF FileRefund, ToolDeclines
  <2>2. turn'[t].ends = turn[t].ends
    <3> DEFINE left == turn[t].calls \ {k}
               next == IF left = {} THEN "model" ELSE "tools"
    <3>1. turn' = [turn EXCEPT ![t].calls = left, ![t].at = next]
      BY <1>9 DEF FileRefund, ToolDeclines, CallFinished
    <3> HIDE DEF left, next
    <3> QED
      BY <3>1 DEF TurnStates
  <2>3. /\ turn[t].at = "tools" /\ k \in turn[t].calls
        /\ UNCHANGED <<sessionOf, owner, thread>> /\ filed' \subseteq filed \cup {k}
    BY <1>9 DEF FileRefund, ToolDeclines
  <2> QED
    BY <2>1, <2>2, <2>3 DEF Advances
<1>10. ~Settle(t)
  BY DEF Settle
<1> QED
  BY <1>3, <1>4, <1>5, <1>6, <1>7, <1>8, <1>9, <1>10 DEF Step

-----------------------------------------------------------------------------
(* The pages use the service only through its requests *)

\* A click that posts: the page as the click left it is p.
Click(t, s, p) ==
  /\ NotBusy(s) /\ Post(t, s, p)
  /\ p \in Pages /\ p.conversation = page[s].conversation
  /\ p.waits = None /\ ~p.failed
  /\ \/ p.slip = page[s].slip /\ (p.slip = {} \/ page[s].failed)
     \/ p.slip = {}
  /\ \/ p.says # "approve" /\ consent' = consent
     \/ p.says = "approve" /\ page[s].slip # {} /\ consent' = consent \cup page[s].slip
     \/ p.says = page[s].says /\ page[s].failed /\ consent' = consent

LEMMA ClicksPost ==
  ASSUME NEW t \in Turns, NEW s \in Sessions, PageTypes,
         \/ SendMessage(t, s) \/ Retry(t, s)
         \/ Decide(t, s, "approve") \/ Decide(t, s, "reject")
  PROVE  \E p \in Pages : Click(t, s, p)
<1> USE DEF PageTypes, Click
<1>0. page[s] \in Pages
  OBVIOUS
<1>1. CASE SendMessage(t, s)
  <2> DEFINE p == [page[s] EXCEPT !.says = "message", !.failed = FALSE]
  <2>1. NotBusy(s) /\ Post(t, s, p) /\ page[s].slip = {} /\ consent' = consent
    BY <1>1 DEF SendMessage, MayWrite
  <2>2. /\ p \in Pages /\ p.conversation = page[s].conversation /\ p.waits = page[s].waits
        /\ p.slip = page[s].slip /\ ~p.failed /\ p.says = "message"
    BY <1>0 DEF Pages
  <2> HIDE DEF p
  <2> QED
    BY <2>1, <2>2 DEF NotBusy
<1>2. CASE Retry(t, s)
  <2> DEFINE p == [page[s] EXCEPT !.failed = FALSE]
  <2>1. NotBusy(s) /\ Post(t, s, p) /\ page[s].failed /\ consent' = consent
    BY <1>2 DEF Retry, Again
  <2>2. /\ p \in Pages /\ p.conversation = page[s].conversation /\ p.waits = page[s].waits
        /\ p.slip = page[s].slip /\ ~p.failed /\ p.says = page[s].says
    BY <1>0 DEF Pages
  <2> HIDE DEF p
  <2> QED
    BY <2>1, <2>2 DEF NotBusy
<1>3. ASSUME NEW says \in {"approve", "reject"}, Decide(t, s, says)
      PROVE  \E p \in Pages : Click(t, s, p)
  <2> DEFINE p == [page[s] EXCEPT !.says = says, !.slip = {}, !.failed = FALSE]
  <2>1. /\ NotBusy(s) /\ Post(t, s, p) /\ page[s].slip # {}
        /\ consent' = IF says = "approve" THEN consent \cup page[s].slip ELSE consent
    BY <1>3 DEF Decide
  <2>2. /\ p \in Pages /\ p.conversation = page[s].conversation /\ p.waits = page[s].waits
        /\ p.slip = {} /\ ~p.failed /\ p.says = says
    BY <1>0 DEF Pages
  <2> HIDE DEF p
  <2> QED
    BY <2>1, <2>2 DEF NotBusy
<1> QED
  BY <1>1, <1>2, <1>3

\* What the server and the page make of a click.
LEMMA PostsShow ==
  ASSUME NEW t \in Turns, NEW s \in Sessions, NEW p \in Pages, PageTypes, Click(t, s, p)
  PROVE  LET c == p.conversation IN
         /\ c \in Conversations /\ consent' \subseteq Calls
         /\ \E q \in Pages :
              /\ page' = [page EXCEPT ![s] = q]
              /\ q.says = p.says \/ q.says = "message"
              /\ \/ /\ Admit(t, s, c, p.says)
                    /\ q.conversation = c /\ q.waits = t /\ q.says = p.says
                    /\ q.slip = p.slip /\ ~q.failed
                 \/ q = ClosedPage /\ UNCHANGED vars
                 \/ /\ Limited(s, c)
                    /\ q.conversation = c /\ q.waits = None /\ q.slip = p.slip
                    /\ q.out /\ ~q.failed
                 \/ /\ \E fresh \in Conversations : /\ StartConversation(s, fresh)
                                                     /\ q.conversation = fresh
                    /\ q.waits = None /\ q.slip = p.slip /\ ~q.failed
                 \/ /\ StartFails(s) /\ ~MaySpeak(s, c)
                    /\ q.conversation = c /\ q.waits = None /\ q.slip = p.slip
<1> DEFINE c == p.conversation
<1>1. c \in Conversations
  BY DEF Click, NotBusy, Open, Pages
<1>2. page[s].slip \subseteq Calls
  BY DEF PageTypes, Pages
<1>3. consent' \subseteq Calls
  BY <1>2 DEF Click, PageTypes
<1>4. p.waits = None /\ ~p.failed /\ Post(t, s, p)
  BY DEF Click
<1>5. CASE Admit(t, s, c, p.says) /\ Shows(s, [p EXCEPT !.waits = t])
  <2> DEFINE q == [p EXCEPT !.waits = t]
  <2>1. /\ q \in Pages /\ q.conversation = c /\ q.waits = t /\ q.says = p.says
        /\ q.slip = p.slip /\ q.failed = p.failed
    BY DEF Pages
  <2>2. page' = [page EXCEPT ![s] = q]
    BY <1>5 DEF Shows
  <2> HIDE DEF q
  <2> QED
    BY <1>1, <1>3, <1>4, <1>5, <2>1, <2>2
<1>6. CASE Shows(s, ClosedPage) /\ UNCHANGED vars
  <2>1. ClosedPage \in Pages /\ ClosedPage.says = "message"
    BY DEF ClosedPage, Pages
  <2> QED
    BY <1>1, <1>3, <1>6, <2>1 DEF Shows
<1>7. CASE Limited(s, c) /\ Shows(s, [p EXCEPT !.out = TRUE])
  <2> DEFINE q == [p EXCEPT !.out = TRUE]
  <2>1. /\ q \in Pages /\ q.conversation = c /\ q.waits = p.waits /\ q.says = p.says
        /\ q.slip = p.slip /\ q.failed = p.failed /\ q.out
    BY DEF Pages
  <2>2. page' = [page EXCEPT ![s] = q]
    BY <1>7 DEF Shows
  <2> HIDE DEF q
  <2> QED
    BY <1>1, <1>3, <1>4, <1>7, <2>1, <2>2
<1>8. ASSUME NEW fresh \in Conversations, StartConversation(s, fresh),
             Shows(s, [p EXCEPT !.conversation = fresh])
      PROVE  \E q \in Pages :
               /\ page' = [page EXCEPT ![s] = q] /\ q.says = p.says
               /\ q.conversation = fresh /\ q.waits = None /\ q.slip = p.slip /\ ~q.failed
  <2> DEFINE q == [p EXCEPT !.conversation = fresh]
  <2>1. /\ q \in Pages /\ q.conversation = fresh /\ q.waits = p.waits /\ q.says = p.says
        /\ q.slip = p.slip /\ q.failed = p.failed
    BY DEF Pages
  <2>2. page' = [page EXCEPT ![s] = q]
    BY <1>8 DEF Shows
  <2> HIDE DEF q
  <2> QED
    BY <1>4, <2>1, <2>2
<1>9. CASE StartFails(s) /\ ~MaySpeak(s, c) /\ Shows(s, [p EXCEPT !.failed = TRUE])
  <2> DEFINE q == [p EXCEPT !.failed = TRUE]
  <2>1. /\ q \in Pages /\ q.conversation = c /\ q.waits = p.waits /\ q.says = p.says
        /\ q.slip = p.slip
    BY DEF Pages
  <2>2. page' = [page EXCEPT ![s] = q]
    BY <1>9 DEF Shows
  <2> HIDE DEF q
  <2> QED
    BY <1>1, <1>3, <1>4, <1>9, <2>1, <2>2
<1> QED
  BY <1>1, <1>3, <1>4, <1>5, <1>6, <1>7, <1>8, <1>9 DEF Post

-----------------------------------------------------------------------------
(* Types, and the service under the pages *)

LEMMA PageTypesKept ==
  ASSUME Served, [ChatNext]_chatVars
  PROVE  PageTypes' /\ [ApiNext]_vars
<1> USE DEF Served, PageTypes
<1>0. /\ ApiTypeOK /\ TurnsAreAddressed
      /\ ClosedPage \in Pages /\ \A s \in Sessions : page[s] \in Pages
  BY DEF ApiInv, TurnsInv, ClosedPage, Pages
<1>1. ASSUME NEW s \in Sessions, SignIn(s) \/ Expires(s) PROVE [ApiNext]_vars /\ UNCHANGED <<page, consent>>
  BY <1>1 DEF SignIn, Expires, ApiNext, Visit
<1>2. ASSUME NEW s \in Sessions, SwitchCustomer(s)
      PROVE  UNCHANGED <<vars, consent>> /\ page' \in [Sessions -> Pages]
  BY <1>0, <1>2 DEF SwitchCustomer, Shows
<1>3. ASSUME NEW s \in Sessions, NEW c \in Conversations, OpenChat(s, c)
      PROVE  [ApiNext]_vars /\ page' \in [Sessions -> Pages] /\ consent' = consent
  <2> DEFINE q == [ClosedPage EXCEPT !.conversation = c]
  <2>1. q \in Pages
    BY DEF ClosedPage, Pages
  <2>2. StartConversation(s, c) /\ page' = [page EXCEPT ![s] = q] /\ consent' = consent
    BY <1>3 DEF OpenChat, Shows
  <2> HIDE DEF q
  <2> QED
    BY <2>1, <2>2 DEF ApiNext, Visit
<1>4. ASSUME NEW t \in Turns, NEW s \in Sessions, NEW p \in Pages, Click(t, s, p)
      PROVE  [ApiNext]_vars /\ page' \in [Sessions -> Pages] /\ consent' \subseteq Calls
  <2> DEFINE c == p.conversation
  <2>1. /\ c \in Conversations /\ consent' \subseteq Calls
        /\ \E q \in Pages : page' = [page EXCEPT ![s] = q]
        /\ \/ Admit(t, s, c, p.says) \/ UNCHANGED vars \/ Limited(s, c) \/ StartFails(s)
           \/ \E fresh \in Conversations : StartConversation(s, fresh)
    BY <1>4, PostsShow
  <2>2. p.says \in {"message", "approve", "reject"}
    BY DEF Pages
  <2> QED
    BY <2>1, <2>2 DEF ApiNext, Visit
<1>5. ASSUME NEW t \in Turns, ServerWorks(t) PROVE [ApiNext]_vars /\ UNCHANGED <<page, consent>>
  BY <1>5 DEF ServerWorks, ApiNext
<1>6. ASSUME NEW t \in Turns, Answer(t)
      PROVE  [ApiNext]_vars /\ page' \in [Sessions -> Pages] /\ consent' = consent
  <2>1. [ApiNext]_vars /\ consent' = consent
    BY <1>6 DEF Answer, ApiNext, Step
  <2>2. ASSUME NEW s \in Sessions, Receive(s, t) PROVE page' \in [Sessions -> Pages]
    <3> DEFINE q == [page[s] EXCEPT !.waits = None, !.slip = turn[t].calls,
                                    !.out = turn[t].left = 0]
               r == [page[s] EXCEPT !.waits = None, !.failed = TRUE]
    <3>1. turn[t].calls \in SUBSET Calls
      BY <1>0 DEF ApiTypeOK, TurnStates
    <3>2. q \in Pages /\ r \in Pages
      BY <1>0, <3>1 DEF Pages
    <3>3. page' = [page EXCEPT ![s] = q] \/ page' = [page EXCEPT ![s] = r]
      BY <2>2 DEF Receive, Shows, SlipOf
    <3> HIDE DEF q, r
    <3> QED
      BY <3>2, <3>3
  <2> QED
    BY <1>6, <2>1, <2>2 DEF Answer
<1>7. ASSUME ServerRestarts
      PROVE  [ApiNext]_vars /\ page' \in [Sessions -> Pages] /\ consent' = consent
  <2>1. [ApiNext]_vars /\ consent' = consent
    BY <1>7 DEF ServerRestarts, ApiNext
  <2>2. \A s \in Sessions : [page[s] EXCEPT !.waits = None, !.failed = TRUE] \in Pages
    BY <1>0 DEF Pages
  <2> QED
    BY <1>0, <1>7, <2>1, <2>2 DEF ServerRestarts
<1>8. ASSUME NEW s \in Sessions, LoseAnswer(s)
      PROVE  PageTypes' /\ UNCHANGED vars
  <2>1. [page[s] EXCEPT !.waits = None, !.failed = TRUE] \in Pages
    BY <1>0 DEF Pages
  <2> QED
    BY <1>8, <2>1 DEF LoseAnswer, Shows
<1>9. CASE UNCHANGED chatVars
  BY <1>9 DEF chatVars
<1> QED
  BY <1>1, <1>2, <1>3, <1>4, <1>5, <1>6, <1>7, <1>8, <1>9, ClicksPost DEF ChatNext

LEMMA ServedInit == ChatInit => Served
<1> SUFFICES ASSUME ChatInit PROVE Served
  OBVIOUS
<1>1. ApiInv
  BY BudgetInvInit, TurnsInvInit DEF ChatInit, ApiInit, ApiInv
<1>2. BoundInv
  BY DEF ChatInit, ApiInit, BoundInv, BindingsAgree, TurnsStayBound, IdleTurn
<1>3. PageTypes
  BY DEF ChatInit, PageTypes, ClosedPage, Pages
<1> QED
  BY <1>1, <1>2, <1>3 DEF Served

LEMMA ServedStep == Served /\ [ChatNext]_chatVars => Served'
  BY PageTypesKept, ApiInvStep, BoundInvStep DEF Served

\* Whatever the pages do, the service does what it does for any client: all that
\* is proved of SupportApi holds under the pages.
THEOREM PagesUseTheService == ChatSpec => ApiSpec
<1>1. ChatInit => ApiInit
  BY DEF ChatInit
<1>2. Served /\ [ChatNext]_chatVars => [ApiNext]_vars
  BY PageTypesKept
<1> QED
  BY <1>1, <1>2, ServedInit, ServedStep, PTL DEF ChatSpec, ApiSpec

\* Type correctness of pages and service.
THEOREM ChatTyped == ChatSpec => []ChatTypeOK
<1>1. Served => ChatTypeOK
  BY DEF Served, ApiInv, TurnsInv, PageTypes, ChatTypeOK
<1> QED
  BY <1>1, ServedInit, ServedStep, PTL DEF ChatSpec

-----------------------------------------------------------------------------
(* No click, no ticket *)

NobodyApproved ==
  consent = {} =>
    /\ filed = {}
    /\ \A t \in Turns : turn[t].says # "approve" /\ turn[t].at # "tools"
    /\ \A s \in Sessions : page[s].says # "approve"

LEMMA NobodyApprovedStep ==
  ASSUME Served, NobodyApproved, [ChatNext]_chatVars PROVE NobodyApproved'
<1> SUFFICES ASSUME consent' = {} PROVE NobodyApproved'
  BY DEF NobodyApproved
<1> USE DEF Served, PageTypes, NobodyApproved
<1>0. /\ turn \in [Turns -> TurnStates] /\ IdleTurn.says = "message" /\ IdleTurn.at = "idle"
      /\ ClosedPage.says = "message"
  BY DEF ApiInv, TurnsInv, ApiTypeOK, IdleTurn, ClosedPage
<1>1. ASSUME NEW s \in Sessions, SignIn(s) \/ Expires(s) PROVE NobodyApproved'
  BY <1>1 DEF SignIn, Expires, IssueSession, ExpireSession
<1>2. ASSUME NEW s \in Sessions, SwitchCustomer(s) PROVE NobodyApproved'
  BY <1>0, <1>2 DEF SwitchCustomer, Shows, vars, apiVars
<1>3. ASSUME NEW s \in Sessions, NEW c \in Conversations, OpenChat(s, c) PROVE NobodyApproved'
  <2>1. [ClosedPage EXCEPT !.conversation = c].says = "message"
    BY DEF ClosedPage
  <2> QED
    BY <1>3, <2>1 DEF OpenChat, Shows, StartConversation
<1>4. ASSUME NEW t \in Turns, NEW s \in Sessions, NEW p \in Pages, Click(t, s, p)
      PROVE  NobodyApproved'
  <2> DEFINE c == p.conversation
  <2>1. consent = {} /\ p.says # "approve"
    BY <1>4 DEF Click
  <2>2. PICK q \in Pages :
          /\ page' = [page EXCEPT ![s] = q] /\ (q.says = p.says \/ q.says = "message")
          /\ \/ Admit(t, s, c, p.says) \/ UNCHANGED vars \/ Limited(s, c) \/ StartFails(s)
             \/ \E fresh \in Conversations : StartConversation(s, fresh)
    BY <1>4, PostsShow
  <2>3. \A r \in Sessions : page'[r].says # "approve"
    BY <2>1, <2>2
  <2>4. CASE Admit(t, s, c, p.says)
    <3> DEFINE new == [IdleTurn EXCEPT !.at = "authorizing", !.session = s, !.conversation = c,
                         !.says = p.says, !.left = PerSession - bySession[s] - 1]
    <3>1. new.at = "authorizing" /\ new.says = p.says
      BY DEF IdleTurn
    <3>2. turn' = [turn EXCEPT ![t] = new] /\ filed' = filed
      BY <2>4 DEF Admit
    <3> HIDE DEF new
    <3> QED
      BY <1>0, <2>1, <2>3, <3>1, <3>2
  <2>5. CASE \/ UNCHANGED vars \/ Limited(s, c) \/ StartFails(s)
             \/ \E fresh \in Conversations : StartConversation(s, fresh)
    <3>1. UNCHANGED <<turn, filed>>
      BY <2>5 DEF vars, apiVars, Limited, StartFails, StartConversation
    <3> QED
      BY <2>1, <2>3, <3>1
  <2> QED
    BY <2>2, <2>4, <2>5
<1>5. ASSUME NEW t \in Turns, ServerWorks(t) PROVE NobodyApproved'
  <2>1. UNCHANGED <<page, consent>> /\ Works(t)
    BY <1>5, WorkerWorks DEF ServerWorks
  <2> QED
    BY <2>1 DEF Works, Advances
<1>6. ASSUME NEW t \in Turns, Answer(t) PROVE NobodyApproved'
  <2>1. UNCHANGED <<consent, filed>> /\ turn' = [turn EXCEPT ![t] = IdleTurn]
    BY <1>6 DEF Answer, Settle
  <2>2. ASSUME NEW s \in Sessions, Receive(s, t)
        PROVE  \A r \in Sessions : page'[r].says = page[r].says
    <3> DEFINE q == [page[s] EXCEPT !.waits = None, !.slip = SlipOf(t),
                                    !.out = turn[t].left = 0]
               r == [page[s] EXCEPT !.waits = None, !.failed = TRUE]
    <3>1. q.says = page[s].says /\ r.says = page[s].says
      BY DEF Pages
    <3>2. page' = [page EXCEPT ![s] = q] \/ page' = [page EXCEPT ![s] = r]
      BY <2>2 DEF Receive, Shows
    <3> HIDE DEF q, r
    <3> QED
      BY <3>1, <3>2
  <2>3. \A r \in Sessions : page'[r].says = page[r].says
    BY <1>6, <2>2 DEF Answer
  <2> QED
    BY <1>0, <2>1, <2>3
<1>7. CASE ServerRestarts
  <2>1. UNCHANGED <<consent, filed>> /\ turn' = [t \in Turns |-> IdleTurn]
    BY <1>7 DEF ServerRestarts, Restart
  <2>2. \A r \in Sessions : page'[r].says = page[r].says
    BY <1>7 DEF ServerRestarts, Pages
  <2> QED
    BY <1>0, <2>1, <2>2
<1>8. ASSUME NEW s \in Sessions, LoseAnswer(s) PROVE NobodyApproved'
  <2>1. UNCHANGED <<consent, filed, turn>>
    BY <1>8 DEF LoseAnswer, vars, apiVars
  <2>2. \A r \in Sessions : page'[r].says = page[r].says
    BY <1>8 DEF LoseAnswer, Shows, Pages
  <2> QED
    BY <2>1, <2>2
<1>9. CASE UNCHANGED chatVars
  BY <1>9 DEF chatVars, vars, apiVars
<1> QED
  BY <1>1, <1>2, <1>3, <1>4, <1>5, <1>6, <1>7, <1>8, <1>9, ClicksPost DEF ChatNext

\* However many answers are lost and whatever is tried again, a ticket takes a
\* click on Approve.
THEOREM TicketsTakeAClick == ChatSpec => []NoClickNoTicket
<1>1. ChatInit => NobodyApproved
  BY DEF ChatInit, ApiInit, NobodyApproved, IdleTurn, ClosedPage
<1>2. Served /\ NobodyApproved /\ [ChatNext]_chatVars => NobodyApproved'
  BY NobodyApprovedStep
<1>3. NobodyApproved => NoClickNoTicket
  BY DEF NobodyApproved, NoClickNoTicket
<1> QED
  BY <1>1, <1>2, <1>3, ServedInit, ServedStep, PTL DEF ChatSpec

-----------------------------------------------------------------------------
(* As long as no answer is lost *)

\* A page that waits has nothing else to offer, and waits for a turn of its own.
Awaits(s) ==
  LET t == page[s].waits IN
  t # None => /\ Open(s) /\ page[s].slip = {} /\ ~page[s].failed
              /\ InFlight(t) /\ turn[t].session = s
              /\ turn[t].conversation = page[s].conversation /\ turn[t].says = page[s].says

\* A page that does not, on a conversation of its own: nothing runs there, its slip
\* is the pause unless a retry or the end is shown instead, and trying an approval
\* again approves what was approved.
Rests(s) ==
  LET c == page[s].conversation IN
  NotBusy(s) /\ sessionOf[c] = s =>
    /\ \A t \in Turns : InFlight(t) => turn[t].conversation # c
    /\ \/ page[s].slip = thread[c].pending
       \/ page[s].slip = {} /\ (page[s].failed \/ page[s].out)
    /\ page[s].failed /\ page[s].says = "approve" => thread[c].pending \subseteq consent

PageKnows(s) == Awaits(s) /\ Rests(s) /\ (page[s].failed => page[s].slip = {})

TurnsAreAlone ==
  \A t, u \in Turns :
    InFlight(t) /\ InFlight(u) /\ turn[t].conversation = turn[u].conversation => t = u

\* A conversation nobody has opened holds no pause.
UnopenedIsBlank == \A c \in Conversations : sessionOf[c] = None => ~Paused(c)

PagesInv ==
  /\ \A s \in Sessions : PageKnows(s)
  /\ \A t \in Turns : TurnIsCovered(t)
  /\ TurnsAreAlone
  /\ UnopenedIsBlank
  /\ ApprovedAsSeen

\* The service stands still.
LEMMA StillKeepsPagesInv ==
  ASSUME PagesInv, UNCHANGED <<turn, thread, sessionOf, filed, consent>>,
         \A s \in Sessions : PageKnows(s)'
  PROVE  PagesInv'
  BY DEF PagesInv, TurnIsCovered, InFlight, TurnsAreAlone, UnopenedIsBlank, Paused, ApprovedAsSeen

\* Session s opens the conversation c, and shows it on a page of its own.
LEMMA OpeningKeepsPagesInv ==
  ASSUME Served, PagesInv, NEW s \in Sessions, NEW c \in Conversations, NEW q \in Pages,
         StartConversation(s, c), page' = [page EXCEPT ![s] = q],
         q.conversation = c, q.waits = None, q.slip = {}, ~q.failed,
         consent \subseteq consent', ApprovedAsSeen'
  PROVE  PagesInv'
<1> USE DEF Served, PageTypes, ApiInv, TurnsInv, ApiTypeOK, BoundInv, PagesInv, InFlight
<1>1. /\ owner[c] = None /\ UNCHANGED <<turn, thread, filed>>
      /\ sessionOf' = [sessionOf EXCEPT ![c] = s]
  BY DEF StartConversation, Bind
<1>2. sessionOf[c] = None
  <2>1. sessionOf[c] \in Sessions \cup {None}
    OBVIOUS
  <2>2. sessionOf[c] # None => owner[c] = CustomerOf[sessionOf[c]]
    BY DEF BindingsAgree
  <2>3. \A r \in Sessions : CustomerOf[r] # None
    BY IdentityAssumption
  <2> QED
    BY <1>1, <2>1, <2>2, <2>3
<1>3. \A t \in Turns : InFlight(t) => turn[t].conversation # c
  BY <1>2, IdentityAssumption DEF TurnsStayBound, TurnsAreAddressed
<1>4. thread[c].pending = {}
  BY <1>2 DEF UnopenedIsBlank, Paused
<1>5. PageKnows(s)'
  BY <1>1, <1>3, <1>4 DEF PageKnows, Awaits, Rests, NotBusy, Open
<1>6. ASSUME NEW r \in Sessions \ {s} PROVE PageKnows(r)'
  <2>1. page'[r] = page[r]
    OBVIOUS
  <2>2. PageKnows(r)
    OBVIOUS
  <2>3. page[r].conversation \in Conversations \cup {None}
    BY DEF Pages
  <2>4. Open(r) => (sessionOf'[page[r].conversation] = r => sessionOf[page[r].conversation] = r)
    BY <1>1, <2>3 DEF Open
  <2> QED
    BY <1>1, <2>1, <2>2, <2>4 DEF PageKnows, Awaits, Rests, NotBusy, Open
<1>7. \A t \in Turns : TurnIsCovered(t)'
  BY <1>1 DEF TurnIsCovered
<1>8. TurnsAreAlone' /\ UnopenedIsBlank'
  BY <1>1, IdentityAssumption DEF TurnsAreAlone, UnopenedIsBlank, Paused
<1> QED
  BY <1>5, <1>6, <1>7, <1>8

\* A click that is taken: the turn starts where nothing ran.
LEMMA AdmittingKeepsPagesInv ==
  ASSUME Served, PagesInv, NEW t \in Turns, NEW s \in Sessions, NEW c \in Conversations,
         NEW says \in {"message", "approve", "reject"}, NEW q \in Pages,
         Admit(t, s, c, says), page' = [page EXCEPT ![s] = q],
         NotBusy(s), page[s].conversation = c,
         q.conversation = c, q.waits = t, q.says = says, q.slip = {}, ~q.failed,
         consent \subseteq consent',
         says = "approve" => thread[c].pending \subseteq consent'
  PROVE  PagesInv'
<1> USE DEF Served, PageTypes, ApiInv, TurnsInv, ApiTypeOK, BoundInv, PagesInv, InFlight
<1> DEFINE new == [IdleTurn EXCEPT !.at = "authorizing", !.session = s, !.conversation = c,
                     !.says = says, !.left = PerSession - bySession[s] - 1]
<1>1. /\ sessionOf[c] = s /\ turn' = [turn EXCEPT ![t] = new] /\ turn[t].at = "idle"
      /\ UNCHANGED <<thread, sessionOf, filed>>
  BY DEF Admit, MaySpeak
<1>2. /\ new.at = "authorizing" /\ new.session = s /\ new.conversation = c
      /\ new.says = says /\ new.ends = "unknown"
  BY DEF IdleTurn
<1> HIDE DEF new
<1>3. turn'[t] = new /\ \A u \in Turns \ {t} : turn'[u] = turn[u]
  BY <1>1
<1>4. \A u \in Turns : InFlight(u) => turn[u].conversation # c
  BY <1>1 DEF PageKnows, Rests
<1>5. PageKnows(s)'
  BY <1>1, <1>2, <1>3, IdentityAssumption DEF PageKnows, Awaits, Rests, NotBusy, Open
<1>6. ASSUME NEW r \in Sessions \ {s} PROVE PageKnows(r)'
  <2>1. page'[r] = page[r] /\ PageKnows(r) /\ page[r].waits \in Turns \cup {None}
    BY DEF Pages
  <2>2. page[r].waits # t
    BY <1>1, <2>1, IdentityAssumption DEF PageKnows, Awaits
  <2>3. sessionOf[page[r].conversation] = r => page[r].conversation # c
    BY <1>1
  <2> QED
    BY <1>1, <1>2, <1>3, <2>1, <2>2, <2>3 DEF PageKnows, Awaits, Rests, NotBusy, Open
<1>7. \A u \in Turns : TurnIsCovered(u)'
  BY <1>1, <1>2, <1>3 DEF TurnIsCovered
<1>8. TurnsAreAlone' /\ UnopenedIsBlank' /\ ApprovedAsSeen'
  BY <1>1, <1>2, <1>3, <1>4 DEF TurnsAreAlone, UnopenedIsBlank, Paused, ApprovedAsSeen
<1> QED
  BY <1>5, <1>6, <1>7, <1>8

\* The server works on a turn.
LEMMA WorkingKeepsPagesInv ==
  ASSUME Served, PagesInv, NEW t \in Turns, ServerWorks(t)
  PROVE  PagesInv'
<1> USE DEF PagesInv
<1>1. /\ UNCHANGED <<page, consent>> /\ Works(t) /\ (TurnIsCovered(t) => TurnIsCovered(t)')
  BY WorkerWorks DEF ServerWorks, Served
<1>2. /\ UNCHANGED sessionOf /\ InFlight(t) /\ InFlight(t)'
      /\ turn'[t].session = turn[t].session /\ turn'[t].says = turn[t].says
      /\ turn'[t].conversation = turn[t].conversation
      /\ \A u \in Turns \ {t} : turn'[u] = turn[u]
      /\ \A c \in Conversations \ {turn[t].conversation} : thread'[c] = thread[c]
  BY <1>1 DEF Works, Advances
<1>3. \A u \in Turns : InFlight(u) => turn[u].conversation \in Conversations
  BY DEF Served, ApiInv, TurnsInv, TurnsAreAddressed, InFlight
<1>4. ASSUME NEW u \in Turns PROVE TurnIsCovered(u)'
  <2>1. CASE u = t
    BY <1>1, <2>1
  <2>2. CASE u # t
    <3>1. turn'[u] = turn[u]
      BY <1>2, <2>2
    <3>2. InFlight(u) => thread'[turn[u].conversation] = thread[turn[u].conversation]
      BY <1>2, <1>3, <2>2 DEF TurnsAreAlone
    <3> QED
      BY <1>1, <3>1, <3>2 DEF TurnIsCovered, InFlight
  <2> QED
    BY <2>1, <2>2
<1>5. ASSUME NEW s \in Sessions PROVE PageKnows(s)'
  <2>1. PageKnows(s) /\ page[s].waits \in Turns \cup {None}
        /\ page[s].conversation \in Conversations \cup {None}
    BY DEF Served, PageTypes, Pages
  <2>2. Awaits(s)'
    BY <1>1, <1>2, <2>1 DEF PageKnows, Awaits, Open, InFlight
  <2>3. Rests(s)'
    <3> SUFFICES ASSUME NotBusy(s), sessionOf[page[s].conversation] = s PROVE Rests(s)'
      BY <1>1, <1>2 DEF Rests, NotBusy, Open
    <3>1. page[s].conversation \in Conversations /\ turn[t].conversation # page[s].conversation
      BY <1>2, <2>1 DEF PageKnows, Rests, NotBusy, Open
    <3>2. thread'[page[s].conversation] = thread[page[s].conversation]
      BY <1>2, <3>1
    <3> QED
      BY <1>1, <1>2, <2>1, <3>1, <3>2 DEF PageKnows, Rests, InFlight
  <2> QED
    BY <1>1, <2>1, <2>2, <2>3 DEF PageKnows
<1>6. TurnsAreAlone'
  BY <1>2 DEF TurnsAreAlone, InFlight
<1>7. UnopenedIsBlank'
  <2>1. sessionOf[turn[t].conversation] # None
    BY <1>2, IdentityAssumption
       DEF Served, BoundInv, TurnsStayBound, ApiInv, TurnsInv, TurnsAreAddressed, InFlight
  <2> QED
    BY <1>2, <2>1 DEF UnopenedIsBlank, Paused
<1>8. ApprovedAsSeen'
  <2>1. turn[t].at = "tools" => turn[t].calls \subseteq consent
    BY <1>2 DEF TurnIsCovered
  <2> QED
    BY <1>1, <2>1 DEF ApprovedAsSeen, Works
<1> QED
  BY <1>4, <1>5, <1>6, <1>7, <1>8

\* A turn settles, and its page hears of it.
LEMMA AnsweringKeepsPagesInv ==
  ASSUME Served, PagesInv, NEW t \in Turns, Answer(t)
  PROVE  PagesInv'
<1> USE DEF PagesInv
<1>1. /\ turn[t].at = "settling" /\ turn' = [turn EXCEPT ![t] = IdleTurn]
      /\ UNCHANGED <<thread, sessionOf, filed, consent>>
  BY DEF Answer, Settle
<1>2. /\ turn'[t].at = "idle" /\ \A u \in Turns \ {t} : turn'[u] = turn[u]
  BY <1>1 DEF Served, ApiInv, TurnsInv, ApiTypeOK, IdleTurn
<1>3. InFlight(t) /\ turn[t].conversation \in Conversations
  BY <1>1 DEF InFlight, Served, ApiInv, TurnsInv, TurnsAreAddressed
<1>4. ASSUME NEW r \in Sessions, page'[r] = page[r], page[r].waits # t PROVE PageKnows(r)'
  <2>1. PageKnows(r) /\ page[r].waits \in Turns \cup {None}
    BY DEF Served, PageTypes, Pages
  <2> QED
    BY <1>1, <1>2, <1>4, <2>1 DEF PageKnows, Awaits, Rests, NotBusy, Open, InFlight
<1>5. ASSUME NEW s \in Sessions, Receive(s, t) PROVE \A r \in Sessions : PageKnows(r)'
  <2> DEFINE c == turn[t].conversation
             ok == [page[s] EXCEPT !.waits = None, !.slip = turn[t].calls,
                                   !.out = turn[t].left = 0]
             no == [page[s] EXCEPT !.waits = None, !.failed = TRUE]
  <2>1. page[s] \in Pages /\ page[s].waits = t /\ t # None
    BY <1>5, IdentityAssumption DEF Receive, Served, PageTypes
  <2>2. /\ page[s].conversation = c /\ page[s].slip = {} /\ ~page[s].failed
        /\ turn[t].session = s /\ turn[t].says = page[s].says
    BY <2>1 DEF PageKnows, Awaits
  <2>3. /\ ok.conversation = c /\ ok.waits = None /\ ok.slip = turn[t].calls /\ ~ok.failed
        /\ no.conversation = c /\ no.waits = None /\ no.slip = {} /\ no.failed
        /\ no.says = turn[t].says
    BY <2>1, <2>2 DEF Pages
  <2>4. IF turn[t].ends = "answered" THEN page' = [page EXCEPT ![s] = ok]
                                     ELSE page' = [page EXCEPT ![s] = no]
    BY <1>5 DEF Receive, Shows, SlipOf
  <2> HIDE DEF ok, no
  <2>5. page'[s] = (IF turn[t].ends = "answered" THEN ok ELSE no)
        /\ \A r \in Sessions \ {s} : page'[r] = page[r]
    BY <2>4 DEF Served, PageTypes
  <2>6. \A u \in Turns : InFlight(u)' => turn'[u].conversation # c
    BY <1>2, <1>3 DEF TurnsAreAlone, InFlight
  <2>7. /\ turn[t].ends = "answered" => turn[t].calls = thread[c].pending
        /\ turn[t].ends # "answered" /\ turn[t].says = "approve" =>
             thread[c].pending \subseteq consent
    BY <1>3 DEF TurnIsCovered
  <2>8. PageKnows(s)'
    BY <1>1, <2>3, <2>5, <2>6, <2>7 DEF PageKnows, Awaits, Rests, NotBusy, Open
  <2>9. \A r \in Sessions \ {s} : page[r].waits # t
    BY <2>1, <2>2 DEF PageKnows, Awaits
  <2> QED
    BY <1>4, <2>5, <2>8, <2>9
<1>6. \A r \in Sessions : PageKnows(r)'
  BY <1>4, <1>5 DEF Answer
<1>7. \A u \in Turns : TurnIsCovered(u)'
  BY <1>1, <1>2 DEF TurnIsCovered, InFlight
<1>8. TurnsAreAlone' /\ UnopenedIsBlank' /\ ApprovedAsSeen'
  BY <1>1, <1>2 DEF TurnsAreAlone, InFlight, UnopenedIsBlank, Paused, ApprovedAsSeen
<1> QED
  BY <1>6, <1>7, <1>8

\* The service forgets every conversation.
LEMMA RestartingKeepsPagesInv ==
  ASSUME Served, PagesInv, ServerRestarts
  PROVE  PagesInv'
<1> USE DEF PagesInv
<1>1. /\ \A t \in Turns : ~InFlight(t)'
      /\ \A c \in Conversations : sessionOf'[c] = None /\ thread'[c].pending = {}
      /\ UNCHANGED <<filed, consent>>
  <2>1. /\ turn' = [t \in Turns |-> IdleTurn] /\ thread' = [c \in Conversations |-> NewThread]
        /\ sessionOf' = [c \in Conversations |-> None] /\ UNCHANGED <<filed, consent>>
    BY DEF ServerRestarts, Restart
  <2>2. IdleTurn.at = "idle" /\ NewThread.pending = {}
    BY DEF IdleTurn, NewThread
  <2> QED
    BY <2>1, <2>2 DEF InFlight
<1>2. ASSUME NEW s \in Sessions PROVE PageKnows(s)'
  <2> DEFINE q == [page[s] EXCEPT !.waits = None, !.failed = TRUE]
  <2>1. page[s] \in Pages /\ PageKnows(s)
    BY DEF Served, PageTypes
  <2>2. /\ q.waits = None /\ q.slip = page[s].slip /\ q.conversation = page[s].conversation
    BY <2>1 DEF Pages
  <2>3. page'[s] = (IF page[s].waits = None THEN page[s] ELSE q)
    BY DEF ServerRestarts
  <2> HIDE DEF q
  <2>4. /\ page'[s].waits = None /\ page'[s].conversation = page[s].conversation
        /\ page'[s].failed => page'[s].slip = {}
    BY <2>1, <2>2, <2>3 DEF PageKnows, Awaits
  <2>5. page[s].conversation # None => sessionOf'[page[s].conversation] # s
    BY <1>1, <2>1, IdentityAssumption DEF Pages
  <2> QED
    BY <2>4, <2>5 DEF PageKnows, Awaits, Rests, NotBusy, Open
<1> QED
  BY <1>1, <1>2 DEF TurnIsCovered, TurnsAreAlone, UnopenedIsBlank, Paused, ApprovedAsSeen

\* A click, whatever the server makes of it.
LEMMA ClickingKeepsPagesInv ==
  ASSUME Served, PagesInv, NEW t \in Turns, NEW s \in Sessions, NEW p \in Pages, Click(t, s, p)
  PROVE  PagesInv'
<1> DEFINE c == p.conversation
<1> USE DEF PagesInv
<1>1. /\ NotBusy(s) /\ page[s].conversation = c /\ PageKnows(s)
      /\ page[s].failed => page[s].slip = {}
  BY DEF Click, PageKnows
<1>2. p.slip = {} /\ ~p.failed /\ consent \subseteq consent'
  BY <1>1 DEF Click
<1>3. sessionOf[c] = s /\ p.says = "approve" => thread[c].pending \subseteq consent'
  BY <1>1 DEF Click, PageKnows, Rests
<1>4. c \in Conversations
  BY <1>1 DEF NotBusy, Open, Pages
<1>5. PICK q \in Pages :
        /\ page' = [page EXCEPT ![s] = q]
        /\ \/ /\ Admit(t, s, c, p.says)
              /\ q.conversation = c /\ q.waits = t /\ q.says = p.says
              /\ q.slip = p.slip /\ ~q.failed
           \/ q = ClosedPage /\ UNCHANGED vars
           \/ /\ Limited(s, c)
              /\ q.conversation = c /\ q.waits = None /\ q.slip = p.slip
              /\ q.out /\ ~q.failed
           \/ /\ \E fresh \in Conversations : /\ StartConversation(s, fresh)
                                               /\ q.conversation = fresh
              /\ q.waits = None /\ q.slip = p.slip /\ ~q.failed
           \/ /\ StartFails(s) /\ ~MaySpeak(s, c)
              /\ q.conversation = c /\ q.waits = None /\ q.slip = p.slip
  BY PostsShow DEF Served
<1>6. page'[s] = q /\ \A r \in Sessions \ {s} : page'[r] = page[r]
  BY <1>5 DEF Served, PageTypes
<1>7. CASE Admit(t, s, c, p.says) /\ q.waits = t
  <2>1. sessionOf[c] = s /\ p.says \in {"message", "approve", "reject"}
    BY <1>7 DEF Admit, MaySpeak, Pages
  <2>2. q.conversation = c /\ q.says = p.says /\ q.slip = {} /\ ~q.failed
    <3>1. t # None /\ ClosedPage.waits = None
      BY IdentityAssumption DEF ClosedPage
    <3> QED
      BY <1>2, <1>5, <1>7, <3>1
  <2> QED
    BY <1>1, <1>2, <1>3, <1>4, <1>5, <1>7, <2>1, <2>2, AdmittingKeepsPagesInv
<1>8. ASSUME NEW fresh \in Conversations, StartConversation(s, fresh), q.conversation = fresh,
             q.waits = None, q.slip = p.slip, ~q.failed
      PROVE  PagesInv'
  <2>1. ApprovedAsSeen'
    BY <1>2, <1>8 DEF StartConversation, ApprovedAsSeen
  <2> QED
    BY <1>2, <1>5, <1>8, <2>1, OpeningKeepsPagesInv
<1>9. ASSUME UNCHANGED <<turn, thread, sessionOf, filed>>, PageKnows(s)' PROVE PagesInv'
  <2>1. ASSUME NEW r \in Sessions \ {s} PROVE PageKnows(r)'
    <3>1. PageKnows(r) /\ page'[r] = page[r]
      BY <1>6
    <3> QED
      BY <1>2, <1>9, <3>1 DEF PageKnows, Awaits, Rests, NotBusy, Open, InFlight
  <2>2. \A u \in Turns : TurnIsCovered(u)'
    BY <1>2, <1>9 DEF TurnIsCovered, InFlight
  <2>3. TurnsAreAlone' /\ UnopenedIsBlank' /\ ApprovedAsSeen'
    BY <1>2, <1>9 DEF TurnsAreAlone, InFlight, UnopenedIsBlank, Paused, ApprovedAsSeen
  <2> QED
    BY <1>9, <2>1, <2>2, <2>3
<1>10. CASE q = ClosedPage /\ UNCHANGED vars
  <2>1. UNCHANGED <<turn, thread, sessionOf, filed>>
    BY <1>10 DEF vars, apiVars
  <2>2. PageKnows(s)'
    BY <1>6, <1>10 DEF ClosedPage, PageKnows, Awaits, Rests, NotBusy, Open
  <2> QED
    BY <1>9, <2>1, <2>2
<1>11. CASE /\ Limited(s, c) /\ q.out /\ ~q.failed
            /\ q.conversation = c /\ q.waits = None /\ q.slip = p.slip
  <2>1. UNCHANGED <<turn, thread, sessionOf, filed>> /\ sessionOf[c] = s
    BY <1>11 DEF Limited, MaySpeak, apiVars
  <2>2. PageKnows(s)'
    BY <1>1, <1>2, <1>6, <1>11, <2>1 DEF PageKnows, Awaits, Rests, NotBusy, Open, InFlight
  <2> QED
    BY <1>9, <2>1, <2>2
<1>12. CASE /\ StartFails(s) /\ ~MaySpeak(s, c)
            /\ q.conversation = c /\ q.waits = None /\ q.slip = p.slip
  <2>1. UNCHANGED <<turn, thread, sessionOf, filed>> /\ sessionOf[c] # s
    BY <1>12 DEF StartFails, MaySpeak, apiVars
  <2>2. PageKnows(s)'
    BY <1>2, <1>6, <1>12, <2>1 DEF PageKnows, Awaits, Rests, NotBusy, Open
  <2> QED
    BY <1>9, <2>1, <2>2
<1> QED
  BY <1>5, <1>7, <1>8, <1>10, <1>11, <1>12

LEMMA PagesInvStep ==
  ASSUME Served, lost \/ PagesInv, [ChatNext]_chatVars PROVE (lost \/ PagesInv)'
<1> SUFFICES ASSUME ~lost' PROVE PagesInv'
  BY DEF PagesInv
<1>0. ~lost /\ PagesInv /\ UNCHANGED lost
  <2>1. (\E s \in Sessions : LoseAnswer(s)) \/ UNCHANGED lost
    BY Zenon DEF ChatNext, chatVars
  <2>2. ASSUME NEW s \in Sessions, LoseAnswer(s) PROVE FALSE
    BY <2>2 DEF LoseAnswer
  <2> QED
    BY <2>1, <2>2
<1>1. ASSUME NEW s \in Sessions, SignIn(s) \/ Expires(s) PROVE PagesInv'
  <2>1. UNCHANGED <<page, turn, thread, sessionOf, filed, consent>>
    BY <1>1 DEF SignIn, Expires, IssueSession, ExpireSession
  <2> QED
    BY <1>0, <2>1, StillKeepsPagesInv DEF PagesInv, PageKnows, Awaits, Rests, NotBusy, Open, InFlight
<1>2. ASSUME NEW s \in Sessions, SwitchCustomer(s) PROVE PagesInv'
  <2>1. /\ UNCHANGED <<turn, thread, sessionOf, filed, consent>>
        /\ page' = [page EXCEPT ![s] = ClosedPage]
    BY <1>2 DEF SwitchCustomer, Shows, vars, apiVars
  <2>2. ASSUME NEW r \in Sessions PROVE PageKnows(r)'
    <3>1. page'[r] = ClosedPage \/ page'[r] = page[r]
      BY <2>1 DEF Served, PageTypes
    <3>2. ClosedPage.waits = None /\ ClosedPage.conversation = None /\ ~ClosedPage.failed
      BY DEF ClosedPage
    <3>3. CASE page'[r] = ClosedPage
      BY <3>2, <3>3 DEF PageKnows, Awaits, Rests, NotBusy, Open
    <3>4. CASE page'[r] = page[r]
      <4>1. PageKnows(r)
        BY <1>0 DEF PagesInv
      <4> QED
        BY <2>1, <3>4, <4>1 DEF PageKnows, Awaits, Rests, NotBusy, Open, InFlight
    <3> QED
      BY <3>1, <3>3, <3>4
  <2> QED
    BY <1>0, <2>1, <2>2, StillKeepsPagesInv
<1>3. ASSUME NEW s \in Sessions, NEW c \in Conversations, OpenChat(s, c) PROVE PagesInv'
  <2> DEFINE q == [ClosedPage EXCEPT !.conversation = c]
  <2>1. q \in Pages /\ q.conversation = c /\ q.waits = None /\ q.slip = {} /\ ~q.failed
    BY DEF ClosedPage, Pages
  <2>2. /\ StartConversation(s, c) /\ page' = [page EXCEPT ![s] = q] /\ consent' = consent
        /\ filed' = filed
    BY <1>3 DEF OpenChat, Shows, StartConversation
  <2>3. ApprovedAsSeen'
    BY <1>0, <2>2 DEF PagesInv, ApprovedAsSeen
  <2> HIDE DEF q
  <2> QED
    BY <1>0, <2>1, <2>2, <2>3, OpeningKeepsPagesInv
<1>4. ASSUME NEW t \in Turns, NEW s \in Sessions,
             \/ SendMessage(t, s) \/ Retry(t, s)
             \/ Decide(t, s, "approve") \/ Decide(t, s, "reject")
      PROVE  PagesInv'
  BY <1>0, <1>4, ClicksPost, ClickingKeepsPagesInv DEF Served
<1>5. ASSUME NEW t \in Turns, ServerWorks(t) \/ Answer(t) PROVE PagesInv'
  BY <1>0, <1>5, WorkingKeepsPagesInv, AnsweringKeepsPagesInv
<1>6. CASE ServerRestarts
  BY <1>0, <1>6, RestartingKeepsPagesInv
<1>7. ~\E s \in Sessions : LoseAnswer(s)
  BY DEF LoseAnswer
<1>8. CASE UNCHANGED chatVars
  <2>1. UNCHANGED <<page, turn, thread, sessionOf, filed, consent>>
    BY <1>8 DEF chatVars, vars, apiVars
  <2> QED
    BY <1>0, <2>1, StillKeepsPagesInv DEF PagesInv, PageKnows, Awaits, Rests, NotBusy, Open, InFlight
<1> QED
  BY <1>1, <1>2, <1>3, <1>4, <1>5, <1>6, <1>7, <1>8 DEF ChatNext

LEMMA PagesInvAlways == ChatSpec => [](lost \/ PagesInv)
<1>1. ChatInit => PagesInv
  <2> SUFFICES ASSUME ChatInit PROVE PagesInv
    OBVIOUS
  <2>1. /\ \A t \in Turns : ~InFlight(t)
        /\ \A c \in Conversations : thread[c].pending = {}
        /\ \A s \in Sessions : /\ page[s].conversation = None /\ page[s].waits = None
                                /\ ~page[s].failed
        /\ filed = {}
    BY DEF ChatInit, ApiInit, InFlight, IdleTurn, NewThread, ClosedPage
  <2> QED
    BY <2>1 DEF PagesInv, PageKnows, Awaits, Rests, NotBusy, Open, TurnIsCovered, TurnsAreAlone,
       UnopenedIsBlank, Paused, ApprovedAsSeen
<1>2. Served /\ (lost \/ PagesInv) /\ [ChatNext]_chatVars => (lost \/ PagesInv)'
  BY PagesInvStep
<1> QED
  BY <1>1, <1>2, ServedInit, ServedStep, PTL DEF ChatSpec

\* As long as the network loses no answer, only what was on a slip the visitor
\* approved is ever filed.
THEOREM ApprovalsAreSeen == ChatSpec => []ApprovedUnlessLost
<1>1. lost \/ PagesInv => ApprovedUnlessLost
  BY DEF PagesInv, ApprovedUnlessLost
<1> QED
  BY <1>1, PagesInvAlways, PTL

\* And no page hides the pause of its conversation.
THEOREM PausesAreShown == ChatSpec => []PauseShownUnlessLost
<1>1. lost \/ PagesInv => PauseShownUnlessLost
  BY DEF PagesInv, PageKnows, Rests, PauseIsShown, PauseShownUnlessLost, Paused
<1> QED
  BY <1>1, PagesInvAlways, PTL
=============================================================================
