------------------------ MODULE DaemonServiceProofs ------------------------
(***************************************************************************)
(* Theorems about DaemonService, for any sets of sessions, commands and    *)
(* handlers, any configuration and any lifetimes.                          *)
(***************************************************************************)
EXTENDS DaemonService, TLAPS

\* The engine answers with a hint, a rewrite, an interrupt or nothing.
LEMMA EngineVerdictAction ==
  ASSUME NEW cfg \in Config, NEW a \in Analysis, NEW stage \in Stage
  PROVE  EngineVerdict(cfg, a, stage).action \in {"none", "hint", "rewrite", "interrupt"}
<1>1. finish(cfg, a, stage) \in {"none", "hint", "rewrite", "interrupt"}
  BY DEF finish, applyMode
<1> QED
  BY <1>1 DEF EngineVerdict, Silent

\* The packs answer with a hint, a rewrite or a request for confirmation, and
\* after a failure only with a hint.
LEMMA CuratedVerdictAction ==
  ASSUME NEW cfg, NEW a, NEW hasSession, NEW stage
  PROVE  /\ CuratedVerdict(cfg, a, hasSession, stage).action \in {"hint", "rewrite", "confirm"}
         /\ stage = "post" => CuratedVerdict(cfg, a, hasSession, stage).action = "hint"
  BY DEF CuratedVerdict, CuratedAction

\* A learned rule is off, hints or rewrites.
LEMMA LearnedVerdictAction ==
  ASSUME NEW cfg \in Config, NEW a \in Analysis, LearnedApplies(cfg, a)
  PROVE  LearnedVerdict(cfg, a).action \in {"hint", "rewrite"}
  BY DEF LearnedVerdict, LearnedApplies, limitedLearnedAction, Config, Analysis,
         LearnedAction, Level

\* preSend answers with one of five actions.
LEMMA PreSendAction ==
  ASSUME NEW cfg \in Config, NEW a \in Analysis, NEW hasSession \in BOOLEAN
  PROVE  preSend(cfg, a, hasSession).action
           \in {"none", "hint", "rewrite", "interrupt", "confirm"}
<1>1. EngineVerdict(cfg, a, "pre").action \in {"none", "hint", "rewrite", "interrupt"}
  BY EngineVerdictAction DEF Stage
<1>2. [EngineVerdict(cfg, a, "pre") EXCEPT !.action = "confirm"].action = "confirm"
  BY DEF EngineVerdict, Silent
<1>3. CASE ~a.supported
  BY <1>3 DEF preSend, Silent
<1>4. CASE a.supported /\ CuratedApplies(cfg, a)
  BY <1>4, CuratedVerdictAction DEF preSend
<1>5. CASE a.supported /\ ~CuratedApplies(cfg, a) /\ LearnedApplies(cfg, a)
  BY <1>5, LearnedVerdictAction DEF preSend
<1>6. CASE a.supported /\ ~CuratedApplies(cfg, a) /\ ~LearnedApplies(cfg, a)
  BY <1>1, <1>2, <1>6 DEF preSend
<1> QED
  BY <1>3, <1>4, <1>5, <1>6

\* Without a session nothing is ever put up for confirmation.
LEMMA PreSendNoSession ==
  ASSUME NEW cfg \in Config, NEW a \in Analysis
  PROVE  preSend(cfg, a, FALSE).action # "confirm"
<1>1. CuratedVerdict(cfg, a, FALSE, "pre").action \in {"hint", "rewrite"}
  BY DEF CuratedVerdict, CuratedAction
<1>2. EngineVerdict(cfg, a, "pre").action # "confirm"
  BY EngineVerdictAction DEF Stage
<1> QED
  BY <1>1, <1>2, LearnedVerdictAction DEF preSend, Silent

\* After a failure the daemon only ever hints or says nothing.
LEMMA PostFailureAction ==
  ASSUME NEW cfg \in Config, NEW a \in Analysis
  PROVE  postFailure(cfg, a).action \in {"none", "hint"}
<1>1. EngineVerdict(cfg, a, "post").action \in {"none", "hint"}
  BY DEF EngineVerdict, Silent, finish, applyMode, shouldInterrupt
<1> QED
  BY <1>1, CuratedVerdictAction DEF postFailure

LEMMA InitType == Init => TypeOK
  BY ServiceAssumption DEF Init, TypeOK, Request, Response, PC, Operation, Action, IdleRequest,
     IdleResponse, Client, FailureRecord

-----------------------------------------------------------------------------
\* A handler that is about to store a token or to record a pair serves a
\* request that has a session: the type invariant depends on it.
SessionKnown ==
  \A h \in Handler :
    pc[h] \in {"storeConfirmation", "storeUndo", "record"} => req[h].session \in Session

TypeInv == TypeOK /\ SessionKnown

\* Leaving a section keeps the handlers' types.
LEMMA PrepareType ==
  ASSUME TypeOK, NEW h \in Handler, NEW a \in Response, Prepare(h, a)
  PROVE  pc' \in [Handler -> PC] /\ resp' \in [Handler -> Response]
  BY DEF TypeOK, Prepare, PC

LEMMA GotoType ==
  ASSUME TypeOK, NEW h \in Handler, NEW next \in PC, Goto(h, next)
  PROVE  pc' \in [Handler -> PC] /\ resp' \in [Handler -> Response]
  BY DEF TypeOK, Goto

\* The answers the handlers prepare are responses.
LEMMA AnswerType ==
  ASSUME TypeOK, NEW h \in Handler, NEW action \in Action, NEW t \in Token
  PROVE  /\ Answer(req[h], action) \in Response
         /\ BackedAnswer(req[h], action, t) \in Response
         /\ [Answer(req[h], action) EXCEPT !.token = t] \in Response
         /\ \A c \in Command :
              [BackedAnswer(req[h], action, t) EXCEPT !.command = c] \in Response
<1>1. req[h].command \in Command /\ now \in Nat
  BY DEF TypeOK, Request
<1> QED
  BY <1>1 DEF Answer, BackedAnswer, Response

LEMMA PlainAnswerType ==
  ASSUME TypeOK, NEW h \in Handler, NEW action \in Action
  PROVE  Answer(req[h], action) \in Response
  BY DEF TypeOK, Request, Answer, Response

\* A token is issued to a session: what Issue does to the history.
LEMMA IssueType ==
  ASSUME TypeOK, NEW h \in Handler, NEW kind \in {"confirm", "undo"}, Issue(h, kind),
         req[h].session \in Session
  PROVE  /\ issued' \subseteq [kind : {"confirm", "undo"}, session : Session,
                               command : Command, token : Token, at : Nat]
         /\ nextToken' \in 1 .. (MaxToken + 1)
         /\ nextToken \in Token
  BY ServiceAssumption DEF TypeOK, Issue, Token, Request

LEMMA RedeemType ==
  ASSUME TypeOK, NEW S, Redeem(S)
  PROVE  redeemed' \in [Token -> Nat]
  BY DEF TypeOK, Redeem

\* Every step keeps the type invariant, one action at a time.
LEMMA NextType == TypeInv /\ [Next]_vars => TypeInv'
<1> SUFFICES ASSUME TypeOK, SessionKnown, [Next]_vars PROVE TypeInv'
  BY DEF TypeInv
<1> USE ServiceAssumption
<1> USE DEF TypeInv, TypeOK, SessionKnown, mapVars, handlerVars, historyVars, Client
<1>0. IdleRequest \in Request /\ IdleResponse \in Response
  BY DEF IdleRequest, IdleResponse, Request, Response, Operation, Action
<1>1. ASSUME NEW c \in Callers, NEW h \in Handler, NEW op \in Operations, NEW cmd \in Command,
             NEW tok \in Token \cup {0}, NEW ft \in FailureToken, Send(c, h, op, cmd, tok, ft)
      PROVE TypeInv'
  BY <1>1, CallersAssumption DEF Send, Request, PC
<1>2. ASSUME NEW c \in Callers, GiveUp(c) PROVE TypeInv'
  BY <1>2 DEF GiveUp
<1>3. ASSUME NEW h \in Handler, Respond(h) PROVE TypeInv'
  <2>1. pc' \in [Handler -> PC] /\ req' \in [Handler -> Request]
          /\ resp' \in [Handler -> Response]
    BY <1>0, <1>3 DEF Respond, PC
  <2>2. waiting' \in [Client -> SUBSET Handler] /\ delivered' \subseteq Token
    BY <1>3 DEF Respond, Request, Response
  <2> QED
    BY <1>3, <2>1, <2>2 DEF Respond
<1>4. CASE Tick
  BY <1>4 DEF Tick
<1>5. CASE Restart
  BY <1>0, <1>5 DEF Restart, PC
<1>6. ASSUME NEW h \in Handler, Status(h) PROVE TypeInv'
  <2>1. Answer(req[h], "ready") \in Response
    BY PlainAnswerType DEF Action
  <2> QED
    BY <1>6, <2>1 DEF Status, Prepare, PC
<1>7. ASSUME NEW h \in Handler, BeginCommand(h) PROVE TypeInv'
  BY <1>7 DEF BeginCommand, Goto, clearPendingUndo, OfSession, PC
<1>8. ASSUME NEW h \in Handler, DecideSubmit(h) PROVE TypeInv'
  <2>1. PICK e \in confirmations :
          /\ Prepare(h, BackedAnswer(req[h], "submit", e.token))
          /\ Redeem({e.token})
    BY <1>8 DEF DecideSubmit, Confirmed, OfSession
  <2>2. BackedAnswer(req[h], "submit", e.token) \in Response
    BY AnswerType DEF Action
  <2>3. redeemed' \in [Token -> Nat]
    BY <2>1, RedeemType
  <2>4. confirmations' \subseteq confirmations
    BY <1>8 DEF DecideSubmit, consumeConfirmation
  <2> QED
    BY <1>8, <2>1, <2>2, <2>3, <2>4 DEF DecideSubmit, Prepare, PC
<1>9. ASSUME NEW h \in Handler, DecideInterrupt(h) PROVE TypeInv'
  <2>1. req[h].session \in Session
    BY <1>9, PreSendNoSession DEF DecideInterrupt, Decision, Request
  <2> QED
    BY <1>9, <2>1 DEF DecideInterrupt, Goto, consumeConfirmation, PC
<1>10. ASSUME NEW h \in Handler, Decide(h) PROVE TypeInv'
  <2>1. Decision(h).action \in {"none", "hint", "rewrite", "interrupt", "confirm"}
    BY PreSendAction DEF Decision, Request
  <2>2. CASE Undoable(h)
    BY <1>10, <2>2 DEF Decide, Undoable, Goto, PC, Request
  <2>3. CASE ~Undoable(h)
    <3>1. Answer(req[h], Decision(h).action) \in Response
      BY <1>10, <2>1, PlainAnswerType DEF Decide, Action
    <3> QED
      BY <1>10, <2>3, <3>1 DEF Decide, Prepare, PC
  <2> QED
    BY <2>2, <2>3
<1>11. ASSUME NEW h \in Handler, Fail(h) PROVE TypeInv'
  <2>1. Answer(req[h], "error") \in Response
    BY PlainAnswerType DEF Action
  <2> QED
    BY <1>11, <2>1 DEF Fail, Prepare, PC
<1>12. ASSUME NEW h \in Handler, storeConfirmation(h) PROVE TypeInv'
  <2>1. req[h].session \in Session /\ req[h].command \in Command
    BY <1>12 DEF storeConfirmation, Request
  <2>2. /\ nextToken \in Token
        /\ issued' \subseteq [kind : {"confirm", "undo"}, session : Session,
                              command : Command, token : Token, at : Nat]
        /\ nextToken' \in 1 .. (MaxToken + 1)
    BY <1>12, <2>1, IssueType DEF storeConfirmation
  <2>3. confirmations' \subseteq
          [session : Session, command : Command, token : Token, expires : Nat]
    BY <1>12, <2>1, <2>2 DEF storeConfirmation
  <2>4. [Answer(req[h], "interrupt") EXCEPT !.token = nextToken] \in Response
    BY <2>2, AnswerType DEF Action
  <2> QED
    BY <1>12, <2>2, <2>3, <2>4 DEF storeConfirmation, Prepare, PC
<1>13. ASSUME NEW h \in Handler, issueUndoToken(h) PROVE TypeInv'
  <2>1. req[h].session \in Session /\ req[h].command \in Command
    BY <1>13 DEF issueUndoToken, Request
  <2>2. /\ nextToken \in Token
        /\ issued' \subseteq [kind : {"confirm", "undo"}, session : Session,
                              command : Command, token : Token, at : Nat]
        /\ nextToken' \in 1 .. (MaxToken + 1)
    BY <1>13, <2>1, IssueType DEF issueUndoToken
  <2>3. undos' \subseteq [session : Session, command : Command, token : Token, expires : Nat]
    BY <1>13, <2>1, <2>2 DEF issueUndoToken, storeUndoToken, removeExpiredUndos
  <2>4. [Answer(req[h], "rewrite") EXCEPT !.token = nextToken] \in Response
    BY <2>2, AnswerType DEF Action
  <2> QED
    BY <1>13, <2>2, <2>3, <2>4 DEF issueUndoToken, Prepare, PC
<1>14. ASSUME NEW h \in Handler, issueUndoTokenFails(h) PROVE TypeInv'
  <2>1. Answer(req[h], "rewrite") \in Response
    BY PlainAnswerType DEF Action
  <2> QED
    BY <1>14, <2>1 DEF issueUndoTokenFails, Prepare, PC
<1>15. ASSUME NEW h \in Handler, Confirm(h) PROVE TypeInv'
  <2>1. /\ Answer(req[h], "none") \in Response
        /\ req[h].token # 0 => BackedAnswer(req[h], "submit", req[h].token) \in Response
    BY PlainAnswerType, AnswerType DEF Action, Request
  <2>2. PICK a \in Response : Prepare(h, a)
    BY <1>15, <2>1 DEF Confirm
  <2>3. redeemed' \in [Token -> Nat]
    BY <1>15, RedeemType DEF Confirm
  <2>4. confirmations' \subseteq confirmations
    BY <1>15 DEF Confirm
  <2> QED
    BY <1>15, <2>2, <2>3, <2>4 DEF Confirm, Prepare, PC
<1>16. ASSUME NEW h \in Handler, Undo(h) PROVE TypeInv'
  <2>1. PICK u \in undos :
          /\ undos' = consumeUndoToken(u)
          /\ Redeem({u.token})
          /\ Prepare(h, [BackedAnswer(req[h], "edit-in-buffer", u.token)
                           EXCEPT !.command = u.command])
    BY <1>16 DEF Undo, liveUndo, OfSession
  <2>2. [BackedAnswer(req[h], "edit-in-buffer", u.token) EXCEPT !.command = u.command]
          \in Response
    BY AnswerType DEF Action
  <2>3. redeemed' \in [Token -> Nat]
    BY <2>1, RedeemType
  <2>4. undos' \subseteq undos
    BY <2>1 DEF consumeUndoToken, removeExpiredUndos
  <2> QED
    BY <1>16, <2>1, <2>2, <2>3, <2>4 DEF Undo, Prepare, PC
<1>17. ASSUME NEW h \in Handler, UndoNothing(h) PROVE TypeInv'
  <2>1. Answer(req[h], "none") \in Response
    BY PlainAnswerType DEF Action
  <2> QED
    BY <1>17, <2>1 DEF UndoNothing, Prepare, removeExpiredUndos, PC
<1>18. ASSUME NEW h \in Handler, rememberFailure(h) PROVE TypeInv'
  <2>1. PICK action \in {"none", "hint", "error"} : Prepare(h, Answer(req[h], action))
    BY <1>18, PostFailureAction DEF rememberFailure, PostFailureAnswer, Request
  <2>2. Answer(req[h], action) \in Response
    BY PlainAnswerType DEF Action
  <2>3. CASE Learns(req[h])
    <3>1. [id |-> nextFailure, session |-> req[h].session, token |-> req[h].ftoken,
           command |-> Normal[req[h].command], created |-> now] \in FailureRecord
      BY <1>18, <2>3 DEF rememberFailure, Learns, FailureRecord, Request
    <3>2. failures' \subseteq FailureRecord /\ remembered' \subseteq FailureRecord
      BY <1>18, <2>3, <3>1 DEF rememberFailure, removeExpiredFailures
    <3>3. nextFailure' \in 1 .. (MaxFailure + 1)
      BY <1>18, <2>3 DEF rememberFailure, FailureId
    <3> QED
      BY <1>18, <2>1, <2>2, <3>2, <3>3 DEF rememberFailure, Prepare, PC
  <2>4. CASE ~Learns(req[h])
    BY <1>18, <2>1, <2>2, <2>4 DEF rememberFailure, Prepare, PC
  <2> QED
    BY <2>3, <2>4
<1>19. ASSUME NEW h \in Handler, recordSuccess(h) PROVE TypeInv'
  <2>1. Answer(req[h], "none") \in Response
    BY PlainAnswerType DEF Action
  <2>2. failures' \subseteq FailureRecord /\ taken' \in [Handler -> SUBSET FailureRecord]
    BY <1>19 DEF recordSuccess, takeFailure, removeExpiredFailures
  <2>3. Learns(req[h]) => req[h].session \in Session
    BY DEF Learns, Request
  <2>4. CASE pc' = [pc EXCEPT ![h] = "record"] /\ resp' = resp /\ Learns(req[h])
    BY <1>19, <2>2, <2>3, <2>4 DEF recordSuccess, PC
  <2>5. CASE Prepare(h, Answer(req[h], "none"))
    BY <1>19, <2>1, <2>2, <2>5 DEF recordSuccess, Prepare, PC
  <2> QED
    BY <1>19, <2>4, <2>5 DEF recordSuccess, Goto
<1>20. ASSUME NEW h \in Handler, RecordLearningPair(h) PROVE TypeInv'
  <2>1. Answer(req[h], "none") \in Response
    BY PlainAnswerType DEF Action
  <2>2. paired' \in [FailureId -> Nat]
    BY <1>20 DEF RecordLearningPair
  <2> QED
    BY <1>20, <2>1, <2>2 DEF RecordLearningPair, Prepare, PC
<1>21. CASE UNCHANGED vars
  BY <1>21 DEF vars
<1> QED
  BY <1>1, <1>2, <1>3, <1>4, <1>5, <1>6, <1>7, <1>8, <1>9, <1>10, <1>11, <1>12, <1>13,
     <1>14, <1>15, <1>16, <1>17, <1>18, <1>19, <1>20, <1>21 DEF Next, Handle

\* The variables keep the types of the Go maps and records they stand for, in
\* every reachable state.
THEOREM TypeCorrect == Spec => []TypeOK
<1>1. Init => TypeInv
  BY InitType DEF Init, TypeInv, SessionKnown
<1>2. TypeInv /\ [Next]_vars => TypeInv'
  BY NextType
<1>3. TypeInv => TypeOK
  BY DEF TypeInv
<1> QED
  BY <1>1, <1>2, <1>3, PTL DEF Spec

-----------------------------------------------------------------------------
(***************************************************************************)
(* Tokens.  TokensTakeEffectOnce and the backing of answers are not        *)
(* inductive: a handler redeems the token it finds in a map, so the maps   *)
(* must be tied to the history.  Every pending entry stems from exactly    *)
(* one issue (same session, command and time) and has not been redeemed.   *)
(***************************************************************************)

\* Tokens are issued once, in order.
IssuesDistinct ==
  /\ \A i, j \in issued : i.token = j.token => i = j
  /\ \A i \in issued : i.token < nextToken /\ i.at <= now

\* A pending confirmation or undo is a token issued for it, not yet redeemed.
PendingConfirmationsIssued ==
  \A e \in confirmations :
    /\ redeemed[e.token] = 0
    /\ \E i \in IssuedAs("confirm", e.token, e.session, e.command) :
         e.expires = i.at + ConfirmTTL

PendingUndosIssued ==
  \A u \in undos :
    /\ redeemed[u.token] = 0
    /\ \E i \in IssuedAs("undo", u.token, u.session, u.command) :
         u.expires = i.at + UndoTTL

\* Tokens not handed out yet have no effect, and nobody has one twice.
RedeemedOnce ==
  \A t \in Token : redeemed[t] <= 1 /\ (t >= nextToken => redeemed[t] = 0)

OneConfirmationPerSession ==
  \A e, f \in confirmations : e.session = f.session => e = f

\* Only a handler about to respond holds an answer.
AnswersPrepared ==
  \A h \in Handler : pc[h] # "respond" => resp[h].action = "none"

TokenInv ==
  /\ IssuesDistinct
  /\ PendingConfirmationsIssued
  /\ PendingUndosIssued
  /\ RedeemedOnce
  /\ OneConfirmationPerSession
  /\ OneUndoPerSession
  /\ AnswersPrepared
  /\ SubmitIsBacked
  /\ UndoIsBacked

\* An undo token that was handed to a client, or retired, is an issued one.
DeliveredIssued ==
  /\ \A t \in delivered \cup retired : t < nextToken
  /\ \A h \in Handler : resp[h].action = "rewrite" => resp[h].token < nextToken

RetireInv == RetiredUndosAreGone /\ DeliveredIssued

-----------------------------------------------------------------------------
(***************************************************************************)
(* Failures waiting for their correction.  A failure is in the map, or     *)
(* taken by one handler, or spent; only a spent one has made a pair.       *)
(***************************************************************************)

FailuresDistinct ==
  /\ \A f, g \in remembered : f.id = g.id => f = g
  /\ \A f \in remembered : f.id < nextFailure
  /\ failures \subseteq remembered

TakenOnce ==
  \A h \in Handler :
    /\ taken[h] \subseteq remembered \ failures
    /\ pc[h] # "record" => taken[h] = {}
    /\ \A k \in Handler : k # h => taken[h] \cap taken[k] = {}

Unpaired ==
  /\ \A f \in failures : paired[f.id] = 0
  /\ \A h \in Handler : \A f \in taken[h] : paired[f.id] = 0
  /\ \A n \in FailureId : n >= nextFailure => paired[n] = 0

FailureInv ==
  FailuresDistinct /\ TakenOnce /\ Unpaired /\ OnePairPerFailure /\ PairsMatchTheirFailure

-----------------------------------------------------------------------------
\* Handlers other than h keep their answers and h's new one redeems nothing.
LEMMA PlainAnswerBacked ==
  ASSUME TypeOK, TokenInv, NEW h \in Handler, NEW a \in Response, Prepare(h, a),
         a.action \notin {"submit", "edit-in-buffer"}, req' = req, issued \subseteq issued'
  PROVE  AnswersPrepared' /\ SubmitIsBacked' /\ UndoIsBacked'
  BY DEF TypeOK, TokenInv, Prepare, AnswersPrepared, SubmitIsBacked, UndoIsBacked, IssuedAs

\* Moving on to the next section prepares no answer.
LEMMA GotoBacked ==
  ASSUME TypeOK, TokenInv, NEW h \in Handler, NEW next \in PC, Goto(h, next),
         pc[h] # "respond", req' = req, issued \subseteq issued'
  PROVE  AnswersPrepared' /\ SubmitIsBacked' /\ UndoIsBacked'
  BY DEF TypeOK, TokenInv, Goto, AnswersPrepared, SubmitIsBacked, UndoIsBacked, IssuedAs

\* Maps that only shrink, with the history and the clock left alone, keep what
\* is known of their entries.
LEMMA ShrinkingMaps ==
  ASSUME TokenInv, confirmations' \subseteq confirmations, undos' \subseteq undos,
         issued' = issued, nextToken' = nextToken, redeemed' = redeemed, now' = now
  PROVE  /\ IssuesDistinct' /\ PendingConfirmationsIssued' /\ PendingUndosIssued'
         /\ RedeemedOnce' /\ OneConfirmationPerSession' /\ OneUndoPerSession'
  BY DEF TokenInv, IssuesDistinct, PendingConfirmationsIssued, PendingUndosIssued,
         RedeemedOnce, OneConfirmationPerSession, OneUndoPerSession, IssuedAs

\* Issuing the next token keeps the history consistent and old entries backed.
LEMMA IssueKeeps ==
  ASSUME TypeOK, TokenInv, NEW h \in Handler, NEW kind \in {"confirm", "undo"},
         req[h].session \in Session, Issue(h, kind), redeemed' = redeemed, now' = now
  PROVE  /\ IssuesDistinct' /\ RedeemedOnce' /\ issued \subseteq issued'
         /\ redeemed[nextToken] = 0
         /\ [kind |-> kind, session |-> req[h].session, command |-> req[h].command,
             token |-> nextToken, at |-> now] \in issued'
<1>1. nextToken' = nextToken + 1 /\ nextToken \in Token /\ nextToken \in Nat
  BY DEF Issue, Token
<1>2. RedeemedOnce' /\ redeemed[nextToken] = 0
  BY <1>1 DEF TokenInv, RedeemedOnce, Token
<1>3. IssuesDistinct'
  BY <1>1, ServiceAssumption DEF TypeOK, TokenInv, IssuesDistinct, Issue, Token
<1> QED
  BY <1>2, <1>3 DEF Issue

\* Redeeming a confirmation: the entries that stay carry other tokens.
LEMMA RedeemConfirmationKeeps ==
  ASSUME TypeOK, TokenInv, NEW e \in confirmations, Redeem({e.token}),
         confirmations' \subseteq confirmations, e \notin confirmations', undos' \subseteq undos,
         issued' = issued, nextToken' = nextToken, now' = now
  PROVE  /\ IssuesDistinct' /\ PendingConfirmationsIssued' /\ PendingUndosIssued'
         /\ RedeemedOnce' /\ OneConfirmationPerSession' /\ OneUndoPerSession'
<1>1. PICK i \in issued : i.kind = "confirm" /\ i.token = e.token /\ i.session = e.session
  BY DEF TokenInv, PendingConfirmationsIssued, IssuedAs
<1>2. \A x \in confirmations' \cup undos' : x.token # e.token
  <2>1. ASSUME NEW x \in confirmations', x.token = e.token PROVE FALSE
    <3>1. PICK j \in issued : j.token = x.token /\ j.session = x.session
      BY DEF TokenInv, PendingConfirmationsIssued, IssuedAs
    <3>2. x.session = e.session
      BY <1>1, <2>1, <3>1 DEF TokenInv, IssuesDistinct
    <3> QED
      BY <3>2 DEF TokenInv, OneConfirmationPerSession
  <2>2. ASSUME NEW x \in undos', x.token = e.token PROVE FALSE
    <3>1. PICK j \in issued : j.kind = "undo" /\ j.token = x.token
      BY DEF TokenInv, PendingUndosIssued, IssuedAs
    <3> QED
      BY <1>1, <2>2, <3>1 DEF TokenInv, IssuesDistinct
  <2> QED
    BY <2>1, <2>2
<1>3. redeemed[e.token] = 0 /\ e.token \in Token /\ e.token < nextToken
  BY <1>1 DEF TypeOK, TokenInv, PendingConfirmationsIssued, IssuesDistinct
<1>4. \A t \in Token : redeemed'[t] = IF t = e.token THEN redeemed[t] + 1 ELSE redeemed[t]
  BY DEF Redeem
<1>5. RedeemedOnce'
  BY <1>3, <1>4 DEF TypeOK, TokenInv, RedeemedOnce, Token
<1>6. PendingConfirmationsIssued' /\ PendingUndosIssued'
  BY <1>2, <1>4 DEF TypeOK, TokenInv, PendingConfirmationsIssued, PendingUndosIssued, IssuedAs
<1> QED
  BY <1>5, <1>6 DEF TokenInv, IssuesDistinct, OneConfirmationPerSession, OneUndoPerSession

\* Redeeming an undo likewise.
LEMMA RedeemUndoKeeps ==
  ASSUME TypeOK, TokenInv, NEW u \in undos, Redeem({u.token}),
         undos' \subseteq undos, u \notin undos', confirmations' = confirmations,
         issued' = issued, nextToken' = nextToken, now' = now
  PROVE  /\ IssuesDistinct' /\ PendingConfirmationsIssued' /\ PendingUndosIssued'
         /\ RedeemedOnce' /\ OneConfirmationPerSession' /\ OneUndoPerSession'
<1>1. PICK i \in issued : i.kind = "undo" /\ i.token = u.token /\ i.session = u.session
  BY DEF TokenInv, PendingUndosIssued, IssuedAs
<1>2. \A x \in confirmations' \cup undos' : x.token # u.token
  <2>1. ASSUME NEW x \in undos', x.token = u.token PROVE FALSE
    <3>1. PICK j \in issued : j.token = x.token /\ j.session = x.session
      BY DEF TokenInv, PendingUndosIssued, IssuedAs
    <3>2. x.session = u.session
      BY <1>1, <2>1, <3>1 DEF TokenInv, IssuesDistinct
    <3> QED
      BY <3>2 DEF TokenInv, OneUndoPerSession
  <2>2. ASSUME NEW x \in confirmations', x.token = u.token PROVE FALSE
    <3>1. PICK j \in issued : j.kind = "confirm" /\ j.token = x.token
      BY DEF TokenInv, PendingConfirmationsIssued, IssuedAs
    <3> QED
      BY <1>1, <2>2, <3>1 DEF TokenInv, IssuesDistinct
  <2> QED
    BY <2>1, <2>2
<1>3. redeemed[u.token] = 0 /\ u.token \in Token /\ u.token < nextToken
  BY <1>1 DEF TypeOK, TokenInv, PendingUndosIssued, IssuesDistinct
<1>4. \A t \in Token : redeemed'[t] = IF t = u.token THEN redeemed[t] + 1 ELSE redeemed[t]
  BY DEF Redeem
<1>5. RedeemedOnce'
  BY <1>3, <1>4 DEF TypeOK, TokenInv, RedeemedOnce, Token
<1>6. PendingConfirmationsIssued' /\ PendingUndosIssued'
  BY <1>2, <1>4 DEF TypeOK, TokenInv, PendingConfirmationsIssued, PendingUndosIssued, IssuedAs
<1> QED
  BY <1>5, <1>6 DEF TokenInv, IssuesDistinct, OneConfirmationPerSession, OneUndoPerSession

\* Every step keeps the token invariant.
LEMMA NextToken == TypeInv /\ TokenInv /\ [Next]_vars => TokenInv'
<1> SUFFICES ASSUME TypeOK, SessionKnown, TokenInv, [Next]_vars PROVE TokenInv'
  BY DEF TypeInv
<1> DEFINE MapsOK == /\ IssuesDistinct /\ PendingConfirmationsIssued /\ PendingUndosIssued
                     /\ RedeemedOnce /\ OneConfirmationPerSession /\ OneUndoPerSession
           AnswersOK == AnswersPrepared /\ SubmitIsBacked /\ UndoIsBacked
<1>0. MapsOK' /\ AnswersOK' => TokenInv'
  BY DEF TokenInv
<1> USE DEF mapVars, handlerVars, historyVars
<1>1. ASSUME NEW c \in Callers, NEW h \in Handler, NEW op \in Operations, NEW cmd \in Command,
             NEW tok \in Token \cup {0}, NEW ft \in FailureToken, Send(c, h, op, cmd, tok, ft)
      PROVE TokenInv'
  <2>1. MapsOK'
    BY <1>1, ShrinkingMaps DEF Send
  <2>2. AnswersOK'
    BY <1>1 DEF Send, TypeOK, TokenInv, AnswersPrepared, SubmitIsBacked, UndoIsBacked, IssuedAs
  <2> QED
    BY <1>0, <2>1, <2>2
<1>2. ASSUME NEW c \in Callers, GiveUp(c) PROVE TokenInv'
  BY <1>2 DEF GiveUp, TokenInv, IssuesDistinct, PendingConfirmationsIssued, PendingUndosIssued,
     RedeemedOnce, OneConfirmationPerSession, OneUndoPerSession, AnswersPrepared,
     SubmitIsBacked, UndoIsBacked, IssuedAs
<1>3. ASSUME NEW h \in Handler, Respond(h) PROVE TokenInv'
  <2>1. MapsOK'
    BY <1>3, ShrinkingMaps DEF Respond
  <2>2. AnswersOK'
    BY <1>3 DEF Respond, IdleResponse, TypeOK, TokenInv, AnswersPrepared, SubmitIsBacked,
       UndoIsBacked, IssuedAs
  <2> QED
    BY <1>0, <2>1, <2>2
<1>4. CASE Tick
  <2>1. now' = now + 1 /\ now \in Nat
    BY <1>4 DEF Tick, TypeOK
  <2>2. IssuesDistinct'
    BY <1>4, <2>1 DEF Tick, TypeOK, TokenInv, IssuesDistinct, Token
  <2> QED
    BY <1>4, <2>2 DEF Tick, TokenInv, PendingConfirmationsIssued, PendingUndosIssued,
       RedeemedOnce, OneConfirmationPerSession, OneUndoPerSession, AnswersPrepared,
       SubmitIsBacked, UndoIsBacked, IssuedAs
<1>5. CASE Restart
  <2>1. MapsOK'
    BY <1>5, ShrinkingMaps DEF Restart
  <2>2. AnswersOK'
    BY <1>5 DEF Restart, IdleResponse, AnswersPrepared, SubmitIsBacked, UndoIsBacked
  <2> QED
    BY <1>0, <2>1, <2>2
<1>6. ASSUME NEW h \in Handler, Status(h) PROVE TokenInv'
  <2>1. MapsOK'
    BY <1>6, ShrinkingMaps DEF Status
  <2>2. Answer(req[h], "ready") \in Response /\ Answer(req[h], "ready").action = "ready"
    BY PlainAnswerType DEF Action, Answer
  <2>3. AnswersOK'
    BY <1>6, <2>2, PlainAnswerBacked DEF Status
  <2> QED
    BY <1>0, <2>1, <2>3
<1>7. ASSUME NEW h \in Handler, BeginCommand(h) PROVE TokenInv'
  <2>1. MapsOK'
    BY <1>7, ShrinkingMaps DEF BeginCommand, clearPendingUndo
  <2>2. AnswersOK'
    BY <1>7, GotoBacked DEF BeginCommand, PC
  <2> QED
    BY <1>0, <2>1, <2>2
<1>8. ASSUME NEW h \in Handler, DecideSubmit(h) PROVE TokenInv'
  <2>1. PICK e \in confirmations :
          /\ e.session = req[h].session /\ e.command = req[h].command /\ now < e.expires
          /\ Prepare(h, BackedAnswer(req[h], "submit", e.token))
          /\ Redeem({e.token})
    BY <1>8 DEF DecideSubmit, Confirmed, OfSession
  <2>2. e \notin confirmations'
    BY <1>8, <2>1 DEF DecideSubmit, consumeConfirmation, OfSession
  <2>3. MapsOK'
    BY <1>8, <2>1, <2>2, RedeemConfirmationKeeps DEF DecideSubmit, consumeConfirmation
  <2>4. PICK i \in IssuedAs("confirm", e.token, req[h].session, req[h].command) :
          e.expires = i.at + ConfirmTTL /\ i.at <= now
    BY <2>1 DEF TokenInv, PendingConfirmationsIssued, IssuesDistinct, IssuedAs
  <2>5. AnswersOK'
    BY <1>8, <2>1, <2>4 DEF DecideSubmit, Prepare, BackedAnswer, TypeOK, TokenInv,
       AnswersPrepared, SubmitIsBacked, UndoIsBacked, IssuedAs
  <2> QED
    BY <1>0, <2>3, <2>5
<1>9. ASSUME NEW h \in Handler, DecideInterrupt(h) PROVE TokenInv'
  <2>1. MapsOK'
    BY <1>9, ShrinkingMaps DEF DecideInterrupt, consumeConfirmation
  <2>2. AnswersOK'
    BY <1>9, GotoBacked DEF DecideInterrupt, PC
  <2> QED
    BY <1>0, <2>1, <2>2
<1>10. ASSUME NEW h \in Handler, Decide(h) PROVE TokenInv'
  <2>1. MapsOK'
    BY <1>10, ShrinkingMaps DEF Decide
  <2>2. Decision(h).action \in {"none", "hint", "rewrite", "interrupt", "confirm"}
    BY PreSendAction, ServiceAssumption DEF Decision, Request, TypeOK
  <2>3. CASE Undoable(h)
    BY <1>0, <1>10, <2>1, <2>3, GotoBacked DEF Decide, PC
  <2>4. CASE ~Undoable(h)
    <3>1. Decision(h).action \in Action \ {"submit", "edit-in-buffer"}
      BY <1>10, <2>2 DEF Decide, Action
    <3>2. /\ Answer(req[h], Decision(h).action) \in Response
          /\ Answer(req[h], Decision(h).action).action = Decision(h).action
      BY <3>1, PlainAnswerType DEF Answer
    <3>3. AnswersOK'
      BY <1>10, <2>4, <3>1, <3>2, PlainAnswerBacked DEF Decide
    <3> QED
      BY <1>0, <2>1, <3>3
  <2> QED
    BY <2>3, <2>4
<1>11. ASSUME NEW h \in Handler, Fail(h) PROVE TokenInv'
  <2>1. MapsOK'
    BY <1>11, ShrinkingMaps DEF Fail
  <2>2. Answer(req[h], "error") \in Response /\ Answer(req[h], "error").action = "error"
    BY PlainAnswerType DEF Action, Answer
  <2>3. AnswersOK'
    BY <1>11, <2>2, PlainAnswerBacked DEF Fail
  <2> QED
    BY <1>0, <2>1, <2>3
<1>12. ASSUME NEW h \in Handler, storeConfirmation(h) PROVE TokenInv'
  <2> DEFINE e == [session |-> req[h].session, command |-> req[h].command,
                   token |-> nextToken, expires |-> now + ConfirmTTL]
             i == [kind |-> "confirm", session |-> req[h].session,
                   command |-> req[h].command, token |-> nextToken, at |-> now]
  <2>1. req[h].session \in Session
    BY <1>12 DEF storeConfirmation, SessionKnown
  <2>2. IssuesDistinct' /\ RedeemedOnce' /\ issued \subseteq issued' /\ i \in issued'
          /\ redeemed[nextToken] = 0 /\ nextToken \in Token
    BY <1>12, <2>1, IssueKeeps, IssueType DEF storeConfirmation
  <2>3. confirmations' = (confirmations \ OfSession(confirmations, req[h].session)) \cup {e}
          /\ undos' = undos /\ redeemed' = redeemed
    BY <1>12 DEF storeConfirmation
  <2>4. PendingConfirmationsIssued' /\ PendingUndosIssued'
    BY <2>2, <2>3 DEF TokenInv, PendingConfirmationsIssued, PendingUndosIssued, IssuedAs
  <2>5. OneConfirmationPerSession' /\ OneUndoPerSession'
    BY <2>3 DEF TokenInv, OneConfirmationPerSession, OneUndoPerSession, OfSession
  <2>6. [Answer(req[h], "interrupt") EXCEPT !.token = nextToken] \in Response
          /\ [Answer(req[h], "interrupt") EXCEPT !.token = nextToken].action = "interrupt"
    BY <2>2, AnswerType DEF Action, Answer
  <2>7. AnswersOK'
    BY <1>12, <2>2, <2>6, PlainAnswerBacked DEF storeConfirmation
  <2> QED
    BY <1>0, <2>2, <2>4, <2>5, <2>7
<1>13. ASSUME NEW h \in Handler, issueUndoToken(h) PROVE TokenInv'
  <2> DEFINE u == [session |-> req[h].session, command |-> req[h].command,
                   token |-> nextToken, expires |-> now + UndoTTL]
             i == [kind |-> "undo", session |-> req[h].session,
                   command |-> req[h].command, token |-> nextToken, at |-> now]
  <2>1. req[h].session \in Session
    BY <1>13 DEF issueUndoToken, SessionKnown
  <2>2. IssuesDistinct' /\ RedeemedOnce' /\ issued \subseteq issued' /\ i \in issued'
          /\ redeemed[nextToken] = 0 /\ nextToken \in Token
    BY <1>13, <2>1, IssueKeeps, IssueType DEF issueUndoToken
  <2>3. undos' = (removeExpiredUndos \ OfSession(undos, req[h].session)) \cup {u}
          /\ confirmations' = confirmations /\ redeemed' = redeemed
    BY <1>13 DEF issueUndoToken, storeUndoToken
  <2>4. PendingConfirmationsIssued' /\ PendingUndosIssued'
    BY <2>2, <2>3 DEF TokenInv, PendingConfirmationsIssued, PendingUndosIssued, IssuedAs,
       removeExpiredUndos
  <2>5. OneConfirmationPerSession' /\ OneUndoPerSession'
    BY <2>3 DEF TokenInv, OneConfirmationPerSession, OneUndoPerSession, OfSession,
       removeExpiredUndos
  <2>6. [Answer(req[h], "rewrite") EXCEPT !.token = nextToken] \in Response
          /\ [Answer(req[h], "rewrite") EXCEPT !.token = nextToken].action = "rewrite"
    BY <2>2, AnswerType DEF Action, Answer
  <2>7. AnswersOK'
    BY <1>13, <2>2, <2>6, PlainAnswerBacked DEF issueUndoToken
  <2> QED
    BY <1>0, <2>2, <2>4, <2>5, <2>7
<1>14. ASSUME NEW h \in Handler, issueUndoTokenFails(h) PROVE TokenInv'
  <2>1. MapsOK'
    BY <1>14, ShrinkingMaps DEF issueUndoTokenFails
  <2>2. Answer(req[h], "rewrite") \in Response /\ Answer(req[h], "rewrite").action = "rewrite"
    BY PlainAnswerType DEF Action, Answer
  <2>3. AnswersOK'
    BY <1>14, <2>2, PlainAnswerBacked DEF issueUndoTokenFails
  <2> QED
    BY <1>0, <2>1, <2>3
<1>15. ASSUME NEW h \in Handler, Confirm(h) PROVE TokenInv'
  <2> DEFINE r == req[h]
             hit == IF r.token = 0 THEN {} ELSE ConfirmedByToken(r.session, r.command, r.token)
  <2>1. CASE hit = {}
    <3>1. redeemed' = redeemed
      BY <1>15, <2>1 DEF Confirm, Redeem, TypeOK
    <3>2. MapsOK'
      BY <1>15, <3>1, ShrinkingMaps DEF Confirm
    <3>3. Answer(req[h], "none") \in Response /\ Answer(req[h], "none").action = "none"
      BY PlainAnswerType DEF Action, Answer
    <3>4. AnswersOK'
      BY <1>15, <2>1, <3>3, PlainAnswerBacked DEF Confirm
    <3> QED
      BY <1>0, <3>2, <3>4
  <2>2. CASE hit # {}
    <3>1. PICK e \in hit : TRUE
      BY <2>2
    <3>2. e \in confirmations /\ e.session = r.session /\ e.command = r.command
            /\ e.token = r.token /\ now < e.expires
      BY <3>1, <2>2 DEF ConfirmedByToken, Confirmed, OfSession
    <3>3. hit = {e}
      BY <2>2, <3>1, <3>2 DEF ConfirmedByToken, Confirmed, OfSession, TokenInv,
         OneConfirmationPerSession
    <3>4. Redeem({e.token}) /\ e \notin confirmations'
            /\ Prepare(h, BackedAnswer(r, "submit", e.token))
      <4>1. {x.token : x \in hit} = {e.token}
        BY <3>3
      <4> HIDE DEF hit
      <4>2. Redeem({x.token : x \in hit}) /\ confirmations' \subseteq confirmations \ hit
              /\ Prepare(h, IF hit = {} THEN Answer(r, "none")
                            ELSE BackedAnswer(r, "submit", r.token))
        BY <1>15 DEF Confirm, hit
      <4> QED
        BY <2>2, <3>1, <3>2, <4>1, <4>2
    <3>5. MapsOK'
      BY <1>15, <3>2, <3>4, RedeemConfirmationKeeps DEF Confirm
    <3>6. PICK i \in IssuedAs("confirm", e.token, r.session, r.command) :
            e.expires = i.at + ConfirmTTL /\ i.at <= now
      BY <3>2 DEF TokenInv, PendingConfirmationsIssued, IssuesDistinct, IssuedAs
    <3>7. req' = req /\ issued' = issued
      BY <1>15 DEF Confirm
    <3> HIDE DEF hit
    <3>8. AnswersOK'
      BY <3>2, <3>4, <3>6, <3>7 DEF Prepare, BackedAnswer, TypeOK, TokenInv,
         AnswersPrepared, SubmitIsBacked, UndoIsBacked, IssuedAs
    <3> QED
      BY <1>0, <3>5, <3>8
  <2> QED
    BY <2>1, <2>2
<1>16. ASSUME NEW h \in Handler, Undo(h) PROVE TokenInv'
  <2>1. PICK u \in undos :
          /\ u.session = req[h].session /\ now < u.expires
          /\ undos' = consumeUndoToken(u)
          /\ Redeem({u.token})
          /\ Prepare(h, [BackedAnswer(req[h], "edit-in-buffer", u.token)
                           EXCEPT !.command = u.command])
    BY <1>16 DEF Undo, liveUndo, OfSession
  <2>2. undos' \subseteq undos /\ u \notin undos'
    BY <2>1 DEF consumeUndoToken, removeExpiredUndos
  <2>3. MapsOK'
    BY <1>16, <2>1, <2>2, RedeemUndoKeeps DEF Undo
  <2>4. PICK i \in IssuedAs("undo", u.token, req[h].session, u.command) :
          u.expires = i.at + UndoTTL /\ i.at <= now
    BY <2>1 DEF TokenInv, PendingUndosIssued, IssuesDistinct, IssuedAs
  <2>5. AnswersOK'
    BY <1>16, <2>1, <2>4 DEF Undo, Prepare, BackedAnswer, TypeOK, TokenInv,
       AnswersPrepared, SubmitIsBacked, UndoIsBacked, IssuedAs
  <2> QED
    BY <1>0, <2>3, <2>5
<1>17. ASSUME NEW h \in Handler, UndoNothing(h) PROVE TokenInv'
  <2>1. MapsOK'
    BY <1>17, ShrinkingMaps DEF UndoNothing, removeExpiredUndos
  <2>2. Answer(req[h], "none") \in Response /\ Answer(req[h], "none").action = "none"
    BY PlainAnswerType DEF Action, Answer
  <2>3. AnswersOK'
    BY <1>17, <2>2, PlainAnswerBacked DEF UndoNothing
  <2> QED
    BY <1>0, <2>1, <2>3
<1>18. ASSUME NEW h \in Handler, rememberFailure(h) PROVE TokenInv'
  <2>1. MapsOK'
    BY <1>18, ShrinkingMaps DEF rememberFailure
  <2>2. PICK action \in {"none", "hint", "error"} : Prepare(h, Answer(req[h], action))
    BY <1>18, PostFailureAction, ServiceAssumption
       DEF rememberFailure, PostFailureAnswer, Request, TypeOK
  <2>3. Answer(req[h], action) \in Response /\ Answer(req[h], action).action = action
    BY PlainAnswerType DEF Action, Answer
  <2>4. AnswersOK'
    BY <1>18, <2>2, <2>3, PlainAnswerBacked DEF rememberFailure
  <2> QED
    BY <1>0, <2>1, <2>4
<1>19. ASSUME NEW h \in Handler, recordSuccess(h) PROVE TokenInv'
  <2>1. MapsOK'
    BY <1>19, ShrinkingMaps DEF recordSuccess
  <2>2. Answer(req[h], "none") \in Response /\ Answer(req[h], "none").action = "none"
    BY PlainAnswerType DEF Action, Answer
  <2>3. CASE Goto(h, "record")
    BY <1>0, <1>19, <2>1, <2>3, GotoBacked DEF recordSuccess, PC
  <2>4. CASE Prepare(h, Answer(req[h], "none"))
    BY <1>0, <1>19, <2>1, <2>2, <2>4, PlainAnswerBacked DEF recordSuccess
  <2> QED
    BY <1>19, <2>3, <2>4 DEF recordSuccess
<1>20. ASSUME NEW h \in Handler, RecordLearningPair(h) PROVE TokenInv'
  <2>1. MapsOK'
    BY <1>20, ShrinkingMaps DEF RecordLearningPair
  <2>2. Answer(req[h], "none") \in Response /\ Answer(req[h], "none").action = "none"
    BY PlainAnswerType DEF Action, Answer
  <2>3. AnswersOK'
    BY <1>20, <2>2, PlainAnswerBacked DEF RecordLearningPair
  <2> QED
    BY <1>0, <2>1, <2>3
<1>21. CASE UNCHANGED vars
  BY <1>21 DEF vars, TokenInv, IssuesDistinct, PendingConfirmationsIssued, PendingUndosIssued,
     RedeemedOnce, OneConfirmationPerSession, OneUndoPerSession, AnswersPrepared,
     SubmitIsBacked, UndoIsBacked, IssuedAs
<1> QED
  BY <1>1, <1>2, <1>3, <1>4, <1>5, <1>6, <1>7, <1>8, <1>9, <1>10, <1>11, <1>12, <1>13,
     <1>14, <1>15, <1>16, <1>17, <1>18, <1>19, <1>20, <1>21 DEF Next, Handle

\* The token invariant holds in every reachable state.
LEMMA TokenInvariant == Spec => [](TypeInv /\ TokenInv)
<1>1. Init => TypeInv /\ TokenInv
  <2>1. Init => TypeInv
    BY InitType DEF Init, TypeInv, SessionKnown
  <2>2. Init => TokenInv
    BY DEF Init, TokenInv, IssuesDistinct, PendingConfirmationsIssued, PendingUndosIssued,
       RedeemedOnce, OneConfirmationPerSession, OneUndoPerSession, AnswersPrepared,
       SubmitIsBacked, UndoIsBacked, IdleResponse, Token
  <2> QED
    BY <2>1, <2>2
<1>2. (TypeInv /\ TokenInv) /\ [Next]_vars => (TypeInv /\ TokenInv)'
  BY NextType, NextToken
<1> QED
  BY <1>1, <1>2, PTL DEF Spec

\* No confirmation or undo token ever takes effect twice, whatever the number
\* of sessions, of concurrent handlers and of abandoned requests.
THEOREM TokensOnce == Spec => []TokensTakeEffectOnce
<1>1. TokenInv => TokensTakeEffectOnce
  BY DEF TokenInv, RedeemedOnce, TokensTakeEffectOnce
<1> QED
  BY <1>1, TokenInvariant, PTL

\* Every "submit" goes back to an interrupt of the same session for the same
\* command, less than ConfirmTTL old.
THEOREM SubmitBacked == Spec => []SubmitIsBacked
<1>1. TokenInv => SubmitIsBacked
  BY DEF TokenInv
<1> QED
  BY <1>1, TokenInvariant, PTL

\* Every undo restores what its own session typed, within the undo lifetime.
THEOREM UndoBacked == Spec => []UndoIsBacked
<1>1. TokenInv => UndoIsBacked
  BY DEF TokenInv
<1> QED
  BY <1>1, TokenInvariant, PTL

\* A session never has two rewrites that can be undone.
THEOREM SingleUndo == Spec => []OneUndoPerSession
<1>1. TokenInv => OneUndoPerSession
  BY DEF TokenInv
<1> QED
  BY <1>1, TokenInvariant, PTL

-----------------------------------------------------------------------------
\* A step in which undo entries and retired tokens only go away, no token is
\* delivered, and the answers that change carry no undo token.
LEMMA RetireQuiet ==
  ASSUME RetireInv, undos' \subseteq undos, delivered' = delivered, retired' = retired,
         nextToken' = nextToken,
         \A k \in Handler : resp'[k] = resp[k] \/ resp'[k].action # "rewrite"
                            \/ resp'[k].token < nextToken
  PROVE  RetireInv'
  BY DEF RetireInv, RetiredUndosAreGone, DeliveredIssued

\* Storing the next token leaves every token handed out so far below the new
\* counter.
LEMMA IssueDelivered ==
  ASSUME TypeOK, RetireInv, nextToken' = nextToken + 1,
         delivered' = delivered, retired' = retired,
         \A k \in Handler : resp'[k] = resp[k] \/ resp'[k].token = nextToken
  PROVE  DeliveredIssued'
<1>1. nextToken \in Nat
  BY ServiceAssumption DEF TypeOK
<1>2. \A t \in Nat : t < nextToken => t < nextToken'
  BY <1>1
<1>3. delivered \cup retired \subseteq Nat /\ \A k \in Handler : resp[k].token \in Nat
  BY DEF TypeOK, Response, Token
<1>4. \A t \in delivered' \cup retired' : t < nextToken'
  BY <1>2, <1>3 DEF RetireInv, DeliveredIssued
<1>5. nextToken < nextToken'
  BY <1>1
<1>6. \A k \in Handler : resp[k].action = "rewrite" => resp[k].token < nextToken'
  BY <1>2, <1>3 DEF RetireInv, DeliveredIssued
<1>7. ASSUME NEW k \in Handler, resp'[k].action = "rewrite" PROVE resp'[k].token < nextToken'
  BY <1>5, <1>6, <1>7
<1> QED
  BY <1>4, <1>7 DEF RetireInv, DeliveredIssued

\* Every step keeps retired undo tokens out of the map.
LEMMA NextRetire == TypeInv /\ TokenInv /\ RetireInv /\ [Next]_vars => RetireInv'
<1> SUFFICES ASSUME TypeOK, SessionKnown, TokenInv, RetireInv, [Next]_vars PROVE RetireInv'
  BY DEF TypeInv
<1> USE DEF mapVars, handlerVars, historyVars
<1>0. nextToken \in Nat /\ nextToken > 0
  BY ServiceAssumption DEF TypeOK
<1>1. ASSUME NEW c \in Callers, NEW h \in Handler, NEW op \in Operations, NEW cmd \in Command,
             NEW tok \in Token \cup {0}, NEW ft \in FailureToken, Send(c, h, op, cmd, tok, ft)
      PROVE RetireInv'
  BY <1>1, RetireQuiet DEF Send
<1>2. ASSUME NEW c \in Callers, GiveUp(c) PROVE RetireInv'
  BY <1>2, RetireQuiet DEF GiveUp
<1>3. ASSUME NEW h \in Handler, Respond(h) PROVE RetireInv'
  BY <1>3 DEF Respond, IdleResponse, TypeOK, RetireInv, RetiredUndosAreGone, DeliveredIssued
<1>4. CASE Tick
  BY <1>4, RetireQuiet DEF Tick
<1>5. CASE Restart
  BY <1>5 DEF Restart, IdleResponse, RetireInv, RetiredUndosAreGone, DeliveredIssued
<1>6. ASSUME NEW h \in Handler, Status(h) PROVE RetireInv'
  BY <1>0, <1>6, RetireQuiet DEF Status, Prepare, Answer, TypeOK
<1>7. ASSUME NEW h \in Handler, BeginCommand(h) PROVE RetireInv'
  <2>1. ASSUME NEW u \in undos', u.token \in retired' PROVE FALSE
    <3>1. u \in undos /\ u.session # req[h].session
      BY <1>7 DEF BeginCommand, clearPendingUndo, OfSession
    <3>2. u.token \notin retired
      BY <3>1 DEF RetireInv, RetiredUndosAreGone
    <3>3. PICK j \in issued : j.session = req[h].session /\ j.token = u.token
      BY <1>7, <2>1, <3>2 DEF BeginCommand, OfSession
    <3>4. PICK i \in issued : i.session = u.session /\ i.token = u.token
      BY <3>1 DEF TokenInv, PendingUndosIssued, IssuedAs
    <3> QED
      BY <3>1, <3>3, <3>4 DEF TokenInv, IssuesDistinct
  <2>2. DeliveredIssued'
    BY <1>7 DEF BeginCommand, Goto, OfSession, RetireInv, DeliveredIssued
  <2> QED
    BY <2>1, <2>2 DEF RetireInv, RetiredUndosAreGone
<1>8. ASSUME NEW h \in Handler, DecideSubmit(h) PROVE RetireInv'
  BY <1>0, <1>8, RetireQuiet DEF DecideSubmit, Prepare, BackedAnswer, TypeOK
<1>9. ASSUME NEW h \in Handler, DecideInterrupt(h) PROVE RetireInv'
  BY <1>9, RetireQuiet DEF DecideInterrupt, Goto
<1>10. ASSUME NEW h \in Handler, Decide(h) PROVE RetireInv'
  BY <1>0, <1>10, RetireQuiet DEF Decide, Goto, Prepare, Answer, TypeOK
<1>11. ASSUME NEW h \in Handler, Fail(h) PROVE RetireInv'
  BY <1>0, <1>11, RetireQuiet DEF Fail, Prepare, Answer, TypeOK
<1>12. ASSUME NEW h \in Handler, storeConfirmation(h) PROVE RetireInv'
  <2>1. DeliveredIssued'
    BY <1>12, IssueDelivered DEF storeConfirmation, Issue, Prepare, Answer, TypeOK
  <2>2. RetiredUndosAreGone'
    BY <1>12 DEF storeConfirmation, RetireInv, RetiredUndosAreGone
  <2> QED
    BY <2>1, <2>2 DEF RetireInv
<1>13. ASSUME NEW h \in Handler, issueUndoToken(h) PROVE RetireInv'
  <2>1. \A u \in undos' : u \in undos \/ u.token = nextToken
    BY <1>13 DEF issueUndoToken, storeUndoToken, removeExpiredUndos
  <2>2. nextToken \notin retired
    BY <1>0 DEF RetireInv, DeliveredIssued
  <2>3. RetiredUndosAreGone'
    BY <1>13, <2>1, <2>2 DEF issueUndoToken, RetireInv, RetiredUndosAreGone
  <2>4. \A k \in Handler : resp'[k] = resp[k] \/ resp'[k].token = nextToken
    BY <1>13 DEF issueUndoToken, Prepare, Answer, TypeOK
  <2>5. DeliveredIssued'
    BY <1>13, <2>4, IssueDelivered DEF issueUndoToken, Issue
  <2> QED
    BY <2>3, <2>5 DEF RetireInv
<1>14. ASSUME NEW h \in Handler, issueUndoTokenFails(h) PROVE RetireInv'
  BY <1>0, <1>14, RetireQuiet DEF issueUndoTokenFails, Prepare, Answer, TypeOK
<1>15. ASSUME NEW h \in Handler, Confirm(h) PROVE RetireInv'
  BY <1>0, <1>15, RetireQuiet DEF Confirm, Prepare, Answer, BackedAnswer, TypeOK
<1>16. ASSUME NEW h \in Handler, Undo(h) PROVE RetireInv'
  BY <1>0, <1>16, RetireQuiet DEF Undo, Prepare, BackedAnswer, consumeUndoToken,
     removeExpiredUndos, TypeOK
<1>17. ASSUME NEW h \in Handler, UndoNothing(h) PROVE RetireInv'
  BY <1>0, <1>17, RetireQuiet DEF UndoNothing, Prepare, Answer, removeExpiredUndos, TypeOK
<1>18. ASSUME NEW h \in Handler, rememberFailure(h) PROVE RetireInv'
  BY <1>0, <1>18, RetireQuiet DEF rememberFailure, PostFailureAnswer, Prepare, Answer, TypeOK
<1>19. ASSUME NEW h \in Handler, recordSuccess(h) PROVE RetireInv'
  BY <1>0, <1>19, RetireQuiet DEF recordSuccess, Goto, Prepare, Answer, TypeOK
<1>20. ASSUME NEW h \in Handler, RecordLearningPair(h) PROVE RetireInv'
  BY <1>0, <1>20, RetireQuiet DEF RecordLearningPair, Prepare, Answer, TypeOK
<1>21. CASE UNCHANGED vars
  BY <1>21, RetireQuiet DEF vars
<1> QED
  BY <1>1, <1>2, <1>3, <1>4, <1>5, <1>6, <1>7, <1>8, <1>9, <1>10, <1>11, <1>12, <1>13,
     <1>14, <1>15, <1>16, <1>17, <1>18, <1>19, <1>20, <1>21 DEF Next, Handle

\* Once a session has moved on to its next command, the rewrite it had been
\* told of can no longer be undone.
THEOREM RetiredGone == Spec => []RetiredUndosAreGone
<1>1. Init => RetireInv
  BY DEF Init, RetireInv, RetiredUndosAreGone, DeliveredIssued, IdleResponse
<1>2. TypeInv /\ TokenInv /\ RetireInv /\ [Next]_vars => RetireInv'
  BY NextRetire
<1>3. RetireInv => RetiredUndosAreGone
  BY DEF RetireInv
<1> QED
  BY <1>1, <1>2, <1>3, TokenInvariant, PTL DEF Spec

-----------------------------------------------------------------------------
\* A step that takes, remembers and pairs no failure.
LEMMA FailureQuiet ==
  ASSUME FailureInv, failures' \subseteq failures, taken' = taken, remembered' = remembered,
         nextFailure' = nextFailure, paired' = paired,
         \A k \in Handler : /\ pc'[k] = "record" <=> pc[k] = "record"
                            /\ pc[k] = "record" => req'[k] = req[k]
  PROVE  FailureInv'
  BY DEF FailureInv, FailuresDistinct, TakenOnce, Unpaired, OnePairPerFailure,
     PairsMatchTheirFailure

\* Every step keeps the failure invariant.
LEMMA NextFailures == TypeInv /\ FailureInv /\ [Next]_vars => FailureInv'
<1> SUFFICES ASSUME TypeOK, SessionKnown, FailureInv, [Next]_vars PROVE FailureInv'
  BY DEF TypeInv
<1> USE DEF mapVars, handlerVars, historyVars
<1>1. ASSUME NEW c \in Callers, NEW h \in Handler, NEW op \in Operations, NEW cmd \in Command,
             NEW tok \in Token \cup {0}, NEW ft \in FailureToken, Send(c, h, op, cmd, tok, ft)
      PROVE FailureInv'
  BY <1>1, FailureQuiet DEF Send, TypeOK
<1>2. ASSUME NEW c \in Callers, GiveUp(c) PROVE FailureInv'
  BY <1>2, FailureQuiet DEF GiveUp
<1>3. ASSUME NEW h \in Handler, Respond(h) PROVE FailureInv'
  BY <1>3, FailureQuiet DEF Respond, TypeOK
<1>4. CASE Tick
  BY <1>4, FailureQuiet DEF Tick
<1>5. CASE Restart
  BY <1>5 DEF Restart, FailureInv, FailuresDistinct, TakenOnce, Unpaired, OnePairPerFailure,
     PairsMatchTheirFailure
<1>6. ASSUME NEW h \in Handler, Status(h) PROVE FailureInv'
  BY <1>6, FailureQuiet DEF Status, Prepare, TypeOK
<1>7. ASSUME NEW h \in Handler, BeginCommand(h) PROVE FailureInv'
  <2>1. PICK next \in {"decide", "remember", "take"} : Goto(h, next)
    BY <1>7 DEF BeginCommand
  <2> QED
    BY <1>7, <2>1, FailureQuiet DEF BeginCommand, Goto, TypeOK
<1>8. ASSUME NEW h \in Handler, DecideSubmit(h) PROVE FailureInv'
  BY <1>8, FailureQuiet DEF DecideSubmit, Prepare, TypeOK
<1>9. ASSUME NEW h \in Handler, DecideInterrupt(h) PROVE FailureInv'
  BY <1>9, FailureQuiet DEF DecideInterrupt, Goto, TypeOK
<1>10. ASSUME NEW h \in Handler, Decide(h) PROVE FailureInv'
  BY <1>10, FailureQuiet DEF Decide, Goto, Prepare, TypeOK
<1>11. ASSUME NEW h \in Handler, Fail(h) PROVE FailureInv'
  BY <1>11, FailureQuiet DEF Fail, Prepare, TypeOK
<1>12. ASSUME NEW h \in Handler, storeConfirmation(h) PROVE FailureInv'
  BY <1>12, FailureQuiet DEF storeConfirmation, Prepare, TypeOK
<1>13. ASSUME NEW h \in Handler, issueUndoToken(h) PROVE FailureInv'
  BY <1>13, FailureQuiet DEF issueUndoToken, Prepare, TypeOK
<1>14. ASSUME NEW h \in Handler, issueUndoTokenFails(h) PROVE FailureInv'
  BY <1>14, FailureQuiet DEF issueUndoTokenFails, Prepare, TypeOK
<1>15. ASSUME NEW h \in Handler, Confirm(h) PROVE FailureInv'
  BY <1>15, FailureQuiet DEF Confirm, Prepare, TypeOK
<1>16. ASSUME NEW h \in Handler, Undo(h) PROVE FailureInv'
  BY <1>16, FailureQuiet DEF Undo, Prepare, TypeOK
<1>17. ASSUME NEW h \in Handler, UndoNothing(h) PROVE FailureInv'
  BY <1>17, FailureQuiet DEF UndoNothing, Prepare, TypeOK
<1>18. ASSUME NEW h \in Handler, rememberFailure(h) PROVE FailureInv'
  <2> DEFINE f == [id |-> nextFailure, session |-> req[h].session, token |-> req[h].ftoken,
                   command |-> Normal[req[h].command], created |-> now]
  <2>1. /\ \A k \in Handler : /\ pc'[k] = "record" <=> pc[k] = "record"
                              /\ pc[k] = "record" => req'[k] = req[k]
        /\ taken' = taken /\ paired' = paired /\ req' = req
    BY <1>18 DEF rememberFailure, PostFailureAnswer, Prepare, TypeOK
  <2>2. CASE UNCHANGED <<failures, remembered, nextFailure>>
    BY <2>1, <2>2, FailureQuiet
  <2>3. CASE /\ nextFailure \in FailureId /\ nextFailure' = nextFailure + 1
             /\ failures' = (removeExpiredFailures
                               \ FailuresAt(req[h].session, req[h].ftoken)) \cup {f}
             /\ remembered' = remembered \cup {f}
    <3>1. nextFailure \in Nat /\ f.id = nextFailure
      BY <2>3 DEF FailureId
    <3>2. failures' \subseteq failures \cup {f}
      BY <2>3 DEF removeExpiredFailures
    <3>3. f \notin remembered
      BY <3>1 DEF FailureInv, FailuresDistinct
    <3>4. \A n \in Nat : /\ n < nextFailure => n < nextFailure'
                         /\ n >= nextFailure' => n >= nextFailure
      BY <2>3, <3>1
    <3>5. \A g \in remembered : g.id \in Nat
      BY DEF TypeOK, FailureRecord, FailureId
    <3> HIDE DEF f
    <3>6. FailuresDistinct'
      <4>1. \A g \in remembered : g.id < nextFailure /\ g.id # nextFailure
        BY <3>1, <3>5 DEF FailureInv, FailuresDistinct
      <4>2. \A g \in remembered' : g.id < nextFailure'
        BY <2>3, <3>1, <3>4, <3>5, <4>1
      <4>3. \A g, e \in remembered' : g.id = e.id => g = e
        BY <2>3, <3>1, <4>1 DEF FailureInv, FailuresDistinct
      <4> QED
        BY <2>3, <3>2, <4>2, <4>3 DEF FailureInv, FailuresDistinct
    <3>7. TakenOnce'
      BY <2>1, <2>3, <3>2, <3>3 DEF FailureInv, TakenOnce
    <3>8. Unpaired'
      <4>1. paired[nextFailure] = 0
        BY <2>3, <3>1 DEF FailureInv, Unpaired
      <4>2. \A n \in FailureId : n >= nextFailure' => paired'[n] = 0
        BY <2>1, <3>4 DEF FailureInv, Unpaired, FailureId
      <4> QED
        BY <2>1, <3>1, <3>2, <4>1, <4>2 DEF FailureInv, Unpaired
    <3>9. OnePairPerFailure' /\ PairsMatchTheirFailure'
      BY <2>1, <2>3 DEF FailureInv, OnePairPerFailure, PairsMatchTheirFailure
    <3> QED
      BY <3>6, <3>7, <3>8, <3>9 DEF FailureInv
  <2> QED
    BY <1>18, <2>2, <2>3 DEF rememberFailure
<1>19. ASSUME NEW h \in Handler, recordSuccess(h) PROVE FailureInv'
  <2> DEFINE differs == {f \in FailuresAt(req[h].session, req[h].ftoken) \cap removeExpiredFailures :
                           f.command # Normal[req[h].command]}
  <2>0. /\ pc[h] = "take" /\ req' = req /\ remembered' = remembered
        /\ nextFailure' = nextFailure /\ paired' = paired
    BY <1>19 DEF recordSuccess
  <2>1. CASE Learns(req[h]) /\ differs # {}
    <3>1. /\ failures' = takeFailure(req[h].session, req[h].ftoken)
          /\ taken' = [taken EXCEPT ![h] = differs]
          /\ pc' = [pc EXCEPT ![h] = "record"]
      BY <1>19, <2>1 DEF recordSuccess, Goto
    <3>2. /\ differs \subseteq failures /\ failures' \subseteq failures
          /\ differs \cap failures' = {}
      BY <3>1 DEF takeFailure, FailuresAt, removeExpiredFailures
    <3>3. \A f \in differs : /\ f.session = req[h].session /\ f.token = req[h].ftoken
                             /\ f.command # Normal[req[h].command]
      BY DEF FailuresAt
    <3> HIDE DEF differs
    <3>4. \A k \in Handler : taken'[k] = IF k = h THEN differs ELSE taken[k]
      BY <3>1 DEF TypeOK
    <3>5. \A k \in Handler : pc'[k] = IF k = h THEN "record" ELSE pc[k]
      BY <3>1 DEF TypeOK
    <3>6. FailuresDistinct'
      BY <2>0, <3>2 DEF FailureInv, FailuresDistinct
    <3>7. TakenOnce'
      BY <2>0, <3>2, <3>4, <3>5 DEF FailureInv, TakenOnce, FailuresDistinct
    <3>8. Unpaired'
      BY <2>0, <3>2, <3>4 DEF FailureInv, Unpaired
    <3>9. OnePairPerFailure' /\ PairsMatchTheirFailure'
      BY <2>0, <3>2, <3>3, <3>4, <3>5 DEF FailureInv, OnePairPerFailure,
         PairsMatchTheirFailure, FailuresDistinct
    <3> QED
      BY <3>6, <3>7, <3>8, <3>9 DEF FailureInv
  <2>2. CASE ~(Learns(req[h]) /\ differs # {})
    <3>1. failures' \subseteq failures
      BY <1>19 DEF recordSuccess, takeFailure, removeExpiredFailures
    <3>2. taken' = taken
      <4>1. taken[h] = {}
        BY <2>0 DEF FailureInv, TakenOnce
      <4> QED
        BY <1>19, <2>2, <4>1 DEF recordSuccess, TypeOK
    <3>3. Prepare(h, Answer(req[h], "none"))
      BY <1>19, <2>2 DEF recordSuccess
    <3> QED
      BY <2>0, <3>1, <3>2, <3>3, FailureQuiet DEF Prepare, TypeOK
  <2> QED
    BY <2>1, <2>2
<1>20. ASSUME NEW h \in Handler, RecordLearningPair(h) PROVE FailureInv'
  <2>0. /\ pc[h] = "record" /\ req' = req /\ remembered' = remembered /\ failures' = failures
        /\ nextFailure' = nextFailure
        /\ \A k \in Handler : taken'[k] = IF k = h THEN {} ELSE taken[k]
        /\ \A k \in Handler : pc'[k] = IF k = h THEN "respond" ELSE pc[k]
    BY <1>20 DEF RecordLearningPair, Prepare, TypeOK
  <2>1. FailuresDistinct' /\ TakenOnce' /\ PairsMatchTheirFailure'
    BY <2>0 DEF FailureInv, FailuresDistinct, TakenOnce, PairsMatchTheirFailure
  <2>2. \A n \in FailureId : \/ paired'[n] = paired[n]
                             \/ \E t \in taken[h] : t.id = n /\ paired'[n] = paired[n] + 1
    BY <1>20 DEF RecordLearningPair
  <2>3. OnePairPerFailure'
    BY <2>2 DEF FailureInv, OnePairPerFailure, Unpaired, TypeOK
  <2>4. \A f \in remembered : f.id \in FailureId /\ f.id < nextFailure
    BY DEF TypeOK, FailureRecord, FailureInv, FailuresDistinct
  <2>5. ASSUME NEW f \in remembered, f \notin taken[h] PROVE paired'[f.id] = paired[f.id]
    BY <2>2, <2>4, <2>5 DEF FailureInv, FailuresDistinct, TakenOnce
  <2>6. \A f \in failures' : paired'[f.id] = 0
    BY <2>0, <2>5 DEF FailureInv, Unpaired, TakenOnce, FailuresDistinct
  <2>7. \A k \in Handler : \A f \in taken'[k] : paired'[f.id] = 0
    BY <2>0, <2>5 DEF FailureInv, Unpaired, TakenOnce
  <2>8. \A n \in FailureId : n >= nextFailure' => paired'[n] = 0
    <3>1. \A t \in taken[h] : t.id \in FailureId /\ t.id < nextFailure
      BY <2>4 DEF FailureInv, TakenOnce
    <3>2. ASSUME NEW n \in FailureId, n >= nextFailure PROVE \A t \in taken[h] : t.id # n
      BY <3>1, <3>2 DEF FailureId, TypeOK
    <3> QED
      BY <2>0, <2>2, <3>2 DEF FailureInv, Unpaired
  <2> QED
    BY <2>1, <2>3, <2>6, <2>7, <2>8 DEF FailureInv, Unpaired
<1>21. CASE UNCHANGED vars
  BY <1>21, FailureQuiet DEF vars
<1> QED
  BY <1>1, <1>2, <1>3, <1>4, <1>5, <1>6, <1>7, <1>8, <1>9, <1>10, <1>11, <1>12, <1>13,
     <1>14, <1>15, <1>16, <1>17, <1>18, <1>19, <1>20, <1>21 DEF Next, Handle

\* The failure invariant holds in every reachable state.
LEMMA FailureInvariant == Spec => [](TypeInv /\ FailureInv)
<1>1. Init => TypeInv /\ FailureInv
  <2>1. Init => TypeInv
    BY InitType DEF Init, TypeInv, SessionKnown
  <2>2. Init => FailureInv
    BY DEF Init, FailureInv, FailuresDistinct, TakenOnce, Unpaired, OnePairPerFailure,
       PairsMatchTheirFailure
  <2> QED
    BY <2>1, <2>2
<1>2. (TypeInv /\ FailureInv) /\ [Next]_vars => (TypeInv /\ FailureInv)'
  BY NextType, NextFailures
<1> QED
  BY <1>1, <1>2, PTL DEF Spec

\* A failed command produces at most one learning pair, however often its
\* success is reported and however the reports interleave.
THEOREM PairOnce == Spec => []OnePairPerFailure
<1>1. FailureInv => OnePairPerFailure
  BY DEF FailureInv
<1> QED
  BY <1>1, FailureInvariant, PTL

\* A pair joins a failure and a success of one session and one token, with
\* different commands.
THEOREM PairsMatch == Spec => []PairsMatchTheirFailure
<1>1. FailureInv => PairsMatchTheirFailure
  BY DEF FailureInv
<1> QED
  BY <1>1, FailureInvariant, PTL

\* No failure leaves the map as half of a pair after PairWindow has passed.
THEOREM StaleDropped == Spec => StaleFailuresAreDropped
<1> DEFINE Fresh == \A h \in Handler : \A f \in taken'[h] \ taken[h] :
                      now <= f.created + PairWindow
<1>1. TypeInv /\ [Next]_vars => [Fresh]_vars
  <2> SUFFICES ASSUME TypeOK, [Next]_vars PROVE Fresh \/ UNCHANGED vars
    BY DEF TypeInv
  <2> USE DEF mapVars, handlerVars, historyVars
  <2>1. CASE taken' = taken
    BY <2>1
  <2>2. CASE Restart
    BY <2>2 DEF Restart
  <2>3. ASSUME NEW h \in Handler, recordSuccess(h) PROVE Fresh
    BY <2>3 DEF recordSuccess, removeExpiredFailures, TypeOK
  <2>4. ASSUME NEW h \in Handler, RecordLearningPair(h) PROVE Fresh
    BY <2>4 DEF RecordLearningPair, TypeOK
  <2>5. CASE \E c \in Callers, h \in Handler, op \in Operations, cmd \in Command,
               tok \in Token \cup {0}, ft \in FailureToken : Send(c, h, op, cmd, tok, ft)
    BY <2>1, <2>5 DEF Send
  <2>6. ASSUME NEW h \in Handler, Handle(h), ~recordSuccess(h), ~RecordLearningPair(h)
        PROVE  taken' = taken
    BY <2>6 DEF Handle, Status, BeginCommand, DecideSubmit, DecideInterrupt, Decide, Fail,
       storeConfirmation, issueUndoToken, issueUndoTokenFails, Confirm, Undo, UndoNothing,
       rememberFailure, Respond
  <2>7. CASE Tick \/ \E c \in Callers : GiveUp(c)
    BY <2>1, <2>7 DEF Tick, GiveUp
  <2> QED
    BY <2>1, <2>2, <2>3, <2>4, <2>5, <2>6, <2>7 DEF Next
<1> QED
  BY <1>1, FailureInvariant, PTL DEF Spec, StaleFailuresAreDropped

-----------------------------------------------------------------------------
(***************************************************************************)
(* The two maps implement one ledger of tokens.  That a redeemed token is  *)
(* gone from both maps follows from the token invariant of the next state: *)
(* what is still pending has not been redeemed.                            *)
(***************************************************************************)

\* Entries are dropped, or nothing happens to the maps.
LEMMA LedgerDrops ==
  ASSUME confirmations' \subseteq confirmations, undos' \subseteq undos,
         nextToken' = nextToken, redeemed' = redeemed
  PROVE  Ledger!Next
<1>1. Promises' \subseteq Promises
  BY DEF Promises
<1>2. Spent' = Spent
  BY DEF Spent
<1> QED
  BY <1>1, <1>2 DEF Ledger!Next, Ledger!Drop

\* A pending entry is redeemed.
LEMMA LedgerRedeems ==
  ASSUME TypeOK, TokenInv', NEW e \in confirmations \cup undos, Redeem({e.token}),
         confirmations' \subseteq confirmations, undos' \subseteq undos,
         nextToken' = nextToken
  PROVE  Ledger!Next
<1>1. e.token \in Token
  BY DEF TypeOK
<1>2. PICK p \in Promises : p.token = e.token
  <2>1. e \in confirmations => [kind |-> "confirm", token |-> e.token, entry |-> e] \in Promises
    BY DEF Promises
  <2>2. e \in undos => [kind |-> "undo", token |-> e.token, entry |-> e] \in Promises
    BY DEF Promises
  <2> QED
    BY <2>1, <2>2
<1>3. \A t \in Token : redeemed'[t] = IF t = e.token THEN redeemed[t] + 1 ELSE redeemed[t]
  BY DEF Redeem
<1>4. Spent' = Spent \cup {p.token}
  BY <1>1, <1>2, <1>3 DEF Spent, TypeOK
<1>5. \A x \in confirmations' \cup undos' : x.token # e.token
  BY <1>1, <1>3 DEF TypeOK, TokenInv, PendingConfirmationsIssued, PendingUndosIssued
<1>6. Promises' \subseteq {q \in Promises : q.token # p.token}
  BY <1>2, <1>5 DEF Promises
<1> QED
  BY <1>4, <1>6 DEF Ledger!Next, Ledger!Redeem

\* A confirmation is stored under the next token.
LEMMA LedgerPromisesConfirmation ==
  ASSUME NEW e, e.token = nextToken, nextToken' = nextToken + 1, redeemed' = redeemed,
         e \in confirmations', confirmations' \ {e} \subseteq confirmations,
         undos' \subseteq undos
  PROVE  Ledger!Next
<1> DEFINE p == [kind |-> "confirm", token |-> e.token, entry |-> e]
<1>1. p \in Promises' /\ p.token = nextToken
  BY DEF Promises
<1>2. Promises' \ {p} \subseteq Promises
  BY DEF Promises
<1>3. Spent' = Spent
  BY DEF Spent
<1> HIDE DEF p
<1> QED
  BY <1>1, <1>2, <1>3 DEF Ledger!Next, Ledger!Promise

\* An undo is.
LEMMA LedgerPromisesUndo ==
  ASSUME NEW e, e.token = nextToken, nextToken' = nextToken + 1, redeemed' = redeemed,
         e \in undos', undos' \ {e} \subseteq undos, confirmations' \subseteq confirmations
  PROVE  Ledger!Next
<1> DEFINE p == [kind |-> "undo", token |-> e.token, entry |-> e]
<1>1. p \in Promises' /\ p.token = nextToken
  BY DEF Promises
<1>2. Promises' \ {p} \subseteq Promises
  BY DEF Promises
<1>3. Spent' = Spent
  BY DEF Spent
<1> HIDE DEF p
<1> QED
  BY <1>1, <1>2, <1>3 DEF Ledger!Next, Ledger!Promise

\* Every step of the service is a step of the ledger.
LEMMA LedgerStep ==
  ASSUME TypeOK, TokenInv', [Next]_vars
  PROVE  Ledger!Next
<1>1. ASSUME NEW h \in Handler, DecideSubmit(h) PROVE Ledger!Next
  <2>1. PICK e \in Confirmed(req[h].session, req[h].command) : Redeem({e.token})
    BY <1>1 DEF DecideSubmit
  <2>2. e \in confirmations
    BY DEF Confirmed, OfSession
  <2> QED
    BY <1>1, <2>1, <2>2, LedgerRedeems DEF DecideSubmit, consumeConfirmation
<1>2. ASSUME NEW h \in Handler, storeConfirmation(h) PROVE Ledger!Next
  <2> DEFINE e == [session |-> req[h].session, command |-> req[h].command,
                   token |-> nextToken, expires |-> now + ConfirmTTL]
  <2>1. /\ e.token = nextToken /\ e \in confirmations'
        /\ confirmations' \ {e} \subseteq confirmations
    BY <1>2 DEF storeConfirmation, OfSession
  <2>2. nextToken' = nextToken + 1 /\ redeemed' = redeemed /\ undos' = undos
    BY <1>2 DEF storeConfirmation, Issue
  <2> HIDE DEF e
  <2> QED
    BY <2>1, <2>2, LedgerPromisesConfirmation
<1>3. ASSUME NEW h \in Handler, issueUndoToken(h) PROVE Ledger!Next
  <2> DEFINE e == [session |-> req[h].session, command |-> req[h].command,
                   token |-> nextToken, expires |-> now + UndoTTL]
  <2>1. e.token = nextToken /\ e \in undos' /\ undos' \ {e} \subseteq undos
    BY <1>3 DEF issueUndoToken, storeUndoToken, removeExpiredUndos, OfSession
  <2>2. nextToken' = nextToken + 1 /\ redeemed' = redeemed /\ confirmations' = confirmations
    BY <1>3 DEF issueUndoToken, Issue
  <2> HIDE DEF e
  <2> QED
    BY <2>1, <2>2, LedgerPromisesUndo
<1>4. ASSUME NEW h \in Handler, Confirm(h) PROVE Ledger!Next
  <2> DEFINE r == req[h]
             hit == IF r.token = 0 THEN {} ELSE ConfirmedByToken(r.session, r.command, r.token)
  <2>1. /\ Redeem({e.token : e \in hit}) /\ confirmations' \subseteq confirmations
        /\ undos' = undos /\ nextToken' = nextToken
    BY <1>4 DEF Confirm
  <2>2. CASE hit = {}
    <3>1. redeemed' = redeemed
      BY <2>1, <2>2 DEF Redeem, TypeOK
    <3> QED
      BY <2>1, <3>1, LedgerDrops
  <2>3. CASE hit # {}
    <3>1. PICK e \in hit : TRUE
      BY <2>3
    <3>2. e \in confirmations /\ \A f \in hit : f.token = e.token
      BY DEF ConfirmedByToken, Confirmed, OfSession
    <3>3. Redeem({e.token})
      BY <2>1, <3>1, <3>2 DEF Redeem
    <3> QED
      BY <2>1, <3>2, <3>3, LedgerRedeems
  <2> QED
    BY <2>2, <2>3
<1>5. ASSUME NEW h \in Handler, Undo(h) PROVE Ledger!Next
  <2>1. PICK u \in liveUndo(req[h].session, req[h].token) :
               Redeem({u.token}) /\ undos' = consumeUndoToken(u)
    BY <1>5 DEF Undo
  <2>2. u \in undos /\ undos' \subseteq undos
    BY <2>1 DEF liveUndo, OfSession, consumeUndoToken, removeExpiredUndos
  <2> QED
    BY <1>5, <2>1, <2>2, LedgerRedeems DEF Undo
<1>6. ASSUME NEW h \in Handler, BeginCommand(h) \/ DecideInterrupt(h) \/ UndoNothing(h)
      PROVE  Ledger!Next
  BY <1>6, LedgerDrops DEF BeginCommand, DecideInterrupt, UndoNothing, clearPendingUndo,
     consumeConfirmation, removeExpiredUndos, historyVars
<1>7. ASSUME NEW h \in Handler, Status(h) \/ Decide(h) \/ Fail(h) \/ issueUndoTokenFails(h)
      PROVE  Ledger!Next
  BY <1>7, LedgerDrops DEF Status, Decide, Fail, issueUndoTokenFails, mapVars, historyVars
<1>8. ASSUME NEW h \in Handler,
             rememberFailure(h) \/ recordSuccess(h) \/ RecordLearningPair(h) \/ Respond(h)
      PROVE  Ledger!Next
  BY <1>8, LedgerDrops DEF rememberFailure, recordSuccess, RecordLearningPair, Respond,
     mapVars, historyVars
<1>9. ASSUME NEW c \in Callers, GiveUp(c) PROVE Ledger!Next
  BY <1>9, LedgerDrops DEF GiveUp, mapVars, historyVars
<1>10. ASSUME NEW c \in Callers, NEW h \in Handler, NEW op \in Operations, NEW cmd \in Command,
              NEW tok \in Token \cup {0}, NEW ft \in FailureToken, Send(c, h, op, cmd, tok, ft)
       PROVE  Ledger!Next
  BY <1>10, LedgerDrops DEF Send, mapVars, historyVars
<1>11. CASE Tick \/ Restart
  BY <1>11, LedgerDrops DEF Tick, Restart, mapVars, historyVars
<1>12. CASE UNCHANGED vars
  BY <1>12, LedgerDrops DEF vars, mapVars, historyVars
<1> QED
  BY <1>1, <1>2, <1>3, <1>4, <1>5, <1>6, <1>7, <1>8, <1>9, <1>10, <1>11, <1>12
  DEF Next, Handle

\* For any number of sessions and handlers, and however they interleave, the
\* daemon's confirmations and undos behave as one ledger of one-time tokens.
THEOREM LedgerImplemented == Spec => ImplementsLedger
<1>1. Init => Ledger!Init
  BY DEF Init, Ledger!Init, Promises, Spent, Token
<1>2. TypeInv /\ TokenInv' /\ [Next]_vars => [Ledger!Next]_(Ledger!ledger)
  BY LedgerStep DEF TypeInv
<1> QED
  BY <1>1, <1>2, TokenInvariant, PTL DEF Spec, ImplementsLedger, Ledger!Spec
=============================================================================
