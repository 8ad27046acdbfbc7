---------------------------- MODULE DaemonService ----------------------------
(***************************************************************************)
(* The daemon's request handlers, internal/daemon/service.go, with the     *)
(* clients that call them.                                                 *)
(*                                                                         *)
(* Each connection is served by a goroutine of its own (server.go Serve),  *)
(* and service.go takes s.mu once per operation on a map, not once per     *)
(* request: a handler is therefore a sequence of atomic sections, and the  *)
(* handlers of one session interleave whenever a client has given up on a  *)
(* request (15 ms in cmd/solomon requestDaemon) whose handler still runs.  *)
(*                                                                         *)
(* A random 16-byte token is a number never handed out before.  Maps are   *)
(* sets of records that carry their key.  Variables from issued on are     *)
(* history: the code does not keep them, the properties need them.         *)
(***************************************************************************)
EXTENDS Integers, FiniteSets, ResponsePolicy

CONSTANTS
  Session,      \* non-empty session identifiers
  NoSession,    \* the empty session of a request without one
  Command,      \* non-empty command lines
  Normal,       \* normalizedLearningCommand: spellings of one command agree
  Handler,      \* connection goroutines
  FailureToken, \* tokens adapters put on post-failure/post-success requests
  Operations,   \* the operations the clients use
  Callers,      \* the clients that are active
  Cfg,          \* the configuration the daemon was started with
  Lines,        \* what the matchers find in each command
  ConfirmTTL, UndoTTL, PairWindow, \* lifetimes, in ticks
  MaxTime, MaxToken, MaxFailure    \* bounds of the model

ASSUME ServiceAssumption ==
  /\ NoSession \notin Session
  /\ Command # {} /\ FailureToken # {}
  /\ Normal \in [Command -> Command]
  /\ Cfg \in Config
  /\ Lines \in [Command -> Analysis]
  /\ ConfirmTTL \in Nat /\ UndoTTL \in Nat /\ PairWindow \in Nat
  /\ MaxTime \in Nat /\ MaxToken \in Nat /\ MaxFailure \in Nat

Operation == {"status", "pre-send", "post-failure", "post-success", "confirm", "undo"}
Client == Session \cup {NoSession}
ASSUME CallersAssumption == Operations \subseteq Operation /\ Callers \subseteq Client
Token == 1 .. MaxToken
FailureId == 1 .. MaxFailure
Action == {"none", "hint", "rewrite", "interrupt", "submit",
           "edit-in-buffer", "ready", "error"}

VARIABLES
  now,           \* s.currentTime()
  confirmations, \* session |-> command, token, expires
  undos,         \* token |-> session, command, expires
  failures,      \* (session, token) |-> command, created
  pc,            \* where each handler is
  req,           \* the request each handler serves
  resp,          \* the answer each handler has prepared
  taken,         \* the failure a post-success handler took from the map
  waiting,       \* the handlers whose answer each client still waits for
  issued,        \* every token ever stored, with what it was stored for
  nextToken,     \* the next unused token
  redeemed,      \* how often each token was exchanged for its effect
  delivered,     \* undo tokens whose answer reached the client
  retired,       \* those whose session has moved on, or whose daemon has ended
  remembered,    \* every failure ever put into the map
  nextFailure,   \* the identifier of the next one
  paired         \* how many learning pairs each of them produced

mapVars == <<confirmations, undos, failures>>
handlerVars == <<pc, req, resp, taken>>
historyVars == <<issued, nextToken, redeemed, delivered, retired, remembered,
                 nextFailure, paired>>
vars == <<now, mapVars, handlerVars, waiting, historyVars>>

Request == [op : Operation, session : Client, command : Command,
            token : Token \cup {0}, ftoken : FailureToken]
Response == [action : Action, command : Command, token : Token \cup {0},
             backing : Token \cup {0}, at : Nat]
PC == {"idle", "begin", "decide", "storeConfirmation", "storeUndo",
       "remember", "take", "record", "respond"}
FailureRecord == [id : FailureId, session : Session, token : FailureToken,
                  command : Command, created : Nat]

\* An answer to request r with no tokens; one that redeems token t now.
Answer(r, action) ==
  [action |-> action, command |-> r.command, token |-> 0, backing |-> 0, at |-> 0]
BackedAnswer(r, action, t) ==
  [action |-> action, command |-> r.command, token |-> 0, backing |-> t, at |-> now]

TypeOK ==
  /\ now \in Nat
  /\ confirmations \subseteq [session : Session, command : Command, token : Token, expires : Nat]
  /\ undos \subseteq [session : Session, command : Command, token : Token, expires : Nat]
  /\ failures \subseteq FailureRecord
  /\ pc \in [Handler -> PC]
  /\ req \in [Handler -> Request]
  /\ resp \in [Handler -> Response]
  /\ taken \in [Handler -> SUBSET FailureRecord]
  /\ waiting \in [Client -> SUBSET Handler]
  /\ issued \subseteq [kind : {"confirm", "undo"}, session : Session, command : Command,
                       token : Token, at : Nat]
  /\ nextToken \in 1 .. (MaxToken + 1)
  /\ redeemed \in [Token -> Nat]
  /\ delivered \subseteq Token
  /\ retired \subseteq Token
  /\ remembered \subseteq FailureRecord
  /\ nextFailure \in 1 .. (MaxFailure + 1)
  /\ paired \in [FailureId -> Nat]

\* What an idle handler holds.
IdleRequest ==
  [op |-> "status", session |-> NoSession, command |-> CHOOSE c \in Command : TRUE,
   token |-> 0, ftoken |-> CHOOSE f \in FailureToken : TRUE]
IdleResponse ==
  [action |-> "none", command |-> IdleRequest.command, token |-> 0, backing |-> 0, at |-> 0]

Init ==
  /\ now = 0
  /\ confirmations = {} /\ undos = {} /\ failures = {}
  /\ pc = [h \in Handler |-> "idle"]
  /\ req = [h \in Handler |-> IdleRequest]
  /\ resp = [h \in Handler |-> IdleResponse]
  /\ taken = [h \in Handler |-> {}]
  /\ waiting = [c \in Client |-> {}]
  /\ issued = {} /\ nextToken = 1
  /\ redeemed = [t \in Token |-> 0]
  /\ delivered = {} /\ retired = {}
  /\ remembered = {} /\ nextFailure = 1 /\ paired = [f \in FailureId |-> 0]

-----------------------------------------------------------------------------
(***************************************************************************)
(* Clients, connections and time.                                          *)
(***************************************************************************)

\* A client dials and its request is decoded and validated.  Tokens a client
\* sends back are ones that were handed out, to whichever session.  Fields an
\* operation does not read keep a default value.
Send(c, h, op, cmd, tok, ft) ==
  /\ waiting[c] = {}
  /\ pc[h] = "idle"
  /\ tok < nextToken
  /\ op \notin {"confirm", "undo"} => tok = 0
  /\ op \in {"status", "undo"} => cmd = IdleRequest.command
  /\ op \notin {"post-failure", "post-success"} => ft = IdleRequest.ftoken
  /\ pc' = [pc EXCEPT ![h] = "begin"]
  /\ req' = [req EXCEPT ![h] = [op |-> op, session |-> c, command |-> cmd,
                                token |-> tok, ftoken |-> ft]]
  /\ waiting' = [waiting EXCEPT ![c] = {h}]
  /\ UNCHANGED <<now, mapVars, resp, taken, historyVars>>

\* The client's timeout expires; the handler goes on without it.
GiveUp(c) ==
  /\ waiting[c] # {}
  /\ waiting' = [waiting EXCEPT ![c] = {}]
  /\ UNCHANGED <<now, mapVars, handlerVars, historyVars>>

\* serveConnection writes the response and the goroutine ends.
Respond(h) ==
  /\ pc[h] = "respond"
  /\ LET c == req[h].session
     IN  /\ waiting' = [waiting EXCEPT ![c] = @ \ {h}]
         /\ delivered' = IF h \in waiting[c] /\ resp[h].action = "rewrite" /\ resp[h].token # 0
                         THEN delivered \cup {resp[h].token} ELSE delivered
  /\ pc' = [pc EXCEPT ![h] = "idle"]
  /\ req' = [req EXCEPT ![h] = IdleRequest]
  /\ resp' = [resp EXCEPT ![h] = IdleResponse]
  /\ UNCHANGED <<now, mapVars, taken, issued, nextToken, redeemed, retired, remembered, nextFailure, paired>>

Tick ==
  /\ now < MaxTime
  /\ now' = now + 1
  /\ UNCHANGED <<mapVars, handlerVars, waiting, historyVars>>

\* The daemon process ends and another is started: nothing in its maps is
\* persisted, and the connections break.
Restart ==
  /\ confirmations' = {} /\ undos' = {} /\ failures' = {}
  /\ pc' = [h \in Handler |-> "idle"]
  /\ req' = [h \in Handler |-> IdleRequest]
  /\ resp' = [h \in Handler |-> IdleResponse]
  /\ taken' = [h \in Handler |-> {}]
  /\ waiting' = [c \in Client |-> {}]
  /\ retired' = delivered
  /\ UNCHANGED <<now, issued, nextToken, redeemed, delivered, remembered, nextFailure, paired>>

\* h leaves its current section with answer a prepared.
Prepare(h, a) ==
  /\ resp' = [resp EXCEPT ![h] = a]
  /\ pc' = [pc EXCEPT ![h] = "respond"]

Goto(h, next) ==
  /\ pc' = [pc EXCEPT ![h] = next]
  /\ UNCHANGED resp

-----------------------------------------------------------------------------
(***************************************************************************)
(* Operations on the maps, each under s.mu.                                *)
(***************************************************************************)

OfSession(S, s) == {e \in S : e.session = s}

\* Mutant: the entry survives its use.
consumeConfirmation_Keep(s) == confirmations

\* What consumeConfirmation leaves in the map.
consumeConfirmation(s) == confirmations \ OfSession(confirmations, s)

\* Mutant: another session's confirmation is accepted.
Confirmed_AnySession(s, cmd) == {e \in confirmations : e.command = cmd /\ now < e.expires}

\* The confirmation that lets a repeated command through.
Confirmed(s, cmd) ==
  {e \in OfSession(confirmations, s) : e.command = cmd /\ now < e.expires}

\* Mutant: a token is accepted for any command and at any age.
ConfirmedByToken_Loose(s, cmd, tok) ==
  {e \in OfSession(confirmations, s) : e.token = tok}

ConfirmedByToken(s, cmd, tok) ==
  {e \in Confirmed(s, cmd) : e.token = tok}

\* Mutant: the session is not compared.
liveUndo_AnySession(s, tok) == {u \in undos : now < u.expires /\ u.token = tok}

\* The pending undo that consumeUndoToken finds, after removeExpiredUndos.
liveUndo(s, tok) ==
  {u \in OfSession(undos, s) : now < u.expires /\ u.token = tok}

removeExpiredUndos == {u \in undos : now < u.expires}

\* Mutant: the entry survives its use.
consumeUndoToken_Keep(u) == removeExpiredUndos

\* What consumeUndoToken leaves in the map.
consumeUndoToken(u) == removeExpiredUndos \ {u}

\* Mutant: earlier rewrites of the session stay undoable.
storeUndoToken_KeepOthers(s, cmd) ==
  removeExpiredUndos
    \cup {[session |-> s, command |-> cmd, token |-> nextToken, expires |-> now + UndoTTL]}

storeUndoToken(s, cmd) ==
  (removeExpiredUndos \ OfSession(undos, s))
    \cup {[session |-> s, command |-> cmd, token |-> nextToken, expires |-> now + UndoTTL]}

\* Mutant: only an expired undo is cleared.
clearPendingUndo_Expired(s) == removeExpiredUndos

clearPendingUndo(s) == undos \ OfSession(undos, s)

\* Mutant: a failure never expires.
removeExpiredFailures_Never == failures

removeExpiredFailures == {f \in failures : now <= f.created + PairWindow}

\* Mutant: a session's failures share one key.
FailuresAt_AnyToken(s, ft) == {f \in failures : f.session = s}

\* The entry at failureKey(s, ft).
FailuresAt(s, ft) == {f \in failures : f.session = s /\ f.token = ft}

\* Mutant: the failure stays in the map.
takeFailure_Keep(s, ft) == removeExpiredFailures

\* What recordSuccess leaves in the map.
takeFailure(s, ft) == removeExpiredFailures \ FailuresAt(s, ft)

-----------------------------------------------------------------------------
(***************************************************************************)
(* Handlers.                                                               *)
(***************************************************************************)

\* A new token is stored for handler h's session and command.
Issue(h, kind) ==
  /\ nextToken \in Token
  /\ nextToken' = nextToken + 1
  /\ issued' = issued \cup {[kind |-> kind, session |-> req[h].session,
                             command |-> req[h].command, token |-> nextToken, at |-> now]}

Redeem(tokens) ==
  redeemed' = [t \in Token |-> IF t \in tokens THEN redeemed[t] + 1 ELSE redeemed[t]]

\* Handshake and status.
Status(h) ==
  /\ pc[h] = "begin" /\ req[h].op = "status"
  /\ Prepare(h, Answer(req[h], "ready"))
  /\ UNCHANGED <<now, mapVars, req, taken, waiting, historyVars>>

\* The first section of pre-send, post-failure and post-success.
BeginCommand(h) ==
  /\ pc[h] = "begin" /\ req[h].op \in {"pre-send", "post-failure", "post-success"}
  /\ undos' = clearPendingUndo(req[h].session)
  /\ retired' = retired \cup {i.token : i \in {j \in OfSession(issued, req[h].session) :
                                                  j.token \in delivered}}
  /\ Goto(h, CASE req[h].op = "pre-send" -> "decide"
               [] req[h].op = "post-failure" -> "remember"
               [] OTHER -> "take")
  /\ UNCHANGED <<now, confirmations, failures, req, taken, waiting, issued, nextToken,
                 redeemed, delivered, remembered, nextFailure, paired>>

Decision(h) == preSend(Cfg, Lines[req[h].command], req[h].session # NoSession)

\* The verdict needs a confirmation and the session holds one: submit.
DecideSubmit(h) ==
  LET r == req[h]
      hit == Confirmed(r.session, r.command)
  IN  /\ pc[h] = "decide"
      /\ Decision(h).action = "confirm"
      /\ \E e \in hit :
           /\ Prepare(h, BackedAnswer(r, "submit", e.token))
           /\ Redeem({e.token})
      /\ confirmations' = consumeConfirmation(r.session)
      /\ UNCHANGED <<now, undos, failures, req, taken, waiting, issued, nextToken,
                     delivered, retired, remembered, nextFailure, paired>>

\* The verdict needs a confirmation, none fits (one that does not is dropped).
DecideInterrupt(h) ==
  /\ pc[h] = "decide"
  /\ Decision(h).action = "confirm"
  /\ Confirmed(req[h].session, req[h].command) = {}
  /\ confirmations' = consumeConfirmation(req[h].session)
  /\ Goto(h, "storeConfirmation")
  /\ UNCHANGED <<now, undos, failures, req, taken, waiting, historyVars>>

\* issueUndoToken's early return.
Undoable(h) ==
  Decision(h).action = "rewrite" /\ Cfg.undo /\ req[h].session # NoSession

\* Any other verdict; an undoable rewrite goes on to storeUndoToken.
Decide(h) ==
  /\ pc[h] = "decide"
  /\ Decision(h).action # "confirm"
  /\ IF Undoable(h) THEN Goto(h, "storeUndo")
                    ELSE Prepare(h, Answer(req[h], Decision(h).action))
  /\ UNCHANGED <<now, mapVars, req, taken, waiting, historyVars>>

\* A limit or the request's deadline ends the decision, or rand.Read fails.
Fail(h) ==
  /\ \/ pc[h] = "decide" /\ Lines[req[h].command].supported
     \/ pc[h] = "storeConfirmation"
  /\ Prepare(h, Answer(req[h], "error"))
  /\ UNCHANGED <<now, mapVars, req, taken, waiting, historyVars>>

storeConfirmation(h) ==
  LET r == req[h]
  IN  /\ pc[h] = "storeConfirmation"
      /\ Issue(h, "confirm")
      /\ confirmations' = (confirmations \ OfSession(confirmations, r.session))
           \cup {[session |-> r.session, command |-> r.command, token |-> nextToken,
                  expires |-> now + ConfirmTTL]}
      /\ Prepare(h, [Answer(r, "interrupt") EXCEPT !.token = nextToken])
      /\ UNCHANGED <<now, undos, failures, req, taken, waiting, redeemed, delivered,
                     retired, remembered, nextFailure, paired>>

issueUndoToken(h) ==
  LET r == req[h]
  IN  /\ pc[h] = "storeUndo"
      /\ Issue(h, "undo")
      /\ undos' = storeUndoToken(r.session, r.command)
      /\ Prepare(h, [Answer(r, "rewrite") EXCEPT !.token = nextToken])
      /\ UNCHANGED <<now, confirmations, failures, req, taken, waiting, redeemed, delivered,
                     retired, remembered, nextFailure, paired>>

\* rand.Read fails: the rewrite is answered without an undo token.
issueUndoTokenFails(h) ==
  /\ pc[h] = "storeUndo"
  /\ Prepare(h, Answer(req[h], "rewrite"))
  /\ UNCHANGED <<now, mapVars, req, taken, waiting, historyVars>>

\* The confirm operation: consumeConfirmationToken.
Confirm(h) ==
  LET r == req[h]
      hit == IF r.token = 0 THEN {} ELSE ConfirmedByToken(r.session, r.command, r.token)
      expired == IF r.token = 0 THEN {}
                 ELSE {e \in OfSession(confirmations, r.session) : now >= e.expires}
  IN  /\ pc[h] = "begin" /\ r.op = "confirm"
      /\ confirmations' = confirmations \ (hit \cup expired)
      /\ Redeem({e.token : e \in hit})
      /\ Prepare(h, IF hit = {} THEN Answer(r, "none")
                    ELSE BackedAnswer(r, "submit", r.token))
      /\ UNCHANGED <<now, undos, failures, req, taken, waiting, issued, nextToken, delivered,
                     retired, remembered, nextFailure, paired>>

\* The undo operation, when a pending rewrite matches.
Undo(h) ==
  LET r == req[h]
  IN  /\ pc[h] = "begin" /\ r.op = "undo"
      /\ Cfg.undo /\ r.token # 0
      /\ \E u \in liveUndo(r.session, r.token) :
           /\ undos' = consumeUndoToken(u)
           /\ Redeem({u.token})
           /\ Prepare(h, [BackedAnswer(r, "edit-in-buffer", u.token)
                                EXCEPT !.command = u.command])
      /\ UNCHANGED <<now, confirmations, failures, req, taken, waiting, issued, nextToken,
                     delivered, retired, remembered, nextFailure, paired>>

\* The undo operation, when none does.
UndoNothing(h) ==
  LET r == req[h]
      looked == Cfg.undo /\ r.session # NoSession /\ r.token # 0
  IN  /\ pc[h] = "begin" /\ r.op = "undo"
      /\ looked => liveUndo(r.session, r.token) = {}
      /\ undos' = IF looked THEN removeExpiredUndos ELSE undos
      /\ Prepare(h, Answer(r, "none"))
      /\ UNCHANGED <<now, confirmations, failures, req, taken, waiting, historyVars>>

Learns(r) == Cfg.learning /\ r.session # NoSession /\ Lines[r.command].learnable

\* Mutant: a failed command is judged as one that is still to be submitted.
PostFailureAnswer_PreStage(h) ==
  \E action \in {preSend(Cfg, Lines[req[h].command], TRUE).action, "error"} :
    Prepare(h, Answer(req[h], action))

\* The answer to a post-failure request: a diagnosis, or an error.
PostFailureAnswer(h) ==
  \E action \in {postFailure(Cfg, Lines[req[h].command]).action, "error"} :
    Prepare(h, Answer(req[h], action))

rememberFailure(h) ==
  LET r == req[h]
      f == [id |-> nextFailure, session |-> r.session, token |-> r.ftoken,
            command |-> Normal[r.command], created |-> now]
  IN  /\ pc[h] = "remember"
      /\ PostFailureAnswer(h)
      /\ IF Learns(r)
         THEN /\ nextFailure \in FailureId
              /\ nextFailure' = nextFailure + 1
              /\ failures' = (removeExpiredFailures \ FailuresAt(r.session, r.ftoken)) \cup {f}
              /\ remembered' = remembered \cup {f}
         ELSE UNCHANGED <<failures, remembered, nextFailure>>
      /\ UNCHANGED <<now, confirmations, undos, req, taken, waiting, issued, nextToken,
                     redeemed, delivered, retired, paired>>

\* recordSuccess up to the unlock: the failure leaves the map.
recordSuccess(h) ==
  LET r == req[h]
      pending == FailuresAt(r.session, r.ftoken) \cap removeExpiredFailures
      differs == {f \in pending : f.command # Normal[r.command]}
  IN  /\ pc[h] = "take"
      /\ IF Learns(r)
         THEN /\ failures' = takeFailure(r.session, r.ftoken)
              /\ taken' = [taken EXCEPT ![h] = differs]
         ELSE UNCHANGED <<failures, taken>>
      /\ IF Learns(r) /\ differs # {} THEN Goto(h, "record")
                                      ELSE Prepare(h, Answer(r, "none"))
      /\ UNCHANGED <<now, confirmations, undos, req, waiting, historyVars>>

\* RecordLearningPair, after the unlock; its error is ignored.
RecordLearningPair(h) ==
  /\ pc[h] = "record"
  /\ \/ paired' = [f \in FailureId |->
                     IF \E t \in taken[h] : t.id = f THEN paired[f] + 1 ELSE paired[f]]
     \/ UNCHANGED paired
  /\ taken' = [taken EXCEPT ![h] = {}]
  /\ Prepare(h, Answer(req[h], "none"))
  /\ UNCHANGED <<now, mapVars, req, waiting, issued, nextToken, redeemed, delivered,
                 retired, remembered, nextFailure>>

-----------------------------------------------------------------------------
Handle(h) ==
  \/ Status(h) \/ BeginCommand(h)
  \/ DecideSubmit(h) \/ DecideInterrupt(h) \/ Decide(h) \/ Fail(h)
  \/ storeConfirmation(h) \/ issueUndoToken(h) \/ issueUndoTokenFails(h)
  \/ Confirm(h) \/ Undo(h) \/ UndoNothing(h)
  \/ rememberFailure(h) \/ recordSuccess(h) \/ RecordLearningPair(h)
  \/ Respond(h)

Next ==
  \/ \E c \in Callers, h \in Handler, op \in Operations, cmd \in Command,
        tok \in Token \cup {0}, ft \in FailureToken : Send(c, h, op, cmd, tok, ft)
  \/ \E c \in Callers : GiveUp(c)
  \/ \E h \in Handler : Handle(h)
  \/ Tick
  \/ Restart

Spec == Init /\ [][Next]_vars

-----------------------------------------------------------------------------
(***************************************************************************)
(* Properties.                                                             *)
(***************************************************************************)

\* A token stands for one confirmed command or one undone rewrite: however
\* the handlers of abandoned, repeated and concurrent requests interleave, no
\* token takes effect twice (consumeConfirmation, consumeConfirmationToken
\* and consumeUndoToken delete the entry they return).
TokensTakeEffectOnce == \A t \in Token : redeemed[t] <= 1

\* The interrupt or rewrite that made token t.
IssuedAs(kind, t, s, cmd) ==
  {i \in issued : i.kind = kind /\ i.token = t /\ i.session = s /\ i.command = cmd}

\* A "submit" answer lets a command through only because the same session was
\* answered "interrupt" for the same command less than ConfirmTTL earlier,
\* whether it comes from a repeated pre-send or from the confirm operation.
SubmitIsBacked ==
  \A h \in Handler : resp[h].action = "submit" =>
    \E i \in IssuedAs("confirm", resp[h].backing, req[h].session, req[h].command) :
      i.at <= resp[h].at /\ resp[h].at < i.at + ConfirmTTL

\* An undo puts back the command its own session had rewritten, while the
\* rewrite's undo lifetime lasts, and never another session's text.
UndoIsBacked ==
  \A h \in Handler : resp[h].action = "edit-in-buffer" =>
    \E i \in IssuedAs("undo", resp[h].backing, req[h].session, resp[h].command) :
      i.at <= resp[h].at /\ resp[h].at < i.at + UndoTTL

\* At most one rewrite of a session can be undone (storeUndoToken), also when
\* the handler of an abandoned request stores its token late.
OneUndoPerSession ==
  \A u \in undos, v \in undos : u.session = v.session => u = v

\* Once the session's next command or its outcome has reached the daemon, a
\* rewrite whose answer the session had received cannot be undone any more
\* (clearPendingUndo comes first in those handlers).
RetiredUndosAreGone == \A u \in undos : u.token \notin retired

\* One failed command gives at most one learning pair: a repeated or delayed
\* post-success finds the failure already taken.
OnePairPerFailure == \A f \in FailureId : paired[f] <= 1

\* A pair about to be recorded joins a failure of the same session and token
\* with a different command.
PairsMatchTheirFailure ==
  \A h \in Handler : pc[h] = "record" =>
    \A f \in taken[h] :
      /\ f \in remembered
      /\ f.session = req[h].session /\ f.token = req[h].ftoken
      /\ f.command # Normal[req[h].command]

\* A failure older than PairWindow never leaves the map as half of a pair.
StaleFailuresAreDropped ==
  [][\A h \in Handler : \A f \in taken'[h] \ taken[h] : now <= f.created + PairWindow]_vars

\* The tokens of the two maps, as promises of TokenLedger.
Promises ==
  {[kind |-> "confirm", token |-> e.token, entry |-> e] : e \in confirmations}
    \cup {[kind |-> "undo", token |-> u.token, entry |-> u] : u \in undos}
Spent == {t \in Token : redeemed[t] > 0}

Ledger == INSTANCE TokenLedger WITH next <- nextToken, live <- Promises, spent <- Spent

\* The two maps, with all the handlers that write them in sections of their
\* own, implement one ledger of one-time tokens: an entry is never altered,
\* prolonged or put back by a handler that has read the map earlier, a new
\* entry has a new token, and redeeming a token ends it in either map.
ImplementsLedger == Ledger!Spec
=============================================================================
