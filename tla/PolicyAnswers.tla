---------------------------- MODULE PolicyAnswers ----------------------------
(***************************************************************************)
(* The callers of the response policy: the daemon's pre-send and           *)
(* post-failure handlers and the `solomon check` command, asked about any  *)
(* command line under any configuration.  A configuration is read once,    *)
(* when the process that answers starts.                                   *)
(***************************************************************************)
EXTENDS ResponsePolicy

CONSTANTS
  Configs,      \* the configurations a process is started with
  CommandLines  \* what the matchers can find in a command line

ASSUME PolicyAssumption == Configs \subseteq Config /\ CommandLines \subseteq Analysis

VARIABLES
  cfg,     \* the configuration of the answering process
  answer   \* its last answer, with what it was asked

vars == <<cfg, answer>>

Caller == {"pre-send", "post-failure", "check"}
Answered(caller, stage, a, v) ==
  [caller |-> caller, stage |-> stage, line |-> a, verdict |-> v]
Answers == [caller : Caller, stage : Stage, line : CommandLines, verdict : Verdict]
NoAnswer == [caller |-> "nobody"]

TypeOK ==
  /\ cfg \in Configs
  /\ answer \in Answers \cup {NoAnswer}

Init == cfg \in Configs /\ answer = NoAnswer

\* A pre-send request, with or without a session.
PreSend(a, hasSession) ==
  /\ answer = NoAnswer
  /\ answer' = Answered("pre-send", "pre", a, preSend(cfg, a, hasSession))
  /\ UNCHANGED cfg

PostFailure(a) ==
  /\ answer = NoAnswer
  /\ answer' = Answered("post-failure", "post", a, postFailure(cfg, a))
  /\ UNCHANGED cfg

\* checkCommand asks the engine alone.
Check(a, stage) ==
  /\ answer = NoAnswer
  /\ answer' = Answered("check", stage, a, EngineVerdict(cfg, a, stage))
  /\ UNCHANGED cfg

\* The answer is read; the next one comes from the same process.
Deliver ==
  /\ answer # NoAnswer
  /\ answer' = NoAnswer
  /\ UNCHANGED cfg

Next ==
  \/ \E a \in CommandLines, hasSession \in BOOLEAN : PreSend(a, hasSession)
  \/ \E a \in CommandLines : PostFailure(a)
  \/ \E a \in CommandLines, stage \in Stage : Check(a, stage)
  \/ Deliver

Spec == Init /\ [][Next]_vars

-----------------------------------------------------------------------------
(***************************************************************************)
(* Properties.                                                             *)
(***************************************************************************)

\* A rewrite that does not come from a rule the user activated needs mode
\* rewrite and auto_apply_safe, is of a repair classified safe, and is not an
\* installed pack's, by whichever of the two pack paths (curatedDecision, or
\* the engine's semantic resolver) the line is matched.
EditsAreOptedIn ==
  answer # NoAnswer =>
    (answer.verdict.action = "rewrite" /\ answer.verdict.source # "learned" =>
       /\ cfg.mode = "rewrite" /\ cfg.autoApplySafe
       /\ answer.verdict.risk = "safe"
       /\ answer.verdict.source # "installed-pack")

\* A learned rule never acts beyond learned_rule_action_ceiling or beyond the
\* action it was activated with, and only while learning is on.
LearnedWithinCeiling ==
  answer # NoAnswer =>
    (answer.verdict.source = "learned" =>
       /\ cfg.learning
       /\ Level(answer.verdict.action) <= Level(cfg.ceiling)
       /\ Level(answer.verdict.action) <= Level(answer.line.learned))

\* A command is held back only before it runs, and only under a mode that
\* blocks; after a failure every caller gets a hint or nothing.
OnlyPreSendActs ==
  answer # NoAnswer =>
    /\ answer.verdict.action \in {"interrupt", "confirm"} => InterruptsAllowed(cfg)
    /\ answer.stage = "post" => answer.verdict.action \in {"none", "hint"}

=============================================================================
