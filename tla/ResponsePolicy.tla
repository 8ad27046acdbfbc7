--------------------------- MODULE ResponsePolicy ---------------------------
(***************************************************************************)
(* What the daemon answers about one command line, before it consults any  *)
(* pending confirmation: internal/daemon/service.go curatedDecision,       *)
(* learnedDecision and decision, and the mode policy of                    *)
(* internal/diagnose/engine.go (finish, applyMode and what they call).     *)
(*                                                                         *)
(* A command line is abstracted to a record of what the matchers find in   *)
(* it (Analysis); a configuration to the fields the policy reads (Config). *)
(* Confidence is in percent.                                               *)
(***************************************************************************)
EXTENDS Integers

Mode == {"off", "hint", "interrupt", "rewrite"}
Risk == {"safe", "unknown", "high"}
LearnedAction == {"off", "hint", "rewrite"}
Stage == {"pre", "post"}

\* config.Config: the fields that the decision path reads.
Config == [mode : Mode, autoApplySafe : BOOLEAN, riskInterrupt : BOOLEAN,
           curatedPacks : BOOLEAN, learning : BOOLEAN,
           ceiling : LearnedAction, undo : BOOLEAN]

\* packs.RuntimeMatch; source "none" when no pack rule matches the line.
\* renderable: ShellCommandSupported(shell, match.Suggestion);
\* secret: redact.Command found a secret in the suggestion.
CuratedMatch == [source : {"none", "bundled", "installed"}, risk : Risk,
                 secret : BOOLEAN, renderable : BOOLEAN]

\* Whether finish() can put a rewrite into the buffer: not into a quoted line
\* ("quoted": not rewriteCompatible), nor when replaceTokenOccurrence finds the
\* token no more ("lost").
Splice == {"ok", "quoted", "lost"}

\* The decision commandDecision, semanticDecision or pathDecision reaches,
\* class "none" when they find nothing.
EngineDecision == [class : {"none", "command", "semantic", "path"},
                   source : {"bundled", "installed"}, confidence : 0..100,
                   risk : Risk, splice : Splice]

\* learnable: normalizedLearningCommand accepts it (bounded, no secret);
\* learned: the action of the first enabled learned rule for the line.
Analysis == [supported : BOOLEAN, excepted : BOOLEAN, learnable : BOOLEAN,
             curated : CuratedMatch, learned : LearnedAction \cup {"none"},
             engine : EngineDecision]

\* The part of daemon.Response that the properties tell apart. "confirm" is
\* an answer still to be settled by the session's pending confirmation.
Verdict == [action : {"none", "hint", "rewrite", "interrupt", "confirm"},
            source : {"none", "curated", "installed-pack", "learned", "heuristic"},
            risk : Risk]

Silent == [action |-> "none", source |-> "none", risk |-> "safe"]

-----------------------------------------------------------------------------
(***************************************************************************)
(* Curated rule packs.                                                     *)
(***************************************************************************)

\* runtimePackResolver returns an empty resolver when packs are disabled.
MatchLine(cfg, a) ==
  IF cfg.curatedPacks THEN a.curated ELSE [a.curated EXCEPT !.source = "none"]

CuratedApplies(cfg, a) ==
  /\ a.supported
  /\ MatchLine(cfg, a).source # "none"
  /\ a.curated.renderable

CuratedRisk(a) == IF a.curated.secret THEN "high" ELSE a.curated.risk

CuratedRewriteEligible(a) ==
  a.curated.source # "installed" /\ CuratedRisk(a) = "safe"

InterruptsAllowed(cfg) ==
  cfg.mode = "interrupt" \/ (cfg.mode = "rewrite" /\ cfg.riskInterrupt)

CuratedAction(cfg, a, hasSession, stage) ==
  IF stage = "pre" /\ CuratedRisk(a) = "high" /\ InterruptsAllowed(cfg)
  THEN IF hasSession THEN "confirm" ELSE "hint"
  ELSE IF /\ stage = "pre" /\ CuratedRewriteEligible(a)
          /\ cfg.mode = "rewrite" /\ cfg.autoApplySafe
  THEN "rewrite"
  ELSE "hint"

CuratedVerdict(cfg, a, hasSession, stage) ==
  [action |-> CuratedAction(cfg, a, hasSession, stage),
   source |-> IF a.curated.source = "installed" THEN "installed-pack" ELSE "curated",
   risk   |-> CuratedRisk(a)]

-----------------------------------------------------------------------------
(***************************************************************************)
(* Locally learned rules.                                                  *)
(***************************************************************************)

Level(action) == CASE action = "off" -> 0 [] action = "hint" -> 1 [] OTHER -> 2

\* Mutant: the ceiling is ignored.
limitedLearnedAction_NoCeiling(ruleAction, ceiling) == ruleAction

limitedLearnedAction(ruleAction, ceiling) ==
  IF Level(ruleAction) > Level(ceiling) THEN ceiling ELSE ruleAction

LearnedApplies(cfg, a) ==
  /\ cfg.learning
  /\ a.learnable
  /\ a.learned # "none"
  /\ limitedLearnedAction(a.learned, cfg.ceiling) # "off"

LearnedVerdict(cfg, a) ==
  [action |-> limitedLearnedAction(a.learned, cfg.ceiling),
   source |-> "learned", risk |-> "safe"]

-----------------------------------------------------------------------------
(***************************************************************************)
(* The diagnosis engine.                                                   *)
(***************************************************************************)

confidenceThreshold(class) ==
  CASE class = "command" -> 60 [] class = "semantic" -> 75
    [] class = "path" -> 90 [] OTHER -> 100

meetsConfidenceThreshold(d) ==
  d.class # "none" /\ d.confidence >= confidenceThreshold(d.class)

semanticRewriteAllowed(d) == d.class = "semantic" => d.source # "installed"

\* Mutant: the risk is not consulted.
intrinsicRewriteEligible_AnyRisk(d) ==
  d.confidence >= 80 /\ meetsConfidenceThreshold(d) /\ semanticRewriteAllowed(d)

intrinsicRewriteEligible(d) ==
  /\ d.risk = "safe"
  /\ d.confidence >= 80
  /\ meetsConfidenceThreshold(d)
  /\ semanticRewriteAllowed(d)

safeAutoApply(cfg, d) ==
  cfg.mode = "rewrite" /\ cfg.autoApplySafe /\ intrinsicRewriteEligible(d)

\* Mutant: the stage is not consulted.
shouldInterrupt_AnyStage(cfg, d, stage) ==
  InterruptsAllowed(cfg) /\ d.confidence >= 90 /\ meetsConfidenceThreshold(d)

shouldInterrupt(cfg, d, stage) ==
  /\ stage = "pre"
  /\ InterruptsAllowed(cfg)
  /\ d.confidence >= 90
  /\ meetsConfidenceThreshold(d)

applyMode(cfg, d, stage) ==
  IF stage = "pre" /\ safeAutoApply(cfg, d) THEN "rewrite"
  ELSE IF shouldInterrupt(cfg, d, stage) THEN "interrupt"
  ELSE "hint"

\* CheckShellContext reaches finish() only with a decision worth finishing.
\* The semantic resolver is empty when packs are disabled.
EngineFinds(cfg, a) ==
  /\ ~a.excepted
  /\ a.supported
  /\ cfg.mode # "off"
  /\ a.engine.class # "none"
  /\ a.engine.class = "semantic" => cfg.curatedPacks

\* finish(): a rewrite the buffer cannot take becomes a hint or nothing.
finish(cfg, a, stage) ==
  LET action == applyMode(cfg, a.engine, stage)
  IN  CASE action = "rewrite" /\ a.engine.splice = "quoted" -> "hint"
        [] action = "rewrite" /\ a.engine.splice = "lost" -> "none"
        [] OTHER -> action

EngineVerdict(cfg, a, stage) ==
  IF ~EngineFinds(cfg, a) \/ finish(cfg, a, stage) = "none"
  THEN Silent
  ELSE [action |-> finish(cfg, a, stage),
        source |-> IF a.engine.class # "semantic" THEN "heuristic"
                   ELSE IF a.engine.source = "installed" THEN "installed-pack"
                   ELSE "curated",
        risk   |-> a.engine.risk]

-----------------------------------------------------------------------------
(***************************************************************************)
(* The two stages.                                                         *)
(***************************************************************************)

\* preSend: packs, then learned rules, then the engine.
preSend(cfg, a, hasSession) ==
  LET engine == EngineVerdict(cfg, a, "pre")
  IN  IF ~a.supported THEN Silent
      ELSE IF CuratedApplies(cfg, a) THEN CuratedVerdict(cfg, a, hasSession, "pre")
      ELSE IF LearnedApplies(cfg, a) THEN LearnedVerdict(cfg, a)
      ELSE IF engine.action = "interrupt" /\ hasSession
      THEN [engine EXCEPT !.action = "confirm"]
      ELSE engine

\* The decision part of the post-failure handler.
postFailure(cfg, a) ==
  IF CuratedApplies(cfg, a) THEN CuratedVerdict(cfg, a, TRUE, "post")
                            ELSE EngineVerdict(cfg, a, "post")
=============================================================================
