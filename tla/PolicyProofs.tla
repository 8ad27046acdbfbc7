----------------------------- MODULE PolicyProofs -----------------------------
(***************************************************************************)
(* Proofs about the response policy, for every configuration and every     *)
(* command line.                                                           *)
(***************************************************************************)
EXTENDS PolicyAnswers, TLAPS

\* What a verdict v on line a at a stage may be under configuration c.
Allowed(c, a, stage, v) ==
  /\ v \in Verdict
  /\ v.action = "rewrite" /\ v.source # "learned" =>
       /\ c.mode = "rewrite" /\ c.autoApplySafe
       /\ v.risk = "safe"
       /\ v.source # "installed-pack"
  /\ v.source = "learned" =>
       /\ c.learning
       /\ Level(v.action) <= Level(c.ceiling)
       /\ Level(v.action) <= Level(a.learned)
  /\ v.action \in {"interrupt", "confirm"} => InterruptsAllowed(c)
  /\ stage = "post" => v.action \in {"none", "hint"}

\* Saying nothing is always allowed.
LEMMA SilentAllowed ==
  ASSUME NEW c \in Config, NEW a \in Analysis, NEW stage \in Stage
  PROVE  Allowed(c, a, stage, Silent)
  BY DEF Allowed, Silent, Verdict, Risk

\* curatedDecision.
LEMMA CuratedAllowed ==
  ASSUME NEW c \in Config, NEW a \in Analysis, NEW stage \in Stage, NEW s \in BOOLEAN
  PROVE  Allowed(c, a, stage, CuratedVerdict(c, a, s, stage))
<1> DEFINE v == CuratedVerdict(c, a, s, stage)
<1>1. CuratedRisk(a) \in Risk
  BY DEF CuratedRisk, Risk, Analysis, CuratedMatch
<1>2. /\ v.action = CuratedAction(c, a, s, stage) /\ v.risk = CuratedRisk(a)
      /\ v.source = IF a.curated.source = "installed" THEN "installed-pack" ELSE "curated"
  BY DEF CuratedVerdict
<1>3. CuratedAction(c, a, s, stage) \in {"hint", "rewrite", "confirm"}
  BY DEF CuratedAction
<1>4. v \in Verdict
  BY <1>1, <1>3 DEF CuratedVerdict, Verdict
<1>5. CuratedAction(c, a, s, stage) = "rewrite" =>
        c.mode = "rewrite" /\ c.autoApplySafe /\ CuratedRewriteEligible(a) /\ stage = "pre"
  BY DEF CuratedAction
<1>6. CuratedAction(c, a, s, stage) = "confirm" => InterruptsAllowed(c) /\ stage = "pre"
  BY DEF CuratedAction
<1> HIDE DEF v
<1> QED
  BY <1>2, <1>3, <1>4, <1>5, <1>6 DEF Allowed, CuratedRewriteEligible, v

\* learnedDecision: the ceiling wins over the rule, and the rule over it.
LEMMA LearnedAllowed ==
  ASSUME NEW c \in Config, NEW a \in Analysis, LearnedApplies(c, a)
  PROVE  Allowed(c, a, "pre", LearnedVerdict(c, a))
<1> DEFINE action == limitedLearnedAction(a.learned, c.ceiling)
<1>1. a.learned \in LearnedAction /\ c.ceiling \in LearnedAction
  BY DEF LearnedApplies, Analysis, Config
<1>2. action \in {"hint", "rewrite"}
  BY <1>1 DEF LearnedApplies, limitedLearnedAction, LearnedAction
<1>3. Level(action) <= Level(c.ceiling) /\ Level(action) <= Level(a.learned)
  BY <1>1 DEF limitedLearnedAction, LearnedAction, Level
<1> QED
  BY <1>2, <1>3 DEF LearnedVerdict, LearnedApplies, Allowed, Verdict, Risk

\* The engine, at either stage.
LEMMA EngineAllowed ==
  ASSUME NEW c \in Config, NEW a \in Analysis, NEW stage \in Stage
  PROVE  Allowed(c, a, stage, EngineVerdict(c, a, stage))
<1> DEFINE act == finish(c, a, stage)
           mode == applyMode(c, a.engine, stage)
<1>1. CASE ~EngineFinds(c, a) \/ act = "none"
  BY <1>1, SilentAllowed DEF EngineVerdict
<1>2. CASE EngineFinds(c, a) /\ act # "none"
  <2> DEFINE v == EngineVerdict(c, a, stage)
  <2>1. /\ v.action = act /\ v.risk = a.engine.risk
        /\ v.source = IF a.engine.class # "semantic" THEN "heuristic"
                      ELSE IF a.engine.source = "installed" THEN "installed-pack"
                      ELSE "curated"
    BY <1>2 DEF EngineVerdict
  <2>2. mode \in {"rewrite", "interrupt", "hint"}
    BY DEF applyMode
  <2>3. act \in {"rewrite", "interrupt", "hint"} /\ (act = "hint" \/ act = mode)
    BY <1>2, <2>2 DEF finish
  <2>4. a.engine.risk \in Risk
    BY DEF Analysis, EngineDecision
  <2>5. v \in Verdict
    BY <1>2, <2>3, <2>4 DEF EngineVerdict, Verdict
  <2>6. mode = "rewrite" => stage = "pre" /\ safeAutoApply(c, a.engine)
    BY DEF applyMode
  <2>7. mode = "interrupt" => stage = "pre" /\ InterruptsAllowed(c)
    BY DEF applyMode, shouldInterrupt
  <2> HIDE DEF v, act, mode
  <2>8. act = "rewrite" =>
          /\ stage = "pre" /\ c.mode = "rewrite" /\ c.autoApplySafe
          /\ a.engine.risk = "safe"
          /\ a.engine.class = "semantic" => a.engine.source # "installed"
    BY <2>3, <2>6 DEF safeAutoApply, intrinsicRewriteEligible, semanticRewriteAllowed
  <2> QED
    BY <2>1, <2>3, <2>5, <2>7, <2>8 DEF Allowed, v
<1> QED
  BY <1>1, <1>2

\* preSend, over all its branches.
LEMMA PreSendAllowed ==
  ASSUME NEW c \in Config, NEW a \in Analysis, NEW s \in BOOLEAN
  PROVE  Allowed(c, a, "pre", preSend(c, a, s))
<1> DEFINE e == EngineVerdict(c, a, "pre")
<1>0. "pre" \in Stage
  BY DEF Stage
<1>1. Allowed(c, a, "pre", e)
  BY <1>0, EngineAllowed
<1>2. e.action = "interrupt" => Allowed(c, a, "pre", [e EXCEPT !.action = "confirm"])
  <2> HIDE DEF e
  <2>1. e \in Verdict
    BY <1>1 DEF Allowed
  <2>2. ASSUME e.action = "interrupt" PROVE [e EXCEPT !.action = "confirm"] \in Verdict
    BY <2>1, <2>2 DEF Verdict
  <2>3. ASSUME e.action = "interrupt" PROVE e.source # "learned"
    BY <2>3 DEF e, EngineVerdict, Silent
  <2> QED
    BY <1>1, <2>1, <2>2, <2>3 DEF Allowed, Verdict
<1> HIDE DEF e
<1> QED
  BY <1>0, <1>1, <1>2, SilentAllowed, CuratedAllowed, LearnedAllowed DEF preSend, e

LEMMA PostFailureAllowed ==
  ASSUME NEW c \in Config, NEW a \in Analysis
  PROVE  Allowed(c, a, "post", postFailure(c, a))
<1>0. "post" \in Stage /\ TRUE \in BOOLEAN
  BY DEF Stage
<1> QED
  BY <1>0, CuratedAllowed, EngineAllowed DEF postFailure

-----------------------------------------------------------------------------
\* Every answer is one the policy allows.
PolicyInv ==
  /\ TypeOK
  /\ answer # NoAnswer => Allowed(cfg, answer.line, answer.stage, answer.verdict)

LEMMA AnsweredAllowed ==
  ASSUME NEW c \in Configs, NEW caller \in Caller, NEW stage \in Stage,
         NEW a \in CommandLines, NEW v, Allowed(c, a, stage, v),
         cfg' = c, answer' = Answered(caller, stage, a, v)
  PROVE  PolicyInv'
  BY DEF PolicyInv, TypeOK, Answered, Answers, Allowed

LEMMA PolicyInvariant == Spec => []PolicyInv
<1>1. Init => PolicyInv
  BY DEF Init, PolicyInv, TypeOK
<1>2. PolicyInv /\ [Next]_vars => PolicyInv'
  <2> SUFFICES ASSUME PolicyInv, [Next]_vars PROVE PolicyInv'
    OBVIOUS
  <2>0. cfg \in Configs /\ cfg \in Config /\ CommandLines \subseteq Analysis
    BY PolicyAssumption DEF PolicyInv, TypeOK
  <2>1. ASSUME NEW a \in CommandLines, NEW s \in BOOLEAN, PreSend(a, s) PROVE PolicyInv'
    <3>1. Allowed(cfg, a, "pre", preSend(cfg, a, s))
      BY <2>0, PreSendAllowed
    <3> QED
      BY <2>0, <2>1, <3>1, AnsweredAllowed DEF PreSend, Caller, Stage
  <2>2. ASSUME NEW a \in CommandLines, PostFailure(a) PROVE PolicyInv'
    <3>1. Allowed(cfg, a, "post", postFailure(cfg, a))
      BY <2>0, PostFailureAllowed
    <3> QED
      BY <2>0, <2>2, <3>1, AnsweredAllowed DEF PostFailure, Caller, Stage
  <2>3. ASSUME NEW a \in CommandLines, NEW stage \in Stage, Check(a, stage) PROVE PolicyInv'
    <3>1. Allowed(cfg, a, stage, EngineVerdict(cfg, a, stage))
      BY <2>0, EngineAllowed
    <3> QED
      BY <2>0, <2>3, <3>1, AnsweredAllowed DEF Check, Caller
  <2>4. CASE Deliver
    BY <2>4 DEF Deliver, PolicyInv, TypeOK
  <2>5. CASE UNCHANGED vars
    BY <2>5 DEF vars, PolicyInv, TypeOK
  <2> QED
    BY <2>1, <2>2, <2>3, <2>4, <2>5 DEF Next
<1> QED
  BY <1>1, <1>2, PTL DEF Spec

\* Under every configuration and for every command line, a rewrite that no
\* learned rule makes is opted in to, safe, and not an installed pack's.
THEOREM EditsOptedIn == Spec => []EditsAreOptedIn
<1>1. PolicyInv => EditsAreOptedIn
  BY DEF PolicyInv, Allowed, EditsAreOptedIn
<1> QED
  BY <1>1, PolicyInvariant, PTL

\* A learned rule stays within the ceiling and within its own action.
THEOREM LearnedBounded == Spec => []LearnedWithinCeiling
<1>1. PolicyInv => LearnedWithinCeiling
  BY DEF PolicyInv, Allowed, LearnedWithinCeiling
<1> QED
  BY <1>1, PolicyInvariant, PTL

\* Nothing is blocked or edited after the fact, nor blocked without a mode
\* that blocks.
THEOREM PreSendActs == Spec => []OnlyPreSendActs
<1>1. PolicyInv => OnlyPreSendActs
  BY DEF PolicyInv, Allowed, OnlyPreSendActs
<1> QED
  BY <1>1, PolicyInvariant, PTL

\* Every answer is a verdict of the policy on a line it was asked about.
THEOREM PolicyTypes == Spec => []TypeOK
<1>1. PolicyInv => TypeOK
  BY DEF PolicyInv
<1> QED
  BY <1>1, PolicyInvariant, PTL

=============================================================================
