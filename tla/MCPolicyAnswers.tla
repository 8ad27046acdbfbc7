--------------------------- MODULE MCPolicyAnswers ---------------------------
(***************************************************************************)
(* Every configuration, and command lines in three families: what a pack   *)
(* matches, what a learned rule matches, what the engine alone finds.      *)
(***************************************************************************)
EXTENDS PolicyAnswers

MCConfigs == {c \in Config : c.undo}

NoCurated == [source |-> "none", risk |-> "safe", secret |-> FALSE, renderable |-> FALSE]
Nothing == [class |-> "none", source |-> "bundled", confidence |-> 0,
            risk |-> "safe", splice |-> "ok"]
Certain == [class |-> "semantic", source |-> "installed", confidence |-> 95,
            risk |-> "high", splice |-> "ok"]

\* Confidences on both sides of every threshold the policy compares with.
Confidences == {59, 60, 75, 79, 80, 89, 90}
Found == [class : {"command", "semantic", "path"}, source : {"bundled", "installed"},
          confidence : Confidences, risk : Risk, splice : {"ok", "quoted", "lost"}]

Line(supported, excepted, learnable, curated, learned, engine) ==
  [supported |-> supported, excepted |-> excepted, learnable |-> learnable,
   curated |-> curated, learned |-> learned, engine |-> engine]

PackLines ==
  {Line(s, x, TRUE, c, l, Certain) :
     s \in BOOLEAN, x \in BOOLEAN, c \in CuratedMatch, l \in {"none", "rewrite"}}
LearnedLines ==
  {Line(s, x, n, NoCurated, l, e) :
     s \in BOOLEAN, x \in BOOLEAN, n \in BOOLEAN,
     l \in LearnedAction \cup {"none"}, e \in {Nothing, Certain}}
EngineLines ==
  {Line(TRUE, FALSE, TRUE, NoCurated, "none", e) :
     e \in {d \in Found : d.source = "installed" => d.class = "semantic"}}

MCCommandLines == PackLines \cup LearnedLines \cup EngineLines
=============================================================================
