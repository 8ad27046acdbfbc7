--------------------------- MODULE MCDaemonService ---------------------------
(***************************************************************************)
(* Small instances of DaemonService for TLC.                               *)
(***************************************************************************)
EXTENDS DaemonService, TLC

\* Rewrite mode with every permission given: all answers are reachable.
MCCfg == [mode |-> "rewrite", autoApplySafe |-> TRUE, riskInterrupt |-> TRUE,
          curatedPacks |-> TRUE, learning |-> TRUE, ceiling |-> "rewrite", undo |-> TRUE]

NoCurated == [source |-> "none", risk |-> "safe", secret |-> FALSE, renderable |-> TRUE]
NoEngine == [class |-> "none", source |-> "bundled", confidence |-> 0, risk |-> "safe",
             splice |-> "ok"]
Plain == [supported |-> TRUE, excepted |-> FALSE, learnable |-> TRUE, curated |-> NoCurated,
          learned |-> "none", engine |-> NoEngine]

\* A bundled pack knows the line as high-risk, or has a safe repair for it; or
\* the engine is sure the line is a path typo with unknown risk.
RiskyLine == [Plain EXCEPT !.curated = [NoCurated EXCEPT !.source = "bundled", !.risk = "high"]]
RepairLine == [Plain EXCEPT !.curated = [NoCurated EXCEPT !.source = "bundled"]]
TypoLine == [Plain EXCEPT !.engine = [NoEngine EXCEPT !.class = "path", !.confidence = 95,
                                                      !.risk = "unknown"]]

MCLines == [c \in Command |->
  CASE c = "risky" -> RiskyLine [] c = "typo" -> TypoLine
    [] c = "repair" -> RepairLine [] OTHER -> Plain]

\* "plain2" is another spelling of "plain".
MCNormal == [c \in Command |-> IF c = "plain2" THEN "plain" ELSE c]

Sessions == Permutations(Session) \cup Permutations(Handler)
==============================================================================
