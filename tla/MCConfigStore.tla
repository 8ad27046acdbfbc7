---------------------------- MODULE MCConfigStore ----------------------------
(***************************************************************************)
(* Files of the schemas that migrate tells apart, with and without a mode. *)
(***************************************************************************)
EXTENDS ConfigStore, TLC

File(version, set) == [version |-> version, set |-> set]

MCGlobalFiles ==
  {File(1, [mode |-> "rewrite", auto |-> TRUE]),
   File(4, [mode |-> "interrupt", risk |-> TRUE, curated |-> FALSE]),
   File(5, [mode |-> "interrupt", history |-> TRUE, curated |-> FALSE])}

\* Versionless files count as version 0.
MCProjectFiles ==
  {File(0, [mode |-> "interrupt"]), File(7, [mode |-> "interrupt", auto |-> TRUE]),
   File(7, [history |-> TRUE])}

MCOverrides == {<< >>, [auto |-> TRUE]}

MCSettings == {[mode |-> "rewrite"], [curated |-> FALSE]}

Symmetric == Permutations(Editor) \cup Permutations(Command)
=============================================================================
