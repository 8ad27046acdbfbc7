---------------------------- MODULE MCPackStore ----------------------------
(***************************************************************************)
(* PackStore for TLC: two builds of one version under different keys, one  *)
(* of which contends with itself, a pack that contends with a bundled one, *)
(* and one that does not compile.                                          *)
(***************************************************************************)
EXTENDS PackStore, TLC

CONSTANTS k1, k2, c1, c2

APack(id, version, build, rules, distinct, valid) ==
  [id |-> id, version |-> version, build |-> build, publisher |-> "acme",
   rules |-> rules, distinct |-> distinct, valid |-> valid]

First == APack("a", 1, "x", {"r"}, TRUE, TRUE)
Rebuilt == APack("a", 1, "y", {"r"}, FALSE, TRUE)
Contends == APack("b", 1, "x", {"git"}, TRUE, TRUE)
Broken == APack("b", 1, "y", {"s"}, TRUE, FALSE)
Core == APack("core", 1, "x", {"git"}, TRUE, TRUE)

MCPacks == {First, Rebuilt, Contends, Broken}
MCSignatures ==
  {[of |-> First, by |-> k1], [of |-> Rebuilt, by |-> k2],
   [of |-> Contends, by |-> k1], [of |-> Broken, by |-> k1]}
MCBundled == {Core}
Ring(key, revoked) == [trusted |-> [p \in {"acme"} |-> key], revoked |-> revoked]
MCKeyrings == {Ring(NoKey, {}), Ring(k1, {}), Ring(k1, {"acme"})}

Symmetry == Permutations(Command)

=============================================================================
