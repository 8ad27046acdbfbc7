--------------------------- MODULE MCShellAdapter ---------------------------
(* A line for every verdict, a rewrite whose result would be rewritten       *)
(* again, and two lines that differ in case.                                 *)
EXTENDS ShellAdapter

MCVerdict ==
  [l \in Line |-> CASE l \in {"wrong", "almost"} -> "rewrite"
                   [] l = "FINE" -> "hint"
                   [] l = "risky" -> "confirm"
                   [] OTHER -> "none"]
MCFix ==
  [l \in Line |-> IF l = "wrong" THEN "almost" ELSE IF l = "risky" THEN "FINE" ELSE "fine"]
MCFold == [l \in Line |-> IF l = "FINE" THEN "fine" ELSE l]

=============================================================================
