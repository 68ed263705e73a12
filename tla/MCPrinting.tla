----------------------------- MODULE MCPrinting -----------------------------
(***************************************************************************)
(* Texts of up to four units, of which "h" and "l" are a surrogate pair,   *)
(* and one input format at a time.                                         *)
(***************************************************************************)
EXTENDS Printing

MCTexts ==
  {t \in UNION {[1 .. n -> {"a", "h", "l", "nl"}] : n \in 0 .. 4} :
     \A k \in 1 .. Len(t) :
       /\ t[k] = "h" => IsPairAt(t, k)
       /\ t[k] = "l" => IsPairAt(t, k - 1)}

Vertical(block) == {VerticalTokens(block)}
=============================================================================
