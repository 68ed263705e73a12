--------------------------- MODULE MCConfiguration ---------------------------
(* A small instance of Configuration: every file of up to five lines with   *)
(* two lexicons that number their factors differently and one with a single *)
(* factor, models of known and unknown factors with different orders, 0      *)
(* among them, and lines that fail.                                         *)
EXTENDS Configuration

Morpholex(names) == [kind |-> "morpholex", factors |-> names]
Lm(factor, order, weight) ==
  [kind |-> "lm", factor |-> factor, order |-> order, weight |-> weight]
Value(kind, n) == [kind |-> kind, value |-> n]

MCLines ==
  {Morpholex(<<"form", "tag">>), Morpholex(<<"tag", "form">>),
   Morpholex(<<"form">>),
   Lm("form", 2, 1), Lm("form", 3, 2), Lm("tag", 2, 1), Lm("other", 0, 1)}
  \cup {[kind |-> k] : k \in {"errormodel", "diagnostics", "ignored", "rejected"}}
  \cup {[kind |-> "search", search |-> n] : n \in 1 .. 2}
  \cup {Value("viterbi_order", n) : n \in {0, 3}}
  \cup {Value("viterbi_beam_size", 2), Value("viterbi_stage_pruning", 3)}

MCOptions ==
  [viterbi_order : {0, 4}, viterbi_beam_size : {0, 5},
   viterbi_stage_pruning : {0, 6}]
==============================================================================
