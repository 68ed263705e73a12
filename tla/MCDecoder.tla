----------------------------- MODULE MCDecoder -----------------------------
(***************************************************************************)
(* Small instances of the decoder.  Every word has an unknown spelling     *)
(* "a" that costs nothing and a correction "b" or "c"; "b" and "d" differ  *)
(* only in a factor that no language model uses (see SharedIds).           *)
(***************************************************************************)
EXTENDS Decoder

MCPossibility == {"s", "e", "a", "b", "c", "d"}

MCEmission == [p \in MCPossibility |->
  CASE p \in {"s", "e", "a"} -> 0
    [] p \in {"b", "d"} -> 1
    [] p = "c" -> 2]

DistinctIds == [p \in MCPossibility |-> p]
SharedIds == [DistinctIds EXCEPT !["d"] = "b"]

(* A model is the set of the n-grams it likes; they are given by what they *)
(* look like, so that every context a run meets has a cost of its own.     *)
Features == {"repeat", "fromStart", "skip", "final"}

MCModels == SUBSET Features

HasFeature(gram, feature) ==
  LET size == Len(gram) IN
  CASE feature = "repeat"    -> size > 1 /\ gram[size] = gram[size - 1]
    [] feature = "fromStart" -> gram[1] = "s" /\ gram[size] # "a"
    [] feature = "skip"      -> gram[1] = "b" /\ gram[size] # "b"
    [] feature = "final"     -> gram[size] = "e" /\ gram[1] = "c"

LikedFeatures(m, gram) == {feature \in m : HasFeature(gram, feature)}

(* Likes lower the cost of an unknown n-gram: 3, 1, 0.                     *)
MCTransition(m, gram) ==
  LET likes == Cardinality(LikedFeatures(m, gram))
  IN  IF likes = 0 THEN 3 ELSE IF likes = 1 THEN 1 ELSE 0

(* With and without the small negative costs quantisation leads to.        *)
MCModelsQuantised == MCModels \X {0, 1}
MCTransitionQuantised(m, gram) == MCTransition(m[1], gram) - m[2]

SentencesOver(choices, lengths) == UNION {[1 .. n -> choices] : n \in lengths}

MCSentences == SentencesOver({{"a", "b"}, {"a", "b", "c"}}, {2, 3})
MCSentencesShared ==
  SentencesOver({{"a", "b", "d"}, {"b", "c"}, {"a", "b", "c"}}, {2, 3})
=============================================================================
