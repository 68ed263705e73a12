-------------------------- MODULE MCTransitionCost --------------------------
(***************************************************************************)
(* Small instances of the transition costs: trigram models over the ids 0  *)
(* and 1, and a third id that no model knows.                              *)
(***************************************************************************)
EXTENDS TransitionCost

Unigrams == {{<<0>>, <<1>>}, {<<1>>}}
LongerGrams == {<<0, 1>>, <<1, 0>>, <<1, 1>>, <<0, 1, 1>>, <<1, 1, 0>>}

(* Costs by which the n-grams can be told apart; unknown ids are -1.       *)
Code(gram) == FoldLeft(LAMBDA code, id : 4 * code + id + 1, 0, gram)
ArpaOver(grams) == [gram \in grams |-> Entry(100 * Code(gram), Code(gram))]

AllArpas ==
  {ArpaOver(unigrams \union longer) :
     unigrams \in Unigrams,
     longer \in {grams \in SUBSET LongerGrams :
                   Cardinality(grams) = 3}}

WordsAreKnown(model) ==
  \A gram \in Grams(model) : \A k \in DOMAIN gram : <<gram[k]>> \in Grams(model)

MCArpas == {model \in AllArpas : WordsAreKnown(model) /\ HasAllStarts(model)}

MCPossibility == {0, 1, 2}
MCFactorId(f, p) == IF f = 1 THEN p ELSE IF p = 2 THEN 1 ELSE p

SameOrder == [f \in {1, 3} |-> 3]
MixedOrder == [f \in {1, 3} |-> IF f = 1 THEN 3 ELSE 2]
MCWeight == [f \in {1, 3} |-> f]

MCFactors == {1, 3}
=============================================================================
