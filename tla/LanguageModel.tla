--------------------------- MODULE LanguageModel ---------------------------
(***************************************************************************)
(* The language model of one factor: how src/src/language_model turns an   *)
(* ARPA model into a tree of n-grams and how an n-gram is looked up in it. *)
(*                                                                         *)
(* Word ids are natural numbers.  An n-gram is a sequence of ids with the  *)
(* next word first and the most recent history after it, as in the tree.   *)
(* A model is a function from n-grams to records [prob, bow] of costs      *)
(* (negative logarithms, integers here).  The packed arrays that hold the  *)
(* levels of the tree are abstracted to that function, and the costs are   *)
(* taken as they are after the quantisation of these arrays.               *)
(***************************************************************************)
EXTENDS Integers, FiniteSets, Sequences, SequencesExt

CONSTANT NotInLM  \* not_in_lm_cost

ASSUME NotInLMAssumption == NotInLM \in Int

Entry(prob, bow) == [prob |-> prob, bow |-> bow]

Grams(lm) == DOMAIN lm
Start(gram, n) == SubSeq(gram, 1, n)
Starts(gram) == {Start(gram, n) : n \in 1 .. Len(gram)}

(* Greatest of the numbers in S, 0 for none.                               *)
Longest(S) == IF S = {} THEN 0 ELSE CHOOSE n \in S : \A k \in S : k <= n

-----------------------------------------------------------------------------

(* The n-grams "adding aux nodex" adds, so that every n-gram has a path in *)
(* the tree: starts of n-grams that the ARPA model does not contain.  Such *)
(* a node gets the cost of its longest start that the model does contain.  *)
AuxGrams(arpa) == (UNION {Starts(gram) : gram \in Grams(arpa)}) \ Grams(arpa)

AuxEntry(arpa, gram) ==
  LET known == {n \in 1 .. Len(gram) - 1 : Start(gram, n) \in Grams(arpa)}
  IN  Entry(arpa[Start(gram, Longest(known))].prob, 0)

(* "inserting missing unigrams": ids below the greatest one of a unigram.  *)
UnigramIds(arpa) == {gram[1] : gram \in {g \in Grams(arpa) : Len(g) = 1}}

MissingUnigrams(arpa) == {<<id>> : id \in 0 .. Longest(UnigramIds(arpa)) - 1} \ Grams(arpa)

CreateFromText(arpa) ==
  [gram \in Grams(arpa) \union AuxGrams(arpa) \union MissingUnigrams(arpa) |->
     IF gram \in Grams(arpa) THEN arpa[gram]
     ELSE IF gram \in AuxGrams(arpa) THEN AuxEntry(arpa, gram)
     ELSE Entry(NotInLM, 0)]

(* GetNGramForNGramKey: down the tree as long as there is a node.          *)
GetNGram(lm, key) ==
  LET order == Longest({n \in 1 .. Len(key) : \A k \in 1 .. n : Start(key, k) \in Grams(lm)})
  IN  [order   |-> order,
       prob    |-> IF order = 0 THEN NotInLM ELSE lm[Start(key, order)].prob,
       backoff |-> IF order = 0 THEN 0 ELSE lm[Start(key, order)].bow]

-----------------------------------------------------------------------------

(***************************************************************************)
(* The reference: the cost of an n-gram in a back-off model.  It is the    *)
(* cost of the longest start of the n-gram in the ARPA model, and for      *)
(* every word of the history that was left out the back-off weight of the  *)
(* history up to that word.                                                *)
(***************************************************************************)
BackOffWeight(arpa, context) == IF context \in Grams(arpa) THEN arpa[context].bow ELSE 0

(* The sum of the first k numbers, for every k.                            *)
Sums(numbers) ==
  LET sum[k \in 0 .. Len(numbers)] ==
        IF k = 0 THEN 0 ELSE sum[k - 1] + numbers[k]
  IN  sum

Total(numbers) == Sums(numbers)[Len(numbers)]

Matched(arpa, key) == Longest({n \in 1 .. Len(key) : Start(key, n) \in Grams(arpa)})

MatchedCost(arpa, key) ==
  IF Matched(arpa, key) = 0 THEN NotInLM ELSE arpa[Start(key, Matched(arpa, key))].prob

Weights(arpa, key) ==
  [n \in 1 .. Len(key) - 1 |->
     IF n >= Matched(arpa, key) THEN BackOffWeight(arpa, SubSeq(key, 2, n + 1)) ELSE 0]

BackedOffCost(arpa, key) == MatchedCost(arpa, key) + Total(Weights(arpa, key))

(* Models in which nothing is missing: with an n-gram all its starts.      *)
HasAllStarts(arpa) == AuxGrams(arpa) = {}
=============================================================================
