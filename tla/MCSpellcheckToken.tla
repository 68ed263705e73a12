------------------------- MODULE MCSpellcheckToken --------------------------
(***************************************************************************)
(* Small instances of the correction of a single token: A and B are the    *)
(* upper case of a and b, and the digit has no case.                       *)
(***************************************************************************)
EXTENDS SpellcheckToken

A == 2
B == 3
a == 4
b == 5
digit == 1

bracket == 6
Caseless == {digit, BLANK, bracket}

(* No two edits make them of a token.                                      *)
MCSpecialNames == [k \in 1 .. 3 |-> [j \in 1 .. k + 2 |-> bracket]]

MCLowerOf == (A :> a) @@ (B :> b) @@ [letter \in {a, b} \union Caseless |-> letter]
MCUpperOf == (a :> A) @@ (b :> B) @@ [letter \in {A, B} \union Caseless |-> letter]

Analysis(form, lemma, tag, count) == [names |-> <<form, <<lemma>>, <<tag>> >>, count |-> count]

(* A sixth set of children on a level refuses its grouping.  In the first  *)
(* file the lemmas are grouped and the tags are not; in the second the     *)
(* lemma follows from the form and the tags are grouped; in the third the  *)
(* lemmas are neither and the tag follows from the lemma.                  *)
MCMorpholexes ==
  {<< Analysis(<<a, b>>, a, a, 1), Analysis(<<a, b>>, a, b, 0), Analysis(<<a, b>>, b, a, 2),
      Analysis(<<a>>, a, b, 3), Analysis(<<b, a, a>>, a, a, 0),
      Analysis(<<a, b, a>>, b, b, 1), Analysis(<<a, b, a>>, a, b, 0) >>,
   << Analysis(<<B, a>>, a, a, 0), Analysis(<<a, b, a>>, b, b, 1),
      Analysis(<<a, b, a>>, b, a, 1), Analysis(<<a, b>>, B, a, 0),
      Analysis(<<digit>>, digit, b, 2), Analysis(<<digit>>, digit, a, 0) >>,
   << Analysis(<<b>>, a, a, 1), Analysis(<<A, b>>, b, b, 0), Analysis(<<A, b>>, a, a, 4),
      Analysis(<<a, b, b>>, b, b, 2), Analysis(<<b, a>>, B, A, 1) >>}

MCEnabledFactors == {{0, 1}, {0, 2}, {0, 1, 2}}
MCFactorWeights == <<1, 2, 1>>

(* The costs are whole, and one of them is in the middle of two centers.   *)
MCEmissionCost(joint, all) ==
  CASE all <= joint -> 0 [] all > joint /\ all <= 2 * joint -> 1
    [] all > 2 * joint /\ all <= 8 * joint -> 3 [] OTHER -> 6
MCCenters == <<0, 2, 3, 5>>

MCLexicons == {Vocabulary(file, 0) : file \in MCMorpholexes}

Defaults(distance) ==
  [kind \in {"case", "s", "i", "d", "swap"} |->
     CASE kind = "case" -> Price(distance, 2)
       [] kind = "s" -> Price(1, 4)
       [] kind = "i" -> Price(1, 5)
       [] kind = "d" -> Price(1, 3)
       [] kind = "swap" -> Price(1, 6)]

ErrorEntries ==
  << [kind |-> "s", letters |-> <<a, b>>, price |-> Price(1, 1)],
     [kind |-> "i", letters |-> <<b, a, BLANK>>, price |-> Price(1, 1)],
     [kind |-> "swap", letters |-> <<b, a>>, price |-> Price(1, 2)] >>

Spellings ==
  [1 .. 1 -> {A, a, b}] \union [1 .. 2 -> {A, a, b}] \union
  {<<x, y, z>> : x \in {A, a}, y \in {a, b}, z \in {a, b}} \union {<<digit>>, <<digit, digit>>}

MCTokens == [str : Spellings, sentence_start : BOOLEAN]

SearchConfig(casing, ed_dist, cost, longest) ==
  [casing |-> casing, max_ed_dist |-> ed_dist, max_cost |-> cost,
   min_length |-> 0, max_length |-> longest]

(* As in the example of the manual, with case for nothing, and one with    *)
(* nothing for nothing, where a search can stop an edit earlier.           *)
MCConfigurations ==
  {[errModel |-> BuildErrorModel(Defaults(0), ErrorEntries),
    search_configs |-> <<SearchConfig("case_sensitive", 1, 4, 0),
                         SearchConfig("ignore_case_keep_orig", 1, 4, 0),
                         SearchConfig("ignore_case", 2, 8, 0)>>],
   [errModel |-> BuildErrorModel(Defaults(1), ErrorEntries),
    search_configs |-> <<SearchConfig("case_sensitive", 1, 6, 2),
                         SearchConfig("case_sensitive", 2, 9, 0)>>]}

MCEarlier == {[type |-> "SPELLING", correction |-> <<b>>,
               alternatives |-> << <<a, b>>, <<a>> >>]}

(* What the theorems take for granted holds here.                          *)
ASSUME ModelsAssumption ==
  SwapsCostSomething /\ FreeEditsAreCounted /\ MorphologyIsRead
=============================================================================
