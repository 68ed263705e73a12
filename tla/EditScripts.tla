---------------------------- MODULE EditScripts -----------------------------
(***************************************************************************)
(* What a search of the lexicon promises: the words that some sequence of  *)
(* edits, from left to right, makes of a spelling within the limits.  Here *)
(* there is no trie, no order and no shared buffer: a script is what is    *)
(* left of the spelling, what it has become, and the price so far.         *)
(***************************************************************************)
EXTENDS ErrorModel

Untouched(str) == [word |-> str, i |-> 0, spelled |-> <<>>, edit_dist |-> 0, cost |-> 0]

Steps(s, words, model, ignore_case) ==
  LET letters == UNION {Range(w) : w \in words}
      at(k)   == IF k \in DOMAIN s.word THEN s.word[k] ELSE BLANK
      next    == s.i + 1
      Step(price, i, new, w) ==
        [word |-> w, i |-> i, spelled |-> s.spelled \o new,
         edit_dist |-> s.edit_dist + price.edit_dist, cost |-> s.cost + price.cost]
      kept == {Step(Free, next, <<at(next)>>, s.word)}
      skipped == {Step(InsertionCost(model, at(next), at(next - 1), at(next + 1)),
                       next, <<>>, s.word)}
      replaced == {Step(SubstitutionCost(model, at(next), c, ignore_case),
                        next, <<c>>, s.word) : c \in letters \ {at(next)}}
      swapped == {Step(SwapCost(model, at(next), at(next + 1)), s.i, <<>>,
                       [s.word EXCEPT ![next] = at(next + 1), ![next + 1] = at(next)])}
      added == {Step(DeletionCost(model, c, BLANK), s.i, <<c>>, s.word) : c \in letters}
  IN  added
        \union (IF s.i < Len(s.word) THEN kept \union replaced ELSE {})
        \union (IF s.i < Len(s.word) /\ Len(s.word) > 1 THEN skipped ELSE {})
        \union (IF s.i < Len(s.word) - 1 THEN swapped ELSE {})

Allowed(s, words, limits) ==
  /\ s.edit_dist <= limits.max_edit_distance
  /\ s.cost <= limits.cost_limit
  /\ \E w \in words : IsPrefix(s.spelled, w)

(* Every step but a swap moves on in the spelling or in a word, and swaps  *)
(* have a distance.                                                        *)
Scripts(str, words, model, limits) ==
  LET longest == Len(str) + Max({Len(w) : w \in words}) + limits.max_edit_distance
      Reach[n \in 0 .. longest] ==
        IF n = 0 THEN {Untouched(str)}
        ELSE LET shorter == Reach[n - 1]
             IN  shorter \union
                   {s \in UNION {Steps(r, words, model, limits.ignore_case) :
                                   r \in shorter} :
                      Allowed(s, words, limits)}
  IN  {s \in Reach[longest] : s.i = Len(s.word) /\ s.spelled \in words}
=============================================================================
