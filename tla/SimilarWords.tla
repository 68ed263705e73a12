---------------------------- MODULE SimilarWords ----------------------------
(***************************************************************************)
(* Lexicon::GetSimilarWords: the depth-first search of the trie for the    *)
(* words that an erroneous spelling may stand for.  A call of              *)
(* GetSimilarWords_impl follows the word from a position; everywhere it    *)
(* tries each single edit, looks for the rest of the word unchanged, and   *)
(* calls itself for more edits.  All calls share two buffers, the word,    *)
(* whose letters a swap exchanges in place, and prefix, the letters        *)
(* spelled so far; each call has to leave them as it found them.           *)
(*                                                                         *)
(* A frame of the stack is a call; the top is the last.  i counts from 0.  *)
(***************************************************************************)
EXTENDS Lexicon, ErrorModel

VARIABLES
  lexicon, errModel,
  limits,     \* max_edit_distance, cost_limit and ignore_case of the search
  word, prefix,
  stack,
  found       \* the map of the outermost call, {} before it returns

searchVars == <<lexicon, errModel, limits, word, prefix, stack, found>>

Frame(edit_distance, cost, state, start, size) ==
  [edit_distance |-> edit_distance, cost |-> cost, state |-> state,
   start |-> start, i |-> start, init_prefix_size |-> size,
   at |-> "letter",         \* the part of the loop's body
   j |-> 0,                 \* the arc in the loops over arcs
   next_state |-> NONE, ret |-> <<>>]

Top == Last(stack)
SetTop(frame) == stack' = Append(Front(stack), frame)
Letter(k) == word[k + 1]
Arcs(frame) == FirstLastIndexPair(lexicon, frame.state)
ArcChar(frame) == lexicon.arcs_char[frame.j + 1]
ArcTarget(frame) == lexicon.arcs_nextstate[frame.j + 1]

(* A word that is known keeps its spelling and gets the lower cost.        *)
AddSimilarWord(ret, id, cost, spelling) ==
  [known \in DOMAIN ret \union {id} |->
     CASE known # id -> ret[known]
       [] known = id /\ id \in DOMAIN ret ->
            [ret[id] EXCEPT !.cost = IF cost < @ THEN cost ELSE @]
       [] OTHER -> [spelling |-> spelling, cost |-> cost]]

(* What map::insert leaves: the first entry, even of a higher cost.        *)
Inserted(ret, more) ==
  [id \in DOMAIN ret \union DOMAIN more |->
     IF id \in DOMAIN ret THEN ret[id] ELSE more[id]]

-----------------------------------------------------------------------------
(* The edits that are tried, as what they leave: the price, the node, the  *)
(* position, and both buffers.                                             *)

Edit(price, state, i, w, p) ==
  [price |-> price, state |-> state, i |-> i, word |-> w, prefix |-> p]

Context(k) == IF k \in 0 .. Len(word) - 1 THEN Letter(k) ELSE BLANK

SkipLetter(f) ==
  Edit(InsertionCost(errModel, Letter(f.i), Context(f.i - 1), Context(f.i + 1)),
       f.state, f.i + 1, word, prefix)

Substitution(f) ==
  Edit(SubstitutionCost(errModel, Letter(f.i), ArcChar(f), limits.ignore_case),
       ArcTarget(f), f.i + 1, word, Append(prefix, ArcChar(f)))

Swapped(w, i) == [w EXCEPT ![i + 1] = w[i + 2], ![i + 2] = w[i + 1]]

Swap(f) ==
  Edit(SwapCost(errModel, Letter(f.i), Letter(f.i + 1)),
       f.state, f.i, Swapped(word, f.i), prefix)

AddLetter(f) ==
  Edit(DeletionCost(errModel, ArcChar(f), BLANK),
       ArcTarget(f), f.i, word, Append(prefix, ArcChar(f)))

CostAfter(f, edit) == f.cost + edit.price.cost
DistanceAfter(f, edit) == f.edit_distance + edit.price.edit_dist

WithinLimits(f, edit) ==
  /\ CostAfter(f, edit) <= limits.cost_limit
  /\ DistanceAfter(f, edit) <= limits.max_edit_distance

MoreEditsFit(f, edit) ==
  DistanceAfter(f, edit) + MinOperationEditDistance(errModel)
    <= limits.max_edit_distance

(* The rest of the word, unchanged, after the edit.                        *)
WithRest(f, edit) ==
  LET id == ContainsSuffix(lexicon, edit.state, edit.word, edit.i)
      rest == SubSeq(edit.word, edit.i + 1, Len(edit.word))
  IN  IF id = NONE THEN f.ret
      ELSE AddSimilarWord(f.ret, id, CostAfter(f, edit), edit.prefix \o rest)

(* Without a further call the buffers are changed and restored in the same *)
(* step.  after is the frame with which the loop goes on; while the call   *)
(* lasts the frame stays where it is.                                      *)
Try(edit, after) ==
  LET f == Top
  IN  CASE ~WithinLimits(f, edit) ->
             SetTop(after) /\ UNCHANGED <<word, prefix>>
        [] WithinLimits(f, edit) /\ ~MoreEditsFit(f, edit) ->
             /\ SetTop([after EXCEPT !.ret = WithRest(f, edit)])
             /\ UNCHANGED <<word, prefix>>
        [] OTHER ->
             /\ stack' = Front(stack)
                  \o <<[f EXCEPT !.ret = WithRest(f, edit)],
                       Frame(DistanceAfter(f, edit), CostAfter(f, edit),
                             edit.state, edit.i, Len(edit.prefix))>>
             /\ word' = edit.word
             /\ prefix' = edit.prefix

-----------------------------------------------------------------------------
(* Where the loop goes on: the next arc, or the first one of the other     *)
(* loop over arcs, or the end of the body.                                 *)
At(f, place) == [f EXCEPT !.at = place, !.j = Arcs(f)[1]]
AfterSkip(f) == At(f, "substitute")
AfterArc(f) == [f EXCEPT !.j = @ + 1]
AfterSwap(f) == At(f, "add")

AtArc(place) ==
  /\ stack # <<>> /\ Top.at = place
  /\ Top.j <= Arcs(Top)[2]

AfterArcs(place) ==
  /\ stack # <<>> /\ Top.at = place
  /\ Top.j > Arcs(Top)[2]

Settled == UNCHANGED <<lexicon, errModel, limits, found>>

BeginLetter ==
  /\ stack # <<>> /\ Top.at = "letter"
  /\ LET f == Top
         spelled == IF f.i > f.start THEN Append(prefix, Letter(f.i - 1)) ELSE prefix
         ret == IF f.i = Len(word) /\ StateIsWord(lexicon, f.state)
                THEN AddSimilarWord(f.ret, f.state, f.cost, spelled) ELSE f.ret
         here == [f EXCEPT !.ret = ret, !.next_state = NONE]
     IN  /\ prefix' = spelled
         /\ SetTop(CASE f.i = Len(word) -> At(here, "add")
                     [] f.i < Len(word) /\ Len(word) > 1 -> At(here, "skip")
                     [] OTHER -> AfterSkip(here))
  /\ UNCHANGED word
  /\ Settled

TrySkip ==
  /\ stack # <<>> /\ Top.at = "skip"
  /\ Try(SkipLetter(Top), AfterSkip(Top))
  /\ Settled

FollowLetter ==
  /\ AtArc("substitute")
  /\ ArcChar(Top) = Letter(Top.i)
  /\ SetTop([AfterArc(Top) EXCEPT !.next_state = ArcTarget(Top)])
  /\ UNCHANGED <<word, prefix>>
  /\ Settled

TrySubstitution ==
  /\ AtArc("substitute")
  /\ ArcChar(Top) # Letter(Top.i)
  /\ Try(Substitution(Top), AfterArc(Top))
  /\ Settled

TrySwap ==
  /\ AfterArcs("substitute")
  /\ Top.i < Len(word) - 1
  /\ Try(Swap(Top), AfterSwap(Top))
  /\ Settled

NoSwap ==
  /\ AfterArcs("substitute")
  /\ Top.i >= Len(word) - 1
  /\ SetTop(AfterSwap(Top))
  /\ UNCHANGED <<word, prefix>>
  /\ Settled

TryAddition ==
  /\ AtArc("add")
  /\ Try(AddLetter(Top), AfterArc(Top))
  /\ Settled

NextLetter ==
  /\ AfterArcs("add")
  /\ Top.next_state # NONE
  /\ SetTop([Top EXCEPT !.at = "letter", !.i = @ + 1, !.state = Top.next_state])
  /\ UNCHANGED <<word, prefix>>
  /\ Settled

-----------------------------------------------------------------------------
(* The end of a call, and in its caller the end of the edit it was for.    *)

Truncated(f) == SubSeq(prefix, 1, f.init_prefix_size)

(* Substitutions and additions have appended a letter, swaps have changed  *)
(* the word.                                                               *)
AppendedLetter(caller) ==
  caller.at \in {"substitute", "add"} /\ caller.j <= Arcs(caller)[2]
HasSwapped(caller) ==
  caller.at = "substitute" /\ caller.j > Arcs(caller)[2]

Resumed(caller) ==
  CASE AppendedLetter(caller) -> AfterArc(caller)
    [] HasSwapped(caller)     -> AfterSwap(caller)
    [] OTHER                  -> AfterSkip(caller)

(* A mutant of RestoredWord: the two letters stay exchanged.               *)
RestoredWordSwapped(caller) == word

RestoredPrefix(f, caller) ==
  IF AppendedLetter(caller) THEN Front(Truncated(f)) ELSE Truncated(f)

RestoredWord(caller) ==
  IF HasSwapped(caller) THEN Swapped(word, caller.i) ELSE word

Ends(f) == f.next_state = NONE

ReturnToCaller ==
  /\ AfterArcs("add") /\ Ends(Top)
  /\ Len(stack) > 1
  /\ LET caller == stack[Len(stack) - 1]
     IN  /\ stack' = SubSeq(stack, 1, Len(stack) - 2)
               \o <<[Resumed(caller) EXCEPT !.ret = Inserted(@, Top.ret)]>>
         /\ prefix' = RestoredPrefix(Top, caller)
         /\ word' = RestoredWord(caller)
  /\ Settled

ReturnSimilarWords ==
  /\ AfterArcs("add") /\ Ends(Top)
  /\ Len(stack) = 1
  /\ stack' = <<>>
  /\ prefix' = Truncated(Top)
  /\ found' = Top.ret
  /\ UNCHANGED <<lexicon, errModel, limits, word>>

SearchStep ==
  \/ BeginLetter \/ TrySkip \/ FollowLetter \/ TrySubstitution
  \/ TrySwap \/ NoSwap \/ TryAddition \/ NextLetter
  \/ ReturnToCaller \/ ReturnSimilarWords

(* The call of GetSimilarWords.                                            *)
GetSimilarWords(spelling, newLimits) ==
  /\ stack' = <<Frame(0, 0, lexicon.root_id, 0, 0)>>
  /\ word' = spelling
  /\ prefix' = <<>>
  /\ limits' = newLimits
  /\ UNCHANGED <<lexicon, errModel, found>>
=============================================================================
