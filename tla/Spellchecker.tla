---------------------------- MODULE Spellchecker ----------------------------
(***************************************************************************)
(* Spellchecker::Spellcheck (src/src/spellchecker/spellchecker.cpp): what  *)
(* becomes of the path the decoder has chosen for a sentence.  Tokens that *)
(* stay as they are are passed over; for the others the alternatives are   *)
(* selected by Alternatives, whose possibilities are measured with this    *)
(* sentence's n-gram windows.  To measure one, the code writes it into     *)
(* decoded_corrections itself, and puts the correction back afterwards.    *)
(*                                                                         *)
(* The decoder may return any path through the stages: Decoder shows that  *)
(* its result is one (ResultFollowsStages), and nothing here needs it to   *)
(* be the cheapest.                                                        *)
(***************************************************************************)
EXTENDS Alternatives

CONSTANTS
  ModelOrder,      \* model_order
  Transition(_, _),\* cost of a window of ModelOrder possibilities in a model
  Sentences        \* records [model, stages, path, unknown], see below

(* Possibilities have a form, an emission cost, and say whether they are   *)
(* the original; stages are sorted by emission cost.                       *)
Tokens(s) == Len(s.stages) - ModelOrder
Position(t) == t + ModelOrder - 1

Choices(s, i) == {s.stages[i][j] : j \in 1 .. Len(s.stages[i])}

ASSUME SentencesAssumption ==
  /\ ModelOrder \in Nat \ {0}
  /\ \A s \in Sentences :
       /\ Len(s.stages) \in Nat /\ Len(s.stages) > ModelOrder
       /\ s.path = [i \in 1 .. Len(s.stages) |-> s.path[i]]
       /\ \A i \in 1 .. Len(s.stages) :
            /\ s.path[i] \in Choices(s, i)
            /\ Len(s.stages[i]) \in 0 .. MaxPossibilities
            /\ \A j \in 1 .. Len(s.stages[i]) :
                 /\ s.stages[i][j].form \in Form
                 /\ s.stages[i][j].emission \in Int
                 /\ j > 1 => s.stages[i][j - 1].emission <= s.stages[i][j].emission

(* The windows that token t takes part in; the last one ends with </s>.    *)
Windows(s, t) == {k \in 0 .. ModelOrder - 1 : t + k <= Tokens(s) + 1}

(* The costs the loop sees for the possibility p of token t, which is on   *)
(* the path: its emission cost, and what it adds up to after each window.  *)
Measured(s, path, t, p) ==
  LET Window(k) == SubSeq(path, t + k, t + k + ModelOrder - 1)
      size == Cardinality(Windows(s, t))
      cost[k \in 0 .. size] ==
        IF k = 0 THEN p.emission
        ELSE cost[k - 1] + Transition(s.model, Window(k - 1))
  IN  [form |-> p.form, costs |-> [k \in 1 .. size + 1 |-> cost[k - 1]]]

Analysis(s, path, t, p) == Measured(s, [path EXCEPT ![Position(t)] = p], t, p)

(* The constant Analyses of Alternatives holds whatever is measured.       *)
ASSUME AnalysesOfSentences ==
  \A s \in Sentences : \A t \in 1 .. Tokens(s) :
    \A p \in Choices(s, Position(t)) :
      /\ Analysis(s, s.path, t, p) \in Analyses
      /\ EmissionProb(Analysis(s, s.path, t, p)) = p.emission

VARIABLES
  sentence,    \* the sentence that is spellchecked
  decoded,     \* decoded_corrections
  token,       \* i, from 1
  alternative, \* how many of the token's possibilities were looked at
  original,    \* the local "correction", put back when they all were
  corrections, \* the answer
  phase        \* "tokens" or "alternatives"

spellVars == <<sentence, decoded, token, alternative, original, corrections, phase>>
allVars == <<vars, spellVars>>

-----------------------------------------------------------------------------

Correction == decoded[Position(token)]

SpellInit ==
  /\ Init
  /\ sentence \in Sentences
  /\ decoded = sentence.path
  /\ token = 1
  /\ alternative = 0
  /\ original = sentence.path[1]
  /\ correction = original.form
  /\ corrections = <<>>
  /\ phase = "tokens"

(* The possibility is the token itself.                                    *)
KeepToken ==
  /\ phase = "tokens"
  /\ token <= Tokens(sentence)
  /\ Correction.original
  /\ corrections' = Append(corrections, [type |-> "NONE", alternatives |-> <<>>])
  /\ token' = token + 1
  /\ UNCHANGED <<vars, sentence, decoded, alternative, original, phase>>

CorrectToken ==
  /\ phase = "tokens"
  /\ token <= Tokens(sentence)
  /\ ~Correction.original
  /\ NextToken
  /\ correction' = Correction.form
  /\ original' = Correction
  /\ alternative' = 0
  /\ phase' = "alternatives"
  /\ UNCHANGED <<sentence, decoded, token, corrections>>

(* The next possibility replaces the correction on the path, unless it is  *)
(* of the same form or its emission cost is too high already.              *)
MeasureAlternative ==
  /\ phase = "alternatives"
  /\ alternative < Len(sentence.stages[Position(token)])
  /\ LET p == sentence.stages[Position(token)][alternative + 1]
         a == Analysis(sentence, decoded, token, p)
     IN  /\ Consider(a)
         /\ decoded' =
              IF p.form = correction
                 \/ (HaveCurrentBest(a) /\ EmissionProb(a) > CurrentBest(a))
                THEN decoded ELSE [decoded EXCEPT ![Position(token)] = p]
  /\ alternative' = alternative + 1
  /\ UNCHANGED <<sentence, token, original, corrections, phase>>

(* A mutant of Restored: the path is left as it was measured last.         *)
RestoredNothing == decoded
Restored == [decoded EXCEPT ![Position(token)] = original]

RestoreCorrection ==
  /\ phase = "alternatives"
  /\ alternative = Len(sentence.stages[Position(token)])
  /\ StartStoring
  /\ decoded' = Restored
  /\ UNCHANGED <<sentence, token, alternative, original, corrections, phase>>

StoreAlternative ==
  /\ phase = "alternatives"
  /\ StoreWorst
  /\ UNCHANGED spellVars

FinishToken ==
  /\ phase = "alternatives"
  /\ pc = "store"
  /\ Kept = {}
  /\ corrections' = Append(corrections,
       [type |-> IF token \in sentence.unknown THEN "SPELLING" ELSE "GRAMMAR",
        alternatives |-> chosen])
  /\ token' = token + 1
  /\ phase' = "tokens"
  /\ UNCHANGED <<vars, sentence, decoded, alternative, original>>

SpellNext ==
  \/ KeepToken
  \/ CorrectToken
  \/ MeasureAlternative
  \/ RestoreCorrection
  \/ StoreAlternative
  \/ FinishToken

SpellSpec == SpellInit /\ [][SpellNext]_allVars

-----------------------------------------------------------------------------

(* Between two tokens the path is again what the decoder returned.         *)
PathIsRestored == phase = "tokens" \/ pc = "store" => decoded = sentence.path

(* The reference: what a whole path costs.                                 *)
PathCost(m, path) ==
  LET windows == Len(path) - ModelOrder + 1
      cost[k \in 0 .. windows] ==
        IF k = 0 THEN 0
        ELSE cost[k - 1] + (path[k + ModelOrder - 1].emission
                            + Transition(m, SubSeq(path, k, k + ModelOrder - 1)))
  IN  cost[windows]

CostWith(s, t, f) ==
  LET costs == {PathCost(s.model, [s.path EXCEPT ![Position(t)] = p]) :
                  p \in {q \in Choices(s, Position(t)) : q.form = f}}
  IN  CHOOSE c \in costs : \A d \in costs : c <= d

(* The forms offered for token t besides the one on the path, cheapest     *)
(* first; none for a token that stays as it is.                            *)
IsRanked(s, t, alternatives) ==
  LET offered == {p.form : p \in Choices(s, Position(t))}
                   \ {s.path[Position(t)].form}
  IN  IF s.path[Position(t)].original
        THEN alternatives = <<>>
        ELSE AreKBest(alternatives, offered, [f \in offered |-> CostWith(s, t, f)])

(* The alternatives of every token are the forms with which the whole      *)
(* sentence is cheapest, cheapest first, although only the windows around  *)
(* the token are measured, on a path that the measuring itself changes,    *)
(* and the map and the heap are shared by the tokens.                      *)
RankedByPathCost ==
  \A t \in 1 .. Len(corrections) :
    IsRanked(sentence, t, corrections[t].alternatives)
=============================================================================
