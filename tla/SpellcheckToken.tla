-------------------------- MODULE SpellcheckToken ---------------------------
(***************************************************************************)
(* What is made of the offers of SimWordsFinder for a token.  For the      *)
(* decoder, a possibility of a stage for every analysis of every offer;    *)
(* for SpellcheckToken, which corrects a token without its context, the    *)
(* offers with their cheapest analysis, of which the best is the           *)
(* correction and the next ones its alternatives.  The offers come from a  *)
(* hash map, in any order; a heap keeps the best.                          *)
(***************************************************************************)
EXTENDS SimWordsFinder, Morphology

CONSTANTS
  Morpholexes,
  EnabledFactors,  \* sets of factors, what the lm lines of configurations enable
  FactorWeights,
  UnknownWordCost,
  Alternatives,    \* the numbers of alternatives asked for
  Earlier          \* what correction may hold: it is that of another token

ASSUME RankingAssumption ==
  /\ Alternatives \subseteq Nat /\ {} \notin EnabledFactors
  /\ \A earlier \in Earlier :
       earlier \in [type : {"NONE", "SPELLING", "GRAMMAR"}, correction : Seq(Letters),
                   alternatives : Seq(Seq(Letters))]

VARIABLES
  cm,              \* what was read of the morpholex
  morphology,      \* what GetMorphology says of its model
  enabled_factors,
  stage, alternatives,
  possibilities,   \* those of the stage of the token
  similar_words,   \* the forms the loop has still to come to
  corrections,     \* the heap
  correction       \* type, correction and alternatives

modelVars == <<cm, morphology>>
tokenVars == <<findVars, modelVars, enabled_factors, stage, alternatives,
               possibilities, similar_words, corrections, correction>>

(* GetMorphology depends on the model, the form and what is enabled only.  *)
Readings(model) ==
  [enabled \in EnabledFactors |->
     [id \in NONE .. model.form_offsets.num_values - 1 |->
        GetMorphology(model, enabled, id)]]

AnalysesOf(id) == morphology[enabled_factors][id]

EmissionCosts(enabled, analysis) ==
  MapThenSumSet(LAMBDA l : FactorWeights[l + 1] * analysis.emission_costs[l + 1],
                enabled \ {0})

(* -1 stands for no analysis.                                              *)
BestAnalysisCost(id) ==
  LET cost(n) == EmissionCosts(enabled_factors, AnalysesOf(id)[n])
      best[n \in 0 .. Len(AnalysesOf(id))] ==
        IF n = 0 THEN -1
        ELSE IF cost(n) < best[n - 1] \/ best[n - 1] < 0 THEN cost(n) ELSE best[n - 1]
  IN  best[Len(AnalysesOf(id))]

Heaped(id) ==
  [id |-> id, cost |-> swm[id].cost + BestAnalysisCost(id),
   correction |-> swm[id].spelling]

(* The elements that may be at the top; a mutant has the other order.      *)
TopsOfMinHeap == {x \in corrections : \A y \in corrections : x.cost <= y.cost}
Tops == {x \in corrections : \A y \in corrections : y.cost <= x.cost}

TokenInit ==
  /\ \E morpholex \in Morpholexes :
       /\ cm = Collected(morpholex)
       /\ \E model \in {BuildMorphology(cm)} : morphology = Readings(model)
       /\ lexicon = BuildLexicon(Vocabulary(morpholex, 0))
  /\ FindInit
  /\ enabled_factors = {}
  /\ stage = "find" /\ possibilities = {}
  /\ alternatives = 0
  /\ similar_words = {} /\ corrections = {}
  /\ correction \in Earlier

KeepFinder == UNCHANGED <<findVars, modelVars, enabled_factors, alternatives, possibilities>>
KeepRanking == UNCHANGED <<alternatives, similar_words, corrections, correction>>

FindSimilarWords ==
  /\ stage = "find" /\ FindNext
  /\ UNCHANGED <<modelVars, enabled_factors, stage, possibilities>> /\ KeepRanking

(* StagePossibility; the words of a stage are told apart by the factors.   *)
StagePossibility(analysis, original, str, cost) ==
  [factors |-> analysis.factors, original |-> original, word |-> str,
   emission_prob |-> cost + EmissionCosts(enabled_factors, analysis)]

(* A mutant of PossibilitiesOf: only the first analysis is offered.        *)
FirstPossibilityOf(id) ==
  IF AnalysesOf(id) = <<>> THEN {}
  ELSE {StagePossibility(AnalysesOf(id)[1], swm[id].spelling = token.str,
                    swm[id].spelling, swm[id].cost)}

PossibilitiesOf(id) ==
  {StagePossibility(analysis, swm[id].spelling = token.str, swm[id].spelling, swm[id].cost) :
     analysis \in Range(AnalysesOf(id))}

(* A possibility of an unknown word, where no offer has an analysis.       *)
StagePossibilities ==
  LET offered == UNION {PossibilitiesOf(id) : id \in DOMAIN swm}
  IN  IF offered # {} THEN offered
      ELSE {StagePossibility(AnalysesOf(unknown_word_id)[1], TRUE, token.str, UnknownWordCost)}

(* The possibilities are sorted by their costs, which this set leaves out. *)
InitInnerStagePossibilities ==
  /\ stage = "find" /\ phase = "done"
  /\ stage' = "decode"
  /\ UNCHANGED <<findVars, modelVars>> /\ KeepRanking
  /\ enabled_factors' \in EnabledFactors
  /\ possibilities' = StagePossibilities'

(* What is enabled and the argument alternatives play no part before.      *)
BeginRanking ==
  /\ stage = "find" /\ phase = "done"
  /\ stage' = "rank"
  /\ enabled_factors' \in EnabledFactors
  /\ alternatives' \in Alternatives
  /\ similar_words' = DOMAIN swm
  /\ UNCHANGED <<findVars, modelVars, possibilities, corrections, correction>>

HasAnalysis(id) == BestAnalysisCost(id) >= 0
IsFull == Cardinality(corrections) = alternatives + 1
IsGood(offer) == ~IsFull \/ \A top \in Tops : offer.cost < top.cost

Passed(id) ==
  /\ ~HasAnalysis(id) \/ ~IsGood(Heaped(id))
  /\ UNCHANGED corrections

Kept(id) ==
  /\ HasAnalysis(id) /\ IsGood(Heaped(id))
  /\ \/ /\ ~IsFull
        /\ corrections' = corrections \union {Heaped(id)}
     \/ /\ IsFull
        /\ \E top \in Tops :
             corrections' = (corrections \ {top}) \union {Heaped(id)}

RankSimilarWord ==
  /\ stage = "rank"
  /\ \E id \in similar_words :
       /\ similar_words' = similar_words \ {id}
       /\ Passed(id) \/ Kept(id)
  /\ UNCHANGED <<stage, correction>> /\ KeepFinder

(* Without an offer only the type is set.                                  *)
BeginCorrection ==
  /\ stage = "rank" /\ similar_words = {}
  /\ stage' = IF corrections = {} THEN "corrected" ELSE "fill"
  /\ correction' = [correction EXCEPT
       !.type = "NONE", !.alternatives = IF corrections = {} THEN @ ELSE <<>>]
  /\ UNCHANGED <<similar_words, corrections>> /\ KeepFinder

(* The alternatives are filled in from the last one.                       *)
FillAlternative ==
  /\ stage = "fill" /\ Cardinality(corrections) > 1
  /\ \E top \in Tops :
       /\ corrections' = corrections \ {top}
       /\ correction' = [correction EXCEPT !.alternatives = <<top.correction>> \o @]
  /\ UNCHANGED <<stage, similar_words>> /\ KeepFinder

FillCorrection ==
  /\ stage = "fill" /\ Cardinality(corrections) = 1
  /\ \E top \in Tops :
       correction' =
         IF top.correction = token.str THEN correction
         ELSE [correction EXCEPT
                 !.correction = top.correction,
                 !.type = IF GetWordID(lexicon, token.str) = NONE
                          THEN "SPELLING" ELSE "GRAMMAR"]
  /\ stage' = "corrected" /\ corrections' = {}
  /\ UNCHANGED similar_words /\ KeepFinder

Corrected == stage \in {"decode", "corrected"} /\ UNCHANGED tokenVars

TokenNext ==
  \/ FindSimilarWords \/ InitInnerStagePossibilities
  \/ BeginRanking \/ RankSimilarWord
  \/ BeginCorrection \/ FillAlternative \/ FillCorrection
  \/ Corrected

TokenSpec == TokenInit /\ [][TokenNext]_tokenVars

-----------------------------------------------------------------------------
(* The lines of the morpholex: the factors of a form, as far as they are   *)
(* looked at, and the costs that its lines and the nearest centers give.   *)
Written(read, enabled, id) ==
  {SubSeq(path, 1, Max(enabled) + 1) :
     path \in {path \in Range(read.paths) : path[1] = id}}

NearestCenter(value) ==
  CHOOSE center \in Range(Centers) :
    \A other \in Range(Centers) \ {center} :
      \/ Distance(center, value) < Distance(other, value)
      \/ Distance(center, value) = Distance(other, value) /\ center > other

WrittenCost(read, enabled, path) ==
  MapThenSumSet(LAMBDA l : FactorWeights[l + 1] *
                  NearestCenter(CostOfFactor(read, path[1], l, path[l + 1])),
                enabled \ {0})

WrittenFor(id) == Written(cm, enabled_factors, id)
CostWritten(path) == WrittenCost(cm, enabled_factors, path)

(* What the ranking needs of the packed morphology: of every form the      *)
(* analyses that are read are those that were written, at their costs.     *)
MorphologyIsRead ==
  \A morpholex \in Morpholexes : \A enabled \in EnabledFactors :
    LET read  == Collected(morpholex)
        model == BuildMorphology(read)
        forms == 0 .. Len(Vocabulary(morpholex, 0)) - 1
        analyses(id) == GetMorphology(model, enabled, id)
    IN  /\ model.form_offsets.num_values = Len(Vocabulary(morpholex, 0))
        /\ unknown_word_id \in forms /\ Len(analyses(unknown_word_id)) = 1
        /\ \A id \in forms :
             /\ analyses(id) \in Seq(AnalysisRead) /\ Written(read, enabled, id) # {}
             /\ \A path \in Written(read, enabled, id) :
                  WrittenCost(read, enabled, path) \in Nat
             /\ {<<analysis.factors, EmissionCosts(enabled, analysis)>> :
                     analysis \in Range(analyses(id))} =
                  {<<path, WrittenCost(read, enabled, path)>> :
                     path \in Written(read, enabled, id)}

(* The decoder gets every analysis that was written for the words that are *)
(* offered, and no other, at its own cost: although only some factors are  *)
(* read, levels are grouped or follow from others, a form begins where the *)
(* widths of what is before it say, and no form marks its end.  If there   *)
(* is none it gets the unknown word, at the cost for that.                 *)
StageOffersEveryAnalysis ==
  stage = "decode" =>
    LET known == DOMAIN swm \ {NONE}
        Expected(path, str, cost) ==
          [factors |-> path, original |-> str = token.str, word |-> str,
           emission_prob |-> cost + CostWritten(path)]
    IN  possibilities =
          IF known = {}
          THEN {Expected(path, token.str, UnknownWordCost) :
                  path \in WrittenFor(unknown_word_id)}
          ELSE UNION {{Expected(path, swm[id].spelling, swm[id].cost) :
                         path \in WrittenFor(id)} : id \in known}

CostOf(id) == swm[id].cost + Min({CostWritten(path) : path \in WrittenFor(id)})
Analysed == DOMAIN swm \ {NONE}

IsBestFirst(ids) ==
  /\ \A k \in 1 .. Len(ids) - 1 : CostOf(ids[k]) <= CostOf(ids[k + 1])
  /\ \A id \in Analysed \ Range(ids) : \A k \in DOMAIN ids : CostOf(ids[k]) <= CostOf(id)

(* The correction and its alternatives are the best offers, from the best  *)
(* one, each with its cheapest analysis, in whatever order the map gives   *)
(* them; and nothing is said of the token this record was used for before. *)
BestOffersAreRanked ==
  stage = "corrected" =>
    LET best   == IF correction.type = "NONE" THEN token.str ELSE correction.correction
        listed == <<best>> \o correction.alternatives
        number == Min({alternatives + 1, Cardinality(Analysed)})
    IN  IF Analysed = {} THEN correction.type = "NONE"
        ELSE /\ \E ids \in [1 .. number -> Analysed] :
                  /\ IsInjective(ids) /\ IsBestFirst(ids)
                  /\ listed = [k \in 1 .. number |-> swm[ids[k]].spelling]
             /\ correction.type = "SPELLING" => token.str \notin Range(Words)
=============================================================================
