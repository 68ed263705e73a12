-------------------------- MODULE TransitionCost --------------------------
(***************************************************************************)
(* DecoderMultiFactor::ComputeTransitionCost and                           *)
(* ComputeTransitionCostSPSequence (src/src/decoder) together with         *)
(* LMWrapper::GetProb (src/src/language_model), which both call for every  *)
(* enabled factor.  This is what Trellis takes as Transition.              *)
(*                                                                         *)
(* One key object, ngram_search_key, is shared by all calls.  GetProb      *)
(* moves its pointer word_ids and changes its order while it walks through *)
(* the contexts, and ComputeTransitionCost moves the pointer once more, so *)
(* that the pointer and the order are the state that survives a call.      *)
(***************************************************************************)
EXTENDS LanguageModel

CONSTANTS
  NumFactors,     \* factors are numbered from 1
  Enabled,        \* the factors with a language model
  FactorOrder,    \* factor_orders
  Weight,         \* factor_weights
  ModelOrder,     \* model_order, the length of the key's buffer
  Arpas,          \* language models of the factors
  Possibility,    \* stage possibilities
  FactorId(_, _)  \* factor_list.factors[factor] of a possibility

(* What the lm lines say, with orders as n-grams have them.  The orders may *)
(* differ, which Configuration::Configuration lets pass, as it does order 0. *)
ASSUME FactorsAssumption ==
  /\ NumFactors \in Nat
  /\ Enabled \subseteq 1 .. NumFactors
  /\ FactorOrder \in [Enabled -> Nat \ {0}]
  /\ Weight \in [Enabled -> Int]
  /\ ModelOrder \in Nat \ {0}
  /\ \A f \in Enabled : FactorOrder[f] <= ModelOrder

(* What the assertions of createFromTextFile take for granted.             *)
ASSUME ArpasAssumption ==
  \A model \in Arpas : \A gram \in Grams(model) :
    /\ gram \in Seq(Nat) /\ gram # <<>>
    /\ <<gram[1]>> \in Grams(model)
    /\ model[gram].prob \in Int /\ model[gram].bow \in Int

ASSUME IdsAssumption ==
  \A f \in 1 .. NumFactors : \A p \in Possibility : FactorId(f, p) \in Nat

VARIABLES
  arpa,     \* the text models of the factors, fixed by the configuration
  lm,       \* factor_LMS, made of the text models
  window,   \* factorLists: the history and the next possibility
  caller,   \* "state" for ComputeTransitionCost, "sequence" for ...SPSequence
  factor,   \* the factor the loop has come to
  offset,   \* ngram_search_key.word_ids, relative to the buffer's start
  filled,   \* the value of offset when the buffer was filled
  order,    \* ngram_search_key.order
  lowest,   \* lowest_bow_order
  ret_prob,     \* what the key was found to cost
  ret_cost,     \* what the factors cost together
  pc

key == <<offset, filled, order>>
models == <<arpa, lm>>
vars == <<models, window, caller, factor, offset, filled, order, lowest, ret_prob, ret_cost, pc>>

-----------------------------------------------------------------------------

(* word_ids[0], word_ids[1], ... as they are filled for a factor.          *)
WordIds(f) == [j \in 1 .. ModelOrder |-> FactorId(f, window[ModelOrder + 1 - j])]

(* The n-gram the key stands for.                                          *)
KeyNGram(f) == SubSeq(WordIds(f), offset - filled + 1, offset - filled + order)

Found == GetNGram(lm[factor], KeyNGram(factor))

-----------------------------------------------------------------------------

Init ==
  /\ arpa \in [Enabled -> Arpas]
  /\ lm = [f \in Enabled |-> CreateFromText(arpa[f])]
  /\ window = <<>>
  /\ caller = "state"
  /\ factor = 1
  /\ offset = 0
  /\ filled = 0
  /\ order = ModelOrder
  /\ lowest = 1
  /\ ret_prob = 0
  /\ ret_cost = 0
  /\ pc = "idle"

(* The two functions differ in what they do with the pointer afterwards.   *)
Call ==
  /\ pc = "idle"
  /\ window' \in [1 .. ModelOrder -> Possibility]
  /\ caller' \in {"state", "sequence"}
  /\ factor' = 1
  /\ ret_cost' = 0
  /\ pc' = "factor"
  /\ UNCHANGED <<models, key, lowest, ret_prob>>

SkipFactor ==
  /\ pc = "factor"
  /\ factor <= NumFactors
  /\ factor \notin Enabled
  /\ factor' = factor + 1
  /\ UNCHANGED <<models, window, caller, key, lowest, ret_prob, ret_cost, pc>>

(* GetProb for the next enabled factor; the longest n-gram first.          *)
FillKey ==
  /\ pc = "factor"
  /\ factor \in Enabled
  /\ filled' = offset
  /\ order' = FactorOrder[factor]
  /\ pc' = "ngram"
  /\ UNCHANGED <<models, window, caller, factor, offset, lowest, ret_prob, ret_cost>>

FindNGram ==
  /\ pc = "ngram"
  /\ Found.order = order
  /\ ret_prob' = Found.prob
  /\ pc' = "add"
  /\ UNCHANGED <<models, window, caller, factor, key, lowest, ret_cost>>

(* A mutant of StartBackOff: weights of contexts shorter than the n-gram   *)
(* that was found.                                                         *)
StartBackOffToUnigrams ==
  /\ pc = "ngram"
  /\ Found.order # order
  /\ ret_prob' = Found.prob
  /\ lowest' = 1
  /\ offset' = offset + 1
  /\ order' = order - 1
  /\ pc' = "backoff"
  /\ UNCHANGED <<models, window, caller, factor, filled, ret_cost>>

(* The n-gram is not there as a whole: on to the contexts.                 *)
StartBackOff ==
  /\ pc = "ngram"
  /\ Found.order # order
  /\ ret_prob' = Found.prob
  /\ lowest' = IF Found.order >= 1 THEN Found.order ELSE 1
  /\ offset' = offset + 1
  /\ order' = order - 1
  /\ pc' = "backoff"
  /\ UNCHANGED <<models, window, caller, factor, filled, ret_cost>>

(* A mutant of BackOff: continue for break.                                *)
BackOffContinuing ==
  /\ pc = "backoff"
  /\ order >= lowest
  /\ ret_prob' = ret_prob + IF Found.order >= lowest THEN Found.backoff ELSE 0
  /\ order' = IF Found.order = 0 THEN order ELSE Found.order - 1
  /\ UNCHANGED <<models, window, caller, factor, offset, filled, lowest, ret_cost, pc>>

(* One turn of the loop over the contexts.                                 *)
BackOff ==
  /\ pc = "backoff"
  /\ order >= lowest
  /\ ret_prob' = ret_prob + IF Found.order >= lowest THEN Found.backoff ELSE 0
  /\ IF Found.order = 0
       THEN pc' = "restore" /\ UNCHANGED order
       ELSE order' = Found.order - 1 /\ UNCHANGED pc
  /\ UNCHANGED <<models, window, caller, factor, offset, filled, lowest, ret_cost>>

(* Mutants of EndBackOff: the pointer, or the order, is not restored.      *)
EndBackOffTo(oldOffset, oldOrder) ==
  /\ pc \in {"backoff", "restore"}
  /\ pc = "backoff" => order < lowest
  /\ offset' = oldOffset
  /\ order' = oldOrder
  /\ pc' = "add"
  /\ UNCHANGED <<models, window, caller, factor, filled, lowest, ret_prob, ret_cost>>

EndBackOffInPlace == EndBackOffTo(offset, FactorOrder[factor])
EndBackOffShortened == EndBackOffTo(offset - 1, order)

EndBackOff ==
  /\ pc \in {"backoff", "restore"}
  /\ pc = "backoff" => order < lowest
  /\ offset' = offset - 1
  /\ order' = FactorOrder[factor]
  /\ pc' = "add"
  /\ UNCHANGED <<models, window, caller, factor, filled, lowest, ret_prob, ret_cost>>

(* The cost of a factor is added, and ComputeTransitionCost moves the      *)
(* pointer back by the places it no longer moves it forward by: see the    *)
(* line that is commented out in decoder_multi_factor.cpp:51.              *)
AddFactor ==
  /\ pc = "add"
  /\ ret_cost' = ret_cost + Weight[factor] * ret_prob
  /\ offset' = IF caller = "state" THEN offset - (ModelOrder - order) ELSE offset
  /\ factor' = factor + 1
  /\ pc' = "factor"
  /\ UNCHANGED <<models, window, caller, filled, order, lowest, ret_prob>>

Return ==
  /\ pc = "factor"
  /\ factor > NumFactors
  /\ pc' = "idle"
  /\ UNCHANGED <<models, window, caller, factor, key, lowest, ret_prob, ret_cost>>

Compute ==
  \/ SkipFactor
  \/ FillKey
  \/ FindNGram
  \/ StartBackOff
  \/ BackOff
  \/ EndBackOff
  \/ AddFactor
  \/ Return

Next == Call \/ Compute

Spec == Init /\ [][Next]_vars /\ WF_vars(Compute)

-----------------------------------------------------------------------------

(* Every read and write through word_ids is inside the buffer of           *)
(* model_order ids: the pointer is at its start whenever the buffer is     *)
(* filled (and when the key is destroyed), and the n-grams that are looked *)
(* up end before the buffer does.                                          *)
KeyStaysInBuffer ==
  /\ pc \in {"idle", "factor"} => offset = 0
  /\ offset >= 0 /\ offset + order <= ModelOrder

(* GetProb returns the key as it got it, whatever it found and however     *)
(* many contexts it walked through (lm_wrapper.cpp:58-61): the caller goes *)
(* on using the pointer and the order.                                     *)
GetProbRestoresKey == pc = "add" => offset = filled /\ order = FactorOrder[factor]

(* A transition costs what the weighted back-off models say of its n-gram, *)
(* cut to the order of each factor.                                        *)
FactorKey(f) == Start(WordIds(f), FactorOrder[f])

FactorCosts ==
  [f \in 1 .. NumFactors |->
     IF f \in Enabled THEN Weight[f] * BackedOffCost(arpa[f], FactorKey(f)) ELSE 0]

CostIsBackedOff == pc = "idle" /\ window # <<>> => ret_cost = Total(FactorCosts)

(* Every call returns: the contexts get shorter all the time.              *)
EveryCallReturns == pc # "idle" ~> pc = "idle"
=============================================================================
