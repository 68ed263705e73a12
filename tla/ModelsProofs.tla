----------------------------- MODULE ModelsProofs -----------------------------
(*****************************************************************************)
(* Proofs about what is made of the files before anything is corrected, and  *)
(* about what a transition costs: where the pointer of the shared key is,    *)
(* and that what is computed by moving it is the cost of a back-off model;   *)
(* that every configuration that is loaded serves the decoder and is what    *)
(* the file says, for all files, models and options; that a lexicon that is  *)
(* built from words is the trie of these words.                              *)
(*****************************************************************************)
EXTENDS TransitionCost, Configuration, SimWordsFinder, FiniteSetTheorems,
        SequenceTheorems, WellFoundedInduction, TLAPS

-----------------------------------------------------------------------------
(* The data of a lookup.                                                   *)

LEMMA LeastExists ==
  ASSUME NEW S \in SUBSET Nat, S # {}
  PROVE  \E n \in S : \A k \in S : n <= k
  <1>1. IsWellFoundedOn({pair \in Nat \X Nat : pair[1] < pair[2]}, Nat)
    BY NatLessThanWellFounded DEF OpToRel
  <1>2. PICK least \in S :
          \A k \in S : <<k, least>> \notin {pair \in Nat \X Nat : pair[1] < pair[2]}
    <2>1. S \subseteq Nat /\ S # {}
      OBVIOUS
    <2> QED BY <1>1, <2>1, WFMin
  <1>3. ASSUME NEW k \in S
        PROVE  least <= k
    <2>1. least \in Nat /\ k \in Nat /\ <<k, least>> \in Nat \X Nat
      OBVIOUS
    <2>2. ~(k < least)
      BY <1>2, <2>1
    <2> QED BY <2>1, <2>2
  <1> QED BY <1>3

(* A bounded set of positive numbers has a greatest element, so that the   *)
(* CHOOSE of Longest finds it.                                             *)
LEMMA LongestFacts ==
  ASSUME NEW N \in Nat, NEW S \in SUBSET (1 .. N)
  PROVE  /\ Longest(S) \in 0 .. N
         /\ S = {} => Longest(S) = 0
         /\ S # {} => Longest(S) \in S
         /\ \A n \in S : n <= Longest(S)
  <1>1. CASE S = {}
    BY <1>1 DEF Longest
  <1>2. CASE S # {}
    <2> DEFINE T == {k \in Nat : N - k \in S}
    <2>1. T \in SUBSET Nat /\ T # {}
      <3>1. PICK n \in S : TRUE
        BY <1>2
      <3>2. N - n \in Nat /\ N - (N - n) = n
        BY <3>1
      <3> QED BY <3>1, <3>2
    <2>2. PICK least \in T : \A k \in T : least <= k
      <3> HIDE DEF T
      <3> QED BY <2>1, LeastExists
    <2>3. ASSUME NEW n \in S
          PROVE  n <= N - least
      <3>1. N - n \in T /\ n \in 1 .. N
        <4>1. N - n \in Nat /\ N - (N - n) = n
          OBVIOUS
        <4> QED BY <4>1
      <3>2. least <= N - n
        BY <2>2, <3>1
      <3> QED BY <2>1, <2>2, <3>1, <3>2
    <2>4. N - least \in S
      BY <2>2
    <2>5. Longest(S) \in S /\ \A n \in S : n <= Longest(S)
      BY <1>2, <2>3, <2>4 DEF Longest
    <2> DEFINE greatest == Longest(S)
    <2> HIDE DEF T, greatest
    <2>6. greatest \in S /\ \A n \in S : n <= greatest
      BY <2>5 DEF greatest
    <2>7. greatest \in 0 .. N
      BY <2>6
    <2> QED BY <1>2, <2>6, <2>7 DEF greatest
  <1> QED BY <1>1, <1>2

(* A lookup finds an n-gram that is no longer than the key.                *)
LEMMA FoundOrder ==
  ASSUME NEW model, NEW gram, Len(gram) \in Nat
  PROVE  GetNGram(model, gram).order \in 0 .. Len(gram)
  <1> DEFINE S == {n \in 1 .. Len(gram) : \A k \in 1 .. n : Start(gram, k) \in Grams(model)}
  <1>1. S \in SUBSET (1 .. Len(gram))
    OBVIOUS
  <1>2. GetNGram(model, gram).order = Longest(S)
    BY DEF GetNGram
  <1> QED BY <1>1, <1>2, LongestFacts

(* The key stands for as many ids as its order says.                       *)
LEMMA KeyNGramLength ==
  ASSUME NEW f, offset \in Int, filled \in Int, order \in Nat
  PROVE  Len(KeyNGram(f)) = order
  <1> DEFINE first == offset - filled + 1
             final == offset - filled + order
             ids == {WordIds(f)[k] : k \in first .. final}
  <1>1. first \in Int /\ final \in Int
    OBVIOUS
  <1>2. \A k \in first .. final : WordIds(f)[k] \in ids
    OBVIOUS
  <1>3. Len(SubSeq(WordIds(f), first, final)) = IF first <= final THEN final - first + 1 ELSE 0
    <2> HIDE DEF first, final, ids
    <2> QED BY <1>1, <1>2, SubSeqProperties
  <1> QED BY <1>3 DEF KeyNGram

-----------------------------------------------------------------------------

(***************************************************************************)
(* The pointer is one place on exactly while the contexts are walked       *)
(* through, and the order then only falls.                                 *)
(***************************************************************************)
KeyInv ==
  /\ pc \in {"idle", "factor", "ngram", "backoff", "restore", "add"}
  /\ pc \notin {"idle", "factor"} => factor \in Enabled
  /\ offset \in Int /\ filled \in Int
  /\ order \in 0 .. ModelOrder
  /\ pc = "ngram" => offset = filled /\ order = FactorOrder[factor]
  /\ pc \in {"backoff", "restore"} => offset = filled + 1 /\ order < FactorOrder[factor]
  /\ pc = "backoff" => lowest >= 1 /\ lowest \in Int
  /\ GetProbRestoresKey

LEMMA OrderFacts ==
  ASSUME NEW f \in Enabled
  PROVE  FactorOrder[f] \in 1 .. ModelOrder
  BY FactorsAssumption

LEMMA KeyIsFound ==
  ASSUME KeyInv
  PROVE  Found.order \in 0 .. order
  <1>1. order \in Nat /\ offset \in Int /\ filled \in Int
    BY FactorsAssumption DEF KeyInv
  <1>2. Len(KeyNGram(factor)) = order
    BY <1>1, KeyNGramLength
  <1> QED BY <1>1, <1>2, FoundOrder DEF Found

LEMMA InitKeyInv == Init => KeyInv
  BY FactorsAssumption DEF Init, KeyInv, GetProbRestoresKey

LEMMA FillKeyInv == KeyInv /\ FillKey => KeyInv'
  <1> SUFFICES ASSUME KeyInv, FillKey PROVE KeyInv'
    OBVIOUS
  <1>1. FactorOrder[factor] \in 1 .. ModelOrder
    BY OrderFacts DEF FillKey
  <1> QED BY <1>1, FactorsAssumption DEF KeyInv, FillKey, GetProbRestoresKey

LEMMA StartBackOffInv == KeyInv /\ StartBackOff => KeyInv'
  <1> SUFFICES ASSUME KeyInv, StartBackOff PROVE KeyInv'
    OBVIOUS
  <1>1. FactorOrder[factor] \in 1 .. ModelOrder
    BY OrderFacts DEF StartBackOff, KeyInv
  <1>2. lowest' >= 1 /\ lowest' \in Int
    BY KeyIsFound, FactorsAssumption DEF StartBackOff, KeyInv
  <1> QED BY <1>1, <1>2, FactorsAssumption
          DEF KeyInv, StartBackOff, models, GetProbRestoresKey

LEMMA BackOffInv == KeyInv /\ BackOff => KeyInv'
  <1> SUFFICES ASSUME KeyInv, BackOff PROVE KeyInv'
    OBVIOUS
  <1>1. FactorOrder[factor] \in 1 .. ModelOrder
    BY OrderFacts DEF BackOff, KeyInv
  <1>2. Found.order \in 0 .. order
    BY KeyIsFound
  <1>3. CASE Found.order = 0
    BY <1>1, <1>3 DEF KeyInv, BackOff, GetProbRestoresKey
  <1>4. CASE Found.order # 0
    <2>1. order' \in 0 .. ModelOrder /\ order' < FactorOrder[factor]
      BY <1>1, <1>2, <1>4, FactorsAssumption DEF KeyInv, BackOff
    <2> QED BY <1>1, <1>4, <2>1 DEF KeyInv, BackOff, GetProbRestoresKey
  <1> QED BY <1>3, <1>4

LEMMA EndBackOffInv == KeyInv /\ EndBackOff => KeyInv'
  <1> SUFFICES ASSUME KeyInv, EndBackOff PROVE KeyInv'
    OBVIOUS
  <1>1. FactorOrder[factor] \in 1 .. ModelOrder
    BY OrderFacts DEF EndBackOff, KeyInv
  <1> QED BY <1>1, FactorsAssumption DEF KeyInv, EndBackOff, GetProbRestoresKey

LEMMA AddFactorInv == KeyInv /\ AddFactor => KeyInv'
  BY FactorsAssumption DEF KeyInv, AddFactor, GetProbRestoresKey

(* The steps that leave the key alone.                                     *)
LEMMA OtherInv ==
  KeyInv /\ (Call \/ SkipFactor \/ FindNGram \/ Return \/ UNCHANGED vars) => KeyInv'
  <1>1. KeyInv /\ Call => KeyInv'
    BY DEF KeyInv, Call, key, GetProbRestoresKey
  <1>2. KeyInv /\ SkipFactor => KeyInv'
    BY DEF KeyInv, SkipFactor, key, GetProbRestoresKey
  <1>3. KeyInv /\ FindNGram => KeyInv'
    BY DEF KeyInv, FindNGram, key, GetProbRestoresKey
  <1>4. KeyInv /\ Return => KeyInv'
    BY DEF KeyInv, Return, key, GetProbRestoresKey
  <1>5. KeyInv /\ UNCHANGED vars => KeyInv'
    BY DEF KeyInv, vars, GetProbRestoresKey
  <1> QED BY <1>1, <1>2, <1>3, <1>4, <1>5

LEMMA KeyInvStep == KeyInv /\ [Next]_vars => KeyInv'
  BY FillKeyInv, StartBackOffInv, BackOffInv, EndBackOffInv, AddFactorInv, OtherInv
  DEF Next, Compute

LEMMA KeyInvariance == Spec => []KeyInv
  BY InitKeyInv, KeyInvStep, PTL DEF Spec

-----------------------------------------------------------------------------
(* The theorems.                                                           *)

(* Whatever the models contain and whatever their orders are, GetProb      *)
(* gives the key back with the pointer and the order it got it with, so    *)
(* that the restoring code of lm_wrapper.cpp:58-61 fits both exits of the  *)
(* loop before it.                                                         *)
THEOREM KeyIsRestored == Spec => []GetProbRestoresKey
  BY KeyInvariance, PTL DEF KeyInv

SameOrders == \A f \in Enabled : FactorOrder[f] = ModelOrder

(* With language models of one order the pointer is at the start of its    *)
(* buffer between two factors.                                             *)
PointerInv ==
  /\ KeyInv
  /\ KeyStaysInBuffer
  /\ pc \notin {"idle", "factor"} => filled = 0

LEMMA PointerStep ==
  ASSUME SameOrders, PointerInv, [Next]_vars
  PROVE  PointerInv'
  <1>1. KeyInv'
    BY KeyInvStep DEF PointerInv
  <1>2. CASE FillKey
    BY <1>1, <1>2 DEF PointerInv, KeyStaysInBuffer, KeyInv, FillKey, SameOrders
  <1>3. CASE StartBackOff
    BY <1>1, <1>3 DEF PointerInv, KeyStaysInBuffer, KeyInv, StartBackOff
  <1>4. CASE BackOff
    <2>1. order' <= order /\ offset' = offset /\ filled' = filled
      BY <1>4, KeyIsFound DEF PointerInv, KeyInv, BackOff
    <2>2. pc' \in {"backoff", "restore"} /\ pc = "backoff"
      BY <1>4 DEF BackOff
    <2>3. offset' >= 0 /\ offset' + order' <= ModelOrder
      <3>1. order \in 0 .. ModelOrder /\ order' \in 0 .. ModelOrder /\ offset \in Int
        BY <1>1 DEF PointerInv, KeyInv
      <3>2. offset >= 0 /\ offset + order <= ModelOrder
        BY DEF PointerInv, KeyStaysInBuffer
      <3>3. order \in Int /\ order' \in Int /\ ModelOrder \in Int
        BY <3>1, FactorsAssumption
      <3>4. \A a, b, x, d \in Int : b <= a /\ x + a <= d => x + b <= d
        OBVIOUS
      <3>5. offset + order' <= ModelOrder
        BY <2>1, <3>1, <3>2, <3>3, <3>4
      <3> QED BY <2>1, <3>2, <3>5
    <2>4. filled' = 0
      BY <2>1, <2>2 DEF PointerInv
    <2> QED BY <1>1, <2>2, <2>3, <2>4 DEF PointerInv, KeyStaysInBuffer
  <1>5. CASE EndBackOff
    BY <1>1, <1>5 DEF PointerInv, KeyStaysInBuffer, KeyInv, EndBackOff, SameOrders
  <1>6. CASE AddFactor
    <2>1. order = ModelOrder
      BY <1>6 DEF PointerInv, KeyInv, AddFactor, GetProbRestoresKey, SameOrders
    <2> QED BY <1>1, <1>6, <2>1, FactorsAssumption
            DEF PointerInv, KeyStaysInBuffer, KeyInv, AddFactor, GetProbRestoresKey
  <1>7. CASE Call \/ SkipFactor \/ FindNGram \/ Return \/ UNCHANGED vars
    <2>1. UNCHANGED <<offset, filled, order>>
      BY <1>7 DEF Call, SkipFactor, FindNGram, Return, vars, key
    <2>2. CASE UNCHANGED pc
      BY <1>1, <2>1, <2>2 DEF PointerInv, KeyStaysInBuffer
    <2>3. CASE Call \/ SkipFactor \/ Return
      BY <1>1, <2>1, <2>3 DEF PointerInv, KeyStaysInBuffer, Call, SkipFactor, Return
    <2>4. CASE FindNGram
      BY <1>1, <2>1, <2>4 DEF PointerInv, KeyStaysInBuffer, FindNGram
    <2> QED BY <1>7, <2>2, <2>3, <2>4 DEF vars
  <1> QED BY <1>2, <1>3, <1>4, <1>5, <1>6, <1>7 DEF Next, Compute

(* With language models of one order every access through word_ids is      *)
(* inside the buffer of the key, for every number of factors and calls.    *)
(* MCTransitionCostMixed shows that the condition is needed.               *)
THEOREM KeyInBuffer == ASSUME SameOrders PROVE Spec => []KeyStaysInBuffer
  <1>1. Init => PointerInv
    BY InitKeyInv, FactorsAssumption DEF Init, PointerInv, KeyStaysInBuffer
  <1>2. PointerInv /\ [Next]_vars => PointerInv'
    BY PointerStep
  <1>3. PointerInv => KeyStaysInBuffer
    BY DEF PointerInv
  <1> QED BY <1>1, <1>2, <1>3, PTL DEF Spec

-----------------------------------------------------------------------------
(* Sums.                                                                   *)

AreSums(n, numbers, sums) ==
  sums = [k \in 0 .. n |-> IF k = 0 THEN 0 ELSE sums[k - 1] + numbers[k]]

LEMMA SumsExist ==
  ASSUME NEW numbers, NEW n \in Nat
  PROVE  \E sums : AreSums(n, numbers, sums)
  <1> DEFINE without == {k \in Nat : ~\E sums : AreSums(k, numbers, sums)}
  <1> SUFFICES ASSUME without # {} PROVE FALSE
    OBVIOUS
  <1>1. PICK least \in without : \A k \in without : least <= k
    <2>1. without \in SUBSET Nat
      OBVIOUS
    <2> HIDE DEF without
    <2> QED BY <2>1, LeastExists
  <1>2. least \in Nat /\ ~\E sums : AreSums(least, numbers, sums)
    BY <1>1
  <1>3. least # 0
    <2>1. AreSums(0, numbers, [k \in 0 .. 0 |-> 0])
      BY DEF AreSums
    <2> QED BY <1>2, <2>1
  <1>4. PICK shorter : AreSums(least - 1, numbers, shorter)
    <2>1. least - 1 \in Nat /\ least - 1 < least
      BY <1>2, <1>3
    <2>2. least - 1 \notin without
      BY <1>1, <2>1
    <2> QED BY <2>1, <2>2
  <1> DEFINE longer == [k \in 0 .. least |->
                          IF k = 0 THEN 0 ELSE shorter[k - 1] + numbers[k]]
  <1>5. ASSUME NEW k \in 0 .. least - 1
        PROVE  longer[k] = shorter[k]
    <2>1. shorter[k] = IF k = 0 THEN 0 ELSE shorter[k - 1] + numbers[k]
      BY <1>4 DEF AreSums
    <2>2. k \in 0 .. least
      BY <1>2
    <2> QED BY <2>1, <2>2
  <1>6. ASSUME NEW k \in 0 .. least, k # 0
        PROVE  longer[k] = longer[k - 1] + numbers[k]
    <2>1. k - 1 \in 0 .. least - 1
      BY <1>2, <1>6
    <2>2. longer[k - 1] = shorter[k - 1]
      BY <1>5, <2>1
    <2> QED BY <1>6, <2>2
  <1>7. AreSums(least, numbers, longer)
    BY <1>6 DEF AreSums
  <1> QED BY <1>2, <1>7

(* What the recursion says, and that sums of integers are integers.        *)
LEMMA SumsFacts ==
  ASSUME NEW numbers, Len(numbers) \in Nat,
         \A k \in 1 .. Len(numbers) : numbers[k] \in Int
  PROVE  /\ Sums(numbers)[0] = 0
         /\ \A k \in 1 .. Len(numbers) :
              Sums(numbers)[k] = Sums(numbers)[k - 1] + numbers[k]
         /\ \A k \in 0 .. Len(numbers) : Sums(numbers)[k] \in Int
  <1> DEFINE n == Len(numbers)
             sums == Sums(numbers)
  <1>1. AreSums(n, numbers, sums)
    <2>1. sums = CHOOSE s : AreSums(n, numbers, s)
      BY DEF Sums, AreSums
    <2> HIDE DEF n, sums
    <2>2. n \in Nat
      BY DEF n
    <2> QED BY <2>1, <2>2, SumsExist
  <1>2. n \in Nat /\ \A k \in 1 .. n : numbers[k] \in Int
    OBVIOUS
  <1> HIDE DEF n, sums
  <1>3. ASSUME NEW k \in 0 .. n
        PROVE  sums[k] = IF k = 0 THEN 0 ELSE sums[k - 1] + numbers[k]
    BY <1>1 DEF AreSums
  <1>4. sums[0] = 0 /\ \A k \in 1 .. n : sums[k] = sums[k - 1] + numbers[k]
    <2>1. 0 \in 0 .. n /\ \A k \in 1 .. n : k \in 0 .. n /\ k # 0
      BY <1>2
    <2> QED BY <1>3, <2>1
  <1> DEFINE bad == {k \in Nat : k <= n /\ sums[k] \notin Int}
  <1>5. bad = {}
    <2> SUFFICES ASSUME bad # {} PROVE FALSE
      OBVIOUS
    <2>1. PICK least \in bad : \A k \in bad : least <= k
      <3>1. bad \in SUBSET Nat
        OBVIOUS
      <3> HIDE DEF bad
      <3> QED BY <3>1, LeastExists
    <2>2. least \in Nat /\ least <= n /\ sums[least] \notin Int
      BY <2>1
    <2>3. least # 0
      BY <1>4, <2>2
    <2>4. least - 1 \in Nat /\ least - 1 <= n /\ least - 1 < least /\ least \in 1 .. n
      BY <1>2, <2>2, <2>3
    <2>5. sums[least - 1] \in Int
      BY <2>1, <2>4
    <2>6. sums[least] = sums[least - 1] + numbers[least] /\ numbers[least] \in Int
      BY <1>2, <1>4, <2>4
    <2> QED BY <2>2, <2>5, <2>6
  <1>6. \A k \in 0 .. n : sums[k] \in Int
    BY <1>2, <1>5
  <1> QED BY <1>4, <1>6 DEF n, sums

(* Zeros between two places do not change the sum.                         *)
LEMMA ZerosAddNothing ==
  ASSUME NEW numbers, Len(numbers) \in Nat,
         \A k \in 1 .. Len(numbers) : numbers[k] \in Int,
         NEW a \in 0 .. Len(numbers), NEW b \in a .. Len(numbers),
         \A k \in a + 1 .. b : numbers[k] = 0
  PROVE  Sums(numbers)[b] = Sums(numbers)[a]
  <1> DEFINE n == Len(numbers)
             sums == Sums(numbers)
  <1>1. /\ n \in Nat /\ a \in 0 .. n /\ b \in a .. n
        /\ \A k \in a + 1 .. b : numbers[k] = 0
    OBVIOUS
  <1>2. /\ \A k \in 1 .. n : sums[k] = sums[k - 1] + numbers[k]
        /\ \A k \in 0 .. n : sums[k] \in Int
    BY SumsFacts
  <1> HIDE DEF n, sums
  <1> DEFINE bad == {k \in Nat : a <= k /\ k <= b /\ sums[k] # sums[a]}
  <1>3. bad = {}
    <2> SUFFICES ASSUME bad # {} PROVE FALSE
      OBVIOUS
    <2>1. PICK least \in bad : \A k \in bad : least <= k
      <3>1. bad \in SUBSET Nat
        OBVIOUS
      <3> HIDE DEF bad
      <3> QED BY <3>1, LeastExists
    <2>2. least \in Nat /\ a <= least /\ least <= b /\ sums[least] # sums[a]
      BY <2>1
    <2>3. least - 1 \in Nat /\ a <= least - 1 /\ least - 1 <= b /\ least - 1 < least
      BY <1>1, <2>2
    <2>4. sums[least - 1] = sums[a]
      BY <2>1, <2>3
    <2>5. least \in 1 .. n /\ least \in a + 1 .. b /\ least - 1 \in 0 .. n
      BY <1>1, <2>2, <2>3
    <2>6. sums[least] = sums[least - 1] + 0 /\ sums[least - 1] \in Int
      BY <1>1, <1>2, <2>5
    <2> QED BY <2>2, <2>4, <2>6
  <1>4. b \in Nat /\ a <= b /\ b <= b
    BY <1>1
  <1> QED BY <1>3, <1>4 DEF sums

-----------------------------------------------------------------------------
(* The lookup of an n-gram in a tree whose text model lacks no start.      *)

IsTextModel(model) ==
  /\ \A gram \in Grams(model) :
       /\ gram \in Seq(Nat) /\ gram # <<>>
       /\ model[gram].prob \in Int /\ model[gram].bow \in Int
  /\ \A gram \in Grams(model) : \A n \in 1 .. Len(gram) : Start(gram, n) \in Grams(model)

LEMMA CompleteModel ==
  ASSUME NEW model \in Arpas, HasAllStarts(model)
  PROVE  IsTextModel(model)
  <1> DEFINE every == UNION {Starts(gram) : gram \in Grams(model)}
  <1>1. every \ Grams(model) = {}
    BY DEF HasAllStarts, AuxGrams
  <1>2. ASSUME NEW gram \in Grams(model), NEW n \in 1 .. Len(gram)
        PROVE  Start(gram, n) \in every
    <2>1. Start(gram, n) \in Starts(gram)
      BY DEF Starts
    <2> QED BY <2>1
  <1> HIDE DEF every
  <1>3. \A gram \in Grams(model) : \A n \in 1 .. Len(gram) : Start(gram, n) \in Grams(model)
    BY <1>1, <1>2
  <1> QED BY <1>3, ArpasAssumption DEF IsTextModel

LEMMA TreeFacts ==
  ASSUME NEW model, HasAllStarts(model)
  PROVE  /\ \A gram \in Grams(model) :
              /\ gram \in Grams(CreateFromText(model))
              /\ CreateFromText(model)[gram] = model[gram]
         /\ \A gram \in Grams(CreateFromText(model)) : gram \notin Grams(model) =>
              /\ Len(gram) = 1
              /\ CreateFromText(model)[gram] = Entry(NotInLM, 0)
  <1>1. AuxGrams(model) = {}
    BY DEF HasAllStarts
  <1>2. ASSUME NEW gram \in MissingUnigrams(model)
        PROVE  Len(gram) = 1
    BY DEF MissingUnigrams
  <1>3. Grams(CreateFromText(model)) = Grams(model) \cup MissingUnigrams(model)
    BY <1>1 DEF CreateFromText, Grams
  <1>4. ASSUME NEW gram \in Grams(model) \cup MissingUnigrams(model)
        PROVE  CreateFromText(model)[gram]
                 = IF gram \in Grams(model) THEN model[gram] ELSE Entry(NotInLM, 0)
    BY <1>1 DEF CreateFromText
  <1> QED BY <1>2, <1>3, <1>4

(* What is found is the longest start that the text model knows, or a      *)
(* unigram that was missing and is worth nothing.                          *)
LEMMA LookupFacts ==
  ASSUME NEW model, IsTextModel(model), HasAllStarts(model), NEW gram \in Seq(Nat),
         NEW hit, hit = GetNGram(CreateFromText(model), gram)
  PROVE  /\ hit.order \in 0 .. Len(gram)
         /\ \A n \in 1 .. Len(gram) : n > hit.order => Start(gram, n) \notin Grams(model)
         /\ hit.order # 0 => hit.backoff = BackOffWeight(model, Start(gram, hit.order))
         /\ hit.prob = MatchedCost(model, gram)
         /\ Matched(model, gram) \in 0 .. Len(gram)
         /\ \/ hit.order = Matched(model, gram)
            \/ hit.order = 1 /\ Matched(model, gram) = 0
         /\ \A n \in 1 .. Len(gram) : n > Matched(model, gram) =>
              Start(gram, n) \notin Grams(model)
         /\ hit.prob \in Int
  <1> DEFINE tree == CreateFromText(model)
             N == Len(gram)
             Followed == {n \in 1 .. N : \A k \in 1 .. n : Start(gram, k) \in Grams(tree)}
             Known == {n \in 1 .. N : Start(gram, n) \in Grams(model)}
             q == Longest(Followed)
             m == Longest(Known)
  <1>1. /\ hit.order = q /\ m = Matched(model, gram)
        /\ hit.prob = IF q = 0 THEN NotInLM ELSE tree[Start(gram, q)].prob
        /\ hit.backoff = IF q = 0 THEN 0 ELSE tree[Start(gram, q)].bow
    BY DEF GetNGram, Matched
  <1>2. N \in Nat
    BY LenProperties
  <1>3. Followed \in SUBSET (1 .. N) /\ Known \in SUBSET (1 .. N)
    OBVIOUS
  <1>4. /\ q \in 0 .. N /\ (Followed = {} => q = 0) /\ (Followed # {} => q \in Followed)
        /\ \A n \in Followed : n <= q
    <2> HIDE DEF N, Followed
    <2> QED BY <1>2, <1>3, LongestFacts
  <1>5. /\ m \in 0 .. N /\ (Known = {} => m = 0) /\ (Known # {} => m \in Known)
        /\ \A n \in Known : n <= m
    <2> HIDE DEF N, Known
    <2> QED BY <1>2, <1>3, LongestFacts
  <1>6. ASSUME NEW n \in Known, NEW k \in 1 .. n
        PROVE  k \in Known
    <2>1. n \in 1 .. N /\ Start(gram, n) \in Grams(model)
      OBVIOUS
    <2>2. Len(Start(gram, n)) = n /\ Start(Start(gram, n), k) = Start(gram, k)
      <3>1. Len(Start(gram, n)) = n
        BY <2>1, SubSeqProperties, ElementOfSeq DEF Start
      <3>2. n \in 1 .. Len(gram) /\ 1 \in 1 .. Len(gram)
            /\ k \in 1 .. n - 1 + 1 /\ 1 \in 1 .. n - 1 + 1
        BY <1>2, <2>1
      <3>3. SubSeq(SubSeq(gram, 1, n), 1, k) = SubSeq(gram, 1 + 1 - 1, 1 + k - 1)
        BY <3>2, SubSeqOfSubSeq
      <3>4. 1 + 1 - 1 = 1 /\ 1 + k - 1 = k
        BY <1>2, <2>1
      <3> QED BY <3>1, <3>3, <3>4 DEF Start
    <2>3. Start(gram, k) \in Grams(model)
      BY <2>1, <2>2 DEF IsTextModel
    <2>4. k \in 1 .. N
      BY <1>2, <2>1
    <2> QED BY <2>3, <2>4
  <1>7. Known \subseteq Followed
    <2> SUFFICES ASSUME NEW n \in Known PROVE n \in Followed
      OBVIOUS
    <2>1. \A k \in 1 .. n : Start(gram, k) \in Grams(model)
      BY <1>6
    <2> QED BY <2>1, TreeFacts
  <1>8. ASSUME q # 0
        PROVE  /\ q \in 1 .. N /\ Start(gram, q) \in Grams(tree)
               /\ \/ q = m /\ Start(gram, q) \in Grams(model)
                  \/ q = 1 /\ m = 0 /\ Start(gram, q) \notin Grams(model)
    <2>1. q \in Followed
      BY <1>4, <1>8
    <2>2. q \in 1 .. N /\ \A k \in 1 .. q : Start(gram, k) \in Grams(tree)
      BY <2>1
    <2> HIDE DEF q, tree, Followed
    <2>3. q \in 1 .. q
      BY <2>2
    <2>4. CASE q \in Known
      <3> HIDE DEF Known
      <3>1. Known # {} /\ m \in Known /\ q <= m
        BY <1>5, <2>4
      <3>2. m <= q
        BY <1>4, <1>7, <3>1
      <3>3. q = m
        BY <1>2, <1>4, <1>5, <3>1, <3>2
      <3> QED BY <2>2, <2>3, <2>4, <3>3 DEF Known
    <2>5. CASE q \notin Known
      <3>1. Start(gram, q) \notin Grams(model)
        BY <2>2, <2>5
      <3>2. Len(Start(gram, q)) = 1
        BY <2>2, <2>3, <3>1, TreeFacts DEF tree
      <3>3. Len(Start(gram, q)) = q
        BY <2>2, SubSeqProperties, ElementOfSeq DEF Start
      <3>4. Known = {}
        <4> SUFFICES ASSUME NEW n \in Known PROVE FALSE
          OBVIOUS
        <4>1. 1 \in 1 .. n
          BY <1>2
        <4>2. 1 \in Known
          BY <1>6, <4>1
        <4> QED BY <2>5, <3>2, <3>3, <4>2
      <3> QED BY <1>5, <2>2, <2>3, <3>1, <3>2, <3>3, <3>4
    <2> QED BY <2>4, <2>5
  <1>9. \A n \in 1 .. N : n > m => Start(gram, n) \notin Grams(model)
    <2> SUFFICES ASSUME NEW n \in 1 .. N, n > m, Start(gram, n) \in Grams(model)
                 PROVE  FALSE
      OBVIOUS
    <2>1. n \in Known
      OBVIOUS
    <2> HIDE DEF Known, m
    <2> QED BY <1>2, <1>5, <2>1
  <1>10. \A n \in 1 .. N : n > q => Start(gram, n) \notin Grams(model)
    <2>1. m <= q
      <3>1. CASE Known = {}
        BY <1>2, <1>4, <1>5, <3>1
      <3>2. CASE Known # {}
        <4> HIDE DEF Known, Followed
        <4> QED BY <1>4, <1>5, <1>7, <3>2
      <3> QED BY <3>1, <3>2
    <2> HIDE DEF q, m
    <2>2. ASSUME NEW n \in 1 .. N, n > q PROVE n > m
      BY <1>2, <1>4, <1>5, <2>1, <2>2
    <2> QED BY <1>9, <2>2
  <1>11. ASSUME q # 0
         PROVE  hit.backoff = BackOffWeight(model, Start(gram, q))
    <2> HIDE DEF q, tree
    <2>1. hit.backoff = tree[Start(gram, q)].bow
      BY <1>1, <1>11
    <2>2. CASE Start(gram, q) \in Grams(model)
      BY <2>1, <2>2, TreeFacts DEF BackOffWeight, tree
    <2>3. CASE Start(gram, q) \notin Grams(model)
      BY <1>8, <1>11, <2>1, <2>3, TreeFacts DEF BackOffWeight, tree, Entry
    <2> QED BY <2>2, <2>3
  <1>12. hit.prob = MatchedCost(model, gram)
    <2> HIDE DEF q, tree, m
    <2>1. CASE q = 0
      <3>1. m = 0
        <4>1. m \in Known \/ m = 0
          BY <1>5
        <4>2. m \in Followed => m <= q
          BY <1>4
        <4> QED BY <1>2, <1>5, <1>7, <2>1, <4>1, <4>2
      <3> QED BY <1>1, <2>1, <3>1 DEF MatchedCost
    <2>2. CASE q # 0 /\ Start(gram, q) \in Grams(model)
      <3>1. q = m /\ tree[Start(gram, q)] = model[Start(gram, q)]
        BY <1>8, <2>2, TreeFacts DEF tree
      <3> QED BY <1>1, <2>2, <3>1 DEF MatchedCost
    <2>3. CASE q # 0 /\ Start(gram, q) \notin Grams(model)
      <3>1. m = 0 /\ tree[Start(gram, q)] = Entry(NotInLM, 0)
        BY <1>8, <2>3, TreeFacts DEF tree
      <3> QED BY <1>1, <2>3, <3>1 DEF MatchedCost, Entry
    <2> QED BY <2>1, <2>2, <2>3
  <1>13. MatchedCost(model, gram) \in Int
    <2> HIDE DEF m
    <2>1. CASE m = 0
      BY <1>1, <2>1, NotInLMAssumption DEF MatchedCost
    <2>2. CASE m # 0
      <3>1. Start(gram, m) \in Grams(model)
        BY <1>5, <2>2
      <3> QED BY <1>1, <2>2, <3>1 DEF MatchedCost, IsTextModel
    <2> QED BY <2>1, <2>2
  <1>14. q = m \/ (q = 1 /\ m = 0)
    <2>1. CASE q = 0
      <3> HIDE DEF q, m, Known, Followed
      <3>1. m \in Known => m <= q
        BY <1>4, <1>7
      <3> QED BY <1>2, <1>4, <1>5, <2>1, <3>1
    <2> QED BY <1>8, <2>1
  <1> HIDE DEF q, m, Known, Followed, tree
  <1>15. hit.order \in 0 .. N /\ Matched(model, gram) \in 0 .. N
    BY <1>1, <1>4, <1>5
  <1>16. hit.order # 0 => hit.backoff = BackOffWeight(model, Start(gram, hit.order))
    BY <1>1, <1>11
  <1> QED BY <1>1, <1>9, <1>10, <1>12, <1>13, <1>14, <1>15, <1>16 DEF N

-----------------------------------------------------------------------------
(* The n-grams that the key stands for.                                    *)

DataOk ==
  /\ arpa \in [Enabled -> Arpas]
  /\ lm = [f \in Enabled |-> CreateFromText(arpa[f])]

WindowOk == window \in [1 .. ModelOrder -> Possibility]

LEMMA KeyParts ==
  ASSUME WindowOk, NEW f \in Enabled
  PROVE  /\ WordIds(f) \in Seq(Nat) /\ Len(WordIds(f)) = ModelOrder
         /\ FactorKey(f) \in Seq(Nat) /\ Len(FactorKey(f)) = FactorOrder[f]
         /\ FactorOrder[f] \in 1 .. ModelOrder /\ FactorOrder[f] - 1 \in Nat
         /\ \A r \in 0 .. FactorOrder[f] - 1 :
              /\ SubSeq(WordIds(f), 2, r + 1) \in Seq(Nat)
              /\ Len(SubSeq(WordIds(f), 2, r + 1)) = r
              /\ \A n \in 1 .. r : Start(SubSeq(WordIds(f), 2, r + 1), n)
                                     = SubSeq(WordIds(f), 2, n + 1)
         /\ \A n \in 1 .. FactorOrder[f] - 1 :
              SubSeq(FactorKey(f), 2, n + 1) = SubSeq(WordIds(f), 2, n + 1)
  <1> DEFINE ids == WordIds(f)
             N == FactorOrder[f]
  <1>1. ModelOrder \in Nat /\ N \in 1 .. ModelOrder /\ N - 1 \in Nat
    BY FactorsAssumption, OrderFacts
  <1>2. ASSUME NEW j \in 1 .. ModelOrder
        PROVE  FactorId(f, window[ModelOrder + 1 - j]) \in Nat
    <2>1. ModelOrder + 1 - j \in 1 .. ModelOrder
      BY <1>1
    <2>2. window[ModelOrder + 1 - j] \in Possibility /\ f \in 1 .. NumFactors
      BY <2>1, FactorsAssumption DEF WindowOk
    <2> QED BY <2>2, IdsAssumption
  <1>3. ids \in Seq(Nat) /\ Len(ids) = ModelOrder
    BY <1>1, <1>2 DEF WordIds
  <1> HIDE DEF ids, N
  <1>4. \A k \in 1 .. ModelOrder : ids[k] \in Nat
    BY <1>3, ElementOfSeq
  <1>5. SubSeq(ids, 1, N) \in Seq(Nat) /\ Len(SubSeq(ids, 1, N)) = N
    <2>1. \A k \in 1 .. N : ids[k] \in Nat
      BY <1>1, <1>4
    <2>2. 1 \in Int /\ N \in Int /\ 1 <= N
      BY <1>1
    <2> QED BY <2>1, <2>2, SubSeqProperties
  <1>6. ASSUME NEW r \in 0 .. N - 1
        PROVE  /\ SubSeq(ids, 2, r + 1) \in Seq(Nat)
               /\ Len(SubSeq(ids, 2, r + 1)) = r
    <2>1. \A k \in 2 .. r + 1 : ids[k] \in Nat
      BY <1>1, <1>4
    <2>2. 2 \in Int /\ r + 1 \in Int
      BY <1>1
    <2>3. (IF 2 <= r + 1 THEN r + 1 - 2 + 1 ELSE 0) = r
      BY <1>1
    <2>4. /\ SubSeq(ids, 2, r + 1) \in Seq(Nat)
          /\ Len(SubSeq(ids, 2, r + 1)) = IF 2 <= r + 1 THEN r + 1 - 2 + 1 ELSE 0
      BY <2>1, <2>2, SubSeqProperties
    <2> QED BY <2>3, <2>4
  <1>7. ASSUME NEW r \in 0 .. N - 1, NEW n \in 1 .. r
        PROVE  SubSeq(SubSeq(ids, 2, r + 1), 1, n) = SubSeq(ids, 2, n + 1)
    <2>1. /\ 2 \in 1 .. Len(ids) /\ r + 1 \in 1 .. Len(ids)
          /\ 1 \in 1 .. r + 1 - 2 + 1 /\ n \in 1 .. r + 1 - 2 + 1
      BY <1>1, <1>3
    <2>2. 2 + 1 - 1 = 2 /\ 2 + n - 1 = n + 1
      BY <1>1
    <2>3. SubSeq(SubSeq(ids, 2, r + 1), 1, n) = SubSeq(ids, 2 + 1 - 1, 2 + n - 1)
      BY <1>3, <2>1, SubSeqOfSubSeq
    <2> QED BY <2>2, <2>3
  <1>8. ASSUME NEW n \in 1 .. N - 1
        PROVE  SubSeq(SubSeq(ids, 1, N), 2, n + 1) = SubSeq(ids, 2, n + 1)
    <2>1. /\ 1 \in 1 .. Len(ids) /\ N \in 1 .. Len(ids)
          /\ 2 \in 1 .. N - 1 + 1 /\ n + 1 \in 1 .. N - 1 + 1
      BY <1>1, <1>3
    <2>2. 1 + 2 - 1 = 2 /\ 1 + (n + 1) - 1 = n + 1
      BY <1>1
    <2>3. SubSeq(SubSeq(ids, 1, N), 2, n + 1) = SubSeq(ids, 1 + 2 - 1, 1 + (n + 1) - 1)
      BY <1>3, <2>1, SubSeqOfSubSeq
    <2> QED BY <2>2, <2>3
  <1>9. FactorKey(f) = SubSeq(ids, 1, N)
    BY DEF FactorKey, Start, ids, N
  <1> QED BY <1>1, <1>3, <1>5, <1>6, <1>7, <1>8, <1>9 DEF Start, ids, N

(* The weights of the reference are those of the contexts in the key.      *)
WeightsOf(f) == Weights(arpa[f], FactorKey(f))
MatchedOf(f) == Matched(arpa[f], FactorKey(f))

NothingMissing == \A model \in Arpas : HasAllStarts(model)

LEMMA WeightFacts ==
  ASSUME NothingMissing, DataOk, WindowOk, NEW f \in Enabled
  PROVE  /\ IsTextModel(arpa[f]) /\ HasAllStarts(arpa[f])
         /\ lm[f] = CreateFromText(arpa[f])
         /\ Len(WeightsOf(f)) = FactorOrder[f] - 1
         /\ Len(WeightsOf(f)) \in Nat
         /\ MatchedOf(f) \in 0 .. FactorOrder[f]
         /\ \A n \in 1 .. FactorOrder[f] - 1 :
              /\ WeightsOf(f)[n] \in Int
              /\ WeightsOf(f)[n]
                   = IF n >= MatchedOf(f)
                       THEN BackOffWeight(arpa[f], SubSeq(WordIds(f), 2, n + 1)) ELSE 0
         /\ BackedOffCost(arpa[f], FactorKey(f))
              = MatchedCost(arpa[f], FactorKey(f))
                  + Sums(WeightsOf(f))[FactorOrder[f] - 1]
         /\ MatchedCost(arpa[f], FactorKey(f)) \in Int
         /\ \A k \in 0 .. FactorOrder[f] - 1 : Sums(WeightsOf(f))[k] \in Int
         /\ BackedOffCost(arpa[f], FactorKey(f)) \in Int
  <1> DEFINE model == arpa[f]
             gram == FactorKey(f)
             N == FactorOrder[f]
  <1>1. model \in Arpas /\ lm[f] = CreateFromText(model)
    BY DEF DataOk
  <1>2. IsTextModel(model) /\ HasAllStarts(model)
    BY <1>1, CompleteModel DEF NothingMissing
  <1>3. gram \in Seq(Nat) /\ Len(gram) = N /\ N - 1 \in Nat /\ N \in Nat
    BY KeyParts, FactorsAssumption
  <1>4. MatchedOf(f) \in 0 .. N /\ MatchedCost(model, gram) \in Int
    <2> DEFINE hit == GetNGram(CreateFromText(model), gram)
    <2>1. /\ hit.prob = MatchedCost(model, gram) /\ hit.prob \in Int
          /\ Matched(model, gram) \in 0 .. Len(gram)
      BY <1>2, <1>3, LookupFacts
    <2> QED BY <1>3, <2>1 DEF MatchedOf
  <1>5. Len(WeightsOf(f)) = N - 1
    BY <1>3 DEF WeightsOf, Weights
  <1>6. ASSUME NEW n \in 1 .. N - 1
        PROVE  WeightsOf(f)[n] = IF n >= MatchedOf(f)
                 THEN BackOffWeight(model, SubSeq(WordIds(f), 2, n + 1)) ELSE 0
    <2>1. WeightsOf(f)[n] = IF n >= MatchedOf(f)
            THEN BackOffWeight(model, SubSeq(gram, 2, n + 1)) ELSE 0
      BY <1>3 DEF WeightsOf, Weights, MatchedOf
    <2>2. SubSeq(gram, 2, n + 1) = SubSeq(WordIds(f), 2, n + 1)
      BY KeyParts
    <2> QED BY <2>1, <2>2
  <1>7. ASSUME NEW n \in 1 .. N - 1
        PROVE  WeightsOf(f)[n] \in Int
    <2> DEFINE context == SubSeq(WordIds(f), 2, n + 1)
    <2>1. BackOffWeight(model, context) \in Int
      <3> HIDE DEF model, context
      <3> QED BY <1>2 DEF BackOffWeight, IsTextModel
    <2> QED BY <1>6, <2>1
  <1>8. \A k \in 0 .. N - 1 : Sums(WeightsOf(f))[k] \in Int
    <2> HIDE DEF N
    <2>1. /\ Len(WeightsOf(f)) \in Nat
          /\ \A k \in 1 .. Len(WeightsOf(f)) : WeightsOf(f)[k] \in Int
      BY <1>3, <1>5, <1>7
    <2> QED BY <1>5, <2>1, SumsFacts
  <1>9. BackedOffCost(model, gram)
          = MatchedCost(model, gram) + Sums(WeightsOf(f))[N - 1]
    BY <1>5 DEF BackedOffCost, Total, WeightsOf
  <1> HIDE DEF model, gram, N
  <1>10. BackedOffCost(model, gram) \in Int
    <2>1. N - 1 \in 0 .. N - 1
      BY <1>3
    <2> QED BY <1>4, <1>8, <1>9, <2>1
  <1> QED BY <1>1, <1>2, <1>3, <1>4, <1>5, <1>6, <1>7, <1>8, <1>9, <1>10
          DEF model, gram, N

Lowest(f) == IF MatchedOf(f) = 0 THEN 1 ELSE MatchedOf(f)

(* The lookup of the n-gram itself.                                        *)
LEMMA NGramLookup ==
  ASSUME NothingMissing, DataOk, WindowOk, NEW f \in Enabled,
         NEW hit, hit = GetNGram(lm[f], FactorKey(f))
  PROVE  /\ hit.order = FactorOrder[f] =>
              hit.prob = BackedOffCost(arpa[f], FactorKey(f))
         /\ (IF hit.order >= 1 THEN hit.order ELSE 1) = Lowest(f)
         /\ hit.prob = BackedOffCost(arpa[f], FactorKey(f))
                           - Sums(WeightsOf(f))[FactorOrder[f] - 1]
  <1> DEFINE N == FactorOrder[f]
             m == MatchedOf(f)
             q == hit.order
             sums == Sums(WeightsOf(f))
             whole == BackedOffCost(arpa[f], FactorKey(f))
  <1>1. N \in Nat /\ N - 1 \in Nat /\ N - 1 \in 0 .. N - 1 /\ 0 \in 0 .. N - 1 /\ N >= 1
    <2>1. N - 1 \in Nat /\ N \in Nat
      BY KeyParts, FactorsAssumption
    <2> HIDE DEF N
    <2> QED BY <2>1
  <1>2. /\ q \in 0 .. N /\ hit.prob = MatchedCost(arpa[f], FactorKey(f))
        /\ m \in 0 .. N /\ (q = m \/ (q = 1 /\ m = 0))
    <2>1. /\ IsTextModel(arpa[f]) /\ HasAllStarts(arpa[f])
          /\ FactorKey(f) \in Seq(Nat) /\ Len(FactorKey(f)) = N
          /\ hit = GetNGram(CreateFromText(arpa[f]), FactorKey(f))
      BY KeyParts, WeightFacts
    <2> QED BY <2>1, LookupFacts DEF MatchedOf
  <1>3. /\ whole = hit.prob + sums[N - 1] /\ whole \in Int /\ sums[N - 1] \in Int
        /\ hit.prob \in Int
    BY <1>1, <1>2, WeightFacts
  <1>4. q = N => sums[N - 1] = 0
    <2> SUFFICES ASSUME q = N PROVE sums[N - 1] = 0
      OBVIOUS
    <2>1. \A n \in 1 .. N - 1 : n >= m => FALSE
      <3> HIDE DEF N, m, q
      <3> QED BY <1>1, <1>2
    <2>2. \A n \in 1 .. N - 1 : WeightsOf(f)[n] = 0
      BY <2>1, WeightFacts
    <2>3. /\ Len(WeightsOf(f)) = N - 1
          /\ \A n \in 1 .. N - 1 : WeightsOf(f)[n] \in Int
      BY WeightFacts
    <2> HIDE DEF N
    <2>4. 0 + 1 = 1 /\ N - 1 \in 0 .. N - 1
      BY <1>1
    <2>5. sums[N - 1] = sums[0]
      BY <1>1, <2>2, <2>3, <2>4, ZerosAddNothing
    <2>6. sums[0] = 0
      BY <1>1, <2>3, SumsFacts
    <2> QED BY <2>5, <2>6
  <1>5. (IF q >= 1 THEN q ELSE 1) = IF m = 0 THEN 1 ELSE m
    <2> HIDE DEF N, m, q
    <2>1. q \in Nat /\ m \in Nat /\ (q = m \/ (q = 1 /\ m = 0))
      BY <1>1, <1>2
    <2> QED BY <2>1
  <1> HIDE DEF N, m, q, sums, whole
  <1>6. hit.prob = whole - sums[N - 1] /\ (q = N => hit.prob = whole)
    BY <1>3, <1>4
  <1> QED BY <1>5, <1>6 DEF N, m, q, sums, whole, Lowest

(* The lookup of a context: the contexts that were skipped have no weight. *)
LEMMA ContextLookup ==
  ASSUME NothingMissing, DataOk, WindowOk, NEW f \in Enabled,
         NEW r \in 0 .. FactorOrder[f] - 1,
         NEW hit, hit = GetNGram(lm[f], SubSeq(WordIds(f), 2, r + 1))
  PROVE  /\ hit.order \in 0 .. r
         /\ hit.order # 0 => hit.backoff \in Int
         /\ Sums(WeightsOf(f))[r]
              = IF hit.order = 0 THEN 0
                ELSE Sums(WeightsOf(f))[hit.order - 1]
                       + IF hit.order >= Lowest(f) THEN hit.backoff ELSE 0
  <1> DEFINE N == FactorOrder[f]
             m == MatchedOf(f)
             q == hit.order
             sums == Sums(WeightsOf(f))
             gram == SubSeq(WordIds(f), 2, r + 1)
  <1>1. N - 1 \in Nat /\ r \in 0 .. N - 1 /\ r \in Nat /\ m \in Nat
    <2>1. N - 1 \in Nat /\ N \in Nat /\ r \in 0 .. N - 1
      BY KeyParts, FactorsAssumption
    <2>2. m \in 0 .. N
      BY WeightFacts
    <2> HIDE DEF N, m
    <2> QED BY <2>1, <2>2
  <1>2. gram \in Seq(Nat) /\ Len(gram) = r
        /\ \A n \in 1 .. r : Start(gram, n) = SubSeq(WordIds(f), 2, n + 1)
    BY KeyParts
  <1>3. IsTextModel(arpa[f]) /\ HasAllStarts(arpa[f])
        /\ hit = GetNGram(CreateFromText(arpa[f]), gram)
    BY WeightFacts
  <1>4. /\ q \in 0 .. r
        /\ \A n \in 1 .. r : n > q => Start(gram, n) \notin Grams(arpa[f])
        /\ q # 0 => hit.backoff = BackOffWeight(arpa[f], Start(gram, q))
    BY <1>2, <1>3, LookupFacts
  <1>5. /\ Len(WeightsOf(f)) = N - 1
        /\ \A n \in 1 .. N - 1 : WeightsOf(f)[n] \in Int
    BY WeightFacts
  <1>6. ASSUME NEW n \in 1 .. r
        PROVE  WeightsOf(f)[n]
                 = IF n >= m THEN BackOffWeight(arpa[f], Start(gram, n)) ELSE 0
    <2>1. n \in 1 .. N - 1
      <3> HIDE DEF N
      <3> QED BY <1>1
    <2> QED BY <1>2, <2>1, WeightFacts
  <1> HIDE DEF N, m, q, gram, sums
  <1>7. ASSUME NEW n \in q + 1 .. r
        PROVE  WeightsOf(f)[n] = 0
    <2>1. n \in 1 .. r /\ n > q
      BY <1>1, <1>4
    <2>2. BackOffWeight(arpa[f], Start(gram, n)) = 0
      BY <1>4, <2>1 DEF BackOffWeight
    <2> QED BY <1>6, <2>1, <2>2
  <1>8. sums[r] = sums[q]
    <2>1. q \in 0 .. N - 1 /\ r \in q .. N - 1
      BY <1>1, <1>4
    <2> QED BY <1>1, <1>5, <1>7, <2>1, ZerosAddNothing DEF sums
  <1>9. sums[0] = 0 /\ \A n \in 1 .. N - 1 : sums[n] = sums[n - 1] + WeightsOf(f)[n]
    BY <1>1, <1>5, SumsFacts DEF sums
  <1>10. CASE q = 0
    BY <1>4, <1>8, <1>9, <1>10 DEF q, sums
  <1>11. CASE q # 0
    <2>1. q \in 1 .. r /\ q \in 1 .. N - 1
      BY <1>1, <1>4, <1>11
    <2>2. sums[r] = sums[q - 1] + WeightsOf(f)[q]
      BY <1>8, <1>9, <2>1
    <2>3. WeightsOf(f)[q] = IF q >= m THEN hit.backoff ELSE 0
      BY <1>4, <1>6, <1>11, <2>1
    <2>4. (q >= m) = (q >= Lowest(f))
      BY <1>1, <2>1 DEF Lowest, m
    <2>5. hit.backoff \in Int
      <3>1. BackOffWeight(arpa[f], Start(gram, q)) \in Int
        BY <1>3 DEF BackOffWeight, IsTextModel
      <3> QED BY <1>4, <1>11, <3>1
    <2>6. sums[r] = sums[q - 1] + IF q >= Lowest(f) THEN hit.backoff ELSE 0
      BY <2>2, <2>3, <2>4
    <2> QED BY <1>4, <1>11, <2>5, <2>6 DEF q, sums
  <1> QED BY <1>10, <1>11

(* Contexts shorter than what was matched have no weight.                  *)
LEMMA ShortContexts ==
  ASSUME NothingMissing, DataOk, WindowOk, NEW f \in Enabled,
         NEW r \in 0 .. FactorOrder[f] - 1, r < Lowest(f)
  PROVE  Sums(WeightsOf(f))[r] = 0
  <1> DEFINE N == FactorOrder[f]
             m == MatchedOf(f)
  <1>1. N - 1 \in Nat /\ r \in 0 .. N - 1 /\ r \in Nat /\ m \in Nat
    <2>1. N - 1 \in Nat /\ N \in Nat /\ r \in 0 .. N - 1
      BY KeyParts, FactorsAssumption
    <2>2. m \in 0 .. N
      BY WeightFacts
    <2> HIDE DEF N, m
    <2> QED BY <2>1, <2>2
  <1>2. /\ Len(WeightsOf(f)) = N - 1
        /\ \A n \in 1 .. N - 1 : WeightsOf(f)[n] \in Int
    BY WeightFacts
  <1>3. \A n \in 1 .. N - 1 : n < m => WeightsOf(f)[n] = 0
    <2> SUFFICES ASSUME NEW n \in 1 .. N - 1, n < m PROVE WeightsOf(f)[n] = 0
      OBVIOUS
    <2>1. ~(n >= m)
      <3> HIDE DEF N, m
      <3> QED BY <1>1
    <2> QED BY <2>1, WeightFacts
  <1>4. r < (IF m = 0 THEN 1 ELSE m)
    BY DEF Lowest
  <1> HIDE DEF N, m
  <1>5. \A n \in 0 + 1 .. r : WeightsOf(f)[n] = 0
    <2> SUFFICES ASSUME NEW n \in 0 + 1 .. r PROVE WeightsOf(f)[n] = 0
      OBVIOUS
    <2>1. n \in 1 .. N - 1 /\ n < m
      BY <1>1, <1>4
    <2> QED BY <1>3, <2>1
  <1>6. Sums(WeightsOf(f))[r] = Sums(WeightsOf(f))[0]
    <2>1. 0 \in 0 .. N - 1 /\ r \in 0 .. N - 1
      BY <1>1
    <2> QED BY <1>1, <1>2, <1>5, <2>1, ZerosAddNothing
  <1>7. Sums(WeightsOf(f))[0] = 0
    BY <1>1, <1>2, SumsFacts
  <1> QED BY <1>6, <1>7

-----------------------------------------------------------------------------

(***************************************************************************)
(* While the contexts are walked through, prob is what the reference says  *)
(* but for the weights of the contexts that are still to come.             *)
(***************************************************************************)
CostInv ==
  /\ KeyInv
  /\ DataOk
  /\ pc # "idle" => /\ WindowOk
                    /\ factor \in 1 .. NumFactors + 1
                    /\ ret_cost = Sums(FactorCosts)[factor - 1]
  /\ pc = "backoff" =>
       /\ lowest = Lowest(factor)
       /\ ret_prob = BackedOffCost(arpa[factor], FactorKey(factor))
                   - Sums(WeightsOf(factor))[order]
  /\ pc \in {"restore", "add"} =>
       ret_prob = BackedOffCost(arpa[factor], FactorKey(factor))
  /\ CostIsBackedOff

LEMMA FactorCostFacts ==
  NothingMissing /\ DataOk /\ WindowOk =>
    /\ Len(FactorCosts) = NumFactors /\ NumFactors \in Nat
    /\ Sums(FactorCosts)[0] = 0
    /\ \A k \in 1 .. NumFactors :
         /\ FactorCosts[k] \in Int
         /\ Sums(FactorCosts)[k] = Sums(FactorCosts)[k - 1] + FactorCosts[k]
    /\ \A k \in 0 .. NumFactors : Sums(FactorCosts)[k] \in Int
    /\ Total(FactorCosts) = Sums(FactorCosts)[NumFactors]
  <1> SUFFICES ASSUME NothingMissing, DataOk, WindowOk
               PROVE  /\ Len(FactorCosts) = NumFactors /\ NumFactors \in Nat
                      /\ Sums(FactorCosts)[0] = 0
                      /\ \A k \in 1 .. NumFactors :
                           /\ FactorCosts[k] \in Int
                           /\ Sums(FactorCosts)[k]
                                = Sums(FactorCosts)[k - 1] + FactorCosts[k]
                      /\ \A k \in 0 .. NumFactors : Sums(FactorCosts)[k] \in Int
                      /\ Total(FactorCosts) = Sums(FactorCosts)[NumFactors]
    OBVIOUS
  <1>1. NumFactors \in Nat /\ Len(FactorCosts) = NumFactors
    BY FactorsAssumption DEF FactorCosts
  <1>2. ASSUME NEW k \in 1 .. NumFactors
        PROVE  FactorCosts[k] \in Int
    <2>1. FactorCosts[k] = IF k \in Enabled
            THEN Weight[k] * BackedOffCost(arpa[k], FactorKey(k)) ELSE 0
      BY DEF FactorCosts
    <2>2. CASE k \in Enabled
      <3>1. Weight[k] \in Int /\ BackedOffCost(arpa[k], FactorKey(k)) \in Int
        BY <2>2, FactorsAssumption, WeightFacts
      <3>2. \A a, b \in Int : a * b \in Int
        OBVIOUS
      <3> QED BY <2>1, <2>2, <3>1, <3>2
    <2> QED BY <2>1, <2>2
  <1>3. /\ Sums(FactorCosts)[0] = 0
        /\ \A k \in 1 .. NumFactors :
             Sums(FactorCosts)[k] = Sums(FactorCosts)[k - 1] + FactorCosts[k]
        /\ \A k \in 0 .. NumFactors : Sums(FactorCosts)[k] \in Int
    BY <1>1, <1>2, SumsFacts
  <1> QED BY <1>1, <1>2, <1>3 DEF Total

(* What the n-gram of the key is before and during the walk.               *)
LEMMA KeyIsNGram ==
  ASSUME KeyInv, WindowOk
  PROVE  /\ pc = "ngram" => KeyNGram(factor) = FactorKey(factor)
         /\ pc = "backoff" => KeyNGram(factor) = SubSeq(WordIds(factor), 2, order + 1)
  <1>1. CASE pc = "ngram"
    <2>1. offset = filled /\ offset \in Int /\ order = FactorOrder[factor]
          /\ order \in Int
      BY <1>1, FactorsAssumption DEF KeyInv
    <2>2. offset - filled + 1 = 1 /\ offset - filled + order = order
      BY <2>1
    <2> QED BY <1>1, <2>1, <2>2 DEF KeyNGram, FactorKey, Start
  <1>2. CASE pc = "backoff"
    <2>1. offset = filled + 1 /\ offset \in Int /\ filled \in Int /\ order \in Int
      BY <1>2, FactorsAssumption DEF KeyInv
    <2>2. offset - filled + 1 = 2 /\ offset - filled + order = order + 1
      BY <2>1
    <2> QED BY <1>2, <2>2 DEF KeyNGram
  <1> QED BY <1>1, <1>2

(* The steps of GetProb leave what the reference is made of alone.         *)
Sources == <<arpa, lm, window, factor, ret_cost>>

LEMMA SameSources ==
  ASSUME UNCHANGED Sources
  PROVE  /\ DataOk' = DataOk /\ WindowOk' = WindowOk
         /\ FactorCosts' = FactorCosts
         /\ Lowest(factor)' = Lowest(factor)
         /\ BackedOffCost(arpa[factor], FactorKey(factor))'
              = BackedOffCost(arpa[factor], FactorKey(factor))
         /\ WeightsOf(factor)' = WeightsOf(factor)
  <1>1. arpa' = arpa /\ lm' = lm /\ window' = window /\ factor' = factor
    BY DEF Sources
  <1>2. DataOk' = DataOk /\ WindowOk' = WindowOk
    BY <1>1 DEF DataOk, WindowOk
  <1>3. \A f : WordIds(f)' = WordIds(f)
    BY <1>1 DEF WordIds
  <1>4. FactorKey(factor)' = FactorKey(factor) /\ \A f : FactorKey(f)' = FactorKey(f)
    BY <1>1, <1>3 DEF FactorKey
  <1>5. FactorCosts' = FactorCosts
    BY <1>1, <1>4 DEF FactorCosts
  <1>6. WeightsOf(factor)' = WeightsOf(factor) /\ MatchedOf(factor)' = MatchedOf(factor)
    BY <1>1, <1>4 DEF WeightsOf, MatchedOf
  <1> QED BY <1>1, <1>2, <1>4, <1>5, <1>6 DEF Lowest

(* What every step inside of GetProb has to show.                          *)
ProbInv ==
  /\ pc = "backoff" =>
       /\ lowest = Lowest(factor)
       /\ ret_prob = BackedOffCost(arpa[factor], FactorKey(factor))
                   - Sums(WeightsOf(factor))[order]
  /\ pc \in {"restore", "add"} =>
       ret_prob = BackedOffCost(arpa[factor], FactorKey(factor))

LEMMA InsideGetProb ==
  ASSUME CostInv, KeyInv', UNCHANGED Sources, ProbInv', pc # "idle", pc' # "idle"
  PROVE  CostInv'
  <1>1. DataOk' /\ WindowOk' /\ FactorCosts' = FactorCosts
    BY SameSources DEF CostInv
  <1>2. factor' = factor /\ ret_cost' = ret_cost
    BY DEF Sources
  <1>3. CostIsBackedOff'
    BY DEF CostIsBackedOff
  <1> QED BY <1>1, <1>2, <1>3 DEF CostInv, ProbInv

LEMMA FindNGramCost ==
  ASSUME NothingMissing, CostInv, FindNGram
  PROVE  CostInv'
  <1>1. KeyInv'
    BY OtherInv DEF CostInv
  <1>2. /\ pc = "ngram" /\ factor \in Enabled /\ WindowOk /\ DataOk
        /\ order = FactorOrder[factor] /\ KeyNGram(factor) = FactorKey(factor)
    BY KeyIsNGram DEF CostInv, FindNGram, KeyInv
  <1>3. ret_prob' = BackedOffCost(arpa[factor], FactorKey(factor))
    BY <1>2, NGramLookup DEF Found, FindNGram
  <1>4. UNCHANGED Sources /\ pc' = "add"
    BY DEF Sources, FindNGram, models
  <1>5. ProbInv'
    BY <1>3, <1>4, SameSources DEF ProbInv
  <1> QED BY <1>1, <1>2, <1>4, <1>5, InsideGetProb

LEMMA StartBackOffCost ==
  ASSUME NothingMissing, CostInv, StartBackOff
  PROVE  CostInv'
  <1>1. KeyInv'
    BY StartBackOffInv DEF CostInv
  <1>2. /\ pc = "ngram" /\ factor \in Enabled /\ WindowOk /\ DataOk
        /\ order = FactorOrder[factor] /\ KeyNGram(factor) = FactorKey(factor)
    BY KeyIsNGram DEF CostInv, StartBackOff, KeyInv
  <1>3. /\ lowest' = Lowest(factor) /\ order' = FactorOrder[factor] - 1
        /\ ret_prob' = BackedOffCost(arpa[factor], FactorKey(factor))
                     - Sums(WeightsOf(factor))[FactorOrder[factor] - 1]
    BY <1>2, NGramLookup DEF Found, StartBackOff
  <1>4. UNCHANGED Sources /\ pc' = "backoff"
    BY DEF Sources, StartBackOff, models
  <1>5. ProbInv'
    BY <1>3, <1>4, SameSources DEF ProbInv
  <1> QED BY <1>1, <1>2, <1>4, <1>5, InsideGetProb

LEMMA BackOffCost ==
  ASSUME NothingMissing, CostInv, BackOff
  PROVE  CostInv'
  <1> DEFINE N == FactorOrder[factor]
             sums == Sums(WeightsOf(factor))
             whole == BackedOffCost(arpa[factor], FactorKey(factor))
  <1>1. KeyInv' /\ UNCHANGED Sources /\ pc' # "idle"
    BY BackOffInv DEF CostInv, Sources, BackOff, models
  <1>2. /\ pc = "backoff" /\ factor \in Enabled /\ WindowOk /\ DataOk
        /\ lowest = Lowest(factor) /\ ret_prob = whole - sums[order]
        /\ KeyNGram(factor) = SubSeq(WordIds(factor), 2, order + 1)
        /\ order < N /\ order \in 0 .. ModelOrder
    BY KeyIsNGram DEF CostInv, BackOff, KeyInv
  <1>3. order \in 0 .. N - 1
    <2>1. N \in 1 .. ModelOrder /\ ModelOrder \in Nat
      BY <1>2, OrderFacts, FactorsAssumption
    <2> HIDE DEF N
    <2> QED BY <1>2, <2>1
  <1>4. /\ Found.order \in 0 .. order
        /\ Found.order # 0 => Found.backoff \in Int
        /\ sums[order] = IF Found.order = 0 THEN 0
                         ELSE sums[Found.order - 1]
                                + IF Found.order >= lowest THEN Found.backoff ELSE 0
    BY <1>2, <1>3, ContextLookup DEF Found
  <1>5. whole \in Int /\ \A k \in 0 .. N - 1 : sums[k] \in Int
    BY <1>2, WeightFacts
  <1>6. /\ ret_prob' = ret_prob + IF Found.order >= lowest THEN Found.backoff ELSE 0
        /\ lowest' = lowest
        /\ IF Found.order = 0 THEN pc' = "restore"
           ELSE pc' = "backoff" /\ order' = Found.order - 1
    BY <1>2 DEF BackOff
  <1>7. lowest \in Int /\ lowest >= 1
    BY <1>2 DEF CostInv, KeyInv
  <1> DEFINE q == Found.order
             weight == IF q >= lowest THEN Found.backoff ELSE 0
  <1>8. CASE q = 0
    <2>1. ~(q >= lowest)
      BY <1>7, <1>8
    <2>2. ret_prob = whole - 0 /\ ret_prob' = ret_prob + 0
      BY <1>2, <1>4, <1>6, <1>8, <2>1
    <2> HIDE DEF whole
    <2>3. ret_prob' = whole
      BY <1>5, <2>2
    <2>4. pc' = "restore"
      BY <1>6, <1>8
    <2>5. ProbInv'
      BY <1>1, <2>3, <2>4, SameSources DEF ProbInv, whole
    <2> QED BY <1>1, <1>2, <2>5, InsideGetProb
  <1>9. CASE q # 0
    <2>1. weight \in Int /\ q - 1 \in 0 .. N - 1 /\ order \in Int
      <3>1. N \in Nat /\ order \in 0 .. N - 1
        BY <1>2, <1>3, OrderFacts, FactorsAssumption
      <3> HIDE DEF N, q
      <3>2. q \in 0 .. order /\ (q # 0 => Found.backoff \in Int)
        BY <1>4 DEF q
      <3> QED BY <1>9, <3>1, <3>2
    <2>2. ret_prob = whole - sums[order] /\ sums[order] = sums[q - 1] + weight
          /\ ret_prob' = ret_prob + weight /\ sums[q - 1] \in Int
      BY <1>2, <1>4, <1>5, <1>6, <1>9, <2>1
    <2>3. pc' = "backoff" /\ order' = q - 1 /\ lowest' = Lowest(factor)
      BY <1>2, <1>6, <1>9
    <2> HIDE DEF whole, sums, weight, q, N
    <2>4. \A a, b, x \in Int : (a - (b + x)) + x = a - b
      OBVIOUS
    <2>5. ret_prob' = whole - sums[q - 1]
      BY <1>5, <2>1, <2>2, <2>4
    <2>6. ProbInv'
      BY <1>1, <2>3, <2>5, SameSources DEF ProbInv, whole, sums
    <2> QED BY <1>1, <1>2, <2>6, InsideGetProb
  <1> QED BY <1>8, <1>9

LEMMA EndBackOffCost ==
  ASSUME NothingMissing, CostInv, EndBackOff
  PROVE  CostInv'
  <1> DEFINE whole == BackedOffCost(arpa[factor], FactorKey(factor))
  <1>1. KeyInv' /\ UNCHANGED Sources /\ pc' = "add" /\ ret_prob' = ret_prob /\ pc # "idle"
    BY EndBackOffInv DEF CostInv, Sources, EndBackOff, models
  <1>2. factor \in Enabled /\ WindowOk /\ DataOk
    BY DEF CostInv, EndBackOff, KeyInv
  <1>3. whole \in Int
    BY <1>2, WeightFacts
  <1>4. ret_prob = whole
    <2>1. CASE pc = "restore"
      BY <2>1 DEF CostInv
    <2>2. CASE pc = "backoff"
      <3>1. order < FactorOrder[factor] /\ order \in 0 .. ModelOrder
        BY <2>2 DEF CostInv, KeyInv
      <3>2. order \in 0 .. FactorOrder[factor] - 1
        <4>1. FactorOrder[factor] \in 1 .. ModelOrder /\ ModelOrder \in Nat
          BY <1>2, OrderFacts, FactorsAssumption
        <4> QED BY <3>1, <4>1
      <3>3. order < Lowest(factor)
        BY <2>2 DEF CostInv, EndBackOff
      <3>4. Sums(WeightsOf(factor))[order] = 0
        BY <1>2, <3>2, <3>3, ShortContexts
      <3>5. ret_prob = whole - 0
        BY <2>2, <3>4 DEF CostInv
      <3> HIDE DEF whole
      <3> QED BY <1>3, <3>5
    <2> QED BY <2>1, <2>2 DEF EndBackOff
  <1>5. ProbInv'
    BY <1>1, <1>4, SameSources DEF ProbInv
  <1> QED BY <1>1, <1>5, InsideGetProb

LEMMA SameCosts ==
  ASSUME UNCHANGED <<arpa, lm, window>>
  PROVE  DataOk' = DataOk /\ WindowOk' = WindowOk /\ FactorCosts' = FactorCosts
  <1>1. \A f : WordIds(f)' = WordIds(f)
    BY DEF WordIds
  <1>2. \A f : FactorKey(f)' = FactorKey(f)
    BY <1>1 DEF FactorKey
  <1> QED BY <1>2 DEF DataOk, WindowOk, FactorCosts

LEMMA NextFactorCost ==
  ASSUME NothingMissing, CostInv, SkipFactor \/ AddFactor
  PROVE  CostInv'
  <1>1. KeyInv'
    BY OtherInv, AddFactorInv DEF CostInv
  <1>2. UNCHANGED <<arpa, lm, window>> /\ pc' = "factor" /\ factor' = factor + 1
        /\ pc # "idle"
    BY DEF SkipFactor, AddFactor, models
  <1>3. /\ DataOk /\ WindowOk /\ NumFactors \in Nat /\ factor \in 1 .. NumFactors + 1
        /\ ret_cost = Sums(FactorCosts)[factor - 1]
    BY <1>2, FactorsAssumption DEF CostInv
  <1>4. factor \in 1 .. NumFactors
    <2>1. CASE SkipFactor
      BY <1>3, <2>1 DEF SkipFactor
    <2>2. CASE AddFactor
      BY <2>2, FactorsAssumption DEF CostInv, KeyInv, AddFactor
    <2> QED BY <2>1, <2>2
  <1>5. Sums(FactorCosts)[factor] = Sums(FactorCosts)[factor - 1] + FactorCosts[factor]
        /\ Sums(FactorCosts)[factor - 1] \in Int
    <2>1. factor - 1 \in 0 .. NumFactors
      BY <1>3, <1>4
    <2> QED BY <1>3, <1>4, <2>1, FactorCostFacts
  <1>6. FactorCosts[factor] = IF factor \in Enabled
          THEN Weight[factor] * BackedOffCost(arpa[factor], FactorKey(factor)) ELSE 0
    BY <1>4 DEF FactorCosts
  <1>7. ret_cost' = Sums(FactorCosts)[factor]
    <2>1. CASE SkipFactor
      <3>1. ret_cost' = ret_cost /\ FactorCosts[factor] = 0
        BY <1>6, <2>1 DEF SkipFactor
      <3> QED BY <1>3, <1>5, <3>1
    <2>2. CASE AddFactor
      <3>1. factor \in Enabled /\ ret_prob = BackedOffCost(arpa[factor], FactorKey(factor))
        BY <2>2 DEF CostInv, KeyInv, AddFactor
      <3>2. ret_cost' = ret_cost + FactorCosts[factor]
        BY <1>6, <2>2, <3>1 DEF AddFactor
      <3> QED BY <1>3, <1>5, <3>2
    <2> QED BY <2>1, <2>2
  <1>8. /\ DataOk' /\ WindowOk' /\ FactorCosts' = FactorCosts
    BY <1>2, <1>3, SameCosts
  <1>9. factor' \in 1 .. NumFactors + 1 /\ factor' - 1 = factor
    BY <1>2, <1>3, <1>4
  <1>10. ret_cost' = Sums(FactorCosts')[factor' - 1]
    BY <1>7, <1>8, <1>9
  <1> QED BY <1>1, <1>2, <1>8, <1>9, <1>10 DEF CostInv, CostIsBackedOff

LEMMA FillKeyCost ==
  ASSUME CostInv, FillKey
  PROVE  CostInv'
  <1>1. KeyInv' /\ UNCHANGED Sources /\ pc = "factor" /\ pc' = "ngram"
    BY FillKeyInv DEF CostInv, Sources, FillKey, models
  <1>2. ProbInv'
    BY <1>1 DEF ProbInv
  <1> QED BY <1>1, <1>2, InsideGetProb

LEMMA ReturnCost ==
  ASSUME NothingMissing, CostInv, Return
  PROVE  CostInv'
  <1>1. KeyInv'
    BY OtherInv DEF CostInv
  <1>2. /\ UNCHANGED <<arpa, lm, window>> /\ factor > NumFactors /\ ret_cost' = ret_cost
        /\ pc' = "idle" /\ pc # "idle"
    BY DEF Return, models
  <1>3. /\ DataOk /\ WindowOk /\ NumFactors \in Nat /\ factor - 1 = NumFactors
        /\ ret_cost = Sums(FactorCosts)[factor - 1]
    BY <1>2, FactorsAssumption DEF CostInv
  <1>4. ret_cost = Total(FactorCosts)
    BY <1>3, FactorCostFacts
  <1>5. DataOk' /\ FactorCosts' = FactorCosts
    BY <1>2, <1>3, SameCosts
  <1>6. CostIsBackedOff'
    BY <1>2, <1>4, <1>5 DEF CostIsBackedOff
  <1> QED BY <1>1, <1>2, <1>5, <1>6 DEF CostInv

LEMMA NoCostYet ==
  NothingMissing /\ DataOk' /\ WindowOk' => Sums(FactorCosts)'[0] = 0
  <1>1. NothingMissing /\ DataOk /\ WindowOk => Sums(FactorCosts)[0] = 0
    BY FactorCostFacts
  <1>2. (NothingMissing /\ DataOk /\ WindowOk => Sums(FactorCosts)[0] = 0)'
    BY <1>1, PTL
  <1> QED BY <1>2 DEF NothingMissing

LEMMA CallCost ==
  ASSUME NothingMissing, CostInv, Call
  PROVE  CostInv'
  <1>1. KeyInv'
    BY OtherInv DEF CostInv
  <1>2. DataOk' /\ WindowOk' /\ pc' = "factor" /\ factor' = 1 /\ ret_cost' = 0
    BY DEF CostInv, Call, DataOk, WindowOk, models
  <1>3. Sums(FactorCosts)'[0] = 0
    BY <1>2, NoCostYet
  <1>4. factor' \in 1 .. NumFactors + 1 /\ factor' - 1 = 0
    BY <1>2, FactorsAssumption
  <1>5. ret_cost' = Sums(FactorCosts)'[factor' - 1]
    BY <1>2, <1>3, <1>4
  <1> QED BY <1>1, <1>2, <1>4, <1>5 DEF CostInv, CostIsBackedOff

LEMMA StutterCost ==
  ASSUME CostInv, UNCHANGED vars
  PROVE  CostInv'
  <1>1. KeyInv' /\ UNCHANGED Sources /\ UNCHANGED <<arpa, lm, window>>
        /\ UNCHANGED <<pc, ret_prob, lowest, order, factor, ret_cost, window>>
    BY OtherInv DEF CostInv, vars, Sources, models
  <1>2. CostIsBackedOff'
    BY <1>1, SameCosts DEF CostInv, CostIsBackedOff
  <1>3. DataOk' /\ (pc' # "idle" => WindowOk' /\ factor' \in 1 .. NumFactors + 1
                                    /\ ret_cost' = Sums(FactorCosts')[factor' - 1])
    BY <1>1, SameCosts DEF CostInv
  <1>4. ProbInv'
    BY <1>1, SameSources DEF CostInv, ProbInv
  <1> QED BY <1>1, <1>2, <1>3, <1>4 DEF CostInv, ProbInv

LEMMA InitCost == Init => CostInv
  BY InitKeyInv DEF Init, CostInv, DataOk, CostIsBackedOff

(* Every call of ComputeTransitionCost costs what the weighted back-off    *)
(* models say, for every number of factors, order and n-gram, and whatever *)
(* calls were before it, if the text models have the starts of their       *)
(* n-grams (lm_wrapper.cpp:20-61).                                         *)
THEOREM CostIsAlwaysBackedOff ==
  ASSUME NothingMissing
  PROVE  Spec => []CostIsBackedOff
  <1>1. CostInv /\ [Next]_vars => CostInv'
    BY FindNGramCost, StartBackOffCost, BackOffCost, EndBackOffCost, NextFactorCost,
       FillKeyCost, ReturnCost, CallCost, StutterCost
    DEF Next, Compute
  <1>2. CostInv => CostIsBackedOff
    BY DEF CostInv
  <1> QED BY <1>1, <1>2, InitCost, PTL DEF Spec

-----------------------------------------------------------------------------
(* The configuration that is loaded.                                       *)

Factor ==
  [enabled : BOOLEAN, lm : Lines \cup {None}, order : Nat,
   weight : {line.weight : line \in LmLines} \cup {0}]

(* What is kept for the factors fits together while lines are read: every  *)
(* number in factor_map is one of a factor, also after a second morpholex  *)
(* line, and no lexicon is there without factors.                          *)
FactorsTyped ==
  /\ factors \in Seq(Factor)
  /\ named \in Nat
  /\ lastEnabled \in Nat \ {0}
  /\ modelOrder \in Nat \ {0}

NumbersFit ==
  /\ \A name \in DOMAIN factorMap : factorMap[name] \in DOMAIN factors
  /\ lexiconLine # None => factors # <<>>

OrdersTyped == progress = "reading" => viterbiOrder \in Nat

(* What the lm lines of the file and its lexicons have to do with what is   *)
(* kept of the factors.  It is not said of a file that ends the program.   *)

ModelsOfFile ==
  /\ \A i \in DOMAIN factors : factors[i].enabled =>
       \E line \in LinesIn("lm") : line.order = factors[i].order
  /\ \A line \in LinesIn("lm") : line.order <= modelOrder
  /\ modelOrder = 1 \/ \E line \in LinesIn("lm") : line.order = modelOrder
  /\ LinesIn("lm") # {} =>
       lastEnabled \in DOMAIN factors /\ factors[lastEnabled].enabled

LexiconsOfFile ==
  /\ lexiconLine = None => factors = <<>> /\ factorMap = <<>>
  /\ lexiconLine # None =>
       /\ lexiconLine \in LinesIn("morpholex") /\ NumberedFactorsExist
       /\ \A name \in DOMAIN factorMap : factorMap[name] <= Len(lexiconLine.factors)
  /\ \/ lastEnabled = 1
     \/ \E line \in LinesIn("morpholex") : lastEnabled <= Len(line.factors)

OfFile == file \in Seq(Lines) /\ ModelsOfFile /\ LexiconsOfFile

FileInv == progress \in {"reading", "loaded", "running"} => OfFile

LoadInv ==
  /\ FactorsTyped
  /\ NumbersFit
  /\ ModelsFit
  /\ LastIsEnabled
  /\ OrdersTyped
  /\ OrdersFit
  /\ progress \in {"loaded", "running"} => lexiconLine # None
  /\ FileInv

factorState == <<factorVars, lexiconLine>>
FactorsInv == FactorsTyped /\ NumbersFit /\ ModelsFit /\ LastIsEnabled

-----------------------------------------------------------------------------

(* A lookup in factor_map finds the number of a factor.                    *)
LEMMA NumberIsThere ==
  ASSUME FactorsTyped, NumbersFit, factors # <<>>, NEW name
  PROVE  NumberOf(name) \in DOMAIN factors
  <1>1. 1 \in DOMAIN factors
    BY DEF FactorsTyped
  <1> QED BY <1>1 DEF NumberOf, NumbersFit

LEMMA HigherIsHigher ==
  ASSUME NEW m \in Nat \ {0}, NEW n \in Nat \ {0}
  PROVE  /\ Higher(m, n) \in Nat \ {0}
         /\ m <= Higher(m, n) /\ n <= Higher(m, n)
         /\ Higher(m, n) \in {m, n}
  BY DEF Higher

(* The numbers of the factors of a morpholex line.                         *)
LEMMA FactorMapInRange ==
  ASSUME NEW names \in Seq(STRING), NEW name \in DOMAIN FactorMapOf(names)
  PROVE  FactorMapOf(names)[name] \in 1 .. Len(names)
  <1>1. name \in ToSet(names)
    BY DEF FactorMapOf
  <1>2. \E i \in 1 .. Len(names) : names[i] = name
    BY <1>1 DEF ToSet
  <1>3. (CHOOSE i \in 1 .. Len(names) : names[i] = name) \in 1 .. Len(names)
    BY <1>2
  <1> QED BY <1>1, <1>3 DEF FactorMapOf

(* A morpholex line adds factors that are not enabled.                     *)
LEMMA MorpholexKeepsFactors ==
  ASSUME FactorsInv, NEW line \in Lines, ReadMorpholex(line)
  PROVE  /\ FactorsInv'
         /\ Len(line.factors) <= Len(factors')
         /\ \A i \in DOMAIN factors' : factors'[i].enabled =>
              i \in DOMAIN factors /\ factors'[i] = factors[i]
         /\ \A i \in DOMAIN factors : i \in DOMAIN factors' /\ factors'[i] = factors[i]
  <1> DEFINE total == named + Len(line.factors)
             more == [i \in 1 .. total |-> Disabled]
  <1>1. line.factors \in Seq(STRING) /\ line.factors # <<>>
    BY LinesAssumption DEF ReadMorpholex, MorpholexLines
  <1>2. /\ Len(line.factors) \in Nat \ {0} /\ named \in Nat
        /\ total \in Nat \ {0} /\ Len(line.factors) <= total
    BY <1>1 DEF FactorsInv, FactorsTyped
  <1>3. Disabled \in Factor
    BY DEF Disabled, Factor
  <1>4. more \in Seq(Factor) /\ Len(more) = total
    BY <1>2, <1>3
  <1>5. /\ factors' = factors \o more /\ named' = total
        /\ factorMap' = FactorMapOf(line.factors)
        /\ lastEnabled' = lastEnabled /\ modelOrder' = modelOrder
    BY DEF ReadMorpholex
  <1>6. factors \in Seq(Factor) /\ Len(factors) \in Nat
    BY DEF FactorsInv, FactorsTyped
  <1> HIDE DEF more, total
  <1>7. /\ factors' \in Seq(Factor)
        /\ Len(factors') = Len(factors) + total
        /\ \A i \in 1 .. Len(factors') :
             factors'[i] = IF i <= Len(factors) THEN factors[i]
                           ELSE more[i - Len(factors)]
    BY <1>4, <1>5, <1>6, ConcatProperties
  <1>8. \A i \in DOMAIN factors' :
          \/ i \in DOMAIN factors /\ factors'[i] = factors[i]
          \/ i \notin DOMAIN factors /\ ~factors'[i].enabled
    <2> SUFFICES ASSUME NEW i \in 1 .. Len(factors')
                 PROVE  \/ i \in DOMAIN factors /\ factors'[i] = factors[i]
                        \/ i \notin DOMAIN factors /\ ~factors'[i].enabled
      BY <1>7
    <2>1. CASE i <= Len(factors)
      BY <2>1, <1>6, <1>7
    <2>2. CASE ~(i <= Len(factors))
      <3>1. i - Len(factors) \in 1 .. total
        BY <2>2, <1>2, <1>6, <1>7
      <3>2. more[i - Len(factors)] = Disabled
        BY <3>1 DEF more
      <3> QED BY <2>2, <3>2, <1>6, <1>7 DEF Disabled
    <2> QED BY <2>1, <2>2
  <1>9. \A i \in DOMAIN factors : i \in DOMAIN factors' /\ factors'[i] = factors[i]
    BY <1>2, <1>6, <1>7
  <1>10. FactorsTyped'
    BY <1>2, <1>5, <1>7 DEF FactorsInv, FactorsTyped
  <1>11. NumbersFit'
    <2>1. ASSUME NEW name \in DOMAIN factorMap'
          PROVE  factorMap'[name] \in DOMAIN factors'
      <3>1. factorMap'[name] \in 1 .. Len(line.factors)
        BY <2>1, <1>1, <1>5, FactorMapInRange
      <3> QED BY <3>1, <1>2, <1>6, <1>7
    <2>2. factors' # <<>>
      BY <1>2, <1>6, <1>7
    <2> QED BY <2>1, <2>2 DEF NumbersFit
  <1>12. ModelsFit'
    BY <1>5, <1>8 DEF FactorsInv, ModelsFit
  <1>13. LastIsEnabled'
    BY <1>5, <1>8, <1>9 DEF FactorsInv, LastIsEnabled
  <1>14. Len(line.factors) <= Len(factors')
    BY <1>2, <1>6, <1>7
  <1>15. \A i \in DOMAIN factors' : factors'[i].enabled =>
           i \in DOMAIN factors /\ factors'[i] = factors[i]
    BY <1>8
  <1> QED BY <1>9, <1>10, <1>11, <1>12, <1>13, <1>14, <1>15 DEF FactorsInv

(* A lm line enables a factor, or replaces its model.                      *)
LEMMA LMKeepsFactors ==
  ASSUME FactorsInv, NEW line \in Lines, ReadLM(line)
  PROVE  /\ FactorsInv'
         /\ lastEnabled' \in DOMAIN factors' /\ factors'[lastEnabled'].enabled
         /\ \A i \in DOMAIN factors' :
              \/ factors'[i].order = line.order
              \/ i \in DOMAIN factors /\ factors'[i] = factors[i]
         /\ lastEnabled' \in {lastEnabled, NumberOf(line.factor)}
         /\ line.order <= modelOrder' /\ modelOrder' \in {modelOrder, line.order}
         /\ Len(factors') = Len(factors)
  <1> DEFINE number == NumberOf(line.factor)
             model == EnabledFactor(factors[number], line)
  <1>1. line \in LmLines /\ line.order \in Nat
    BY LinesAssumption DEF ReadLM, LmLines
  <1>2. factors # <<>> /\ FactorsTyped /\ NumbersFit
    BY DEF ReadLM, FactorsInv
  <1>3. number \in DOMAIN factors /\ DOMAIN factors = 1 .. Len(factors)
    BY <1>2, NumberIsThere DEF FactorsTyped
  <1>4. model \in Factor /\ model.enabled /\ model.order = line.order
    BY <1>1 DEF EnabledFactor, Factor, LmLines
  <1>5. /\ factors' = [factors EXCEPT ![number] = model]
        /\ factorMap' = [name \in DOMAIN factorMap \cup {line.factor} |->
                           NumberOf(name)]
        /\ lastEnabled' = Higher(lastEnabled, number)
        /\ modelOrder' = Higher(modelOrder, line.order)
        /\ lexiconLine' = lexiconLine /\ named' = named
    BY DEF ReadLM, partVars
  <1>6. lastEnabled \in Nat \ {0} /\ modelOrder \in Nat \ {0} /\ named \in Nat
    BY <1>2 DEF FactorsTyped
  <1>7. number \in Nat \ {0}
    BY <1>2, <1>3 DEF FactorsTyped
  <1> HIDE DEF number, model
  <1>8. /\ lastEnabled' \in Nat \ {0} /\ lastEnabled <= lastEnabled'
        /\ number <= lastEnabled' /\ lastEnabled' \in {lastEnabled, number}
    BY <1>5, <1>6, <1>7, HigherIsHigher
  <1>9. /\ modelOrder' \in Nat \ {0} /\ modelOrder <= modelOrder'
        /\ line.order <= modelOrder' /\ modelOrder' \in {modelOrder, line.order}
    BY <1>1, <1>5, <1>6 DEF Higher
  <1>10. /\ factors' \in Seq(Factor) /\ DOMAIN factors' = DOMAIN factors
         /\ Len(factors') = Len(factors) /\ factors'[number] = model
         /\ \A i \in DOMAIN factors : i # number => factors'[i] = factors[i]
    BY <1>2, <1>3, <1>4, <1>5 DEF FactorsTyped
  <1>11. FactorsTyped'
    BY <1>5, <1>6, <1>8, <1>9, <1>10 DEF FactorsTyped
  <1>12. NumbersFit'
    <2>1. ASSUME NEW name \in DOMAIN factorMap'
          PROVE  factorMap'[name] \in DOMAIN factors'
      <3>1. factorMap'[name] = NumberOf(name)
        BY <2>1, <1>5
      <3> QED BY <3>1, <1>2, <1>10, NumberIsThere
    <2>2. factors' # <<>>
      BY <1>3, <1>10
    <2> QED BY <2>1, <2>2 DEF NumbersFit
  <1>13. ModelsFit'
    <2> SUFFICES ASSUME NEW i \in DOMAIN factors', factors'[i].enabled
                 PROVE  factors'[i].order \in 0 .. modelOrder' /\ i <= lastEnabled'
      BY DEF ModelsFit
    <2>1. CASE i = number
      BY <2>1, <1>1, <1>4, <1>8, <1>9, <1>10
    <2>2. CASE i # number
      <3>1. /\ factors[i].order \in 0 .. modelOrder
            /\ i <= lastEnabled /\ factors'[i] = factors[i]
        BY <2>2, <1>10 DEF FactorsInv, ModelsFit
      <3>2. i \in Nat
        BY <1>2, <1>10 DEF FactorsTyped
      <3> QED BY <3>1, <3>2, <1>6, <1>8, <1>9
    <2> QED BY <2>1, <2>2
  <1>14. lastEnabled' \in DOMAIN factors' /\ factors'[lastEnabled'].enabled
    <2>1. CASE lastEnabled' = number
      BY <2>1, <1>3, <1>4, <1>10
    <2>2. CASE lastEnabled' # number
      <3>1. lastEnabled' = lastEnabled
        BY <2>2, <1>8
      <3>2. CASE lastEnabled \in DOMAIN factors /\ factors[lastEnabled].enabled
        BY <3>1, <3>2, <2>2, <1>10
      <3>3. CASE lastEnabled = 1
        <4>1. number = 1
          BY <3>1, <3>3, <1>7, <1>8
        <4> QED BY <4>1, <3>1, <3>3, <2>2
      <3> QED BY <3>2, <3>3 DEF FactorsInv, LastIsEnabled
    <2> QED BY <2>1, <2>2
  <1>15. LastIsEnabled'
    BY <1>14 DEF LastIsEnabled
  <1>16. ASSUME NEW i \in DOMAIN factors'
         PROVE  \/ factors'[i].order = line.order
                \/ i \in DOMAIN factors /\ factors'[i] = factors[i]
    BY <1>4, <1>10
  <1>17. FactorsInv'
    BY <1>11, <1>12, <1>13, <1>15 DEF FactorsInv
  <1> QED BY <1>8, <1>9, <1>10, <1>14, <1>16, <1>17 DEF number

(* All other steps leave the factors alone.                                *)
LEMMA OthersKeepFactors ==
  ASSUME FactorsInv, UNCHANGED factorState
  PROVE  FactorsInv'
  BY DEF FactorsInv, FactorsTyped, NumbersFit, ModelsFit, LastIsEnabled,
         factorState, factorVars

LEMMA StepKeepsFactors ==
  ASSUME FactorsInv, [LoadNext]_loadVars
  PROVE  FactorsInv'
  <1>1. ASSUME NEW line \in Lines, ReadMorpholex(line) PROVE FactorsInv'
    BY <1>1, MorpholexKeepsFactors
  <1>2. ASSUME NEW line \in Lines, ReadLM(line) PROVE FactorsInv'
    BY <1>2, LMKeepsFactors
  <1>3. ASSUME NEW line \in Lines,
               \/ Reject(line) \/ Ignore(line) \/ ReadErrorModel(line)
               \/ ReadLMTooEarly(line) \/ ReadSearch(line)
               \/ ReadDiagnostics(line) \/ ReadDiagnosticsTooEarly(line)
               \/ ReadViterbi(line) \/ RejectViterbi(line)
        PROVE  FactorsInv'
    <2>1. UNCHANGED factorState
      BY <1>3 DEF Reject, Ignore, ReadErrorModel, ReadLMTooEarly, ReadSearch,
                  ReadDiagnostics, ReadDiagnosticsTooEarly, ReadViterbi,
                  RejectViterbi, StopAs, factorState, factorVars, partVars
    <2> QED BY <2>1, OthersKeepFactors
  <1>4. CASE EndOfFile \/ Override \/ UNCHANGED loadVars
    <2>1. UNCHANGED factorState
      BY <1>4 DEF EndOfFile, Override, loadVars, factorState, factorVars, partVars
    <2> QED BY <2>1, OthersKeepFactors
  <1> QED BY <1>1, <1>2, <1>3, <1>4 DEF LoadNext, ReadLine

-----------------------------------------------------------------------------
(* The orders of the decoder.                                              *)

OrdersInv ==
  /\ OrdersTyped
  /\ OrdersFit
  /\ progress \in {"loaded", "running"} => lexiconLine # None

LEMMA LineKeepsOrders ==
  ASSUME OrdersInv, NEW line \in Lines,
         \/ Reject(line) \/ Ignore(line) \/ ReadMorpholex(line)
         \/ ReadErrorModel(line) \/ ReadLM(line) \/ ReadLMTooEarly(line)
         \/ ReadSearch(line) \/ ReadDiagnostics(line)
         \/ ReadDiagnosticsTooEarly(line)
         \/ ReadViterbi(line) \/ RejectViterbi(line)
  PROVE  OrdersInv'
  <1>1. progress = "reading" /\ viterbiOrder \in Nat
    BY DEF Reject, Ignore, ReadMorpholex, ReadErrorModel, ReadLM, ReadLMTooEarly,
           ReadSearch, ReadDiagnostics, ReadDiagnosticsTooEarly, ReadViterbi,
           RejectViterbi, Read, OrdersInv, OrdersTyped
  <1>2. progress' \in {"reading", "failed", "undefined"}
    BY <1>1 DEF Reject, Ignore, ReadMorpholex, ReadErrorModel, ReadLM,
           ReadLMTooEarly, ReadSearch, ReadDiagnostics, ReadDiagnosticsTooEarly,
           ReadViterbi, RejectViterbi, StopAs
  <1>3. viterbiOrder' \in Nat
    <2>1. CASE ReadViterbi(line)
      <3>1. CASE line.kind = "viterbi_order"
        BY <2>1, <3>1, LinesAssumption DEF ReadViterbi
      <3>2. CASE line.kind # "viterbi_order"
        BY <2>1, <3>2, <1>1 DEF ReadViterbi
      <3> QED BY <3>1, <3>2
    <2>2. CASE ~ReadViterbi(line)
      BY <2>2, <1>1 DEF Reject, Ignore, ReadMorpholex, ReadErrorModel, ReadLM,
           ReadLMTooEarly, ReadSearch, ReadDiagnostics, ReadDiagnosticsTooEarly,
           RejectViterbi, StopAs, viterbiVars
    <2> QED BY <2>1, <2>2
  <1> QED BY <1>2, <1>3 DEF OrdersInv, OrdersTyped, OrdersFit

LEMMA StepKeepsOrders ==
  ASSUME FactorsTyped, OrdersInv, [LoadNext]_loadVars
  PROVE  OrdersInv'
  <1>1. CASE ReadLine
    BY <1>1, LineKeepsOrders DEF ReadLine
  <1>2. CASE EndOfFile
    <2>1. CASE progress' = "loaded"
      <3>1. DefaultOrder > 0 /\ DefaultOrder <= modelOrder /\ lexiconLine # None
        BY <1>2, <2>1 DEF EndOfFile, IsInitialized
      <3>2. viterbiOrder' = DefaultOrder /\ UNCHANGED <<modelOrder, lexiconLine>>
        BY <1>2 DEF EndOfFile, factorVars, partVars
      <3>3. viterbiOrder \in Nat /\ modelOrder \in Nat \ {0}
        BY <1>2 DEF EndOfFile, OrdersInv, OrdersTyped, FactorsTyped
      <3>4. DefaultOrder \in Nat
        BY <3>3 DEF DefaultOrder
      <3> QED BY <2>1, <3>1, <3>2, <3>3, <3>4 DEF OrdersInv, OrdersTyped, OrdersFit
    <2>2. CASE progress' = "failed"
      BY <2>2 DEF OrdersInv, OrdersTyped, OrdersFit
    <2> QED BY <1>2, <2>1, <2>2 DEF EndOfFile
  <1>3. CASE Override
    <2>1. progress = "loaded" /\ progress' = "running" /\ lexiconLine' = lexiconLine
      BY <1>3 DEF Override, partVars
    <2>2. PICK o \in Options : viterbiOrder' = Or(o.viterbi_order, viterbiOrder)
      BY <1>3 DEF Override
    <2>3. viterbiOrder \in 1 .. modelOrder /\ modelOrder \in Nat /\ lexiconLine # None
      BY <2>1 DEF OrdersInv, OrdersFit, FactorsTyped
    <2>4. viterbiOrder' > 0
      BY <2>2, <2>3, LinesAssumption DEF Or
    <2> QED BY <2>1, <2>3, <2>4 DEF OrdersInv, OrdersTyped, OrdersFit
  <1>4. CASE UNCHANGED loadVars
    BY <1>4 DEF loadVars, factorVars, viterbiVars, partVars, OrdersInv, OrdersTyped,
                OrdersFit
  <1> QED BY <1>1, <1>2, <1>3, <1>4 DEF LoadNext

-----------------------------------------------------------------------------

LEMMA AppendLast ==
  ASSUME NEW T, NEW s \in Seq(T), NEW x \in T
  PROVE  /\ Append(s, x) # <<>> /\ Append(s, x) \in Seq(T)
         /\ Last(Append(s, x)) = x
         /\ Len(Append(s, x)) = Len(s) + 1
         /\ s = <<>> => Append(s, x)[1] = x
         /\ s # <<>> => Append(s, x)[1] = s[1]
         /\ ToSet(Append(s, x)) = ToSet(s) \cup {x}
  <1>1. /\ Append(s, x) \in Seq(T) /\ Len(Append(s, x)) = Len(s) + 1
        /\ \A i \in 1 .. Len(s) : Append(s, x)[i] = s[i]
        /\ Append(s, x)[Len(s) + 1] = x /\ Len(s) \in Nat
    OBVIOUS
  <1>2. Append(s, x) # <<>>
    BY <1>1
  <1>3. Last(Append(s, x)) = x
    BY <1>1 DEF Last
  <1>4. s = <<>> => Append(s, x)[1] = x
    BY <1>1
  <1>5. s # <<>> => Append(s, x)[1] = s[1]
    BY <1>1
  <1>6. ToSet(Append(s, x)) = ToSet(s) \cup {x}
    BY <1>1 DEF ToSet
  <1> QED BY <1>1, <1>2, <1>3, <1>4, <1>5, <1>6

LEMMA LinesInAppend ==
  ASSUME file \in Seq(Lines), NEW line \in Lines, Read(line)
  PROVE  /\ file' \in Seq(Lines)
         /\ \A kind : LinesIn(kind)' = IF line.kind = kind
                                       THEN LinesIn(kind) \cup {line}
                                       ELSE LinesIn(kind)
  <1>1. file' = Append(file, line) /\ file' \in Seq(Lines)
    BY DEF Read
  <1>2. ToSet(file') = ToSet(file) \cup {line}
    <2>1. ToSet(Append(file, line)) = ToSet(file) \cup {line}
      BY AppendLast
    <2> QED BY <1>1, <2>1
  <1> QED BY <1>1, <1>2 DEF LinesIn

LEMMA LinesInTyped ==
  ASSUME file \in Seq(Lines)
  PROVE  /\ LinesIn("lm") \subseteq LmLines
         /\ LinesIn("morpholex") \subseteq MorpholexLines
  <1>1. ToSet(file) \subseteq Lines
    BY DEF ToSet
  <1> QED BY <1>1 DEF LinesIn, LmLines, MorpholexLines

LEMMA MorpholexKeepsFile ==
  ASSUME FactorsInv, OfFile, NEW line \in Lines, ReadMorpholex(line)
  PROVE  OfFile'
  <1>1. /\ Read(line) /\ line.kind = "morpholex"
        /\ lexiconLine' = line /\ factorMap' = FactorMapOf(line.factors)
        /\ lastEnabled' = lastEnabled /\ modelOrder' = modelOrder
    BY DEF ReadMorpholex
  <1>2. /\ file' \in Seq(Lines)
        /\ LinesIn("lm")' = LinesIn("lm")
        /\ LinesIn("morpholex")' = LinesIn("morpholex") \cup {line}
    BY <1>1, LinesInAppend DEF OfFile
  <1>3. line # None /\ line.factors \in Seq(STRING)
    BY <1>1, LinesAssumption DEF MorpholexLines
  <1>4. /\ Len(line.factors) <= Len(factors')
        /\ \A i \in DOMAIN factors' : factors'[i].enabled =>
             i \in DOMAIN factors /\ factors'[i] = factors[i]
        /\ \A i \in DOMAIN factors : i \in DOMAIN factors' /\ factors'[i] = factors[i]
    BY MorpholexKeepsFactors
  <1>5. ModelsOfFile'
    BY <1>1, <1>2, <1>4 DEF OfFile, ModelsOfFile
  <1>6. \A name \in DOMAIN factorMap' : factorMap'[name] <= Len(line.factors)
    <2> SUFFICES ASSUME NEW name \in DOMAIN FactorMapOf(line.factors)
                 PROVE  FactorMapOf(line.factors)[name] <= Len(line.factors)
      BY <1>1
    <2>1. FactorMapOf(line.factors)[name] \in 1 .. Len(line.factors)
      BY <1>3, FactorMapInRange
    <2> QED BY <2>1, <1>3
  <1>7. LexiconsOfFile'
    BY <1>1, <1>2, <1>3, <1>4, <1>6 DEF OfFile, LexiconsOfFile, NumberedFactorsExist
  <1> QED BY <1>2, <1>5, <1>7 DEF OfFile

LEMMA LMKeepsFile ==
  ASSUME FactorsInv, OfFile, NEW line \in Lines, ReadLM(line)
  PROVE  OfFile'
  <1>1. /\ Read(line) /\ line.kind = "lm" /\ factors # <<>>
        /\ factorMap' = [name \in DOMAIN factorMap \cup {line.factor} |-> NumberOf(name)]
        /\ lexiconLine' = lexiconLine
    BY DEF ReadLM, partVars
  <1>2. /\ file' \in Seq(Lines)
        /\ LinesIn("lm")' = LinesIn("lm") \cup {line}
        /\ LinesIn("morpholex")' = LinesIn("morpholex")
    BY <1>1, LinesInAppend DEF OfFile
  <1>3. /\ lastEnabled' \in DOMAIN factors' /\ factors'[lastEnabled'].enabled
        /\ \A i \in DOMAIN factors' :
             \/ factors'[i].order = line.order
             \/ i \in DOMAIN factors /\ factors'[i] = factors[i]
        /\ lastEnabled' \in {lastEnabled, NumberOf(line.factor)}
        /\ line.order <= modelOrder' /\ modelOrder' \in {modelOrder, line.order}
        /\ Len(factors') = Len(factors)
    BY LMKeepsFactors
  <1>4. modelOrder \in Nat /\ line.order \in Nat
    BY <1>1, LinesAssumption DEF FactorsInv, FactorsTyped, LmLines
  <1>5. \A other \in LinesIn("lm") : other.order \in Nat /\ other.order <= modelOrder
    BY LinesInTyped, LinesAssumption DEF OfFile, ModelsOfFile
  <1>6. modelOrder <= modelOrder'
    BY <1>4 DEF ReadLM, Higher
  <1>7. ModelsOfFile'
    <2>1. \A other \in LinesIn("lm")' : other.order <= modelOrder'
      <3> SUFFICES ASSUME NEW other \in LinesIn("lm")'
                   PROVE  other.order <= modelOrder'
        OBVIOUS
      <3>1. CASE other = line
        BY <3>1, <1>3
      <3>2. CASE other # line
        <4>1. other.order \in Nat /\ other.order <= modelOrder
          BY <3>2, <1>2, <1>5
        <4> QED BY <4>1, <1>3, <1>4, <1>6
      <3> QED BY <3>1, <3>2
    <2>2. \A i \in DOMAIN factors' : factors'[i].enabled =>
            \E other \in LinesIn("lm")' : other.order = factors'[i].order
      BY <1>2, <1>3 DEF OfFile, ModelsOfFile
    <2>3. modelOrder' = 1 \/ \E other \in LinesIn("lm")' : other.order = modelOrder'
      BY <1>2, <1>3 DEF OfFile, ModelsOfFile
    <2> QED BY <1>3, <2>1, <2>2, <2>3 DEF ModelsOfFile
  <1>8. /\ lexiconLine # None /\ lexiconLine \in LinesIn("morpholex")
        /\ Len(lexiconLine.factors) <= Len(factors)
        /\ \A name \in DOMAIN factorMap : factorMap[name] <= Len(lexiconLine.factors)
    BY <1>1 DEF OfFile, LexiconsOfFile, NumberedFactorsExist
  <1>9. 1 <= Len(lexiconLine.factors)
    <2>1. /\ lexiconLine.factors \in Seq(STRING) /\ lexiconLine.factors # <<>>
      BY <1>8, LinesInTyped, LinesAssumption DEF OfFile
    <2> QED BY <2>1
  <1>10. \A name : NumberOf(name) <= Len(lexiconLine.factors)
    BY <1>8, <1>9 DEF NumberOf
  <1>11. \/ lastEnabled' = 1
         \/ \E other \in LinesIn("morpholex") : lastEnabled' <= Len(other.factors)
    <2>1. CASE lastEnabled' = lastEnabled
      BY <2>1 DEF OfFile, LexiconsOfFile
    <2>2. CASE lastEnabled' = NumberOf(line.factor)
      BY <2>2, <1>8, <1>10
    <2> QED BY <1>3, <2>1, <2>2
  <1>12. \A name \in DOMAIN factorMap' : factorMap'[name] <= Len(lexiconLine'.factors)
    BY <1>1, <1>10
  <1>13. LexiconsOfFile'
    BY <1>1, <1>2, <1>3, <1>8, <1>11, <1>12 DEF LexiconsOfFile, NumberedFactorsExist
  <1> QED BY <1>2, <1>7, <1>13 DEF OfFile

(* Other lines are neither lm nor morpholex lines.                         *)
LEMMA OthersKeepFile ==
  ASSUME OfFile, NEW line \in Lines, Read(line),
         line.kind \notin {"lm", "morpholex"}, UNCHANGED factorState
  PROVE  OfFile'
  <1>1. /\ file' \in Seq(Lines)
        /\ LinesIn("lm")' = LinesIn("lm")
        /\ LinesIn("morpholex")' = LinesIn("morpholex")
    BY LinesInAppend DEF OfFile
  <1> QED BY <1>1 DEF OfFile, ModelsOfFile, LexiconsOfFile, NumberedFactorsExist,
                      factorState, factorVars

LEMMA StepKeepsFile ==
  ASSUME FactorsInv, FileInv, [LoadNext]_loadVars
  PROVE  FileInv'
  <1>1. ASSUME NEW line \in Lines, ReadMorpholex(line) \/ ReadLM(line)
        PROVE  FileInv'
    <2>1. progress = "reading"
      BY <1>1 DEF ReadMorpholex, ReadLM, Read
    <2>2. OfFile
      BY <2>1 DEF FileInv
    <2>3. OfFile'
      BY <1>1, <2>2, MorpholexKeepsFile, LMKeepsFile
    <2> QED BY <2>3 DEF FileInv
  <1>2. ASSUME NEW line \in Lines,
               \/ Ignore(line) \/ ReadErrorModel(line) \/ ReadSearch(line)
               \/ ReadDiagnostics(line) \/ ReadViterbi(line)
        PROVE  FileInv'
    <2>1. /\ Read(line) /\ line.kind \notin {"lm", "morpholex"}
          /\ UNCHANGED factorState
      BY <1>2 DEF Ignore, ReadErrorModel, ReadSearch, ReadDiagnostics, ReadViterbi,
                  IsViterbi, factorState, factorVars, partVars
    <2>2. OfFile
      BY <2>1 DEF Read, FileInv
    <2> QED BY <2>1, <2>2, OthersKeepFile DEF FileInv
  <1>3. ASSUME NEW line \in Lines,
               \/ Reject(line) \/ ReadLMTooEarly(line)
               \/ ReadDiagnosticsTooEarly(line) \/ RejectViterbi(line)
        PROVE  FileInv'
    BY <1>3 DEF Reject, ReadLMTooEarly, ReadDiagnosticsTooEarly, RejectViterbi,
                StopAs, FileInv
  <1>4. CASE EndOfFile \/ Override \/ UNCHANGED loadVars
    <2>1. /\ UNCHANGED <<factorState, file>>
          /\ progress' \in {"reading", "loaded", "running"} =>
               progress \in {"reading", "loaded", "running"}
      BY <1>4 DEF EndOfFile, Override, loadVars, factorState, factorVars, partVars
    <2>2. UNCHANGED <<factorMap, factors, lastEnabled, modelOrder, lexiconLine, file>>
      BY <2>1 DEF factorState, factorVars
    <2>3. \A kind : LinesIn(kind)' = LinesIn(kind)
      BY <2>2 DEF LinesIn
    <2>4. OfFile' = OfFile
      BY <2>2, <2>3 DEF OfFile, ModelsOfFile, LexiconsOfFile, NumberedFactorsExist
    <2> QED BY <2>1, <2>4 DEF FileInv
  <1> QED BY <1>1, <1>2, <1>3, <1>4 DEF LoadNext, ReadLine

(* The last enabled factor is one of the lexicon in use, and all models    *)
(* are of model_order.                                                     *)
LEMMA ProperFileServes ==
  ASSUME FactorsInv, OfFile, lexiconLine # None, IsProper
  PROVE  DecoderIsServed
  <1>1. PICK line \in LinesIn("lm") : line.order > 1
    BY DEF IsProper
  <1>2. /\ modelOrder \in Nat \ {0} /\ line.order \in Nat /\ line.order <= modelOrder
        /\ lastEnabled \in Nat \ {0}
    BY <1>1, LinesInTyped, LinesAssumption
       DEF OfFile, ModelsOfFile, FactorsInv, FactorsTyped
  <1>3. modelOrder > 1
    BY <1>1, <1>2
  <1>4. PICK highest \in LinesIn("lm") : highest.order = modelOrder
    BY <1>3 DEF OfFile, ModelsOfFile
  <1>5. \A i \in DOMAIN factors : factors[i].enabled => factors[i].order = modelOrder
    BY <1>4 DEF IsProper, OfFile, ModelsOfFile
  <1>6. \E i \in DOMAIN factors : factors[i].enabled
    BY <1>1 DEF OfFile, ModelsOfFile
  <1>7. lexiconLine \in LinesIn("morpholex")
    BY DEF OfFile, LexiconsOfFile
  <1>8. lastEnabled <= Len(lexiconLine.factors)
    <2>1. CASE lastEnabled = 1
      <3>1. lexiconLine.factors \in Seq(STRING) /\ lexiconLine.factors # <<>>
        BY <1>7, LinesInTyped, LinesAssumption DEF OfFile
      <3>2. 1 <= Len(lexiconLine.factors)
        BY <3>1
      <3> QED BY <2>1, <3>2
    <2>2. CASE lastEnabled # 1
      <3>1. PICK other \in LinesIn("morpholex") : lastEnabled <= Len(other.factors)
        BY <2>2 DEF OfFile, LexiconsOfFile
      <3>2. Len(other.factors) = Len(lexiconLine.factors)
        BY <3>1, <1>7 DEF IsProper
      <3> QED BY <3>1, <3>2
    <2> QED BY <2>1, <2>2
  <1> QED BY <1>3, <1>5, <1>6, <1>8 DEF DecoderIsServed

-----------------------------------------------------------------------------

(* LoadInv is inductive: what is kept of the factors, where it comes from  *)
(* in the file, and the orders of the decoder, from the constructor to the *)
(* options of the command line.                                            *)
THEOREM ConfigurationInvariance == LoadSpec => []LoadInv
  <1>1. LoadInit => LoadInv
    <2> SUFFICES ASSUME LoadInit PROVE LoadInv
      OBVIOUS
    <2>1. file = <<>> /\ file \in Seq(Lines)
      BY DEF LoadInit
    <2>2. ToSet(file) = {}
      BY <2>1 DEF ToSet
    <2>3. \A kind : LinesIn(kind) = {}
      BY <2>2 DEF LinesIn
    <2>4. FileInv
      BY <2>1, <2>3 DEF LoadInit, FileInv, OfFile, ModelsOfFile, LexiconsOfFile
    <2>5. FactorsTyped /\ NumbersFit /\ ModelsFit /\ LastIsEnabled
      BY DEF LoadInit, FactorsTyped, NumbersFit, ModelsFit, LastIsEnabled
    <2> QED BY <2>4, <2>5 DEF LoadInit, LoadInv, OrdersTyped, OrdersFit
  <1>2. LoadInv <=> FactorsInv /\ OrdersInv /\ FileInv
    BY DEF LoadInv, FactorsInv, OrdersInv
  <1>3. FactorsInv /\ OrdersInv /\ FileInv /\ [LoadNext]_loadVars
          => (FactorsInv /\ OrdersInv /\ FileInv)'
    BY StepKeepsFactors, StepKeepsOrders, StepKeepsFile DEF FactorsInv
  <1>4. LoadInv /\ [LoadNext]_loadVars => LoadInv'
    BY <1>2, <1>3 DEF LoadInv, FactorsInv, OrdersInv
  <1> QED BY <1>1, <1>4, PTL DEF LoadSpec

(* Every configuration that is loaded, from whatever file, has an entry    *)
(* for every factor of its lexicon, model_order above or equal to every    *)
(* order, a last enabled factor that is enabled, and a viterbi order; and  *)
(* a file with models of one order above 1 and lexicons with equally many  *)
(* factors gives the decoder all it takes for granted.                     *)
THEOREM EveryConfigurationServes == LoadSpec => []ServesTheDecoder
  <1>1. LoadInv => ServesTheDecoder
    <2> SUFFICES ASSUME LoadInv PROVE ServesTheDecoder
      OBVIOUS
    <2>1. OrdersFit /\ ModelsFit /\ LastIsEnabled /\ FactorsInv
      BY DEF LoadInv, FactorsInv
    <2>2. ASSUME progress \in {"loaded", "running"}
          PROVE  NumberedFactorsExist /\ (IsProper => DecoderIsServed)
      <3>1. lexiconLine # None /\ OfFile
        BY <2>2 DEF LoadInv, FileInv
      <3>2. NumberedFactorsExist
        BY <3>1 DEF OfFile, LexiconsOfFile
      <3> QED BY <2>1, <3>1, <3>2, ProperFileServes
    <2> QED BY <2>1, <2>2 DEF ServesTheDecoder
  <1> QED BY <1>1, ConfigurationInvariance, PTL

-----------------------------------------------------------------------------
(* The lines of a kind, when one line is appended.                         *)

AreKept(n, lines, wanted, kept) ==
  kept = [k \in 0 .. n |->
            IF k = 0 THEN <<>>
            ELSE IF lines[k] \in wanted THEN Append(kept[k - 1], lines[k])
            ELSE kept[k - 1]]

LEMMA KeptExist ==
  ASSUME NEW lines, NEW wanted, NEW n \in Nat
  PROVE  \E kept : AreKept(n, lines, wanted, kept)
  <1> DEFINE without == {k \in Nat : ~\E kept : AreKept(k, lines, wanted, kept)}
  <1> SUFFICES ASSUME without # {} PROVE FALSE
    OBVIOUS
  <1>1. PICK least \in without : \A k \in without : least <= k
    <2>1. without \in SUBSET Nat
      OBVIOUS
    <2> HIDE DEF without
    <2> QED BY <2>1, LeastExists
  <1>2. least \in Nat /\ ~\E kept : AreKept(least, lines, wanted, kept)
    BY <1>1
  <1>3. least # 0
    <2>1. AreKept(0, lines, wanted, [k \in 0 .. 0 |-> <<>>])
      BY DEF AreKept
    <2> QED BY <1>2, <2>1
  <1>4. PICK shorter : AreKept(least - 1, lines, wanted, shorter)
    <2>1. least - 1 \in Nat /\ least - 1 < least
      BY <1>2, <1>3
    <2>2. least - 1 \notin without
      BY <1>1, <2>1
    <2> QED BY <2>1, <2>2
  <1> DEFINE longer == [k \in 0 .. least |->
                          IF k = 0 THEN <<>>
                          ELSE IF lines[k] \in wanted
                            THEN Append(shorter[k - 1], lines[k])
                          ELSE shorter[k - 1]]
  <1>5. ASSUME NEW k \in 0 .. least - 1
        PROVE  longer[k] = shorter[k]
    <2>1. shorter[k] = IF k = 0 THEN <<>>
                       ELSE IF lines[k] \in wanted
                         THEN Append(shorter[k - 1], lines[k])
                       ELSE shorter[k - 1]
      BY <1>4 DEF AreKept
    <2>2. k \in 0 .. least
      BY <1>2
    <2> QED BY <2>1, <2>2
  <1>6. ASSUME NEW k \in 0 .. least, k # 0
        PROVE  longer[k - 1] = shorter[k - 1]
    <2>1. k - 1 \in 0 .. least - 1
      BY <1>2, <1>6
    <2> QED BY <1>5, <2>1
  <1>7. AreKept(least, lines, wanted, longer)
    BY <1>6 DEF AreKept
  <1> QED BY <1>2, <1>7

LEMMA FilteredIsKept ==
  ASSUME NEW lines, Len(lines) \in Nat, NEW wanted
  PROVE  \E kept : /\ AreKept(Len(lines), lines, wanted, kept)
                   /\ Filtered(lines, wanted) = kept[Len(lines)]
  <1> DEFINE n == Len(lines)
             chosen == CHOOSE kept : AreKept(n, lines, wanted, kept)
  <1>1. Filtered(lines, wanted) = chosen[n]
    BY DEF Filtered, AreKept
  <1>2. AreKept(n, lines, wanted, chosen)
    <2>1. n \in Nat
      OBVIOUS
    <2> HIDE DEF n
    <2> QED BY <2>1, KeptExist
  <1> QED BY <1>1, <1>2

(* What is kept of the first n lines depends on them only.                 *)
LEMMA KeptAgree ==
  ASSUME NEW n \in Nat, NEW m \in Nat, n <= m, NEW lines, NEW more, NEW wanted,
         NEW kept, NEW longer,
         AreKept(n, lines, wanted, kept), AreKept(m, more, wanted, longer),
         \A k \in 1 .. n : more[k] = lines[k]
  PROVE  longer[n] = kept[n]
  <1> DEFINE bad == {k \in Nat : k <= n /\ longer[k] # kept[k]}
  <1>1. bad = {}
    <2> SUFFICES ASSUME bad # {} PROVE FALSE
      OBVIOUS
    <2>1. PICK least \in bad : \A k \in bad : least <= k
      <3>1. bad \in SUBSET Nat
        OBVIOUS
      <3> HIDE DEF bad
      <3> QED BY <3>1, LeastExists
    <2>2. least \in Nat /\ least <= n /\ longer[least] # kept[least]
      BY <2>1
    <2>3. least \in 0 .. n /\ least \in 0 .. m
      BY <2>2
    <2>4. kept[least] = IF least = 0 THEN <<>>
                        ELSE IF lines[least] \in wanted
                          THEN Append(kept[least - 1], lines[least])
                        ELSE kept[least - 1]
      BY <2>3 DEF AreKept
    <2>5. longer[least] = IF least = 0 THEN <<>>
                          ELSE IF more[least] \in wanted
                            THEN Append(longer[least - 1], more[least])
                          ELSE longer[least - 1]
      BY <2>3 DEF AreKept
    <2>6. CASE least # 0
      <3>1. least - 1 \in Nat /\ least - 1 <= n /\ least - 1 < least /\ least \in 1 .. n
        BY <2>2, <2>6
      <3>2. longer[least - 1] = kept[least - 1]
        BY <2>1, <3>1
      <3>3. more[least] = lines[least]
        BY <3>1
      <3> QED BY <2>2, <2>4, <2>5, <2>6, <3>2, <3>3
    <2> QED BY <2>2, <2>4, <2>5, <2>6
  <1>2. n \notin bad
    BY <1>1
  <1> QED BY <1>2

LEMMA FilteredOfNone ==
  ASSUME NEW wanted
  PROVE  Filtered(<<>>, wanted) = <<>>
  <1>1. Len(<<>>) \in Nat /\ Len(<<>>) = 0
    OBVIOUS
  <1>2. PICK kept : /\ AreKept(Len(<<>>), <<>>, wanted, kept)
                    /\ Filtered(<<>>, wanted) = kept[Len(<<>>)]
    BY <1>1, FilteredIsKept
  <1>3. kept[0] = <<>>
    BY <1>1, <1>2 DEF AreKept
  <1> QED BY <1>1, <1>2, <1>3

LEMMA FilteredAppend ==
  ASSUME NEW lines \in Seq(Lines), NEW line \in Lines, NEW wanted
  PROVE  Filtered(Append(lines, line), wanted) =
           IF line \in wanted THEN Append(Filtered(lines, wanted), line)
           ELSE Filtered(lines, wanted)
  <1> DEFINE more == Append(lines, line)
             n == Len(lines)
  <1>1. /\ n \in Nat /\ Len(more) = n + 1 /\ more[n + 1] = line
        /\ \A k \in 1 .. n : more[k] = lines[k]
    OBVIOUS
  <1>2. PICK kept : AreKept(n, lines, wanted, kept) /\ Filtered(lines, wanted) = kept[n]
    BY <1>1, FilteredIsKept
  <1> HIDE DEF more, n
  <1>3. PICK longer : /\ AreKept(n + 1, more, wanted, longer)
                      /\ Filtered(more, wanted) = longer[n + 1]
    <2>1. Len(more) \in Nat
      BY <1>1
    <2> QED BY <2>1, <1>1, FilteredIsKept
  <1>4. longer[n] = kept[n]
    <2>1. n + 1 \in Nat /\ n <= n + 1
      BY <1>1
    <2> QED BY <1>1, <1>2, <1>3, <2>1, KeptAgree
  <1>5. longer[n + 1] = IF more[n + 1] \in wanted THEN Append(longer[n], more[n + 1])
                        ELSE longer[n]
    <2>1. n + 1 \in 0 .. n + 1 /\ n + 1 # 0 /\ (n + 1) - 1 = n
      BY <1>1
    <2>2. longer[n + 1] = IF more[n + 1] \in wanted
                            THEN Append(longer[(n + 1) - 1], more[n + 1])
                          ELSE longer[(n + 1) - 1]
      BY <1>3, <2>1 DEF AreKept
    <2> QED BY <2>1, <2>2
  <1> QED BY <1>1, <1>2, <1>3, <1>4, <1>5 DEF more

LEMMA FilteredTyped ==
  ASSUME NEW lines, Len(lines) \in Nat, NEW wanted
  PROVE  Filtered(lines, wanted) \in Seq(wanted)
  <1> DEFINE n == Len(lines)
  <1>1. PICK kept : AreKept(n, lines, wanted, kept) /\ Filtered(lines, wanted) = kept[n]
    BY FilteredIsKept
  <1>2. n \in Nat
    OBVIOUS
  <1> HIDE DEF n
  <1> DEFINE bad == {k \in Nat : k <= n /\ kept[k] \notin Seq(wanted)}
  <1>3. bad = {}
    <2> SUFFICES ASSUME bad # {} PROVE FALSE
      OBVIOUS
    <2>1. PICK least \in bad : \A k \in bad : least <= k
      <3>1. bad \in SUBSET Nat
        OBVIOUS
      <3> HIDE DEF bad
      <3> QED BY <3>1, LeastExists
    <2>2. least \in Nat /\ least <= n /\ kept[least] \notin Seq(wanted)
      BY <2>1
    <2>3. kept[least] = IF least = 0 THEN <<>>
                        ELSE IF lines[least] \in wanted
                          THEN Append(kept[least - 1], lines[least])
                        ELSE kept[least - 1]
      <3>1. least \in 0 .. n
        BY <1>2, <2>2
      <3> QED BY <1>1, <3>1 DEF AreKept
    <2>4. CASE least = 0
      BY <2>2, <2>3, <2>4
    <2>5. CASE least # 0
      <3>1. least - 1 \in Nat /\ least - 1 <= n /\ least - 1 < least
        BY <1>2, <2>2, <2>5
      <3>2. kept[least - 1] \in Seq(wanted)
        BY <2>1, <3>1
      <3> QED BY <2>2, <2>3, <2>5, <3>2
    <2> QED BY <2>4, <2>5
  <1> QED BY <1>1, <1>2, <1>3

-----------------------------------------------------------------------------
(* What was read and what was made of it.                                  *)

LastOrNone(kind) ==
  IF LinesOf(kind) = <<>> THEN None ELSE Last(LinesOf(kind))

(* Of most kinds of lines, the last one counts; of searches, all do.       *)
NumbersAsWritten ==
  /\ viterbiOrder = LastValue("viterbi_order", 0)
  /\ LinesOf("viterbi_order") # <<>> => viterbiOrder > 0
  /\ beam = LastValue("viterbi_beam_size", 0)
  /\ pruning = LastValue("viterbi_stage_pruning", DefaultPruning)

PartsAsWritten ==
  /\ errorModel = LastOrNone("errormodel")
  /\ searches = LinesOf("search")

OrderAsWritten ==
  /\ modelOrder \in WrittenOrders
  /\ \A n \in WrittenOrders : n \in Nat /\ n <= modelOrder

(* Lines that need a lexicon have not been read without one.               *)
NothingWithoutLexicon ==
  LinesOf("morpholex") = <<>> =>
    /\ factors = <<>> /\ named = 0 /\ lexiconLine = None /\ wordLists = None
    /\ LinesOf("lm") = <<>> /\ LinesOf("diagnostics") = <<>>

FactorsAsWritten ==
  IsOrdinary =>
    /\ lexiconLine = LinesOf("morpholex")[1]
    /\ factorMap = FactorMapOf(FactorNames)
    /\ factors = WrittenFactors
    /\ wordLists = IF LinesOf("diagnostics") = <<>> THEN None ELSE lexiconLine

AsWritten ==
  /\ file \in Seq(Lines)
  /\ NumbersAsWritten
  /\ PartsAsWritten
  /\ OrderAsWritten
  /\ NothingWithoutLexicon
  /\ FactorsAsWritten

WrittenInv == progress = "reading" => AsWritten

LEMMA LinesTyped ==
  ASSUME file \in Seq(Lines)
  PROVE  \A kind : /\ LinesOf(kind) \in Seq(Lines)
                   /\ ToSet(LinesOf(kind)) \in SUBSET {line \in Lines : line.kind = kind}
  <1>1. Len(file) \in Nat
    OBVIOUS
  <1>2. ASSUME NEW kind
        PROVE  /\ LinesOf(kind) \in Seq(Lines) /\ Len(LinesOf(kind)) \in Nat
               /\ ToSet(LinesOf(kind)) \in SUBSET {line \in Lines : line.kind = kind}
    <2> DEFINE wanted == {line \in Lines : line.kind = kind}
    <2>1. LinesOf(kind) \in Seq(wanted)
      BY <1>1, FilteredTyped DEF LinesOf
    <2>2. wanted \in SUBSET Lines
      OBVIOUS
    <2> HIDE DEF wanted
    <2>3. LinesOf(kind) \in Seq(Lines) /\ ToSet(LinesOf(kind)) \in SUBSET wanted
      BY <2>1, <2>2 DEF ToSet
    <2>4. Len(LinesOf(kind)) \in Nat
      BY <2>3
    <2> QED BY <2>3, <2>4 DEF wanted
  <1> QED BY <1>2

LEMMA ReadExtends ==
  ASSUME file \in Seq(Lines), NEW line \in Lines, Read(line)
  PROVE  /\ file' \in Seq(Lines)
         /\ \A kind : LinesOf(kind)' = IF line.kind = kind
                                       THEN Append(LinesOf(kind), line)
                                       ELSE LinesOf(kind)
  <1>1. file' = Append(file, line) /\ file' \in Seq(Lines)
    BY DEF Read
  <1>2. ASSUME NEW kind
        PROVE  LinesOf(kind)' = IF line.kind = kind
                                THEN Append(LinesOf(kind), line)
                                ELSE LinesOf(kind)
    <2> DEFINE wanted == {one \in Lines : one.kind = kind}
    <2>1. LinesOf(kind)' = Filtered(Append(file, line), wanted)
      BY <1>1 DEF LinesOf
    <2>2. LinesOf(kind) = Filtered(file, wanted)
      BY DEF LinesOf
    <2>3. line \in wanted <=> line.kind = kind
      OBVIOUS
    <2> HIDE DEF wanted
    <2> QED BY <2>1, <2>2, <2>3, FilteredAppend
  <1> QED BY <1>1, <1>2

(* What the lm lines say of a factor, when one more is read.               *)
LEMMA LmAppend ==
  ASSUME NEW lmLines \in Seq(Lines), NEW line \in LmLines, NEW name
  PROVE  WrittenFactor(Append(lmLines, line), name) =
           IF line.factor = name THEN EnabledFactor(Disabled, line)
           ELSE WrittenFactor(lmLines, name)
  <1> DEFINE wanted == {one \in LmLines : one.factor = name}
             own == Filtered(lmLines, wanted)
             more == Filtered(Append(lmLines, line), wanted)
  <1>1. /\ line \in Lines /\ wanted \in SUBSET Lines
        /\ line \in wanted <=> line.factor = name
    BY DEF LmLines
  <1>2. /\ WrittenFactor(lmLines, name) =
             IF own = <<>> THEN Disabled
             ELSE [enabled |-> TRUE, lm |-> Last(own), order |-> Last(own).order,
                   weight |-> Last(own).weight]
        /\ WrittenFactor(Append(lmLines, line), name) =
             IF more = <<>> THEN Disabled
             ELSE [enabled |-> TRUE, lm |-> Last(more), order |-> Last(more).order,
                   weight |-> Last(more).weight]
    BY DEF WrittenFactor
  <1> HIDE DEF wanted
  <1>3. more = IF line \in wanted THEN Append(own, line) ELSE own
    BY <1>1, FilteredAppend
  <1>4. own \in Seq(wanted)
    <2>1. Len(lmLines) \in Nat
      OBVIOUS
    <2> QED BY <2>1, FilteredTyped
  <1> HIDE DEF own, more
  <1>5. own \in Seq(Lines)
    BY <1>1, <1>4
  <1>6. Append(own, line) # <<>> /\ Last(Append(own, line)) = line
    BY <1>1, <1>5, AppendLast
  <1> QED BY <1>1, <1>2, <1>3, <1>6 DEF EnabledFactor

(* The actions after which lines are still read.                           *)
ReadsOn(line) ==
  \/ Ignore(line) \/ ReadMorpholex(line) \/ ReadErrorModel(line)
  \/ ReadLM(line) \/ ReadSearch(line) \/ ReadDiagnostics(line)
  \/ ReadViterbi(line)

LEMMA NumbersStay ==
  ASSUME AsWritten, NEW line \in Lines, ReadsOn(line)
  PROVE  NumbersAsWritten'
  <1>1. Read(line) /\ file \in Seq(Lines) /\ NumbersAsWritten
    BY DEF AsWritten, ReadsOn, Ignore, ReadMorpholex, ReadErrorModel, ReadLM,
           ReadSearch, ReadDiagnostics, ReadViterbi
  <1>2. \A kind : LinesOf(kind)' = IF line.kind = kind
                                   THEN Append(LinesOf(kind), line)
                                   ELSE LinesOf(kind)
    BY <1>1, ReadExtends
  <1>3. \A kind : /\ Append(LinesOf(kind), line) # <<>>
                  /\ Last(Append(LinesOf(kind), line)) = line
    BY <1>1, LinesTyped, AppendLast
  <1>4. ASSUME NEW kind, NEW default
        PROVE  LastValue(kind, default)' =
                 IF line.kind = kind THEN line.value ELSE LastValue(kind, default)
    BY <1>2, <1>3 DEF LastValue
  <1>5. CASE ReadViterbi(line)
    BY <1>1, <1>2, <1>4, <1>5 DEF ReadViterbi, IsViterbi, NumbersAsWritten
  <1>6. CASE ~ReadViterbi(line)
    <2>1. ~IsViterbi(line) /\ UNCHANGED viterbiVars
      BY <1>6 DEF ReadsOn, Ignore, ReadMorpholex, ReadErrorModel, ReadLM,
                  ReadSearch, ReadDiagnostics, IsViterbi
    <2> QED BY <1>1, <1>2, <1>4, <2>1 DEF IsViterbi, viterbiVars, NumbersAsWritten
  <1> QED BY <1>5, <1>6

LEMMA PartsStay ==
  ASSUME AsWritten, NEW line \in Lines, ReadsOn(line)
  PROVE  PartsAsWritten'
  <1>1. Read(line) /\ file \in Seq(Lines) /\ PartsAsWritten
    BY DEF AsWritten, ReadsOn, Ignore, ReadMorpholex, ReadErrorModel, ReadLM,
           ReadSearch, ReadDiagnostics, ReadViterbi
  <1>2. \A kind : LinesOf(kind)' = IF line.kind = kind
                                   THEN Append(LinesOf(kind), line)
                                   ELSE LinesOf(kind)
    BY <1>1, ReadExtends
  <1>3. \A kind : /\ Append(LinesOf(kind), line) # <<>>
                  /\ Last(Append(LinesOf(kind), line)) = line
    BY <1>1, LinesTyped, AppendLast
  <1>4. errorModel' = IF line.kind = "errormodel" THEN line ELSE errorModel
    BY DEF ReadsOn, Ignore, ReadMorpholex, ReadErrorModel, ReadLM, ReadSearch,
           ReadDiagnostics, ReadViterbi, IsViterbi, partVars
  <1>5. searches' = IF line.kind = "search" THEN Append(searches, line) ELSE searches
    BY DEF ReadsOn, Ignore, ReadMorpholex, ReadErrorModel, ReadLM, ReadSearch,
           ReadDiagnostics, ReadViterbi, IsViterbi, partVars
  <1> QED BY <1>1, <1>2, <1>3, <1>4, <1>5 DEF PartsAsWritten, LastOrNone

LEMMA OrderStays ==
  ASSUME AsWritten, NEW line \in Lines, ReadsOn(line)
  PROVE  OrderAsWritten'
  <1>1. Read(line) /\ file \in Seq(Lines) /\ OrderAsWritten
    BY DEF AsWritten, ReadsOn, Ignore, ReadMorpholex, ReadErrorModel, ReadLM,
           ReadSearch, ReadDiagnostics, ReadViterbi
  <1>2. LinesOf("lm")' = IF line.kind = "lm" THEN Append(LinesOf("lm"), line)
                         ELSE LinesOf("lm")
    BY <1>1, ReadExtends
  <1>3. CASE ReadLM(line)
    <2>1. line.kind = "lm" /\ modelOrder' = Higher(modelOrder, line.order)
      BY <1>3 DEF ReadLM
    <2>2. line.order \in Nat
      BY <2>1, LinesAssumption DEF LmLines
    <2>3. ToSet(LinesOf("lm")') = ToSet(LinesOf("lm")) \cup {line}
      <3>1. LinesOf("lm") \in Seq(Lines)
        BY <1>1, LinesTyped
      <3>2. ToSet(Append(LinesOf("lm"), line)) = ToSet(LinesOf("lm")) \cup {line}
        BY <3>1, AppendLast
      <3> QED BY <1>2, <2>1, <3>2
    <2>4. WrittenOrders' = WrittenOrders \cup {line.order}
      BY <2>3 DEF WrittenOrders
    <2> QED BY <1>1, <2>1, <2>2, <2>4 DEF OrderAsWritten, Higher
  <1>4. CASE ~ReadLM(line)
    <2>1. line.kind # "lm" /\ modelOrder' = modelOrder
      BY <1>4 DEF ReadsOn, Ignore, ReadMorpholex, ReadErrorModel, ReadSearch,
                  ReadDiagnostics, ReadViterbi, IsViterbi, factorVars
    <2>2. WrittenOrders' = WrittenOrders
      BY <1>2, <2>1 DEF WrittenOrders
    <2> QED BY <1>1, <2>1, <2>2 DEF OrderAsWritten
  <1> QED BY <1>3, <1>4

LEMMA NothingStays ==
  ASSUME AsWritten, NEW line \in Lines, ReadsOn(line)
  PROVE  NothingWithoutLexicon'
  <1>1. Read(line) /\ file \in Seq(Lines) /\ NothingWithoutLexicon
    BY DEF AsWritten, ReadsOn, Ignore, ReadMorpholex, ReadErrorModel, ReadLM,
           ReadSearch, ReadDiagnostics, ReadViterbi
  <1>2. \A kind : LinesOf(kind)' = IF line.kind = kind
                                   THEN Append(LinesOf(kind), line)
                                   ELSE LinesOf(kind)
    BY <1>1, ReadExtends
  <1>3. \A kind : Append(LinesOf(kind), line) # <<>>
    BY <1>1, LinesTyped, AppendLast
  <1> SUFFICES ASSUME LinesOf("morpholex")' = <<>>
               PROVE  /\ factors' = <<>> /\ named' = 0
                      /\ lexiconLine' = None /\ wordLists' = None
                      /\ LinesOf("lm")' = <<>> /\ LinesOf("diagnostics")' = <<>>
    BY DEF NothingWithoutLexicon
  <1>4. line.kind # "morpholex" /\ LinesOf("morpholex") = <<>>
    BY <1>2, <1>3
  <1>5. /\ factors = <<>> /\ named = 0 /\ lexiconLine = None /\ wordLists = None
        /\ LinesOf("lm") = <<>> /\ LinesOf("diagnostics") = <<>>
    BY <1>1, <1>4 DEF NothingWithoutLexicon
  <1>6. ~ReadMorpholex(line) /\ ~ReadLM(line) /\ ~ReadDiagnostics(line)
    BY <1>4, <1>5 DEF ReadMorpholex, ReadLM, ReadDiagnostics
  <1>7. /\ line.kind \notin {"lm", "diagnostics"}
        /\ UNCHANGED <<factors, named, lexiconLine, wordLists>>
    BY <1>6 DEF ReadsOn, Ignore, ReadErrorModel, ReadSearch, ReadViterbi, IsViterbi,
                factorVars, partVars
  <1> QED BY <1>2, <1>5, <1>7

(* A file that is ordinary with one line more was ordinary before, or this *)
(* line is its first lexicon.                                              *)
LEMMA OrdinaryBefore ==
  ASSUME file \in Seq(Lines), NEW line \in Lines, Read(line), IsOrdinary'
  PROVE  /\ line.kind = "morpholex" =>
              /\ LinesOf("morpholex") = <<>>
              /\ LinesOf("morpholex")'[1] = line /\ FactorNames' = line.factors
         /\ line.kind # "morpholex" =>
              /\ IsOrdinary
              /\ LinesOf("morpholex") \in Seq(Lines)
              /\ LinesOf("morpholex")[1] \in MorpholexLines
              /\ LinesOf("morpholex")'[1] = LinesOf("morpholex")[1]
              /\ FactorNames' = FactorNames
         /\ line.kind = "lm" => line.factor \in ToSet(FactorNames)
  <1> DEFINE before == LinesOf("morpholex")
             after == LinesOf("morpholex")'
  <1>1. /\ before \in Seq(Lines) /\ Len(before) \in Nat
        /\ ToSet(before) \in SUBSET {one \in Lines : one.kind = "morpholex"}
    BY LinesTyped
  <1>2. after = IF line.kind = "morpholex" THEN Append(before, line) ELSE before
    BY ReadExtends
  <1>3. LinesOf("lm")' = IF line.kind = "lm" THEN Append(LinesOf("lm"), line)
                         ELSE LinesOf("lm")
    BY ReadExtends
  <1>4. LinesOf("lm") \in Seq(Lines)
    BY LinesTyped
  <1>5. /\ Len(after) = 1
        /\ \A one \in ToSet(LinesOf("lm")') : one.factor \in ToSet(FactorNames')
    BY DEF IsOrdinary
  <1>6. FactorNames' = after[1].factors /\ FactorNames = before[1].factors
    BY DEF FactorNames
  <1>7. IsOrdinary <=> /\ Len(before) = 1
                       /\ \A one \in ToSet(LinesOf("lm")) :
                            one.factor \in ToSet(FactorNames)
    BY DEF IsOrdinary
  <1> HIDE DEF before, after
  <1>8. ASSUME line.kind = "morpholex"
        PROVE  before = <<>> /\ after[1] = line
    <2>1. after = Append(before, line) /\ Len(Append(before, line)) = Len(before) + 1
      BY <1>1, <1>2, <1>8, AppendLast
    <2>2. Len(before) = 0
      BY <1>1, <1>5, <2>1
    <2>3. before = <<>>
      BY <1>1, <2>2
    <2> QED BY <2>1, <2>3
  <1>9. ASSUME line.kind # "morpholex"
        PROVE  IsOrdinary /\ after = before /\ FactorNames' = FactorNames
    <2>1. after = before /\ FactorNames' = FactorNames
      BY <1>2, <1>6, <1>9
    <2>2. ToSet(LinesOf("lm")) \subseteq ToSet(LinesOf("lm")')
      <3>1. ToSet(Append(LinesOf("lm"), line)) = ToSet(LinesOf("lm")) \cup {line}
        BY <1>4, AppendLast
      <3> QED BY <1>3, <3>1
    <2> QED BY <1>5, <1>7, <2>1, <2>2
  <1>10. ASSUME line.kind # "morpholex"
         PROVE  before[1] \in MorpholexLines
    <2>1. Len(before) = 1
      BY <1>5, <1>9, <1>10
    <2>2. before[1] \in ToSet(before)
      BY <1>1, <2>1 DEF ToSet
    <2> QED BY <1>1, <2>2 DEF MorpholexLines
  <1>11. ASSUME line.kind = "lm"
         PROVE  line.factor \in ToSet(FactorNames)
    <2>1. ToSet(Append(LinesOf("lm"), line)) = ToSet(LinesOf("lm")) \cup {line}
      BY <1>4, AppendLast
    <2>2. line \in ToSet(LinesOf("lm")')
      BY <1>3, <1>11, <2>1
    <2> QED BY <1>5, <1>9, <1>11, <2>2
  <1> QED BY <1>1, <1>6, <1>8, <1>9, <1>10, <1>11 DEF before, after

(* The number of a name is its position.                                   *)
LEMMA FactorMapFacts ==
  ASSUME NEW names \in Seq(STRING), IsInjective(names)
  PROVE  /\ DOMAIN FactorMapOf(names) = ToSet(names)
         /\ \A i \in 1 .. Len(names) : FactorMapOf(names)[names[i]] = i
  <1>1. DOMAIN FactorMapOf(names) = ToSet(names)
    BY DEF FactorMapOf
  <1>2. ASSUME NEW i \in 1 .. Len(names)
        PROVE  FactorMapOf(names)[names[i]] = i
    <2>1. names[i] \in ToSet(names)
      BY DEF ToSet
    <2>2. \A k \in 1 .. Len(names) : names[k] = names[i] => k = i
      BY DEF IsInjective
    <2>3. (CHOOSE k \in 1 .. Len(names) : names[k] = names[i]) = i
      BY <2>2
    <2> QED BY <2>1, <2>3 DEF FactorMapOf
  <1> QED BY <1>1, <1>2

LEMMA MorpholexAsWritten ==
  ASSUME AsWritten, NEW line \in Lines, ReadMorpholex(line)
  PROVE  FactorsAsWritten'
  <1> SUFFICES ASSUME IsOrdinary'
               PROVE  /\ lexiconLine' = LinesOf("morpholex")'[1]
                      /\ factorMap' = FactorMapOf(FactorNames')
                      /\ factors' = WrittenFactors'
                      /\ wordLists' = IF LinesOf("diagnostics")' = <<>> THEN None
                                      ELSE lexiconLine'
    BY DEF FactorsAsWritten
  <1>1. Read(line) /\ line.kind = "morpholex" /\ file \in Seq(Lines)
    BY DEF ReadMorpholex, AsWritten
  <1>2. /\ LinesOf("morpholex") = <<>>
        /\ LinesOf("morpholex")'[1] = line /\ FactorNames' = line.factors
    BY <1>1, OrdinaryBefore
  <1>3. /\ factors = <<>> /\ named = 0 /\ wordLists = None
        /\ LinesOf("lm") = <<>> /\ LinesOf("diagnostics") = <<>>
    BY <1>2 DEF AsWritten, NothingWithoutLexicon
  <1>4. LinesOf("diagnostics")' = <<>>
    BY <1>1, <1>3, ReadExtends
  <1>5. LinesOf("lm")' = <<>> /\ \A name : WrittenFactor(<<>>, name) = Disabled
    BY <1>1, <1>3, ReadExtends, FilteredOfNone DEF WrittenFactor
  <1>6. line.factors \in Seq(STRING)
    BY <1>1, LinesAssumption DEF MorpholexLines
  <1>7. factors' = [i \in 1 .. Len(line.factors) |-> Disabled]
    <2> DEFINE more == [i \in 1 .. Len(line.factors) |-> Disabled]
    <2>1. factors' = <<>> \o more
      <3>1. named' = Len(line.factors)
        BY <1>3, <1>6 DEF ReadMorpholex
      <3> QED BY <1>3, <3>1 DEF ReadMorpholex
    <2>2. more \in Seq({Disabled})
      BY <1>6
    <2> HIDE DEF more
    <2>3. factors' = more
      BY <2>1, <2>2
    <2> QED BY <2>3 DEF more
  <1>8. WrittenFactors' = [i \in 1 .. Len(line.factors) |-> Disabled]
    BY <1>2, <1>5 DEF WrittenFactors
  <1>9. /\ lexiconLine' = line /\ factorMap' = FactorMapOf(line.factors)
        /\ wordLists' = wordLists
    BY DEF ReadMorpholex
  <1> QED BY <1>2, <1>3, <1>4, <1>7, <1>8, <1>9

LEMMA LMAsWritten ==
  ASSUME AsWritten, NEW line \in Lines, ReadLM(line)
  PROVE  FactorsAsWritten'
  <1> SUFFICES ASSUME IsOrdinary'
               PROVE  /\ lexiconLine' = LinesOf("morpholex")'[1]
                      /\ factorMap' = FactorMapOf(FactorNames')
                      /\ factors' = WrittenFactors'
                      /\ wordLists' = IF LinesOf("diagnostics")' = <<>> THEN None
                                      ELSE lexiconLine'
    BY DEF FactorsAsWritten
  <1> DEFINE names == FactorNames
             number == NumberOf(line.factor)
             n == Len(names)
  <1>1. Read(line) /\ line.kind = "lm" /\ file \in Seq(Lines)
    BY DEF ReadLM, AsWritten
  <1>2. /\ IsOrdinary /\ LinesOf("morpholex")[1] \in MorpholexLines
        /\ LinesOf("morpholex")'[1] = LinesOf("morpholex")[1]
        /\ FactorNames' = names /\ line.factor \in ToSet(names)
    BY <1>1, OrdinaryBefore
  <1>3. /\ lexiconLine = LinesOf("morpholex")[1]
        /\ factorMap = FactorMapOf(names)
        /\ factors = [i \in 1 .. n |-> WrittenFactor(LinesOf("lm"), names[i])]
        /\ wordLists = IF LinesOf("diagnostics") = <<>> THEN None ELSE lexiconLine
    BY <1>2 DEF AsWritten, FactorsAsWritten, WrittenFactors
  <1>4. LinesOf("diagnostics")' = LinesOf("diagnostics")
    BY <1>1, ReadExtends
  <1>5. names \in Seq(STRING) /\ IsInjective(names)
    BY <1>2, LinesAssumption DEF FactorNames
  <1>6. /\ factors' = [factors EXCEPT ![number] = EnabledFactor(factors[number], line)]
        /\ factorMap' = [name \in DOMAIN factorMap \cup {line.factor} |-> NumberOf(name)]
        /\ lexiconLine' = lexiconLine /\ wordLists' = wordLists
    BY DEF ReadLM, partVars
  <1>7. \A name : WrittenFactor(LinesOf("lm")', name) =
                    IF line.factor = name THEN EnabledFactor(Disabled, line)
                    ELSE WrittenFactor(LinesOf("lm"), name)
    <2>1. LinesOf("lm")' = Append(LinesOf("lm"), line) /\ line \in LmLines
      BY <1>1, ReadExtends DEF LmLines
    <2>2. LinesOf("lm") \in Seq(Lines)
      BY <1>1, LinesTyped
    <2>3. ASSUME NEW name
          PROVE  WrittenFactor(Append(LinesOf("lm"), line), name) =
                   IF line.factor = name THEN EnabledFactor(Disabled, line)
                   ELSE WrittenFactor(LinesOf("lm"), name)
      BY <2>1, <2>2, LmAppend
    <2> QED BY <2>1, <2>3
  <1> HIDE DEF names, n
  <1>8. /\ DOMAIN FactorMapOf(names) = ToSet(names)
        /\ \A i \in 1 .. Len(names) : FactorMapOf(names)[names[i]] = i
    BY <1>5, FactorMapFacts
  <1>9. factorMap' = factorMap
    <2>1. line.factor \in DOMAIN factorMap
      BY <1>2, <1>3, <1>8
    <2>2. DOMAIN factorMap \cup {line.factor} = DOMAIN factorMap
      BY <2>1
    <2>3. \A name \in DOMAIN factorMap : NumberOf(name) = factorMap[name]
      BY DEF NumberOf
    <2>4. factorMap = [name \in DOMAIN factorMap |-> factorMap[name]]
      BY <1>3 DEF FactorMapOf
    <2> QED BY <1>6, <2>2, <2>3, <2>4
  <1>10. number \in 1 .. n /\ names[number] = line.factor
    <2>1. PICK i \in 1 .. Len(names) : names[i] = line.factor
      BY <1>2, <1>5 DEF ToSet
    <2>2. number = i
      BY <1>2, <1>3, <1>8, <2>1 DEF NumberOf
    <2> QED BY <2>1, <2>2 DEF n
  <1>11. ASSUME NEW i \in 1 .. n
         PROVE  line.factor = names[i] <=> i = number
    BY <1>5, <1>10 DEF IsInjective, n
  <1> HIDE DEF number
  <1>12. factors' = WrittenFactors'
    <2>1. EnabledFactor(factors[number], line) = EnabledFactor(Disabled, line)
      BY DEF EnabledFactor
    <2>2. factors' = [i \in 1 .. n |-> IF i = number THEN EnabledFactor(Disabled, line)
                                       ELSE WrittenFactor(LinesOf("lm"), names[i])]
      BY <1>3, <1>6, <1>10, <2>1
    <2>3. \A i \in 1 .. n : WrittenFactor(LinesOf("lm")', names[i]) =
                              IF i = number THEN EnabledFactor(Disabled, line)
                              ELSE WrittenFactor(LinesOf("lm"), names[i])
      BY <1>7, <1>11
    <2>4. WrittenFactors' = [i \in 1 .. n |-> WrittenFactor(LinesOf("lm")', names[i])]
      BY <1>2 DEF WrittenFactors, n
    <2> QED BY <2>2, <2>3, <2>4
  <1> QED BY <1>2, <1>3, <1>4, <1>6, <1>9, <1>12

LEMMA OthersAsWritten ==
  ASSUME AsWritten, NEW line \in Lines, ReadsOn(line), line.kind \notin {"morpholex", "lm"}
  PROVE  FactorsAsWritten'
  <1> SUFFICES ASSUME IsOrdinary'
               PROVE  /\ lexiconLine' = LinesOf("morpholex")'[1]
                      /\ factorMap' = FactorMapOf(FactorNames')
                      /\ factors' = WrittenFactors'
                      /\ wordLists' = IF LinesOf("diagnostics")' = <<>> THEN None
                                      ELSE lexiconLine'
    BY DEF FactorsAsWritten
  <1>1. Read(line) /\ file \in Seq(Lines)
    BY DEF AsWritten, ReadsOn, Ignore, ReadMorpholex, ReadErrorModel, ReadLM,
           ReadSearch, ReadDiagnostics, ReadViterbi
  <1>2. /\ IsOrdinary /\ FactorNames' = FactorNames
        /\ LinesOf("morpholex")'[1] = LinesOf("morpholex")[1]
    BY <1>1, OrdinaryBefore
  <1>3. /\ lexiconLine = LinesOf("morpholex")[1]
        /\ factorMap = FactorMapOf(FactorNames)
        /\ factors = WrittenFactors
        /\ wordLists = IF LinesOf("diagnostics") = <<>> THEN None ELSE lexiconLine
    BY <1>2 DEF AsWritten, FactorsAsWritten
  <1>4. WrittenFactors' = WrittenFactors
    <2>1. LinesOf("lm")' = LinesOf("lm")
      BY <1>1, ReadExtends
    <2> QED BY <1>2, <2>1 DEF WrittenFactors
  <1>5. UNCHANGED <<lexiconLine, factorMap, factors>>
    BY DEF ReadsOn, Ignore, ReadMorpholex, ReadErrorModel, ReadLM, ReadSearch,
           ReadDiagnostics, ReadViterbi, IsViterbi, factorVars, partVars
  <1>6. wordLists' = IF LinesOf("diagnostics")' = <<>> THEN None ELSE lexiconLine
    <2>1. CASE ReadDiagnostics(line)
      <3>1. line.kind = "diagnostics" /\ wordLists' = lexiconLine
        BY <2>1 DEF ReadDiagnostics
      <3>2. LinesOf("diagnostics")' = Append(LinesOf("diagnostics"), line)
        BY <1>1, <3>1, ReadExtends
      <3>3. LinesOf("diagnostics") \in Seq(Lines)
        BY <1>1, LinesTyped
      <3>4. Append(LinesOf("diagnostics"), line) # <<>>
        BY <3>3, AppendLast
      <3> QED BY <3>1, <3>2, <3>4
    <2>2. CASE ~ReadDiagnostics(line)
      <3>1. line.kind # "diagnostics" /\ wordLists' = wordLists
        BY <2>2 DEF ReadsOn, Ignore, ReadMorpholex, ReadErrorModel, ReadLM,
                    ReadSearch, ReadViterbi, IsViterbi, partVars
      <3>2. LinesOf("diagnostics")' = LinesOf("diagnostics")
        BY <1>1, <3>1, ReadExtends
      <3> QED BY <1>3, <3>1, <3>2
    <2> QED BY <2>1, <2>2
  <1> QED BY <1>2, <1>3, <1>4, <1>5, <1>6

LEMMA ReadStaysAsWritten ==
  ASSUME AsWritten, NEW line \in Lines, ReadsOn(line)
  PROVE  AsWritten'
  <1>1. Read(line) /\ file \in Seq(Lines)
    BY DEF AsWritten, ReadsOn, Ignore, ReadMorpholex, ReadErrorModel, ReadLM,
           ReadSearch, ReadDiagnostics, ReadViterbi
  <1>2. file' \in Seq(Lines)
    BY <1>1, ReadExtends
  <1>3. NumbersAsWritten' /\ PartsAsWritten' /\ OrderAsWritten' /\ NothingWithoutLexicon'
    BY NumbersStay, PartsStay, OrderStays, NothingStays
  <1>4. FactorsAsWritten'
    <2>1. CASE ReadMorpholex(line)
      BY <2>1, MorpholexAsWritten
    <2>2. CASE ReadLM(line)
      BY <2>2, LMAsWritten
    <2>3. CASE ~ReadMorpholex(line) /\ ~ReadLM(line)
      <3>1. line.kind \notin {"morpholex", "lm"}
        BY <2>3 DEF ReadsOn, Ignore, ReadErrorModel, ReadSearch, ReadDiagnostics,
                    ReadViterbi, IsViterbi
      <3> QED BY <3>1, OthersAsWritten
    <2> QED BY <2>1, <2>2, <2>3
  <1> QED BY <1>2, <1>3, <1>4 DEF AsWritten

LEMMA BeginsAsWritten ==
  ASSUME LoadInit
  PROVE  AsWritten
  <1>1. file = <<>> /\ <<>> \in Seq(Lines)
    BY DEF LoadInit
  <1>2. \A kind : LinesOf(kind) = <<>>
    BY <1>1, FilteredOfNone DEF LinesOf
  <1>3. WrittenOrders = {1}
    <2>1. ToSet(LinesOf("lm")) = {}
      BY <1>2 DEF ToSet
    <2> QED BY <2>1 DEF WrittenOrders
  <1>4. ~IsOrdinary
    BY <1>2 DEF IsOrdinary
  <1> QED BY <1>1, <1>2, <1>3, <1>4
          DEF LoadInit, AsWritten, NumbersAsWritten, PartsAsWritten, OrderAsWritten,
              NothingWithoutLexicon, FactorsAsWritten, LastValue, LastOrNone

LEMMA EndsAsWritten ==
  ASSUME AsWritten, EndOfFile, progress' = "loaded"
  PROVE  LoadedAsWritten'
  <1>1. /\ viterbiOrder' = IF viterbiOrder = 0 THEN modelOrder - 1 ELSE viterbiOrder
        /\ UNCHANGED <<file, factors, modelOrder, beam, pruning, lexiconLine, errorModel,
                       searches, wordLists>>
        /\ errorModel # None
    BY DEF EndOfFile, DefaultOrder, IsInitialized, factorVars, partVars
  <1>2. modelOrder = WrittenModelOrder
    BY DEF AsWritten, OrderAsWritten, WrittenModelOrder, Max
  <1>3. viterbiOrder' = LastValue("viterbi_order", WrittenModelOrder - 1)
    BY <1>1, <1>2 DEF AsWritten, NumbersAsWritten, LastValue
  <1>4. errorModel = Last(LinesOf("errormodel"))
    BY <1>1 DEF AsWritten, PartsAsWritten, LastOrNone
  <1>5. /\ beam = LastValue("viterbi_beam_size", 0)
        /\ pruning = LastValue("viterbi_stage_pruning", DefaultPruning)
        /\ searches = LinesOf("search")
    BY DEF AsWritten, NumbersAsWritten, PartsAsWritten
  <1>6. IsOrdinary =>
          /\ factors = WrittenFactors
          /\ wordLists = IF LinesOf("diagnostics") = <<>> THEN None ELSE lexiconLine
    BY DEF AsWritten, FactorsAsWritten
  <1> QED BY <1>1, <1>2, <1>3, <1>4, <1>5, <1>6
          DEF LoadedAsWritten, IsOrdinary, FactorNames, WrittenFactors, LinesOf, LastValue,
              WrittenModelOrder, WrittenOrders

(* A file with one lexicon and models of its factors means what its lines  *)
(* say, of each kind the last one, in whatever order they are written.     *)
THEOREM ConfigurationIsLoadedAsWritten == LoadSpec => []LoadedAsWritten
  <1>1. LoadInit => WrittenInv /\ LoadedAsWritten
    BY BeginsAsWritten DEF WrittenInv, LoadedAsWritten, LoadInit
  <1>2. WrittenInv /\ LoadedAsWritten /\ [LoadNext]_loadVars => (WrittenInv /\ LoadedAsWritten)'
    <2> SUFFICES ASSUME WrittenInv, LoadedAsWritten, [LoadNext]_loadVars
                 PROVE  WrittenInv' /\ LoadedAsWritten'
      OBVIOUS
    <2>1. ASSUME NEW line \in Lines, ReadsOn(line)
          PROVE  WrittenInv' /\ LoadedAsWritten'
      <3>1. progress = "reading" /\ progress' = "reading"
        BY <2>1 DEF ReadsOn, Ignore, ReadMorpholex, ReadErrorModel, ReadLM, ReadSearch,
                    ReadDiagnostics, ReadViterbi, Read
      <3> QED BY <2>1, <3>1, ReadStaysAsWritten DEF WrittenInv, LoadedAsWritten
    <2>2. ASSUME NEW line \in Lines,
                 \/ Reject(line) \/ ReadLMTooEarly(line)
                 \/ ReadDiagnosticsTooEarly(line) \/ RejectViterbi(line)
          PROVE  WrittenInv' /\ LoadedAsWritten'
      <3>1. progress' \in {"failed", "undefined"}
        BY <2>2 DEF Reject, ReadLMTooEarly, ReadDiagnosticsTooEarly, RejectViterbi, StopAs
      <3> QED BY <3>1 DEF WrittenInv, LoadedAsWritten
    <2>3. CASE EndOfFile
      <3>1. progress = "reading" /\ progress' \in {"loaded", "failed"}
        BY <2>3 DEF EndOfFile
      <3>2. CASE progress' = "loaded"
        BY <2>3, <3>1, <3>2, EndsAsWritten DEF WrittenInv
      <3>3. CASE progress' = "failed"
        BY <3>3 DEF WrittenInv, LoadedAsWritten
      <3> QED BY <3>1, <3>2, <3>3 DEF WrittenInv
    <2>4. CASE Override
      <3>1. progress' = "running"
        BY <2>4 DEF Override
      <3> QED BY <3>1 DEF WrittenInv, LoadedAsWritten
    <2>5. CASE UNCHANGED loadVars
      <3>1. UNCHANGED <<file, factorMap, named, factors, modelOrder, viterbiOrder, beam, pruning,
                        lexiconLine, errorModel, searches, wordLists, progress>>
        BY <2>5 DEF loadVars, factorVars, viterbiVars, partVars
      <3>2. /\ \A kind : LinesOf(kind)' = LinesOf(kind)
            /\ WrittenOrders' = WrittenOrders /\ FactorNames' = FactorNames
        BY <3>1 DEF LinesOf, WrittenOrders, FactorNames
      <3>3. /\ WrittenFactors' = WrittenFactors /\ IsOrdinary' = IsOrdinary
            /\ WrittenModelOrder' = WrittenModelOrder
            /\ \A kind, default : LastValue(kind, default)' = LastValue(kind, default)
            /\ \A kind : LastOrNone(kind)' = LastOrNone(kind)
        BY <3>2 DEF WrittenFactors, IsOrdinary, WrittenModelOrder, LastValue, LastOrNone
      <3>4. WrittenInv'
        BY <3>1, <3>2, <3>3 DEF WrittenInv, AsWritten, NumbersAsWritten, PartsAsWritten,
             OrderAsWritten, NothingWithoutLexicon, FactorsAsWritten
      <3>5. LoadedAsWritten'
        BY <3>1, <3>2, <3>3 DEF LoadedAsWritten
      <3> QED BY <3>4, <3>5
    <2> QED BY <2>1, <2>2, <2>3, <2>4, <2>5 DEF LoadNext, ReadLine, ReadsOn
  <1> QED BY <1>1, <1>2, PTL DEF LoadSpec

-----------------------------------------------------------------------------
(* The lexicon that is built.                                              *)

LEMMA AppendFacts ==
  ASSUME NEW s \in Seq(Nat), NEW letter \in Nat
  PROVE  /\ Append(s, letter) \in Seq(Nat) /\ Append(s, letter) # <<>>
         /\ Append(s, letter) = s \o <<letter>>
         /\ Len(Append(s, letter)) = Len(s) + 1
         /\ Front(Append(s, letter)) = s /\ Last(Append(s, letter)) = letter
  <1> DEFINE longer == Append(s, letter)
  <1>1. /\ longer \in Seq(Nat) /\ longer # <<>> /\ Len(longer) = Len(s) + 1
        /\ \A k \in 1 .. Len(s) : longer[k] = s[k]
        /\ longer[Len(s) + 1] = letter
    BY AppendProperties
  <1>2. longer = s \o <<letter>>
    BY AppendIsConcat
  <1>3. Len(s) \in Nat
    BY LenProperties
  <1> HIDE DEF longer
  <1>4. /\ SubSeq(longer, 1, Len(s)) \in Seq(Nat)
        /\ Len(SubSeq(longer, 1, Len(s))) = Len(s)
        /\ \A k \in 1 .. Len(s) : SubSeq(longer, 1, Len(s))[k] = longer[k]
    <2>1. \A k \in 1 .. Len(s) : longer[k] \in Nat
      BY <1>1, ElementOfSeq
    <2> QED BY <1>3, <2>1, SubSeqProperties
  <1>5. SubSeq(longer, 1, Len(s)) = s
    BY <1>1, <1>4, SeqEqual
  <1>6. Len(longer) - 1 = Len(s)
    BY <1>1, <1>3
  <1> QED BY <1>1, <1>2, <1>3, <1>5, <1>6 DEF Front, Last, longer

-----------------------------------------------------------------------------
(* The trie: its nodes by number, and the arcs of a node.                  *)

States(nodes) == 0 .. Len(nodes) - 1
ArcsFrom(lex, state) ==
  FirstLastIndexPair(lex, state)[1] .. FirstLastIndexPair(lex, state)[2]
CharOf(lex, j) == lex.arcs_char[j + 1]
TargetOf(lex, j) == lex.arcs_nextstate[j + 1]
IsNode(nodes, s) == \E k \in DOMAIN nodes : nodes[k] = s

LEMMA TrieFacts ==
  ASSUME NEW lex, NEW words, NEW nodes, IsTrie(lex, words, nodes)
  PROVE  /\ lex.root_id = Len(words) /\ Len(words) \in Nat /\ Len(nodes) \in Nat
         /\ Len(words) < Len(nodes) /\ Len(words) > 0
         /\ DOMAIN words = 1 .. Len(words) /\ DOMAIN nodes = 1 .. Len(nodes)
         /\ \A k \in 1 .. Len(words) : nodes[k] = words[k]
         /\ \A k \in 1 .. Len(nodes) : nodes[k] \in Seq(Nat)
         /\ \A k, m \in 1 .. Len(nodes) : nodes[k] = nodes[m] => k = m
         /\ nodes[Len(words) + 1] = <<>>
         /\ \A w \in Range(words) : w \in Seq(Nat)
         /\ Range(words) # {}
  <1>1. /\ words \in Seq(Seq(Nat)) /\ nodes \in Seq(Seq(Nat)) /\ words # <<>>
        /\ \A k, m \in DOMAIN nodes : nodes[k] = nodes[m] => k = m
        /\ \A k \in DOMAIN words : nodes[k] = words[k]
        /\ lex.root_id = Len(words) /\ Len(words) < Len(nodes)
        /\ nodes[Len(words) + 1] = <<>>
    BY DEF IsTrie, IsInjective
  <1>2. /\ DOMAIN words = 1 .. Len(words) /\ Len(words) \in Nat /\ Len(words) > 0
        /\ words[1] \in Range(words)
    <2>1. DOMAIN words = 1 .. Len(words) /\ Len(words) \in Nat
      BY <1>1, LenProperties
    <2>2. Len(words) # 0
      BY <1>1, EmptySeq
    <2>3. Len(words) > 0 /\ 1 \in DOMAIN words
      BY <2>1, <2>2
    <2> QED BY <2>1, <2>3 DEF Range
  <1>3. DOMAIN nodes = 1 .. Len(nodes) /\ Len(nodes) \in Nat
    BY <1>1, LenProperties
  <1>4. \A w \in Range(words) : w \in Seq(Nat)
    BY <1>1, <1>2, ElementOfSeq DEF Range
  <1>5. \A k \in 1 .. Len(nodes) : nodes[k] \in Seq(Nat)
    BY <1>1, ElementOfSeq
  <1> QED BY <1>1, <1>2, <1>3, <1>4, <1>5

(* The beginnings of words are the nodes.                                  *)
LEMMA NodesAreBeginnings ==
  ASSUME NEW lex, NEW words, NEW nodes, IsTrie(lex, words, nodes), NEW s
  PROVE  IsNode(nodes, s) <=>
           \E w \in Range(words) : \E n \in 0 .. Len(w) : s = SubSeq(w, 1, n)
  <1>1. Range(nodes) = UNION {{SubSeq(w, 1, n) : n \in 0 .. Len(w)} : w \in Range(words)}
    BY DEF IsTrie
  <1>2. IsNode(nodes, s) <=> s \in Range(nodes)
    BY DEF IsNode, Range
  <1> QED BY <1>1, <1>2

LEMMA BeginningsOfNodes ==
  ASSUME NEW lex, NEW words, NEW nodes, IsTrie(lex, words, nodes),
         NEW s \in Seq(Nat), NEW letter \in Nat, IsNode(nodes, Append(s, letter))
  PROVE  /\ IsNode(nodes, s)
         /\ \E w \in Range(words) : letter \in Range(w)
  <1> DEFINE longer == Append(s, letter)
  <1>0. PICK w \in Range(words) : \E n \in 0 .. Len(w) : longer = SubSeq(w, 1, n)
    <2>1. IsNode(nodes, longer)
      OBVIOUS
    <2> HIDE DEF longer
    <2> QED BY <2>1, NodesAreBeginnings
  <1>1. PICK n \in 0 .. Len(w) : Append(s, letter) = SubSeq(w, 1, n)
    BY <1>0
  <1>2. w \in Seq(Nat) /\ Len(w) \in Nat /\ DOMAIN w = 1 .. Len(w)
    BY TrieFacts, LenProperties
  <1>3. n # 0
    <2>1. SubSeq(w, 1, 0) = <<>>
      BY SubSeqEmpty
    <2> QED BY <1>1, <2>1, AppendProperties
  <1>4. n \in 1 .. Len(w) /\ n - 1 \in 0 .. Len(w)
    BY <1>2, <1>3
  <1>5. SubSeq(w, 1, n) = SubSeq(w, 1, n - 1) \o <<w[n]>>
    BY <1>2, <1>4, SubSeqRecursiveSecond
  <1>6. SubSeq(w, 1, n - 1) \in Seq(Nat) /\ w[n] \in Nat
    BY <1>2, <1>4, SubSeqProperties, ElementOfSeq
  <1>7. SubSeq(w, 1, n) = Append(SubSeq(w, 1, n - 1), w[n])
    BY <1>5, <1>6, AppendIsConcat
  <1>8. s = SubSeq(w, 1, n - 1) /\ letter = w[n]
    BY <1>1, <1>6, <1>7, AppendInjective
  <1>9. letter \in Range(w)
    BY <1>2, <1>4, <1>8 DEF Range
  <1> QED BY <1>4, <1>8, <1>9, NodesAreBeginnings

LEMMA ArcFacts ==
  ASSUME NEW lex, NEW words, NEW nodes, IsTrie(lex, words, nodes),
         NEW state \in States(nodes)
  PROVE  /\ FirstLastIndexPair(lex, state)[1] \in Nat
         /\ FirstLastIndexPair(lex, state)[2] \in Nat
         /\ FirstLastIndexPair(lex, state)[1] <= FirstLastIndexPair(lex, state)[2] + 1
         /\ \A j \in ArcsFrom(lex, state) :
              /\ CharOf(lex, j) \in Nat /\ TargetOf(lex, j) \in States(nodes)
              /\ nodes[TargetOf(lex, j) + 1] = Append(nodes[state + 1], CharOf(lex, j))
         /\ \A letter \in Nat :
              IsNode(nodes, Append(nodes[state + 1], letter)) =>
                \E j \in ArcsFrom(lex, state) : CharOf(lex, j) = letter
         /\ \A j, k \in ArcsFrom(lex, state) : j < k => CharOf(lex, j) < CharOf(lex, k)
  <1>1. ArcsAre(lex, nodes, state)
    BY DEF IsTrie, States
  <1>2. \A j \in ArcsFrom(lex, state) :
          /\ CharOf(lex, j) \in Nat /\ TargetOf(lex, j) \in States(nodes)
          /\ nodes[TargetOf(lex, j) + 1] = Append(nodes[state + 1], CharOf(lex, j))
    BY <1>1 DEF ArcsAre, ArcsFrom, CharOf, TargetOf, States
  <1>3. ASSUME NEW letter \in Nat, IsNode(nodes, Append(nodes[state + 1], letter))
        PROVE  \E j \in ArcsFrom(lex, state) : CharOf(lex, j) = letter
    <2>1. PICK k \in DOMAIN nodes : nodes[k] = Append(nodes[state + 1], letter)
      BY <1>3 DEF IsNode
    <2>2. nodes[state + 1] \in Seq(Nat) /\ DOMAIN nodes = 1 .. Len(nodes)
      BY TrieFacts DEF States
    <2>3. nodes[k] # <<>> /\ Front(nodes[k]) = nodes[state + 1]
      BY <2>1, <2>2, AppendFacts
    <2>4. \E j \in ArcsFrom(lex, state) : TargetOf(lex, j) = k - 1
      BY <1>1, <2>1, <2>3 DEF ArcsAre, ArcsFrom, TargetOf
    <2>5. PICK j \in ArcsFrom(lex, state) : TargetOf(lex, j) = k - 1
      BY <2>4
    <2>6. Append(nodes[state + 1], letter) = Append(nodes[state + 1], CharOf(lex, j))
      BY <1>2, <2>1, <2>2, <2>5
    <2>7. CharOf(lex, j) = letter
      BY <1>2, <2>2, <2>6, AppendInjective
    <2> QED BY <2>5, <2>7
  <1>4. /\ FirstLastIndexPair(lex, state)[1] \in Nat
        /\ FirstLastIndexPair(lex, state)[2] \in Nat
        /\ FirstLastIndexPair(lex, state)[1] <= FirstLastIndexPair(lex, state)[2] + 1
    BY <1>1 DEF ArcsAre
  <1>5. \A j, k \in ArcsFrom(lex, state) : j < k => CharOf(lex, j) < CharOf(lex, k)
    BY <1>1 DEF ArcsAre, ArcsFrom, CharOf
  <1> QED BY <1>2, <1>3, <1>4, <1>5

-----------------------------------------------------------------------------
(* The lexicon that is built: its nodes.                                   *)

(* new has what old has, at the same place, and more.                      *)
Grown(old, new, more) ==
  /\ new \in Seq(Seq(Nat)) /\ IsInjective(new)
  /\ Len(old) <= Len(new) /\ \A i \in 1 .. Len(old) : new[i] = old[i]
  /\ Range(new) = Range(old) \union more

LEMMA GrownIsLonger ==
  ASSUME NEW old \in Seq(Seq(Nat)), NEW mid, NEW new, NEW some, NEW more,
         Grown(old, mid, some), Grown(mid, new, more)
  PROVE  Grown(old, new, some \union more)
  <1>1. /\ mid \in Seq(Seq(Nat)) /\ new \in Seq(Seq(Nat)) /\ IsInjective(new)
        /\ Len(old) <= Len(mid) /\ Len(mid) <= Len(new)
        /\ \A i \in 1 .. Len(old) : mid[i] = old[i]
        /\ \A i \in 1 .. Len(mid) : new[i] = mid[i]
        /\ Range(new) = Range(old) \union (some \union more)
    BY DEF Grown
  <1>2. Len(old) \in Nat /\ Len(mid) \in Nat /\ Len(new) \in Nat
    BY <1>1, LenProperties
  <1>3. Len(old) <= Len(new)
    BY <1>1, <1>2
  <1>4. ASSUME NEW i \in 1 .. Len(old) PROVE new[i] = old[i]
    <2>1. i \in 1 .. Len(mid)
      BY <1>1, <1>2
    <2> QED BY <1>1, <2>1
  <1> QED BY <1>1, <1>3, <1>4 DEF Grown

LEMMA GrownByOne ==
  ASSUME NEW new \in Seq(Seq(Nat)), IsInjective(new), NEW s \in Seq(Nat), NEW longer,
         longer = IF s \in Range(new) THEN new ELSE Append(new, s)
  PROVE  Grown(new, longer, {s})
  <1>1. Len(new) \in Nat /\ DOMAIN new = 1 .. Len(new)
    BY LenProperties
  <1>2. CASE s \in Range(new)
    BY <1>1, <1>2 DEF Grown
  <1>3. CASE s \notin Range(new)
    <2>1. /\ longer \in Seq(Seq(Nat)) /\ Len(longer) = Len(new) + 1
          /\ \A i \in 1 .. Len(new) : longer[i] = new[i]
          /\ longer[Len(new) + 1] = s
      BY <1>3, AppendProperties
    <2>2. DOMAIN longer = 1 .. Len(new) + 1
      BY <2>1, LenProperties
    <2>3. \A i \in 1 .. Len(new) : new[i] # s
      BY <1>1, <1>3 DEF Range
    <2>4. ASSUME NEW i \in DOMAIN longer, NEW j \in DOMAIN longer, longer[i] = longer[j]
          PROVE  i = j
      <3>1. (i \in 1 .. Len(new) \/ i = Len(new) + 1) /\ (j \in 1 .. Len(new) \/ j = Len(new) + 1)
        BY <1>1, <2>2
      <3>2. CASE i \in 1 .. Len(new) /\ j \in 1 .. Len(new)
        BY <1>1, <2>1, <2>4, <3>2 DEF IsInjective
      <3> QED BY <2>1, <2>3, <2>4, <3>1, <3>2
    <2>5. Range(longer) = Range(new) \union {s}
      <3>1. \A i \in 1 .. Len(new) + 1 : longer[i] \in Range(new) \union {s}
        <4>1. ASSUME NEW i \in 1 .. Len(new) + 1 PROVE longer[i] \in Range(new) \union {s}
          <5>1. i \in 1 .. Len(new) \/ i = Len(new) + 1
            BY <1>1
          <5> QED BY <1>1, <2>1, <5>1 DEF Range
        <4> QED BY <4>1
      <3>2. \A i \in 1 .. Len(new) : i \in 1 .. Len(new) + 1
        BY <1>1
      <3>3. Len(new) + 1 \in 1 .. Len(new) + 1
        BY <1>1
      <3> QED BY <1>1, <2>1, <2>2, <3>1, <3>2, <3>3 DEF Range
    <2>6. IsInjective(longer)
      BY <2>4 DEF IsInjective
    <2>7. Len(new) <= Len(longer)
      BY <1>1, <2>1
    <2> QED BY <2>1, <2>5, <2>6, <2>7 DEF Grown
  <1> QED BY <1>2, <1>3

AddedBody(nodes, w, known, n) ==
  IF n = 0 THEN nodes
  ELSE LET before == known[n - 1]
       IN  IF SubSeq(w, 1, n) \in Range(before) THEN before
           ELSE Append(before, SubSeq(w, 1, n))

AreAdded(nodes, w, m, known) == known = [n \in 0 .. m |-> AddedBody(nodes, w, known, n)]

LEMMA AddedExist ==
  ASSUME NEW nodes, NEW w, NEW end \in Nat
  PROVE  \E known : AreAdded(nodes, w, end, known)
  <1> DEFINE without == {k \in Nat : ~\E known : AreAdded(nodes, w, k, known)}
  <1> SUFFICES ASSUME without # {} PROVE FALSE
    OBVIOUS
  <1>1. PICK n \in without : \A k \in without : n <= k
    <2>1. without \in SUBSET Nat
      OBVIOUS
    <2> HIDE DEF without
    <2> QED BY <2>1, LeastExists
  <1>2. n \in Nat /\ ~\E known : AreAdded(nodes, w, n, known)
    BY <1>1
  <1>3. n # 0
    <2>1. AreAdded(nodes, w, 0, [k \in 0 .. 0 |-> nodes])
      BY DEF AreAdded, AddedBody
    <2> QED BY <1>2, <2>1
  <1>4. PICK shorter : AreAdded(nodes, w, n - 1, shorter)
    <2>1. n - 1 \in Nat /\ n - 1 < n
      BY <1>2, <1>3
    <2>2. n - 1 \notin without
      BY <1>1, <2>1
    <2> QED BY <2>1, <2>2
  <1> DEFINE longer == [k \in 0 .. n |-> AddedBody(nodes, w, shorter, k)]
  <1>5. ASSUME NEW k \in 0 .. n - 1
        PROVE  longer[k] = shorter[k]
    <2>1. shorter[k] = AddedBody(nodes, w, shorter, k)
      BY <1>4 DEF AreAdded
    <2>2. k \in 0 .. n
      BY <1>2
    <2> QED BY <2>1, <2>2
  <1>6. ASSUME NEW k \in 0 .. n
        PROVE  AddedBody(nodes, w, shorter, k) = AddedBody(nodes, w, longer, k)
    <2> HIDE DEF longer
    <2>1. k # 0 => k - 1 \in 0 .. n - 1
      BY <1>2
    <2>2. k # 0 => longer[k - 1] = shorter[k - 1]
      BY <1>5, <2>1
    <2> QED BY <2>2 DEF AddedBody
  <1>7. AreAdded(nodes, w, n, longer)
    BY <1>6 DEF AreAdded
  <1> QED BY <1>2, <1>7

Beginnings(w, n) == {SubSeq(w, 1, i) : i \in 1 .. n}

LEMMA AddedGrow ==
  ASSUME NEW nodes \in Seq(Seq(Nat)), IsInjective(nodes), NEW w \in Seq(Nat),
         NEW known, AreAdded(nodes, w, Len(w), known)
  PROVE  \A n \in 0 .. Len(w) : Grown(nodes, known[n], Beginnings(w, n))
  <1> DEFINE Right(n) == Grown(nodes, known[n], Beginnings(w, n))
             wrong == {n \in Nat : n \in 0 .. Len(w) /\ ~Right(n)}
  <1>0. Len(w) \in Nat
    BY LenProperties
  <1> SUFFICES ASSUME wrong # {} PROVE FALSE
    <2> HIDE DEF Right
    <2>1. \A n \in 0 .. Len(w) : Right(n)
      BY <1>0
    <2> QED BY <2>1 DEF Right
  <1>1. PICK n \in wrong : \A m \in wrong : n <= m
    <2>1. wrong \in SUBSET Nat
      OBVIOUS
    <2> HIDE DEF wrong
    <2> QED BY <2>1, LeastExists
  <1>2. n \in Nat /\ n \in 0 .. Len(w) /\ ~Right(n)
    <2> HIDE DEF Right
    <2> QED BY <1>1
  <1>3. known[n] = AddedBody(nodes, w, known, n)
    BY <1>2 DEF AreAdded
  <1>4. CASE n = 0
    <2>1. known[n] = nodes
      BY <1>3, <1>4 DEF AddedBody
    <2>2. Beginnings(w, n) = {}
      BY <1>4 DEF Beginnings
    <2>3. Len(nodes) \in Nat
      BY LenProperties
    <2>4. Grown(nodes, nodes, {})
      BY <2>3 DEF Grown
    <2> QED BY <1>2, <2>1, <2>2, <2>4
  <1>5. CASE n # 0
    <2>1. n - 1 \in 0 .. Len(w) /\ n - 1 \in Nat /\ n - 1 < n /\ n \in 1 .. Len(w)
      BY <1>0, <1>2, <1>5
    <2>2. Right(n - 1)
      <3> HIDE DEF Right
      <3> QED BY <1>1, <2>1
    <2>3. PICK before : before = known[n - 1]
      OBVIOUS
    <2>4. Grown(nodes, before, Beginnings(w, n - 1))
      BY <2>2, <2>3
    <2>5. before \in Seq(Seq(Nat)) /\ IsInjective(before)
      BY <2>4 DEF Grown
    <2>6. PICK s : s = SubSeq(w, 1, n)
      OBVIOUS
    <2>7. s \in Seq(Nat)
      <3>1. \A i \in 1 .. n : w[i] \in Nat
        BY <1>0, <1>2, ElementOfSeq
      <3> QED BY <1>2, <2>1, <2>6, <3>1, SubSeqProperties
    <2>8. known[n] = IF s \in Range(before) THEN before ELSE Append(before, s)
      BY <1>3, <1>5, <2>3, <2>6 DEF AddedBody
    <2>9. Grown(before, known[n], {s})
      BY <2>5, <2>7, <2>8, GrownByOne
    <2>10. Beginnings(w, n) = Beginnings(w, n - 1) \union {s}
      <3>1. \A i : i \in 1 .. n <=> i \in 1 .. n - 1 \/ i = n
        BY <2>1
      <3> QED BY <2>6, <3>1 DEF Beginnings
    <2>11. Grown(nodes, known[n], Beginnings(w, n - 1) \union {s})
      BY <2>4, <2>9, GrownIsLonger
    <2> QED BY <1>2, <2>10, <2>11
  <1> QED BY <1>4, <1>5

LEMMA InnerNodesGrow ==
  ASSUME NEW nodes \in Seq(Seq(Nat)), IsInjective(nodes), NEW w \in Seq(Nat)
  PROVE  Grown(nodes, AddInnerNodes(nodes, w), Beginnings(w, Len(w)))
  <1> DEFINE known == CHOOSE f : AreAdded(nodes, w, Len(w), f)
  <1>1. AddInnerNodes(nodes, w) = known[Len(w)]
    BY DEF AddInnerNodes, AreAdded, AddedBody
  <1>2. Len(w) \in Nat /\ Len(w) \in 0 .. Len(w)
    BY LenProperties
  <1>3. AreAdded(nodes, w, Len(w), known)
    BY <1>2, AddedExist
  <1> HIDE DEF known
  <1> QED BY <1>1, <1>2, <1>3, AddedGrow

NodesBody(words, all, k) ==
  IF k = 0 THEN Append(words, <<>>) ELSE AddInnerNodes(all[k - 1], words[k])

AreNodes(words, m, all) == all = [k \in 0 .. m |-> NodesBody(words, all, k)]

LEMMA NodesExist ==
  ASSUME NEW words, NEW end \in Nat
  PROVE  \E all : AreNodes(words, end, all)
  <1> DEFINE without == {k \in Nat : ~\E all : AreNodes(words, k, all)}
  <1> SUFFICES ASSUME without # {} PROVE FALSE
    OBVIOUS
  <1>1. PICK n \in without : \A k \in without : n <= k
    <2>1. without \in SUBSET Nat
      OBVIOUS
    <2> HIDE DEF without
    <2> QED BY <2>1, LeastExists
  <1>2. n \in Nat /\ ~\E all : AreNodes(words, n, all)
    BY <1>1
  <1>3. n # 0
    <2>1. AreNodes(words, 0, [k \in 0 .. 0 |-> Append(words, <<>>)])
      BY DEF AreNodes, NodesBody
    <2> QED BY <1>2, <2>1
  <1>4. PICK shorter : AreNodes(words, n - 1, shorter)
    <2>1. n - 1 \in Nat /\ n - 1 < n
      BY <1>2, <1>3
    <2>2. n - 1 \notin without
      BY <1>1, <2>1
    <2> QED BY <2>1, <2>2
  <1> DEFINE longer == [k \in 0 .. n |-> NodesBody(words, shorter, k)]
  <1>5. ASSUME NEW k \in 0 .. n - 1
        PROVE  longer[k] = shorter[k]
    <2>1. shorter[k] = NodesBody(words, shorter, k)
      BY <1>4 DEF AreNodes
    <2>2. k \in 0 .. n
      BY <1>2
    <2> QED BY <2>1, <2>2
  <1>6. ASSUME NEW k \in 0 .. n
        PROVE  NodesBody(words, shorter, k) = NodesBody(words, longer, k)
    <2> HIDE DEF longer
    <2>1. k # 0 => k - 1 \in 0 .. n - 1
      BY <1>2
    <2>2. k # 0 => longer[k - 1] = shorter[k - 1]
      BY <1>5, <2>1
    <2> QED BY <2>2 DEF NodesBody
  <1>7. AreNodes(words, n, longer)
    BY <1>6 DEF AreNodes
  <1> QED BY <1>2, <1>7

BeginningsOf(words, k) == UNION {Beginnings(words[i], Len(words[i])) : i \in 1 .. k}

AreDictionary(words) ==
  /\ words \in Seq(Seq(Nat)) /\ words # <<>>
  /\ IsInjective(words) /\ <<>> \notin Range(words)

LEMMA RootIsNew ==
  ASSUME NEW words, AreDictionary(words)
  PROVE  Append(words, <<>>) \in Seq(Seq(Nat)) /\ IsInjective(Append(words, <<>>))
  <1>1. <<>> \in Seq(Nat)
    BY EmptySeq
  <1>2. words \in Seq(Seq(Nat)) /\ IsInjective(words) /\ <<>> \notin Range(words)
    BY DEF AreDictionary
  <1>3. Grown(words, Append(words, <<>>), {<<>>})
    BY <1>1, <1>2, GrownByOne
  <1> QED BY <1>3 DEF Grown

LEMMA NodesGrow ==
  ASSUME NEW words, AreDictionary(words), NEW all, AreNodes(words, Len(words), all)
  PROVE  \A k \in 0 .. Len(words) :
           Grown(Append(words, <<>>), all[k], BeginningsOf(words, k))
  <1> DEFINE Right(k) == Grown(Append(words, <<>>), all[k], BeginningsOf(words, k))
             wrong == {k \in Nat : k \in 0 .. Len(words) /\ ~Right(k)}
  <1>0. Len(words) \in Nat /\ words \in Seq(Seq(Nat))
    BY LenProperties DEF AreDictionary
  <1>10. Append(words, <<>>) \in Seq(Seq(Nat)) /\ IsInjective(Append(words, <<>>))
    BY RootIsNew
  <1> SUFFICES ASSUME wrong # {} PROVE FALSE
    <2> HIDE DEF Right
    <2>1. \A k \in 0 .. Len(words) : Right(k)
      BY <1>0
    <2> QED BY <2>1 DEF Right
  <1>1. PICK k \in wrong : \A m \in wrong : k <= m
    <2>1. wrong \in SUBSET Nat
      OBVIOUS
    <2> HIDE DEF wrong
    <2> QED BY <2>1, LeastExists
  <1>2. k \in Nat /\ k \in 0 .. Len(words) /\ ~Right(k)
    <2> HIDE DEF Right
    <2> QED BY <1>1
  <1>3. all[k] = NodesBody(words, all, k)
    BY <1>2 DEF AreNodes
  <1>4. CASE k = 0
    <2>1. all[k] = Append(words, <<>>)
      BY <1>3, <1>4 DEF NodesBody
    <2>2. BeginningsOf(words, k) = {}
      BY <1>4 DEF BeginningsOf
    <2>3. PICK first : first = Append(words, <<>>)
      OBVIOUS
    <2>4. Len(first) \in Nat /\ first \in Seq(Seq(Nat)) /\ IsInjective(first)
      BY <1>10, <2>3, LenProperties
    <2>5. Grown(first, first, {})
      BY <2>4 DEF Grown
    <2> QED BY <1>2, <2>1, <2>2, <2>3, <2>5
  <1>5. CASE k # 0
    <2>1. k - 1 \in 0 .. Len(words) /\ k - 1 \in Nat /\ k - 1 < k /\ k \in 1 .. Len(words)
      BY <1>0, <1>2, <1>5
    <2>2. Right(k - 1)
      <3> HIDE DEF Right
      <3> QED BY <1>1, <2>1
    <2>3. PICK before : before = all[k - 1]
      OBVIOUS
    <2>4. Grown(Append(words, <<>>), before, BeginningsOf(words, k - 1))
      BY <2>2, <2>3
    <2>5. before \in Seq(Seq(Nat)) /\ IsInjective(before)
      BY <2>4 DEF Grown
    <2>6. PICK w : w = words[k]
      OBVIOUS
    <2>7. w \in Seq(Nat)
      BY <1>0, <2>1, <2>6, ElementOfSeq
    <2>8. all[k] = AddInnerNodes(before, w)
      BY <1>3, <1>5, <2>3, <2>6 DEF NodesBody
    <2>9. Grown(before, all[k], Beginnings(w, Len(w)))
      BY <2>5, <2>7, <2>8, InnerNodesGrow
    <2>10. BeginningsOf(words, k) = BeginningsOf(words, k - 1) \union Beginnings(w, Len(w))
      <3>1. \A i : i \in 1 .. k <=> i \in 1 .. k - 1 \/ i = k
        BY <2>1
      <3> QED BY <2>6, <3>1 DEF BeginningsOf
    <2>11. Grown(Append(words, <<>>), all[k],
                 BeginningsOf(words, k - 1) \union Beginnings(w, Len(w)))
      BY <1>10, <2>4, <2>9, GrownIsLonger
    <2> QED BY <1>2, <2>10, <2>11
  <1> QED BY <1>4, <1>5

LEMMA WordsAndBeginnings ==
  ASSUME NEW words, AreDictionary(words)
  PROVE  Grown(Append(words, <<>>), Nodes(words), BeginningsOf(words, Len(words)))
  <1> DEFINE all == CHOOSE f : AreNodes(words, Len(words), f)
  <1>1. Nodes(words) = all[Len(words)]
    BY DEF Nodes, AreNodes, NodesBody
  <1>2. Len(words) \in Nat /\ Len(words) \in 0 .. Len(words)
    BY LenProperties DEF AreDictionary
  <1>3. AreNodes(words, Len(words), all)
    BY <1>2, NodesExist
  <1> HIDE DEF all
  <1> QED BY <1>1, <1>2, <1>3, NodesGrow

(* What IsTrie says of the nodes.                                          *)
LEMMA NodesOfWords ==
  ASSUME NEW words, AreDictionary(words), NEW nodes, nodes = Nodes(words)
  PROVE  /\ nodes \in Seq(Seq(Nat)) /\ IsInjective(nodes)
         /\ Range(nodes) = UNION {{SubSeq(w, 1, n) : n \in 0 .. Len(w)} : w \in Range(words)}
         /\ Len(words) < Len(nodes)
         /\ nodes[Len(words) + 1] = <<>>
         /\ \A k \in DOMAIN words : nodes[k] = words[k]
  <1>1. words \in Seq(Seq(Nat)) /\ words # <<>> /\ <<>> \in Seq(Nat)
    BY EmptySeq DEF AreDictionary
  <1>2. Len(words) \in Nat /\ DOMAIN words = 1 .. Len(words) /\ 1 \in DOMAIN words
    <2>1. Len(words) \in Nat /\ DOMAIN words = 1 .. Len(words) /\ Len(words) # 0
      BY <1>1, LenProperties, EmptySeq
    <2> QED BY <2>1
  <1>3. PICK first : first = Append(words, <<>>)
    OBVIOUS
  <1>4. /\ first \in Seq(Seq(Nat)) /\ Len(first) = Len(words) + 1
        /\ \A i \in 1 .. Len(words) : first[i] = words[i]
        /\ first[Len(words) + 1] = <<>>
    BY <1>1, <1>3, AppendProperties
  <1>5. Grown(first, nodes, BeginningsOf(words, Len(words)))
    BY <1>3, WordsAndBeginnings
  <1>6. /\ nodes \in Seq(Seq(Nat)) /\ IsInjective(nodes)
        /\ Len(first) <= Len(nodes) /\ Len(nodes) \in Nat
        /\ \A i \in 1 .. Len(first) : nodes[i] = first[i]
        /\ Range(nodes) = Range(first) \union BeginningsOf(words, Len(words))
    BY <1>5, LenProperties DEF Grown
  <1>7. Len(words) < Len(nodes) /\ nodes[Len(words) + 1] = <<>>
    <2>1. Len(words) + 1 \in 1 .. Len(first) /\ Len(words) < Len(nodes)
      BY <1>2, <1>4, <1>6
    <2>2. nodes[Len(words) + 1] = first[Len(words) + 1]
      BY <1>6, <2>1
    <2> QED BY <1>4, <2>1, <2>2
  <1>8. \A k \in DOMAIN words : nodes[k] = words[k]
    BY <1>2, <1>4, <1>6
  <1> DEFINE starts == UNION {{SubSeq(w, 1, n) : n \in 0 .. Len(w)} : w \in Range(words)}
  <1>9. DOMAIN first = 1 .. Len(words) + 1
    BY <1>4, LenProperties
  <1>10. \A k \in DOMAIN words : words[k] \in Seq(Nat) /\ Len(words[k]) \in Nat
    BY <1>1, <1>2, ElementOfSeq, LenProperties
  <1>11. ASSUME NEW k \in DOMAIN words, NEW n \in 0 .. Len(words[k])
         PROVE  SubSeq(words[k], 1, n) \in starts
    BY <1>11 DEF Range
  <1>12. \A k \in DOMAIN words : SubSeq(words[k], 1, 0) = <<>> /\ SubSeq(words[k], 1, Len(words[k])) = words[k]
    BY <1>10, SubSeqFull, SubSeqEmpty
  <1>13. ASSUME NEW s \in Range(nodes)
         PROVE  s \in starts
    <2> HIDE DEF starts
    <2>1. CASE s \in Range(first)
      <3>1. PICK i \in 1 .. Len(words) + 1 : s = first[i]
        BY <1>9, <2>1 DEF Range
      <3>2. CASE i = Len(words) + 1
        <4>1. s = SubSeq(words[1], 1, 0) /\ 0 \in 0 .. Len(words[1])
          BY <1>2, <1>4, <1>10, <1>12, <3>1, <3>2
        <4> QED BY <1>2, <1>11, <4>1
      <3>3. CASE i # Len(words) + 1
        <4>1. i \in DOMAIN words
          BY <1>2, <3>3
        <4>2. s = SubSeq(words[i], 1, Len(words[i])) /\ Len(words[i]) \in 0 .. Len(words[i])
          BY <1>2, <1>4, <1>10, <1>12, <3>1, <4>1
        <4> QED BY <1>11, <4>1, <4>2
      <3> QED BY <3>2, <3>3
    <2>2. CASE s \in BeginningsOf(words, Len(words))
      <3>1. PICK i \in 1 .. Len(words) : s \in Beginnings(words[i], Len(words[i]))
        BY <2>2 DEF BeginningsOf
      <3>2. PICK n \in 1 .. Len(words[i]) : s = SubSeq(words[i], 1, n)
        BY <3>1 DEF Beginnings
      <3>3. i \in DOMAIN words /\ n \in 0 .. Len(words[i])
        BY <1>2, <1>10
      <3> QED BY <1>11, <3>2, <3>3
    <2> QED BY <1>6, <2>1, <2>2
  <1>14. ASSUME NEW s \in starts
         PROVE  s \in Range(nodes)
    <2>1. PICK w \in Range(words) : \E n \in 0 .. Len(w) : s = SubSeq(w, 1, n)
      OBVIOUS
    <2>2. PICK i \in DOMAIN words : w = words[i]
      BY DEF Range
    <2>3. PICK n \in 0 .. Len(words[i]) : s = SubSeq(words[i], 1, n)
      BY <2>1, <2>2
    <2> HIDE DEF starts
    <2>4. CASE n = 0
      <3>1. s = first[Len(words) + 1] /\ Len(words) + 1 \in DOMAIN first
        BY <1>2, <1>4, <1>9, <1>12, <2>3, <2>4
      <3> QED BY <1>6, <3>1 DEF Range
    <2>5. CASE n # 0
      <3>1. n \in 1 .. Len(words[i])
        BY <1>10, <2>5
      <3>2. s \in Beginnings(words[i], Len(words[i]))
        BY <2>3, <3>1 DEF Beginnings
      <3>3. s \in BeginningsOf(words, Len(words))
        BY <1>2, <3>2 DEF BeginningsOf
      <3> QED BY <1>6, <3>3
    <2> QED BY <2>4, <2>5
  <1>15. Range(nodes) = starts
    <2> HIDE DEF starts
    <2> QED BY <1>13, <1>14
  <1> QED BY <1>6, <1>7, <1>8, <1>15

-----------------------------------------------------------------------------
(* The arcs of a node, by their characters.                                *)

AreArcs(arcs) ==
  /\ IsFiniteSet(arcs)
  /\ \A a \in arcs : a[1] \in Nat
  /\ \A a, b \in arcs : a[1] = b[1] => a = b

Smaller(arcs, a) == {other \in arcs : other[1] < a[1]}
Rank(arcs, a) == Cardinality(Smaller(arcs, a))

LEMMA RanksGrow ==
  ASSUME NEW arcs, AreArcs(arcs), NEW a \in arcs, NEW b \in arcs, a[1] < b[1]
  PROVE  Rank(arcs, a) \in Nat /\ Rank(arcs, b) \in Nat /\ Rank(arcs, a) < Rank(arcs, b)
  <1>1. IsFiniteSet(arcs) /\ \A x \in arcs : x[1] \in Nat
    BY DEF AreArcs
  <1>2. Smaller(arcs, a) \in SUBSET arcs /\ Smaller(arcs, b) \in SUBSET arcs
    BY DEF Smaller
  <1>3. IsFiniteSet(Smaller(arcs, a)) /\ IsFiniteSet(Smaller(arcs, b))
    BY <1>1, <1>2, FS_Subset
  <1>4. Cardinality(Smaller(arcs, a)) \in Nat /\ Cardinality(Smaller(arcs, b)) \in Nat
    BY <1>3, FS_CardinalityType
  <1>5. a \notin Smaller(arcs, a)
    BY <1>1 DEF Smaller
  <1>6. Cardinality(Smaller(arcs, a) \union {a}) = Cardinality(Smaller(arcs, a)) + 1
    BY <1>3, <1>5, FS_AddElement
  <1>7. Smaller(arcs, a) \union {a} \in SUBSET Smaller(arcs, b)
    <2>1. ASSUME NEW x \in Smaller(arcs, a) \union {a} PROVE x \in Smaller(arcs, b)
      BY <1>1, <2>1 DEF Smaller
    <2> QED BY <2>1
  <1>8. Cardinality(Smaller(arcs, a) \union {a}) <= Cardinality(Smaller(arcs, b))
    BY <1>3, <1>7, FS_Subset
  <1> QED BY <1>4, <1>6, <1>8 DEF Rank

LEMMA RanksAreBounded ==
  ASSUME NEW arcs, AreArcs(arcs), NEW a \in arcs
  PROVE  Cardinality(arcs) \in Nat /\ Rank(arcs, a) \in 0 .. Cardinality(arcs) - 1
  <1>1. IsFiniteSet(arcs) /\ \A x \in arcs : x[1] \in Nat
    BY DEF AreArcs
  <1>2. Smaller(arcs, a) \in SUBSET (arcs \ {a})
    <2>1. ASSUME NEW x \in Smaller(arcs, a) PROVE x \in arcs \ {a}
      BY <1>1, <2>1 DEF Smaller
    <2> QED BY <2>1
  <1>3. IsFiniteSet(arcs \ {a}) /\ Cardinality(arcs \ {a}) = Cardinality(arcs) - 1
    BY <1>1, FS_RemoveElement
  <1>4. IsFiniteSet(Smaller(arcs, a)) /\ Cardinality(Smaller(arcs, a)) <= Cardinality(arcs \ {a})
    BY <1>2, <1>3, FS_Subset
  <1>5. Cardinality(Smaller(arcs, a)) \in Nat /\ Cardinality(arcs) \in Nat
    BY <1>1, <1>4, FS_CardinalityType
  <1> QED BY <1>3, <1>4, <1>5 DEF Rank

LEMMA RanksAreDistinct ==
  ASSUME NEW arcs, AreArcs(arcs), NEW a \in arcs, NEW b \in arcs, Rank(arcs, a) = Rank(arcs, b)
  PROVE  a = b
  <1>1. a[1] \in Nat /\ b[1] \in Nat
    BY DEF AreArcs
  <1>2. CASE a[1] < b[1]
    <2>1. Rank(arcs, a) < Rank(arcs, b) /\ Rank(arcs, a) \in Nat
      BY <1>2, RanksGrow
    <2> QED BY <2>1
  <1>3. CASE b[1] < a[1]
    <2>1. Rank(arcs, b) < Rank(arcs, a) /\ Rank(arcs, a) \in Nat
      BY <1>3, RanksGrow
    <2> QED BY <2>1
  <1>4. CASE a[1] = b[1]
    BY <1>4 DEF AreArcs
  <1> QED BY <1>1, <1>2, <1>3, <1>4

LEMMA EveryRankIsTaken ==
  ASSUME NEW arcs, AreArcs(arcs), NEW j \in 0 .. Cardinality(arcs) - 1
  PROVE  \E a \in arcs : Rank(arcs, a) = j
  <1> DEFINE ranks == [a \in arcs |-> Rank(arcs, a)]
             n == Cardinality(arcs)
  <1>1. IsFiniteSet(arcs) /\ n \in Nat
    BY FS_CardinalityType DEF AreArcs
  <1>2. ranks \in [arcs -> 0 .. n - 1]
    BY RanksAreBounded
  <1>3. \A a, b \in arcs : ranks[a] = ranks[b] => a = b
    BY RanksAreDistinct
  <1>4. ranks \in Injection(arcs, 0 .. n - 1)
    <2> HIDE DEF ranks, n
    <2> QED BY <1>2, <1>3 DEF Injection, IsInjective
  <1>5. 0 \in Int /\ n - 1 \in Int
    BY <1>1
  <1>6. IsFiniteSet(0 .. n - 1) /\ Cardinality(0 .. n - 1) = n
    <2>1. IsFiniteSet(0 .. n - 1) /\ Cardinality(0 .. n - 1) = IF 0 > n - 1 THEN 0 ELSE n - 1 - 0 + 1
      BY <1>5, FS_Interval
    <2> HIDE DEF n
    <2> QED BY <1>1, <2>1
  <1>7. ranks \in Surjection(arcs, 0 .. n - 1)
    <2>1. Cardinality(arcs) = Cardinality(0 .. n - 1)
      BY <1>6
    <2> HIDE DEF ranks, n
    <2> QED BY <1>4, <1>6, <2>1, FS_Injection
  <1>8. \E a \in arcs : ranks[a] = j
    <2> HIDE DEF ranks
    <2> QED BY <1>7 DEF Surjection
  <1> QED BY <1>8

LEMMA SortedByCharacter ==
  ASSUME NEW arcs, AreArcs(arcs), NEW list, list = ByCharacter(arcs)
  PROVE  /\ list \in Seq(arcs) /\ Len(list) = Cardinality(arcs)
         /\ \A a \in arcs : \E j \in 1 .. Len(list) : list[j] = a
         /\ \A j, k \in 1 .. Len(list) : j < k => list[j][1] < list[k][1]
  <1> DEFINE n == Cardinality(arcs)
  <1>1. IsFiniteSet(arcs) /\ n \in Nat
    BY FS_CardinalityType DEF AreArcs
  <1>2. list = [j \in 1 .. n |-> CHOOSE arc \in arcs : Rank(arcs, arc) = j - 1]
    BY DEF ByCharacter, Rank, Smaller
  <1>3. ASSUME NEW j \in 1 .. n
        PROVE  list[j] \in arcs /\ Rank(arcs, list[j]) = j - 1
    <2>1. j - 1 \in 0 .. n - 1
      BY <1>1
    <2>2. \E a \in arcs : Rank(arcs, a) = j - 1
      BY <2>1, EveryRankIsTaken
    <2>3. list[j] = CHOOSE arc \in arcs : Rank(arcs, arc) = j - 1
      BY <1>2
    <2> QED BY <2>2, <2>3
  <1>4. DOMAIN list = 1 .. n /\ list = [j \in 1 .. n |-> list[j]]
    BY <1>2
  <1>5. list \in [1 .. n -> arcs]
    BY <1>3, <1>4
  <1>6. list \in Seq(arcs)
    BY <1>1, <1>5, SeqDef
  <1>7. Len(list) = n
    BY <1>1, <1>4, <1>6, LenProperties
  <1>8. ASSUME NEW a \in arcs
        PROVE  \E j \in 1 .. Len(list) : list[j] = a
    <2>1. Rank(arcs, a) \in 0 .. n - 1
      BY RanksAreBounded
    <2>2. Rank(arcs, a) + 1 \in 1 .. n /\ (Rank(arcs, a) + 1) - 1 = Rank(arcs, a)
      BY <1>1, <2>1
    <2>3. list[Rank(arcs, a) + 1] \in arcs /\ Rank(arcs, list[Rank(arcs, a) + 1]) = Rank(arcs, a)
      BY <1>3, <2>2
    <2>4. list[Rank(arcs, a) + 1] = a
      BY <2>3, RanksAreDistinct
    <2> QED BY <1>7, <2>2, <2>4
  <1>9. ASSUME NEW j \in 1 .. Len(list), NEW k \in 1 .. Len(list), j < k
        PROVE  list[j][1] < list[k][1]
    <2>1. /\ list[j] \in arcs /\ Rank(arcs, list[j]) = j - 1
          /\ list[k] \in arcs /\ Rank(arcs, list[k]) = k - 1
      BY <1>3, <1>7
    <2>2. list[j][1] \in Nat /\ list[k][1] \in Nat
      BY <2>1 DEF AreArcs
    <2>3. CASE list[k][1] < list[j][1]
      <3>1. Rank(arcs, list[k]) < Rank(arcs, list[j])
        BY <2>1, <2>3, RanksGrow
      <3> QED BY <1>1, <1>7, <1>9, <2>1, <3>1
    <2>4. CASE list[k][1] = list[j][1]
      <3>1. list[j] = list[k]
        BY <2>1, <2>4 DEF AreArcs
      <3> QED BY <1>1, <1>7, <1>9, <2>1, <3>1
    <2> QED BY <2>2, <2>3, <2>4
  <1> QED BY <1>6, <1>7, <1>8, <1>9

LEMMA FrontAndLast ==
  ASSUME NEW s \in Seq(Nat), s # <<>>
  PROVE  Front(s) \in Seq(Nat) /\ Last(s) \in Nat /\ s = Append(Front(s), Last(s))
  <1>1. Len(s) \in Nat \ {0}
    BY EmptySeq
  <1>2. 1 \in 1 .. Len(s) /\ Len(s) \in 1 .. Len(s) /\ Len(s) - 1 \in Nat
    BY <1>1
  <1>3. s[Len(s)] \in Nat
    BY <1>2, ElementOfSeq
  <1>4. SubSeq(s, 1, Len(s) - 1) \in Seq(Nat)
    <2>1. Len(s) - 1 \in 0 .. Len(s)
      BY <1>1
    <2>2. \A k \in 1 .. Len(s) - 1 : s[k] \in Nat
      BY <1>1, ElementOfSeq
    <2>3. 1 \in Int /\ Len(s) - 1 \in Int
      BY <1>1
    <2> QED BY <2>2, <2>3, SubSeqProperties
  <1>5. SubSeq(s, 1, Len(s)) = SubSeq(s, 1, Len(s) - 1) \o <<s[Len(s)]>>
    BY <1>2, SubSeqRecursiveSecond
  <1>6. SubSeq(s, 1, Len(s)) = s
    BY SubSeqFull
  <1>7. SubSeq(s, 1, Len(s) - 1) \o <<s[Len(s)]>> = Append(SubSeq(s, 1, Len(s) - 1), s[Len(s)])
    BY <1>3, <1>4, AppendIsConcat
  <1> QED BY <1>3, <1>4, <1>5, <1>6, <1>7 DEF Front, Last

NextNodes(nodes, node) == {k \in DOMAIN nodes : nodes[k] # <<>> /\ Front(nodes[k]) = node}

LEMMA EdgesAreArcs ==
  ASSUME NEW nodes \in Seq(Seq(Nat)), IsInjective(nodes), NEW node
  PROVE  AreArcs(EdgesOf(nodes, node))
  <1> DEFINE K == NextNodes(nodes, node)
             edge == [k \in K |-> <<Last(nodes[k]), k - 1>>]
  <1>1. DOMAIN nodes = 1 .. Len(nodes) /\ Len(nodes) \in Nat
    BY LenProperties
  <1>2. IsFiniteSet(K)
    <2>1. 1 \in Int /\ Len(nodes) \in Int
      BY <1>1
    <2>2. IsFiniteSet(DOMAIN nodes)
      BY <1>1, <2>1, FS_Interval
    <2>3. K \in SUBSET (DOMAIN nodes)
      BY DEF NextNodes
    <2> QED BY <2>2, <2>3, FS_Subset
  <1>3. EdgesOf(nodes, node) = {<<Last(nodes[k]), k - 1>> : k \in K}
    BY DEF EdgesOf, NextNodes
  <1>4. edge \in Surjection(K, EdgesOf(nodes, node))
    <2>1. edge \in [K -> EdgesOf(nodes, node)]
      BY <1>3
    <2>2. \A t \in EdgesOf(nodes, node) : \E k \in K : edge[k] = t
      BY <1>3
    <2> HIDE DEF edge, K
    <2> QED BY <2>1, <2>2 DEF Surjection
  <1>5. IsFiniteSet(EdgesOf(nodes, node))
    <2> HIDE DEF edge, K
    <2> QED BY <1>2, <1>4, FS_Surjection
  <1>6. ASSUME NEW k \in K
        PROVE  /\ k \in DOMAIN nodes /\ nodes[k] \in Seq(Nat) /\ Last(nodes[k]) \in Nat
               /\ nodes[k] = Append(node, Last(nodes[k]))
    <2>1. k \in DOMAIN nodes /\ nodes[k] # <<>> /\ Front(nodes[k]) = node
      BY DEF NextNodes
    <2>2. nodes[k] \in Seq(Nat)
      BY <1>1, <2>1, ElementOfSeq
    <2> QED BY <2>1, <2>2, FrontAndLast
  <1>7. ASSUME NEW a \in EdgesOf(nodes, node)
        PROVE  a[1] \in Nat
    <2>1. PICK k \in K : a = <<Last(nodes[k]), k - 1>>
      BY <1>3
    <2> QED BY <1>6, <2>1
  <1>8. ASSUME NEW a \in EdgesOf(nodes, node), NEW b \in EdgesOf(nodes, node), a[1] = b[1]
        PROVE  a = b
    <2>1. PICK k \in K : a = <<Last(nodes[k]), k - 1>>
      BY <1>3
    <2>2. PICK m \in K : b = <<Last(nodes[m]), m - 1>>
      BY <1>3
    <2>3. Last(nodes[k]) = Last(nodes[m])
      BY <1>8, <2>1, <2>2
    <2>4. nodes[k] = nodes[m] /\ k \in DOMAIN nodes /\ m \in DOMAIN nodes
      BY <1>6, <2>3
    <2>5. k = m
      BY <2>4 DEF IsInjective
    <2> QED BY <2>1, <2>2, <2>5
  <1> QED BY <1>5, <1>7, <1>8 DEF AreArcs

IsArcTo(arc, nodes, node) ==
  /\ arc[1] \in Nat /\ arc[2] \in 0 .. Len(nodes) - 1
  /\ nodes[arc[2] + 1] = Append(node, arc[1])

ListFits(list, nodes, node) ==
  /\ list \in Seq(Nat \X Nat)
  /\ \A j \in 1 .. Len(list) : IsArcTo(list[j], nodes, node)
  /\ \A k \in NextNodes(nodes, node) : \E j \in 1 .. Len(list) : list[j][2] = k - 1
  /\ \A j, k \in 1 .. Len(list) : j < k => list[j][1] < list[k][1]

LEMMA ArcsOfNode ==
  ASSUME NEW nodes \in Seq(Seq(Nat)), IsInjective(nodes), NEW node,
         NEW list, list = ArcsOf(nodes, node)
  PROVE  ListFits(list, nodes, node)
  <1> DEFINE arcs == EdgesOf(nodes, node)
  <1>1. AreArcs(arcs)
    BY EdgesAreArcs
  <1>2. /\ list \in Seq(arcs) /\ Len(list) = Cardinality(arcs)
        /\ \A a \in arcs : \E j \in 1 .. Len(list) : list[j] = a
        /\ \A j, k \in 1 .. Len(list) : j < k => list[j][1] < list[k][1]
    <2>1. list = ByCharacter(arcs)
      BY DEF ArcsOf
    <2> HIDE DEF arcs
    <2> QED BY <1>1, <2>1, SortedByCharacter
  <1>3. DOMAIN nodes = 1 .. Len(nodes) /\ Len(nodes) \in Nat
    BY LenProperties
  <1>4. arcs = {<<Last(nodes[k]), k - 1>> : k \in NextNodes(nodes, node)}
    BY DEF EdgesOf, NextNodes
  <1>5. ASSUME NEW k \in NextNodes(nodes, node)
        PROVE  /\ k \in 1 .. Len(nodes) /\ Last(nodes[k]) \in Nat
               /\ nodes[k] = Append(node, Last(nodes[k]))
    <2>1. k \in DOMAIN nodes /\ nodes[k] # <<>> /\ Front(nodes[k]) = node
      BY DEF NextNodes
    <2>2. nodes[k] \in Seq(Nat)
      BY <1>3, <2>1, ElementOfSeq
    <2> QED BY <1>3, <2>1, <2>2, FrontAndLast
  <1>6. ASSUME NEW a \in arcs
        PROVE  IsArcTo(a, nodes, node) /\ a \in Nat \X Nat
    <2>1. PICK k \in NextNodes(nodes, node) : a = <<Last(nodes[k]), k - 1>>
      BY <1>4
    <2>2. /\ k \in 1 .. Len(nodes) /\ Last(nodes[k]) \in Nat
          /\ nodes[k] = Append(node, Last(nodes[k]))
      BY <1>5
    <2>3. a[1] = Last(nodes[k]) /\ a[2] = k - 1 /\ (k - 1) + 1 = k
      BY <1>3, <2>1, <2>2
    <2>4. k - 1 \in 0 .. Len(nodes) - 1 /\ k - 1 \in Nat
      BY <1>3, <2>2
    <2>5. a \in Nat \X Nat
      BY <2>1, <2>2, <2>4
    <2> QED BY <2>2, <2>3, <2>4, <2>5 DEF IsArcTo
  <1>7. list \in Seq(Nat \X Nat)
    <2>1. arcs \subseteq Nat \X Nat
      BY <1>6
    <2> HIDE DEF arcs
    <2> QED BY <1>2, <2>1, SeqMonotonic
  <1>8. ASSUME NEW j \in 1 .. Len(list)
        PROVE  IsArcTo(list[j], nodes, node)
    <2>1. list[j] \in arcs
      <3> HIDE DEF arcs
      <3> QED BY <1>2, ElementOfSeq
    <2> QED BY <1>6, <2>1
  <1>9. ASSUME NEW k \in NextNodes(nodes, node)
        PROVE  \E j \in 1 .. Len(list) : list[j][2] = k - 1
    <2>1. <<Last(nodes[k]), k - 1>> \in arcs
      BY <1>4
    <2>2. PICK j \in 1 .. Len(list) : list[j] = <<Last(nodes[k]), k - 1>>
      <3> HIDE DEF arcs
      <3> QED BY <1>2, <2>1
    <2>3. list[j][2] = k - 1
      BY <2>2
    <2> QED BY <2>3
  <1> QED BY <1>2, <1>7, <1>8, <1>9 DEF ListFits

-----------------------------------------------------------------------------
(* Lists one after the other.                                              *)

JoinedBody(lists, upTo, k) == IF k = 0 THEN <<>> ELSE upTo[k - 1] \o lists[k]

AreJoined(lists, m, upTo) == upTo = [k \in 0 .. m |-> JoinedBody(lists, upTo, k)]

LEMMA JoinedExist ==
  ASSUME NEW lists, NEW end \in Nat
  PROVE  \E upTo : AreJoined(lists, end, upTo)
  <1> DEFINE without == {k \in Nat : ~\E upTo : AreJoined(lists, k, upTo)}
  <1> SUFFICES ASSUME without # {} PROVE FALSE
    OBVIOUS
  <1>1. PICK n \in without : \A k \in without : n <= k
    <2>1. without \in SUBSET Nat
      OBVIOUS
    <2> HIDE DEF without
    <2> QED BY <2>1, LeastExists
  <1>2. n \in Nat /\ ~\E upTo : AreJoined(lists, n, upTo)
    BY <1>1
  <1>3. n # 0
    <2>1. AreJoined(lists, 0, [k \in 0 .. 0 |-> <<>>])
      BY DEF AreJoined, JoinedBody
    <2> QED BY <1>2, <2>1
  <1>4. PICK shorter : AreJoined(lists, n - 1, shorter)
    <2>1. n - 1 \in Nat /\ n - 1 < n
      BY <1>2, <1>3
    <2>2. n - 1 \notin without
      BY <1>1, <2>1
    <2> QED BY <2>1, <2>2
  <1> DEFINE longer == [k \in 0 .. n |-> JoinedBody(lists, shorter, k)]
  <1>5. ASSUME NEW k \in 0 .. n - 1
        PROVE  longer[k] = shorter[k]
    <2>1. shorter[k] = JoinedBody(lists, shorter, k)
      BY <1>4 DEF AreJoined
    <2>2. k \in 0 .. n
      BY <1>2
    <2> QED BY <2>1, <2>2
  <1>6. ASSUME NEW k \in 0 .. n
        PROVE  JoinedBody(lists, shorter, k) = JoinedBody(lists, longer, k)
    <2> HIDE DEF longer
    <2>1. k # 0 => k - 1 \in 0 .. n - 1
      BY <1>2
    <2>2. k # 0 => longer[k - 1] = shorter[k - 1]
      BY <1>5, <2>1
    <2> QED BY <2>2 DEF JoinedBody
  <1>7. AreJoined(lists, n, longer)
    BY <1>6 DEF AreJoined
  <1> QED BY <1>2, <1>7

PartIn(lists, upTo, k, i) ==
  /\ Len(upTo[i]) = Len(upTo[i - 1]) + Len(lists[i]) /\ Len(upTo[i]) <= Len(upTo[k])
  /\ \A j \in 1 .. Len(lists[i]) : upTo[k][Len(upTo[i - 1]) + j] = lists[i][j]

PartsAreIn(lists, upTo, T, k) ==
  upTo[k] \in Seq(T) /\ \A i \in 1 .. k : PartIn(lists, upTo, k, i)

LEMMA LaterPartIn ==
  ASSUME NEW T, NEW x \in Seq(T), NEW y \in Seq(T), NEW p \in Seq(T), NEW q \in Seq(T),
         Len(p \o q) <= Len(x), NEW j \in 1 .. Len(q)
  PROVE  /\ Len(p \o q) <= Len(x \o y)
         /\ (x \o y)[Len(p) + j] = x[Len(p) + j]
  <1>1. Len(x) \in Nat /\ Len(y) \in Nat /\ Len(p) \in Nat /\ Len(q) \in Nat
    BY LenProperties
  <1>2. Len(p \o q) = Len(p) + Len(q) /\ Len(x \o y) = Len(x) + Len(y)
    BY ConcatProperties
  <1>3. Len(p \o q) <= Len(x \o y)
    BY <1>1, <1>2
  <1>4. Len(p) + j \in 1 .. Len(x) + Len(y) /\ Len(p) + j <= Len(x)
    BY <1>1, <1>2
  <1>5. (x \o y)[Len(p) + j] = x[Len(p) + j]
    BY <1>4, ConcatProperties
  <1> QED BY <1>3, <1>5

LEMMA LastPartIn ==
  ASSUME NEW T, NEW x \in Seq(T), NEW y \in Seq(T)
  PROVE  /\ Len(x \o y) = Len(x) + Len(y) /\ Len(x \o y) <= Len(x \o y)
         /\ \A j \in 1 .. Len(y) : (x \o y)[Len(x) + j] = y[j]
  <1>1. Len(x) \in Nat /\ Len(y) \in Nat
    BY LenProperties
  <1>2. Len(x \o y) = Len(x) + Len(y)
    BY ConcatProperties
  <1>3. ASSUME NEW j \in 1 .. Len(y)
        PROVE  (x \o y)[Len(x) + j] = y[j]
    <2>1. Len(x) + j \in 1 .. Len(x) + Len(y) /\ ~(Len(x) + j <= Len(x))
          /\ (Len(x) + j) - Len(x) = j
      BY <1>1
    <2> QED BY <2>1, ConcatProperties
  <1> QED BY <1>1, <1>2, <1>3

LEMMA JoinedHasParts ==
  ASSUME NEW T, NEW lists, NEW m \in Nat, \A i \in 1 .. m : lists[i] \in Seq(T),
         NEW upTo, AreJoined(lists, m, upTo)
  PROVE  \A k \in 0 .. m : PartsAreIn(lists, upTo, T, k)
  <1> DEFINE wrong == {k \in Nat : k \in 0 .. m /\ ~PartsAreIn(lists, upTo, T, k)}
  <1> SUFFICES ASSUME wrong # {} PROVE FALSE
    OBVIOUS
  <1>1. PICK k \in wrong : \A i \in wrong : k <= i
    <2>1. wrong \in SUBSET Nat
      OBVIOUS
    <2> HIDE DEF wrong
    <2> QED BY <2>1, LeastExists
  <1>2. k \in Nat /\ k \in 0 .. m /\ ~PartsAreIn(lists, upTo, T, k)
    BY <1>1
  <1>3. upTo[k] = JoinedBody(lists, upTo, k)
    BY <1>2 DEF AreJoined
  <1>4. ASSUME NEW i \in 0 .. k - 1
        PROVE  PartsAreIn(lists, upTo, T, i)
    <2>1. i \in Nat /\ i \in 0 .. m /\ ~(k <= i)
      BY <1>2
    <2> QED BY <1>1, <2>1
  <1>5. CASE k = 0
    <2>1. upTo[k] = <<>> /\ 1 .. k = {}
      BY <1>3, <1>5 DEF JoinedBody
    <2>2. upTo[k] \in Seq(T)
      BY <2>1, EmptySeq
    <2> QED BY <1>2, <2>1, <2>2 DEF PartsAreIn
  <1>6. CASE k # 0
    <2>1. k \in 1 .. m /\ k - 1 \in 0 .. k - 1
      BY <1>2, <1>6
    <2>2. PICK x : x = upTo[k - 1]
      OBVIOUS
    <2>3. PICK y : y = lists[k]
      OBVIOUS
    <2>4. x \in Seq(T) /\ y \in Seq(T) /\ \A i \in 1 .. k - 1 : PartIn(lists, upTo, k - 1, i)
      <3>1. PartsAreIn(lists, upTo, T, k - 1)
        BY <1>4, <2>1
      <3> QED BY <2>1, <2>2, <2>3, <3>1 DEF PartsAreIn
    <2>5. upTo[k] = x \o y
      BY <1>3, <1>6, <2>2, <2>3 DEF JoinedBody
    <2>6. upTo[k] \in Seq(T)
      BY <2>4, <2>5, ConcatProperties
    <2>7. PartIn(lists, upTo, k, k)
      <3>1. /\ Len(x \o y) = Len(x) + Len(y) /\ Len(x \o y) <= Len(x \o y)
            /\ \A j \in 1 .. Len(y) : (x \o y)[Len(x) + j] = y[j]
        BY <2>4, LastPartIn
      <3> QED BY <2>2, <2>3, <2>5, <3>1 DEF PartIn
    <2>8. ASSUME NEW i \in 1 .. k - 1
          PROVE  PartIn(lists, upTo, k, i)
      <3>1. i - 1 \in 0 .. k - 1 /\ i \in 0 .. k - 1 /\ i \in 1 .. m /\ i # 0
        BY <1>2, <2>1
      <3>2. PICK p : p = upTo[i - 1]
        OBVIOUS
      <3>3. PICK q : q = lists[i]
        OBVIOUS
      <3>4. p \in Seq(T) /\ q \in Seq(T)
        BY <1>4, <3>1, <3>2, <3>3 DEF PartsAreIn
      <3>5. upTo[i] = p \o q
        <4>1. i \in 0 .. m
          BY <3>1
        <4>2. upTo[i] = JoinedBody(lists, upTo, i)
          BY <4>1 DEF AreJoined
        <4> QED BY <3>1, <3>2, <3>3, <4>2 DEF JoinedBody
      <3>6. PartIn(lists, upTo, k - 1, i)
        BY <2>4
      <3>7. /\ Len(p \o q) = Len(p) + Len(q) /\ Len(p \o q) <= Len(x)
            /\ \A j \in 1 .. Len(q) : x[Len(p) + j] = q[j]
        BY <2>2, <3>2, <3>3, <3>5, <3>6 DEF PartIn
      <3>8. ASSUME NEW j \in 1 .. Len(q)
            PROVE  (x \o y)[Len(p) + j] = q[j]
        <4>1. (x \o y)[Len(p) + j] = x[Len(p) + j]
          BY <2>4, <3>4, <3>7, LaterPartIn
        <4> QED BY <3>7, <4>1
      <3>9. Len(p \o q) <= Len(x \o y)
        <4>1. Len(x) \in Nat /\ Len(y) \in Nat /\ Len(p \o q) \in Nat
          BY <2>4, <3>4, ConcatProperties, LenProperties
        <4>2. Len(x \o y) = Len(x) + Len(y)
          BY <2>4, ConcatProperties
        <4> QED BY <3>7, <4>1, <4>2
      <3> QED BY <2>5, <3>2, <3>3, <3>5, <3>7, <3>8, <3>9 DEF PartIn
    <2>9. \A i \in 1 .. k : i = k \/ i \in 1 .. k - 1
      BY <1>2
    <2>10. \A i \in 1 .. k : PartIn(lists, upTo, k, i)
      BY <2>7, <2>8, <2>9
    <2> QED BY <1>2, <2>6, <2>10 DEF PartsAreIn
  <1> QED BY <1>5, <1>6

-----------------------------------------------------------------------------
(* The arrays that are built.                                              *)

LEMMA RootIsBuilt ==
  ASSUME NEW words
  PROVE  BuildLexicon(words).root_id = Len(words)
  BY DEF BuildLexicon

ListsOf(nodes) == [k \in 1 .. Len(nodes) |-> ArcsOf(nodes, nodes[k])]

OffsetsOf(upTo, n) == [k \in 1 .. n |-> Len(upTo[k - 1])]
CharsOf(flat) == [j \in 1 .. Len(flat) |-> flat[j][1]]
TargetsOf(flat) == [j \in 1 .. Len(flat) |-> flat[j][2]]

IsBuilt(lex, words, nodes, upTo) ==
  /\ AreJoined(ListsOf(nodes), Len(nodes), upTo)
  /\ lex.root_id = Len(words)
  /\ lex.offsets = OffsetsOf(upTo, Len(nodes))
  /\ lex.arcs_char = CharsOf(upTo[Len(nodes)])
  /\ lex.arcs_nextstate = TargetsOf(upTo[Len(nodes)])

LEMMA LexiconIsBuilt ==
  ASSUME NEW words, Len(Nodes(words)) \in Nat
  PROVE  \E upTo : IsBuilt(BuildLexicon(words), words, Nodes(words), upTo)
  <1> DEFINE nodes == Nodes(words)
             arcs == ListsOf(nodes)
             upTo == CHOOSE f : AreJoined(arcs, Len(nodes), f)
  <1>1. AreJoined(arcs, Len(nodes), upTo)
    BY JoinedExist
  <1>3. BuildLexicon(words) =
          [num_words      |-> Len(words),
           root_id        |-> Len(words),
           offsets        |-> OffsetsOf(upTo, Len(nodes)),
           arcs_char      |-> CharsOf(upTo[Len(nodes)]),
           arcs_nextstate |-> TargetsOf(upTo[Len(nodes)])]
    BY DEF BuildLexicon, ListsOf, OffsetsOf, CharsOf, TargetsOf, AreJoined, JoinedBody
  <1> HIDE DEF upTo
  <1>4. /\ BuildLexicon(words).root_id = Len(words)
        /\ BuildLexicon(words).offsets = OffsetsOf(upTo, Len(nodes))
        /\ BuildLexicon(words).arcs_char = CharsOf(upTo[Len(nodes)])
        /\ BuildLexicon(words).arcs_nextstate = TargetsOf(upTo[Len(nodes)])
    BY <1>3
  <1>5. IsBuilt(BuildLexicon(words), words, nodes, upTo)
    BY <1>1, <1>4 DEF IsBuilt
  <1> QED BY <1>5

AreArcLists(lists, n) == \A k \in 1 .. n : lists[k] \in Seq(Nat \X Nat)

LEMMA ListsAreArcs ==
  ASSUME NEW nodes \in Seq(Seq(Nat)), IsInjective(nodes)
  PROVE  AreArcLists(ListsOf(nodes), Len(nodes))
  <1>1. ASSUME NEW k \in 1 .. Len(nodes)
        PROVE  ListsOf(nodes)[k] \in Seq(Nat \X Nat)
    <2>1. ListsOf(nodes)[k] = ArcsOf(nodes, nodes[k])
      BY DEF ListsOf
    <2>2. ListFits(ListsOf(nodes)[k], nodes, nodes[k])
      BY <2>1, ArcsOfNode
    <2> QED BY <2>2 DEF ListFits
  <1> QED BY <1>1 DEF AreArcLists

LEMMA PartsOfArrays ==
  ASSUME NEW lex, NEW words, NEW nodes \in Seq(Seq(Nat)), IsInjective(nodes), NEW upTo,
         IsBuilt(lex, words, nodes, upTo)
  PROVE  /\ \A k \in 0 .. Len(nodes) : upTo[k] \in Seq(Nat \X Nat) /\ Len(upTo[k]) \in Nat
         /\ \A i \in 1 .. Len(nodes) : PartIn(ListsOf(nodes), upTo, Len(nodes), i)
  <1>1. Len(nodes) \in Nat /\ Len(nodes) \in 0 .. Len(nodes)
    BY LenProperties
  <1>2. AreJoined(ListsOf(nodes), Len(nodes), upTo)
    BY DEF IsBuilt
  <1>3. \A k \in 1 .. Len(nodes) : ListsOf(nodes)[k] \in Seq(Nat \X Nat)
    BY ListsAreArcs DEF AreArcLists
  <1>4. \A k \in 0 .. Len(nodes) : PartsAreIn(ListsOf(nodes), upTo, Nat \X Nat, k)
    BY <1>1, <1>2, <1>3, JoinedHasParts
  <1>5. \A k \in 0 .. Len(nodes) : upTo[k] \in Seq(Nat \X Nat)
    BY <1>4 DEF PartsAreIn
  <1>6. \A k \in 0 .. Len(nodes) : Len(upTo[k]) \in Nat
    BY <1>5, LenProperties
  <1>7. PartsAreIn(ListsOf(nodes), upTo, Nat \X Nat, Len(nodes))
    BY <1>1, <1>4
  <1> QED BY <1>5, <1>6, <1>7 DEF PartsAreIn

LEMMA FunctionIsSeq ==
  ASSUME NEW T, NEW n \in Nat, NEW f, DOMAIN f = 1 .. n, f = [i \in DOMAIN f |-> f[i]],
         \A i \in 1 .. n : f[i] \in T
  PROVE  f \in Seq(T) /\ Len(f) = n
  <1>1. f \in [1 .. n -> T]
    OBVIOUS
  <1>2. f \in Seq(T)
    BY <1>1, SeqDef
  <1>3. DOMAIN f = 1 .. Len(f) /\ Len(f) \in Nat
    BY <1>2, LenProperties
  <1> QED BY <1>2, <1>3

LEMMA PairIs ==
  ASSUME NEW lex, NEW words, NEW nodes \in Seq(Seq(Nat)), IsInjective(nodes), NEW upTo,
         IsBuilt(lex, words, nodes, upTo), NEW state \in 0 .. Len(nodes) - 1
  PROVE  FirstLastIndexPair(lex, state) =
           IF Len(upTo[state + 1]) = 0 THEN <<1, 0>>
           ELSE <<Len(upTo[state]), Len(upTo[state + 1]) - 1>>
  <1>1. Len(nodes) \in Nat
    BY LenProperties
  <1>2. \A k \in 0 .. Len(nodes) : upTo[k] \in Seq(Nat \X Nat) /\ Len(upTo[k]) \in Nat
    BY PartsOfArrays
  <1>3. lex.offsets = [k \in 1 .. Len(nodes) |-> Len(upTo[k - 1])]
    BY DEF IsBuilt, OffsetsOf
  <1>4. \A k \in 1 .. Len(nodes) : lex.offsets[k] = Len(upTo[k - 1])
    BY <1>3
  <1>5. Len(lex.offsets) = Len(nodes)
    <2>1. ASSUME NEW k \in 1 .. Len(nodes)
          PROVE  lex.offsets[k] \in Nat
      <3>1. k - 1 \in 0 .. Len(nodes)
        BY <1>1
      <3> QED BY <1>2, <1>4, <3>1
    <2>2. PICK f : f = lex.offsets
      OBVIOUS
    <2>3. DOMAIN f = 1 .. Len(nodes) /\ f = [k \in DOMAIN f |-> f[k]]
      BY <1>3, <2>2
    <2> QED BY <1>1, <2>1, <2>2, <2>3, FunctionIsSeq
  <1>6. Len(lex.arcs_char) = Len(upTo[Len(nodes)])
    <2>1. PICK flat : flat = upTo[Len(nodes)]
      OBVIOUS
    <2>2. flat \in Seq(Nat \X Nat) /\ Len(flat) \in Nat
      BY <1>1, <1>2, <2>1
    <2>3. lex.arcs_char = [j \in 1 .. Len(flat) |-> flat[j][1]]
      BY <2>1 DEF IsBuilt, CharsOf
    <2>4. \A j \in 1 .. Len(flat) : flat[j][1] \in Nat
      <3>1. \A j \in 1 .. Len(flat) : flat[j] \in Nat \X Nat
        BY <2>2, ElementOfSeq
      <3> QED BY <3>1
    <2>5. PICK f : f = lex.arcs_char
      OBVIOUS
    <2>6. DOMAIN f = 1 .. Len(flat) /\ f = [k \in DOMAIN f |-> f[k]]
      BY <2>3, <2>5
    <2>7. \A k \in 1 .. Len(flat) : f[k] \in Nat
      BY <2>3, <2>4, <2>5
    <2>8. Len(f) = Len(flat)
      BY <2>2, <2>6, <2>7, FunctionIsSeq
    <2> QED BY <2>1, <2>5, <2>8
  <1> DEFINE end == IF state < Len(lex.offsets) - 1 THEN lex.offsets[state + 2] - 1
                    ELSE Len(lex.arcs_char) - 1
  <1>7. end = Len(upTo[state + 1]) - 1
    <2>1. CASE state < Len(nodes) - 1
      <3>1. state + 2 \in 1 .. Len(nodes) /\ (state + 2) - 1 = state + 1
        BY <1>1, <2>1
      <3>2. lex.offsets[state + 2] = Len(upTo[state + 1])
        BY <1>4, <3>1
      <3> QED BY <1>5, <2>1, <3>2
    <2>2. CASE ~(state < Len(nodes) - 1)
      <3>1. state + 1 = Len(nodes)
        BY <1>1, <2>2
      <3> QED BY <1>5, <1>6, <2>2, <3>1
    <2> QED BY <2>1, <2>2
  <1>8. lex.offsets[state + 1] = Len(upTo[state])
    <2>1. state + 1 \in 1 .. Len(nodes) /\ (state + 1) - 1 = state
      BY <1>1
    <2> QED BY <1>4, <2>1
  <1>9. Len(upTo[state + 1]) \in Nat
    BY <1>1, <1>2
  <1>10. FirstLastIndexPair(lex, state) = IF end = -1 THEN <<1, 0>> ELSE <<lex.offsets[state + 1], end>>
    BY DEF FirstLastIndexPair
  <1> HIDE DEF end
  <1>11. end = -1 <=> Len(upTo[state + 1]) = 0
    BY <1>7, <1>9
  <1> QED BY <1>7, <1>8, <1>10, <1>11

ArcsLie(lex, state, start, list) ==
  /\ start \in Nat /\ Len(list) \in Nat
  /\ \A j : j \in ArcsFrom(lex, state) <=> j \in start .. start + Len(list) - 1
  /\ FirstLastIndexPair(lex, state)[1] \in Nat /\ FirstLastIndexPair(lex, state)[2] \in Nat
  /\ FirstLastIndexPair(lex, state)[1] <= FirstLastIndexPair(lex, state)[2] + 1
  /\ \A i \in 1 .. Len(list) :
       /\ CharOf(lex, start + i - 1) = list[i][1]
       /\ TargetOf(lex, start + i - 1) = list[i][2]

PairUpTo(start, end) == IF end = 0 THEN <<1, 0>> ELSE <<start, end - 1>>

PairIsFor(pair, start, n) ==
  /\ pair[1] \in Nat /\ pair[2] \in Nat /\ pair[1] <= pair[2] + 1
  /\ \A j : j \in pair[1] .. pair[2] <=> j \in start .. start + n - 1

LEMMA PairLies ==
  ASSUME NEW start \in Nat, NEW n \in Nat, NEW end \in Nat, end = start + n
  PROVE  PairIsFor(PairUpTo(start, end), start, n)
  <1>0. PICK pair : pair = PairUpTo(start, end)
    OBVIOUS
  <1>1. CASE end = 0
    <2>1. pair = <<1, 0>> /\ start = 0 /\ n = 0
      BY <1>0, <1>1 DEF PairUpTo
    <2>2. pair[1] = 1 /\ pair[2] = 0
      BY <2>1
    <2>3. PairIsFor(pair, start, n)
      BY <2>1, <2>2 DEF PairIsFor
    <2> QED BY <1>0, <2>3
  <1>2. CASE end # 0
    <2>1. pair = <<start, end - 1>>
      BY <1>0, <1>2 DEF PairUpTo
    <2>2. pair[1] = start /\ pair[2] = end - 1 /\ end - 1 \in Nat
      BY <1>2, <2>1
    <2>3. PairIsFor(pair, start, n)
      BY <1>2, <2>2 DEF PairIsFor
    <2> QED BY <1>0, <2>3
  <1> QED BY <1>1, <1>2

(* Where the arcs of a node are in the arrays, which count from 0.         *)
LEMMA ArcsLieThere ==
  ASSUME NEW lex, NEW words, NEW nodes \in Seq(Seq(Nat)), IsInjective(nodes), NEW upTo,
         IsBuilt(lex, words, nodes, upTo), NEW state \in 0 .. Len(nodes) - 1,
         NEW start, start = Len(upTo[state]),
         NEW list, list = ArcsOf(nodes, nodes[state + 1])
  PROVE  ArcsLie(lex, state, start, list)
  <1>1. Len(nodes) \in Nat /\ state \in Nat /\ state + 1 \in 1 .. Len(nodes)
    BY LenProperties
  <1>2. /\ \A k \in 0 .. Len(nodes) : upTo[k] \in Seq(Nat \X Nat) /\ Len(upTo[k]) \in Nat
        /\ \A i \in 1 .. Len(nodes) : PartIn(ListsOf(nodes), upTo, Len(nodes), i)
    BY PartsOfArrays
  <1>3. PICK flat : flat = upTo[Len(nodes)]
    OBVIOUS
  <1>4. PICK end : end = Len(upTo[state + 1])
    OBVIOUS
  <1>5. list \in Seq(Nat \X Nat) /\ Len(list) \in Nat
    <2>1. ListFits(list, nodes, nodes[state + 1])
      BY ArcsOfNode
    <2> QED BY <2>1, LenProperties DEF ListFits
  <1>6. start \in Nat /\ end \in Nat /\ flat \in Seq(Nat \X Nat) /\ Len(flat) \in Nat
    <2>1. state \in 0 .. Len(nodes) /\ state + 1 \in 0 .. Len(nodes) /\ Len(nodes) \in 0 .. Len(nodes)
      BY <1>1
    <2> QED BY <1>2, <1>3, <1>4, <2>1
  <1>7. ListsOf(nodes)[state + 1] = list
    BY <1>1 DEF ListsOf
  <1>8. /\ end = start + Len(list) /\ end <= Len(flat)
        /\ \A j \in 1 .. Len(list) : flat[start + j] = list[j]
    <2>1. PartIn(ListsOf(nodes), upTo, Len(nodes), state + 1) /\ (state + 1) - 1 = state
      BY <1>1, <1>2
    <2> QED BY <1>3, <1>4, <1>7, <2>1 DEF PartIn
  <1>9. FirstLastIndexPair(lex, state) = IF end = 0 THEN <<1, 0>> ELSE <<start, end - 1>>
    BY <1>4, PairIs
  <1>10. PICK pair : pair = FirstLastIndexPair(lex, state)
    OBVIOUS
  <1>11. /\ pair[1] \in Nat /\ pair[2] \in Nat /\ pair[1] <= pair[2] + 1
         /\ \A j : j \in pair[1] .. pair[2] <=> j \in start .. start + Len(list) - 1
    <2>0. PICK n : n = Len(list)
      OBVIOUS
    <2>1. end = start + n /\ n \in Nat
      BY <1>5, <1>8, <2>0
    <2>2. pair = PairUpTo(start, end)
      BY <1>9, <1>10 DEF PairUpTo
    <2>3. PairIsFor(pair, start, n)
      BY <1>6, <2>1, <2>2, PairLies
    <2> QED BY <2>0, <2>3 DEF PairIsFor
  <1>13. ArcsFrom(lex, state) = pair[1] .. pair[2]
    BY <1>10 DEF ArcsFrom
  <1>12. ASSUME NEW i \in 1 .. Len(list)
         PROVE  /\ CharOf(lex, start + i - 1) = list[i][1]
                /\ TargetOf(lex, start + i - 1) = list[i][2]
    <2>1. start + i \in 1 .. Len(flat) /\ (start + i - 1) + 1 = start + i
      <3>1. PICK n : n = Len(list)
        OBVIOUS
      <3>2. PICK size : size = Len(flat)
        OBVIOUS
      <3>3. end = start + n /\ end <= size /\ n \in Nat /\ size \in Nat /\ start \in Nat
        BY <1>5, <1>6, <1>8, <3>1, <3>2
      <3>4. i \in 1 .. n
        BY <3>1
      <3>5. start + i \in 1 .. size /\ (start + i - 1) + 1 = start + i
        BY <3>3, <3>4
      <3> QED BY <3>2, <3>5
    <2>2. /\ lex.arcs_char = [j \in 1 .. Len(flat) |-> flat[j][1]]
          /\ lex.arcs_nextstate = [j \in 1 .. Len(flat) |-> flat[j][2]]
      BY <1>3 DEF IsBuilt, CharsOf, TargetsOf
    <2>3. lex.arcs_char[start + i] = flat[start + i][1]
      BY <2>1, <2>2
    <2>4. lex.arcs_nextstate[start + i] = flat[start + i][2]
      BY <2>1, <2>2
    <2>5. flat[start + i] = list[i]
      BY <1>8
    <2> QED BY <2>1, <2>3, <2>4, <2>5 DEF CharOf, TargetOf
  <1> QED BY <1>5, <1>6, <1>10, <1>11, <1>12, <1>13 DEF ArcsLie

LEMMA NodeHasItsArcs ==
  ASSUME NEW lex, NEW words, NEW nodes \in Seq(Seq(Nat)), IsInjective(nodes), NEW upTo,
         IsBuilt(lex, words, nodes, upTo), NEW state \in 0 .. Len(nodes) - 1
  PROVE  ArcsAre(lex, nodes, state)
  <1>1. PICK start : start = Len(upTo[state])
    OBVIOUS
  <1>2. PICK list : list = ArcsOf(nodes, nodes[state + 1])
    OBVIOUS
  <1>3. /\ start \in Nat /\ Len(list) \in Nat
        /\ \A j : j \in ArcsFrom(lex, state) <=> j \in start .. start + Len(list) - 1
        /\ FirstLastIndexPair(lex, state)[1] \in Nat /\ FirstLastIndexPair(lex, state)[2] \in Nat
        /\ FirstLastIndexPair(lex, state)[1] <= FirstLastIndexPair(lex, state)[2] + 1
        /\ \A i \in 1 .. Len(list) :
             /\ CharOf(lex, start + i - 1) = list[i][1]
             /\ TargetOf(lex, start + i - 1) = list[i][2]
    <2>1. ArcsLie(lex, state, start, list)
      BY <1>1, <1>2, ArcsLieThere
    <2> QED BY <2>1 DEF ArcsLie
  <1>4. /\ list \in Seq(Nat \X Nat)
        /\ \A j \in 1 .. Len(list) : IsArcTo(list[j], nodes, nodes[state + 1])
        /\ \A k \in NextNodes(nodes, nodes[state + 1]) : \E j \in 1 .. Len(list) : list[j][2] = k - 1
        /\ \A j, k \in 1 .. Len(list) : j < k => list[j][1] < list[k][1]
    <2>1. ListFits(list, nodes, nodes[state + 1])
      BY <1>2, ArcsOfNode
    <2> QED BY <2>1 DEF ListFits
  <1>5. ASSUME NEW j \in ArcsFrom(lex, state)
        PROVE  /\ j - start + 1 \in 1 .. Len(list)
               /\ CharOf(lex, j) = list[j - start + 1][1]
               /\ TargetOf(lex, j) = list[j - start + 1][2]
    <2>1. j \in start .. start + Len(list) - 1
      BY <1>3
    <2>2. PICK i : i = j - start + 1
      OBVIOUS
    <2>3. i \in 1 .. Len(list) /\ start + i - 1 = j
      BY <1>3, <2>1, <2>2
    <2> QED BY <1>3, <2>2, <2>3
  <1>6. ASSUME NEW j \in ArcsFrom(lex, state)
        PROVE  /\ CharOf(lex, j) \in Nat /\ TargetOf(lex, j) \in 0 .. Len(nodes) - 1
               /\ nodes[TargetOf(lex, j) + 1] = Append(nodes[state + 1], CharOf(lex, j))
    <2>1. IsArcTo(list[j - start + 1], nodes, nodes[state + 1])
      BY <1>4, <1>5
    <2> QED BY <1>5, <2>1 DEF IsArcTo
  <1>7. ASSUME NEW k \in DOMAIN nodes, nodes[k] # <<>>, Front(nodes[k]) = nodes[state + 1]
        PROVE  \E j \in ArcsFrom(lex, state) : TargetOf(lex, j) = k - 1
    <2>1. k \in NextNodes(nodes, nodes[state + 1])
      BY <1>7 DEF NextNodes
    <2>2. PICK i \in 1 .. Len(list) : list[i][2] = k - 1
      BY <1>4, <2>1
    <2>3. start + i - 1 \in ArcsFrom(lex, state)
      <3>1. start + i - 1 \in start .. start + Len(list) - 1
        BY <1>3
      <3> QED BY <1>3, <3>1
    <2>4. TargetOf(lex, start + i - 1) = k - 1
      BY <1>3, <2>2
    <2> QED BY <2>3, <2>4
  <1>8. ASSUME NEW j \in ArcsFrom(lex, state), NEW k \in ArcsFrom(lex, state), j < k
        PROVE  CharOf(lex, j) < CharOf(lex, k)
    <2>1. j \in start .. start + Len(list) - 1 /\ k \in start .. start + Len(list) - 1
      BY <1>3
    <2>2. j - start + 1 < k - start + 1
      BY <1>3, <1>8, <2>1
    <2> QED BY <1>4, <1>5, <2>2
  <1> QED BY <1>3, <1>6, <1>7, <1>8 DEF ArcsAre, ArcsFrom, CharOf, TargetOf

(* A lexicon that is built from words is the trie of these words: of any   *)
(* number of words in any order, as long as they are different and not     *)
(* empty.                                                                  *)
THEOREM BuiltIsTrie ==
  ASSUME NEW words, AreDictionary(words)
  PROVE  IsTrie(BuildLexicon(words), words, Nodes(words))
  <1>1. PICK nodes : nodes = Nodes(words)
    OBVIOUS
  <1>2. /\ nodes \in Seq(Seq(Nat)) /\ IsInjective(nodes)
        /\ Range(nodes) = UNION {{SubSeq(w, 1, n) : n \in 0 .. Len(w)} : w \in Range(words)}
        /\ Len(words) < Len(nodes)
        /\ nodes[Len(words) + 1] = <<>>
        /\ \A k \in DOMAIN words : nodes[k] = words[k]
    BY <1>1, NodesOfWords
  <1>3. Len(Nodes(words)) \in Nat
    BY <1>1, <1>2, LenProperties
  <1>4. PICK lex : lex = BuildLexicon(words)
    OBVIOUS
  <1>5. PICK upTo : IsBuilt(lex, words, nodes, upTo)
    BY <1>1, <1>3, <1>4, LexiconIsBuilt
  <1>6. \A state \in 0 .. Len(nodes) - 1 : ArcsAre(lex, nodes, state)
    BY <1>2, <1>5, NodeHasItsArcs
  <1>7. lex.root_id = Len(words)
    BY <1>5 DEF IsBuilt
  <1>8. words \in Seq(Seq(Nat)) /\ words # <<>>
    BY DEF AreDictionary
  <1>9. IsTrie(lex, words, nodes)
    BY <1>2, <1>6, <1>7, <1>8 DEF IsTrie
  <1> QED BY <1>1, <1>4, <1>9

===============================================================================
