--------------------------- MODULE DecoderProofs ---------------------------
(***************************************************************************)
(* Proofs about the decoder for every lattice, every language model and    *)
(* all the settings the configuration accepts.                             *)
(*                                                                         *)
(* Inv says of every moment of the search that the trellis is not empty:   *)
(* either the new stage has a state whose distance is best, and then the   *)
(* filter at the end of the stage keeps it, or nothing was tried yet and   *)
(* the first extension is below the ceiling, and so cannot be pruned.      *)
(***************************************************************************)
EXTENDS Decoder, FiniteSetTheorems, SequenceTheorems, WellFoundedInduction,
        TLAPS

-----------------------------------------------------------------------------
(* The lattice of a sentence.                                              *)

LEMMA PaddingFacts ==
  ASSUME NEW n \in Nat, NEW S, NEW x \in S
  PROVE  /\ Padding(n, x) \in Seq(S)
         /\ Len(Padding(n, x)) = n
         /\ \A k \in 1 .. n : Padding(n, x)[k] = x
  BY DEF Padding

(* Every stage of the lattice is a nonempty set of possibilities.          *)
LEMMA LatticeFacts ==
  ASSUME NEW inner \in Sentences
  PROVE  /\ inner \in Seq(Stage)
         /\ inner # <<>>
         /\ StagePossibilities(inner) \in Seq(Stage)
         /\ Len(StagePossibilities(inner)) = Len(inner) + ModelOrder
  <1> DEFINE pad == Padding(ModelOrder - 1, {SentenceStart})
             end == <<{SentenceEnd}>>
             body == pad \o inner
  <1>1. inner \in Seq(Stage) /\ inner # <<>>
    BY SentencesAssumption
  <1>2. pad \in Seq(Stage) /\ Len(pad) = ModelOrder - 1
    <2>1. {SentenceStart} \in Stage
      BY DataAssumption DEF Stage
    <2>2. ModelOrder - 1 \in Nat
      BY OrdersAssumption
    <2> QED BY <2>1, <2>2, PaddingFacts
  <1>3. end \in Seq(Stage) /\ Len(end) = 1
    BY DataAssumption DEF Stage
  <1> HIDE DEF pad, end
  <1>4. /\ body \in Seq(Stage)
        /\ Len(body) = ModelOrder - 1 + Len(inner)
    BY <1>1, <1>2, ConcatProperties
  <1> HIDE DEF body
  <1>5. /\ body \o end \in Seq(Stage)
        /\ Len(body \o end) = Len(body) + Len(end)
    BY <1>3, <1>4, ConcatProperties
  <1>6. StagePossibilities(inner) = body \o end
    BY DEF StagePossibilities, body, pad, end
  <1>7. Len(inner) \in Nat
    BY <1>1, LenProperties
  <1> QED BY <1>1, <1>3, <1>4, <1>5, <1>6, <1>7, OrdersAssumption

LEMMA SentenceFacts ==
  ASSUME NEW lattice \in Sentence
  PROVE  /\ lattice \in Seq(Stage)
         /\ Len(lattice) \in Nat
         /\ ModelOrder < Len(lattice)
         /\ \A k \in 1 .. Len(lattice) : lattice[k] # {} /\ lattice[k] \subseteq Possibility
         /\ (Len(lattice) - ModelOrder + 1) * MaxStageCost < Ceiling
  <1>1. PICK inner \in Sentences : lattice = StagePossibilities(inner)
    BY DEF Sentence
  <1>2. /\ inner \in Seq(Stage)
        /\ inner # <<>>
        /\ lattice \in Seq(Stage)
        /\ Len(lattice) = Len(inner) + ModelOrder
    BY <1>1, LatticeFacts
  <1>3. Len(inner) \in Nat /\ Len(inner) > 0
    BY <1>2, LenProperties, EmptySeq
  <1>4. Len(lattice) - ModelOrder + 1 = Len(inner) + 1
    BY <1>2, <1>3, OrdersAssumption
  <1>5. (Len(lattice) - ModelOrder + 1) * MaxStageCost < Ceiling
    BY <1>4, CeilingAssumption
  <1>6. ASSUME NEW k \in 1 .. Len(lattice)
        PROVE  lattice[k] # {} /\ lattice[k] \subseteq Possibility
    BY <1>2, ElementOfSeq DEF Stage
  <1> QED BY <1>2, <1>3, <1>5, <1>6, OrdersAssumption

-----------------------------------------------------------------------------
(* Trellis states and the costs of their extensions.                       *)

LEMMA InitialStateFacts ==
  /\ IsState(InitialState)
  /\ InitialState.distance = 0
  /\ InitialState.ancestor = <<>>
  <1>1. Padding(ModelOrder - 1, SentenceStart) \in Seq(Possibility)
    BY OrdersAssumption, DataAssumption, PaddingFacts
  <1> QED BY <1>1 DEF InitialState, State, IsState

LEMMA ChainFacts ==
  ASSUME NEW s, IsState(s)
  PROVE  /\ Chain(s) \in Seq(Possibility \union {Undefined})
         /\ Len(Chain(s)) = Len(s.ancestor) + 1
  <1>1. YoungestHistory(s) \in Possibility \union {Undefined}
    <2>1. CASE s.history = <<>>
      BY <2>1 DEF YoungestHistory
    <2>2. CASE s.history # <<>>
      <3>1. s.history \in Seq(Possibility)
        BY DEF IsState
      <3>2. Len(s.history) \in 1 .. Len(s.history)
        BY <2>2, <3>1, EmptySeq, LenProperties
      <3> QED BY <2>2, <3>1, <3>2, ElementOfSeq DEF YoungestHistory
    <2> QED BY <2>1, <2>2
  <1>2. s.ancestor \in Seq(Possibility \union {Undefined})
    BY DEF IsState
  <1> QED BY <1>1, <1>2, AppendProperties DEF Chain

LEMMA ChildFacts ==
  ASSUME NEW s, IsState(s), NEW p \in Possibility, NEW cost \in Int
  PROVE  /\ IsState(Child(s, p, cost))
         /\ Child(s, p, cost).distance = cost
         /\ Len(Child(s, p, cost).ancestor) = Len(s.ancestor) + 1
  <1> DEFINE rest == IF s.history = <<>> THEN <<>> ELSE Tail(s.history)
  <1>1. rest \in Seq(Possibility)
    <2>1. s.history \in Seq(Possibility)
      BY DEF IsState
    <2> QED BY <2>1, HeadTailProperties, EmptySeq
  <1> HIDE DEF rest
  <1>2. Append(rest, p) \in Seq(Possibility)
    BY <1>1, AppendProperties
  <1>3. Child(s, p, cost) = State(Append(rest, p), cost, Chain(s))
    BY DEF Child, rest
  <1>4. /\ Child(s, p, cost).history = Append(rest, p)
        /\ Child(s, p, cost).distance = cost
        /\ Child(s, p, cost).ancestor = Chain(s)
    BY <1>3 DEF State
  <1> QED BY <1>2, <1>3, <1>4, ChainFacts DEF IsState

LEMMA CostFacts ==
  ASSUME NEW m \in Models, NEW s, IsState(s), NEW p \in Possibility
  PROVE  /\ EmissionCost(s, p) \in Int
         /\ ExtensionCost(m, s, p) \in Int
         /\ EmissionCost(s, p) <= s.distance + MaxStageCost
         /\ ExtensionCost(m, s, p) <= s.distance + MaxStageCost
  <1>1. NGram(s, p) \in [1 .. ModelOrder -> Ids]
    <2>1. s.history \in Seq(Possibility)
      BY DEF IsState
    <2>2. ASSUME NEW j \in 1 .. ModelOrder
          PROVE  (IF j <= Len(s.history) THEN s.history[j] ELSE p) \in Possibility
      BY <2>1, ElementOfSeq, LenProperties, OrdersAssumption
    <2> QED BY <2>2 DEF NGram, Ids
  <1>2. /\ ComputeTransitionCost(m, s, p) \in Int
        /\ Emission[p] + ComputeTransitionCost(m, s, p) <= MaxStageCost
    BY <1>1, TransitionAssumption, CeilingAssumption DEF ComputeTransitionCost
  <1>3. Emission[p] \in Int /\ Emission[p] <= MaxStageCost /\ MaxStageCost \in Int
    BY DataAssumption, CeilingAssumption
  <1>4. s.distance \in Int
    BY DEF IsState
  <1> QED BY <1>2, <1>3, <1>4 DEF EmissionCost, ExtensionCost

LEMMA BeamedFacts ==
  ASSUME NEW S, S # {}, NEW K \in Beamed(S)
  PROVE  K # {} /\ K \subseteq S
  <1>1. CASE Beam = 0 \/ Cardinality(S) <= Beam
    BY <1>1 DEF Beamed
  <1>2. CASE ~(Beam = 0 \/ Cardinality(S) <= Beam)
    <2>1. K \in SUBSET S /\ Cardinality(K) = Beam
      BY <1>2 DEF Beamed
    <2> QED BY <1>2, <2>1, FS_EmptySet
  <1> QED BY <1>1, <1>2

(* A stage of the lattice that is being searched.                          *)
LEMMA StageFacts ==
  ASSUME TypeOK
  PROVE  /\ i \in Nat /\ i - ModelOrder \in Nat /\ NewStage \in Nat
         /\ i <= Len(stages) /\ Len(stages) \in Nat
         /\ stages[i] # {} /\ stages[i] \subseteq Possibility
         /\ NewStage * MaxStageCost = (i - ModelOrder) * MaxStageCost + MaxStageCost
         /\ NewStage * MaxStageCost < Ceiling
  <1>1. /\ ModelOrder \in Nat \ {0}
        /\ MaxStageCost \in Nat
        /\ Ceiling \in Nat
    BY OrdersAssumption, CeilingAssumption
  <1>2. stages \in Sentence /\ i \in ModelOrder .. Len(stages)
    BY DEF TypeOK
  <1>3. Len(stages) \in Nat
    BY <1>2, SentenceFacts
  <1>4. /\ i \in 1 .. Len(stages)
        /\ i - ModelOrder \in Nat
        /\ NewStage \in Nat
        /\ NewStage <= Len(stages) - ModelOrder + 1
    BY <1>1, <1>2, <1>3 DEF NewStage
  <1>5. NewStage * MaxStageCost <= (Len(stages) - ModelOrder + 1) * MaxStageCost
    BY <1>1, <1>3, <1>4
  <1>6. (Len(stages) - ModelOrder + 1) * MaxStageCost < Ceiling
    BY <1>2, SentenceFacts
  <1>7. NewStage * MaxStageCost < Ceiling
    <2> DEFINE a == NewStage * MaxStageCost
               b == (Len(stages) - ModelOrder + 1) * MaxStageCost
    <2>1. a \in Int /\ b \in Int
      BY <1>1, <1>3, <1>4
    <2>2. a <= b /\ b < Ceiling
      BY <1>5, <1>6
    <2> HIDE DEF a, b
    <2>3. a < Ceiling
      BY <1>1, <2>1, <2>2
    <2> QED BY <2>3 DEF a
  <1>8. NewStage * MaxStageCost = (i - ModelOrder) * MaxStageCost + MaxStageCost
    BY <1>1, <1>4 DEF NewStage
  <1> QED BY <1>2, <1>3, <1>4, <1>7, <1>8, SentenceFacts

-----------------------------------------------------------------------------
(* Init and the steps.                                                     *)

LEMMA InitInv == Init => Inv
  <1> SUFFICES ASSUME Init PROVE Inv
    OBVIOUS
  <1>1. /\ model \in Models /\ stages \in Sentence
        /\ i = ModelOrder /\ i \in ModelOrder .. Len(stages)
        /\ last = {InitialState} /\ new = {} /\ best = Ceiling
        /\ toVisit = {InitialState} /\ current = InitialState
        /\ toTry = {} /\ result = <<>> /\ pc = "search"
    BY SentenceFacts, OrdersAssumption DEF Init, Sentence
  <1>2. TypeOK
    BY <1>1, InitialStateFacts, OrdersAssumption DEF TypeOK
  <1>3. /\ LastStage = 0 /\ 0 * MaxStageCost = 0
    BY <1>1, OrdersAssumption, CeilingAssumption DEF LastStage
  <1>4. Bounded(last, LastStage) /\ Bounded(new, NewStage)
    BY <1>1, <1>3, InitialStateFacts DEF Bounded
  <1>5. ChainsHaveLength(last, LastStage) /\ ChainsHaveLength(new, NewStage)
    BY <1>1, <1>3, InitialStateFacts DEF ChainsHaveLength
  <1> QED
    BY <1>1, <1>2, <1>4, <1>5
    DEF Inv, TrellisNonEmpty, ResultCoversStages, BestIsAttained, WorkLeft

(* A fresh sentence starts from the same state.                            *)
LEMMA NextSentenceInv == Inv /\ NextSentence => Inv'
  <1> SUFFICES ASSUME Inv, NextSentence PROVE Inv'
    OBVIOUS
  <1>1. /\ model' \in Models /\ stages' \in Sentence
        /\ i' = ModelOrder /\ i' \in ModelOrder .. Len(stages')
        /\ last' = {InitialState} /\ new' = {} /\ best' = Ceiling
        /\ toVisit' = {InitialState} /\ current' = InitialState
        /\ toTry' = {} /\ result' = <<>> /\ pc' = "search"
    BY SentenceFacts, OrdersAssumption DEF Inv, TypeOK, NextSentence, Sentence
  <1>2. TypeOK'
    BY <1>1, InitialStateFacts, OrdersAssumption DEF TypeOK
  <1>3. /\ LastStage' = 0 /\ 0 * MaxStageCost = 0
    BY <1>1, OrdersAssumption, CeilingAssumption DEF LastStage
  <1>4. Bounded(last', LastStage') /\ Bounded(new', NewStage')
    BY <1>1, <1>3, InitialStateFacts DEF Bounded
  <1>5. ChainsHaveLength(last', LastStage') /\ ChainsHaveLength(new', NewStage')
    BY <1>1, <1>3, InitialStateFacts DEF ChainsHaveLength
  <1> QED
    BY <1>1, <1>2, <1>4, <1>5
    DEF Inv, TrellisNonEmpty, ResultCoversStages, BestIsAttained, WorkLeft

LEMMA VisitStateInv == Inv /\ VisitState => Inv'
  <1> SUFFICES ASSUME Inv, VisitState PROVE Inv'
    OBVIOUS
  <1>1. /\ TypeOK /\ pc = "search"
        /\ UNCHANGED <<model, stages, i, last, result, pc, new, best>>
    BY DEF Inv, VisitState, search
  <1>2. /\ current' \in last /\ toVisit' \subseteq last /\ toTry' = stages[i]
    BY <1>1 DEF VisitState, Cheapest, TypeOK
  <1>3. toTry' # {}
    BY <1>1, <1>2, StageFacts
  <1>4. TypeOK'
    BY <1>1, <1>2 DEF TypeOK
  <1> QED
    BY <1>1, <1>2, <1>3, <1>4
    DEF Inv, TrellisNonEmpty, ResultCoversStages, BestIsAttained, WorkLeft,
        LastStage, NewStage

-----------------------------------------------------------------------------
(* The extension of the current state by the next possibility.             *)

LEMMA ExtensionFacts ==
  ASSUME Inv, NEW p, IsNext(p)
  PROVE  /\ p \in Possibility /\ current \in last /\ IsState(current)
         /\ EmissionCost(current, p) \in Int
         /\ EmissionCost(current, p) < Ceiling
         /\ ExtensionCost(model, current, p) \in Int
         /\ ExtensionCost(model, current, p) <= NewStage * MaxStageCost
         /\ ExtensionCost(model, current, p) < Ceiling
         /\ IsState(Extended(p))
         /\ Extended(p).distance = ExtensionCost(model, current, p)
         /\ Len(Extended(p).ancestor) = NewStage
  <1>1. /\ TypeOK /\ pc = "search" /\ p \in toTry /\ current \in last
        /\ model \in Models /\ IsState(current) /\ p \in stages[i]
    BY DEF Inv, TypeOK, IsNext
  <1>2. p \in Possibility
    BY <1>1, StageFacts
  <1>3. /\ current.distance \in Int
        /\ current.distance <= (i - ModelOrder) * MaxStageCost
        /\ Len(current.ancestor) = i - ModelOrder
    BY <1>1 DEF Inv, Bounded, ChainsHaveLength, LastStage, IsState
  <1>4. current.distance + MaxStageCost <= NewStage * MaxStageCost
    <2> DEFINE a == (i - ModelOrder) * MaxStageCost
    <2>1. a \in Int /\ MaxStageCost \in Int
      BY <1>1, StageFacts, CeilingAssumption
    <2>2. current.distance <= a /\ NewStage * MaxStageCost = a + MaxStageCost
      BY <1>1, <1>3, StageFacts
    <2> HIDE DEF a
    <2> QED BY <1>3, <2>1, <2>2
  <1>5. NewStage * MaxStageCost < Ceiling /\ NewStage * MaxStageCost \in Int
    BY <1>1, StageFacts, CeilingAssumption
  <1>6. /\ EmissionCost(current, p) \in Int
        /\ ExtensionCost(model, current, p) \in Int
        /\ EmissionCost(current, p) <= current.distance + MaxStageCost
        /\ ExtensionCost(model, current, p) <= current.distance + MaxStageCost
    BY <1>1, <1>2, CostFacts
  <1>7. /\ EmissionCost(current, p) < Ceiling
        /\ ExtensionCost(model, current, p) <= NewStage * MaxStageCost
        /\ ExtensionCost(model, current, p) < Ceiling
    <2> DEFINE b == NewStage * MaxStageCost
    <2>1. /\ b \in Int /\ b < Ceiling /\ current.distance + MaxStageCost <= b
      BY <1>4, <1>5
    <2> HIDE DEF b
    <2>2. /\ EmissionCost(current, p) < Ceiling
          /\ ExtensionCost(model, current, p) <= b
          /\ ExtensionCost(model, current, p) < Ceiling
      BY <1>3, <1>6, <2>1, CeilingAssumption, OrdersAssumption
    <2> QED BY <2>2 DEF b
  <1>8. /\ IsState(Extended(p))
        /\ Extended(p).distance = ExtensionCost(model, current, p)
        /\ Len(Extended(p).ancestor) = NewStage
    BY <1>1, <1>2, <1>3, <1>6, ChildFacts DEF Extended, NewStage
  <1> QED BY <1>1, <1>2, <1>6, <1>7, <1>8

(* An extension is pruned only if a cheaper state is stored already.       *)
LEMMA PruneInv ==
  ASSUME Inv, NEW p, PruneOnEmission(p) \/ PruneOnTransition(p)
  PROVE  Inv'
  <1>1. /\ TypeOK /\ IsNext(p) /\ toTry' = toTry \ {p}
        /\ UNCHANGED <<model, stages, i, last, result, pc, new, best, toVisit, current>>
    BY DEF Inv, PruneOnEmission, PruneOnTransition, search
  <1>2. new # {}
    <2>1. EmissionCost(current, p) > best + Pruning
          \/ ExtensionCost(model, current, p) > best + Pruning
      BY DEF PruneOnEmission, PruneOnTransition, TooExpensive
    <2>2. best # Ceiling
      BY <1>1, <2>1, ExtensionFacts, OrdersAssumption
    <2> QED BY <2>2 DEF Inv, BestIsAttained
  <1>3. TypeOK'
    BY <1>1 DEF TypeOK
  <1> QED
    BY <1>1, <1>2, <1>3
    DEF Inv, TrellisNonEmpty, ResultCoversStages, BestIsAttained, WorkLeft,
        LastStage, NewStage, IsNext

LEMMA ExtendFacts ==
  ASSUME Inv, NEW p, Extend(p)
  PROVE  /\ IsNext(p) /\ TypeOK /\ pc = "search"
         /\ best \in Int /\ best' \in Int
         /\ best' <= best /\ best' <= Extended(p).distance
         /\ best' = best \/ best' = Extended(p).distance
         /\ new = {} => best' = Extended(p).distance
         /\ toTry' = toTry \ {p}
         /\ UNCHANGED <<model, stages, i, last, result, pc, toVisit, current>>
  <1>1. /\ IsNext(p) /\ TypeOK /\ pc = "search" /\ best \in Int
        /\ toTry' = toTry \ {p}
        /\ UNCHANGED <<model, stages, i, last, result, pc, toVisit, current>>
    BY DEF Inv, TypeOK, Extend, search, IsNext
  <1>2. best' = Lower(best, Extended(p).distance)
    BY <1>1, ExtensionFacts DEF Extend
  <1>3. Extended(p).distance \in Int /\ Extended(p).distance < Ceiling
    BY <1>1, ExtensionFacts
  <1>4. new = {} => best = Ceiling
    BY DEF Inv, BestIsAttained
  <1> QED BY <1>1, <1>2, <1>3, <1>4, OrdersAssumption DEF Lower

(* What remains to be shown of an extension, whatever it does to new.      *)
LEMMA NewStageInv ==
  ASSUME Inv, NEW p, Extend(p),
         \A s \in new' : /\ IsState(s)
                         /\ s.distance <= NewStage * MaxStageCost
                         /\ Len(s.ancestor) = NewStage,
         \E s \in new' : s.distance = best',
         \A s \in new' : best' <= s.distance
  PROVE  Inv'
  <1>1. TypeOK'
    BY ExtendFacts DEF TypeOK
  <1>2. LastStage' = LastStage /\ NewStage' = NewStage
    BY ExtendFacts DEF LastStage, NewStage
  <1>3. /\ Bounded(last', LastStage') /\ ChainsHaveLength(last', LastStage')
        /\ Bounded(new', NewStage') /\ ChainsHaveLength(new', NewStage')
    BY <1>2, ExtendFacts DEF Inv, Bounded, ChainsHaveLength
  <1>4. BestIsAttained' /\ WorkLeft'
    BY DEF BestIsAttained, WorkLeft
  <1> QED
    BY <1>1, <1>3, <1>4, ExtendFacts
    DEF Inv, TrellisNonEmpty, ResultCoversStages

LEMMA InsertStateInv ==
  ASSUME Inv, NEW p, InsertState(p)
  PROVE  Inv'
  <1>1. Extend(p) /\ new' = new \union {Extended(p)}
    BY DEF InsertState
  <1>2. IsNext(p)
    BY <1>1, ExtendFacts
  <1>3. \A s \in new' : /\ IsState(s)
                        /\ s.distance <= NewStage * MaxStageCost
                        /\ Len(s.ancestor) = NewStage
    BY <1>1, <1>2, ExtensionFacts DEF Inv, TypeOK, Bounded, ChainsHaveLength
  <1>4. \E s \in new' : s.distance = best'
    BY <1>1, ExtendFacts DEF Inv, BestIsAttained
  <1>5. \A s \in new' : best' <= s.distance
    BY <1>1, <1>2, ExtendFacts, ExtensionFacts DEF Inv, BestIsAttained, TypeOK, IsState
  <1> QED BY <1>1, <1>3, <1>4, <1>5, NewStageInv

LEMMA ImprovedFacts ==
  ASSUME NEW stored, NEW s, IsState(stored), IsState(s)
  PROVE  /\ IsState(Improved(stored, s))
         /\ Improved(stored, s).distance = s.distance
         /\ Improved(stored, s).ancestor = s.ancestor
  <1>1. /\ Improved(stored, s).history = stored.history
        /\ Improved(stored, s).distance = s.distance
        /\ Improved(stored, s).ancestor = s.ancestor
    BY DEF Improved, State
  <1> QED BY <1>1 DEF IsState, Improved

(* The stored state only ever gets cheaper, so that best stays attained.   *)
LEMMA ImproveStateInv ==
  ASSUME Inv, NEW p, ImproveState(p)
  PROVE  Inv'
  <1>1. Extend(p)
    BY DEF ImproveState
  <1>2. PICK stored \in new :
          /\ stored.distance > Extended(p).distance
          /\ new' = (new \ {stored}) \union {Improved(stored, Extended(p))}
    BY DEF ImproveState
  <1> DEFINE merged == Improved(stored, Extended(p))
  <1>3. IsNext(p)
    BY <1>1, ExtendFacts
  <1>4. IsState(stored) /\ IsState(Extended(p))
    BY <1>3, ExtensionFacts DEF Inv, TypeOK
  <1>5. /\ IsState(merged)
        /\ merged.distance = Extended(p).distance
        /\ merged.ancestor = Extended(p).ancestor
    BY <1>4, ImprovedFacts
  <1> HIDE DEF merged
  <1>6. new' = (new \ {stored}) \union {merged}
    BY <1>2 DEF merged
  <1>7. \A s \in new' : /\ IsState(s)
                        /\ s.distance <= NewStage * MaxStageCost
                        /\ Len(s.ancestor) = NewStage
    BY <1>3, <1>5, <1>6, ExtensionFacts DEF Inv, TypeOK, Bounded, ChainsHaveLength
  <1>8. /\ \E s \in new : s.distance = best
        /\ \A s \in new : best <= s.distance
    BY DEF Inv, BestIsAttained
  <1>9. \E s \in new' : s.distance = best'
    <2>1. CASE best' = Extended(p).distance
      BY <2>1, <1>5, <1>6
    <2>2. CASE best' = best
      <3>1. PICK s \in new : s.distance = best
        BY <1>8
      <3>2. s # stored
        BY <1>1, <1>2, <1>4, <2>2, <3>1, ExtendFacts DEF IsState
      <3> QED BY <1>6, <2>2, <3>1, <3>2
    <2> QED BY <1>1, <2>1, <2>2, ExtendFacts
  <1>10. \A s \in new' : best' <= s.distance
    BY <1>1, <1>5, <1>6, <1>8, ExtendFacts DEF Inv, TypeOK, IsState
  <1> QED BY <1>1, <1>7, <1>9, <1>10, NewStageInv

LEMMA KeepStoredInv ==
  ASSUME Inv, NEW p, KeepStored(p)
  PROVE  Inv'
  <1>1. Extend(p) /\ new' = new
    BY DEF KeepStored
  <1>2. PICK stored \in new : stored.distance <= Extended(p).distance
    BY DEF KeepStored
  <1>3. /\ \E s \in new : s.distance = best
        /\ \A s \in new : best <= s.distance
    BY <1>2 DEF Inv, BestIsAttained
  <1>4. IsState(stored) /\ IsState(Extended(p))
    BY <1>1, ExtendFacts, ExtensionFacts DEF Inv, TypeOK
  <1>5. best' = best
    BY <1>1, <1>2, <1>3, <1>4, ExtendFacts DEF IsState
  <1>6. \A s \in new' : /\ IsState(s)
                        /\ s.distance <= NewStage * MaxStageCost
                        /\ Len(s.ancestor) = NewStage
    BY <1>1 DEF Inv, TypeOK, Bounded, ChainsHaveLength
  <1> QED BY <1>1, <1>3, <1>5, <1>6, NewStageInv

-----------------------------------------------------------------------------
(* The end of a stage and of a sentence.                                   *)

LEMMA EndStageInv == Inv /\ EndStage => Inv'
  <1> SUFFICES ASSUME Inv, EndStage PROVE Inv'
    OBVIOUS
  <1>1. /\ TypeOK /\ pc = "search" /\ toTry = {} /\ toVisit = {}
        /\ UNCHANGED <<model, stages, current, toTry, result>>
    BY DEF Inv, EndStage
  <1>2. PICK cheapest \in new : cheapest.distance = best
    BY <1>1 DEF Inv, WorkLeft, BestIsAttained
  <1>3. cheapest \in Surviving(new, best)
    BY <1>2, OrdersAssumption DEF Surviving, Inv, TypeOK
  <1>4. last' # {} /\ last' \subseteq new
    <2>1. last' \in Beamed(Surviving(new, best))
      BY DEF EndStage
    <2>2. last' # {} /\ last' \subseteq Surviving(new, best)
      BY <1>3, <2>1, BeamedFacts
    <2> QED BY <2>2 DEF Surviving
  <1>5. /\ Bounded(last', NewStage) /\ ChainsHaveLength(last', NewStage)
        /\ \A s \in last' : IsState(s)
    BY <1>4 DEF Inv, TypeOK, Bounded, ChainsHaveLength
  <1>6. CASE i < Len(stages)
    <2>1. /\ i' = i + 1 /\ toVisit' = last' /\ new' = {} /\ best' = Ceiling
          /\ pc' = "search"
      BY <1>1, <1>6 DEF EndStage
    <2>2. LastStage' = NewStage
      BY <1>1, <2>1, StageFacts, OrdersAssumption DEF LastStage, NewStage
    <2>3. i' \in ModelOrder .. Len(stages')
      BY <1>1, <1>6, <2>1, StageFacts, OrdersAssumption
    <2>4. TypeOK'
      BY <1>1, <1>5, <2>1, <2>3, OrdersAssumption DEF TypeOK
    <2>5. /\ Bounded(last', LastStage') /\ ChainsHaveLength(last', LastStage')
          /\ Bounded(new', NewStage') /\ ChainsHaveLength(new', NewStage')
      BY <1>5, <2>1, <2>2 DEF Bounded, ChainsHaveLength
    <2> QED
      BY <1>1, <1>4, <2>1, <2>4, <2>5
      DEF Inv, TrellisNonEmpty, ResultCoversStages, BestIsAttained, WorkLeft
  <1>7. CASE ~(i < Len(stages))
    <2>1. pc' = "backtrack" /\ UNCHANGED <<i, toVisit, new, best>>
      BY <1>7 DEF EndStage
    <2>2. i = Len(stages)
      BY <1>1, <1>7, StageFacts
    <2>3. LastStage' = NewStage /\ NewStage' = NewStage
      BY <2>1 DEF LastStage, NewStage
    <2>4. TypeOK'
      BY <1>1, <1>5, <2>1 DEF TypeOK
    <2>5. /\ Bounded(last', LastStage') /\ ChainsHaveLength(last', LastStage')
          /\ Bounded(new', NewStage') /\ ChainsHaveLength(new', NewStage')
      BY <1>5, <2>1, <2>3 DEF Inv, Bounded, ChainsHaveLength
    <2> QED
      BY <1>1, <1>4, <2>1, <2>2, <2>4, <2>5
      DEF Inv, TrellisNonEmpty, ResultCoversStages, BestIsAttained, WorkLeft
  <1> QED BY <1>6, <1>7

LEMMA BacktrackInv == Inv /\ Backtrack => Inv'
  <1> SUFFICES ASSUME Inv, Backtrack PROVE Inv'
    OBVIOUS
  <1>1. /\ TypeOK /\ pc = "backtrack" /\ pc' = "done" /\ i = Len(stages)
        /\ UNCHANGED <<model, stages, i, last, new, best, toVisit, current, toTry>>
    BY DEF Inv, Backtrack
  <1>2. PICK s \in last : result' = Result(s)
    BY DEF Backtrack, Cheapest
  <1>3. IsState(s) /\ Len(s.ancestor) = NewStage
    BY <1>1, <1>2 DEF Inv, TypeOK, ChainsHaveLength, LastStage, NewStage
  <1> DEFINE n == IF ModelOrder > 1 THEN ModelOrder - 2 ELSE 0
             pad == Padding(n, SentenceStart)
  <1>4. n \in Nat
    BY OrdersAssumption
  <1>5. pad \in Seq(Possibility \union {Undefined}) /\ Len(pad) = n
    <2>1. SentenceStart \in Possibility \union {Undefined}
      BY DataAssumption
    <2> HIDE DEF n
    <2> QED BY <1>4, <2>1, PaddingFacts
  <1> HIDE DEF n, pad
  <1>6. /\ Chain(s) \in Seq(Possibility \union {Undefined})
        /\ Len(Chain(s)) = NewStage + 1
    BY <1>3, ChainFacts
  <1>7. Result(s) = pad \o Chain(s)
    BY DEF Result, pad, n
  <1>8. /\ result' \in Seq(Possibility \union {Undefined})
        /\ Len(result') = Len(pad) + Len(Chain(s))
    BY <1>2, <1>5, <1>6, <1>7, ConcatProperties
  <1>9. ModelOrder > 1 => Len(result') = Len(stages)
    BY <1>1, <1>5, <1>6, <1>8, StageFacts, OrdersAssumption DEF n, NewStage
  <1>10. TypeOK'
    BY <1>1, <1>8 DEF TypeOK
  <1>11. LastStage' = LastStage /\ NewStage' = NewStage
    BY <1>1 DEF LastStage, NewStage
  <1> QED
    BY <1>1, <1>9, <1>10, <1>11
    DEF Inv, TrellisNonEmpty, ResultCoversStages, BestIsAttained, WorkLeft,
        Bounded, ChainsHaveLength

LEMMA StutterInv == Inv /\ UNCHANGED vars => Inv'
  BY DEF Inv, vars, TypeOK, TrellisNonEmpty, ResultCoversStages, BestIsAttained,
         WorkLeft, LastStage, NewStage, Bounded, ChainsHaveLength

-----------------------------------------------------------------------------

LEMMA InvStep ==
  ASSUME Inv, [Next]_vars
  PROVE  Inv'
  <1>1. CASE VisitState
    BY <1>1, VisitStateInv
  <1>2. ASSUME NEW p \in toTry, TryPossibility(p) PROVE Inv'
    BY <1>2, PruneInv, InsertStateInv, ImproveStateInv, KeepStoredInv
    DEF TryPossibility
  <1>3. CASE EndStage
    BY <1>3, EndStageInv
  <1>4. CASE Backtrack
    BY <1>4, BacktrackInv
  <1>5. CASE NextSentence
    BY <1>5, NextSentenceInv
  <1>6. CASE UNCHANGED vars
    BY <1>6, StutterInv
  <1> QED BY <1>1, <1>2, <1>3, <1>4, <1>5, <1>6 DEF Next, Decode

LEMMA InvIsInvariant == Spec => []Inv
  <1>1. Init => Inv
    BY InitInv
  <1>2. Inv /\ [Next]_vars => Inv'
    BY InvStep
  <1> QED BY <1>1, <1>2, PTL DEF Spec

(* The decoder's variables always have the types the module declares: no   *)
(* stage index runs past the lattice, whatever is pruned.                  *)
THEOREM TypeCorrectness == Spec => []TypeOK
  BY InvIsInvariant, PTL DEF Inv

(* The assertions of decoder_base.cpp:124 and 209 cannot fail: for every   *)
(* beam, pruning constant, viterbi order and language model, however it    *)
(* was quantised, a sentence whose cost stays below the ceiling always has *)
(* a surviving state.                                                      *)
THEOREM TrellisNeverEmpty == Spec => []TrellisNonEmpty
  BY InvIsInvariant, PTL DEF Inv

(* The bound that prunes is the distance of the cheapest state of the      *)
(* stage and never an estimate.                                            *)
THEOREM BestAlwaysAttained == Spec => []BestIsAttained
  BY InvIsInvariant, PTL DEF Inv

(* The assertion of decoder_base.cpp:227 cannot fail for language models   *)
(* of order two or more.                                                   *)
THEOREM ResultAlwaysCovers ==
  ASSUME ModelOrder > 1
  PROVE  Spec => []ResultCoversStages
  <1>1. Inv => ResultCoversStages
    BY DEF Inv
  <1> QED BY <1>1, InvIsInvariant, PTL

LEMMA LeastExists ==
  ASSUME NEW S \in SUBSET Nat, S # {}
  PROVE  \E n \in S : \A k \in S : n <= k
  <1>1. IsWellFoundedOn({pair \in Nat \X Nat : pair[1] < pair[2]}, Nat)
    BY NatLessThanWellFounded DEF OpToRel
  <1>2. PICK least \in S : \A k \in S : <<k, least>> \notin {pair \in Nat \X Nat : pair[1] < pair[2]}
    <2>1. S \subseteq Nat /\ S # {}
      OBVIOUS
    <2> QED BY <1>1, <2>1, WFMin
  <1>3. ASSUME NEW k \in S
        PROVE  least <= k
    <2>1. least \in Nat /\ k \in Nat /\ <<k, least>> \in Nat \X Nat
      OBVIOUS
    <2>2. ~(k < least)
      BY <1>2, <2>1
    <2> QED BY <2>1, <2>2
  <1> QED BY <1>3

-----------------------------------------------------------------------------
(* The costs of paths.  CostsUpTo is a recursive function: there is one    *)
(* that satisfies its equation, and the equation says all about it.        *)

SumsUpTo(n, step, sums) ==
  sums = [k \in 0 .. n |-> IF k < ModelOrder THEN 0 ELSE sums[k - 1] + step[k]]

LEMMA SumsExist ==
  ASSUME NEW step, NEW n \in Nat
  PROVE  \E sums : SumsUpTo(n, step, sums)
  <1> DEFINE without == {k \in Nat : ~\E sums : SumsUpTo(k, step, sums)}
  <1> SUFFICES ASSUME without # {} PROVE FALSE
    OBVIOUS
  <1>1. PICK least \in without : \A k \in without : least <= k
    <2>1. without \in SUBSET Nat
      OBVIOUS
    <2> HIDE DEF without
    <2> QED BY <2>1, LeastExists
  <1>2. least \in Nat /\ ~\E sums : SumsUpTo(least, step, sums)
    BY <1>1
  <1>3. least # 0
    <2>1. SumsUpTo(0, step, [k \in 0 .. 0 |-> 0])
      BY OrdersAssumption DEF SumsUpTo
    <2> QED BY <1>2, <2>1
  <1>4. PICK shorter : SumsUpTo(least - 1, step, shorter)
    <2>1. least - 1 \in Nat /\ least - 1 < least
      BY <1>2, <1>3
    <2>2. least - 1 \notin without
      BY <1>1, <2>1
    <2> QED BY <2>1, <2>2
  <1> DEFINE longer == [k \in 0 .. least |->
                          IF k < ModelOrder THEN 0 ELSE shorter[k - 1] + step[k]]
  <1>5. ASSUME NEW k \in 0 .. least - 1
        PROVE  longer[k] = shorter[k]
    <2>1. shorter[k] = IF k < ModelOrder THEN 0 ELSE shorter[k - 1] + step[k]
      BY <1>4 DEF SumsUpTo
    <2>2. k \in 0 .. least
      BY <1>2
    <2> QED BY <2>1, <2>2
  <1>6. ASSUME NEW k \in 0 .. least, ~(k < ModelOrder)
        PROVE  longer[k] = longer[k - 1] + step[k]
    <2>1. k - 1 \in 0 .. least - 1
      BY <1>2, <1>6, OrdersAssumption
    <2>2. longer[k - 1] = shorter[k - 1]
      BY <1>5, <2>1
    <2> QED BY <1>6, <2>2
  <1>7. SumsUpTo(least, step, longer)
    BY <1>6 DEF SumsUpTo
  <1> QED BY <1>2, <1>7

LEMMA CostsUpToEquation ==
  ASSUME NEW m, NEW path \in Seq(Possibility)
  PROVE  CostsUpTo(m, path) =
           [k \in 0 .. Len(path) |->
              IF k < ModelOrder THEN 0
              ELSE CostsUpTo(m, path)[k - 1] + StepCost(m, path, k)]
  <1> DEFINE step == [k \in 0 .. Len(path) |-> StepCost(m, path, k)]
             IsCosts(sums) ==
               sums = [k \in 0 .. Len(path) |->
                         IF k < ModelOrder THEN 0
                         ELSE sums[k - 1] + StepCost(m, path, k)]
  <1>1. PICK sums : SumsUpTo(Len(path), step, sums)
    <2>1. Len(path) \in Nat
      BY LenProperties
    <2> HIDE DEF step
    <2> QED BY <2>1, SumsExist
  <1>2. IsCosts(sums)
    <2>1. [k \in 0 .. Len(path) |-> IF k < ModelOrder THEN 0 ELSE sums[k - 1] + step[k]]
           = [k \in 0 .. Len(path) |->
                         IF k < ModelOrder THEN 0
                         ELSE sums[k - 1] + StepCost(m, path, k)]
      OBVIOUS
    <2> QED BY <1>1, <2>1 DEF SumsUpTo
  <1>3. IsCosts(CHOOSE upTo : IsCosts(upTo))
    <2> HIDE DEF IsCosts
    <2> QED BY <1>2
  <1>4. CostsUpTo(m, path) = CHOOSE upTo : IsCosts(upTo)
    BY DEF CostsUpTo
  <1> QED BY <1>3, <1>4

LEMMA StepCostFacts ==
  ASSUME NEW m \in Models, NEW path \in Seq(Possibility),
         NEW k \in ModelOrder .. Len(path)
  PROVE  /\ PathGram(path, k) \in [1 .. ModelOrder -> Ids]
         /\ StepCost(m, path, k) \in Int
         /\ StepCost(m, path, k) <= MaxStageCost
  <1>1. PathGram(path, k) \in [1 .. ModelOrder -> Ids]
    <2>1. ASSUME NEW j \in 1 .. ModelOrder
          PROVE  UniqueId[path[k - ModelOrder + j]] \in Ids
      <3>1. k - ModelOrder + j \in 1 .. Len(path)
        BY OrdersAssumption, LenProperties
      <3>2. path[k - ModelOrder + j] \in Possibility
        BY <3>1, ElementOfSeq
      <3> QED BY <3>2 DEF Ids
    <2> QED BY <2>1 DEF PathGram
  <1>2. path[k] \in Possibility
    <2>1. k \in 1 .. Len(path)
      BY OrdersAssumption, LenProperties
    <2> QED BY <2>1, ElementOfSeq
  <1>3. Emission[path[k]] \in Nat /\ Transition(m, PathGram(path, k)) \in Int
    BY <1>1, <1>2, DataAssumption, TransitionAssumption
  <1>4. Emission[path[k]] + Transition(m, PathGram(path, k)) <= MaxStageCost
    BY <1>1, <1>2, CeilingAssumption
  <1> QED BY <1>1, <1>3, <1>4 DEF StepCost

LEMMA PathCostStart ==
  ASSUME NEW m, NEW path \in Seq(Possibility), Len(path) < ModelOrder
  PROVE  PathCost(m, path) = 0
  <1>1. Len(path) \in 0 .. Len(path)
    BY LenProperties
  <1> QED BY <1>1, CostsUpToEquation DEF PathCost

(* The costs up to a place do not depend on what follows it.               *)
LEMMA CostsOfPrefix ==
  ASSUME NEW m, NEW path \in Seq(Possibility), NEW p \in Possibility,
         NEW n \in 0 .. Len(path)
  PROVE  CostsUpTo(m, Append(path, p))[n] = CostsUpTo(m, path)[n]
  <1> DEFINE longer == Append(path, p)
             other == {k \in 0 .. Len(path) :
                         CostsUpTo(m, longer)[k] # CostsUpTo(m, path)[k]}
  <1> SUFFICES ASSUME other # {} PROVE FALSE
    OBVIOUS
  <1>1. /\ longer \in Seq(Possibility) /\ Len(longer) = Len(path) + 1
        /\ \A k \in 1 .. Len(path) : longer[k] = path[k]
        /\ Len(path) \in Nat
    BY AppendProperties, LenProperties
  <1> HIDE DEF longer
  <1>2. PICK least \in other : \A k \in other : least <= k
    <2>1. other \in SUBSET Nat
      BY <1>1
    <2> HIDE DEF other
    <2> QED BY <2>1, LeastExists
  <1>3. least \in 0 .. Len(path) /\ least \in 0 .. Len(longer)
    BY <1>1
  <1>4. ~(least < ModelOrder)
    <2>1. SUFFICES ASSUME least < ModelOrder PROVE FALSE
      OBVIOUS
    <2>2. CostsUpTo(m, longer)[least] = 0 /\ CostsUpTo(m, path)[least] = 0
      BY <1>1, <1>3, <2>1, CostsUpToEquation
    <2> QED BY <2>2
  <1>5. CostsUpTo(m, longer)[least - 1] = CostsUpTo(m, path)[least - 1]
    <2>1. least - 1 \in 0 .. Len(path) /\ least - 1 < least
      BY <1>1, <1>3, <1>4, OrdersAssumption
    <2>2. least - 1 \notin other
      BY <1>2, <2>1
    <2> QED BY <2>1, <2>2
  <1>6. StepCost(m, longer, least) = StepCost(m, path, least)
    <2>1. ASSUME NEW j \in 1 .. ModelOrder
          PROVE  longer[least - ModelOrder + j] = path[least - ModelOrder + j]
      <3>1. least - ModelOrder + j \in 1 .. Len(path)
        BY <1>1, <1>3, <1>4, OrdersAssumption
      <3> QED BY <1>1, <3>1
    <2>2. PathGram(longer, least) = PathGram(path, least)
      BY <2>1 DEF PathGram
    <2>3. longer[least] = path[least]
      BY <1>1, <1>3, <1>4, OrdersAssumption
    <2> QED BY <2>2, <2>3 DEF StepCost
  <1>7. /\ CostsUpTo(m, longer)[least]
           = CostsUpTo(m, longer)[least - 1] + StepCost(m, longer, least)
        /\ CostsUpTo(m, path)[least]
           = CostsUpTo(m, path)[least - 1] + StepCost(m, path, least)
    BY <1>1, <1>3, <1>4, CostsUpToEquation
  <1> QED BY <1>5, <1>6, <1>7

(* Each possibility adds what its step costs.                              *)
LEMMA PathCostStep ==
  ASSUME NEW m, NEW path \in Seq(Possibility), NEW p \in Possibility,
         Len(path) + 1 >= ModelOrder
  PROVE  PathCost(m, Append(path, p))
           = PathCost(m, path) + StepCost(m, Append(path, p), Len(path) + 1)
  <1> DEFINE longer == Append(path, p)
             n == Len(path) + 1
  <1>1. longer \in Seq(Possibility) /\ Len(longer) = n /\ Len(path) \in Nat
    BY AppendProperties, LenProperties
  <1>2. Len(path) \in 0 .. Len(path) /\ n \in 0 .. n /\ n - 1 = Len(path)
        /\ ~(n < ModelOrder)
    BY <1>1, OrdersAssumption
  <1>3. CostsUpTo(m, longer)[n - 1] = CostsUpTo(m, path)[Len(path)]
    BY <1>2, CostsOfPrefix
  <1> HIDE DEF longer, n
  <1>4. CostsUpTo(m, longer)[n]
          = CostsUpTo(m, longer)[n - 1] + StepCost(m, longer, n)
    <2>1. CostsUpTo(m, longer)
            = [k \in 0 .. n |-> IF k < ModelOrder THEN 0
                               ELSE CostsUpTo(m, longer)[k - 1] + StepCost(m, longer, k)]
      BY <1>1, CostsUpToEquation
    <2> QED BY <1>2, <2>1
  <1> QED BY <1>1, <1>3, <1>4 DEF PathCost, longer, n

-----------------------------------------------------------------------------
(* The path that leads to a state, for language models of order two or     *)
(* more: what comes before its youngest possibility is fixed when the      *)
(* state is made, and the state's history is the end of it.                *)

Before(s) == Padding(ModelOrder - 2, SentenceStart) \o s.ancestor

(* The path to s ends at stage e of the lattice and keeps to its stages.   *)
FollowsStages(lattice, s, e) ==
  /\ Len(s.history) = ModelOrder - 1
  /\ Len(Before(s)) = e - 1
  /\ \A j \in 1 .. ModelOrder - 1 : s.history[j] \in lattice[e - ModelOrder + 1 + j]
  /\ \A k \in 1 .. e - 1 : Before(s)[k] \in lattice[k]

LEMMA ConcatAppend ==
  ASSUME NEW S, NEW a \in Seq(S), NEW b \in Seq(S), NEW x \in S
  PROVE  a \o Append(b, x) = Append(a \o b, x)
  <1> DEFINE left == a \o Append(b, x)
             right == Append(a \o b, x)
  <1>1. /\ Append(b, x) \in Seq(S) /\ Len(Append(b, x)) = Len(b) + 1
        /\ \A k \in 1 .. Len(b) : Append(b, x)[k] = b[k]
        /\ Append(b, x)[Len(b) + 1] = x
        /\ Len(a) \in Nat /\ Len(b) \in Nat
    BY AppendProperties, LenProperties
  <1>2. /\ left \in Seq(S) /\ Len(left) = Len(a) + Len(b) + 1
        /\ \A k \in 1 .. Len(a) + Len(b) + 1 :
             left[k] = IF k <= Len(a) THEN a[k] ELSE Append(b, x)[k - Len(a)]
    BY <1>1, ConcatProperties
  <1>3. /\ a \o b \in Seq(S) /\ Len(a \o b) = Len(a) + Len(b)
        /\ \A k \in 1 .. Len(a) + Len(b) :
             (a \o b)[k] = IF k <= Len(a) THEN a[k] ELSE b[k - Len(a)]
    BY ConcatProperties
  <1>4. /\ right \in Seq(S) /\ Len(right) = Len(a) + Len(b) + 1
        /\ \A k \in 1 .. Len(a) + Len(b) : right[k] = (a \o b)[k]
        /\ right[Len(a) + Len(b) + 1] = x
    BY <1>3, AppendProperties
  <1> HIDE DEF left, right
  <1>5. ASSUME NEW k \in 1 .. Len(left)
        PROVE  left[k] = right[k]
    <2>1. CASE k = Len(a) + Len(b) + 1
      <3>1. k - Len(a) = Len(b) + 1 /\ ~(k <= Len(a)) /\ k \in 1 .. Len(a) + Len(b) + 1
        BY <1>1, <2>1
      <3> QED BY <1>1, <1>2, <1>4, <2>1, <3>1
    <2>2. CASE k <= Len(a)
      <3>1. k \in 1 .. Len(a) + Len(b) /\ k \in 1 .. Len(a) + Len(b) + 1
        BY <1>1, <1>2, <2>2
      <3> QED BY <1>2, <1>3, <1>4, <2>2, <3>1
    <2>3. CASE ~(k <= Len(a)) /\ k # Len(a) + Len(b) + 1
      <3>1. /\ k - Len(a) \in 1 .. Len(b) /\ k \in 1 .. Len(a) + Len(b)
            /\ k \in 1 .. Len(a) + Len(b) + 1
        BY <1>1, <1>2, <2>3
      <3> QED BY <1>1, <1>2, <1>3, <1>4, <2>3, <3>1
    <2> QED BY <2>1, <2>2, <2>3
  <1>6. left = right
    BY <1>2, <1>4, <1>5, SeqEqual
  <1> QED BY <1>6 DEF left, right

LEMMA ResultFacts ==
  ASSUME ModelOrder > 1, NEW lattice \in Sentence,
         NEW e \in ModelOrder - 1 .. Len(lattice),
         NEW s, IsState(s), FollowsStages(lattice, s, e)
  PROVE  /\ Before(s) \in Seq(Possibility) /\ Len(Before(s)) = e - 1
         /\ s.history # <<>> /\ YoungestHistory(s) = s.history[ModelOrder - 1]
         /\ s.history[ModelOrder - 1] \in lattice[e]
         /\ s.history[ModelOrder - 1] \in Possibility
         /\ Result(s) = Append(Before(s), s.history[ModelOrder - 1])
         /\ Result(s) \in Seq(Possibility) /\ Len(Result(s)) = e
         /\ \A k \in 1 .. e : Result(s)[k] \in lattice[k]
         /\ \A k \in 1 .. e - 1 : Result(s)[k] = Before(s)[k]
         /\ Result(s)[e] = s.history[ModelOrder - 1]
  <1> DEFINE M == ModelOrder
             U == Possibility \union {Undefined}
             pad == Padding(M - 2, SentenceStart)
             young == s.history[M - 1]
  <1>1. /\ M \in Nat /\ M - 1 \in 1 .. M - 1 /\ e \in Nat /\ e \in 1 .. e
        /\ e - 1 \in Nat /\ Len(lattice) \in Nat
    BY OrdersAssumption, SentenceFacts
  <1>2. s.history \in Seq(Possibility) /\ s.ancestor \in Seq(U)
    BY DEF IsState
  <1>3. pad \in Seq(U)
    BY <1>1, DataAssumption, PaddingFacts
  <1>4. Before(s) \in Seq(U) /\ Len(Before(s)) = e - 1
    BY <1>2, <1>3, ConcatProperties DEF Before, FollowsStages
  <1>5. Before(s) \in Seq(Possibility)
    <2>1. ASSUME NEW k \in 1 .. e - 1
          PROVE  Before(s)[k] \in Possibility
      <3>1. k \in 1 .. Len(lattice)
        BY <1>1
      <3> QED BY <3>1, SentenceFacts DEF FollowsStages
    <2>2. Before(s) \in [1 .. e - 1 -> Possibility]
      BY <1>4, <2>1, LenProperties
    <2> QED BY <1>1, <2>2, SeqDef
  <1>6. s.history # <<>> /\ YoungestHistory(s) = young
    BY <1>1, <1>2, EmptySeq DEF FollowsStages, YoungestHistory
  <1>7. young \in lattice[e] /\ young \in Possibility
    <2>1. e - M + 1 + (M - 1) = e
      BY <1>1
    <2>2. young \in lattice[e]
      BY <1>1, <2>1 DEF FollowsStages
    <2>3. e \in 1 .. Len(lattice)
      BY <1>1
    <2> QED BY <2>2, <2>3, SentenceFacts
  <1>8. Result(s) = Append(Before(s), young)
    <2>1. Result(s) = pad \o Append(s.ancestor, young)
      BY <1>6 DEF Result, Chain
    <2>2. pad \o Append(s.ancestor, young) = Append(pad \o s.ancestor, young)
      <3>1. young \in U
        BY <1>7
      <3> HIDE DEF pad, young, U
      <3> QED BY <1>2, <1>3, <3>1, ConcatAppend
    <2> QED BY <2>1, <2>2 DEF Before
  <1> HIDE DEF young
  <1>9. /\ Result(s) \in Seq(Possibility) /\ Len(Result(s)) = e
        /\ \A k \in 1 .. e - 1 : Result(s)[k] = Before(s)[k]
        /\ Result(s)[e] = young
    <2>1. Len(Before(s)) + 1 = e
      BY <1>1, <1>4
    <2> QED BY <1>4, <1>5, <1>7, <1>8, <2>1, AppendProperties
  <1>10. ASSUME NEW k \in 1 .. e
         PROVE  Result(s)[k] \in lattice[k]
    <2>1. CASE k = e
      BY <1>7, <1>9, <2>1
    <2>2. CASE k # e
      <3>1. k \in 1 .. e - 1
        BY <1>1, <2>2
      <3> QED BY <1>9, <3>1 DEF FollowsStages
    <2> QED BY <2>1, <2>2
  <1> QED BY <1>4, <1>5, <1>6, <1>7, <1>8, <1>9, <1>10 DEF young

(* Extending a state extends its path.                                     *)
LEMMA ChildFollows ==
  ASSUME ModelOrder > 1, NEW lattice \in Sentence,
         NEW e \in ModelOrder - 1 .. Len(lattice), e + 1 <= Len(lattice),
         NEW s, IsState(s), FollowsStages(lattice, s, e),
         NEW p \in lattice[e + 1], NEW cost
  PROVE  /\ FollowsStages(lattice, Child(s, p, cost), e + 1)
         /\ p \in Possibility
         /\ Before(Child(s, p, cost)) = Result(s)
         /\ Child(s, p, cost).history = Append(Tail(s.history), p)
         /\ Child(s, p, cost).distance = cost
         /\ \A j \in 1 .. ModelOrder - 2 :
              Child(s, p, cost).history[j] = s.history[j + 1]
         /\ Child(s, p, cost).history[ModelOrder - 1] = p
  <1> DEFINE child == Child(s, p, cost)
  <1>1. ModelOrder \in Nat /\ ModelOrder > 1 /\ e \in Nat /\ Len(lattice) \in Nat
    BY OrdersAssumption, SentenceFacts
  <1>2. s.history \in Seq(Possibility) /\ s.history # <<>> /\ Len(s.history) = ModelOrder - 1
    BY ResultFacts DEF IsState, FollowsStages
  <1>3. p \in Possibility
    <2>1. e + 1 \in 1 .. Len(lattice)
      BY <1>1
    <2> QED BY <2>1, SentenceFacts
  <1>4. child = State(Append(Tail(s.history), p), cost, Chain(s))
    BY <1>2 DEF Child
  <1>5. /\ child.history = Append(Tail(s.history), p) /\ child.distance = cost
        /\ child.ancestor = Chain(s)
    BY <1>4 DEF State
  <1> HIDE DEF child
  <1>6. Before(child) = Result(s)
    BY <1>1, <1>5 DEF Before, Result
  <1>7. /\ Tail(s.history) \in Seq(Possibility)
        /\ Len(Tail(s.history)) = ModelOrder - 2
        /\ \A j \in 1 .. ModelOrder - 2 : Tail(s.history)[j] = s.history[j + 1]
    BY <1>1, <1>2, HeadTailProperties
  <1>8. /\ Len(child.history) = ModelOrder - 1
        /\ \A j \in 1 .. ModelOrder - 2 : child.history[j] = s.history[j + 1]
        /\ child.history[ModelOrder - 1] = p
    <2>1. ModelOrder - 2 + 1 = ModelOrder - 1
      BY <1>1
    <2> QED BY <1>3, <1>5, <1>7, <2>1, AppendProperties
  <1>9. ASSUME NEW j \in 1 .. ModelOrder - 1
        PROVE  child.history[j] \in lattice[e + 1 - ModelOrder + 1 + j]
    <2>1. CASE j = ModelOrder - 1
      <3>1. e + 1 - ModelOrder + 1 + j = e + 1
        BY <1>1, <2>1
      <3> QED BY <1>8, <2>1, <3>1
    <2>2. CASE j # ModelOrder - 1
      <3>1. j \in 1 .. ModelOrder - 2 /\ j + 1 \in 1 .. ModelOrder - 1
            /\ e + 1 - ModelOrder + 1 + j = e - ModelOrder + 1 + (j + 1)
        BY <1>1, <2>2
      <3>2. child.history[j] = s.history[j + 1]
        BY <1>8, <3>1
      <3> QED BY <3>1, <3>2 DEF FollowsStages
    <2> QED BY <2>1, <2>2
  <1>10. /\ Len(Before(child)) = e + 1 - 1
         /\ \A k \in 1 .. e + 1 - 1 : Before(child)[k] \in lattice[k]
    <2>1. e + 1 - 1 = e
      BY <1>1
    <2> QED BY <1>6, <2>1, ResultFacts
  <1>11. FollowsStages(lattice, child, e + 1)
    <2> DEFINE n == e + 1
    <2>1. Len(child.history) = ModelOrder - 1
      BY <1>8
    <2>2. Len(Before(child)) = n - 1
      BY <1>10
    <2>3. \A j \in 1 .. ModelOrder - 1 : child.history[j] \in lattice[n - ModelOrder + 1 + j]
      BY <1>1, <1>9
    <2>4. \A k \in 1 .. n - 1 : Before(child)[k] \in lattice[k]
      BY <1>10
    <2> HIDE DEF n
    <2>5. FollowsStages(lattice, child, n)
      BY <2>1, <2>2, <2>3, <2>4 DEF FollowsStages
    <2> QED BY <2>5 DEF n
  <1> QED BY <1>3, <1>5, <1>6, <1>8, <1>11 DEF child

-----------------------------------------------------------------------------
(* Where a path begins, and what a merged state's path is.                 *)

LEMMA LatticeStart ==
  ASSUME NEW lattice \in Sentence, NEW k \in 1 .. ModelOrder - 1
  PROVE  lattice[k] = {SentenceStart}
  <1>1. PICK inner \in Sentences : lattice = StagePossibilities(inner)
    BY DEF Sentence
  <1> DEFINE pad == Padding(ModelOrder - 1, {SentenceStart})
             end == <<{SentenceEnd}>>
  <1>2. /\ pad \in Seq(Stage) /\ Len(pad) = ModelOrder - 1 /\ pad[k] = {SentenceStart}
    <2>1. {SentenceStart} \in Stage /\ ModelOrder - 1 \in Nat
      BY OrdersAssumption, DataAssumption DEF Stage
    <2> QED BY <2>1, PaddingFacts
  <1>3. inner \in Seq(Stage) /\ end \in Seq(Stage)
    BY LatticeFacts, DataAssumption DEF Stage
  <1>4. lattice = (pad \o inner) \o end
    BY <1>1 DEF StagePossibilities
  <1> HIDE DEF pad, end
  <1>5. /\ pad \o inner \in Seq(Stage)
        /\ Len(pad \o inner) = ModelOrder - 1 + Len(inner)
        /\ Len(inner) \in Nat /\ Len(end) \in Nat
        /\ (pad \o inner)[k] = pad[k]
    <2>1. Len(inner) \in Nat /\ Len(end) \in Nat
      BY <1>3, LenProperties
    <2>2. k \in 1 .. Len(pad) + Len(inner) /\ k <= Len(pad)
      BY <1>2, <2>1, OrdersAssumption
    <2> QED BY <1>2, <1>3, <2>1, <2>2, ConcatProperties
  <1>6. k \in 1 .. Len(pad \o inner) + Len(end) /\ k <= Len(pad \o inner)
    BY <1>5, OrdersAssumption
  <1> QED BY <1>2, <1>3, <1>4, <1>5, <1>6, ConcatProperties

LEMMA InitialStateFollows ==
  ASSUME ModelOrder > 1, NEW lattice \in Sentence
  PROVE  FollowsStages(lattice, InitialState, ModelOrder - 1)
  <1> DEFINE e == ModelOrder - 1
  <1>1. /\ ModelOrder \in Nat /\ ModelOrder - 2 \in Nat /\ e \in Nat
        /\ SentenceStart \in Possibility
    BY OrdersAssumption, DataAssumption
  <1>2. /\ InitialState.history = Padding(e, SentenceStart)
        /\ InitialState.ancestor = <<>>
    BY DEF InitialState, State
  <1>3. /\ Len(InitialState.history) = e
        /\ \A j \in 1 .. e : InitialState.history[j] = SentenceStart
    BY <1>1, <1>2, PaddingFacts
  <1>4. /\ Len(Before(InitialState)) = e - 1
        /\ \A k \in 1 .. e - 1 : Before(InitialState)[k] = SentenceStart
    <2> DEFINE pad == Padding(ModelOrder - 2, SentenceStart)
    <2>1. /\ pad \in Seq(Possibility) /\ Len(pad) = ModelOrder - 2
          /\ \A k \in 1 .. ModelOrder - 2 : pad[k] = SentenceStart
      BY <1>1, PaddingFacts
    <2>2. Before(InitialState) = pad \o <<>>
      BY <1>2 DEF Before
    <2> HIDE DEF pad
    <2>3. Before(InitialState) = pad
      BY <2>1, <2>2, ConcatEmptySeq
    <2> QED BY <1>1, <2>1, <2>3
  <1>5. ASSUME NEW j \in 1 .. e
        PROVE  InitialState.history[j] \in lattice[e - ModelOrder + 1 + j]
    <2>1. e - ModelOrder + 1 + j = j
      BY <1>1
    <2> QED BY <1>3, <2>1, LatticeStart
  <1>6. ASSUME NEW k \in 1 .. e - 1
        PROVE  Before(InitialState)[k] \in lattice[k]
    <2>1. k \in 1 .. e
      BY <1>1
    <2> QED BY <1>4, <2>1, LatticeStart
  <1> QED BY <1>1, <1>3, <1>4, <1>5, <1>6 DEF FollowsStages

(* A merged state takes its history from one state and its ancestors from  *)
(* the other; both end at the same stage.                                  *)
LEMMA ImprovedFollows ==
  ASSUME NEW lattice, NEW e, NEW stored, NEW s,
         FollowsStages(lattice, stored, e), FollowsStages(lattice, s, e)
  PROVE  FollowsStages(lattice, Improved(stored, s), e)
  <1>1. /\ Improved(stored, s).history = stored.history
        /\ Improved(stored, s).ancestor = s.ancestor
    BY DEF Improved, State
  <1>2. Before(Improved(stored, s)) = Before(s)
    BY <1>1 DEF Before
  <1> QED BY <1>1, <1>2 DEF FollowsStages

-----------------------------------------------------------------------------
(* What a step does to the two stages.                                     *)

(* The stage of the lattice at which the paths to the last states end.     *)
LastEnd == IF pc = "search" THEN i - 1 ELSE i

StartsSentence ==
  /\ stages' \in Sentence /\ i' = ModelOrder /\ pc' = "search"
  /\ last' = {InitialState} /\ new' = {} /\ result' = <<>>

LeavesStages == UNCHANGED <<model, stages, i, last, new, result, pc>>

(* current is extended by p.                                               *)
Adds(p) ==
  /\ new' = new \union {Extended(p)}
  /\ UNCHANGED <<model, stages, i, last, result, pc>>

Merges(stored, p) ==
  /\ stored \in new /\ Equals(stored, Extended(p))
  /\ new' = (new \ {stored}) \union {Improved(stored, Extended(p))}
  /\ UNCHANGED <<model, stages, i, last, result, pc>>

AdvancesStage ==
  /\ pc = "search" /\ last' \subseteq new
  /\ LastEnd' = i
  /\ new' = {} \/ (new' = new /\ i' = i)
  /\ pc' # "done"
  /\ UNCHANGED <<model, stages, result>>

Answers ==
  /\ pc = "backtrack" /\ i = Len(stages) /\ pc' = "done"
  /\ \E s \in Cheapest(last) : result' = Result(s)
  /\ UNCHANGED <<model, stages, i, last, new>>

LEMMA StepShape ==
  ASSUME Inv, [Next]_vars
  PROVE  \/ StartsSentence /\ UNCHANGED model
         \/ LeavesStages
         \/ \E p : IsNext(p) /\ Adds(p)
         \/ \E p : IsNext(p) /\ \E stored : Merges(stored, p)
         \/ AdvancesStage
         \/ Answers
  <1>1. CASE NextSentence
    BY <1>1 DEF NextSentence, StartsSentence, Sentence
  <1>2. CASE VisitState
    BY <1>2 DEF VisitState, search, LeavesStages
  <1>3. ASSUME NEW p \in toTry, TryPossibility(p)
        PROVE  LeavesStages \/ (IsNext(p) /\ (Adds(p) \/ \E stored : Merges(stored, p)))
    <2>1. CASE PruneOnEmission(p) \/ PruneOnTransition(p)
      BY <2>1 DEF PruneOnEmission, PruneOnTransition, search, LeavesStages
    <2>2. CASE InsertState(p)
      BY <2>2 DEF InsertState, Extend, search, Adds
    <2>3. CASE ImproveState(p)
      BY <2>3 DEF ImproveState, Extend, search, Merges
    <2>4. CASE KeepStored(p)
      BY <2>4 DEF KeepStored, Extend, search, LeavesStages
    <2> QED BY <1>3, <2>1, <2>2, <2>3, <2>4 DEF TryPossibility
  <1>4. CASE EndStage
    <2>1. TypeOK /\ pc = "search" /\ toTry = {} /\ toVisit = {}
      BY <1>4 DEF Inv, EndStage
    <2>2. PICK cheapest \in new : cheapest.distance = best
      BY <2>1 DEF Inv, WorkLeft, BestIsAttained
    <2>3. cheapest \in Surviving(new, best)
      BY <2>1, <2>2, OrdersAssumption DEF Surviving, TypeOK
    <2>4. last' \subseteq new
      <3>1. last' \in Beamed(Surviving(new, best))
        BY <1>4 DEF EndStage
      <3>2. last' \subseteq Surviving(new, best)
        BY <2>3, <3>1, BeamedFacts
      <3> QED BY <3>2 DEF Surviving
    <2>5. i \in Int
      BY <2>1, StageFacts
    <2> QED BY <1>4, <2>1, <2>4, <2>5 DEF EndStage, AdvancesStage, LastEnd
  <1>5. CASE Backtrack
    BY <1>5 DEF Backtrack, Answers, Inv
  <1>6. CASE UNCHANGED vars
    BY <1>6 DEF vars, LeavesStages
  <1> QED BY <1>1, <1>2, <1>3, <1>4, <1>5, <1>6 DEF Next, Decode

-----------------------------------------------------------------------------
(* Every state keeps to the stages of the sentence.                        *)

FollowInv ==
  /\ \A s \in last : FollowsStages(stages, s, LastEnd)
  /\ \A s \in new : FollowsStages(stages, s, i)
  /\ pc = "done" => \A k \in 1 .. Len(stages) : result[k] \in stages[k]

LEMMA EndFacts ==
  ASSUME Inv, ModelOrder > 1
  PROVE  /\ stages \in Sentence /\ model \in Models
         /\ i \in ModelOrder .. Len(stages) /\ i \in Nat /\ Len(stages) \in Nat
         /\ i \in ModelOrder - 1 .. Len(stages)
         /\ LastEnd \in ModelOrder - 1 .. Len(stages)
         /\ pc = "search" => LastEnd + 1 = i
  BY StageFacts, OrdersAssumption DEF Inv, TypeOK, LastEnd

LEMMA ExtendedFollows ==
  ASSUME Inv, ModelOrder > 1, FollowInv, NEW p, IsNext(p)
  PROVE  FollowsStages(stages, Extended(p), i)
  <1>1. pc = "search" /\ p \in stages[i] /\ current \in last /\ IsState(current)
    BY DEF IsNext, Inv, TypeOK
  <1>2. FollowsStages(stages, current, LastEnd) /\ LastEnd + 1 = i /\ i <= Len(stages)
    BY <1>1, EndFacts DEF FollowInv
  <1>3. p \in stages[LastEnd + 1] /\ LastEnd + 1 <= Len(stages)
    BY <1>1, <1>2
  <1>4. FollowsStages(stages, Extended(p), LastEnd + 1)
    BY <1>1, <1>2, <1>3, EndFacts, ChildFollows DEF Extended
  <1> QED BY <1>2, <1>4

LEMMA FollowStep ==
  ASSUME Inv, ModelOrder > 1, FollowInv, [Next]_vars
  PROVE  FollowInv'
  <1>1. CASE StartsSentence
    <2>1. LastEnd' = ModelOrder - 1
      BY <1>1, OrdersAssumption DEF StartsSentence, LastEnd
    <2>2. FollowsStages(stages', InitialState, ModelOrder - 1)
      BY <1>1, InitialStateFollows DEF StartsSentence
    <2> QED BY <1>1, <2>1, <2>2 DEF StartsSentence, FollowInv
  <1>2. CASE LeavesStages
    BY <1>2 DEF LeavesStages, FollowInv, LastEnd
  <1>3. ASSUME NEW p, IsNext(p), Adds(p) PROVE FollowInv'
    <2>1. FollowsStages(stages, Extended(p), i)
      BY <1>3, ExtendedFollows
    <2>2. pc = "search"
      BY <1>3 DEF IsNext
    <2> QED BY <1>3, <2>1, <2>2 DEF Adds, FollowInv, LastEnd
  <1>4. ASSUME NEW p, IsNext(p), NEW stored, Merges(stored, p) PROVE FollowInv'
    <2>1. FollowsStages(stages, Improved(stored, Extended(p)), i)
      BY <1>4, ExtendedFollows, ImprovedFollows DEF Merges, FollowInv
    <2>2. pc = "search"
      BY <1>4 DEF IsNext
    <2> QED BY <1>4, <2>1, <2>2 DEF Merges, FollowInv, LastEnd
  <1>5. CASE AdvancesStage
    BY <1>5 DEF AdvancesStage, FollowInv
  <1>6. CASE Answers
    <2>1. PICK s \in last : result' = Result(s)
      BY <1>6 DEF Answers, Cheapest
    <2>2. /\ IsState(s) /\ FollowsStages(stages, s, LastEnd) /\ LastEnd = Len(stages)
      BY <1>6, <2>1 DEF Answers, FollowInv, Inv, TypeOK, LastEnd
    <2>3. \A k \in 1 .. Len(stages) : result'[k] \in stages[k]
      BY <2>1, <2>2, EndFacts, ResultFacts
    <2> QED BY <1>6, <2>3 DEF Answers, FollowInv, LastEnd
  <1> QED BY <1>1, <1>2, <1>3, <1>4, <1>5, <1>6, StepShape

LEMMA FollowInvIsInvariant ==
  ASSUME ModelOrder > 1
  PROVE  Spec => [](Inv /\ FollowInv)
  <1>1. Init => FollowInv
    <2> SUFFICES ASSUME Init PROVE FollowInv
      OBVIOUS
    <2>1. /\ stages \in Sentence /\ last = {InitialState} /\ new = {} /\ pc = "search"
          /\ LastEnd = ModelOrder - 1
      BY OrdersAssumption DEF Init, Sentence, LastEnd
    <2> QED BY <2>1, InitialStateFollows DEF FollowInv
  <1>2. Inv /\ FollowInv /\ [Next]_vars => FollowInv'
    BY FollowStep
  <1> QED BY <1>1, <1>2, InvIsInvariant, PTL DEF Spec

(* An answer for one token is never taken from the candidates of another,  *)
(* although merged states take their history from one path and their       *)
(* ancestors from another one.                                             *)
THEOREM ResultAlwaysFollows ==
  ASSUME ModelOrder > 1
  PROVE  Spec => []ResultFollowsStages
  <1>1. Inv /\ FollowInv => ResultFollowsStages
    <2> SUFFICES ASSUME Inv, FollowInv, pc = "done"
                 PROVE  \A k \in 1 .. Len(stages) : k <= Len(result) /\ result[k] \in stages[k]
      BY DEF ResultFollowsStages
    <2>1. Len(result) = Len(stages) /\ Len(stages) \in Nat
      BY StageFacts DEF Inv, ResultCoversStages
    <2> QED BY <2>1 DEF FollowInv
  <1> QED BY <1>1, FollowInvIsInvariant, PTL

-----------------------------------------------------------------------------
(* Distances are costs of paths, when the identifiers tell states apart.   *)

(* viterbi_order covers the history of the language models, and the        *)
(* possibilities of one stage differ in a factor that is enabled.          *)
StatesAreToldApart ==
  /\ ModelOrder > 1 /\ ViterbiOrder >= ModelOrder - 1
  /\ \A lattice \in Sentence : \A k \in 1 .. Len(lattice) :
       \A p, q \in lattice[k] : UniqueId[p] = UniqueId[q] => p = q

EndsLike(s, path, e) ==
  \A j \in 1 .. ModelOrder - 1 : s.history[j] = path[e - ModelOrder + 1 + j]

OnPath(m, s, e) == s.distance = PathCost(m, Result(s)) /\ EndsLike(s, Result(s), e)

LEMMA EqualHistories ==
  ASSUME StatesAreToldApart, NEW lattice \in Sentence,
         NEW e \in ModelOrder - 1 .. Len(lattice),
         NEW s, IsState(s), FollowsStages(lattice, s, e),
         NEW t, IsState(t), FollowsStages(lattice, t, e),
         Equals(s, t)
  PROVE  s.history = t.history
  <1> DEFINE size == ModelOrder - 1
  <1>1. /\ size \in Nat /\ size >= 1 /\ ViterbiOrder \in Nat /\ ViterbiOrder >= size
        /\ ModelOrder \in Nat /\ e \in Int /\ e >= size /\ e <= Len(lattice)
        /\ Len(lattice) \in Nat
    BY OrdersAssumption, SentenceFacts DEF StatesAreToldApart
  <1>2. Len(s.history) = size /\ Len(t.history) = size
    BY DEF FollowsStages
  <1>3. /\ UniqueIdentifier(s) = [j \in 1 .. size |-> UniqueId[s.history[size - size + j]]]
        /\ UniqueIdentifier(t) = [j \in 1 .. size |-> UniqueId[t.history[size - size + j]]]
    <2>1. (IF ViterbiOrder >= size THEN size ELSE ViterbiOrder) = size
      BY <1>1
    <2> HIDE DEF size
    <2> QED BY <1>2, <2>1 DEF UniqueIdentifier
  <1>4. ASSUME NEW j \in 1 .. size
        PROVE  s.history[j] = t.history[j]
    <2>1. size - size + j = j
      BY <1>1
    <2>2. UniqueId[s.history[j]] = UniqueId[t.history[j]]
      <3>1. UniqueIdentifier(s)[j] = UniqueIdentifier(t)[j]
        BY DEF Equals
      <3> HIDE DEF size
      <3> QED BY <1>3, <2>1, <3>1
    <2> DEFINE k == e - ModelOrder + 1 + j
    <2>3. k \in 1 .. Len(lattice)
      BY <1>1
    <2>4. s.history[j] \in lattice[k] /\ t.history[j] \in lattice[k]
      BY DEF FollowsStages
    <2> HIDE DEF k
    <2> QED BY <2>2, <2>3, <2>4 DEF StatesAreToldApart
  <1>5. s.history \in Seq(Possibility) /\ t.history \in Seq(Possibility)
    BY DEF IsState
  <1> HIDE DEF size
  <1> QED BY <1>2, <1>4, <1>5, SeqEqual

LEMMA ImprovedIsNew ==
  ASSUME NEW stored, NEW s, IsState(s), stored.history = s.history
  PROVE  Improved(stored, s) = s
  BY DEF IsState, Improved

(* Extending a state by p costs what p adds to any path that ends like it: *)
(* the key of the language model is the end of the path.                   *)
LEMMA ExtendedPath ==
  ASSUME ModelOrder > 1, NEW lattice \in Sentence, NEW m \in Models,
         NEW e \in ModelOrder - 1 .. Len(lattice), e + 1 <= Len(lattice),
         NEW s, IsState(s), FollowsStages(lattice, s, e),
         NEW path \in Seq(Possibility), Len(path) = e, EndsLike(s, path, e),
         NEW p \in lattice[e + 1]
  PROVE  \E step \in Int :
           /\ ExtensionCost(m, s, p) = s.distance + step
           /\ PathCost(m, Append(path, p)) = PathCost(m, path) + step
           /\ \E gram \in [1 .. ModelOrder -> Ids] :
                step = Emission[p] + Transition(m, gram)
           /\ \A cost : EndsLike(Child(s, p, cost), Append(path, p), e + 1)
  <1> DEFINE n == e + 1
             longer == Append(path, p)
             step == StepCost(m, longer, n)
  <1>1. /\ ModelOrder \in Nat /\ e \in Int /\ e >= ModelOrder - 1 /\ e >= 1
        /\ Len(lattice) \in Nat
    BY OrdersAssumption, SentenceFacts
  <1>2. p \in Possibility
    BY ChildFollows
  <1>3. /\ longer \in Seq(Possibility) /\ Len(longer) = n
        /\ \A k \in 1 .. e : longer[k] = path[k]
        /\ longer[n] = p
    BY <1>2, AppendProperties
  <1>4. s.history \in Seq(Possibility) /\ Len(s.history) = ModelOrder - 1
    BY DEF IsState, FollowsStages
  <1> HIDE DEF longer
  <1>5. NGram(s, p) = PathGram(longer, n)
    <2>1. ASSUME NEW j \in 1 .. ModelOrder
          PROVE  (IF j <= Len(s.history) THEN s.history[j] ELSE p)
                   = longer[n - ModelOrder + j]
      <3>1. CASE j = ModelOrder
        <4>1. ~(j <= Len(s.history)) /\ n - ModelOrder + j = n
          BY <1>1, <1>4, <3>1
        <4> QED BY <1>3, <4>1
      <3>2. CASE j # ModelOrder
        <4>1. /\ j <= Len(s.history) /\ j \in 1 .. ModelOrder - 1
              /\ n - ModelOrder + j = e - ModelOrder + 1 + j
              /\ e - ModelOrder + 1 + j \in 1 .. e
          BY <1>1, <1>4, <3>2
        <4>2. s.history[j] = path[e - ModelOrder + 1 + j]
          BY <4>1 DEF EndsLike
        <4> QED BY <1>3, <4>1, <4>2
      <3> QED BY <3>1, <3>2
    <2> HIDE DEF n
    <2> QED BY <2>1 DEF NGram, PathGram
  <1>6. /\ PathGram(longer, n) \in [1 .. ModelOrder -> Ids]
        /\ step \in Int
        /\ step = Emission[p] + Transition(m, PathGram(longer, n))
    <2>1. n \in ModelOrder .. Len(longer)
      BY <1>1, <1>3
    <2> QED BY <1>3, <2>1, StepCostFacts DEF StepCost
  <1>7. ExtensionCost(m, s, p) = s.distance + step
    <2>1. ExtensionCost(m, s, p)
            = s.distance + Emission[p] + Transition(m, PathGram(longer, n))
      BY <1>5 DEF ExtensionCost, EmissionCost, ComputeTransitionCost
    <2>2. /\ s.distance \in Int /\ Emission[p] \in Int
          /\ Transition(m, PathGram(longer, n)) \in Int
      BY <1>2, <1>6, TransitionAssumption, DataAssumption DEF IsState
    <2> HIDE DEF n, step
    <2> QED BY <1>6, <2>1, <2>2
  <1>8. PathCost(m, longer) = PathCost(m, path) + step
    <2>1. Len(path) + 1 >= ModelOrder
      BY <1>1
    <2> QED BY <1>2, <2>1, PathCostStep DEF longer
  <1>9. ASSUME NEW cost
        PROVE  EndsLike(Child(s, p, cost), longer, n)
    <2> DEFINE child == Child(s, p, cost)
    <2>1. /\ \A j \in 1 .. ModelOrder - 2 : child.history[j] = s.history[j + 1]
          /\ child.history[ModelOrder - 1] = p
      BY ChildFollows
    <2> HIDE DEF child
    <2>2. ASSUME NEW j \in 1 .. ModelOrder - 1
          PROVE  child.history[j] = longer[n - ModelOrder + 1 + j]
      <3>1. CASE j = ModelOrder - 1
        <4>1. n - ModelOrder + 1 + j = n
          BY <1>1, <3>1
        <4> QED BY <1>3, <2>1, <3>1, <4>1
      <3>2. CASE j # ModelOrder - 1
        <4>1. /\ j \in 1 .. ModelOrder - 2 /\ j + 1 \in 1 .. ModelOrder - 1
              /\ n - ModelOrder + 1 + j = e - ModelOrder + 1 + (j + 1)
              /\ e - ModelOrder + 1 + (j + 1) \in 1 .. e
          BY <1>1, <3>2
        <4>2. s.history[j + 1] = path[e - ModelOrder + 1 + (j + 1)]
          BY <4>1 DEF EndsLike
        <4> QED BY <1>3, <2>1, <4>1, <4>2
      <3> QED BY <3>1, <3>2
    <2> HIDE DEF n
    <2> QED BY <2>2 DEF EndsLike, child
  <1> HIDE DEF step
  <1> QED BY <1>6, <1>7, <1>8, <1>9 DEF longer, n

LEMMA ChildOnPath ==
  ASSUME ModelOrder > 1, NEW lattice \in Sentence, NEW m \in Models,
         NEW e \in ModelOrder - 1 .. Len(lattice), e + 1 <= Len(lattice),
         NEW s, IsState(s), FollowsStages(lattice, s, e), OnPath(m, s, e),
         NEW p \in lattice[e + 1]
  PROVE  OnPath(m, Child(s, p, ExtensionCost(m, s, p)), e + 1)
  <1> DEFINE cost == ExtensionCost(m, s, p)
             child == Child(s, p, cost)
             path == Result(s)
  <1>1. p \in Possibility /\ path \in Seq(Possibility) /\ Len(path) = e
    BY ResultFacts, ChildFollows
  <1>2. cost \in Int
    BY <1>1, CostFacts
  <1>3. Result(child) = Append(path, p)
    <2>1. e + 1 \in ModelOrder - 1 .. Len(lattice)
      BY OrdersAssumption, SentenceFacts
    <2>2. IsState(child)
      BY <1>1, <1>2, ChildFacts
    <2>3. /\ FollowsStages(lattice, child, e + 1)
          /\ Before(child) = path /\ child.history[ModelOrder - 1] = p
      <3> HIDE DEF cost
      <3>1. /\ FollowsStages(lattice, Child(s, p, cost), e + 1)
            /\ Before(Child(s, p, cost)) = Result(s)
            /\ Child(s, p, cost).history[ModelOrder - 1] = p
        BY ChildFollows
      <3> QED BY <3>1
    <2> HIDE DEF child, path
    <2>4. Result(child) = Append(Before(child), child.history[ModelOrder - 1])
      BY <2>1, <2>2, <2>3, ResultFacts
    <2> QED BY <2>3, <2>4
  <1>4. EndsLike(s, path, e) /\ s.distance = PathCost(m, path)
    BY DEF OnPath
  <1> HIDE DEF path
  <1>5. PathCost(m, Append(path, p)) = cost /\ EndsLike(child, Append(path, p), e + 1)
    BY <1>1, <1>4, ExtendedPath
  <1>6. child.distance = cost
    <2> HIDE DEF cost
    <2> QED BY DEF Child, State
  <1> HIDE DEF child, cost
  <1>7. OnPath(m, child, e + 1)
    BY <1>3, <1>5, <1>6 DEF OnPath
  <1> QED BY <1>7 DEF child, cost

PathInv ==
  /\ \A s \in last : OnPath(model, s, LastEnd)
  /\ \A s \in new : OnPath(model, s, i)

LEMMA InitialStateOnPath ==
  ASSUME ModelOrder > 1, NEW lattice \in Sentence, NEW m
  PROVE  OnPath(m, InitialState, ModelOrder - 1)
  <1> DEFINE e == ModelOrder - 1
  <1>1. ModelOrder \in Nat /\ e \in Nat /\ e >= 1
    BY OrdersAssumption
  <1>2. IsState(InitialState) /\ FollowsStages(lattice, InitialState, e)
    BY InitialStateFacts, InitialStateFollows
  <1>3. e \in e .. Len(lattice) /\ Len(lattice) \in Nat
    BY <1>1, SentenceFacts
  <1>4. /\ Result(InitialState) \in Seq(Possibility) /\ Len(Result(InitialState)) = e
        /\ \A k \in 1 .. e : Result(InitialState)[k] \in lattice[k]
    BY <1>2, <1>3, ResultFacts
  <1>5. InitialState.distance = PathCost(m, Result(InitialState))
    <2>1. e < ModelOrder
      BY <1>1
    <2> QED BY <1>4, <2>1, PathCostStart, InitialStateFacts
  <1>6. ASSUME NEW j \in 1 .. e
        PROVE  InitialState.history[j] = Result(InitialState)[e - ModelOrder + 1 + j]
    <2>1. e - ModelOrder + 1 + j = j
      BY <1>1
    <2>2. lattice[j] = {SentenceStart}
      BY LatticeStart
    <2>3. InitialState.history[j] = SentenceStart
      BY <1>1, DataAssumption, PaddingFacts DEF InitialState, State
    <2> QED BY <1>4, <2>1, <2>2, <2>3
  <1> QED BY <1>5, <1>6 DEF OnPath, EndsLike

LEMMA ExtendedOnPath ==
  ASSUME Inv, StatesAreToldApart, FollowInv, PathInv, NEW p, IsNext(p)
  PROVE  /\ IsState(Extended(p)) /\ FollowsStages(stages, Extended(p), i)
         /\ OnPath(model, Extended(p), i)
         /\ \A stored \in new : Equals(stored, Extended(p)) =>
              /\ stored.history = Extended(p).history
              /\ Improved(stored, Extended(p)) = Extended(p)
  <1>1. ModelOrder > 1 /\ pc = "search" /\ p \in stages[i]
        /\ current \in last /\ IsState(current)
    BY DEF IsNext, Inv, TypeOK, StatesAreToldApart
  <1>2. /\ LastEnd + 1 = i /\ i <= Len(stages)
        /\ FollowsStages(stages, current, LastEnd) /\ OnPath(model, current, LastEnd)
    BY <1>1, EndFacts DEF FollowInv, PathInv
  <1>3. p \in stages[LastEnd + 1] /\ LastEnd + 1 <= Len(stages)
    BY <1>1, <1>2
  <1>4. OnPath(model, Extended(p), LastEnd + 1)
    BY <1>1, <1>2, <1>3, EndFacts, ChildOnPath DEF Extended
  <1>5. IsState(Extended(p)) /\ FollowsStages(stages, Extended(p), i)
    BY <1>1, ExtensionFacts, ExtendedFollows
  <1>6. ASSUME NEW stored \in new, Equals(stored, Extended(p))
        PROVE  stored.history = Extended(p).history
    <2>1. IsState(stored) /\ FollowsStages(stages, stored, i)
      BY DEF Inv, TypeOK, FollowInv
    <2> QED BY <1>1, <1>5, <1>6, <2>1, EndFacts, EqualHistories
  <1> QED BY <1>2, <1>4, <1>5, <1>6, ImprovedIsNew

LEMMA PathStep ==
  ASSUME Inv, StatesAreToldApart, FollowInv, PathInv, [Next]_vars
  PROVE  PathInv'
  <1>1. CASE StartsSentence
    <2>1. LastEnd' = ModelOrder - 1
      BY <1>1, OrdersAssumption DEF StartsSentence, LastEnd
    <2>2. OnPath(model', InitialState, ModelOrder - 1)
      BY <1>1, InitialStateOnPath DEF StartsSentence, StatesAreToldApart
    <2> QED BY <1>1, <2>1, <2>2 DEF StartsSentence, PathInv
  <1>2. CASE LeavesStages
    BY <1>2 DEF LeavesStages, PathInv, LastEnd
  <1>3. ASSUME NEW p, IsNext(p), Adds(p) PROVE PathInv'
    <2>1. OnPath(model, Extended(p), i)
      BY <1>3, ExtendedOnPath
    <2> QED BY <1>3, <2>1 DEF Adds, PathInv, LastEnd
  <1>4. ASSUME NEW p, IsNext(p), NEW stored, Merges(stored, p) PROVE PathInv'
    <2>1. OnPath(model, Improved(stored, Extended(p)), i)
      BY <1>4, ExtendedOnPath DEF Merges
    <2> QED BY <1>4, <2>1 DEF Merges, PathInv, LastEnd
  <1>5. CASE AdvancesStage
    BY <1>5 DEF AdvancesStage, PathInv
  <1>6. CASE Answers
    BY <1>6 DEF Answers, PathInv, LastEnd
  <1> QED BY <1>1, <1>2, <1>3, <1>4, <1>5, <1>6, StepShape

LEMMA PathInvIsInvariant ==
  ASSUME StatesAreToldApart
  PROVE  Spec => [](Inv /\ FollowInv /\ PathInv)
  <1>1. Init => PathInv
    <2> SUFFICES ASSUME Init PROVE PathInv
      OBVIOUS
    <2>1. /\ stages \in Sentence /\ last = {InitialState} /\ new = {}
          /\ LastEnd = ModelOrder - 1
      BY OrdersAssumption DEF Init, Sentence, LastEnd
    <2> QED BY <2>1, InitialStateOnPath DEF PathInv, StatesAreToldApart
  <1>2. Inv /\ FollowInv /\ PathInv /\ [Next]_vars => PathInv'
    BY PathStep
  <1>3. Spec => [](Inv /\ FollowInv)
    BY FollowInvIsInvariant DEF StatesAreToldApart
  <1> QED BY <1>1, <1>2, <1>3, PTL DEF Spec

(* Merging and pruning never separate a distance from the words it was     *)
(* computed for: the stored state, whose distance and ancestor are         *)
(* overwritten and whose history is kept, still describes one path.        *)
THEOREM DistanceAlwaysIsPathCost ==
  ASSUME StatesAreToldApart
  PROVE  Spec => []DistanceIsPathCost
  <1>1. ASSUME Inv, FollowInv, PathInv, NEW s, NEW e,
               \/ s \in last /\ e = LastEnd
               \/ s \in new /\ e = i
        PROVE  /\ s.distance = PathCost(model, Result(s))
               /\ s.history = SubSeq(Result(s), Len(Result(s)) - ModelOrder + 2,
                                      Len(Result(s)))
    <2>1. /\ IsState(s) /\ FollowsStages(stages, s, e) /\ OnPath(model, s, e)
          /\ stages \in Sentence /\ e \in ModelOrder - 1 .. Len(stages)
          /\ Len(stages) \in Nat /\ ModelOrder > 1 /\ ModelOrder \in Nat
      BY <1>1, EndFacts, OrdersAssumption
      DEF Inv, TypeOK, FollowInv, PathInv, StatesAreToldApart
    <2>2. Result(s) \in Seq(Possibility) /\ Len(Result(s)) = e
      BY <2>1, ResultFacts
    <2>3. s.history \in Seq(Possibility) /\ Len(s.history) = ModelOrder - 1
      BY <2>1 DEF IsState, FollowsStages
    <2> DEFINE path == Result(s)
               first == e - ModelOrder + 2
               rest == SubSeq(path, first, e)
    <2> HIDE DEF path
    <2>4. /\ first \in Int /\ e \in Int /\ first <= e
          /\ \A k \in first .. e : k \in 1 .. Len(path)
      BY <2>1, <2>2 DEF path
    <2>5. \A k \in first .. e : path[k] \in Possibility
      BY <2>2, <2>4, ElementOfSeq DEF path
    <2>6. /\ rest \in Seq(Possibility) /\ Len(rest) = e - first + 1
          /\ \A j \in 1 .. e - first + 1 : rest[j] = path[first + j - 1]
      <3> HIDE DEF first
      <3> QED BY <2>4, <2>5, SubSeqProperties
    <2> HIDE DEF rest
    <2>7. ASSUME NEW j \in 1 .. ModelOrder - 1
          PROVE  s.history[j] = rest[j]
      <3>1. /\ e - ModelOrder + 1 + j = first + j - 1
            /\ e - first + 1 = ModelOrder - 1
        BY <2>1
      <3>2. s.history[j] = path[e - ModelOrder + 1 + j]
        BY <2>1 DEF OnPath, EndsLike, path
      <3> HIDE DEF first
      <3> QED BY <2>6, <3>1, <3>2
    <2>8. s.history = rest
      <3>1. Len(rest) = ModelOrder - 1
        BY <2>1, <2>6
      <3> QED BY <2>3, <2>6, <2>7, <3>1, SeqEqual
    <2> QED BY <2>1, <2>2, <2>8 DEF OnPath, rest, path
  <1>2. Inv /\ FollowInv /\ PathInv => DistanceIsPathCost
    <2> SUFFICES ASSUME Inv, FollowInv, PathInv, NEW s \in last \union new
                 PROVE  /\ s.distance = PathCost(model, Result(s))
                        /\ s.history = SubSeq(Result(s), Len(Result(s)) - ModelOrder + 2,
                                               Len(Result(s)))
      BY DEF DistanceIsPathCost
    <2> QED BY <1>1
  <1> QED BY <1>2, PathInvIsInvariant, PTL

-----------------------------------------------------------------------------
(* With exact settings the search is exhaustive up to merging: for every   *)
(* path there is a state that ends like it and is not dearer.              *)

IsLeast(least) ==
  \A m \in Models, p \in Possibility, gram \in [1 .. ModelOrder -> Ids] :
    least <= Emission[p] + Transition(m, gram)

(* No beam, and a pruning constant above the difference of the costs of    *)
(* any two paths.                                                          *)
PruningExceeds(least) ==
  \A inner \in Sentences : (Len(inner) + 1) * (MaxStageCost - least) < Pruning

IsExact ==
  /\ StatesAreToldApart
  /\ Beam = 0
  /\ \E least \in Int : IsLeast(least) /\ PruningExceeds(least)

PathsTo(lattice, n) ==
  {path \in [1 .. n -> Possibility] : \A k \in 1 .. n : path[k] \in lattice[k]}

Matches(m, s, path, e) == EndsLike(s, path, e) /\ s.distance <= PathCost(m, path)

PathsMatched(m, lattice, T, e) ==
  \A path \in PathsTo(lattice, e) : \E s \in T : Matches(m, s, path, e)

(* t stands for the extension of s by p.                                   *)
StandsFor(m, t, s, p) ==
  /\ t.history = Append(Tail(s.history), p)
  /\ t.distance <= ExtensionCost(m, s, p)

(* The loops have come past the extension of s by p.                       *)
Tried(s, p) == s \notin toVisit /\ (s = current => p \notin toTry)

TriedAreStored ==
  \A s \in last, p \in stages[i] : Tried(s, p) => \E t \in new : StandsFor(model, t, s, p)

ResultIsLeast(m, path) ==
  \A other \in Paths(stages) : PathCost(m, path) <= PathCost(m, other)

NothingLost ==
  /\ PathsMatched(model, stages, last, LastEnd)
  /\ pc = "search" => TriedAreStored
  /\ toTry # {} => current \notin toVisit
  /\ pc = "done" => ResultIsLeast(model, result)

(* The distances of the states, from below.                                *)
Above(T, bound) == \A s \in T : bound <= s.distance

LowInv(least) == Above(last, LastStage * least) /\ Above(new, NewStage * least)

LEMMA LeastFacts ==
  ASSUME Inv, NEW least \in Int, IsLeast(least)
  PROVE  /\ least <= MaxStageCost
         /\ NewStage \in Nat /\ NewStage * least \in Int
         /\ (i - ModelOrder) * least \in Int
         /\ NewStage * least = (i - ModelOrder) * least + least
  <1>1. /\ NewStage \in Nat /\ i - ModelOrder \in Nat /\ NewStage = (i - ModelOrder) + 1
    BY StageFacts, OrdersAssumption DEF Inv, NewStage
  <1>2. NewStage * least = (i - ModelOrder) * least + least
    BY <1>1
  <1>3. least <= MaxStageCost
    <2> DEFINE gram == [j \in 1 .. ModelOrder |-> UniqueId[SentenceStart]]
    <2>1. gram \in [1 .. ModelOrder -> Ids]
      BY DataAssumption DEF Ids
    <2>2. PICK m \in Models : TRUE
      BY DataAssumption
    <2> HIDE DEF gram
    <2>3. /\ least <= Emission[SentenceStart] + Transition(m, gram)
          /\ Emission[SentenceStart] + Transition(m, gram) <= MaxStageCost
          /\ Emission[SentenceStart] \in Int /\ Transition(m, gram) \in Int
          /\ MaxStageCost \in Int
      BY <2>1, DataAssumption, TransitionAssumption, CeilingAssumption DEF IsLeast
    <2> QED BY <2>3
  <1> QED BY <1>1, <1>2, <1>3

(* What an extension adds is at least the least step.                      *)
LEMMA ExtensionAbove ==
  ASSUME Inv, NEW least \in Int, IsLeast(least), LowInv(least), NEW p, IsNext(p)
  PROVE  NewStage * least <= Extended(p).distance
  <1>1. /\ pc = "search" /\ current \in last /\ IsState(current) /\ p \in Possibility
        /\ model \in Models
    BY ExtensionFacts DEF IsNext, Inv, TypeOK
  <1>2. NGram(current, p) \in [1 .. ModelOrder -> Ids]
    <2>1. current.history \in Seq(Possibility)
      BY <1>1 DEF IsState
    <2>2. ASSUME NEW j \in 1 .. ModelOrder
          PROVE  (IF j <= Len(current.history) THEN current.history[j] ELSE p) \in Possibility
      BY <1>1, <2>1, ElementOfSeq, LenProperties, OrdersAssumption
    <2> QED BY <2>2 DEF NGram, Ids
  <1> DEFINE step == Emission[p] + Transition(model, NGram(current, p))
  <1>3. step \in Int /\ least <= step
    BY <1>1, <1>2, DataAssumption, TransitionAssumption DEF IsLeast
  <1>4. Extended(p).distance = current.distance + step
    <2>1. Extended(p).distance = ExtensionCost(model, current, p)
      BY ExtensionFacts
    <2>2. ExtensionCost(model, current, p)
            = current.distance + Emission[p] + Transition(model, NGram(current, p))
      BY DEF ExtensionCost, EmissionCost, ComputeTransitionCost
    <2>3. /\ current.distance \in Int /\ Emission[p] \in Int
          /\ Transition(model, NGram(current, p)) \in Int
      BY <1>1, <1>2, DataAssumption, TransitionAssumption DEF IsState
    <2> QED BY <2>1, <2>2, <2>3
  <1>5. (i - ModelOrder) * least <= current.distance
    BY <1>1 DEF LowInv, Above, LastStage
  <1> HIDE DEF step
  <1>6. current.distance \in Int
    BY <1>1 DEF IsState
  <1> DEFINE a == (i - ModelOrder) * least
             b == NewStage * least
  <1>7. a \in Int /\ b \in Int /\ b = a + least /\ a <= current.distance
    BY <1>5, LeastFacts
  <1> HIDE DEF a, b
  <1>8. b <= Extended(p).distance
    BY <1>3, <1>4, <1>6, <1>7
  <1> QED BY <1>8 DEF b

LEMMA LowStep ==
  ASSUME Inv, NEW least \in Int, IsLeast(least), LowInv(least), [Next]_vars
  PROVE  LowInv(least)'
  <1>1. CASE StartsSentence
    <2>1. LastStage' = 0 /\ 0 * least = 0
      BY <1>1, OrdersAssumption DEF StartsSentence, LastStage
    <2> QED BY <1>1, <2>1, InitialStateFacts DEF StartsSentence, LowInv, Above
  <1>2. CASE LeavesStages
    BY <1>2 DEF LeavesStages, LowInv, LastStage, NewStage
  <1>3. ASSUME NEW p, IsNext(p), Adds(p) PROVE LowInv(least)'
    <2>1. NewStage * least <= Extended(p).distance
      BY <1>3, ExtensionAbove
    <2> QED BY <1>3, <2>1 DEF Adds, LowInv, Above, LastStage, NewStage
  <1>4. ASSUME NEW p, IsNext(p), NEW stored, Merges(stored, p) PROVE LowInv(least)'
    <2>1. NewStage * least <= Extended(p).distance
      BY <1>4, ExtensionAbove
    <2>2. Improved(stored, Extended(p)).distance = Extended(p).distance
      BY DEF Improved, State
    <2> QED BY <1>4, <2>1, <2>2 DEF Merges, LowInv, Above, LastStage, NewStage
  <1>5. CASE AdvancesStage
    <2>1. LastStage' = NewStage
      <3>1. pc' = "search" => i' - 1 = i
        BY <1>5 DEF AdvancesStage, LastEnd
      <3>2. pc' # "search" => i' = i
        BY <1>5 DEF AdvancesStage, LastEnd
      <3>3. i' \in Int /\ i \in Int /\ ModelOrder \in Int
        <4>1. Inv'
          BY InvStep
        <4> QED BY <4>1, StageFacts, OrdersAssumption DEF Inv, TypeOK
      <3>4. CASE pc' = "search"
        <4>1. LastStage' = i' - ModelOrder /\ NewStage = i - ModelOrder + 1
          BY <3>4 DEF LastStage, NewStage
        <4>2. i' - ModelOrder = i - ModelOrder + 1
          <5>1. i' - 1 = i
            BY <3>1, <3>4
          <5>2. ASSUME NEW a \in Int, NEW b \in Int, NEW c \in Int, a - 1 = b
                PROVE  a - c = b - c + 1
            BY <5>2
          <5> QED BY <3>3, <5>1, <5>2
        <4> QED BY <4>1, <4>2
      <3>5. CASE pc' # "search"
        BY <3>2, <3>5 DEF LastStage, NewStage
      <3> QED BY <3>4, <3>5
    <2> QED BY <1>5, <2>1 DEF AdvancesStage, LowInv, Above, NewStage
  <1>6. CASE Answers
    BY <1>6 DEF Answers, LowInv, LastStage, NewStage
  <1> QED BY <1>1, <1>2, <1>3, <1>4, <1>5, <1>6, StepShape

(* Nothing is ever pruned.                                                 *)
LEMMA SpreadFacts ==
  ASSUME Inv, NEW least \in Int, IsLeast(least), PruningExceeds(least)
  PROVE  NewStage * MaxStageCost < NewStage * least + Pruning
  <1>1. PICK inner \in Sentences : stages = StagePossibilities(inner)
    BY DEF Inv, TypeOK, Sentence
  <1>2. Len(stages) = Len(inner) + ModelOrder /\ Len(inner) \in Nat
    <2>1. inner \in Seq(Stage) /\ Len(stages) = Len(inner) + ModelOrder
      BY <1>1, LatticeFacts
    <2> QED BY <2>1, LenProperties
  <1>3. NewStage \in Nat /\ NewStage <= Len(inner) + 1
    BY <1>2, StageFacts, OrdersAssumption DEF Inv, NewStage
  <1> DEFINE d == MaxStageCost - least
             n == NewStage
             N == Len(inner) + 1
  <1>4. d \in Nat /\ MaxStageCost \in Int /\ N \in Nat /\ Pruning \in Int
    BY <1>2, LeastFacts, CeilingAssumption, OrdersAssumption
  <1>5. n * d <= N * d
    <2> HIDE DEF d, n, N
    <2>1. n \in Nat /\ n <= N
      BY <1>3 DEF n, N
    <2> QED BY <1>4, <2>1
  <1>6. N * d < Pruning
    BY DEF PruningExceeds
  <1>7. n * d = n * MaxStageCost - n * least
    BY <1>3, <1>4
  <1>8. n * MaxStageCost \in Int /\ n * least \in Int /\ n * d \in Int /\ N * d \in Int
    BY <1>3, <1>4
  <1> DEFINE a == n * MaxStageCost
             b == n * least
             x == n * d
             y == N * d
  <1>9. /\ a \in Int /\ b \in Int /\ x \in Int /\ y \in Int
        /\ x <= y /\ y < Pruning /\ x = a - b
    BY <1>5, <1>6, <1>7, <1>8
  <1> HIDE DEF a, b, x, y, n, N, d
  <1>10. a < b + Pruning
    BY <1>4, <1>9
  <1> QED BY <1>10 DEF a, b, n

LEMMA BestIsLow ==
  ASSUME Inv, NEW least \in Int, IsLeast(least), PruningExceeds(least), LowInv(least),
         new # {}
  PROVE  NewStage * MaxStageCost < best + Pruning
  <1>1. PICK s \in new : s.distance = best
    BY DEF Inv, BestIsAttained
  <1>2. NewStage * least <= best /\ best \in Int
    BY <1>1 DEF LowInv, Above, Inv, TypeOK
  <1> DEFINE a == NewStage * MaxStageCost
             b == NewStage * least
  <1>3. a < b + Pruning /\ b <= best
    BY <1>2, SpreadFacts
  <1>4. a \in Int /\ b \in Int /\ Pruning \in Int
    BY LeastFacts, CeilingAssumption, OrdersAssumption
  <1> HIDE DEF a, b
  <1>5. a < best + Pruning
    BY <1>2, <1>3, <1>4
  <1> QED BY <1>5 DEF a

LEMMA NeverTooExpensive ==
  ASSUME Inv, NEW least \in Int, IsLeast(least), PruningExceeds(least), LowInv(least),
         NEW p, IsNext(p)
  PROVE  /\ ~TooExpensive(EmissionCost(current, p))
         /\ ~TooExpensive(ExtensionCost(model, current, p))
  <1> DEFINE bound == NewStage * MaxStageCost
  <1>1. /\ EmissionCost(current, p) \in Int /\ EmissionCost(current, p) < Ceiling
        /\ ExtensionCost(model, current, p) \in Int
        /\ ExtensionCost(model, current, p) < Ceiling
        /\ ExtensionCost(model, current, p) <= bound
        /\ bound \in Int /\ best \in Int
    BY ExtensionFacts, StageFacts, CeilingAssumption DEF Inv, TypeOK
  <1>2. EmissionCost(current, p) <= bound
    <2>1. /\ current \in last /\ IsState(current) /\ p \in Possibility /\ model \in Models
          /\ pc = "search"
      BY ExtensionFacts DEF Inv, TypeOK, IsNext
    <2>2. EmissionCost(current, p) <= current.distance + MaxStageCost
      BY <2>1, CostFacts
    <2> DEFINE a == (i - ModelOrder) * MaxStageCost
    <2>3. /\ current.distance <= a /\ current.distance \in Int
          /\ a \in Int /\ MaxStageCost \in Int /\ bound = a + MaxStageCost
      BY <2>1, StageFacts, CeilingAssumption DEF Inv, Bounded, LastStage, IsState
    <2> HIDE DEF a, bound
    <2> QED BY <1>1, <2>2, <2>3
  <1>3. CASE new = {}
    BY <1>1, <1>3, OrdersAssumption DEF Inv, BestIsAttained, TooExpensive
  <1>4. CASE new # {}
    <2>1. bound < best + Pruning
      BY <1>4, BestIsLow
    <2> HIDE DEF bound
    <2> QED BY <1>1, <1>2, <2>1, OrdersAssumption DEF TooExpensive
  <1> QED BY <1>3, <1>4

LEMMA NothingFiltered ==
  ASSUME Inv, Beam = 0, NEW least \in Int, IsLeast(least), PruningExceeds(least),
         LowInv(least), NEW kept \in Beamed(Surviving(new, best)), new # {}
  PROVE  kept = new
  <1>1. kept = Surviving(new, best)
    BY DEF Beamed
  <1> DEFINE bound == NewStage * MaxStageCost
  <1>2. bound < best + Pruning /\ bound \in Int /\ best \in Int
    BY BestIsLow, StageFacts, CeilingAssumption DEF Inv, TypeOK
  <1>3. \A s \in new : s.distance <= bound /\ s.distance \in Int
    BY DEF Inv, Bounded, TypeOK, IsState
  <1> HIDE DEF bound
  <1>4. \A s \in new : s.distance < best + Pruning
    BY <1>2, <1>3, OrdersAssumption
  <1> QED BY <1>1, <1>4 DEF Surviving

LEMMA PathCostIsInt ==
  ASSUME NEW m \in Models, NEW path \in Seq(Possibility)
  PROVE  PathCost(m, path) \in Int
  <1> DEFINE odd == {k \in 0 .. Len(path) : CostsUpTo(m, path)[k] \notin Int}
  <1>1. Len(path) \in Nat
    BY LenProperties
  <1>2. ASSUME odd # {} PROVE FALSE
    <2>1. PICK least \in odd : \A k \in odd : least <= k
      <3>1. odd \in SUBSET Nat
        BY <1>1
      <3> HIDE DEF odd
      <3> QED BY <1>2, <3>1, LeastExists
    <2>2. least \in 0 .. Len(path) /\ CostsUpTo(m, path)[least] \notin Int
      OBVIOUS
    <2>3. ~(least < ModelOrder)
      <3>1. SUFFICES ASSUME least < ModelOrder PROVE FALSE
        OBVIOUS
      <3>2. CostsUpTo(m, path)[least] = 0
        BY <2>2, <3>1, CostsUpToEquation
      <3> QED BY <2>2, <3>2
    <2>4. /\ least - 1 \in 0 .. Len(path) /\ least - 1 < least
          /\ least \in ModelOrder .. Len(path)
      BY <1>1, <2>2, <2>3, OrdersAssumption
    <2>5. least - 1 \notin odd
      BY <2>1, <2>4
    <2>6. CostsUpTo(m, path)[least - 1] \in Int
      BY <2>4, <2>5
    <2>7. CostsUpTo(m, path)[least] = CostsUpTo(m, path)[least - 1] + StepCost(m, path, least)
      BY <2>2, <2>3, CostsUpToEquation
    <2>8. StepCost(m, path, least) \in Int
      BY <2>4, StepCostFacts
    <2> QED BY <2>2, <2>6, <2>7, <2>8
  <1>3. Len(path) \notin odd
    BY <1>2
  <1> QED BY <1>1, <1>3 DEF PathCost

(* Every path starts like the initial state.                               *)
LEMMA InitialMatches ==
  ASSUME ModelOrder > 1, NEW lattice \in Sentence, NEW m,
         NEW path \in PathsTo(lattice, ModelOrder - 1)
  PROVE  /\ EndsLike(InitialState, path, ModelOrder - 1)
         /\ InitialState.distance <= PathCost(m, path)
  <1> DEFINE e == ModelOrder - 1
  <1>1. ModelOrder \in Nat /\ e \in Nat
    BY OrdersAssumption
  <1>2. path \in [1 .. e -> Possibility] /\ \A k \in 1 .. e : path[k] \in lattice[k]
    BY DEF PathsTo
  <1>3. path \in Seq(Possibility) /\ Len(path) = e
    BY <1>1, <1>2
  <1>4. ASSUME NEW j \in 1 .. e
        PROVE  InitialState.history[j] = path[e - ModelOrder + 1 + j]
    <2>1. e - ModelOrder + 1 + j = j
      BY <1>1
    <2>2. path[j] = SentenceStart
      BY <1>2, LatticeStart
    <2>3. InitialState.history[j] = SentenceStart
      BY <1>1, DataAssumption, PaddingFacts DEF InitialState, State
    <2> QED BY <2>1, <2>2, <2>3
  <1>5. PathCost(m, path) = 0
    <2>1. e < ModelOrder
      BY <1>1
    <2> HIDE DEF e
    <2> QED BY <1>3, <2>1, PathCostStart
  <1> QED BY <1>4, <1>5, InitialStateFacts DEF EndsLike

LEMMA StartLosesNothing ==
  ASSUME StatesAreToldApart, stages \in Sentence, pc = "search", i = ModelOrder,
         last = {InitialState}, toVisit = {InitialState}, toTry = {}
  PROVE  NothingLost
  <1>1. LastEnd = ModelOrder - 1 /\ ModelOrder > 1
    BY OrdersAssumption DEF LastEnd, StatesAreToldApart
  <1>2. PathsMatched(model, stages, last, LastEnd)
    BY <1>1, InitialMatches DEF PathsMatched, Matches
  <1> QED BY <1>2 DEF NothingLost, TriedAreStored, Tried

LEMMA VisitLosesNothing ==
  ASSUME Inv, NothingLost, VisitState
  PROVE  NothingLost'
  <1>1. /\ pc = "search" /\ toTry = {} /\ toTry' = stages[i]
        /\ current' \in toVisit /\ toVisit' = toVisit \ {current'}
        /\ UNCHANGED <<model, stages, i, last, result, pc, new, best>>
    BY DEF VisitState, Cheapest, search
  <1>2. ASSUME NEW s \in last, NEW p \in stages[i], Tried(s, p)'
        PROVE  \E t \in new : StandsFor(model, t, s, p)
    <2>1. s \notin toVisit
      BY <1>1, <1>2 DEF Tried
    <2>2. Tried(s, p)
      BY <1>1, <2>1 DEF Tried
    <2> QED BY <1>1, <2>2 DEF NothingLost, TriedAreStored
  <1>3. LastEnd' = LastEnd
    BY <1>1 DEF LastEnd
  <1>4. PathsMatched(model', stages', last', LastEnd')
    BY <1>1, <1>3 DEF NothingLost
  <1>5. TriedAreStored'
    BY <1>1, <1>2 DEF TriedAreStored
  <1> QED BY <1>1, <1>4, <1>5 DEF NothingLost

(* The extension that was tried is kept, or one like it that is cheaper.   *)
LEMMA TryLosesNothing ==
  ASSUME Inv, StatesAreToldApart, FollowInv, PathInv, NothingLost,
         NEW least \in Int, IsLeast(least), PruningExceeds(least), LowInv(least),
         NEW p \in toTry, TryPossibility(p)
  PROVE  NothingLost'
  <1>1. IsNext(p)
    BY DEF TryPossibility, PruneOnEmission, PruneOnTransition, InsertState,
           ImproveState, KeepStored, Extend
  <1>2. Extend(p) /\ (InsertState(p) \/ ImproveState(p) \/ KeepStored(p))
    BY <1>1, NeverTooExpensive
    DEF TryPossibility, PruneOnEmission, PruneOnTransition, InsertState,
        ImproveState, KeepStored
  <1>3. /\ pc = "search" /\ toTry' = toTry \ {p}
        /\ UNCHANGED <<model, stages, i, last, result, pc, toVisit, current>>
    BY <1>2, ExtendFacts
  <1>4. /\ Extended(p).distance = ExtensionCost(model, current, p)
        /\ Extended(p).history = Append(Tail(current.history), p)
        /\ IsState(Extended(p))
    <2>1. /\ current \in last /\ IsState(current) /\ ModelOrder > 1
          /\ FollowsStages(stages, current, LastEnd)
      BY <1>1, <1>3, ExtensionFacts DEF FollowInv, StatesAreToldApart
    <2>2. current.history # <<>>
      BY <2>1, EndFacts, ResultFacts
    <2> QED BY <1>1, <2>2, ExtensionFacts DEF Extended, Child, State
  <1>5. \E t \in new' : StandsFor(model, t, current, p)
    <2>1. CASE InsertState(p)
      <3>1. Extended(p) \in new'
        BY <2>1 DEF InsertState
      <3>2. StandsFor(model, Extended(p), current, p)
        BY <1>1, <1>4, ExtensionFacts DEF StandsFor
      <3> QED BY <3>1, <3>2
    <2>2. CASE ImproveState(p)
      <3>1. Extended(p) \in new'
        BY <1>1, <2>2, ExtendedOnPath DEF ImproveState
      <3>2. StandsFor(model, Extended(p), current, p)
        BY <1>1, <1>4, ExtensionFacts DEF StandsFor
      <3> QED BY <3>1, <3>2
    <2>3. CASE KeepStored(p)
      <3>1. PICK stored \in new : /\ Equals(stored, Extended(p))
                                  /\ stored.distance <= Extended(p).distance
        BY <2>3 DEF KeepStored
      <3>2. stored.history = Extended(p).history
        BY <1>1, <3>1, ExtendedOnPath
      <3>3. StandsFor(model, stored, current, p)
        BY <1>4, <3>1, <3>2 DEF StandsFor
      <3> QED BY <2>3, <3>1, <3>3 DEF KeepStored
    <2> QED BY <1>2, <2>1, <2>2, <2>3
  <1>6. ASSUME NEW s \in last, NEW q \in stages[i], NEW t \in new, StandsFor(model, t, s, q)
        PROVE  \E u \in new' : StandsFor(model, u, s, q)
    <2>1. CASE t \in new'
      BY <1>6, <2>1
    <2>2. CASE t \notin new'
      <3>1. PICK stored \in new :
              /\ Equals(stored, Extended(p))
              /\ stored.distance > Extended(p).distance
              /\ new' = (new \ {stored}) \union {Improved(stored, Extended(p))}
        BY <1>2, <2>2 DEF InsertState, KeepStored, ImproveState
      <3>2. t = stored
        BY <2>2, <3>1
      <3>3. stored.history = Extended(p).history /\ Extended(p) \in new'
        BY <1>1, <3>1, ExtendedOnPath
      <3>4. /\ Extended(p).distance \in Int /\ stored.distance \in Int
            /\ stored.distance <= ExtensionCost(model, s, q)
        BY <1>4, <1>6, <3>2 DEF IsState, Inv, TypeOK, StandsFor
      <3>5. ExtensionCost(model, s, q) \in Int
        <4>1. q \in Possibility /\ IsState(s) /\ model \in Models
          BY StageFacts DEF Inv, TypeOK
        <4> QED BY <4>1, CostFacts
      <3>6. StandsFor(model, Extended(p), s, q)
        BY <1>6, <3>1, <3>2, <3>3, <3>4, <3>5 DEF StandsFor
      <3> QED BY <3>3, <3>6
    <2> QED BY <2>1, <2>2
  <1>7. ASSUME NEW s \in last, NEW q \in stages[i], Tried(s, q)'
        PROVE  \E t \in new' : StandsFor(model, t, s, q)
    <2>1. CASE s = current /\ q = p
      BY <1>5, <2>1
    <2>2. CASE ~(s = current /\ q = p)
      <3>1. Tried(s, q)
        BY <1>3, <1>7, <2>2 DEF Tried
      <3>2. \E t \in new : StandsFor(model, t, s, q)
        BY <1>3, <3>1 DEF NothingLost, TriedAreStored
      <3> QED BY <1>6, <3>2
    <2> QED BY <2>1, <2>2
  <1>8. LastEnd' = LastEnd
    BY <1>3 DEF LastEnd
  <1>9. PathsMatched(model', stages', last', LastEnd')
    BY <1>3, <1>8 DEF NothingLost
  <1>10. TriedAreStored'
    BY <1>3, <1>7 DEF TriedAreStored
  <1>11. toTry' # {} => current' \notin toVisit'
    BY <1>3 DEF NothingLost
  <1> QED BY <1>3, <1>9, <1>10, <1>11 DEF NothingLost

(* A path that is one possibility longer is matched by the state that      *)
(* stands for the extension of the state that matched it so far.           *)
LEMMA LongerPathMatched ==
  ASSUME Inv, ModelOrder > 1, FollowInv, pc = "search",
         NEW path \in PathsTo(stages, i),
         NEW s \in last, NEW shorter \in PathsTo(stages, LastEnd),
         \A k \in 1 .. LastEnd : shorter[k] = path[k],
         Matches(model, s, shorter, LastEnd),
         NEW t \in new, StandsFor(model, t, s, path[i])
  PROVE  Matches(model, t, path, i)
  <1> DEFINE e == LastEnd
             p == path[i]
  <1>1. /\ stages \in Sentence /\ model \in Models /\ i \in Nat
        /\ e \in ModelOrder - 1 .. Len(stages) /\ e + 1 = i /\ i <= Len(stages)
        /\ ModelOrder \in Nat /\ e \in Nat /\ e >= 1 /\ Len(stages) \in Nat
    BY EndFacts, OrdersAssumption
  <1>2. /\ IsState(s) /\ FollowsStages(stages, s, e) /\ IsState(t)
        /\ EndsLike(s, shorter, e) /\ s.distance <= PathCost(model, shorter)
    BY DEF Inv, TypeOK, FollowInv, Matches
  <1>3. /\ shorter \in [1 .. e -> Possibility]
        /\ path \in [1 .. i -> Possibility] /\ \A k \in 1 .. i : path[k] \in stages[k]
    BY DEF PathsTo
  <1> HIDE DEF e
  <1>4. /\ shorter \in Seq(Possibility) /\ Len(shorter) = e
        /\ path \in Seq(Possibility) /\ Len(path) = i
        /\ p \in Possibility /\ p \in stages[e + 1]
    <2>1. shorter \in Seq(Possibility) /\ Len(shorter) = e
      BY <1>1, <1>3
    <2>2. path \in Seq(Possibility) /\ Len(path) = i
      BY <1>1, <1>3
    <2>3. i \in 1 .. i /\ i = e + 1
      BY <1>1
    <2>4. path[i] \in Possibility /\ path[i] \in stages[i]
      BY <1>3, <2>3
    <2> QED BY <2>1, <2>2, <2>3, <2>4
  <1>5. path = Append(shorter, p)
    <2>1. /\ Append(shorter, p) \in Seq(Possibility) /\ Len(Append(shorter, p)) = e + 1
          /\ \A k \in 1 .. e : Append(shorter, p)[k] = shorter[k]
          /\ Append(shorter, p)[e + 1] = p
      BY <1>4, AppendProperties
    <2>2. ASSUME NEW k \in 1 .. Len(path)
          PROVE  path[k] = Append(shorter, p)[k]
      <3>1. CASE k = e + 1
        BY <1>1, <2>1, <3>1
      <3>2. CASE k # e + 1
        <4>1. k \in 1 .. e
          BY <1>1, <1>4, <3>2
        <4> QED BY <2>1, <4>1 DEF e
      <3> QED BY <3>1, <3>2
    <2>3. Len(path) = Len(Append(shorter, p))
      BY <1>1, <1>4, <2>1
    <2> HIDE DEF p
    <2> QED BY <1>4, <2>1, <2>2, <2>3, SeqEqual
  <1> HIDE DEF p
  <1>6. PICK step \in Int :
           /\ ExtensionCost(model, s, p) = s.distance + step
           /\ PathCost(model, Append(shorter, p)) = PathCost(model, shorter) + step
           /\ \A cost : EndsLike(Child(s, p, cost), Append(shorter, p), e + 1)
    <2>1. ModelOrder > 1 /\ e + 1 <= Len(stages)
      BY <1>1
    <2> QED BY <1>1, <1>2, <1>4, <2>1, ExtendedPath
  <1>7. EndsLike(t, path, i)
    <2>1. s.history # <<>>
      BY <1>1, <1>2, ResultFacts
    <2>2. Child(s, p, 0).history = t.history
      BY <2>1 DEF Child, State, StandsFor, p
    <2>3. EndsLike(Child(s, p, 0), path, i)
      BY <1>1, <1>5, <1>6
    <2> QED BY <2>2, <2>3 DEF EndsLike
  <1>8. t.distance <= PathCost(model, path)
    <2>1. PathCost(model, shorter) \in Int /\ s.distance \in Int /\ t.distance \in Int
      BY <1>1, <1>2, <1>4, PathCostIsInt DEF IsState
    <2>2. t.distance <= s.distance + step
      BY <1>6 DEF StandsFor, p
    <2>3. t.distance <= PathCost(model, shorter) + step
      BY <1>2, <2>1, <2>2
    <2> QED BY <1>5, <1>6, <2>3
  <1> QED BY <1>7, <1>8 DEF Matches

LEMMA EndStageLosesNothing ==
  ASSUME Inv, StatesAreToldApart, Beam = 0, FollowInv, NothingLost,
         NEW least \in Int, IsLeast(least), PruningExceeds(least), LowInv(least),
         EndStage
  PROVE  NothingLost'
  <1>1. /\ pc = "search" /\ toTry = {} /\ toVisit = {} /\ ModelOrder > 1
        /\ UNCHANGED <<model, stages, current, toTry, result>>
    BY DEF EndStage, StatesAreToldApart
  <1>2. last' = new
    <2>1. new # {}
      BY <1>1 DEF Inv, WorkLeft
    <2>2. last' \in Beamed(Surviving(new, best))
      BY DEF EndStage
    <2> QED BY <2>1, <2>2, NothingFiltered
  <1>3. LastEnd' = i
    <2>1. i \in Int
      BY StageFacts DEF Inv
    <2> QED BY <1>1, <2>1 DEF EndStage, LastEnd
  <1>4. PathsMatched(model, stages, new, i)
    <2> SUFFICES ASSUME NEW path \in PathsTo(stages, i)
                 PROVE  \E t \in new : Matches(model, t, path, i)
      BY DEF PathsMatched
    <2>1. /\ i \in Nat /\ LastEnd \in Nat /\ LastEnd + 1 = i
      BY <1>1, EndFacts, OrdersAssumption
    <2>2. path \in [1 .. i -> Possibility] /\ \A k \in 1 .. i : path[k] \in stages[k]
      BY DEF PathsTo
    <2> DEFINE shorter == [k \in 1 .. LastEnd |-> path[k]]
    <2>3. shorter \in PathsTo(stages, LastEnd)
      BY <2>1, <2>2 DEF PathsTo
    <2>4. \A k \in 1 .. LastEnd : shorter[k] = path[k]
      OBVIOUS
    <2> HIDE DEF shorter
    <2>5. PICK s \in last : Matches(model, s, shorter, LastEnd)
      BY <2>3 DEF NothingLost, PathsMatched
    <2>6. path[i] \in stages[i]
      BY <1>1, <2>2, EndFacts, OrdersAssumption
    <2>7. PICK t \in new : StandsFor(model, t, s, path[i])
      BY <1>1, <2>6 DEF NothingLost, TriedAreStored, Tried
    <2>8. Matches(model, t, path, i)
      BY <1>1, <2>3, <2>4, <2>5, <2>7, LongerPathMatched
    <2> QED BY <2>8
  <1>5. PathsMatched(model', stages', last', LastEnd')
    BY <1>1, <1>2, <1>3, <1>4
  <1>6. pc' # "done" /\ (pc' = "search" => toVisit' = last')
    BY <1>1 DEF EndStage
  <1> QED BY <1>1, <1>5, <1>6 DEF NothingLost, TriedAreStored, Tried

LEMMA BacktrackLosesNothing ==
  ASSUME Inv, StatesAreToldApart, FollowInv, PathInv, NothingLost, Backtrack
  PROVE  NothingLost'
  <1>1. /\ pc = "backtrack" /\ pc' = "done" /\ i = Len(stages) /\ ModelOrder > 1
        /\ UNCHANGED <<model, stages, i, last, new, toVisit, current, toTry>>
    BY DEF Backtrack, Inv, StatesAreToldApart
  <1>2. PICK s \in last : (\A t \in last : s.distance <= t.distance) /\ result' = Result(s)
    BY DEF Backtrack, Cheapest
  <1>3. LastEnd = Len(stages) /\ LastEnd' = LastEnd
    BY <1>1 DEF LastEnd
  <1>4. PathCost(model, Result(s)) = s.distance
    BY <1>2 DEF PathInv, OnPath
  <1>5. ASSUME NEW other \in Paths(stages)
        PROVE  PathCost(model, Result(s)) <= PathCost(model, other)
    <2>1. other \in PathsTo(stages, LastEnd)
      BY <1>3 DEF Paths, PathsTo
    <2>2. PICK t \in last : t.distance <= PathCost(model, other)
      BY <2>1 DEF NothingLost, PathsMatched, Matches
    <2>3. PathCost(model, other) \in Int
      <3>1. other \in [1 .. Len(stages) -> Possibility] /\ Len(stages) \in Nat
        BY <1>1, EndFacts DEF Paths
      <3>2. other \in Seq(Possibility)
        BY <3>1
      <3> QED BY <1>1, <3>2, EndFacts, PathCostIsInt
    <2>4. s.distance \in Int /\ t.distance \in Int /\ s.distance <= t.distance
      BY <1>2, <2>2 DEF Inv, TypeOK, IsState
    <2> QED BY <1>4, <2>2, <2>3, <2>4
  <1>6. ResultIsLeast(model, result)'
    BY <1>1, <1>2, <1>5 DEF ResultIsLeast
  <1>7. PathsMatched(model', stages', last', LastEnd')
    BY <1>1, <1>3 DEF NothingLost
  <1> QED BY <1>1, <1>6, <1>7 DEF NothingLost

LEMMA LosesNothing ==
  ASSUME Inv, StatesAreToldApart, Beam = 0, FollowInv, PathInv, NothingLost,
         NEW least \in Int, IsLeast(least), PruningExceeds(least), LowInv(least),
         [Next]_vars
  PROVE  NothingLost'
  <1>1. CASE VisitState
    BY <1>1, VisitLosesNothing
  <1>2. ASSUME NEW p \in toTry, TryPossibility(p) PROVE NothingLost'
    BY <1>2, TryLosesNothing
  <1>3. CASE EndStage
    BY <1>3, EndStageLosesNothing
  <1>4. CASE Backtrack
    BY <1>4, BacktrackLosesNothing
  <1>5. CASE NextSentence
    <2>1. /\ stages' \in Sentence /\ pc' = "search" /\ i' = ModelOrder
          /\ last' = {InitialState} /\ toVisit' = {InitialState} /\ toTry' = {}
      BY <1>5 DEF NextSentence, Sentence
    <2>2. LastEnd' = ModelOrder - 1 /\ ModelOrder > 1
      BY <2>1, OrdersAssumption DEF LastEnd, StatesAreToldApart
    <2>3. PathsMatched(model', stages', last', LastEnd')
      BY <2>1, <2>2, InitialMatches DEF PathsMatched, Matches
    <2> QED BY <2>1, <2>3 DEF NothingLost, TriedAreStored, Tried
  <1>6. CASE UNCHANGED vars
    BY <1>6 DEF vars, NothingLost, TriedAreStored, Tried, ResultIsLeast, LastEnd
  <1> QED BY <1>1, <1>2, <1>3, <1>4, <1>5, <1>6 DEF Next, Decode

(* With exact settings the decoder returns a cheapest of all the paths     *)
(* through the possibilities, for every sentence and language model:       *)
(* merging states by their identifiers forgets no path that could win.     *)
THEOREM ResultAlwaysIsCheapest ==
  ASSUME IsExact
  PROVE  Spec => []ResultIsCheapest
  <1>1. StatesAreToldApart /\ Beam = 0
    BY DEF IsExact
  <1>2. PICK least \in Int : IsLeast(least) /\ PruningExceeds(least)
    BY DEF IsExact
  <1>3. Init => LowInv(least) /\ NothingLost
    <2> SUFFICES ASSUME Init PROVE LowInv(least) /\ NothingLost
      OBVIOUS
    <2>1. /\ stages \in Sentence /\ pc = "search" /\ i = ModelOrder
          /\ last = {InitialState} /\ new = {} /\ toVisit = {InitialState} /\ toTry = {}
      BY DEF Init, Sentence
    <2>2. LastStage = 0 /\ 0 * least = 0
      BY <2>1, OrdersAssumption DEF LastStage
    <2>3. LowInv(least)
      BY <2>1, <2>2, InitialStateFacts DEF LowInv, Above
    <2> QED BY <1>1, <2>1, <2>3, StartLosesNothing
  <1>4. /\ Inv /\ FollowInv /\ PathInv /\ LowInv(least) /\ NothingLost /\ [Next]_vars
        => LowInv(least)' /\ NothingLost'
    BY <1>1, <1>2, LowStep, LosesNothing
  <1>5. Spec => [](Inv /\ FollowInv /\ PathInv)
    BY <1>1, PathInvIsInvariant
  <1>6. NothingLost => ResultIsCheapest
    BY DEF NothingLost, ResultIsLeast, ResultIsCheapest
  <1> HIDE DEF ResultIsCheapest
  <1> QED BY <1>3, <1>4, <1>5, <1>6, PTL DEF Spec
------------------------------------------------------------------------------
(* The stages do not depend on the order in which extensions are tried.   *)

LEMMA SameOperators ==
  /\ \A s : Stages!UniqueIdentifier(s) = UniqueIdentifier(s)
  /\ \A s, t : Stages!Equals(s, t) <=> Equals(s, t)
  /\ \A S : Stages!Cheapest(S) = Cheapest(S)
  /\ \A s, p, c : Stages!Child(s, p, c) = Child(s, p, c)
  /\ \A m, s, p : Stages!ExtensionCost(m, s, p) = ExtensionCost(m, s, p)
  /\ \A s : Stages!Result(s) = Result(s)
  /\ Stages!InitialState = InitialState
  /\ \A inner : Stages!StagePossibilities(inner) = StagePossibilities(inner)
  <1>1. \A s : Stages!UniqueIdentifier(s) = UniqueIdentifier(s)
    BY DEF Stages!UniqueIdentifier, UniqueIdentifier
  <1>2. \A s, t : Stages!Equals(s, t) <=> Equals(s, t)
    BY <1>1 DEF Stages!Equals, Equals
  <1>3. \A S : Stages!Cheapest(S) = Cheapest(S)
    BY DEF Stages!Cheapest, Cheapest
  <1>4. \A s, p, c : Stages!Child(s, p, c) = Child(s, p, c)
    BY DEF Stages!Child, Child, Stages!State, State, Stages!Chain, Chain,
           Stages!YoungestHistory, YoungestHistory
  <1>5. \A m, s, p : Stages!ExtensionCost(m, s, p) = ExtensionCost(m, s, p)
    BY DEF Stages!ExtensionCost, ExtensionCost, Stages!EmissionCost, EmissionCost,
           Stages!ComputeTransitionCost, ComputeTransitionCost, Stages!NGram, NGram
  <1>6. \A s : Stages!Result(s) = Result(s)
    BY DEF Stages!Result, Result, Stages!Padding, Padding, Stages!Chain, Chain,
           Stages!YoungestHistory, YoungestHistory
  <1>7. Stages!InitialState = InitialState
    BY DEF Stages!InitialState, InitialState, Stages!State, State, Stages!Padding, Padding
  <1>8. \A inner : Stages!StagePossibilities(inner) = StagePossibilities(inner)
    BY DEF Stages!StagePossibilities, StagePossibilities, Stages!Padding, Padding
  <1> QED BY <1>1, <1>2, <1>3, <1>4, <1>5, <1>6, <1>7, <1>8

(* What new has to do with the extensions C, where b is the cost of the    *)
(* cheapest state: an extension is too expensive or a state stands for it, *)
(* and every state got its distance, ancestor and history from extensions. *)
Covered(N, b, c) ==
  \/ c.distance > b + Pruning
  \/ \E t \in N : Equals(t, c) /\ t.distance <= c.distance

ComesFrom(C, t) ==
  /\ \E c \in C : Equals(c, t) /\ c.distance = t.distance /\ c.ancestor = t.ancestor
  /\ \E c \in C : Equals(c, t) /\ c.history = t.history

ToldApart(N) == \A t, u \in N : Equals(t, u) => t = u

IsCheapestOf(b, N) == (\E t \in N : t.distance = b) /\ \A t \in N : b <= t.distance

LEMMA LeastDistanceIs ==
  ASSUME NEW C, NEW c \in C, \A d \in C : d.distance \in Int,
         \A d \in C : c.distance <= d.distance
  PROVE  Stages!LeastDistance(C) = c.distance
  <1> DEFINE cheapest == CHOOSE d \in Stages!Cheapest(C) : TRUE
  <1>1. Stages!Cheapest(C) = {d \in C : \A e \in C : d.distance <= e.distance}
    BY DEF Stages!Cheapest
  <1>2. c \in Stages!Cheapest(C)
    BY <1>1
  <1>3. cheapest \in Stages!Cheapest(C)
    BY <1>2
  <1>4. cheapest \in C /\ cheapest.distance <= c.distance /\ c.distance <= cheapest.distance
    BY <1>1, <1>3
  <1>5. Stages!LeastDistance(C) = cheapest.distance
    BY DEF Stages!LeastDistance
  <1> HIDE DEF cheapest
  <1>6. cheapest.distance \in Int /\ c.distance \in Int
    BY <1>4
  <1> QED BY <1>4, <1>5, <1>6

LEMMA CheapestExists ==
  ASSUME NEW D, D # {}, NEW b \in Int, \A d \in D : d.distance \in Int /\ b <= d.distance
  PROVE  \E c \in D : \A d \in D : c.distance <= d.distance
  <1> DEFINE above == {d.distance - b : d \in D}
  <1>1. above \in SUBSET Nat /\ above # {}
    <2>1. \A d \in D : d.distance - b \in Nat
      OBVIOUS
    <2> QED BY <2>1
  <1>2. \A d \in D : d.distance - b \in above
    OBVIOUS
  <1>3. \A n \in above : \E d \in D : n = d.distance - b
    OBVIOUS
  <1> HIDE DEF above
  <1>4. PICK n \in above : \A k \in above : n <= k
    BY <1>1, LeastExists
  <1>5. PICK c \in D : n = c.distance - b
    BY <1>3
  <1>6. ASSUME NEW d \in D
        PROVE  c.distance <= d.distance
    <2>1. c.distance - b <= d.distance - b
      BY <1>2, <1>4, <1>5
    <2> QED BY <2>1
  <1> QED BY <1>6

LEMMA SameIsEquivalence ==
  /\ \A s : Equals(s, s)
  /\ \A s, t : Equals(s, t) => Equals(t, s)
  /\ \A s, t, u : Equals(s, t) /\ Equals(t, u) => Equals(s, u)
  BY DEF Equals

(* The identifiers of states that are told apart are as many.              *)
LEMMA IdentifiersAreAsMany ==
  ASSUME NEW N, IsFiniteSet(N), ToldApart(N)
  PROVE  Cardinality(Stages!Identifiers(N)) = Cardinality(N)
  <1> DEFINE f == [t \in N |-> UniqueIdentifier(t)]
             ids == {UniqueIdentifier(t) : t \in N}
  <1>1. Stages!Identifiers(N) = ids
    BY SameOperators DEF Stages!Identifiers
  <1>2. f \in [N -> ids]
    OBVIOUS
  <1>3. \A t, u \in N : f[t] = f[u] => t = u
    BY DEF ToldApart, Equals
  <1>4. \A x \in ids : \E t \in N : f[t] = x
    OBVIOUS
  <1> HIDE DEF f, ids
  <1>5. f \in Bijection(N, ids)
    BY <1>2, <1>3, <1>4 DEF Bijection, Injection, Surjection, IsInjective
  <1>6. ExistsBijection(N, ids)
    BY <1>5 DEF ExistsBijection
  <1> QED BY <1>1, <1>6, FS_Bijection

(* IsNextStage, for the set of all extensions.                             *)
IsDetermined(C, kept) ==
  LET missing == {c \in Stages!Competing(C) :
                    Stages!UniqueIdentifier(c) \notin Stages!Identifiers(kept)}
      room == Cardinality(Stages!Identifiers(Stages!Competing(C)))
  IN  /\ \A s \in kept : Stages!Represents(s, C)
      /\ Stages!Identifiers(kept) \subseteq Stages!Identifiers(Stages!Competing(C))
      /\ Cardinality(kept) = IF Beam = 0 \/ room <= Beam THEN room ELSE Beam
      /\ Cardinality(Stages!Identifiers(kept)) = Cardinality(kept)
      /\ \A s \in kept, c \in missing :
           s.distance <= Stages!LeastDistance(Stages!Mergeable(C, c))

LEMMA NextStageIsDetermined ==
  ASSUME NEW T, NEW P, NEW kept
  PROVE  Stages!IsNextStage(T, P, kept) <=> IsDetermined(Stages!Extensions(T, P), kept)
  <1> DEFINE C == Stages!Extensions(T, P)
  <1>1. \A S : Stages!Cardinality(S) = Cardinality(S)
    BY DEF Stages!Cardinality, Cardinality
  <1>2. Stages!IsNextStage(T, P, kept) <=> IsDetermined(C, kept)
    BY <1>1 DEF Stages!IsNextStage, IsDetermined
  <1> QED BY <1>2

(* The stage that is kept is the one that the extensions determine.        *)
LEMMA StageIsDetermined ==
  ASSUME NEW C, NEW N, NEW b \in Int, IsFiniteSet(N),
         \A c \in C : c.distance \in Int,
         \A t \in N : t.distance \in Int,
         \A c \in C : Covered(N, b, c),
         \A t \in N : ComesFrom(C, t),
         ToldApart(N), IsCheapestOf(b, N),
         NEW kept \in Beamed(Surviving(N, b))
  PROVE  IsDetermined(C, kept)
  <1> DEFINE S == Surviving(N, b)
             Same(t) == Stages!Mergeable(C, t)
             Least(t) == Stages!LeastDistance(Same(t))
             ids == Stages!Identifiers(Stages!Competing(C))
  <1>1. Pruning \in Nat \ {0} /\ Beam \in Nat
    BY OrdersAssumption
  <1>2. S = {t \in N : t.distance < b + Pruning} /\ S \in SUBSET N
    BY DEF Surviving
  <1>3. \A t : Same(t) = {c \in C : Equals(c, t)}
    BY SameOperators DEF Stages!Mergeable
  <1>4. \A t : \A c \in Same(t) : c \in C /\ c.distance \in Int
    BY <1>3
  <1> HIDE DEF S, Same
  <1>5. ASSUME NEW t \in S, NEW c \in Same(t)
        PROVE  t.distance <= c.distance
    <2>1. t \in N /\ t.distance < b + Pruning /\ t.distance \in Int
      BY <1>2
    <2>2. c \in C /\ Equals(c, t) /\ c.distance \in Int
      BY <1>3
    <2>3. CASE c.distance > b + Pruning
      BY <1>1, <2>1, <2>2, <2>3
    <2>4. CASE ~(c.distance > b + Pruning)
      <3>1. PICK u \in N : Equals(u, c) /\ u.distance <= c.distance
        BY <2>2, <2>4 DEF Covered
      <3>2. u = t
        BY <2>1, <2>2, <3>1, SameIsEquivalence DEF ToldApart
      <3> QED BY <3>1, <3>2
    <2> QED BY <2>3, <2>4
  <1>6. ASSUME NEW t \in S
        PROVE  /\ Same(t) # {} /\ Least(t) = t.distance
               /\ Stages!Represents(t, C)
    <2>1. t \in N
      BY <1>2
    <2>2. PICK c \in C : /\ Equals(c, t) /\ c.distance = t.distance
                         /\ c.ancestor = t.ancestor
      BY <2>1 DEF ComesFrom
    <2>3. PICK d \in C : Equals(d, t) /\ d.history = t.history
      BY <2>1 DEF ComesFrom
    <2>4. c \in Same(t) /\ d \in Same(t)
      BY <1>3, <2>2, <2>3
    <2>5. \A e \in Same(t) : c.distance <= e.distance
      BY <1>5, <2>2
    <2>6. Least(t) = t.distance
      BY <1>4, <2>2, <2>4, <2>5, LeastDistanceIs
    <2>7. c \in Stages!Cheapest(Same(t))
      BY <2>4, <2>5 DEF Stages!Cheapest
    <2>8. Stages!Represents(t, C)
      BY <2>2, <2>3, <2>4, <2>6, <2>7 DEF Stages!Represents, Same
    <2> QED BY <2>4, <2>6, <2>8
  <1>7. Stages!LeastDistance(C) = b /\ \A d \in C : b <= d.distance
    <2>1. PICK t \in N : t.distance = b
      BY DEF IsCheapestOf
    <2>2. PICK c \in C : c.distance = b
      BY <2>1 DEF ComesFrom
    <2>3. ASSUME NEW d \in C
          PROVE  b <= d.distance
      <3>1. d.distance \in Int /\ Covered(N, b, d)
        OBVIOUS
      <3>2. CASE d.distance > b + Pruning
        BY <1>1, <3>1, <3>2
      <3>3. CASE ~(d.distance > b + Pruning)
        <4>1. PICK u \in N : u.distance <= d.distance
          BY <3>1, <3>3 DEF Covered
        <4>2. b <= u.distance /\ u.distance \in Int
          BY DEF IsCheapestOf
        <4> QED BY <3>1, <4>1, <4>2
      <3> QED BY <3>2, <3>3
    <2> QED BY <2>2, <2>3, LeastDistanceIs
  <1>8. Stages!Competing(C) = {c \in C : Least(c) < b + Pruning}
    BY <1>7 DEF Stages!Competing, Same
  <1> HIDE DEF Least
  <1>9. ASSUME NEW t \in S
        PROVE  \E c \in Stages!Competing(C) : UniqueIdentifier(c) = UniqueIdentifier(t)
    <2>1. PICK c \in Same(t) : TRUE
      BY <1>6
    <2>2. c \in C /\ Equals(c, t)
      BY <1>3
    <2>3. Same(c) = Same(t)
      BY <1>3, <2>2, SameIsEquivalence
    <2>4. Least(c) = t.distance /\ t.distance < b + Pruning
      BY <1>2, <1>6, <2>3 DEF Least
    <2> QED BY <1>8, <2>2, <2>4 DEF Equals
  <1>10. ASSUME NEW c \in Stages!Competing(C)
         PROVE  \E t \in S : Equals(t, c) /\ t.distance = Least(c)
    <2>1. c \in C /\ Least(c) < b + Pruning
      BY <1>8
    <2>2. c \in Same(c)
      BY <1>3, <2>1, SameIsEquivalence
    <2>3. \A d \in Same(c) : d.distance \in Int /\ b <= d.distance
      BY <1>4, <1>7
    <2>4. PICK d \in Same(c) : \A e \in Same(c) : d.distance <= e.distance
      BY <2>2, <2>3, CheapestExists
    <2>5. Least(c) = d.distance
      BY <1>4, <2>4, LeastDistanceIs DEF Least
    <2>6. d \in C /\ Equals(d, c) /\ d.distance \in Int /\ d.distance < b + Pruning
      BY <1>3, <2>1, <2>3, <2>5
    <2>7. ~(d.distance > b + Pruning)
      BY <1>1, <2>6
    <2>8. PICK t \in N : Equals(t, d) /\ t.distance <= d.distance
      BY <2>6, <2>7 DEF Covered
    <2>9. t.distance \in Int /\ t.distance < b + Pruning
      BY <1>1, <2>6, <2>8
    <2>10. t \in S
      BY <1>2, <2>9
    <2>11. Equals(t, c)
      BY <2>6, <2>8, SameIsEquivalence
    <2>12. Same(t) = Same(c)
      BY <1>3, <2>11, SameIsEquivalence
    <2>13. t.distance = Least(c)
      BY <1>6, <2>10, <2>12 DEF Least
    <2> QED BY <2>10, <2>11, <2>13
  <1>11. Stages!Identifiers(S) = ids
    <2>1. \A T : Stages!Identifiers(T) = {UniqueIdentifier(t) : t \in T}
      BY SameOperators DEF Stages!Identifiers
    <2>2. ids = {UniqueIdentifier(c) : c \in Stages!Competing(C)}
      BY <2>1
    <2> HIDE DEF ids
    <2>3. ASSUME NEW x \in Stages!Identifiers(S)
          PROVE  x \in ids
      BY <1>9, <2>1, <2>2
    <2>4. ASSUME NEW x \in ids
          PROVE  x \in Stages!Identifiers(S)
      <3>1. PICK c \in Stages!Competing(C) : x = UniqueIdentifier(c)
        BY <2>2
      <3>2. PICK t \in S : UniqueIdentifier(t) = x
        BY <1>10, <3>1 DEF Equals
      <3> QED BY <2>1, <3>2
    <2> QED BY <2>3, <2>4
  <1> HIDE DEF ids
  <1>12. kept \in SUBSET S
    BY DEF Beamed, S
  <1>13. /\ IsFiniteSet(S) /\ ToldApart(S)
         /\ IsFiniteSet(kept) /\ ToldApart(kept)
    <2>1. IsFiniteSet(S)
      BY <1>2, FS_Subset
    <2>2. IsFiniteSet(kept)
      BY <1>12, <2>1, FS_Subset
    <2> QED BY <1>2, <1>12, <2>1, <2>2 DEF ToldApart
  <1>14. /\ Cardinality(ids) = Cardinality(S)
         /\ Cardinality(Stages!Identifiers(kept)) = Cardinality(kept)
    <2>1. Cardinality(Stages!Identifiers(S)) = Cardinality(S)
      BY <1>13, IdentifiersAreAsMany
    <2>2. Cardinality(Stages!Identifiers(kept)) = Cardinality(kept)
      BY <1>13, IdentifiersAreAsMany
    <2> QED BY <1>11, <2>1, <2>2
  <1>15. /\ Beam = 0 \/ Cardinality(S) <= Beam => kept = S
         /\ ~(Beam = 0 \/ Cardinality(S) <= Beam) =>
              Cardinality(kept) = Beam /\ \A k \in kept, d \in S \ kept : k.distance <= d.distance
    BY DEF Beamed, S
  <1>16. Cardinality(kept) = IF Beam = 0 \/ Cardinality(ids) <= Beam
                             THEN Cardinality(ids) ELSE Beam
    BY <1>14, <1>15
  <1>17. \A s \in kept : Stages!Represents(s, C)
    BY <1>6, <1>12
  <1>18. Stages!Identifiers(kept) \subseteq ids
    <2>1. \A T : Stages!Identifiers(T) = {UniqueIdentifier(t) : t \in T}
      BY SameOperators DEF Stages!Identifiers
    <2>2. Stages!Identifiers(kept) \subseteq Stages!Identifiers(S)
      BY <1>12, <2>1
    <2> QED BY <1>11, <2>2
  <1>19. ASSUME NEW s \in kept, NEW c \in Stages!Competing(C),
                Stages!UniqueIdentifier(c) \notin Stages!Identifiers(kept)
         PROVE  s.distance <= Least(c)
    <2>1. PICK t \in S : Equals(t, c) /\ t.distance = Least(c)
      BY <1>10
    <2>2. t \notin kept
      BY <1>19, <2>1, SameOperators DEF Equals, Stages!Identifiers
    <2>3. s.distance <= t.distance
      BY <1>15, <2>2
    <2> QED BY <2>1, <2>3
  <1> QED BY <1>14, <1>16, <1>17, <1>18, <1>19 DEF ids, Least, Same, IsDetermined

-----------------------------------------------------------------------------

ExtensionOf(s, p) == Child(s, p, ExtensionCost(model, s, p))

AllExtensions == {ExtensionOf(pair[1], pair[2]) : pair \in last \X stages[i]}

(* What has been tried is covered by the states that are stored.           *)
StageSummary ==
  /\ \A s \in last, p \in stages[i] : Tried(s, p) => Covered(new, best, ExtensionOf(s, p))
  /\ \A t \in new : ComesFrom(AllExtensions, t)
  /\ ToldApart(new)
  /\ IsFiniteSet(new)
  /\ toTry # {} => current \notin toVisit

OrderInv == RisingCosts(model) /\ pc = "search" => StageSummary

LEMMA ExtensionOfFacts ==
  ASSUME Inv, NEW s \in last, NEW p \in stages[i]
  PROVE  /\ ExtensionOf(s, p) \in AllExtensions
         /\ ExtensionOf(s, p).distance = ExtensionCost(model, s, p)
         /\ ExtensionCost(model, s, p) \in Int
         /\ EmissionCost(s, p) \in Int
         /\ RisingCosts(model) => EmissionCost(s, p) <= ExtensionCost(model, s, p)
  <1>1. TypeOK /\ IsState(s) /\ p \in Possibility /\ model \in Models
    BY StageFacts DEF Inv, TypeOK
  <1>2. EmissionCost(s, p) \in Int /\ ExtensionCost(model, s, p) \in Int
    BY <1>1, CostFacts
  <1>3. ExtensionOf(s, p).distance = ExtensionCost(model, s, p)
    BY <1>1, <1>2, ChildFacts DEF ExtensionOf
  <1>4. ExtensionOf(s, p) \in AllExtensions
    <2>1. <<s, p>> \in last \X stages[i]
      OBVIOUS
    <2> QED BY <2>1 DEF AllExtensions
  <1>5. ASSUME RisingCosts(model)
        PROVE  EmissionCost(s, p) <= ExtensionCost(model, s, p)
    <2>1. NGram(s, p) \in [1 .. ModelOrder -> Ids]
      <3>1. s.history \in Seq(Possibility)
        BY <1>1 DEF IsState
      <3>2. ASSUME NEW j \in 1 .. ModelOrder
            PROVE  (IF j <= Len(s.history) THEN s.history[j] ELSE p) \in Possibility
        BY <1>1, <3>1, ElementOfSeq, LenProperties, OrdersAssumption
      <3> QED BY <3>2 DEF NGram, Ids
    <2>2. /\ ComputeTransitionCost(model, s, p) >= 0
          /\ ComputeTransitionCost(model, s, p) \in Int
      BY <1>1, <1>5, <2>1, TransitionAssumption DEF RisingCosts, ComputeTransitionCost
    <2> QED BY <1>2, <2>2 DEF ExtensionCost
  <1> QED BY <1>2, <1>3, <1>4, <1>5

LEMMA VisitKeepsOrder ==
  ASSUME Inv, OrderInv, VisitState
  PROVE  OrderInv'
  <1>1. /\ pc = "search" /\ toTry = {} /\ toTry' = stages[i]
        /\ current' \in toVisit /\ toVisit' = toVisit \ {current'}
        /\ UNCHANGED <<model, stages, i, last, result, pc, new, best>>
    BY DEF VisitState, Cheapest, search
  <1> SUFFICES ASSUME RisingCosts(model)
               PROVE  StageSummary'
    BY <1>1 DEF OrderInv
  <1>2. StageSummary
    BY <1>1 DEF OrderInv
  <1>3. AllExtensions' = AllExtensions /\ \A s, p : ExtensionOf(s, p)' = ExtensionOf(s, p)
    BY <1>1 DEF AllExtensions, ExtensionOf
  <1>4. ASSUME NEW s \in last, NEW p \in stages[i], Tried(s, p)'
        PROVE  Covered(new, best, ExtensionOf(s, p))
    <2>1. s \notin toVisit
      BY <1>1, <1>4 DEF Tried
    <2>2. Tried(s, p)
      BY <1>1, <2>1 DEF Tried
    <2> QED BY <1>2, <2>2 DEF StageSummary
  <1> QED BY <1>1, <1>2, <1>3, <1>4 DEF StageSummary

(* A possibility is tried: what is left to show is that its extension is   *)
(* covered and that what was covered still is.                             *)
LEMMA TryKeepsOrder ==
  ASSUME Inv, OrderInv, RisingCosts(model), NEW p, IsNext(p), toTry' = toTry \ {p},
         UNCHANGED <<model, stages, i, last, result, pc, toVisit, current>>,
         Covered(new', best', Extended(p)),
         \A c : c.distance \in Int /\ Covered(new, best, c) => Covered(new', best', c),
         \A t \in new' : ComesFrom(AllExtensions, t),
         ToldApart(new'), IsFiniteSet(new')
  PROVE  StageSummary'
  <1>1. StageSummary /\ p \in toTry /\ current \notin toVisit
    BY DEF OrderInv, IsNext, StageSummary
  <1>2. AllExtensions' = AllExtensions /\ \A s, q : ExtensionOf(s, q)' = ExtensionOf(s, q)
    BY DEF AllExtensions, ExtensionOf
  <1>3. ASSUME NEW s \in last, NEW q \in stages[i], Tried(s, q)'
        PROVE  Covered(new', best', ExtensionOf(s, q))
    <2>1. CASE s = current /\ q = p
      BY <2>1 DEF ExtensionOf, Extended
    <2>2. CASE ~(s = current /\ q = p)
      <3>1. Tried(s, q)
        BY <1>3, <2>2 DEF Tried
      <3>2. Covered(new, best, ExtensionOf(s, q))
        BY <1>1, <3>1 DEF StageSummary
      <3>3. ExtensionOf(s, q).distance \in Int
        BY ExtensionOfFacts
      <3> QED BY <3>2, <3>3
    <2> QED BY <2>1, <2>2
  <1> QED BY <1>1, <1>2, <1>3 DEF StageSummary

LEMMA PruneKeepsOrder ==
  ASSUME Inv, OrderInv, RisingCosts(model), NEW p,
         PruneOnEmission(p) \/ PruneOnTransition(p)
  PROVE  StageSummary'
  <1>1. /\ IsNext(p) /\ toTry' = toTry \ {p} /\ pc = "search"
        /\ UNCHANGED <<model, stages, i, last, result, pc, new, best, toVisit, current>>
    BY DEF PruneOnEmission, PruneOnTransition, search, IsNext
  <1>2. current \in last /\ p \in stages[i]
    BY <1>1, ExtensionFacts DEF IsNext, Inv, TypeOK
  <1>3. Extended(p).distance > best + Pruning
    <2>1. /\ Extended(p).distance = ExtensionCost(model, current, p)
          /\ EmissionCost(current, p) \in Int /\ ExtensionCost(model, current, p) \in Int
          /\ EmissionCost(current, p) <= ExtensionCost(model, current, p)
      BY <1>1, <1>2, ExtensionFacts, ExtensionOfFacts
    <2>2. best + Pruning \in Int
      BY OrdersAssumption DEF Inv, TypeOK
    <2>3. \/ EmissionCost(current, p) > best + Pruning
          \/ ExtensionCost(model, current, p) > best + Pruning
      BY DEF PruneOnEmission, PruneOnTransition, TooExpensive
    <2> QED BY <2>1, <2>2, <2>3
  <1>4. Covered(new', best', Extended(p))
    BY <1>1, <1>3 DEF Covered
  <1>5. StageSummary
    BY <1>1 DEF OrderInv
  <1> QED BY <1>1, <1>4, <1>5, TryKeepsOrder DEF StageSummary

LEMMA ExtendKeepsOrder ==
  ASSUME Inv, OrderInv, RisingCosts(model), NEW p,
         InsertState(p) \/ ImproveState(p) \/ KeepStored(p)
  PROVE  StageSummary'
  <1> DEFINE c == Extended(p)
  <1>1. Extend(p)
    BY DEF InsertState, ImproveState, KeepStored
  <1>2. /\ IsNext(p) /\ pc = "search" /\ toTry' = toTry \ {p}
        /\ best \in Int /\ best' \in Int /\ best' <= best
        /\ UNCHANGED <<model, stages, i, last, result, pc, toVisit, current>>
    BY <1>1, ExtendFacts
  <1>3. current \in last /\ p \in stages[i] /\ IsState(c) /\ c.distance \in Int
    BY <1>2, ExtensionFacts DEF IsNext, Inv, TypeOK, IsState
  <1>4. c \in AllExtensions
    BY <1>3, ExtensionOfFacts DEF Extended, ExtensionOf
  <1>5. StageSummary
    BY <1>2 DEF OrderInv
  <1>6. \A t \in new : ComesFrom(AllExtensions, t) /\ t.distance \in Int /\ IsState(t)
    BY <1>5 DEF StageSummary, Inv, TypeOK, IsState
  <1>7. ToldApart(new) /\ IsFiniteSet(new)
    BY <1>5 DEF StageSummary
  <1>8. Pruning \in Nat
    BY OrdersAssumption
  <1> HIDE DEF c
  <1>9. CASE InsertState(p)
    <2>1. new' = new \union {c} /\ \A t \in new : ~Equals(t, c)
      BY <1>9 DEF InsertState, c
    <2>2. Covered(new', best', c)
      BY <1>3, <2>1, SameIsEquivalence DEF Covered
    <2>3. ASSUME NEW d, d.distance \in Int, Covered(new, best, d)
          PROVE  Covered(new', best', d)
      BY <1>2, <1>8, <2>1, <2>3 DEF Covered
    <2>4. ComesFrom(AllExtensions, c)
      BY <1>4, SameIsEquivalence DEF ComesFrom
    <2>5. ToldApart(new')
      BY <1>7, <2>1, SameIsEquivalence DEF ToldApart
    <2>6. IsFiniteSet(new')
      BY <1>7, <2>1, FS_AddElement
    <2> QED BY <1>2, <1>6, <2>1, <2>2, <2>3, <2>4, <2>5, <2>6, TryKeepsOrder DEF c
  <1>10. CASE ImproveState(p)
    <2>1. PICK stored \in new :
            /\ Equals(stored, c) /\ stored.distance > c.distance
            /\ new' = (new \ {stored}) \union {Improved(stored, c)}
      BY <1>10 DEF ImproveState, c
    <2> DEFINE merged == Improved(stored, c)
    <2>2. /\ merged.history = stored.history /\ merged.distance = c.distance
          /\ merged.ancestor = c.ancestor
      BY DEF Improved, State
    <2>3. Equals(merged, stored) /\ Equals(merged, c)
      <3>1. UniqueIdentifier(merged) = UniqueIdentifier(stored)
        BY <2>2 DEF UniqueIdentifier
      <3> QED BY <2>1, <3>1 DEF Equals
    <2>4. new' = (new \ {stored}) \union {merged}
      BY <2>1
    <2> HIDE DEF merged
    <2>5. Covered(new', best', c)
      BY <1>3, <2>2, <2>3, <2>4 DEF Covered
    <2>6. ASSUME NEW d, d.distance \in Int, Covered(new, best, d)
          PROVE  Covered(new', best', d)
      <3>1. CASE d.distance > best + Pruning
        BY <1>2, <1>8, <2>6, <3>1 DEF Covered
      <3>2. CASE ~(d.distance > best + Pruning)
        <4>1. PICK t \in new : Equals(t, d) /\ t.distance <= d.distance
          BY <2>6, <3>2 DEF Covered
        <4>2. CASE t # stored
          BY <2>4, <4>1, <4>2 DEF Covered
        <4>3. CASE t = stored
          <5>1. Equals(merged, d)
            BY <2>3, <4>1, <4>3, SameIsEquivalence
          <5>2. merged.distance <= d.distance
            BY <1>3, <1>6, <2>1, <2>2, <2>6, <4>1, <4>3
          <5> QED BY <2>4, <5>1, <5>2 DEF Covered
        <4> QED BY <4>2, <4>3
      <3> QED BY <3>1, <3>2
    <2>7. ComesFrom(AllExtensions, merged)
      <3>1. PICK d \in AllExtensions : Equals(d, stored) /\ d.history = stored.history
        BY <1>6, <2>1 DEF ComesFrom
      <3>2. Equals(d, merged) /\ Equals(c, merged)
        BY <2>3, <3>1, SameIsEquivalence
      <3> QED BY <1>4, <2>2, <3>1, <3>2 DEF ComesFrom
    <2>8. ToldApart(new')
      <3>1. \A t \in new \ {stored} : ~Equals(t, merged)
        BY <1>7, <2>1, <2>3, SameIsEquivalence DEF ToldApart
      <3> QED BY <1>7, <2>4, <3>1, SameIsEquivalence DEF ToldApart
    <2>9. IsFiniteSet(new')
      BY <1>7, <2>4, FS_RemoveElement, FS_AddElement
    <2>10. \A t \in new' : ComesFrom(AllExtensions, t)
      BY <1>6, <2>4, <2>7
    <2> QED BY <1>2, <2>5, <2>6, <2>8, <2>9, <2>10, TryKeepsOrder DEF c
  <1>11. CASE KeepStored(p)
    <2>1. new' = new /\ \E stored \in new : Equals(stored, c) /\ stored.distance <= c.distance
      BY <1>11 DEF KeepStored, c
    <2>2. Covered(new', best', c)
      BY <2>1 DEF Covered
    <2>3. ASSUME NEW d, d.distance \in Int, Covered(new, best, d)
          PROVE  Covered(new', best', d)
      BY <1>2, <1>8, <2>1, <2>3 DEF Covered
    <2> QED BY <1>2, <1>6, <1>7, <2>1, <2>2, <2>3, TryKeepsOrder DEF c
  <1> QED BY <1>9, <1>10, <1>11

(* The end of a stage is a step of TrellisStages.                          *)
LEMMA EndIsDecodeStage ==
  ASSUME Inv, OrderInv, RisingCosts(model), EndStage
  PROVE  Stages!DecodeStage
  <1>1. /\ pc = "search" /\ toTry = {} /\ toVisit = {}
        /\ last' \in Beamed(Surviving(new, best))
        /\ UNCHANGED <<model, stages, result>>
    BY DEF EndStage
  <1>2. TypeOK /\ StageSummary /\ i <= Len(stages) /\ i \in Nat /\ Len(stages) \in Nat
    BY <1>1, StageFacts DEF OrderInv, Inv
  <1>3. AllExtensions = Stages!Extensions(last, stages[i])
    <2>1. Stages!Extensions(last, stages[i]) =
            {ExtensionOf(s, p) : s \in last, p \in stages[i]}
      BY SameOperators DEF Stages!Extensions, ExtensionOf
    <2>2. \A c \in AllExtensions : \E s \in last, p \in stages[i] : c = ExtensionOf(s, p)
      BY DEF AllExtensions
    <2>3. \A s \in last, p \in stages[i] : ExtensionOf(s, p) \in AllExtensions
      BY ExtensionOfFacts
    <2> QED BY <2>1, <2>2, <2>3
  <1>4. \A c \in AllExtensions : c.distance \in Int /\ Covered(new, best, c)
    <2> SUFFICES ASSUME NEW s \in last, NEW p \in stages[i]
                 PROVE  /\ ExtensionOf(s, p).distance \in Int
                        /\ Covered(new, best, ExtensionOf(s, p))
      BY DEF AllExtensions
    <2>1. Tried(s, p)
      BY <1>1 DEF Tried
    <2> QED BY <1>2, <2>1, ExtensionOfFacts DEF StageSummary
  <1>5. /\ best \in Int /\ \A t \in new : t.distance \in Int
        /\ IsFiniteSet(new) /\ ToldApart(new)
        /\ \A t \in new : ComesFrom(AllExtensions, t)
    BY <1>2 DEF TypeOK, IsState, StageSummary
  <1>6. IsCheapestOf(best, new)
    BY <1>1 DEF Inv, WorkLeft, BestIsAttained, IsCheapestOf
  <1>7. Stages!IsNextStage(last, stages[i], last')
    <2> DEFINE C == AllExtensions
               kept == last'
    <2>1. \A c \in C : c.distance \in Int /\ Covered(new, best, c)
      BY <1>4
    <2>2. \A t \in new : ComesFrom(C, t)
      BY <1>5
    <2>3. kept \in Beamed(Surviving(new, best))
      BY <1>1
    <2> HIDE DEF C, kept
    <2>4. IsDetermined(C, kept)
      BY <1>5, <1>6, <2>1, <2>2, <2>3, StageIsDetermined
    <2>5. C = Stages!Extensions(last, stages[i]) /\ kept = last'
      BY <1>3 DEF C, kept
    <2> QED BY <2>4, <2>5, NextStageIsDetermined
  <1>8. \/ i < Len(stages) /\ i' = i + 1 /\ UNCHANGED pc
        \/ i = Len(stages) /\ pc' = "backtrack" /\ UNCHANGED i
    BY <1>2 DEF EndStage
  <1> QED BY <1>1, <1>7, <1>8 DEF Stages!DecodeStage

LEMMA OrderInvBegins == toTry = {} /\ toVisit = last /\ new = {} => OrderInv
  <1> SUFFICES ASSUME toTry = {}, toVisit = last, new = {}
               PROVE  OrderInv
    OBVIOUS
  <1>1. \A s \in last, p \in stages[i] : ~Tried(s, p)
    BY DEF Tried
  <1>2. ToldApart({}) /\ IsFiniteSet({})
    BY FS_EmptySet DEF ToldApart
  <1> QED BY <1>1, <1>2 DEF OrderInv, StageSummary

LEMMA OrderInvBeginsAgain == (toTry = {} /\ toVisit = last /\ new = {} => OrderInv)'
  BY OrderInvBegins, PTL

LEMMA OrderStep ==
  ASSUME Inv, OrderInv, [Next]_vars
  PROVE  /\ OrderInv'
         /\ RisingCosts(model) => Stages!StagesNext \/ UNCHANGED search
  <1>1. CASE VisitState
    BY <1>1, VisitKeepsOrder DEF VisitState
  <1>2. ASSUME NEW p \in toTry, TryPossibility(p)
        PROVE  OrderInv' /\ UNCHANGED search
    <2>1. UNCHANGED search
      BY <1>2 DEF TryPossibility, PruneOnEmission, PruneOnTransition, InsertState,
                  ImproveState, KeepStored, Extend
    <2>2. RisingCosts(model) /\ pc = "search" => StageSummary'
      BY <1>2, PruneKeepsOrder, ExtendKeepsOrder DEF TryPossibility
    <2> QED BY <2>1, <2>2 DEF OrderInv, search
  <1>3. CASE EndStage
    <2>1. OrderInv'
      <3>1. CASE i < Len(stages)
        <4>1. toTry' = {} /\ toVisit' = last' /\ new' = {}
          BY <1>3, <3>1 DEF EndStage
        <4> QED BY <4>1, OrderInvBeginsAgain
      <3>2. CASE ~(i < Len(stages))
        BY <1>3, <3>2 DEF EndStage, OrderInv
      <3> QED BY <3>1, <3>2
    <2> QED BY <1>3, <2>1, EndIsDecodeStage DEF Stages!StagesNext
  <1>4. CASE Backtrack
    <2>1. PICK s \in Cheapest(last) : result' = Result(s)
      BY <1>4 DEF Backtrack
    <2>2. result' \in {Stages!Result(t) : t \in Stages!Cheapest(last)}
      BY <2>1, SameOperators
    <2>3. Stages!AnswerSentence
      BY <1>4, <2>2 DEF Backtrack, Stages!AnswerSentence
    <2> QED BY <1>4, <2>3 DEF Backtrack, OrderInv, Stages!StagesNext
  <1>5. CASE NextSentence
    <2>1. OrderInv'
      <3>1. toTry' = {} /\ toVisit' = last' /\ new' = {}
        BY <1>5 DEF NextSentence
      <3> QED BY <3>1, OrderInvBeginsAgain
    <2>2. Stages!AcceptSentence
      BY <1>5, SameOperators DEF NextSentence, Stages!AcceptSentence, Stages!IsFreshSentence
    <2> QED BY <2>1, <2>2 DEF Stages!StagesNext
  <1>6. CASE UNCHANGED vars
    BY <1>6 DEF vars, search, OrderInv, StageSummary, RisingCosts, AllExtensions,
                ExtensionOf, Tried
  <1> QED BY <1>1, <1>2, <1>3, <1>4, <1>5, <1>6 DEF Next, Decode

(* Whatever the order in which the extensions are tried, and although the  *)
(* bound that prunes them falls on the way, a stage is the one that the    *)
(* old stage and the possibilities determine: the decoder implements       *)
(* TrellisStages wherever transitions cost nothing or more.                *)
THEOREM StagesDoNotDependOnOrder == Spec => StagesAreOrderIndependent
  <1>1. Init => OrderInv /\ Stages!StagesInit
    <2> SUFFICES ASSUME Init PROVE OrderInv /\ Stages!StagesInit
      OBVIOUS
    <2>1. toTry = {} /\ toVisit = last /\ new = {}
      BY DEF Init
    <2>2. Stages!StagesInit
      BY SameOperators DEF Init, Stages!StagesInit, Stages!IsFreshSentence
    <2> QED BY <2>1, <2>2, OrderInvBegins
  <1>2. Inv /\ OrderInv /\ [Next]_vars => OrderInv'
    BY OrderStep
  <1>3. Inv /\ OrderInv /\ [Next]_vars => [RisingCosts(model) => Stages!StagesNext]_search
    BY OrderStep
  <1> QED BY <1>1, <1>2, <1>3, InvIsInvariant, PTL DEF Spec, StagesAreOrderIndependent
==============================================================================
