------------------------------ MODULE Decoder ------------------------------
(***************************************************************************)
(* DecoderBase::DecodeTokenizedSentence (src/src/decoder): the beam search *)
(* that picks one possibility per token.  One object decodes sentence      *)
(* after sentence.                                                         *)
(*                                                                         *)
(* One action per outcome of the innermost loop body, one for each turn of *)
(* the loop over the last trellis stage, one for the end of a stage and    *)
(* one for the backtracking.  The last trellis stage is sorted by          *)
(* (distance, unique_identifier) and the possibilities of a stage by       *)
(* (emission_prob, unique_id); the ids are hashes, so the order of equal   *)
(* costs is a choice of the model.                                         *)
(***************************************************************************)
EXTENDS Trellis

VARIABLES
  model,    \* the language models, fixed by the configuration
  stages,   \* stage_posibilities
  i,        \* the stage under construction (from 1; the code counts from 0)
  last,     \* last_trellis_stage
  new,      \* new_trellis_stage
  best,     \* cost of the cheapest state of the new stage
  toVisit,  \* states of last that the outer loop has not reached
  current,  \* viterbi_stateP
  toTry,    \* possibilities that the inner loop has not tried with current
  result,   \* ret_vec
  pc        \* "search", "backtrack" or "done"

vars == <<model, stages, i, last, new, best, toVisit, current, toTry, result, pc>>
search == <<model, stages, i, last, result, pc>>

-----------------------------------------------------------------------------

(* The entry of DecodeTokenizedSentence for a nonempty sentence.           *)
Init ==
  /\ model \in Models
  /\ stages \in {StagePossibilities(inner) : inner \in Sentences}
  /\ i = ModelOrder
  /\ last = {InitialState}
  /\ new = {}
  /\ best = Ceiling
  /\ toVisit = {InitialState}
  /\ current = InitialState
  /\ toTry = {}
  /\ result = <<>>
  /\ pc = "search"

NextSentence ==
  /\ pc = "done"
  /\ stages' \in {StagePossibilities(inner) : inner \in Sentences}
  /\ i' = ModelOrder
  /\ last' = {InitialState}
  /\ new' = {}
  /\ best' = Ceiling
  /\ toVisit' = {InitialState}
  /\ current' = InitialState
  /\ toTry' = {}
  /\ result' = <<>>
  /\ pc' = "search"
  /\ UNCHANGED model

(* The next turn of the loop over last_trellis_stage.                      *)
VisitState ==
  /\ pc = "search"
  /\ toTry = {}
  /\ \E s \in Cheapest(toVisit) :
       /\ current' = s
       /\ toVisit' = toVisit \ {s}
  /\ toTry' = stages[i]
  /\ UNCHANGED <<search, new, best>>

(* The possibility the inner loop comes to.                                *)
IsNext(p) ==
  /\ pc = "search"
  /\ p \in toTry
  /\ \A q \in toTry : Emission[p] <= Emission[q]

(* A mutant of TooExpensive: the pruning constant is forgotten.            *)
TooExpensiveAtBest(cost) == cost > best

TooExpensive(cost) == cost > best + Pruning

PruneOnEmission(p) ==
  /\ IsNext(p)
  /\ TooExpensive(EmissionCost(current, p))
  /\ toTry' = toTry \ {p}
  /\ UNCHANGED <<search, new, best, toVisit, current>>

PruneOnTransition(p) ==
  /\ IsNext(p)
  /\ ~TooExpensive(EmissionCost(current, p))
  /\ TooExpensive(ExtensionCost(model, current, p))
  /\ toTry' = toTry \ {p}
  /\ UNCHANGED <<search, new, best, toVisit, current>>

(* What all the extensions that are not pruned do; s is the new state.     *)
Extended(p) == Child(current, p, ExtensionCost(model, current, p))

Lower(bound, cost) == IF cost < bound THEN cost ELSE bound

Extend(p) ==
  /\ IsNext(p)
  /\ ~TooExpensive(EmissionCost(current, p))
  /\ ~TooExpensive(ExtensionCost(model, current, p))
  /\ best' = Lower(best, ExtensionCost(model, current, p))
  /\ toTry' = toTry \ {p}
  /\ UNCHANGED <<search, toVisit, current>>

(* No state of the new stage has the same unique identifier.               *)
InsertState(p) ==
  /\ Extend(p)
  /\ \A stored \in new : ~Equals(stored, Extended(p))
  /\ new' = new \union {Extended(p)}

(* A mutant of Improved: the stored state keeps its ancestor.              *)
ImprovedDistance(stored, s) == State(stored.history, s.distance, stored.ancestor)

(* The stored state gets the distance and the ancestor of the new one but  *)
(* keeps its own history.                                                  *)
Improved(stored, s) == State(stored.history, s.distance, s.ancestor)

ImproveState(p) ==
  /\ Extend(p)
  /\ \E stored \in new :
       /\ Equals(stored, Extended(p))
       /\ stored.distance > Extended(p).distance
       /\ new' = (new \ {stored}) \union {Improved(stored, Extended(p))}

KeepStored(p) ==
  /\ Extend(p)
  /\ \E stored \in new :
       /\ Equals(stored, Extended(p))
       /\ stored.distance <= Extended(p).distance
  /\ new' = new

(* Mutants of EndStage: best is not reset, and the new stage is not        *)
(* emptied.                                                                *)
EndStageWith(oldNew, oldBest) ==
  /\ pc = "search"
  /\ toTry = {}
  /\ toVisit = {}
  /\ \E kept \in Beamed(Surviving(new, best)) :
       /\ last' = kept
       /\ toVisit' = IF i < Len(stages) THEN kept ELSE {}
  /\ i' = IF i < Len(stages) THEN i + 1 ELSE i
  /\ pc' = IF i < Len(stages) THEN "search" ELSE "backtrack"
  /\ new' = oldNew
  /\ best' = oldBest
  /\ UNCHANGED <<model, stages, current, toTry, result>>

EndStageKeepingBest == EndStageWith({}, best)
EndStageKeepingNew == EndStageWith(new, Ceiling)

(* The end of a stage: filter, sort, cut to the beam, and start the next   *)
(* stage or leave the loop.                                                *)
EndStage ==
  /\ pc = "search"
  /\ toTry = {}
  /\ toVisit = {}
  /\ \E kept \in Beamed(Surviving(new, best)) :
       /\ last' = kept
       /\ IF i < Len(stages)
            THEN /\ i' = i + 1
                 /\ toVisit' = kept
                 /\ new' = {}
                 /\ best' = Ceiling
                 /\ UNCHANGED pc
            ELSE /\ pc' = "backtrack"
                 /\ UNCHANGED <<i, toVisit, new, best>>
  /\ UNCHANGED <<model, stages, current, toTry, result>>

Backtrack ==
  /\ pc = "backtrack"
  /\ \E s \in Cheapest(last) : result' = Result(s)
  /\ pc' = "done"
  /\ UNCHANGED <<model, stages, i, last, new, best, toVisit, current, toTry>>

TryPossibility(p) ==
  \/ PruneOnEmission(p)
  \/ PruneOnTransition(p)
  \/ InsertState(p)
  \/ ImproveState(p)
  \/ KeepStored(p)

Decode ==
  \/ VisitState
  \/ \E p \in toTry : TryPossibility(p)
  \/ EndStage
  \/ Backtrack

Next == Decode \/ NextSentence

(* The decoder is a sequential loop: it is never suspended for ever.       *)
Fairness == WF_vars(Decode)

Spec == Init /\ [][Next]_vars /\ Fairness

-----------------------------------------------------------------------------

Sentence == {StagePossibilities(inner) : inner \in Sentences}

IsState(s) ==
  /\ s = State(s.history, s.distance, s.ancestor)
  /\ s.history \in Seq(Possibility)
  /\ s.distance \in Int
  /\ s.ancestor \in Seq(Possibility \union {Undefined})

TypeOK ==
  /\ model \in Models
  /\ stages \in Sentence
  /\ i \in ModelOrder .. Len(stages)
  /\ \A s \in last \union new \union toVisit \union {current} : IsState(s)
  /\ best \in Int
  /\ toVisit \subseteq last
  /\ toTry \subseteq stages[i]
  /\ result \in Seq(Possibility \union {Undefined})
  /\ pc \in {"search", "backtrack", "done"}

(* The assertions of decoder_base.cpp:124 and 209: pruning, beam and       *)
(* merging never leave a stage without a state, so that there is always a  *)
(* state to extend and a final state to backtrack from.                    *)
TrellisNonEmpty == last # {}

(* The assertion of decoder_base.cpp:227: the backtracked sequence has     *)
(* exactly one possibility for every stage, which Spellcheck relies on     *)
(* when it reads decoded_corrections[token + model_order - 1].             *)
ResultCoversStages == pc = "done" => Len(result) = Len(stages)

(* Every possibility of the result was offered for its stage: an answer    *)
(* for one token is never taken from the candidates of another one.        *)
ResultFollowsStages ==
  pc = "done" =>
    \A k \in 1 .. Len(stages) : k <= Len(result) /\ result[k] \in stages[k]

(* best is the cost of a state of the new stage as soon as there is one,   *)
(* and of no other than the cheapest: the bound that prunes is attained.   *)
BestIsAttained ==
  IF new = {} THEN best = Ceiling
              ELSE /\ \E s \in new : s.distance = best
                   /\ \A s \in new : best <= s.distance

(***************************************************************************)
(* The inductive invariant behind TrellisNonEmpty and ResultCoversStages:  *)
(* as long as the new stage is empty there is an extension left to try and *)
(* it is below the ceiling, and every chain of ancestors is as long as the *)
(* stage it belongs to.                                                    *)
(***************************************************************************)
LastStage == IF pc = "search" THEN i - ModelOrder ELSE i - ModelOrder + 1
NewStage == i - ModelOrder + 1

Bounded(T, n) == \A s \in T : s.distance <= n * MaxStageCost
ChainsHaveLength(T, n) == \A s \in T : Len(s.ancestor) = n

WorkLeft == pc = "search" /\ new = {} => toTry # {} \/ toVisit # {}

Inv ==
  /\ TypeOK
  /\ TrellisNonEmpty
  /\ ModelOrder > 1 => ResultCoversStages
  /\ BestIsAttained
  /\ WorkLeft
  /\ toTry # {} => current \in last
  /\ pc # "search" => i = Len(stages)
  /\ Bounded(last, LastStage) /\ Bounded(new, NewStage)
  /\ ChainsHaveLength(last, LastStage) /\ ChainsHaveLength(new, NewStage)

(***************************************************************************)
(* The reference for distances: what a whole path costs.                   *)
(***************************************************************************)
PathGram(path, k) == [j \in 1 .. ModelOrder |-> UniqueId[path[k - ModelOrder + j]]]

StepCost(m, path, k) == Emission[path[k]] + Transition(m, PathGram(path, k))

(* At k: what the steps up to k cost; the first ModelOrder - 1 are <s>.    *)
CostsUpTo(m, path) ==
  LET upTo[k \in 0 .. Len(path)] ==
        IF k < ModelOrder THEN 0 ELSE upTo[k - 1] + StepCost(m, path, k)
  IN  upTo

PathCost(m, path) == CostsUpTo(m, path)[Len(path)]

(* Each state's distance is the cost of the path its ancestors spell out,  *)
(* and its history is the end of that path: merging two states and pruning *)
(* never separate a distance from the words it was computed for.  It needs *)
(* a viterbi_order that covers the history of the language models and      *)
(* possibilities of one stage that differ in an enabled factor.            *)
DistanceIsPathCost ==
  \A s \in last \union new :
    /\ s.distance = PathCost(model, Result(s))
    /\ s.history = SubSeq(Result(s), Len(Result(s)) - ModelOrder + 2, Len(Result(s)))

(* With exact settings (no beam, a pruning constant no path can exceed)    *)
(* the decoder returns a cheapest path through the possibilities.          *)
Paths(lattice) ==
  {path \in [1 .. Len(lattice) -> Possibility] :
     \A k \in 1 .. Len(lattice) : path[k] \in lattice[k]}

ResultIsCheapest ==
  pc = "done" =>
    \A path \in Paths(stages) : PathCost(model, result) <= PathCost(model, path)

(* Pruning while a stage is built loses nothing that the filter at its end *)
(* would have kept, in whatever order the extensions are tried: the stage  *)
(* is the one TrellisStages defines.  It needs transition costs that are   *)
(* not negative; with others the decoder need not follow TrellisStages.    *)
RisingCosts(m) == \A gram \in [1 .. ModelOrder -> Ids] : Transition(m, gram) >= 0

Stages == INSTANCE TrellisStages
StagesAreOrderIndependent ==
  Stages!StagesInit /\ [][RisingCosts(model) => Stages!StagesNext]_search

=============================================================================
