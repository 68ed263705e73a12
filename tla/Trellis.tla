------------------------------ MODULE Trellis ------------------------------
(***************************************************************************)
(* The data of the Viterbi decoder of src/src/decoder: stage               *)
(* possibilities, trellis states and the operations on them that both the  *)
(* step-by-step decoder (Decoder) and its abstract, stage-by-stage         *)
(* specification (TrellisStages) are written with.                         *)
(*                                                                         *)
(* Costs are integers (the code uses double, and float for emissions), a   *)
(* stage possibility is a model value, and an n-gram is the sequence of    *)
(* the unique ids of its possibilities, oldest first.  unique_id and       *)
(* unique_identifier are 64-bit hashes in the code; they are modelled by   *)
(* what is hashed, so that hash collisions are left out.                   *)
(***************************************************************************)
EXTENDS Integers, FiniteSets, Sequences

CONSTANTS
  Possibility,      \* the StagePossibility objects of a run
  UniqueId,         \* unique_id: the enabled factors of a possibility
  Emission,         \* emission_prob
  SentenceStart,    \* the possibility <s>
  SentenceEnd,      \* the possibility </s>
  Undefined,        \* what a read of history[-1] yields
  Models,           \* language models, each a weighted sum over the factors
  Transition(_, _), \* cost of an n-gram of ModelOrder ids under a model
  Sentences,        \* inner stages of a sentence: a sequence of sets
  ModelOrder,       \* model_order, the maximum order of the LMs
  ViterbiOrder,     \* viterbi_order
  Beam,             \* viterbi_beam_size, 0 for no limit
  Pruning,          \* viterbi_stage_pruning
  Ceiling,          \* the 100000000 that "best" starts from
  MaxStageCost      \* bound on what one stage adds to a distance

(* What Configuration::Configuration and is_initialized accept, and what   *)
(* init_inner_stage_posibilities produces: a nonempty list per token.      *)
(* The command line overrides are not checked by is_initialized, so        *)
(* ViterbiOrder has no upper bound.                                        *)
ASSUME OrdersAssumption ==
  /\ ModelOrder \in Nat \ {0}
  /\ ViterbiOrder \in Nat \ {0}
  /\ Beam \in Nat
  /\ Pruning \in Nat \ {0}
  /\ Ceiling \in Nat

ASSUME DataAssumption ==
  /\ SentenceStart \in Possibility
  /\ SentenceEnd \in Possibility
  /\ DOMAIN UniqueId = Possibility
  /\ Emission \in [Possibility -> Nat]
  /\ Models # {}

Ids == {UniqueId[p] : p \in Possibility}

(* Any integer: the quantised probabilities of the LM binaries make        *)
(* slightly negative costs possible (decoder_base.cpp:148-151).            *)
ASSUME TransitionAssumption ==
  \A m \in Models : \A gram \in [1 .. ModelOrder -> Ids] : Transition(m, gram) \in Int

(* What the assertion of decoder_base.cpp:135 takes for granted: no        *)
(* sentence is so long or so costly that a distance reaches the ceiling.   *)
ASSUME CeilingAssumption ==
  /\ MaxStageCost \in Nat
  /\ \A p \in Possibility :
       /\ Emission[p] <= MaxStageCost
       /\ \A m \in Models : \A gram \in [1 .. ModelOrder -> Ids] :
            Emission[p] + Transition(m, gram) <= MaxStageCost
  /\ \A inner \in Sentences : (Len(inner) + 1) * MaxStageCost < Ceiling

Stage == (SUBSET Possibility) \ {{}}

ASSUME SentencesAssumption ==
  \A inner \in Sentences : inner \in Seq(Stage) /\ inner # <<>>

-----------------------------------------------------------------------------

(* The stages of a sentence: model_order - 1 times <s>, one stage per      *)
(* token, and </s>.                                                        *)
Padding(n, x) == [i \in 1 .. n |-> x]

StagePossibilities(inner) ==
  Padding(ModelOrder - 1, {SentenceStart}) \o inner \o <<{SentenceEnd}>>

(***************************************************************************)
(* A trellis state.  Its ancestor pointer is modelled by what backtracking *)
(* reads through it: the youngest possibilities of the chain of its        *)
(* ancestors, oldest first; <<>> is the null pointer of the initial state. *)
(* Only a state of the stage under construction is ever changed, so the    *)
(* chain of a state never changes after the state has become an ancestor.  *)
(***************************************************************************)
State(history, distance, ancestor) ==
  [history |-> history, distance |-> distance, ancestor |-> ancestor]

InitialState == State(Padding(ModelOrder - 1, SentenceStart), 0, <<>>)

(* history[history.size() - 1]: undefined for the empty history that the   *)
(* initial state has when model_order is 1.                                *)
YoungestHistory(s) ==
  IF s.history = <<>> THEN Undefined ELSE s.history[Len(s.history)]

Chain(s) == Append(s.ancestor, YoungestHistory(s))

(* The new state of ViterbiState(prev_state, next_sp, ...).                *)
Child(s, p, cost) ==
  State(Append(IF s.history = <<>> THEN <<>> ELSE Tail(s.history), p),
        cost, Chain(s))

(* A mutant of UniqueIdentifier: one id too few.                           *)
UniqueIdentifierShort(s) ==
  [j \in 1 .. ViterbiOrder - 1 |->
     UniqueId[s.history[Len(s.history) - ViterbiOrder + 1 + j]]]

(* unique_identifier: the last viterbi_order ids of the history.           *)
UniqueIdentifier(s) ==
  LET size == Len(s.history)
      kept == IF ViterbiOrder >= size THEN size ELSE ViterbiOrder
  IN  [j \in 1 .. kept |-> UniqueId[s.history[size - kept + j]]]

Equals(s, t) == UniqueIdentifier(s) = UniqueIdentifier(t)

(* The key of the language model lookup: the next possibility is stored    *)
(* last, and then the history over the first places.                       *)
NGram(s, next) ==
  [j \in 1 .. ModelOrder |->
     UniqueId[IF j <= Len(s.history) THEN s.history[j] ELSE next]]

ComputeTransitionCost(m, s, next) == Transition(m, NGram(s, next))

(* Cost of extending s by p, before and after the transition is added.     *)
EmissionCost(s, p) == s.distance + Emission[p]
ExtensionCost(m, s, p) == EmissionCost(s, p) + ComputeTransitionCost(m, s, p)

-----------------------------------------------------------------------------

(* A mutant of Surviving: the pruning constant is forgotten.               *)
SurvivingBelowBest(new, best) == {s \in new : s.distance < best}

(* The states that a new stage keeps: strictly cheaper than best plus the  *)
(* pruning constant, then the Beam cheapest.  Which of several states of   *)
(* equal distance the beam keeps depends on the hash, so it is a choice.   *)
Surviving(new, best) == {s \in new : s.distance < best + Pruning}

Beamed(S) ==
  IF Beam = 0 \/ Cardinality(S) <= Beam
    THEN {S}
    ELSE {K \in SUBSET S : /\ Cardinality(K) = Beam
                           /\ \A k \in K, d \in S \ K : k.distance <= d.distance}

Cheapest(S) == {s \in S : \A t \in S : s.distance <= t.distance}

(* A mutant of Result: one <s> too many.                                   *)
ResultPadded(s) == Padding(ModelOrder - 1, SentenceStart) \o Chain(s)

(* ret_vec after the std::reverse: the chain of the cheapest final state,  *)
(* completed to the left with model_order - 2 times <s>.                   *)
Result(s) ==
  Padding(IF ModelOrder > 1 THEN ModelOrder - 2 ELSE 0, SentenceStart) \o Chain(s)
=============================================================================
