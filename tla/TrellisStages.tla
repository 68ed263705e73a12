--------------------------- MODULE TrellisStages ---------------------------
(***************************************************************************)
(* What a stage of the decoder promises, without the order in which it     *)
(* tries the extensions and without the bound it prunes them with on the   *)
(* way: the new stage is determined by the old stage and the possibilities *)
(* alone.  Decoder implements this specification.                          *)
(***************************************************************************)
EXTENDS Trellis

VARIABLES model, stages, i, last, result, pc

stageVars == <<model, stages, i, last, result, pc>>

Extensions(T, P) == {Child(s, p, ExtensionCost(model, s, p)) : s \in T, p \in P}

Mergeable(C, s) == {c \in C : Equals(c, s)}

LeastDistance(C) == (CHOOSE c \in Cheapest(C) : TRUE).distance

(* s stands for all the extensions of its unique identifier: it has the    *)
(* distance and the ancestor of a cheapest of them.                        *)
Represents(s, C) ==
  LET same == Mergeable(C, s) IN
  /\ same # {}
  /\ s.distance = LeastDistance(same)
  /\ s.ancestor \in {c.ancestor : c \in Cheapest(same)}
  /\ s.history \in {c.history : c \in same}

(* The extensions whose identifier survives: those that can be merged with *)
(* one that is strictly cheaper than the cheapest plus the pruning         *)
(* constant.                                                               *)
Competing(C) ==
  {c \in C : LeastDistance(Mergeable(C, c)) < LeastDistance(C) + Pruning}

Identifiers(S) == {UniqueIdentifier(s) : s \in S}

IsNextStage(T, P, new) ==
  LET C == Extensions(T, P)
      missing == {c \in Competing(C) : UniqueIdentifier(c) \notin Identifiers(new)}
      room == Cardinality(Identifiers(Competing(C)))
  IN  /\ \A s \in new : Represents(s, C)
      /\ Identifiers(new) \subseteq Identifiers(Competing(C))
      /\ Cardinality(new) = IF Beam = 0 \/ room <= Beam THEN room ELSE Beam
      /\ Cardinality(Identifiers(new)) = Cardinality(new)
      /\ \A s \in new, c \in missing : s.distance <= LeastDistance(Mergeable(C, c))

IsFreshSentence(lattice) ==
  \E inner \in Sentences : lattice = StagePossibilities(inner)

StagesInit ==
  /\ model \in Models
  /\ IsFreshSentence(stages)
  /\ i = ModelOrder
  /\ last = {InitialState}
  /\ result = <<>>
  /\ pc = "search"

DecodeStage ==
  /\ pc = "search"
  /\ IsNextStage(last, stages[i], last')
  /\ \/ /\ i < Len(stages)
        /\ i' = i + 1
        /\ UNCHANGED pc
     \/ /\ i = Len(stages)
        /\ pc' = "backtrack"
        /\ UNCHANGED i
  /\ UNCHANGED <<model, stages, result>>

AnswerSentence ==
  /\ pc = "backtrack"
  /\ result' \in {Result(s) : s \in Cheapest(last)}
  /\ pc' = "done"
  /\ UNCHANGED <<model, stages, i, last>>

AcceptSentence ==
  /\ pc = "done"
  /\ IsFreshSentence(stages')
  /\ i' = ModelOrder
  /\ last' = {InitialState}
  /\ result' = <<>>
  /\ pc' = "search"
  /\ UNCHANGED model

StagesNext == DecodeStage \/ AnswerSentence \/ AcceptSentence

StagesSpec == StagesInit /\ [][StagesNext]_stageVars
=============================================================================
