--------------------------- MODULE MCSpellchecker ---------------------------
(***************************************************************************)
(* Small instances of Spellcheck: sentences of one and two tokens with up  *)
(* to six possibilities each, of which two may have the same form, and     *)
(* trigram models that like some windows.                                  *)
(***************************************************************************)
EXTENDS Spellchecker, Functions

P(form, emission, isOriginal) ==
  [form |-> form, emission |-> emission, original |-> isOriginal]

Start == P("s", 0, TRUE)
End == P("e", 0, TRUE)

(* Unknown word "a", corrections "b", "c", "d", "b" and "d" with a second  *)
(* analysis.                                                               *)
StageA == <<P("a", 0, TRUE), P("b", 0, FALSE), P("c", 1, FALSE),
            P("d", 1, FALSE), P("b", 2, FALSE)>>
StageB == <<P("d", 0, FALSE), P("c", 0, FALSE), P("b", 1, FALSE),
            P("d", 2, FALSE), P("c", 2, FALSE)>>
(* A word whose correction is "a": its first analysis of "b" is lowered    *)
(* while "c" is the worst form, and "d" then takes the place of "c".       *)
StageC == <<P("a", 0, FALSE), P("b", 0, FALSE), P("c", 0, FALSE),
            P("b", 2, FALSE), P("d", 2, FALSE)>>

MCForm == {"s", "e", "a", "b", "c", "d"}

(* The windows a model likes; every context a run meets has a cost of its  *)
(* own.                                                                    *)
Features == {"repeat", "fromStart", "skip", "second"}

HasFeature(w, feature) ==
  CASE feature = "repeat"    -> w[3].form = w[2].form
    [] feature = "fromStart" -> w[1].form = "s" /\ w[3].form = "b"
    [] feature = "skip"      -> w[1].form = "c" /\ w[3].form = "e"
    [] feature = "second"    -> \E i \in 1 .. 3 : w[i].emission = 2

MCTransition(m, w) ==
  LET likes == Cardinality({f \in m : HasFeature(w, f)})
  IN  IF likes = 0 THEN 3 ELSE IF likes = 1 THEN 1 ELSE 0

Lattice(inner) == << <<Start>>, <<Start>> >> \o inner \o << <<End>> >>
Inners == {<<StageA>>, <<StageC>>, <<StageA, StageB>>, <<StageB, StageC>>}

Paths(lattice) ==
  {path \in [1 .. Len(lattice) -> UNION {Range(lattice[i]) : i \in DOMAIN lattice}] :
     \A i \in DOMAIN lattice : path[i] \in Range(lattice[i])}

MCSentences ==
  UNION {[model : SUBSET Features, stages : {Lattice(inner)},
          path : Paths(Lattice(inner)), unknown : {{1}}] : inner \in Inners}

MCAnalyses == [form : MCForm, costs : UNION {[1 .. n -> 0 .. 11] : n \in 1 .. 4}]
=============================================================================
