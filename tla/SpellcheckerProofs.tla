-------------------------- MODULE SpellcheckerProofs --------------------------
(***************************************************************************)
(* First the selection of alternatives, for every set of forms and         *)
(* possibilities and every number of alternatives asked for: the map and   *)
(* the heap with lazy deletion of Alternatives.  Then the loop of          *)
(* Spellcheck that uses it.                                                *)
(*                                                                         *)
(* Spellcheck uses the selection of alternatives as Alternatives describes *)
(* it, with costs measured on the path of its sentence, and gives the path *)
(* back as it was.  So what is proved of the map and the heap holds for    *)
(* every sentence.                                                         *)
(*                                                                         *)
(* The costs of a possibility do not depend on what was measured before:   *)
(* its position is overwritten, and the rest of the path is never changed. *)
(* This is the inductive invariant, PathInv.                               *)
(***************************************************************************)
EXTENDS Spellchecker, FiniteSetTheorems, SequenceTheorems, NaturalsInduction,
        WellFoundedInduction, TLAPS

-----------------------------------------------------------------------------

LEMMA EntryFacts ==
  ASSUME NEW a \in Analyses, NEW n \in Nat
  PROVE  /\ a.form \in Form
         /\ TotalCost(a) \in Int
         /\ Entry(a, n) \in Entries
         /\ Entry(a, n).form = a.form
         /\ Entry(a, n).cost = TotalCost(a)
  <1>1. a.form \in Form /\ a.costs \in Seq(Int) /\ a.costs # <<>>
    BY AnalysesAssumption
  <1>2. TotalCost(a) \in Int
    <2>1. Len(a.costs) \in 1 .. Len(a.costs)
      BY <1>1, EmptySeq, LenProperties
    <2> QED BY <1>1, <2>1, ElementOfSeq DEF TotalCost
  <1> QED BY <1>1, <1>2 DEF Entry, Entries

LEMMA LookAtFacts ==
  ASSUME TypeOK, NEW a \in Analyses, LookAt(a)
  PROVE  /\ NewEntry(a) \in Entries
         /\ NewEntry(a).form = a.form
         /\ NewEntry(a).cost = TotalCost(a)
         /\ considered' \in Seq(Analyses)
         /\ UNCHANGED <<correction, chosen, pc>>
         /\ pc = "measure"
  <1>1. Len(considered) + 1 \in Nat
    BY LenProperties DEF TypeOK
  <1>2. considered' \in Seq(Analyses)
    BY AppendProperties DEF TypeOK, LookAt
  <1> QED BY <1>1, <1>2, EntryFacts DEF NewEntry, LookAt

(***************************************************************************)
(* A heap that matches a map: what HeapInv says of heap and live, except   *)
(* that the root may be dead.                                              *)
(***************************************************************************)
Matches(entries, costs) ==
  /\ entries \subseteq Entries
  /\ \A x \in entries : /\ x.form \in DOMAIN costs
                        /\ costs[x.form].cost <= x.cost
                        /\ costs[x.form].cost = x.cost => x = costs[x.form]
  /\ \A f \in DOMAIN costs :
       costs[f] \in Entries /\ costs[f].form = f /\ costs[f] \in entries

LEMMA HeapInvMatches == HeapInv => Matches(heap, live)
  BY DEF HeapInv, TypeOK, HeapHoldsKeptForms, EntriesMatch, Matches, Kept

(* The loop that removes dead entries stops with a current entry at the    *)
(* root and removes no current entry.                                      *)
LEMMA NormalizedFacts ==
  ASSUME NEW rest, NEW lv, NEW h, NEW t,
         Matches(rest, lv), Normalized(rest, lv, h, t)
  PROVE  /\ Matches(h, lv)
         /\ IsRoot(h, t)
         /\ h # {} => t \in h /\ t = lv[t.form]
  <1>1. h \subseteq rest /\ IsRoot(h, t)
    BY DEF Normalized
  <1>2. ASSUME NEW f \in DOMAIN lv PROVE lv[f] \in h
    <2>1. lv[f] \in rest /\ lv[f].form = f /\ lv[f].cost \in Int
      BY <1>2 DEF Matches, Entries
    <2>2. ~IsDead(lv, lv[f])
      BY <2>1 DEF IsDead
    <2> QED BY <2>1, <2>2 DEF Normalized
  <1>3. Matches(h, lv)
    BY <1>1, <1>2 DEF Matches
  <1>4. ASSUME h # {} PROVE t \in h /\ t = lv[t.form]
    <2>1. t \in h /\ ~IsDead(lv, t)
      BY <1>1, <1>4 DEF IsRoot, Normalized
    <2>2. t.form \in DOMAIN lv /\ lv[t.form].cost <= t.cost
      BY <1>3, <2>1 DEF Matches
    <2>3. lv[t.form].cost \in Int /\ t.cost \in Int
      BY <1>3, <2>1, <2>2 DEF Matches, Entries
    <2>4. lv[t.form].cost = t.cost
      BY <2>1, <2>2, <2>3 DEF IsDead
    <2> QED BY <1>3, <2>1, <2>4 DEF Matches
  <1> QED BY <1>1, <1>3, <1>4

(* How HeapInv is put together again after a step.                         *)
LEMMA HeapInvFromMatch ==
  ASSUME TypeOK', Matches(heap', live'), IsRoot(heap', top'),
         heap' # {} => top' = live'[top'.form]
  PROVE  HeapInv'
  <1>1. HeapHoldsKeptForms' /\ EntriesMatch'
    BY DEF Matches, HeapHoldsKeptForms, EntriesMatch, Kept
  <1>2. Kept' = {} <=> heap' = {}
    BY DEF Matches, Kept
  <1>3. ASSUME Kept' # {}
        PROVE  /\ top'.form \in Kept' /\ top' = live'[top'.form]
               /\ \A f \in Kept' : live'[f].cost <= top'.cost
    BY <1>2, <1>3 DEF IsRoot, Matches, Kept
  <1> QED BY <1>1, <1>2, <1>3 DEF HeapInv, TopIsWorstKept

-----------------------------------------------------------------------------
(* Maps and their sizes.                                                   *)

LEMMA KeptIsFinite ==
  ASSUME TypeOK
  PROVE  IsFiniteSet(Kept) /\ Cardinality(Kept) \in Nat
  BY AnalysesAssumption, FS_Subset, FS_CardinalityType DEF TypeOK

LEMMA WithoutFacts ==
  ASSUME NEW f
  PROVE  /\ DOMAIN Without(f) = Kept \ {f}
         /\ \A g \in Kept : g # f => Without(f)[g] = live[g]
  BY DEF Without

(* Nothing in the heap but its root belongs to the form of the root.       *)
LEMMA EvictionMatches ==
  ASSUME HeapInv, Kept # {}
  PROVE  Matches(heap \ {top}, Without(top.form))
  <1>1. Matches(heap, live)
    BY HeapInvMatches
  <1>2. /\ top \in heap /\ top.form \in Kept /\ top = live[top.form]
        /\ \A e \in heap : e.cost <= top.cost
    BY DEF HeapInv, TopIsWorstKept, IsRoot
  <1>3. ASSUME NEW e \in heap, e # top PROVE e.form # top.form
    <2>1. e.cost \in Int /\ top.cost \in Int
      BY <1>2 DEF HeapInv, TypeOK, Entries
    <2> QED BY <1>1, <1>2, <1>3, <2>1 DEF Matches
  <1>4. \A e \in heap \ {top} :
          e.form \in DOMAIN Without(top.form) /\ Without(top.form)[e.form] = live[e.form]
    BY <1>1, <1>3, WithoutFacts DEF Matches, Kept
  <1>5. \A f \in DOMAIN Without(top.form) :
          /\ f \in Kept /\ f # top.form /\ Without(top.form)[f] = live[f]
    BY WithoutFacts
  <1> QED BY <1>1, <1>4, <1>5 DEF Matches, Kept

(* A form that is not kept yet is pushed.                                  *)
LEMMA PushMatches ==
  ASSUME NEW h, NEW t, NEW lv, NEW e \in Entries,
         Matches(h, lv), IsRoot(h, t), h # {} => t = lv[t.form],
         e.form \notin DOMAIN lv
  PROVE  /\ Matches(h \union {e}, With(lv, e))
         /\ IsRoot(h \union {e}, RootAfterPush(h, t, e))
         /\ RootAfterPush(h, t, e) = With(lv, e)[RootAfterPush(h, t, e).form]
  <1>1. e.cost \in Int /\ \A r \in h : r.cost \in Int
    BY DEF Entries, Matches
  <1>2. \A r \in h : r.form \in DOMAIN lv /\ r.form # e.form
    BY DEF Matches
  <1> DEFINE w == With(lv, e)
  <1>w. /\ DOMAIN w = DOMAIN lv \union {e.form}
        /\ w[e.form] = e
        /\ \A g \in DOMAIN lv : g # e.form => w[g] = lv[g]
    BY DEF With
  <1> HIDE DEF w
  <1>3. Matches(h \union {e}, w)
    <2>1. \A r \in h : w[r.form] = lv[r.form] /\ r.form \in DOMAIN w
      BY <1>2, <1>w
    <2>2. h \union {e} \subseteq Entries
      BY DEF Matches
    <2>3. \A x \in h \union {e} : /\ x.form \in DOMAIN w
                                  /\ w[x.form].cost <= x.cost
                                  /\ w[x.form].cost = x.cost => x = w[x.form]
      BY <1>1, <1>w, <2>1 DEF Matches
    <2>4. \A f \in DOMAIN w :
            w[f] \in Entries /\ w[f].form = f /\ w[f] \in h \union {e}
      BY <1>w DEF Matches
    <2> QED BY <2>2, <2>3, <2>4 DEF Matches
  <1>4. IsRoot(h \union {e}, RootAfterPush(h, t, e))
    BY <1>1 DEF IsRoot, RootAfterPush
  <1>5. RootAfterPush(h, t, e) = w[RootAfterPush(h, t, e).form]
    <2>1. CASE RootAfterPush(h, t, e) = e
      BY <2>1, <1>w
    <2>2. CASE RootAfterPush(h, t, e) # e
      <3>1. h # {} /\ RootAfterPush(h, t, e) = t
        BY <2>2 DEF RootAfterPush
      <3>2. t \in h /\ t = lv[t.form]
        BY <3>1 DEF IsRoot
      <3> QED BY <1>2, <1>w, <3>1, <3>2
    <2> QED BY <2>1, <2>2
  <1> QED BY <1>3, <1>4, <1>5 DEF w

-----------------------------------------------------------------------------
(* The steps.                                                              *)

LEMMA InitInv == Init => HeapInv
  <1> SUFFICES ASSUME Init PROVE HeapInv
    OBVIOUS
  <1>1. Kept = {}
    BY DEF Init, Kept
  <1>2. TypeOK
    BY <1>1, FS_EmptySet, LimitAssumption DEF Init, TypeOK
  <1>3. HeapHoldsKeptForms /\ EntriesMatch /\ TopIsWorstKept /\ IsRoot(heap, top)
    BY <1>1 DEF Init, HeapHoldsKeptForms, EntriesMatch, TopIsWorstKept, IsRoot
  <1> QED BY <1>2, <1>3 DEF HeapInv

(* The steps that leave the map and the heap alone.                        *)
LEMMA SameHeapInv ==
  ASSUME HeapInv, UNCHANGED <<live, heap, top>>, TypeOK'
  PROVE  HeapInv'
  BY DEF HeapInv, TypeOK, HeapHoldsKeptForms, EntriesMatch, TopIsWorstKept, IsRoot, Kept

LEMMA NoChangeInv ==
  ASSUME HeapInv, NEW a \in Analyses, SkipCorrection(a) \/ Abandon(a) \/ NotBetter(a)
  PROVE  HeapInv'
  <1>1. LookAt(a) /\ UNCHANGED <<live, heap, top>> /\ TypeOK
    BY DEF HeapInv, SkipCorrection, Abandon, NotBetter, Measure
  <1>2. TypeOK'
    BY <1>1, LookAtFacts DEF TypeOK, Kept
  <1> QED BY <1>1, <1>2, SameHeapInv

LEMMA AddFormInv ==
  ASSUME HeapInv, NEW a \in Analyses, AddForm(a)
  PROVE  HeapInv'
  <1> DEFINE e == NewEntry(a)
  <1>1. /\ LookAt(a) /\ TypeOK /\ a.form \notin Kept /\ Cardinality(Kept) < Limit
        /\ live' = With(live, e) /\ heap' = heap \union {e}
        /\ top' = RootAfterPush(heap, top, e)
    BY DEF HeapInv, AddForm, Measure
  <1>2. /\ e \in Entries /\ e.form = a.form /\ a.form \in Form
        /\ considered' \in Seq(Analyses) /\ UNCHANGED <<correction, chosen, pc>>
    BY <1>1, LookAtFacts, AnalysesAssumption
  <1> HIDE DEF e
  <1>3. heap # {} => top = live[top.form]
    BY DEF HeapInv, TopIsWorstKept
  <1>4. /\ Matches(heap', live') /\ IsRoot(heap', top') /\ top' = live'[top'.form]
    <2>1. Matches(heap, live) /\ IsRoot(heap, top) /\ e.form \notin DOMAIN live
      BY <1>1, <1>2, HeapInvMatches DEF HeapInv, Kept
    <2>2. /\ Matches(heap \union {e}, With(live, e))
          /\ IsRoot(heap \union {e}, RootAfterPush(heap, top, e))
          /\ RootAfterPush(heap, top, e) = With(live, e)[RootAfterPush(heap, top, e).form]
      BY <1>2, <1>3, <2>1, PushMatches
    <2> QED BY <1>1, <2>2
  <1>5. Kept' = Kept \union {a.form}
    BY <1>1, <1>2 DEF Kept, With
  <1>6. Cardinality(Kept') <= Limit
    <2>1. IsFiniteSet(Kept) /\ Cardinality(Kept) \in Nat
      BY <1>1, KeptIsFinite
    <2>2. Cardinality(Kept \union {a.form}) = Cardinality(Kept) + 1
      BY <1>1, <2>1, FS_AddElement
    <2> QED BY <1>1, <1>5, <2>1, <2>2, LimitAssumption
  <1>7. top' \in heap'
    BY <1>1, <1>4 DEF IsRoot
  <1>8. TypeOK'
    BY <1>1, <1>2, <1>4, <1>5, <1>6, <1>7 DEF TypeOK, Matches, Kept
  <1> QED BY <1>4, <1>8, HeapInvFromMatch

(* The evicted form makes room for exactly one.                            *)
LEMMA ReplaceWorstKept ==
  ASSUME HeapInv, NEW a \in Analyses, ReplaceWorst(a)
  PROVE  /\ Kept # {} /\ top.form \in Kept
         /\ Kept' = (Kept \ {top.form}) \union {a.form}
         /\ Cardinality(Kept') = Cardinality(Kept)
  <1>1. /\ LookAt(a) /\ TypeOK /\ a.form \notin Kept /\ Cardinality(Kept) >= Limit
        /\ live' = With(Without(top.form), NewEntry(a))
    BY DEF HeapInv, ReplaceWorst, Measure
  <1>2. NewEntry(a).form = a.form
    BY <1>1, LookAtFacts
  <1>3. Kept # {} /\ top.form \in Kept
    <2>1. Kept # {}
      BY <1>1, FS_EmptySet, LimitAssumption
    <2> QED BY <2>1 DEF HeapInv, TopIsWorstKept
  <1>4. Kept' = (Kept \ {top.form}) \union {a.form}
    BY <1>1, <1>2 DEF Kept, With, Without
  <1>5. /\ IsFiniteSet(Kept \ {top.form}) /\ Cardinality(Kept) \in Nat
        /\ Cardinality(Kept \ {top.form}) = Cardinality(Kept) - 1
    BY <1>1, <1>3, KeptIsFinite, FS_RemoveElement
  <1>6. Cardinality((Kept \ {top.form}) \union {a.form})
          = Cardinality(Kept \ {top.form}) + 1
    BY <1>1, <1>5, FS_AddElement
  <1> QED BY <1>3, <1>4, <1>5, <1>6

LEMMA ReplaceWorstInv ==
  ASSUME HeapInv, NEW a \in Analyses, ReplaceWorst(a)
  PROVE  HeapInv'
  <1> DEFINE e == NewEntry(a)
             lv == Without(top.form)
  <1>1. /\ LookAt(a) /\ TypeOK /\ a.form \notin Kept /\ Cardinality(Kept) >= Limit
        /\ live' = With(lv, e)
    BY DEF HeapInv, ReplaceWorst, Measure
  <1>2. PICK h, t : /\ Normalized(heap \ {top}, lv, h, t)
                    /\ heap' = h \union {e}
                    /\ top' = RootAfterPush(h, t, e)
    BY DEF ReplaceWorst
  <1>3. /\ e \in Entries /\ e.form = a.form /\ a.form \in Form
        /\ considered' \in Seq(Analyses) /\ UNCHANGED <<correction, chosen, pc>>
    BY <1>1, LookAtFacts, AnalysesAssumption
  <1>4. /\ Kept # {} /\ top.form \in Kept
        /\ Kept' = (Kept \ {top.form}) \union {a.form}
        /\ Cardinality(Kept') = Cardinality(Kept)
    BY ReplaceWorstKept
  <1>5. DOMAIN lv = Kept \ {top.form}
    BY WithoutFacts
  <1> HIDE DEF e, lv
  <1>6. Matches(h, lv) /\ IsRoot(h, t) /\ (h # {} => t = lv[t.form])
    BY <1>2, <1>4, EvictionMatches, NormalizedFacts DEF lv
  <1>7. /\ Matches(heap', live') /\ IsRoot(heap', top') /\ top' = live'[top'.form]
    <2>1. e.form \notin DOMAIN lv
      BY <1>1, <1>3, <1>5
    <2>2. /\ Matches(h \union {e}, With(lv, e))
          /\ IsRoot(h \union {e}, RootAfterPush(h, t, e))
          /\ RootAfterPush(h, t, e) = With(lv, e)[RootAfterPush(h, t, e).form]
      BY <1>3, <1>6, <2>1, PushMatches
    <2> QED BY <1>1, <1>2, <2>2
  <1>8. top' \in heap'
    BY <1>2, <1>7 DEF IsRoot
  <1>9. Cardinality(Kept') <= Limit
    BY <1>4 DEF HeapInv, TypeOK
  <1>10. TypeOK'
    BY <1>1, <1>3, <1>4, <1>7, <1>8, <1>9 DEF TypeOK, Matches, Kept
  <1> QED BY <1>7, <1>10, HeapInvFromMatch

(* A kept form gets a cheaper entry and may lose older ones.               *)
LEMMA LowerMatches ==
  ASSUME NEW h, NEW lv, NEW e \in Entries, NEW gone \in SUBSET h,
         Matches(h, lv), e.form \in DOMAIN lv, e.cost < lv[e.form].cost,
         \A x \in gone : x.form = e.form
  PROVE  Matches((h \union {e}) \ gone, With(lv, e))
  <1> DEFINE w == With(lv, e)
  <1>w. /\ DOMAIN w = DOMAIN lv
        /\ w[e.form] = e
        /\ \A g \in DOMAIN lv : g # e.form => w[g] = lv[g]
    BY DEF With
  <1> HIDE DEF w
  <1>1. /\ e.cost \in Int
        /\ lv[e.form].cost \in Int
        /\ \A x \in h : x.cost \in Int /\ x.form \in DOMAIN lv
    BY DEF Entries, Matches
  <1>2. \A x \in h : x.form = e.form => e.cost < x.cost
    BY <1>1 DEF Matches
  <1>3. e \notin gone
    BY <1>1, <1>2
  <1>4. (h \union {e}) \ gone \subseteq Entries
    BY DEF Matches
  <1>5. \A x \in (h \union {e}) \ gone : x.form \in DOMAIN w
    BY <1>w, <1>1
  <1>6. ASSUME NEW x \in (h \union {e}) \ gone
        PROVE  w[x.form].cost <= x.cost /\ (w[x.form].cost = x.cost => x = w[x.form])
    <2>1. CASE x = e
      BY <1>w, <1>1, <2>1
    <2>2. CASE x # e /\ x.form = e.form
      BY <1>w, <1>1, <1>2, <2>2
    <2>3. CASE x.form # e.form
      <3>1. x \in h /\ w[x.form] = lv[x.form]
        BY <1>w, <1>1, <2>3
      <3> QED BY <3>1 DEF Matches
    <2> QED BY <2>1, <2>2, <2>3
  <1>7. ASSUME NEW f \in DOMAIN w
        PROVE  w[f] \in Entries /\ w[f].form = f /\ w[f] \in (h \union {e}) \ gone
    <2>1. CASE f = e.form
      BY <1>w, <1>3, <2>1
    <2>2. CASE f # e.form
      <3>1. w[f] = lv[f] /\ lv[f] \in Entries /\ lv[f].form = f /\ lv[f] \in h
        BY <1>w, <2>2 DEF Matches
      <3> QED BY <2>2, <3>1
    <2> QED BY <2>1, <2>2
  <1>8. Matches((h \union {e}) \ gone, w)
    BY <1>4, <1>5, <1>6, <1>7 DEF Matches
  <1> QED BY <1>8 DEF w

LEMMA LowerCostInv ==
  ASSUME HeapInv, NEW a \in Analyses, LowerCost(a)
  PROVE  HeapInv'
  <1> DEFINE e == NewEntry(a)
             w == With(live, e)
             pushed == heap \union {e}
  <1>1. /\ LookAt(a) /\ TypeOK /\ a.form \in Kept /\ live' = w
        /\ TotalCost(a) < live[a.form].cost
    BY DEF HeapInv, LowerCost, Measure, CurrentBest
  <1>2. /\ e \in Entries /\ e.form = a.form /\ e.cost = TotalCost(a)
        /\ considered' \in Seq(Analyses) /\ UNCHANGED <<correction, chosen, pc>>
    BY <1>1, LookAtFacts
  <1>3. /\ Matches(heap, live) /\ top \in heap
        /\ top = live[top.form] /\ \A x \in heap : x.cost <= top.cost
    BY <1>1, HeapInvMatches DEF HeapInv, TopIsWorstKept, IsRoot
  <1>4. e.cost < top.cost
    <2>1. live[a.form] \in heap
      BY <1>1, <1>3 DEF Matches, Kept
    <2>2. live[a.form].cost \in Int /\ top.cost \in Int /\ e.cost \in Int
      BY <1>2, <1>3, <2>1 DEF Matches, Entries
    <2> QED BY <1>1, <1>2, <1>3, <2>1, <2>2
  <1>5. RootAfterPush(heap, top, e) = top
    <2>1. e.cost \in Int /\ top.cost \in Int /\ heap # {}
      BY <1>2, <1>3 DEF Matches, Entries
    <2> QED BY <1>4, <2>1 DEF RootAfterPush
  <1>6. \/ /\ top.form = a.form
           /\ \E h \in SUBSET (pushed \ {top}) : \E t \in h \union {NoEntry} :
                Normalized(pushed \ {top}, w, h, t) /\ heap' = h /\ top' = t
        \/ top.form # a.form /\ heap' = pushed /\ top' = top
    BY <1>1, <1>5 DEF LowerCost
  <1>7. \A gone \in SUBSET heap : (\A x \in gone : x.form = e.form) => Matches(pushed \ gone, w)
    <2>1. e.form \in DOMAIN live /\ e.cost < live[e.form].cost
      BY <1>1, <1>2 DEF Kept
    <2> QED BY <1>2, <1>3, <2>1, LowerMatches
  <1>8. DOMAIN w = Kept
    BY <1>1, <1>2 DEF With, Kept
  <1> HIDE DEF e, w
  <1>9. Matches(heap', live') /\ IsRoot(heap', top') /\ (heap' # {} => top' = live'[top'.form])
    <2>1. CASE top.form = a.form
      <3>1. PICK h, t : Normalized(pushed \ {top}, w, h, t) /\ heap' = h /\ top' = t
        BY <1>6, <2>1
      <3>2. Matches(pushed \ {top}, w)
        BY <1>2, <1>3, <1>7, <2>1
      <3>3. Matches(h, w) /\ IsRoot(h, t) /\ (h # {} => t = w[t.form])
        BY <3>1, <3>2, NormalizedFacts
      <3> QED BY <1>1, <3>1, <3>3
    <2>2. CASE top.form # a.form
      <3>1. heap' = pushed /\ top' = top
        BY <1>6, <2>2
      <3>2. Matches(pushed \ {}, w) /\ pushed \ {} = pushed
        BY <1>7
      <3>3. e.cost \in Int /\ top.cost \in Int
        BY <1>2, <1>3 DEF Matches, Entries
      <3>4. IsRoot(pushed, top)
        BY <1>3, <1>4, <3>3 DEF IsRoot
      <3>5. top = w[top.form]
        BY <1>2, <1>3, <2>2 DEF w, With, Matches
      <3> QED BY <1>1, <3>1, <3>2, <3>4, <3>5
    <2> QED BY <2>1, <2>2
  <1>10. Kept' = Kept
    BY <1>1, <1>8 DEF Kept
  <1>11. top' \in heap' \union {NoEntry}
    BY <1>9 DEF IsRoot
  <1>12. TypeOK'
    BY <1>1, <1>2, <1>9, <1>10, <1>11 DEF TypeOK, Matches, Kept
  <1> QED BY <1>9, <1>12, HeapInvFromMatch

LEMMA StartStoringInv ==
  ASSUME HeapInv, StartStoring
  PROVE  HeapInv'
  <1>1. TypeOK' /\ UNCHANGED <<live, heap, top>>
    BY DEF HeapInv, TypeOK, StartStoring, Kept
  <1> QED BY <1>1, SameHeapInv

LEMMA StoreWorstInv ==
  ASSUME HeapInv, StoreWorst
  PROVE  HeapInv'
  <1> DEFINE lv == Without(top.form)
  <1>1. TypeOK /\ Kept # {} /\ live' = lv /\ UNCHANGED <<correction, considered, pc>>
    BY DEF HeapInv, StoreWorst
  <1>2. PICK h, t : /\ IF Cardinality(Kept) > 1
                         THEN Normalized(heap \ {top}, lv, h, t)
                         ELSE h = heap \ {top} /\ IsRoot(h, t)
                    /\ heap' = h
                    /\ top' = t
    BY DEF StoreWorst
  <1>3. top.form \in Kept /\ top.form \in Form
    BY <1>1 DEF HeapInv, TypeOK, TopIsWorstKept
  <1>4. Matches(heap \ {top}, lv)
    BY <1>1, EvictionMatches
  <1>5. Kept' = Kept \ {top.form}
    BY <1>1 DEF Kept, Without
  <1>6. /\ IsFiniteSet(Kept \ {top.form}) /\ Cardinality(Kept) \in Nat
        /\ Cardinality(Kept \ {top.form}) = Cardinality(Kept) - 1
    BY <1>1, <1>3, KeptIsFinite, FS_RemoveElement
  <1>7. Cardinality(Kept') <= Limit
    BY <1>5, <1>6, LimitAssumption DEF HeapInv, TypeOK
  <1>8. DOMAIN lv = Kept \ {top.form}
    BY DEF Without
  <1> HIDE DEF lv
  <1>9. Matches(h, lv) /\ IsRoot(h, t) /\ (h # {} => t = lv[t.form])
    <2>1. CASE Cardinality(Kept) > 1
      BY <1>2, <1>4, <2>1, NormalizedFacts
    <2>2. CASE ~(Cardinality(Kept) > 1)
      <3>1. h = heap \ {top} /\ IsRoot(h, t)
        BY <1>2, <2>2
      <3>2. Cardinality(Kept) # 0
        BY <1>1, KeptIsFinite, FS_EmptySet
      <3>3. Cardinality(Kept \ {top.form}) = 0
        BY <1>6, <2>2, <3>2
      <3>4. Kept \ {top.form} = {}
        BY <1>6, <3>3, FS_EmptySet
      <3>5. h = {}
        BY <1>4, <1>8, <3>1, <3>4 DEF Matches
      <3> QED BY <1>4, <3>1, <3>5
    <2> QED BY <2>1, <2>2
  <1>10. chosen' \in Seq(Form)
    BY <1>1, <1>3, ConcatProperties DEF TypeOK, StoreWorst
  <1>11. top' \in heap' \union {NoEntry}
    BY <1>2, <1>9 DEF IsRoot
  <1>12. TypeOK'
    BY <1>1, <1>2, <1>5, <1>7, <1>9, <1>10, <1>11 DEF TypeOK, Matches, Kept
  <1> QED BY <1>1, <1>2, <1>9, <1>12, HeapInvFromMatch

LEMMA NextTokenInv ==
  ASSUME HeapInv, NextToken
  PROVE  HeapInv'
  <1>1. TypeOK' /\ UNCHANGED <<live, heap, top>>
    BY DEF HeapInv, TypeOK, NextToken, Kept
  <1> QED BY <1>1, SameHeapInv

LEMMA NextInv == HeapInv /\ [Next]_vars => HeapInv'
  <1> SUFFICES ASSUME HeapInv, [Next]_vars PROVE HeapInv'
    OBVIOUS
  <1>1. ASSUME NEW a \in Analyses, Consider(a) PROVE HeapInv'
    BY <1>1, NoChangeInv, LowerCostInv, AddFormInv, ReplaceWorstInv DEF Consider
  <1>2. CASE StartStoring
    BY <1>2, StartStoringInv
  <1>3. CASE StoreWorst
    BY <1>3, StoreWorstInv
  <1>4. CASE NextToken
    BY <1>4, NextTokenInv
  <1>5. CASE UNCHANGED vars
    <2>1. TypeOK' /\ UNCHANGED <<live, heap, top>>
      BY <1>5 DEF HeapInv, TypeOK, vars, Kept
    <2> QED BY <2>1, SameHeapInv
  <1> QED BY <1>1, <1>2, <1>3, <1>4, <1>5 DEF Next

(* Lazy deletion keeps the heap and the map together: every kept form has  *)
(* its current entry in the heap, every other entry there is dead, and the *)
(* root is a current one, for every limit and for costs of either sign.    *)
THEOREM HeapInvariance == Spec => []HeapInv
  BY InitInv, NextInv, PTL DEF Spec

-----------------------------------------------------------------------------
(* The theorems.                                                           *)

(* Lazy deletion is sound: no step leaves an entry of an evicted form in   *)
(* the heap, so that alternatives_cost.at() never throws.                  *)
THEOREM EvictedFormsLeaveTheHeap == Spec => []HeapHoldsKeptForms
  <1>1. HeapInv => HeapHoldsKeptForms
    BY DEF HeapInv
  <1> QED BY <1>1, HeapInvariance, PTL

(* The cost new forms are compared with, and the form that is evicted or   *)
(* stored, are those of the most expensive kept form, however often the    *)
(* cost of a form was lowered and whatever the sign of the costs.          *)
THEOREM RootIsTheWorstForm == Spec => []TopIsWorstKept
  <1>1. HeapInv => TopIsWorstKept
    BY DEF HeapInv
  <1> QED BY <1>1, HeapInvariance, PTL

(* The assertion of spellchecker.cpp:124.                                  *)
THEOREM HeapIsEmptyAtTheEnd == Spec => []NothingLeftBehind
  <1>1. HeapInv => NothingLeftBehind
    BY DEF HeapInv, TopIsWorstKept, NothingLeftBehind
  <1> QED BY <1>1, HeapInvariance, PTL

(* All three: the heap with lazy deletion answers like a heap without dead *)
(* entries (spellchecker.cpp:83-124).                                      *)
THEOREM HeapStaysSound == Spec => []HeapIsSound
  <1>1. HeapHoldsKeptForms /\ TopIsWorstKept /\ NothingLeftBehind => HeapIsSound
    BY DEF HeapIsSound
  <1> QED BY <1>1, EvictedFormsLeaveTheHeap, RootIsTheWorstForm, HeapIsEmptyAtTheEnd, PTL

-----------------------------------------------------------------------------
(* The forms that are kept are the cheapest.                               *)

Optimal == HeapInv /\ KeepsCheapest

(* The possibilities looked at are the earlier ones and the new one.       *)
LEMMA ConsideredFacts ==
  ASSUME TypeOK, KeepsCheapest, NEW a \in Analyses, LookAt(a), Accounted(a)',
         \A b \in Analyses : Accounted(b) => Accounted(b)'
  PROVE  KeepsCheapest'
  <1>1. /\ considered' = Append(considered, a) /\ considered \in Seq(Analyses)
        /\ Len(considered) \in Nat
    BY LenProperties DEF LookAt, TypeOK
  <1>2. ASSUME NEW k \in 1 .. Len(considered')
        PROVE  Accounted(considered[k])' \/ k = Len(considered) + 1
    <2>1. Len(considered') = Len(considered) + 1
      BY <1>1, AppendProperties
    <2>2. CASE k \in 1 .. Len(considered)
      <3>1. considered'[k] = considered[k] /\ considered[k] \in Analyses
        BY <1>1, <2>2, AppendProperties, ElementOfSeq
      <3>2. Accounted(considered[k])
        BY <2>2 DEF KeepsCheapest, LookAt
      <3> QED BY <3>1, <3>2 DEF Accounted
    <2> QED BY <1>1, <2>1, <2>2
  <1>3. considered'[Len(considered) + 1] = a
    BY <1>1, AppendProperties
  <1> QED BY <1>2, <1>3 DEF KeepsCheapest, Accounted

(* The bound new costs are compared with.                                  *)
LEMMA CurrentBestFacts ==
  ASSUME HeapInv, NEW a \in Analyses, HaveCurrentBest(a)
  PROVE  /\ CurrentBest(a) \in Int
         /\ TotalCost(a) >= CurrentBest(a) => Accounted(a)
  <1>1. a.form \in Form /\ TotalCost(a) \in Int
    BY EntryFacts
  <1>2. CASE a.form \in Kept
    <2>1. CurrentBest(a) = live[a.form].cost /\ live[a.form].cost \in Int
      BY <1>2 DEF CurrentBest, HeapInv, TypeOK, Entries
    <2> QED BY <1>1, <1>2, <2>1 DEF Accounted
  <1>3. CASE a.form \notin Kept
    <2>1. Cardinality(Kept) = Limit
      BY <1>3 DEF HaveCurrentBest
    <2>2. Kept # {} /\ heap # {}
      BY <2>1, FS_EmptySet, LimitAssumption DEF HeapInv, TopIsWorstKept
    <2>3. CurrentBest(a) = top.cost /\ top.cost \in Int
      BY <1>3, <2>2 DEF CurrentBest, HeapInv, TypeOK, Entries, IsRoot
    <2>4. \A f \in Kept : live[f].cost \in Int /\ live[f].cost <= top.cost
      BY <2>2 DEF HeapInv, TypeOK, TopIsWorstKept, Entries
    <2> QED BY <1>1, <1>3, <2>1, <2>3, <2>4 DEF Accounted
  <1> QED BY <1>2, <1>3

(* A measurement that is broken off would not have helped.                 *)
LEMMA NoChangeOptimal ==
  ASSUME Optimal, NEW a \in Analyses, Rises(a),
         SkipCorrection(a) \/ Abandon(a) \/ NotBetter(a)
  PROVE  KeepsCheapest'
  <1>1. /\ LookAt(a) /\ HeapInv /\ TypeOK /\ KeepsCheapest
        /\ UNCHANGED <<live, correction>>
    BY DEF Optimal, HeapInv, SkipCorrection, Abandon, NotBetter, Measure, LookAt
  <1>2. \A b \in Analyses : Accounted(b)' <=> Accounted(b)
    BY <1>1 DEF Accounted, Kept
  <1>3. Accounted(a)
    <2>1. CASE SkipCorrection(a)
      BY <2>1 DEF SkipCorrection, Accounted
    <2>2. CASE Abandon(a)
      <3>1. HaveCurrentBest(a) /\ \E k \in 1 .. Len(a.costs) : a.costs[k] > CurrentBest(a)
        BY <2>2 DEF Abandon, IsAbandoned
      <3>2. \A k \in 1 .. Len(a.costs) : a.costs[k] \in Int /\ a.costs[k] <= TotalCost(a)
        BY AnalysesAssumption, ElementOfSeq DEF Rises
      <3>3. TotalCost(a) \in Int /\ CurrentBest(a) \in Int
        BY <1>1, <3>1, EntryFacts, CurrentBestFacts
      <3>4. TotalCost(a) >= CurrentBest(a)
        BY <3>1, <3>2, <3>3
      <3> QED BY <1>1, <3>1, <3>4, CurrentBestFacts
    <2>3. CASE NotBetter(a)
      BY <1>1, <2>3, CurrentBestFacts DEF NotBetter
    <2> QED BY <2>1, <2>2, <2>3
  <1> QED BY <1>1, <1>2, <1>3, ConsideredFacts

LEMMA LowerCostOptimal ==
  ASSUME Optimal, NEW a \in Analyses, LowerCost(a)
  PROVE  KeepsCheapest'
  <1> DEFINE e == NewEntry(a)
  <1>1. /\ LookAt(a) /\ TypeOK /\ KeepsCheapest /\ a.form \in Kept
        /\ live' = With(live, e) /\ UNCHANGED correction
        /\ TotalCost(a) < live[a.form].cost
    BY DEF Optimal, HeapInv, LowerCost, Measure, CurrentBest, LookAt
  <1>2. e.form = a.form /\ e.cost = TotalCost(a) /\ TotalCost(a) \in Int
    BY <1>1, LookAtFacts, EntryFacts
  <1> HIDE DEF e
  <1>3. /\ Kept' = Kept /\ live'[a.form] = e
        /\ \A f \in Kept : f # a.form => live'[f] = live[f]
    BY <1>1, <1>2 DEF Kept, With
  <1>4. \A f \in Kept : /\ live[f].cost \in Int /\ live'[f].cost \in Int
                        /\ live'[f].cost <= live[f].cost
    BY <1>1, <1>2, <1>3 DEF TypeOK, Entries
  <1>5. Accounted(a)'
    BY <1>1, <1>2, <1>3 DEF Accounted
  <1>6. ASSUME NEW b \in Analyses, Accounted(b) PROVE Accounted(b)'
    <2>1. TotalCost(b) \in Int
      BY EntryFacts
    <2> QED BY <1>1, <1>3, <1>4, <1>6, <2>1 DEF Accounted
  <1> QED BY <1>1, <1>5, <1>6, ConsideredFacts

LEMMA AddFormOptimal ==
  ASSUME Optimal, NEW a \in Analyses, AddForm(a)
  PROVE  KeepsCheapest'
  <1> DEFINE e == NewEntry(a)
  <1>1. /\ LookAt(a) /\ TypeOK /\ KeepsCheapest /\ a.form \notin Kept
        /\ Cardinality(Kept) < Limit
        /\ live' = With(live, e) /\ UNCHANGED correction
    BY DEF Optimal, HeapInv, AddForm, Measure, LookAt
  <1>2. e.form = a.form /\ e.cost = TotalCost(a) /\ TotalCost(a) \in Int
    BY <1>1, LookAtFacts, EntryFacts
  <1> HIDE DEF e
  <1>3. /\ Kept' = Kept \union {a.form} /\ live'[a.form] = e
        /\ \A f \in Kept : live'[f] = live[f]
    BY <1>1, <1>2 DEF Kept, With
  <1>4. Accounted(a)'
    BY <1>2, <1>3 DEF Accounted
  <1>5. Cardinality(Kept) # Limit
    BY <1>1, KeptIsFinite, LimitAssumption
  <1>6. ASSUME NEW b \in Analyses, Accounted(b) PROVE Accounted(b)'
    BY <1>1, <1>3, <1>5, <1>6 DEF Accounted
  <1> QED BY <1>1, <1>4, <1>6, ConsideredFacts

LEMMA ReplaceWorstOptimal ==
  ASSUME Optimal, NEW a \in Analyses, ReplaceWorst(a)
  PROVE  KeepsCheapest'
  <1> DEFINE e == NewEntry(a)
  <1>1. /\ LookAt(a) /\ HeapInv /\ TypeOK /\ KeepsCheapest /\ a.form \notin Kept
        /\ live' = With(Without(top.form), e) /\ UNCHANGED correction
        /\ Cardinality(Kept) >= Limit /\ TotalCost(a) < CurrentBest(a)
    BY DEF Optimal, HeapInv, ReplaceWorst, Measure, LookAt
  <1>2. e.form = a.form /\ e.cost = TotalCost(a) /\ TotalCost(a) \in Int
    BY <1>1, LookAtFacts, EntryFacts
  <1>3. /\ Kept # {} /\ top.form \in Kept
        /\ Kept' = (Kept \ {top.form}) \union {a.form}
        /\ Cardinality(Kept') = Cardinality(Kept)
    BY <1>1, ReplaceWorstKept
  <1>4. Cardinality(Kept) = Limit
    BY <1>1, KeptIsFinite, LimitAssumption DEF TypeOK
  <1>5. /\ top.cost \in Int /\ top = live[top.form]
        /\ \A f \in Kept : live[f].cost \in Int /\ live[f].cost <= top.cost
    BY <1>1, <1>3 DEF HeapInv, TypeOK, TopIsWorstKept, Entries
  <1>6. TotalCost(a) < top.cost
    BY <1>1, <1>3 DEF CurrentBest, HeapInv, TopIsWorstKept
  <1> HIDE DEF e
  <1>7. /\ live'[a.form] = e
        /\ \A f \in Kept : f # top.form => live'[f] = live[f]
    BY <1>1, <1>2 DEF Kept, With, Without
  <1>8. \A f \in Kept' : live'[f].cost \in Int /\ live'[f].cost <= top.cost
    BY <1>2, <1>3, <1>5, <1>6, <1>7
  <1>9. Accounted(a)'
    BY <1>2, <1>3, <1>7 DEF Accounted
  <1>10. ASSUME NEW b \in Analyses, Accounted(b) PROVE Accounted(b)'
    <2>1. TotalCost(b) \in Int
      BY EntryFacts
    <2>2. CASE b.form = correction
      BY <1>1, <2>2 DEF Accounted
    <2>3. CASE b.form # correction /\ b.form \in Kept \ {top.form}
      BY <1>1, <1>3, <1>7, <1>10, <2>3 DEF Accounted
    <2>4. CASE b.form # correction /\ b.form \notin Kept \ {top.form}
      <3>1. top.cost <= TotalCost(b)
        BY <1>3, <1>5, <1>10, <2>4 DEF Accounted
      <3>2. \A f \in Kept' : live'[f].cost <= TotalCost(b)
        BY <1>5, <1>8, <2>1, <3>1
      <3> QED BY <1>3, <1>4, <3>2 DEF Accounted
    <2> QED BY <2>2, <2>3, <2>4
  <1> QED BY <1>1, <1>9, <1>10, ConsideredFacts

LEMMA ConsiderOptimal ==
  ASSUME Optimal, NEW a \in Analyses, Rises(a), Consider(a)
  PROVE  Optimal'
  <1>1. HeapInv'
    BY NextInv DEF Optimal, Next
  <1>2. KeepsCheapest'
    BY NoChangeOptimal, LowerCostOptimal, AddFormOptimal, ReplaceWorstOptimal
    DEF Consider
  <1> QED BY <1>1, <1>2 DEF Optimal

LEMMA OtherOptimal ==
  ASSUME Optimal, StartStoring \/ StoreWorst \/ NextToken \/ UNCHANGED vars
  PROVE  Optimal'
  <1>1. HeapInv'
    BY NextInv DEF Optimal, Next
  <1>2. CASE StartStoring
    BY <1>1, <1>2 DEF StartStoring, KeepsCheapest, Optimal
  <1>3. CASE StoreWorst
    BY <1>1, <1>3 DEF StoreWorst, KeepsCheapest, Optimal
  <1>4. CASE NextToken
    BY <1>1, <1>4 DEF NextToken, KeepsCheapest, Optimal
  <1>5. CASE UNCHANGED vars
    BY <1>1, <1>5 DEF Optimal, vars, KeepsCheapest, Accounted, Kept
  <1> QED BY <1>2, <1>3, <1>4, <1>5

LEMMA NextOptimal == RisingCosts /\ Optimal /\ [Next]_vars => Optimal'
  BY ConsiderOptimal, OtherOptimal DEF RisingCosts, Next

(* While a token is measured, the map holds the cheapest of the forms seen *)
(* so far, each at its cheapest cost, provided that the running cost of a  *)
(* possibility never falls.                                                *)
THEOREM MapKeepsTheCheapest ==
  ASSUME RisingCosts
  PROVE  Spec => []KeepsCheapest
  <1>1. Init => Optimal
    BY InitInv DEF Init, Optimal, KeepsCheapest
  <1>2. Optimal /\ [Next]_vars => Optimal'
    BY NextOptimal
  <1>3. Optimal => KeepsCheapest
    BY DEF Optimal
  <1> QED BY <1>1, <1>2, <1>3, PTL DEF Spec

-----------------------------------------------------------------------------
(* Least elements.                                                         *)

LEMMA LeastExists ==
  ASSUME NEW S \in SUBSET Nat, S # {}
  PROVE  \E n \in S : \A k \in S : n <= k
  <1>1. IsWellFoundedOn({pair \in Nat \X Nat : pair[1] < pair[2]}, Nat)
    BY NatLessThanWellFounded DEF OpToRel
  <1>2. PICK least \in S : \A k \in S : <<k, least>> \notin {pair \in Nat \X Nat : pair[1] < pair[2]}
    <2>1. S \subseteq Nat /\ S # {}
      OBVIOUS
    <2> QED BY <1>1, <2>1, WFMin
  <1>3. ASSUME NEW k \in S
        PROVE  least <= k
    <2>1. least \in Nat /\ k \in Nat /\ <<k, least>> \in Nat \X Nat
      OBVIOUS
    <2>2. ~(k < least)
      BY <1>2, <2>1
    <2> QED BY <2>1, <2>2
  <1> QED BY <1>3

LEMMA FiniteSetHasMin ==
  ASSUME NEW S \in SUBSET Int, IsFiniteSet(S), S # {}
  PROVE  \E c \in S : \A d \in S : c <= d
  <1> DEFINE Below(c) == {d \in S : d < c}
             sizes == {Cardinality(Below(c)) : c \in S}
  <1>1. \A c \in S : IsFiniteSet(Below(c)) /\ Cardinality(Below(c)) \in Nat
    <2>1. \A c \in S : Below(c) \in SUBSET S
      OBVIOUS
    <2> HIDE DEF Below
    <2> QED BY <2>1, FS_Subset, FS_CardinalityType
  <1>2. PICK n \in sizes : \A m \in sizes : n <= m
    <2>1. sizes \in SUBSET Nat /\ sizes # {}
      BY <1>1
    <2> HIDE DEF sizes
    <2> QED BY <2>1, LeastExists
  <1>3. PICK c \in S : n = Cardinality(Below(c))
    BY <1>2
  <1>4. ASSUME NEW d \in S, d < c PROVE FALSE
    <2>1. Below(d) \in SUBSET Below(c) /\ Below(d) # Below(c)
      <3>0. \A x \in S : x < d => x < c
        BY <1>4
      <3>1. Below(d) \in SUBSET Below(c)
        BY <3>0
      <3>2. d \in Below(c) /\ d \notin Below(d)
        BY <1>4
      <3> QED BY <3>1, <3>2
    <2>2. Cardinality(Below(d)) \in sizes
      OBVIOUS
    <2> HIDE DEF Below, sizes
    <2>3. Cardinality(Below(d)) <= Cardinality(Below(c))
          /\ Cardinality(Below(d)) # Cardinality(Below(c))
      BY <1>1, <2>1, FS_Subset
    <2> QED BY <1>1, <1>2, <1>3, <2>2, <2>3
  <1> QED BY <1>4

-----------------------------------------------------------------------------
(***************************************************************************)
(* What is stored is the cheapest of what was offered.  StoreInv is the    *)
(* inductive invariant: the forms stored so far and the forms still kept   *)
(* are together the cheapest of the forms offered, as many as asked for,   *)
(* and the stored ones are the most expensive of them, in order.           *)
(***************************************************************************)
Cost == [f \in Offered |-> CheapestCost(f)]

IsCostOf(f, c) ==
  \E k \in 1 .. Len(considered) :
    considered[k].form = f /\ TotalCost(considered[k]) = c

KeptWereConsidered ==
  \A f \in Kept : f # correction /\ IsCostOf(f, live[f].cost)

Storing(offered, cost) ==
  /\ Kept \subseteq offered
  /\ \A f \in Kept : live[f].cost = cost[f]
  /\ \A k \in 1 .. Len(chosen) : chosen[k] \in offered \ Kept
  /\ \A j, k \in 1 .. Len(chosen) : j < k =>
       chosen[j] # chosen[k] /\ cost[chosen[j]] <= cost[chosen[k]]
  /\ \A f \in Kept, k \in 1 .. Len(chosen) : cost[f] <= cost[chosen[k]]
  /\ Cardinality(Kept) + Len(chosen) =
       IF Cardinality(offered) < Limit THEN Cardinality(offered) ELSE Limit
  /\ \A f \in offered \ Kept :
       (\A j \in 1 .. Len(chosen) : chosen[j] # f) =>
         /\ \A g \in Kept : cost[g] <= cost[f]
         /\ \A k \in 1 .. Len(chosen) : cost[chosen[k]] <= cost[f]

StoreInv ==
  /\ pc = "measure" => chosen = <<>> /\ KeptWereConsidered
  /\ pc = "store" => Storing(Offered, Cost)

LEMMA ConsideredCosts ==
  ASSUME TypeOK
  PROVE  /\ Len(considered) \in Nat
         /\ \A k \in 1 .. Len(considered) :
              /\ considered[k] \in Analyses
              /\ considered[k].form \in Form
              /\ TotalCost(considered[k]) \in Int
<1>1. considered \in Seq(Analyses) /\ Len(considered) \in Nat
  BY LenProperties DEF TypeOK
<1>2. \A k \in 1 .. Len(considered) : considered[k] \in Analyses
  BY <1>1, ElementOfSeq
<1> QED BY <1>1, <1>2, EntryFacts

LEMMA OfferedIsFinite ==
  ASSUME TypeOK
  PROVE  /\ Offered \subseteq Form
         /\ IsFiniteSet(Offered)
         /\ Cardinality(Offered) \in Nat
<1>1. Offered \subseteq Form
  BY ConsideredCosts DEF Offered
<1> QED BY <1>1, AnalysesAssumption, FS_Subset, FS_CardinalityType

(* A lower bound that is one of the costs is the cheapest cost.            *)
LEMMA CheapestIs ==
  ASSUME TypeOK, NEW f, NEW c, IsCostOf(f, c),
         \A k \in 1 .. Len(considered) :
           considered[k].form = f => c <= TotalCost(considered[k])
  PROVE  CheapestCost(f) = c
<1> DEFINE costs == {TotalCost(considered[k]) :
                       k \in {j \in 1 .. Len(considered) : considered[j].form = f}}
<1>1. c \in costs /\ costs \subseteq Int /\ \A d \in costs : c <= d
  BY ConsideredCosts DEF IsCostOf
<1>2. CheapestCost(f) = CHOOSE x \in costs : \A d \in costs : x <= d
  BY DEF CheapestCost
<1> HIDE DEF costs
<1>3. \A x \in costs : (\A d \in costs : x <= d) => x = c
  BY <1>1
<1> QED BY <1>1, <1>2, <1>3

(* Every form that was considered has a cheapest cost.                     *)
LEMMA CheapestExists ==
  ASSUME TypeOK, NEW f \in Offered
  PROVE  /\ CheapestCost(f) \in Int
         /\ IsCostOf(f, CheapestCost(f))
         /\ \A k \in 1 .. Len(considered) :
              considered[k].form = f => CheapestCost(f) <= TotalCost(considered[k])
<1> DEFINE ks == {j \in 1 .. Len(considered) : considered[j].form = f}
           costs == {TotalCost(considered[k]) : k \in ks}
<1>1. /\ \A k \in ks : TotalCost(considered[k]) \in Int
      /\ ks # {} /\ IsFiniteSet(ks)
  <2>1. ks \subseteq 1 .. Len(considered) /\ IsFiniteSet(1 .. Len(considered))
    BY ConsideredCosts, FS_Interval
  <2> QED BY <2>1, FS_Subset, ConsideredCosts DEF Offered
<1>2. IsFiniteSet(costs) /\ costs # {} /\ costs \subseteq Int
  <2> HIDE DEF ks
  <2>1. IsFiniteSet(costs)
    <3> DEFINE total == [k \in ks |-> TotalCost(considered[k])]
    <3>1. total \in Surjection(ks, costs)
      BY DEF Surjection
    <3> HIDE DEF total, costs
    <3> QED BY <1>1, <3>1, FS_Surjection
  <2> QED BY <1>1, <2>1
<1>3. PICK c \in costs : \A d \in costs : c <= d
  <2> HIDE DEF costs
  <2> QED BY <1>2, FiniteSetHasMin
<1>4. IsCostOf(f, c) /\ c \in Int
  BY <1>2, <1>3 DEF IsCostOf
<1>5. \A k \in 1 .. Len(considered) : considered[k].form = f => c <= TotalCost(considered[k])
  BY <1>3
<1>6. CheapestCost(f) = c
  BY <1>4, <1>5, CheapestIs
<1> QED BY <1>4, <1>5, <1>6

(* The cost of a kept form is its cheapest.                                *)
LEMMA KeptCosts ==
  ASSUME Optimal, pc = "measure", KeptWereConsidered
  PROVE  /\ Kept \subseteq Offered
         /\ \A f \in Kept : live[f].cost = Cost[f]
<1>1. TypeOK /\ KeepsCheapest
  BY DEF Optimal, HeapInv
<1>2. ASSUME NEW f \in Kept
      PROVE  f \in Offered /\ CheapestCost(f) = live[f].cost
  <2>1. f # correction /\ IsCostOf(f, live[f].cost)
    BY DEF KeptWereConsidered
  <2>2. f \in Offered
    BY <2>1 DEF IsCostOf, Offered
  <2>3. ASSUME NEW k \in 1 .. Len(considered), considered[k].form = f
        PROVE  live[f].cost <= TotalCost(considered[k])
    BY <1>1, <2>1, <2>3 DEF KeepsCheapest, Accounted
  <2> QED BY <1>1, <2>1, <2>2, <2>3, CheapestIs
<1> QED BY <1>2 DEF Cost

(* When a form offered is not kept, the map is full of cheaper ones.       *)
LEMMA NotKeptCosts ==
  ASSUME Optimal, pc = "measure", KeptWereConsidered,
         NEW f \in Offered \ Kept
  PROVE  /\ Cardinality(Kept) = Limit
         /\ \A g \in Kept : Cost[g] <= Cost[f]
<1>1. TypeOK /\ KeepsCheapest
  BY DEF Optimal, HeapInv
<1>2. PICK k \in 1 .. Len(considered) :
        considered[k].form = f /\ TotalCost(considered[k]) = CheapestCost(f)
  BY <1>1, CheapestExists DEF IsCostOf
<1>3. /\ Cardinality(Kept) = Limit
      /\ \A g \in Kept : live[g].cost <= CheapestCost(f)
  BY <1>1, <1>2 DEF KeepsCheapest, Accounted, Offered
<1> QED BY <1>3, KeptCosts DEF Cost

LEMMA StartStoringStore ==
  ASSUME Optimal, StoreInv, StartStoring
  PROVE  StoreInv'
<1>1. /\ pc = "measure" /\ pc' = "store" /\ chosen' = <<>>
      /\ UNCHANGED <<correction, considered, live, chosen>>
      /\ KeptWereConsidered
  BY DEF StartStoring, StoreInv
<1>2. TypeOK /\ Kept' = Kept
  BY <1>1 DEF Optimal, HeapInv, Kept
<1>3. PICK offered, cost : offered = Offered /\ cost = Cost
  OBVIOUS
<1>4. offered = Offered' /\ cost = Cost'
  BY <1>1, <1>3 DEF Offered, Cost, CheapestCost
<1>5. /\ Kept \subseteq offered
      /\ \A f \in Kept : live[f].cost = cost[f]
  BY <1>1, <1>3, KeptCosts
<1>6. \A f \in offered \ Kept : /\ Cardinality(Kept) = Limit
                               /\ \A g \in Kept : cost[g] <= cost[f]
  BY <1>1, <1>3, NotKeptCosts
<1>7. Cardinality(Kept) =
        IF Cardinality(offered) < Limit THEN Cardinality(offered) ELSE Limit
  <2>1. /\ IsFiniteSet(offered) /\ Cardinality(offered) \in Nat
        /\ Cardinality(Kept) \in Nat /\ Cardinality(Kept) <= Cardinality(offered)
    BY <1>2, <1>3, <1>5, OfferedIsFinite, KeptIsFinite, FS_Subset
  <2>2. CASE offered \subseteq Kept
    <3>1. offered = Kept /\ Cardinality(Kept) <= Limit
      BY <1>2, <1>5, <2>2 DEF TypeOK
    <3> QED BY <2>1, <3>1, LimitAssumption
  <2>3. CASE ~(offered \subseteq Kept)
    <3>1. Cardinality(Kept) = Limit
      BY <1>6, <2>3
    <3> QED BY <2>1, <3>1, LimitAssumption
  <2> QED BY <2>2, <2>3
<1>8. Len(chosen') = 0 /\ 1 .. Len(chosen') = {}
  BY <1>1, EmptySeq
<1>9. Cardinality(Kept) + 0 = Cardinality(Kept)
  BY <1>2, KeptIsFinite
<1>10. Storing(offered, cost)'
  BY <1>1, <1>2, <1>5, <1>6, <1>7, <1>8, <1>9 DEF Storing
<1> QED BY <1>1, <1>4, <1>10 DEF StoreInv

(* A cost that was measured stays measured, and the new one is added.      *)
LEMMA ConsiderStore ==
  ASSUME TypeOK, StoreInv, NEW a \in Analyses, LookAt(a),
         \A f \in Kept' :
           \/ f \in Kept /\ live'[f].cost = live[f].cost
           \/ f = a.form /\ f # correction /\ live'[f].cost = TotalCost(a)
  PROVE  StoreInv'
<1>1. /\ pc = "measure" /\ pc' = "measure" /\ chosen' = <<>> /\ correction' = correction
      /\ considered' = Append(considered, a) /\ KeptWereConsidered
  BY DEF LookAt, StoreInv
<1>2. /\ Len(considered) \in Nat /\ Len(considered') = Len(considered) + 1
      /\ \A k \in 1 .. Len(considered) : considered'[k] = considered[k]
      /\ considered'[Len(considered) + 1] = a
  BY <1>1, ConsideredCosts, AppendProperties DEF TypeOK
<1>3. 1 .. Len(considered) \subseteq 1 .. Len(considered')
      /\ Len(considered) + 1 \in 1 .. Len(considered')
  BY <1>2
<1>4. ASSUME NEW f \in Kept'
      PROVE  f # correction' /\ \E k \in 1 .. Len(considered') :
                considered'[k].form = f /\ TotalCost(considered'[k]) = live'[f].cost
  <2>1. CASE f \in Kept /\ live'[f].cost = live[f].cost
    <3>1. f # correction /\ \E k \in 1 .. Len(considered) :
            considered[k].form = f /\ TotalCost(considered[k]) = live[f].cost
      BY <1>1, <2>1 DEF KeptWereConsidered, IsCostOf
    <3> QED BY <1>1, <1>2, <1>3, <2>1, <3>1
  <2>2. CASE f = a.form /\ f # correction /\ live'[f].cost = TotalCost(a)
    BY <1>1, <1>2, <1>3, <2>2
  <2> QED BY <1>4, <2>1, <2>2
<1>5. KeptWereConsidered'
  BY <1>4 DEF KeptWereConsidered, IsCostOf
<1> QED BY <1>1, <1>5 DEF StoreInv

LEMMA MeasureStore ==
  ASSUME Optimal, StoreInv, NEW a \in Analyses, Consider(a)
  PROVE  StoreInv'
<1> DEFINE e == NewEntry(a)
<1>1. LookAt(a) /\ HeapInv /\ TypeOK
  BY DEF Optimal, HeapInv, Consider, SkipCorrection, Abandon, NotBetter, LowerCost,
     AddForm, ReplaceWorst, Measure
<1>2. e.form = a.form /\ e.cost = TotalCost(a)
  BY <1>1, LookAtFacts
<1> HIDE DEF e
<1>3. \A f \in Kept' :
        \/ f \in Kept /\ live'[f].cost = live[f].cost
        \/ f = a.form /\ f # correction /\ live'[f].cost = TotalCost(a)
  <2>1. CASE SkipCorrection(a) \/ Abandon(a) \/ NotBetter(a)
    BY <2>1 DEF SkipCorrection, Abandon, NotBetter, Kept
  <2>2. CASE LowerCost(a) \/ AddForm(a)
    <3>1. live' = With(live, e) /\ a.form # correction
      BY <2>2 DEF LowerCost, AddForm, Measure, e
    <3> QED BY <1>2, <3>1 DEF With, Kept
  <2>3. CASE ReplaceWorst(a)
    <3>1. live' = With(Without(top.form), e) /\ a.form # correction
      BY <2>3 DEF ReplaceWorst, Measure, e
    <3> QED BY <1>2, <3>1 DEF With, Without, Kept
  <2> QED BY <2>1, <2>2, <2>3 DEF Consider
<1> QED BY <1>1, <1>3, ConsiderStore

(* The form at the root is the most expensive of those still kept, and no  *)
(* more expensive than those stored.                                       *)
LEMMA StoreWorstStore ==
  ASSUME Optimal, StoreInv, StoreWorst
  PROVE  StoreInv'
<1> DEFINE w == top.form
           n == Len(chosen)
<1>1. /\ pc = "store" /\ pc' = "store" /\ Kept # {}
      /\ chosen' = <<w>> \o chosen /\ live' = Without(w)
      /\ UNCHANGED <<correction, considered>>
      /\ HeapInv /\ TypeOK
  BY DEF StoreWorst, Optimal, HeapInv
<1>2. PICK offered, cost : offered = Offered /\ cost = Cost
  OBVIOUS
<1>3. offered = Offered' /\ cost = Cost' /\ Storing(offered, cost)
  BY <1>1, <1>2 DEF Offered, Cost, CheapestCost, StoreInv
<1>4. \A f \in offered : cost[f] \in Int
  BY <1>1, <1>2, CheapestExists DEF Cost
<1>5. /\ w \in Kept /\ Kept' = Kept \ {w}
      /\ \A f \in Kept' : live'[f] = live[f]
      /\ \A f \in Kept : live[f].cost <= top.cost
      /\ top.cost = live[w].cost
  BY <1>1 DEF HeapInv, TopIsWorstKept, Kept, Without
<1>6. Cardinality(Kept') = Cardinality(Kept) - 1 /\ Cardinality(Kept) \in Nat
  BY <1>1, <1>5, KeptIsFinite, FS_RemoveElement
<1>7. /\ n \in Nat /\ Len(chosen') = n + 1
      /\ chosen'[1] = w
      /\ \A k \in 2 .. n + 1 : k - 1 \in 1 .. n /\ chosen'[k] = chosen[k - 1]
  <2>1. w \in Form
    BY <1>1, <1>5 DEF TypeOK
  <2>2. <<w>> \in Seq(Form) /\ chosen \in Seq(Form) /\ Len(<<w>>) = 1 /\ <<w>>[1] = w
    BY <1>1, <2>1 DEF TypeOK
  <2>3. n \in Nat
    BY <2>2, LenProperties
  <2> QED BY <1>1, <2>2, <2>3, ConcatProperties
<1> HIDE DEF w, n
<1>8. \A k \in 1 .. n + 1 : k = 1 \/ k \in 2 .. n + 1
  BY <1>7
<1>9. \A k \in 1 .. n + 1 : chosen'[k] \in offered \ Kept'
  BY <1>3, <1>5, <1>7, <1>8 DEF Storing, n
<1>10. \A f \in Kept : cost[f] <= cost[w]
  BY <1>3, <1>5 DEF Storing
<1>11. \A k \in 1 .. n + 1 : cost[w] <= cost[chosen'[k]]
  <2>1. cost[w] <= cost[w]
    BY <1>3, <1>4, <1>5 DEF Storing
  <2> QED BY <1>3, <1>5, <1>7, <1>8, <2>1 DEF Storing, n
<1>12. \A f \in Kept', k \in 1 .. n + 1 : cost[f] <= cost[chosen'[k]]
  <2>1. ASSUME NEW f \in Kept', NEW k \in 1 .. n + 1
        PROVE  cost[f] <= cost[chosen'[k]]
    <3>1. cost[f] <= cost[w] /\ cost[w] <= cost[chosen'[k]]
      BY <1>5, <1>10, <1>11
    <3>2. cost[f] \in Int /\ cost[w] \in Int /\ cost[chosen'[k]] \in Int
      BY <1>3, <1>4, <1>5, <1>9 DEF Storing
    <3> QED BY <3>1, <3>2
  <2> QED BY <2>1
<1>13. ASSUME NEW j \in 1 .. n + 1, NEW k \in 1 .. n + 1, j < k
       PROVE  chosen'[j] # chosen'[k] /\ cost[chosen'[j]] <= cost[chosen'[k]]
  <2>1. k \in 2 .. n + 1 /\ k - 1 \in 1 .. n /\ chosen'[k] = chosen[k - 1]
    BY <1>7, <1>13
  <2>2. CASE j = 1
    BY <1>3, <1>5, <1>7, <1>11, <2>1, <2>2 DEF Storing, n
  <2>3. CASE j # 1
    <3>1. j \in 2 .. n + 1 /\ j - 1 \in 1 .. n /\ j - 1 < k - 1
      BY <1>7, <1>13, <2>1, <2>3
    <3> QED BY <1>3, <1>7, <2>1, <3>1 DEF Storing, n
  <2> QED BY <2>2, <2>3
<1>14. ASSUME NEW f \in offered \ Kept', \A j \in 1 .. n + 1 : chosen'[j] # f
       PROVE  /\ \A g \in Kept' : cost[g] <= cost[f]
              /\ \A k \in 1 .. n + 1 : cost[chosen'[k]] <= cost[f]
  <2>1. f \in offered \ Kept
    <3>1. 1 \in 1 .. n + 1
      BY <1>7
    <3> QED BY <1>5, <1>7, <1>14, <3>1
  <2>2. \A j \in 1 .. n : chosen[j] # f
    <3>1. \A j \in 1 .. n : j + 1 \in 1 .. n + 1 /\ j + 1 \in 2 .. n + 1 /\ (j + 1) - 1 = j
      BY <1>7
    <3> QED BY <1>7, <1>14, <3>1
  <2>3. /\ \A g \in Kept : cost[g] <= cost[f]
        /\ \A k \in 1 .. n : cost[chosen[k]] <= cost[f]
    BY <1>3, <2>1, <2>2 DEF Storing, n
  <2> QED BY <1>5, <1>7, <1>8, <2>3
<1>15. Cardinality(Kept') + (n + 1) =
         IF Cardinality(offered) < Limit THEN Cardinality(offered) ELSE Limit
  <2>1. Cardinality(Kept') + (n + 1) = Cardinality(Kept) + n
    BY <1>6, <1>7
  <2> QED BY <1>3, <2>1 DEF Storing, n
<1>16. Kept' \subseteq offered /\ \A f \in Kept' : live'[f].cost = cost[f]
  BY <1>3, <1>5 DEF Storing
<1>17. Storing(offered, cost)'
  BY <1>7, <1>9, <1>12, <1>13, <1>14, <1>15, <1>16 DEF Storing
<1> QED BY <1>1, <1>3, <1>17 DEF StoreInv

LEMMA InitStore == Init => StoreInv
<1> SUFFICES ASSUME Init PROVE StoreInv
  OBVIOUS
<1>1. Kept = {} /\ Len(chosen) = 0 /\ 1 .. Len(chosen) = {} /\ pc = "store"
  BY DEF Init, Kept
<1>2. Offered = {}
  BY DEF Init, Offered
<1>3. Cardinality(Kept) = 0 /\ Cardinality(Offered) = 0 /\ 0 < Limit
  BY <1>1, <1>2, FS_EmptySet, LimitAssumption
<1>4. Storing(Offered, Cost)
  BY <1>1, <1>2, <1>3 DEF Storing
<1> QED BY <1>1, <1>4 DEF StoreInv

LEMMA NextStore ==
  ASSUME Optimal, StoreInv, [Next]_vars
  PROVE  StoreInv'
<1>1. ASSUME NEW a \in Analyses, Consider(a) PROVE StoreInv'
  BY <1>1, MeasureStore
<1>2. CASE StartStoring
  BY <1>2, StartStoringStore
<1>3. CASE StoreWorst
  BY <1>3, StoreWorstStore
<1>4. CASE NextToken
  <2>1. pc' = "measure" /\ chosen' = <<>> /\ Kept' = {}
    BY <1>4 DEF NextToken, Kept
  <2>2. KeptWereConsidered'
    BY <2>1 DEF KeptWereConsidered
  <2> QED BY <2>1, <2>2 DEF StoreInv
<1>5. CASE UNCHANGED vars
  <2>1. UNCHANGED <<correction, considered, live, chosen, pc, Kept>>
    BY <1>5 DEF vars, Kept
  <2>2. KeptWereConsidered' = KeptWereConsidered
    BY <2>1 DEF KeptWereConsidered, IsCostOf
  <2>3. PICK offered, cost : offered = Offered /\ cost = Cost
    OBVIOUS
  <2>4. offered = Offered' /\ cost = Cost'
    BY <2>1, <2>3 DEF Offered, Cost, CheapestCost
  <2>5. Storing(offered, cost)' = Storing(offered, cost)
    BY <2>1 DEF Storing
  <2> QED BY <2>1, <2>2, <2>3, <2>4, <2>5 DEF StoreInv
<1> QED BY <1>1, <1>2, <1>3, <1>4, <1>5 DEF Next

(* When all is stored, what is stored are the cheapest forms in order.     *)
LEMMA StoredAtTheEnd ==
  ASSUME StoreInv, HeapInv
  PROVE  StoredAlternativesAreKBest
<1> SUFFICES ASSUME pc = "store", Kept = {}
             PROVE  AreKBest(chosen, Offered, Cost)
  BY DEF StoredAlternativesAreKBest, Cost
<1>1. Storing(Offered, Cost) /\ Len(chosen) \in Nat
  BY LenProperties DEF StoreInv, HeapInv, TypeOK
<1>2. Cardinality(Kept) + Len(chosen) = Len(chosen)
  BY <1>1, FS_EmptySet
<1>3. Len(chosen) = IF Cardinality(Offered) < Limit THEN Cardinality(Offered) ELSE Limit
  BY <1>1, <1>2 DEF Storing
<1> QED BY <1>1, <1>3 DEF Storing, AreKBest

(* The alternatives of a token are the cheapest of the forms offered       *)
(* besides the correction, as many as asked for, each at its cheapest cost *)
(* and the cheapest first, as the MANUAL promises, for every number of     *)
(* forms, provided that the running cost of a possibility never falls.     *)
THEOREM AlternativesAreAlwaysKBest ==
  ASSUME RisingCosts
  PROVE  Spec => []StoredAlternativesAreKBest
<1>1. Init => Optimal /\ StoreInv
  BY InitInv, InitStore DEF Init, Optimal, KeepsCheapest
<1>2. Optimal /\ StoreInv /\ [Next]_vars => (Optimal /\ StoreInv)'
  BY NextOptimal, NextStore
<1>3. Optimal /\ StoreInv => StoredAlternativesAreKBest
  BY StoredAtTheEnd DEF Optimal
<1> QED BY <1>1, <1>2, <1>3, PTL DEF Spec

-----------------------------------------------------------------------------
(* The path of a sentence.                                                 *)

Elsewhere(i) == i # Position(token) => decoded[i] = sentence.path[i]

PathInv ==
  /\ sentence \in Sentences
  /\ token \in 1 .. Tokens(sentence) + 1
  /\ pc \in {"measure", "store"}
  /\ decoded = [i \in 1 .. Len(sentence.stages) |-> decoded[i]]
  /\ alternative \in Nat
  /\ phase = "tokens" \/ pc = "store" => decoded = sentence.path
  /\ phase # "tokens" =>
       /\ token <= Tokens(sentence)
       /\ original = sentence.path[Position(token)]
       /\ \A i \in 1 .. Len(sentence.stages) : Elsewhere(i)

LEMMA SentenceFacts ==
  ASSUME NEW s \in Sentences
  PROVE  /\ ModelOrder \in Nat \ {0}
         /\ Len(s.stages) \in Nat
         /\ Tokens(s) \in Nat \ {0}
         /\ \A t \in 1 .. Tokens(s) + 1 : Position(t) \in 1 .. Len(s.stages)
         /\ s.path = [i \in 1 .. Len(s.stages) |-> s.path[i]]
<1>1. /\ ModelOrder \in Nat \ {0}
      /\ Len(s.stages) \in Nat /\ Len(s.stages) > ModelOrder
      /\ s.path = [i \in 1 .. Len(s.stages) |-> s.path[i]]
  BY SentencesAssumption
<1> DEFINE n == Len(s.stages)
<1>2. n \in Nat /\ n > ModelOrder /\ Tokens(s) = n - ModelOrder
  BY <1>1 DEF Tokens
<1> HIDE DEF n
<1>3. Tokens(s) \in Nat \ {0}
  BY <1>1, <1>2
<1>4. \A t \in 1 .. Tokens(s) + 1 : Position(t) \in 1 .. n
  BY <1>1, <1>2 DEF Position
<1> QED BY <1>1, <1>3, <1>4 DEF n

(* Whatever was measured before, p is measured on the decoded path.        *)
LEMMA MeasuredOnThePath ==
  ASSUME PathInv, phase # "tokens", NEW p
  PROVE  [decoded EXCEPT ![Position(token)] = p]
           = [sentence.path EXCEPT ![Position(token)] = p]
<1> DEFINE n == Len(sentence.stages)
           P == Position(token)
<1>1. decoded = [i \in 1 .. n |-> decoded[i]]
  BY DEF PathInv
<1>2. sentence.path = [i \in 1 .. n |-> sentence.path[i]]
  BY SentenceFacts DEF PathInv
<1>3. \A i \in 1 .. n : i # P => decoded[i] = sentence.path[i]
  BY DEF PathInv, Elsewhere
<1> HIDE DEF n, P
<1>4. [decoded EXCEPT ![P] = p]
        = [i \in 1 .. n |-> IF i = P THEN p ELSE decoded[i]]
  BY <1>1
<1>5. [sentence.path EXCEPT ![P] = p]
        = [i \in 1 .. n |-> IF i = P THEN p ELSE sentence.path[i]]
  BY <1>2
<1> QED BY <1>3, <1>4, <1>5 DEF P

LEMMA MeasuredAnalysis ==
  ASSUME PathInv, phase # "tokens",
         NEW p \in Choices(sentence, Position(token))
  PROVE  Analysis(sentence, decoded, token, p) \in Analyses
<1>1. Analysis(sentence, decoded, token, p)
        = Analysis(sentence, sentence.path, token, p)
  BY MeasuredOnThePath DEF Analysis
<1>2. sentence \in Sentences /\ token \in 1 .. Tokens(sentence)
  BY SentenceFacts DEF PathInv
<1> QED BY <1>1, <1>2, AnalysesOfSentences

LEMMA PathInit == SpellInit => PathInv
<1> SUFFICES ASSUME SpellInit PROVE PathInv
  OBVIOUS
<1>1. /\ sentence \in Sentences /\ decoded = sentence.path /\ token = 1
      /\ phase = "tokens" /\ pc = "store" /\ alternative = 0
  BY DEF SpellInit, Init
<1> QED BY <1>1, SentenceFacts DEF PathInv

LEMMA PathNext ==
  ASSUME PathInv, SpellNext
  PROVE  PathInv'
<1>0. /\ sentence \in Sentences /\ sentence' = sentence
      /\ Tokens(sentence) \in Nat \ {0}
      /\ token \in 1 .. Tokens(sentence) + 1
      /\ Position(token) \in 1 .. Len(sentence.stages)
      /\ sentence.path = [i \in 1 .. Len(sentence.stages) |-> sentence.path[i]]
  BY SentenceFacts DEF PathInv, SpellNext, KeepToken, CorrectToken,
     MeasureAlternative, RestoreCorrection, StoreAlternative, FinishToken,
     spellVars
<1>1. CASE KeepToken
  BY <1>0, <1>1 DEF KeepToken, PathInv, vars
<1>2. CASE CorrectToken
  BY <1>0, <1>2 DEF CorrectToken, NextToken, Correction, PathInv, Elsewhere
<1>3. CASE MeasureAlternative
  <2> DEFINE p == sentence.stages[Position(token)][alternative + 1]
  <2>1. /\ phase = "alternatives" /\ phase' = phase /\ token' = token
        /\ original' = original /\ alternative' = alternative + 1
        /\ pc = "measure" /\ pc' = pc
    BY <1>3 DEF MeasureAlternative, Consider, SkipCorrection, Abandon,
       NotBetter, LowerCost, AddForm, ReplaceWorst, Measure, LookAt
  <2>2. \/ decoded' = decoded
        \/ decoded' = [decoded EXCEPT ![Position(token)] = p]
    BY <1>3 DEF MeasureAlternative
  <2> HIDE DEF p
  <2>3. /\ decoded' = [i \in 1 .. Len(sentence.stages) |-> decoded'[i]]
        /\ \A i \in 1 .. Len(sentence.stages) :
             i # Position(token) => decoded'[i] = decoded[i]
    BY <2>2 DEF PathInv
  <2>4. \A i \in 1 .. Len(sentence.stages) : Elsewhere(i)'
    BY <1>0, <2>1, <2>3 DEF PathInv, Elsewhere, Position
  <2> QED BY <1>0, <2>1, <2>3, <2>4 DEF PathInv
<1>4. CASE RestoreCorrection
  <2>1. /\ phase = "alternatives" /\ phase' = phase /\ token' = token
        /\ original' = original /\ alternative' = alternative
        /\ pc' = "store"
    BY <1>4 DEF RestoreCorrection, StartStoring
  <2>2. decoded' = [sentence.path EXCEPT ![Position(token)] = original]
    BY <1>4, <2>1, MeasuredOnThePath DEF RestoreCorrection, Restored
  <2>3. decoded' = sentence.path
    BY <1>0, <2>1, <2>2 DEF PathInv
  <2> QED BY <1>0, <2>1, <2>3 DEF PathInv, Elsewhere
<1>5. CASE StoreAlternative
  BY <1>0, <1>5 DEF StoreAlternative, StoreWorst, spellVars, PathInv, Elsewhere
<1>6. CASE FinishToken
  BY <1>0, <1>6 DEF FinishToken, vars, PathInv
<1> QED BY <1>1, <1>2, <1>3, <1>4, <1>5, <1>6 DEF SpellNext

THEOREM PathInvariance == SpellSpec => []PathInv
<1>1. PathInv /\ [SpellNext]_allVars => PathInv'
  <2>1. PathInv /\ UNCHANGED allVars => PathInv'
    BY DEF PathInv, Elsewhere, allVars, spellVars, vars
  <2> QED BY <2>1, PathNext
<1> QED BY <1>1, PathInit, PTL DEF SpellSpec

(* After every token the path is what the decoder returned                 *)
(* (spellchecker.cpp:77 overwrites it, :112 puts the correction back).     *)
THEOREM PathIsAlwaysRestored == SpellSpec => []PathIsRestored
<1>1. PathInv => PathIsRestored
  BY DEF PathInv, PathIsRestored
<1> QED BY <1>1, PathInvariance, PTL

(* Every step of Spellcheck is a step of the selection of alternatives, or *)
(* none: the costs it measures are those of a fixed set, for each token.   *)
THEOREM ImplementsAlternatives == SpellSpec => Spec
<1>1. SpellInit => Init
  BY DEF SpellInit
<1>2. PathInv /\ [SpellNext]_allVars => [Next]_vars
  <2> SUFFICES ASSUME PathInv, SpellNext PROVE [Next]_vars
    BY DEF allVars
  <2>1. CASE MeasureAlternative
    <3> DEFINE i == Position(token)
    <3>1. /\ phase # "tokens"
          /\ alternative < Len(sentence.stages[i])
          /\ Consider(Analysis(sentence, decoded, token,
                               sentence.stages[i][alternative + 1]))
      BY <2>1 DEF MeasureAlternative
    <3>2. i \in 1 .. Len(sentence.stages)
      BY SentenceFacts DEF PathInv
    <3>3. alternative + 1 \in 1 .. Len(sentence.stages[i])
      BY <3>1, <3>2, SentencesAssumption, LimitAssumption DEF PathInv
    <3>4. sentence.stages[i][alternative + 1] \in Choices(sentence, i)
      BY <3>3 DEF Choices
    <3> QED BY <3>1, <3>4, MeasuredAnalysis DEF Next
  <2>2. CASE KeepToken \/ FinishToken
    BY <2>2 DEF KeepToken, FinishToken
  <2>3. CASE CorrectToken \/ RestoreCorrection \/ StoreAlternative
    BY <2>3 DEF CorrectToken, RestoreCorrection, StoreAlternative, Next
  <2> QED BY <2>1, <2>2, <2>3 DEF SpellNext
<1> QED BY <1>1, <1>2, PathInvariance, PTL DEF SpellSpec, Spec

(* So the heap of Spellcheck is sound for every sentence, model and number *)
(* of alternatives, also with negative costs.                              *)
THEOREM HeapStaysSoundInSentences == SpellSpec => []HeapIsSound
  BY ImplementsAlternatives, HeapStaysSound, PTL

-----------------------------------------------------------------------------
(***************************************************************************)
(* The costs of paths.  The sums of Measured and PathCost are recursive    *)
(* functions: there is one that satisfies the equation, and the equation   *)
(* says all about it.                                                      *)
(***************************************************************************)
IsSum(n, base, step, sums) ==
  sums = [k \in 0 .. n |-> IF k = 0 THEN base ELSE sums[k - 1] + step[k]]

LEMMA SumExists ==
  ASSUME NEW n \in Nat, NEW base, NEW step
  PROVE  \E sums : IsSum(n, base, step, sums)
<1> DEFINE without == {k \in Nat : ~\E sums : IsSum(k, base, step, sums)}
<1> SUFFICES ASSUME without # {} PROVE FALSE
  OBVIOUS
<1>1. PICK least \in without : \A k \in without : least <= k
  <2>1. without \in SUBSET Nat
    OBVIOUS
  <2> HIDE DEF without
  <2> QED BY <2>1, LeastExists
<1>2. least \in Nat /\ ~\E sums : IsSum(least, base, step, sums)
  BY <1>1
<1>3. least # 0
  <2>1. IsSum(0, base, step, [k \in 0 .. 0 |-> base])
    BY DEF IsSum
  <2> QED BY <1>2, <2>1
<1>4. PICK shorter : IsSum(least - 1, base, step, shorter)
  <2>1. least - 1 \in Nat /\ least - 1 < least
    BY <1>2, <1>3
  <2>2. least - 1 \notin without
    BY <1>1, <2>1
  <2> QED BY <2>1, <2>2
<1> DEFINE longer == [k \in 0 .. least |->
                        IF k = 0 THEN base ELSE shorter[k - 1] + step[k]]
<1>5. ASSUME NEW k \in 0 .. least - 1
      PROVE  longer[k] = shorter[k]
  <2>1. shorter[k] = IF k = 0 THEN base ELSE shorter[k - 1] + step[k]
    BY <1>4 DEF IsSum
  <2>2. k \in 0 .. least
    BY <1>2
  <2> QED BY <2>1, <2>2
<1>6. ASSUME NEW k \in 0 .. least, k # 0
      PROVE  longer[k] = longer[k - 1] + step[k]
  <2>1. k - 1 \in 0 .. least - 1
    BY <1>2, <1>6
  <2>2. longer[k - 1] = shorter[k - 1]
    BY <1>5, <2>1
  <2> QED BY <1>6, <2>2
<1>7. IsSum(least, base, step, longer)
  BY <1>6 DEF IsSum
<1> QED BY <1>2, <1>7

LEMMA SumFacts ==
  ASSUME NEW n \in Nat, NEW base \in Int, NEW step, NEW sums,
         IsSum(n, base, step, sums),
         \A k \in 1 .. n : step[k] \in Int
  PROVE  /\ sums[0] = base
         /\ \A k \in 1 .. n : sums[k] = sums[k - 1] + step[k]
         /\ \A k \in 0 .. n : sums[k] \in Int
<1>1. sums[0] = base
  BY DEF IsSum
<1>2. \A k \in 1 .. n : sums[k] = sums[k - 1] + step[k]
  BY DEF IsSum
<1> DEFINE bad == {k \in 0 .. n : sums[k] \notin Int}
<1>3. bad = {}
  <2> SUFFICES ASSUME bad # {} PROVE FALSE
    OBVIOUS
  <2>1. PICK least \in bad : \A k \in bad : least <= k
    <3>1. bad \in SUBSET Nat
      OBVIOUS
    <3> HIDE DEF bad
    <3> QED BY <3>1, LeastExists
  <2>2. least \in 0 .. n /\ least # 0
    BY <1>1, <2>1
  <2>3. least \in 1 .. n /\ least - 1 \in 0 .. n /\ least - 1 < least
    BY <2>2
  <2>4. sums[least - 1] \in Int
    BY <2>1, <2>3
  <2> QED BY <1>2, <2>1, <2>3, <2>4
<1> QED BY <1>1, <1>2, <1>3

(* Sums of costs that are not negative do not fall.                        *)
LEMMA SumRises ==
  ASSUME NEW n \in Nat, NEW base \in Int, NEW step, NEW sums,
         IsSum(n, base, step, sums),
         \A k \in 1 .. n : step[k] \in Nat
  PROVE  \A k \in 0 .. n : sums[k] <= sums[n]
<1>1. /\ \A k \in 1 .. n : sums[k] = sums[k - 1] + step[k]
      /\ \A k \in 0 .. n : sums[k] \in Int
  BY SumFacts
<1> DEFINE falls == {d \in 0 .. n : ~(sums[n - d] <= sums[n])}
<1>2. falls = {}
  <2> SUFFICES ASSUME falls # {} PROVE FALSE
    OBVIOUS
  <2>1. PICK least \in falls : \A d \in falls : least <= d
    <3>1. falls \in SUBSET Nat
      OBVIOUS
    <3> HIDE DEF falls
    <3> QED BY <3>1, LeastExists
  <2>2. least \in 0 .. n /\ least # 0
    BY <1>1, <2>1
  <2>3. least - 1 \in 0 .. n /\ least - 1 < least /\ n - (least - 1) = n - least + 1
    BY <2>2
  <2>4. sums[n - (least - 1)] <= sums[n]
    BY <2>1, <2>3
  <2>5. n - least + 1 \in 1 .. n /\ (n - least + 1) - 1 = n - least
        /\ n - least \in 0 .. n /\ n - least + 1 \in 0 .. n /\ n \in 0 .. n
    BY <2>2
  <2>6. sums[n - least + 1] = sums[n - least] + step[n - least + 1]
    BY <1>1, <2>5
  <2>7. step[n - least + 1] \in Nat /\ sums[n - least] \in Int /\ sums[n] \in Int
    BY <1>1, <2>5
  <2>8. sums[n - least] <= sums[n]
    BY <2>3, <2>4, <2>6, <2>7
  <2> QED BY <2>1, <2>8
<1> QED
  <2>1. ASSUME NEW k \in 0 .. n PROVE sums[k] <= sums[n]
    <3>1. n - k \in 0 .. n /\ n - (n - k) = k
      OBVIOUS
    <3>2. n - k \notin falls
      BY <1>2
    <3> QED BY <3>1, <3>2
  <2> QED BY <2>1

(* The paths through the stages of a sentence, and their windows.          *)
PossibilitiesOf(s) == UNION {Choices(s, i) : i \in 1 .. Len(s.stages)}

PathsOf(s) ==
  {path \in [1 .. Len(s.stages) -> PossibilitiesOf(s)] :
     \A i \in 1 .. Len(s.stages) : path[i] \in Choices(s, i)}

Window(path, k) == SubSeq(path, k, k + ModelOrder - 1)

(* No transition of a model lowers a cost.                                 *)
TransitionsRaise ==
  \A s \in Sentences : \A path \in PathsOf(s) : \A k \in 1 .. Tokens(s) + 1 :
    Transition(s.model, Window(path, k)) \in Nat

Replaced(path, t, p) == [path EXCEPT ![Position(t)] = p]

LEMMA DecodedIsPath ==
  ASSUME NEW s \in Sentences
  PROVE  s.path \in PathsOf(s)
<1>1. /\ s.path = [i \in 1 .. Len(s.stages) |-> s.path[i]]
      /\ \A i \in 1 .. Len(s.stages) : s.path[i] \in Choices(s, i)
  BY SentencesAssumption
<1>2. \A i \in 1 .. Len(s.stages) : s.path[i] \in PossibilitiesOf(s)
  BY <1>1 DEF PossibilitiesOf
<1> QED BY <1>1, <1>2 DEF PathsOf

LEMMA PathFacts ==
  ASSUME NEW s \in Sentences, NEW path \in PathsOf(s)
  PROVE  /\ path \in Seq(PossibilitiesOf(s))
         /\ Len(path) = Len(s.stages)
         /\ Len(path) - ModelOrder + 1 = Tokens(s) + 1
         /\ \A k \in 1 .. Tokens(s) + 1 : \A i \in k .. k + ModelOrder - 1 :
              i \in 1 .. Len(s.stages) /\ path[i] \in PossibilitiesOf(s)
<1>1. Len(s.stages) \in Nat /\ ModelOrder \in Nat \ {0} /\ Tokens(s) \in Nat
      /\ Tokens(s) = Len(s.stages) - ModelOrder
  BY SentenceFacts DEF Tokens
<1> DEFINE n == Len(s.stages)
           S == PossibilitiesOf(s)
<1>2. path \in [1 .. n -> S] /\ n \in Nat
  BY <1>1 DEF PathsOf
<1> HIDE DEF n, S
<1>3. path \in Seq(S)
  BY <1>2
<1>4. Len(path) = n
  BY <1>2
<1>5. \A k \in 1 .. Tokens(s) + 1 : \A i \in k .. k + ModelOrder - 1 : i \in 1 .. n
  BY <1>1 DEF n
<1> QED BY <1>1, <1>2, <1>3, <1>4, <1>5 DEF n, S

LEMMA ReplacedFacts ==
  ASSUME NEW s \in Sentences, NEW path \in PathsOf(s),
         NEW t \in 1 .. Tokens(s), NEW p \in Choices(s, Position(t))
  PROVE  /\ Replaced(path, t, p) \in PathsOf(s)
         /\ Replaced(path, t, p)[Position(t)] = p
         /\ \A i \in 1 .. Len(s.stages) :
              i # Position(t) => Replaced(path, t, p)[i] = path[i]
<1>0. Tokens(s) \in Nat \ {0} /\ \A e \in 1 .. Tokens(s) + 1 : Position(e) \in 1 .. Len(s.stages)
  BY SentenceFacts
<1>1. Position(t) \in 1 .. Len(s.stages)
  BY <1>0
<1>2. p \in PossibilitiesOf(s)
  BY <1>1 DEF PossibilitiesOf
<1> QED BY <1>1, <1>2 DEF PathsOf, Replaced

(* Windows that see the same possibilities are the same.                   *)
LEMMA SameWindows ==
  ASSUME NEW s \in Sentences, NEW path \in PathsOf(s), NEW other \in PathsOf(s),
         NEW k \in 1 .. Tokens(s) + 1,
         \A i \in k .. k + ModelOrder - 1 : path[i] = other[i]
  PROVE  Window(path, k) = Window(other, k)
<1> DEFINE last == k + ModelOrder - 1
           S == PossibilitiesOf(s)
<1>0. ModelOrder \in Nat \ {0} /\ Tokens(s) \in Nat \ {0}
  BY SentenceFacts
<1>1. k \in Int /\ last \in Int /\ k <= last
  BY <1>0
<1>2. \A i \in k .. last : path[i] \in S /\ other[i] \in S /\ path[i] = other[i]
  BY PathFacts
<1> HIDE DEF last, S
<1>3. /\ SubSeq(path, k, last) \in Seq(S)
      /\ Len(SubSeq(path, k, last)) = last - k + 1
      /\ \A i \in 1 .. last - k + 1 : SubSeq(path, k, last)[i] = path[k + i - 1]
  BY <1>1, <1>2, SubSeqProperties
<1>4. /\ SubSeq(other, k, last) \in Seq(S)
      /\ Len(SubSeq(other, k, last)) = last - k + 1
      /\ \A i \in 1 .. last - k + 1 : SubSeq(other, k, last)[i] = other[k + i - 1]
  BY <1>1, <1>2, SubSeqProperties
<1>5. \A i \in 1 .. last - k + 1 : k + i - 1 \in k .. last
  BY <1>1
<1>6. \A i \in 1 .. last - k + 1 : SubSeq(path, k, last)[i] = SubSeq(other, k, last)[i]
  BY <1>2, <1>3, <1>4, <1>5
<1>7. SubSeq(path, k, last) = SubSeq(other, k, last)
  BY <1>3, <1>4, <1>6, SeqEqual
<1> QED BY <1>7 DEF Window, last

(* How many windows a token takes part in.                                 *)
Size(s, t) == Cardinality(Windows(s, t))

LEMMA SizeFacts ==
  ASSUME NEW s \in Sentences, NEW t \in 1 .. Tokens(s)
  PROVE  /\ Size(s, t) \in 1 .. ModelOrder
         /\ t + Size(s, t) - 1 <= Tokens(s) + 1
         /\ Size(s, t) = ModelOrder \/ t + Size(s, t) - 1 = Tokens(s) + 1
<1>1. ModelOrder \in Nat \ {0} /\ Tokens(s) \in Nat \ {0}
  BY SentenceFacts
<1> DEFINE last == IF t + (ModelOrder - 1) <= Tokens(s) + 1
                     THEN ModelOrder - 1 ELSE Tokens(s) + 1 - t
<1>2. last \in Nat
  BY <1>1
<1>3. Windows(s, t) = 0 .. last
  BY <1>1 DEF Windows
<1>4. Size(s, t) = last + 1
  <2> HIDE DEF last
  <2> QED BY <1>2, <1>3, FS_Interval DEF Size
<1> QED BY <1>1, <1>4

(* What each window adds to the cost of a path, and to what is measured.   *)
PathStep(s, path) ==
  [k \in 1 .. Tokens(s) + 1 |->
     path[k + ModelOrder - 1].emission + Transition(s.model, Window(path, k))]

TokenStep(s, path, t) ==
  [k \in 1 .. Size(s, t) |-> Transition(s.model, Window(path, t + (k - 1)))]

LEMMA PathCostSum ==
  ASSUME NEW s \in Sentences, NEW path \in PathsOf(s)
  PROVE  \E sums : /\ IsSum(Tokens(s) + 1, 0, PathStep(s, path), sums)
                   /\ PathCost(s.model, path) = sums[Tokens(s) + 1]
<1> DEFINE windows == Len(path) - ModelOrder + 1
           IsCost(cost) ==
             cost = [k \in 0 .. windows |->
                       IF k = 0 THEN 0
                       ELSE cost[k - 1] + (path[k + ModelOrder - 1].emission
                              + Transition(s.model, SubSeq(path, k, k + ModelOrder - 1)))]
<1>1. windows = Tokens(s) + 1 /\ Tokens(s) \in Nat
  BY PathFacts, SentenceFacts
<1>2. \A cost : IsCost(cost) <=> IsSum(Tokens(s) + 1, 0, PathStep(s, path), cost)
  <2> SUFFICES ASSUME NEW cost
               PROVE  IsCost(cost) <=> IsSum(Tokens(s) + 1, 0, PathStep(s, path), cost)
    OBVIOUS
  <2> DEFINE new == [k \in 0 .. windows |->
                       IF k = 0 THEN 0
                       ELSE cost[k - 1] + (path[k + ModelOrder - 1].emission
                              + Transition(s.model, SubSeq(path, k, k + ModelOrder - 1)))]
             sum == [k \in 0 .. Tokens(s) + 1 |->
                       IF k = 0 THEN 0 ELSE cost[k - 1] + PathStep(s, path)[k]]
  <2>1. ASSUME NEW k \in 0 .. windows, k # 0
        PROVE  PathStep(s, path)[k] = path[k + ModelOrder - 1].emission
                 + Transition(s.model, SubSeq(path, k, k + ModelOrder - 1))
    <3>1. k \in 1 .. Tokens(s) + 1
      BY <1>1, <2>1
    <3> QED BY <3>1 DEF PathStep, Window
  <2> HIDE DEF windows
  <2>2. new = sum
    BY <1>1, <2>1
  <2> QED BY <2>2 DEF IsSum
<1>3. PICK sums : IsSum(Tokens(s) + 1, 0, PathStep(s, path), sums)
  <2>1. Tokens(s) + 1 \in Nat
    BY <1>1
  <2> QED BY <2>1, SumExists
<1>4. PathCost(s.model, path) = (CHOOSE cost : IsCost(cost))[windows]
  BY DEF PathCost
<1>5. IsCost(CHOOSE cost : IsCost(cost))
  <2> HIDE DEF IsCost
  <2> QED BY <1>2, <1>3
<1> HIDE DEF windows, IsCost
<1> QED BY <1>1, <1>2, <1>4, <1>5

LEMMA MeasuredSum ==
  ASSUME NEW s \in Sentences, NEW path \in PathsOf(s),
         NEW t \in 1 .. Tokens(s), NEW p \in Choices(s, Position(t))
  PROVE  \E sums : /\ IsSum(Size(s, t), p.emission, TokenStep(s, path, t), sums)
                   /\ Measured(s, path, t, p).form = p.form
                   /\ Len(Measured(s, path, t, p).costs) = Size(s, t) + 1
                   /\ \A k \in 1 .. Size(s, t) + 1 :
                        Measured(s, path, t, p).costs[k] = sums[k - 1]
<1> DEFINE size == Cardinality(Windows(s, t))
           IsCost(cost) ==
             cost = [k \in 0 .. size |->
                       IF k = 0 THEN p.emission
                       ELSE cost[k - 1] + Transition(s.model,
                              SubSeq(path, t + (k - 1), t + (k - 1) + ModelOrder - 1))]
<1>1. size = Size(s, t) /\ size \in Nat
  BY SizeFacts, SentenceFacts DEF Size
<1>2. \A cost : IsCost(cost) <=> IsSum(Size(s, t), p.emission, TokenStep(s, path, t), cost)
  <2> SUFFICES ASSUME NEW cost
               PROVE  IsCost(cost) <=> IsSum(Size(s, t), p.emission, TokenStep(s, path, t), cost)
    OBVIOUS
  <2> DEFINE new == [k \in 0 .. size |->
                       IF k = 0 THEN p.emission
                       ELSE cost[k - 1] + Transition(s.model,
                              SubSeq(path, t + (k - 1), t + (k - 1) + ModelOrder - 1))]
             sum == [k \in 0 .. Size(s, t) |->
                       IF k = 0 THEN p.emission
                       ELSE cost[k - 1] + TokenStep(s, path, t)[k]]
  <2>1. ASSUME NEW k \in 0 .. size, k # 0
        PROVE  TokenStep(s, path, t)[k] = Transition(s.model,
                 SubSeq(path, t + (k - 1), t + (k - 1) + ModelOrder - 1))
    <3>1. k \in 1 .. Size(s, t)
      BY <1>1, <2>1
    <3> QED BY <3>1 DEF TokenStep, Window
  <2> HIDE DEF size
  <2>2. new = sum
    BY <1>1, <2>1
  <2> QED BY <2>2 DEF IsSum
<1>3. PICK sums : IsSum(Size(s, t), p.emission, TokenStep(s, path, t), sums)
  BY <1>1, SumExists
<1> DEFINE cost == CHOOSE x : IsCost(x)
<1>4. Measured(s, path, t, p) =
        [form |-> p.form, costs |-> [k \in 1 .. size + 1 |-> cost[k - 1]]]
  BY DEF Measured
<1>5. IsCost(cost)
  <2> HIDE DEF IsCost
  <2> QED BY <1>2, <1>3
<1> HIDE DEF size, IsCost, cost
<1>6. /\ Measured(s, path, t, p).form = p.form
      /\ Len(Measured(s, path, t, p).costs) = size + 1
      /\ \A k \in 1 .. size + 1 : Measured(s, path, t, p).costs[k] = cost[k - 1]
  BY <1>1, <1>4
<1> QED BY <1>1, <1>2, <1>5, <1>6

(* Two sums of n steps that differ by what two shorter sums differ, which  *)
(* run beside them from step t on.                                         *)
Differ(n, t, size, stepA, stepB, baseA, baseB, localA, localB) ==
  /\ t \in 1 .. n /\ size \in 1 .. n /\ t + size - 1 <= n
  /\ baseA \in Int /\ baseB \in Int
  /\ \A k \in 1 .. n : stepA[k] \in Int /\ stepB[k] \in Int
  /\ \A k \in 1 .. size : localA[k] \in Int /\ localB[k] \in Int
  /\ \A k \in 1 .. n : k < t \/ k > t + size - 1 => stepA[k] = stepB[k]
  /\ stepA[t] = baseA + localA[1] /\ stepB[t] = baseB + localB[1]
  /\ \A k \in t + 1 .. t + size - 1 :
       stepA[k] + localB[k - t + 1] = stepB[k] + localA[k - t + 1]

LEMMA SumsDiffer ==
  ASSUME NEW n \in Nat, NEW t, NEW size, NEW stepA, NEW stepB,
         NEW baseA, NEW baseB, NEW localA, NEW localB,
         Differ(n, t, size, stepA, stepB, baseA, baseB, localA, localB),
         NEW sumsA, IsSum(n, 0, stepA, sumsA), NEW sumsB, IsSum(n, 0, stepB, sumsB),
         NEW mA, IsSum(size, baseA, localA, mA), NEW mB, IsSum(size, baseB, localB, mB)
  PROVE  sumsA[n] + mB[size] = sumsB[n] + mA[size]
<1>d. /\ t \in 1 .. n /\ size \in 1 .. n /\ t + size - 1 <= n
      /\ baseA \in Int /\ baseB \in Int
      /\ \A k \in 1 .. n : stepA[k] \in Int /\ stepB[k] \in Int
      /\ \A k \in 1 .. size : localA[k] \in Int /\ localB[k] \in Int
      /\ \A k \in 1 .. n : k < t \/ k > t + size - 1 => stepA[k] = stepB[k]
      /\ stepA[t] = baseA + localA[1] /\ stepB[t] = baseB + localB[1]
      /\ \A k \in t + 1 .. t + size - 1 :
           stepA[k] + localB[k - t + 1] = stepB[k] + localA[k - t + 1]
  BY DEF Differ
<1> USE <1>d
<1>1. /\ sumsA[0] = 0 /\ sumsB[0] = 0
      /\ \A k \in 1 .. n : sumsA[k] = sumsA[k - 1] + stepA[k]
      /\ \A k \in 1 .. n : sumsB[k] = sumsB[k - 1] + stepB[k]
      /\ \A k \in 0 .. n : sumsA[k] \in Int /\ sumsB[k] \in Int
  BY SumFacts
<1>2. /\ mA[0] = baseA /\ mB[0] = baseB
      /\ \A k \in 1 .. size : mA[k] = mA[k - 1] + localA[k]
      /\ \A k \in 1 .. size : mB[k] = mB[k - 1] + localB[k]
      /\ \A k \in 0 .. size : mA[k] \in Int /\ mB[k] \in Int
  <2>1. size \in Nat
    OBVIOUS
  <2> QED BY <2>1, SumFacts
<1> DEFINE Before(k) == k < t => sumsA[k] = sumsB[k]
           Beside(k) == k \in t .. t + size - 1 =>
                          sumsA[k] + mB[k - t + 1] = sumsB[k] + mA[k - t + 1]
           After(k) == k > t + size - 1 => sumsA[k] + mB[size] = sumsB[k] + mA[size]
           bad == {k \in 0 .. n : ~(Before(k) /\ Beside(k) /\ After(k))}
<1>3. bad = {}
  <2> SUFFICES ASSUME bad # {} PROVE FALSE
    OBVIOUS
  <2>1. PICK k \in bad : \A j \in bad : k <= j
    <3>1. bad \in SUBSET Nat
      OBVIOUS
    <3> HIDE DEF bad
    <3> QED BY <3>1, LeastExists
  <2>2. k \in 0 .. n /\ k # 0
    <3>1. Before(0) /\ Beside(0) /\ After(0)
      BY <1>1
    <3>2. k # 0
      BY <2>1, <3>1
    <3> QED BY <2>1, <3>2
  <2>3. k \in 1 .. n /\ k - 1 \in 0 .. n /\ k - 1 < k
    BY <2>2
  <2>4. Before(k - 1) /\ Beside(k - 1) /\ After(k - 1)
    BY <2>1, <2>3
  <2>5. /\ sumsA[k] = sumsA[k - 1] + stepA[k] /\ sumsB[k] = sumsB[k - 1] + stepB[k]
        /\ sumsA[k - 1] \in Int /\ sumsB[k - 1] \in Int
        /\ stepA[k] \in Int /\ stepB[k] \in Int
    BY <1>1, <2>3
  <2>6. CASE k < t
    <3>1. sumsA[k - 1] = sumsB[k - 1] /\ stepA[k] = stepB[k]
      BY <2>3, <2>4, <2>6
    <3>2. Before(k) /\ Beside(k) /\ After(k)
      BY <2>5, <2>6, <3>1
    <3> QED BY <2>1, <3>2
  <2>7. CASE k = t
    <3>1. sumsA[k - 1] = sumsB[k - 1]
      BY <2>4, <2>7
    <3>2. 1 \in 1 .. size /\ 0 \in 0 .. size /\ 1 - 1 = 0
      OBVIOUS
    <3>3. /\ mA[1] = baseA + localA[1] /\ mB[1] = baseB + localB[1]
          /\ localA[1] \in Int /\ localB[1] \in Int
      BY <1>2, <3>2
    <3>4. /\ stepA[k] = mA[1] /\ stepB[k] = mB[1]
      BY <2>7, <3>3
    <3>5. sumsA[k] + mB[1] = sumsB[k] + mA[1]
      BY <2>5, <3>1, <3>4
    <3>6. k - t + 1 = 1
      BY <2>7
    <3>7. Before(k) /\ Beside(k) /\ After(k)
      BY <2>7, <3>5, <3>6
    <3> QED BY <2>1, <3>7
  <2>8. CASE k > t /\ k <= t + size - 1
    <3>1. /\ k - 1 \in t .. t + size - 1 /\ (k - 1) - t + 1 = k - t
          /\ k - t + 1 \in 1 .. size /\ (k - t + 1) - 1 = k - t /\ k - t \in 0 .. size
          /\ k \in t + 1 .. t + size - 1
      BY <2>2, <2>8
    <3>2. sumsA[k - 1] + mB[k - t] = sumsB[k - 1] + mA[k - t]
      BY <2>4, <3>1
    <3>3. /\ mA[k - t + 1] = mA[k - t] + localA[k - t + 1]
          /\ mB[k - t + 1] = mB[k - t] + localB[k - t + 1]
          /\ mA[k - t] \in Int /\ mB[k - t] \in Int
          /\ localA[k - t + 1] \in Int /\ localB[k - t + 1] \in Int
      BY <1>2, <3>1
    <3>4. stepA[k] + localB[k - t + 1] = stepB[k] + localA[k - t + 1]
      BY <3>1
    <3>5. sumsA[k] + mB[k - t + 1] = sumsB[k] + mA[k - t + 1]
      BY <2>5, <3>2, <3>3, <3>4
    <3>6. Before(k) /\ Beside(k) /\ After(k)
      BY <2>2, <2>8, <3>5
    <3> QED BY <2>1, <3>6
  <2>9. CASE k > t + size - 1
    <3>1. sumsA[k - 1] + mB[size] = sumsB[k - 1] + mA[size]
      <4>1. CASE k - 1 > t + size - 1
        BY <2>4, <4>1
      <4>2. CASE k - 1 = t + size - 1
        <5>1. k - 1 \in t .. t + size - 1 /\ (k - 1) - t + 1 = size
          BY <4>2
        <5> QED BY <2>4, <5>1
      <4> QED BY <2>2, <2>9, <4>1, <4>2
    <3>2. stepA[k] = stepB[k]
      BY <2>3, <2>9
    <3>3. mA[size] \in Int /\ mB[size] \in Int
      <4>1. size \in 0 .. size
        OBVIOUS
      <4> QED BY <1>2, <4>1
    <3>4. sumsA[k] + mB[size] = sumsB[k] + mA[size]
      BY <2>5, <3>1, <3>2, <3>3
    <3>5. Before(k) /\ Beside(k) /\ After(k)
      BY <2>2, <2>9, <3>4
    <3> QED BY <2>1, <3>5
  <2> QED BY <2>2, <2>6, <2>7, <2>8, <2>9
<1>4. Before(n) /\ Beside(n) /\ After(n)
  BY <1>3
<1>5. CASE n = t + size - 1
  <2>1. n \in t .. t + size - 1 /\ n - t + 1 = size
    BY <1>5
  <2> QED BY <1>4, <2>1
<1>6. CASE n # t + size - 1
  BY <1>4, <1>6
<1> QED BY <1>5, <1>6

LEMMA ChoiceFacts ==
  ASSUME NEW s \in Sentences, NEW i \in 1 .. Len(s.stages), NEW p \in Choices(s, i)
  PROVE  p.form \in Form /\ p.emission \in Int
BY SentencesAssumption DEF Choices

LEMMA StepFacts ==
  ASSUME TransitionsRaise, NEW s \in Sentences, NEW path \in PathsOf(s)
  PROVE  /\ \A k \in 1 .. Tokens(s) + 1 :
              /\ path[k + ModelOrder - 1].emission \in Int
              /\ Transition(s.model, Window(path, k)) \in Nat
              /\ PathStep(s, path)[k] \in Int
         /\ \A t \in 1 .. Tokens(s) : \A k \in 1 .. Size(s, t) :
              /\ t + (k - 1) \in 1 .. Tokens(s) + 1
              /\ TokenStep(s, path, t)[k] \in Nat
<1>1. \A k \in 1 .. Tokens(s) + 1 : Transition(s.model, Window(path, k)) \in Nat
  BY DEF TransitionsRaise
<1>2. ASSUME NEW k \in 1 .. Tokens(s) + 1
      PROVE  path[k + ModelOrder - 1].emission \in Int
  <2>1. k + ModelOrder - 1 \in 1 .. Len(s.stages)
    BY SentenceFacts DEF Position
  <2>2. path[k + ModelOrder - 1] \in Choices(s, k + ModelOrder - 1)
    BY <2>1 DEF PathsOf
  <2> QED BY <2>1, <2>2, ChoiceFacts
<1>3. \A k \in 1 .. Tokens(s) + 1 : PathStep(s, path)[k] \in Int
  BY <1>1, <1>2 DEF PathStep
<1>4. ASSUME NEW t \in 1 .. Tokens(s), NEW k \in 1 .. Size(s, t)
      PROVE  /\ t + (k - 1) \in 1 .. Tokens(s) + 1
             /\ TokenStep(s, path, t)[k] \in Nat
  <2>1. /\ Size(s, t) \in 1 .. ModelOrder /\ t + Size(s, t) - 1 <= Tokens(s) + 1
        /\ ModelOrder \in Nat \ {0} /\ Tokens(s) \in Nat \ {0}
    BY SizeFacts, SentenceFacts
  <2>2. t + (k - 1) \in 1 .. Tokens(s) + 1
    BY <2>1
  <2> QED BY <1>1, <2>2 DEF TokenStep
<1> QED BY <1>1, <1>2, <1>3, <1>4

(* What is measured of a possibility, and that it does not fall.           *)
LEMMA AnalysisFacts ==
  ASSUME TransitionsRaise, NEW s \in Sentences, NEW path \in PathsOf(s),
         NEW t \in 1 .. Tokens(s), NEW p \in Choices(s, Position(t))
  PROVE  /\ Analysis(s, path, t, p).form = p.form
         /\ Rises(Analysis(s, path, t, p))
         /\ \E sums :
              /\ IsSum(Size(s, t), p.emission, TokenStep(s, Replaced(path, t, p), t), sums)
              /\ TotalCost(Analysis(s, path, t, p)) = sums[Size(s, t)]
<1> DEFINE size == Size(s, t)
           step == TokenStep(s, Replaced(path, t, p), t)
<1>1. /\ ModelOrder \in Nat /\ size \in 1 .. ModelOrder
      /\ Position(t) \in 1 .. Len(s.stages)
  <2>1. /\ ModelOrder \in Nat \ {0} /\ Tokens(s) \in Nat \ {0}
        /\ \A e \in 1 .. Tokens(s) + 1 : Position(e) \in 1 .. Len(s.stages)
    BY SentenceFacts
  <2> QED BY <2>1, SizeFacts
<1>2. p.emission \in Int
  BY <1>1, ChoiceFacts
<1>3. \A k \in 1 .. size : step[k] \in Nat
  BY StepFacts, ReplacedFacts
<1> DEFINE a == Analysis(s, path, t, p)
<1>w. PICK with : with = Replaced(path, t, p)
  OBVIOUS
<1>p. with \in PathsOf(s)
  BY <1>w, ReplacedFacts
<1>4. a = Measured(s, with, t, p)
  BY <1>w DEF Analysis, Replaced
<1> HIDE DEF a
<1>5. PICK sums : /\ IsSum(Size(s, t), p.emission, TokenStep(s, with, t), sums)
                  /\ Measured(s, with, t, p).form = p.form
                  /\ Len(Measured(s, with, t, p).costs) = Size(s, t) + 1
                  /\ \A k \in 1 .. Size(s, t) + 1 :
                       Measured(s, with, t, p).costs[k] = sums[k - 1]
  BY <1>p, MeasuredSum
<1>6. /\ a.form = p.form /\ Len(a.costs) = size + 1
      /\ \A k \in 1 .. size + 1 : a.costs[k] = sums[k - 1]
      /\ IsSum(size, p.emission, step, sums)
  BY <1>4, <1>5, <1>w
<1> HIDE DEF size, step
<1>7. size \in Nat /\ (size + 1) - 1 = size /\ size + 1 \in 1 .. size + 1
  BY <1>1
<1>8. TotalCost(a) = sums[size]
  BY <1>6, <1>7 DEF TotalCost
<1>9. \A k \in 0 .. size : sums[k] <= sums[size]
  BY <1>2, <1>3, <1>6, <1>7, SumRises
<1>10. Rises(a)
  <2>1. \A k \in 1 .. size + 1 : k - 1 \in 0 .. size
    BY <1>7
  <2> QED BY <1>6, <1>8, <1>9, <2>1 DEF Rises
<1> QED BY <1>6, <1>8, <1>10 DEF a, size, step

(* Two possibilities of a token differ in what is measured by as much as   *)
(* the whole sentence differs.                                             *)
LEMMA MeasuredLikePaths ==
  ASSUME TransitionsRaise, NEW s \in Sentences, NEW path \in PathsOf(s),
         NEW t \in 1 .. Tokens(s),
         NEW p \in Choices(s, Position(t)), NEW q \in Choices(s, Position(t))
  PROVE  /\ PathCost(s.model, Replaced(path, t, p)) \in Int
         /\ PathCost(s.model, Replaced(path, t, p)) + TotalCost(Analysis(s, path, t, q))
              = PathCost(s.model, Replaced(path, t, q)) + TotalCost(Analysis(s, path, t, p))
<1> DEFINE n == Tokens(s) + 1
           size == Size(s, t)
           with == Replaced(path, t, p)
           other == Replaced(path, t, q)
<1>1. /\ ModelOrder \in Nat \ {0} /\ Tokens(s) \in Nat
      /\ size \in 1 .. ModelOrder /\ t + size - 1 <= n
      /\ size = ModelOrder \/ t + size - 1 = n
      /\ Position(t) \in 1 .. Len(s.stages)
      /\ \A e \in 1 .. n : Position(e) \in 1 .. Len(s.stages)
  <2>1. /\ ModelOrder \in Nat \ {0} /\ Tokens(s) \in Nat \ {0}
        /\ \A e \in 1 .. n : Position(e) \in 1 .. Len(s.stages)
    BY SentenceFacts
  <2> QED BY <2>1, SizeFacts
<1>2. /\ with \in PathsOf(s) /\ other \in PathsOf(s)
      /\ with[Position(t)] = p /\ other[Position(t)] = q
      /\ \A i \in 1 .. Len(s.stages) : i # Position(t) => with[i] = other[i]
  BY ReplacedFacts
<1>3. p.emission \in Int /\ q.emission \in Int
  BY <1>1, ChoiceFacts
<1>4. PICK sumsA : /\ IsSum(n, 0, PathStep(s, with), sumsA)
                   /\ PathCost(s.model, with) = sumsA[n]
  BY <1>2, PathCostSum
<1>5. PICK sumsB : /\ IsSum(n, 0, PathStep(s, other), sumsB)
                   /\ PathCost(s.model, other) = sumsB[n]
  BY <1>2, PathCostSum
<1>6. PICK mA : /\ IsSum(size, p.emission, TokenStep(s, with, t), mA)
                /\ TotalCost(Analysis(s, path, t, p)) = mA[size]
  BY AnalysisFacts
<1>7. PICK mB : /\ IsSum(size, q.emission, TokenStep(s, other, t), mB)
                /\ TotalCost(Analysis(s, path, t, q)) = mB[size]
  BY AnalysisFacts
<1> HIDE DEF with, other, n, size
<1>8. /\ \A k \in 1 .. n : PathStep(s, with)[k] \in Int /\ PathStep(s, other)[k] \in Int
      /\ \A k \in 1 .. size : /\ TokenStep(s, with, t)[k] \in Int
                              /\ TokenStep(s, other, t)[k] \in Int
      /\ \A k \in 1 .. size : t + (k - 1) \in 1 .. n
      /\ \A k \in 1 .. n :
           /\ with[k + ModelOrder - 1].emission \in Int
           /\ other[k + ModelOrder - 1].emission \in Int
           /\ Transition(s.model, Window(with, k)) \in Nat
           /\ Transition(s.model, Window(other, k)) \in Nat
  BY <1>2, StepFacts DEF n, size
<1>9. \A k \in 1 .. n : k # t => with[k + ModelOrder - 1] = other[k + ModelOrder - 1]
  BY <1>1, <1>2 DEF Position, n
<1>10. ASSUME NEW k \in 1 .. n, k < t \/ k > t + size - 1
       PROVE  PathStep(s, with)[k] = PathStep(s, other)[k]
  <2>1. \A i \in k .. k + ModelOrder - 1 : i \in 1 .. Len(s.stages)
    BY <1>2, PathFacts DEF n
  <2>2. \A i \in k .. k + ModelOrder - 1 : i # Position(t)
    BY <1>1, <1>10 DEF Position, n
  <2>3. \A i \in k .. k + ModelOrder - 1 : with[i] = other[i]
    BY <1>2, <2>1, <2>2
  <2>4. Window(with, k) = Window(other, k)
    BY <1>2, <2>3, SameWindows DEF n
  <2>5. k # t
    BY <1>1, <1>10
  <2> QED BY <1>9, <2>4, <2>5 DEF PathStep, n
<1>11. /\ PathStep(s, with)[t] = p.emission + TokenStep(s, with, t)[1]
       /\ PathStep(s, other)[t] = q.emission + TokenStep(s, other, t)[1]
  <2>1. 1 \in 1 .. size /\ t \in 1 .. n /\ t + (1 - 1) = t
    BY <1>1 DEF n
  <2> QED BY <1>2, <2>1 DEF PathStep, TokenStep, Position, n, size
<1>12. ASSUME NEW k \in t + 1 .. t + size - 1
       PROVE  PathStep(s, with)[k] + TokenStep(s, other, t)[k - t + 1]
                = PathStep(s, other)[k] + TokenStep(s, with, t)[k - t + 1]
  <2>1. k \in 1 .. n /\ k # t /\ k - t + 1 \in 1 .. size /\ t + ((k - t + 1) - 1) = k
    BY <1>1 DEF n
  <2>2. /\ PathStep(s, with)[k] = with[k + ModelOrder - 1].emission
                                    + Transition(s.model, Window(with, k))
        /\ PathStep(s, other)[k] = other[k + ModelOrder - 1].emission
                                    + Transition(s.model, Window(other, k))
    BY <2>1 DEF PathStep, n
  <2>3. /\ TokenStep(s, with, t)[k - t + 1] = Transition(s.model, Window(with, k))
        /\ TokenStep(s, other, t)[k - t + 1] = Transition(s.model, Window(other, k))
    BY <2>1 DEF TokenStep, size
  <2>4. with[k + ModelOrder - 1].emission = other[k + ModelOrder - 1].emission
    BY <1>9, <2>1
  <2> QED BY <1>8, <2>1, <2>2, <2>3, <2>4
<1>13. n \in Nat /\ t \in 1 .. n /\ size \in 1 .. n
  BY <1>1 DEF n
<1> DEFINE stepA == PathStep(s, with)
           stepB == PathStep(s, other)
           localA == TokenStep(s, with, t)
           localB == TokenStep(s, other, t)
<1>a. /\ \A k \in 1 .. n : stepA[k] \in Int /\ stepB[k] \in Int
      /\ \A k \in 1 .. size : localA[k] \in Int /\ localB[k] \in Int
  BY <1>8
<1>b. \A k \in 1 .. n : k < t \/ k > t + size - 1 => stepA[k] = stepB[k]
  BY <1>10
<1>c. \A k \in t + 1 .. t + size - 1 :
        stepA[k] + localB[k - t + 1] = stepB[k] + localA[k - t + 1]
  BY <1>12
<1>d. stepA[t] = p.emission + localA[1] /\ stepB[t] = q.emission + localB[1]
  BY <1>11
<1>e. /\ IsSum(n, 0, stepA, sumsA) /\ IsSum(n, 0, stepB, sumsB)
      /\ IsSum(size, p.emission, localA, mA) /\ IsSum(size, q.emission, localB, mB)
  BY <1>4, <1>5, <1>6, <1>7
<1> HIDE DEF stepA, stepB, localA, localB
<1>f. p.emission \in Int /\ q.emission \in Int /\ t + size - 1 <= n
  BY <1>1, <1>3
<1>g. Differ(n, t, size, stepA, stepB, p.emission, q.emission, localA, localB)
  BY <1>13, <1>a, <1>b, <1>c, <1>d, <1>f DEF Differ
<1>14. sumsA[n] + mB[size] = sumsB[n] + mA[size]
  BY <1>13, <1>e, <1>g, SumsDiffer
<1>15. sumsA[n] \in Int
  <2>1. n \in 0 .. n
    BY <1>13
  <2> QED BY <1>4, <1>8, <1>13, <2>1, SumFacts
<1> QED BY <1>4, <1>5, <1>6, <1>7, <1>14, <1>15 DEF with, other

-----------------------------------------------------------------------------
(***************************************************************************)
(* What becomes of a sentence.  While a token is measured, what the        *)
(* selection has looked at are the first possibilities of its stage, each  *)
(* measured on the path of the decoder.                                    *)
(***************************************************************************)
Stage == sentence.stages[Position(token)]

StageIsMeasured ==
  /\ ~sentence.path[Position(token)].original
  /\ correction = sentence.path[Position(token)].form
  /\ alternative \in 0 .. Len(Stage)
  /\ Len(considered) = alternative
  /\ \A j \in 1 .. alternative :
       considered[j] = Analysis(sentence, sentence.path, token, Stage[j])
  /\ pc = "store" => alternative = Len(Stage)

Answers == [type : {"NONE", "SPELLING", "GRAMMAR"}, alternatives : Seq(Form)]

RankInv ==
  /\ PathInv /\ Optimal /\ StoreInv
  /\ phase \in {"tokens", "alternatives"}
  /\ corrections \in Seq(Answers)
  /\ token = Len(corrections) + 1
  /\ phase = "alternatives" => StageIsMeasured
  /\ RankedByPathCost

(* The order does not change when all costs do by the same amount.         *)
LEMMA SameRanks ==
  ASSUME NEW forms, NEW offered, NEW cost, NEW other, NEW shift \in Int,
         \A f \in offered : cost[f] \in Int /\ other[f] = cost[f] + shift,
         AreKBest(forms, offered, cost)
  PROVE  AreKBest(forms, offered, other)
<1>1. /\ Len(forms) = IF Cardinality(offered) < Limit THEN Cardinality(offered) ELSE Limit
      /\ \A k \in 1 .. Len(forms) : forms[k] \in offered
  BY DEF AreKBest
<1>2. ASSUME NEW f \in offered, NEW g \in offered, cost[f] <= cost[g]
      PROVE  other[f] <= other[g]
  BY <1>2
<1>3. ASSUME NEW j \in 1 .. Len(forms), NEW k \in 1 .. Len(forms), j < k
      PROVE  forms[j] # forms[k] /\ other[forms[j]] <= other[forms[k]]
  BY <1>1, <1>2, <1>3 DEF AreKBest
<1>4. ASSUME NEW f \in offered, NEW k \in 1 .. Len(forms),
             \A j \in 1 .. Len(forms) : forms[j] # f
      PROVE  other[forms[k]] <= other[f]
  BY <1>1, <1>2, <1>4 DEF AreKBest
<1> QED BY <1>1, <1>3, <1>4 DEF AreKBest

LEMMA StageFacts ==
  ASSUME PathInv, phase # "tokens"
  PROVE  /\ sentence \in Sentences /\ token \in 1 .. Tokens(sentence)
         /\ sentence.path \in PathsOf(sentence)
         /\ Position(token) \in 1 .. Len(sentence.stages)
         /\ Len(Stage) \in Nat
         /\ \A j \in 1 .. Len(Stage) : Stage[j] \in Choices(sentence, Position(token))
         /\ \A p \in Choices(sentence, Position(token)) :
              \E j \in 1 .. Len(Stage) : p = Stage[j]
<1>1. /\ sentence \in Sentences /\ token \in 1 .. Tokens(sentence)
      /\ sentence.path \in PathsOf(sentence)
  BY SentenceFacts, DecodedIsPath DEF PathInv
<1>2. Position(token) \in 1 .. Len(sentence.stages)
  BY SentenceFacts DEF PathInv
<1>3. Len(Stage) \in Nat
  BY <1>1, <1>2, SentencesAssumption, LimitAssumption DEF Stage
<1> QED BY <1>1, <1>2, <1>3 DEF Choices, Stage

(* What is offered are the forms of the stage, and the cost of a sentence  *)
(* with a form is what was measured for the form and a constant.           *)
LEMMA OfferedIsStage ==
  ASSUME RankInv, phase = "alternatives", pc = "store"
  PROVE  Offered = {p.form : p \in Choices(sentence, Position(token))}
                     \ {sentence.path[Position(token)].form}
<1>1. /\ correction = sentence.path[Position(token)].form
      /\ Len(considered) = Len(Stage)
      /\ \A j \in 1 .. Len(Stage) :
           considered[j] = Analysis(sentence, sentence.path, token, Stage[j])
  BY DEF RankInv, StageIsMeasured
<1>2. \A j \in 1 .. Len(Stage) : considered[j].form = Stage[j].form
  <2>1. \A p : Analysis(sentence, sentence.path, token, p).form = p.form
    BY DEF Analysis, Measured
  <2> QED BY <1>1, <2>1
<1>3. /\ \A j \in 1 .. Len(Stage) : Stage[j] \in Choices(sentence, Position(token))
      /\ \A p \in Choices(sentence, Position(token)) :
              \E j \in 1 .. Len(Stage) : p = Stage[j]
  BY StageFacts DEF RankInv
<1>4. {considered[j].form : j \in 1 .. Len(Stage)}
        = {p.form : p \in Choices(sentence, Position(token))}
  BY <1>2, <1>3
<1> QED BY <1>1, <1>4 DEF Offered

LEMMA CostsDifferByConstant ==
  ASSUME TransitionsRaise, RankInv, phase = "alternatives", pc = "store"
  PROVE  \E shift \in Int : \A f \in Offered :
           CheapestCost(f) \in Int /\ CostWith(sentence, token, f) = CheapestCost(f) + shift
<1> DEFINE Whole(p) == PathCost(sentence.model, Replaced(sentence.path, token, p))
           Local(p) == TotalCost(Analysis(sentence, sentence.path, token, p))
           choices == Choices(sentence, Position(token))
<1>1. /\ sentence \in Sentences /\ token \in 1 .. Tokens(sentence)
      /\ sentence.path \in PathsOf(sentence)
      /\ Position(token) \in 1 .. Len(sentence.stages)
      /\ \A j \in 1 .. Len(Stage) : Stage[j] \in choices
      /\ \A p \in choices : \E j \in 1 .. Len(Stage) : p = Stage[j]
  BY StageFacts DEF RankInv
<1>2. /\ Len(considered) = Len(Stage)
      /\ \A j \in 1 .. Len(Stage) :
           considered[j] = Analysis(sentence, sentence.path, token, Stage[j])
      /\ TypeOK
  BY DEF RankInv, StageIsMeasured, Optimal, HeapInv
<1>3. \A j \in 1 .. Len(Stage) : /\ considered[j].form = Stage[j].form
                                 /\ TotalCost(considered[j]) = Local(Stage[j])
  BY <1>2 DEF Analysis, Measured
<1>4. \A p \in choices : Local(p) \in Int
  BY <1>1, <1>2, <1>3, ConsideredCosts
<1>5. PICK q : q = sentence.path[Position(token)]
  OBVIOUS
<1>6. q \in choices
  BY <1>1, <1>5, SentencesAssumption
<1>7. \A p \in choices : Whole(p) \in Int /\ Whole(p) + Local(q) = Whole(q) + Local(p)
  BY <1>1, <1>6, MeasuredLikePaths
<1> DEFINE shift == Whole(q) - Local(q)
<1>8. shift \in Int /\ \A p \in choices : Whole(p) = Local(p) + shift
  <2>1. Whole(q) \in Int /\ Local(q) \in Int
    BY <1>4, <1>6, <1>7
  <2>2. \A a, b, c, d \in Int : a + b = c + d => a = d + (c - b)
    OBVIOUS
  <2>3. ASSUME NEW p \in choices PROVE Whole(p) = Local(p) + shift
    <3>1. /\ Whole(p) \in Int /\ Local(p) \in Int
          /\ Whole(p) + Local(q) = Whole(q) + Local(p)
      BY <1>4, <1>7
    <3> HIDE DEF Whole, Local, choices
    <3> QED BY <2>1, <2>2, <3>1
  <2>4. shift \in Int
    <3> HIDE DEF Whole, Local
    <3> QED BY <2>1
  <2> QED BY <2>3, <2>4
<1>9. ASSUME NEW f \in Offered
      PROVE  CheapestCost(f) \in Int /\ CostWith(sentence, token, f) = CheapestCost(f) + shift
  <2> DEFINE costs == {Whole(p) : p \in {r \in choices : r.form = f}}
             cheapest == CheapestCost(f)
  <2> HIDE DEF shift
  <2>1. /\ cheapest \in Int
        /\ \E k \in 1 .. Len(considered) :
             considered[k].form = f /\ TotalCost(considered[k]) = cheapest
        /\ \A k \in 1 .. Len(considered) :
             considered[k].form = f => cheapest <= TotalCost(considered[k])
    BY <1>2, CheapestExists DEF IsCostOf
  <2> HIDE DEF cheapest
  <2>2. \E p \in choices : p.form = f /\ Local(p) = cheapest
    BY <1>1, <1>2, <1>3, <2>1
  <2>3. \A p \in choices : p.form = f => cheapest <= Local(p)
    BY <1>1, <1>2, <1>3, <2>1
  <2>4. CostWith(sentence, token, f) = CHOOSE c \in costs : \A d \in costs : c <= d
    BY DEF CostWith, Replaced
  <2> HIDE DEF Whole, Local, choices
  <2>5. cheapest + shift \in costs
    BY <1>8, <2>2
  <2>6. \A d \in costs : d \in Int /\ cheapest + shift <= d
    BY <1>4, <1>8, <2>1, <2>3
  <2> HIDE DEF costs
  <2>7. \A c \in costs : (\A d \in costs : c <= d) => c = cheapest + shift
    BY <2>5, <2>6
  <2>8. CostWith(sentence, token, f) = cheapest + shift
    BY <2>4, <2>5, <2>6, <2>7
  <2> QED BY <2>1, <2>8 DEF cheapest
<1> HIDE DEF shift
<1> QED BY <1>8, <1>9

LEMMA FinishedIsRanked ==
  ASSUME TransitionsRaise, RankInv, phase = "alternatives", pc = "store", Kept = {}
  PROVE  IsRanked(sentence, token, chosen)
<1>1. AreKBest(chosen, Offered, Cost)
  BY StoredAtTheEnd DEF RankInv, Optimal, StoredAlternativesAreKBest, Cost
<1>2. PICK shift \in Int : \A f \in Offered :
        CheapestCost(f) \in Int /\ CostWith(sentence, token, f) = CheapestCost(f) + shift
  BY CostsDifferByConstant
<1> DEFINE other == [f \in Offered |-> CostWith(sentence, token, f)]
<1>3. \A f \in Offered : Cost[f] \in Int /\ other[f] = Cost[f] + shift
  BY <1>2 DEF Cost
<1> HIDE DEF other
<1>4. AreKBest(chosen, Offered, other)
  BY <1>1, <1>3, SameRanks
<1>5. ~sentence.path[Position(token)].original
  BY DEF RankInv, StageIsMeasured
<1> QED BY <1>4, <1>5, OfferedIsStage DEF IsRanked, other

LEMMA RankedAppend ==
  ASSUME RankInv, sentence' = sentence, NEW answer \in Answers,
         corrections' = Append(corrections, answer),
         IsRanked(sentence, token, answer.alternatives)
  PROVE  /\ corrections' \in Seq(Answers)
         /\ Len(corrections') = Len(corrections) + 1
         /\ RankedByPathCost'
<1>1. corrections \in Seq(Answers) /\ token = Len(corrections) + 1 /\ RankedByPathCost
  BY DEF RankInv
<1>2. /\ corrections' \in Seq(Answers)
      /\ Len(corrections') = Len(corrections) + 1
      /\ \A t \in 1 .. Len(corrections) : corrections'[t] = corrections[t]
      /\ corrections'[token] = answer
      /\ Len(corrections) \in Nat
  BY <1>1, AppendProperties, LenProperties
<1>3. ASSUME NEW t \in 1 .. Len(corrections')
      PROVE  IsRanked(sentence, t, corrections'[t].alternatives)
  <2>1. CASE t = token
    BY <1>2, <2>1
  <2>2. CASE t # token
    <3>1. t \in 1 .. Len(corrections)
      BY <1>1, <1>2, <2>2
    <3> QED BY <1>1, <1>2, <3>1 DEF RankedByPathCost
  <2> QED BY <2>1, <2>2
<1> QED BY <1>2, <1>3 DEF RankedByPathCost

LEMMA RankInit == SpellInit => RankInv
<1> SUFFICES ASSUME SpellInit PROVE RankInv
  OBVIOUS
<1>1. PathInv
  BY PathInit
<1>2. Optimal /\ StoreInv
  BY InitInv, InitStore DEF SpellInit, Init, Optimal, KeepsCheapest
<1>3. /\ phase = "tokens" /\ corrections = <<>> /\ token = 1
  BY DEF SpellInit
<1>4. corrections \in Seq(Answers) /\ Len(corrections) = 0 /\ 1 .. Len(corrections) = {}
  BY <1>3, EmptySeq
<1> QED BY <1>1, <1>2, <1>3, <1>4 DEF RankInv, RankedByPathCost

(* The map, the heap and what is stored.  Only costs of this sentence are  *)
(* measured, and they do not fall.                                         *)
LEMMA SpellNextOptimal ==
  ASSUME TransitionsRaise, RankInv, SpellNext
  PROVE  Optimal' /\ StoreInv'
<1>1. PathInv /\ Optimal /\ StoreInv
  BY DEF RankInv
<1>2. CASE MeasureAlternative
  <2> DEFINE i == Position(token)
  <2>1. /\ phase = "alternatives" /\ alternative < Len(Stage)
        /\ Consider(Analysis(sentence, decoded, token, Stage[alternative + 1]))
    BY <1>2 DEF MeasureAlternative, Stage
  <2>2. alternative + 1 \in 1 .. Len(Stage)
    BY <1>1, <2>1, StageFacts DEF PathInv
  <2>3. /\ sentence \in Sentences /\ token \in 1 .. Tokens(sentence)
        /\ sentence.path \in PathsOf(sentence)
        /\ Stage[alternative + 1] \in Choices(sentence, Position(token))
    BY <1>1, <2>1, <2>2, StageFacts
  <2>4. Analysis(sentence, decoded, token, Stage[alternative + 1])
          = Analysis(sentence, sentence.path, token, Stage[alternative + 1])
    BY <1>1, <2>1, MeasuredOnThePath DEF Analysis
  <2>5. PICK a : a = Analysis(sentence, sentence.path, token, Stage[alternative + 1])
    OBVIOUS
  <2>6. a \in Analyses /\ Rises(a) /\ Consider(a)
    BY <2>1, <2>3, <2>4, <2>5, AnalysesOfSentences, AnalysisFacts
  <2> QED BY <1>1, <2>6, ConsiderOptimal, MeasureStore
<1>3. CASE KeepToken \/ CorrectToken \/ RestoreCorrection \/ StoreAlternative \/ FinishToken
  <2>1. StartStoring \/ StoreWorst \/ NextToken \/ UNCHANGED vars
    BY <1>3 DEF KeepToken, CorrectToken, RestoreCorrection, StoreAlternative, FinishToken
  <2> QED BY <1>1, <2>1, OtherOptimal, NextStore DEF Next
<1> QED BY <1>2, <1>3 DEF SpellNext

LEMMA RankNext ==
  ASSUME TransitionsRaise, RankInv, SpellNext
  PROVE  RankInv'
<1>1. PathInv' /\ Optimal' /\ StoreInv' /\ sentence' = sentence
  BY PathNext, SpellNextOptimal DEF RankInv, SpellNext, KeepToken, CorrectToken,
     MeasureAlternative, RestoreCorrection, StoreAlternative, FinishToken, spellVars
<1>2. /\ PathInv /\ corrections \in Seq(Answers) /\ token = Len(corrections) + 1
      /\ phase \in {"tokens", "alternatives"} /\ RankedByPathCost
      /\ Len(corrections) \in Nat
  BY LenProperties DEF RankInv
<1>3. CASE KeepToken
  <2>1. /\ phase' = "tokens" /\ token' = token + 1
        /\ corrections' = Append(corrections, [type |-> "NONE", alternatives |-> <<>>])
        /\ sentence.path[Position(token)].original
    BY <1>2, <1>3 DEF KeepToken, Correction, PathInv
  <2>2. PICK answer : answer = [type |-> "NONE", alternatives |-> <<>>]
    OBVIOUS
  <2>3. answer \in Answers /\ IsRanked(sentence, token, answer.alternatives)
    BY <2>1, <2>2, EmptySeq DEF Answers, IsRanked
  <2>4. /\ corrections' \in Seq(Answers) /\ Len(corrections') = Len(corrections) + 1
        /\ RankedByPathCost'
    BY <1>1, <2>1, <2>2, <2>3, RankedAppend
  <2> QED BY <1>1, <1>2, <2>1, <2>4 DEF RankInv
<1>4. CASE FinishToken
  <2>1. /\ phase = "alternatives" /\ phase' = "tokens" /\ token' = token + 1
        /\ pc = "store" /\ Kept = {}
    BY <1>4 DEF FinishToken
  <2>2. PICK answer :
          /\ answer = [type |-> IF token \in sentence.unknown THEN "SPELLING" ELSE "GRAMMAR",
                       alternatives |-> chosen]
          /\ corrections' = Append(corrections, answer)
    BY <1>4 DEF FinishToken
  <2>3. chosen \in Seq(Form)
    BY DEF RankInv, Optimal, HeapInv, TypeOK
  <2>4. answer \in Answers /\ IsRanked(sentence, token, answer.alternatives)
    BY <2>1, <2>2, <2>3, FinishedIsRanked DEF Answers
  <2>5. /\ corrections' \in Seq(Answers) /\ Len(corrections') = Len(corrections) + 1
        /\ RankedByPathCost'
    BY <1>1, <2>2, <2>4, RankedAppend
  <2> QED BY <1>1, <1>2, <2>1, <2>5 DEF RankInv
<1>5. ASSUME CorrectToken \/ MeasureAlternative \/ RestoreCorrection \/ StoreAlternative,
             StageIsMeasured'
      PROVE  RankInv'
  <2>1. /\ corrections' = corrections /\ token' = token /\ phase' = "alternatives"
    BY <1>5 DEF CorrectToken, MeasureAlternative, RestoreCorrection, StoreAlternative, spellVars
  <2>2. RankedByPathCost'
    BY <1>1, <1>2, <2>1 DEF RankedByPathCost
  <2> QED BY <1>1, <1>2, <1>5, <2>1, <2>2 DEF RankInv
<1>6. CASE CorrectToken
  <2>1. /\ phase = "tokens" /\ token \in 1 .. Tokens(sentence)
        /\ token' = token /\ alternative' = 0 /\ considered' = <<>> /\ pc' = "measure"
        /\ ~sentence.path[Position(token)].original
        /\ correction' = sentence.path[Position(token)].form
    BY <1>2, <1>6 DEF CorrectToken, NextToken, Correction, PathInv
  <2>2. Stage' = Stage /\ Len(considered') = 0
    BY <1>1, <2>1 DEF Stage
  <2>3. Len(Stage) \in Nat
    <3>1. sentence \in Sentences /\ Position(token) \in 1 .. Len(sentence.stages)
      BY <1>2, SentenceFacts DEF PathInv
    <3> QED BY <3>1, SentencesAssumption, LimitAssumption DEF Stage
  <2>4. StageIsMeasured'
    BY <1>1, <2>1, <2>2, <2>3 DEF StageIsMeasured
  <2> QED BY <1>5, <1>6, <2>4
<1>7. CASE MeasureAlternative
  <2>1. PICK a : /\ a = Analysis(sentence, decoded, token, Stage[alternative + 1])
                 /\ Consider(a)
    BY <1>7 DEF MeasureAlternative, Stage
  <2>2. /\ phase = "alternatives" /\ alternative < Len(Stage)
        /\ alternative' = alternative + 1 /\ token' = token
    BY <1>7 DEF MeasureAlternative, Stage
  <2>3. LookAt(a)
    BY <2>1 DEF Consider, SkipCorrection, Abandon, NotBetter, LowerCost, AddForm,
       ReplaceWorst, Measure
  <2>4. /\ considered' = Append(considered, a) /\ correction' = correction
        /\ pc' = "measure"
    BY <2>3 DEF LookAt
  <2>5. StageIsMeasured /\ considered \in Seq(Analyses)
    BY <2>2 DEF RankInv, Optimal, HeapInv, TypeOK
  <2>6. a = Analysis(sentence, sentence.path, token, Stage[alternative + 1])
    BY <1>2, <2>1, <2>2, MeasuredOnThePath DEF Analysis
  <2>7. /\ Len(considered) = alternative /\ alternative \in 0 .. Len(Stage)
        /\ Len(Stage) \in Nat
    BY <1>2, <2>2, <2>5, StageFacts DEF StageIsMeasured
  <2>8. a \in Analyses
    <3>1. Stage[alternative + 1] \in Choices(sentence, Position(token))
      BY <1>2, <2>2, <2>7, StageFacts
    <3> QED BY <1>2, <2>1, <2>2, <3>1, MeasuredAnalysis
  <2>9. /\ Len(considered') = alternative + 1
        /\ \A j \in 1 .. alternative : considered'[j] = considered[j]
        /\ considered'[alternative + 1] = a
    BY <2>4, <2>5, <2>7, <2>8, AppendProperties
  <2>10. Stage' = Stage
    BY <1>1, <2>2 DEF Stage
  <2>11. ASSUME NEW j \in 1 .. alternative + 1
         PROVE  considered'[j] = Analysis(sentence, sentence.path, token, Stage[j])
    <3>1. CASE j \in 1 .. alternative
      BY <2>5, <2>9, <3>1 DEF StageIsMeasured
    <3>2. CASE j = alternative + 1
      BY <2>6, <2>9, <3>2
    <3> QED BY <2>7, <3>1, <3>2
  <2>12. alternative + 1 \in 0 .. Len(Stage)
    BY <2>2, <2>7
  <2>13. StageIsMeasured'
    BY <1>1, <2>2, <2>4, <2>5, <2>9, <2>10, <2>11, <2>12 DEF StageIsMeasured
  <2> QED BY <1>5, <1>7, <2>13
<1>8. CASE RestoreCorrection
  <2>1. /\ phase = "alternatives" /\ alternative = Len(Stage)
        /\ UNCHANGED <<token, alternative, correction, considered>>
    BY <1>8 DEF RestoreCorrection, StartStoring, Stage
  <2>2. Stage' = Stage /\ StageIsMeasured
    BY <1>1, <2>1 DEF Stage, RankInv
  <2>3. StageIsMeasured'
    BY <1>1, <2>1, <2>2 DEF StageIsMeasured
  <2> QED BY <1>5, <1>8, <2>3
<1>9. CASE StoreAlternative
  <2>1. /\ phase = "alternatives" /\ pc' = pc
        /\ UNCHANGED <<token, alternative, correction, considered>>
    BY <1>9 DEF StoreAlternative, StoreWorst, spellVars
  <2>2. Stage' = Stage /\ StageIsMeasured
    BY <1>1, <2>1 DEF Stage, RankInv
  <2>3. StageIsMeasured'
    BY <1>1, <2>1, <2>2 DEF StageIsMeasured
  <2> QED BY <1>5, <1>9, <2>3
<1> QED BY <1>3, <1>4, <1>6, <1>7, <1>8, <1>9 DEF SpellNext

LEMMA RankStutter ==
  ASSUME RankInv, UNCHANGED allVars
  PROVE  RankInv'
<1>1. PathInv' /\ Optimal' /\ StoreInv'
  <2>1. PathInv'
    BY DEF RankInv, PathInv, Elsewhere, allVars, spellVars, vars
  <2>2. UNCHANGED vars
    BY DEF allVars
  <2> QED BY <2>1, <2>2, OtherOptimal, NextStore DEF RankInv
<1>2. UNCHANGED <<sentence, corrections, token, phase, alternative, considered, correction, pc>>
  BY DEF allVars, spellVars, vars
<1>3. Stage' = Stage
  BY <1>2 DEF Stage
<1>4. StageIsMeasured' = StageIsMeasured
  BY <1>2, <1>3 DEF StageIsMeasured
<1>5. RankedByPathCost' = RankedByPathCost
  BY <1>2 DEF RankedByPathCost
<1> QED BY <1>1, <1>2, <1>4, <1>5 DEF RankInv

THEOREM RankInvariance ==
  ASSUME TransitionsRaise
  PROVE  SpellSpec => []RankInv
<1>1. RankInv /\ [SpellNext]_allVars => RankInv'
  BY RankNext, RankStutter
<1> QED BY <1>1, RankInit, PTL DEF SpellSpec

(* While a token of a sentence is measured, the map holds the cheapest of  *)
(* the forms seen so far, provided that no transition of a model lowers a  *)
(* cost: then none of the measurements that are broken off would have      *)
(* helped (spellchecker.cpp:65-80).                                        *)
THEOREM CheapestAreKeptInSentences ==
  ASSUME TransitionsRaise
  PROVE  SpellSpec => []KeepsCheapest
<1>1. RankInv => KeepsCheapest
  BY DEF RankInv, Optimal
<1> QED BY <1>1, RankInvariance, PTL

(* And what is stored for a token are the cheapest of its forms, as many   *)
(* as asked for and the cheapest first (spellchecker.cpp:114-123).         *)
THEOREM KBestAreStoredInSentences ==
  ASSUME TransitionsRaise
  PROVE  SpellSpec => []StoredAlternativesAreKBest
<1>1. RankInv => StoredAlternativesAreKBest
  BY StoredAtTheEnd DEF RankInv, Optimal
<1> QED BY <1>1, RankInvariance, PTL

(* The alternatives of every token of the answer are the forms with which  *)
(* the whole sentence is cheapest, in order, although only the windows     *)
(* around the token are measured, on the path that the measuring itself    *)
(* overwrites: for every model whose transitions do not lower a cost,      *)
(* every order of the model and every path the decoder may return.         *)
THEOREM AlternativesAreAlwaysRanked ==
  ASSUME TransitionsRaise
  PROVE  SpellSpec => []RankedByPathCost
<1>1. RankInv => RankedByPathCost
  BY DEF RankInv
<1> QED BY <1>1, RankInvariance, PTL
=============================================================================
