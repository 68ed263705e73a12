---------------------------- MODULE Alternatives ----------------------------
(***************************************************************************)
(* The selection of the alternative corrections of a token in              *)
(* Spellchecker::Spellcheck (src/src/spellchecker/spellchecker.cpp).       *)
(*                                                                         *)
(* The cheapest forms are kept in a map from forms to costs and in a heap  *)
(* that holds, besides the current entry of every form, the dead entries   *)
(* of forms whose cost was lowered later.  Both are shared by the tokens   *)
(* of a sentence.  One action per possibility the measuring loop looks at, *)
(* by what becomes of it, and one per turn of the loop that stores the     *)
(* alternatives from the worst to the best.                                *)
(*                                                                         *)
(* A possibility is reduced to its form and the costs the loop sees: first *)
(* its emission_prob, then the running cost after each n-gram window the   *)
(* possibility takes part in.                                              *)
(***************************************************************************)
EXTENDS Integers, FiniteSets, Sequences

CONSTANTS
  Form,           \* form_id
  Analyses,       \* possibilities: records [form, costs]
  Limit,          \* alternatives, the number of alternatives asked for
  MaxPossibilities, \* bound on the number of possibilities of a token
  NoEntry         \* what top() is for an empty heap

ASSUME LimitAssumption == Limit \in Nat \ {0} /\ MaxPossibilities \in Nat

ASSUME AnalysesAssumption ==
  /\ IsFiniteSet(Form)
  /\ \A a \in Analyses :
       /\ a.form \in Form
       /\ a.costs \in Seq(Int)
       /\ a.costs # <<>>

VARIABLES
  correction, \* form of the correction the decoder chose
  considered, \* the possibilities of the token the loop has looked at
  live,       \* alternatives_cost
  heap,       \* the elements of alternatives_heap
  top,        \* alternatives_heap.top()
  chosen,     \* forms of corrections.back().alternatives
  pc          \* "measure" or "store"

vars == <<correction, considered, live, heap, top, chosen, pc>>

-----------------------------------------------------------------------------

EmissionProb(a) == a.costs[1]
TotalCost(a) == a.costs[Len(a.costs)]

(* An AlternativeWithCost: entries for different possibilities differ even *)
(* if their form and cost are the same, as the pointers in the code do.    *)
Entry(a, index) == [form |-> a.form, cost |-> TotalCost(a), index |-> index]

Kept == DOMAIN live
Without(f) == [g \in Kept \ {f} |-> live[g]]
With(lv, e) == [g \in DOMAIN lv \union {e.form} |-> IF g = e.form THEN e ELSE lv[g]]

(***************************************************************************)
(* std::priority_queue.  Which of several entries of the greatest cost is  *)
(* at the root depends on the history of the heap: it is a choice when the *)
(* root is popped, but push replaces the root only by a greater entry.     *)
(***************************************************************************)
IsRoot(h, t) ==
  IF h = {} THEN t = NoEntry ELSE t \in h /\ \A e \in h : e.cost <= t.cost

RootAfterPush(h, t, e) ==
  IF h = {} THEN e ELSE IF t.cost < e.cost THEN e ELSE t

(* The loop condition of "remove dead top elements".  The code reads the   *)
(* map with at(), which throws for a missing form; see HeapHoldsKeptForms. *)
IsDead(lv, e) == e.form \in DOMAIN lv /\ lv[e.form].cost < e.cost

(* h is what remains of rest, and t the root, when that loop ends.         *)
Normalized(rest, lv, h, t) ==
  /\ h \subseteq rest
  /\ IsRoot(h, t)
  /\ \A e \in rest \ h : IsDead(lv, e) /\ \A r \in h : r.cost <= e.cost
  /\ h # {} => ~IsDead(lv, t)

-----------------------------------------------------------------------------

Init ==
  /\ correction \in Form
  /\ considered = <<>>
  /\ live = <<>>
  /\ heap = {}
  /\ top = NoEntry
  /\ chosen = <<>>
  /\ pc = "store"

(* The next possibility of the token; they are sorted by emission_prob.    *)
LookAt(a) ==
  /\ pc = "measure"
  /\ Len(considered) < MaxPossibilities
  /\ considered # <<>> => EmissionProb(considered[Len(considered)]) <= EmissionProb(a)
  /\ considered' = Append(considered, a)
  /\ UNCHANGED <<correction, chosen, pc>>

HaveCurrentBest(a) == a.form \in Kept \/ Cardinality(Kept) = Limit

(* A mutant of CurrentBest: a kept form is not compared with itself.       *)
CurrentBestIsTop(a) == IF heap # {} THEN top.cost ELSE 0

CurrentBest(a) ==
  IF a.form \in Kept THEN live[a.form].cost ELSE IF heap # {} THEN top.cost ELSE 0

(* The cost exceeds the current best on the way: continue or break.        *)
IsAbandoned(a) ==
  HaveCurrentBest(a) /\ \E k \in 1 .. Len(a.costs) : a.costs[k] > CurrentBest(a)

NewEntry(a) == Entry(a, Len(considered) + 1)

SkipCorrection(a) ==
  /\ LookAt(a)
  /\ a.form = correction
  /\ UNCHANGED <<live, heap, top>>

Abandon(a) ==
  /\ LookAt(a)
  /\ a.form # correction
  /\ IsAbandoned(a)
  /\ UNCHANGED <<live, heap, top>>

(* The common condition of the possibilities whose whole cost is measured. *)
Measure(a) ==
  /\ LookAt(a)
  /\ a.form # correction
  /\ ~IsAbandoned(a)

NotBetter(a) ==
  /\ Measure(a)
  /\ HaveCurrentBest(a)
  /\ TotalCost(a) >= CurrentBest(a)
  /\ UNCHANGED <<live, heap, top>>

(* A cheaper analysis of a kept form.  Its old entry stays in the heap,    *)
(* unless it is at the root.                                               *)
LowerCost(a) ==
  /\ Measure(a)
  /\ a.form \in Kept
  /\ TotalCost(a) < CurrentBest(a)
  /\ live' = With(live, NewEntry(a))
  /\ LET pushed == heap \union {NewEntry(a)}
         root == RootAfterPush(heap, top, NewEntry(a))
     IN  IF root.form = a.form
           THEN \E h \in SUBSET (pushed \ {root}) : \E t \in h \union {NoEntry} :
                  /\ Normalized(pushed \ {root}, live', h, t)
                  /\ heap' = h
                  /\ top' = t
           ELSE heap' = pushed /\ top' = root

AddForm(a) ==
  /\ Measure(a)
  /\ a.form \notin Kept
  /\ Cardinality(Kept) < Limit
  /\ live' = With(live, NewEntry(a))
  /\ heap' = heap \union {NewEntry(a)}
  /\ top' = RootAfterPush(heap, top, NewEntry(a))

(* A mutant of ReplaceWorst: the heap is not normalised.                   *)
ReplaceWorstLazily(a) ==
  /\ Measure(a)
  /\ a.form \notin Kept
  /\ Cardinality(Kept) >= Limit
  /\ TotalCost(a) < CurrentBest(a)
  /\ live' = With(Without(top.form), NewEntry(a))
  /\ \E t \in (heap \ {top}) \union {NoEntry} :
       /\ IsRoot(heap \ {top}, t)
       /\ heap' = (heap \ {top}) \union {NewEntry(a)}
       /\ top' = RootAfterPush(heap \ {top}, t, NewEntry(a))

(* The most expensive form makes room.  The new entry is cheaper than the  *)
(* popped one, but not always than the new root.                           *)
ReplaceWorst(a) ==
  /\ Measure(a)
  /\ a.form \notin Kept
  /\ Cardinality(Kept) >= Limit
  /\ TotalCost(a) < CurrentBest(a)
  /\ live' = With(Without(top.form), NewEntry(a))
  /\ \E h \in SUBSET (heap \ {top}) : \E t \in h \union {NoEntry} :
       /\ Normalized(heap \ {top}, Without(top.form), h, t)
       /\ heap' = h \union {NewEntry(a)}
       /\ top' = RootAfterPush(h, t, NewEntry(a))

StartStoring ==
  /\ pc = "measure"
  /\ pc' = "store"
  /\ UNCHANGED <<correction, considered, live, heap, top, chosen>>

(* Mutants of StoreWorst: from the best to the worst, and without the      *)
(* normalisation of the heap.                                              *)
StoreWorstLast ==
  /\ pc = "store"
  /\ Kept # {}
  /\ chosen' = Append(chosen, top.form)
  /\ live' = Without(top.form)
  /\ \E h \in SUBSET (heap \ {top}) : \E t \in h \union {NoEntry} :
       /\ Normalized(heap \ {top}, live', h, t)
       /\ heap' = h
       /\ top' = t
  /\ UNCHANGED <<correction, considered, pc>>

(* alternatives[i - 1] is the form at the root; the heap is normalised     *)
(* unless this was the last form.                                          *)
StoreWorst ==
  /\ pc = "store"
  /\ Kept # {}
  /\ chosen' = <<top.form>> \o chosen
  /\ live' = Without(top.form)
  /\ \E h \in SUBSET (heap \ {top}) : \E t \in h \union {NoEntry} :
       /\ IF Cardinality(Kept) > 1
            THEN Normalized(heap \ {top}, live', h, t)
            ELSE h = heap \ {top} /\ IsRoot(h, t)
       /\ heap' = h
       /\ top' = t
  /\ UNCHANGED <<correction, considered, pc>>

(* The next token of the sentence that needs a correction: the map and the *)
(* heap are not cleared.                                                   *)
NextToken ==
  /\ pc = "store"
  /\ Kept = {}
  /\ correction' \in Form
  /\ considered' = <<>>
  /\ chosen' = <<>>
  /\ pc' = "measure"
  /\ UNCHANGED <<live, heap, top>>

Consider(a) ==
  \/ SkipCorrection(a)
  \/ Abandon(a)
  \/ NotBetter(a)
  \/ LowerCost(a)
  \/ AddForm(a)
  \/ ReplaceWorst(a)

Next ==
  \/ \E a \in Analyses : Consider(a)
  \/ StartStoring
  \/ StoreWorst
  \/ NextToken

Spec == Init /\ [][Next]_vars

-----------------------------------------------------------------------------

Entries == [form : Form, cost : Int, index : Nat]

(* The types, and that the map never outgrows the number of alternatives   *)
(* asked for.                                                              *)
TypeOK ==
  /\ correction \in Form
  /\ considered \in Seq(Analyses)
  /\ Kept \subseteq Form
  /\ \A f \in Kept : live[f] \in Entries
  /\ heap \subseteq Entries
  /\ top \in Entries \union {NoEntry}
  /\ chosen \in Seq(Form)
  /\ pc \in {"measure", "store"}
  /\ Cardinality(Kept) <= Limit

(* Every entry of the heap belongs to a kept form and is not cheaper than  *)
(* the entry of the map: at() never throws, and no entry survives the      *)
(* eviction of its form.                                                   *)
HeapHoldsKeptForms ==
  \A e \in heap : e.form \in Kept /\ live[e.form].cost <= e.cost

(* The root of the heap is the current entry of the most expensive kept    *)
(* form.  So the bound for new forms is not a stale cost, and the form     *)
(* that is evicted or stored is the right one.                             *)
TopIsWorstKept ==
  /\ Kept = {} <=> heap = {}
  /\ Kept # {} =>
       /\ top.form \in Kept
       /\ top = live[top.form]
       /\ \A f \in Kept : live[f].cost <= top.cost

(* The inductive invariant behind the two: every kept form has its current *)
(* entry in the heap, and all its other entries there are dead, that is,   *)
(* strictly more expensive.                                                *)
EntriesMatch ==
  /\ \A f \in Kept : live[f].form = f /\ live[f] \in heap
  /\ \A e \in heap : live[e.form].cost = e.cost => e = live[e.form]

HeapInv ==
  /\ TypeOK
  /\ HeapHoldsKeptForms
  /\ EntriesMatch
  /\ TopIsWorstKept
  /\ IsRoot(heap, top)

(* What measuring a possibility has to achieve: its form is kept at no     *)
(* greater cost, or there are as many forms that are no more expensive.    *)
Accounted(a) ==
  a.form # correction =>
    IF a.form \in Kept
      THEN live[a.form].cost <= TotalCost(a)
      ELSE /\ Cardinality(Kept) = Limit
           /\ \A f \in Kept : live[f].cost <= TotalCost(a)

(* The map keeps the cheapest forms seen so far at their cheapest cost,    *)
(* although costs are lowered, forms evicted and measurements abandoned    *)
(* midway.  It needs running costs that do not fall (RisingCosts).         *)
KeepsCheapest ==
  pc = "measure" => \A k \in 1 .. Len(considered) : Accounted(considered[k])

Rises(a) == \A k \in 1 .. Len(a.costs) : a.costs[k] <= TotalCost(a)
RisingCosts == \A a \in Analyses : Rises(a)

(***************************************************************************)
(* The reference for the answer: the forms offered besides the correction, *)
(* each at its cheapest cost, cheapest first, as many as asked for.        *)
(***************************************************************************)
Offered == {considered[k].form : k \in 1 .. Len(considered)} \ {correction}

CheapestCost(f) ==
  LET costs == {TotalCost(considered[k]) :
                  k \in {j \in 1 .. Len(considered) : considered[j].form = f}}
  IN  CHOOSE c \in costs : \A d \in costs : c <= d

AreKBest(forms, offered, cost) ==
  /\ Len(forms) = IF Cardinality(offered) < Limit THEN Cardinality(offered) ELSE Limit
  /\ \A k \in 1 .. Len(forms) : forms[k] \in offered
  /\ \A j, k \in 1 .. Len(forms) : j < k =>
       /\ forms[j] # forms[k]
       /\ cost[forms[j]] <= cost[forms[k]]
  /\ \A f \in offered, k \in 1 .. Len(forms) :
       (\A j \in 1 .. Len(forms) : forms[j] # f) => cost[forms[k]] <= cost[f]

(* What the MANUAL promises of the corrections of a word: ordered by       *)
(* probability with the most probable one first.                           *)
StoredAlternativesAreKBest ==
  pc = "store" /\ Kept = {} =>
    AreKBest(chosen, Offered, [f \in Offered |-> CheapestCost(f)])

(* The assertion of spellchecker.cpp:124: nothing is left in the heap for  *)
(* the next token, whose forms would be compared with stale entries.       *)
NothingLeftBehind == pc = "store" /\ Kept = {} => heap = {}

(* The heap with lazy deletion can be relied on in all of the above.       *)
HeapIsSound == HeapHoldsKeptForms /\ TopIsWorstKept /\ NothingLeftBehind
=============================================================================
