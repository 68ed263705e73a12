----------------------------- MODULE ErrorModel -----------------------------
(***************************************************************************)
(* The prices of edit operations (error_model/error_model_basic.cpp).  An  *)
(* operation has an edit distance and a cost; it is listed with the        *)
(* letters it is about, or has the default of its kind.                    *)
(***************************************************************************)
EXTENDS Integers, Sequences, FiniteSetsExt, SequencesExt, TLC

CONSTANTS
  LowerOf,      \* the lower-case letter of every letter
  UpperOf,      \* the upper-case letter of every letter
  BLANK         \* what stands for the end of the word

IsUpper(c) == LowerOf[c] # c
IsLower(c) == UpperOf[c] # c

Price(edit_dist, cost) == [edit_dist |-> edit_dist, cost |-> cost]
Free == Price(0, 0)

MismatchOf(case, price) ==
  Price(price.edit_dist + case.edit_dist, price.cost + case.cost)

(* An entry also holds for the letters in upper case.  The pairs are       *)
(* written one after the other: of letters without an upper case the last  *)
(* write counts.                                                           *)
SubstitutionVariants(case, letters, price) ==
  LET a == letters[1]
      b == letters[2]
      mixed == MismatchOf(case, price)
  IN  (<<a, UpperOf[b]>> :> mixed) @@ (<<UpperOf[a], b>> :> mixed)
        @@ (<<UpperOf[a], UpperOf[b]>> :> price) @@ (<<a, b>> :> price)

Variants(letters) ==
  {spelled \in [DOMAIN letters -> UNION {{c, UpperOf[c]} : c \in Range(letters)}] :
     \A k \in DOMAIN letters : spelled[k] \in {letters[k], UpperOf[letters[k]]}}

AllVariants(letters, price) == [spelled \in Variants(letters) |-> price]

Listed(case, entries, kind) ==
  FoldLeft(LAMBDA map, entry :
             (CASE entry.kind # kind -> <<>>
                [] kind = "s" -> SubstitutionVariants(case, entry.letters, entry.price)
                [] OTHER -> AllVariants(entry.letters, entry.price)) @@ map,
           <<>>, entries)

(* The five defaults come first; the smallest distance of all lines is     *)
(* kept beside them.                                                       *)
BuildErrorModel(defaults, entries) ==
  [defaults |-> defaults,
   listed   |-> [kind \in {"s", "i", "d", "swap"} |->
                   Listed(defaults["case"], entries, kind)],
   minimum  |-> Min({defaults[kind].edit_dist : kind \in DOMAIN defaults}
                      \union {entries[k].price.edit_dist : k \in DOMAIN entries})]

IsListed(model, kind, letters) == letters \in DOMAIN model.listed[kind]

PriceOf(model, kind, letters) ==
  IF IsListed(model, kind, letters) THEN model.listed[kind][letters]
  ELSE model.defaults[kind]

SubstitutionCost(model, char1, char2, ignore_case) ==
  LET a == IF ignore_case THEN LowerOf[char1] ELSE char1
      b == IF ignore_case THEN LowerOf[char2] ELSE char2
  IN  CASE IsListed(model, "s", <<a, b>>) -> model.listed["s"][<<a, b>>]
        [] ~IsListed(model, "s", <<a, b>>) /\ a = b -> Free
        [] ~IsListed(model, "s", <<a, b>>) /\ a # b /\ LowerOf[a] = LowerOf[b] ->
             model.defaults["case"]
        [] OTHER -> model.defaults["s"]

InsertionCost(model, inserted, previous, next) ==
  PriceOf(model, "i", <<inserted, previous, next>>)

SwapCost(model, first, second) == PriceOf(model, "swap", <<first, second>>)

DeletionCost(model, current, previous) == PriceOf(model, "d", <<current, previous>>)

MinOperationEditDistance(model) == model.minimum
=============================================================================
