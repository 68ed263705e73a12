-------------------------- MODULE CorrectionProofs --------------------------
(***************************************************************************)
(* Proofs about the correction of a token.  A search of a lexicon that is  *)
(* a trie finds the words that edits within its limits make of the token,  *)
(* and no others; what is offered comes from the first search that finds   *)
(* anything, and the correction and its alternatives are the cheapest      *)
(* offers, with every analysis of each.                                    *)
(***************************************************************************)
EXTENDS ModelsProofs, SpellcheckToken

-----------------------------------------------------------------------------
(* The search of the lexicon for similar words.                            *)

(* The binary search for an arc, as an equation for a function.            *)
SearchBody(lex, letter, search, part) ==
  LET left     == part[1]
      right    == part[2]
      act      == (left + right) \div 2
      arc_char == lex.arcs_char[act + 1]
  IN  CASE arc_char = letter -> lex.arcs_nextstate[act + 1]
        [] arc_char > letter ->
             IF act \in {left, right} THEN NONE ELSE search[<<left, act>>]
        [] OTHER ->
             CASE left = right -> NONE
               [] left = act /\ right = left + 1 -> search[<<right, right>>]
               [] OTHER -> search[<<act, right>>]

Searches(lex, letter, arcs, search) ==
  search = [part \in arcs \X arcs |-> SearchBody(lex, letter, search, part)]

Apart(left, right) == IF left <= right THEN right - left ELSE left - right

HasChars(lex, arcs) == \A j \in arcs : lex.arcs_char[j + 1] \in Nat

AgreeBelow(n, arcs, f, g) ==
  \A l \in arcs, r \in arcs : Apart(l, r) < n => f[<<l, r>>] = g[<<l, r>>]

(* A call of the search needs calls for parts that are shorter.            *)
LEMMA SearchGoesOn ==
  ASSUME NEW lex, NEW letter \in Nat, NEW first \in Nat, NEW last \in Nat,
         HasChars(lex, first .. last),
         NEW left \in first .. last, NEW right \in first .. last,
         NEW f, NEW g,
         AgreeBelow(Apart(left, right), first .. last, f, g)
  PROVE  SearchBody(lex, letter, f, <<left, right>>) = SearchBody(lex, letter, g, <<left, right>>)
  <1> DEFINE act == (left + right) \div 2
  <1>1. /\ act \in Int /\ 2 * act <= left + right /\ left + right < 2 * act + 2
        /\ left \in Nat /\ right \in Nat
    OBVIOUS
  <1>2. SearchBody(lex, letter, f, <<left, right>>) =
          CASE lex.arcs_char[act + 1] = letter -> lex.arcs_nextstate[act + 1]
            [] lex.arcs_char[act + 1] > letter ->
                 IF act \in {left, right} THEN NONE ELSE f[<<left, act>>]
            [] OTHER ->
                 CASE left = right -> NONE
                   [] left = act /\ right = left + 1 -> f[<<right, right>>]
                   [] OTHER -> f[<<act, right>>]
    BY DEF SearchBody
  <1>3. SearchBody(lex, letter, g, <<left, right>>) =
          CASE lex.arcs_char[act + 1] = letter -> lex.arcs_nextstate[act + 1]
            [] lex.arcs_char[act + 1] > letter ->
                 IF act \in {left, right} THEN NONE ELSE g[<<left, act>>]
            [] OTHER ->
                 CASE left = right -> NONE
                   [] left = act /\ right = left + 1 -> g[<<right, right>>]
                   [] OTHER -> g[<<act, right>>]
    BY DEF SearchBody
  <1> HIDE DEF act
  <1>4. act \in first .. last
    BY <1>1
  <1>5. act \notin {left, right} => f[<<left, act>>] = g[<<left, act>>]
    <2> SUFFICES ASSUME act \notin {left, right} PROVE f[<<left, act>>] = g[<<left, act>>]
      OBVIOUS
    <2>1. Apart(left, act) < Apart(left, right)
      BY <1>1 DEF Apart
    <2> QED BY <1>4, <2>1 DEF AgreeBelow
  <1>6. left = act /\ right = left + 1 => f[<<right, right>>] = g[<<right, right>>]
    <2> SUFFICES ASSUME right = left + 1 PROVE f[<<right, right>>] = g[<<right, right>>]
      OBVIOUS
    <2>1. Apart(right, right) < Apart(left, right)
      BY <1>1 DEF Apart
    <2> QED BY <2>1 DEF AgreeBelow
  <1>7. left # right /\ ~(left = act /\ right = left + 1) => f[<<act, right>>] = g[<<act, right>>]
    <2> SUFFICES ASSUME left # right, ~(left = act /\ right = left + 1)
                 PROVE  f[<<act, right>>] = g[<<act, right>>]
      OBVIOUS
    <2>1. Apart(act, right) < Apart(left, right)
      BY <1>1 DEF Apart
    <2> QED BY <1>4, <2>1 DEF AgreeBelow
  <1>8. lex.arcs_char[act + 1] \in Nat
    BY <1>4 DEF HasChars
  <1>9. CASE lex.arcs_char[act + 1] = letter
    BY <1>2, <1>3, <1>9
  <1>10. CASE lex.arcs_char[act + 1] > letter
    BY <1>2, <1>3, <1>5, <1>8, <1>10
  <1>11. CASE lex.arcs_char[act + 1] < letter
    BY <1>2, <1>3, <1>6, <1>7, <1>8, <1>11
  <1> QED BY <1>8, <1>9, <1>10, <1>11

LEMMA SearchExists ==
  ASSUME NEW lex, NEW letter \in Nat, NEW first \in Nat, NEW last \in Nat,
         HasChars(lex, first .. last)
  PROVE  \E search : Searches(lex, letter, first .. last, search)
  <1> DEFINE arcs == first .. last
             Good(n, f) ==
               /\ f = [part \in arcs \X arcs |-> f[part]]
               /\ \A left \in arcs, right \in arcs :
                    Apart(left, right) < n =>
                      f[<<left, right>>] = SearchBody(lex, letter, f, <<left, right>>)
             without == {n \in Nat : ~\E f : Good(n, f)}
  <1>1. without = {}
    <2> SUFFICES ASSUME without # {} PROVE FALSE
      OBVIOUS
    <2>1. PICK n \in without : \A k \in without : n <= k
      <3>1. without \in SUBSET Nat
        OBVIOUS
      <3> HIDE DEF without
      <3> QED BY <3>1, LeastExists
    <2>2. n # 0
      <3>1. Good(0, [part \in arcs \X arcs |-> NONE])
        <4>1. ASSUME NEW left \in arcs, NEW right \in arcs, Apart(left, right) < 0
              PROVE  FALSE
          BY <4>1 DEF Apart
        <4> QED BY <4>1
      <3> HIDE DEF Good
      <3> QED BY <2>1, <3>1
    <2>3. PICK f : Good(n - 1, f)
      <3>1. n \in Nat /\ n - 1 \in Nat /\ n - 1 < n
        BY <2>1, <2>2
      <3>2. n - 1 \notin without
        <4> HIDE DEF without
        <4> QED BY <2>1, <3>1
      <3> HIDE DEF Good
      <3> QED BY <3>1, <3>2
    <2> DEFINE g == [part \in arcs \X arcs |-> SearchBody(lex, letter, f, part)]
    <2>4. ASSUME NEW left \in arcs, NEW right \in arcs
          PROVE  g[<<left, right>>] = SearchBody(lex, letter, f, <<left, right>>)
      OBVIOUS
    <2>5. g = [part \in arcs \X arcs |-> g[part]]
      OBVIOUS
    <2> HIDE DEF g
    <2>6. ASSUME NEW left \in arcs, NEW right \in arcs, Apart(left, right) < n - 1
          PROVE  f[<<left, right>>] = g[<<left, right>>]
      BY <2>3, <2>4, <2>6
    <2>7. ASSUME NEW left \in arcs, NEW right \in arcs, Apart(left, right) < n
          PROVE  g[<<left, right>>] = SearchBody(lex, letter, g, <<left, right>>)
      <3>1. ASSUME NEW l \in arcs, NEW r \in arcs, Apart(l, r) < Apart(left, right)
            PROVE  f[<<l, r>>] = g[<<l, r>>]
        <4>1. Apart(l, r) \in Int /\ Apart(left, right) \in Int
          BY DEF Apart
        <4>2. Apart(l, r) < n - 1
          BY <2>1, <2>7, <3>1, <4>1
        <4> QED BY <2>6, <4>2
      <3>2. AgreeBelow(Apart(left, right), first .. last, f, g)
        BY <3>1 DEF AgreeBelow
      <3>3. SearchBody(lex, letter, f, <<left, right>>)
              = SearchBody(lex, letter, g, <<left, right>>)
        <4>1. left \in first .. last /\ right \in first .. last
          OBVIOUS
        <4> HIDE DEF Good, without, arcs
        <4> QED BY <3>2, <4>1, SearchGoesOn
      <3> QED BY <2>4, <3>3
    <2>8. Good(n, g)
      BY <2>5, <2>7
    <2> HIDE DEF Good
    <2> QED BY <2>1, <2>8
  <1> DEFINE size == IF first <= last THEN last - first + 1 ELSE 0
  <1>2. size \in Nat
    OBVIOUS
  <1>3. PICK f : Good(size, f)
    <2> HIDE DEF Good, size
    <2> QED BY <1>1, <1>2
  <1>4. ASSUME NEW left \in arcs, NEW right \in arcs
        PROVE  f[<<left, right>>] = SearchBody(lex, letter, f, <<left, right>>)
    <2>1. Apart(left, right) < size
      BY DEF Apart
    <2> HIDE DEF size
    <2> QED BY <1>3, <2>1
  <1>5. f = [part \in arcs \X arcs |-> SearchBody(lex, letter, f, part)]
    <2>1. ASSUME NEW part \in arcs \X arcs
          PROVE  f[part] = SearchBody(lex, letter, f, part)
      <3>1. part = <<part[1], part[2]>> /\ part[1] \in arcs /\ part[2] \in arcs
        OBVIOUS
      <3> HIDE DEF arcs
      <3>2. f[<<part[1], part[2]>>] = SearchBody(lex, letter, f, <<part[1], part[2]>>)
        BY <1>4, <3>1
      <3> QED BY <3>1, <3>2
    <2>2. f = [part \in arcs \X arcs |-> f[part]]
      BY <1>3
    <2> QED BY <2>1, <2>2
  <1> QED BY <1>5 DEF Searches

AreSorted(lex, arcs) ==
  \A j, k \in arcs : j < k => lex.arcs_char[j + 1] < lex.arcs_char[k + 1]

IsAmong(lex, letter, left, right, next) ==
  \/ next = NONE /\ \A j \in left .. right : lex.arcs_char[j + 1] # letter
  \/ \E j \in left .. right :
       lex.arcs_char[j + 1] = letter /\ next = lex.arcs_nextstate[j + 1]

(* It finds the arc with a letter wherever there is one.                   *)
LEMMA SearchFinds ==
  ASSUME NEW lex, NEW letter \in Nat, NEW first \in Nat, NEW last \in Nat,
         HasChars(lex, first .. last),
         AreSorted(lex, first .. last),
         NEW search, Searches(lex, letter, first .. last, search)
  PROVE  \A left \in first .. last, right \in first .. last : left <= right =>
           IsAmong(lex, letter, left, right, search[<<left, right>>])
  <1> DEFINE arcs == first .. last
             char(j) == lex.arcs_char[j + 1]
             target(j) == lex.arcs_nextstate[j + 1]
             Right(left, right) ==
               \/ /\ search[<<left, right>>] = NONE
                  /\ \A j \in left .. right : char(j) # letter
               \/ \E j \in left .. right :
                    char(j) = letter /\ search[<<left, right>>] = target(j)
             wrong == {n \in Nat : \E left \in arcs, right \in arcs :
                         left <= right /\ right - left = n /\ ~Right(left, right)}
  <1> SUFFICES \A left \in arcs, right \in arcs : left <= right => Right(left, right)
    BY DEF IsAmong
  <1> SUFFICES wrong = {}
    <2> SUFFICES ASSUME NEW left \in arcs, NEW right \in arcs, left <= right,
                        ~Right(left, right)
                 PROVE  FALSE
      OBVIOUS
    <2>1. right - left \in Nat
      OBVIOUS
    <2> HIDE DEF Right
    <2> QED BY <2>1
  <1> SUFFICES ASSUME wrong # {} PROVE FALSE
    OBVIOUS
  <1>1. PICK n \in wrong : \A k \in wrong : n <= k
    <2>1. wrong \in SUBSET Nat
      OBVIOUS
    <2> HIDE DEF wrong
    <2> QED BY <2>1, LeastExists
  <1>2. PICK left \in arcs, right \in arcs :
          left <= right /\ right - left = n /\ ~Right(left, right)
    <2> HIDE DEF Right
    <2> QED BY <1>1
  <1>3. ASSUME NEW l \in arcs, NEW r \in arcs, l <= r, r - l < n
        PROVE  Right(l, r)
    <2>1. r - l \in Nat /\ ~(n <= r - l)
      BY <1>1, <1>3
    <2> HIDE DEF Right
    <2> QED BY <1>1, <1>3, <2>1
  <1> DEFINE act == (left + right) \div 2
  <1>4. /\ act \in Int /\ 2 * act <= left + right /\ left + right < 2 * act + 2
        /\ left \in Nat /\ right \in Nat /\ n \in Nat
    BY <1>1
  <1>5. search[<<left, right>>] =
          CASE char(act) = letter -> target(act)
            [] char(act) > letter ->
                 IF act \in {left, right} THEN NONE ELSE search[<<left, act>>]
            [] OTHER ->
                 CASE left = right -> NONE
                   [] left = act /\ right = left + 1 -> search[<<right, right>>]
                   [] OTHER -> search[<<act, right>>]
    <2>1. search[<<left, right>>] = SearchBody(lex, letter, search, <<left, right>>)
      BY DEF Searches
    <2> QED BY <2>1 DEF SearchBody
  <1> HIDE DEF act
  <1>6. act \in arcs /\ left <= act /\ act <= right /\ char(act) \in Nat
    <2>1. left <= act /\ act <= right
      BY <1>2, <1>4
    <2>2. act \in first .. last
      BY <1>4, <2>1
    <2> QED BY <2>1, <2>2 DEF HasChars
  <1>7. \A j, k \in arcs : j < k => char(j) < char(k)
    BY DEF AreSorted
  <1>8. \A j \in arcs : char(j) \in Nat
    BY DEF HasChars
  <1>9. \A j \in left .. right : j \in arcs
    OBVIOUS
  <1> HIDE DEF char, target
  <1>10. CASE char(act) = letter
    <2>1. search[<<left, right>>] = target(act)
      BY <1>5, <1>10
    <2> QED BY <1>2, <1>4, <1>6, <1>10, <2>1
  <1>11. CASE char(act) > letter
    <2>1. \A j \in left .. right : j >= act => char(j) # letter
      BY <1>4, <1>6, <1>7, <1>8, <1>9, <1>11
    <2>2. CASE act \in {left, right}
      <3>1. search[<<left, right>>] = NONE
        BY <1>5, <1>6, <1>11, <2>2
      <3>2. \A j \in left .. right : j >= act
        BY <1>2, <1>4, <2>2
      <3> QED BY <1>2, <2>1, <3>1, <3>2
    <2>3. CASE act \notin {left, right}
      <3>1. search[<<left, right>>] = search[<<left, act>>]
        BY <1>5, <1>6, <1>11, <2>3
      <3>2. Right(left, act)
        <4>1. act - left < n
          BY <1>2, <1>4, <1>6, <2>3
        <4> HIDE DEF Right
        <4> QED BY <1>3, <1>6, <4>1
      <3>3. CASE search[<<left, act>>] = NONE /\ \A j \in left .. act : char(j) # letter
        <4>1. ASSUME NEW j \in left .. right PROVE char(j) # letter
          <5>1. j \in left .. act \/ j >= act
            BY <1>4, <1>6
          <5> QED BY <2>1, <3>3, <5>1
        <4> QED BY <1>2, <3>1, <3>3, <4>1
      <3>4. CASE \E j \in left .. act : char(j) = letter /\ search[<<left, act>>] = target(j)
        <4>1. \A j \in left .. act : j \in left .. right
          BY <1>4, <1>6
        <4> QED BY <1>2, <3>1, <3>4, <4>1
      <3> QED BY <3>2, <3>3, <3>4
    <2> QED BY <2>2, <2>3
  <1>12. CASE char(act) < letter
    <2>1. \A j \in left .. right : j <= act => char(j) # letter
      BY <1>4, <1>6, <1>7, <1>8, <1>9, <1>12
    <2>2. CASE left = right
      <3>1. search[<<left, right>>] = NONE
        BY <1>5, <1>6, <1>12, <2>2
      <3>2. \A j \in left .. right : j <= act
        BY <1>4, <1>6, <2>2
      <3> QED BY <1>2, <2>1, <3>1, <3>2
    <2> DEFINE from == IF left = act /\ right = left + 1 THEN right ELSE act
    <2>3. CASE left # right
      <3>1. search[<<left, right>>] = search[<<from, right>>]
        <4>1. ~(char(act) = letter) /\ ~(char(act) > letter)
          BY <1>6, <1>12
        <4>2. CASE left = act /\ right = left + 1
          BY <1>5, <1>12, <2>3, <4>1, <4>2
        <4>3. CASE ~(left = act /\ right = left + 1)
          BY <1>5, <1>12, <2>3, <4>1, <4>3
        <4> QED BY <4>2, <4>3
      <3>2. /\ from \in arcs /\ from \in left .. right
            /\ \A j \in left .. right : j <= act \/ j \in from .. right
            /\ right - from < n
        BY <1>2, <1>4, <1>6, <2>3
      <3> HIDE DEF from
      <3>3. Right(from, right)
        <4>1. from <= right
          BY <1>4, <3>2
        <4> HIDE DEF Right
        <4> QED BY <1>3, <3>2, <4>1
      <3>4. CASE search[<<from, right>>] = NONE /\ \A j \in from .. right : char(j) # letter
        BY <1>2, <2>1, <3>1, <3>2, <3>4
      <3>5. CASE \E j \in from .. right : char(j) = letter /\ search[<<from, right>>] = target(j)
        <4>1. \A j \in from .. right : j \in left .. right
          BY <1>4, <3>2
        <4> QED BY <1>2, <3>1, <3>5, <4>1
      <3> QED BY <3>3, <3>4, <3>5
    <2> QED BY <2>2, <2>3
  <1> QED BY <1>6, <1>10, <1>11, <1>12

(* Where a spelling leads: to its node, if it is one.                      *)
LeadsTo(nodes, s, next) ==
  \/ next = NONE /\ ~IsNode(nodes, s)
  \/ next \in States(nodes) /\ nodes[next + 1] = s

LEMMA SingleArcFinds ==
  ASSUME NEW lex, NEW words, NEW nodes, IsTrie(lex, words, nodes),
         NEW state \in States(nodes), NEW letter \in Nat
  PROVE  LeadsTo(nodes, Append(nodes[state + 1], letter), SingleArc(lex, state, letter))
  <1> DEFINE pair == FirstLastIndexPair(lex, state)
             arcs == pair[1] .. pair[2]
             searched == CHOOSE search : Searches(lex, letter, arcs, search)
  <1>1. SingleArc(lex, state, letter) = IF arcs = {} THEN NONE ELSE searched[pair]
    BY DEF SingleArc, Searches, SearchBody
  <1>2. pair = <<pair[1], pair[2]>>
    BY DEF FirstLastIndexPair
  <1>3. /\ pair[1] \in Nat /\ pair[2] \in Nat /\ pair[1] <= pair[2] + 1
        /\ \A j \in arcs :
             /\ CharOf(lex, j) \in Nat /\ TargetOf(lex, j) \in States(nodes)
             /\ nodes[TargetOf(lex, j) + 1] = Append(nodes[state + 1], CharOf(lex, j))
        /\ IsNode(nodes, Append(nodes[state + 1], letter)) =>
             \E j \in arcs : CharOf(lex, j) = letter
        /\ \A j, k \in arcs : j < k => CharOf(lex, j) < CharOf(lex, k)
    BY ArcFacts DEF ArcsFrom
  <1> HIDE DEF pair
  <1>4. HasChars(lex, arcs)
    BY <1>3 DEF HasChars, CharOf
  <1>5. Searches(lex, letter, arcs, searched)
    BY <1>3, <1>4, SearchExists
  <1>6. CASE arcs = {}
    BY <1>1, <1>3, <1>6 DEF LeadsTo
  <1>7. CASE arcs # {}
    <2>1. pair[1] \in arcs /\ pair[2] \in arcs /\ pair[1] <= pair[2]
      BY <1>3, <1>7
    <2>2. AreSorted(lex, arcs)
      BY <1>3 DEF CharOf, AreSorted
    <2> HIDE DEF searched
    <2>3. \A left \in arcs, right \in arcs : left <= right =>
            IsAmong(lex, letter, left, right, searched[<<left, right>>])
      BY <1>3, <1>4, <1>5, <2>2, SearchFinds
    <2>4. \/ /\ searched[pair] = NONE
             /\ \A j \in arcs : CharOf(lex, j) # letter
          \/ \E j \in arcs : CharOf(lex, j) = letter /\ searched[pair] = TargetOf(lex, j)
      BY <1>2, <2>1, <2>3 DEF CharOf, TargetOf, IsAmong
    <2> QED BY <1>1, <1>3, <1>7, <2>4 DEF LeadsTo
  <1> QED BY <1>6, <1>7

LEMMA AppendLater ==
  ASSUME NEW x \in Seq(Nat), NEW y \in Seq(Nat), NEW z \in Seq(Nat)
  PROVE  (x \o y) \o z = x \o (y \o z)
  <1> DEFINE left == (x \o y) \o z
             right == x \o (y \o z)
  <1>1. Len(x) \in Nat /\ Len(y) \in Nat /\ Len(z) \in Nat
    OBVIOUS
  <1>2. /\ x \o y \in Seq(Nat) /\ Len(x \o y) = Len(x) + Len(y)
        /\ y \o z \in Seq(Nat) /\ Len(y \o z) = Len(y) + Len(z)
    BY ConcatProperties
  <1>3. /\ left \in Seq(Nat) /\ Len(left) = Len(x) + Len(y) + Len(z)
        /\ right \in Seq(Nat) /\ Len(right) = Len(x) + Len(y) + Len(z)
    BY <1>1, <1>2
  <1>4. ASSUME NEW k \in 1 .. Len(left)
        PROVE  left[k] = right[k]
    <2>1. k \in 1 .. Len(x) + Len(y) + Len(z)
      BY <1>3
    <2>2. CASE k <= Len(x)
      <3>1. k \in 1 .. Len(x) /\ k \in 1 .. Len(x \o y)
        BY <1>1, <1>2, <2>1, <2>2
      <3>2. left[k] = (x \o y)[k] /\ (x \o y)[k] = x[k]
        BY <1>2, <3>1, ConcatProperties
      <3>3. right[k] = x[k]
        BY <1>2, <3>1, ConcatProperties
      <3> QED BY <3>2, <3>3
    <2>3. CASE Len(x) < k /\ k <= Len(x) + Len(y)
      <3>1. k \in 1 .. Len(x \o y) /\ k - Len(x) \in 1 .. Len(y)
            /\ k \in Len(x) + 1 .. Len(x) + Len(y)
            /\ k \in Len(x) + 1 .. Len(x) + Len(y \o z)
        BY <1>1, <1>2, <2>1, <2>3
      <3>2. left[k] = (x \o y)[k] /\ (x \o y)[k] = y[k - Len(x)]
        BY <1>2, <3>1, ConcatProperties
      <3>3. right[k] = (y \o z)[k - Len(x)] /\ (y \o z)[k - Len(x)] = y[k - Len(x)]
        BY <1>2, <3>1, ConcatProperties
      <3> QED BY <3>2, <3>3
    <2>4. CASE Len(x) + Len(y) < k
      <3>1. k \in Len(x \o y) + 1 .. Len(x \o y) + Len(z)
            /\ k \in Len(x) + 1 .. Len(x) + Len(y \o z)
            /\ k - Len(x) \in Len(y) + 1 .. Len(y) + Len(z)
            /\ k - Len(x \o y) = (k - Len(x)) - Len(y)
        BY <1>1, <1>2, <2>1, <2>4
      <3>2. left[k] = z[k - Len(x \o y)]
        BY <1>2, <3>1, ConcatProperties
      <3>3. right[k] = (y \o z)[k - Len(x)] /\ (y \o z)[k - Len(x)] = z[(k - Len(x)) - Len(y)]
        BY <1>2, <3>1, ConcatProperties
      <3> QED BY <3>1, <3>2, <3>3
    <2>5. \/ k <= Len(x)
          \/ Len(x) < k /\ k <= Len(x) + Len(y)
          \/ Len(x) + Len(y) < k
      BY <1>1, <2>1
    <2> HIDE DEF left, right
    <2> QED BY <2>2, <2>3, <2>4, <2>5
  <1> HIDE DEF left, right
  <1>5. left = right
    BY <1>3, <1>4, SeqEqual
  <1> QED BY <1>5 DEF left, right

-----------------------------------------------------------------------------
(* The rest of a word.                                                     *)
SuffixBody(lex, state, w, start, at, k) ==
  IF k = start THEN state
  ELSE IF at[k - 1] = NONE THEN NONE ELSE SingleArc(lex, at[k - 1], w[k])

StatesFollowed(lex, state, w, start, n, at) ==
  at = [k \in start .. n |-> SuffixBody(lex, state, w, start, at, k)]

LEMMA SuffixesExist ==
  ASSUME NEW lex, NEW state, NEW w, NEW start \in Nat, NEW end \in Nat, start <= end
  PROVE  \E at : StatesFollowed(lex, state, w, start, end, at)
  <1> DEFINE without == {k \in Nat : start <= k /\ ~\E at : StatesFollowed(lex, state, w, start, k, at)}
  <1> SUFFICES ASSUME without # {} PROVE FALSE
    OBVIOUS
  <1>1. PICK n \in without : \A k \in without : n <= k
    <2>1. without \in SUBSET Nat
      OBVIOUS
    <2> HIDE DEF without
    <2> QED BY <2>1, LeastExists
  <1>2. n \in Nat /\ start <= n /\ ~\E at : StatesFollowed(lex, state, w, start, n, at)
    BY <1>1
  <1>3. n # start
    <2>1. StatesFollowed(lex, state, w, start, start, [k \in start .. start |-> state])
      BY DEF StatesFollowed, SuffixBody
    <2> QED BY <1>2, <2>1
  <1>4. PICK shorter : StatesFollowed(lex, state, w, start, n - 1, shorter)
    <2>1. n - 1 \in Nat /\ n - 1 < n /\ start <= n - 1
      BY <1>2, <1>3
    <2>2. n - 1 \notin without
      BY <1>1, <2>1
    <2> QED BY <2>1, <2>2
  <1> DEFINE longer == [k \in start .. n |-> SuffixBody(lex, state, w, start, shorter, k)]
  <1>5. ASSUME NEW k \in start .. n - 1
        PROVE  longer[k] = shorter[k]
    <2>1. shorter[k] = SuffixBody(lex, state, w, start, shorter, k)
      BY <1>4 DEF StatesFollowed
    <2>2. k \in start .. n
      BY <1>2
    <2> QED BY <2>1, <2>2
  <1>6. ASSUME NEW k \in start .. n
        PROVE  SuffixBody(lex, state, w, start, shorter, k)
                 = SuffixBody(lex, state, w, start, longer, k)
    <2> HIDE DEF longer
    <2>1. k # start => k - 1 \in start .. n - 1
      BY <1>2
    <2>2. k # start => longer[k - 1] = shorter[k - 1]
      BY <1>5, <2>1
    <2> QED BY <2>2 DEF SuffixBody
  <1>7. StatesFollowed(lex, state, w, start, n, longer)
    BY <1>6 DEF StatesFollowed
  <1> QED BY <1>2, <1>7

(* From a node, what is read leads to the node that it spells.             *)
LEMMA SuffixesAreRead ==
  ASSUME NEW lex, NEW words, NEW nodes, IsTrie(lex, words, nodes),
         NEW state \in States(nodes), NEW w \in Seq(Nat), NEW start \in 0 .. Len(w),
         NEW at, StatesFollowed(lex, state, w, start, Len(w), at)
  PROVE  \A k \in start .. Len(w) :
           LeadsTo(nodes, nodes[state + 1] \o SubSeq(w, start + 1, k), at[k])
  <1> DEFINE Spelled(k) == nodes[state + 1] \o SubSeq(w, start + 1, k)
             Right(k) == LeadsTo(nodes, Spelled(k), at[k])
             wrong == {k \in Nat : k \in start .. Len(w) /\ ~Right(k)}
  <1> SUFFICES ASSUME wrong # {} PROVE FALSE
    <2>1. Len(w) \in Nat
      BY LenProperties
    <2> HIDE DEF Right
    <2>2. \A k \in start .. Len(w) : Right(k)
      BY <2>1
    <2> QED BY <2>2 DEF Right
  <1>1. PICK k \in wrong : \A m \in wrong : k <= m
    <2>1. wrong \in SUBSET Nat
      OBVIOUS
    <2> HIDE DEF wrong
    <2> QED BY <2>1, LeastExists
  <1>2. Len(w) \in Nat /\ k \in Nat /\ k \in start .. Len(w) /\ ~Right(k)
    <2> HIDE DEF Right
    <2> QED BY <1>1, LenProperties
  <1>3. at[k] = SuffixBody(lex, state, w, start, at, k)
    BY <1>2 DEF StatesFollowed
  <1>4. nodes[state + 1] \in Seq(Nat) /\ DOMAIN nodes = 1 .. Len(nodes) /\ Len(nodes) \in Nat
    BY TrieFacts DEF States
  <1>5. CASE k = start
    <2>1. at[k] = state
      BY <1>3, <1>5 DEF SuffixBody
    <2>2. SubSeq(w, start + 1, k) = <<>>
      BY <1>2, <1>5, SubSeqEmpty
    <2>3. Spelled(k) = nodes[state + 1]
      BY <1>4, <2>2, ConcatEmptySeq
    <2> HIDE DEF Spelled
    <2> QED BY <1>2, <2>1, <2>3 DEF LeadsTo
  <1>6. CASE k # start
    <2>1. k - 1 \in start .. Len(w) /\ k \in 1 .. Len(w) /\ start + 1 \in 1 .. Len(w)
          /\ k \in start + 1 .. Len(w) /\ k - 1 \in Nat /\ k - 1 < k
      BY <1>2, <1>6
    <2>2. Right(k - 1)
      <3> HIDE DEF Right
      <3> QED BY <1>1, <2>1
    <2>3. w[k] \in Nat
      BY <2>1, ElementOfSeq
    <2>4. /\ SubSeq(w, start + 1, k) = SubSeq(w, start + 1, k - 1) \o <<w[k]>>
          /\ SubSeq(w, start + 1, k - 1) \in Seq(Nat)
      <3>1. \A m \in start + 1 .. k - 1 : w[m] \in Nat
        BY <1>2, <2>1, ElementOfSeq
      <3>2. SubSeq(w, start + 1, k - 1) \in Seq(Nat)
        BY <1>2, <2>1, <3>1, SubSeqProperties
      <3>3. SubSeq(w, start + 1, k) = SubSeq(w, start + 1, k - 1) \o <<w[k]>>
        BY <2>1, SubSeqRecursiveSecond
      <3> QED BY <3>2, <3>3
    <2>5. Spelled(k - 1) \in Seq(Nat) /\ Spelled(k) = Append(Spelled(k - 1), w[k])
      <3>1. <<w[k]>> \in Seq(Nat)
        BY <2>3
      <3>2. Spelled(k) = Spelled(k - 1) \o <<w[k]>>
        <4> DEFINE x == nodes[state + 1]
                   y == SubSeq(w, start + 1, k - 1)
                   z == <<w[k]>>
        <4>1. x \in Seq(Nat) /\ y \in Seq(Nat) /\ z \in Seq(Nat)
          BY <1>4, <2>4, <3>1
        <4>2. Spelled(k) = x \o (y \o z) /\ Spelled(k - 1) = x \o y
          BY <2>4
        <4> HIDE DEF x, y, z, Spelled
        <4>3. (x \o y) \o z = x \o (y \o z)
          BY <4>1, AppendLater
        <4>4. z = <<w[k]>>
          BY DEF z
        <4> QED BY <4>2, <4>3, <4>4
      <3>3. Spelled(k - 1) \in Seq(Nat)
        BY <1>4, <2>4, ConcatProperties
      <3> HIDE DEF Spelled
      <3> QED BY <2>3, <3>2, <3>3, AppendIsConcat
    <2> HIDE DEF Spelled
    <2>6. CASE at[k - 1] = NONE
      <3>1. at[k] = NONE
        BY <1>3, <1>6, <2>6 DEF SuffixBody
      <3>2. ~IsNode(nodes, Spelled(k - 1))
        BY <2>2, <2>6 DEF States, NONE, LeadsTo
      <3>3. ~IsNode(nodes, Spelled(k))
        BY <2>3, <2>5, <3>2, BeginningsOfNodes
      <3> QED BY <1>2, <3>1, <3>3 DEF LeadsTo
    <2>7. CASE at[k - 1] # NONE
      <3>1. at[k] = SingleArc(lex, at[k - 1], w[k])
        BY <1>3, <1>6, <2>7 DEF SuffixBody
      <3>2. at[k - 1] \in States(nodes) /\ nodes[at[k - 1] + 1] = Spelled(k - 1)
        BY <2>2, <2>7 DEF LeadsTo
      <3>3. LeadsTo(nodes, Spelled(k), at[k])
        BY <2>3, <2>5, <3>1, <3>2, SingleArcFinds
      <3> QED BY <1>2, <3>3
    <2> QED BY <2>6, <2>7
  <1> QED BY <1>5, <1>6

IsWordId(words, id, s) == id \in 0 .. Len(words) - 1 /\ words[id + 1] = s

LEMMA ContainsSuffixFinds ==
  ASSUME NEW lex, NEW words, NEW nodes, IsTrie(lex, words, nodes),
         NEW state \in States(nodes), NEW w \in Seq(Nat), NEW start \in 0 .. Len(w)
  PROVE  LET id == ContainsSuffix(lex, state, w, start)
             s  == nodes[state + 1] \o SubSeq(w, start + 1, Len(w))
         IN  \/ id = NONE /\ s \notin Range(words)
             \/ IsWordId(words, id, s)
  <1> DEFINE at == CHOOSE f : StatesFollowed(lex, state, w, start, Len(w), f)
             end == at[Len(w)]
             s == nodes[state + 1] \o SubSeq(w, start + 1, Len(w))
  <1>1. ContainsSuffix(lex, state, w, start)
          = IF end # NONE /\ end < lex.root_id THEN end ELSE NONE
    BY DEF ContainsSuffix, StatesFollowed, SuffixBody, StateIsWord
  <1>2. Len(w) \in Nat /\ start <= Len(w) /\ start \in Nat /\ Len(w) \in start .. Len(w)
    BY LenProperties
  <1>3. StatesFollowed(lex, state, w, start, Len(w), at)
    BY <1>2, SuffixesExist
  <1> HIDE DEF at
  <1>4. \A k \in start .. Len(w) :
          LeadsTo(nodes, nodes[state + 1] \o SubSeq(w, start + 1, k), at[k])
    BY <1>3, SuffixesAreRead
  <1>5. \/ end = NONE /\ ~IsNode(nodes, s)
        \/ end \in States(nodes) /\ nodes[end + 1] = s
    BY <1>2, <1>4 DEF LeadsTo
  <1> HIDE DEF end, s
  <1>6. /\ lex.root_id = Len(words) /\ Len(words) \in Nat /\ Len(nodes) \in Nat
        /\ Len(words) < Len(nodes)
        /\ DOMAIN words = 1 .. Len(words) /\ DOMAIN nodes = 1 .. Len(nodes)
        /\ \A k \in 1 .. Len(words) : nodes[k] = words[k]
        /\ \A k, m \in 1 .. Len(nodes) : nodes[k] = nodes[m] => k = m
    BY TrieFacts
  <1>7. ASSUME NEW k \in DOMAIN words, words[k] = s
        PROVE  end = k - 1
    <2>1. k \in 1 .. Len(nodes) /\ nodes[k] = s
      BY <1>6, <1>7
    <2>2. IsNode(nodes, s)
      BY <1>6, <2>1 DEF IsNode
    <2>3. end \in States(nodes) /\ nodes[end + 1] = s
      BY <1>5, <2>2
    <2>4. end + 1 \in 1 .. Len(nodes)
      BY <1>6, <2>3 DEF States
    <2>5. end + 1 = k
      BY <1>6, <2>1, <2>3, <2>4
    <2> QED BY <2>3, <2>5 DEF States
  <1>8. CASE end # NONE /\ end < lex.root_id
    <2>1. end \in 0 .. Len(words) - 1 /\ nodes[end + 1] = s /\ end + 1 \in 1 .. Len(words)
      BY <1>5, <1>6, <1>8 DEF States
    <2> QED BY <1>1, <1>6, <1>8, <2>1 DEF IsWordId, s
  <1>9. CASE ~(end # NONE /\ end < lex.root_id)
    <2>1. s \notin Range(words)
      <3> SUFFICES ASSUME NEW k \in DOMAIN words, words[k] = s PROVE FALSE
        BY DEF Range
      <3>1. end = k - 1 /\ k - 1 \in Nat /\ k - 1 < lex.root_id
        BY <1>6, <1>7
      <3> QED BY <1>9, <3>1 DEF NONE
    <2> QED BY <1>1, <1>9, <2>1 DEF s
  <1> QED BY <1>8, <1>9

(* A search: a trie with its words and nodes, the prices and the limits,   *)
(* and the spelling it is for.                                             *)
SwapsCost(model) ==
  /\ model.defaults["swap"].edit_dist > 0
  /\ \A letters \in DOMAIN model.listed["swap"] : model.listed["swap"][letters].edit_dist > 0

IsSearch(g) ==
  /\ IsTrie(g.lex, g.words, g.nodes)
  /\ ArePrices(g.model) /\ SwapsCost(g.model)
  /\ g.limits.max_edit_distance \in Nat /\ g.limits.cost_limit \in Nat
  /\ g.limits.ignore_case => g.model.minimum = 0
  /\ g.str \in Seq(Nat)

IsPrice(model, p) == p.edit_dist \in Nat /\ p.cost \in Nat /\ p.edit_dist >= model.minimum

LEMMA ListedPrices ==
  ASSUME NEW model, ArePrices(model), NEW kind \in {"i", "d", "swap"}, NEW letters
  PROVE  IsPrice(model, PriceOf(model, kind, letters))
  <1>1. IsPrice(model, model.defaults[kind])
    BY DEF ArePrices, IsPrice
  <1>2. letters \in DOMAIN model.listed[kind] => IsPrice(model, model.listed[kind][letters])
    BY DEF ArePrices, IsPrice
  <1> QED BY <1>1, <1>2 DEF PriceOf, IsListed

LEMMA SubstitutionPrices ==
  ASSUME NEW model, ArePrices(model), NEW char1, NEW char2, NEW ignore_case,
         ignore_case => model.minimum = 0, char1 # char2
  PROVE  IsPrice(model, SubstitutionCost(model, char1, char2, ignore_case))
  <1> DEFINE a == IF ignore_case THEN LowerOf[char1] ELSE char1
             b == IF ignore_case THEN LowerOf[char2] ELSE char2
  <1>1. IsPrice(model, model.defaults["s"]) /\ IsPrice(model, model.defaults["case"])
    BY DEF ArePrices, IsPrice
  <1>2. <<a, b>> \in DOMAIN model.listed["s"] => IsPrice(model, model.listed["s"][<<a, b>>])
    BY DEF ArePrices, IsPrice
  <1>3. a = b => IsPrice(model, Free)
    <2>1. ASSUME a = b PROVE model.minimum = 0
      BY <2>1
    <2> QED BY <2>1 DEF IsPrice, Free, Price
  <1>4. SubstitutionCost(model, char1, char2, ignore_case) =
          CASE <<a, b>> \in DOMAIN model.listed["s"] -> model.listed["s"][<<a, b>>]
            [] <<a, b>> \notin DOMAIN model.listed["s"] /\ a = b -> Free
            [] <<a, b>> \notin DOMAIN model.listed["s"] /\ a # b /\ LowerOf[a] = LowerOf[b] ->
                 model.defaults["case"]
            [] OTHER -> model.defaults["s"]
    BY DEF SubstitutionCost, IsListed
  <1> HIDE DEF a, b
  <1> QED BY <1>1, <1>2, <1>3, <1>4

-----------------------------------------------------------------------------
(* The steps of a script, by their kind.                                   *)
AnyScript ==
  {s \in [word : Seq(Nat), i : Nat, spelled : Seq(Nat), edit_dist : Nat, cost : Nat] :
     s.i <= Len(s.word)}

Moved(s, price, i, new, w) ==
  [word |-> w, i |-> i, spelled |-> s.spelled \o new,
   edit_dist |-> s.edit_dist + price.edit_dist, cost |-> s.cost + price.cost]

LetterAt(w, k) == IF k \in DOMAIN w THEN w[k] ELSE BLANK

KeepOf(s) == Moved(s, Free, s.i + 1, <<s.word[s.i + 1]>>, s.word)

SkipOf(g, s) ==
  Moved(s, InsertionCost(g.model, s.word[s.i + 1], LetterAt(s.word, s.i),
                         LetterAt(s.word, s.i + 2)),
        s.i + 1, <<>>, s.word)

SubOf(g, s, letter) ==
  Moved(s, SubstitutionCost(g.model, s.word[s.i + 1], letter, g.limits.ignore_case),
        s.i + 1, <<letter>>, s.word)

SwapOf(g, s) ==
  Moved(s, SwapCost(g.model, s.word[s.i + 1], s.word[s.i + 2]),
        s.i, <<>>, Swapped(s.word, s.i))

AddOf(g, s, letter) ==
  Moved(s, DeletionCost(g.model, letter, BLANK), s.i, <<letter>>, s.word)

LettersOf(g) == UNION {Range(w) : w \in Range(g.words)}

IsKeep(s, u) == s.i < Len(s.word) /\ u = KeepOf(s)
IsSkip(g, s, u) == s.i < Len(s.word) /\ Len(s.word) > 1 /\ u = SkipOf(g, s)
IsSub(g, s, u) ==
  s.i < Len(s.word) /\ \E letter \in LettersOf(g) :
    letter # s.word[s.i + 1] /\ u = SubOf(g, s, letter)
IsSwap(g, s, u) == s.i < Len(s.word) - 1 /\ u = SwapOf(g, s)
IsAdd(g, s, u) == \E letter \in LettersOf(g) : u = AddOf(g, s, letter)

IsStep(g, s, u) ==
  IsKeep(s, u) \/ IsSkip(g, s, u) \/ IsSub(g, s, u) \/ IsSwap(g, s, u) \/ IsAdd(g, s, u)

LEMMA StepsAre ==
  ASSUME NEW g, NEW s \in AnyScript, NEW u
  PROVE  u \in Steps(s, Range(g.words), g.model, g.limits.ignore_case) <=> IsStep(g, s, u)
  <1> DEFINE at(k) == IF k \in DOMAIN s.word THEN s.word[k] ELSE BLANK
             next == s.i + 1
             kept == {Moved(s, Free, next, <<at(next)>>, s.word)}
             skipped == {Moved(s, InsertionCost(g.model, at(next), at(next - 1), at(next + 1)),
                               next, <<>>, s.word)}
             replaced == {Moved(s, SubstitutionCost(g.model, at(next), c1, g.limits.ignore_case),
                                next, <<c1>>, s.word) : c1 \in LettersOf(g) \ {at(next)}}
             swapped == {Moved(s, SwapCost(g.model, at(next), at(next + 1)), s.i, <<>>,
                               [s.word EXCEPT ![next] = at(next + 1), ![next + 1] = at(next)])}
             added == {Moved(s, DeletionCost(g.model, c1, BLANK), s.i, <<c1>>, s.word)
                         : c1 \in LettersOf(g)}
  <1>1. Steps(s, Range(g.words), g.model, g.limits.ignore_case) =
          added
            \union (IF s.i < Len(s.word) THEN kept \union replaced ELSE {})
            \union (IF s.i < Len(s.word) /\ Len(s.word) > 1 THEN skipped ELSE {})
            \union (IF s.i < Len(s.word) - 1 THEN swapped ELSE {})
    BY DEF Steps, Moved, LettersOf
  <1>2. /\ s.i \in Nat /\ Len(s.word) \in Nat /\ DOMAIN s.word = 1 .. Len(s.word)
        /\ next - 1 = s.i /\ next + 1 = s.i + 2
    BY LenProperties DEF AnyScript
  <1>3. s.i < Len(s.word) => at(next) = s.word[s.i + 1]
    BY <1>2
  <1>4. s.i < Len(s.word) - 1 => at(next + 1) = s.word[s.i + 2]
    BY <1>2
  <1>5. at(next - 1) = LetterAt(s.word, s.i) /\ at(next + 1) = LetterAt(s.word, s.i + 2)
    BY <1>2 DEF LetterAt
  <1> HIDE DEF at
  <1>6. u \in added <=> IsAdd(g, s, u)
    BY DEF IsAdd, AddOf
  <1>7. ASSUME s.i < Len(s.word)
        PROVE  /\ u \in kept <=> IsKeep(s, u)
               /\ u \in replaced <=> IsSub(g, s, u)
    BY <1>3, <1>7 DEF IsKeep, KeepOf, IsSub, SubOf
  <1>8. ASSUME s.i < Len(s.word), Len(s.word) > 1
        PROVE  u \in skipped <=> IsSkip(g, s, u)
    BY <1>3, <1>5, <1>8 DEF IsSkip, SkipOf
  <1>9. ASSUME s.i < Len(s.word) - 1
        PROVE  u \in swapped <=> IsSwap(g, s, u)
    <2>1. s.i < Len(s.word)
      BY <1>2, <1>9
    <2>2. [s.word EXCEPT ![next] = at(next + 1), ![next + 1] = at(next)] = Swapped(s.word, s.i)
      BY <1>2, <1>3, <1>4, <1>9, <2>1 DEF Swapped
    <2> QED BY <1>3, <1>4, <1>9, <2>1, <2>2 DEF IsSwap, SwapOf
  <1> HIDE DEF kept, replaced, skipped, swapped, added, next
  <1>10. /\ IsKeep(s, u) => s.i < Len(s.word)
         /\ IsSub(g, s, u) => s.i < Len(s.word)
         /\ IsSkip(g, s, u) => s.i < Len(s.word) /\ Len(s.word) > 1
         /\ IsSwap(g, s, u) => s.i < Len(s.word) - 1
    BY DEF IsKeep, IsSub, IsSkip, IsSwap
  <1> QED BY <1>1, <1>6, <1>7, <1>8, <1>9, <1>10 DEF IsStep

-----------------------------------------------------------------------------
(* What a step leads to.                                                   *)

LEMMA LettersAreNumbers ==
  ASSUME NEW g, IsSearch(g)
  PROVE  LettersOf(g) \subseteq Nat
  <1>1. \A w \in Range(g.words) : w \in Seq(Nat)
    BY TrieFacts DEF IsSearch
  <1>2. \A w \in Range(g.words) : Range(w) \subseteq Nat
    BY <1>1, RangeOfSeq
  <1> QED BY <1>2 DEF LettersOf

LEMMA MovedFacts ==
  ASSUME NEW s \in AnyScript, NEW price, price.edit_dist \in Nat, price.cost \in Nat,
         NEW w \in Seq(Nat), NEW i \in 0 .. Len(w), NEW new \in Seq(Nat)
  PROVE  /\ Moved(s, price, i, new, w) \in AnyScript
         /\ Moved(s, price, i, new, w).word = w
         /\ Moved(s, price, i, new, w).i = i
         /\ Moved(s, price, i, new, w).spelled = s.spelled \o new
         /\ Len(Moved(s, price, i, new, w).spelled) = Len(s.spelled) + Len(new)
         /\ Moved(s, price, i, new, w).edit_dist = s.edit_dist + price.edit_dist
         /\ Moved(s, price, i, new, w).cost = s.cost + price.cost
  <1>1. /\ s.spelled \in Seq(Nat) /\ s.edit_dist \in Nat /\ s.cost \in Nat
    BY DEF AnyScript
  <1>2. s.spelled \o new \in Seq(Nat) /\ Len(s.spelled \o new) = Len(s.spelled) + Len(new)
    BY <1>1, ConcatProperties
  <1>3. i \in Nat /\ i <= Len(w)
    BY LenProperties
  <1> DEFINE m == Moved(s, price, i, new, w)
  <1>4. /\ s.edit_dist + price.edit_dist \in Nat
        /\ s.cost + price.cost \in Nat
    BY <1>1
  <1>5. /\ m = [word |-> w, i |-> i, spelled |-> s.spelled \o new,
                edit_dist |-> s.edit_dist + price.edit_dist, cost |-> s.cost + price.cost]
    BY DEF Moved
  <1>6. m \in [word : Seq(Nat), i : Nat, spelled : Seq(Nat), edit_dist : Nat, cost : Nat]
    BY <1>2, <1>3, <1>4, <1>5
  <1>7. m.i = i /\ m.word = w
    BY <1>5
  <1>8. m \in AnyScript
    BY <1>3, <1>6, <1>7 DEF AnyScript
  <1> QED BY <1>2, <1>5, <1>8

LEMMA SwappedFacts ==
  ASSUME NEW w \in Seq(Nat), NEW i \in Nat, i < Len(w) - 1
  PROVE  /\ Swapped(w, i) \in Seq(Nat) /\ Len(Swapped(w, i)) = Len(w)
         /\ Swapped(Swapped(w, i), i) = w
  <1>1. /\ Len(w) \in Nat /\ DOMAIN w = 1 .. Len(w) /\ w \in [1 .. Len(w) -> Nat]
        /\ i + 1 \in 1 .. Len(w) /\ i + 2 \in 1 .. Len(w) /\ i + 1 # i + 2
    BY LenProperties
  <1>2. w[i + 1] \in Nat /\ w[i + 2] \in Nat
    BY <1>1
  <1> DEFINE v == Swapped(w, i)
  <1>3. /\ v \in Seq(Nat) /\ Len(v) = Len(w)
        /\ \A k \in 1 .. Len(w) :
             v[k] = IF k = i + 1 THEN w[i + 2] ELSE IF k = i + 2 THEN w[i + 1] ELSE w[k]
    BY <1>1, <1>2 DEF Swapped
  <1> HIDE DEF v
  <1>4. /\ Swapped(v, i) \in Seq(Nat) /\ Len(Swapped(v, i)) = Len(w)
        /\ \A k \in 1 .. Len(w) :
             Swapped(v, i)[k] = IF k = i + 1 THEN v[i + 2] ELSE IF k = i + 2 THEN v[i + 1]
                                ELSE v[k]
    <2>1. v \in [1 .. Len(w) -> Nat] /\ v[i + 1] \in Nat /\ v[i + 2] \in Nat
      BY <1>1, <1>3, LenProperties
    <2> QED BY <1>1, <1>3, <2>1 DEF Swapped
  <1>5. \A k \in 1 .. Len(w) : Swapped(v, i)[k] = w[k]
    BY <1>1, <1>3, <1>4
  <1>6. Swapped(v, i) = w
    BY <1>4, <1>5, SeqEqual
  <1> QED BY <1>3, <1>6 DEF v

Progress(s) == s.i + Len(s.spelled) + s.edit_dist

IsLater(s, u) ==
  /\ u \in AnyScript
  /\ Len(u.word) = Len(s.word)
  /\ Progress(u) > Progress(s)
  /\ u.edit_dist >= s.edit_dist

CanMove(s, price, i, new, w) ==
  /\ price.edit_dist \in Nat /\ price.cost \in Nat /\ w \in Seq(Nat)
  /\ Len(w) = Len(s.word) /\ i \in 0 .. Len(w) /\ new \in Seq(Nat)
  /\ i + Len(new) + price.edit_dist > s.i

LEMMA MovedIsLater ==
  ASSUME NEW s \in AnyScript, NEW price, NEW w, NEW i, NEW new,
         CanMove(s, price, i, new, w)
  PROVE  /\ IsLater(s, Moved(s, price, i, new, w))
         /\ Moved(s, price, i, new, w).edit_dist = s.edit_dist + price.edit_dist
  <1> DEFINE u == Moved(s, price, i, new, w)
  <1>0. /\ price.edit_dist \in Nat /\ price.cost \in Nat /\ w \in Seq(Nat)
        /\ Len(w) = Len(s.word) /\ i \in 0 .. Len(w) /\ new \in Seq(Nat)
        /\ i + Len(new) + price.edit_dist > s.i
    BY DEF CanMove
  <1>1. /\ u \in AnyScript /\ u.word = w /\ u.i = i
        /\ Len(u.spelled) = Len(s.spelled) + Len(new)
        /\ u.edit_dist = s.edit_dist + price.edit_dist
    BY <1>0, MovedFacts
  <1>2. /\ s.i \in Nat /\ s.spelled \in Seq(Nat) /\ Len(s.spelled) \in Nat
        /\ s.edit_dist \in Nat /\ Len(new) \in Nat /\ i \in Nat
    BY <1>0, LenProperties DEF AnyScript
  <1> HIDE DEF u
  <1>3. Progress(u) = i + (Len(s.spelled) + Len(new)) + (s.edit_dist + price.edit_dist)
    BY <1>1 DEF Progress
  <1>4. Progress(u) > Progress(s)
    <2>1. Progress(s) = s.i + Len(s.spelled) + s.edit_dist
      BY DEF Progress
    <2>2. price.edit_dist \in Nat /\ i + Len(new) + price.edit_dist > s.i
      BY <1>0
    <2>3. /\ s.i \in Nat /\ Len(s.spelled) \in Nat /\ s.edit_dist \in Nat
          /\ Len(new) \in Nat /\ i \in Nat
      BY <1>2
    <2> QED BY <1>3, <2>1, <2>2, <2>3
  <1>5. IsLater(s, u)
    BY <1>0, <1>1, <1>2, <1>4 DEF IsLater
  <1> QED BY <1>1, <1>5 DEF u

IsChange(g, s, u) == IsSkip(g, s, u) \/ IsSub(g, s, u) \/ IsSwap(g, s, u) \/ IsAdd(g, s, u)

LEMMA StepFacts ==
  ASSUME NEW g, IsSearch(g), NEW s \in AnyScript, NEW u, IsStep(g, s, u)
  PROVE  /\ IsLater(s, u)
         /\ IsKeep(s, u) \/ u.edit_dist >= s.edit_dist + g.model.minimum
         /\ IsChange(g, s, u) => u.edit_dist >= s.edit_dist + g.model.minimum
  <1>1. /\ s.word \in Seq(Nat) /\ s.i \in Nat /\ s.i <= Len(s.word) /\ Len(s.word) \in Nat
        /\ s.spelled \in Seq(Nat) /\ Len(s.spelled) \in Nat /\ s.edit_dist \in Nat
    BY LenProperties DEF AnyScript
  <1>2. /\ ArePrices(g.model) /\ SwapsCost(g.model) /\ g.model.minimum \in Nat
        /\ g.limits.ignore_case => g.model.minimum = 0
    BY DEF IsSearch, ArePrices
  <1>3. /\ <<>> \in Seq(Nat) /\ Len(<<>>) = 0
        /\ \A letter \in Nat : <<letter>> \in Seq(Nat) /\ Len(<<letter>>) = 1
    OBVIOUS
  <1>4. ASSUME IsKeep(s, u)
        PROVE  IsLater(s, u)
    <2>1. s.i + 1 \in 0 .. Len(s.word) /\ s.word[s.i + 1] \in Nat
      BY <1>1, <1>4, ElementOfSeq DEF IsKeep
    <2>2. Free.edit_dist = 0 /\ Free.cost = 0
      BY DEF Free, Price
    <2>3. u = Moved(s, Free, s.i + 1, <<s.word[s.i + 1]>>, s.word)
      BY <1>4 DEF IsKeep, KeepOf
    <2>4. CanMove(s, Free, s.i + 1, <<s.word[s.i + 1]>>, s.word)
      BY <1>1, <1>3, <2>1, <2>2, <2>3 DEF IsPrice, CanMove
    <2>5. IsLater(s, u) /\ u.edit_dist = s.edit_dist + Free.edit_dist
      BY <2>3, <2>4, MovedIsLater
    <2> QED BY <1>4, <2>5
  <1>5. ASSUME IsSkip(g, s, u)
        PROVE  IsLater(s, u) /\ u.edit_dist >= s.edit_dist + g.model.minimum
    <2> DEFINE price == InsertionCost(g.model, s.word[s.i + 1], LetterAt(s.word, s.i),
                                      LetterAt(s.word, s.i + 2))
    <2>1. s.i + 1 \in 0 .. Len(s.word)
      BY <1>1, <1>5 DEF IsSkip
    <2>2. IsPrice(g.model, price)
      BY <1>2, ListedPrices DEF InsertionCost
    <2>3. u = Moved(s, price, s.i + 1, <<>>, s.word)
      BY <1>5 DEF IsSkip, SkipOf
    <2> HIDE DEF price
    <2>4. CanMove(s, price, s.i + 1, <<>>, s.word)
      BY <1>1, <1>3, <2>1, <2>2, <2>3 DEF IsPrice, CanMove
    <2>5. IsLater(s, u) /\ u.edit_dist = s.edit_dist + price.edit_dist
      BY <2>3, <2>4, MovedIsLater
    <2> QED BY <1>1, <1>2, <2>2, <2>5 DEF IsPrice
  <1>6. ASSUME IsSub(g, s, u)
        PROVE  IsLater(s, u) /\ u.edit_dist >= s.edit_dist + g.model.minimum
    <2>1. PICK letter \in LettersOf(g) : letter # s.word[s.i + 1] /\ u = SubOf(g, s, letter)
      BY <1>6 DEF IsSub
    <2> DEFINE price == SubstitutionCost(g.model, s.word[s.i + 1], letter,
                                         g.limits.ignore_case)
    <2>2. s.i + 1 \in 0 .. Len(s.word) /\ letter \in Nat
      BY <1>1, <1>6, LettersAreNumbers DEF IsSub
    <2>3. IsPrice(g.model, price)
      BY <1>2, <2>1, SubstitutionPrices
    <2>4. u = Moved(s, price, s.i + 1, <<letter>>, s.word)
      BY <2>1 DEF SubOf
    <2> HIDE DEF price
    <2>5. CanMove(s, price, s.i + 1, <<letter>>, s.word)
      BY <1>1, <1>3, <2>2, <2>3, <2>4 DEF IsPrice, CanMove
    <2>6. IsLater(s, u) /\ u.edit_dist = s.edit_dist + price.edit_dist
      BY <2>4, <2>5, MovedIsLater
    <2> QED BY <1>1, <1>2, <2>3, <2>6 DEF IsPrice
  <1>7. ASSUME IsSwap(g, s, u)
        PROVE  IsLater(s, u) /\ u.edit_dist >= s.edit_dist + g.model.minimum
    <2> DEFINE price == SwapCost(g.model, s.word[s.i + 1], s.word[s.i + 2])
               w == Swapped(s.word, s.i)
    <2>1. w \in Seq(Nat) /\ Len(w) = Len(s.word)
      BY <1>1, <1>7, SwappedFacts DEF IsSwap
    <2>2. IsPrice(g.model, price)
      BY <1>2, ListedPrices DEF SwapCost
    <2>3. price.edit_dist > 0
      BY <1>2 DEF SwapsCost, SwapCost, PriceOf, IsListed
    <2>4. u = Moved(s, price, s.i, <<>>, w)
      BY <1>7 DEF IsSwap, SwapOf
    <2> HIDE DEF price, w
    <2>5. s.i \in 0 .. Len(w)
      BY <1>1, <2>1
    <2>6. CanMove(s, price, s.i, <<>>, w)
      BY <1>1, <1>3, <2>1, <2>2, <2>3, <2>4, <2>5 DEF IsPrice, CanMove
    <2>7. IsLater(s, u) /\ u.edit_dist = s.edit_dist + price.edit_dist
      BY <2>4, <2>6, MovedIsLater
    <2> QED BY <1>1, <1>2, <2>2, <2>7 DEF IsPrice
  <1>8. ASSUME IsAdd(g, s, u)
        PROVE  IsLater(s, u) /\ u.edit_dist >= s.edit_dist + g.model.minimum
    <2>1. PICK letter \in LettersOf(g) : u = AddOf(g, s, letter)
      BY <1>8 DEF IsAdd
    <2> DEFINE price == DeletionCost(g.model, letter, BLANK)
    <2>2. s.i \in 0 .. Len(s.word) /\ letter \in Nat
      BY <1>1, LettersAreNumbers
    <2>3. IsPrice(g.model, price)
      BY <1>2, ListedPrices DEF DeletionCost
    <2>4. u = Moved(s, price, s.i, <<letter>>, s.word)
      BY <2>1 DEF AddOf
    <2> HIDE DEF price
    <2>5. CanMove(s, price, s.i, <<letter>>, s.word)
      BY <1>1, <1>3, <2>2, <2>3, <2>4 DEF IsPrice, CanMove
    <2>6. IsLater(s, u) /\ u.edit_dist = s.edit_dist + price.edit_dist
      BY <2>4, <2>5, MovedIsLater
    <2> QED BY <1>1, <1>2, <2>3, <2>6 DEF IsPrice
  <1> QED BY <1>4, <1>5, <1>6, <1>7, <1>8 DEF IsStep, IsChange

-----------------------------------------------------------------------------
(* Scripts that are within the limits, and those that follow.              *)

IsAllowed(g, s) ==
  /\ s.edit_dist <= g.limits.max_edit_distance
  /\ s.cost <= g.limits.cost_limit
  /\ IsNode(g.nodes, s.spelled)

LEMMA AllowedIs ==
  ASSUME NEW g, IsSearch(g), NEW s \in AnyScript
  PROVE  Allowed(s, Range(g.words), g.limits) <=> IsAllowed(g, s)
  <1>1. s.spelled \in Seq(Nat) /\ Len(s.spelled) \in Nat
    BY LenProperties DEF AnyScript
  <1>2. \A w \in Range(g.words) : w \in Seq(Nat) /\ Len(w) \in Nat
    BY TrieFacts, LenProperties DEF IsSearch
  <1>3. SubSeq(s.spelled, 1, Len(s.spelled)) = s.spelled
    BY <1>1, SubSeqFull
  <1>4. ASSUME NEW w \in Range(g.words)
        PROVE  IsPrefix(s.spelled, w) <=> \E n \in 0 .. Len(w) : s.spelled = SubSeq(w, 1, n)
    <2>1. ASSUME IsPrefix(s.spelled, w)
          PROVE  \E n \in 0 .. Len(w) : s.spelled = SubSeq(w, 1, n)
      <3>1. Len(s.spelled) \in 0 .. Len(w) /\ s.spelled = SubSeq(w, 1, Len(s.spelled))
        BY <1>1, <1>2, <1>3, <2>1 DEF IsPrefix
      <3> QED BY <3>1
    <2>2. ASSUME NEW n \in 0 .. Len(w), s.spelled = SubSeq(w, 1, n)
          PROVE  IsPrefix(s.spelled, w)
      <3>1. \A k \in 1 .. n : w[k] \in Nat
        BY <1>2, ElementOfSeq
      <3>2. Len(SubSeq(w, 1, n)) = n
        BY <1>2, <3>1, SubSeqProperties
      <3> QED BY <1>2, <1>3, <2>2, <3>2 DEF IsPrefix
    <2> QED BY <2>1, <2>2
  <1>5. IsNode(g.nodes, s.spelled) <=>
          \E w \in Range(g.words) : \E n \in 0 .. Len(w) : s.spelled = SubSeq(w, 1, n)
    BY NodesAreBeginnings DEF IsSearch
  <1> QED BY <1>4, <1>5 DEF Allowed, IsAllowed

Follows(g, s, u) == IsStep(g, s, u) /\ IsAllowed(g, u)

(* Scripts are reached when they are in every set that has the first one   *)
(* and what follows its members.                                           *)
IsClosed(g, P) == \A u \in P : \A v \in AnyScript : Follows(g, u, v) => v \in P

Reaches(g, s, t) ==
  /\ s \in AnyScript /\ t \in AnyScript
  /\ \A P \in SUBSET AnyScript : s \in P /\ IsClosed(g, P) => t \in P

IsFinal(g, t) == t.i = Len(t.word) /\ t.spelled \in Range(g.words)

LEMMA ReachesItself ==
  ASSUME NEW g, NEW s \in AnyScript
  PROVE  Reaches(g, s, s)
  BY DEF Reaches

LEMMA ReachesLater ==
  ASSUME NEW g, NEW s, NEW t, NEW u \in AnyScript, Reaches(g, s, t), Follows(g, t, u)
  PROVE  Reaches(g, s, u)
  BY DEF Reaches, IsClosed

LEMMA ReachesThrough ==
  ASSUME NEW g, NEW s, NEW t, NEW u, Reaches(g, s, t), Reaches(g, t, u)
  PROVE  Reaches(g, s, u)
  BY DEF Reaches

LEMMA ReachesFirst ==
  ASSUME NEW g, NEW s \in AnyScript, NEW t, NEW u, Reaches(g, u, t), Follows(g, s, u)
  PROVE  Reaches(g, s, t)
  BY DEF Reaches, IsClosed

LEMMA ReachedByAStep ==
  ASSUME NEW g, NEW s, NEW t, Reaches(g, s, t), t # s
  PROVE  \E u \in AnyScript : Follows(g, s, u) /\ Reaches(g, u, t)
  <1> DEFINE P == {s} \union {v \in AnyScript :
                                \E u \in AnyScript : Follows(g, s, u) /\ Reaches(g, u, v)}
  <1>1. s \in P /\ P \in SUBSET AnyScript
    BY DEF Reaches
  <1>2. IsClosed(g, P)
    <2> SUFFICES ASSUME NEW x \in P, NEW v \in AnyScript, Follows(g, x, v)
                 PROVE  \E u \in AnyScript : Follows(g, s, u) /\ Reaches(g, u, v)
      BY DEF IsClosed
    <2>1. CASE x = s
      BY <2>1, ReachesItself
    <2>2. CASE x # s
      <3>1. PICK u \in AnyScript : Follows(g, s, u) /\ Reaches(g, u, x)
        BY <2>2
      <3>2. Reaches(g, u, v)
        BY <3>1, ReachesLater
      <3> QED BY <3>1, <3>2
    <2> QED BY <2>1, <2>2
  <1>3. t \in P
    BY <1>1, <1>2 DEF Reaches
  <1> QED BY <1>3

LEMMA PartFacts ==
  ASSUME NEW w \in Seq(Nat), NEW from \in Nat, NEW to \in Nat, from <= to, to <= Len(w)
  PROVE  /\ SubSeq(w, from + 1, to) \in Seq(Nat) /\ Len(SubSeq(w, from + 1, to)) = to - from
         /\ \A k \in 1 .. to - from : SubSeq(w, from + 1, to)[k] = w[from + k]
  <1>1. Len(w) \in Nat
    BY LenProperties
  <1> DEFINE first == from + 1
  <1>2. first \in Int /\ first > 0
    OBVIOUS
  <1>3. \A k \in first .. to : w[k] \in Nat
    BY <1>1, ElementOfSeq
  <1> HIDE DEF first
  <1>4. /\ SubSeq(w, first, to) \in Seq(Nat)
        /\ Len(SubSeq(w, first, to)) = IF first <= to THEN to - first + 1 ELSE 0
        /\ \A k \in 1 .. to - first + 1 : SubSeq(w, first, to)[k] = w[first + k - 1]
    BY <1>2, <1>3, SubSeqProperties
  <1>5. first = from + 1
    BY DEF first
  <1>6. Len(SubSeq(w, first, to)) = to - from
    BY <1>4, <1>5
  <1>7. \A k \in 1 .. to - from : SubSeq(w, first, to)[k] = w[from + k]
    <2> SUFFICES ASSUME NEW k \in 1 .. to - from
                 PROVE  SubSeq(w, first, to)[k] = w[from + k]
      OBVIOUS
    <2>1. k \in 1 .. to - first + 1 /\ first + k - 1 = from + k
      BY <1>5
    <2> QED BY <1>4, <2>1
  <1> QED BY <1>4, <1>6, <1>7 DEF first

LEMMA PartGrows ==
  ASSUME NEW w \in Seq(Nat), NEW from \in Nat, NEW to \in Nat, from <= to, to < Len(w)
  PROVE  SubSeq(w, from + 1, to + 1) = SubSeq(w, from + 1, to) \o <<w[to + 1]>>
  <1> DEFINE m == from + 1
             n == to + 1
  <1>1. m \in 1 .. Len(w) /\ n \in m .. Len(w) /\ n - 1 = to
    BY LenProperties
  <1> HIDE DEF m, n
  <1>2. SubSeq(w, m, n) = SubSeq(w, m, n - 1) \o <<w[n]>>
    BY <1>1, SubSeqRecursiveSecond
  <1> QED BY <1>1, <1>2 DEF m, n

(* A script whose word is kept up to a position.                           *)
KeptTo(s, i) == [s EXCEPT !.i = i, !.spelled = s.spelled \o SubSeq(s.word, s.i + 1, i)]

LEMMA KeptFacts ==
  ASSUME NEW s \in AnyScript, NEW i \in s.i .. Len(s.word)
  PROVE  /\ KeptTo(s, i) \in AnyScript /\ KeptTo(s, i).word = s.word /\ KeptTo(s, i).i = i
         /\ KeptTo(s, i).spelled = s.spelled \o SubSeq(s.word, s.i + 1, i)
         /\ Len(KeptTo(s, i).spelled) = Len(s.spelled) + i - s.i
         /\ KeptTo(s, i).edit_dist = s.edit_dist /\ KeptTo(s, i).cost = s.cost
         /\ SubSeq(s.word, s.i + 1, i) \in Seq(Nat)
         /\ Len(SubSeq(s.word, s.i + 1, i)) = i - s.i
         /\ \A k \in 1 .. i - s.i : SubSeq(s.word, s.i + 1, i)[k] = s.word[s.i + k]
  <1>1. /\ s \in [word : Seq(Nat), i : Nat, spelled : Seq(Nat), edit_dist : Nat, cost : Nat]
        /\ s.word \in Seq(Nat) /\ s.i \in Nat /\ Len(s.word) \in Nat
        /\ s.spelled \in Seq(Nat) /\ Len(s.spelled) \in Nat
        /\ i \in Nat /\ s.i <= i /\ i <= Len(s.word)
    BY LenProperties DEF AnyScript
  <1> DEFINE rest == SubSeq(s.word, s.i + 1, i)
  <1>3. rest \in Seq(Nat)
    BY <1>1, PartFacts
  <1>4. Len(rest) = i - s.i /\ \A k \in 1 .. i - s.i : rest[k] = s.word[s.i + k]
    <2>1. PICK w : w = s.word
      OBVIOUS
    <2>2. PICK from : from = s.i
      OBVIOUS
    <2>3. w \in Seq(Nat) /\ from \in Nat /\ i \in Nat /\ from <= i /\ i <= Len(w)
      BY <1>1, <2>1, <2>2
    <2>4. /\ Len(SubSeq(w, from + 1, i)) = i - from
          /\ \A k \in 1 .. i - from : SubSeq(w, from + 1, i)[k] = w[from + k]
      BY <2>3, PartFacts
    <2> QED BY <2>1, <2>2, <2>4
  <1>5. /\ s.spelled \o rest \in Seq(Nat)
        /\ Len(s.spelled \o rest) = Len(s.spelled) + Len(rest)
    BY <1>1, <1>3, ConcatProperties
  <1> HIDE DEF rest
  <1>6. KeptTo(s, i) = [s EXCEPT !.i = i, !.spelled = s.spelled \o rest]
    BY DEF KeptTo, rest
  <1> DEFINE m == KeptTo(s, i)
  <1>7. /\ m \in [word : Seq(Nat), i : Nat, spelled : Seq(Nat), edit_dist : Nat, cost : Nat]
        /\ m.word = s.word /\ m.i = i /\ m.spelled = s.spelled \o rest
        /\ m.edit_dist = s.edit_dist /\ m.cost = s.cost
    BY <1>1, <1>5, <1>6
  <1>8. m \in AnyScript
    BY <1>1, <1>7 DEF AnyScript
  <1>9. Len(m.spelled) = Len(s.spelled) + i - s.i
    BY <1>1, <1>4, <1>5, <1>7
  <1> HIDE DEF m
  <1> QED BY <1>3, <1>4, <1>7, <1>8, <1>9 DEF m, rest

LEMMA KeptToItself ==
  ASSUME NEW s \in AnyScript
  PROVE  KeptTo(s, s.i) = s
  <1>1. s \in [word : Seq(Nat), i : Nat, spelled : Seq(Nat), edit_dist : Nat, cost : Nat]
    BY DEF AnyScript
  <1>2. SubSeq(s.word, s.i + 1, s.i) = <<>>
    BY <1>1, SubSeqEmpty
  <1>3. s.spelled \o <<>> = s.spelled
    BY <1>1, ConcatEmptySeq
  <1>4. KeptTo(s, s.i) = [s EXCEPT !.i = s.i, !.spelled = s.spelled]
    BY <1>2, <1>3 DEF KeptTo
  <1> QED BY <1>1, <1>4

LEMMA KeptOnce ==
  ASSUME NEW s \in AnyScript, NEW i \in s.i .. Len(s.word), i < Len(s.word)
  PROVE  /\ i + 1 \in s.i .. Len(s.word) /\ s.word[i + 1] \in Nat
         /\ KeptTo(s, i + 1).spelled = Append(KeptTo(s, i).spelled, s.word[i + 1])
         /\ KeptTo(s, i + 1) = KeepOf(KeptTo(s, i))
         /\ IsKeep(KeptTo(s, i), KeptTo(s, i + 1))
  <1>1. /\ s \in [word : Seq(Nat), i : Nat, spelled : Seq(Nat), edit_dist : Nat, cost : Nat]
        /\ s.word \in Seq(Nat) /\ s.i \in Nat /\ Len(s.word) \in Nat
        /\ s.spelled \in Seq(Nat) /\ i \in Nat /\ s.i <= i
    BY LenProperties DEF AnyScript
  <1>2. /\ i + 1 \in s.i .. Len(s.word) /\ i + 1 \in 1 .. Len(s.word)
        /\ s.i + 1 \in 1 .. Len(s.word) /\ i + 1 \in s.i + 1 .. Len(s.word)
    BY <1>1
  <1> DEFINE rest == SubSeq(s.word, s.i + 1, i)
             last == <<s.word[i + 1]>>
  <1>4. SubSeq(s.word, s.i + 1, i + 1) = rest \o last
    BY <1>1, PartGrows
  <1>5. s.word[i + 1] \in Nat /\ last \in Seq(Nat)
    BY <1>1, <1>2, ElementOfSeq
  <1>6. rest \in Seq(Nat)
    BY KeptFacts
  <1> HIDE DEF rest, last
  <1>7. s.spelled \o (rest \o last) = (s.spelled \o rest) \o last
    BY <1>1, <1>5, <1>6, AppendLater
  <1>8. s.spelled \o rest \in Seq(Nat)
    BY <1>1, <1>6, ConcatProperties
  <1>9. (s.spelled \o rest) \o last = Append(s.spelled \o rest, s.word[i + 1])
    BY <1>5, <1>8, AppendIsConcat DEF last
  <1>10. /\ KeptTo(s, i).spelled = s.spelled \o rest
         /\ KeptTo(s, i).word = s.word /\ KeptTo(s, i).i = i
         /\ KeptTo(s, i).edit_dist = s.edit_dist /\ KeptTo(s, i).cost = s.cost
    BY KeptFacts DEF rest
  <1>11. KeptTo(s, i + 1).spelled = (s.spelled \o rest) \o last
    BY <1>2, <1>4, <1>7, KeptFacts
  <1>12. KeptTo(s, i + 1) = [word |-> s.word, i |-> i + 1, spelled |-> (s.spelled \o rest) \o last,
                             edit_dist |-> s.edit_dist, cost |-> s.cost]
    <2>1. KeptTo(s, i + 1) = [s EXCEPT !.i = i + 1, !.spelled = (s.spelled \o rest) \o last]
      BY <1>4, <1>7 DEF KeptTo
    <2> QED BY <1>1, <2>1
  <1>13. KeepOf(KeptTo(s, i)) =
           [word |-> s.word, i |-> i + 1, spelled |-> (s.spelled \o rest) \o last,
            edit_dist |-> s.edit_dist + 0, cost |-> s.cost + 0]
    BY <1>10 DEF KeepOf, Moved, Free, Price, last
  <1>14. s.edit_dist + 0 = s.edit_dist /\ s.cost + 0 = s.cost
    BY <1>1
  <1>15. KeptTo(s, i + 1) = KeepOf(KeptTo(s, i))
    BY <1>12, <1>13, <1>14
  <1> QED BY <1>2, <1>5, <1>9, <1>10, <1>11, <1>15 DEF IsKeep

(* Beginnings of what is a node are nodes.                                 *)
LEMMA KeptNodes ==
  ASSUME NEW g, IsSearch(g), NEW s \in AnyScript, NEW i \in s.i .. Len(s.word),
         IsNode(g.nodes, KeptTo(s, Len(s.word)).spelled)
  PROVE  IsNode(g.nodes, KeptTo(s, i).spelled)
  <1>1. /\ s.i \in Nat /\ Len(s.word) \in Nat /\ s.i <= Len(s.word)
    BY LenProperties DEF AnyScript
  <1> DEFINE wrong == {n \in Nat : /\ n <= Len(s.word) - s.i
                                   /\ ~IsNode(g.nodes, KeptTo(s, Len(s.word) - n).spelled)}
  <1>2. wrong = {}
    <2> SUFFICES ASSUME wrong # {} PROVE FALSE
      OBVIOUS
    <2>1. PICK n \in wrong : \A m \in wrong : n <= m
      <3>1. wrong \in SUBSET Nat
        OBVIOUS
      <3> HIDE DEF wrong
      <3> QED BY <3>1, LeastExists
    <2>2. n \in Nat /\ n <= Len(s.word) - s.i
          /\ ~IsNode(g.nodes, KeptTo(s, Len(s.word) - n).spelled)
      BY <2>1
    <2>3. n # 0
      BY <1>1, <2>2
    <2> DEFINE k == Len(s.word) - n
    <2>4. /\ k \in s.i .. Len(s.word) /\ k < Len(s.word) /\ k + 1 = Len(s.word) - (n - 1)
          /\ n - 1 \in Nat /\ n - 1 < n /\ n - 1 <= Len(s.word) - s.i
      BY <1>1, <2>2, <2>3
    <2>5. IsNode(g.nodes, KeptTo(s, Len(s.word) - (n - 1)).spelled)
      <3>1. n - 1 \notin wrong
        <4> HIDE DEF wrong
        <4> QED BY <2>1, <2>2, <2>4
      <3> QED BY <2>4, <3>1
    <2>6. ~IsNode(g.nodes, KeptTo(s, k).spelled)
      BY <2>2
    <2> HIDE DEF k
    <2>7. /\ KeptTo(s, k + 1).spelled = Append(KeptTo(s, k).spelled, s.word[k + 1])
          /\ s.word[k + 1] \in Nat
      BY <2>4, KeptOnce
    <2>8. KeptTo(s, k).spelled \in Seq(Nat)
      BY <2>4, KeptFacts DEF AnyScript
    <2>9. IsNode(g.nodes, Append(KeptTo(s, k).spelled, s.word[k + 1]))
      BY <2>4, <2>5, <2>7
    <2> QED BY <2>6, <2>7, <2>8, <2>9, BeginningsOfNodes DEF IsSearch
  <1>3. Len(s.word) - i \in Nat /\ Len(s.word) - i <= Len(s.word) - s.i
        /\ Len(s.word) - (Len(s.word) - i) = i
    BY <1>1
  <1> DEFINE m == Len(s.word) - i
  <1>4. m \notin wrong
    BY <1>2
  <1> QED BY <1>3, <1>4

(* A word that ends as it is written is reached.                           *)
LEMMA KeptIsReached ==
  ASSUME NEW g, IsSearch(g), NEW s \in AnyScript, IsAllowed(g, s),
         NEW i \in s.i .. Len(s.word), IsNode(g.nodes, KeptTo(s, Len(s.word)).spelled)
  PROVE  Reaches(g, s, KeptTo(s, i))
  <1>1. /\ s.i \in Nat /\ Len(s.word) \in Nat /\ s.i <= Len(s.word)
    BY LenProperties DEF AnyScript
  <1> DEFINE wrong == {k \in Nat : k \in s.i .. Len(s.word) /\ ~Reaches(g, s, KeptTo(s, k))}
  <1> SUFFICES ASSUME wrong # {} PROVE FALSE
    BY <1>1
  <1>2. PICK k \in wrong : \A m \in wrong : k <= m
    <2>1. wrong \in SUBSET Nat
      OBVIOUS
    <2> HIDE DEF wrong
    <2> QED BY <2>1, LeastExists
  <1>3. k \in Nat /\ k \in s.i .. Len(s.word) /\ ~Reaches(g, s, KeptTo(s, k))
    BY <1>2
  <1>4. k # s.i
    BY <1>3, KeptToItself, ReachesItself
  <1>5. /\ k - 1 \in s.i .. Len(s.word) /\ k - 1 < Len(s.word) /\ k - 1 + 1 = k
        /\ k - 1 \in Nat /\ k - 1 < k
    BY <1>1, <1>3, <1>4
  <1>6. Reaches(g, s, KeptTo(s, k - 1))
    BY <1>2, <1>5
  <1>7. IsKeep(KeptTo(s, k - 1), KeptTo(s, k))
    <2>1. IsKeep(KeptTo(s, k - 1), KeptTo(s, k - 1 + 1))
      BY <1>5, KeptOnce
    <2> QED BY <1>5, <2>1
  <1>8. /\ KeptTo(s, k) \in AnyScript
        /\ KeptTo(s, k).edit_dist = s.edit_dist /\ KeptTo(s, k).cost = s.cost
    BY <1>3, KeptFacts
  <1>9. IsNode(g.nodes, KeptTo(s, k).spelled)
    BY <1>3, KeptNodes
  <1>10. Follows(g, KeptTo(s, k - 1), KeptTo(s, k))
    BY <1>7, <1>8, <1>9 DEF Follows, IsStep, IsAllowed
  <1> QED BY <1>3, <1>6, <1>8, <1>10, ReachesLater

(* Without room for an edit nothing else is.                               *)
LEMMA OnlyKeptAreReached ==
  ASSUME NEW g, IsSearch(g), NEW s \in AnyScript, NEW t, Reaches(g, s, t),
         s.edit_dist + g.model.minimum > g.limits.max_edit_distance
  PROVE  \E i \in s.i .. Len(s.word) : t = KeptTo(s, i)
  <1> DEFINE P == {KeptTo(s, i) : i \in s.i .. Len(s.word)}
  <1>1. /\ s.i \in Nat /\ Len(s.word) \in Nat /\ s.i <= Len(s.word) /\ s.edit_dist \in Nat
    BY LenProperties DEF AnyScript
  <1>2. s \in P
    BY <1>1, KeptToItself
  <1>3. P \in SUBSET AnyScript
    BY KeptFacts
  <1>4. IsClosed(g, P)
    <2> SUFFICES ASSUME NEW i \in s.i .. Len(s.word), NEW v \in AnyScript,
                        Follows(g, KeptTo(s, i), v)
                 PROVE  v \in P
      BY DEF IsClosed
    <2>1. /\ KeptTo(s, i) \in AnyScript /\ KeptTo(s, i).edit_dist = s.edit_dist
          /\ KeptTo(s, i).i = i /\ KeptTo(s, i).word = s.word
      BY KeptFacts
    <2>2. IsKeep(KeptTo(s, i), v) \/ v.edit_dist >= s.edit_dist + g.model.minimum
      BY <2>1, StepFacts DEF Follows
    <2>3. v.edit_dist <= g.limits.max_edit_distance /\ v.edit_dist \in Nat
          /\ g.limits.max_edit_distance \in Nat /\ g.model.minimum \in Nat
      BY DEF Follows, IsAllowed, IsSearch, ArePrices, AnyScript
    <2>4. IsKeep(KeptTo(s, i), v)
      BY <1>1, <2>2, <2>3
    <2>5. i < Len(s.word) /\ v = KeepOf(KeptTo(s, i))
      BY <2>1, <2>4 DEF IsKeep
    <2>6. v = KeptTo(s, i + 1) /\ i + 1 \in s.i .. Len(s.word)
      BY <2>5, KeptOnce
    <2> QED BY <2>6
  <1>5. t \in P
    BY <1>2, <1>3, <1>4 DEF Reaches
  <1> QED BY <1>5

(* No word is longer than the longest one.                                 *)
LEMMA LongestExists ==
  ASSUME NEW words \in Seq(Seq(Nat)), words # <<>>
  PROVE  /\ Max({Len(w) : w \in Range(words)}) \in Nat
         /\ \A w \in Range(words) : Len(w) <= Max({Len(v) : v \in Range(words)})
  <1> DEFINE Bounds(k, b) == \A j \in 1 .. k : Len(words[j]) <= b
             without == {k \in Nat : k <= Len(words) /\ ~\E b \in Nat : Bounds(k, b)}
  <1>1. /\ Len(words) \in Nat /\ DOMAIN words = 1 .. Len(words)
        /\ \A j \in 1 .. Len(words) : Len(words[j]) \in Nat
    BY ElementOfSeq, LenProperties
  <1>2. without = {}
    <2> SUFFICES ASSUME without # {} PROVE FALSE
      OBVIOUS
    <2>1. PICK k \in without : \A m \in without : k <= m
      <3>1. without \in SUBSET Nat
        OBVIOUS
      <3> HIDE DEF without
      <3> QED BY <3>1, LeastExists
    <2>2. k \in Nat /\ k <= Len(words) /\ ~\E b \in Nat : Bounds(k, b)
      BY <2>1
    <2>3. k # 0
      <3>1. Bounds(0, 0)
        OBVIOUS
      <3> QED BY <2>2, <3>1
    <2>4. PICK b \in Nat : Bounds(k - 1, b)
      <3>1. k - 1 \in Nat /\ k - 1 < k /\ k - 1 <= Len(words)
        BY <1>1, <2>2, <2>3
      <3>2. k - 1 \notin without
        <4> HIDE DEF without
        <4> QED BY <2>1, <2>2, <3>1
      <3> HIDE DEF Bounds
      <3> QED BY <3>1, <3>2
    <2> DEFINE size == Len(words[k])
               more == b + size
    <2>5. size \in Nat /\ more \in Nat /\ size <= more /\ b <= more
      <3>1. k \in 1 .. Len(words)
        BY <1>1, <2>2, <2>3
      <3>2. size \in Nat
        BY <1>1, <3>1
      <3> HIDE DEF size
      <3> QED BY <3>2
    <2> HIDE DEF more
    <2>6. Bounds(k, more)
      <3> SUFFICES ASSUME NEW j \in 1 .. k PROVE Len(words[j]) <= more
        OBVIOUS
      <3>1. CASE j = k
        BY <2>5, <3>1 DEF size
      <3>2. CASE j # k
        <4>1. j \in 1 .. k - 1 /\ j \in 1 .. Len(words)
          BY <1>1, <2>2, <3>2
        <4>2. Len(words[j]) <= b /\ Len(words[j]) \in Nat
          BY <1>1, <2>4, <4>1
        <4> HIDE DEF size
        <4> DEFINE this == Len(words[j])
        <4>3. this <= b /\ this \in Nat
          BY <4>2
        <4> HIDE DEF this, Bounds, without
        <4>4. this <= more
          BY <2>5, <4>3
        <4> QED BY <4>4 DEF this
      <3> QED BY <3>1, <3>2
    <2> HIDE DEF Bounds
    <2> QED BY <2>2, <2>5, <2>6
  <1> DEFINE bounds == {b \in Nat : Bounds(Len(words), b)}
             lengths == {Len(w) : w \in Range(words)}
  <1>3. PICK b \in bounds : \A d \in bounds : b <= d
    <2>1. bounds # {}
      <3>1. Len(words) \notin without /\ Len(words) \in Nat /\ Len(words) <= Len(words)
        <4> HIDE DEF without
        <4> QED BY <1>1, <1>2
      <3>2. \E b \in Nat : Bounds(Len(words), b)
        <4> HIDE DEF Bounds
        <4> QED BY <3>1
      <3> HIDE DEF Bounds
      <3> QED BY <3>2
    <2>2. bounds \in SUBSET Nat
      OBVIOUS
    <2> HIDE DEF bounds
    <2> QED BY <2>1, <2>2, LeastExists
  <1>4. b \in Nat /\ \A j \in 1 .. Len(words) : Len(words[j]) <= b
    BY <1>3
  <1>5. 1 \in 1 .. Len(words)
    <2>1. Len(words) # 0
      BY EmptySeq
    <2> QED BY <1>1, <2>1
  <1>6. \E j \in 1 .. Len(words) : Len(words[j]) = b
    <2> SUFFICES ASSUME \A j \in 1 .. Len(words) : Len(words[j]) # b PROVE FALSE
      OBVIOUS
    <2>1. \A j \in 1 .. Len(words) : Len(words[j]) < b
      BY <1>1, <1>4
    <2>2. b # 0
      BY <1>1, <1>5, <2>1
    <2>3. b - 1 \in Nat /\ \A j \in 1 .. Len(words) : Len(words[j]) <= b - 1
      BY <1>1, <1>4, <2>1, <2>2
    <2>4. b - 1 \in bounds
      BY <2>3
    <2> HIDE DEF bounds
    <2> QED BY <1>3, <1>4, <2>4
  <1>7. /\ b \in lengths
        /\ \A d \in lengths : b >= d /\ d \in Nat
    BY <1>1, <1>4, <1>6 DEF Range
  <1> HIDE DEF lengths
  <1>8. Max(lengths) \in lengths /\ \A d \in lengths : Max(lengths) >= d
    BY <1>7 DEF Max
  <1>9. Max(lengths) \in Nat /\ \A d \in lengths : d <= Max(lengths)
    BY <1>7, <1>8
  <1> QED BY <1>9 DEF lengths

-----------------------------------------------------------------------------
(* The scripts of a search are those that are reached.                     *)

ReachBody(g, reach, n) ==
  IF n = 0 THEN {Untouched(g.str)}
  ELSE reach[n - 1] \union
         {s \in UNION {Steps(r, Range(g.words), g.model, g.limits.ignore_case) :
                         r \in reach[n - 1]} :
            Allowed(s, Range(g.words), g.limits)}

IsReach(g, n, reach) == reach = [k \in 0 .. n |-> ReachBody(g, reach, k)]

LEMMA ReachExists ==
  ASSUME NEW g, NEW n \in Nat
  PROVE  \E reach : IsReach(g, n, reach)
  <1> DEFINE without == {k \in Nat : ~\E reach : IsReach(g, k, reach)}
  <1> SUFFICES ASSUME without # {} PROVE FALSE
    OBVIOUS
  <1>1. PICK least \in without : \A k \in without : least <= k
    <2>1. without \in SUBSET Nat
      OBVIOUS
    <2> HIDE DEF without
    <2> QED BY <2>1, LeastExists
  <1>2. least \in Nat /\ ~\E reach : IsReach(g, least, reach)
    BY <1>1
  <1>3. least # 0
    <2>1. IsReach(g, 0, [k \in 0 .. 0 |-> {Untouched(g.str)}])
      BY DEF IsReach, ReachBody
    <2> QED BY <1>2, <2>1
  <1>4. PICK shorter : IsReach(g, least - 1, shorter)
    <2>1. least - 1 \in Nat /\ least - 1 < least
      BY <1>2, <1>3
    <2>2. least - 1 \notin without
      BY <1>1, <2>1
    <2> QED BY <2>1, <2>2
  <1> DEFINE longer == [k \in 0 .. least |-> ReachBody(g, shorter, k)]
  <1>5. ASSUME NEW k \in 0 .. least - 1
        PROVE  longer[k] = shorter[k]
    <2>1. shorter[k] = ReachBody(g, shorter, k)
      BY <1>4 DEF IsReach
    <2>2. k \in 0 .. least
      BY <1>2
    <2> QED BY <2>1, <2>2
  <1>6. ASSUME NEW k \in 0 .. least
        PROVE  ReachBody(g, shorter, k) = ReachBody(g, longer, k)
    <2> HIDE DEF longer
    <2>1. k # 0 => k - 1 \in 0 .. least - 1
      BY <1>2
    <2>2. k # 0 => longer[k - 1] = shorter[k - 1]
      BY <1>5, <2>1
    <2> QED BY <2>2 DEF ReachBody
  <1>7. IsReach(g, least, longer)
    BY <1>6 DEF IsReach
  <1> QED BY <1>2, <1>7

LEMMA StartFacts ==
  ASSUME NEW g, IsSearch(g)
  PROVE  /\ Untouched(g.str) \in AnyScript /\ IsAllowed(g, Untouched(g.str))
         /\ Untouched(g.str).word = g.str /\ Untouched(g.str).i = 0 /\ Untouched(g.str).spelled = <<>>
         /\ Untouched(g.str).edit_dist = 0 /\ Untouched(g.str).cost = 0
         /\ Progress(Untouched(g.str)) = 0
  <1>1. /\ g.str \in Seq(Nat) /\ Len(g.str) \in Nat
        /\ g.limits.max_edit_distance \in Nat /\ g.limits.cost_limit \in Nat
    BY LenProperties DEF IsSearch
  <1>2. <<>> \in Seq(Nat) /\ Len(<<>>) = 0
    OBVIOUS
  <1> DEFINE s == Untouched(g.str)
  <1>3. /\ s = [word |-> g.str, i |-> 0, spelled |-> <<>>, edit_dist |-> 0, cost |-> 0]
    BY DEF Untouched
  <1>4. s \in [word : Seq(Nat), i : Nat, spelled : Seq(Nat), edit_dist : Nat, cost : Nat]
    BY <1>1, <1>2, <1>3
  <1>5. s \in AnyScript
    BY <1>1, <1>3, <1>4 DEF AnyScript
  <1>6. IsNode(g.nodes, <<>>)
    <2>1. /\ g.nodes[Len(g.words) + 1] = <<>> /\ DOMAIN g.nodes = 1 .. Len(g.nodes)
          /\ Len(g.words) \in Nat /\ Len(g.nodes) \in Nat /\ Len(g.words) < Len(g.nodes)
      BY TrieFacts DEF IsSearch
    <2>2. Len(g.words) + 1 \in DOMAIN g.nodes
      BY <2>1
    <2> QED BY <2>1, <2>2 DEF IsNode
  <1>7. IsAllowed(g, s)
    BY <1>1, <1>3, <1>6 DEF IsAllowed
  <1>8. Progress(s) = 0
    BY <1>2, <1>3 DEF Progress
  <1> QED BY <1>3, <1>5, <1>7, <1>8

LEMMA ScriptsAreReached ==
  ASSUME NEW g, IsSearch(g)
  PROVE  \A t : t \in Scripts(g.str, Range(g.words), g.model, g.limits) <=>
                  Reaches(g, Untouched(g.str), t) /\ IsFinal(g, t)
  <1> DEFINE longest == Len(g.str) + Max({Len(w) : w \in Range(g.words)})
                          + g.limits.max_edit_distance
             reach == CHOOSE f : IsReach(g, longest, f)
             first == Untouched(g.str)
  <1>1. Scripts(g.str, Range(g.words), g.model, g.limits)
          = {s \in reach[longest] : s.i = Len(s.word) /\ s.spelled \in Range(g.words)}
    BY DEF Scripts, IsReach, ReachBody
  <1>2. /\ Len(g.str) \in Nat /\ g.limits.max_edit_distance \in Nat
        /\ Max({Len(w) : w \in Range(g.words)}) \in Nat
        /\ \A w \in Range(g.words) : Len(w) <= Max({Len(v) : v \in Range(g.words)})
    <2>1. g.words \in Seq(Seq(Nat)) /\ g.words # <<>>
      BY DEF IsSearch, IsTrie
    <2> QED BY <2>1, LongestExists, LenProperties DEF IsSearch
  <1> DEFINE most == Max({Len(w) : w \in Range(g.words)})
  <1>3. longest \in Nat
    BY <1>2
  <1>4. IsReach(g, longest, reach)
    <2> HIDE DEF longest
    <2> QED BY <1>3, ReachExists
  <1>5. /\ reach[0] = {first}
        /\ \A k \in 1 .. longest : reach[k] = ReachBody(g, reach, k)
    <2>1. \A k \in 0 .. longest : reach[k] = ReachBody(g, reach, k)
      <3> HIDE DEF reach, longest
      <3> QED BY <1>4 DEF IsReach
    <2> HIDE DEF reach, longest
    <2>2. 0 \in 0 .. longest /\ \A k \in 1 .. longest : k \in 0 .. longest
      BY <1>3
    <2>3. ReachBody(g, reach, 0) = {first}
      BY DEF ReachBody
    <2> QED BY <2>1, <2>2, <2>3
  <1> HIDE DEF reach
  <1>6. longest = Len(g.str) + most + g.limits.max_edit_distance
    OBVIOUS
  <1> HIDE DEF longest, first, most
  <1>7. /\ first \in AnyScript /\ IsAllowed(g, first) /\ first.word = g.str
        /\ Progress(first) = 0
    BY StartFacts DEF first
  <1>8. ASSUME NEW k \in 1 .. longest, reach[k - 1] \subseteq AnyScript, NEW t
        PROVE  t \in reach[k] <=>
                 \/ t \in reach[k - 1]
                 \/ \E r \in reach[k - 1] : IsStep(g, r, t) /\ IsAllowed(g, t)
    <2>1. k # 0 /\ reach[k] = ReachBody(g, reach, k)
      BY <1>5
    <2>2. t \in reach[k] <=>
            \/ t \in reach[k - 1]
            \/ /\ \E r \in reach[k - 1] :
                    t \in Steps(r, Range(g.words), g.model, g.limits.ignore_case)
               /\ Allowed(t, Range(g.words), g.limits)
      BY <2>1 DEF ReachBody
    <2>3. \A r \in reach[k - 1] :
            t \in Steps(r, Range(g.words), g.model, g.limits.ignore_case) <=> IsStep(g, r, t)
      BY <1>8, StepsAre
    <2>4. \A r \in reach[k - 1] : IsStep(g, r, t) => t \in AnyScript
      BY <1>8, StepFacts DEF IsLater
    <2>5. t \in AnyScript => (Allowed(t, Range(g.words), g.limits) <=> IsAllowed(g, t))
      BY AllowedIs
    <2> QED BY <2>2, <2>3, <2>4, <2>5
  <1>9. \A k \in 0 .. longest : \A t \in reach[k] : Reaches(g, first, t)
    <2> DEFINE wrong == {k \in Nat : k <= longest /\ ~\A t \in reach[k] : Reaches(g, first, t)}
    <2> SUFFICES ASSUME wrong # {} PROVE FALSE
      OBVIOUS
    <2>1. PICK k \in wrong : \A m \in wrong : k <= m
      <3>1. wrong \in SUBSET Nat
        OBVIOUS
      <3> HIDE DEF wrong
      <3> QED BY <3>1, LeastExists
    <2>2. k \in Nat /\ k <= longest /\ ~\A t \in reach[k] : Reaches(g, first, t)
      BY <2>1
    <2>3. k # 0
      BY <1>5, <1>7, <2>2, ReachesItself
    <2>4. k - 1 \in Nat /\ k - 1 < k /\ k - 1 <= longest /\ k \in 1 .. longest
      BY <1>3, <2>2, <2>3
    <2>5. \A t \in reach[k - 1] : Reaches(g, first, t)
      <3>1. k - 1 \notin wrong
        <4> HIDE DEF wrong
        <4> QED BY <2>1, <2>2, <2>4
      <3> QED BY <2>4, <3>1
    <2>6. reach[k - 1] \subseteq AnyScript
      BY <2>5 DEF Reaches
    <2>7. ASSUME NEW t \in reach[k]
          PROVE  Reaches(g, first, t)
      <3>1. CASE t \in reach[k - 1]
        BY <2>5, <3>1
      <3>2. CASE t \notin reach[k - 1]
        <4>1. PICK r \in reach[k - 1] : IsStep(g, r, t) /\ IsAllowed(g, t)
          BY <1>8, <2>4, <2>6, <3>2
        <4>2. t \in AnyScript
          BY <2>6, <4>1, StepFacts DEF IsLater
        <4> QED BY <2>5, <4>1, <4>2, ReachesLater DEF Follows
      <3> QED BY <3>1, <3>2
    <2> QED BY <2>2, <2>7
  <1>10. \A k \in 0 .. longest : reach[k] \subseteq AnyScript
    BY <1>9 DEF Reaches
  <1>11. \A k \in 0 .. longest : first \in reach[k]
    <2> DEFINE wrong == {k \in Nat : k <= longest /\ first \notin reach[k]}
    <2> SUFFICES ASSUME wrong # {} PROVE FALSE
      OBVIOUS
    <2>1. PICK k \in wrong : \A m \in wrong : k <= m
      <3>1. wrong \in SUBSET Nat
        OBVIOUS
      <3> HIDE DEF wrong
      <3> QED BY <3>1, LeastExists
    <2>2. k \in Nat /\ k <= longest /\ first \notin reach[k]
      BY <2>1
    <2>3. k # 0
      BY <1>5, <2>2
    <2>4. k - 1 \in Nat /\ k - 1 < k /\ k - 1 <= longest /\ k \in 1 .. longest
          /\ k - 1 \in 0 .. longest
      BY <1>3, <2>2, <2>3
    <2>5. first \in reach[k - 1]
      <3>1. k - 1 \notin wrong
        <4> HIDE DEF wrong
        <4> QED BY <2>1, <2>2, <2>4
      <3> QED BY <2>4, <3>1
    <2> QED BY <1>8, <1>10, <2>2, <2>4, <2>5
  <1> DEFINE P == {t \in AnyScript :
                     /\ Len(t.word) = Len(g.str) /\ IsAllowed(g, t)
                     /\ \A k \in 0 .. longest : k >= Progress(t) => t \in reach[k]}
  <1>12. first \in P
    BY <1>7, <1>11
  <1>13. IsClosed(g, P)
    <2> SUFFICES ASSUME NEW r \in P, NEW t \in AnyScript, Follows(g, r, t)
                 PROVE  t \in P
      BY DEF IsClosed
    <2>1. Len(t.word) = Len(r.word) /\ Progress(t) > Progress(r)
      BY StepFacts DEF Follows, IsLater
    <2>2. Progress(r) \in Nat /\ Progress(t) \in Nat
      BY LenProperties DEF Progress, AnyScript
    <2>3. ASSUME NEW k \in 0 .. longest, k >= Progress(t)
          PROVE  t \in reach[k]
      <3>1. k \in 1 .. longest /\ k - 1 \in 0 .. longest /\ k - 1 >= Progress(r)
        BY <1>3, <2>1, <2>2, <2>3
      <3>2. r \in reach[k - 1]
        BY <3>1
      <3> QED BY <1>8, <1>10, <3>1, <3>2 DEF Follows
    <2> QED BY <2>1, <2>3 DEF Follows
  <1>14. ASSUME NEW t, Reaches(g, first, t)
         PROVE  t \in reach[longest]
    <2>1. t \in P
      <3>1. P \in SUBSET AnyScript
        OBVIOUS
      <3> HIDE DEF P
      <3> QED BY <1>12, <1>13, <1>14, <3>1 DEF Reaches
    <2>2. /\ t.i \in Nat /\ t.i <= Len(t.word) /\ t.spelled \in Seq(Nat)
          /\ t.edit_dist \in Nat /\ Len(t.spelled) \in Nat
      BY <2>1, LenProperties DEF AnyScript
    <2>3. t.edit_dist <= g.limits.max_edit_distance /\ t.i <= Len(g.str)
      BY <2>1, <2>2 DEF IsAllowed
    <2>4. Len(t.spelled) <= most
      <3>1. PICK w \in Range(g.words) : \E n \in 0 .. Len(w) : t.spelled = SubSeq(w, 1, n)
        BY <2>1, NodesAreBeginnings DEF IsAllowed, IsSearch
      <3>2. PICK n \in 0 .. Len(w) : t.spelled = SubSeq(w, 1, n)
        BY <3>1
      <3>3. w \in Seq(Nat) /\ Len(w) \in Nat
        BY TrieFacts, LenProperties DEF IsSearch
      <3>4. Len(SubSeq(w, 0 + 1, n)) = n - 0
        BY <3>3, PartFacts
      <3>5. Len(t.spelled) = n /\ n <= Len(w)
        BY <3>2, <3>3, <3>4
      <3>6. Len(w) <= most /\ most \in Nat
        BY <1>2 DEF most
      <3> QED BY <3>3, <3>5, <3>6
    <2>5. longest >= Progress(t) /\ longest \in 0 .. longest
      <3>1. most \in Nat
        BY <1>2 DEF most
      <3> DEFINE spelled == Len(t.spelled)
                 given == Len(g.str)
                 distance == g.limits.max_edit_distance
      <3>2. /\ Progress(t) = t.i + spelled + t.edit_dist
            /\ longest = given + most + distance
        BY <1>6 DEF Progress
      <3>3. /\ spelled \in Nat /\ spelled <= most /\ t.i <= given
            /\ t.edit_dist <= distance /\ given \in Nat /\ distance \in Nat
        BY <1>2, <1>3, <1>6, <2>2, <2>3, <2>4, LenProperties DEF IsSearch
      <3> HIDE DEF spelled, given, distance, longest, most
      <3>4. longest >= Progress(t)
        BY <2>2, <3>1, <3>2, <3>3
      <3> QED BY <1>3, <3>4
    <2> QED BY <2>1, <2>5
  <1>15. ASSUME NEW t
         PROVE  t \in Scripts(g.str, Range(g.words), g.model, g.limits) <=>
                  Reaches(g, first, t) /\ IsFinal(g, t)
    <2>1. longest \in 0 .. longest
      BY <1>3
    <2> QED BY <1>1, <1>9, <1>14, <2>1 DEF IsFinal
  <1> QED BY <1>15 DEF first

(* The offers a call has made.                                             *)
Offer == [spelling : Seq(Nat), cost : Nat]
Offers == UNION {[ids -> Offer] : ids \in SUBSET Nat}

OneEdit(g) == g.limits.max_edit_distance < 2 * g.model.minimum

(* t is a script that makes a word of the spelling.                        *)
Spells(g, t) == Reaches(g, Untouched(g.str), t) /\ IsFinal(g, t)

IsRight(g, id, offer) ==
  /\ IsWordId(g.words, id, offer.spelling)
  /\ \E t : Spells(g, t) /\ t.spelled = offer.spelling /\ t.cost = offer.cost

AreRight(g, ret) ==
  /\ ret \in Offers
  /\ \A id \in DOMAIN ret : IsRight(g, id, ret[id])

Has(g, ret, t) ==
  \E id \in DOMAIN ret :
    ret[id].spelling = t.spelled /\ (OneEdit(g) => ret[id].cost <= t.cost)

IsMore(g, ret, more) == \A t \in AnyScript : Has(g, ret, t) => Has(g, more, t)

LEMMA OfferFacts ==
  ASSUME NEW ret \in Offers
  PROVE  /\ DOMAIN ret \subseteq Nat
         /\ \A id \in DOMAIN ret :
              ret[id] \in Offer /\ ret[id].spelling \in Seq(Nat) /\ ret[id].cost \in Nat
  BY DEF Offers, Offer

LEMMA WordIdsDiffer ==
  ASSUME NEW g, IsSearch(g), NEW id, NEW other, NEW s,
         IsWordId(g.words, id, s), IsWordId(g.words, other, s)
  PROVE  id = other
  <1>1. /\ Len(g.words) \in Nat /\ Len(g.nodes) \in Nat /\ Len(g.words) < Len(g.nodes)
        /\ \A k \in 1 .. Len(g.words) : g.nodes[k] = g.words[k]
        /\ \A k, m \in 1 .. Len(g.nodes) : g.nodes[k] = g.nodes[m] => k = m
    BY TrieFacts DEF IsSearch
  <1>2. /\ id + 1 \in 1 .. Len(g.words) /\ other + 1 \in 1 .. Len(g.words)
        /\ g.words[id + 1] = g.words[other + 1]
        /\ id \in Int /\ other \in Int
    BY <1>1 DEF IsWordId
  <1>3. id + 1 \in 1 .. Len(g.nodes) /\ other + 1 \in 1 .. Len(g.nodes)
    BY <1>1, <1>2
  <1>4. g.nodes[id + 1] = g.nodes[other + 1]
    BY <1>1, <1>2
  <1>5. id + 1 = other + 1
    BY <1>1, <1>3, <1>4
  <1> QED BY <1>2, <1>5

(* A word that is added is there, at its cost or a lower one.              *)
LEMMA OfferAdded ==
  ASSUME NEW g, IsSearch(g), NEW ret, AreRight(g, ret),
         NEW t, Spells(g, t), NEW id, IsWordId(g.words, id, t.spelled)
  PROVE  /\ AreRight(g, AddSimilarWord(ret, id, t.cost, t.spelled))
         /\ IsMore(g, ret, AddSimilarWord(ret, id, t.cost, t.spelled))
         /\ Has(g, AddSimilarWord(ret, id, t.cost, t.spelled), t)
  <1> DEFINE more == AddSimilarWord(ret, id, t.cost, t.spelled)
  <1>1. /\ t \in AnyScript /\ t.cost \in Nat /\ t.spelled \in Seq(Nat)
        /\ id \in Nat /\ DOMAIN ret \subseteq Nat
    <2>1. t \in AnyScript /\ Len(g.words) \in Nat
      BY TrieFacts DEF Spells, Reaches, IsSearch
    <2> QED BY <2>1, OfferFacts DEF AreRight, AnyScript, IsWordId
  <1>2. DOMAIN more = DOMAIN ret \union {id}
    BY DEF AddSimilarWord
  <1>3. ASSUME NEW known \in DOMAIN ret, known # id
        PROVE  more[known] = ret[known]
    BY <1>3 DEF AddSimilarWord
  <1>4. /\ more[id] \in Offer /\ more[id].spelling = t.spelled
        /\ more[id].cost <= t.cost
        /\ id \in DOMAIN ret => more[id].cost <= ret[id].cost
        /\ more[id].cost = t.cost \/ (id \in DOMAIN ret /\ more[id] = ret[id])
    <2>1. CASE id \in DOMAIN ret
      <3> DEFINE offer == ret[id]
      <3>1. offer \in Offer /\ offer.cost \in Nat /\ IsWordId(g.words, id, offer.spelling)
        BY <2>1, OfferFacts DEF AreRight, IsRight
      <3>2. offer.spelling = t.spelled
        BY <3>1 DEF IsWordId
      <3>3. more[id] = [offer EXCEPT !.cost = IF t.cost < offer.cost THEN t.cost
                                              ELSE offer.cost]
        BY <2>1 DEF AddSimilarWord
      <3> HIDE DEF more, offer
      <3>4. CASE t.cost < offer.cost
        <4>1. more[id] = [offer EXCEPT !.cost = t.cost]
          BY <3>3, <3>4
        <4>2. /\ more[id] \in Offer /\ more[id].spelling = offer.spelling
              /\ more[id].cost = t.cost
          BY <1>1, <3>1, <4>1 DEF Offer
        <4> QED BY <1>1, <3>1, <3>2, <3>4, <4>2 DEF offer
      <3>5. CASE ~(t.cost < offer.cost)
        <4>1. more[id] = offer
          BY <3>1, <3>3, <3>5 DEF Offer
        <4> QED BY <1>1, <2>1, <3>1, <3>2, <3>5, <4>1 DEF offer
      <3> QED BY <3>4, <3>5
    <2>2. CASE id \notin DOMAIN ret
      <3>1. more[id] = [spelling |-> t.spelled, cost |-> t.cost]
        BY <2>2 DEF AddSimilarWord
      <3> HIDE DEF more
      <3> QED BY <1>1, <2>2, <3>1 DEF Offer
    <2> QED BY <2>1, <2>2
  <1>5. more = [known \in DOMAIN more |-> more[known]]
    BY DEF AddSimilarWord
  <1> HIDE DEF more
  <1>6. AreRight(g, more)
    <2>1. \A known \in DOMAIN more : more[known] \in Offer
      BY <1>2, <1>3, <1>4, OfferFacts DEF AreRight
    <2>2. more \in Offers
      <3>1. DOMAIN more \in SUBSET Nat
        BY <1>1, <1>2
      <3>2. more \in [DOMAIN more -> Offer]
        BY <1>5, <2>1
      <3> QED BY <3>1, <3>2 DEF Offers
    <2>3. ASSUME NEW known \in DOMAIN more
          PROVE  IsRight(g, known, more[known])
      <3>1. CASE known # id
        BY <1>2, <1>3, <3>1 DEF AreRight
      <3>2. CASE known = id /\ more[id].cost = t.cost
        BY <1>4, <3>2 DEF IsRight
      <3>3. CASE known = id /\ id \in DOMAIN ret /\ more[id] = ret[id]
        BY <3>3 DEF AreRight
      <3> QED BY <1>4, <3>1, <3>2, <3>3
    <2> QED BY <2>2, <2>3 DEF AreRight
  <1>7. IsMore(g, ret, more)
    <2> SUFFICES ASSUME NEW u \in AnyScript, Has(g, ret, u) PROVE Has(g, more, u)
      BY DEF IsMore
    <2>1. PICK known \in DOMAIN ret :
            ret[known].spelling = u.spelled /\ (OneEdit(g) => ret[known].cost <= u.cost)
      BY DEF Has
    <2>2. CASE known # id
      BY <1>2, <1>3, <2>1, <2>2 DEF Has
    <2>3. CASE known = id
      <3>1. more[id].spelling = u.spelled
        BY <1>4, <2>1, <2>3 DEF AreRight, IsRight, IsWordId
      <3>2. OneEdit(g) => more[id].cost <= u.cost
        <4> SUFFICES ASSUME OneEdit(g) PROVE more[id].cost <= u.cost
          OBVIOUS
        <4>1. /\ u.cost \in Nat /\ ret[id].cost \in Nat /\ more[id].cost \in Nat
              /\ ret[id].cost <= u.cost /\ more[id].cost <= ret[id].cost
          BY <1>4, <2>1, <2>3, OfferFacts DEF AreRight, Offer, AnyScript
        <4> QED BY <4>1
      <3> QED BY <1>2, <3>1, <3>2 DEF Has
    <2> QED BY <2>2, <2>3
  <1>8. Has(g, more, t)
    BY <1>2, <1>4 DEF Has
  <1> QED BY <1>6, <1>7, <1>8 DEF more

(* A call of GetSimilarWords_impl and the script s it was made with.       *)
AnyFrame ==
  [edit_distance : Nat, cost : Nat, state : Nat, start : Nat, i : Nat,
   init_prefix_size : Nat, at : {"letter", "skip", "substitute", "add"},
   j : Nat, next_state : Nat \union {NONE}, ret : Offers]

FirstArc(g, state) == FirstLastIndexPair(g.lex, state)[1]
LastArc(g, state) == FirstLastIndexPair(g.lex, state)[2]

Now(f, s) == KeptTo(s, f.i)

IsCall(g, f, s) ==
  /\ f \in AnyFrame /\ s \in AnyScript
  /\ IsAllowed(g, s) /\ Reaches(g, Untouched(g.str), s)
  /\ f.edit_distance = s.edit_dist /\ f.cost = s.cost
  /\ f.start = s.i /\ f.init_prefix_size = Len(s.spelled)
  /\ f.i \in s.i .. Len(s.word)
  /\ f.state \in States(g.nodes) /\ g.nodes[f.state + 1] = Now(f, s).spelled
  /\ Reaches(g, s, Now(f, s))

(* Where in the loop's body it is.                                         *)
IsPlaced(g, f, s) ==
  /\ f.at \in {"skip", "substitute"} => f.i < Len(s.word)
  /\ f.at = "skip" => Len(s.word) > 1
  /\ f.at \in {"substitute", "add"} =>
       f.j \in FirstArc(g, f.state) .. LastArc(g, f.state) + 1

(* The edits of Now that are still to try; keeping the letter is the last. *)
IsUntried(g, f, n, u) ==
  \/ IsKeep(n, u)
  \/ f.at = "skip" /\ IsStep(g, n, u)
  \/ /\ f.at = "substitute" /\ f.i < Len(n.word)
     /\ \E k \in f.j .. LastArc(g, f.state) :
          CharOf(g.lex, k) # n.word[f.i + 1] /\ u = SubOf(g, n, CharOf(g.lex, k))
  \/ f.at = "substitute" /\ (IsSwap(g, n, u) \/ IsAdd(g, n, u))
  \/ /\ f.at = "add"
     /\ \E k \in f.j .. LastArc(g, f.state) : u = AddOf(g, n, CharOf(g.lex, k))

(* The edit that is tried.                                                 *)
IsOption(g, f, s) ==
  \/ f.at = "skip"
  \/ /\ f.at = "substitute" /\ f.j <= LastArc(g, f.state)
     /\ CharOf(g.lex, f.j) # s.word[f.i + 1]
  \/ f.at = "substitute" /\ f.j > LastArc(g, f.state) /\ f.i < Len(s.word) - 1
  \/ f.at = "add" /\ f.j <= LastArc(g, f.state)

OptionOf(g, f, s) ==
  IF f.at = "skip" THEN SkipOf(g, Now(f, s))
  ELSE IF f.at = "add" THEN AddOf(g, Now(f, s), CharOf(g.lex, f.j))
  ELSE IF f.j <= LastArc(g, f.state) THEN SubOf(g, Now(f, s), CharOf(g.lex, f.j))
  ELSE SwapOf(g, Now(f, s))

Appends(g, f) == f.at \in {"substitute", "add"} /\ f.j <= LastArc(g, f.state)
OptionState(g, f) == IF Appends(g, f) THEN TargetOf(g.lex, f.j) ELSE f.state

LEMMA NowFacts ==
  ASSUME NEW g, IsSearch(g), NEW f, NEW s, IsCall(g, f, s)
  PROVE  /\ Now(f, s) \in AnyScript /\ Now(f, s).word = s.word /\ Now(f, s).i = f.i
         /\ Now(f, s).edit_dist = f.edit_distance /\ Now(f, s).cost = f.cost
         /\ Now(f, s).spelled = g.nodes[f.state + 1]
         /\ IsAllowed(g, Now(f, s)) /\ Reaches(g, Untouched(g.str), Now(f, s))
         /\ s.word \in Seq(Nat) /\ Len(s.word) \in Nat /\ f.i \in Nat /\ f.i <= Len(s.word)
         /\ s.i \in Nat /\ f.state \in States(g.nodes)
  <1>1. f.i \in s.i .. Len(s.word) /\ s \in AnyScript
    BY DEF IsCall
  <1>2. s.word \in Seq(Nat) /\ Len(s.word) \in Nat /\ s.i \in Nat
    BY <1>1, LenProperties DEF AnyScript
  <1>3. /\ Now(f, s) \in AnyScript /\ Now(f, s).word = s.word /\ Now(f, s).i = f.i
        /\ Now(f, s).edit_dist = s.edit_dist /\ Now(f, s).cost = s.cost
    BY <1>1, KeptFacts DEF Now
  <1>4. /\ f.state \in States(g.nodes) /\ Now(f, s).spelled = g.nodes[f.state + 1]
        /\ IsAllowed(g, s) /\ f.edit_distance = s.edit_dist /\ f.cost = s.cost
    BY DEF IsCall
  <1>5. IsNode(g.nodes, Now(f, s).spelled)
    <2>1. f.state + 1 \in DOMAIN g.nodes
      BY <1>4, TrieFacts DEF IsSearch, States
    <2> QED BY <1>4, <2>1 DEF IsNode
  <1>6. IsAllowed(g, Now(f, s))
    BY <1>3, <1>4, <1>5 DEF IsAllowed
  <1>7. Reaches(g, Untouched(g.str), Now(f, s))
    BY ReachesThrough DEF IsCall
  <1> QED BY <1>1, <1>2, <1>3, <1>4, <1>6, <1>7

LEMMA ArcsOfNow ==
  ASSUME NEW g, IsSearch(g), NEW f, NEW s, IsCall(g, f, s)
  PROVE  /\ FirstArc(g, f.state) \in Nat /\ LastArc(g, f.state) \in Nat
         /\ FirstArc(g, f.state) <= LastArc(g, f.state) + 1
         /\ \A k \in FirstArc(g, f.state) .. LastArc(g, f.state) :
              /\ CharOf(g.lex, k) \in Nat /\ TargetOf(g.lex, k) \in States(g.nodes)
              /\ g.nodes[TargetOf(g.lex, k) + 1] = Append(Now(f, s).spelled, CharOf(g.lex, k))
              /\ CharOf(g.lex, k) \in LettersOf(g)
         /\ \A letter \in Nat :
              IsNode(g.nodes, Append(Now(f, s).spelled, letter)) =>
                \E k \in FirstArc(g, f.state) .. LastArc(g, f.state) :
                  CharOf(g.lex, k) = letter
         /\ \A j, k \in FirstArc(g, f.state) .. LastArc(g, f.state) :
              j < k => CharOf(g.lex, j) < CharOf(g.lex, k)
  <1> DEFINE arcs == FirstArc(g, f.state) .. LastArc(g, f.state)
             spelled == Now(f, s).spelled
  <1>1. /\ f.state \in States(g.nodes) /\ spelled = g.nodes[f.state + 1]
        /\ spelled \in Seq(Nat) /\ IsTrie(g.lex, g.words, g.nodes)
    BY NowFacts DEF AnyScript, IsSearch
  <1>2. arcs = ArcsFrom(g.lex, f.state)
    BY DEF ArcsFrom, FirstArc, LastArc
  <1>3. /\ FirstArc(g, f.state) \in Nat /\ LastArc(g, f.state) \in Nat
        /\ FirstArc(g, f.state) <= LastArc(g, f.state) + 1
    BY <1>1, ArcFacts DEF FirstArc, LastArc
  <1> HIDE DEF arcs, spelled
  <1>4. \A k \in arcs :
          /\ CharOf(g.lex, k) \in Nat /\ TargetOf(g.lex, k) \in States(g.nodes)
          /\ g.nodes[TargetOf(g.lex, k) + 1] = Append(spelled, CharOf(g.lex, k))
    <2>1. \A k \in ArcsFrom(g.lex, f.state) :
            /\ CharOf(g.lex, k) \in Nat /\ TargetOf(g.lex, k) \in States(g.nodes)
            /\ g.nodes[TargetOf(g.lex, k) + 1] = Append(g.nodes[f.state + 1], CharOf(g.lex, k))
      BY <1>1, ArcFacts
    <2> QED BY <1>1, <1>2, <2>1
  <1>5. /\ \A letter \in Nat :
             IsNode(g.nodes, Append(spelled, letter)) => \E k \in arcs : CharOf(g.lex, k) = letter
        /\ \A j, k \in arcs : j < k => CharOf(g.lex, j) < CharOf(g.lex, k)
    <2>1. \A letter \in Nat :
            IsNode(g.nodes, Append(g.nodes[f.state + 1], letter)) =>
              \E k \in ArcsFrom(g.lex, f.state) : CharOf(g.lex, k) = letter
      BY <1>1, ArcFacts
    <2>2. \A j, k \in ArcsFrom(g.lex, f.state) :
            j < k => CharOf(g.lex, j) < CharOf(g.lex, k)
      BY <1>1, ArcFacts
    <2> QED BY <1>1, <1>2, <2>1, <2>2
  <1>6. ASSUME NEW k \in arcs
        PROVE  CharOf(g.lex, k) \in LettersOf(g)
    <2>1. TargetOf(g.lex, k) + 1 \in DOMAIN g.nodes
      BY <1>1, <1>4, TrieFacts DEF States
    <2>2. IsNode(g.nodes, Append(spelled, CharOf(g.lex, k)))
      BY <1>4, <2>1 DEF IsNode
    <2>3. CharOf(g.lex, k) \in Nat
      BY <1>4
    <2>4. \E w \in Range(g.words) : CharOf(g.lex, k) \in Range(w)
      BY <1>1, <2>2, <2>3, BeginningsOfNodes
    <2> QED BY <2>4 DEF LettersOf
  <1> QED BY <1>3, <1>4, <1>5, <1>6 DEF arcs, spelled

(* The edit that is tried is a step, and leads to the node of its state.   *)
LEMMA OptionFacts ==
  ASSUME NEW g, IsSearch(g), NEW f, NEW s, IsCall(g, f, s), IsPlaced(g, f, s),
         IsOption(g, f, s)
  PROVE  /\ IsStep(g, Now(f, s), OptionOf(g, f, s))
         /\ OptionOf(g, f, s) \in AnyScript
         /\ OptionState(g, f) \in States(g.nodes)
         /\ g.nodes[OptionState(g, f) + 1] = OptionOf(g, f, s).spelled
         /\ OptionOf(g, f, s).edit_dist >= f.edit_distance + g.model.minimum
  <1> DEFINE n == Now(f, s)
             u == OptionOf(g, f, s)
             first == FirstArc(g, f.state)
             last == LastArc(g, f.state)
  <1> SUFFICES /\ IsStep(g, n, u) /\ u \in AnyScript
               /\ OptionState(g, f) \in States(g.nodes)
               /\ g.nodes[OptionState(g, f) + 1] = u.spelled
               /\ u.edit_dist >= f.edit_distance + g.model.minimum
    OBVIOUS
  <1>1. /\ n \in AnyScript /\ n.word = s.word /\ n.i = f.i /\ n.edit_dist = f.edit_distance
        /\ n.spelled = g.nodes[f.state + 1] /\ n.spelled \in Seq(Nat)
        /\ f.state \in States(g.nodes)
        /\ Len(s.word) \in Nat /\ f.i \in Nat
    BY NowFacts DEF AnyScript
  <1>2. /\ first \in Nat /\ last \in Nat
        /\ \A k \in first .. last :
              /\ CharOf(g.lex, k) \in Nat /\ TargetOf(g.lex, k) \in States(g.nodes)
              /\ g.nodes[TargetOf(g.lex, k) + 1] = Append(n.spelled, CharOf(g.lex, k))
              /\ CharOf(g.lex, k) \in LettersOf(g)
    BY ArcsOfNow
  <1>3. /\ f.at \in {"skip", "substitute"} => f.i < Len(s.word)
        /\ f.at = "skip" => Len(s.word) > 1
        /\ f.at \in {"substitute", "add"} => f.j \in first .. last + 1
    BY DEF IsPlaced
  <1>4. Appends(g, f) => f.j \in first .. last
    BY <1>2, <1>3 DEF Appends
  <1> HIDE DEF first, last, n
  <1>5. n.spelled \o <<>> = n.spelled
    BY <1>1, ConcatEmptySeq
  <1>6. IsChange(g, n, u) =>
           /\ IsStep(g, n, u) /\ u \in AnyScript
           /\ u.edit_dist >= f.edit_distance + g.model.minimum
    BY <1>1, StepFacts DEF IsChange, IsStep, IsLater
  <1> HIDE DEF u
  <1>7. CASE f.at = "skip"
    <2>1. u = SkipOf(g, n)
      BY <1>7 DEF OptionOf, n, u
    <2>2. IsSkip(g, n, u)
      BY <1>1, <1>3, <1>7, <2>1 DEF IsSkip
    <2>3. u.spelled = n.spelled /\ ~Appends(g, f)
      BY <1>5, <1>7, <2>1 DEF SkipOf, Moved, Appends
    <2>4. IsChange(g, n, u)
      BY <2>2 DEF IsChange
    <2> QED BY <1>1, <2>3, <2>4, <1>6 DEF OptionState
  <1>8. CASE f.at = "substitute" /\ f.j <= last
    <2> DEFINE letter == CharOf(g.lex, f.j)
    <2>1. u = SubOf(g, n, letter)
      <3>1. f.at # "skip" /\ f.at # "add" /\ f.j <= LastArc(g, f.state)
        BY <1>8 DEF last
      <3> QED BY <3>1 DEF OptionOf, n, u
    <2>2. letter \in LettersOf(g) /\ letter # n.word[n.i + 1]
      BY <1>1, <1>2, <1>4, <1>8 DEF IsOption, Appends, last
    <2>3. n.i < Len(n.word)
      BY <1>1, <1>3, <1>8
    <2>4. IsChange(g, n, u)
      BY <2>1, <2>2, <2>3 DEF IsChange, IsSub
    <2>5. Appends(g, f) /\ u.spelled = n.spelled \o <<letter>>
      BY <1>8, <2>1 DEF Appends, SubOf, Moved, last
    <2>6. u.spelled = Append(n.spelled, letter)
      BY <1>1, <1>2, <1>4, <2>5, AppendFacts
    <2> QED BY <1>2, <1>4, <1>6, <2>4, <2>5, <2>6 DEF OptionState
  <1>9. CASE f.at = "substitute" /\ f.j > last
    <2>1. u = SwapOf(g, n)
      <3>1. ~(f.j <= last) /\ f.at # "skip"
        BY <1>2, <1>3, <1>9
      <3> QED BY <1>9, <3>1 DEF OptionOf, n, u, last
    <2>2. IsSwap(g, n, u)
      <3>1. ~(f.j <= last) /\ f.at # "skip" /\ f.at # "add"
        BY <1>2, <1>3, <1>9
      <3> QED BY <1>1, <2>1, <3>1 DEF IsSwap, IsOption, last
    <2>3. IsChange(g, n, u)
      BY <2>2 DEF IsChange
    <2>4. u.spelled = n.spelled /\ ~Appends(g, f)
      <3>1. ~(f.j <= last)
        BY <1>2, <1>3, <1>9
      <3> QED BY <1>5, <2>1, <3>1 DEF SwapOf, Moved, Appends, last
    <2> QED BY <1>1, <1>6, <2>3, <2>4 DEF OptionState
  <1>10. CASE f.at = "add"
    <2> DEFINE letter == CharOf(g.lex, f.j)
    <2>1. u = AddOf(g, n, letter)
      BY <1>10 DEF OptionOf, n, u
    <2>2. f.j <= last
      BY <1>10 DEF IsOption, last
    <2>3. Appends(g, f) /\ letter \in LettersOf(g)
      BY <1>2, <1>4, <1>10, <2>2 DEF Appends, last
    <2>4. IsChange(g, n, u)
      BY <2>1, <2>3 DEF IsChange, IsAdd
    <2>5. u.spelled = n.spelled \o <<letter>>
      BY <2>1 DEF AddOf, Moved
    <2>6. u.spelled = Append(n.spelled, letter)
      BY <1>1, <1>2, <1>4, <2>3, <2>5, AppendFacts
    <2> QED BY <1>2, <1>4, <1>6, <2>3, <2>4, <2>6 DEF OptionState
  <1> QED BY <1>7, <1>8, <1>9, <1>10 DEF IsOption, n, u, last

(* next_state is where the letter leads to, as far as it was looked for.   *)
IsPassed(g, f, letter) ==
  \A k \in FirstArc(g, f.state) .. LastArc(g, f.state) :
    (f.at = "substitute" => k < f.j) => CharOf(g.lex, k) # letter

IsNextState(g, f, s) ==
  /\ f.i < Len(s.word) /\ f.next_state \in States(g.nodes)
  /\ g.nodes[f.next_state + 1] = Append(Now(f, s).spelled, s.word[f.i + 1])

KnowsNext(g, f, s) ==
  \/ f.at = "letter"
  \/ f.next_state # NONE /\ IsNextState(g, f, s)
  \/ f.next_state = NONE /\ f.at = "skip"
  \/ /\ f.next_state = NONE /\ f.at \in {"substitute", "add"}
     /\ f.i < Len(s.word) => IsPassed(g, f, s.word[f.i + 1])

(* Every word that scripts make after s is among the offers of the call,   *)
(* or such a script has an edit here that is still to try.                 *)
IsLeft(g, f, s, t) ==
  IF f.at = "letter" THEN Reaches(g, Now(f, s), t)
  ELSE \E u \in AnyScript :
         IsUntried(g, f, Now(f, s), u) /\ Follows(g, Now(f, s), u) /\ Reaches(g, u, t)

IsComplete(g, f, s) ==
  \A t : Reaches(g, s, t) /\ IsFinal(g, t) => Has(g, f.ret, t) \/ IsLeft(g, f, s, t)

IsFrame(g, f, s) ==
  /\ IsCall(g, f, s) /\ IsPlaced(g, f, s) /\ KnowsNext(g, f, s)
  /\ AreRight(g, f.ret) /\ IsComplete(g, f, s)

IsServed(g, u, ret) == \A t : Reaches(g, u, t) /\ IsFinal(g, t) => Has(g, ret, t)

(* The call goes on with the next edit.                                    *)
IsSameCall(f, f2) ==
  /\ f2 \in AnyFrame
  /\ f2.edit_distance = f.edit_distance /\ f2.cost = f.cost
  /\ f2.start = f.start /\ f2.init_prefix_size = f.init_prefix_size

ToOtherLoop(g, f) ==
  f.at = "skip" \/ (f.at = "substitute" /\ f.j > LastArc(g, f.state))

IsAfter(g, f, f2) ==
  /\ IsSameCall(f, f2) /\ f2.i = f.i /\ f2.state = f.state
  /\ f2.at = (IF f.at = "skip" THEN "substitute"
              ELSE IF ToOtherLoop(g, f) THEN "add" ELSE f.at)
  /\ f2.j = (IF ToOtherLoop(g, f) THEN FirstArc(g, f.state) ELSE f.j + 1)

LEMMA CallGoesOn ==
  ASSUME NEW g, NEW f, NEW s, IsCall(g, f, s), NEW f2, IsSameCall(f, f2),
         f2.i = f.i, f2.state = f.state
  PROVE  IsCall(g, f2, s) /\ Now(f2, s) = Now(f, s)
  <1>1. Now(f2, s) = Now(f, s)
    BY DEF Now
  <1> QED BY <1>1 DEF IsCall, IsSameCall

LEMMA FollowedArcs ==
  ASSUME NEW g, IsSearch(g), NEW f, NEW s, IsCall(g, f, s),
         NEW u, Follows(g, Now(f, s), u)
  PROVE  /\ IsAdd(g, Now(f, s), u) =>
              \E k \in FirstArc(g, f.state) .. LastArc(g, f.state) :
                u = AddOf(g, Now(f, s), CharOf(g.lex, k))
         /\ IsSub(g, Now(f, s), u) =>
              \E k \in FirstArc(g, f.state) .. LastArc(g, f.state) :
                /\ CharOf(g.lex, k) # s.word[f.i + 1]
                /\ u = SubOf(g, Now(f, s), CharOf(g.lex, k))
  <1> DEFINE n == Now(f, s)
             arcs == FirstArc(g, f.state) .. LastArc(g, f.state)
  <1> SUFFICES /\ IsAdd(g, n, u) => \E k \in arcs : u = AddOf(g, n, CharOf(g.lex, k))
               /\ IsSub(g, n, u) =>
                    \E k \in arcs : /\ CharOf(g.lex, k) # s.word[f.i + 1]
                                    /\ u = SubOf(g, n, CharOf(g.lex, k))
    OBVIOUS
  <1>1. n.spelled \in Seq(Nat) /\ n.word = s.word /\ n.i = f.i
    BY NowFacts DEF AnyScript
  <1>2. \A letter \in Nat : IsNode(g.nodes, Append(n.spelled, letter)) =>
          \E k \in arcs : CharOf(g.lex, k) = letter
    BY ArcsOfNow
  <1>3. IsNode(g.nodes, u.spelled)
    BY DEF Follows, IsAllowed
  <1> HIDE DEF n, arcs
  <1>4. ASSUME NEW letter \in LettersOf(g), u.spelled = n.spelled \o <<letter>>
        PROVE  \E k \in arcs : CharOf(g.lex, k) = letter
    <2>1. letter \in Nat
      BY LettersAreNumbers
    <2>2. IsNode(g.nodes, Append(n.spelled, letter))
      BY <1>1, <1>3, <1>4, <2>1, AppendFacts
    <2> QED BY <1>2, <2>1, <2>2
  <1>5. ASSUME IsAdd(g, n, u) PROVE \E k \in arcs : u = AddOf(g, n, CharOf(g.lex, k))
    <2>1. PICK letter \in LettersOf(g) : u = AddOf(g, n, letter)
      BY <1>5 DEF IsAdd
    <2>2. u.spelled = n.spelled \o <<letter>>
      BY <2>1 DEF AddOf, Moved
    <2> QED BY <1>4, <2>1, <2>2
  <1>6. ASSUME IsSub(g, n, u)
        PROVE  \E k \in arcs : /\ CharOf(g.lex, k) # s.word[f.i + 1]
                               /\ u = SubOf(g, n, CharOf(g.lex, k))
    <2>1. PICK letter \in LettersOf(g) : letter # n.word[n.i + 1] /\ u = SubOf(g, n, letter)
      BY <1>6 DEF IsSub
    <2>2. u.spelled = n.spelled \o <<letter>>
      BY <2>1 DEF SubOf, Moved
    <2> QED BY <1>1, <1>4, <2>1, <2>2
  <1> QED BY <1>5, <1>6

LEMMA UntriedLater ==
  ASSUME NEW g, IsSearch(g), NEW f, NEW s, IsCall(g, f, s), IsPlaced(g, f, s),
         NEW f2, IsAfter(g, f, f2), f.at # "letter",
         NEW u, IsUntried(g, f, Now(f, s), u), Follows(g, Now(f, s), u)
  PROVE  IsUntried(g, f2, Now(f, s), u) \/ (IsOption(g, f, s) /\ u = OptionOf(g, f, s))
  <1> DEFINE n == Now(f, s)
             first == FirstArc(g, f.state)
             last == LastArc(g, f.state)
             Untried == IsUntried(g, f2, n, u)
             Option == IsOption(g, f, s) /\ u = OptionOf(g, f, s)
  <1> SUFFICES Untried \/ Option
    OBVIOUS
  <1>1. /\ n \in AnyScript /\ n.word = s.word /\ n.i = f.i
        /\ n.spelled \in Seq(Nat)
        /\ Len(s.word) \in Nat /\ f.i \in Nat
    BY NowFacts DEF AnyScript
  <1>2. /\ first \in Nat /\ last \in Nat
    BY ArcsOfNow
  <1>3. /\ f.at \in {"skip", "substitute"} => f.i < Len(s.word)
        /\ f.at \in {"substitute", "add"} => f.j \in first .. last + 1
    BY DEF IsPlaced
  <1>4. f2.i = f.i /\ f2.state = f.state
    BY DEF IsAfter
  <1>5. IsNode(g.nodes, u.spelled) /\ IsStep(g, n, u)
    BY DEF Follows, IsAllowed
  <1>6. IsKeep(n, u) => Untried
    BY DEF IsUntried
  <1>7. IsAdd(g, n, u) => \E k \in first .. last : u = AddOf(g, n, CharOf(g.lex, k))
    BY FollowedArcs
  <1>8. IsSub(g, n, u) => \E k \in first .. last : /\ CharOf(g.lex, k) # n.word[f.i + 1]
                                                  /\ u = SubOf(g, n, CharOf(g.lex, k))
    BY <1>1, FollowedArcs
  <1>9. CASE f.at = "skip"
    <2>1. f2.at = "substitute" /\ f2.j = first /\ f.i < Len(n.word)
      BY <1>1, <1>3, <1>9 DEF IsAfter, ToOtherLoop, first
    <2>2. IsSkip(g, n, u) => Option
      BY <1>9 DEF IsSkip, IsOption, OptionOf, n
    <2>3. IsSwap(g, n, u) \/ IsAdd(g, n, u) => Untried
      BY <2>1 DEF IsUntried
    <2>4. IsSub(g, n, u) => Untried
      BY <1>1, <1>4, <1>8, <2>1 DEF IsUntried, last
    <2> HIDE DEF n, Untried, Option
    <2> QED BY <1>5, <1>6, <2>2, <2>3, <2>4 DEF IsStep
  <1>10. CASE f.at = "substitute" /\ f.j <= last
    <2>0. f.j \in first .. last /\ f.j \in Nat
      BY <1>2, <1>3, <1>10
    <2>1. f2.at = "substitute" /\ f2.j = f.j + 1 /\ f.i < Len(n.word)
      <3>1. ~ToOtherLoop(g, f) /\ f.at = "substitute"
        BY <1>2, <1>10, <2>0 DEF ToOtherLoop, last
      <3> QED BY <1>1, <1>3, <3>1 DEF IsAfter
    <2>2. IsSwap(g, n, u) \/ IsAdd(g, n, u) => Untried
      BY <2>1 DEF IsUntried
    <2>3. ASSUME NEW k \in f.j .. last, CharOf(g.lex, k) # n.word[f.i + 1],
                 u = SubOf(g, n, CharOf(g.lex, k))
          PROVE  Untried \/ Option
      <3>1. CASE k = f.j
        <4>1. f.at # "skip" /\ f.at # "add" /\ f.j <= LastArc(g, f.state)
          BY <1>10 DEF last
        <4>2. u = OptionOf(g, f, s)
          BY <2>3, <3>1, <4>1 DEF OptionOf, n
        <4>3. IsOption(g, f, s)
          BY <1>1, <1>10, <2>3, <3>1 DEF IsOption, last
        <4> QED BY <4>2, <4>3
      <3>2. CASE k # f.j
        <4>1. k \in f2.j .. last
          BY <1>2, <2>0, <2>1, <3>2
        <4> QED BY <1>4, <2>1, <2>3, <4>1 DEF IsUntried, last
      <3> QED BY <3>1, <3>2
    <2>4. \/ IsKeep(n, u) \/ IsSwap(g, n, u) \/ IsAdd(g, n, u)
          \/ \E k \in f.j .. last :
               CharOf(g.lex, k) # n.word[f.i + 1] /\ u = SubOf(g, n, CharOf(g.lex, k))
      BY <1>10 DEF IsUntried, last
    <2> HIDE DEF n, last, Untried, Option
    <2> QED BY <1>6, <2>2, <2>3, <2>4
  <1>11. CASE f.at = "substitute" /\ f.j > last
    <2>1. f2.at = "add" /\ f2.j = first
      <3>1. ToOtherLoop(g, f) /\ f.at # "skip"
        BY <1>11 DEF ToOtherLoop, last
      <3> QED BY <3>1 DEF IsAfter, first
    <2>2. IsSwap(g, n, u) => Option
      <3> SUFFICES ASSUME IsSwap(g, n, u) PROVE Option
        OBVIOUS
      <3>1. f.at # "skip" /\ f.at # "add" /\ ~(f.j <= LastArc(g, f.state))
        BY <1>2, <1>3, <1>11 DEF last
      <3>2. u = OptionOf(g, f, s)
        BY <3>1 DEF OptionOf, IsSwap, n
      <3>3. f.i < Len(s.word) - 1
        BY <1>1 DEF IsSwap
      <3> QED BY <1>11, <3>2, <3>3 DEF IsOption, last
    <2>3. IsAdd(g, n, u) => Untried
      BY <1>4, <1>7, <2>1 DEF IsUntried, last
    <2>4. \/ IsKeep(n, u) \/ IsSwap(g, n, u) \/ IsAdd(g, n, u)
          \/ \E k \in f.j .. last : TRUE
      BY <1>11 DEF IsUntried, last
    <2>5. ~\E k \in f.j .. last : TRUE
      BY <1>2, <1>3, <1>11
    <2> HIDE DEF n, last, Untried, Option
    <2> QED BY <1>6, <2>2, <2>3, <2>4, <2>5
  <1>12. CASE f.at = "add"
    <2>1. f2.at = "add" /\ f2.j = f.j + 1 /\ f.j \in Nat
      BY <1>2, <1>3, <1>12 DEF IsAfter, ToOtherLoop
    <2>2. ASSUME NEW k \in f.j .. last, u = AddOf(g, n, CharOf(g.lex, k))
          PROVE  Untried \/ Option
      <3>1. CASE k = f.j
        <4>1. f.j <= LastArc(g, f.state)
          BY <1>2, <2>1, <3>1 DEF last
        <4> QED BY <1>12, <2>2, <3>1, <4>1 DEF OptionOf, IsOption, n
      <3>2. CASE k # f.j
        <4>1. k \in f2.j .. last
          BY <1>2, <2>1, <3>2
        <4> QED BY <1>4, <2>1, <2>2, <4>1 DEF IsUntried, last
      <3> QED BY <3>1, <3>2
    <2>3. IsKeep(n, u) \/ \E k \in f.j .. last : u = AddOf(g, n, CharOf(g.lex, k))
      BY <1>12 DEF IsUntried, last
    <2> HIDE DEF n, last, Untried, Option
    <2> QED BY <1>6, <2>2, <2>3
  <1>13. /\ f.at \in {"letter", "skip", "substitute", "add"}
         /\ f.at = "substitute" => f.j \in Nat
    BY <1>2, <1>3 DEF IsCall, AnyFrame
  <1> HIDE DEF n, first, last, Untried, Option
  <1> QED BY <1>2, <1>9, <1>10, <1>11, <1>12, <1>13

LEMMA LaterPlaced ==
  ASSUME NEW g, IsSearch(g), NEW f, NEW s, IsCall(g, f, s), IsPlaced(g, f, s),
         f.at # "letter", f.at = "add" => f.j <= LastArc(g, f.state),
         NEW f2, IsAfter(g, f, f2)
  PROVE  IsPlaced(g, f2, s) /\ IsCall(g, f2, s) /\ f2.at # "letter" /\ Now(f2, s) = Now(f, s)
  <1> DEFINE first == FirstArc(g, f.state)
             last == LastArc(g, f.state)
  <1>1. first \in Nat /\ last \in Nat /\ first <= last + 1
    BY ArcsOfNow
  <1>2. /\ f.at \in {"skip", "substitute"} => f.i < Len(s.word)
        /\ f.at \in {"substitute", "add"} => f.j \in first .. last + 1
    BY DEF IsPlaced
  <1>3. f2.i = f.i /\ f2.state = f.state /\ IsSameCall(f, f2)
    BY DEF IsAfter
  <1>4. IsCall(g, f2, s) /\ Now(f2, s) = Now(f, s)
    BY <1>3, CallGoesOn
  <1>5. f.at \in {"letter", "skip", "substitute", "add"}
    BY DEF IsCall, AnyFrame
  <1>6. CASE ToOtherLoop(g, f)
    <2>1. f2.j = first /\ f2.at \in {"substitute", "add"}
      BY <1>6 DEF IsAfter, first
    <2>2. f2.j \in first .. last + 1
      BY <1>1, <2>1
    <2>3. f2.at = "substitute" => f.i < Len(s.word)
      BY <1>2, <1>6 DEF IsAfter, ToOtherLoop
    <2> QED BY <1>3, <1>4, <2>1, <2>2, <2>3 DEF IsPlaced, first, last
  <1>7. CASE ~ToOtherLoop(g, f)
    <2>1. f2.at = f.at /\ f2.j = f.j + 1 /\ f.at \in {"substitute", "add"}
      BY <1>5, <1>7 DEF IsAfter, ToOtherLoop
    <2>2. f.j \in first .. last + 1 /\ f.j <= last
      <3>1. f.at = "substitute" => ~(f.j > last)
        BY <1>7 DEF ToOtherLoop, last
      <3> QED BY <1>1, <1>2, <2>1, <3>1 DEF last
    <2>3. f2.j \in first .. last + 1
      BY <1>1, <2>1, <2>2
    <2>4. f2.at = "substitute" => f.i < Len(s.word)
      BY <1>2, <2>1
    <2> QED BY <1>3, <1>4, <2>1, <2>3, <2>4 DEF IsPlaced, first, last
  <1> QED BY <1>6, <1>7

(* The frame goes on: what the edit could lead to is among the offers.     *)
LEMMA FrameGoesOn ==
  ASSUME NEW g, IsSearch(g), NEW f, NEW s, IsFrame(g, f, s),
         f.at # "letter", f.at = "add" => f.j <= LastArc(g, f.state),
         NEW f2, IsAfter(g, f, f2), KnowsNext(g, f2, s),
         AreRight(g, f2.ret), IsMore(g, f.ret, f2.ret),
         IsOption(g, f, s) /\ IsAllowed(g, OptionOf(g, f, s)) =>
           IsServed(g, OptionOf(g, f, s), f2.ret)
  PROVE  IsFrame(g, f2, s)
  <1>1. /\ IsPlaced(g, f2, s) /\ IsCall(g, f2, s) /\ f2.at # "letter"
        /\ Now(f2, s) = Now(f, s)
    BY LaterPlaced DEF IsFrame
  <1>2. ASSUME NEW t, Reaches(g, s, t), IsFinal(g, t)
        PROVE  Has(g, f2.ret, t) \/ IsLeft(g, f2, s, t)
    <2>1. Has(g, f.ret, t) \/ IsLeft(g, f, s, t)
      BY <1>2 DEF IsFrame, IsComplete
    <2>2. CASE Has(g, f.ret, t)
      BY <1>2, <2>2 DEF IsMore, Reaches
    <2>3. CASE IsLeft(g, f, s, t)
      <3>1. PICK u \in AnyScript :
              IsUntried(g, f, Now(f, s), u) /\ Follows(g, Now(f, s), u) /\ Reaches(g, u, t)
        BY <2>3 DEF IsLeft
      <3>2. IsUntried(g, f2, Now(f, s), u) \/ (IsOption(g, f, s) /\ u = OptionOf(g, f, s))
        BY <3>1, UntriedLater DEF IsFrame
      <3>3. CASE IsUntried(g, f2, Now(f, s), u)
        BY <1>1, <3>1, <3>3 DEF IsLeft
      <3>4. CASE IsOption(g, f, s) /\ u = OptionOf(g, f, s)
        <4>1. IsAllowed(g, u)
          BY <3>1 DEF Follows
        <4>2. IsServed(g, u, f2.ret)
          BY <3>4, <4>1
        <4> QED BY <1>2, <3>1, <4>2 DEF IsServed
      <3> QED BY <3>2, <3>3, <3>4
    <2> QED BY <2>1, <2>2, <2>3
  <1>3. IsComplete(g, f2, s)
    BY <1>2 DEF IsComplete
  <1> QED BY <1>1, <1>3 DEF IsFrame

LEMMA NextIsKnown ==
  ASSUME NEW g, IsSearch(g), NEW f, NEW s, IsFrame(g, f, s), IsOption(g, f, s),
         NEW f2, IsAfter(g, f, f2), f2.next_state = f.next_state
  PROVE  KnowsNext(g, f2, s)
  <1> DEFINE last == LastArc(g, f.state)
  <1>1. f2.i = f.i /\ f2.state = f.state /\ Now(f2, s) = Now(f, s)
    BY DEF IsAfter, Now
  <1>2. f.at \in {"skip", "substitute", "add"}
    BY DEF IsOption
  <1>3. f2.at \in {"substitute", "add"}
    BY <1>2 DEF IsAfter, ToOtherLoop
  <1>4. CASE f.next_state # NONE
    BY <1>1, <1>2, <1>4 DEF KnowsNext, IsFrame, IsNextState
  <1>5. CASE f.next_state = NONE
    <2> SUFFICES ASSUME f.i < Len(s.word),
                        NEW k \in FirstArc(g, f.state) .. LastArc(g, f.state),
                        f2.at = "substitute" => k < f2.j
                 PROVE  CharOf(g.lex, k) # s.word[f.i + 1]
      BY <1>1, <1>3, <1>5 DEF KnowsNext, IsPassed
    <2>1. /\ FirstArc(g, f.state) \in Nat /\ LastArc(g, f.state) \in Nat
          /\ f.at \in {"substitute", "add"} =>
               f.j \in FirstArc(g, f.state) .. LastArc(g, f.state) + 1
      BY ArcsOfNow DEF IsFrame, IsPlaced
    <2>2. CASE f.at = "skip"
      <3>1. f2.at = "substitute" /\ f2.j = FirstArc(g, f.state)
        BY <2>2 DEF IsAfter, ToOtherLoop
      <3> QED BY <2>1, <3>1
    <2>3. CASE f.at = "substitute" /\ f.j <= last
      <3>1. f2.at = "substitute" /\ f2.j = f.j + 1
        BY <2>1, <2>3 DEF IsAfter, ToOtherLoop
      <3>2. CharOf(g.lex, f.j) # s.word[f.i + 1]
        <4>1. ~(f.j > LastArc(g, f.state)) /\ f.at = "substitute"
          BY <2>1, <2>3
        <4> QED BY <4>1 DEF IsOption
      <3>3. k < f.j => CharOf(g.lex, k) # s.word[f.i + 1]
        BY <1>5, <2>3 DEF IsFrame, KnowsNext, IsPassed
      <3>4. k < f.j \/ k = f.j
        BY <2>1, <2>3, <3>1
      <3> QED BY <3>2, <3>3, <3>4
    <2>4. CASE f.at = "substitute" /\ f.j > last
      <3>1. k < f.j
        BY <2>1, <2>4
      <3> QED BY <1>5, <2>4, <3>1 DEF IsFrame, KnowsNext, IsPassed
    <2>5. CASE f.at = "add"
      BY <1>5, <2>5 DEF IsFrame, KnowsNext, IsPassed
    <2>6. f.at = "substitute" => f.j \in Nat
      BY <2>1
    <2> QED BY <1>2, <2>1, <2>2, <2>3, <2>4, <2>5, <2>6
  <1> QED BY <1>4, <1>5

(* An edit is tried: the offers are now those it leads to, and all there   *)
(* were.                                                                   *)
LEMMA OptionTried ==
  ASSUME NEW g, IsSearch(g), NEW f, NEW s, IsFrame(g, f, s), IsOption(g, f, s),
         NEW f2, IsAfter(g, f, f2), f2.next_state = f.next_state,
         AreRight(g, f2.ret), IsMore(g, f.ret, f2.ret),
         IsAllowed(g, OptionOf(g, f, s)) => IsServed(g, OptionOf(g, f, s), f2.ret)
  PROVE  IsFrame(g, f2, s)
  <1>1. KnowsNext(g, f2, s)
    BY NextIsKnown
  <1>2. f.at # "letter" /\ (f.at = "add" => f.j <= LastArc(g, f.state))
    BY DEF IsOption
  <1> QED BY <1>1, <1>2, FrameGoesOn

(* After an edit the rest of the word is looked for as it is.              *)
IsAt(g, state, u) ==
  /\ u \in AnyScript /\ IsAllowed(g, u) /\ Reaches(g, Untouched(g.str), u)
  /\ state \in States(g.nodes) /\ g.nodes[state + 1] = u.spelled

RestAdded(g, ret, state, u) ==
  LET id == ContainsSuffix(g.lex, state, u.word, u.i)
  IN  IF id = NONE THEN ret
      ELSE AddSimilarWord(ret, id, u.cost,
                          u.spelled \o SubSeq(u.word, u.i + 1, Len(u.word)))

LEMMA RestIsAdded ==
  ASSUME NEW g, IsSearch(g), NEW ret, AreRight(g, ret),
         NEW state, NEW u, IsAt(g, state, u)
  PROVE  /\ AreRight(g, RestAdded(g, ret, state, u))
         /\ IsMore(g, ret, RestAdded(g, ret, state, u))
         /\ u.edit_dist + g.model.minimum > g.limits.max_edit_distance =>
              IsServed(g, u, RestAdded(g, ret, state, u))
  <1> DEFINE id == ContainsSuffix(g.lex, state, u.word, u.i)
             last == KeptTo(u, Len(u.word))
             more == RestAdded(g, ret, state, u)
  <1>1. /\ u \in AnyScript /\ u.word \in Seq(Nat) /\ Len(u.word) \in Nat /\ u.i \in Nat
        /\ u.i \in 0 .. Len(u.word) /\ Len(u.word) \in u.i .. Len(u.word)
    <2>1. u \in AnyScript /\ u.word \in Seq(Nat) /\ u.i \in Nat /\ u.i <= Len(u.word)
      BY DEF IsAt, AnyScript
    <2>2. Len(u.word) \in Nat
      BY <2>1, LenProperties
    <2> QED BY <2>1, <2>2
  <1>2. /\ last \in AnyScript /\ last.word = u.word /\ last.i = Len(u.word)
        /\ last.spelled = u.spelled \o SubSeq(u.word, u.i + 1, Len(u.word))
        /\ last.cost = u.cost
    BY <1>1, KeptFacts
  <1>3. \/ id = NONE /\ last.spelled \notin Range(g.words)
        \/ IsWordId(g.words, id, last.spelled)
    <2>1. /\ IsTrie(g.lex, g.words, g.nodes) /\ state \in States(g.nodes)
          /\ g.nodes[state + 1] = u.spelled
      BY DEF IsSearch, IsAt
    <2> QED BY <1>1, <1>2, <2>1, ContainsSuffixFinds
  <1>4. more = IF id = NONE THEN ret ELSE AddSimilarWord(ret, id, last.cost, last.spelled)
    BY <1>2 DEF RestAdded
  <1>5. ASSUME NEW t, Reaches(g, u, t), IsFinal(g, t),
               u.edit_dist + g.model.minimum > g.limits.max_edit_distance
        PROVE  t = last
    <2>1. PICK i \in u.i .. Len(u.word) : t = KeptTo(u, i)
      BY <1>1, <1>5, OnlyKeptAreReached
    <2>2. t.i = i /\ t.word = u.word
      BY <1>1, <2>1, KeptFacts
    <2>3. i = Len(u.word)
      BY <1>5, <2>2 DEF IsFinal
    <2> QED BY <2>1, <2>3
  <1> HIDE DEF id, last, more
  <1>6. CASE id = NONE /\ last.spelled \notin Range(g.words)
    <2>1. more = ret
      BY <1>4, <1>6
    <2>2. IsMore(g, ret, more)
      BY <2>1 DEF IsMore
    <2>3. u.edit_dist + g.model.minimum > g.limits.max_edit_distance => IsServed(g, u, more)
      BY <1>5, <1>6 DEF IsServed, IsFinal
    <2> QED BY <2>1, <2>2, <2>3 DEF more
  <1>7. CASE IsWordId(g.words, id, last.spelled)
    <2>1. /\ id # NONE /\ last.spelled \in Range(g.words)
          /\ IsNode(g.nodes, last.spelled)
      <3>1. /\ Len(g.words) \in Nat /\ DOMAIN g.words = 1 .. Len(g.words)
            /\ DOMAIN g.nodes = 1 .. Len(g.nodes) /\ Len(g.words) < Len(g.nodes)
            /\ Len(g.nodes) \in Nat
            /\ \A k \in 1 .. Len(g.words) : g.nodes[k] = g.words[k]
        BY TrieFacts DEF IsSearch
      <3>2. id \in 0 .. Len(g.words) - 1 /\ g.words[id + 1] = last.spelled
        BY <1>7 DEF IsWordId
      <3>3. id + 1 \in 1 .. Len(g.words) /\ id # NONE
        BY <3>1, <3>2 DEF NONE
      <3>4. id + 1 \in DOMAIN g.nodes /\ g.nodes[id + 1] = last.spelled
        BY <3>1, <3>2, <3>3
      <3> QED BY <3>1, <3>2, <3>3, <3>4 DEF IsNode, Range
    <2>2. Spells(g, last)
      <3>1. Reaches(g, u, last)
        BY <1>1, <2>1, KeptIsReached DEF IsAt, last
      <3>2. Reaches(g, Untouched(g.str), last)
        BY <3>1, ReachesThrough DEF IsAt
      <3> QED BY <1>2, <2>1, <3>2 DEF Spells, IsFinal
    <2>3. more = AddSimilarWord(ret, id, last.cost, last.spelled)
      BY <1>4, <2>1
    <2>4. AreRight(g, more) /\ IsMore(g, ret, more) /\ Has(g, more, last)
      BY <1>7, <2>2, <2>3, OfferAdded
    <2>5. u.edit_dist + g.model.minimum > g.limits.max_edit_distance => IsServed(g, u, more)
      BY <1>5, <2>4 DEF IsServed
    <2> QED BY <2>4, <2>5 DEF more
  <1> QED BY <1>3, <1>6, <1>7

-----------------------------------------------------------------------------
(* A call begins.                                                          *)

LEMMA NoOffers == <<>> \in Offers /\ DOMAIN <<>> = {}
  <1>1. DOMAIN <<>> = {} /\ {} \in SUBSET Nat
    OBVIOUS
  <1>2. <<>> \in [{} -> Offer]
    OBVIOUS
  <1> QED BY <1>1, <1>2 DEF Offers

LEMMA CallBegins ==
  ASSUME NEW g, IsSearch(g), NEW state, NEW u, IsAt(g, state, u)
  PROVE  /\ IsFrame(g, Frame(u.edit_dist, u.cost, state, u.i, Len(u.spelled)), u)
         /\ Now(Frame(u.edit_dist, u.cost, state, u.i, Len(u.spelled)), u) = u
  <1> DEFINE f == Frame(u.edit_dist, u.cost, state, u.i, Len(u.spelled))
  <1>1. /\ u \in AnyScript /\ u.edit_dist \in Nat /\ u.cost \in Nat
        /\ u.i \in Nat /\ u.i <= Len(u.word) /\ Len(u.word) \in Nat /\ Len(u.spelled) \in Nat
    <2>1. u \in AnyScript /\ u.word \in Seq(Nat) /\ u.spelled \in Seq(Nat)
      BY DEF IsAt, AnyScript
    <2> QED BY <2>1, LenProperties DEF AnyScript
  <1>2. state \in States(g.nodes) /\ state \in Nat /\ g.nodes[state + 1] = u.spelled
    BY TrieFacts DEF IsAt, States, IsSearch
  <1>3. /\ f.edit_distance = u.edit_dist /\ f.cost = u.cost /\ f.state = state
        /\ f.start = u.i /\ f.i = u.i /\ f.init_prefix_size = Len(u.spelled)
        /\ f.at = "letter" /\ f.j = 0 /\ f.next_state = NONE /\ f.ret = <<>>
    BY DEF Frame
  <1>4. f \in AnyFrame
    <2>1. f = [edit_distance |-> u.edit_dist, cost |-> u.cost, state |-> state,
               start |-> u.i, i |-> u.i, init_prefix_size |-> Len(u.spelled),
               at |-> "letter", j |-> 0, next_state |-> NONE, ret |-> <<>>]
      BY DEF Frame
    <2> HIDE DEF f
    <2> QED BY <1>1, <1>2, <2>1, NoOffers DEF AnyFrame
  <1> HIDE DEF f
  <1>5. Now(f, u) = u
    BY <1>1, <1>3, KeptToItself DEF Now
  <1>6. IsCall(g, f, u)
    BY <1>1, <1>2, <1>3, <1>4, <1>5, ReachesItself DEF IsCall, IsAt
  <1>7. IsPlaced(g, f, u) /\ KnowsNext(g, f, u)
    BY <1>3 DEF IsPlaced, KnowsNext
  <1>8. AreRight(g, f.ret)
    BY <1>3, NoOffers DEF AreRight
  <1>9. IsComplete(g, f, u)
    BY <1>3, <1>5 DEF IsComplete, IsLeft
  <1> QED BY <1>5, <1>6, <1>7, <1>8, <1>9 DEF IsFrame, f

(* The stack of calls, the script each was made with, and both buffers.    *)
IsPaused(g, f, s, u) == IsOption(g, f, s) /\ u = OptionOf(g, f, s)

(* The last letter is appended when the next letter begins.                *)
PrefixIn(f, s) == KeptTo(s, IF f.at = "letter" /\ f.i > s.i THEN f.i - 1 ELSE f.i).spelled

IsStack(g, st, S, w, p) ==
  /\ st \in Seq(AnyFrame) /\ S \in Seq(AnyScript)
  /\ Len(S) = Len(st) /\ Len(st) > 0
  /\ S[1] = Untouched(g.str)
  /\ \A k \in 1 .. Len(st) : IsFrame(g, st[k], S[k])
  /\ \A k \in 1 .. Len(st) - 1 : IsPaused(g, st[k], S[k], S[k + 1])
  /\ w = S[Len(st)].word /\ p = PrefixIn(st[Len(st)], S[Len(st)])
  /\ Len(st) > 1 => ~OneEdit(g)

LEMMA BeginningFacts ==
  ASSUME NEW A, NEW s \in Seq(A), NEW n \in Nat, n <= Len(s)
  PROVE  /\ SubSeq(s, 1, n) \in Seq(A) /\ Len(SubSeq(s, 1, n)) = n
         /\ \A k \in 1 .. n : SubSeq(s, 1, n)[k] = s[k]
  <1>1. Len(s) \in Nat /\ \A k \in 1 .. Len(s) : s[k] \in A
    BY ElementOfSeq, LenProperties
  <1>2. 1 \in Int /\ n \in Int /\ \A k \in 1 .. n : s[k] \in A
    BY <1>1
  <1>3. /\ SubSeq(s, 1, n) \in Seq(A)
        /\ Len(SubSeq(s, 1, n)) = IF 1 <= n THEN n - 1 + 1 ELSE 0
        /\ \A k \in 1 .. n - 1 + 1 : SubSeq(s, 1, n)[k] = s[1 + k - 1]
    BY <1>2, SubSeqProperties
  <1>4. Len(SubSeq(s, 1, n)) = n
    BY <1>3
  <1>5. ASSUME NEW k \in 1 .. n PROVE SubSeq(s, 1, n)[k] = s[k]
    <2>1. k \in 1 .. n - 1 + 1 /\ 1 + k - 1 = k
      OBVIOUS
    <2> QED BY <1>3, <2>1
  <1> QED BY <1>3, <1>4, <1>5

LEMMA FrontFacts ==
  ASSUME NEW A, NEW s \in Seq(A), Len(s) > 0
  PROVE  /\ Front(s) \in Seq(A) /\ Len(Front(s)) = Len(s) - 1
         /\ \A k \in 1 .. Len(s) - 1 : Front(s)[k] = s[k]
  <1>1. Len(s) \in Nat
    BY LenProperties
  <1>2. Len(s) - 1 \in Nat /\ Len(s) - 1 <= Len(s)
    BY <1>1
  <1> QED BY <1>2, BeginningFacts DEF Front

LEMMA LastIsSet ==
  ASSUME NEW A, NEW s \in Seq(A), Len(s) > 0, NEW x \in A
  PROVE  /\ Append(Front(s), x) \in Seq(A) /\ Len(Append(Front(s), x)) = Len(s)
         /\ \A k \in 1 .. Len(s) - 1 : Append(Front(s), x)[k] = s[k]
         /\ Append(Front(s), x)[Len(s)] = x
  <1> DEFINE front == Front(s)
  <1>1. /\ Len(s) \in Nat /\ front \in Seq(A) /\ Len(front) = Len(s) - 1
        /\ \A k \in 1 .. Len(s) - 1 : front[k] = s[k]
    BY FrontFacts, LenProperties
  <1> HIDE DEF front
  <1>2. /\ Append(front, x) \in Seq(A) /\ Len(Append(front, x)) = Len(front) + 1
        /\ \A k \in 1 .. Len(front) : Append(front, x)[k] = front[k]
        /\ Append(front, x)[Len(front) + 1] = x
    BY <1>1, AppendProperties
  <1>3. /\ Len(Append(front, x)) = Len(s) /\ Append(front, x)[Len(s)] = x
        /\ \A k \in 1 .. Len(s) - 1 : Append(front, x)[k] = s[k]
    BY <1>1, <1>2
  <1> QED BY <1>2, <1>3 DEF front

LEMMA TopFacts ==
  ASSUME NEW A, NEW s \in Seq(A), Len(s) > 0, NEW x \in A, NEW y \in A
  PROVE  /\ Front(s) \o <<x, y>> \in Seq(A) /\ Len(Front(s) \o <<x, y>>) = Len(s) + 1
         /\ \A k \in 1 .. Len(s) - 1 : (Front(s) \o <<x, y>>)[k] = s[k]
         /\ (Front(s) \o <<x, y>>)[Len(s)] = x
         /\ (Front(s) \o <<x, y>>)[Len(s) + 1] = y
  <1> DEFINE front == Front(s)
  <1>1. /\ Len(s) \in Nat /\ front \in Seq(A) /\ Len(front) = Len(s) - 1
        /\ \A k \in 1 .. Len(s) - 1 : front[k] = s[k]
    BY FrontFacts, LenProperties
  <1> HIDE DEF front
  <1>2. <<x, y>> \in Seq(A) /\ Len(<<x, y>>) = 2
    OBVIOUS
  <1>3. /\ front \o <<x, y>> \in Seq(A) /\ Len(front \o <<x, y>>) = Len(front) + 2
        /\ \A k \in 1 .. Len(front) + 2 :
             (front \o <<x, y>>)[k] = IF k <= Len(front) THEN front[k]
                                      ELSE <<x, y>>[k - Len(front)]
    BY <1>1, <1>2, ConcatProperties
  <1>4. /\ \A k \in 1 .. Len(s) - 1 : (front \o <<x, y>>)[k] = s[k]
        /\ (front \o <<x, y>>)[Len(s)] = x
        /\ (front \o <<x, y>>)[Len(s) + 1] = y
    <2>1. ASSUME NEW k \in 1 .. Len(s) - 1 PROVE (front \o <<x, y>>)[k] = s[k]
      <3>1. k \in 1 .. Len(front) + 2 /\ k <= Len(front)
        BY <1>1
      <3> QED BY <1>1, <1>3, <3>1
    <2>2. (front \o <<x, y>>)[Len(s)] = x
      <3>1. /\ Len(s) \in 1 .. Len(front) + 2 /\ ~(Len(s) <= Len(front))
            /\ Len(s) - Len(front) = 1
        BY <1>1
      <3>2. (front \o <<x, y>>)[Len(s)] = <<x, y>>[1]
        BY <1>3, <3>1
      <3> QED BY <3>2
    <2>3. (front \o <<x, y>>)[Len(s) + 1] = y
      <3>1. /\ Len(s) + 1 \in 1 .. Len(front) + 2 /\ ~(Len(s) + 1 <= Len(front))
            /\ Len(s) + 1 - Len(front) = 2
        BY <1>1
      <3>2. (front \o <<x, y>>)[Len(s) + 1] = <<x, y>>[2]
        BY <1>3, <3>1
      <3> QED BY <3>2
    <2> QED BY <2>1, <2>2, <2>3
  <1>5. Len(front \o <<x, y>>) = Len(s) + 1
    BY <1>1, <1>3
  <1> QED BY <1>3, <1>4, <1>5 DEF front

LEMMA BottomFacts ==
  ASSUME NEW A, NEW s \in Seq(A), Len(s) > 1, NEW x \in A
  PROVE  /\ SubSeq(s, 1, Len(s) - 2) \o <<x>> \in Seq(A)
         /\ Len(SubSeq(s, 1, Len(s) - 2) \o <<x>>) = Len(s) - 1
         /\ \A k \in 1 .. Len(s) - 2 : (SubSeq(s, 1, Len(s) - 2) \o <<x>>)[k] = s[k]
         /\ (SubSeq(s, 1, Len(s) - 2) \o <<x>>)[Len(s) - 1] = x
  <1> DEFINE front == SubSeq(s, 1, Len(s) - 2)
  <1>1. Len(s) \in Nat /\ \A k \in 1 .. Len(s) : s[k] \in A
    BY ElementOfSeq, LenProperties
  <1>2. /\ front \in Seq(A) /\ Len(front) = Len(s) - 2
        /\ \A k \in 1 .. Len(s) - 2 : front[k] = s[k]
    <2>1. Len(s) - 2 \in Nat /\ Len(s) - 2 <= Len(s)
      BY <1>1
    <2> QED BY <2>1, BeginningFacts
  <1>3. <<x>> \in Seq(A) /\ Len(<<x>>) = 1
    OBVIOUS
  <1> HIDE DEF front
  <1>4. /\ front \o <<x>> \in Seq(A) /\ Len(front \o <<x>>) = Len(front) + 1
        /\ \A k \in 1 .. Len(front) + 1 :
             (front \o <<x>>)[k] = IF k <= Len(front) THEN front[k] ELSE <<x>>[k - Len(front)]
    BY <1>2, <1>3, ConcatProperties
  <1>5. ASSUME NEW k \in 1 .. Len(s) - 2 PROVE (front \o <<x>>)[k] = s[k]
    <2>1. k \in 1 .. Len(front) + 1 /\ k <= Len(front)
      BY <1>1, <1>2
    <2> QED BY <1>2, <1>4, <2>1
  <1>6. (front \o <<x>>)[Len(s) - 1] = x
    <2>1. /\ Len(s) - 1 \in 1 .. Len(front) + 1 /\ ~(Len(s) - 1 <= Len(front))
          /\ Len(s) - 1 - Len(front) = 1
      BY <1>1, <1>2
    <2>2. (front \o <<x>>)[Len(s) - 1] = <<x>>[1]
      BY <1>4, <2>1
    <2> QED BY <2>2
  <1>7. Len(front \o <<x>>) = Len(s) - 1
    BY <1>1, <1>2, <1>4
  <1> QED BY <1>4, <1>5, <1>6, <1>7 DEF front

LEMMA StackFacts ==
  ASSUME NEW g, NEW st, NEW S, NEW w, NEW p, IsStack(g, st, S, w, p)
  PROVE  /\ Len(st) \in Nat /\ Len(st) \in 1 .. Len(st) /\ 1 \in 1 .. Len(st) /\ st # <<>>
         /\ Last(st) = st[Len(st)] /\ IsFrame(g, Last(st), S[Len(st)])
         /\ w = S[Len(st)].word /\ p = PrefixIn(Last(st), S[Len(st)])
         /\ S[Len(st)] \in AnyScript /\ st \in Seq(AnyFrame)
  <1>1. Len(st) \in Nat /\ Len(st) > 0 /\ st \in Seq(AnyFrame)
    BY LenProperties DEF IsStack
  <1>2. Len(st) \in 1 .. Len(st) /\ 1 \in 1 .. Len(st) /\ st # <<>>
    BY <1>1
  <1>3. Last(st) = st[Len(st)]
    BY DEF Last
  <1> QED BY <1>1, <1>2, <1>3 DEF IsStack, IsFrame, IsCall

LEMMA TopIsSet ==
  ASSUME NEW g, NEW st, NEW S, NEW w, NEW p, IsStack(g, st, S, w, p),
         NEW f, IsFrame(g, f, S[Len(st)])
  PROVE  IsStack(g, Append(Front(st), f), S, w, PrefixIn(f, S[Len(st)]))
  <1> DEFINE new == Append(Front(st), f)
  <1>1. /\ st \in Seq(AnyFrame) /\ Len(st) > 0 /\ Len(st) \in Nat /\ f \in AnyFrame
    BY LenProperties DEF IsStack, IsFrame, IsCall
  <1>2. /\ new \in Seq(AnyFrame) /\ Len(new) = Len(st) /\ new[Len(st)] = f
        /\ \A k \in 1 .. Len(st) - 1 : new[k] = st[k]
    BY <1>1, LastIsSet
  <1> HIDE DEF new
  <1>3. ASSUME NEW k \in 1 .. Len(new) PROVE IsFrame(g, new[k], S[k])
    <2>1. CASE k = Len(st)
      BY <1>2, <2>1
    <2>2. CASE k # Len(st)
      <3>1. k \in 1 .. Len(st) - 1 /\ k \in 1 .. Len(st)
        BY <1>1, <1>2, <2>2
      <3> QED BY <1>2, <3>1 DEF IsStack
    <2> QED BY <2>1, <2>2
  <1>4. \A k \in 1 .. Len(new) - 1 : IsPaused(g, new[k], S[k], S[k + 1])
    BY <1>2 DEF IsStack
  <1> QED BY <1>2, <1>3, <1>4 DEF IsStack, new

LEMMA CallIsPushed ==
  ASSUME NEW g, NEW st, NEW S, NEW w, NEW p, IsStack(g, st, S, w, p),
         NEW f, IsFrame(g, f, S[Len(st)]), NEW u, IsPaused(g, f, S[Len(st)], u),
         NEW f2, IsFrame(g, f2, u), ~OneEdit(g)
  PROVE  IsStack(g, Front(st) \o <<f, f2>>, Append(S, u), u.word, PrefixIn(f2, u))
  <1> DEFINE new == Front(st) \o <<f, f2>>
             T == Append(S, u)
             n == Len(st)
  <1>1. /\ st \in Seq(AnyFrame) /\ n > 0 /\ n \in Nat /\ f \in AnyFrame
        /\ f2 \in AnyFrame /\ u \in AnyScript /\ S \in Seq(AnyScript) /\ Len(S) = n
    BY LenProperties DEF IsStack, IsFrame, IsCall
  <1>2. /\ new \in Seq(AnyFrame) /\ Len(new) = n + 1
        /\ new[n] = f /\ new[n + 1] = f2
        /\ \A k \in 1 .. n - 1 : new[k] = st[k]
    BY <1>1, TopFacts
  <1>3. /\ T \in Seq(AnyScript) /\ Len(T) = n + 1 /\ T[n + 1] = u
        /\ \A k \in 1 .. n : T[k] = S[k]
    BY <1>1, AppendProperties
  <1> HIDE DEF new, T, n
  <1>4. ASSUME NEW k \in 1 .. Len(new) PROVE IsFrame(g, new[k], T[k])
    <2>1. CASE k = n + 1
      BY <1>2, <1>3, <2>1
    <2>2. CASE k = n
      BY <1>1, <1>2, <1>3, <2>2 DEF n
    <2>3. CASE k # n + 1 /\ k # n
      <3>1. k \in 1 .. n - 1 /\ k \in 1 .. n
        BY <1>1, <1>2, <2>3
      <3> QED BY <1>2, <1>3, <3>1 DEF IsStack, n
    <2> QED BY <2>1, <2>2, <2>3
  <1>5. ASSUME NEW k \in 1 .. Len(new) - 1 PROVE IsPaused(g, new[k], T[k], T[k + 1])
    <2>1. CASE k = n
      BY <1>1, <1>2, <1>3, <2>1 DEF n
    <2>2. CASE k # n
      <3>1. k \in 1 .. n - 1 /\ k \in 1 .. n /\ k + 1 \in 1 .. n
        BY <1>1, <1>2, <2>2
      <3> QED BY <1>2, <1>3, <3>1 DEF IsStack, n
    <2> QED BY <2>1, <2>2
  <1>6. T[1] = Untouched(g.str)
    <2>1. 1 \in 1 .. n
      BY <1>1
    <2> QED BY <1>3, <2>1 DEF IsStack
  <1>7. Len(new) > 0 /\ Len(T) = Len(new)
    BY <1>1, <1>2, <1>3
  <1>8. IsStack(g, new, T, u.word, PrefixIn(f2, u))
    BY <1>2, <1>3, <1>4, <1>5, <1>6, <1>7 DEF IsStack
  <1> QED BY <1>8 DEF new, T

LEMMA CallIsPopped ==
  ASSUME NEW g, NEW st, NEW S, NEW w, NEW p, IsStack(g, st, S, w, p), Len(st) > 1,
         NEW f, IsFrame(g, f, S[Len(st) - 1])
  PROVE  IsStack(g, SubSeq(st, 1, Len(st) - 2) \o <<f>>, SubSeq(S, 1, Len(st) - 1),
                 S[Len(st) - 1].word, PrefixIn(f, S[Len(st) - 1]))
  <1> DEFINE new == SubSeq(st, 1, Len(st) - 2) \o <<f>>
             T == SubSeq(S, 1, Len(st) - 1)
             n == Len(st) - 1
  <1>1. /\ st \in Seq(AnyFrame) /\ Len(st) \in Nat /\ f \in AnyFrame
        /\ S \in Seq(AnyScript) /\ Len(S) = Len(st)
    BY LenProperties DEF IsStack, IsFrame, IsCall
  <1>2. n \in Nat /\ n > 0 /\ n <= Len(S) /\ Len(st) - 2 = n - 1
    BY <1>1
  <1>3. /\ new \in Seq(AnyFrame) /\ Len(new) = n /\ new[n] = f
        /\ \A k \in 1 .. Len(st) - 2 : new[k] = st[k]
    <2>1. new \in Seq(AnyFrame) /\ Len(new) = Len(st) - 1
      BY <1>1, BottomFacts
    <2>2. new[Len(st) - 1] = f
      BY <1>1, BottomFacts
    <2>3. \A k \in 1 .. Len(st) - 2 : new[k] = st[k]
      BY <1>1, BottomFacts
    <2> HIDE DEF new
    <2> QED BY <2>1, <2>2, <2>3
  <1>4. T \in Seq(AnyScript) /\ Len(T) = n /\ \A k \in 1 .. n : T[k] = S[k]
    BY <1>1, <1>2, BeginningFacts
  <1>5. Len(st) = n + 1
    BY <1>1
  <1>6. IsFrame(g, f, S[n])
    OBVIOUS
  <1> HIDE DEF new, T, n
  <1>7. ASSUME NEW k \in 1 .. Len(new) PROVE IsFrame(g, new[k], T[k])
    <2>1. CASE k = n
      BY <1>2, <1>3, <1>4, <1>6, <2>1
    <2>2. CASE k # n
      <3>1. k \in 1 .. Len(st) - 2 /\ k \in 1 .. n /\ k \in 1 .. Len(st)
        BY <1>2, <1>3, <1>5, <2>2
      <3> QED BY <1>3, <1>4, <3>1 DEF IsStack
    <2> QED BY <2>1, <2>2
  <1>8. ASSUME NEW k \in 1 .. Len(new) - 1 PROVE IsPaused(g, new[k], T[k], T[k + 1])
    <2>1. /\ k \in 1 .. Len(st) - 2 /\ k \in 1 .. n /\ k + 1 \in 1 .. n
          /\ k \in 1 .. Len(st) - 1
      BY <1>2, <1>3, <1>5
    <2> QED BY <1>3, <1>4, <2>1 DEF IsStack
  <1>9. T[1] = Untouched(g.str) /\ T[n] = S[n] /\ Len(new) > 0 /\ Len(T) = Len(new)
    <2>1. 1 \in 1 .. n /\ n \in 1 .. n
      BY <1>2
    <2> QED BY <1>2, <1>3, <1>4, <2>1 DEF IsStack
  <1>10. Len(new) > 1 => ~OneEdit(g)
    BY DEF IsStack
  <1>11. IsStack(g, new, T, S[n].word, PrefixIn(f, S[n]))
    BY <1>3, <1>4, <1>7, <1>8, <1>9, <1>10 DEF IsStack
  <1> QED BY <1>11 DEF new, T, n

(* What the steps change of the frame at the top.                          *)
Varies(f, f2, at, j, ret) ==
  /\ IsSameCall(f, f2) /\ f2.i = f.i /\ f2.state = f.state
  /\ f2.next_state = f.next_state
  /\ f2.at = at /\ f2.j = j /\ f2.ret = ret

LEMMA FrameVaries ==
  ASSUME NEW f \in AnyFrame, NEW at \in {"letter", "skip", "substitute", "add"},
         NEW j \in Nat, NEW ret \in Offers
  PROVE  /\ Varies(f, [f EXCEPT !.at = at, !.j = j], at, j, f.ret)
         /\ Varies(f, [f EXCEPT !.j = j], f.at, j, f.ret)
         /\ Varies(f, [f EXCEPT !.ret = ret], f.at, f.j, ret)
  <1>1. Varies(f, [f EXCEPT !.at = at, !.j = j], at, j, f.ret)
    BY DEF Varies, IsSameCall, AnyFrame
  <1>2. Varies(f, [f EXCEPT !.j = j], f.at, j, f.ret)
    BY DEF Varies, IsSameCall, AnyFrame
  <1>3. Varies(f, [f EXCEPT !.ret = ret], f.at, f.j, ret)
    BY DEF Varies, IsSameCall, AnyFrame
  <1> QED BY <1>1, <1>2, <1>3

LEMMA VariesTwice ==
  ASSUME NEW f, NEW f1, NEW at, NEW j, NEW ret, Varies(f, f1, at, j, ret),
         NEW f2, NEW at2, NEW j2, NEW ret2, Varies(f1, f2, at2, j2, ret2)
  PROVE  Varies(f, f2, at2, j2, ret2) /\ f1 \in AnyFrame /\ f2 \in AnyFrame
  BY DEF Varies, IsSameCall

(* The same edit, with more offers.                                        *)
LEMMA FrameHasMore ==
  ASSUME NEW g, NEW f, NEW s, IsFrame(g, f, s), NEW f2, NEW ret,
         Varies(f, f2, f.at, f.j, ret), AreRight(g, ret), IsMore(g, f.ret, ret)
  PROVE  /\ IsFrame(g, f2, s)
         /\ IsOption(g, f, s) => IsOption(g, f2, s)
         /\ OptionOf(g, f2, s) = OptionOf(g, f, s)
  <1>1. /\ IsSameCall(f, f2) /\ f2.i = f.i /\ f2.state = f.state
        /\ f2.next_state = f.next_state /\ f2.at = f.at /\ f2.j = f.j /\ f2.ret = ret
    BY DEF Varies
  <1>2. IsCall(g, f2, s) /\ Now(f2, s) = Now(f, s)
    BY <1>1, CallGoesOn DEF IsFrame
  <1>3. IsPlaced(g, f2, s)
    BY <1>1 DEF IsPlaced, IsFrame
  <1>4. KnowsNext(g, f2, s)
    BY <1>1, <1>2 DEF KnowsNext, IsNextState, IsPassed, IsFrame
  <1>5. \A u : IsUntried(g, f, Now(f, s), u) => IsUntried(g, f2, Now(f2, s), u)
    BY <1>1, <1>2 DEF IsUntried
  <1>6. \A t : IsLeft(g, f, s, t) => IsLeft(g, f2, s, t)
    BY <1>1, <1>2, <1>5 DEF IsLeft
  <1>7. IsComplete(g, f2, s)
    <2> SUFFICES ASSUME NEW t, Reaches(g, s, t), IsFinal(g, t)
                 PROVE  Has(g, f2.ret, t) \/ IsLeft(g, f2, s, t)
      BY DEF IsComplete
    <2>1. Has(g, f.ret, t) \/ IsLeft(g, f, s, t)
      BY DEF IsFrame, IsComplete
    <2>2. Has(g, f.ret, t) => Has(g, f2.ret, t)
      BY <1>1 DEF IsMore, Reaches
    <2> QED BY <1>6, <2>1, <2>2
  <1>8. IsOption(g, f, s) => IsOption(g, f2, s)
    BY <1>1 DEF IsOption
  <1>9. OptionOf(g, f2, s) = OptionOf(g, f, s)
    BY <1>1, <1>2 DEF OptionOf
  <1> QED BY <1>1, <1>2, <1>3, <1>4, <1>7, <1>8, <1>9 DEF IsFrame

-----------------------------------------------------------------------------
(* An edit is tried: it is out of the limits, or the last one, or a call   *)
(* is made for more.                                                       *)
IsNextFrame(g, f, after) ==
  IsAfter(g, f, after) /\ after.next_state = f.next_state /\ after.ret = f.ret

IsTry(g, st, w, p, f, u, after, st2, w2, p2) ==
  LET within == u.cost <= g.limits.cost_limit /\ u.edit_dist <= g.limits.max_edit_distance
      more   == u.edit_dist + g.model.minimum <= g.limits.max_edit_distance
      state  == OptionState(g, f)
      rest   == RestAdded(g, f.ret, state, u)
  IN  \/ ~within /\ st2 = Append(Front(st), after) /\ w2 = w /\ p2 = p
      \/ /\ within /\ ~more
         /\ st2 = Append(Front(st), [after EXCEPT !.ret = rest]) /\ w2 = w /\ p2 = p
      \/ /\ within /\ more
         /\ st2 = Front(st) \o <<[f EXCEPT !.ret = rest],
                                 Frame(u.edit_dist, u.cost, state, u.i, Len(u.spelled))>>
         /\ w2 = u.word /\ p2 = u.spelled

LEMMA PrefixIsThere ==
  ASSUME NEW f, NEW s, f.at # "letter"
  PROVE  PrefixIn(f, s) = Now(f, s).spelled
  BY DEF PrefixIn, Now

LEMMA StackAfterTry ==
  ASSUME NEW g, IsSearch(g), NEW st, NEW S, NEW w, NEW p, IsStack(g, st, S, w, p),
         IsOption(g, Last(st), S[Len(st)]),
         NEW after, IsNextFrame(g, Last(st), after), NEW st2, NEW w2, NEW p2,
         IsTry(g, st, w, p, Last(st), OptionOf(g, Last(st), S[Len(st)]), after, st2, w2, p2)
  PROVE  \E T : IsStack(g, st2, T, w2, p2)
  <1> DEFINE f == Last(st)
             s == S[Len(st)]
             u == OptionOf(g, f, s)
             state == OptionState(g, f)
             rest == RestAdded(g, f.ret, state, u)
             within == u.cost <= g.limits.cost_limit /\ u.edit_dist <= g.limits.max_edit_distance
             more == u.edit_dist + g.model.minimum <= g.limits.max_edit_distance
  <1>1. IsFrame(g, f, s) /\ w = s.word /\ p = PrefixIn(f, s)
    BY StackFacts
  <1>2. IsCall(g, f, s) /\ IsPlaced(g, f, s) /\ AreRight(g, f.ret) /\ IsOption(g, f, s)
    BY <1>1 DEF IsFrame
  <1>3. /\ IsStep(g, Now(f, s), u) /\ u \in AnyScript
        /\ state \in States(g.nodes) /\ g.nodes[state + 1] = u.spelled
        /\ u.edit_dist >= f.edit_distance + g.model.minimum
    <2> HIDE DEF f, s
    <2> QED BY <1>2, OptionFacts
  <1>4. Reaches(g, Untouched(g.str), Now(f, s)) /\ f.at # "letter"
    <2> HIDE DEF f, s
    <2> QED BY <1>2, NowFacts DEF IsOption
  <1>5. IsNode(g.nodes, u.spelled)
    <2>1. state + 1 \in DOMAIN g.nodes
      BY <1>3, TrieFacts DEF IsSearch, States
    <2> HIDE DEF u, state
    <2> QED BY <1>3, <2>1 DEF IsNode
  <1>6. IsAllowed(g, u) <=> within
    <2> HIDE DEF u
    <2> QED BY <1>5 DEF IsAllowed
  <1>7. within => IsAt(g, state, u)
    <2> SUFFICES ASSUME within PROVE IsAt(g, state, u)
      OBVIOUS
    <2>1. Follows(g, Now(f, s), u) /\ IsAllowed(g, u)
      BY <1>3, <1>6 DEF Follows
    <2> HIDE DEF u, f, s, state, within
    <2>2. Reaches(g, Untouched(g.str), u)
      BY <1>3, <1>4, <2>1, ReachesLater
    <2> QED BY <1>3, <2>1, <2>2 DEF IsAt
  <1>8. /\ IsAfter(g, f, after) /\ after.next_state = f.next_state /\ after.ret = f.ret
        /\ after \in AnyFrame /\ after.at # "letter" /\ Now(after, s) = Now(f, s)
    <2>1. IsAfter(g, f, after) /\ after.next_state = f.next_state /\ after.ret = f.ret
      BY DEF IsNextFrame
    <2>2. f.at = "add" => f.j <= LastArc(g, f.state)
      BY <1>2 DEF IsOption
    <2> HIDE DEF f, s
    <2> QED BY <1>2, <1>4, <2>1, <2>2, LaterPlaced DEF IsAfter, IsSameCall
  <1>9. p = Now(f, s).spelled
    <2> HIDE DEF f, s
    <2> QED BY <1>1, <1>4, PrefixIsThere
  <1>10. \/ ~within /\ st2 = Append(Front(st), after) /\ w2 = w /\ p2 = p
         \/ /\ within /\ ~more
            /\ st2 = Append(Front(st), [after EXCEPT !.ret = rest]) /\ w2 = w /\ p2 = p
         \/ /\ within /\ more
            /\ st2 = Front(st) \o <<[f EXCEPT !.ret = rest],
                                    Frame(u.edit_dist, u.cost, state, u.i, Len(u.spelled))>>
            /\ w2 = u.word /\ p2 = u.spelled
    <2> HIDE DEF f, u
    <2> QED BY DEF IsTry, f, u
  <1>11. g.model.minimum \in Nat /\ g.limits.max_edit_distance \in Nat
    BY DEF IsSearch, ArePrices
  <1>12. /\ u.edit_dist \in Nat /\ f.edit_distance \in Nat
    BY <1>2, <1>3 DEF AnyScript, IsCall, AnyFrame
  <1>13. within => AreRight(g, rest) /\ IsMore(g, f.ret, rest) /\ (~more => IsServed(g, u, rest))
    <2> SUFFICES ASSUME within
                 PROVE  AreRight(g, rest) /\ IsMore(g, f.ret, rest) /\ (~more => IsServed(g, u, rest))
      OBVIOUS
    <2>1. ~more => u.edit_dist + g.model.minimum > g.limits.max_edit_distance
      <3> HIDE DEF u
      <3> QED BY <1>11, <1>12
    <2> HIDE DEF u, f, s, state, within, more
    <2> QED BY <1>2, <1>7, <2>1, RestIsAdded DEF rest
  <1> HIDE DEF f, s, u, state, rest, within, more
  <1>14. CASE ~within /\ st2 = Append(Front(st), after) /\ w2 = w /\ p2 = p
    <2>1. AreRight(g, after.ret) /\ IsMore(g, f.ret, after.ret)
      BY <1>2, <1>8 DEF IsMore
    <2>2. IsFrame(g, after, s)
      BY <1>1, <1>2, <1>6, <1>8, <1>14, <2>1, OptionTried DEF u
    <2>3. PrefixIn(after, s) = p
      BY <1>8, <1>9, PrefixIsThere
    <2> QED BY <1>14, <2>2, <2>3, TopIsSet DEF s
  <1>15. CASE /\ within /\ ~more
              /\ st2 = Append(Front(st), [after EXCEPT !.ret = rest]) /\ w2 = w /\ p2 = p
    <2> DEFINE f2 == [after EXCEPT !.ret = rest]
    <2>1. Varies(after, f2, after.at, after.j, rest)
      BY <1>8, <1>13, <1>15, FrameVaries DEF AreRight
    <2> HIDE DEF f2
    <2>2. /\ IsAfter(g, f, f2) /\ f2.next_state = f.next_state /\ f2.ret = rest
          /\ f2.at = after.at /\ Now(f2, s) = Now(after, s)
      BY <1>8, <2>1 DEF IsAfter, Varies, IsSameCall, Now
    <2>3. IsFrame(g, f2, s)
      BY <1>1, <1>2, <1>13, <1>15, <2>2, OptionTried DEF u
    <2>4. PrefixIn(f2, s) = p
      BY <1>8, <1>9, <2>2, PrefixIsThere
    <2> QED BY <1>15, <2>3, <2>4, TopIsSet DEF s, f2
  <1>16. CASE /\ within /\ more
              /\ st2 = Front(st) \o <<[f EXCEPT !.ret = rest],
                                      Frame(u.edit_dist, u.cost, state, u.i, Len(u.spelled))>>
              /\ w2 = u.word /\ p2 = u.spelled
    <2> DEFINE f1 == [f EXCEPT !.ret = rest]
               f2 == Frame(u.edit_dist, u.cost, state, u.i, Len(u.spelled))
    <2>1. Varies(f, f1, f.at, f.j, rest)
      BY <1>2, <1>13, <1>16, FrameVaries DEF AreRight, IsCall
    <2>2. IsFrame(g, f2, u) /\ Now(f2, u) = u
      BY <1>7, <1>16, CallBegins
    <2>3. f2.at = "letter" /\ f2.i = u.i
      BY DEF Frame
    <2> HIDE DEF f1, f2
    <2>4. IsFrame(g, f1, s) /\ IsPaused(g, f1, s, u)
      BY <1>1, <1>2, <1>13, <1>16, <2>1, FrameHasMore DEF IsPaused, u
    <2>5. ~OneEdit(g)
      <3>1. u.edit_dist + g.model.minimum <= g.limits.max_edit_distance
        BY <1>16 DEF more
      <3> QED BY <1>3, <1>11, <1>12, <3>1 DEF OneEdit
    <2>6. PrefixIn(f2, u) = u.spelled
      <3>1. u.i \in Nat
        BY <1>3 DEF AnyScript
      <3>2. ~(f2.i > u.i)
        BY <2>3, <3>1
      <3> QED BY <2>2, <3>2 DEF PrefixIn, Now
    <2>7. IsStack(g, Front(st) \o <<f1, f2>>, Append(S, u), u.word, PrefixIn(f2, u))
      BY <2>2, <2>4, <2>5, CallIsPushed DEF s
    <2> QED BY <1>16, <2>6, <2>7 DEF f1, f2
  <1> QED BY <1>10, <1>14, <1>15, <1>16

(* A call ends: its offers are all there is.                               *)
LEMMA CallEnds ==
  ASSUME NEW g, IsSearch(g), NEW f, NEW s, IsFrame(g, f, s), f.at = "add",
         f.j > LastArc(g, f.state), f.next_state = NONE
  PROVE  IsServed(g, s, f.ret)
  <1> DEFINE n == Now(f, s)
             first == FirstArc(g, f.state)
             last == LastArc(g, f.state)
  <1>1. IsCall(g, f, s) /\ IsPlaced(g, f, s) /\ KnowsNext(g, f, s) /\ IsComplete(g, f, s)
    BY DEF IsFrame
  <1>2. /\ n \in AnyScript /\ n.word = s.word /\ n.i = f.i /\ n.spelled \in Seq(Nat)
        /\ s.word \in Seq(Nat) /\ Len(s.word) \in Nat /\ f.i \in Nat
    BY <1>1, NowFacts DEF AnyScript
  <1>3. /\ first \in Nat /\ last \in Nat
        /\ \A letter \in Nat :
              IsNode(g.nodes, Append(n.spelled, letter)) =>
                \E k \in first .. last : CharOf(g.lex, k) = letter
    BY <1>1, ArcsOfNow
  <1>4. f.j \in first .. last + 1 /\ f.j > last
    BY <1>1 DEF IsPlaced
  <1>5. f.i < Len(s.word) => \A k \in first .. last : CharOf(g.lex, k) # s.word[f.i + 1]
    BY <1>1 DEF KnowsNext, IsPassed
  <1> HIDE DEF first, last, n
  <1>6. ASSUME NEW t, IsLeft(g, f, s, t)
        PROVE  FALSE
    <2>1. PICK u \in AnyScript : IsUntried(g, f, n, u) /\ Follows(g, n, u)
      BY <1>6 DEF IsLeft, n
    <2>2. CASE IsKeep(n, u)
      <3> DEFINE letter == s.word[f.i + 1]
      <3>1. f.i < Len(s.word) /\ u = KeepOf(n)
        BY <1>2, <2>2 DEF IsKeep
      <3>2. letter \in Nat
        BY <1>2, <3>1, ElementOfSeq
      <3>3. u.spelled = n.spelled \o <<letter>>
        BY <1>2, <3>1 DEF KeepOf, Moved
      <3>4. IsNode(g.nodes, u.spelled)
        BY <2>1 DEF Follows, IsAllowed
      <3> HIDE DEF letter
      <3>5. IsNode(g.nodes, Append(n.spelled, letter))
        BY <1>2, <3>2, <3>3, <3>4, AppendFacts
      <3>6. \E k \in first .. last : CharOf(g.lex, k) = letter
        BY <1>3, <3>2, <3>5
      <3> QED BY <1>5, <3>1, <3>6 DEF letter
    <2>3. CASE ~IsKeep(n, u)
      <3>1. \E k \in f.j .. last : TRUE
        BY <2>1, <2>3 DEF IsUntried, last
      <3> QED BY <1>3, <1>4, <3>1
    <2> QED BY <2>2, <2>3
  <1>7. ASSUME NEW t, Reaches(g, s, t), IsFinal(g, t)
        PROVE  Has(g, f.ret, t)
    BY <1>1, <1>6, <1>7 DEF IsComplete
  <1> QED BY <1>7 DEF IsServed

(* The maps of a call and its caller are merged, where costs may be those  *)
(* of any script.                                                          *)
LEMMA OffersInserted ==
  ASSUME NEW g, ~OneEdit(g), NEW ret, AreRight(g, ret), NEW more, AreRight(g, more)
  PROVE  /\ AreRight(g, Inserted(ret, more))
         /\ IsMore(g, ret, Inserted(ret, more)) /\ IsMore(g, more, Inserted(ret, more))
  <1> DEFINE all == Inserted(ret, more)
  <1>1. /\ DOMAIN all = DOMAIN ret \union DOMAIN more
        /\ all = [id \in DOMAIN all |-> all[id]]
        /\ \A id \in DOMAIN ret : all[id] = ret[id]
        /\ \A id \in DOMAIN more : id \notin DOMAIN ret => all[id] = more[id]
    BY DEF Inserted
  <1>2. /\ DOMAIN ret \subseteq Nat /\ DOMAIN more \subseteq Nat
        /\ \A id \in DOMAIN ret : ret[id] \in Offer /\ IsRight(g, id, ret[id])
        /\ \A id \in DOMAIN more : more[id] \in Offer /\ IsRight(g, id, more[id])
    BY OfferFacts DEF AreRight
  <1> HIDE DEF all
  <1>3. \A id \in DOMAIN all : all[id] \in Offer /\ IsRight(g, id, all[id])
    BY <1>1, <1>2
  <1>4. all \in Offers
    <2>1. DOMAIN all \in SUBSET Nat
      BY <1>1, <1>2
    <2>2. all \in [DOMAIN all -> Offer]
      BY <1>1, <1>3
    <2> QED BY <2>1, <2>2 DEF Offers
  <1>5. IsMore(g, ret, all)
    BY <1>1 DEF IsMore, Has
  <1>6. IsMore(g, more, all)
    <2> SUFFICES ASSUME NEW t \in AnyScript, NEW id \in DOMAIN more,
                        more[id].spelling = t.spelled
                 PROVE  \E known \in DOMAIN all : all[known].spelling = t.spelled
      BY DEF IsMore, Has
    <2>1. CASE id \in DOMAIN ret
      <3>1. ret[id].spelling = more[id].spelling
        BY <1>2, <2>1 DEF IsRight, IsWordId
      <3> QED BY <1>1, <2>1, <3>1
    <2>2. CASE id \notin DOMAIN ret
      BY <1>1, <2>2
    <2> QED BY <2>1, <2>2
  <1> QED BY <1>3, <1>4, <1>5, <1>6 DEF AreRight, all

-----------------------------------------------------------------------------
(* What the buffers were before the edit.                                  *)
LEMMA OptionBuffers ==
  ASSUME NEW g, IsSearch(g), NEW f, NEW s, IsFrame(g, f, s), IsOption(g, f, s)
  PROVE  /\ f.at = "substitute" /\ f.j > LastArc(g, f.state) =>
              s.word = Swapped(OptionOf(g, f, s).word, f.i)
         /\ ~(f.at = "substitute" /\ f.j > LastArc(g, f.state)) =>
              s.word = OptionOf(g, f, s).word
         /\ Appends(g, f) => Now(f, s).spelled = Front(OptionOf(g, f, s).spelled)
         /\ ~Appends(g, f) => Now(f, s).spelled = OptionOf(g, f, s).spelled
  <1> DEFINE n == Now(f, s)
             first == FirstArc(g, f.state)
             last == LastArc(g, f.state)
             u == OptionOf(g, f, s)
  <1> SUFFICES /\ f.at = "substitute" /\ f.j > last => s.word = Swapped(u.word, f.i)
               /\ ~(f.at = "substitute" /\ f.j > last) => s.word = u.word
               /\ Appends(g, f) => n.spelled = Front(u.spelled)
               /\ ~Appends(g, f) => n.spelled = u.spelled
    OBVIOUS
  <1>1. IsCall(g, f, s) /\ IsPlaced(g, f, s)
    BY DEF IsFrame
  <1>2. /\ n \in AnyScript /\ n.word = s.word /\ n.i = f.i /\ n.spelled \in Seq(Nat)
        /\ s.word \in Seq(Nat) /\ Len(s.word) \in Nat /\ f.i \in Nat
    BY <1>1, NowFacts DEF AnyScript
  <1>3. /\ first \in Nat /\ last \in Nat
        /\ \A k \in first .. last : CharOf(g.lex, k) \in Nat
    BY <1>1, ArcsOfNow
  <1>4. f.at \in {"substitute", "add"} => f.j \in first .. last + 1
    BY <1>1 DEF IsPlaced
  <1>5. n.spelled \o <<>> = n.spelled
    BY <1>2, ConcatEmptySeq
  <1>6. \A letter \in Nat : Front(n.spelled \o <<letter>>) = n.spelled
    BY <1>2, AppendFacts
  <1> HIDE DEF n, first, last
  <1>7. CASE f.at = "skip"
    <2>1. u = SkipOf(g, n) /\ ~Appends(g, f)
      BY <1>7 DEF OptionOf, n, Appends
    <2> HIDE DEF u
    <2> QED BY <1>2, <1>5, <1>7, <2>1 DEF SkipOf, Moved
  <1>8. CASE f.at = "substitute" /\ f.j <= last
    <2>1. f.at # "skip" /\ f.at # "add" /\ f.j <= LastArc(g, f.state)
      BY <1>8 DEF last
    <2>2. u = SubOf(g, n, CharOf(g.lex, f.j)) /\ Appends(g, f)
      BY <1>8, <2>1 DEF OptionOf, n, Appends
    <2>3. CharOf(g.lex, f.j) \in Nat /\ ~(f.j > last)
      BY <1>3, <1>4, <1>8
    <2> HIDE DEF u
    <2> QED BY <1>2, <1>6, <2>2, <2>3 DEF SubOf, Moved
  <1>9. CASE f.at = "substitute" /\ f.j > last
    <2>1. f.at # "skip" /\ f.at # "add" /\ ~(f.j <= LastArc(g, f.state))
      BY <1>3, <1>4, <1>9 DEF last
    <2>2. u = SwapOf(g, n) /\ ~Appends(g, f)
      BY <2>1 DEF OptionOf, n, Appends
    <2>3. f.i < Len(s.word) - 1
      BY <2>1 DEF IsOption
    <2>4. Swapped(Swapped(s.word, f.i), f.i) = s.word
      BY <1>2, <2>3, SwappedFacts
    <2> HIDE DEF u
    <2> QED BY <1>2, <1>5, <1>9, <2>2, <2>4 DEF SwapOf, Moved
  <1>10. CASE f.at = "add"
    <2>1. f.j <= LastArc(g, f.state)
      BY <1>10 DEF IsOption
    <2>2. u = AddOf(g, n, CharOf(g.lex, f.j)) /\ Appends(g, f)
      BY <1>10, <2>1 DEF OptionOf, n, Appends
    <2>3. CharOf(g.lex, f.j) \in Nat
      BY <1>3, <1>4, <1>10, <2>1 DEF last
    <2> HIDE DEF u
    <2> QED BY <1>2, <1>6, <1>10, <2>2, <2>3 DEF AddOf, Moved
  <1>11. f.at \in {"skip", "substitute", "add"} /\ (f.at = "substitute" => f.j \in Nat)
    BY <1>3, <1>4 DEF IsOption
  <1> HIDE DEF u
  <1> QED BY <1>3, <1>7, <1>8, <1>9, <1>10, <1>11

LEMMA PrefixIsCut ==
  ASSUME NEW g, NEW f, NEW s, IsCall(g, f, s)
  PROVE  SubSeq(PrefixIn(f, s), 1, f.init_prefix_size) = s.spelled
  <1> DEFINE i == IF f.at = "letter" /\ f.i > s.i THEN f.i - 1 ELSE f.i
             more == SubSeq(s.word, s.i + 1, i)
  <1>1. /\ s \in AnyScript /\ f.i \in s.i .. Len(s.word) /\ s.i \in Nat
        /\ s.spelled \in Seq(Nat) /\ Len(s.spelled) \in Nat /\ Len(s.word) \in Nat
        /\ f.init_prefix_size = Len(s.spelled)
    BY LenProperties DEF IsCall, AnyScript
  <1>2. i \in s.i .. Len(s.word)
    BY <1>1
  <1>3. PrefixIn(f, s) = KeptTo(s, i).spelled
    BY DEF PrefixIn
  <1> HIDE DEF i
  <1>4. PrefixIn(f, s) = s.spelled \o more /\ more \in Seq(Nat)
    BY <1>1, <1>2, <1>3, KeptFacts
  <1> HIDE DEF more
  <1> DEFINE both == s.spelled \o more
             cut == SubSeq(both, 1, Len(s.spelled))
  <1>5. /\ both \in Seq(Nat) /\ Len(both) = Len(s.spelled) + Len(more) /\ Len(more) \in Nat
        /\ \A k \in 1 .. Len(s.spelled) + Len(more) :
             both[k] = IF k <= Len(s.spelled) THEN s.spelled[k] ELSE more[k - Len(s.spelled)]
    BY <1>1, <1>4, ConcatProperties, LenProperties
  <1> HIDE DEF both
  <1>6. /\ cut \in Seq(Nat) /\ Len(cut) = Len(s.spelled)
        /\ \A k \in 1 .. Len(s.spelled) : cut[k] = both[k]
    <2>1. Len(s.spelled) <= Len(both)
      BY <1>1, <1>5
    <2> QED BY <1>1, <1>5, <2>1, BeginningFacts
  <1> HIDE DEF cut
  <1>7. ASSUME NEW k \in 1 .. Len(s.spelled) PROVE cut[k] = s.spelled[k]
    <2>1. k \in 1 .. Len(s.spelled) + Len(more) /\ k <= Len(s.spelled)
      BY <1>1, <1>5
    <2>2. both[k] = s.spelled[k]
      BY <1>5, <2>1
    <2> QED BY <1>6, <2>2
  <1>8. cut = s.spelled
    BY <1>1, <1>6, <1>7, SeqEqual
  <1> QED BY <1>1, <1>4, <1>8 DEF cut, both

(* The caller goes on where its edit is done, and finds the buffers as     *)
(* they were.                                                              *)
IsReturn(g, st, w, p, after, st2, w2, p2) ==
  LET parent == st[Len(st) - 1]
      cut    == SubSeq(p, 1, Last(st).init_prefix_size)
  IN  /\ st2 = SubSeq(st, 1, Len(st) - 2)
                 \o <<[after EXCEPT !.ret = Inserted(after.ret, Last(st).ret)]>>
      /\ p2 = (IF Appends(g, parent) THEN Front(cut) ELSE cut)
      /\ w2 = (IF parent.at = "substitute" /\ parent.j > LastArc(g, parent.state)
               THEN Swapped(w, parent.i) ELSE w)

LEMMA StackAfterReturn ==
  ASSUME NEW g, IsSearch(g), NEW st, NEW S, NEW w, NEW p, IsStack(g, st, S, w, p),
         Len(st) > 1, Last(st).at = "add",
         Last(st).j > LastArc(g, Last(st).state), Last(st).next_state = NONE,
         NEW after, IsNextFrame(g, st[Len(st) - 1], after), NEW st2, NEW w2, NEW p2,
         IsReturn(g, st, w, p, after, st2, w2, p2)
  PROVE  \E T : IsStack(g, st2, T, w2, p2)
  <1> DEFINE n == Len(st) - 1
             f == Last(st)
             u == S[Len(st)]
             h == st[n]
             s == S[n]
             f2 == [after EXCEPT !.ret = Inserted(after.ret, f.ret)]
  <1>1. IsFrame(g, f, u) /\ w = u.word /\ p = PrefixIn(f, u) /\ Len(st) \in Nat
    BY StackFacts
  <1>2. IsFrame(g, h, s) /\ IsPaused(g, h, s, u) /\ ~OneEdit(g)
    <2>1. n \in 1 .. Len(st) /\ n \in 1 .. Len(st) - 1 /\ n + 1 = Len(st)
      BY <1>1
    <2> HIDE DEF n
    <2> QED BY <2>1 DEF IsStack
  <1>3. IsServed(g, u, f.ret)
    <2> HIDE DEF u
    <2> QED BY <1>1, CallEnds
  <1>4. IsOption(g, h, s) /\ u = OptionOf(g, h, s)
    BY <1>2 DEF IsPaused
  <1>5. /\ IsAfter(g, h, after) /\ after.next_state = h.next_state /\ after.ret = h.ret
        /\ after \in AnyFrame
    BY DEF IsNextFrame, IsAfter, IsSameCall
  <1>6. AreRight(g, h.ret) /\ AreRight(g, f.ret)
    <2> HIDE DEF f, u, h, s
    <2> QED BY <1>1, <1>2 DEF IsFrame
  <1> HIDE DEF f, u, h, s
  <1> DEFINE all == Inserted(after.ret, f.ret)
  <1>7. AreRight(g, all) /\ IsMore(g, h.ret, all) /\ IsMore(g, f.ret, all)
    BY <1>2, <1>5, <1>6, OffersInserted
  <1>8. IsServed(g, u, all)
    <2> HIDE DEF all
    <2> QED BY <1>3, <1>7 DEF IsServed, IsMore, Reaches
  <1>9. Varies(after, f2, after.at, after.j, all)
    <2>1. all \in Offers
      <3> HIDE DEF all
      <3> QED BY <1>7 DEF AreRight
    <2> QED BY <1>5, <2>1, FrameVaries
  <1> HIDE DEF f2, all
  <1>10. IsAfter(g, h, f2) /\ f2.next_state = h.next_state /\ f2.ret = all
         /\ f2.at = after.at
    BY <1>5, <1>9 DEF IsAfter, Varies, IsSameCall
  <1>11. IsFrame(g, f2, s)
    BY <1>2, <1>4, <1>7, <1>8, <1>10, OptionTried
  <1>12. Now(f2, s) = Now(h, s) /\ f2.at # "letter"
    BY <1>4, <1>10 DEF IsAfter, Now, IsOption
  <1>13. /\ st2 = SubSeq(st, 1, Len(st) - 2) \o <<f2>>
         /\ p2 = (IF Appends(g, h) THEN Front(u.spelled) ELSE u.spelled)
         /\ w2 = (IF h.at = "substitute" /\ h.j > LastArc(g, h.state)
                  THEN Swapped(u.word, h.i) ELSE u.word)
    <2>1. SubSeq(p, 1, f.init_prefix_size) = u.spelled
      BY <1>1, PrefixIsCut DEF IsFrame
    <2> QED BY <1>1, <2>1 DEF IsReturn, f, h, f2, all
  <1>14. p2 = Now(h, s).spelled /\ w2 = s.word
    BY <1>2, <1>4, <1>13, OptionBuffers
  <1>15. PrefixIn(f2, s) = p2
    BY <1>12, <1>14, PrefixIsThere
  <1> QED BY <1>11, <1>13, <1>14, <1>15, CallIsPopped DEF s

-----------------------------------------------------------------------------
(* The letter that is next is the one in the word: nothing is tried.       *)
LEMMA LetterFollowed ==
  ASSUME NEW g, IsSearch(g), NEW f, NEW s, IsFrame(g, f, s), f.at = "substitute",
         f.j <= LastArc(g, f.state), CharOf(g.lex, f.j) = s.word[f.i + 1],
         NEW f2, IsAfter(g, f, f2), f2.next_state = TargetOf(g.lex, f.j), f2.ret = f.ret
  PROVE  IsFrame(g, f2, s)
  <1> DEFINE j == f.j
  <1>1. IsCall(g, f, s) /\ IsPlaced(g, f, s) /\ AreRight(g, f.ret)
    BY DEF IsFrame
  <1>2. /\ FirstArc(g, f.state) \in Nat /\ LastArc(g, f.state) \in Nat
        /\ f.j \in FirstArc(g, f.state) .. LastArc(g, f.state) + 1
        /\ f.i < Len(s.word)
    BY <1>1, ArcsOfNow DEF IsPlaced
  <1>3. j \in FirstArc(g, f.state) .. LastArc(g, f.state)
    BY <1>2
  <1>4. /\ TargetOf(g.lex, j) \in States(g.nodes)
        /\ g.nodes[TargetOf(g.lex, j) + 1] = Append(Now(f, s).spelled, s.word[f.i + 1])
    <2> HIDE DEF j
    <2>1. CharOf(g.lex, j) = s.word[f.i + 1]
      BY DEF j
    <2> QED BY <1>1, <1>3, <2>1, ArcsOfNow
  <1>5. TargetOf(g.lex, j) # NONE
    <2>1. TargetOf(g.lex, j) \in Nat
      BY <1>4, TrieFacts DEF IsSearch, States
    <2> QED BY <2>1 DEF NONE
  <1>6. f2.i = f.i /\ f2.state = f.state /\ Now(f2, s) = Now(f, s)
    BY DEF IsAfter, Now
  <1>7. KnowsNext(g, f2, s)
    BY <1>2, <1>4, <1>5, <1>6 DEF KnowsNext, IsNextState
  <1>8. ~IsOption(g, f, s)
    BY <1>2 DEF IsOption
  <1>9. AreRight(g, f2.ret) /\ IsMore(g, f.ret, f2.ret)
    BY <1>1 DEF IsMore
  <1> QED BY <1>7, <1>8, <1>9, FrameGoesOn

(* Two letters are not left to swap.                                       *)
LEMMA SwapPassed ==
  ASSUME NEW g, IsSearch(g), NEW f, NEW s, IsFrame(g, f, s), f.at = "substitute",
         f.j > LastArc(g, f.state), f.i >= Len(s.word) - 1,
         NEW f2, IsNextFrame(g, f, f2)
  PROVE  IsFrame(g, f2, s)
  <1>1. IsCall(g, f, s) /\ IsPlaced(g, f, s) /\ AreRight(g, f.ret) /\ KnowsNext(g, f, s)
    BY DEF IsFrame
  <1>2. /\ FirstArc(g, f.state) \in Nat /\ LastArc(g, f.state) \in Nat
        /\ f.j \in FirstArc(g, f.state) .. LastArc(g, f.state) + 1
        /\ Len(s.word) \in Nat /\ f.i \in Nat
    BY <1>1, ArcsOfNow, NowFacts DEF IsPlaced
  <1>3. /\ IsAfter(g, f, f2) /\ f2.next_state = f.next_state /\ f2.ret = f.ret
        /\ f2.at = "add" /\ f2.i = f.i /\ f2.state = f.state /\ Now(f2, s) = Now(f, s)
    BY DEF IsNextFrame, IsAfter, ToOtherLoop, Now
  <1>4. KnowsNext(g, f2, s)
    <2>1. CASE f.next_state # NONE
      BY <1>1, <1>3, <2>1 DEF KnowsNext, IsNextState
    <2>2. CASE f.next_state = NONE
      <3>1. \A k \in FirstArc(g, f.state) .. LastArc(g, f.state) : k < f.j
        BY <1>2
      <3>2. f.i < Len(s.word) => IsPassed(g, f, s.word[f.i + 1])
        BY <1>1, <2>2 DEF KnowsNext
      <3>3. f2.i < Len(s.word) => IsPassed(g, f2, s.word[f2.i + 1])
        BY <1>3, <3>1, <3>2 DEF IsPassed
      <3> QED BY <1>3, <2>2, <3>3 DEF KnowsNext
    <2> QED BY <2>1, <2>2
  <1>5. ~IsOption(g, f, s)
    BY <1>2 DEF IsOption
  <1>6. AreRight(g, f2.ret) /\ IsMore(g, f.ret, f2.ret)
    BY <1>1, <1>3 DEF IsMore
  <1> QED BY <1>3, <1>4, <1>5, <1>6, FrameGoesOn

(* The letter is kept.                                                     *)
LEMMA LetterKept ==
  ASSUME NEW g, IsSearch(g), NEW f, NEW s, IsFrame(g, f, s), f.at = "add",
         f.j > LastArc(g, f.state), f.next_state # NONE,
         NEW f2, IsSameCall(f, f2), f2.at = "letter", f2.i = f.i + 1,
         f2.state = f.next_state, f2.ret = f.ret
  PROVE  IsFrame(g, f2, s) /\ PrefixIn(f2, s) = PrefixIn(f, s)
  <1> DEFINE n == Now(f, s)
             m == Now(f2, s)
  <1>1. IsCall(g, f, s) /\ IsPlaced(g, f, s) /\ KnowsNext(g, f, s) /\ AreRight(g, f.ret)
    BY DEF IsFrame
  <1>2. /\ f.i < Len(s.word) /\ f.next_state \in States(g.nodes)
        /\ g.nodes[f.next_state + 1] = Append(n.spelled, s.word[f.i + 1])
    BY <1>1 DEF KnowsNext, IsNextState
  <1>3. /\ n \in AnyScript /\ n.word = s.word /\ n.i = f.i /\ n.spelled \in Seq(Nat)
        /\ Len(s.word) \in Nat /\ f.i \in Nat /\ s.i \in Nat
        /\ s \in AnyScript /\ f.i \in s.i .. Len(s.word)
        /\ IsAllowed(g, n) /\ Reaches(g, s, n)
    <2>1. /\ n \in AnyScript /\ n.word = s.word /\ n.i = f.i /\ IsAllowed(g, n)
          /\ Len(s.word) \in Nat /\ f.i \in Nat /\ s.i \in Nat
      BY <1>1, NowFacts
    <2>2. s \in AnyScript /\ f.i \in s.i .. Len(s.word) /\ Reaches(g, s, n)
      BY <1>1 DEF IsCall
    <2> HIDE DEF n
    <2> QED BY <2>1, <2>2 DEF AnyScript
  <1>4. /\ f.i + 1 \in s.i .. Len(s.word)
        /\ m.spelled = Append(n.spelled, s.word[f.i + 1])
        /\ m = KeepOf(n) /\ IsKeep(n, m)
    BY <1>2, <1>3, KeptOnce DEF Now
  <1>5. m \in AnyScript /\ m.edit_dist = n.edit_dist /\ m.cost = n.cost
    BY <1>3, <1>4, KeptFacts DEF Now
  <1> HIDE DEF n, m
  <1>6. IsNode(g.nodes, m.spelled)
    <2>1. f.next_state + 1 \in DOMAIN g.nodes
      BY <1>2, TrieFacts DEF IsSearch, States
    <2> QED BY <1>2, <1>4, <2>1 DEF IsNode
  <1>7. Follows(g, n, m)
    BY <1>3, <1>4, <1>5, <1>6 DEF Follows, IsStep, IsAllowed
  <1>8. Reaches(g, s, m)
    BY <1>3, <1>5, <1>7, ReachesLater
  <1>9. IsCall(g, f2, s)
    BY <1>1, <1>2, <1>4, <1>8 DEF IsCall, IsSameCall, m
  <1>10. IsPlaced(g, f2, s) /\ KnowsNext(g, f2, s) /\ AreRight(g, f2.ret)
    BY <1>1 DEF IsPlaced, KnowsNext
  <1>11. IsComplete(g, f2, s)
    <2> SUFFICES ASSUME NEW t, Reaches(g, s, t), IsFinal(g, t)
                 PROVE  Has(g, f.ret, t) \/ Reaches(g, m, t)
      BY DEF IsComplete, IsLeft, m
    <2>1. Has(g, f.ret, t) \/ IsLeft(g, f, s, t)
      BY DEF IsFrame, IsComplete
    <2>2. ASSUME IsLeft(g, f, s, t) PROVE Reaches(g, m, t)
      <3>1. PICK u \in AnyScript : IsUntried(g, f, n, u) /\ Reaches(g, u, t)
        BY <2>2 DEF IsLeft, n
      <3>2. IsKeep(n, u)
        <4>1. IsKeep(n, u) \/ \E k \in f.j .. LastArc(g, f.state) : TRUE
          BY <3>1 DEF IsUntried
        <4>2. f.j \in Int /\ LastArc(g, f.state) \in Int
          BY <1>1, ArcsOfNow DEF IsPlaced
        <4> QED BY <4>1, <4>2
      <3> QED BY <1>4, <3>1, <3>2 DEF IsKeep
    <2> QED BY <2>1, <2>2
  <1>12. PrefixIn(f2, s) = PrefixIn(f, s)
    <2>1. f2.i > s.i /\ f2.i - 1 = f.i
      BY <1>3
    <2> QED BY <2>1 DEF PrefixIn
  <1> QED BY <1>9, <1>10, <1>11, <1>12 DEF IsFrame

-----------------------------------------------------------------------------
(* The loop's body begins for a letter, or for the end of the word.        *)
IsBegun(g, f, s, f2) ==
  /\ IsSameCall(f, f2) /\ f2.i = f.i /\ f2.state = f.state
  /\ f2.next_state = NONE /\ f2.j = FirstArc(g, f.state)
  /\ f2.at = (IF f.i = Len(s.word) THEN "add"
              ELSE IF Len(s.word) > 1 THEN "skip" ELSE "substitute")
  /\ f2.ret = (IF f.i = Len(s.word) /\ StateIsWord(g.lex, f.state)
               THEN AddSimilarWord(f.ret, f.state, f.cost, Now(f, s).spelled)
               ELSE f.ret)

LEMMA WordStates ==
  ASSUME NEW g, IsSearch(g), NEW state \in States(g.nodes)
  PROVE  /\ StateIsWord(g.lex, state) => IsWordId(g.words, state, g.nodes[state + 1])
         /\ g.nodes[state + 1] \in Range(g.words) <=> StateIsWord(g.lex, state)
  <1>1. /\ g.lex.root_id = Len(g.words) /\ Len(g.words) \in Nat /\ Len(g.nodes) \in Nat
        /\ Len(g.words) < Len(g.nodes) /\ DOMAIN g.words = 1 .. Len(g.words)
        /\ \A k \in 1 .. Len(g.words) : g.nodes[k] = g.words[k]
        /\ \A k, m \in 1 .. Len(g.nodes) : g.nodes[k] = g.nodes[m] => k = m
    BY TrieFacts DEF IsSearch
  <1>2. state \in Nat /\ state + 1 \in 1 .. Len(g.nodes)
    BY <1>1 DEF States
  <1>3. ASSUME StateIsWord(g.lex, state)
        PROVE  /\ IsWordId(g.words, state, g.nodes[state + 1])
               /\ g.nodes[state + 1] \in Range(g.words)
    <2>1. state \in 0 .. Len(g.words) - 1 /\ state + 1 \in 1 .. Len(g.words)
      BY <1>1, <1>2, <1>3 DEF StateIsWord
    <2> QED BY <1>1, <2>1 DEF IsWordId, Range
  <1>4. ASSUME g.nodes[state + 1] \in Range(g.words)
        PROVE  StateIsWord(g.lex, state)
    <2>1. PICK k \in 1 .. Len(g.words) : g.nodes[state + 1] = g.words[k]
      BY <1>1, <1>4 DEF Range
    <2>2. k \in 1 .. Len(g.nodes) /\ g.nodes[k] = g.nodes[state + 1]
      BY <1>1, <2>1
    <2>3. k = state + 1
      BY <1>1, <1>2, <2>2
    <2> QED BY <1>1, <1>2, <2>3 DEF StateIsWord
  <1> QED BY <1>3, <1>4

LEMMA LetterBegun ==
  ASSUME NEW g, IsSearch(g), NEW f, NEW s, IsFrame(g, f, s), f.at = "letter",
         NEW f2, IsBegun(g, f, s, f2)
  PROVE  IsFrame(g, f2, s)
  <1> DEFINE n == Now(f, s)
             first == FirstArc(g, f.state)
             last == LastArc(g, f.state)
  <1>1. IsCall(g, f, s) /\ AreRight(g, f.ret)
    BY DEF IsFrame
  <1>2. /\ n \in AnyScript /\ n.word = s.word /\ n.i = f.i /\ n.cost = f.cost
        /\ n.spelled = g.nodes[f.state + 1] /\ Reaches(g, Untouched(g.str), n)
        /\ Len(s.word) \in Nat /\ f.i \in Nat /\ f.i <= Len(s.word)
        /\ f.state \in States(g.nodes)
    BY <1>1, NowFacts
  <1>3. first \in Nat /\ last \in Nat /\ first <= last + 1
    BY <1>1, ArcsOfNow
  <1>4. /\ IsSameCall(f, f2) /\ f2.i = f.i /\ f2.state = f.state
        /\ f2.next_state = NONE /\ f2.j = first
        /\ f.i = Len(s.word) => f2.at = "add"
        /\ f.i # Len(s.word) /\ Len(s.word) > 1 => f2.at = "skip"
        /\ f.i # Len(s.word) /\ ~(Len(s.word) > 1) => f2.at = "substitute"
    BY DEF IsBegun
  <1>5. IsCall(g, f2, s) /\ Now(f2, s) = n
    BY <1>1, <1>4, CallGoesOn
  <1>6. IsPlaced(g, f2, s)
    <2>1. f2.j \in first .. last + 1
      BY <1>3, <1>4
    <2>2. f2.at \in {"skip", "substitute"} => f.i < Len(s.word)
      BY <1>2, <1>4
    <2>3. f2.at = "skip" => Len(s.word) > 1
      BY <1>4
    <2> QED BY <1>4, <2>1, <2>2, <2>3 DEF IsPlaced
  <1>7. KnowsNext(g, f2, s)
    <2>1. CASE f.i = Len(s.word)
      BY <1>2, <1>4, <2>1 DEF KnowsNext
    <2>2. CASE f.i # Len(s.word) /\ Len(s.word) > 1
      BY <1>4, <2>2 DEF KnowsNext
    <2>3. CASE f.i # Len(s.word) /\ ~(Len(s.word) > 1)
      <3>1. \A k \in first .. last : ~(k < first)
        BY <1>3
      <3> QED BY <1>4, <2>3, <3>1 DEF KnowsNext, IsPassed
    <2> QED BY <2>1, <2>2, <2>3
  <1> HIDE DEF n, first, last
  <1>8. /\ AreRight(g, f2.ret) /\ IsMore(g, f.ret, f2.ret)
        /\ IsFinal(g, n) => Has(g, f2.ret, n)
    <2>1. CASE f.i = Len(s.word) /\ StateIsWord(g.lex, f.state)
      <3>1. IsWordId(g.words, f.state, n.spelled) /\ n.spelled \in Range(g.words)
        BY <1>2, <2>1, WordStates
      <3>2. Spells(g, n)
        BY <1>2, <2>1, <3>1 DEF Spells, IsFinal
      <3>3. f2.ret = AddSimilarWord(f.ret, f.state, n.cost, n.spelled)
        BY <1>2, <2>1 DEF IsBegun, n
      <3> QED BY <1>1, <3>1, <3>2, <3>3, OfferAdded
    <2>2. CASE ~(f.i = Len(s.word) /\ StateIsWord(g.lex, f.state))
      <3>1. f2.ret = f.ret
        BY <2>2 DEF IsBegun
      <3>2. ~IsFinal(g, n)
        BY <1>2, <2>2, WordStates DEF IsFinal
      <3> QED BY <1>1, <3>1, <3>2 DEF IsMore
    <2> QED BY <2>1, <2>2
  <1>9. ASSUME NEW u \in AnyScript, Follows(g, n, u)
        PROVE  IsUntried(g, f2, n, u)
    <2>1. IsStep(g, n, u)
      BY <1>9 DEF Follows
    <2>2. IsAdd(g, n, u) => \E k \in first .. last : u = AddOf(g, n, CharOf(g.lex, k))
      BY <1>1, <1>9, FollowedArcs DEF n, first, last
    <2>3. IsSub(g, n, u) =>
            \E k \in first .. last : /\ CharOf(g.lex, k) # n.word[f.i + 1]
                                     /\ u = SubOf(g, n, CharOf(g.lex, k))
      BY <1>1, <1>2, <1>9, FollowedArcs DEF n, first, last
    <2>4. CASE f.i = Len(s.word)
      <3>1. IsAdd(g, n, u)
        BY <1>2, <2>1, <2>4 DEF IsStep, IsKeep, IsSkip, IsSub, IsSwap
      <3> QED BY <1>4, <2>2, <2>4, <3>1 DEF IsUntried, last
    <2>5. CASE f.i # Len(s.word) /\ Len(s.word) > 1
      BY <1>4, <2>1, <2>5 DEF IsUntried
    <2>6. CASE f.i # Len(s.word) /\ ~(Len(s.word) > 1)
      <3>1. ~IsSkip(g, n, u)
        BY <1>2, <2>6 DEF IsSkip
      <3>2. f2.at = "substitute" /\ f2.i < Len(n.word)
        BY <1>2, <1>4, <2>6
      <3>3. IsKeep(n, u) \/ IsSwap(g, n, u) \/ IsAdd(g, n, u) => IsUntried(g, f2, n, u)
        BY <3>2 DEF IsUntried
      <3>4. IsSub(g, n, u) => IsUntried(g, f2, n, u)
        BY <1>4, <2>3, <3>2 DEF IsUntried, last
      <3> QED BY <2>1, <3>1, <3>3, <3>4 DEF IsStep
    <2> QED BY <2>4, <2>5, <2>6
  <1>10. IsComplete(g, f2, s)
    <2> SUFFICES ASSUME NEW t, Reaches(g, s, t), IsFinal(g, t)
                 PROVE  Has(g, f2.ret, t) \/ IsLeft(g, f2, s, t)
      BY DEF IsComplete
    <2>1. Has(g, f.ret, t) \/ Reaches(g, n, t)
      BY DEF IsFrame, IsComplete, IsLeft, n
    <2>2. CASE Has(g, f.ret, t)
      BY <1>8, <2>2 DEF IsMore, Reaches
    <2>3. CASE t = n
      BY <1>8, <2>3
    <2>4. CASE Reaches(g, n, t) /\ t # n
      <3>1. PICK u \in AnyScript : Follows(g, n, u) /\ Reaches(g, u, t)
        BY <2>4, ReachedByAStep
      <3>2. f2.at # "letter"
        BY <1>4
      <3> QED BY <1>5, <1>9, <3>1, <3>2 DEF IsLeft
    <2> QED BY <2>1, <2>2, <2>3, <2>4
  <1> QED BY <1>5, <1>6, <1>7, <1>8, <1>10 DEF IsFrame

(* The actions of SimilarWords are these steps.                            *)
IsCurrent(g) == g.lex = lexicon /\ g.model = errModel /\ g.limits = limits

LEMMA NextFrames ==
  ASSUME NEW g, IsCurrent(g), IsSearch(g), NEW f, NEW s, IsFrame(g, f, s)
  PROVE  /\ f.at = "skip" => IsNextFrame(g, f, AfterSkip(f))
         /\ f.at = "substitute" /\ f.j > LastArc(g, f.state) => IsNextFrame(g, f, AfterSwap(f))
         /\ Appends(g, f) =>
              IsNextFrame(g, f, AfterArc(f)) /\ Varies(f, AfterArc(f), f.at, f.j + 1, f.ret)
  <1> DEFINE first == FirstArc(g, f.state)
             last == LastArc(g, f.state)
  <1>1. f \in AnyFrame /\ IsCall(g, f, s)
    BY DEF IsFrame, IsCall
  <1>2. first \in Nat /\ last \in Nat /\ f.j \in Nat /\ f.j + 1 \in Nat /\ f.ret \in Offers
    BY <1>1, ArcsOfNow DEF AnyFrame
  <1>3. Arcs(f)[1] = first
    BY DEF Arcs, FirstArc, IsCurrent
  <1> HIDE DEF first, last
  <1>4. ASSUME f.at = "skip" PROVE IsNextFrame(g, f, AfterSkip(f))
    <2>1. Varies(f, AfterSkip(f), "substitute", first, f.ret)
      BY <1>1, <1>2, <1>3, FrameVaries DEF AfterSkip, At
    <2> QED BY <1>4, <2>1 DEF IsNextFrame, IsAfter, ToOtherLoop, Varies, first
  <1>5. ASSUME f.at = "substitute", f.j > last PROVE IsNextFrame(g, f, AfterSwap(f))
    <2>1. Varies(f, AfterSwap(f), "add", first, f.ret)
      BY <1>1, <1>2, <1>3, FrameVaries DEF AfterSwap, At
    <2> QED BY <1>5, <2>1 DEF IsNextFrame, IsAfter, ToOtherLoop, Varies, first, last
  <1>6. ASSUME Appends(g, f)
        PROVE  IsNextFrame(g, f, AfterArc(f)) /\ Varies(f, AfterArc(f), f.at, f.j + 1, f.ret)
    <2>1. Varies(f, AfterArc(f), f.at, f.j + 1, f.ret)
      <3>1. AfterArc(f) = [f EXCEPT !.j = f.j + 1]
        BY DEF AfterArc
      <3> QED BY <1>1, <1>2, <3>1, FrameVaries
    <2>2. f.at \in {"substitute", "add"} /\ ~(f.j > last)
      BY <1>2, <1>6 DEF Appends, last
    <2> QED BY <2>1, <2>2 DEF IsNextFrame, IsAfter, ToOtherLoop, Varies, last
  <1> QED BY <1>4, <1>5, <1>6 DEF last

(* The edits are what the scripts say.                                     *)
IsEditFor(g, f, s, e) ==
  LET u == OptionOf(g, f, s)
  IN  /\ f.cost + e.price.cost = u.cost
      /\ f.edit_distance + e.price.edit_dist = u.edit_dist
      /\ e.state = OptionState(g, f) /\ e.i = u.i /\ e.word = u.word /\ e.prefix = u.spelled

LEMMA TryIsTry ==
  ASSUME NEW g, IsCurrent(g), NEW s, NEW e, IsEditFor(g, Top, s, e),
         NEW after, Try(e, after)
  PROVE  IsTry(g, stack, word, prefix, Top, OptionOf(g, Top, s), after,
               stack', word', prefix')
  <1> DEFINE f == Top
             u == OptionOf(g, Top, s)
             within == u.cost <= g.limits.cost_limit /\ u.edit_dist <= g.limits.max_edit_distance
             more == u.edit_dist + g.model.minimum <= g.limits.max_edit_distance
             state == OptionState(g, f)
             rest == RestAdded(g, f.ret, state, u)
  <1>1. /\ f.cost + e.price.cost = u.cost
        /\ f.edit_distance + e.price.edit_dist = u.edit_dist
        /\ e.state = state /\ e.i = u.i /\ e.word = u.word /\ e.prefix = u.spelled
    BY DEF IsEditFor
  <1> HIDE DEF u
  <1>2. WithinLimits(f, e) <=> within
    BY <1>1 DEF WithinLimits, CostAfter, DistanceAfter, IsCurrent
  <1>3. MoreEditsFit(f, e) <=> more
    BY <1>1 DEF MoreEditsFit, DistanceAfter, MinOperationEditDistance, IsCurrent
  <1>4. WithRest(f, e) = rest
    BY <1>1 DEF WithRest, RestAdded, CostAfter, IsCurrent
  <1>5. Frame(DistanceAfter(f, e), CostAfter(f, e), e.state, e.i, Len(e.prefix))
          = Frame(u.edit_dist, u.cost, state, u.i, Len(u.spelled))
    BY <1>1 DEF DistanceAfter, CostAfter
  <1>6. \/ ~WithinLimits(f, e) /\ stack' = Append(Front(stack), after)
             /\ word' = word /\ prefix' = prefix
        \/ /\ WithinLimits(f, e) /\ ~MoreEditsFit(f, e)
           /\ stack' = Append(Front(stack), [after EXCEPT !.ret = WithRest(f, e)])
           /\ word' = word /\ prefix' = prefix
        \/ /\ WithinLimits(f, e) /\ MoreEditsFit(f, e)
           /\ stack' = Front(stack) \o
                <<[f EXCEPT !.ret = WithRest(f, e)],
                  Frame(DistanceAfter(f, e), CostAfter(f, e), e.state, e.i, Len(e.prefix))>>
           /\ word' = e.word /\ prefix' = e.prefix
    <2> HIDE DEF f
    <2> QED BY DEF Try, SetTop, f
  <1>7. \/ ~within /\ stack' = Append(Front(stack), after) /\ word' = word /\ prefix' = prefix
        \/ /\ within /\ ~more
           /\ stack' = Append(Front(stack), [after EXCEPT !.ret = rest])
           /\ word' = word /\ prefix' = prefix
        \/ /\ within /\ more
           /\ stack' = Front(stack) \o
                <<[f EXCEPT !.ret = rest],
                  Frame(u.edit_dist, u.cost, state, u.i, Len(u.spelled))>>
           /\ word' = u.word /\ prefix' = u.spelled
    <2> HIDE DEF f, within, more, rest, state
    <2> QED BY <1>1, <1>2, <1>3, <1>4, <1>5, <1>6
  <1> HIDE DEF f
  <1>8. IsTry(g, stack, word, prefix, f, u, after, stack', word', prefix')
    BY <1>7 DEF IsTry
  <1> QED BY <1>8 DEF f, u

LEMMA ContextIs ==
  ASSUME word \in Seq(Nat), NEW k \in Int
  PROVE  Context(k) = LetterAt(word, k + 1)
  <1>1. DOMAIN word = 1 .. Len(word) /\ Len(word) \in Nat
    BY LenProperties
  <1>2. k \in 0 .. Len(word) - 1 <=> k + 1 \in DOMAIN word
    BY <1>1
  <1> QED BY <1>2 DEF Context, LetterAt, Letter

LEMMA MovedIs ==
  ASSUME NEW s, NEW price, NEW i, NEW new, NEW w
  PROVE  /\ Moved(s, price, i, new, w).word = w /\ Moved(s, price, i, new, w).i = i
         /\ Moved(s, price, i, new, w).spelled = s.spelled \o new
         /\ Moved(s, price, i, new, w).edit_dist = s.edit_dist + price.edit_dist
         /\ Moved(s, price, i, new, w).cost = s.cost + price.cost
  BY DEF Moved

LEMMA EditIsMove ==
  ASSUME NEW g, NEW f, NEW s, NEW price, NEW state, NEW i, NEW new, NEW w, NEW p,
         Now(f, s).edit_dist = f.edit_distance, Now(f, s).cost = f.cost,
         state = OptionState(g, f), p = Now(f, s).spelled \o new,
         OptionOf(g, f, s) = Moved(Now(f, s), price, i, new, w)
  PROVE  IsEditFor(g, f, s, Edit(price, state, i, w, p))
  <1> DEFINE u == OptionOf(g, f, s)
             e == Edit(price, state, i, w, p)
             n == Now(f, s)
  <1>1. /\ u.word = w /\ u.i = i /\ u.spelled = n.spelled \o new
        /\ u.edit_dist = n.edit_dist + price.edit_dist /\ u.cost = n.cost + price.cost
    BY MovedIs
  <1>2. e.price = price /\ e.i = i /\ e.state = state /\ e.word = w /\ e.prefix = p
    BY DEF Edit
  <1> HIDE DEF u, e, n
  <1>3. /\ f.cost + e.price.cost = u.cost /\ f.edit_distance + e.price.edit_dist = u.edit_dist
        /\ e.state = OptionState(g, f) /\ e.i = u.i /\ e.word = u.word
        /\ e.prefix = u.spelled
    BY <1>1, <1>2 DEF n
  <1> QED BY <1>3 DEF IsEditFor, u, e

LEMMA EditsAreOptions ==
  ASSUME NEW g, IsCurrent(g), IsSearch(g), NEW f, NEW s, IsFrame(g, f, s),
         word = s.word, prefix = Now(f, s).spelled
  PROVE  /\ f.at = "skip" => IsEditFor(g, f, s, SkipLetter(f))
         /\ f.at = "substitute" /\ f.j <= LastArc(g, f.state) =>
              IsEditFor(g, f, s, Substitution(f))
         /\ f.at = "substitute" /\ f.j > LastArc(g, f.state) => IsEditFor(g, f, s, Swap(f))
         /\ f.at = "add" /\ f.j <= LastArc(g, f.state) => IsEditFor(g, f, s, AddLetter(f))
  <1> DEFINE n == Now(f, s)
  <1>1. IsCall(g, f, s) /\ IsPlaced(g, f, s)
    BY DEF IsFrame
  <1>2. /\ n.word = word /\ n.i = f.i /\ n.edit_dist = f.edit_distance /\ n.cost = f.cost
        /\ n.spelled = prefix /\ n.spelled \in Seq(Nat)
        /\ word \in Seq(Nat) /\ f.i \in Nat
    <2>1. /\ n \in AnyScript /\ n.word = s.word /\ n.i = f.i
          /\ n.edit_dist = f.edit_distance /\ n.cost = f.cost
          /\ s.word \in Seq(Nat) /\ f.i \in Nat
      BY <1>1, NowFacts
    <2> HIDE DEF n
    <2>2. n.spelled \in Seq(Nat)
      BY <2>1 DEF AnyScript
    <2> QED BY <2>1, <2>2 DEF n
  <1>3. ArcChar(f) = CharOf(g.lex, f.j) /\ ArcTarget(f) = TargetOf(g.lex, f.j)
    BY DEF ArcChar, ArcTarget, CharOf, TargetOf, IsCurrent
  <1>4. g.model = errModel /\ g.limits = limits
    BY DEF IsCurrent
  <1>9. f.at \in {"substitute", "add"} /\ f.j <= LastArc(g, f.state) => ArcChar(f) \in Nat
    <2>1. /\ FirstArc(g, f.state) \in Nat /\ LastArc(g, f.state) \in Nat
          /\ \A k \in FirstArc(g, f.state) .. LastArc(g, f.state) : CharOf(g.lex, k) \in Nat
      BY <1>1, ArcsOfNow
    <2>2. f.at \in {"substitute", "add"} =>
            f.j \in FirstArc(g, f.state) .. LastArc(g, f.state) + 1
      BY <1>1 DEF IsPlaced
    <2> QED BY <1>3, <2>1, <2>2
  <1>5. ASSUME f.at = "skip" PROVE IsEditFor(g, f, s, SkipLetter(f))
    <2> DEFINE price == InsertionCost(errModel, Letter(f.i), Context(f.i - 1), Context(f.i + 1))
    <2>1. Context(f.i - 1) = LetterAt(word, f.i) /\ Context(f.i + 1) = LetterAt(word, f.i + 2)
      <3>1. f.i - 1 \in Int /\ f.i + 1 \in Int /\ f.i - 1 + 1 = f.i /\ f.i + 1 + 1 = f.i + 2
        BY <1>2
      <3> QED BY <1>2, <3>1, ContextIs
    <2>2. OptionState(g, f) = f.state
      <3>1. "skip" # "substitute" /\ "skip" # "add"
        OBVIOUS
      <3> QED BY <1>5, <3>1 DEF OptionState, Appends
    <2>3. OptionOf(g, f, s) = Moved(n, price, f.i + 1, <<>>, word)
      BY <1>2, <1>4, <1>5, <2>1 DEF OptionOf, SkipOf, Letter
    <2>4. prefix = n.spelled \o <<>>
      BY <1>2, ConcatEmptySeq
    <2> HIDE DEF price
    <2>5. IsEditFor(g, f, s, Edit(price, f.state, f.i + 1, word, prefix))
      BY <1>2, <2>2, <2>3, <2>4, EditIsMove
    <2> QED BY <2>5 DEF SkipLetter, price
  <1>6. ASSUME f.at = "substitute", f.j <= LastArc(g, f.state)
        PROVE  IsEditFor(g, f, s, Substitution(f))
    <2> DEFINE price == SubstitutionCost(errModel, Letter(f.i), ArcChar(f), limits.ignore_case)
    <2>1. OptionState(g, f) = ArcTarget(f)
      BY <1>3, <1>6 DEF OptionState, Appends
    <2>2. OptionOf(g, f, s) = Moved(n, price, f.i + 1, <<ArcChar(f)>>, word)
      <3>1. "skip" # "substitute" /\ "substitute" # "add"
        OBVIOUS
      <3> QED BY <1>2, <1>3, <1>4, <1>6, <3>1 DEF OptionOf, SubOf, Letter
    <2>3. Append(prefix, ArcChar(f)) = n.spelled \o <<ArcChar(f)>>
      <3>1. prefix \in Seq(Nat) /\ ArcChar(f) \in Nat
        BY <1>2, <1>6, <1>9
      <3> QED BY <1>2, <3>1, AppendIsConcat
    <2> HIDE DEF price
    <2>4. IsEditFor(g, f, s, Edit(price, ArcTarget(f), f.i + 1, word, Append(prefix, ArcChar(f))))
      BY <1>2, <2>1, <2>2, <2>3, EditIsMove
    <2> QED BY <2>4 DEF Substitution, price
  <1>7. ASSUME f.at = "substitute", f.j > LastArc(g, f.state)
        PROVE  IsEditFor(g, f, s, Swap(f))
    <2> DEFINE price == SwapCost(errModel, Letter(f.i), Letter(f.i + 1))
    <2>0. f.j \in Nat /\ LastArc(g, f.state) \in Nat
      BY <1>1, ArcsOfNow DEF IsCall, AnyFrame
    <2>1. ~(f.j <= LastArc(g, f.state))
      BY <1>7, <2>0
    <2>2. OptionState(g, f) = f.state
      BY <2>1 DEF OptionState, Appends
    <2>3. OptionOf(g, f, s) = Moved(n, price, f.i, <<>>, Swapped(word, f.i))
      <3>1. "skip" # "substitute" /\ "substitute" # "add" /\ f.i + 1 + 1 = f.i + 2
        BY <1>2
      <3> QED BY <1>2, <1>4, <1>7, <2>1, <3>1 DEF OptionOf, SwapOf, Letter
    <2>4. prefix = n.spelled \o <<>>
      BY <1>2, ConcatEmptySeq
    <2> HIDE DEF price
    <2>5. IsEditFor(g, f, s, Edit(price, f.state, f.i, Swapped(word, f.i), prefix))
      BY <1>2, <2>2, <2>3, <2>4, EditIsMove
    <2> QED BY <2>5 DEF Swap, price
  <1>8. ASSUME f.at = "add", f.j <= LastArc(g, f.state)
        PROVE  IsEditFor(g, f, s, AddLetter(f))
    <2> DEFINE price == DeletionCost(errModel, ArcChar(f), BLANK)
    <2>1. OptionState(g, f) = ArcTarget(f)
      BY <1>3, <1>8 DEF OptionState, Appends
    <2>2. OptionOf(g, f, s) = Moved(n, price, f.i, <<ArcChar(f)>>, word)
      <3>1. "skip" # "add"
        OBVIOUS
      <3> QED BY <1>2, <1>3, <1>4, <1>8, <3>1 DEF OptionOf, AddOf
    <2>3. Append(prefix, ArcChar(f)) = n.spelled \o <<ArcChar(f)>>
      <3>1. prefix \in Seq(Nat) /\ ArcChar(f) \in Nat
        BY <1>2, <1>8, <1>9
      <3> QED BY <1>2, <3>1, AppendIsConcat
    <2> HIDE DEF price
    <2>4. IsEditFor(g, f, s, Edit(price, ArcTarget(f), f.i, word, Append(prefix, ArcChar(f))))
      BY <1>2, <2>1, <2>2, <2>3, EditIsMove
    <2> QED BY <2>4 DEF AddLetter, price
  <1> QED BY <1>5, <1>6, <1>7, <1>8

LEMMA TopOfStack ==
  ASSUME NEW g, IsCurrent(g), IsSearch(g), NEW S, IsStack(g, stack, S, word, prefix)
  PROVE  /\ Top = Last(stack) /\ IsFrame(g, Top, S[Len(stack)])
         /\ Top \in AnyFrame /\ Top.j \in Nat /\ Top.i \in Nat
         /\ Arcs(Top)[1] = FirstArc(g, Top.state) /\ Arcs(Top)[2] = LastArc(g, Top.state)
         /\ FirstArc(g, Top.state) \in Nat /\ LastArc(g, Top.state) \in Nat
         /\ ArcChar(Top) = CharOf(g.lex, Top.j) /\ ArcTarget(Top) = TargetOf(g.lex, Top.j)
         /\ word = S[Len(stack)].word /\ Len(word) \in Nat
         /\ prefix = PrefixIn(Top, S[Len(stack)])
         /\ Top.at # "letter" => prefix = Now(Top, S[Len(stack)]).spelled
  <1> DEFINE f == Last(stack)
             s == S[Len(stack)]
  <1>1. /\ IsFrame(g, f, s) /\ word = s.word /\ prefix = PrefixIn(f, s)
        /\ s \in AnyScript
    BY StackFacts
  <1>2. IsCall(g, f, s) /\ f \in AnyFrame
    BY <1>1 DEF IsFrame, IsCall
  <1>3. f.j \in Nat /\ f.i \in Nat
    <2> HIDE DEF f
    <2> QED BY <1>2 DEF AnyFrame
  <1>4. FirstArc(g, f.state) \in Nat /\ LastArc(g, f.state) \in Nat
    <2> HIDE DEF f, s
    <2> QED BY <1>2, ArcsOfNow
  <1>5. /\ Arcs(f)[1] = FirstArc(g, f.state) /\ Arcs(f)[2] = LastArc(g, f.state)
        /\ ArcChar(f) = CharOf(g.lex, f.j) /\ ArcTarget(f) = TargetOf(g.lex, f.j)
    BY DEF Arcs, FirstArc, LastArc, ArcChar, ArcTarget, CharOf, TargetOf, IsCurrent
  <1>6. f.at # "letter" => prefix = Now(f, s).spelled
    <2> HIDE DEF f, s
    <2> QED BY <1>1, PrefixIsThere
  <1>7. Len(word) \in Nat
    <2> HIDE DEF f, s
    <2> QED BY <1>1, LenProperties DEF AnyScript
  <1>8. Top = f
    BY DEF Top
  <1> HIDE DEF f
  <1> QED BY <1>1, <1>2, <1>3, <1>4, <1>5, <1>6, <1>7, <1>8 DEF f

LEMMA EditIsTried ==
  ASSUME NEW g, IsCurrent(g), IsSearch(g), NEW S, IsStack(g, stack, S, word, prefix),
         IsOption(g, Top, S[Len(stack)]),
         NEW e, IsEditFor(g, Top, S[Len(stack)], e),
         NEW after, IsNextFrame(g, Top, after), Try(e, after)
  PROVE  \E T : IsStack(g, stack', T, word', prefix')
  <1> DEFINE s == S[Len(stack)]
  <1>1. IsTry(g, stack, word, prefix, Top, OptionOf(g, Top, s), after, stack', word', prefix')
    <2> HIDE DEF s
    <2>1. IsEditFor(g, Top, s, e)
      BY DEF s
    <2> QED BY <2>1, TryIsTry
  <1>2. Top = Last(stack)
    BY DEF Top
  <1> QED BY <1>1, <1>2, StackAfterTry

LEMMA TriesGoOn ==
  ASSUME NEW g, IsCurrent(g), IsSearch(g), NEW S, IsStack(g, stack, S, word, prefix),
         TrySkip \/ TrySubstitution \/ TrySwap \/ TryAddition
  PROVE  \E T : IsStack(g, stack', T, word', prefix')
  <1> DEFINE f == Top
             s == S[Len(stack)]
  <1>1. /\ IsFrame(g, f, s)
        /\ f.j \in Nat /\ f.i \in Nat
        /\ Arcs(f)[2] = LastArc(g, f.state) /\ LastArc(g, f.state) \in Nat
        /\ ArcChar(f) = CharOf(g.lex, f.j)
        /\ word = s.word /\ Len(word) \in Nat
        /\ f.at # "letter" => prefix = Now(f, s).spelled
    BY TopOfStack
  <1>2. /\ f.at = "skip" => IsNextFrame(g, f, AfterSkip(f))
        /\ f.at = "substitute" /\ f.j > LastArc(g, f.state) => IsNextFrame(g, f, AfterSwap(f))
        /\ Appends(g, f) => IsNextFrame(g, f, AfterArc(f))
    <2> HIDE DEF f, s
    <2> QED BY <1>1, NextFrames
  <1>3. ASSUME f.at # "letter"
        PROVE  /\ f.at = "skip" => IsEditFor(g, f, s, SkipLetter(f))
               /\ f.at = "substitute" /\ f.j <= LastArc(g, f.state) =>
                    IsEditFor(g, f, s, Substitution(f))
               /\ f.at = "substitute" /\ f.j > LastArc(g, f.state) =>
                    IsEditFor(g, f, s, Swap(f))
               /\ f.at = "add" /\ f.j <= LastArc(g, f.state) =>
                    IsEditFor(g, f, s, AddLetter(f))
    <2> HIDE DEF f, s
    <2> QED BY <1>1, <1>3, EditsAreOptions
  <1>4. CASE TrySkip
    <2>1. f.at = "skip" /\ Try(SkipLetter(f), AfterSkip(f))
      BY <1>4 DEF TrySkip
    <2>2. IsOption(g, f, s)
      BY <2>1 DEF IsOption
    <2>3. "skip" # "letter"
      OBVIOUS
    <2>4. IsEditFor(g, f, s, SkipLetter(f)) /\ IsNextFrame(g, f, AfterSkip(f))
      BY <1>2, <1>3, <2>1, <2>3
    <2> QED BY <2>1, <2>2, <2>4, EditIsTried
  <1>5. CASE TrySubstitution
    <2>1. /\ f.at = "substitute" /\ f.j <= LastArc(g, f.state)
          /\ ArcChar(f) # Letter(f.i) /\ Try(Substitution(f), AfterArc(f))
      BY <1>1, <1>5 DEF TrySubstitution, AtArc
    <2>2. IsOption(g, f, s) /\ Appends(g, f)
      BY <1>1, <2>1 DEF IsOption, Appends, Letter
    <2>3. "substitute" # "letter"
      OBVIOUS
    <2>4. IsEditFor(g, f, s, Substitution(f)) /\ IsNextFrame(g, f, AfterArc(f))
      BY <1>2, <1>3, <2>1, <2>2, <2>3
    <2> QED BY <2>1, <2>2, <2>4, EditIsTried
  <1>6. CASE TrySwap
    <2>1. /\ f.at = "substitute" /\ f.j > LastArc(g, f.state)
          /\ f.i < Len(word) - 1 /\ Try(Swap(f), AfterSwap(f))
      BY <1>1, <1>6 DEF TrySwap, AfterArcs
    <2>2. IsOption(g, f, s)
      BY <1>1, <2>1 DEF IsOption
    <2>3. "substitute" # "letter"
      OBVIOUS
    <2>4. IsEditFor(g, f, s, Swap(f)) /\ IsNextFrame(g, f, AfterSwap(f))
      BY <1>2, <1>3, <2>1, <2>3
    <2> QED BY <2>1, <2>2, <2>4, EditIsTried
  <1>7. CASE TryAddition
    <2>1. /\ f.at = "add" /\ f.j <= LastArc(g, f.state)
          /\ Try(AddLetter(f), AfterArc(f))
      BY <1>1, <1>7 DEF TryAddition, AtArc
    <2>2. IsOption(g, f, s) /\ Appends(g, f)
      BY <1>1, <2>1 DEF IsOption, Appends
    <2>3. "add" # "letter"
      OBVIOUS
    <2>4. IsEditFor(g, f, s, AddLetter(f)) /\ IsNextFrame(g, f, AfterArc(f))
      BY <1>2, <1>3, <2>1, <2>2, <2>3
    <2> QED BY <2>1, <2>2, <2>4, EditIsTried
  <1> QED BY <1>4, <1>5, <1>6, <1>7

LEMMA TopIsReplaced ==
  ASSUME NEW g, IsCurrent(g), IsSearch(g), NEW S, IsStack(g, stack, S, word, prefix),
         NEW f, IsFrame(g, f, S[Len(stack)]),
         stack' = Append(Front(stack), f), word' = word,
         prefix' = PrefixIn(f, S[Len(stack)])
  PROVE  \E T : IsStack(g, stack', T, word', prefix')
  <1>1. IsStack(g, Append(Front(stack), f), S, word, PrefixIn(f, S[Len(stack)]))
    BY TopIsSet
  <1> QED BY <1>1

LEMMA FrameFollows ==
  ASSUME NEW g, NEW f, NEW f1, NEW at, NEW j, NEW ret, Varies(f, f1, at, j, ret),
         NEW next \in Nat \union {NONE}
  PROVE  /\ IsSameCall(f, [f1 EXCEPT !.next_state = next])
         /\ [f1 EXCEPT !.next_state = next].next_state = next
         /\ [f1 EXCEPT !.next_state = next].i = f.i
         /\ [f1 EXCEPT !.next_state = next].state = f.state
         /\ [f1 EXCEPT !.next_state = next].at = at
         /\ [f1 EXCEPT !.next_state = next].j = j
         /\ [f1 EXCEPT !.next_state = next].ret = ret
  BY DEF Varies, IsSameCall, AnyFrame

LEMMA LettersFollow ==
  ASSUME NEW g, IsCurrent(g), IsSearch(g), NEW S, IsStack(g, stack, S, word, prefix),
         FollowLetter
  PROVE  \E T : IsStack(g, stack', T, word', prefix')
  <1> DEFINE f == Top
             s == S[Len(stack)]
             next == ArcTarget(Top)
             f1 == AfterArc(f)
             f2 == [AfterArc(Top) EXCEPT !.next_state = ArcTarget(Top)]
  <1>1. /\ IsFrame(g, f, s)
        /\ f.j \in Nat /\ f.i \in Nat
        /\ Arcs(f)[2] = LastArc(g, f.state) /\ LastArc(g, f.state) \in Nat
        /\ ArcChar(f) = CharOf(g.lex, f.j) /\ next = TargetOf(g.lex, f.j)
        /\ word = s.word
        /\ f.at # "letter" => prefix = Now(f, s).spelled
    BY TopOfStack
  <1>2. /\ f.at = "substitute" /\ f.j <= LastArc(g, f.state)
        /\ CharOf(g.lex, f.j) = s.word[f.i + 1]
        /\ stack' = Append(Front(stack), f2) /\ word' = word /\ prefix' = prefix
    BY <1>1 DEF FollowLetter, AtArc, SetTop, Letter
  <1>3. f2 = [f1 EXCEPT !.next_state = next]
    BY DEF f1, f2
  <1> HIDE DEF f, s, next, f1, f2
  <1>4. Varies(f, f1, f.at, f.j + 1, f.ret)
    <2>1. Appends(g, f)
      BY <1>2 DEF Appends
    <2> QED BY <1>1, <2>1, NextFrames DEF f1
  <1>5. next \in Nat
    <2>1. IsCall(g, f, s) /\ IsPlaced(g, f, s)
      BY <1>1 DEF IsFrame
    <2>2. f.j \in FirstArc(g, f.state) .. LastArc(g, f.state) + 1
      BY <1>2, <2>1 DEF IsPlaced
    <2>3. /\ FirstArc(g, f.state) \in Nat
          /\ \A k \in FirstArc(g, f.state) .. LastArc(g, f.state) :
               TargetOf(g.lex, k) \in States(g.nodes)
      BY <2>1, ArcsOfNow
    <2>4. TargetOf(g.lex, f.j) \in States(g.nodes)
      BY <1>1, <1>2, <2>2, <2>3
    <2> QED BY <1>1, <2>4, TrieFacts DEF IsSearch, States
  <1>6. /\ IsSameCall(f, f2) /\ f2.next_state = next /\ f2.i = f.i /\ f2.state = f.state
        /\ f2.at = f.at /\ f2.j = f.j + 1 /\ f2.ret = f.ret
    BY <1>3, <1>4, <1>5, FrameFollows
  <1>7. IsAfter(g, f, f2)
    <2>1. ~(f.j > LastArc(g, f.state)) /\ "substitute" # "skip"
      BY <1>1, <1>2
    <2> QED BY <1>2, <1>6, <2>1 DEF IsAfter, ToOtherLoop
  <1>8. IsFrame(g, f2, s)
    BY <1>1, <1>2, <1>6, <1>7, LetterFollowed
  <1>9. PrefixIn(f2, s) = prefix
    <2>1. f.at # "letter" /\ f2.at # "letter" /\ Now(f2, s) = Now(f, s)
      <3>1. "substitute" # "letter"
        OBVIOUS
      <3> QED BY <1>2, <1>6, <3>1 DEF Now
    <2> QED BY <1>1, <2>1, PrefixIsThere
  <1> QED BY <1>2, <1>8, <1>9, TopIsReplaced DEF s

LEMMA SwapsArePassed ==
  ASSUME NEW g, IsCurrent(g), IsSearch(g), NEW S, IsStack(g, stack, S, word, prefix),
         NoSwap
  PROVE  \E T : IsStack(g, stack', T, word', prefix')
  <1> DEFINE f == Top
             s == S[Len(stack)]
             f2 == AfterSwap(f)
  <1>1. /\ IsFrame(g, f, s)
        /\ f.j \in Nat /\ f.i \in Nat
        /\ Arcs(f)[2] = LastArc(g, f.state) /\ LastArc(g, f.state) \in Nat
        /\ word = s.word
        /\ f.at # "letter" => prefix = Now(f, s).spelled
    BY TopOfStack
  <1>2. /\ f.at = "substitute" /\ f.j > LastArc(g, f.state) /\ f.i >= Len(s.word) - 1
        /\ stack' = Append(Front(stack), f2) /\ word' = word /\ prefix' = prefix
    BY <1>1 DEF NoSwap, AfterArcs, SetTop
  <1> HIDE DEF f, s
  <1>3. IsNextFrame(g, f, f2)
    BY <1>1, <1>2, NextFrames
  <1> HIDE DEF f2
  <1>4. IsFrame(g, f2, s)
    BY <1>1, <1>2, <1>3, SwapPassed
  <1>5. PrefixIn(f2, s) = prefix
    <2>1. "substitute" # "letter" /\ "add" # "letter"
      OBVIOUS
    <2>2. f.at # "letter" /\ f2.at # "letter" /\ Now(f2, s) = Now(f, s)
      BY <1>2, <1>3, <2>1 DEF Now, IsNextFrame, IsAfter, ToOtherLoop
    <2> QED BY <1>1, <2>2, PrefixIsThere
  <1> QED BY <1>2, <1>4, <1>5, TopIsReplaced DEF s

LEMMA NextLetters ==
  ASSUME NEW g, IsCurrent(g), IsSearch(g), NEW S, IsStack(g, stack, S, word, prefix),
         NextLetter
  PROVE  \E T : IsStack(g, stack', T, word', prefix')
  <1> DEFINE f == Top
             s == S[Len(stack)]
             f2 == [Top EXCEPT !.at = "letter", !.i = @ + 1, !.state = Top.next_state]
  <1>1. /\ IsFrame(g, f, s) /\ f \in AnyFrame
        /\ Arcs(f)[2] = LastArc(g, f.state) /\ prefix = PrefixIn(f, s)
    BY TopOfStack
  <1>2. /\ f.at = "add" /\ f.j > LastArc(g, f.state) /\ f.next_state # NONE
        /\ stack' = Append(Front(stack), f2) /\ word' = word /\ prefix' = prefix
    BY <1>1 DEF NextLetter, AfterArcs, SetTop
  <1>3. f2 = [f EXCEPT !.at = "letter", !.i = f.i + 1, !.state = f.next_state]
    OBVIOUS
  <1> HIDE DEF f, s, f2
  <1>4. f.next_state \in Nat /\ f.i + 1 \in Nat
    BY <1>1, <1>2 DEF AnyFrame
  <1>5. /\ IsSameCall(f, f2) /\ f2.at = "letter" /\ f2.i = f.i + 1
        /\ f2.state = f.next_state /\ f2.ret = f.ret
    BY <1>1, <1>3, <1>4 DEF IsSameCall, AnyFrame
  <1>6. IsFrame(g, f2, s) /\ PrefixIn(f2, s) = PrefixIn(f, s)
    BY <1>1, <1>2, <1>5, LetterKept
  <1> QED BY <1>1, <1>2, <1>6, TopIsReplaced DEF s

LEMMA PrefixGrows ==
  ASSUME NEW g, IsSearch(g), NEW f, NEW s, IsCall(g, f, s), f.at = "letter"
  PROVE  Now(f, s).spelled =
           IF f.i > f.start THEN Append(PrefixIn(f, s), s.word[f.i - 1 + 1])
           ELSE PrefixIn(f, s)
  <1>1. /\ s \in AnyScript /\ f.start = s.i /\ f.i \in s.i .. Len(s.word)
        /\ s.i \in Nat /\ f.i \in Nat /\ Len(s.word) \in Nat
    BY NowFacts DEF IsCall
  <1>2. CASE f.i > s.i
    <2>1. f.i - 1 \in s.i .. Len(s.word) /\ f.i - 1 < Len(s.word) /\ f.i - 1 + 1 = f.i
      BY <1>1, <1>2
    <2>2. KeptTo(s, f.i - 1 + 1).spelled
            = Append(KeptTo(s, f.i - 1).spelled, s.word[f.i - 1 + 1])
      BY <1>1, <2>1, KeptOnce
    <2> QED BY <1>1, <1>2, <2>1, <2>2 DEF PrefixIn, Now
  <1>3. CASE ~(f.i > s.i)
    BY <1>1, <1>3 DEF PrefixIn, Now
  <1> QED BY <1>2, <1>3

BeginsAt(f, ret, at, j) == [[f EXCEPT !.ret = ret, !.next_state = NONE] EXCEPT !.at = at, !.j = j]

LEMMA HereIs ==
  ASSUME NEW f \in AnyFrame, NEW ret \in Offers,
         NEW at \in {"letter", "skip", "substitute", "add"}, NEW j \in Nat,
         NEW f2, f2 = BeginsAt(f, ret, at, j)
  PROVE  /\ IsSameCall(f, f2) /\ f2.i = f.i /\ f2.state = f.state
         /\ f2.next_state = NONE /\ f2.j = j /\ f2.at = at /\ f2.ret = ret
  <1>1. NONE \in Nat \union {NONE}
    OBVIOUS
  <1>2. f2 = [f EXCEPT !.ret = ret, !.next_state = NONE, !.at = at, !.j = j]
    BY DEF AnyFrame, BeginsAt
  <1> QED BY <1>1, <1>2 DEF IsSameCall, AnyFrame

LEMMA LettersBegin ==
  ASSUME NEW g, IsCurrent(g), IsSearch(g), NEW S, IsStack(g, stack, S, word, prefix),
         BeginLetter
  PROVE  \E T : IsStack(g, stack', T, word', prefix')
  <1> DEFINE f == Top
             s == S[Len(stack)]
             spelled == IF f.i > f.start THEN Append(prefix, Letter(f.i - 1)) ELSE prefix
             ret == IF f.i = Len(word) /\ StateIsWord(lexicon, f.state)
                    THEN AddSimilarWord(f.ret, f.state, f.cost, spelled) ELSE f.ret
             here == [f EXCEPT !.ret = ret, !.next_state = NONE]
             at == IF f.i = Len(s.word) THEN "add"
                   ELSE IF Len(s.word) > 1 THEN "skip" ELSE "substitute"
             first == FirstArc(g, f.state)
             f2 == [here EXCEPT !.at = at, !.j = first]
  <1>1. /\ IsFrame(g, f, s) /\ f \in AnyFrame /\ f.i \in Nat /\ first \in Nat
        /\ word = s.word /\ Len(word) \in Nat /\ prefix = PrefixIn(f, s)
    BY TopOfStack
  <1>2. IsCall(g, f, s) /\ AreRight(g, f.ret)
    BY <1>1 DEF IsFrame
  <1>3. f.at = "letter" /\ prefix' = spelled /\ word' = word
    BY DEF BeginLetter
  <1>4. f.i <= Len(word)
    <2> HIDE DEF f, s
    <2> QED BY <1>1, <1>2, NowFacts
  <1>5. spelled = Now(f, s).spelled
    <2> HIDE DEF f, s
    <2> QED BY <1>1, <1>2, <1>3, PrefixGrows DEF Letter
  <1>6. stack' = Append(Front(stack), f2)
    <2>1. SetTop(CASE f.i = Len(word) -> At(here, "add")
                   [] f.i < Len(word) /\ Len(word) > 1 -> At(here, "skip")
                   [] OTHER -> AfterSkip(here))
      BY DEF BeginLetter
    <2>2. Arcs(here)[1] = first
      <3>1. here.state = f.state
        <4> HIDE DEF f, ret
        <4> QED BY <1>1 DEF AnyFrame
      <3> HIDE DEF f, here
      <3> QED BY <3>1 DEF Arcs, FirstArc, IsCurrent
    <2>3. /\ At(here, "add") = [here EXCEPT !.at = "add", !.j = first]
          /\ At(here, "skip") = [here EXCEPT !.at = "skip", !.j = first]
          /\ AfterSkip(here) = [here EXCEPT !.at = "substitute", !.j = first]
      <3> HIDE DEF here, first
      <3> QED BY <2>2 DEF At, AfterSkip
    <2>4. stack' = Append(Front(stack),
                     CASE f.i = Len(word) -> At(here, "add")
                       [] f.i < Len(word) /\ Len(word) > 1 -> At(here, "skip")
                       [] OTHER -> AfterSkip(here))
      BY <2>1 DEF SetTop
    <2> HIDE DEF here, first, f, s
    <2>5. CASE f.i = Len(word)
      <3>1. stack' = Append(Front(stack), At(here, "add"))
        BY <2>4, <2>5
      <3> QED BY <1>1, <2>3, <2>5, <3>1
    <2>6. CASE f.i < Len(word) /\ Len(word) > 1
      <3>1. f.i # Len(word)
        BY <1>1, <2>6
      <3>2. stack' = Append(Front(stack), At(here, "skip"))
        BY <2>4, <2>6, <3>1
      <3> QED BY <1>1, <2>3, <2>6, <3>1, <3>2
    <2>7. CASE f.i # Len(word) /\ ~(Len(word) > 1)
      <3>1. stack' = Append(Front(stack), AfterSkip(here))
        BY <2>4, <2>7
      <3> QED BY <1>1, <2>3, <2>7, <3>1
    <2> QED BY <1>1, <1>4, <2>5, <2>6, <2>7
  <1> HIDE DEF f, s
  <1>7. ret = (IF f.i = Len(s.word) /\ StateIsWord(g.lex, f.state)
               THEN AddSimilarWord(f.ret, f.state, f.cost, Now(f, s).spelled)
               ELSE f.ret)
    <2> HIDE DEF spelled
    <2> QED BY <1>1, <1>5 DEF IsCurrent
  <1>8. ret \in Offers
    <2>1. CASE f.i = Len(s.word) /\ StateIsWord(g.lex, f.state)
      <3> DEFINE n == Now(f, s)
      <3>1. /\ n.word = s.word /\ n.i = f.i /\ n.cost = f.cost
            /\ n.spelled = g.nodes[f.state + 1] /\ Reaches(g, Untouched(g.str), n)
            /\ f.state \in States(g.nodes)
        BY <1>2, NowFacts
      <3> HIDE DEF n
      <3>2. IsWordId(g.words, f.state, n.spelled) /\ n.spelled \in Range(g.words)
        BY <2>1, <3>1, WordStates
      <3>3. Spells(g, n)
        BY <2>1, <3>1, <3>2 DEF Spells, IsFinal
      <3>4. AreRight(g, AddSimilarWord(f.ret, f.state, n.cost, n.spelled))
        BY <1>2, <3>2, <3>3, OfferAdded
      <3>5. ret = AddSimilarWord(f.ret, f.state, n.cost, n.spelled)
        <4> HIDE DEF ret
        <4> QED BY <1>7, <2>1, <3>1 DEF n
      <3> QED BY <3>4, <3>5 DEF AreRight
    <2>2. CASE ~(f.i = Len(s.word) /\ StateIsWord(g.lex, f.state))
      <3> HIDE DEF ret
      <3> QED BY <1>2, <1>7, <2>2 DEF AreRight
    <2> QED BY <2>1, <2>2
  <1>9. at \in {"letter", "skip", "substitute", "add"}
    OBVIOUS
  <1> HIDE DEF ret, first, spelled
  <1>10. IsBegun(g, f, s, f2)
    <2>1. f2 = BeginsAt(f, ret, at, first)
      BY DEF BeginsAt
    <2> HIDE DEF at, f2
    <2>2. /\ IsSameCall(f, f2) /\ f2.i = f.i /\ f2.state = f.state
          /\ f2.next_state = NONE /\ f2.j = first /\ f2.at = at /\ f2.ret = ret
      BY <1>1, <1>8, <1>9, <2>1, HereIs
    <2> QED BY <1>7, <2>2 DEF IsBegun, at, first
  <1> HIDE DEF f2
  <1>11. IsFrame(g, f2, s)
    BY <1>1, <1>3, <1>10, LetterBegun
  <1>12. PrefixIn(f2, s) = Now(f, s).spelled
    <2>1. at # "letter"
      OBVIOUS
    <2>2. f2.at # "letter" /\ Now(f2, s) = Now(f, s)
      BY <1>10, <2>1 DEF IsBegun, Now
    <2> QED BY <2>2, PrefixIsThere
  <1> QED BY <1>3, <1>5, <1>6, <1>11, <1>12, TopIsReplaced DEF s

LEMMA CallersResume ==
  ASSUME NEW g, IsCurrent(g), IsSearch(g), NEW h, NEW s, IsFrame(g, h, s), IsOption(g, h, s)
  PROVE  /\ IsNextFrame(g, h, Resumed(h))
         /\ AppendedLetter(h) <=> Appends(g, h)
         /\ HasSwapped(h) <=> h.at = "substitute" /\ h.j > LastArc(g, h.state)
  <1>1. Arcs(h)[2] = LastArc(g, h.state)
    BY DEF Arcs, LastArc, IsCurrent
  <1>2. /\ AppendedLetter(h) <=> Appends(g, h)
        /\ HasSwapped(h) <=> h.at = "substitute" /\ h.j > LastArc(g, h.state)
    BY <1>1 DEF AppendedLetter, HasSwapped, Appends
  <1>3. /\ h.at = "skip" => IsNextFrame(g, h, AfterSkip(h))
        /\ h.at = "substitute" /\ h.j > LastArc(g, h.state) => IsNextFrame(g, h, AfterSwap(h))
        /\ Appends(g, h) => IsNextFrame(g, h, AfterArc(h))
    BY NextFrames
  <1>4. h.j \in Nat /\ LastArc(g, h.state) \in Nat
    <2>1. IsCall(g, h, s) /\ h \in AnyFrame
      BY DEF IsFrame, IsCall
    <2> QED BY <2>1, ArcsOfNow DEF AnyFrame
  <1>5. CASE Appends(g, h)
    <2>2. AppendedLetter(h) /\ ~HasSwapped(h)
      BY <1>2, <1>4, <1>5 DEF Appends
    <2>1. Resumed(h) = AfterArc(h)
      BY <2>2, Zenon DEF Resumed
    <2> QED BY <1>2, <1>3, <1>5, <2>1
  <1>6. CASE h.at = "substitute" /\ h.j > LastArc(g, h.state)
    <2>1. ~Appends(g, h)
      BY <1>4, <1>6 DEF Appends
    <2>3. HasSwapped(h) /\ ~AppendedLetter(h)
      BY <1>2, <1>6, <2>1
    <2>2. Resumed(h) = AfterSwap(h)
      BY <2>3, Zenon DEF Resumed
    <2> QED BY <1>2, <1>3, <1>6, <2>2
  <1>7. CASE h.at = "skip"
    <2>1. "skip" # "substitute" /\ "skip" # "add"
      OBVIOUS
    <2>3. ~HasSwapped(h) /\ ~AppendedLetter(h)
      BY <1>2, <1>7, <2>1 DEF Appends
    <2>2. Resumed(h) = AfterSkip(h)
      BY <2>3, Zenon DEF Resumed
    <2> QED BY <1>2, <1>3, <1>7, <2>2
  <1> QED BY <1>5, <1>6, <1>7 DEF IsOption, Appends

LEMMA ReturnsGoOn ==
  ASSUME NEW g, IsCurrent(g), IsSearch(g), NEW S, IsStack(g, stack, S, word, prefix),
         ReturnToCaller
  PROVE  \E T : IsStack(g, stack', T, word', prefix')
  <1> DEFINE n == Len(stack) - 1
             f == Last(stack)
             h == stack[n]
             after == Resumed(h)
  <1>1. /\ Top = f /\ Arcs(f)[2] = LastArc(g, f.state)
    BY TopOfStack
  <1>2. Len(stack) \in Nat /\ Len(stack) > 1
    BY StackFacts DEF ReturnToCaller
  <1>3. f.at = "add" /\ f.j > LastArc(g, f.state) /\ f.next_state = NONE
    <2> HIDE DEF f
    <2> QED BY <1>1 DEF ReturnToCaller, AfterArcs, Ends
  <1>4. IsFrame(g, h, S[n]) /\ IsOption(g, h, S[n])
    <2>1. n \in 1 .. Len(stack) /\ n \in 1 .. Len(stack) - 1
      BY <1>2
    <2> HIDE DEF n
    <2> QED BY <2>1 DEF IsStack, IsPaused
  <1>5. /\ IsNextFrame(g, h, after)
        /\ AppendedLetter(h) <=> Appends(g, h)
        /\ HasSwapped(h) <=> h.at = "substitute" /\ h.j > LastArc(g, h.state)
    <2> HIDE DEF h, n
    <2> QED BY <1>4, CallersResume
  <1>6. IsReturn(g, stack, word, prefix, after, stack', word', prefix')
    <2>1. /\ stack' = SubSeq(stack, 1, Len(stack) - 2)
                        \o <<[after EXCEPT !.ret = Inserted(after.ret, Top.ret)]>>
          /\ prefix' = RestoredPrefix(Top, h) /\ word' = RestoredWord(h)
      BY DEF ReturnToCaller
    <2> HIDE DEF after
    <2>2. stack' = SubSeq(stack, 1, Len(stack) - 2)
                     \o <<[after EXCEPT !.ret = Inserted(after.ret, Last(stack).ret)]>>
      BY <2>1 DEF Top
    <2>3. prefix' = (IF Appends(g, h) THEN Front(SubSeq(prefix, 1, f.init_prefix_size))
                     ELSE SubSeq(prefix, 1, f.init_prefix_size))
      <3> HIDE DEF h, f, n
      <3>1. Truncated(Top) = SubSeq(prefix, 1, f.init_prefix_size)
        BY <1>1 DEF Truncated
      <3>2. CASE Appends(g, h)
        BY <1>5, <2>1, <3>1, <3>2 DEF RestoredPrefix
      <3>3. CASE ~Appends(g, h)
        BY <1>5, <2>1, <3>1, <3>3 DEF RestoredPrefix
      <3> QED BY <3>2, <3>3
    <2>4. word' = (IF h.at = "substitute" /\ h.j > LastArc(g, h.state)
                   THEN Swapped(word, h.i) ELSE word)
      <3> HIDE DEF h
      <3> QED BY <1>5, <2>1 DEF RestoredWord
    <2> QED BY <2>2, <2>3, <2>4 DEF IsReturn
  <1> HIDE DEF after
  <1>7. /\ Last(stack).at = "add" /\ Last(stack).j > LastArc(g, Last(stack).state)
        /\ Last(stack).next_state = NONE /\ Len(stack) > 1
    BY <1>2, <1>3
  <1>8. IsNextFrame(g, stack[Len(stack) - 1], after)
    BY <1>5
  <1> HIDE DEF f, h, n
  <1> QED BY <1>6, <1>7, <1>8, StackAfterReturn

(* A search that is done has found what it should.                         *)
IsDone(g, ret, w, p) ==
  /\ AreRight(g, ret) /\ IsServed(g, Untouched(g.str), ret)
  /\ w = g.str /\ p = <<>>

LEMMA SearchesReturn ==
  ASSUME NEW g, IsCurrent(g), IsSearch(g), NEW S, IsStack(g, stack, S, word, prefix),
         ReturnSimilarWords
  PROVE  stack' = <<>> /\ IsDone(g, found', word', prefix')
  <1> DEFINE f == Top
             s == S[Len(stack)]
  <1>1. /\ IsFrame(g, f, s) /\ Arcs(f)[2] = LastArc(g, f.state)
        /\ word = s.word /\ prefix = PrefixIn(f, s)
    BY TopOfStack
  <1>2. s = Untouched(g.str)
    BY DEF IsStack, ReturnSimilarWords
  <1>3. /\ f.at = "add" /\ f.j > LastArc(g, f.state) /\ f.next_state = NONE
        /\ stack' = <<>> /\ prefix' = SubSeq(prefix, 1, f.init_prefix_size)
        /\ found' = f.ret /\ word' = word
    <2>1. Arcs(Top)[2] = LastArc(g, Top.state)
      BY <1>1
    <2> QED BY <2>1 DEF ReturnSimilarWords, AfterArcs, Ends, Truncated
  <1> HIDE DEF f, s
  <1>4. AreRight(g, f.ret) /\ IsServed(g, s, f.ret)
    BY <1>1, <1>3, CallEnds DEF IsFrame
  <1>5. prefix' = s.spelled
    BY <1>1, <1>3, PrefixIsCut DEF IsFrame
  <1>6. s.word = g.str /\ s.spelled = <<>>
    BY <1>2, StartFacts
  <1> QED BY <1>1, <1>2, <1>3, <1>4, <1>5, <1>6 DEF IsDone

LEMMA SearchesBegin ==
  ASSUME NEW g, IsSearch(g), g.lex = lexicon, NEW lims, GetSimilarWords(g.str, lims)
  PROVE  \E T : IsStack(g, stack', T, word', prefix')
  <1> DEFINE u == Untouched(g.str)
             root == g.lex.root_id
             f == Frame(u.edit_dist, u.cost, root, u.i, Len(u.spelled))
  <1>1. /\ u \in AnyScript /\ IsAllowed(g, u) /\ u.word = g.str /\ u.spelled = <<>>
        /\ u.edit_dist = 0 /\ u.cost = 0 /\ u.i = 0
    BY StartFacts
  <1>2. /\ root = Len(g.words) /\ Len(g.words) \in Nat /\ Len(g.nodes) \in Nat
        /\ Len(g.words) < Len(g.nodes) /\ g.nodes[Len(g.words) + 1] = <<>>
    BY TrieFacts DEF IsSearch
  <1>3. root \in States(g.nodes) /\ g.nodes[root + 1] = u.spelled
    <2> HIDE DEF root
    <2> QED BY <1>1, <1>2 DEF States
  <1>4. Reaches(g, u, u)
    BY <1>1, ReachesItself
  <1> HIDE DEF u, root
  <1>5. IsAt(g, root, u)
    BY <1>1, <1>3, <1>4 DEF IsAt, u
  <1>6. IsFrame(g, f, u) /\ Now(f, u) = u
    BY <1>5, CallBegins
  <1>7. Len(u.spelled) = 0
    <2>1. Len(<<>>) = 0
      OBVIOUS
    <2> QED BY <1>1, <2>1
  <1>8. stack' = <<f>> /\ word' = g.str /\ prefix' = <<>>
    BY <1>1, <1>7 DEF GetSimilarWords, root
  <1>9. PrefixIn(f, u) = <<>>
    <2>1. f.i = u.i
      BY DEF Frame
    <2> HIDE DEF f
    <2>2. ~(f.i > u.i)
      BY <1>1, <2>1
    <2>3. PrefixIn(f, u) = Now(f, u).spelled
      BY <2>2 DEF PrefixIn, Now
    <2> QED BY <1>1, <1>6, <2>3
  <1> HIDE DEF f
  <1>10. f \in AnyFrame
    BY <1>6 DEF IsFrame, IsCall
  <1>11. IsStack(g, <<f>>, <<u>>, g.str, <<>>)
    <2>1. <<f>> \in Seq(AnyFrame) /\ <<u>> \in Seq(AnyScript)
      BY <1>1, <1>10
    <2>2. Len(<<f>>) = 1 /\ Len(<<u>>) = 1 /\ <<f>>[1] = f /\ <<u>>[1] = u
      OBVIOUS
    <2>3. \A k \in 1 .. 1 : IsFrame(g, <<f>>[k], <<u>>[k])
      <3>1. \A k \in 1 .. 1 : k = 1
        OBVIOUS
      <3> QED BY <1>6, <2>2, <3>1
    <2>4. \A k \in 1 .. 1 - 1 : IsPaused(g, <<f>>[k], <<u>>[k], <<u>>[k + 1])
      <3>1. 1 .. 1 - 1 = {}
        OBVIOUS
      <3> QED BY <3>1
    <2> DEFINE st == <<f>>
               S == <<u>>
    <2>5. /\ st \in Seq(AnyFrame) /\ S \in Seq(AnyScript) /\ Len(st) = 1 /\ Len(S) = 1
          /\ st[1] = f /\ S[1] = u
          /\ \A k \in 1 .. 1 : IsFrame(g, st[k], S[k])
          /\ \A k \in 1 .. 1 - 1 : IsPaused(g, st[k], S[k], S[k + 1])
      BY <2>1, <2>2, <2>3, <2>4
    <2> HIDE DEF st, S
    <2>6. IsStack(g, st, S, g.str, <<>>)
      BY <1>1, <1>9, <2>5 DEF IsStack, u
    <2> QED BY <2>6 DEF st, S
  <1> QED BY <1>8, <1>11

LEMMA SearchesGoOn ==
  ASSUME NEW g, IsCurrent(g), IsSearch(g), NEW S, IsStack(g, stack, S, word, prefix),
         SearchStep
  PROVE  \/ \E T : IsStack(g, stack', T, word', prefix')
         \/ stack' = <<>> /\ IsDone(g, found', word', prefix')
  <1>1. CASE BeginLetter
    BY <1>1, LettersBegin
  <1>2. CASE TrySkip \/ TrySubstitution \/ TrySwap \/ TryAddition
    BY <1>2, TriesGoOn
  <1>3. CASE FollowLetter
    BY <1>3, LettersFollow
  <1>4. CASE NoSwap
    BY <1>4, SwapsArePassed
  <1>5. CASE NextLetter
    BY <1>5, NextLetters
  <1>6. CASE ReturnToCaller
    BY <1>6, ReturnsGoOn
  <1>7. CASE ReturnSimilarWords
    BY <1>7, SearchesReturn
  <1> QED BY <1>1, <1>2, <1>3, <1>4, <1>5, <1>6, <1>7 DEF SearchStep

(* What a search that is done has found.                                   *)
HasFound(g, ret, scripts) ==
  /\ DOMAIN ret = {k - 1 : k \in {k \in DOMAIN g.words :
                                   \E s \in scripts : s.spelled = g.words[k]}}
  /\ \A id \in DOMAIN ret :
       /\ ret[id].spelling = g.words[id + 1]
       /\ \E s \in scripts : s.spelled = ret[id].spelling /\ s.cost = ret[id].cost
       /\ OneEdit(g) =>
            \A s \in scripts : s.spelled = ret[id].spelling => s.cost >= ret[id].cost

LEMMA FoundIsReached ==
  ASSUME NEW g, IsSearch(g), NEW ret, AreRight(g, ret), IsServed(g, Untouched(g.str), ret),
         NEW scripts, scripts = Scripts(g.str, Range(g.words), g.model, g.limits)
  PROVE  HasFound(g, ret, scripts)
  <1> DEFINE spelledWords == {k \in DOMAIN g.words : \E s \in scripts : s.spelled = g.words[k]}
  <1>1. \A t : t \in scripts <=> Spells(g, t)
    BY ScriptsAreReached DEF Spells
  <1>2. Len(g.words) \in Nat /\ DOMAIN g.words = 1 .. Len(g.words)
    BY TrieFacts DEF IsSearch
  <1>3. ret \in Offers /\ DOMAIN ret \subseteq Nat
        /\ \A id \in DOMAIN ret : IsRight(g, id, ret[id]) /\ ret[id].cost \in Nat
    BY OfferFacts DEF AreRight
  <1>4. ASSUME NEW id \in DOMAIN ret
        PROVE  /\ id \in Nat /\ id + 1 \in DOMAIN g.words /\ id + 1 - 1 = id
               /\ ret[id].spelling = g.words[id + 1] /\ IsWordId(g.words, id, ret[id].spelling)
               /\ \E s \in scripts : s.spelled = ret[id].spelling /\ s.cost = ret[id].cost
    <2>1. IsWordId(g.words, id, ret[id].spelling)
          /\ \E t : Spells(g, t) /\ t.spelled = ret[id].spelling /\ t.cost = ret[id].cost
      BY <1>3 DEF IsRight
    <2>2. id \in 0 .. Len(g.words) - 1 /\ g.words[id + 1] = ret[id].spelling
      BY <2>1 DEF IsWordId
    <2>3. id + 1 \in 1 .. Len(g.words) /\ id \in Nat /\ id + 1 - 1 = id
      BY <1>2, <2>2
    <2> QED BY <1>1, <1>2, <2>1, <2>2, <2>3
  <1>5. ASSUME NEW s \in scripts
        PROVE  \E id \in DOMAIN ret : /\ ret[id].spelling = s.spelled
                                      /\ OneEdit(g) => ret[id].cost <= s.cost
    BY <1>1 DEF IsServed, Spells, Has
  <1>6. ASSUME NEW k \in spelledWords PROVE k - 1 \in DOMAIN ret
    <2>1. PICK s \in scripts : s.spelled = g.words[k]
      OBVIOUS
    <2>2. PICK id \in DOMAIN ret : ret[id].spelling = s.spelled
      BY <1>5
    <2>3. IsWordId(g.words, id, s.spelled)
      BY <1>4, <2>2
    <2>4. k \in 1 .. Len(g.words) /\ k - 1 \in 0 .. Len(g.words) - 1 /\ k - 1 + 1 = k
      BY <1>2
    <2>5. IsWordId(g.words, k - 1, s.spelled)
      BY <2>1, <2>4 DEF IsWordId
    <2> QED BY <2>3, <2>5, WordIdsDiffer
  <1>7. ASSUME NEW id \in DOMAIN ret PROVE \E k \in spelledWords : id = k - 1
    <2>1. \E s \in scripts : s.spelled = g.words[id + 1]
      BY <1>4
    <2>2. id + 1 \in spelledWords
      BY <1>4, <2>1
    <2> DEFINE next == id + 1
    <2> HIDE DEF spelledWords
    <2>3. id = next - 1
      BY <1>4
    <2>4. next \in spelledWords
      BY <2>2
    <2> HIDE DEF next
    <2> QED BY <2>3, <2>4
  <1>8. DOMAIN ret = {k - 1 : k \in spelledWords}
    <2> HIDE DEF spelledWords
    <2> QED BY <1>6, <1>7
  <1>9. ASSUME NEW id \in DOMAIN ret, OneEdit(g), NEW s \in scripts,
               s.spelled = ret[id].spelling
        PROVE  s.cost >= ret[id].cost
    <2>1. PICK other \in DOMAIN ret :
            ret[other].spelling = s.spelled /\ ret[other].cost <= s.cost
      BY <1>5, <1>9
    <2>2. IsWordId(g.words, other, s.spelled) /\ IsWordId(g.words, id, s.spelled)
      BY <1>4, <1>9, <2>1
    <2>3. other = id
      BY <2>2, WordIdsDiffer
    <2>4. s.cost \in Nat /\ ret[id].cost \in Nat
      BY <1>1, <1>3 DEF Spells, Reaches, AnyScript
    <2> QED BY <2>1, <2>3, <2>4
  <1> QED BY <1>4, <1>8, <1>9 DEF HasFound

(* The finder: what the models are, and the search it makes.               *)
SearchedStr == IF phase = "search" THEN token.str ELSE Uncapitalized(token.str)

IsFinders(g, str) ==
  /\ IsSearch(g) /\ IsCurrent(g) /\ g.words = Words /\ g.str = str

IsSearching(str) ==
  \E g : /\ IsFinders(g, str)
         /\ \/ \E S : IsStack(g, stack, S, word, prefix)
            \/ stack = <<>> /\ IsDone(g, found, word, prefix)

ModelsAreGiven ==
  /\ \E words \in Lexicons : lexicon = BuildLexicon(words)
  /\ token \in Tokens
  /\ \E configuration \in Configurations :
       errModel = configuration.errModel /\ search_configs = configuration.search_configs
  /\ c \in Nat \ {0}
  /\ phase \in {"configs", "search", "search_lc", "found", "done"}

SearchIsRight ==
  phase \in {"search", "search_lc"} =>
    /\ c <= Len(search_configs) /\ limits = LimitsOf(Config)
    /\ IsSearching(SearchedStr)

FinderInv == ModelsAreGiven /\ SearchIsRight

(* What the search needs of the models.                                    *)
ModelsAreFit == SwapsCostSomething /\ FreeEditsAreCounted

LEMMA LexiconsFit == LexiconsAreTries
  <1>1. Letters \subseteq Nat
    BY LettersAssumption
  <1>2. ASSUME NEW words \in Lexicons
        PROVE  IsTrie(BuildLexicon(words), words, Nodes(words))
    <2>1. /\ words \in Seq(Seq(Letters)) /\ words # <<>>
          /\ IsInjective(words) /\ <<>> \notin Range(words)
      BY LexiconsAssumption
    <2>2. Seq(Letters) \subseteq Seq(Nat)
      BY <1>1, SeqMonotonic
    <2>3. words \in Seq(Seq(Nat))
      BY <2>1, <2>2, SeqMonotonic
    <2> QED BY <2>1, <2>3, BuiltIsTrie DEF AreDictionary
  <1> QED BY <1>2 DEF LexiconsAreTries

LEMMA WordsAreGiven ==
  ASSUME ModelsAreGiven
  PROVE  Words \in Lexicons /\ BuildLexicon(Words) = lexicon
  BY DEF ModelsAreGiven, Words

CasingTypes == {"case_sensitive", "ignore_case", "ignore_case_keep_orig"}

LEMMA ConfigFacts ==
  ASSUME ModelsAreGiven, c <= Len(search_configs)
  PROVE  /\ Config.casing \in CasingTypes
         /\ Config.max_ed_dist \in Nat /\ Config.max_cost \in Nat
         /\ c \in DOMAIN search_configs
  <1> DEFINE AConfig == [casing : CasingTypes, max_ed_dist : Nat, max_cost : Nat,
                         min_length : Nat, max_length : Nat]
  <1>1. search_configs \in Seq(AConfig) /\ c \in Nat \ {0}
    BY ConfigurationsAssumption DEF ModelsAreGiven, CasingTypes
  <1>2. c \in 1 .. Len(search_configs)
    BY <1>1, LenProperties
  <1>3. search_configs[c] \in AConfig /\ c \in DOMAIN search_configs
    BY <1>1, <1>2, ElementOfSeq, LenProperties
  <1> QED BY <1>3 DEF Config

LEMMA SpellingsAreSearched ==
  ASSUME ModelsAreGiven
  PROVE  /\ token.str \in Seq(Letters) /\ token.str # <<>>
         /\ Uncapitalized(token.str) \in Seq(Letters)
         /\ token.str \in Seq(Nat) /\ Uncapitalized(token.str) \in Seq(Nat)
  <1>1. token.str \in Seq(Letters) /\ token.str # <<>>
    BY TokensAssumption DEF ModelsAreGiven
  <1>2. Uncapitalized(token.str) \in Seq(Letters)
    <2> DEFINE str == token.str
               n == Len(str)
    <2>1. str \in [1 .. n -> Letters] /\ n \in Nat
      BY <1>1, LenProperties, SeqDef
    <2> HIDE DEF str, n
    <2>2. [str EXCEPT ![1] = LowerOf[str[1]]] \in [1 .. n -> Letters]
      <3>1. 1 \in 1 .. n => LowerOf[str[1]] \in Letters
        BY <2>1, LettersAssumption
      <3> QED BY <2>1, <3>1
    <2>3. Uncapitalized(str) = [str EXCEPT ![1] = LowerOf[str[1]]]
      BY DEF Uncapitalized
    <2> QED BY <2>1, <2>2, <2>3, SeqDef DEF str
  <1>3. Seq(Letters) \subseteq Seq(Nat)
    BY LettersAssumption, SeqMonotonic
  <1> QED BY <1>1, <1>2, <1>3

IsSearchOf(g, str, lims) ==
  /\ g.lex = lexicon /\ g.model = errModel /\ g.words = Words
  /\ g.str = str /\ g.limits = lims

LEMMA SearchesAreFit ==
  ASSUME ModelsAreGiven, ModelsAreFit, c <= Len(search_configs), NEW str \in Seq(Nat)
  PROVE  \E g : IsSearch(g) /\ IsSearchOf(g, str, LimitsOf(Config))
  <1> DEFINE lims == LimitsOf(Config)
             search == [lex |-> lexicon, words |-> Words, nodes |-> Nodes(Words),
                        model |-> errModel, limits |-> lims, str |-> str]
  <1>1. PICK g : g = search
    OBVIOUS
  <1>2. /\ g.lex = lexicon /\ g.words = Words /\ g.nodes = Nodes(Words)
        /\ g.model = errModel /\ g.limits = lims /\ g.str = str
    <2> HIDE DEF lims
    <2> QED BY <1>1
  <1>3. IsTrie(g.lex, g.words, g.nodes)
    BY <1>2, WordsAreGiven, LexiconsFit DEF LexiconsAreTries
  <1>4. PICK configuration \in Configurations :
          errModel = configuration.errModel /\ search_configs = configuration.search_configs
    BY DEF ModelsAreGiven
  <1>5. ArePrices(g.model)
    BY <1>2, <1>4, ConfigurationsAssumption
  <1>6. SwapsCost(g.model)
    BY <1>2, <1>4 DEF ModelsAreFit, SwapsCostSomething, SwapsCost
  <1>7. /\ Config.casing \in CasingTypes /\ Config.max_ed_dist \in Nat /\ Config.max_cost \in Nat
        /\ c \in DOMAIN search_configs
    BY ConfigFacts
  <1>8. /\ lims.max_edit_distance = Config.max_ed_dist
        /\ lims.cost_limit = Config.max_cost
        /\ lims.ignore_case <=> Config.casing # "case_sensitive"
    BY DEF LimitsOf
  <1>9. lims.ignore_case => g.model.minimum = 0
    <2>1. search_configs[c].casing # "case_sensitive" => configuration.errModel.minimum = 0
      BY <1>4, <1>7 DEF ModelsAreFit, FreeEditsAreCounted
    <2> QED BY <1>2, <1>4, <1>8, <2>1 DEF Config
  <1> HIDE DEF lims, search
  <1>10. IsSearch(g)
    BY <1>2, <1>3, <1>5, <1>6, <1>7, <1>8, <1>9 DEF IsSearch
  <1>11. IsSearchOf(g, str, lims)
    BY <1>2 DEF IsSearchOf
  <1> QED BY <1>10, <1>11 DEF lims

LEMMA SearchIsBegun ==
  ASSUME ModelsAreGiven, ModelsAreFit, c <= Len(search_configs), NEW str \in Seq(Nat),
         GetSimilarWords(str, LimitsOf(Config)),
         search_configs' = search_configs, c' = c, SearchedStr' = str
  PROVE  limits' = LimitsOf(Config)' /\ IsSearching(SearchedStr)'
  <1>1. PICK g : IsSearch(g) /\ IsSearchOf(g, str, LimitsOf(Config))
    BY SearchesAreFit
  <1>2. /\ g.lex = lexicon /\ g.model = errModel /\ g.words = Words
        /\ g.str = str /\ g.limits = LimitsOf(Config)
    BY <1>1 DEF IsSearchOf
  <1>3. \E T : IsStack(g, stack', T, word', prefix')
    BY <1>1, <1>2, SearchesBegin
  <1>4. LimitsOf(Config)' = LimitsOf(Config)
    BY DEF LimitsOf, Config
  <1>5. limits' = LimitsOf(Config) /\ lexicon' = lexicon /\ errModel' = errModel
    BY DEF GetSimilarWords
  <1>6. Words' = Words
    BY <1>5 DEF Words
  <1>7. IsFinders(g, SearchedStr)'
    BY <1>1, <1>2, <1>5, <1>6 DEF IsFinders, IsCurrent
  <1> QED BY <1>3, <1>4, <1>5, <1>7 DEF IsSearching

LEMMA SearchIsGoingOn ==
  ASSUME FinderInv, phase \in {"search", "search_lc"}, SearchStep,
         phase' = phase, c' = c, token' = token, search_configs' = search_configs
  PROVE  limits' = LimitsOf(Config)' /\ IsSearching(SearchedStr)'
  <1>1. limits = LimitsOf(Config) /\ IsSearching(SearchedStr)
    BY DEF FinderInv, SearchIsRight
  <1>2. PICK g : /\ IsFinders(g, SearchedStr)
                 /\ \/ \E S : IsStack(g, stack, S, word, prefix)
                    \/ stack = <<>> /\ IsDone(g, found, word, prefix)
    BY <1>1 DEF IsSearching
  <1>3. IsSearch(g) /\ IsCurrent(g) /\ g.words = Words /\ g.str = SearchedStr
    BY <1>2 DEF IsFinders
  <1>4. /\ lexicon' = lexicon /\ errModel' = errModel /\ limits' = limits
        /\ stack # <<>>
    BY DEF SearchStep, BeginLetter, TrySkip, FollowLetter, TrySubstitution, TrySwap, NoSwap,
           TryAddition, NextLetter, ReturnToCaller, ReturnSimilarWords, Settled,
           AtArc, AfterArcs
  <1>5. PICK S : IsStack(g, stack, S, word, prefix)
    BY <1>2, <1>4
  <1>6. \/ \E T : IsStack(g, stack', T, word', prefix')
        \/ stack' = <<>> /\ IsDone(g, found', word', prefix')
    BY <1>3, <1>5, SearchesGoOn
  <1>7. SearchedStr' = SearchedStr /\ Words' = Words /\ LimitsOf(Config)' = LimitsOf(Config)
    BY <1>4 DEF SearchedStr, Words, LimitsOf, Config
  <1>8. IsFinders(g, SearchedStr)'
    BY <1>3, <1>4, <1>7 DEF IsFinders, IsCurrent
  <1> QED BY <1>1, <1>4, <1>6, <1>7, <1>8 DEF IsSearching

LEMMA FinderInvInit ==
  ASSUME FindInit
  PROVE  FinderInv
  <1>1. ModelsAreGiven
    BY DEF FindInit, ModelsAreGiven
  <1>2. phase \notin {"search", "search_lc"}
    BY DEF FindInit
  <1> QED BY <1>1, <1>2 DEF FinderInv, SearchIsRight

LEMMA ModelsStayGiven ==
  ASSUME ModelsAreGiven, lexicon' = lexicon, errModel' = errModel,
         token' = token, search_configs' = search_configs, c' \in Nat \ {0},
         phase' \in {"configs", "search", "search_lc", "found", "done"}
  PROVE  ModelsAreGiven'
  BY DEF ModelsAreGiven

LEMMA FinderInvNext ==
  ASSUME FinderInv, ModelsAreFit, FindNext
  PROVE  FinderInv'
  <1>1. ModelsAreGiven /\ c \in Nat \ {0}
    BY DEF FinderInv, ModelsAreGiven
  <1>2. token' = token /\ search_configs' = search_configs
    BY DEF FindNext, SkipConfig, OfferToken, BeginSearch, Search, SearchLowerCase,
           MergeLowerCase, TakeFound, NextConfig, ReturnOffers, KeepToken
  <1>3. ASSUME SkipConfig \/ OfferToken \/ MergeLowerCase \/ TakeFound \/ NextConfig \/ ReturnOffers
        PROVE  FinderInv'
    <2>1. lexicon' = lexicon /\ errModel' = errModel
      BY <1>3 DEF SkipConfig, OfferToken, MergeLowerCase, TakeFound, NextConfig, ReturnOffers,
                  KeepSearch, searchVars
    <2>2. c' = c \/ c' = c + 1
      BY <1>3 DEF SkipConfig, OfferToken, MergeLowerCase, TakeFound, NextConfig, ReturnOffers
    <2>3. phase' \in {"configs", "found", "done"}
      BY <1>3 DEF SkipConfig, OfferToken, MergeLowerCase, TakeFound, NextConfig, ReturnOffers,
                  Find
    <2>4. phase' \notin {"search", "search_lc"}
      BY <2>3
    <2>5. c' \in Nat \ {0}
      BY <1>1, <2>2
    <2>6. ModelsAreGiven'
      BY <1>1, <1>2, <2>1, <2>3, <2>5, ModelsStayGiven
    <2> QED BY <2>4, <2>6 DEF FinderInv, SearchIsRight
  <1>4. ASSUME BeginSearch PROVE FinderInv'
    <2>1. /\ c' = c /\ phase' = "search" /\ c <= Len(search_configs)
          /\ GetSimilarWords(token.str, LimitsOf(Config))
      BY <1>4 DEF BeginSearch, Find
    <2>2. SearchedStr' = token.str
      BY <1>2, <2>1 DEF SearchedStr
    <2>3. token.str \in Seq(Nat)
      BY <1>1, SpellingsAreSearched
    <2>4. limits' = LimitsOf(Config)' /\ IsSearching(SearchedStr)'
      BY <1>1, <1>2, <2>1, <2>2, <2>3, SearchIsBegun
    <2>5. lexicon' = lexicon /\ errModel' = errModel
      BY <2>1 DEF GetSimilarWords
    <2>6. ModelsAreGiven'
      BY <1>1, <1>2, <2>1, <2>5, ModelsStayGiven
    <2> QED BY <1>2, <2>1, <2>4, <2>6 DEF FinderInv, SearchIsRight
  <1>5. ASSUME SearchLowerCase PROVE FinderInv'
    <2>1. /\ c' = c /\ phase' = "search_lc" /\ phase = "search"
          /\ GetSimilarWords(Uncapitalized(token.str), LimitsOf(Config))
      BY <1>5 DEF SearchLowerCase, Returned
    <2>2. SearchedStr' = Uncapitalized(token.str)
      BY <1>2, <2>1 DEF SearchedStr
    <2>3. Uncapitalized(token.str) \in Seq(Nat)
      BY <1>1, SpellingsAreSearched
    <2>4. c <= Len(search_configs)
      BY <2>1 DEF FinderInv, SearchIsRight
    <2>5. limits' = LimitsOf(Config)' /\ IsSearching(SearchedStr)'
      BY <1>1, <1>2, <2>1, <2>2, <2>3, <2>4, SearchIsBegun
    <2>6. lexicon' = lexicon /\ errModel' = errModel
      BY <2>1 DEF GetSimilarWords
    <2>7. ModelsAreGiven'
      BY <1>1, <1>2, <2>1, <2>6, ModelsStayGiven
    <2> QED BY <1>2, <2>1, <2>4, <2>5, <2>7 DEF FinderInv, SearchIsRight
  <1>6. ASSUME Search PROVE FinderInv'
    <2>1. /\ c' = c /\ phase' = phase /\ phase \in {"search", "search_lc"}
          /\ SearchStep
      BY <1>6 DEF Search
    <2>2. c <= Len(search_configs)
      BY <2>1 DEF FinderInv, SearchIsRight
    <2>3. limits' = LimitsOf(Config)' /\ IsSearching(SearchedStr)'
      BY <1>2, <2>1, SearchIsGoingOn
    <2>4. lexicon' = lexicon /\ errModel' = errModel
      BY <2>1 DEF SearchStep, BeginLetter, TrySkip, FollowLetter, TrySubstitution, TrySwap, NoSwap,
           TryAddition, NextLetter, ReturnToCaller, ReturnSimilarWords, Settled
    <2>5. ModelsAreGiven'
      BY <1>1, <1>2, <2>1, <2>4, ModelsStayGiven
    <2> QED BY <1>2, <2>1, <2>2, <2>3, <2>5 DEF FinderInv, SearchIsRight
  <1> QED BY <1>3, <1>4, <1>5, <1>6 DEF FindNext

LEMMA FinderInvStays ==
  ASSUME FinderInv, UNCHANGED findVars
  PROVE  FinderInv'
  <1>1. /\ lexicon' = lexicon /\ errModel' = errModel /\ limits' = limits /\ word' = word
        /\ prefix' = prefix /\ stack' = stack /\ found' = found
        /\ token' = token /\ search_configs' = search_configs /\ c' = c /\ phase' = phase
    BY DEF findVars, searchVars
  <1>2. ModelsAreGiven'
    BY <1>1, ModelsStayGiven DEF FinderInv, ModelsAreGiven
  <1>3. SearchIsRight'
    <2>1. SearchIsRight
      BY DEF FinderInv
    <2>2. Words' = Words
      BY <1>1 DEF Words
    <2>3. SearchedStr' = SearchedStr /\ LimitsOf(Config)' = LimitsOf(Config)
      BY <1>1 DEF SearchedStr, LimitsOf, Config
    <2>4. IsSearching(SearchedStr) => IsSearching(SearchedStr)'
      <3> SUFFICES ASSUME IsSearching(SearchedStr) PROVE IsSearching(SearchedStr)'
        OBVIOUS
      <3>1. PICK g : /\ IsFinders(g, SearchedStr)
                     /\ \/ \E S : IsStack(g, stack, S, word, prefix)
                        \/ stack = <<>> /\ IsDone(g, found, word, prefix)
        BY DEF IsSearching
      <3>2. IsFinders(g, SearchedStr)'
        BY <1>1, <2>2, <2>3, <3>1 DEF IsFinders, IsCurrent
      <3>3. \/ \E S : IsStack(g, stack', S, word', prefix')
            \/ stack' = <<>> /\ IsDone(g, found', word', prefix')
        BY <1>1, <3>1
      <3> QED BY <3>2, <3>3 DEF IsSearching
    <2> QED BY <1>1, <2>1, <2>3, <2>4 DEF SearchIsRight
  <1> QED BY <1>2, <1>3 DEF FinderInv

LEMMA FoundAreRight ==
  ASSUME FinderInv
  PROVE  SimilarWordsAreFound
  <1> SUFFICES ASSUME phase \in {"search", "search_lc"}, stack = <<>>
               PROVE  LET str == SearchedStr
                          scripts == ScriptsFor(str, limits)
                      IN  /\ DOMAIN found = Reached(str, limits)
                          /\ \A id \in DOMAIN found :
                               /\ found[id].spelling = Words[id + 1]
                               /\ \E s \in scripts :
                                    s.spelled = found[id].spelling /\ s.cost = found[id].cost
                               /\ limits.max_edit_distance < 2 * errModel.minimum =>
                                    \A s \in scripts :
                                      s.spelled = found[id].spelling => s.cost >= found[id].cost
                          /\ word = str /\ prefix = <<>>
    BY DEF SimilarWordsAreFound, SearchedStr
  <1> DEFINE scripts == ScriptsFor(SearchedStr, limits)
  <1>1. IsSearching(SearchedStr)
    BY DEF FinderInv, SearchIsRight
  <1>2. PICK g : /\ IsFinders(g, SearchedStr)
                 /\ \/ \E S : IsStack(g, stack, S, word, prefix)
                    \/ stack = <<>> /\ IsDone(g, found, word, prefix)
    BY <1>1 DEF IsSearching
  <1>3. ~(\E S : IsStack(g, stack, S, word, prefix))
    BY StackFacts
  <1>4. /\ AreRight(g, found) /\ IsServed(g, Untouched(g.str), found)
        /\ word = g.str /\ prefix = <<>>
    BY <1>2, <1>3 DEF IsDone
  <1>5. /\ IsSearch(g) /\ g.lex = lexicon /\ g.model = errModel /\ g.limits = limits
        /\ g.words = Words /\ g.str = SearchedStr
    BY <1>2 DEF IsFinders, IsCurrent
  <1>6. scripts = Scripts(g.str, Range(g.words), g.model, g.limits)
    BY <1>5 DEF ScriptsFor
  <1>7. OneEdit(g) <=> limits.max_edit_distance < 2 * errModel.minimum
    BY <1>5 DEF OneEdit
  <1>8. Reached(SearchedStr, limits)
          = {k - 1 : k \in {k \in DOMAIN g.words : \E s \in scripts : s.spelled = g.words[k]}}
    BY <1>5 DEF Reached
  <1> HIDE DEF scripts
  <1>9. HasFound(g, found, scripts)
    BY <1>4, <1>5, <1>6, FoundIsReached
  <1>10. DOMAIN found = Reached(SearchedStr, limits)
    BY <1>8, <1>9 DEF HasFound
  <1> QED BY <1>4, <1>5, <1>7, <1>9, <1>10 DEF scripts, HasFound

LEMMA OffersStay ==
  ASSUME lexicon' = lexicon, errModel' = errModel, token' = token
  PROVE  \A config : Offered(config)' = Offered(config)
  <1>1. Words' = Words
    BY DEF Words
  <1>2. ASSUME NEW config PROVE Offered(config)' = Offered(config)
    BY <1>1 DEF Offered, Reached, ScriptsFor, FitsLength, CorrectionIsAllowed, IsUpper, IsLower, StartsUpper
  <1> QED BY <1>2

LEMMA CapitalizationTypes ==
  ASSUME NEW str
  PROVE  GetCapitalizationType(str) \in
           {"ALL_UPPER_CASE", "ALL_LOWER_CASE", "FIRST_UPPER_CASE", "WEIRD"}
  BY Zenon DEF GetCapitalizationType

(* The case an offer is spelled in.                                        *)
LEMMA CapitalizedFirst ==
  ASSUME NEW str \in Seq(Letters), str # <<>>
  PROVE  SpelledAs("capitalized", str) = Capitalized(str) /\ ~IsLower(Capitalized(str)[1])
  <1>1. DOMAIN str = 1 .. Len(str) /\ Len(str) \in Nat \ {0}
    BY LenProperties, EmptySeq
  <1>2. 1 \in DOMAIN str /\ str[1] \in Letters
    BY <1>1, ElementOfSeq
  <1>3. Capitalized(str)[1] = UpperOf[str[1]]
    BY <1>2 DEF Capitalized
  <1>4. UpperOf[UpperOf[str[1]]] = UpperOf[str[1]]
    BY <1>2, LettersAssumption
  <1>5. SpelledAs("capitalized", str) = Capitalized(str)
    <2>1. "capitalized" # "as found"
      OBVIOUS
    <2> QED BY <2>1, Zenon DEF SpelledAs
  <1> QED BY <1>3, <1>4, <1>5 DEF IsLower

RaisedAt(ct, k) == ct = "ALL_UPPER_CASE" \/ (ct = "FIRST_UPPER_CASE" /\ k = 1)
LoweredAt(ct, k) == ct = "ALL_LOWER_CASE" \/ (ct = "FIRST_UPPER_CASE" /\ k > 1)

LEMMA RecasedAt ==
  ASSUME NEW ct, NEW str, DOMAIN str \subseteq Nat, NEW k \in DOMAIN str
  PROVE  /\ RaisedAt(ct, k) => Recased(ct, str)[k] = UpperOf[str[k]]
         /\ LoweredAt(ct, k) => Recased(ct, str)[k] = LowerOf[str[k]]
         /\ ~RaisedAt(ct, k) /\ ~LoweredAt(ct, k) => Recased(ct, str)[k] = str[k]
  <1>1. Recased(ct, str)[k] =
          CASE RaisedAt(ct, k) -> UpperOf[str[k]]
            [] LoweredAt(ct, k) -> LowerOf[str[k]]
            [] OTHER -> str[k]
    BY Zenon DEF Recased, RaisedAt, LoweredAt
  <1>2. ~(RaisedAt(ct, k) /\ LoweredAt(ct, k))
    <2>1. k \in Nat
      OBVIOUS
    <2>2. ~(k = 1 /\ k > 1)
      BY <2>1
    <2>3. /\ "ALL_UPPER_CASE" # "ALL_LOWER_CASE" /\ "ALL_UPPER_CASE" # "FIRST_UPPER_CASE"
          /\ "ALL_LOWER_CASE" # "FIRST_UPPER_CASE"
      OBVIOUS
    <2> QED BY <2>2, <2>3, Zenon DEF RaisedAt, LoweredAt
  <1> QED BY <1>1, <1>2, Zenon

LEMMA RecasedTwice ==
  ASSUME NEW ct, NEW str \in Seq(Letters)
  PROVE  Recased(ct, Recased(ct, str)) = Recased(ct, str)
  <1> DEFINE once == Recased(ct, str)
             twice == Recased(ct, once)
  <1>1. DOMAIN str = 1 .. Len(str) /\ Len(str) \in Nat
    BY LenProperties
  <1>2. DOMAIN once = DOMAIN str /\ DOMAIN twice = DOMAIN once
    BY DEF Recased
  <1>3. DOMAIN str \subseteq Nat
    BY <1>1
  <1>4. ASSUME NEW k \in DOMAIN str PROVE twice[k] = once[k]
    <2>1. str[k] \in Letters
      BY <1>1, ElementOfSeq
    <2>2. /\ UpperOf[UpperOf[str[k]]] = UpperOf[str[k]]
          /\ LowerOf[LowerOf[str[k]]] = LowerOf[str[k]]
      BY <2>1, LettersAssumption
    <2>3. /\ RaisedAt(ct, k) => once[k] = UpperOf[str[k]]
          /\ LoweredAt(ct, k) => once[k] = LowerOf[str[k]]
          /\ ~RaisedAt(ct, k) /\ ~LoweredAt(ct, k) => once[k] = str[k]
      BY <1>3, RecasedAt
    <2> HIDE DEF once
    <2>4. /\ RaisedAt(ct, k) => twice[k] = UpperOf[once[k]]
          /\ LoweredAt(ct, k) => twice[k] = LowerOf[once[k]]
          /\ ~RaisedAt(ct, k) /\ ~LoweredAt(ct, k) => twice[k] = once[k]
      BY <1>2, <1>3, RecasedAt
    <2> HIDE DEF twice
    <2> QED BY <2>2, <2>3, <2>4
  <1>5. once = [k \in DOMAIN once |-> once[k]] /\ twice = [k \in DOMAIN twice |-> twice[k]]
    BY DEF Recased
  <1> HIDE DEF once, twice
  <1>6. twice = once
    BY <1>2, <1>4, <1>5
  <1> QED BY <1>6 DEF once, twice

LEMMA FoundFacts ==
  ASSUME FinderInv, ModelsAreFit, phase \in {"search", "search_lc"}, stack = <<>>
  PROVE  /\ DOMAIN found = Reached(SearchedStr, LimitsOf(Config))
         /\ \A id \in DOMAIN found :
              /\ found[id] \in Offer
              /\ found[id].spelling \in Seq(Letters) /\ found[id].spelling # <<>>
  <1>1. SimilarWordsAreFound /\ ModelsAreGiven /\ limits = LimitsOf(Config)
    BY FoundAreRight DEF FinderInv, SearchIsRight
  <1>2. /\ DOMAIN found = Reached(SearchedStr, limits)
        /\ \A id \in DOMAIN found : found[id].spelling = Words[id + 1]
    BY <1>1 DEF SimilarWordsAreFound, SearchedStr
  <1>3. \A id \in DOMAIN found : found[id] \in Offer
    <2>1. IsSearching(SearchedStr)
      BY DEF FinderInv, SearchIsRight
    <2>2. PICK g : /\ IsFinders(g, SearchedStr)
                   /\ \/ \E S : IsStack(g, stack, S, word, prefix)
                      \/ stack = <<>> /\ IsDone(g, found, word, prefix)
      BY <2>1 DEF IsSearching
    <2>3. ~(\E S : IsStack(g, stack, S, word, prefix))
      BY StackFacts
    <2>4. found \in Offers
      BY <2>2, <2>3 DEF IsDone, AreRight
    <2> QED BY <2>4, OfferFacts
  <1>4. /\ Words \in Seq(Seq(Letters)) /\ IsTrie(lexicon, Words, Nodes(Words))
    BY <1>1, WordsAreGiven, LexiconsAssumption, LexiconsFit DEF LexiconsAreTries
  <1>5. ASSUME NEW k \in DOMAIN Words PROVE Words[k] \in Seq(Letters) /\ Words[k] # <<>>
    <2> DEFINE nodes == Nodes(Words)
    <2>1. /\ Len(Words) \in Nat /\ Len(nodes) \in Nat /\ Len(Words) < Len(nodes)
          /\ DOMAIN Words = 1 .. Len(Words) /\ nodes[Len(Words) + 1] = <<>>
          /\ \A m \in 1 .. Len(Words) : nodes[m] = Words[m]
          /\ \A m, n \in 1 .. Len(nodes) : nodes[m] = nodes[n] => m = n
      BY <1>4, TrieFacts
    <2>2. k \in 1 .. Len(Words) /\ k \in 1 .. Len(nodes)
          /\ Len(Words) + 1 \in 1 .. Len(nodes) /\ k # Len(Words) + 1
      BY <2>1
    <2> HIDE DEF nodes
    <2>3. Words[k] # <<>>
      BY <2>1, <2>2
    <2>4. Words[k] \in Seq(Letters)
      BY <1>4, <2>2, ElementOfSeq
    <2> QED BY <2>3, <2>4
  <1>6. ASSUME NEW id \in DOMAIN found PROVE id + 1 \in DOMAIN Words
    <2> DEFINE spelled == {k \in DOMAIN Words :
                             \E s \in ScriptsFor(SearchedStr, limits) : s.spelled = Words[k]}
    <2>1. id \in {k - 1 : k \in spelled}
      BY <1>2 DEF Reached
    <2>2. \A k \in spelled : k \in DOMAIN Words
      OBVIOUS
    <2>3. DOMAIN Words \subseteq Nat
      BY <1>4, LenProperties
    <2> HIDE DEF spelled
    <2>4. PICK k \in spelled : id = k - 1
      BY <2>1
    <2>5. k \in DOMAIN Words /\ k \in Nat
      BY <2>2, <2>3
    <2>6. id + 1 = k
      BY <2>4, <2>5
    <2> QED BY <2>5, <2>6
  <1> QED BY <1>1, <1>2, <1>3, <1>5, <1>6

LEMMA EachOfferFacts ==
  ASSUME NEW map, NEW how, \A id \in DOMAIN map : map[id] \in Offer
  PROVE  /\ DOMAIN EachOffer(map, how) = DOMAIN map
         /\ \A id \in DOMAIN map :
              EachOffer(map, how)[id].spelling = SpelledAs(how, map[id].spelling)
  <1>1. DOMAIN EachOffer(map, how) = DOMAIN map
    BY DEF EachOffer
  <1>2. ASSUME NEW id \in DOMAIN map
        PROVE  EachOffer(map, how)[id].spelling = SpelledAs(how, map[id].spelling)
    <2> DEFINE offer == map[id]
               new == SpelledAs(how, offer.spelling)
    <2>1. EachOffer(map, how)[id] = [offer EXCEPT !.spelling = new]
      <3> HIDE DEF new
      <3>1. new = SpelledAs(how, map[id].spelling)
        BY DEF new
      <3> QED BY <3>1 DEF EachOffer
    <2>2. offer \in [spelling : Seq(Nat), cost : Nat]
      BY DEF Offer
    <2> HIDE DEF offer, new
    <2>3. [offer EXCEPT !.spelling = new].spelling = new
      BY <2>2
    <2> QED BY <2>1, <2>3 DEF offer, new
  <1> QED BY <1>1, <1>2

LEMMA MergedFacts ==
  ASSUME NEW first, NEW second
  PROVE  /\ DOMAIN Merged(first, second) = DOMAIN first \union DOMAIN second
         /\ \A id \in DOMAIN Merged(first, second) :
              \/ id \in DOMAIN first /\ Merged(first, second)[id] = first[id]
              \/ id \in DOMAIN second /\ Merged(first, second)[id] = second[id]
  BY DEF Merged

IsCased(tok, config, spelling) ==
  IF config.casing = "ignore_case_keep_orig"
  THEN spelling = Recased(GetCapitalizationType(tok.str), spelling)
  ELSE StartsUpper(tok) => ~IsLower(spelling[1])

WasTried(config) == \E j \in DOMAIN search_configs : j < c /\ config = search_configs[j]

EarlierOfferNothing == \A config : WasTried(config) => Offered(config) = {}

SearchIsDue ==
  /\ FitsLength(Config, token)
  /\ Config.casing = "case_sensitive" => CorrectionIsAllowed(token)

FirstIsFound ==
  /\ Config.casing = "case_sensitive" /\ StartsUpper(token)
  /\ \E str, lims : /\ str = token.str /\ lims = LimitsOf(Config)
                    /\ DOMAIN results = Reached(str, lims)
  /\ \A id \in DOMAIN results : ~IsLower(results[id].spelling[1])

ConfigOffers ==
  /\ c \in DOMAIN search_configs
  /\ \E config : config = Config /\ DOMAIN swm = Offered(config)
  /\ \A id \in DOMAIN swm : IsCased(token, Config, swm[id].spelling)

(* While the configurations are tried, none before this one offers a word. *)
OffersAreFirst ==
  /\ phase # "done" => EarlierOfferNothing
  /\ phase = "configs" => swm = <<>>
  /\ phase \in {"search", "search_lc"} => SearchIsDue
  /\ phase = "search_lc" => FirstIsFound
  /\ phase = "found" => ConfigOffers

LEMMA OffersAreFirstInit ==
  ASSUME FindInit
  PROVE  OffersAreFirst
  <1>1. c = 1 /\ phase = "configs" /\ swm = <<>>
    BY DEF FindInit
  <1>2. EarlierOfferNothing
    <2>1. PICK configuration \in Configurations : search_configs = configuration.search_configs
      BY DEF FindInit
    <2>2. DOMAIN search_configs \subseteq Nat \ {0}
      <3>1. search_configs \in
             Seq([casing : {"case_sensitive", "ignore_case", "ignore_case_keep_orig"},
                max_ed_dist : Nat, max_cost : Nat, min_length : Nat, max_length : Nat])
        BY <2>1, ConfigurationsAssumption
      <3>2. DOMAIN search_configs = 1 .. Len(search_configs) /\ Len(search_configs) \in Nat
        BY <3>1, LenProperties
      <3> QED BY <3>2
    <2>3. \A j \in DOMAIN search_configs : ~(j < 1)
      BY <2>2
    <2> QED BY <1>1, <2>3 DEF EarlierOfferNothing, WasTried
  <1> QED BY <1>1, <1>2 DEF OffersAreFirst

LEMMA OfferedIs ==
  ASSUME NEW config
  PROVE  /\ ~FitsLength(config, token) => Offered(config) = {}
         /\ FitsLength(config, token) /\ config.casing = "case_sensitive"
              /\ ~CorrectionIsAllowed(token) =>
              Offered(config) = {GetWordID(lexicon, token.str)}
         /\ FitsLength(config, token)
              /\ (config.casing = "case_sensitive" => CorrectionIsAllowed(token)) =>
              Offered(config) =
                Reached(token.str, LimitsOf(config)) \union
                  (IF config.casing = "case_sensitive" /\ StartsUpper(token)
                   THEN Reached(Uncapitalized(token.str), LimitsOf(config)) ELSE {})
  BY Zenon DEF Offered

(* The next configuration is tried when this one has offered nothing.      *)
LEMMA NextIsTried ==
  ASSUME ModelsAreGiven, EarlierOfferNothing, c \in DOMAIN search_configs,
         \A config : config = Config => Offered(config) = {},
         lexicon' = lexicon, errModel' = errModel, token' = token,
         search_configs' = search_configs, c' = c + 1
  PROVE  EarlierOfferNothing'
  <1>1. \A config : Offered(config)' = Offered(config)
    BY OffersStay
  <1>2. DOMAIN search_configs \subseteq Nat /\ c \in Nat
    <2>1. search_configs \in
            Seq([casing : {"case_sensitive", "ignore_case", "ignore_case_keep_orig"},
              max_ed_dist : Nat, max_cost : Nat, min_length : Nat, max_length : Nat])
      BY ConfigurationsAssumption DEF ModelsAreGiven
    <2>2. DOMAIN search_configs = 1 .. Len(search_configs) /\ Len(search_configs) \in Nat
      BY <2>1, LenProperties
    <2> QED BY <2>2
  <1>3. ASSUME NEW config, WasTried(config)' PROVE Offered(config) = {}
    <2>1. PICK j \in DOMAIN search_configs : j < c + 1 /\ config = search_configs[j]
      BY <1>3 DEF WasTried
    <2>2. CASE j < c
      BY <2>1, <2>2 DEF EarlierOfferNothing, WasTried
    <2>3. CASE ~(j < c)
      <3>1. j = c
        BY <1>2, <2>1, <2>3
      <3> QED BY <2>1, <3>1 DEF Config
    <2> QED BY <2>2, <2>3
  <1> QED BY <1>1, <1>3 DEF EarlierOfferNothing

LEMMA EarlierStay ==
  ASSUME EarlierOfferNothing, lexicon' = lexicon, errModel' = errModel, token' = token,
         search_configs' = search_configs, c' = c
  PROVE  EarlierOfferNothing'
  <1>1. \A config : Offered(config)' = Offered(config)
    BY OffersStay
  <1>2. \A config : WasTried(config)' <=> WasTried(config)
    BY DEF WasTried
  <1> QED BY <1>1, <1>2 DEF EarlierOfferNothing

FinderIsRight == FinderInv /\ ModelsAreFit /\ OffersAreFirst

LEMMA ConfigsArePassed ==
  ASSUME FinderIsRight, SkipConfig
  PROVE  OffersAreFirst'
  <1>1. /\ phase = "configs" /\ c <= Len(search_configs) /\ ~FitsLength(Config, token)
        /\ c' = c + 1 /\ phase' = phase /\ swm' = swm
        /\ lexicon' = lexicon /\ errModel' = errModel
        /\ token' = token /\ search_configs' = search_configs
    BY DEF SkipConfig, Find, KeepSearch, searchVars, KeepToken
  <1>2. ModelsAreGiven /\ EarlierOfferNothing /\ swm = <<>>
    <2>1. "configs" # "done"
      OBVIOUS
    <2> QED BY <1>1, <2>1 DEF FinderIsRight, FinderInv, OffersAreFirst
  <1>3. c \in DOMAIN search_configs
    BY <1>1, <1>2, ConfigFacts
  <1>4. \A config : config = Config => Offered(config) = {}
    BY <1>1, OfferedIs
  <1>5. EarlierOfferNothing'
    BY <1>1, <1>2, <1>3, <1>4, NextIsTried
  <1> QED BY <1>1, <1>2, <1>5 DEF OffersAreFirst

LEMMA TokenIsOffered ==
  ASSUME FinderIsRight, OfferToken
  PROVE  OffersAreFirst'
  <1>1. /\ phase = "configs" /\ c <= Len(search_configs) /\ FitsLength(Config, token)
        /\ Config.casing = "case_sensitive" /\ ~CorrectionIsAllowed(token)
        /\ c' = c /\ phase' = "found"
        /\ swm' = [id \in {GetWordID(lexicon, token.str)} |-> [spelling |-> token.str, cost |-> 0]]
        /\ lexicon' = lexicon /\ errModel' = errModel
        /\ token' = token /\ search_configs' = search_configs
    BY DEF OfferToken, Find, KeepSearch, searchVars, KeepToken
  <1>2. ModelsAreGiven /\ EarlierOfferNothing
    <2>1. "configs" # "done"
      OBVIOUS
    <2> QED BY <1>1, <2>1 DEF FinderIsRight, FinderInv, OffersAreFirst
  <1>3. c \in DOMAIN search_configs
    BY <1>1, <1>2, ConfigFacts
  <1>4. EarlierOfferNothing'
    BY <1>1, <1>2, EarlierStay
  <1>5. ~StartsUpper(token)
    <2>1. token.str \in Seq(Letters) /\ token.str # <<>>
      BY <1>2, SpellingsAreSearched
    <2>2. 1 \in DOMAIN token.str
      BY <2>1, EmptySeq, LenProperties
    <2> QED BY <1>1, <2>2 DEF StartsUpper, CorrectionIsAllowed
  <1>6. ASSUME NEW id \in DOMAIN swm' PROVE IsCased(token, Config, swm'[id].spelling)
    <2>1. Config.casing # "ignore_case_keep_orig"
      BY <1>1
    <2> QED BY <1>5, <2>1 DEF IsCased
  <1>7. PICK config : config = Config
    OBVIOUS
  <1>8. Offered(config) = {GetWordID(lexicon, token.str)}
    BY <1>1, <1>7, OfferedIs
  <1>9. DOMAIN swm' = Offered(config)
    BY <1>1, <1>8
  <1>10. Offered(config)' = Offered(config) /\ Config' = Config
    BY <1>1, OffersStay DEF Config
  <1>11. ConfigOffers'
    BY <1>1, <1>3, <1>6, <1>7, <1>9, <1>10 DEF ConfigOffers
  <1> QED BY <1>1, <1>4, <1>11 DEF OffersAreFirst

LEMMA SearchIsDueThen ==
  ASSUME FinderIsRight, BeginSearch
  PROVE  OffersAreFirst'
  <1>1. /\ phase = "configs" /\ FitsLength(Config, token)
        /\ Config.casing = "case_sensitive" => CorrectionIsAllowed(token)
        /\ c' = c /\ phase' = "search"
        /\ lexicon' = lexicon /\ errModel' = errModel
        /\ token' = token /\ search_configs' = search_configs
    BY DEF BeginSearch, Find, GetSimilarWords, KeepToken
  <1>2. EarlierOfferNothing
    <2>1. "configs" # "done"
      OBVIOUS
    <2> QED BY <1>1, <2>1 DEF FinderIsRight, OffersAreFirst
  <1>3. EarlierOfferNothing'
    BY <1>1, <1>2, EarlierStay
  <1>4. Config' = Config
    BY <1>1 DEF Config
  <1>5. SearchIsDue'
    BY <1>1, <1>4 DEF SearchIsDue
  <1> QED BY <1>1, <1>3, <1>5 DEF OffersAreFirst

LEMMA SearchIsStillDue ==
  ASSUME FinderIsRight, Search
  PROVE  OffersAreFirst'
  <1>1. /\ phase \in {"search", "search_lc"} /\ c' = c /\ phase' = phase
        /\ results' = results /\ lexicon' = lexicon /\ errModel' = errModel
        /\ token' = token /\ search_configs' = search_configs
    BY DEF Search, SearchStep, BeginLetter, TrySkip, FollowLetter, TrySubstitution, TrySwap, NoSwap,
           TryAddition, NextLetter, ReturnToCaller, ReturnSimilarWords, Settled, KeepToken
  <1>2. /\ EarlierOfferNothing /\ SearchIsDue
        /\ phase = "search_lc" => FirstIsFound
    <2>1. "search" # "done" /\ "search_lc" # "done"
      OBVIOUS
    <2> QED BY <1>1, <2>1 DEF FinderIsRight, OffersAreFirst
  <1>3. EarlierOfferNothing'
    BY <1>1, <1>2, EarlierStay
  <1>4. Config' = Config /\ LimitsOf(Config)' = LimitsOf(Config)
    BY <1>1 DEF Config, LimitsOf
  <1>5. SearchIsDue'
    BY <1>1, <1>2, <1>4 DEF SearchIsDue
  <1>6. FirstIsFound => FirstIsFound'
    <2> SUFFICES ASSUME FirstIsFound PROVE FirstIsFound'
      OBVIOUS
    <2>1. PICK str, lims : /\ str = token.str /\ lims = LimitsOf(Config)
                           /\ DOMAIN results = Reached(str, lims)
      BY DEF FirstIsFound
    <2>2. Reached(str, lims)' = Reached(str, lims)
      <3>1. Words' = Words
        BY <1>1 DEF Words
      <3> QED BY <1>1, <3>1 DEF Reached, ScriptsFor
    <2>3. /\ str = token'.str /\ lims = LimitsOf(Config)'
          /\ DOMAIN results' = Reached(str, lims)'
      BY <1>1, <1>4, <2>1, <2>2
    <2>4. /\ Config'.casing = "case_sensitive" /\ StartsUpper(token')
          /\ \A id \in DOMAIN results' : ~IsLower(results'[id].spelling[1])
      BY <1>1, <1>4 DEF FirstIsFound
    <2> QED BY <2>3, <2>4 DEF FirstIsFound
  <1> QED BY <1>1, <1>2, <1>3, <1>5, <1>6 DEF OffersAreFirst

LEMMA ReachedStays ==
  ASSUME lexicon' = lexicon, errModel' = errModel
  PROVE  \A str, lims : Reached(str, lims)' = Reached(str, lims)
  <1>1. Words' = Words
    BY DEF Words
  <1>2. ASSUME NEW str, NEW lims PROVE Reached(str, lims)' = Reached(str, lims)
    BY <1>1 DEF Reached, ScriptsFor
  <1> QED BY <1>2

LEMMA CapitalizedOffers ==
  ASSUME NEW map, \A id \in DOMAIN map : /\ map[id] \in Offer /\ map[id].spelling \in Seq(Letters)
                                         /\ map[id].spelling # <<>>
  PROVE  /\ DOMAIN EachOffer(map, "capitalized") = DOMAIN map
         /\ \A id \in DOMAIN map : ~IsLower(EachOffer(map, "capitalized")[id].spelling[1])
  <1>1. DOMAIN EachOffer(map, "capitalized") = DOMAIN map
    BY EachOfferFacts
  <1>2. ASSUME NEW id \in DOMAIN map
        PROVE  ~IsLower(EachOffer(map, "capitalized")[id].spelling[1])
    <2>1. EachOffer(map, "capitalized")[id].spelling = SpelledAs("capitalized", map[id].spelling)
      BY EachOfferFacts
    <2>2. /\ SpelledAs("capitalized", map[id].spelling) = Capitalized(map[id].spelling)
          /\ ~IsLower(Capitalized(map[id].spelling)[1])
      BY CapitalizedFirst
    <2> QED BY <2>1, <2>2
  <1> QED BY <1>1, <1>2

LEMMA FirstIsFoundThen ==
  ASSUME FinderIsRight, SearchLowerCase
  PROVE  OffersAreFirst'
  <1>1. /\ phase = "search" /\ stack = <<>> /\ phase' = "search_lc" /\ c' = c
        /\ Config.casing = "case_sensitive" /\ StartsUpper(token)
        /\ results' = EachOffer(found, "capitalized")
        /\ lexicon' = lexicon /\ errModel' = errModel
        /\ token' = token /\ search_configs' = search_configs
    BY DEF SearchLowerCase, Returned, GetSimilarWords, KeepToken
  <1>2. EarlierOfferNothing /\ SearchIsDue /\ FinderInv /\ ModelsAreFit
    <2>1. "search" # "done"
      OBVIOUS
    <2> QED BY <1>1, <2>1 DEF FinderIsRight, OffersAreFirst
  <1>3. EarlierOfferNothing'
    BY <1>1, <1>2, EarlierStay
  <1>4. Config' = Config /\ LimitsOf(Config)' = LimitsOf(Config)
    BY <1>1 DEF Config, LimitsOf
  <1>5. SearchIsDue'
    BY <1>1, <1>2, <1>4 DEF SearchIsDue
  <1>6. /\ DOMAIN found = Reached(token.str, LimitsOf(Config))
        /\ \A id \in DOMAIN found :
              /\ found[id] \in Offer
              /\ found[id].spelling \in Seq(Letters) /\ found[id].spelling # <<>>
    <2>1. SearchedStr = token.str
      BY <1>1 DEF SearchedStr
    <2> QED BY <1>1, <1>2, <2>1, FoundFacts
  <1>7. /\ DOMAIN results' = DOMAIN found
        /\ \A id \in DOMAIN found : ~IsLower(results'[id].spelling[1])
    BY <1>1, <1>6, CapitalizedOffers
  <1>8. PICK str, lims : str = token.str /\ lims = LimitsOf(Config)
    OBVIOUS
  <1>9. DOMAIN results' = Reached(str, lims)'
    BY <1>1, <1>6, <1>7, <1>8, ReachedStays
  <1>10. FirstIsFound'
    BY <1>1, <1>4, <1>7, <1>8, <1>9 DEF FirstIsFound
  <1> QED BY <1>1, <1>3, <1>5, <1>10 DEF OffersAreFirst

LEMMA MergedIsOffered ==
  ASSUME FinderIsRight, MergeLowerCase
  PROVE  OffersAreFirst'
  <1> DEFINE more == EachOffer(found, "capitalized")
  <1>1. /\ phase = "search_lc" /\ stack = <<>> /\ phase' = "found" /\ c' = c
        /\ swm' = Merged(results, more)
        /\ lexicon' = lexicon /\ errModel' = errModel
        /\ token' = token /\ search_configs' = search_configs
    BY DEF MergeLowerCase, Returned, KeepSearch, searchVars, KeepToken
  <1>2. EarlierOfferNothing /\ SearchIsDue /\ FirstIsFound /\ FinderInv /\ ModelsAreFit
    <2>1. "search_lc" # "done"
      OBVIOUS
    <2> QED BY <1>1, <2>1 DEF FinderIsRight, OffersAreFirst
  <1>3. EarlierOfferNothing'
    BY <1>1, <1>2, EarlierStay
  <1>4. Config' = Config
    BY <1>1 DEF Config
  <1>5. c \in DOMAIN search_configs
    BY <1>1, <1>2, ConfigFacts DEF FinderInv, SearchIsRight
  <1>6. /\ DOMAIN found = Reached(Uncapitalized(token.str), LimitsOf(Config))
        /\ \A id \in DOMAIN found :
              /\ found[id] \in Offer
              /\ found[id].spelling \in Seq(Letters) /\ found[id].spelling # <<>>
    <2>1. SearchedStr = Uncapitalized(token.str)
      BY <1>1 DEF SearchedStr
    <2> QED BY <1>1, <1>2, <2>1, FoundFacts
  <1>7. /\ DOMAIN more = DOMAIN found
        /\ \A id \in DOMAIN found : ~IsLower(more[id].spelling[1])
    BY <1>6, CapitalizedOffers
  <1>8. /\ DOMAIN results = Reached(token.str, LimitsOf(Config))
        /\ \A id \in DOMAIN results : ~IsLower(results[id].spelling[1])
        /\ Config.casing = "case_sensitive" /\ StartsUpper(token)
    BY <1>2 DEF FirstIsFound
  <1> HIDE DEF more
  <1>9. /\ DOMAIN swm' = DOMAIN results \union DOMAIN more
        /\ \A id \in DOMAIN swm' : ~IsLower(swm'[id].spelling[1])
    <2>1. /\ DOMAIN swm' = DOMAIN results \union DOMAIN more
          /\ \A id \in DOMAIN swm' :
               \/ id \in DOMAIN results /\ swm'[id] = results[id]
               \/ id \in DOMAIN more /\ swm'[id] = more[id]
      BY <1>1, MergedFacts
    <2> QED BY <1>7, <1>8, <2>1
  <1>10. PICK config : config = Config
    OBVIOUS
  <1>11. Offered(config) = Reached(token.str, LimitsOf(config)) \union
                            Reached(Uncapitalized(token.str), LimitsOf(config))
    BY <1>2, <1>8, <1>10, OfferedIs DEF SearchIsDue
  <1>12. DOMAIN swm' = Offered(config)
    BY <1>6, <1>7, <1>8, <1>9, <1>10, <1>11
  <1>13. Offered(config)' = Offered(config)
    BY <1>1, OffersStay
  <1>14. \A id \in DOMAIN swm' : IsCased(token, Config, swm'[id].spelling)
    <2>1. Config.casing # "ignore_case_keep_orig"
      BY <1>8
    <2> QED BY <1>9, <2>1 DEF IsCased
  <1>15. ConfigOffers'
    BY <1>1, <1>4, <1>5, <1>10, <1>12, <1>13, <1>14 DEF ConfigOffers
  <1> QED BY <1>1, <1>3, <1>15 DEF OffersAreFirst

LEMMA OffersAreCased ==
  ASSUME ModelsAreGiven, c <= Len(search_configs),
         ~(Config.casing = "case_sensitive" /\ StartsUpper(token)),
         NEW str \in Seq(Letters), str # <<>>,
         NEW how, how = CASE Config.casing = "ignore_case_keep_orig" ->
                              GetCapitalizationType(token.str)
                          [] Config.casing = "ignore_case" /\ StartsUpper(token) -> "capitalized"
                          [] OTHER -> "as found"
  PROVE  IsCased(token, Config, SpelledAs(how, str))
  <1>1. Config.casing \in {"case_sensitive", "ignore_case", "ignore_case_keep_orig"}
    BY ConfigFacts DEF CasingTypes
  <1>2. CASE Config.casing = "ignore_case_keep_orig"
    <2> DEFINE ct == GetCapitalizationType(token.str)
    <2>1. how = ct
      <3>1. "ignore_case_keep_orig" # "ignore_case"
        OBVIOUS
      <3> QED BY <1>2, <3>1, Zenon
    <2>2. ct \in {"ALL_UPPER_CASE", "ALL_LOWER_CASE", "FIRST_UPPER_CASE", "WEIRD"}
      BY CapitalizationTypes
    <2> HIDE DEF ct
    <2>3. ct # "capitalized" /\ ct # "as found"
      BY <2>2
    <2>4. SpelledAs(how, str) = Recased(ct, str)
      BY <2>1, <2>3, Zenon DEF SpelledAs
    <2>5. Recased(ct, Recased(ct, str)) = Recased(ct, str)
      BY RecasedTwice
    <2> QED BY <1>2, <2>4, <2>5 DEF IsCased, ct
  <1>3. CASE Config.casing = "ignore_case" /\ StartsUpper(token)
    <2>1. "ignore_case_keep_orig" # "ignore_case"
      OBVIOUS
    <2>2. how = "capitalized"
      BY <1>3, <2>1, Zenon
    <2>3. SpelledAs(how, str) = Capitalized(str) /\ ~IsLower(Capitalized(str)[1])
      BY <2>2, CapitalizedFirst
    <2> QED BY <1>3, <2>1, <2>3 DEF IsCased
  <1>4. CASE Config.casing # "ignore_case_keep_orig" /\ ~StartsUpper(token)
    BY <1>4 DEF IsCased
  <1> QED BY <1>1, <1>2, <1>3, <1>4

LEMMA FoundIsOffered ==
  ASSUME FinderIsRight, TakeFound
  PROVE  OffersAreFirst'
  <1> DEFINE how == CASE Config.casing = "ignore_case_keep_orig" ->
                           GetCapitalizationType(token.str)
                      [] Config.casing = "ignore_case" /\ StartsUpper(token) -> "capitalized"
                      [] OTHER -> "as found"
  <1>1. /\ phase = "search" /\ stack = <<>> /\ phase' = "found" /\ c' = c
        /\ ~(Config.casing = "case_sensitive" /\ StartsUpper(token))
        /\ swm' = EachOffer(found, how)
        /\ lexicon' = lexicon /\ errModel' = errModel
        /\ token' = token /\ search_configs' = search_configs
    BY Zenon DEF TakeFound, Returned, KeepSearch, searchVars, KeepToken
  <1>2. EarlierOfferNothing /\ SearchIsDue /\ FinderInv /\ ModelsAreFit
    <2>1. "search" # "done"
      OBVIOUS
    <2> HIDE DEF how
    <2> QED BY <1>1, <2>1 DEF FinderIsRight, OffersAreFirst
  <1>3. PICK spelledHow : spelledHow = how
    OBVIOUS
  <1>4. swm' = EachOffer(found, spelledHow)
    BY <1>1, <1>3, Zenon
  <1>5. ModelsAreGiven /\ c <= Len(search_configs)
    <2> HIDE DEF how
    <2> QED BY <1>1, <1>2 DEF FinderInv, SearchIsRight
  <1>6. \A str \in Seq(Letters) : str # <<>> => IsCased(token, Config, SpelledAs(spelledHow, str))
    <2> SUFFICES ASSUME NEW str \in Seq(Letters), str # <<>>
                 PROVE  IsCased(token, Config, SpelledAs(spelledHow, str))
      OBVIOUS
    <2>1. ~(Config.casing = "case_sensitive" /\ StartsUpper(token))
      BY <1>1, Zenon
    <2> QED BY <1>3, <1>5, <2>1, OffersAreCased, Zenon
  <1> HIDE DEF how
  <1>7. EarlierOfferNothing'
    BY <1>1, <1>2, EarlierStay
  <1>8. Config' = Config
    BY <1>1 DEF Config
  <1>9. c \in DOMAIN search_configs
    BY <1>5, ConfigFacts
  <1>10. /\ DOMAIN found = Reached(token.str, LimitsOf(Config))
         /\ \A id \in DOMAIN found :
              /\ found[id] \in Offer
              /\ found[id].spelling \in Seq(Letters) /\ found[id].spelling # <<>>
    <2>1. SearchedStr = token.str
      BY <1>1 DEF SearchedStr
    <2> QED BY <1>1, <1>2, <2>1, FoundFacts
  <1>11. /\ DOMAIN swm' = DOMAIN found
         /\ \A id \in DOMAIN found : swm'[id].spelling = SpelledAs(spelledHow, found[id].spelling)
    BY <1>4, <1>10, EachOfferFacts
  <1>12. \A id \in DOMAIN swm' : IsCased(token, Config, swm'[id].spelling)
    BY <1>6, <1>10, <1>11
  <1>13. PICK config : config = Config
    OBVIOUS
  <1>14. Offered(config) = Reached(token.str, LimitsOf(config))
    BY <1>1, <1>2, <1>13, OfferedIs DEF SearchIsDue
  <1>15. DOMAIN swm' = Offered(config)
    BY <1>10, <1>11, <1>13, <1>14
  <1>16. Offered(config)' = Offered(config)
    BY <1>1, OffersStay
  <1>17. ConfigOffers'
    BY <1>1, <1>8, <1>9, <1>12, <1>13, <1>15, <1>16 DEF ConfigOffers
  <1> QED BY <1>1, <1>7, <1>17 DEF OffersAreFirst

LEMMA NothingIsOffered ==
  ASSUME FinderIsRight, NextConfig
  PROVE  OffersAreFirst'
  <1>1. /\ phase = "found" /\ swm = <<>> /\ c' = c + 1 /\ phase' = "configs" /\ swm' = swm
        /\ lexicon' = lexicon /\ errModel' = errModel
        /\ token' = token /\ search_configs' = search_configs
    BY DEF NextConfig, KeepSearch, searchVars, KeepToken
  <1>2. ModelsAreGiven /\ EarlierOfferNothing /\ ConfigOffers
    <2>1. "found" # "done"
      OBVIOUS
    <2> QED BY <1>1, <2>1 DEF FinderIsRight, FinderInv, OffersAreFirst
  <1>3. c \in DOMAIN search_configs
    BY <1>2 DEF ConfigOffers
  <1>4. \A config : config = Config => Offered(config) = {}
    <2>1. DOMAIN swm = {}
      BY <1>1, NoOffers
    <2> QED BY <1>2, <2>1 DEF ConfigOffers
  <1>5. EarlierOfferNothing'
    BY <1>1, <1>2, <1>3, <1>4, NextIsTried
  <1> QED BY <1>1, <1>5 DEF OffersAreFirst

LEMMA OffersAreFirstNext ==
  ASSUME FinderIsRight, FindNext
  PROVE  OffersAreFirst'
  <1>1. CASE ReturnOffers
    BY <1>1 DEF ReturnOffers, OffersAreFirst
  <1> QED BY <1>1, ConfigsArePassed, TokenIsOffered, SearchIsDueThen, SearchIsStillDue,
             FirstIsFoundThen, MergedIsOffered, FoundIsOffered, NothingIsOffered DEF FindNext

LEMMA OffersAreFirstStays ==
  ASSUME FinderIsRight, UNCHANGED findVars
  PROVE  OffersAreFirst'
  <1>1. /\ lexicon' = lexicon /\ errModel' = errModel
        /\ token' = token /\ search_configs' = search_configs /\ c' = c /\ phase' = phase
        /\ swm' = swm /\ results' = results
    BY DEF findVars, searchVars
  <1>2. OffersAreFirst
    BY DEF FinderIsRight
  <1>3. EarlierOfferNothing => EarlierOfferNothing'
    BY <1>1, EarlierStay
  <1>4. Config' = Config /\ LimitsOf(Config)' = LimitsOf(Config)
    BY <1>1 DEF Config, LimitsOf
  <1>5. SearchIsDue => SearchIsDue'
    BY <1>1, <1>4 DEF SearchIsDue
  <1>6. FirstIsFound => FirstIsFound'
    <2> SUFFICES ASSUME FirstIsFound PROVE FirstIsFound'
      OBVIOUS
    <2>1. PICK str, lims : /\ str = token.str /\ lims = LimitsOf(Config)
                           /\ DOMAIN results = Reached(str, lims)
      BY DEF FirstIsFound
    <2>2. Reached(str, lims)' = Reached(str, lims)
      BY <1>1, ReachedStays
    <2>3. /\ str = token'.str /\ lims = LimitsOf(Config)'
          /\ DOMAIN results' = Reached(str, lims)'
      BY <1>1, <1>4, <2>1, <2>2
    <2>4. /\ Config'.casing = "case_sensitive" /\ StartsUpper(token')
          /\ \A id \in DOMAIN results' : ~IsLower(results'[id].spelling[1])
      BY <1>1, <1>4 DEF FirstIsFound
    <2> QED BY <2>3, <2>4 DEF FirstIsFound
  <1>7. ConfigOffers => ConfigOffers'
    <2> SUFFICES ASSUME ConfigOffers PROVE ConfigOffers'
      OBVIOUS
    <2>1. PICK config : config = Config /\ DOMAIN swm = Offered(config)
      BY DEF ConfigOffers
    <2>2. Offered(config)' = Offered(config)
      BY <1>1, OffersStay
    <2>3. /\ c' \in DOMAIN search_configs'
          /\ config = Config' /\ DOMAIN swm' = Offered(config)'
          /\ \A id \in DOMAIN swm' : IsCased(token', Config', swm'[id].spelling)
      BY <1>1, <1>4, <2>1, <2>2 DEF ConfigOffers
    <2> QED BY <2>3 DEF ConfigOffers
  <1> QED BY <1>1, <1>2, <1>3, <1>5, <1>6, <1>7 DEF OffersAreFirst

LEMMA SearchNumbers ==
  ASSUME ModelsAreGiven
  PROVE  /\ DOMAIN search_configs = 1 .. Len(search_configs)
         /\ Len(search_configs) \in Nat
  <1>1. search_configs \in
          Seq([casing : {"case_sensitive", "ignore_case", "ignore_case_keep_orig"},
               max_ed_dist : Nat, max_cost : Nat, min_length : Nat, max_length : Nat])
    BY ConfigurationsAssumption DEF ModelsAreGiven
  <1> QED BY <1>1, LenProperties

LEMMA OffersAreFromFirst ==
  ASSUME FinderInv, OffersAreFirst
  PROVE  OffersComeFromFirstSearch
  <1> SUFFICES ASSUME IsFound PROVE OffersComeFromFirstSearch
    BY DEF OffersComeFromFirstSearch
  <1>1. /\ DOMAIN search_configs = 1 .. Len(search_configs)
        /\ Len(search_configs) \in Nat
    BY SearchNumbers DEF FinderInv
  <1>2. EarlierOfferNothing
    <2>1. "found" # "done" /\ "configs" # "done"
      OBVIOUS
    <2> QED BY <2>1 DEF IsFound, OffersAreFirst
  <1>3. CASE phase = "found" /\ swm # <<>>
    <2>1. ConfigOffers
      BY <1>3 DEF OffersAreFirst
    <2>2. c \in DOMAIN search_configs /\ DOMAIN swm = Offered(search_configs[c])
      BY <2>1 DEF ConfigOffers, Config
    <2>3. ASSUME NEW j \in 1 .. c - 1 PROVE Offered(search_configs[j]) = {}
      <3>1. j \in DOMAIN search_configs /\ j < c
        BY <1>1, <2>2
      <3>2. WasTried(search_configs[j])
        BY <3>1 DEF WasTried
      <3> QED BY <1>2, <3>2 DEF EarlierOfferNothing
    <2>4. ASSUME NEW id \in DOMAIN swm
          PROVE  IF search_configs[c].casing = "ignore_case_keep_orig"
                 THEN swm[id].spelling =
                        Recased(GetCapitalizationType(token.str), swm[id].spelling)
                 ELSE StartsUpper(token) => ~IsLower(swm[id].spelling[1])
      BY <2>1 DEF ConfigOffers, IsCased, Config
    <2> QED BY <1>3, <2>2, <2>3, <2>4, Zenon DEF OffersComeFromFirstSearch
  <1>4. CASE phase = "configs" /\ c > Len(search_configs)
    <2>1. swm = <<>>
      BY <1>4 DEF OffersAreFirst
    <2>2. ASSUME NEW j \in DOMAIN search_configs PROVE Offered(search_configs[j]) = {}
      <3>1. c \in Int
        BY DEF FinderInv, ModelsAreGiven
      <3>2. j < c
        BY <1>1, <1>4, <3>1
      <3>3. WasTried(search_configs[j])
        BY <3>2 DEF WasTried
      <3> QED BY <1>2, <3>3 DEF EarlierOfferNothing
    <2> QED BY <2>1, <2>2, Zenon DEF OffersComeFromFirstSearch
  <1> QED BY <1>3, <1>4 DEF IsFound

LEMMA FinderIsRightInit ==
  ASSUME ModelsAreFit, FindInit
  PROVE  FinderIsRight
  BY FinderInvInit, OffersAreFirstInit DEF FinderIsRight

LEMMA FinderIsRightNext ==
  ASSUME ModelsAreFit, FinderIsRight, FindNext
  PROVE  FinderIsRight'
  <1>1. FinderInv'
    BY FinderInvNext DEF FinderIsRight
  <1>2. OffersAreFirst'
    BY OffersAreFirstNext
  <1>3. ModelsAreFit'
    BY DEF ModelsAreFit, SwapsCostSomething, FreeEditsAreCounted
  <1> QED BY <1>1, <1>2, <1>3 DEF FinderIsRight

LEMMA FinderIsRightStays ==
  ASSUME ModelsAreFit, FinderIsRight, UNCHANGED findVars
  PROVE  FinderIsRight'
  <1>1. FinderInv'
    BY FinderInvStays DEF FinderIsRight
  <1>2. OffersAreFirst'
    BY OffersAreFirstStays DEF FinderIsRight
  <1>3. ModelsAreFit'
    BY DEF ModelsAreFit, SwapsCostSomething, FreeEditsAreCounted
  <1> QED BY <1>1, <1>2, <1>3 DEF FinderIsRight

LEMMA FinderIsRightKept ==
  ASSUME ModelsAreFit, FinderIsRight, [TokenNext]_tokenVars
  PROVE  FinderIsRight'
  <1>1. CASE FindSimilarWords
    BY <1>1, FinderIsRightNext DEF FindSimilarWords
  <1>2. CASE UNCHANGED findVars
    BY <1>2, FinderIsRightStays
  <1>3. CASE InitInnerStagePossibilities
    BY <1>3, <1>2 DEF InitInnerStagePossibilities
  <1>4. CASE BeginRanking
    BY <1>4, <1>2 DEF BeginRanking
  <1>5. CASE RankSimilarWord \/ BeginCorrection \/ FillAlternative \/ FillCorrection
    BY <1>5, <1>2 DEF RankSimilarWord, BeginCorrection, FillAlternative, FillCorrection, KeepFinder
  <1>6. CASE Corrected \/ UNCHANGED tokenVars
    BY <1>6, <1>2 DEF Corrected, tokenVars
  <1> QED BY <1>1, <1>3, <1>4, <1>5, <1>6 DEF TokenNext

(* FinderIsRight is inductive for SimWordsFinder::Find alone: while a       *)
(* search runs, its frames, its buffers and what it found so far are those *)
(* of the walk over the trie, and while the configurations are tried none  *)
(* before this one offers a word.                                          *)
THEOREM FindIsRight ==
  ASSUME ModelsAreFit
  PROVE  FindSpec => []FinderIsRight
  <1>1. FindInit => FinderIsRight
    BY FinderIsRightInit
  <1>2. FinderIsRight /\ [FindNext]_findVars => FinderIsRight'
    BY FinderIsRightNext, FinderIsRightStays
  <1> QED BY <1>1, <1>2, PTL DEF FindSpec

(* And for the correction of a token, of which Find is the first part.     *)
THEOREM TokensAreRight ==
  ASSUME ModelsAreFit
  PROVE  TokenSpec => []FinderIsRight
  <1>1. TokenInit => FinderIsRight
    BY FinderIsRightInit DEF TokenInit
  <1>2. FinderIsRight /\ [TokenNext]_tokenVars => FinderIsRight'
    BY FinderIsRightKept
  <1> QED BY <1>1, <1>2, PTL DEF TokenSpec

(* For all words, tokens, tables of errors and limits a search finds the   *)
(* words that edits within the limits make of the token, and no others, at *)
(* costs that scripts of edits have.                                       *)
THEOREM SimilarWordsFound ==
  ASSUME ModelsAreFit
  PROVE  TokenSpec => []SimilarWordsAreFound
  <1>1. FinderIsRight => SimilarWordsAreFound
    BY FoundAreRight DEF FinderIsRight
  <1> QED BY <1>1, TokensAreRight, PTL

(* What Find returns is what the first configuration offers that offers    *)
(* anything, in the case that this configuration gives it.                 *)
THEOREM FirstSearchOffers ==
  ASSUME ModelsAreFit
  PROVE  TokenSpec => []OffersComeFromFirstSearch
  <1>1. FinderIsRight => OffersComeFromFirstSearch
    BY OffersAreFromFirst DEF FinderIsRight
  <1> QED BY <1>1, TokensAreRight, PTL

-----------------------------------------------------------------------------
(* The cheapest analysis of an offer.                                      *)

BestBody(enabled, analyses, best, n) ==
  IF n = 0 THEN -1
  ELSE IF EmissionCosts(enabled, analyses[n]) < best[n - 1] \/ best[n - 1] < 0
       THEN EmissionCosts(enabled, analyses[n]) ELSE best[n - 1]

IsBest(enabled, analyses, n, best) ==
  best = [k \in 0 .. n |-> BestBody(enabled, analyses, best, k)]

LEMMA BestExists ==
  ASSUME NEW enabled, NEW analyses, NEW n \in Nat
  PROVE  \E best : IsBest(enabled, analyses, n, best)
  <1> DEFINE without == {k \in Nat : ~\E best : IsBest(enabled, analyses, k, best)}
  <1> SUFFICES ASSUME without # {} PROVE FALSE
    OBVIOUS
  <1>1. PICK least \in without : \A k \in without : least <= k
    <2>1. without \in SUBSET Nat
      OBVIOUS
    <2> HIDE DEF without
    <2> QED BY <2>1, LeastExists
  <1>2. least \in Nat /\ ~\E best : IsBest(enabled, analyses, least, best)
    BY <1>1
  <1>3. least # 0
    <2>1. IsBest(enabled, analyses, 0, [k \in 0 .. 0 |-> -1])
      BY DEF IsBest, BestBody
    <2> QED BY <1>2, <2>1
  <1>4. PICK shorter : IsBest(enabled, analyses, least - 1, shorter)
    <2>1. least - 1 \in Nat /\ least - 1 < least
      BY <1>2, <1>3
    <2>2. least - 1 \notin without
      BY <1>1, <2>1
    <2> QED BY <2>1, <2>2
  <1> DEFINE longer == [k \in 0 .. least |-> BestBody(enabled, analyses, shorter, k)]
  <1>5. ASSUME NEW k \in 0 .. least - 1
        PROVE  longer[k] = shorter[k]
    <2>1. shorter[k] = BestBody(enabled, analyses, shorter, k)
      BY <1>4 DEF IsBest
    <2>2. k \in 0 .. least
      BY <1>2
    <2> QED BY <2>1, <2>2
  <1>6. ASSUME NEW k \in 0 .. least
        PROVE  BestBody(enabled, analyses, shorter, k) = BestBody(enabled, analyses, longer, k)
    <2> HIDE DEF longer
    <2>1. k # 0 => k - 1 \in 0 .. least - 1
      BY <1>2
    <2>2. k # 0 => longer[k - 1] = shorter[k - 1]
      BY <1>5, <2>1
    <2> QED BY <2>2 DEF BestBody
  <1>7. IsBest(enabled, analyses, least, longer)
    BY <1>6 DEF IsBest
  <1> QED BY <1>2, <1>7

IsLeastCost(enabled, analyses, n, cost) ==
  /\ n = 0 => cost = -1
  /\ n # 0 => /\ \E k \in 1 .. n : cost = EmissionCosts(enabled, analyses[k])
              /\ \A k \in 1 .. n : cost <= EmissionCosts(enabled, analyses[k])

AreCosts(enabled, analyses, n) ==
  \A k \in 1 .. n : EmissionCosts(enabled, analyses[k]) \in Nat

LEMMA BestIsLeast ==
  ASSUME NEW enabled, NEW analyses, NEW n \in Nat, NEW best,
         IsBest(enabled, analyses, n, best), AreCosts(enabled, analyses, n)
  PROVE  IsLeastCost(enabled, analyses, n, best[n])
  <1> DEFINE wrong == {k \in Nat : k <= n /\ ~IsLeastCost(enabled, analyses, k, best[k])}
  <1> SUFFICES ASSUME wrong # {} PROVE FALSE
    OBVIOUS
  <1>1. PICK least \in wrong : \A k \in wrong : least <= k
    <2>1. wrong \in SUBSET Nat
      OBVIOUS
    <2> HIDE DEF wrong
    <2> QED BY <2>1, LeastExists
  <1>2. least \in Nat /\ least <= n /\ ~IsLeastCost(enabled, analyses, least, best[least])
    BY <1>1
  <1>3. \A k \in 0 .. n : best[k] = BestBody(enabled, analyses, best, k)
    BY DEF IsBest
  <1>4. least # 0
    <2>1. best[0] = BestBody(enabled, analyses, best, 0)
      BY <1>3
    <2>2. best[0] = -1
      BY <2>1 DEF BestBody
    <2>3. IsLeastCost(enabled, analyses, 0, best[0])
      BY <2>2 DEF IsLeastCost
    <2> QED BY <1>2, <2>3
  <1> DEFINE m == least - 1
             new == EmissionCosts(enabled, analyses[least])
             old == best[m]
  <1>5. /\ m \in Nat /\ m <= n /\ least = m + 1 /\ least \in 0 .. n /\ least \in 1 .. n
        /\ IsLeastCost(enabled, analyses, m, old)
    <2>1. m \in Nat /\ m < least /\ m <= n
      BY <1>2, <1>4
    <2>2. m \notin wrong
      BY <1>1, <1>2, <2>1
    <2> QED BY <1>2, <1>4, <2>1, <2>2
  <1>6. new \in Nat
    BY <1>5 DEF AreCosts
  <1>7. best[least] = IF new < old \/ old < 0 THEN new ELSE old
    <2>1. best[least] = BestBody(enabled, analyses, best, least)
      BY <1>3, <1>5
    <2> QED BY <1>4, <2>1 DEF BestBody
  <1> HIDE DEF m, new, old
  <1>8. CASE m = 0
    <2>1. old = -1 /\ best[least] = new
      BY <1>5, <1>7, <1>8 DEF IsLeastCost
    <2>2. least = 1
      BY <1>5, <1>8
    <2>3. IsLeastCost(enabled, analyses, least, best[least])
      BY <1>6, <2>1, <2>2 DEF IsLeastCost, new
    <2> QED BY <1>2, <2>3
  <1>9. CASE m # 0
    <2>1. PICK j \in 1 .. m : old = EmissionCosts(enabled, analyses[j])
      BY <1>5, <1>9 DEF IsLeastCost
    <2>2. \A k \in 1 .. m : old <= EmissionCosts(enabled, analyses[k])
      BY <1>5, <1>9 DEF IsLeastCost
    <2>3. j \in 1 .. n /\ old \in Nat
      BY <1>5, <2>1 DEF AreCosts
    <2>4. ASSUME NEW k \in 1 .. least
          PROVE  best[least] <= EmissionCosts(enabled, analyses[k])
      <3>1. CASE k = least
        BY <1>6, <1>7, <2>3, <3>1 DEF new
      <3>2. CASE k # least
        <4>1. k \in 1 .. m /\ k \in 1 .. n
          BY <1>5, <3>2
        <4>2. old <= EmissionCosts(enabled, analyses[k])
              /\ EmissionCosts(enabled, analyses[k]) \in Nat
          BY <2>2, <4>1 DEF AreCosts
        <4> QED BY <1>6, <1>7, <2>3, <4>2
      <3> QED BY <3>1, <3>2
    <2>5. \E k \in 1 .. least : best[least] = EmissionCosts(enabled, analyses[k])
      <3>1. j \in 1 .. least /\ least \in 1 .. least
        BY <1>5, <2>1
      <3>2. best[least] = EmissionCosts(enabled, analyses[least])
              \/ best[least] = EmissionCosts(enabled, analyses[j])
        BY <1>7, <2>1 DEF new
      <3> QED BY <3>1, <3>2
    <2>6. IsLeastCost(enabled, analyses, least, best[least])
      BY <1>4, <2>4, <2>5 DEF IsLeastCost
    <2> QED BY <1>2, <2>6
  <1> QED BY <1>8, <1>9

LEMMA BestAnalysisIs ==
  ASSUME NEW id, NEW n \in Nat, n = Len(AnalysesOf(id)),
         AreCosts(enabled_factors, AnalysesOf(id), n)
  PROVE  IsLeastCost(enabled_factors, AnalysesOf(id), n, BestAnalysisCost(id))
  <1> DEFINE best == CHOOSE f : IsBest(enabled_factors, AnalysesOf(id), n, f)
  <1>1. BestAnalysisCost(id) = best[n]
    BY DEF BestAnalysisCost, IsBest, BestBody
  <1>2. IsBest(enabled_factors, AnalysesOf(id), n, best)
    BY BestExists
  <1> HIDE DEF best
  <1>3. IsLeastCost(enabled_factors, AnalysesOf(id), n, best[n])
    BY <1>2, BestIsLeast
  <1> QED BY <1>1, <1>3

(* What was read of the morpholex, for the lexicon that is searched.       *)
MorpholexIs(morpholex) ==
  /\ cm = Collected(morpholex)
  /\ morphology = Readings(BuildMorphology(Collected(morpholex)))
  /\ lexicon.root_id = Len(Vocabulary(morpholex, 0))

MorpholexIsRead ==
  /\ lexicon.root_id \in Nat
  /\ \E morpholex \in Morpholexes : MorpholexIs(morpholex)

IsWord(id) == id \in 0 .. lexicon.root_id - 1

(* The analyses of a form are those that were written.                     *)
AreWritten(analyses, id) ==
  /\ analyses \in Seq(AnalysisRead) /\ WrittenFor(id) # {}
  /\ \A path \in WrittenFor(id) : CostWritten(path) \in Nat
  /\ \A path \in WrittenFor(id) : \E analysis \in Range(analyses) :
       analysis.factors = path /\ EmissionCosts(enabled_factors, analysis) = CostWritten(path)
  /\ \A analysis \in Range(analyses) : \E path \in WrittenFor(id) :
       analysis.factors = path /\ EmissionCosts(enabled_factors, analysis) = CostWritten(path)

PairsAre(read, enabled, analyses, id) ==
  /\ analyses \in Seq(AnalysisRead) /\ Written(read, enabled, id) # {}
  /\ \A path \in Written(read, enabled, id) : WrittenCost(read, enabled, path) \in Nat
  /\ {<<analysis.factors, EmissionCosts(enabled, analysis)>> : analysis \in Range(analyses)}
       = {<<path, WrittenCost(read, enabled, path)>> : path \in Written(read, enabled, id)}

LEMMA PairsAgree ==
  ASSUME NEW id, NEW analyses, PairsAre(cm, enabled_factors, analyses, id)
  PROVE  AreWritten(analyses, id)
  <1> DEFINE costs(analysis) == EmissionCosts(enabled_factors, analysis)
             read == {<<analysis.factors, costs(analysis)>> : analysis \in Range(analyses)}
             written == {<<path, CostWritten(path)>> : path \in WrittenFor(id)}
  <1>1. read = written
    BY DEF PairsAre, CostWritten, WrittenFor
  <1>2. /\ analyses \in Seq(AnalysisRead) /\ WrittenFor(id) # {}
        /\ \A path \in WrittenFor(id) : CostWritten(path) \in Nat
    BY DEF PairsAre, CostWritten, WrittenFor
  <1> HIDE DEF costs
  <1>3. ASSUME NEW path \in WrittenFor(id)
        PROVE  \E analysis \in Range(analyses) :
                 analysis.factors = path /\ costs(analysis) = CostWritten(path)
    <2>1. <<path, CostWritten(path)>> \in read
      BY <1>1
    <2> QED BY <2>1
  <1>4. ASSUME NEW analysis \in Range(analyses)
        PROVE  \E path \in WrittenFor(id) :
                 analysis.factors = path /\ costs(analysis) = CostWritten(path)
    <2>1. <<analysis.factors, costs(analysis)>> \in written
      BY <1>1
    <2> QED BY <2>1
  <1> QED BY <1>2, <1>3, <1>4, Zenon DEF AreWritten, costs

LEMMA AnalysesAreWritten ==
  ASSUME MorphologyIsRead, MorpholexIsRead, enabled_factors \in EnabledFactors
  PROVE  /\ \A id : IsWord(id) => AreWritten(AnalysesOf(id), id)
         /\ IsWord(unknown_word_id) /\ Len(AnalysesOf(unknown_word_id)) = 1
         /\ AnalysesOf(NONE) = <<>>
  <1>1. PICK morpholex \in Morpholexes : MorpholexIs(morpholex)
    BY DEF MorpholexIsRead
  <1>2. PICK enabled \in EnabledFactors : enabled = enabled_factors
    OBVIOUS
  <1> DEFINE read == Collected(morpholex)
             model == BuildMorphology(read)
             forms == 0 .. Len(Vocabulary(morpholex, 0)) - 1
             analyses(id) == GetMorphology(model, enabled, id)
  <1>3. /\ model.form_offsets.num_values = Len(Vocabulary(morpholex, 0))
        /\ unknown_word_id \in forms /\ Len(analyses(unknown_word_id)) = 1
        /\ \A id \in forms : PairsAre(read, enabled, analyses(id), id)
    BY Zenon DEF MorphologyIsRead, PairsAre
  <1>4. \A id : IsWord(id) <=> id \in forms
    BY <1>1 DEF MorpholexIs, IsWord
  <1>5. /\ cm = read /\ morphology = Readings(model)
        /\ model.form_offsets.num_values = lexicon.root_id /\ lexicon.root_id \in Nat
    BY <1>1, <1>3 DEF MorpholexIs, MorpholexIsRead
  <1> HIDE DEF read, model, forms
  <1>6. ASSUME NEW id \in NONE .. lexicon.root_id - 1
        PROVE  AnalysesOf(id) = analyses(id)
    <2>1. Readings(model)[enabled] =
            [i \in NONE .. model.form_offsets.num_values - 1 |-> GetMorphology(model, enabled, i)]
      BY DEF Readings
    <2>2. AnalysesOf(id) = Readings(model)[enabled][id]
      BY <1>2, <1>5 DEF AnalysesOf
    <2> QED BY <1>5, <2>1, <2>2
  <1>7. /\ NONE \in NONE .. lexicon.root_id - 1
        /\ \A id : IsWord(id) => id \in NONE .. lexicon.root_id - 1
    BY <1>5 DEF NONE, IsWord
  <1>8. analyses(NONE) = <<>>
    <2>1. NONE \notin 0 .. model.form_offsets.num_values - 1
      BY <1>5 DEF NONE
    <2> QED BY <2>1 DEF GetMorphology
  <1>9. AnalysesOf(NONE) = <<>>
    BY <1>6, <1>7, <1>8
  <1>10. ASSUME NEW id, IsWord(id)
         PROVE  AreWritten(AnalysesOf(id), id)
    <2>1. PairsAre(read, enabled, analyses(id), id)
      BY <1>3, <1>4, <1>10
    <2>2. AnalysesOf(id) = analyses(id)
      BY <1>6, <1>7, <1>10
    <2> HIDE DEF analyses
    <2>3. PairsAre(cm, enabled_factors, AnalysesOf(id), id)
      BY <1>2, <1>5, <2>1, <2>2
    <2> QED BY <2>3, PairsAgree
  <1>11. Len(AnalysesOf(unknown_word_id)) = 1
    BY <1>3, <1>4, <1>6, <1>7
  <1> QED BY <1>3, <1>4, <1>9, <1>10, <1>11

-----------------------------------------------------------------------------
(* What the loops see of the offers.                                       *)

OffersAreKnown ==
  \A id \in DOMAIN swm : /\ IsWord(id) \/ id = NONE
                         /\ swm[id].cost \in Nat

LEMMA LeastWritten ==
  ASSUME MorphologyIsRead, MorpholexIsRead, enabled_factors \in EnabledFactors,
         NEW id, IsWord(id)
  PROVE  /\ BestAnalysisCost(id) \in Nat
         /\ BestAnalysisCost(id) = Min({CostWritten(path) : path \in WrittenFor(id)})
  <1> DEFINE best == BestAnalysisCost(id)
             analyses == AnalysesOf(id)
             n == Len(analyses)
             costs == {CostWritten(path) : path \in WrittenFor(id)}
  <1>1. AreWritten(analyses, id)
    BY AnalysesAreWritten
  <1>2. n \in Nat /\ DOMAIN analyses = 1 .. n
    BY <1>1, LenProperties DEF AreWritten
  <1>3. \A k \in 1 .. n : EmissionCosts(enabled_factors, analyses[k]) \in costs
    <2>1. ASSUME NEW k \in 1 .. n PROVE EmissionCosts(enabled_factors, analyses[k]) \in costs
      <3>1. analyses[k] \in Range(analyses)
        BY <1>2 DEF Range
      <3> QED BY <1>1, <3>1 DEF AreWritten
    <2> QED BY <2>1
  <1>4. costs \subseteq Nat
    BY <1>1 DEF AreWritten
  <1>5. AreCosts(enabled_factors, analyses, n)
    BY <1>3, <1>4 DEF AreCosts
  <1>6. IsLeastCost(enabled_factors, analyses, n, best)
    BY <1>2, <1>5, BestAnalysisIs
  <1>7. \A cost \in costs : \E k \in 1 .. n :
          cost = EmissionCosts(enabled_factors, analyses[k])
    <2>1. ASSUME NEW path \in WrittenFor(id)
          PROVE  \E k \in 1 .. n : CostWritten(path) = EmissionCosts(enabled_factors, analyses[k])
      <3>1. PICK analysis \in Range(analyses) :
              EmissionCosts(enabled_factors, analysis) = CostWritten(path)
        BY <1>1 DEF AreWritten
      <3> QED BY <1>2, <3>1 DEF Range
    <2> QED BY <2>1
  <1>8. costs # {}
    BY <1>1 DEF AreWritten
  <1> HIDE DEF best, analyses, n, costs
  <1>9. n # 0
    BY <1>7, <1>8
  <1>10. best \in costs /\ \A cost \in costs : best <= cost
    BY <1>3, <1>6, <1>7, <1>9 DEF IsLeastCost
  <1>11. Min(costs) \in costs /\ \A cost \in costs : Min(costs) <= cost
    BY <1>10 DEF Min
  <1> DEFINE least == Min(costs)
  <1>12. /\ least \in costs /\ least \in Nat /\ best \in Nat
         /\ least <= best /\ best <= least
    BY <1>4, <1>10, <1>11
  <1> HIDE DEF least
  <1>13. best = least /\ best \in Nat
    BY <1>12
  <1> QED BY <1>13 DEF best, costs, least

Ranked(id) == [id |-> id, cost |-> CostOf(id), correction |-> swm[id].spelling]

LEMMA RankedFacts ==
  ASSUME MorphologyIsRead, MorpholexIsRead, enabled_factors \in EnabledFactors, OffersAreKnown
  PROVE  /\ \A id \in Analysed : HasAnalysis(id) /\ CostOf(id) \in Nat /\ Heaped(id) = Ranked(id)
         /\ ~HasAnalysis(NONE)
         /\ IsFiniteSet(Analysed) /\ Cardinality(Analysed) \in Nat
  <1>1. ASSUME NEW id \in Analysed
        PROVE  HasAnalysis(id) /\ CostOf(id) \in Nat /\ Heaped(id) = Ranked(id)
    <2>1. IsWord(id) /\ swm[id].cost \in Nat
      BY DEF OffersAreKnown, Analysed
    <2>2. /\ BestAnalysisCost(id) \in Nat
          /\ BestAnalysisCost(id) = Min({CostWritten(path) : path \in WrittenFor(id)})
      BY <2>1, LeastWritten
    <2>3. CostOf(id) = swm[id].cost + BestAnalysisCost(id)
      BY <2>2 DEF CostOf
    <2>4. CostOf(id) \in Nat
      BY <2>1, <2>2, <2>3
    <2>5. HasAnalysis(id)
      BY <2>2 DEF HasAnalysis
    <2> QED BY <2>3, <2>4, <2>5 DEF Heaped, Ranked
  <1>2. ~HasAnalysis(NONE)
    <2>1. AnalysesOf(NONE) = <<>>
      BY AnalysesAreWritten
    <2>2. 0 = Len(AnalysesOf(NONE))
      BY <2>1
    <2>3. AreCosts(enabled_factors, AnalysesOf(NONE), 0)
      BY DEF AreCosts
    <2>4. BestAnalysisCost(NONE) = -1
      BY <2>2, <2>3, BestAnalysisIs DEF IsLeastCost
    <2> QED BY <2>4 DEF HasAnalysis
  <1>3. IsFiniteSet(Analysed) /\ Cardinality(Analysed) \in Nat
    <2>1. Analysed \subseteq 0 .. lexicon.root_id - 1
      BY DEF OffersAreKnown, Analysed, IsWord
    <2>2. IsFiniteSet(0 .. lexicon.root_id - 1)
      <3>1. lexicon.root_id - 1 \in Int
        BY DEF MorpholexIsRead
      <3> QED BY <3>1, FS_Interval
    <2> QED BY <2>1, <2>2, FS_Subset, FS_CardinalityType
  <1> QED BY <1>1, <1>2, <1>3

-----------------------------------------------------------------------------
(* The ranking: forms with their costs and spellings, of which the best    *)
(* ones, at most limit, are kept, and then ordered from the worst one.     *)

IsRanking(g) ==
  /\ IsFiniteSet(g.forms) /\ g.cost \in [g.forms -> Nat]
  /\ g.limit \in Nat \ {0}

OfferIn(g, id) == [id |-> id, cost |-> g.cost[id], correction |-> g.spelled[id]]
HeapOf(g, K) == {OfferIn(g, id) : id \in K}

(* What the loop keeps of the forms that it has seen.                      *)
KeptIn(g, seen, K) ==
  /\ seen \subseteq g.forms /\ K \subseteq seen /\ Cardinality(K) <= g.limit
  /\ \A id \in seen \ K :
       /\ Cardinality(K) = g.limit
       /\ \A kept \in K : g.cost[kept] <= g.cost[id]

IsWorst(g, K, top) == top \in K /\ \A kept \in K : g.cost[kept] <= g.cost[top]

LEMMA KeptIsFinite ==
  ASSUME NEW g, IsRanking(g), NEW K \in SUBSET g.forms
  PROVE  IsFiniteSet(K) /\ Cardinality(K) \in Nat /\ Cardinality(K) <= Cardinality(g.forms)
  <1>1. IsFiniteSet(K) /\ Cardinality(K) <= Cardinality(g.forms)
    BY FS_Subset DEF IsRanking
  <1> QED BY <1>1, FS_CardinalityType

LEMMA HeapCounts ==
  ASSUME NEW g, IsRanking(g), NEW K \in SUBSET g.forms
  PROVE  Cardinality(HeapOf(g, K)) = Cardinality(K)
  <1> DEFINE f == [id \in K |-> OfferIn(g, id)]
             heap == HeapOf(g, K)
  <1>1. f \in [K -> heap]
    BY DEF HeapOf
  <1>2. ASSUME NEW x \in K, NEW y \in K, f[x] = f[y] PROVE x = y
    <2>1. OfferIn(g, x).id = OfferIn(g, y).id
      BY <1>2
    <2> QED BY <2>1 DEF OfferIn
  <1>3. \A offer \in heap : \E x \in K : f[x] = offer
    BY DEF HeapOf
  <1> HIDE DEF f, heap
  <1>4. f \in Bijection(K, heap)
    <2>1. f \in Injection(K, heap)
      BY <1>1, <1>2 DEF Injection, IsInjective
    <2>2. f \in Surjection(K, heap)
      BY <1>1, <1>3 DEF Surjection
    <2> QED BY <2>1, <2>2 DEF Bijection
  <1>5. ExistsBijection(K, heap)
    BY <1>4 DEF ExistsBijection
  <1>6. Cardinality(heap) = Cardinality(K)
    BY <1>5, KeptIsFinite, FS_Bijection
  <1> QED BY <1>6 DEF heap

LEMMA WorstIsTop ==
  ASSUME NEW g, IsRanking(g), NEW K \in SUBSET g.forms, corrections = HeapOf(g, K),
         NEW top \in Tops
  PROVE  \E worst : IsWorst(g, K, worst) /\ top = OfferIn(g, worst)
  <1>1. top \in HeapOf(g, K) /\ \A y \in HeapOf(g, K) : y.cost <= top.cost
    BY DEF Tops
  <1>2. PICK worst \in K : top = OfferIn(g, worst)
    BY <1>1 DEF HeapOf
  <1>3. ASSUME NEW kept \in K PROVE g.cost[kept] <= g.cost[worst]
    <2>1. OfferIn(g, kept) \in HeapOf(g, K)
      BY DEF HeapOf
    <2>2. OfferIn(g, kept).cost <= OfferIn(g, worst).cost
      BY <1>1, <1>2, <2>1
    <2> QED BY <2>2 DEF OfferIn
  <1> QED BY <1>2, <1>3 DEF IsWorst

LEMMA HeapWithout ==
  ASSUME NEW g, NEW K, NEW top \in K
  PROVE  HeapOf(g, K) \ {OfferIn(g, top)} = HeapOf(g, K \ {top})
  <1>1. ASSUME NEW x \in K, OfferIn(g, x) = OfferIn(g, top) PROVE x = top
    <2>1. OfferIn(g, x).id = OfferIn(g, top).id
      BY <1>1
    <2> QED BY <2>1 DEF OfferIn
  <1> QED BY <1>1 DEF HeapOf

LEMMA HeapWith ==
  ASSUME NEW g, NEW K, NEW new
  PROVE  HeapOf(g, K) \union {OfferIn(g, new)} = HeapOf(g, K \union {new})
  BY DEF HeapOf

LEMMA KeptPasses ==
  ASSUME NEW g, IsRanking(g), NEW seen, NEW K, KeptIn(g, seen, K), NEW new \in g.forms,
         Cardinality(K) = g.limit, NEW worst, IsWorst(g, K, worst),
         g.cost[worst] <= g.cost[new]
  PROVE  KeptIn(g, seen \union {new}, K)
  <1>1. ASSUME NEW kept \in K PROVE g.cost[kept] <= g.cost[new]
    <2>1. /\ g.cost[kept] \in Nat /\ g.cost[worst] \in Nat /\ g.cost[new] \in Nat
          /\ g.cost[kept] <= g.cost[worst]
      BY DEF IsRanking, IsWorst, KeptIn
    <2> QED BY <2>1
  <1> QED BY <1>1 DEF KeptIn

LEMMA KeptGrows ==
  ASSUME NEW g, IsRanking(g), NEW seen, NEW K, KeptIn(g, seen, K), NEW new \in g.forms,
         new \notin seen, Cardinality(K) # g.limit
  PROVE  KeptIn(g, seen \union {new}, K \union {new})
  <1>1. K \in SUBSET g.forms /\ new \notin K
    BY DEF KeptIn
  <1>2. Cardinality(K) \in Nat /\ Cardinality(K \union {new}) = Cardinality(K) + 1
    BY <1>1, KeptIsFinite, FS_AddElement
  <1>3. Cardinality(K \union {new}) <= g.limit
    BY <1>2 DEF KeptIn, IsRanking
  <1>4. (seen \union {new}) \ (K \union {new}) = {}
    BY DEF KeptIn
  <1> QED BY <1>3, <1>4 DEF KeptIn

LEMMA KeptSwaps ==
  ASSUME NEW g, IsRanking(g), NEW seen, NEW K, KeptIn(g, seen, K), NEW new \in g.forms,
         new \notin seen, Cardinality(K) = g.limit, NEW worst, IsWorst(g, K, worst),
         g.cost[new] < g.cost[worst]
  PROVE  KeptIn(g, seen \union {new}, (K \ {worst}) \union {new})
  <1> DEFINE L == (K \ {worst}) \union {new}
  <1>1. K \in SUBSET g.forms /\ new \notin K /\ worst \in K
    BY DEF KeptIn, IsWorst
  <1>2. Cardinality(L) = Cardinality(K)
    <2>1. IsFiniteSet(K) /\ Cardinality(K) \in Nat
      BY <1>1, KeptIsFinite
    <2>2. IsFiniteSet(K \ {worst}) /\ Cardinality(K \ {worst}) = Cardinality(K) - 1
      BY <1>1, <2>1, FS_RemoveElement
    <2>3. Cardinality(L) = Cardinality(K \ {worst}) + 1
      BY <1>1, <2>2, FS_AddElement
    <2> QED BY <2>1, <2>2, <2>3
  <1>3. ASSUME NEW id \in g.forms PROVE g.cost[id] \in Nat
    BY DEF IsRanking
  <1>4. \A kept \in L : g.cost[kept] <= g.cost[worst] /\ kept \in g.forms
    BY <1>1, <1>3 DEF IsWorst
  <1>5. ASSUME NEW id \in (seen \union {new}) \ L
        PROVE  id \in g.forms /\ g.cost[worst] <= g.cost[id]
    <2>1. id = worst \/ id \in seen \ K
      OBVIOUS
    <2> QED BY <1>1, <1>3, <2>1 DEF KeptIn
  <1>6. \A id \in (seen \union {new}) \ L : \A kept \in L : g.cost[kept] <= g.cost[id]
    <2>1. ASSUME NEW id \in (seen \union {new}) \ L, NEW kept \in L
          PROVE  g.cost[kept] <= g.cost[id]
      <3>1. /\ g.cost[kept] <= g.cost[worst] /\ g.cost[worst] <= g.cost[id]
            /\ g.cost[kept] \in Nat /\ g.cost[worst] \in Nat /\ g.cost[id] \in Nat
        BY <1>1, <1>3, <1>4, <1>5
      <3> QED BY <3>1
    <2> QED BY <2>1
  <1>7. seen \union {new} \subseteq g.forms /\ L \subseteq seen \union {new}
    BY DEF KeptIn
  <1> HIDE DEF L
  <1>8. KeptIn(g, seen \union {new}, L)
    BY <1>2, <1>6, <1>7 DEF KeptIn
  <1> QED BY <1>8 DEF L

Number(g) == IF g.limit <= Cardinality(g.forms) THEN g.limit ELSE Cardinality(g.forms)

(* The forms of ids are taken from the heap, from the worst; K are left.   *)
AreTaken(g, ids) ==
  /\ ids \in Seq(g.forms)
  /\ \A j, k \in 1 .. Len(ids) :
       /\ j # k => ids[j] # ids[k]
       /\ j < k => g.cost[ids[j]] <= g.cost[ids[k]]

AreOthersWorse(g, K, ids) ==
  /\ \A k \in 1 .. Len(ids) :
       /\ ids[k] \notin K
       /\ \A kept \in K : g.cost[kept] <= g.cost[ids[k]]
  /\ \A id \in g.forms \ K :
       (\A k \in 1 .. Len(ids) : ids[k] # id) =>
         /\ \A kept \in K : g.cost[kept] <= g.cost[id]
         /\ \A k \in 1 .. Len(ids) : g.cost[ids[k]] <= g.cost[id]

TakenFrom(g, K, ids) ==
  /\ K \subseteq g.forms /\ K # {}
  /\ AreTaken(g, ids) /\ AreOthersWorse(g, K, ids)
  /\ Cardinality(K) + Len(ids) = Number(g)

SpelledIn(g, ids) == [k \in 1 .. Len(ids) |-> g.spelled[ids[k]]]

LEMMA TakingBegins ==
  ASSUME NEW g, IsRanking(g), NEW K, KeptIn(g, g.forms, K), K # {}
  PROVE  TakenFrom(g, K, <<>>)
  <1>1. /\ <<>> \in Seq(g.forms) /\ Len(<<>>) = 0
        /\ \A k \in 1 .. Len(<<>>) : FALSE
    OBVIOUS
  <1>2. AreTaken(g, <<>>)
    BY <1>1 DEF AreTaken
  <1>3. AreOthersWorse(g, K, <<>>)
    BY <1>1 DEF AreOthersWorse, KeptIn
  <1>4. K \in SUBSET g.forms
    BY DEF KeptIn
  <1>5. /\ Cardinality(K) \in Nat /\ Cardinality(K) <= Cardinality(g.forms)
        /\ g.limit \in Nat /\ Cardinality(K) <= g.limit
        /\ Cardinality(g.forms) \in Nat
    BY <1>4, KeptIsFinite, FS_CardinalityType DEF IsRanking, KeptIn
  <1>6. Cardinality(K) = Number(g)
    <2>1. CASE g.forms \ K = {}
      <3>1. K = g.forms
        BY <1>4, <2>1
      <3> QED BY <1>5, <3>1 DEF Number
    <2>2. CASE g.forms \ K # {}
      <3>1. Cardinality(K) = g.limit
        BY <2>2 DEF KeptIn
      <3> QED BY <1>5, <3>1 DEF Number
    <2> QED BY <2>1, <2>2
  <1> QED BY <1>1, <1>2, <1>3, <1>4, <1>5, <1>6 DEF TakenFrom

IsPrepended(S, longer, x, s) ==
  /\ longer \in Seq(S) /\ Len(longer) = Len(s) + 1 /\ Len(s) \in Nat
  /\ longer[1] = x
  /\ \A k \in 1 .. Len(s) + 1 : k # 1 =>
       (k - 1) \in 1 .. Len(s) /\ longer[k] = s[k - 1]

LEMMA Prepended ==
  ASSUME NEW S, NEW x \in S, NEW s \in Seq(S)
  PROVE  IsPrepended(S, <<x>> \o s, x, s)
  <1>1. <<x>> \in Seq(S) /\ Len(<<x>>) = 1 /\ <<x>>[1] = x /\ Len(s) \in Nat
    BY LenProperties
  <1>2. /\ <<x>> \o s \in Seq(S) /\ Len(<<x>> \o s) = Len(<<x>>) + Len(s)
        /\ \A k \in 1 .. Len(<<x>>) + Len(s) : (<<x>> \o s)[k] =
              IF k <= Len(<<x>>) THEN <<x>>[k] ELSE s[k - Len(<<x>>)]
    BY <1>1, ConcatProperties
  <1> DEFINE longer == <<x>> \o s
             one == <<x>>
  <1> HIDE DEF longer, one
  <1>3. /\ Len(longer) = Len(s) + 1
        /\ \A k \in 1 .. Len(s) + 1 : longer[k] = IF k <= 1 THEN x ELSE s[k - 1]
    <2>1. ASSUME NEW k \in 1 .. Len(s) + 1
          PROVE  longer[k] = IF k <= 1 THEN x ELSE s[k - 1]
      <3>1. k \in 1 .. 1 + Len(s)
        BY <1>1
      <3>2. longer[k] = IF k <= 1 THEN one[k] ELSE s[k - 1]
        BY <1>1, <1>2, <3>1 DEF longer, one
      <3>3. k <= 1 => k = 1
        BY <1>1
      <3> QED BY <1>1, <3>2, <3>3 DEF one
    <2>2. Len(longer) = Len(s) + 1
      BY <1>1, <1>2 DEF longer
    <2> QED BY <2>1, <2>2
  <1>4. /\ longer[1] = x
        /\ \A k \in 1 .. Len(s) + 1 : k # 1 => (k - 1) \in 1 .. Len(s) /\ longer[k] = s[k - 1]
    BY <1>1, <1>3
  <1>5. longer \in Seq(S)
    BY <1>2 DEF longer
  <1>6. IsPrepended(S, longer, x, s)
    BY <1>1, <1>3, <1>4, <1>5 DEF IsPrepended
  <1> QED BY <1>6 DEF longer

LEMMA SpelledPrepended ==
  ASSUME NEW g, NEW top \in g.forms, NEW ids \in Seq(g.forms)
  PROVE  <<g.spelled[top]>> \o SpelledIn(g, ids) = SpelledIn(g, <<top>> \o ids)
  <1> DEFINE T == {g.spelled[id] : id \in g.forms}
             longer == <<top>> \o ids
             s == SpelledIn(g, ids)
             x == g.spelled[top]
  <1>1. /\ longer \in Seq(g.forms) /\ Len(longer) = Len(ids) + 1 /\ Len(ids) \in Nat
        /\ longer[1] = top
        /\ \A k \in 1 .. Len(ids) + 1 : k # 1 =>
              (k - 1) \in 1 .. Len(ids) /\ longer[k] = ids[k - 1]
    <2>1. IsPrepended(g.forms, longer, top, ids)
      BY Prepended
    <2> HIDE DEF longer
    <2> QED BY <2>1 DEF IsPrepended
  <1>2. s \in Seq(T) /\ Len(s) = Len(ids)
    <2>1. \A k \in 1 .. Len(ids) : ids[k] \in g.forms
      BY ElementOfSeq
    <2>2. s \in [1 .. Len(ids) -> T]
      BY <2>1 DEF SpelledIn
    <2> HIDE DEF s, T
    <2> QED BY <1>1, <2>2
  <1>3. SpelledIn(g, longer) \in Seq(T) /\ Len(SpelledIn(g, longer)) = Len(ids) + 1
    <2>1. \A k \in 1 .. Len(longer) : longer[k] \in g.forms
      BY <1>1, ElementOfSeq
    <2>2. SpelledIn(g, longer) \in [1 .. Len(ids) + 1 -> T]
      <3> HIDE DEF longer
      <3> QED BY <1>1, <2>1 DEF SpelledIn
    <2> HIDE DEF longer, T
    <2> QED BY <1>1, <2>2
  <1>4. x \in T
    OBVIOUS
  <1> HIDE DEF T, longer, x
  <1>5. /\ <<x>> \o s \in Seq(T) /\ Len(<<x>> \o s) = Len(ids) + 1
        /\ (<<x>> \o s)[1] = x
        /\ \A k \in 1 .. Len(ids) + 1 : k # 1 =>
              (k - 1) \in 1 .. Len(ids) /\ (<<x>> \o s)[k] = s[k - 1]
    <2> HIDE DEF s
    <2>1. IsPrepended(T, <<x>> \o s, x, s)
      BY <1>2, <1>4, Prepended
    <2> DEFINE u == <<x>> \o s
    <2>2. IsPrepended(T, u, x, s)
      BY <2>1
    <2> HIDE DEF u
    <2>3. /\ u \in Seq(T) /\ Len(u) = Len(ids) + 1 /\ u[1] = x
          /\ \A k \in 1 .. Len(ids) + 1 : k # 1 =>
                (k - 1) \in 1 .. Len(ids) /\ u[k] = s[k - 1]
      BY <1>2, <2>2 DEF IsPrepended
    <2> QED BY <2>3 DEF u
  <1>6. ASSUME NEW k \in 1 .. Len(ids) + 1
        PROVE  (<<x>> \o s)[k] = SpelledIn(g, longer)[k]
    <2>1. SpelledIn(g, longer)[k] = g.spelled[longer[k]]
      BY <1>1 DEF SpelledIn
    <2>2. CASE k = 1
      BY <1>1, <1>5, <2>1, <2>2 DEF x
    <2>3. CASE k # 1
      <3>1. (k - 1) \in 1 .. Len(ids) /\ longer[k] = ids[k - 1]
        BY <1>1, <2>3
      <3>2. (<<x>> \o s)[k] = s[k - 1]
        BY <1>5, <2>3
      <3>3. s[k - 1] = g.spelled[ids[k - 1]]
        BY <3>1 DEF SpelledIn
      <3> QED BY <2>1, <3>1, <3>2, <3>3
    <2> QED BY <2>2, <2>3
  <1> HIDE DEF s
  <1>7. <<x>> \o s = SpelledIn(g, longer)
    BY <1>3, <1>5, <1>6, SeqEqual
  <1> QED BY <1>7 DEF x, s, longer

LEMMA WorstIsTaken ==
  ASSUME NEW g, IsRanking(g), NEW K, NEW ids, TakenFrom(g, K, ids),
         NEW worst, IsWorst(g, K, worst)
  PROVE  /\ AreTaken(g, <<worst>> \o ids)
         /\ AreOthersWorse(g, K \ {worst}, <<worst>> \o ids)
         /\ Cardinality(K \ {worst}) + Len(<<worst>> \o ids) = Number(g)
         /\ Cardinality(K \ {worst}) = Cardinality(K) - 1
         /\ Cardinality(K) \in Nat
  <1> DEFINE longer == <<worst>> \o ids
             L == K \ {worst}
             n == Len(ids)
  <1>1. /\ worst \in K /\ worst \in g.forms /\ K \in SUBSET g.forms
        /\ ids \in Seq(g.forms)
        /\ \A kept \in K : g.cost[kept] <= g.cost[worst]
    BY DEF TakenFrom, AreTaken, IsWorst
  <1>2. IsPrepended(g.forms, longer, worst, ids)
    BY <1>1, Prepended
  <1> HIDE DEF longer
  <1>3. /\ longer \in Seq(g.forms) /\ Len(longer) = n + 1 /\ n \in Nat
        /\ longer[1] = worst
        /\ \A k \in 1 .. n + 1 : k # 1 =>
             (k - 1) \in 1 .. n /\ longer[k] = ids[k - 1]
    BY <1>2 DEF IsPrepended
  <1>4. ASSUME NEW k \in 1 .. n PROVE k + 1 \in 1 .. Len(longer) /\ longer[k + 1] = ids[k]
    <2>1. k + 1 \in 1 .. n + 1 /\ k + 1 # 1 /\ (k + 1) - 1 = k
      BY <1>3
    <2> QED BY <1>3, <2>1
  <1>5. ASSUME NEW j \in 1 .. Len(longer), NEW k \in 1 .. Len(longer)
        PROVE  /\ j # k => longer[j] # longer[k]
               /\ j < k => g.cost[longer[j]] <= g.cost[longer[k]]
    <2>1. j \in 1 .. n + 1 /\ k \in 1 .. n + 1
      BY <1>3
    <2>2. \A i \in 1 .. n : /\ ids[i] \notin K
                            /\ g.cost[worst] <= g.cost[ids[i]]
      BY <1>1 DEF TakenFrom, AreOthersWorse
    <2>3. CASE j = 1 /\ k # 1
      BY <1>1, <1>3, <2>1, <2>2, <2>3
    <2>4. CASE j # 1 /\ k = 1
      <3>1. ~(j < k)
        BY <2>1, <2>4
      <3> QED BY <1>1, <1>3, <2>1, <2>2, <2>4, <3>1
    <2>5. CASE j # 1 /\ k # 1
      <3>1. /\ (j - 1) \in 1 .. n /\ longer[j] = ids[j - 1]
            /\ (k - 1) \in 1 .. n /\ longer[k] = ids[k - 1]
        BY <1>3, <2>1, <2>5
      <3>2. /\ j - 1 # k - 1 => ids[j - 1] # ids[k - 1]
            /\ j - 1 < k - 1 => g.cost[ids[j - 1]] <= g.cost[ids[k - 1]]
        BY <3>1 DEF TakenFrom, AreTaken
      <3>3. (j # k => j - 1 # k - 1) /\ (j < k => j - 1 < k - 1)
        BY <2>1
      <3> QED BY <3>1, <3>2, <3>3
    <2>6. CASE j = 1 /\ k = 1
      BY <2>6
    <2> QED BY <2>3, <2>4, <2>5, <2>6
  <1>6. AreTaken(g, longer)
    BY <1>3, <1>5 DEF AreTaken
  <1>7. ASSUME NEW k \in 1 .. Len(longer)
        PROVE  /\ longer[k] \notin L
               /\ \A kept \in L : g.cost[kept] <= g.cost[longer[k]]
    <2>1. CASE k = 1
      BY <1>1, <1>3, <2>1
    <2>2. CASE k # 1
      <3>1. (k - 1) \in 1 .. n /\ longer[k] = ids[k - 1]
        BY <1>3, <2>2
      <3> QED BY <3>1 DEF TakenFrom, AreOthersWorse
    <2> QED BY <2>1, <2>2
  <1>8. ASSUME NEW id \in g.forms \ L, \A k \in 1 .. Len(longer) : longer[k] # id
        PROVE  /\ \A kept \in L : g.cost[kept] <= g.cost[id]
               /\ \A k \in 1 .. Len(longer) : g.cost[longer[k]] <= g.cost[id]
    <2>1. id # worst
      <3>1. 1 \in 1 .. Len(longer)
        BY <1>3
      <3> QED BY <1>3, <1>8, <3>1
    <2>2. id \in g.forms \ K
      BY <2>1
    <2>3. \A k \in 1 .. n : ids[k] # id
      BY <1>4, <1>8
    <2>4. /\ \A kept \in K : g.cost[kept] <= g.cost[id]
          /\ \A k \in 1 .. n : g.cost[ids[k]] <= g.cost[id]
      BY <2>2, <2>3 DEF TakenFrom, AreOthersWorse
    <2>5. ASSUME NEW k \in 1 .. Len(longer) PROVE g.cost[longer[k]] <= g.cost[id]
      <3>1. CASE k = 1
        BY <1>1, <1>3, <2>4, <3>1
      <3>2. CASE k # 1
        BY <1>3, <2>4, <3>2
      <3> QED BY <3>1, <3>2
    <2> QED BY <2>4, <2>5
  <1>9. AreOthersWorse(g, L, longer)
    BY <1>7, <1>8 DEF AreOthersWorse
  <1>10. IsFiniteSet(K) /\ Cardinality(K) \in Nat
    BY <1>1, KeptIsFinite
  <1>11. Cardinality(L) = Cardinality(K) - 1
    BY <1>1, <1>10, FS_RemoveElement
  <1>12. Cardinality(K) + n = Number(g)
    BY DEF TakenFrom
  <1>13. Cardinality(L) + Len(longer) = Number(g)
    BY <1>3, <1>10, <1>11, <1>12
  <1> QED BY <1>6, <1>9, <1>10, <1>11, <1>13 DEF longer

LEMMA TakingGoesOn ==
  ASSUME NEW g, IsRanking(g), NEW K, NEW ids, TakenFrom(g, K, ids), Cardinality(K) > 1,
         NEW worst, IsWorst(g, K, worst)
  PROVE  TakenFrom(g, K \ {worst}, <<worst>> \o ids)
  <1>1. /\ AreTaken(g, <<worst>> \o ids)
        /\ AreOthersWorse(g, K \ {worst}, <<worst>> \o ids)
        /\ Cardinality(K \ {worst}) + Len(<<worst>> \o ids) = Number(g)
        /\ Cardinality(K \ {worst}) = Cardinality(K) - 1
        /\ Cardinality(K) \in Nat
    BY WorstIsTaken
  <1>2. K \ {worst} # {}
    <2>1. Cardinality(K \ {worst}) # 0
      BY <1>1
    <2>2. Cardinality({}) = 0
      BY FS_EmptySet
    <2> QED BY <2>1, <2>2
  <1> QED BY <1>1, <1>2 DEF TakenFrom

(* What is there in the end: the best forms, from the best one.            *)
AreBest(g, ids) ==
  /\ AreTaken(g, ids) /\ Len(ids) = Number(g)
  /\ \A id \in g.forms : (\A k \in 1 .. Len(ids) : ids[k] # id) =>
       \A k \in 1 .. Len(ids) : g.cost[ids[k]] <= g.cost[id]

LEMMA TakingEnds ==
  ASSUME NEW g, IsRanking(g), NEW K, NEW ids, TakenFrom(g, K, ids), Cardinality(K) = 1,
         NEW worst, IsWorst(g, K, worst)
  PROVE  AreBest(g, <<worst>> \o ids)
  <1> DEFINE longer == <<worst>> \o ids
  <1>1. /\ AreTaken(g, longer)
        /\ AreOthersWorse(g, K \ {worst}, longer)
        /\ Cardinality(K \ {worst}) + Len(longer) = Number(g)
        /\ Cardinality(K \ {worst}) = Cardinality(K) - 1
    BY WorstIsTaken
  <1> HIDE DEF longer
  <1>2. K \ {worst} = {}
    <2>1. K \in SUBSET g.forms
      BY DEF TakenFrom
    <2>2. IsFiniteSet(K)
      BY <2>1, KeptIsFinite
    <2>3. IsFiniteSet(K \ {worst}) /\ Cardinality(K \ {worst}) = 0
      BY <1>1, <2>2, FS_RemoveElement
    <2> QED BY <2>3, FS_EmptySet
  <1>3. Len(longer) = Number(g)
    <2>1. Len(longer) \in Nat
      BY <1>1, LenProperties DEF AreTaken
    <2> QED BY <1>1, <2>1
  <1>4. \A id \in g.forms : (\A k \in 1 .. Len(longer) : longer[k] # id) =>
          \A k \in 1 .. Len(longer) : g.cost[longer[k]] <= g.cost[id]
    BY <1>1, <1>2 DEF AreOthersWorse
  <1> QED BY <1>1, <1>3, <1>4 DEF AreBest, longer

-----------------------------------------------------------------------------
(* The ranking of the offers of the token.                                 *)

RankingNow ==
  [forms |-> Analysed, cost |-> [id \in Analysed |-> CostOf(id)],
   spelled |-> [id \in Analysed |-> swm[id].spelling], limit |-> alternatives + 1]

(* What holds from the end of the search on.                               *)
OffersAreReady ==
  /\ phase = "done" /\ OffersAreKnown
  /\ enabled_factors \in EnabledFactors

(* The offers of both maps are words of the lexicon, or none.              *)
AreKnown(map) ==
  \A id \in DOMAIN map : (IsWord(id) \/ id = NONE) /\ map[id].cost \in Nat

LoopIsRight ==
  /\ similar_words \subseteq DOMAIN swm /\ alternatives \in Nat
  /\ \E g : /\ g = RankingNow
            /\ \E K : /\ corrections = HeapOf(g, K)
                      /\ KeptIn(g, g.forms \ similar_words, K)

FillingIsRight ==
  /\ alternatives \in Nat /\ correction.type = "NONE"
  /\ \E g : /\ g = RankingNow
            /\ \E K, ids : /\ corrections = HeapOf(g, K)
                           /\ TakenFrom(g, K, ids)
                           /\ correction.alternatives = SpelledIn(g, ids)

BestNow == IF correction.type = "NONE" THEN token.str ELSE correction.correction

CorrectionIsRight ==
  /\ alternatives \in Nat
  /\ \E g : /\ g = RankingNow
            /\ g.forms = {} => correction.type = "NONE"
            /\ g.forms # {} =>
                 \E ids : /\ AreBest(g, ids)
                         /\ <<BestNow>> \o correction.alternatives = SpelledIn(g, ids)
  /\ correction.type = "SPELLING" => token.str \notin Range(Words)

RankingIsRight ==
  /\ MorpholexIsRead
  /\ AreKnown(swm) /\ AreKnown(results)
  /\ stage # "find" => OffersAreReady
  /\ DOMAIN correction = {"type", "correction", "alternatives"}
  /\ stage = "find" => corrections = {}
  /\ stage = "rank" => LoopIsRight
  /\ stage = "fill" => FillingIsRight
  /\ stage = "corrected" => CorrectionIsRight
  /\ stage = "decode" => possibilities = StagePossibilities

LEMMA RankingNowIs ==
  ASSUME MorphologyIsRead, MorpholexIsRead, OffersAreReady, alternatives \in Nat,
         NEW g, g = RankingNow
  PROVE  /\ IsRanking(g) /\ g.forms = Analysed /\ g.limit = alternatives + 1
         /\ \A id \in Analysed :
              /\ HasAnalysis(id) /\ Heaped(id) = OfferIn(g, id)
              /\ g.cost[id] = CostOf(id) /\ g.spelled[id] = swm[id].spelling
         /\ ~HasAnalysis(NONE)
  <1>1. /\ \A id \in Analysed : HasAnalysis(id) /\ CostOf(id) \in Nat /\ Heaped(id) = Ranked(id)
        /\ ~HasAnalysis(NONE) /\ IsFiniteSet(Analysed)
    BY RankedFacts DEF OffersAreReady
  <1>2. /\ g.forms = Analysed /\ g.limit = alternatives + 1
        /\ g.cost = [id \in Analysed |-> CostOf(id)]
        /\ g.spelled = [id \in Analysed |-> swm[id].spelling]
    BY DEF RankingNow
  <1>3. alternatives + 1 \in Nat \ {0}
    OBVIOUS
  <1>4. g.cost \in [g.forms -> Nat]
    BY <1>1, <1>2
  <1>5. IsRanking(g)
    BY <1>1, <1>2, <1>3, <1>4 DEF IsRanking
  <1>6. ASSUME NEW id \in Analysed
        PROVE  /\ HasAnalysis(id) /\ Heaped(id) = OfferIn(g, id)
               /\ g.cost[id] = CostOf(id) /\ g.spelled[id] = swm[id].spelling
    <2>1. g.cost[id] = CostOf(id) /\ g.spelled[id] = swm[id].spelling
      BY <1>2
    <2> QED BY <1>1, <2>1 DEF Ranked, OfferIn
  <1> QED BY <1>1, <1>2, <1>5, <1>6

LEMMA RankingStays ==
  ASSUME swm' = swm, cm' = cm, morphology' = morphology,
         enabled_factors' = enabled_factors
  PROVE  /\ Analysed' = Analysed
         /\ \A id : CostOf(id)' = CostOf(id)
         /\ alternatives' = alternatives => RankingNow' = RankingNow
  <1>1. PICK read, enabled : read = cm /\ enabled = enabled_factors
    OBVIOUS
  <1>2. Analysed' = Analysed
    BY DEF Analysed
  <1>3. \A id : CostOf(id)' = CostOf(id)
    <2>1. ASSUME NEW id PROVE CostOf(id)' = CostOf(id)
      <3>1. CostOf(id) = swm[id].cost
              + Min({WrittenCost(read, enabled, path) : path \in Written(read, enabled, id)})
        BY <1>1, Zenon DEF CostOf, CostWritten, WrittenFor
      <3>2. CostOf(id)' = swm[id].cost
              + Min({WrittenCost(read, enabled, path) : path \in Written(read, enabled, id)})
        BY <1>1, Zenon DEF CostOf, CostWritten, WrittenFor
      <3> QED BY <3>1, <3>2
    <2> QED BY <2>1
  <1>4. ASSUME alternatives' = alternatives PROVE RankingNow' = RankingNow
    BY <1>2, <1>3, <1>4 DEF RankingNow
  <1> QED BY <1>2, <1>3, <1>4

LEMMA ReadyStays ==
  ASSUME MorpholexIsRead, UNCHANGED findVars, UNCHANGED modelVars
  PROVE  /\ MorpholexIsRead'
         /\ OffersAreKnown => OffersAreKnown'
         /\ OffersAreReady /\ enabled_factors' = enabled_factors => OffersAreReady'
  <1>1. /\ swm' = swm /\ phase' = phase /\ lexicon' = lexicon
        /\ cm' = cm /\ morphology' = morphology
    BY DEF findVars, searchVars, modelVars
  <1>2. MorpholexIsRead'
    BY <1>1 DEF MorpholexIsRead, MorpholexIs
  <1>3. OffersAreKnown => OffersAreKnown'
    BY <1>1 DEF OffersAreKnown, IsWord
  <1>4. OffersAreReady /\ enabled_factors' = enabled_factors => OffersAreReady'
    BY <1>1, <1>3 DEF OffersAreReady
  <1> QED BY <1>2, <1>3, <1>4

-----------------------------------------------------------------------------
(* The search offers words of the lexicon only, or none.                   *)

LEMMA WordIdFinds ==
  ASSUME ModelsAreFit, ModelsAreGiven, NEW str \in Seq(Letters)
  PROVE  /\ GetWordID(lexicon, str) = NONE => str \notin Range(Words)
         /\ IsWord(GetWordID(lexicon, str)) \/ GetWordID(lexicon, str) = NONE
  <1> DEFINE nodes == Nodes(Words)
  <1>1. IsTrie(lexicon, Words, nodes)
    BY WordsAreGiven, LexiconsFit DEF LexiconsAreTries
  <1>2. /\ lexicon.root_id = Len(Words) /\ Len(Words) \in Nat /\ Len(nodes) \in Nat
        /\ Len(Words) < Len(nodes) /\ nodes[Len(Words) + 1] = <<>>
    BY <1>1, TrieFacts
  <1>3. str \in Seq(Nat) /\ Len(str) \in Nat
    <2>1. Seq(Letters) \subseteq Seq(Nat)
      BY LettersAssumption, SeqMonotonic
    <2> QED BY <2>1, LenProperties
  <1> DEFINE root == lexicon.root_id
             id == ContainsSuffix(lexicon, root, str, 0)
             s == nodes[root + 1] \o SubSeq(str, 0 + 1, Len(str))
  <1> HIDE DEF nodes
  <1>4. root \in States(nodes) /\ 0 \in 0 .. Len(str)
    BY <1>2, <1>3 DEF States
  <1>5. \/ id = NONE /\ s \notin Range(Words)
        \/ IsWordId(Words, id, s)
    BY <1>1, <1>3, <1>4, ContainsSuffixFinds
  <1>6. s = str
    <2>1. 0 + 1 = 1 /\ SubSeq(str, 1, Len(str)) = str
      BY <1>3, SubSeqFull
    <2>2. nodes[root + 1] = <<>>
      BY <1>2
    <2>3. <<>> \o str = str
      BY <1>3
    <2> QED BY <2>1, <2>2, <2>3
  <1>7. GetWordID(lexicon, str) = id
    BY DEF GetWordID
  <1> HIDE DEF id, s
  <1>8. NONE \notin 0 .. Len(Words) - 1
    BY <1>2 DEF NONE
  <1> QED BY <1>2, <1>5, <1>6, <1>7, <1>8 DEF IsWordId, IsWord

LEMMA ReachedAreWords ==
  ASSUME ModelsAreGiven
  PROVE  \A str, lims : \A id \in Reached(str, lims) : IsWord(id)
  <1>1. /\ Words \in Seq(Seq(Letters)) /\ lexicon.root_id = Len(Words)
    <2>1. Words \in Lexicons /\ BuildLexicon(Words) = lexicon
      BY WordsAreGiven
    <2>2. BuildLexicon(Words).root_id = Len(Words)
      BY RootIsBuilt
    <2> QED BY <2>1, <2>2, LexiconsAssumption
  <1>2. DOMAIN Words = 1 .. Len(Words) /\ Len(Words) \in Nat
    BY <1>1, LenProperties
  <1>3. ASSUME NEW str, NEW lims, NEW id \in Reached(str, lims) PROVE IsWord(id)
    <2> DEFINE spelled == {k \in DOMAIN Words :
                             \E s \in ScriptsFor(str, lims) : s.spelled = Words[k]}
    <2>1. id \in {k - 1 : k \in spelled}
      BY <1>3 DEF Reached
    <2>2. \A k \in spelled : k \in 1 .. Len(Words)
      BY <1>2
    <2> HIDE DEF spelled
    <2>3. PICK k \in spelled : id = k - 1
      BY <2>1
    <2> QED BY <1>1, <1>2, <2>2, <2>3 DEF IsWord
  <1> QED BY <1>3

LEMMA FoundAreKnown ==
  ASSUME FinderIsRight, phase \in {"search", "search_lc"}, stack = <<>>, NEW how
  PROVE  AreKnown(EachOffer(found, how))
  <1>1. /\ DOMAIN found = Reached(SearchedStr, LimitsOf(Config))
        /\ \A id \in DOMAIN found : found[id] \in Offer
    BY FoundFacts DEF FinderIsRight
  <1>2. \A id \in DOMAIN found : IsWord(id)
    BY <1>1, ReachedAreWords DEF FinderIsRight, FinderInv
  <1>3. DOMAIN EachOffer(found, how) = DOMAIN found
    BY <1>1, EachOfferFacts
  <1>4. ASSUME NEW id \in DOMAIN found PROVE EachOffer(found, how)[id].cost \in Nat
    <2> DEFINE offer == found[id]
               new == SpelledAs(how, offer.spelling)
    <2>1. EachOffer(found, how)[id] = [offer EXCEPT !.spelling = new]
      <3> HIDE DEF new
      <3>1. new = SpelledAs(how, found[id].spelling)
        BY DEF new
      <3> QED BY <3>1 DEF EachOffer
    <2>2. offer \in [spelling : Seq(Nat), cost : Nat]
      BY <1>1 DEF Offer
    <2> HIDE DEF offer, new
    <2>3. [offer EXCEPT !.spelling = new].cost \in Nat
      BY <2>2
    <2> QED BY <2>1, <2>3
  <1> QED BY <1>2, <1>3, <1>4 DEF AreKnown

LEMMA TokenIsKnown ==
  ASSUME FinderIsRight, OfferToken
  PROVE  AreKnown(swm')
  <1>1. swm' = [id \in {GetWordID(lexicon, token.str)} |-> [spelling |-> token.str, cost |-> 0]]
    BY DEF OfferToken
  <1>2. IsWord(GetWordID(lexicon, token.str)) \/ GetWordID(lexicon, token.str) = NONE
    BY SpellingsAreSearched, WordIdFinds DEF FinderIsRight, FinderInv
  <1> QED BY <1>1, <1>2 DEF AreKnown

LEMMA MergedAreKnown ==
  ASSUME NEW first, NEW second, AreKnown(first), AreKnown(second)
  PROVE  AreKnown(Merged(first, second))
  <1> DEFINE both == Merged(first, second)
  <1>1. \A id \in DOMAIN both :
          \/ id \in DOMAIN first /\ both[id] = first[id]
          \/ id \in DOMAIN second /\ both[id] = second[id]
    BY MergedFacts
  <1> HIDE DEF both
  <1>2. AreKnown(both)
    BY <1>1 DEF AreKnown
  <1> QED BY <1>2 DEF both

LEMMA OffersStayKnown ==
  ASSUME FinderIsRight, AreKnown(swm), AreKnown(results), FindNext
  PROVE  AreKnown(swm)' /\ AreKnown(results)'
  <1>1. lexicon' = lexicon
    BY DEF FindNext, SkipConfig, OfferToken, BeginSearch, Search, SearchLowerCase,
           MergeLowerCase, TakeFound, NextConfig, ReturnOffers, KeepSearch, searchVars,
           GetSimilarWords, SearchStep, BeginLetter, TrySkip, FollowLetter, TrySubstitution,
           TrySwap, NoSwap, TryAddition, NextLetter, ReturnToCaller, ReturnSimilarWords, Settled
  <1>2. SUFFICES AreKnown(swm') /\ AreKnown(results')
    BY <1>1 DEF AreKnown, IsWord
  <1>3. CASE SkipConfig \/ BeginSearch \/ Search \/ NextConfig \/ ReturnOffers
    BY <1>3 DEF SkipConfig, BeginSearch, Search, NextConfig, ReturnOffers
  <1>4. CASE OfferToken
    BY <1>4, TokenIsKnown DEF OfferToken
  <1>5. CASE SearchLowerCase
    <2>1. /\ phase = "search" /\ stack = <<>> /\ swm' = swm
          /\ results' = EachOffer(found, "capitalized")
      BY <1>5 DEF SearchLowerCase, Returned
    <2> QED BY <2>1, FoundAreKnown
  <1>6. CASE MergeLowerCase
    <2>1. /\ phase = "search_lc" /\ stack = <<>> /\ results' = <<>>
          /\ swm' = Merged(results, EachOffer(found, "capitalized"))
      BY <1>6 DEF MergeLowerCase, Returned
    <2>2. AreKnown(EachOffer(found, "capitalized"))
      BY <2>1, FoundAreKnown
    <2>3. AreKnown(swm')
      BY <2>1, <2>2, MergedAreKnown
    <2>4. AreKnown(results')
      BY <2>1, NoOffers DEF AreKnown
    <2> QED BY <2>3, <2>4
  <1>7. CASE TakeFound
    <2>1. /\ phase = "search" /\ stack = <<>> /\ results' = results
          /\ \E how : swm' = EachOffer(found, how)
      BY <1>7, Zenon DEF TakeFound, Returned
    <2> QED BY <2>1, FoundAreKnown
  <1> QED BY <1>3, <1>4, <1>5, <1>6, <1>7 DEF FindNext

-----------------------------------------------------------------------------
(* What the correction offers are the best of the words that are ranked.   *)

LEMMA NumberIs ==
  ASSUME NEW g, IsRanking(g)
  PROVE  /\ Min({g.limit, Cardinality(g.forms)}) = Number(g) /\ Number(g) \in Nat
         /\ Cardinality(g.forms) \in Nat
  <1> DEFINE a == g.limit
             b == Cardinality(g.forms)
             both == {a, b}
  <1>1. a \in Nat /\ b \in Nat
    BY FS_CardinalityType DEF IsRanking
  <1>2. Number(g) = IF a <= b THEN a ELSE b
    BY DEF Number
  <1> HIDE DEF a, b
  <1>3. \E x \in both : \A y \in both : x <= y
    BY <1>1
  <1>4. Min(both) \in both /\ \A y \in both : Min(both) <= y
    <2> HIDE DEF both
    <2> QED BY <1>3 DEF Min
  <1> DEFINE least == Min(both)
  <1>5. (least = a \/ least = b) /\ least <= a /\ least <= b
    <2> HIDE DEF least
    <2>1. least \in both /\ \A y \in both : least <= y
      BY <1>4 DEF least
    <2> QED BY <2>1
  <1> HIDE DEF least, both
  <1>6. least = Number(g) /\ Number(g) \in Nat
    BY <1>1, <1>2, <1>5
  <1> QED BY <1>1, <1>6 DEF least, both, a, b

LEMMA BestAreInOrder ==
  ASSUME NEW g, IsRanking(g), NEW ids, AreBest(g, ids), g.forms = Analysed,
         \A id \in Analysed : g.cost[id] = CostOf(id) /\ g.spelled[id] = swm[id].spelling
  PROVE  /\ ids \in [1 .. Number(g) -> Analysed] /\ Number(g) \in Nat
         /\ IsInjective(ids) /\ IsBestFirst(ids)
         /\ SpelledIn(g, ids) = [k \in 1 .. Number(g) |-> swm[ids[k]].spelling]
  <1> DEFINE n == Number(g)
  <1>1. ids \in Seq(Analysed) /\ Len(ids) = n /\ n \in Nat
    BY NumberIs DEF AreBest, AreTaken
  <1>2. ids \in [1 .. n -> Analysed] /\ DOMAIN ids = 1 .. n
    BY <1>1, LenProperties
  <1>3. \A j, k \in 1 .. n : /\ j # k => ids[j] # ids[k]
                             /\ j < k => g.cost[ids[j]] <= g.cost[ids[k]]
    BY <1>1 DEF AreBest, AreTaken
  <1>4. \A k \in 1 .. n : /\ ids[k] \in Analysed
                          /\ g.cost[ids[k]] = CostOf(ids[k])
                          /\ g.spelled[ids[k]] = swm[ids[k]].spelling
    BY <1>2
  <1>5. \A id \in Analysed : (\A k \in 1 .. n : ids[k] # id) =>
          \A k \in 1 .. n : g.cost[ids[k]] <= g.cost[id]
    BY <1>1 DEF AreBest
  <1> HIDE DEF n
  <1>6. IsInjective(ids)
    BY <1>2, <1>3 DEF IsInjective
  <1>7. ASSUME NEW k \in 1 .. Len(ids) - 1 PROVE CostOf(ids[k]) <= CostOf(ids[k + 1])
    <2>1. k \in 1 .. n /\ k + 1 \in 1 .. n /\ k < k + 1
      BY <1>1
    <2> QED BY <1>3, <1>4, <2>1
  <1>8. ASSUME NEW id \in Analysed \ Range(ids), NEW k \in DOMAIN ids
        PROVE  CostOf(ids[k]) <= CostOf(id)
    <2>1. \A m \in 1 .. n : ids[m] # id
      BY <1>2 DEF Range
    <2>2. g.cost[ids[k]] <= g.cost[id]
      BY <1>2, <1>5, <2>1
    <2> QED BY <1>2, <1>4, <2>2
  <1>9. IsBestFirst(ids)
    BY <1>7, <1>8 DEF IsBestFirst
  <1>10. SpelledIn(g, ids) = [k \in 1 .. n |-> swm[ids[k]].spelling]
    BY <1>1, <1>4 DEF SpelledIn
  <1> QED BY <1>1, <1>2, <1>6, <1>9, <1>10 DEF n

LEMMA BestAreOffered ==
  ASSUME MorphologyIsRead, RankingIsRight
  PROVE  BestOffersAreRanked
  <1> SUFFICES ASSUME stage = "corrected" PROVE BestOffersAreRanked
    BY DEF BestOffersAreRanked
  <1>1. MorpholexIsRead /\ OffersAreReady /\ CorrectionIsRight /\ alternatives \in Nat
    BY DEF RankingIsRight, CorrectionIsRight
  <1>2. PICK g : /\ g = RankingNow
                 /\ g.forms = {} => correction.type = "NONE"
                 /\ g.forms # {} =>
                      \E ids : /\ AreBest(g, ids)
                               /\ <<BestNow>> \o correction.alternatives = SpelledIn(g, ids)
    BY <1>1 DEF CorrectionIsRight
  <1>3. /\ IsRanking(g) /\ g.forms = Analysed /\ g.limit = alternatives + 1
        /\ \A id \in Analysed : g.cost[id] = CostOf(id) /\ g.spelled[id] = swm[id].spelling
    BY <1>1, <1>2, RankingNowIs
  <1>4. CASE Analysed = {}
    BY <1>2, <1>3, <1>4, Zenon DEF BestOffersAreRanked
  <1>5. CASE Analysed # {}
    <2>1. PICK ids : /\ AreBest(g, ids)
                     /\ <<BestNow>> \o correction.alternatives = SpelledIn(g, ids)
      BY <1>2, <1>3, <1>5
    <2> DEFINE number == Min({alternatives + 1, Cardinality(Analysed)})
    <2>2. number = Number(g)
      BY <1>3, NumberIs
    <2>3. /\ ids \in [1 .. Number(g) -> Analysed]
          /\ IsInjective(ids) /\ IsBestFirst(ids)
          /\ SpelledIn(g, ids) = [k \in 1 .. Number(g) |-> swm[ids[k]].spelling]
      BY <1>3, <2>1, BestAreInOrder
    <2> HIDE DEF number
    <2>4. /\ ids \in [1 .. number -> Analysed] /\ IsInjective(ids) /\ IsBestFirst(ids)
          /\ <<BestNow>> \o correction.alternatives = [k \in 1 .. number |-> swm[ids[k]].spelling]
      BY <2>1, <2>2, <2>3
    <2>5. correction.type = "SPELLING" => token.str \notin Range(Words)
      BY <1>1 DEF CorrectionIsRight
    <2> QED BY <1>5, <2>4, <2>5, Zenon DEF BestOffersAreRanked, BestNow, number
  <1> QED BY <1>4, <1>5

-----------------------------------------------------------------------------
(* What the decoder gets are the analyses that were written.               *)

ExpectedOf(path, str, cost) ==
  [factors |-> path, original |-> str = token.str, word |-> str,
   emission_prob |-> cost + CostWritten(path)]

AllExpected(id, str, cost) == {ExpectedOf(path, str, cost) : path \in WrittenFor(id)}

LEMMA PossibilityIs ==
  ASSUME NEW analysis, NEW path, NEW str, NEW cost, analysis.factors = path,
         EmissionCosts(enabled_factors, analysis) = CostWritten(path)
  PROVE  StagePossibility(analysis, str = token.str, str, cost) = ExpectedOf(path, str, cost)
  BY DEF StagePossibility, ExpectedOf

LEMMA AnalysesAreExpected ==
  ASSUME NEW id, AreWritten(AnalysesOf(id), id), NEW str, NEW cost
  PROVE  /\ {StagePossibility(analysis, str = token.str, str, cost) :
               analysis \in Range(AnalysesOf(id))} = AllExpected(id, str, cost)
         /\ AllExpected(id, str, cost) # {}
  <1> DEFINE analyses == Range(AnalysesOf(id))
             paths == WrittenFor(id)
             ofAnalysis(analysis) == StagePossibility(analysis, str = token.str, str, cost)
             ofPath(path) == ExpectedOf(path, str, cost)
  <1>1. /\ paths # {}
        /\ \A path \in paths : \E analysis \in analyses : ofAnalysis(analysis) = ofPath(path)
        /\ \A analysis \in analyses : \E path \in paths : ofAnalysis(analysis) = ofPath(path)
    <2>1. ASSUME NEW path \in paths
          PROVE  \E analysis \in analyses : ofAnalysis(analysis) = ofPath(path)
      <3>1. PICK analysis \in analyses :
              analysis.factors = path /\ EmissionCosts(enabled_factors, analysis) = CostWritten(path)
        BY DEF AreWritten
      <3> QED BY <3>1, PossibilityIs
    <2>2. ASSUME NEW analysis \in analyses
          PROVE  \E path \in paths : ofAnalysis(analysis) = ofPath(path)
      <3>1. PICK path \in paths :
              analysis.factors = path /\ EmissionCosts(enabled_factors, analysis) = CostWritten(path)
        BY DEF AreWritten
      <3> QED BY <3>1, PossibilityIs
    <2>3. paths # {}
      BY DEF AreWritten
    <2> QED BY <2>1, <2>2, <2>3
  <1> HIDE DEF analyses, paths, ofAnalysis, ofPath
  <1>2. /\ {ofAnalysis(analysis) : analysis \in analyses} = {ofPath(path) : path \in paths}
        /\ {ofPath(path) : path \in paths} # {}
    BY <1>1
  <1> QED BY <1>2 DEF AllExpected, analyses, paths, ofAnalysis, ofPath

LEMMA OffersAreExpected ==
  ASSUME MorphologyIsRead, MorpholexIsRead, OffersAreReady
  PROVE  /\ \A id \in Analysed :
              /\ PossibilitiesOf(id) = AllExpected(id, swm[id].spelling, swm[id].cost)
              /\ PossibilitiesOf(id) # {}
         /\ PossibilitiesOf(NONE) = {}
         /\ \E analysis : /\ AnalysesOf(unknown_word_id)[1] = analysis
                          /\ {StagePossibility(analysis, TRUE, token.str, UnknownWordCost)}
                               = AllExpected(unknown_word_id, token.str, UnknownWordCost)
  <1>1. /\ \A id : IsWord(id) => AreWritten(AnalysesOf(id), id)
        /\ IsWord(unknown_word_id) /\ Len(AnalysesOf(unknown_word_id)) = 1
        /\ AnalysesOf(NONE) = <<>>
    BY AnalysesAreWritten DEF OffersAreReady
  <1>2. ASSUME NEW id \in Analysed
        PROVE  /\ PossibilitiesOf(id) = AllExpected(id, swm[id].spelling, swm[id].cost)
               /\ PossibilitiesOf(id) # {}
    <2>1. AreWritten(AnalysesOf(id), id)
      BY <1>1 DEF OffersAreReady, OffersAreKnown, Analysed
    <2>2. PICK str, cost : str = swm[id].spelling /\ cost = swm[id].cost
      OBVIOUS
    <2>3. /\ {StagePossibility(analysis, str = token.str, str, cost) :
                analysis \in Range(AnalysesOf(id))} = AllExpected(id, str, cost)
          /\ AllExpected(id, str, cost) # {}
      BY <2>1, AnalysesAreExpected
    <2>4. PossibilitiesOf(id) = {StagePossibility(analysis, str = token.str, str, cost) :
                                   analysis \in Range(AnalysesOf(id))}
      BY <2>2, Zenon DEF PossibilitiesOf
    <2> QED BY <2>2, <2>3, <2>4, Zenon
  <1>3. PossibilitiesOf(NONE) = {}
    <2>1. Range(AnalysesOf(NONE)) = {}
      BY <1>1 DEF Range
    <2> HIDE DEF Range
    <2> QED BY <2>1 DEF PossibilitiesOf
  <1>4. PICK analyses : analyses = AnalysesOf(unknown_word_id)
    OBVIOUS
  <1>5. analyses \in Seq(AnalysisRead) /\ Len(analyses) = 1
    BY <1>1, <1>4 DEF AreWritten
  <1>6. Range(analyses) = {analyses[1]}
    <2>1. DOMAIN analyses = 1 .. 1
      BY <1>5, LenProperties
    <2>2. 1 .. 1 = {1}
      OBVIOUS
    <2> QED BY <2>1, <2>2 DEF Range
  <1>7. {StagePossibility(analysis, token.str = token.str, token.str, UnknownWordCost) :
           analysis \in Range(analyses)} = AllExpected(unknown_word_id, token.str, UnknownWordCost)
    <2>1. AreWritten(AnalysesOf(unknown_word_id), unknown_word_id)
      BY <1>1
    <2>2. \A str, cost : {StagePossibility(analysis, str = token.str, str, cost) :
              analysis \in Range(AnalysesOf(unknown_word_id))} = AllExpected(unknown_word_id, str, cost)
      BY <2>1, AnalysesAreExpected
    <2> QED BY <1>4, <2>2
  <1>8. {StagePossibility(analyses[1], TRUE, token.str, UnknownWordCost)}
          = AllExpected(unknown_word_id, token.str, UnknownWordCost)
    <2>1. (token.str = token.str) = TRUE
      OBVIOUS
    <2>2. {StagePossibility(analysis, TRUE, token.str, UnknownWordCost) : analysis \in {analyses[1]}}
            = AllExpected(unknown_word_id, token.str, UnknownWordCost)
      BY <1>6, <1>7, <2>1, Zenon
    <2> QED BY <2>2
  <1> QED BY <1>2, <1>3, <1>4, <1>8

LEMMA AnalysesAreOffered ==
  ASSUME MorphologyIsRead, RankingIsRight
  PROVE  StageOffersEveryAnalysis
  <1> SUFFICES ASSUME stage = "decode" PROVE StageOffersEveryAnalysis
    BY DEF StageOffersEveryAnalysis
  <1> DEFINE offered == UNION {PossibilitiesOf(id) : id \in DOMAIN swm}
             expected == UNION {AllExpected(id, swm[id].spelling, swm[id].cost) : id \in Analysed}
             unknown == AllExpected(unknown_word_id, token.str, UnknownWordCost)
  <1>1. /\ MorpholexIsRead /\ OffersAreReady /\ possibilities = StagePossibilities
    BY DEF RankingIsRight
  <1>2. /\ \A id \in Analysed :
             /\ PossibilitiesOf(id) = AllExpected(id, swm[id].spelling, swm[id].cost)
             /\ PossibilitiesOf(id) # {}
        /\ PossibilitiesOf(NONE) = {}
        /\ \E analysis : /\ AnalysesOf(unknown_word_id)[1] = analysis
                         /\ {StagePossibility(analysis, TRUE, token.str, UnknownWordCost)} = unknown
    BY <1>1, OffersAreExpected
  <1>3. offered = expected
    <2>1. offered = UNION {PossibilitiesOf(id) : id \in Analysed}
      <3> DEFINE all == DOMAIN swm
      <3>1. Analysed = all \ {NONE}
        BY DEF Analysed
      <3> HIDE DEF all
      <3>2. UNION {PossibilitiesOf(id) : id \in all} = UNION {PossibilitiesOf(id) : id \in all \ {NONE}}
        BY <1>2
      <3> QED BY <3>1, <3>2 DEF all
    <2>2. {PossibilitiesOf(id) : id \in Analysed}
            = {AllExpected(id, swm[id].spelling, swm[id].cost) : id \in Analysed}
      BY <1>2
    <2> QED BY <2>1, <2>2
  <1>4. Analysed = {} <=> offered = {}
    BY <1>2 DEF Analysed
  <1>5. StagePossibilities = IF offered # {} THEN offered ELSE unknown
    BY <1>2, Zenon DEF StagePossibilities
  <1> HIDE DEF offered
  <1>6. possibilities = IF Analysed = {} THEN unknown ELSE expected
    BY <1>1, <1>3, <1>4, <1>5
  <1> QED BY <1>6, Zenon DEF StageOffersEveryAnalysis, AllExpected, ExpectedOf, Analysed

-----------------------------------------------------------------------------
(* Every step keeps the ranking right.                                     *)

LEMMA RankingBegins ==
  ASSUME TokenInit
  PROVE  RankingIsRight
  <1>1. PICK morpholex \in Morpholexes :
          /\ cm = Collected(morpholex)
          /\ morphology = Readings(BuildMorphology(cm))
          /\ lexicon = BuildLexicon(Vocabulary(morpholex, 0))
    BY DEF TokenInit
  <1>2. /\ FindInit /\ stage = "find" /\ corrections = {} /\ correction \in Earlier
    BY DEF TokenInit
  <1>3. lexicon.root_id = Len(Vocabulary(morpholex, 0))
    BY <1>1, RootIsBuilt
  <1>4. lexicon.root_id \in Nat
    <2>1. PICK words \in Lexicons : lexicon = BuildLexicon(words)
      BY <1>2 DEF FindInit
    <2>2. lexicon.root_id = Len(words)
      BY <2>1, RootIsBuilt
    <2>3. words \in Seq(Seq(Letters))
      BY LexiconsAssumption
    <2>4. Len(words) \in Nat
      BY <2>3, LenProperties
    <2> QED BY <2>2, <2>4
  <1>5. MorpholexIsRead
    BY <1>1, <1>3, <1>4 DEF MorpholexIsRead, MorpholexIs
  <1>6. AreKnown(swm) /\ AreKnown(results)
    <2>1. swm = <<>> /\ results = <<>>
      BY <1>2 DEF FindInit
    <2> QED BY <2>1, NoOffers DEF AreKnown
  <1>7. DOMAIN correction = {"type", "correction", "alternatives"}
    <2>1. correction \in [type : {"NONE", "SPELLING", "GRAMMAR"}, correction : Seq(Letters),
                          alternatives : Seq(Seq(Letters))]
      BY <1>2, RankingAssumption
    <2> QED BY <2>1
  <1>8. stage # "rank" /\ stage # "fill" /\ stage # "corrected" /\ stage # "decode"
    BY <1>2
  <1> QED BY <1>2, <1>5, <1>6, <1>7, <1>8 DEF RankingIsRight

LEMMA FindingKeepsRanking ==
  ASSUME FinderIsRight, RankingIsRight, FindSimilarWords
  PROVE  RankingIsRight'
  <1>1. /\ stage = "find" /\ stage' = "find" /\ FindNext /\ corrections' = corrections
        /\ correction' = correction /\ cm' = cm /\ morphology' = morphology
    BY DEF FindSimilarWords, modelVars, KeepRanking
  <1>2. lexicon' = lexicon
    BY <1>1 DEF FindNext, SkipConfig, OfferToken, BeginSearch, Search, SearchLowerCase,
           MergeLowerCase, TakeFound, NextConfig, ReturnOffers, KeepSearch, searchVars,
           GetSimilarWords, SearchStep, BeginLetter, TrySkip, FollowLetter, TrySubstitution,
           TrySwap, NoSwap, TryAddition, NextLetter, ReturnToCaller, ReturnSimilarWords, Settled
  <1>3. /\ MorpholexIsRead /\ AreKnown(swm) /\ AreKnown(results) /\ corrections = {}
        /\ DOMAIN correction = {"type", "correction", "alternatives"}
    BY <1>1 DEF RankingIsRight
  <1>4. MorpholexIsRead'
    BY <1>1, <1>2, <1>3 DEF MorpholexIsRead, MorpholexIs
  <1>5. AreKnown(swm)' /\ AreKnown(results)'
    BY <1>1, <1>3, OffersStayKnown
  <1>6. stage' # "rank" /\ stage' # "fill" /\ stage' # "corrected" /\ stage' # "decode"
    BY <1>1
  <1> QED BY <1>1, <1>3, <1>4, <1>5, <1>6 DEF RankingIsRight

(* What no step after the search changes.                                  *)
LEMMA RestStays ==
  ASSUME RankingIsRight, UNCHANGED findVars, UNCHANGED modelVars
  PROVE  /\ MorpholexIsRead' /\ AreKnown(swm)' /\ AreKnown(results)'
         /\ OffersAreReady /\ enabled_factors' = enabled_factors => OffersAreReady'
         /\ swm' = swm /\ token' = token /\ lexicon' = lexicon /\ Words' = Words
         /\ cm' = cm /\ morphology' = morphology /\ phase' = phase
  <1>1. /\ swm' = swm /\ phase' = phase /\ lexicon' = lexicon /\ token' = token
        /\ cm' = cm /\ morphology' = morphology /\ results' = results
    BY DEF findVars, searchVars, modelVars
  <1>2. /\ MorpholexIsRead /\ AreKnown(swm) /\ AreKnown(results)
    BY DEF RankingIsRight
  <1>3. AreKnown(swm)' /\ AreKnown(results)'
    BY <1>1, <1>2 DEF AreKnown, IsWord
  <1>4. Words' = Words
    BY <1>1 DEF Words
  <1> QED BY <1>1, <1>2, <1>3, <1>4, ReadyStays

LEMMA OffersGetReady ==
  ASSUME RankingIsRight, phase = "done", UNCHANGED findVars, UNCHANGED modelVars,
         enabled_factors' \in EnabledFactors
  PROVE  OffersAreReady'
  <1>1. AreKnown(swm)' /\ phase' = phase
    BY RestStays
  <1>2. OffersAreKnown'
    BY <1>1 DEF AreKnown, OffersAreKnown
  <1> QED BY <1>1, <1>2 DEF OffersAreReady

LEMMA StageIsInitialized ==
  ASSUME RankingIsRight, InitInnerStagePossibilities
  PROVE  RankingIsRight'
  <1>1. /\ phase = "done" /\ stage' = "decode" /\ UNCHANGED findVars /\ UNCHANGED modelVars
        /\ enabled_factors' \in EnabledFactors /\ correction' = correction
        /\ possibilities' = StagePossibilities'
    BY DEF InitInnerStagePossibilities, KeepRanking
  <1>2. MorpholexIsRead' /\ AreKnown(swm)' /\ AreKnown(results)'
    BY <1>1, RestStays
  <1>3. OffersAreReady'
    BY <1>1, OffersGetReady
  <1>4. DOMAIN correction' = {"type", "correction", "alternatives"}
    BY <1>1 DEF RankingIsRight
  <1>5. stage' # "rank" /\ stage' # "fill" /\ stage' # "corrected" /\ stage' # "find"
    BY <1>1
  <1> QED BY <1>1, <1>2, <1>3, <1>4, <1>5 DEF RankingIsRight

LEMMA RankingIsBegun ==
  ASSUME MorphologyIsRead, RankingIsRight, BeginRanking
  PROVE  RankingIsRight'
  <1>1. /\ phase = "done" /\ stage = "find" /\ stage' = "rank"
        /\ UNCHANGED findVars /\ UNCHANGED modelVars
        /\ enabled_factors' \in EnabledFactors /\ alternatives' \in Alternatives
        /\ similar_words' = DOMAIN swm /\ corrections' = corrections /\ correction' = correction
    BY DEF BeginRanking
  <1>2. /\ MorpholexIsRead' /\ AreKnown(swm)' /\ AreKnown(results)' /\ swm' = swm
    BY <1>1, RestStays
  <1>3. OffersAreReady'
    BY <1>1, OffersGetReady
  <1>4. DOMAIN correction' = {"type", "correction", "alternatives"} /\ corrections' = {}
    BY <1>1 DEF RankingIsRight
  <1>5. similar_words' = DOMAIN swm' /\ alternatives' \in Nat
    BY <1>1, <1>2, RankingAssumption
  <1>6. PICK g : g = RankingNow'
    OBVIOUS
  <1>7. g.forms = Analysed' /\ g.limit = alternatives' + 1
    BY <1>6 DEF RankingNow
  <1>8. g.forms \ similar_words' = {}
    BY <1>5, <1>7 DEF Analysed
  <1>9. KeptIn(g, {}, {}) /\ HeapOf(g, {}) = {}
    <2>1. Cardinality({}) = 0
      BY FS_EmptySet
    <2>2. Cardinality({}) <= g.limit
      BY <1>5, <1>7, <2>1
    <2> QED BY <2>2 DEF KeptIn, HeapOf
  <1>10. corrections' = HeapOf(g, {}) /\ KeptIn(g, g.forms \ similar_words', {})
    BY <1>4, <1>8, <1>9
  <1>11. LoopIsRight'
    BY <1>5, <1>6, <1>10 DEF LoopIsRight
  <1>12. stage' # "fill" /\ stage' # "corrected" /\ stage' # "find" /\ stage' # "decode"
    BY <1>1
  <1> QED BY <1>2, <1>3, <1>4, <1>11, <1>12 DEF RankingIsRight

(* What holds for the steps that come to the words, or take one.           *)
LEMMA RankingGoesOn ==
  ASSUME MorphologyIsRead, RankingIsRight, stage \in {"rank", "fill"},
         UNCHANGED findVars, UNCHANGED modelVars, enabled_factors' = enabled_factors,
         alternatives' = alternatives
  PROVE  /\ MorpholexIsRead' /\ AreKnown(swm)' /\ AreKnown(results)' /\ OffersAreReady'
         /\ RankingNow' = RankingNow /\ Analysed' = Analysed
         /\ swm' = swm /\ token' = token /\ lexicon' = lexicon /\ Words' = Words
         /\ MorpholexIsRead /\ OffersAreReady
  <1>1. OffersAreReady /\ MorpholexIsRead
    BY DEF RankingIsRight
  <1>2. /\ MorpholexIsRead' /\ AreKnown(swm)' /\ AreKnown(results)' /\ OffersAreReady'
        /\ swm' = swm /\ token' = token /\ lexicon' = lexicon /\ Words' = Words
        /\ cm' = cm /\ morphology' = morphology
    BY <1>1, RestStays
  <1>3. RankingNow' = RankingNow /\ Analysed' = Analysed
    BY <1>2, RankingStays
  <1> QED BY <1>1, <1>2, <1>3

(* The loop with one word more that was seen.                              *)
LEMMA WordIsRanked ==
  ASSUME MorphologyIsRead, MorpholexIsRead, OffersAreReady, alternatives \in Nat,
         NEW g, g = RankingNow, NEW K, corrections = HeapOf(g, K),
         NEW id \in Analysed, NEW seen, KeptIn(g, seen, K), id \notin seen,
         Passed(id) \/ Kept(id)
  PROVE  \E L : corrections' = HeapOf(g, L) /\ KeptIn(g, seen \union {id}, L)
  <1>1. /\ IsRanking(g) /\ g.forms = Analysed /\ g.limit = alternatives + 1
        /\ HasAnalysis(id) /\ Heaped(id) = OfferIn(g, id)
    BY RankingNowIs
  <1>2. K \in SUBSET g.forms /\ id \in g.forms
    BY <1>1 DEF KeptIn
  <1>3. IsFull <=> Cardinality(K) = g.limit
    BY <1>1, <1>2, HeapCounts DEF IsFull
  <1>4. ASSUME NEW top \in Tops
        PROVE  \E worst : /\ IsWorst(g, K, worst) /\ top = OfferIn(g, worst)
                          /\ Heaped(id).cost < top.cost <=> g.cost[id] < g.cost[worst]
                          /\ g.cost[id] \in Nat /\ g.cost[worst] \in Nat
    <2>1. PICK worst : IsWorst(g, K, worst) /\ top = OfferIn(g, worst)
      BY <1>1, <1>2, WorstIsTop
    <2>2. Heaped(id).cost = g.cost[id] /\ top.cost = g.cost[worst]
      BY <1>1, <2>1 DEF OfferIn
    <2>3. worst \in g.forms
      BY <1>2, <2>1 DEF IsWorst
    <2>4. g.cost[id] \in Nat /\ g.cost[worst] \in Nat
      BY <1>1, <1>2, <2>3 DEF IsRanking
    <2> QED BY <2>1, <2>2, <2>4
  <1>5. CASE Passed(id)
    <2>1. corrections' = corrections /\ IsFull
          /\ \E top \in Tops : ~(Heaped(id).cost < top.cost)
      BY <1>1, <1>5 DEF Passed, IsGood
    <2>2. PICK top \in Tops : ~(Heaped(id).cost < top.cost)
      BY <2>1
    <2>3. PICK worst : /\ IsWorst(g, K, worst)
                       /\ Heaped(id).cost < top.cost <=> g.cost[id] < g.cost[worst]
                       /\ g.cost[id] \in Nat /\ g.cost[worst] \in Nat
      BY <1>4
    <2>4. g.cost[worst] <= g.cost[id]
      BY <2>2, <2>3
    <2>5. KeptIn(g, seen \union {id}, K)
      BY <1>1, <1>2, <1>3, <2>1, <2>3, <2>4, KeptPasses
    <2> QED BY <2>1, <2>5
  <1>6. CASE Kept(id) /\ ~IsFull
    <2>1. corrections' = corrections \union {OfferIn(g, id)}
      BY <1>1, <1>6 DEF Kept
    <2>2. corrections' = HeapOf(g, K \union {id})
      BY <2>1, HeapWith
    <2>3. KeptIn(g, seen \union {id}, K \union {id})
      BY <1>1, <1>2, <1>3, <1>6, KeptGrows
    <2> QED BY <2>2, <2>3
  <1>7. CASE Kept(id) /\ IsFull
    <2>1. /\ IsGood(Heaped(id))
          /\ \E top \in Tops : corrections' = (corrections \ {top}) \union {OfferIn(g, id)}
      BY <1>1, <1>7 DEF Kept
    <2>2. PICK top \in Tops : corrections' = (corrections \ {top}) \union {OfferIn(g, id)}
      BY <2>1
    <2>3. Heaped(id).cost < top.cost
      BY <1>7, <2>1 DEF IsGood
    <2>4. PICK worst : /\ IsWorst(g, K, worst) /\ top = OfferIn(g, worst)
                       /\ Heaped(id).cost < top.cost <=> g.cost[id] < g.cost[worst]
      BY <1>4
    <2>5. corrections \ {top} = HeapOf(g, K \ {worst})
      <3>1. worst \in K
        BY <2>4 DEF IsWorst
      <3> QED BY <2>4, <3>1, HeapWithout
    <2>6. corrections' = HeapOf(g, (K \ {worst}) \union {id})
      BY <2>2, <2>5, HeapWith
    <2>7. KeptIn(g, seen \union {id}, (K \ {worst}) \union {id})
      BY <1>1, <1>2, <1>3, <1>7, <2>3, <2>4, KeptSwaps
    <2> QED BY <2>6, <2>7
  <1> QED BY <1>5, <1>6, <1>7

LEMMA WordsAreRanked ==
  ASSUME MorphologyIsRead, RankingIsRight, RankSimilarWord
  PROVE  RankingIsRight'
  <1>1. /\ stage = "rank" /\ stage' = "rank" /\ correction' = correction
        /\ UNCHANGED findVars /\ UNCHANGED modelVars /\ enabled_factors' = enabled_factors
        /\ alternatives' = alternatives
    BY DEF RankSimilarWord, KeepFinder
  <1>2. PICK id \in similar_words :
          similar_words' = similar_words \ {id} /\ (Passed(id) \/ Kept(id))
    BY DEF RankSimilarWord
  <1>3. /\ MorpholexIsRead' /\ AreKnown(swm)' /\ AreKnown(results)' /\ OffersAreReady'
        /\ RankingNow' = RankingNow /\ swm' = swm
        /\ MorpholexIsRead /\ OffersAreReady
    BY <1>1, RankingGoesOn
  <1>4. LoopIsRight /\ DOMAIN correction = {"type", "correction", "alternatives"}
    BY <1>1 DEF RankingIsRight
  <1>5. PICK g, K : /\ g = RankingNow /\ corrections = HeapOf(g, K)
                    /\ KeptIn(g, g.forms \ similar_words, K)
    BY <1>4 DEF LoopIsRight
  <1>6. similar_words \subseteq DOMAIN swm /\ alternatives \in Nat
    BY <1>4 DEF LoopIsRight
  <1>7. g.forms = Analysed /\ ~HasAnalysis(NONE)
    BY <1>3, <1>5, <1>6, RankingNowIs
  <1>8. \E L : corrections' = HeapOf(g, L) /\ KeptIn(g, g.forms \ similar_words', L)
    <2>1. CASE id = NONE
      <3>1. corrections' = corrections
        BY <1>2, <1>7, <2>1 DEF Passed, Kept
      <3>2. g.forms \ similar_words' = g.forms \ similar_words
        BY <1>2, <1>7, <2>1 DEF Analysed
      <3> QED BY <1>5, <3>1, <3>2
    <2>2. CASE id # NONE
      <3>1. id \in Analysed
        BY <1>2, <1>6, <2>2 DEF Analysed
      <3> DEFINE seen == g.forms \ similar_words
      <3>2. KeptIn(g, seen, K) /\ id \notin seen
        BY <1>2, <1>5
      <3>3. g.forms \ similar_words' = seen \union {id}
        BY <1>2, <1>7, <3>1
      <3> HIDE DEF seen
      <3>4. \E L : corrections' = HeapOf(g, L) /\ KeptIn(g, seen \union {id}, L)
        BY <1>2, <1>3, <1>5, <1>6, <3>1, <3>2, WordIsRanked
      <3> QED BY <3>3, <3>4
    <2> QED BY <2>1, <2>2
  <1>9. LoopIsRight'
    <2>1. similar_words' \subseteq DOMAIN swm' /\ alternatives' \in Nat
      BY <1>1, <1>2, <1>3, <1>6
    <2>2. g = RankingNow'
      BY <1>3, <1>5
    <2> QED BY <1>8, <2>1, <2>2 DEF LoopIsRight
  <1>10. stage' # "fill" /\ stage' # "corrected" /\ stage' # "find" /\ stage' # "decode"
    BY <1>1
  <1>11. DOMAIN correction' = {"type", "correction", "alternatives"}
    BY <1>1, <1>4
  <1> QED BY <1>3, <1>9, <1>10, <1>11 DEF RankingIsRight

LEMMA HeapIsEmpty ==
  ASSUME NEW g, NEW K
  PROVE  HeapOf(g, K) = {} <=> K = {}
  BY DEF HeapOf

LEMMA NothingIsSpelled ==
  ASSUME NEW g
  PROVE  SpelledIn(g, <<>>) = <<>>
  <1>1. Len(<<>>) = 0 /\ 1 .. 0 = {}
    OBVIOUS
  <1>2. SpelledIn(g, <<>>) = [k \in {} |-> g.spelled[<<>>[k]]]
    BY <1>1 DEF SpelledIn
  <1> QED BY <1>2

LEMMA CorrectionIsBegun ==
  ASSUME MorphologyIsRead, RankingIsRight, BeginCorrection
  PROVE  RankingIsRight'
  <1>1. /\ stage = "rank" /\ similar_words = {} /\ corrections' = corrections
        /\ stage' = IF corrections = {} THEN "corrected" ELSE "fill"
        /\ UNCHANGED findVars /\ UNCHANGED modelVars /\ enabled_factors' = enabled_factors
        /\ alternatives' = alternatives
        /\ correction' = [correction EXCEPT
             !.type = "NONE", !.alternatives = IF corrections = {} THEN @ ELSE <<>>]
    BY DEF BeginCorrection, KeepFinder
  <1>2. /\ MorpholexIsRead' /\ AreKnown(swm)' /\ AreKnown(results)' /\ OffersAreReady'
        /\ RankingNow' = RankingNow /\ MorpholexIsRead /\ OffersAreReady
    BY <1>1, RankingGoesOn
  <1>3. LoopIsRight /\ DOMAIN correction = {"type", "correction", "alternatives"}
    BY <1>1 DEF RankingIsRight
  <1>4. /\ DOMAIN correction' = {"type", "correction", "alternatives"}
        /\ correction'.type = "NONE"
        /\ corrections # {} => correction'.alternatives = <<>>
    BY <1>1, <1>3
  <1>5. PICK g, K : /\ g = RankingNow /\ corrections = HeapOf(g, K)
                    /\ KeptIn(g, g.forms \ similar_words, K)
    BY <1>3 DEF LoopIsRight
  <1>6. IsRanking(g) /\ g = RankingNow' /\ alternatives' \in Nat /\ alternatives \in Nat
    BY <1>1, <1>2, <1>3, <1>5, RankingNowIs DEF LoopIsRight
  <1>7. KeptIn(g, g.forms, K)
    <2>1. g.forms \ similar_words = g.forms
      BY <1>1
    <2> QED BY <1>5, <2>1
  <1>8. CASE corrections = {}
    <2>1. K = {} /\ stage' = "corrected"
      BY <1>1, <1>5, <1>8, HeapIsEmpty
    <2>2. g.forms = {}
      <3>1. Cardinality({}) = 0
        BY FS_EmptySet
      <3>2. Cardinality(K) # g.limit
        BY <1>6, <2>1, <3>1 DEF IsRanking
      <3> QED BY <1>7, <2>1, <3>2 DEF KeptIn
    <2>3. CorrectionIsRight'
      <3>1. correction'.type # "SPELLING"
        BY <1>4
      <3> QED BY <1>4, <1>6, <2>2, <3>1 DEF CorrectionIsRight
    <2>4. stage' # "fill" /\ stage' # "rank" /\ stage' # "find" /\ stage' # "decode"
      BY <2>1
    <2> QED BY <1>2, <1>4, <2>3, <2>4 DEF RankingIsRight
  <1>9. CASE corrections # {}
    <2>1. K # {} /\ stage' = "fill"
      BY <1>1, <1>5, <1>9, HeapIsEmpty
    <2>2. TakenFrom(g, K, <<>>)
      BY <1>6, <1>7, <2>1, TakingBegins
    <2>3. correction'.alternatives = SpelledIn(g, <<>>)
      BY <1>4, <1>9, NothingIsSpelled
    <2>4. corrections' = HeapOf(g, K)
      BY <1>1, <1>5
    <2>5. FillingIsRight'
      BY <1>4, <1>6, <2>2, <2>3, <2>4 DEF FillingIsRight
    <2>6. stage' # "corrected" /\ stage' # "rank" /\ stage' # "find" /\ stage' # "decode"
      BY <2>1
    <2> QED BY <1>2, <1>4, <2>5, <2>6 DEF RankingIsRight
  <1> QED BY <1>8, <1>9

(* The worst that is left of the heap.                                     *)
IsNext(top, g, K, ids, worst) ==
  /\ g = RankingNow /\ IsRanking(g) /\ corrections = HeapOf(g, K)
  /\ TakenFrom(g, K, ids) /\ Cardinality(corrections) = Cardinality(K)
  /\ IsWorst(g, K, worst) /\ top = OfferIn(g, worst)
  /\ <<top.correction>> \o correction.alternatives = SpelledIn(g, <<worst>> \o ids)

LEMMA WorstIsNext ==
  ASSUME MorphologyIsRead, MorpholexIsRead, OffersAreReady, FillingIsRight,
         NEW top \in Tops
  PROVE  \E g, K, ids, worst : IsNext(top, g, K, ids, worst)
  <1>1. PICK g, K, ids : /\ g = RankingNow /\ corrections = HeapOf(g, K)
                         /\ TakenFrom(g, K, ids)
                         /\ correction.alternatives = SpelledIn(g, ids)
    BY DEF FillingIsRight
  <1>2. IsRanking(g)
    BY <1>1, RankingNowIs DEF FillingIsRight
  <1>3. K \in SUBSET g.forms /\ ids \in Seq(g.forms)
    BY <1>1 DEF TakenFrom, AreTaken
  <1>4. Cardinality(corrections) = Cardinality(K)
    BY <1>1, <1>2, <1>3, HeapCounts
  <1>5. PICK worst : IsWorst(g, K, worst) /\ top = OfferIn(g, worst)
    BY <1>1, <1>2, <1>3, WorstIsTop
  <1>6. top.correction = g.spelled[worst]
    BY <1>5 DEF OfferIn
  <1>7. worst \in g.forms
    BY <1>3, <1>5 DEF IsWorst
  <1>8. <<g.spelled[worst]>> \o SpelledIn(g, ids) = SpelledIn(g, <<worst>> \o ids)
    BY <1>3, <1>7, SpelledPrepended
  <1>9. <<top.correction>> \o correction.alternatives = SpelledIn(g, <<worst>> \o ids)
    BY <1>1, <1>6, <1>8
  <1> QED BY <1>1, <1>2, <1>4, <1>5, <1>9 DEF IsNext

LEMMA AlternativesAreFilled ==
  ASSUME MorphologyIsRead, RankingIsRight, FillAlternative
  PROVE  RankingIsRight'
  <1>1. /\ stage = "fill" /\ stage' = "fill" /\ Cardinality(corrections) > 1
        /\ UNCHANGED findVars /\ UNCHANGED modelVars /\ enabled_factors' = enabled_factors
        /\ alternatives' = alternatives
    BY DEF FillAlternative, KeepFinder
  <1>2. PICK top \in Tops :
          /\ corrections' = corrections \ {top}
          /\ correction' = [correction EXCEPT !.alternatives = <<top.correction>> \o @]
    BY DEF FillAlternative
  <1>3. /\ MorpholexIsRead' /\ AreKnown(swm)' /\ AreKnown(results)' /\ OffersAreReady'
        /\ RankingNow' = RankingNow /\ MorpholexIsRead /\ OffersAreReady
    BY <1>1, RankingGoesOn
  <1>4. FillingIsRight /\ DOMAIN correction = {"type", "correction", "alternatives"}
    BY <1>1 DEF RankingIsRight
  <1> PICK g, K, ids, worst : IsNext(top, g, K, ids, worst)
    BY <1>3, <1>4, WorstIsNext
  <1>5. /\ g = RankingNow /\ IsRanking(g) /\ corrections = HeapOf(g, K)
        /\ TakenFrom(g, K, ids) /\ Cardinality(corrections) = Cardinality(K)
        /\ IsWorst(g, K, worst) /\ top = OfferIn(g, worst)
        /\ <<top.correction>> \o correction.alternatives = SpelledIn(g, <<worst>> \o ids)
    BY DEF IsNext
  <1> DEFINE longer == <<worst>> \o ids
             spelled == <<top.correction>> \o correction.alternatives
  <1>6. TakenFrom(g, K \ {worst}, longer)
    BY <1>1, <1>5, TakingGoesOn
  <1>7. corrections' = HeapOf(g, K \ {worst})
    <2>1. worst \in K
      BY <1>5 DEF IsWorst
    <2> QED BY <1>2, <1>5, <2>1, HeapWithout
  <1>8. correction' = [correction EXCEPT !.alternatives = spelled]
    BY <1>2
  <1>9. spelled = SpelledIn(g, longer)
    BY <1>5
  <1> HIDE DEF longer, spelled
  <1>10. /\ DOMAIN correction' = {"type", "correction", "alternatives"}
         /\ correction'.alternatives = SpelledIn(g, longer) /\ correction'.type = "NONE"
    BY <1>4, <1>8, <1>9 DEF FillingIsRight
  <1>11. g = RankingNow' /\ alternatives' \in Nat
    BY <1>1, <1>3, <1>4, <1>5 DEF FillingIsRight
  <1>12. FillingIsRight'
    BY <1>6, <1>7, <1>10, <1>11 DEF FillingIsRight
  <1>13. stage' # "corrected" /\ stage' # "rank" /\ stage' # "find" /\ stage' # "decode"
    BY <1>1
  <1> QED BY <1>3, <1>10, <1>12, <1>13 DEF RankingIsRight

LEMMA CorrectionIsFilled ==
  ASSUME MorphologyIsRead, FinderIsRight, RankingIsRight, FillCorrection
  PROVE  RankingIsRight'
  <1>1. /\ stage = "fill" /\ stage' = "corrected" /\ Cardinality(corrections) = 1
        /\ UNCHANGED findVars /\ UNCHANGED modelVars /\ enabled_factors' = enabled_factors
        /\ alternatives' = alternatives
    BY DEF FillCorrection, KeepFinder
  <1>2. PICK top \in Tops :
          correction' = IF top.correction = token.str THEN correction
                        ELSE [correction EXCEPT
                                !.correction = top.correction,
                                !.type = IF GetWordID(lexicon, token.str) = NONE
                                         THEN "SPELLING" ELSE "GRAMMAR"]
    BY DEF FillCorrection
  <1>3. /\ MorpholexIsRead' /\ AreKnown(swm)' /\ AreKnown(results)' /\ OffersAreReady'
        /\ RankingNow' = RankingNow /\ token' = token /\ Words' = Words
        /\ MorpholexIsRead /\ OffersAreReady
    BY <1>1, RankingGoesOn
  <1>4. FillingIsRight /\ DOMAIN correction = {"type", "correction", "alternatives"}
    BY <1>1 DEF RankingIsRight
  <1> PICK g, K, ids, worst : IsNext(top, g, K, ids, worst)
    BY <1>3, <1>4, WorstIsNext
  <1>5. /\ g = RankingNow /\ IsRanking(g) /\ corrections = HeapOf(g, K)
        /\ TakenFrom(g, K, ids) /\ Cardinality(corrections) = Cardinality(K)
        /\ IsWorst(g, K, worst) /\ top = OfferIn(g, worst)
        /\ <<top.correction>> \o correction.alternatives = SpelledIn(g, <<worst>> \o ids)
    BY DEF IsNext
  <1>6. AreBest(g, <<worst>> \o ids)
    BY <1>1, <1>5, TakingEnds
  <1>7. g = RankingNow' /\ alternatives' \in Nat /\ correction.type = "NONE"
    BY <1>1, <1>3, <1>4, <1>5 DEF FillingIsRight
  <1>8. /\ DOMAIN correction' = {"type", "correction", "alternatives"}
        /\ correction'.alternatives = correction.alternatives
        /\ BestNow' = top.correction
        /\ correction'.type = "SPELLING" => GetWordID(lexicon, token.str) = NONE
    <2>1. CASE top.correction = token.str
      <3>1. correction' = correction
        BY <1>2, <2>1
      <3>2. BestNow' = token.str
        BY <1>3, <1>7, <3>1 DEF BestNow
      <3> QED BY <1>4, <1>7, <2>1, <3>1, <3>2
    <2>2. CASE top.correction # token.str
      <3> DEFINE kind == IF GetWordID(lexicon, token.str) = NONE THEN "SPELLING" ELSE "GRAMMAR"
                 spelled == top.correction
      <3>1. correction' = [correction EXCEPT !.correction = spelled, !.type = kind]
        BY <1>2, <2>2
      <3>2. kind # "NONE" /\ (kind = "SPELLING" => GetWordID(lexicon, token.str) = NONE)
        OBVIOUS
      <3> HIDE DEF kind, spelled
      <3>3. /\ DOMAIN correction' = {"type", "correction", "alternatives"}
            /\ correction'.alternatives = correction.alternatives
            /\ correction'.type = kind /\ correction'.correction = spelled
        BY <1>4, <3>1
      <3>4. BestNow' = spelled
        BY <3>2, <3>3 DEF BestNow
      <3> QED BY <3>2, <3>3, <3>4 DEF spelled
    <2> QED BY <2>1, <2>2
  <1>9. correction'.type = "SPELLING" => token'.str \notin Range(Words')
    <2>1. ModelsAreFit /\ ModelsAreGiven
      BY DEF FinderIsRight, FinderInv
    <2>2. token.str \in Seq(Letters)
      BY <2>1, SpellingsAreSearched
    <2>3. GetWordID(lexicon, token.str) = NONE => token.str \notin Range(Words)
      BY <2>1, <2>2, WordIdFinds
    <2> QED BY <1>3, <1>8, <2>3
  <1>10. <<BestNow'>> \o correction'.alternatives = SpelledIn(g, <<worst>> \o ids)
    BY <1>5, <1>8
  <1>11. g.forms # {}
    BY <1>5 DEF IsWorst, TakenFrom
  <1> DEFINE longer == <<worst>> \o ids
  <1>12. AreBest(g, longer) /\ <<BestNow'>> \o correction'.alternatives = SpelledIn(g, longer)
    BY <1>6, <1>10
  <1> HIDE DEF longer
  <1>13. CorrectionIsRight'
    BY <1>7, <1>9, <1>11, <1>12 DEF CorrectionIsRight
  <1>14. stage' # "fill" /\ stage' # "rank" /\ stage' # "find" /\ stage' # "decode"
    BY <1>1
  <1> QED BY <1>1, <1>3, <1>8, <1>13, <1>14 DEF RankingIsRight

LEMMA StageStays ==
  ASSUME swm' = swm, token' = token, morphology' = morphology,
         enabled_factors' = enabled_factors
  PROVE  StagePossibilities' = StagePossibilities
  <1>1. \A id : AnalysesOf(id)' = AnalysesOf(id)
    BY DEF AnalysesOf
  <1>2. PICK enabled, str, offers :
          enabled = enabled_factors /\ str = token.str /\ offers = swm
    OBVIOUS
  <1>3. \A analysis, original, spelling, cost :
          StagePossibility(analysis, original, spelling, cost)'
            = StagePossibility(analysis, original, spelling, cost)
    BY DEF StagePossibility
  <1>4. ASSUME NEW id PROVE PossibilitiesOf(id)' = PossibilitiesOf(id)
    BY <1>1, <1>3, Zenon DEF PossibilitiesOf
  <1>5. UNION {PossibilitiesOf(id) : id \in DOMAIN swm}'
          = UNION {PossibilitiesOf(id) : id \in DOMAIN swm}
    BY <1>4
  <1>6. AnalysesOf(unknown_word_id)' = AnalysesOf(unknown_word_id)
    BY <1>1
  <1> QED BY <1>3, <1>5, <1>6 DEF StagePossibilities

LEMMA RankingStutters ==
  ASSUME RankingIsRight, UNCHANGED tokenVars
  PROVE  RankingIsRight'
  <1>1. /\ UNCHANGED findVars /\ UNCHANGED modelVars /\ enabled_factors' = enabled_factors
        /\ stage' = stage /\ alternatives' = alternatives /\ possibilities' = possibilities
        /\ similar_words' = similar_words /\ corrections' = corrections
        /\ correction' = correction
    BY DEF tokenVars
  <1>2. /\ MorpholexIsRead' /\ AreKnown(swm)' /\ AreKnown(results)'
        /\ swm' = swm /\ token' = token /\ Words' = Words
        /\ cm' = cm /\ morphology' = morphology
    BY <1>1, RestStays
  <1>3. stage # "find" => OffersAreReady'
    BY <1>1, RestStays DEF RankingIsRight
  <1>4. RankingNow' = RankingNow
    BY <1>1, <1>2, RankingStays
  <1>5. LoopIsRight => LoopIsRight'
    BY <1>1, <1>2, <1>4 DEF LoopIsRight
  <1>6. FillingIsRight => FillingIsRight'
    BY <1>1, <1>4 DEF FillingIsRight
  <1>7. CorrectionIsRight => CorrectionIsRight'
    BY <1>1, <1>2, <1>4 DEF CorrectionIsRight, BestNow
  <1>8. StagePossibilities' = StagePossibilities
    BY <1>1, <1>2, StageStays
  <1> QED BY <1>1, <1>2, <1>3, <1>5, <1>6, <1>7, <1>8 DEF RankingIsRight

LEMMA RankingIsKept ==
  ASSUME MorphologyIsRead, FinderIsRight, RankingIsRight, [TokenNext]_tokenVars
  PROVE  RankingIsRight'
  <1>1. CASE Corrected \/ UNCHANGED tokenVars
    BY <1>1, RankingStutters DEF Corrected
  <1> QED BY <1>1, FindingKeepsRanking, StageIsInitialized, RankingIsBegun, WordsAreRanked,
             CorrectionIsBegun, AlternativesAreFilled, CorrectionIsFilled DEF TokenNext

(* The invariant of all that is done for a token: the search, the loop     *)
(* that ranks its offers, the correction that is filled from the heap, and *)
(* the stage for the decoder.                                              *)
THEOREM TokensAreRanked ==
  ASSUME ModelsAreFit, MorphologyIsRead
  PROVE  TokenSpec => [](FinderIsRight /\ RankingIsRight)
  <1>1. TokenInit => FinderIsRight /\ RankingIsRight
    BY FinderIsRightInit, RankingBegins DEF TokenInit
  <1>2. FinderIsRight /\ RankingIsRight /\ [TokenNext]_tokenVars
          => FinderIsRight' /\ RankingIsRight'
    BY FinderIsRightKept, RankingIsKept
  <1> QED BY <1>1, <1>2, PTL DEF TokenSpec

(* The correction and its alternatives are the cheapest offers, in the     *)
(* order of their costs, for every number of offers and of alternatives.   *)
THEOREM BestOffersRanked ==
  ASSUME ModelsAreFit, MorphologyIsRead
  PROVE  TokenSpec => []BestOffersAreRanked
  <1>1. RankingIsRight => BestOffersAreRanked
    BY BestAreOffered
  <1> QED BY <1>1, TokensAreRanked, PTL

(* The decoder gets every analysis of the words that are offered, no other *)
(* and each at its own cost, if the morphology gives back what was written *)
(* to it.                                                                  *)
THEOREM EveryAnalysisOffered ==
  ASSUME ModelsAreFit, MorphologyIsRead
  PROVE  TokenSpec => []StageOffersEveryAnalysis
  <1>1. RankingIsRight => StageOffersEveryAnalysis
    BY AnalysesAreOffered
  <1> QED BY <1>1, TokensAreRanked, PTL
=============================================================================
