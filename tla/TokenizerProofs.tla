-------------------------- MODULE TokenizerProofs --------------------------
(***************************************************************************)
(* Proofs about the tokenizer for every set of texts and all its options,  *)
(* and about the sets of tokens the input formats promise.                 *)
(***************************************************************************)
EXTENDS Tokenizer, FiniteSetTheorems, SequenceTheorems, WellFoundedInduction, TLAPS

-----------------------------------------------------------------------------
(* Extreme elements.                                                       *)

LEMMA LeastExists ==
  ASSUME NEW S \in SUBSET Nat, S # {}
  PROVE  \E n \in S : \A k \in S : n <= k
  <1>1. IsWellFoundedOn({pair \in Nat \X Nat : pair[1] < pair[2]}, Nat)
    BY NatLessThanWellFounded DEF OpToRel
  <1>2. PICK least \in S : \A k \in S : <<k, least>> \notin {pair \in Nat \X Nat : pair[1] < pair[2]}
    <2>1. S \subseteq Nat /\ S # {}
      OBVIOUS
    <2> QED BY <1>1, <2>1, WFMin
  <1>3. ASSUME NEW k \in S
        PROVE  least <= k
    <2>1. least \in Nat /\ k \in Nat /\ <<k, least>> \in Nat \X Nat
      OBVIOUS
    <2>2. ~(k < least)
      BY <1>2, <2>1
    <2> QED BY <2>1, <2>2
  <1> QED BY <1>3

LEMMA GreatestIsGreatest ==
  ASSUME NEW N \in Nat, NEW S \in SUBSET (0 .. N), S # {}
  PROVE  Greatest(S) \in S /\ \A k \in S : k <= Greatest(S)
  <1> DEFINE T == {k \in 0 .. N : N - k \in S}
  <1>1. T \in SUBSET Nat
    OBVIOUS
  <1>2. T # {}
    <2>1. PICK n \in S : TRUE
      OBVIOUS
    <2>2. N - n \in 0 .. N /\ N - (N - n) = n
      BY <2>1
    <2> QED BY <2>1, <2>2
  <1>3. PICK least \in T : \A k \in T : least <= k
    <2> HIDE DEF T
    <2> QED BY <1>1, <1>2, LeastExists
  <1>4. \A n \in S : n <= N - least
    <2>1. TAKE n \in S
    <2>2. N - n \in T
      BY <2>1
    <2>3. least <= N - n /\ least \in Nat /\ n \in Nat
      BY <1>1, <1>3, <2>1, <2>2
    <2> QED BY <2>3
  <1>5. N - least \in S
    BY <1>3
  <1> HIDE DEF T
  <1> QED BY <1>4, <1>5 DEF Greatest

-----------------------------------------------------------------------------
(* The sets of tokens.                                                     *)

LEMMA RunFacts ==
  ASSUME NEW block \in Seq(Unit), NEW S, NEW t \in Runs(block, S)
  PROVE  /\ t \in [first : 1 .. Len(block), last : 1 .. Len(block)]
         /\ t.first \in Nat /\ t.last \in Nat /\ t.first <= t.last
         /\ \A k \in t.first .. t.last : block[k] \in S
         /\ t.first > 1 => block[t.first - 1] \notin S
         /\ t.last < Len(block) => block[t.last + 1] \notin S
  BY LenProperties DEF Runs

(* Two stretches that overlap have the same ends.                          *)
LEMMA RunsAreDisjoint ==
  ASSUME NEW block \in Seq(Unit), NEW S, NEW t \in Runs(block, S), NEW u \in Runs(block, S),
         t.first <= u.last, u.first <= t.last
  PROVE  t = u
  <1> DEFINE n == Len(block)
  <1>1. /\ n \in Nat
        /\ t.first \in 1 .. n /\ t.last \in 1 .. n /\ t.first <= t.last
        /\ u.first \in 1 .. n /\ u.last \in 1 .. n /\ u.first <= u.last
    BY RunFacts, LenProperties
  <1>2. ~(t.first < u.first)
    <2> SUFFICES ASSUME t.first < u.first PROVE FALSE
      OBVIOUS
    <2>1. u.first > 1 /\ u.first - 1 \in t.first .. t.last
      BY <1>1
    <2> QED BY <2>1, RunFacts
  <1>3. ~(u.first < t.first)
    <2> SUFFICES ASSUME u.first < t.first PROVE FALSE
      OBVIOUS
    <2>1. t.first > 1 /\ t.first - 1 \in u.first .. u.last
      BY <1>1
    <2> QED BY <2>1, RunFacts
  <1>4. ~(t.last < u.last)
    <2> SUFFICES ASSUME t.last < u.last PROVE FALSE
      OBVIOUS
    <2>1. t.last < n /\ t.last + 1 \in u.first .. u.last
      BY <1>1
    <2> QED BY <2>1, RunFacts
  <1>5. ~(u.last < t.last)
    <2> SUFFICES ASSUME u.last < t.last PROVE FALSE
      OBVIOUS
    <2>1. u.last < n /\ u.last + 1 \in t.first .. t.last
      BY <1>1
    <2> QED BY <2>1, RunFacts
  <1>6. t.first = u.first /\ t.last = u.last
    BY <1>1, <1>2, <1>3, <1>4, <1>5
  <1> QED BY <1>6, RunFacts

(* A unit of S is in a stretch: from the first to the last position that   *)
(* is reached from it inside S.                                            *)
LEMMA RunsCover ==
  ASSUME NEW block \in Seq(Unit), NEW S, NEW k \in 1 .. Len(block), block[k] \in S
  PROVE  \E t \in Runs(block, S) : k \in t.first .. t.last
  <1> DEFINE n == Len(block)
             left == {b \in 1 .. k : \A j \in b .. k : block[j] \in S}
             right == {e \in k .. n : \A j \in k .. e : block[j] \in S}
  <1>1. n \in Nat /\ k \in 1 .. n
    BY LenProperties
  <1>2. PICK b \in left : \A c \in left : b <= c
    <2>1. k \in left /\ left \in SUBSET Nat
      BY <1>1
    <2> HIDE DEF left
    <2> QED BY <2>1, LeastExists
  <1>3. PICK e \in right : \A c \in right : c <= e
    <2>1. k \in right /\ right \in SUBSET (0 .. n)
      BY <1>1
    <2> HIDE DEF right, n
    <2> QED BY <1>1, <2>1, GreatestIsGreatest
  <1>4. b \in 1 .. k /\ e \in k .. n
    BY <1>2, <1>3
  <1>5. \A j \in b .. e : block[j] \in S
    <2>1. TAKE j \in b .. e
    <2>2. j \in b .. k \/ j \in k .. e
      BY <1>1, <1>4
    <2> QED BY <1>2, <1>3, <2>2
  <1>6. b > 1 => block[b - 1] \notin S
    <2> SUFFICES ASSUME b > 1, block[b - 1] \in S PROVE FALSE
      OBVIOUS
    <2>1. b - 1 \in 1 .. k
      BY <1>1, <1>4
    <2>2. \A j \in b - 1 .. k : block[j] \in S
      BY <1>1, <1>2, <1>4
    <2>3. b - 1 \in left
      BY <2>1, <2>2
    <2> QED BY <1>1, <1>2, <1>4, <2>3
  <1>7. e < n => block[e + 1] \notin S
    <2> SUFFICES ASSUME e < n, block[e + 1] \in S PROVE FALSE
      OBVIOUS
    <2>1. e + 1 \in k .. n
      BY <1>1, <1>4
    <2>2. \A j \in k .. e + 1 : block[j] \in S
      BY <1>1, <1>3, <1>4
    <2>3. e + 1 \in right
      BY <2>1, <2>2
    <2> QED BY <1>1, <1>3, <1>4, <2>3
  <1> DEFINE t == [first |-> b, last |-> e]
  <1>8. t \in Runs(block, S)
    <2>1. t \in [first : 1 .. n, last : 1 .. n] /\ b <= e
      BY <1>1, <1>4
    <2> QED BY <2>1, <1>5, <1>6, <1>7 DEF Runs
  <1>9. k \in t.first .. t.last
    BY <1>1, <1>4
  <1> HIDE DEF t
  <1> QED BY <1>8, <1>9

(* Any set that has all the units but white space cuts a text into tokens. *)
LEMMA RunsAreTokens ==
  ASSUME NEW block \in Seq(Unit), NEW S, Unit \subseteq S \union Space
  PROVE  IsTokenization(block, Runs(block, S))
  <1>1. Runs(block, S) \subseteq [first : 1 .. Len(block), last : 1 .. Len(block)]
    BY DEF Runs
  <1>2. \A t \in Runs(block, S) : t.first <= t.last
    BY RunFacts
  <1>3. ASSUME NEW t \in Runs(block, S), NEW u \in Runs(block, S), t # u
        PROVE  t.last < u.first \/ u.last < t.first
    <2>1. t.first \in Nat /\ t.last \in Nat /\ u.first \in Nat /\ u.last \in Nat
      BY <1>3, RunFacts
    <2>2. ~(t.first <= u.last /\ u.first <= t.last)
      BY <1>3, RunsAreDisjoint
    <2> QED BY <2>1, <2>2
  <1>4. ASSUME NEW k \in 1 .. Len(block), block[k] \notin Space
        PROVE  \E t \in Runs(block, S) : k \in t.first .. t.last
    <2>1. block[k] \in S
      BY <1>4, ElementOfSeq
    <2> QED BY <2>1, RunsCover
  <1> QED BY <1>1, <1>2, <1>3, <1>4 DEF IsTokenization

(* The formats vertical and horizontal never lose a character of a line    *)
(* and never put one into two tokens (src/src/token/input_format.cpp).     *)
THEOREM LineTokensAreTokens ==
  ASSUME NEW block \in Texts
  PROVE  /\ IsTokenization(block, VerticalTokens(block))
         /\ IsTokenization(block, HorizontalTokens(block))
  <1>1. block \in Seq(Unit)
    BY TextsAssumption DEF WellFormed
  <1>2. Unit \subseteq (Unit \ {Newline}) \union Space
    BY ClassesAssumption
  <1>3. Unit \subseteq (Unit \ Space) \union Space
    OBVIOUS
  <1>4. IsTokenization(block, Runs(block, Unit \ {Newline}))
    <2> HIDE DEF Unit
    <2> QED BY <1>1, <1>2, RunsAreTokens
  <1>5. IsTokenization(block, Runs(block, Unit \ Space))
    BY <1>1, <1>3, RunsAreTokens
  <1> QED BY <1>4, <1>5 DEF VerticalTokens, HorizontalTokens

(* They cut no surrogate pair: PairsAreKept of Printing holds for original *)
(* and xml.                                                                *)
THEOREM LineTokensKeepPairs ==
  ASSUME NEW block \in Texts, NEW t \in VerticalTokens(block) \union HorizontalTokens(block)
  PROVE  ~IsPairAt(block, t.first - 1) /\ ~IsPairAt(block, t.last)
  <1>1. block \in Seq(Unit) /\ Len(block) \in Nat
    BY TextsAssumption, LenProperties DEF WellFormed
  <1>2. PICK S \in {Unit \ {Newline}, Unit \ Space} : t \in Runs(block, S)
    BY DEF VerticalTokens, HorizontalTokens
  <1>3. \A k \in 1 .. Len(block) : block[k] \notin S => block[k] \in Space
    <2> HIDE DEF Unit
    <2> QED BY <1>1, <1>2, ElementOfSeq, ClassesAssumption
  <1>4. t.first \in 1 .. Len(block) /\ t.last \in 1 .. Len(block)
    BY <1>1, <1>2, RunFacts
  <1>5. ~IsPairAt(block, t.first - 1)
    <2>1. t.first > 1 => t.first - 1 \in 1 .. Len(block) /\ block[t.first - 1] \in Space
      BY <1>1, <1>2, <1>3, <1>4, RunFacts
    <2> QED BY <1>1, <1>4, <2>1, ClassesAssumption DEF IsPairAt
  <1>6. ~IsPairAt(block, t.last)
    <2>1. t.last < Len(block) => t.last + 1 \in 1 .. Len(block) /\ block[t.last + 1] \in Space
      BY <1>1, <1>2, <1>3, <1>4, RunFacts
    <2> QED BY <1>1, <1>4, <2>1, ClassesAssumption DEF IsPairAt
  <1> QED BY <1>5, <1>6

-----------------------------------------------------------------------------
(* Words and single units.                                                 *)

Singles(block) ==
  {Token(k, k) : k \in {j \in 1 .. Len(block) : block[j] \notin AlphaNum \union Space}}

LEMMA SingleFacts ==
  ASSUME NEW block \in Seq(Unit), NEW t \in Singles(block)
  PROVE  /\ t = Token(t.first, t.first)
         /\ t.first \in 1 .. Len(block) /\ t.last = t.first
         /\ block[t.first] \notin AlphaNum \union Space
  BY DEF Singles, Token

LEMMA UntokenizedFacts ==
  ASSUME NEW block \in Seq(Unit), NEW t \in UntokenizedTokens(block)
  PROVE  /\ t \in Runs(block, AlphaNum) \/ t \in Singles(block)
         /\ t \in [first : 1 .. Len(block), last : 1 .. Len(block)]
         /\ t.first \in Nat /\ t.last \in Nat /\ t.first <= t.last
         /\ block[t.first] \notin Space
  <1>1. t \in Runs(block, AlphaNum) \/ t \in Singles(block)
    BY DEF UntokenizedTokens, Singles
  <1>2. CASE t \in Runs(block, AlphaNum)
    <2>1. t.first \in t.first .. t.last
      BY <1>2, RunFacts
    <2>2. block[t.first] \in AlphaNum
      BY <1>2, <2>1, RunFacts
    <2> QED BY <1>2, <2>2, RunFacts, ClassesAssumption
  <1>3. CASE t \in Singles(block)
    <2>1. Len(block) \in Nat /\ t.first \in 1 .. Len(block) /\ t.last = t.first
      BY <1>3, SingleFacts, LenProperties
    <2>2. t = [first |-> t.first, last |-> t.first]
      BY <1>3, SingleFacts DEF Token
    <2>3. t \in [first : 1 .. Len(block), last : 1 .. Len(block)]
      BY <2>1, <2>2
    <2> QED BY <1>3, <2>1, <2>3, SingleFacts
  <1> QED BY <1>1, <1>2, <1>3

LEMMA UntokenizedAreDisjoint ==
  ASSUME NEW block \in Seq(Unit),
         NEW t \in UntokenizedTokens(block), NEW u \in UntokenizedTokens(block),
         t.first <= u.last, u.first <= t.last
  PROVE  t = u
  <1>1. /\ t.first \in Nat /\ t.last \in Nat /\ t.first <= t.last
        /\ u.first \in Nat /\ u.last \in Nat /\ u.first <= u.last
    BY UntokenizedFacts
  <1>2. CASE t \in Runs(block, AlphaNum) /\ u \in Runs(block, AlphaNum)
    BY <1>2, RunsAreDisjoint
  <1>3. CASE t \in Singles(block) /\ u \in Singles(block)
    <2>1. t.first = u.first
      BY <1>1, <1>3, SingleFacts
    <2> QED BY <1>3, <2>1, SingleFacts
  <1>4. CASE t \in Runs(block, AlphaNum) /\ u \in Singles(block)
    <2>1. u.first \in t.first .. t.last
      BY <1>1, <1>4, SingleFacts
    <2> QED BY <1>4, <2>1, RunFacts, SingleFacts
  <1>5. CASE t \in Singles(block) /\ u \in Runs(block, AlphaNum)
    <2>1. t.first \in u.first .. u.last
      BY <1>1, <1>5, SingleFacts
    <2> QED BY <1>5, <2>1, RunFacts, SingleFacts
  <1> QED BY <1>2, <1>3, <1>4, <1>5, UntokenizedFacts

(* The same for the formats that look for words.                           *)
THEOREM UntokenizedTokensAreTokens ==
  ASSUME NEW block \in Texts
  PROVE  IsTokenization(block, UntokenizedTokens(block))
  <1>1. block \in Seq(Unit)
    BY TextsAssumption DEF WellFormed
  <1>2. /\ UntokenizedTokens(block) \subseteq [first : 1 .. Len(block), last : 1 .. Len(block)]
        /\ \A t \in UntokenizedTokens(block) : t.first <= t.last
    BY <1>1, UntokenizedFacts
  <1>3. ASSUME NEW t \in UntokenizedTokens(block), NEW u \in UntokenizedTokens(block), t # u
        PROVE  t.last < u.first \/ u.last < t.first
    <2>1. t.first \in Nat /\ t.last \in Nat /\ u.first \in Nat /\ u.last \in Nat
      BY <1>1, <1>3, UntokenizedFacts
    <2>2. ~(t.first <= u.last /\ u.first <= t.last)
      BY <1>1, <1>3, UntokenizedAreDisjoint
    <2> QED BY <2>1, <2>2
  <1>4. ASSUME NEW k \in 1 .. Len(block), block[k] \notin Space
        PROVE  \E t \in UntokenizedTokens(block) : k \in t.first .. t.last
    <2>1. CASE block[k] \in AlphaNum
      BY <1>1, <2>1, RunsCover DEF UntokenizedTokens
    <2>2. CASE block[k] \notin AlphaNum
      <3>1. Token(k, k) \in UntokenizedTokens(block)
        BY <1>4, <2>2 DEF UntokenizedTokens
      <3>2. k \in Token(k, k).first .. Token(k, k).last
        BY <1>1, LenProperties DEF Token
      <3> QED BY <3>1, <3>2
    <2> QED BY <2>1, <2>2
  <1> QED BY <1>2, <1>3, <1>4 DEF IsTokenization

-----------------------------------------------------------------------------
(* The loop over the units.                                                *)

(* It has found every token that begins before its position, and the       *)
(* position is not inside a token.                                         *)
Found == {tokens[k] : k \in 1 .. Len(tokens)}

Before(n) == {t \in UntokenizedTokens(text) : t.first < n}

Between(n) == \A t \in UntokenizedTokens(text) : t.last < n \/ n <= t.first

IsIncreasing == \A k \in 1 .. Len(tokens) - 1 : tokens[k].last < tokens[k + 1].first

TokensInv ==
  /\ text \in Texts
  /\ pc \in {"ends", "tokens", "sentences", "done"}
  /\ pc = "ends" => i \in Nat /\ tokens = <<>>
  /\ pc = "tokens" => /\ i \in 1 .. Len(text) + 1
                      /\ tokens \in Seq(UntokenizedTokens(text))
                      /\ Found = Before(i)
                      /\ Between(i)
                      /\ IsIncreasing
  /\ pc \in {"sentences", "done"} => /\ Found = UntokenizedTokens(text)
                                     /\ IsIncreasing

LEMMA TextIsSeq ==
  ASSUME text \in Texts
  PROVE  text \in Seq(Unit) /\ Len(text) \in Nat
  BY TextsAssumption, LenProperties DEF WellFormed

(* A token that begins at the position is all that the loop has to add.    *)
LEMMA TokenIsNext ==
  ASSUME TokensInv, pc = "tokens",
         NEW t \in UntokenizedTokens(text), t.first = i,
         tokens' = Append(tokens, t), i' = t.last + 1,
         text' = text, pc' = pc
  PROVE  TokensInv'
  <1>1. /\ text \in Seq(Unit) /\ Len(text) \in Nat
        /\ i \in Nat /\ t.last \in Nat /\ i <= t.last /\ t.last \in 1 .. Len(text)
        /\ tokens \in Seq(UntokenizedTokens(text)) /\ Len(tokens) \in Nat
    BY TextIsSeq, UntokenizedFacts, LenProperties DEF TokensInv
  <1>2. /\ tokens' \in Seq(UntokenizedTokens(text))
        /\ Len(tokens') = Len(tokens) + 1
        /\ \A k \in 1 .. Len(tokens) : tokens'[k] = tokens[k]
        /\ tokens'[Len(tokens) + 1] = t
    BY <1>1, AppendProperties
  <1>3. ASSUME NEW u \in UntokenizedTokens(text)
        PROVE  /\ u.first < t.last + 1 <=> u.first < i \/ u = t
               /\ u.last < t.last + 1 \/ t.last + 1 <= u.first
    <2>1. u.first \in Nat /\ u.last \in Nat /\ u.first <= u.last
      BY <1>1, UntokenizedFacts
    <2>2. u.last < i \/ i <= u.first
      BY DEF TokensInv, Between
    <2>3. CASE u.first < i
      BY <1>1, <2>1, <2>2, <2>3
    <2>4. CASE i <= u.first /\ u.first <= t.last
      <3>1. t.first <= u.last
        BY <1>1, <2>1, <2>4
      <3>2. u = t
        BY <1>1, <2>4, <3>1, UntokenizedAreDisjoint
      <3> QED BY <1>1, <3>2
    <2>5. CASE t.last < u.first
      <3>1. u # t
        BY <1>1, <2>1, <2>5
      <3> QED BY <1>1, <2>1, <2>5, <3>1
    <2> QED BY <1>1, <2>1, <2>3, <2>4, <2>5
  <1>4. Found' = Before(i)'
    <2>1. Found' = Found \union {t}
      BY <1>1, <1>2 DEF Found
    <2>2. Before(i)' = Before(i) \union {t}
      BY <1>3 DEF Before
    <2> QED BY <2>1, <2>2 DEF TokensInv
  <1>5. Between(i)'
    BY <1>3 DEF Between
  <1>6. IsIncreasing'
    <2> SUFFICES ASSUME NEW k \in 1 .. Len(tokens') - 1
                 PROVE  tokens'[k].last < tokens'[k + 1].first
      BY DEF IsIncreasing
    <2>1. CASE k < Len(tokens)
      <3>1. k \in 1 .. Len(tokens) - 1 /\ k \in 1 .. Len(tokens) /\ k + 1 \in 1 .. Len(tokens)
        BY <1>1, <1>2, <2>1
      <3> QED BY <1>2, <3>1 DEF TokensInv, IsIncreasing
    <2>2. CASE k = Len(tokens)
      <3>1. tokens[k] \in Before(i)
        BY <1>1, <1>2, <2>2 DEF TokensInv, Found
      <3>2. tokens[k].first < i /\ tokens[k] \in UntokenizedTokens(text)
        BY <3>1 DEF Before
      <3>3. tokens[k].last < i
        <4>1. tokens[k].first \in Nat
          BY <1>1, <3>2, UntokenizedFacts
        <4>2. tokens[k].last < i \/ i <= tokens[k].first
          BY <3>2 DEF TokensInv, Between
        <4> QED BY <1>1, <3>2, <4>1, <4>2
      <3>4. tokens'[k] = tokens[k] /\ tokens'[k + 1] = t
        BY <1>2, <2>2
      <3> QED BY <3>3, <3>4
    <2> QED BY <1>1, <1>2, <2>1, <2>2
  <1>7. i' \in 1 .. Len(text) + 1
    BY <1>1
  <1> QED BY <1>2, <1>4, <1>5, <1>6, <1>7 DEF TokensInv

(* TokenizeWord stops at the end of the stretch that begins at i.          *)
LEMMA WordIsRun ==
  ASSUME TokensInv, pc = "tokens", i <= Len(text), text[i] \in AlphaNum
  PROVE  Token(i, RunAfter(i, AlphaNum)) \in UntokenizedTokens(text)
  <1> DEFINE S == {e \in i .. Len(text) : \A j \in i + 1 .. e : text[j] \in AlphaNum}
             e == RunAfter(i, AlphaNum)
  <1>1. /\ text \in Seq(Unit) /\ Len(text) \in Nat
        /\ i \in 1 .. Len(text)
    BY TextIsSeq DEF TokensInv
  <1>2. e \in S /\ \A k \in S : k <= e
    <2>1. S \in SUBSET (0 .. Len(text)) /\ i \in S
      BY <1>1
    <2>2. e = Greatest(S)
      BY DEF RunAfter
    <2> HIDE DEF S, e
    <2> QED BY <1>1, <2>1, <2>2, GreatestIsGreatest
  <1> HIDE DEF e
  <1>3. e \in i .. Len(text) /\ \A j \in i .. e : text[j] \in AlphaNum
    BY <1>1, <1>2
  <1>4. e < Len(text) => text[e + 1] \notin AlphaNum
    <2> SUFFICES ASSUME e < Len(text), text[e + 1] \in AlphaNum PROVE FALSE
      OBVIOUS
    <2>1. e + 1 \in i .. Len(text)
      BY <1>1, <1>3
    <2>2. \A j \in i + 1 .. e + 1 : text[j] \in AlphaNum
      BY <1>1, <1>3
    <2>3. e + 1 <= e
      BY <1>2, <2>1, <2>2
    <2> QED BY <1>1, <1>3, <2>3
  <1>5. i > 1 => text[i - 1] \notin AlphaNum
    <2> SUFFICES ASSUME i > 1, text[i - 1] \in AlphaNum PROVE FALSE
      OBVIOUS
    <2>1. i - 1 \in 1 .. Len(text)
      BY <1>1
    <2>2. PICK u \in Runs(text, AlphaNum) : i - 1 \in u.first .. u.last
      BY <1>1, <2>1, RunsCover
    <2>3. u \in UntokenizedTokens(text)
      BY DEF UntokenizedTokens
    <2>4. u.first \in Nat /\ u.last \in Nat /\ u.first <= i - 1 /\ i - 1 <= u.last
      BY <1>1, <2>2, RunFacts
    <2>5. u.last < i \/ i <= u.first
      BY <2>3 DEF TokensInv, Between
    <2>6. u.last = i - 1 /\ u.last < Len(text) /\ u.last + 1 = i
      BY <1>1, <2>4, <2>5
    <2>7. text[u.last + 1] \notin AlphaNum
      BY <1>1, <2>6, RunFacts
    <2> QED BY <2>6, <2>7
  <1>6. [first |-> i, last |-> e] \in Runs(text, AlphaNum)
    <2>1. [first |-> i, last |-> e] \in [first : 1 .. Len(text), last : 1 .. Len(text)]
      BY <1>1, <1>3
    <2> QED BY <1>1, <1>3, <1>4, <1>5, <2>1 DEF Runs
  <1> QED BY <1>6 DEF Token, UntokenizedTokens, e

LEMMA TokensBegin == Init => TokensInv
  BY DEF Init, TokensInv

LEMMA TokensStep == TokensInv /\ [Next]_vars => TokensInv'
  <1> SUFFICES ASSUME TokensInv, [Next]_vars PROVE TokensInv'
    OBVIOUS
  <1> USE TextIsSeq DEF TokensInv
  <1>1. CASE LookForEnd
    BY <1>1 DEF LookForEnd, input
  <1>2. CASE StartTokens
    <2>1. Before(1) = {} /\ Between(1)
      <3>1. \A t \in UntokenizedTokens(text) : t.first \in 1 .. Len(text)
        BY UntokenizedFacts
      <3> QED BY <3>1 DEF Before, Between
    <2>2. i' = 1 /\ pc' = "tokens" /\ text' = text /\ tokens' = <<>>
      BY <1>2 DEF StartTokens, input
    <2>3. Found' = {} /\ IsIncreasing'
      BY <2>2 DEF Found, IsIncreasing
    <2>4. Before(i)' = Before(1) /\ (Between(i)' <=> Between(1))
      BY <2>2 DEF Before, Between
    <2>5. tokens' \in Seq(UntokenizedTokens(text))
      BY <2>2, EmptySeq
    <2> QED BY <2>1, <2>2, <2>3, <2>4, <2>5
  <1>3. CASE TokenizeWord
    <2>1. Token(i, RunAfter(i, AlphaNum)) \in UntokenizedTokens(text)
      BY <1>3, WordIsRun DEF TokenizeWord
    <2> QED BY <1>3, <2>1, TokenIsNext DEF TokenizeWord, AddToken, Token, input
  <1>4. CASE TokenizeUnit
    <2>1. Token(i, i) \in UntokenizedTokens(text)
      BY <1>4 DEF TokenizeUnit, UntokenizedTokens
    <2> QED BY <1>4, <2>1, TokenIsNext DEF TokenizeUnit, AddToken, Token, input
  <1>5. CASE SkipSpace
    <2>1. i' = i + 1 /\ pc' = pc /\ text' = text /\ tokens' = tokens /\ pc = "tokens"
      BY <1>5 DEF SkipSpace, input
    <2>2. i \in 1 .. Len(text)
      BY <1>5 DEF SkipSpace
    <2>3. ASSUME NEW t \in UntokenizedTokens(text)
          PROVE  /\ t.first < i + 1 <=> t.first < i
                 /\ t.last < i + 1 \/ i + 1 <= t.first
      <3>1. t.first \in Nat /\ t.last \in Nat /\ t.first <= t.last /\ t.first # i
        BY <1>5, UntokenizedFacts DEF SkipSpace
      <3>2. t.last < i \/ i <= t.first
        BY <2>1 DEF Between
      <3> QED BY <2>2, <3>1, <3>2
    <2>4. Found' = Found /\ Before(i)' = Before(i) /\ (IsIncreasing' <=> IsIncreasing)
      BY <2>1, <2>3 DEF Found, Before, IsIncreasing
    <2>5. Between(i)'
      BY <2>1, <2>3 DEF Between
    <2> QED BY <2>1, <2>2, <2>4, <2>5
  <1>6. CASE StartSentences
    <2>1. Before(i) = UntokenizedTokens(text)
      <3>1. \A t \in UntokenizedTokens(text) : t.first \in 1 .. Len(text)
        BY UntokenizedFacts
      <3> QED BY <1>6, <3>1 DEF StartSentences, Before
    <2>2. pc = "tokens" /\ pc' = "sentences" /\ text' = text /\ tokens' = tokens
      BY <1>6 DEF StartSentences, input
    <2> QED BY <2>1, <2>2 DEF Found, IsIncreasing
  <1>7. CASE PlaceToken
    BY <1>7 DEF PlaceToken, input, Found, IsIncreasing
  <1>8. CASE Return
    BY <1>8 DEF Return, input, Found, IsIncreasing
  <1>9. CASE UNCHANGED vars
    BY <1>9 DEF vars, input, Found, Before, Between, IsIncreasing
  <1> QED BY <1>1, <1>2, <1>3, <1>4, <1>5, <1>6, <1>7, <1>8, <1>9 DEF Next

(* The loop over the units finds exactly the tokens that the format        *)
(* promises, in their order and for every text and every option:           *)
(* Tokenizer::Tokenize, src/src/token/tokenizer.cpp:63-79.                 *)
THEOREM TokenizerKeepsItsPromise == Spec => []TokensArePromised
  <1>1. TokensInv => TokensArePromised
    BY DEF TokensInv, TokensArePromised, Found, IsIncreasing
  <1> QED BY <1>1, TokensBegin, TokensStep, PTL DEF Spec

-----------------------------------------------------------------------------
(* Sequences that are cut into sentences.                                  *)

IsCutBefore(units, E, k) == \E e \in E : units[k - 1].first <= e /\ e < units[k].first

Starts(units, E) == {k \in 1 .. Len(units) : k = 1 \/ IsCutBefore(units, E, k)}

StartsTo(units, E, k) == {s \in Starts(units, E) : s <= k}

LaterStarts(units, E, k) == {s \in Starts(units, E) : s > k}

EndOfCut(units, E, k) ==
  IF LaterStarts(units, E, k) = {} THEN Len(units)
  ELSE (CHOOSE s \in LaterStarts(units, E, k) :
          \A r \in LaterStarts(units, E, k) : s <= r) - 1

IsCut(R, units, E) ==
  /\ Len(R) = Cardinality(Starts(units, E))
  /\ \A k \in Starts(units, E) :
       R[Cardinality(StartsTo(units, E, k))] = SubSeq(units, k, EndOfCut(units, E, k))

LEMMA CutIsIsCutAt ==
  ASSUME NEW R, NEW units, NEW E
  PROVE  IsCutAt(R, units, E) <=> IsCut(R, units, E)
  BY DEF IsCutAt, IsCut, Starts, StartsTo, LaterStarts, EndOfCut, IsCutBefore

LEMMA StartsAreFinite ==
  ASSUME NEW T, NEW units \in Seq(T), NEW E
  PROVE  /\ Starts(units, E) \subseteq 1 .. Len(units)
         /\ Len(units) \in Nat
         /\ IsFiniteSet(Starts(units, E))
         /\ Cardinality(Starts(units, E)) \in Nat
         /\ \A k : /\ IsFiniteSet(StartsTo(units, E, k))
                   /\ Cardinality(StartsTo(units, E, k)) \in Nat
  <1>1. Starts(units, E) \subseteq 1 .. Len(units) /\ Len(units) \in Nat
    BY LenProperties DEF Starts
  <1>2. IsFiniteSet(1 .. Len(units))
    BY <1>1, FS_Interval
  <1>3. IsFiniteSet(Starts(units, E))
    BY <1>1, <1>2, FS_Subset
  <1>4. ASSUME NEW k
        PROVE  IsFiniteSet(StartsTo(units, E, k))
    BY <1>3, FS_Subset DEF StartsTo
  <1> QED BY <1>1, <1>3, <1>4, FS_CardinalityType

(* The number of a start is that of the sentence; the last start has the   *)
(* number of the last sentence.                                            *)
LEMMA StartNumbers ==
  ASSUME NEW T, NEW units \in Seq(T), NEW E, NEW k \in Starts(units, E)
  PROVE  /\ Cardinality(StartsTo(units, E, k)) \in 1 .. Cardinality(Starts(units, E))
         /\ LaterStarts(units, E, k) = {} =>
              Cardinality(StartsTo(units, E, k)) = Cardinality(Starts(units, E))
         /\ LaterStarts(units, E, k) # {} =>
              Cardinality(StartsTo(units, E, k)) < Cardinality(Starts(units, E))
  <1> DEFINE S == Starts(units, E)
             A == StartsTo(units, E, k)
             B == LaterStarts(units, E, k)
  <1>1. /\ S \subseteq 1 .. Len(units) /\ Len(units) \in Nat
        /\ IsFiniteSet(S) /\ Cardinality(S) \in Nat
        /\ IsFiniteSet(A) /\ Cardinality(A) \in Nat
    BY StartsAreFinite
  <1>2. A \subseteq S /\ k \in A /\ (B = {} => A = S) /\ (B # {} => A # S)
    BY <1>1 DEF StartsTo, LaterStarts
  <1> HIDE DEF S, A, B
  <1>3. Cardinality(A) <= Cardinality(S) /\ (Cardinality(A) = Cardinality(S) => A = S)
    BY <1>1, <1>2, FS_Subset
  <1>4. Cardinality(A) # 0
    BY <1>1, <1>2, FS_EmptySet
  <1> QED BY <1>1, <1>2, <1>3, <1>4 DEF S, A, B

LEMMA EndsOfCuts ==
  ASSUME NEW T, NEW units \in Seq(T), NEW E, NEW k \in Starts(units, E)
  PROVE  /\ EndOfCut(units, E, k) \in k .. Len(units)
         /\ LaterStarts(units, E, k) = {} => EndOfCut(units, E, k) = Len(units)
         /\ LaterStarts(units, E, k) # {} =>
              /\ EndOfCut(units, E, k) + 1 \in LaterStarts(units, E, k)
              /\ \A r \in LaterStarts(units, E, k) : EndOfCut(units, E, k) + 1 <= r
  <1> DEFINE B == LaterStarts(units, E, k)
             least == CHOOSE s \in B : \A r \in B : s <= r
  <1>1. Starts(units, E) \subseteq 1 .. Len(units) /\ Len(units) \in Nat
    BY StartsAreFinite
  <1>2. k \in 1 .. Len(units) /\ B \in SUBSET (k + 1 .. Len(units))
    BY <1>1 DEF LaterStarts
  <1>3. CASE B = {}
    BY <1>1, <1>2, <1>3 DEF EndOfCut
  <1>4. CASE B # {}
    <2>1. \E s \in B : \A r \in B : s <= r
      <3>1. B \in SUBSET Nat
        BY <1>2
      <3> HIDE DEF B
      <3> QED BY <1>4, <3>1, LeastExists
    <2>2. least \in B /\ \A r \in B : least <= r
      <3> HIDE DEF B
      <3> QED BY <2>1
    <2>3. EndOfCut(units, E, k) = least - 1
      BY <1>4 DEF EndOfCut
    <2>4. least \in k + 1 .. Len(units)
      BY <1>2, <2>2
    <2> HIDE DEF least, B
    <2>5. least - 1 + 1 = least /\ least - 1 \in k .. Len(units)
      BY <1>1, <1>2, <2>4
    <2> QED BY <1>4, <2>2, <2>3, <2>5 DEF B
  <1> QED BY <1>3, <1>4

LEMMA StartsGrow ==
  ASSUME NEW T, NEW units \in Seq(T), NEW t \in T, NEW E
  PROVE  LET more == Append(units, t)
             n == Len(units) + 1
         IN  Starts(more, E) = Starts(units, E)
               \union (IF n = 1 \/ IsCutBefore(more, E, n) THEN {n} ELSE {})
  <1> DEFINE more == Append(units, t)
             n == Len(units) + 1
  <1>1. /\ Len(units) \in Nat /\ Len(more) = n
        /\ \A k \in 1 .. Len(units) : more[k] = units[k]
    BY AppendProperties, LenProperties
  <1>2. \A k \in 2 .. Len(units) : k \in 1 .. Len(units) /\ k - 1 \in 1 .. Len(units)
    BY <1>1
  <1>3. \A k \in 2 .. Len(units) : more[k] = units[k] /\ more[k - 1] = units[k - 1]
    <2> HIDE DEF more
    <2> QED BY <1>1, <1>2
  <1>4. \A k \in 2 .. Len(units) : IsCutBefore(more, E, k) <=> IsCutBefore(units, E, k)
    <2> HIDE DEF more
    <2> QED BY <1>3 DEF IsCutBefore
  <1>5. \A k : k \in 1 .. Len(more) <=> k = 1 \/ k \in 2 .. Len(units) \/ k = n
    <2> HIDE DEF more
    <2> QED BY <1>1
  <1>6. \A k : k \in 1 .. Len(units) <=> (k = 1 /\ n # 1) \/ k \in 2 .. Len(units)
    BY <1>1
  <1>7. \A k : k \in 2 .. Len(units) => k # n /\ k # 1
    BY <1>1
  <1> HIDE DEF more, n
  <1>8. \A k : k \in Starts(more, E) <=>
                 k \in Starts(units, E) \/ (k = n /\ (n = 1 \/ IsCutBefore(more, E, n)))
    BY <1>4, <1>5, <1>6, <1>7 DEF Starts
  <1>9. Starts(more, E) = Starts(units, E)
               \union (IF n = 1 \/ IsCutBefore(more, E, n) THEN {n} ELSE {})
    BY <1>8
  <1> QED BY <1>9 DEF more, n
LEMMA SameParts ==
  ASSUME NEW s, NEW q, NEW m \in Int, NEW n \in Int, \A j \in m .. n : s[j] = q[j]
  PROVE  SubSeq(s, m, n) = SubSeq(q, m, n)
  <1>1. SubSeq(s, m, n) = [j \in 1 .. n - m + 1 |-> s[m + j - 1]]
    OBVIOUS
  <1>2. SubSeq(q, m, n) = [j \in 1 .. n - m + 1 |-> q[m + j - 1]]
    OBVIOUS
  <1>3. \A j \in 1 .. n - m + 1 : m + j - 1 \in m .. n
    OBVIOUS
  <1> QED BY <1>1, <1>2, <1>3

(* A token that begins a sentence.                                         *)
LEMMA CutBeforeToken ==
  ASSUME NEW T, NEW units \in Seq(T), NEW t \in T, NEW E, NEW R \in Seq(Seq(T)),
         IsCut(R, units, E),
         Len(units) = 0 \/ IsCutBefore(Append(units, t), E, Len(units) + 1)
  PROVE  IsCut(Append(R, <<t>>), Append(units, t), E)
  <1> DEFINE more == Append(units, t)
             n == Len(units) + 1
             S == Starts(units, E)
  <1>1. /\ more \in Seq(T) /\ Len(units) \in Nat /\ Len(more) = n
        /\ \A k \in 1 .. Len(units) : more[k] = units[k]
        /\ more[n] = t
    BY AppendProperties, LenProperties
  <1>2. /\ S \subseteq 1 .. Len(units) /\ IsFiniteSet(S) /\ Cardinality(S) \in Nat
    BY StartsAreFinite
  <1>3. Starts(more, E) = S \union {n} /\ n \notin S /\ \A s \in S : s < n
    <2>1. n = 1 \/ IsCutBefore(more, E, n)
      BY <1>1
    <2>2. Starts(more, E) = S \union (IF n = 1 \/ IsCutBefore(more, E, n) THEN {n} ELSE {})
      BY StartsGrow
    <2> QED BY <1>1, <1>2, <2>1, <2>2
  <1>4. Cardinality(Starts(more, E)) = Cardinality(S) + 1
    <2> HIDE DEF S, n, more
    <2> QED BY <1>2, <1>3, FS_AddElement
  <1>5. /\ Len(R) = Cardinality(S) /\ Len(R) \in Nat
        /\ Len(Append(R, <<t>>)) = Len(R) + 1
        /\ \A j \in 1 .. Len(R) : Append(R, <<t>>)[j] = R[j]
        /\ Append(R, <<t>>)[Len(R) + 1] = <<t>>
    BY AppendProperties, LenProperties DEF IsCut
  <1>6. ASSUME NEW k \in S
        PROVE  Append(R, <<t>>)[Cardinality(StartsTo(more, E, k))]
                 = SubSeq(more, k, EndOfCut(more, E, k))
    <2>1. k \in 1 .. Len(units) /\ k < n
      BY <1>1, <1>2
    <2>2. StartsTo(more, E, k) = StartsTo(units, E, k)
      <3> HIDE DEF more, n
      <3>1. n \in Nat /\ k \in Nat /\ S \subseteq Nat
        BY <1>1, <1>2 DEF n
      <3> QED BY <1>3, <2>1, <3>1 DEF StartsTo, S
    <2>3. Cardinality(StartsTo(units, E, k)) \in 1 .. Len(R)
      BY <1>5, StartNumbers
    <2>4. LaterStarts(more, E, k) = LaterStarts(units, E, k) \union {n}
      <3> HIDE DEF more, n
      <3>1. n \in Nat /\ k \in Nat /\ S \subseteq Nat
        BY <1>1, <1>2 DEF n
      <3> QED BY <1>3, <2>1, <3>1 DEF LaterStarts, S
    <2>5. EndOfCut(more, E, k) = EndOfCut(units, E, k)
      <3> DEFINE e == EndOfCut(units, E, k)
                 f == EndOfCut(more, E, k)
      <3>1. k \in Starts(more, E)
        BY <1>3
      <3>2. f + 1 \in LaterStarts(more, E, k) /\ \A r \in LaterStarts(more, E, k) : f + 1 <= r
        BY <1>1, <2>4, <3>1, EndsOfCuts
      <3>3. f \in k .. n
        BY <1>1, <3>1, EndsOfCuts
      <3>4. e \in k .. Len(units)
        BY EndsOfCuts
      <3>5. CASE LaterStarts(units, E, k) = {}
        <4>1. f + 1 = n
          BY <2>4, <3>2, <3>5
        <4>2. e = Len(units)
          BY <3>5, EndsOfCuts
        <4> HIDE DEF e, f
        <4> QED BY <1>1, <3>3, <3>4, <4>1, <4>2 DEF e, f
      <3>6. CASE LaterStarts(units, E, k) # {}
        <4>1. e + 1 \in LaterStarts(units, E, k) /\ \A r \in LaterStarts(units, E, k) : e + 1 <= r
          BY <3>6, EndsOfCuts
        <4>2. e + 1 \in 1 .. Len(units)
          BY <1>2, <4>1 DEF LaterStarts
        <4>3. f + 1 <= e + 1
          BY <2>4, <3>2, <4>1
        <4> HIDE DEF e, f
        <4>4. f + 1 # n
          BY <1>1, <3>3, <3>4, <4>2, <4>3
        <4>5. f + 1 \in LaterStarts(units, E, k)
          BY <2>4, <3>2, <4>4
        <4> QED BY <1>1, <3>3, <3>4, <4>1, <4>3, <4>5 DEF e, f
      <3> QED BY <3>5, <3>6
    <2>6. SubSeq(more, k, EndOfCut(units, E, k)) = SubSeq(units, k, EndOfCut(units, E, k))
      <3> DEFINE e == EndOfCut(units, E, k)
      <3>1. e \in k .. Len(units)
        BY EndsOfCuts
      <3>2. \A j \in k .. e : more[j] = units[j]
        <4>1. \A j \in k .. e : j \in 1 .. Len(units)
          BY <1>1, <2>1, <3>1
        <4> HIDE DEF more, e
        <4> QED BY <1>1, <4>1
      <3>3. k \in Int /\ e \in Int
        BY <2>1, <3>1, <1>1
      <3> HIDE DEF more, e
      <3>4. SubSeq(more, k, e) = SubSeq(units, k, e)
        BY <3>2, <3>3, SameParts
      <3> QED BY <3>4 DEF e
    <2> HIDE DEF more
    <2> QED BY <1>5, <2>2, <2>3, <2>5, <2>6 DEF IsCut
  <1>7. Append(R, <<t>>)[Cardinality(StartsTo(more, E, n))] = SubSeq(more, n, EndOfCut(more, E, n))
    <2>1. n \in Starts(more, E) /\ LaterStarts(more, E, n) = {}
      <3> HIDE DEF more, n
      <3>1. n \in Nat /\ S \subseteq Nat
        BY <1>1, <1>2 DEF n
      <3> QED BY <1>3, <3>1 DEF LaterStarts
    <2>2. Cardinality(StartsTo(more, E, n)) = Len(R) + 1
      BY <1>1, <1>4, <1>5, <2>1, StartNumbers
    <2>3. EndOfCut(more, E, n) = n
      BY <1>1, <2>1, EndsOfCuts
    <2>4. SubSeq(more, n, n) = <<t>>
      <3> HIDE DEF more
      <3> HIDE DEF n
      <3>1. n \in Int
        BY <1>1 DEF n
      <3>2. SubSeq(more, n, n) = [j \in 1 .. n - n + 1 |-> more[n + j - 1]]
        BY <3>1
      <3>3. n - n + 1 = 1 /\ \A j \in 1 .. 1 : n + j - 1 = n
        BY <3>1
      <3>4. SubSeq(more, n, n) = [j \in 1 .. 1 |-> t]
        BY <1>1, <3>2, <3>3
      <3> QED BY <3>4
    <2> QED BY <1>5, <2>2, <2>3, <2>4
  <1> HIDE DEF more, n, S
  <1>8. IsCut(Append(R, <<t>>), more, E)
    BY <1>3, <1>4, <1>5, <1>6, <1>7 DEF IsCut
  <1> QED BY <1>8 DEF more

(* A token that goes on with the last sentence.                            *)
LEMMA CutAfterToken ==
  ASSUME NEW T, NEW units \in Seq(T), NEW t \in T, NEW E, NEW R \in Seq(Seq(T)),
         IsCut(R, units, E),
         Len(units) # 0, ~IsCutBefore(Append(units, t), E, Len(units) + 1)
  PROVE  /\ Len(R) # 0
         /\ IsCut([R EXCEPT ![Len(R)] = Append(@, t)], Append(units, t), E)
  <1> DEFINE more == Append(units, t)
             n == Len(units) + 1
             S == Starts(units, E)
             Q == [R EXCEPT ![Len(R)] = Append(@, t)]
  <1>1. /\ more \in Seq(T) /\ Len(units) \in Nat /\ Len(more) = n
        /\ \A k \in 1 .. Len(units) : more[k] = units[k]
        /\ more[n] = t
    BY AppendProperties, LenProperties
  <1>2. /\ S \subseteq 1 .. Len(units) /\ IsFiniteSet(S) /\ Cardinality(S) \in Nat
    BY StartsAreFinite
  <1>3. Starts(more, E) = S
    <2>1. ~(n = 1 \/ IsCutBefore(more, E, n))
      BY <1>1
    <2>2. Starts(more, E) = S \union (IF n = 1 \/ IsCutBefore(more, E, n) THEN {n} ELSE {})
      BY StartsGrow
    <2> QED BY <2>1, <2>2
  <1>4. Len(R) = Cardinality(S) /\ Len(R) \in Nat /\ Len(R) # 0
    <2>1. 1 \in S
      BY <1>1 DEF Starts
    <2>2. Cardinality(S) # 0
      <3> HIDE DEF S
      <3> QED BY <1>2, <2>1, FS_EmptySet
    <2> QED BY <2>2, LenProperties DEF IsCut
  <1>5. /\ Len(Q) = Len(R)
        /\ \A j \in 1 .. Len(R) : j # Len(R) => Q[j] = R[j]
        /\ Q[Len(R)] = Append(R[Len(R)], t)
    <2>1. Len(R) \in 1 .. Len(R) /\ R \in [1 .. Len(R) -> Seq(T)]
      BY <1>4, LenProperties
    <2>2. DOMAIN Q = 1 .. Len(R)
      BY <2>1
    <2>3. Q \in Seq(Seq(T))
      <3>1. R[Len(R)] \in Seq(T)
        BY <2>1
      <3>2. Append(R[Len(R)], t) \in Seq(T)
        BY <3>1, AppendProperties
      <3> QED BY <2>1, <3>2, ExceptSeq
    <2>4. Len(Q) = Len(R)
      <3> HIDE DEF Q
      <3>1. DOMAIN Q = 1 .. Len(Q) /\ Len(Q) \in Nat
        BY <2>3, LenProperties
      <3> QED BY <1>4, <2>2, <3>1
    <2> QED BY <2>1, <2>4
  <1>6. ASSUME NEW k \in S
        PROVE  Q[Cardinality(StartsTo(more, E, k))] = SubSeq(more, k, EndOfCut(more, E, k))
    <2> DEFINE number == Cardinality(StartsTo(units, E, k))
    <2>1. k \in 1 .. Len(units) /\ k \in Starts(more, E)
      BY <1>2, <1>3
    <2>2. /\ StartsTo(more, E, k) = StartsTo(units, E, k)
          /\ LaterStarts(more, E, k) = LaterStarts(units, E, k)
      <3> HIDE DEF more
      <3> QED BY <1>3 DEF StartsTo, LaterStarts, S
    <2>3. number \in 1 .. Len(R)
      BY <1>4, StartNumbers
    <2>4. R[number] = SubSeq(units, k, EndOfCut(units, E, k))
      BY DEF IsCut
    <2>5. CASE LaterStarts(units, E, k) = {}
      <3>1. number = Len(R)
        BY <1>4, <2>5, StartNumbers
      <3>2. EndOfCut(units, E, k) = Len(units)
        BY <2>5, EndsOfCuts
      <3>3. EndOfCut(more, E, k) = n
        BY <1>1, <2>1, <2>2, <2>5, EndsOfCuts
      <3>4. Append(SubSeq(units, k, Len(units)), t) = SubSeq(more, k, n)
        <4> DEFINE a == Append(SubSeq(units, k, Len(units)), t)
                   b == SubSeq(more, k, n)
                   l == Len(units) - k + 1
        <4>1. l \in Nat /\ k + l = n /\ k + (l + 1) - 1 = n /\ n - k + 1 = l + 1
          BY <1>1, <2>1
        <4>2. \A j \in 1 .. l : k + j - 1 \in 1 .. Len(units)
          BY <1>1, <2>1
        <4>3. /\ SubSeq(units, k, Len(units)) = [j \in 1 .. l |-> units[k + j - 1]]
              /\ SubSeq(units, k, Len(units)) \in Seq(T)
          <5>1. \A j \in 1 .. l : units[k + j - 1] \in T
            BY <4>2, LenProperties
          <5>2. SubSeq(units, k, Len(units)) = [j \in 1 .. l |-> units[k + j - 1]]
            BY <1>1, <2>1
          <5> HIDE DEF l
          <5> QED BY <4>1, <5>1, <5>2
        <4>4. b = [j \in 1 .. l + 1 |-> more[k + j - 1]]
          <5> HIDE DEF more
          <5> QED BY <1>1, <2>1, <4>1
        <4>5. /\ Len(SubSeq(units, k, Len(units))) = l
              /\ a = [j \in 1 .. l + 1 |-> IF j = l + 1 THEN t ELSE units[k + j - 1]]
          <5> HIDE DEF l
          <5>1. Len(SubSeq(units, k, Len(units))) = l
            BY <4>1, <4>3
          <5> QED BY <4>1, <4>3, <5>1
        <4>6. \A j \in 1 .. l + 1 : more[k + j - 1] = IF j = l + 1 THEN t ELSE units[k + j - 1]
          <5> HIDE DEF more, n
          <5>1. \A j \in 1 .. l + 1 : j = l + 1 \/ j \in 1 .. l
            <6> HIDE DEF l
            <6> QED BY <4>1
          <5> HIDE DEF l
          <5> QED BY <1>1, <4>1, <4>2, <5>1
        <4> HIDE DEF a, b, l, more
        <4>7. a = b
          BY <4>4, <4>5, <4>6
        <4> QED BY <4>7 DEF a, b
      <3> HIDE DEF more, Q, number
      <3> QED BY <1>5, <2>2, <2>4, <3>1, <3>2, <3>3, <3>4 DEF number
    <2>6. CASE LaterStarts(units, E, k) # {}
      <3> DEFINE e == EndOfCut(units, E, k)
                 f == EndOfCut(more, E, k)
      <3>1. number # Len(R)
        BY <1>4, <2>3, <2>6, StartNumbers
      <3>2. /\ e \in k .. Len(units)
            /\ e + 1 \in LaterStarts(units, E, k)
            /\ \A r \in LaterStarts(units, E, k) : e + 1 <= r
        BY <2>6, EndsOfCuts
      <3>3. /\ f \in k .. n
            /\ f + 1 \in LaterStarts(units, E, k)
            /\ \A r \in LaterStarts(units, E, k) : f + 1 <= r
        BY <1>1, <2>1, <2>2, <2>6, EndsOfCuts
      <3>4. e = f
        <4>1. e + 1 <= f + 1 /\ f + 1 <= e + 1
          BY <3>2, <3>3
        <4>2. e \in Int /\ f \in Int
          BY <1>1, <2>1, <3>2, <3>3
        <4> HIDE DEF e, f
        <4> QED BY <4>1, <4>2
      <3>5. SubSeq(more, k, e) = SubSeq(units, k, e)
        <4>1. k \in Int /\ e \in Int /\ \A j \in k .. e : j \in 1 .. Len(units)
          BY <1>1, <2>1, <3>2
        <4> HIDE DEF more, e
        <4>2. \A j \in k .. e : more[j] = units[j]
          BY <1>1, <4>1
        <4> QED BY <4>1, <4>2, SameParts
      <3> HIDE DEF more, Q, number, e, f
      <3> QED BY <1>5, <2>2, <2>3, <2>4, <3>1, <3>4, <3>5 DEF number, e, f
    <2> QED BY <2>5, <2>6
  <1> HIDE DEF more, n, S, Q
  <1>7. IsCut(Q, more, E)
    BY <1>3, <1>4, <1>5, <1>6 DEF IsCut
  <1> QED BY <1>4, <1>7 DEF more, Q

LEMMA NothingIsCut ==
  ASSUME NEW E
  PROVE  IsCut(<<>>, <<>>, E)
  <1>1. Starts(<<>>, E) = {}
    BY DEF Starts
  <1> QED BY <1>1, FS_EmptySet DEF IsCut
-----------------------------------------------------------------------------
(* The ends of sentences.                                                  *)

(* A stretch has one end, which RunAfter finds.                            *)
LEMMA RunAfterIsStretch ==
  ASSUME text \in Seq(Unit), NEW k \in 1 .. Len(text), NEW S
  PROVE  /\ RunAfter(k, S) \in k .. Len(text)
         /\ \A e \in 1 .. Len(text) : IsStretch(k, e, S) <=> e = RunAfter(k, S)
  <1> DEFINE R == {e \in k .. Len(text) : \A j \in k + 1 .. e : text[j] \in S}
             g == RunAfter(k, S)
  <1>1. Len(text) \in Nat
    BY LenProperties
  <1>2. g \in R /\ \A e \in R : e <= g
    <2>1. R \in SUBSET (0 .. Len(text)) /\ k \in R
      BY <1>1
    <2>2. g = Greatest(R)
      BY DEF RunAfter
    <2> HIDE DEF R, g
    <2> QED BY <1>1, <2>1, <2>2, GreatestIsGreatest
  <1> HIDE DEF g
  <1>3. g \in k .. Len(text) /\ \A j \in k + 1 .. g : text[j] \in S
    BY <1>2
  <1>4. g < Len(text) => text[g + 1] \notin S
    <2> SUFFICES ASSUME g < Len(text), text[g + 1] \in S PROVE FALSE
      OBVIOUS
    <2>1. g + 1 \in k .. Len(text)
      BY <1>1, <1>3
    <2>2. \A j \in k + 1 .. g + 1 : text[j] \in S
      BY <1>1, <1>3
    <2>3. g + 1 <= g
      BY <1>2, <2>1, <2>2
    <2> QED BY <1>1, <1>3, <2>3
  <1>5. IsStretch(k, g, S)
    BY <1>1, <1>3, <1>4 DEF IsStretch
  <1>6. ASSUME NEW e \in 1 .. Len(text), IsStretch(k, e, S)
        PROVE  e = g
    <2>1. k <= e /\ (\A j \in k + 1 .. e : text[j] \in S) /\ (e < Len(text) => text[e + 1] \notin S)
      BY <1>6 DEF IsStretch
    <2>2. e \in R
      BY <1>1, <2>1
    <2>3. e <= g
      BY <1>2, <2>2
    <2>4. ~(e < g)
      <3> SUFFICES ASSUME e < g PROVE FALSE
        OBVIOUS
      <3>1. e + 1 \in k + 1 .. g /\ e < Len(text)
        BY <1>1, <1>3, <2>1
      <3> QED BY <1>3, <2>1, <3>1
    <2> QED BY <1>1, <1>3, <2>3, <2>4
  <1> QED BY <1>3, <1>5, <1>6 DEF g

IsNewlineEnd(k) ==
  /\ text[k] = Newline
  /\ options.newline \/ (k > 1 /\ text[k - 1] = Newline)

IsPunctuationEnd(k, c) ==
  /\ options.punctuation
  /\ text[k] \in Ending
  /\ IsStretch(k, c, Closing)
  /\ \E f \in 1 .. Len(text) :
       /\ IsStretch(c, f, Space \union Opening)
       /\ f < Len(text) => text[f + 1] \in Upper

(* The ends that have a reason before a position.                          *)
EndsUpTo(n) ==
  {c \in 1 .. Len(text) : \E k \in 1 .. n - 1 : (c = k /\ IsNewlineEnd(k)) \/ IsPunctuationEnd(k, c)}

(* The loop over the ends appends them in their order, although an end of  *)
(* punctuation lies ahead of the position: no other end comes before it.   *)
IsEnding(k) == text[k] \in Ending \union {Newline}

EndsFound(n) ==
  /\ ends \in Seq(1 .. Len(text))
  /\ {ends[a] : a \in 1 .. Len(ends)} = EndsUpTo(n)
  /\ \A a, b \in 1 .. Len(ends) : a <= b => ends[a] <= ends[b]

EndsInv ==
  /\ text \in Texts
  /\ options \in Options
  /\ pc = "ends" =>
       /\ i \in 1 .. Len(text) + 1
       /\ EndsFound(i)
       /\ \A a \in 1 .. Len(ends) : \A k \in i .. Len(text) : IsEnding(k) => ends[a] <= k
  /\ pc # "ends" => EndsFound(Len(text) + 1)

LEMMA EndsUpToGrow ==
  ASSUME text \in Texts, NEW k \in 1 .. Len(text)
  PROVE  EndsUpTo(k + 1) = EndsUpTo(k)
           \union {c \in 1 .. Len(text) : (c = k /\ IsNewlineEnd(k)) \/ IsPunctuationEnd(k, c)}
  <1>1. Len(text) \in Nat
    BY TextIsSeq
  <1>2. \A j : j \in 1 .. (k + 1) - 1 <=> j \in 1 .. k - 1 \/ j = k
    BY <1>1
  <1> QED BY <1>2 DEF EndsUpTo

LEMMA AllEndsAreSentenceEndings ==
  ASSUME text \in Texts, options \in Options
  PROVE  EndsUpTo(Len(text) + 1) = SentenceEndings
  <1>1. Len(text) \in Nat /\ Len(text) + 1 - 1 = Len(text)
    BY TextIsSeq
  <1>2. {c \in 1 .. Len(text) : \E k \in 1 .. Len(text) : c = k /\ IsNewlineEnd(k)}
          = IF options.newline THEN Newlines(text) ELSE EmptyLines(text)
    BY <1>1 DEF IsNewlineEnd, Newlines, EmptyLines
  <1>3. {c \in 1 .. Len(text) : \E k \in 1 .. Len(text) : IsPunctuationEnd(k, c)}
          = IF options.punctuation THEN PunctuationEndings ELSE {}
    BY <1>1 DEF IsPunctuationEnd, PunctuationEndings
  <1>4. EndsUpTo(Len(text) + 1) =
          {c \in 1 .. Len(text) : \E k \in 1 .. Len(text) : c = k /\ IsNewlineEnd(k)}
            \union {c \in 1 .. Len(text) : \E k \in 1 .. Len(text) : IsPunctuationEnd(k, c)}
    BY <1>1 DEF EndsUpTo
  <1> QED BY <1>2, <1>3, <1>4 DEF SentenceEndings

(* What one turn of the loop finds.                                        *)
LEMMA OneTurn ==
  ASSUME EndsInv, pc = "ends", i <= Len(text)
  PROVE  /\ i \in 1 .. Len(text) /\ ClosingPunct \in i .. Len(text)
         /\ NewlineEnds <=> IsNewlineEnd(i)
         /\ \A c \in 1 .. Len(text) : IsPunctuationEnd(i, c) <=> PunctuationEnds /\ c = ClosingPunct
         /\ NewlineEnds => IsEnding(i) /\ ~PunctuationEnds
         /\ PunctuationEnds => IsEnding(i)
         /\ \A k \in i + 1 .. ClosingPunct : ~IsEnding(k)
  <1>1. text \in Seq(Unit) /\ Len(text) \in Nat /\ i \in 1 .. Len(text)
    BY TextIsSeq DEF EndsInv
  <1>2. /\ ClosingPunct \in i .. Len(text)
        /\ \A e \in 1 .. Len(text) : IsStretch(i, e, Closing) <=> e = ClosingPunct
    BY <1>1, RunAfterIsStretch DEF ClosingPunct
  <1>3. ClosingPunct \in 1 .. Len(text)
    BY <1>1, <1>2
  <1>4. /\ FirstLetter \in 1 .. Len(text)
        /\ \A f \in 1 .. Len(text) : IsStretch(ClosingPunct, f, Space \union Opening) <=> f = FirstLetter
    <2>1. FirstLetter \in ClosingPunct .. Len(text)
      BY <1>1, <1>3, RunAfterIsStretch DEF FirstLetter
    <2> QED BY <1>1, <1>3, <2>1, RunAfterIsStretch DEF FirstLetter
  <1>5. NewlineEnds <=> IsNewlineEnd(i)
    BY DEF NewlineEnds, IsNewlineEnd
  <1>6. ASSUME NEW c \in 1 .. Len(text)
        PROVE  IsPunctuationEnd(i, c) <=> PunctuationEnds /\ c = ClosingPunct
    <2>1. FirstLetter = Len(text) \/ text[FirstLetter + 1] \in Upper
            <=> (FirstLetter < Len(text) => text[FirstLetter + 1] \in Upper)
      BY <1>1, <1>4
    <2>2. CASE c = ClosingPunct
      BY <1>2, <1>4, <2>1, <2>2 DEF IsPunctuationEnd, PunctuationEnds
    <2>3. CASE c # ClosingPunct
      BY <1>2, <2>3 DEF IsPunctuationEnd
    <2> QED BY <2>2, <2>3
  <1>7. /\ NewlineEnds => IsEnding(i) /\ ~PunctuationEnds
        /\ PunctuationEnds => IsEnding(i)
    BY ClassesAssumption DEF NewlineEnds, PunctuationEnds, IsEnding
  <1>8. \A k \in i + 1 .. ClosingPunct : ~IsEnding(k)
    <2>1. \A k \in i + 1 .. ClosingPunct : text[k] \in Closing
      BY <1>2, <1>3 DEF IsStretch
    <2> QED BY <2>1, ClassesAssumption DEF IsEnding
  <1> QED BY <1>1, <1>2, <1>5, <1>6, <1>7, <1>8

LEMMA LookKeepsEnds ==
  ASSUME EndsInv, LookForEnd
  PROVE  EndsInv'
  <1>1. /\ pc = "ends" /\ pc' = pc /\ text' = text /\ options' = options /\ i' = i + 1
        /\ i <= Len(text)
    BY DEF LookForEnd, input
  <1>2. /\ text \in Seq(Unit) /\ Len(text) \in Nat
        /\ i \in 1 .. Len(text) /\ ClosingPunct \in i .. Len(text)
        /\ NewlineEnds <=> IsNewlineEnd(i)
        /\ \A c \in 1 .. Len(text) : IsPunctuationEnd(i, c) <=> PunctuationEnds /\ c = ClosingPunct
        /\ NewlineEnds => IsEnding(i) /\ ~PunctuationEnds
        /\ PunctuationEnds => IsEnding(i)
        /\ \A k \in i + 1 .. ClosingPunct : ~IsEnding(k)
    BY <1>1, OneTurn, TextIsSeq DEF EndsInv
  <1>3. EndsFound(i) /\ \A a \in 1 .. Len(ends) : \A k \in i .. Len(text) : IsEnding(k) => ends[a] <= k
    BY <1>1 DEF EndsInv
  <1>4. EndsUpTo(i + 1) = EndsUpTo(i)
          \union {c \in 1 .. Len(text) : (c = i /\ NewlineEnds) \/ (c = ClosingPunct /\ PunctuationEnds)}
    BY <1>2, EndsUpToGrow DEF EndsInv
  <1>5. EndsUpTo(i)' = EndsUpTo(i + 1)
    BY <1>1 DEF EndsUpTo, IsNewlineEnd, IsPunctuationEnd, IsStretch
  <1>6. \A k \in i' .. Len(text) : k \in i .. Len(text) /\ k \in Nat
    BY <1>1, <1>2
  <1>7. i' \in 1 .. Len(text) + 1
    BY <1>1, <1>2
  <1>8. CASE ~NewlineEnds /\ ~PunctuationEnds
    <2>1. ends' = ends
      BY <1>8 DEF LookForEnd
    <2>2. EndsUpTo(i)' = EndsUpTo(i)
      BY <1>4, <1>5, <1>8
    <2>3. EndsFound(i)'
      BY <1>1, <1>3, <2>1, <2>2 DEF EndsFound
    <2>4. \A k \in i' .. Len(text) : IsEnding(k)' <=> IsEnding(k)
      BY <1>1 DEF IsEnding
    <2> QED BY <1>1, <1>3, <1>6, <1>7, <2>1, <2>3, <2>4 DEF EndsInv
  <1>9. ASSUME NEW e \in i .. Len(text), ends' = Append(ends, e),
               EndsUpTo(i + 1) = EndsUpTo(i) \union {e}, IsEnding(i),
               \A k \in i + 1 .. e : ~IsEnding(k)
        PROVE  EndsInv'
    <2>1. /\ ends \in Seq(1 .. Len(text)) /\ Len(ends) \in Nat /\ e \in 1 .. Len(text)
          /\ \A a \in 1 .. Len(ends) : ends[a] \in 1 .. Len(text)
      BY <1>2, <1>3, LenProperties DEF EndsFound
    <2>2. /\ ends' \in Seq(1 .. Len(text)) /\ Len(ends') = Len(ends) + 1
          /\ \A a \in 1 .. Len(ends) : ends'[a] = ends[a]
          /\ ends'[Len(ends) + 1] = e
      BY <1>9, <2>1, AppendProperties
    <2>3. \A a \in 1 .. Len(ends') : a \in 1 .. Len(ends) \/ a = Len(ends) + 1
      BY <2>1, <2>2
    <2>4. {ends'[a] : a \in 1 .. Len(ends')} = {ends[a] : a \in 1 .. Len(ends)} \union {e}
      <3>1. 1 .. Len(ends') = 1 .. Len(ends) \union {Len(ends) + 1}
        BY <2>1, <2>2
      <3> QED BY <2>2, <3>1
    <2>5. \A a \in 1 .. Len(ends) : ends[a] <= i
      <3>1. i \in i .. Len(text)
        BY <1>2
      <3> QED BY <1>3, <1>9, <3>1
    <2>6. \A a, b \in 1 .. Len(ends') : a <= b => ends'[a] <= ends'[b]
      <3> SUFFICES ASSUME NEW a \in 1 .. Len(ends'), NEW b \in 1 .. Len(ends'), a <= b
                   PROVE  ends'[a] <= ends'[b]
        OBVIOUS
      <3>1. CASE b \in 1 .. Len(ends)
        <4>1. a \in 1 .. Len(ends)
          BY <2>1, <2>2, <3>1
        <4> QED BY <1>3, <2>2, <3>1, <4>1 DEF EndsFound
      <3>2. CASE b = Len(ends) + 1 /\ a \in 1 .. Len(ends)
        <4>1. ends[a] <= i /\ i <= e /\ ends[a] \in Int /\ i \in Int /\ e \in Int
          BY <1>2, <2>1, <2>5, <3>2
        <4> QED BY <2>2, <3>2, <4>1
      <3>3. CASE b = Len(ends) + 1 /\ a = Len(ends) + 1
        BY <1>2, <2>2, <3>3
      <3> QED BY <2>3, <3>1, <3>2, <3>3
    <2>7. EndsFound(i)'
      BY <1>1, <1>3, <1>5, <1>9, <2>2, <2>4, <2>6 DEF EndsFound
    <2>8. ASSUME NEW a \in 1 .. Len(ends'), NEW k \in i' .. Len(text), IsEnding(k)
          PROVE  ends'[a] <= k
      <3>1. CASE a \in 1 .. Len(ends)
        BY <1>3, <1>6, <2>2, <2>8, <3>1
      <3>2. CASE a = Len(ends) + 1
        <4>1. ~(k <= e)
          BY <1>1, <1>2, <1>9, <2>8
        <4> QED BY <1>2, <1>6, <2>1, <2>2, <3>2, <4>1
      <3> QED BY <2>3, <3>1, <3>2
    <2>9. \A k \in i' .. Len(text) : IsEnding(k)' <=> IsEnding(k)
      BY <1>1 DEF IsEnding
    <2> QED BY <1>1, <1>3, <1>7, <2>7, <2>8, <2>9 DEF EndsInv
  <1>10. CASE NewlineEnds
    <2>1. ends' = Append(ends, i)
      BY <1>10 DEF LookForEnd
    <2>2. EndsUpTo(i + 1) = EndsUpTo(i) \union {i}
      BY <1>2, <1>4, <1>10
    <2>3. i \in i .. Len(text) /\ \A k \in i + 1 .. i : ~IsEnding(k)
      BY <1>2
    <2> QED BY <1>2, <1>9, <1>10, <2>1, <2>2, <2>3
  <1>11. CASE PunctuationEnds
    <2>1. ~NewlineEnds
      BY <1>2, <1>11
    <2>2. ends' = Append(ends, ClosingPunct)
      BY <1>11, <2>1 DEF LookForEnd
    <2>3. ClosingPunct \in 1 .. Len(text)
      BY <1>2
    <2>4. EndsUpTo(i + 1) = EndsUpTo(i) \union {ClosingPunct}
      BY <1>4, <1>11, <2>1, <2>3
    <2> QED BY <1>2, <1>9, <1>11, <2>2, <2>4
  <1> QED BY <1>8, <1>10, <1>11

LEMMA EndsBegin == Init => EndsInv
  <1> SUFFICES ASSUME Init PROVE EndsInv
    OBVIOUS
  <1>1. ends = <<>> /\ i = 1 /\ pc = "ends" /\ text \in Texts /\ options \in Options
    BY DEF Init
  <1>2. Len(text) \in Nat
    BY <1>1, TextIsSeq
  <1>3. EndsUpTo(1) = {}
    BY DEF EndsUpTo
  <1>4. ends \in Seq(1 .. Len(text)) /\ 1 .. Len(ends) = {}
    BY <1>1
  <1> QED BY <1>1, <1>2, <1>3, <1>4 DEF EndsInv, EndsFound

LEMMA EndsStep == EndsInv /\ [Next]_vars => EndsInv'
  <1> SUFFICES ASSUME EndsInv, [Next]_vars PROVE EndsInv'
    OBVIOUS
  <1>1. CASE LookForEnd
    BY <1>1, LookKeepsEnds
  <1>k. ASSUME UNCHANGED <<input, ends>>
        PROVE  \A n : EndsFound(n)' <=> EndsFound(n)
    BY <1>k DEF EndsFound, EndsUpTo, IsNewlineEnd, IsPunctuationEnd, IsStretch, input
  <1>2. CASE StartTokens
    <2>1. i = Len(text) + 1
      BY <1>2, TextIsSeq DEF StartTokens, EndsInv
    <2> QED BY <1>2, <1>k, <2>1 DEF StartTokens, EndsInv, input
  <1>3. ASSUME pc # "ends", pc' # "ends", UNCHANGED <<input, ends>>
        PROVE  EndsInv'
    BY <1>3, <1>k DEF EndsInv, input
  <1>4. CASE UNCHANGED vars
    <2>1. \A k : IsEnding(k)' <=> IsEnding(k)
      BY <1>4 DEF vars, input, IsEnding
    <2> QED BY <1>4, <1>k, <2>1 DEF vars, input, EndsInv
  <1> QED BY <1>1, <1>2, <1>3, <1>4
        DEF Next, TokenizeWord, TokenizeUnit, AddToken, SkipSpace, StartSentences, PlaceToken, Return
-----------------------------------------------------------------------------
(* The walk over the tokens.                                               *)

TokensOf(R) == UNION {{R[a][b] : b \in 1 .. Len(R[a])} : a \in 1 .. Len(R)}

(* No token of a sentence comes before one of a sentence before it.        *)
InSequence(units) == \A k, l \in 1 .. Len(units) : k < l => units[k].last < units[l].first

SentencesInSequence(R) ==
  /\ \A a \in 1 .. Len(R) : InSequence(R[a])
  /\ \A a, b \in 1 .. Len(R) :
       a < b => \A k \in 1 .. Len(R[a]), l \in 1 .. Len(R[b]) : R[a][k].last < R[b][l].first

LEMMA TokenOfSentence ==
  ASSUME NEW R
  PROVE  \A x : x \in TokensOf(R) <=> \E a \in 1 .. Len(R) : \E b \in 1 .. Len(R[a]) : x = R[a][b]
  BY DEF TokensOf

LEMMA SentencesGrow ==
  ASSUME NEW T, NEW R \in Seq(Seq(T)), NEW t \in T,
         SentencesInSequence(R), \A u \in TokensOf(R) : u.last < t.first
  PROVE  /\ TokensOf(Append(R, <<t>>)) = TokensOf(R) \union {t}
         /\ SentencesInSequence(Append(R, <<t>>))
  <1> DEFINE Q == Append(R, <<t>>)
             n == Len(R) + 1
  <1>1. /\ Len(R) \in Nat /\ Len(Q) = n
        /\ \A a \in 1 .. Len(R) : Q[a] = R[a]
        /\ Q[n] = <<t>> /\ Len(<<t>>) = 1 /\ <<t>>[1] = t
    BY AppendProperties, LenProperties
  <1> HIDE DEF Q
  <1>2. 1 .. Len(Q) = 1 .. Len(R) \union {n}
    BY <1>1
  <1>3. TokensOf(Q) = TokensOf(R) \union {t}
    <2>1. \A x : (\E b \in 1 .. Len(Q[n]) : x = Q[n][b]) <=> x = t
      BY <1>1
    <2>2. \A x : x \in TokensOf(Q) <=> \E a \in 1 .. Len(Q) : \E b \in 1 .. Len(Q[a]) : x = Q[a][b]
      BY TokenOfSentence
    <2>3. \A x : x \in TokensOf(R) <=> \E a \in 1 .. Len(R) : \E b \in 1 .. Len(R[a]) : x = R[a][b]
      BY TokenOfSentence
    <2>4. ASSUME NEW x
          PROVE  x \in TokensOf(Q) <=> x \in TokensOf(R) \/ x = t
      <3>1. x \in TokensOf(Q) <=> \/ \E a \in 1 .. Len(R) : \E b \in 1 .. Len(Q[a]) : x = Q[a][b]
                                 \/ \E b \in 1 .. Len(Q[n]) : x = Q[n][b]
        BY <1>2, <2>2
      <3>2. ASSUME NEW a \in 1 .. Len(R)
            PROVE  (\E b \in 1 .. Len(Q[a]) : x = Q[a][b]) <=> \E b \in 1 .. Len(R[a]) : x = R[a][b]
        <4>1. Q[a] = R[a]
          BY <1>1
        <4> QED BY <4>1
      <3> QED BY <2>1, <2>3, <3>1, <3>2
    <2> QED BY <2>4
  <1>4. \A a \in 1 .. Len(R) : a < n /\ ~(n < a)
    BY <1>1
  <1>5. InSequence(<<t>>)
    BY DEF InSequence
  <1>6. \A a \in 1 .. Len(Q) : InSequence(Q[a])
    BY <1>1, <1>2, <1>5 DEF SentencesInSequence
  <1>7. ASSUME NEW a \in 1 .. Len(Q), NEW b \in 1 .. Len(Q), a < b,
               NEW k \in 1 .. Len(Q[a]), NEW l \in 1 .. Len(Q[b])
        PROVE  Q[a][k].last < Q[b][l].first
    <2>1. CASE a \in 1 .. Len(R) /\ b \in 1 .. Len(R)
      BY <1>1, <1>7, <2>1 DEF SentencesInSequence
    <2>2. CASE a \in 1 .. Len(R) /\ b = n
      <3>1. Q[a][k] \in TokensOf(R)
        <4>1. Q[a][k] = R[a][k] /\ k \in 1 .. Len(R[a])
          BY <1>1, <2>2
        <4> QED BY <2>2, <4>1, TokenOfSentence
      <3>2. Q[b][l] = t
        BY <1>1, <2>2
      <3> QED BY <3>1, <3>2
    <2>3. CASE a = n
      BY <1>1, <1>2, <1>4, <1>7, <2>3
    <2> QED BY <1>2, <2>1, <2>2, <2>3
  <1> QED BY <1>3, <1>6, <1>7 DEF SentencesInSequence, Q

LEMMA LastSentenceGrows ==
  ASSUME NEW T, NEW R \in Seq(Seq(T)), NEW t \in T, Len(R) # 0,
         SentencesInSequence(R), \A u \in TokensOf(R) : u.last < t.first
  PROVE  LET Q == [R EXCEPT ![Len(R)] = Append(@, t)]
         IN  /\ Q \in Seq(Seq(T))
             /\ TokensOf(Q) = TokensOf(R) \union {t}
             /\ SentencesInSequence(Q)
  <1> DEFINE n == Len(R)
             Q == [R EXCEPT ![Len(R)] = Append(@, t)]
  <1>1. n \in Nat /\ n \in 1 .. n /\ R \in [1 .. n -> Seq(T)] /\ R[n] \in Seq(T)
    BY LenProperties
  <1>2. /\ Append(R[n], t) \in Seq(T) /\ Len(R[n]) \in Nat
        /\ Len(Append(R[n], t)) = Len(R[n]) + 1
        /\ \A k \in 1 .. Len(R[n]) : Append(R[n], t)[k] = R[n][k]
        /\ Append(R[n], t)[Len(R[n]) + 1] = t
    <2> HIDE DEF n
    <2> QED BY <1>1, AppendProperties, LenProperties
  <1>3. /\ Q \in Seq(Seq(T)) /\ Len(Q) = n
        /\ \A a \in 1 .. n : a # n => Q[a] = R[a]
        /\ Q[n] = Append(R[n], t)
    <2>1. Q \in Seq(Seq(T)) /\ DOMAIN Q = 1 .. n
      BY <1>1, <1>2, ExceptSeq
    <2>2. Len(Q) = n
      <3> HIDE DEF Q
      <3>1. DOMAIN Q = 1 .. Len(Q) /\ Len(Q) \in Nat
        BY <2>1, LenProperties
      <3> QED BY <1>1, <2>1, <3>1
    <2> QED BY <1>1, <2>1, <2>2
  <1> HIDE DEF Q
  <1> DEFINE m == Len(R[n])
  <1>4. Len(Q[n]) = m + 1 /\ Q[n][m + 1] = t /\ \A k \in 1 .. m : Q[n][k] = R[n][k]
    BY <1>2, <1>3
  <1>5. 1 .. m + 1 = 1 .. m \union {m + 1} /\ m \in Nat
    BY <1>2
  <1>6. \A k \in 1 .. m : R[n][k] \in TokensOf(R)
    <2>1. n \in 1 .. Len(R)
      BY <1>1
    <2> HIDE DEF n
    <2> QED BY <2>1, TokenOfSentence
  <1> HIDE DEF m
  <1>7. \A x : (\E b \in 1 .. Len(Q[n]) : x = Q[n][b])
                <=> x = t \/ \E b \in 1 .. m : x = R[n][b]
    BY <1>4, <1>5
  <1>8. TokensOf(Q) = TokensOf(R) \union {t}
    <2>1. \A x : x \in TokensOf(Q) <=> \E a \in 1 .. n : \E b \in 1 .. Len(Q[a]) : x = Q[a][b]
      <3>1. \A x : x \in TokensOf(Q) <=> \E a \in 1 .. Len(Q) : \E b \in 1 .. Len(Q[a]) : x = Q[a][b]
        BY TokenOfSentence
      <3> HIDE DEF n
      <3> QED BY <1>3, <3>1
    <2>2. \A x : x \in TokensOf(R) <=> \E a \in 1 .. n : \E b \in 1 .. Len(R[a]) : x = R[a][b]
      BY TokenOfSentence
    <2>3. ASSUME NEW x
          PROVE  x \in TokensOf(Q) <=> x \in TokensOf(R) \/ x = t
      <3> HIDE DEF n
      <3>1. x \in TokensOf(Q) <=>
              \/ \E a \in 1 .. n : a # n /\ \E b \in 1 .. Len(R[a]) : x = R[a][b]
              \/ \E b \in 1 .. Len(Q[n]) : x = Q[n][b]
        <4>1. ASSUME NEW a \in 1 .. n, a # n
              PROVE  (\E b \in 1 .. Len(Q[a]) : x = Q[a][b]) <=> \E b \in 1 .. Len(R[a]) : x = R[a][b]
          <5>1. Q[a] = R[a]
            BY <1>3, <4>1
          <5> QED BY <5>1
        <4>2. n \in 1 .. n
          BY <1>1
        <4> QED BY <2>1, <4>1, <4>2
      <3>2. x \in TokensOf(R) <=>
              \/ \E a \in 1 .. n : a # n /\ \E b \in 1 .. Len(R[a]) : x = R[a][b]
              \/ \E b \in 1 .. m : x = R[n][b]
        BY <1>1, <2>2 DEF m
      <3> QED BY <1>7, <3>1, <3>2
    <2> QED BY <2>3
  <1>9. InSequence(Q[n])
    <2> SUFFICES ASSUME NEW k \in 1 .. m + 1, NEW l \in 1 .. m + 1, k < l
                 PROVE  Q[n][k].last < Q[n][l].first
      BY <1>4 DEF InSequence
    <2>1. k \in 1 .. m
      BY <1>5
    <2>2. CASE l \in 1 .. m
      BY <1>1, <1>4, <2>1, <2>2 DEF SentencesInSequence, InSequence, m
    <2>3. CASE l = m + 1
      BY <1>4, <1>6, <2>1, <2>3
    <2> QED BY <1>5, <2>2, <2>3
  <1>10. \A a \in 1 .. Len(Q) : InSequence(Q[a])
    BY <1>3, <1>9 DEF SentencesInSequence
  <1>11. ASSUME NEW a \in 1 .. Len(Q), NEW b \in 1 .. Len(Q), a < b,
                NEW k \in 1 .. Len(Q[a]), NEW l \in 1 .. Len(Q[b])
         PROVE  Q[a][k].last < Q[b][l].first
    <2>1. a \in 1 .. n /\ b \in 1 .. n /\ a # n
      <3> HIDE DEF n
      <3> QED BY <1>1, <1>3, <1>11
    <2>2. Q[a] = R[a] /\ k \in 1 .. Len(R[a])
      BY <1>3, <2>1
    <2>3. R[a][k] \in TokensOf(R)
      BY <2>1, <2>2, TokenOfSentence
    <2>4. CASE b # n
      BY <1>3, <1>11, <2>1, <2>2, <2>4 DEF SentencesInSequence
    <2>5. CASE b = n
      <3>1. l \in 1 .. m \/ l = m + 1
        BY <1>4, <1>5, <2>5
      <3>2. CASE l \in 1 .. m
        <4>1. R[a][k].last < R[n][l].first
          BY <1>1, <1>11, <2>1, <2>2, <2>5, <3>2 DEF SentencesInSequence, m
        <4> QED BY <1>4, <2>2, <2>5, <3>2, <4>1
      <3>3. CASE l = m + 1
        BY <1>4, <2>2, <2>3, <2>5, <3>3
      <3> QED BY <3>1, <3>2, <3>3
    <2> QED BY <2>4, <2>5
  <1>12. SentencesInSequence(Q)
    BY <1>10, <1>11 DEF SentencesInSequence
  <1> QED BY <1>3, <1>8, <1>12 DEF Q

(* Of increasing tokens not only neighbours are in order.                  *)
LEMMA IncreasingIsInSequence ==
  ASSUME NEW units \in Seq([first : Nat, last : Nat]),
         \A k \in 1 .. Len(units) : units[k].first <= units[k].last,
         \A k \in 1 .. Len(units) - 1 : units[k].last < units[k + 1].first
  PROVE  InSequence(units)
  <1> SUFFICES ASSUME NEW k \in 1 .. Len(units), NEW l \in 1 .. Len(units), k < l,
                      ~(units[k].last < units[l].first)
               PROVE  FALSE
    BY DEF InSequence
  <1> DEFINE Bad == {j \in k + 1 .. Len(units) : ~(units[k].last < units[j].first)}
  <1>1. Len(units) \in Nat /\ \A j \in 1 .. Len(units) : units[j] \in [first : Nat, last : Nat]
    BY LenProperties
  <1>2. PICK j \in Bad : \A h \in Bad : j <= h
    <2>1. l \in Bad /\ Bad \in SUBSET Nat
      BY <1>1
    <2> HIDE DEF Bad
    <2> QED BY <2>1, LeastExists
  <1>3. j \in k + 1 .. Len(units) /\ ~(units[k].last < units[j].first)
    BY <1>2
  <1>4. j - 1 \in 1 .. Len(units) - 1 /\ j - 1 \in 1 .. Len(units) /\ (j - 1) + 1 = j
    BY <1>1, <1>3
  <1>5. units[j - 1].last < units[j].first
    BY <1>4
  <1>6. j - 1 # k
    BY <1>3, <1>5
  <1>7. j - 1 \in k + 1 .. Len(units)
    BY <1>1, <1>3, <1>6
  <1>8. j - 1 \notin Bad
    <2>1. ~(j <= j - 1)
      BY <1>1, <1>3
    <2> QED BY <1>2, <2>1
  <1>9. units[k].last < units[j - 1].first
    BY <1>7, <1>8
  <1>10. /\ units[k] \in [first : Nat, last : Nat] /\ units[j] \in [first : Nat, last : Nat]
         /\ units[j - 1] \in [first : Nat, last : Nat]
    BY <1>1, <1>3, <1>4, <1>7
  <1>11. units[j - 1].first <= units[j - 1].last
    BY <1>4
  <1>12. /\ units[k].last \in Nat /\ units[j].first \in Nat
         /\ units[j - 1].first \in Nat /\ units[j - 1].last \in Nat
    BY <1>10
  <1>13. ~(units[k].last < units[j].first)
    BY <1>3
  <1>14. \A a, b, c, d \in Nat : a < b /\ b <= c /\ c < d => a < d
    OBVIOUS
  <1> HIDE DEF Bad
  <1> QED BY <1>5, <1>9, <1>11, <1>12, <1>13, <1>14
(* The sentences are right for the tokens that have been placed, and       *)
(* nextEnd is the first end that is not before the last of them.           *)
PlacedUpTo(n) ==
  /\ ret \in Seq(Seq(UntokenizedTokens(text)))
  /\ IsCut(ret, SubSeq(tokens, 1, n), SentenceEndings)
  /\ SentencesInSequence(ret)
  /\ TokensOf(ret) = {tokens[k] : k \in 1 .. n}

AtEnd(n) ==
  /\ start <=> n = 0
  /\ nextEnd \in 1 .. Len(ends) + 1
  /\ n = 0 => nextEnd = 1
  /\ n # 0 => /\ \A m \in 1 .. nextEnd - 1 : ends[m] < tokens[n].first
              /\ \A m \in nextEnd .. Len(ends) : tokens[n].first <= ends[m]

SentencesInv ==
  /\ pc \in {"ends", "tokens"} => ret = <<>> /\ start = TRUE /\ nextEnd = 1
  /\ pc \in {"sentences", "done"} =>
       /\ tokens \in Seq(UntokenizedTokens(text))
       /\ i \in 1 .. Len(tokens) + 1
       /\ PlacedUpTo(i - 1)
       /\ AtEnd(i - 1)
  /\ pc = "done" => i = Len(tokens) + 1

(* The while loop passes an end if and only if there is one between the    *)
(* token and the one before it.                                            *)
LEMMA PassedEnds ==
  ASSUME EndsInv, TokensInv, SentencesInv, pc = "sentences", i <= Len(tokens)
  PROVE  /\ PassEnds(tokens[i].first) \in nextEnd .. Len(ends) + 1
         /\ \A m \in nextEnd .. PassEnds(tokens[i].first) - 1 : ends[m] < tokens[i].first
         /\ \A m \in PassEnds(tokens[i].first) .. Len(ends) : tokens[i].first <= ends[m]
         /\ i # 1 => (PassEnds(tokens[i].first) > nextEnd
                        <=> \E e \in SentenceEndings :
                              tokens[i - 1].first <= e /\ e < tokens[i].first)
  <1> DEFINE first == tokens[i].first
             N == {n \in nextEnd .. Len(ends) + 1 : \A m \in nextEnd .. n - 1 : first > ends[m]}
             p == PassEnds(first)
  <1>1. /\ text \in Texts /\ options \in Options /\ text \in Seq(Unit) /\ Len(text) \in Nat
        /\ EndsFound(Len(text) + 1)
        /\ i \in 1 .. Len(tokens) /\ Len(tokens) \in Nat
        /\ tokens \in Seq(UntokenizedTokens(text))
        /\ AtEnd(i - 1)
    BY TextIsSeq, LenProperties DEF EndsInv, SentencesInv
  <1>2. /\ Len(ends) \in Nat
        /\ \A m \in 1 .. Len(ends) : ends[m] \in 1 .. Len(text) /\ ends[m] \in Int
        /\ \A a, b \in 1 .. Len(ends) : a <= b => ends[a] <= ends[b]
        /\ {ends[m] : m \in 1 .. Len(ends)} = SentenceEndings
    BY <1>1, LenProperties, AllEndsAreSentenceEndings DEF EndsFound
  <1>3. first \in Int
    <2>1. tokens[i] \in UntokenizedTokens(text)
      BY <1>1, LenProperties
    <2> QED BY <1>1, <2>1, UntokenizedFacts
  <1>4. nextEnd \in 1 .. Len(ends) + 1
    BY <1>1 DEF AtEnd
  <1> HIDE DEF first
  <1>5. p \in N /\ \A n \in N : n <= p
    <2>1. nextEnd \in N /\ N \in SUBSET (0 .. Len(ends) + 1)
      BY <1>2, <1>4
    <2>2. p = Greatest(N)
      BY DEF PassEnds
    <2>3. Len(ends) + 1 \in Nat
      BY <1>2
    <2> HIDE DEF N, p
    <2> QED BY <2>1, <2>2, <2>3, GreatestIsGreatest
  <1> HIDE DEF p
  <1>6. p \in nextEnd .. Len(ends) + 1 /\ \A m \in nextEnd .. p - 1 : ends[m] < first
    <2>1. p \in nextEnd .. Len(ends) + 1 /\ \A m \in nextEnd .. p - 1 : first > ends[m]
      BY <1>5
    <2>2. \A m \in nextEnd .. p - 1 : m \in 1 .. Len(ends)
      BY <1>2, <1>4, <2>1
    <2> QED BY <1>2, <1>3, <2>1, <2>2
  <1>7. p <= Len(ends) => first <= ends[p]
    <2> SUFFICES ASSUME p <= Len(ends), ~(first <= ends[p]) PROVE FALSE
      OBVIOUS
    <2>1. p \in 1 .. Len(ends) /\ p + 1 \in nextEnd .. Len(ends) + 1
      BY <1>2, <1>4, <1>6
    <2>2. ends[p] < first /\ ends[p] \in Int
      BY <1>2, <1>3, <2>1
    <2>3. \A m \in nextEnd .. (p + 1) - 1 : m \in nextEnd .. p - 1 \/ m = p
      BY <1>4, <2>1
    <2>4. \A m \in nextEnd .. (p + 1) - 1 : first > ends[m]
      BY <1>3, <1>5, <2>2, <2>3
    <2>5. p + 1 \in N
      BY <2>1, <2>4
    <2>6. p + 1 <= p
      BY <1>5, <2>5
    <2> QED BY <2>1, <2>6
  <1>8. \A m \in p .. Len(ends) : first <= ends[m]
    <2>1. TAKE m \in p .. Len(ends)
    <2>2. p \in 1 .. Len(ends) /\ m \in 1 .. Len(ends) /\ p <= m /\ p <= Len(ends)
      BY <1>2, <1>4, <1>6
    <2>3. ends[p] <= ends[m] /\ first <= ends[p] /\ ends[p] \in Int /\ ends[m] \in Int
      BY <1>2, <1>7, <2>2
    <2> QED BY <1>3, <2>3
  <1>9. ASSUME i # 1
        PROVE  p > nextEnd <=> \E e \in SentenceEndings : tokens[i - 1].first <= e /\ e < first
    <2>1. /\ \A m \in 1 .. nextEnd - 1 : ends[m] < tokens[i - 1].first
          /\ \A m \in nextEnd .. Len(ends) : tokens[i - 1].first <= ends[m]
      BY <1>1, <1>9 DEF AtEnd
    <2>2. tokens[i - 1].first \in Int
      <3>1. i - 1 \in 1 .. Len(tokens)
        BY <1>1, <1>9
      <3>2. tokens[i - 1] \in UntokenizedTokens(text)
        BY <1>1, <3>1, LenProperties
      <3> QED BY <1>1, <3>2, UntokenizedFacts
    <2>3. ASSUME p > nextEnd
          PROVE  \E e \in SentenceEndings : tokens[i - 1].first <= e /\ e < first
      <3>1. nextEnd \in nextEnd .. p - 1 /\ nextEnd \in nextEnd .. Len(ends) /\ nextEnd \in 1 .. Len(ends)
        BY <1>2, <1>4, <1>6, <2>3
      <3>2. ends[nextEnd] \in SentenceEndings
        BY <1>2, <3>1
      <3> QED BY <1>6, <2>1, <3>1, <3>2
    <2>4. ASSUME NEW e \in SentenceEndings, tokens[i - 1].first <= e, e < first
          PROVE  p > nextEnd
      <3>1. PICK m \in 1 .. Len(ends) : ends[m] = e
        BY <1>2, <2>4
      <3>2. e \in Int
        BY <1>2, <3>1
      <3>3. ~(m \in 1 .. nextEnd - 1)
        BY <2>1, <2>2, <2>4, <3>1, <3>2
      <3>4. ~(m \in p .. Len(ends))
        BY <1>3, <1>8, <2>4, <3>1, <3>2
      <3> QED BY <1>2, <1>4, <1>6, <3>1, <3>3, <3>4
    <2> QED BY <2>3, <2>4
  <1> QED BY <1>6, <1>8, <1>9 DEF first, p

LEMMA PlaceKeepsSentences ==
  ASSUME EndsInv, TokensInv, SentencesInv, PlaceToken
  PROVE  SentencesInv'
  <1> DEFINE U == UntokenizedTokens(text)
             E == SentenceEndings
             units == SubSeq(tokens, 1, i - 1)
             t == tokens[i]
             begins == start \/ nextEnd' > nextEnd
  <1>1. /\ pc = "sentences" /\ pc' = pc /\ i <= Len(tokens) /\ i' = i + 1
        /\ text' = text /\ options' = options /\ tokens' = tokens /\ ends' = ends
        /\ nextEnd' = PassEnds(t.first) /\ start' = FALSE
        /\ ret' = Placed(t, begins)
    BY DEF PlaceToken, input
  <1>2. /\ text \in Texts /\ text \in Seq(Unit) /\ Len(text) \in Nat
        /\ tokens \in Seq(U) /\ Len(tokens) \in Nat /\ i \in 1 .. Len(tokens)
        /\ t \in U /\ PlacedUpTo(i - 1) /\ AtEnd(i - 1) /\ IsIncreasing
        /\ \A u \in U : /\ u \in [first : Nat, last : Nat]
                        /\ u.first <= u.last
    <2>1. i \in 1 .. Len(tokens) /\ Len(tokens) \in Nat /\ tokens \in Seq(U) /\ text \in Texts
      BY <1>1, LenProperties DEF SentencesInv, TokensInv
    <2>2. t \in U
      BY <2>1, LenProperties
    <2>3. text \in Seq(Unit) /\ Len(text) \in Nat
      BY <2>1, TextIsSeq
    <2>4. \A u \in U : u \in [first : Nat, last : Nat] /\ u.first <= u.last
      BY <2>3, UntokenizedFacts
    <2> QED BY <1>1, <2>1, <2>2, <2>3, <2>4 DEF SentencesInv, TokensInv
  <1>3. /\ nextEnd' \in nextEnd .. Len(ends) + 1
        /\ \A m \in nextEnd .. nextEnd' - 1 : ends[m] < t.first
        /\ \A m \in nextEnd' .. Len(ends) : t.first <= ends[m]
        /\ i # 1 => (nextEnd' > nextEnd <=> \E e \in E : tokens[i - 1].first <= e /\ e < t.first)
    <2> HIDE DEF t, E
    <2>1. nextEnd' = PassEnds(tokens[i].first) /\ t = tokens[i] /\ E = SentenceEndings
      BY <1>1 DEF t, E
    <2> QED BY <1>1, <2>1, PassedEnds
  <1>4. InSequence(tokens)
    <2>1. tokens \in Seq([first : Nat, last : Nat])
      <3>1. \A k \in 1 .. Len(tokens) : tokens[k] \in U
        BY <1>2, LenProperties
      <3>2. \A k \in 1 .. Len(tokens) : tokens[k] \in [first : Nat, last : Nat]
        BY <1>2, <3>1
      <3>3. [k \in 1 .. Len(tokens) |-> tokens[k]] \in Seq([first : Nat, last : Nat])
        BY <1>2, <3>2
      <3>4. tokens = [k \in 1 .. Len(tokens) |-> tokens[k]]
        BY <1>2, LenProperties
      <3> QED BY <3>3, <3>4
    <2>2. \A k \in 1 .. Len(tokens) : tokens[k].first <= tokens[k].last
      BY <1>2, LenProperties
    <2> QED BY <1>2, <2>1, <2>2, IncreasingIsInSequence DEF IsIncreasing
  <1>5. /\ units \in Seq(U) /\ Len(units) = i - 1
        /\ \A k \in 1 .. i - 1 : units[k] = tokens[k]
    <2>1. \A k \in 1 .. i - 1 : k \in 1 .. Len(tokens) /\ tokens[k] \in U
      BY <1>2, LenProperties
    <2>2. units = [k \in 1 .. i - 1 |-> tokens[k]]
      <3>1. 1 \in Int /\ i - 1 \in Int /\ i - 1 - 1 + 1 = i - 1
        BY <1>2
      <3>2. units = [k \in 1 .. i - 1 - 1 + 1 |-> tokens[1 + k - 1]]
        BY <3>1
      <3>3. \A k \in 1 .. i - 1 : 1 + k - 1 = k
        OBVIOUS
      <3> QED BY <3>1, <3>2, <3>3
    <2>3. i - 1 \in Nat
      BY <1>2
    <2> HIDE DEF units, U
    <2> QED BY <2>1, <2>2, <2>3
  <1>6. SubSeq(tokens, 1, i) = Append(units, t)
    <2>1. SubSeq(tokens, 1, i) = [k \in 1 .. i |-> tokens[k]]
      <3>1. i \in Int /\ i - 1 + 1 = i /\ \A k \in 1 .. i : 1 + k - 1 = k
        BY <1>2
      <3>2. SubSeq(tokens, 1, i) = [k \in 1 .. i - 1 + 1 |-> tokens[1 + k - 1]]
        BY <3>1
      <3> QED BY <3>1, <3>2
    <2>2. /\ Append(units, t) \in Seq(U) /\ Len(Append(units, t)) = i
          /\ \A k \in 1 .. i - 1 : Append(units, t)[k] = tokens[k]
          /\ Append(units, t)[i] = t
      <3> HIDE DEF units, U, t
      <3>1. /\ Len(Append(units, t)) = Len(units) + 1
            /\ Append(units, t) \in Seq(U)
            /\ \A k \in 1 .. Len(units) : Append(units, t)[k] = units[k]
            /\ Append(units, t)[Len(units) + 1] = t
        BY <1>2, <1>5, AppendProperties
      <3> QED BY <1>2, <1>5, <3>1
    <2>3. Append(units, t) = [k \in 1 .. i |-> Append(units, t)[k]]
      <3> HIDE DEF units, U
      <3> QED BY <2>2, LenProperties
    <2>4. \A k \in 1 .. i : k \in 1 .. i - 1 \/ k = i
      BY <1>2
    <2> HIDE DEF units
    <2> QED BY <2>1, <2>2, <2>3, <2>4
  <1>7. /\ ret \in Seq(Seq(U)) /\ IsCut(ret, units, E) /\ SentencesInSequence(ret)
        /\ TokensOf(ret) = {tokens[k] : k \in 1 .. i - 1}
        /\ \A u \in TokensOf(ret) : u.last < t.first
    <2>1. /\ ret \in Seq(Seq(U)) /\ IsCut(ret, units, E) /\ SentencesInSequence(ret)
          /\ TokensOf(ret) = {tokens[k] : k \in 1 .. i - 1}
      BY <1>2 DEF PlacedUpTo
    <2>2. \A k \in 1 .. i - 1 : tokens[k].last < t.first
      <3>1. \A k \in 1 .. i - 1 : k \in 1 .. Len(tokens) /\ k < i
        BY <1>2
      <3> QED BY <1>2, <1>4, <3>1 DEF InSequence
    <2> QED BY <2>1, <2>2
  <1>8. begins <=> Len(units) = 0 \/ IsCutBefore(Append(units, t), E, Len(units) + 1)
    <2>1. start <=> i = 1
      BY <1>2 DEF AtEnd
    <2>2. CASE i = 1
      BY <1>5, <2>1, <2>2
    <2>3. CASE i # 1
      <3>1. Append(units, t)[i - 1] = tokens[i - 1] /\ Append(units, t)[i] = t
        <4> HIDE DEF units, U, t
        <4>1. /\ \A k \in 1 .. Len(units) : Append(units, t)[k] = units[k]
              /\ Append(units, t)[Len(units) + 1] = t
          BY <1>2, <1>5, AppendProperties
        <4>2. i - 1 \in 1 .. Len(units) /\ Len(units) + 1 = i
          BY <1>2, <1>5, <2>3
        <4> QED BY <1>5, <4>1, <4>2
      <3>2. Len(units) + 1 = i /\ Len(units) # 0
        BY <1>2, <1>5, <2>3
      <3> HIDE DEF units, t, E
      <3> QED BY <1>3, <2>1, <2>3, <3>1, <3>2 DEF IsCutBefore
    <2> QED BY <2>2, <2>3
  <1>9. /\ ret' \in Seq(Seq(U))
        /\ IsCut(ret', Append(units, t), E)
        /\ SentencesInSequence(ret')
        /\ TokensOf(ret') = TokensOf(ret) \union {t}
    <2>1. CASE begins
      <3>1. ret' = Append(ret, <<t>>)
        BY <1>1, <2>1 DEF Placed
      <3>2. <<t>> \in Seq(U)
        BY <1>2
      <3>3. ret' \in Seq(Seq(U))
        BY <1>7, <3>1, <3>2, AppendProperties
      <3> HIDE DEF units, U, t, E, begins
      <3>4. IsCut(Append(ret, <<t>>), Append(units, t), E)
        BY <1>2, <1>5, <1>7, <1>8, <2>1, CutBeforeToken
      <3>5. SentencesInSequence(Append(ret, <<t>>)) /\ TokensOf(Append(ret, <<t>>)) = TokensOf(ret) \union {t}
        <4>1. t \in U /\ ret \in Seq(Seq(U))
          BY <1>2, <1>7
        <4> QED BY <1>7, <4>1, SentencesGrow
      <3> QED BY <3>1, <3>3, <3>4, <3>5
    <2>2. CASE ~begins
      <3>1. ret' = [ret EXCEPT ![Len(ret)] = Append(@, t)]
        BY <1>1, <2>2 DEF Placed
      <3> HIDE DEF units, U, t, E, begins
      <3>2. Len(ret) # 0 /\ IsCut([ret EXCEPT ![Len(ret)] = Append(@, t)], Append(units, t), E)
        BY <1>2, <1>5, <1>7, <1>8, <2>2, CutAfterToken
      <3>3. LET Q == [ret EXCEPT ![Len(ret)] = Append(@, t)]
            IN  /\ Q \in Seq(Seq(U))
                /\ TokensOf(Q) = TokensOf(ret) \union {t}
                /\ SentencesInSequence(Q)
        BY <1>2, <1>7, <3>2, LastSentenceGrows
      <3> QED BY <3>1, <3>2, <3>3
    <2> QED BY <2>1, <2>2
  <1>10. TokensOf(ret') = {tokens[k] : k \in 1 .. i}
    <2>1. 1 .. i = 1 .. i - 1 \union {i}
      BY <1>2
    <2> QED BY <1>7, <1>9, <2>1
  <1>11. i' - 1 = i /\ i' \in 1 .. Len(tokens) + 1
    BY <1>1, <1>2
  <1>12. SentenceEndings' = SentenceEndings /\ UntokenizedTokens(text)' = U
    BY <1>1 DEF SentenceEndings, PunctuationEndings, IsStretch
  <1>13. PlacedUpTo(i - 1)'
    <2> HIDE DEF units, U, t, E, begins
    <2>1. SubSeq(tokens', 1, i' - 1) = Append(units, t)
      BY <1>1, <1>6, <1>11
    <2>2. {tokens'[k] : k \in 1 .. i' - 1} = {tokens[k] : k \in 1 .. i}
      BY <1>1, <1>11
    <2> QED BY <1>9, <1>10, <1>12, <2>1, <2>2 DEF PlacedUpTo, E, U
  <1>14. AtEnd(i - 1)'
    <2>1. i # 0 /\ start' = FALSE /\ tokens'[i' - 1] = t /\ i' - 1 = i /\ ends' = ends
      BY <1>1, <1>2, <1>11
    <2>2. nextEnd \in 1 .. Len(ends) + 1 /\ Len(ends) \in Nat
      BY <1>2, LenProperties DEF AtEnd
    <2>3. \A m \in 1 .. nextEnd' - 1 : ends[m] < t.first
      <3>1. TAKE m \in 1 .. nextEnd' - 1
      <3>2. CASE m \in nextEnd .. nextEnd' - 1
        BY <1>3, <3>2
      <3>3. CASE m \in 1 .. nextEnd - 1
        <4>1. m \in 1 .. Len(ends) /\ ends \in Seq(1 .. Len(text))
          BY <1>1, <2>2, <3>3 DEF EndsInv, EndsFound
        <4>2. ends[m] \in 1 .. Len(text)
          BY <4>1, LenProperties
        <4>3. CASE i = 1
          <5>1. nextEnd = 1
            BY <1>2, <4>3 DEF AtEnd
          <5> QED BY <3>3, <5>1
        <4>4. CASE i # 1
          <5>1. ends[m] < tokens[i - 1].first
            BY <1>2, <3>3, <4>4 DEF AtEnd
          <5>2. tokens[i - 1].last < t.first
            <6>1. i - 1 \in 1 .. Len(tokens) /\ i - 1 < i
              BY <1>2, <4>4
            <6> QED BY <1>2, <1>4, <6>1 DEF InSequence
          <5>3. tokens[i - 1] \in U
            <6>1. i - 1 \in 1 .. Len(tokens)
              BY <1>2, <4>4
            <6> QED BY <1>2, <6>1, LenProperties
          <5>4. /\ tokens[i - 1].first \in Nat /\ tokens[i - 1].last \in Nat
                /\ tokens[i - 1].first <= tokens[i - 1].last /\ t.first \in Nat
            BY <1>2, <5>3
          <5>5. \A a, b, c, d \in Nat : a < b /\ b <= c /\ c < d => a < d
            OBVIOUS
          <5>6. ends[m] \in Nat
            BY <4>2
          <5> QED BY <5>1, <5>2, <5>4, <5>5, <5>6, Zenon
        <4> QED BY <4>3, <4>4
      <3> QED BY <1>3, <2>2, <3>1, <3>2, <3>3
    <2>4. nextEnd' \in 1 .. Len(ends) + 1
      BY <1>3, <2>2
    <2> HIDE DEF t
    <2> QED BY <1>3, <2>1, <2>3, <2>4 DEF AtEnd
  <1>15. tokens' \in Seq(UntokenizedTokens(text)')
    BY <1>1, <1>2, <1>12
  <1> QED BY <1>1, <1>11, <1>13, <1>14, <1>15 DEF SentencesInv
LEMMA SentencesStep ==
  EndsInv /\ TokensInv /\ SentencesInv /\ [Next]_vars => SentencesInv'
  <1> SUFFICES ASSUME EndsInv, TokensInv, SentencesInv, [Next]_vars PROVE SentencesInv'
    OBVIOUS
  <1>1. CASE PlaceToken
    BY <1>1, PlaceKeepsSentences
  <1>2. CASE LookForEnd \/ StartTokens \/ TokenizeWord \/ TokenizeUnit \/ SkipSpace
    BY <1>2 DEF SentencesInv, LookForEnd, StartTokens, TokenizeWord, TokenizeUnit, AddToken,
                SkipSpace
  <1>3. CASE StartSentences
    <2>1. /\ pc = "tokens" /\ pc' = "sentences" /\ i' = 1 /\ text' = text
          /\ UNCHANGED <<ends, tokens, nextEnd, start, ret>>
          /\ ret = <<>> /\ start = TRUE /\ nextEnd = 1
      BY <1>3 DEF StartSentences, SentencesInv, input
    <2>2. tokens \in Seq(UntokenizedTokens(text)) /\ Len(tokens) \in Nat
      BY <2>1, LenProperties DEF TokensInv
    <2>3. SubSeq(tokens', 1, i' - 1) = <<>>
      BY <2>1
    <2>4. /\ SentencesInSequence(<<>>) /\ TokensOf(<<>>) = {}
          /\ \A E : IsCut(<<>>, <<>>, E)
      BY NothingIsCut DEF SentencesInSequence, TokensOf
    <2>5. ret' \in Seq(Seq(UntokenizedTokens(text)'))
      BY <2>1
    <2>6. PlacedUpTo(i - 1)'
      <3>1. {tokens'[k] : k \in 1 .. i' - 1} = {}
        BY <2>1
      <3> QED BY <2>1, <2>3, <2>4, <2>5, <3>1 DEF PlacedUpTo
    <2>7. AtEnd(i - 1)'
      <3>1. Len(ends) \in Nat
        BY <2>1, LenProperties DEF EndsInv, EndsFound
      <3> QED BY <2>1, <3>1 DEF AtEnd
    <2>8. UntokenizedTokens(text)' = UntokenizedTokens(text)
      BY <2>1
    <2> QED BY <2>1, <2>2, <2>6, <2>7, <2>8 DEF SentencesInv
  <1>4. CASE Return \/ UNCHANGED vars
    <2>1. UNCHANGED <<input, i, ends, tokens, nextEnd, start, ret>>
      BY <1>4 DEF Return, vars
    <2>2. \A n : (PlacedUpTo(n)' <=> PlacedUpTo(n)) /\ (AtEnd(n)' <=> AtEnd(n))
      BY <2>1 DEF PlacedUpTo, AtEnd, input, SentenceEndings, PunctuationEndings, IsStretch
    <2>3. PlacedUpTo(i - 1)' <=> PlacedUpTo(i - 1)
      BY <2>1 DEF PlacedUpTo, input, SentenceEndings, PunctuationEndings, IsStretch
    <2>4. AtEnd(i - 1)' <=> AtEnd(i - 1)
      BY <2>1 DEF AtEnd
    <2>5. pc \in {"sentences", "done"} => i \in 1 .. Len(tokens) + 1 /\ Len(tokens) \in Nat
      BY LenProperties DEF SentencesInv
    <2>6. CASE Return
      BY <2>1, <2>3, <2>4, <2>5, <2>6 DEF Return, SentencesInv, input
    <2>7. CASE UNCHANGED vars
      BY <2>1, <2>3, <2>4, <2>7 DEF vars, SentencesInv, input
    <2> QED BY <1>4, <2>6, <2>7
  <1> QED BY <1>1, <1>2, <1>3, <1>4 DEF Next

LEMMA SentencesBegin == Init => SentencesInv
  BY DEF Init, SentencesInv

(* All that the callers of the tokenizer get.                              *)
LEMMA SentencesAtTheEnd ==
  ASSUME TokensInv, SentencesInv, pc = "done"
  PROVE  /\ SentencesAreCut
         /\ ret \in Seq(Seq(UntokenizedTokens(text)))
         /\ SentencesInSequence(ret)
         /\ TokensOf(ret) = UntokenizedTokens(text)
  <1>1. i - 1 = Len(tokens) /\ tokens \in Seq(UntokenizedTokens(text)) /\ PlacedUpTo(i - 1)
    <2>1. i = Len(tokens) + 1 /\ tokens \in Seq(UntokenizedTokens(text)) /\ PlacedUpTo(i - 1)
      BY DEF SentencesInv
    <2> QED BY <2>1, LenProperties
  <1>2. SubSeq(tokens, 1, i - 1) = tokens
    BY <1>1, SubSeqFull
  <1>3. Found = UntokenizedTokens(text)
    BY DEF TokensInv
  <1>4. IsCutAt(ret, tokens, SentenceEndings)
    BY <1>1, <1>2, CutIsIsCutAt DEF PlacedUpTo
  <1> QED BY <1>1, <1>3, <1>4 DEF PlacedUpTo, SentencesAreCut, Found

(* The sentences are the tokens, cut after every closing punctuation and   *)
(* newline that the rules name and nowhere else, for every text and every  *)
(* option, although the walk keeps only an index into the ends and may     *)
(* pass several at a token: src/src/token/tokenizer.cpp:88-110.            *)
THEOREM SentencesAreAlwaysCut == Spec => []SentencesAreCut
  <1>1. TokensInv /\ SentencesInv => SentencesAreCut
    BY SentencesAtTheEnd DEF SentencesAreCut
  <1> QED BY <1>1, TokensBegin, TokensStep, EndsBegin, EndsStep, SentencesBegin, SentencesStep, PTL
      DEF Spec
==============================================================================
