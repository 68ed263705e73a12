---------------------------- MODULE BlocksProofs ----------------------------
(***************************************************************************)
(* Proofs about the output formats, for every set of texts and every input *)
(* format whose tokens are disjoint and leave out white space only; then   *)
(* about the loop that hands them the sentences of a document, of which    *)
(* the output formats, with what is proved of them, are a refinement.      *)
(***************************************************************************)
EXTENDS Blocks, FiniteSetTheorems, SequenceTheorems, TLAPS

-----------------------------------------------------------------------------
(* Where the walk over the tokens is.                                      *)

(* No token is split by pos, and original and xml have printed up to it.   *)
WalkInv ==
  /\ text \in Texts
  /\ format \in OutputFormats
  /\ tokens \in Tokenizations(text)
  /\ pos \in 0 .. Len(text)
  /\ \A t \in tokens : t.last <= pos \/ pos < t.first
  /\ pc = "tokens" =>
       /\ unprinted \in 0 .. pos
       /\ format # "suggestions" => unprinted = pos

LEMMA TextFacts ==
  ASSUME NEW block \in Texts
  PROVE  /\ block \in Seq(Unit) /\ WellFormed(block)
         /\ Len(block) \in Nat
  BY TextsAssumption, LenProperties DEF WellFormed

LEMMA TokenFacts ==
  ASSUME NEW block \in Texts, NEW units \in Tokenizations(block), NEW t \in units
  PROVE  /\ t.first \in 1 .. Len(block) /\ t.last \in 1 .. Len(block)
         /\ t.first <= t.last
  BY TokenizationsAssumption DEF IsTokenization

LEMMA StartOfBlock ==
  ASSUME NEW block \in Texts, NEW units \in Tokenizations(block)
  PROVE  /\ 0 \in 0 .. Len(block)
         /\ \A t \in units : 0 < t.first
  BY TextFacts, TokenFacts

(* The end of the next token splits no token.                              *)
LEMMA NextTokenMovesOn ==
  ASSUME WalkInv, NEW t \in tokens, IsNextToken(t)
  PROVE  /\ pc = "tokens"
         /\ pos < t.first /\ t.first <= t.last /\ t.last \in 0 .. Len(text)
         /\ t.first \in 1 .. Len(text)
         /\ unprinted \in 0 .. pos
         /\ \A u \in tokens : u.last <= t.last \/ t.last < u.first
  <1>1. pc = "tokens" /\ pos < t.first
    BY DEF IsNextToken, Coming
  <1>2. t.first \in 1 .. Len(text) /\ t.last \in 1 .. Len(text) /\ t.first <= t.last
    BY TokenFacts DEF WalkInv
  <1>3. ASSUME NEW u \in tokens
        PROVE  u.last <= t.last \/ t.last < u.first
    <2>1. u.first \in 1 .. Len(text) /\ u.last \in 1 .. Len(text) /\ u.first <= u.last
      BY TokenFacts DEF WalkInv
    <2>2. u = t \/ t.last < u.first \/ u.last < t.first
      BY TokenizationsAssumption DEF WalkInv, IsTokenization
    <2> QED BY <1>2, <2>1, <2>2
  <1> QED BY <1>1, <1>2, <1>3, TextFacts DEF WalkInv

LEMMA InitWalk == Init => WalkInv
  BY StartOfBlock DEF Init, WalkInv

LEMMA NextWalk == WalkInv /\ [Next]_vars => WalkInv'
  <1> SUFFICES ASSUME WalkInv, [Next]_vars PROVE WalkInv'
    OBVIOUS
  <1>1. CASE SetBlock
    BY <1>1, StartOfBlock DEF SetBlock, WalkInv
  <1>2. ASSUME NEW t \in tokens, IsNextToken(t), TakeToken(t)
        PROVE  WalkInv'
    <2>1. UNCHANGED <<text, tokens, format, pc>> /\ pos' = t.last
      BY <1>2 DEF TakeToken, KeepToken, PassToken, CorrectToken, PrintTo
    <2>2. \/ unprinted' = t.last
          \/ unprinted' = unprinted /\ format = "suggestions"
      BY <1>2 DEF TakeToken, KeepToken, PassToken, CorrectToken, PrintTo
    <2>3. unprinted' \in 0 .. t.last /\ (format # "suggestions" => unprinted' = t.last)
      BY <1>2, <2>2, NextTokenMovesOn, TextFacts DEF WalkInv
    <2> QED BY <1>2, <2>1, <2>3, NextTokenMovesOn DEF WalkInv
  <1>3. CASE Finish
    BY <1>3 DEF Finish, WalkInv
  <1>4. CASE UNCHANGED vars
    BY <1>4 DEF vars, WalkInv
  <1> QED BY <1>1, <1>2, <1>3, <1>4 DEF Next

LEMMA WalkGaps == WalkInv => GapsAreWhiteSpace
  <1> SUFFICES ASSUME WalkInv, format # "suggestions", pc = "tokens",
                      NEW k \in unprinted + 1 .. Len(text),
                      \A t \in Coming : k < t.first
               PROVE  text[k] \in Space
    BY DEF GapsAreWhiteSpace
  <1>1. unprinted = pos /\ pos \in Nat /\ k \in 1 .. Len(text) /\ pos < k
    BY TextFacts DEF WalkInv
  <1>2. ASSUME NEW t \in tokens, k \in t.first .. t.last
        PROVE  FALSE
    <2>1. t.first \in Nat /\ t.last \in Nat
      BY TokenFacts, TextFacts DEF WalkInv
    <2>2. t.last <= pos \/ pos < t.first
      BY DEF WalkInv
    <2>3. t.last > pos
      BY <1>1, <1>2, <2>1
    <2>4. t \in Coming
      BY <2>1, <2>2, <2>3, <1>1 DEF Coming
    <2> QED BY <1>1, <1>2, <2>1, <2>4
  <1> QED BY <1>1, <1>2, TokenizationsAssumption DEF WalkInv, IsTokenization

(* What the formats original and xml copy from the block without looking   *)
(* at it is white space, for every text and all their input formats: xml   *)
(* need not encode it.                                                     *)
THEOREM OnlyWhiteSpaceBetween == Spec => []GapsAreWhiteSpace
  BY InitWalk, NextWalk, WalkGaps, PTL DEF Spec

-----------------------------------------------------------------------------
(* What UTF16To8Append prints.                                             *)

IsPlain(s, from, to) == \A k \in from .. to : s[k] \notin High \union Low

LEMMA PlainIsPrinted ==
  ASSUME NEW s \in Seq(Unit), NEW from \in 1 .. Len(s), NEW to \in from .. Len(s),
         IsPlain(s, from, to)
  PROVE  UTF16To8(s, from, to - from + 1) = SubSeq(s, from, to)
  <1> DEFINE length == to - from + 1
             stops == {e \in from - 1 .. Len(s) : Cardinality(CodePoints(s, from, e)) <= length}
  <1>1. Len(s) \in Nat /\ from \in Nat /\ to \in Nat /\ length \in Nat /\ from <= to
    BY LenProperties
  <1>2. \A k \in from .. to + 1 : k = from \/ ~IsPairAt(s, k - 1)
    BY <1>1 DEF IsPairAt, IsPlain
  <1>3. ASSUME NEW e \in from - 1 .. to
        PROVE  Cardinality(CodePoints(s, from, e)) <= length
    <2>1. CodePoints(s, from, e) = from .. e
      BY <1>1, <1>2 DEF CodePoints
    <2>2. Cardinality(from .. e) = IF from > e THEN 0 ELSE e - from + 1
      BY <1>1, FS_Interval
    <2> QED BY <1>1, <2>1, <2>2
  <1>4. ASSUME NEW e \in to + 1 .. Len(s)
        PROVE  ~(Cardinality(CodePoints(s, from, e)) <= length)
    <2>1. from .. to + 1 \subseteq CodePoints(s, from, e)
      BY <1>1, <1>2 DEF CodePoints
    <2>2. IsFiniteSet(from .. e) /\ CodePoints(s, from, e) \subseteq from .. e
      BY <1>1, FS_Interval DEF CodePoints
    <2>3. IsFiniteSet(CodePoints(s, from, e))
      BY <2>2, FS_Subset
    <2>4. Cardinality(from .. to + 1) <= Cardinality(CodePoints(s, from, e))
      BY <2>1, <2>3, FS_Subset
    <2>5. Cardinality(from .. to + 1) = length + 1
      <3>1. Cardinality(from .. to + 1) = IF from > to + 1 THEN 0 ELSE (to + 1) - from + 1
        BY <1>1, FS_Interval
      <3> QED BY <1>1, <3>1
    <2>6. Cardinality(CodePoints(s, from, e)) \in Nat
      BY <2>3, FS_CardinalityType
    <2> HIDE DEF length
    <2> QED BY <1>1, <2>4, <2>5, <2>6
  <1>5. stops = from - 1 .. to
    <2> HIDE DEF length
    <2> QED BY <1>1, <1>3, <1>4
  <1>6. LastPrinted(s, from, length) = to
    <2>1. \A n \in stops : (\A k \in stops : k <= n) => n = to
      BY <1>1, <1>5
    <2>2. to \in stops /\ \A k \in stops : k <= to
      BY <1>1, <1>5
    <2>3. Greatest(stops) = to
      <3> HIDE DEF stops
      <3> QED BY <2>1, <2>2 DEF Greatest
    <2> QED BY <2>3 DEF LastPrinted
  <1>7. UTF16To8(s, from, length) = [j \in 1 .. length |-> s[from + j - 1]]
    <2>1. \A j \in 1 .. length : from + j - 1 \in from .. to
      BY <1>1
    <2>2. \A j \in 1 .. length : ~IsLone(s, from, from + j - 1)
      BY <2>1 DEF IsLone, IsPlain
    <2>3. LastPrinted(s, from, length) - from + 1 = length
      BY <1>6
    <2> HIDE DEF length
    <2> QED BY <2>2, <2>3 DEF UTF16To8
  <1>8. SubSeq(s, from, to) = [j \in 1 .. length |-> s[from + j - 1]]
    BY <1>1
  <1> QED BY <1>7, <1>8

LEMMA WholeIsPrinted ==
  ASSUME NEW s \in Seq(Unit), WellFormed(s), Len(s) # 0
  PROVE  UTF16To8(s, 1, Len(s)) = s
  <1> DEFINE n == Len(s)
             stops == {e \in 1 - 1 .. n : Cardinality(CodePoints(s, 1, e)) <= n}
  <1>1. n \in Nat \ {0}
    BY LenProperties
  <1>2. n \in stops /\ \A k \in stops : k <= n
    <2>1. IsFiniteSet(1 .. n) /\ Cardinality(1 .. n) = n
      <3>1. Cardinality(1 .. n) = IF 1 > n THEN 0 ELSE n - 1 + 1
        BY <1>1, FS_Interval
      <3> QED BY <1>1, <3>1, FS_Interval
    <2>2. CodePoints(s, 1, n) \subseteq 1 .. n
      BY DEF CodePoints
    <2>3. Cardinality(CodePoints(s, 1, n)) <= n
      BY <2>1, <2>2, FS_Subset
    <2> QED BY <1>1, <2>3
  <1>3. LastPrinted(s, 1, n) = n
    <2>1. \A k \in stops : (\A j \in stops : j <= k) => k = n
      BY <1>1, <1>2
    <2>2. Greatest(stops) = n
      <3> HIDE DEF stops, n
      <3> QED BY <1>2, <2>1 DEF Greatest
    <2> QED BY <2>2 DEF LastPrinted
  <1>4. \A k \in 1 .. n : ~IsLone(s, 1, k)
    <2>1. TAKE k \in 1 .. n
    <2>2. s[k] \in High => IsPairAt(s, k)
      BY DEF WellFormed
    <2>3. s[k] \in Low => IsPairAt(s, k - 1) /\ k > 1
      BY <1>1 DEF WellFormed, IsPairAt
    <2> QED BY <2>2, <2>3 DEF IsLone
  <1>5. UTF16To8(s, 1, n) = [j \in 1 .. n |-> s[j]]
    <2>1. LastPrinted(s, 1, n) - 1 + 1 = n
      BY <1>1, <1>3
    <2>2. \A j \in 1 .. n : 1 + j - 1 = j
      BY <1>1
    <2> HIDE DEF n
    <2> QED BY <1>4, <2>1, <2>2 DEF UTF16To8
  <1>6. s = [j \in 1 .. n |-> s[j]]
    BY LenProperties
  <1> QED BY <1>5, <1>6

-----------------------------------------------------------------------------
(* What is printed, if no surrogate pair is cut.                           *)

(* ShownIsPrefix together with where the walk is, and the end.             *)
PrefixInv ==
  /\ WalkInv
  /\ PairsAreKept => /\ pc = "tokens" => shown = SubSeq(text, 1, unprinted)
                     /\ pc = "done" => shown = text
  /\ pc \in {"tokens", "done"}

(* Surrogates are in tokens, unless the text has none.                     *)
LEMMA GapIsText ==
  ASSUME WalkInv, PairsAreKept, pc = "tokens",
         NEW position \in pos + 1 .. Len(text) + 1,
         \A t \in Coming : position <= t.first
  PROVE  Gap(position) = SubSeq(text, unprinted + 1, position - 1)
  <1>1. /\ text \in Seq(Unit) /\ Len(text) \in Nat
        /\ pos \in 0 .. Len(text) /\ unprinted \in 0 .. pos
        /\ position \in Nat /\ unprinted < position /\ position - 1 <= Len(text)
    BY TextFacts DEF WalkInv
  <1>2. IsPlain(text, unprinted + 1, position - 1)
    <2>1. CASE format = "suggestions"
      <3>1. unprinted + 1 .. position - 1 \subseteq 1 .. Len(text)
        BY <1>1
      <3> QED BY <2>1, <3>1 DEF PairsAreKept, IsPlain
    <2>2. CASE format # "suggestions"
      <3> SUFFICES ASSUME NEW k \in unprinted + 1 .. position - 1
                   PROVE  text[k] \notin High \union Low
        BY DEF IsPlain
      <3>1. k \in unprinted + 1 .. Len(text)
        BY <1>1
      <3>2. \A t \in Coming : k < t.first
        <4>1. \A t \in Coming : t.first \in Nat
          BY <1>1, TokenFacts DEF WalkInv, Coming
        <4> QED BY <1>1, <4>1
      <3>3. text[k] \in Space
        BY <2>2, <3>1, <3>2, WalkGaps DEF GapsAreWhiteSpace
      <3> QED BY <3>3, ClassesAssumption
    <2> QED BY <2>1, <2>2
  <1>3. CASE unprinted < position - 1
    <2> DEFINE to == position - 1
               from == unprinted + 1
    <2>1. from \in 1 .. Len(text) /\ to \in from .. Len(text) /\ to - from + 1 = position - 1 - unprinted
      BY <1>1, <1>3
    <2>2. UTF16To8(text, from, to - from + 1) = SubSeq(text, from, to)
      <3> HIDE DEF from, to
      <3>1. IsPlain(text, from, to)
        BY <1>2 DEF from, to
      <3> QED BY <1>1, <2>1, <3>1, PlainIsPrinted
    <2> QED BY <1>3, <2>1, <2>2 DEF Gap
  <1>4. CASE ~(unprinted < position - 1)
    <2>1. position - 1 < unprinted + 1 /\ position - 1 \in Int /\ unprinted + 1 \in Int
      BY <1>1, <1>4
    <2> QED BY <1>4, <2>1, SubSeqEmpty DEF Gap
  <1> QED BY <1>3, <1>4

(* A token that cuts no pair is a well-formed text.                        *)
LEMMA TokenIsText ==
  ASSUME WalkInv, PairsAreKept, NEW t \in tokens
  PROVE  format # "suggestions" \/ IsPlain(text, t.first, t.last) => PrintedToken(t) = Str(t)
  <1> SUFFICES ASSUME format # "suggestions" \/ IsPlain(text, t.first, t.last)
               PROVE  PrintedToken(t) = Str(t)
    OBVIOUS
  <1>1. text \in Seq(Unit) /\ WellFormed(text) /\ Len(text) \in Nat
    BY TextFacts DEF WalkInv
  <1>2. t.first \in 1 .. Len(text) /\ t.last \in 1 .. Len(text) /\ t.first <= t.last
    BY TokenFacts DEF WalkInv
  <1> DEFINE n == t.last - t.first + 1
  <1>3. /\ Str(t) \in Seq(Unit) /\ Len(Str(t)) = n
        /\ \A k \in 1 .. n : Str(t)[k] = text[t.first + k - 1]
    <2>1. \A k \in t.first .. t.last : text[k] \in Unit
      BY <1>1, <1>2, ElementOfSeq
    <2> QED BY <1>1, <1>2, <2>1, SubSeqProperties DEF Str
  <1>4. n \in Nat \ {0} /\ t.first \in Nat /\ t.last \in Nat
    BY <1>1, <1>2
  <1>5. \A k \in 1 .. n - 1 : IsPairAt(text, t.first + k - 1) => IsPairAt(Str(t), k)
    <2> SUFFICES ASSUME NEW k \in 1 .. n - 1, IsPairAt(text, t.first + k - 1)
                 PROVE  IsPairAt(Str(t), k)
      OBVIOUS
    <2>1. k \in 1 .. n /\ k + 1 \in 1 .. n /\ t.first + (k + 1) - 1 = (t.first + k - 1) + 1
      BY <1>4
    <2>2. Str(t)[k] = text[t.first + k - 1] /\ Str(t)[k + 1] = text[(t.first + k - 1) + 1]
      BY <1>3, <2>1
    <2>3. Str(t)[k] \in High /\ Str(t)[k + 1] \in Low
      BY <2>2 DEF IsPairAt
    <2> HIDE DEF n
    <2> QED BY <1>3, <2>3 DEF IsPairAt
  <1>6. ASSUME NEW k \in 1 .. n, Str(t)[k] \in High
        PROVE  IsPairAt(Str(t), k)
    <2> DEFINE j == t.first + k - 1
    <2>1. j \in 1 .. Len(text) /\ j \in t.first .. t.last /\ text[j] \in High
      BY <1>1, <1>2, <1>3, <1>6
    <2>2. IsPairAt(text, j)
      <3> HIDE DEF j
      <3> QED BY <1>1, <2>1 DEF WellFormed
    <2>3. k # n
      <3>1. ~IsPlain(text, t.first, t.last)
        <4> HIDE DEF j
        <4> QED BY <2>1 DEF IsPlain
      <3>2. ~IsPairAt(text, t.last)
        BY <3>1 DEF PairsAreKept
      <3>3. k = n => j = t.last
        BY <1>4
      <3> HIDE DEF j, n
      <3> QED BY <2>2, <3>2, <3>3
    <2>4. k \in 1 .. n - 1
      BY <1>4, <2>3
    <2> QED BY <1>5, <2>2, <2>4
  <1>7. ASSUME NEW k \in 1 .. n, Str(t)[k] \in Low
        PROVE  IsPairAt(Str(t), k - 1)
    <2> DEFINE j == t.first + k - 1
    <2>1. j \in 1 .. Len(text) /\ j \in t.first .. t.last /\ text[j] \in Low
      BY <1>1, <1>2, <1>3, <1>7
    <2>2. IsPairAt(text, j - 1)
      <3> HIDE DEF j
      <3> QED BY <1>1, <2>1 DEF WellFormed
    <2>3. k # 1
      <3>1. ~IsPlain(text, t.first, t.last)
        <4> HIDE DEF j
        <4> QED BY <2>1 DEF IsPlain
      <3>2. ~IsPairAt(text, t.first - 1)
        BY <3>1 DEF PairsAreKept
      <3>3. k = 1 => j - 1 = t.first - 1
        BY <1>4
      <3> HIDE DEF j
      <3> QED BY <2>2, <3>2, <3>3
    <2>4. k - 1 \in 1 .. n - 1 /\ t.first + (k - 1) - 1 = j - 1
      BY <1>4, <2>3
    <2>5. IsPairAt(text, t.first + (k - 1) - 1)
      <3> HIDE DEF j
      <3> QED BY <2>2, <2>4
    <2> HIDE DEF j, n
    <2> QED BY <1>5, <2>4, <2>5
  <1>8. WellFormed(Str(t)) /\ Len(Str(t)) # 0
    <2> HIDE DEF n
    <2> QED BY <1>3, <1>4, <1>6, <1>7 DEF WellFormed
  <1> QED BY <1>3, <1>8, WholeIsPrinted DEF PrintedToken

LEMMA PrintedAsItIs ==
  ASSUME WalkInv, PairsAreKept, NEW t \in tokens
  PROVE  PrintedToken(t) = Str(t)
  <1>1. CASE format # "suggestions"
    BY <1>1, TokenIsText
  <1>2. CASE format = "suggestions"
    <2>1. t.first .. t.last \subseteq 1 .. Len(text)
      BY TextFacts, TokenFacts DEF WalkInv
    <2>2. IsPlain(text, t.first, t.last)
      BY <1>2, <2>1 DEF PairsAreKept, IsPlain
    <2> QED BY <2>2, TokenIsText
  <1> QED BY <1>1, <1>2

(* The text up to unprinted, the gap and the token are the text up to the  *)
(* end of the token.                                                       *)
LEMMA PrefixGrows ==
  ASSUME PrefixInv, PairsAreKept, NEW t \in tokens, IsNextToken(t)
  PROVE  shown \o Gap(t.first) \o Str(t) = SubSeq(text, 1, t.last)
  <1>1. text \in Seq(Unit) /\ Len(text) \in Nat /\ text \in Texts /\ WalkInv
    BY TextFacts DEF PrefixInv, WalkInv
  <1>2. /\ pc = "tokens" /\ unprinted \in 0 .. pos /\ pos \in 0 .. Len(text)
        /\ pos < t.first /\ t.first <= t.last
        /\ t.first \in 1 .. Len(text) /\ t.last \in 0 .. Len(text)
    BY <1>1, NextTokenMovesOn DEF WalkInv
  <1>3. shown = SubSeq(text, 1, unprinted)
    BY <1>2 DEF PrefixInv
  <1>4. Gap(t.first) = SubSeq(text, unprinted + 1, t.first - 1)
    <2>1. t.first \in pos + 1 .. Len(text) + 1
      BY <1>1, <1>2
    <2>2. \A u \in Coming : t.first <= u.first
      BY DEF IsNextToken
    <2> QED BY <1>1, <1>2, <2>1, <2>2, GapIsText
  <1>5. SubSeq(text, 1, unprinted) \o SubSeq(text, unprinted + 1, t.first - 1)
          = SubSeq(text, 1, t.first - 1)
    <2>1. /\ 1 \in 1 .. Len(text) + 1
          /\ unprinted \in 1 - 1 .. Len(text)
          /\ t.first - 1 \in unprinted .. Len(text)
      BY <1>1, <1>2
    <2> QED BY <1>1, <2>1, ConcatAdjacentSubSeq
  <1>6. SubSeq(text, 1, t.first - 1) \o SubSeq(text, t.first, t.last) = SubSeq(text, 1, t.last)
    <2> DEFINE k == t.first - 1
    <2>1. /\ 1 \in 1 .. Len(text) + 1
          /\ k \in 1 - 1 .. Len(text)
          /\ t.last \in k .. Len(text)
          /\ k + 1 = t.first
      BY <1>1, <1>2
    <2>2. SubSeq(text, 1, k) \o SubSeq(text, k + 1, t.last) = SubSeq(text, 1, t.last)
      <3> HIDE DEF k
      <3> QED BY <1>1, <2>1, ConcatAdjacentSubSeq
    <2> QED BY <2>1, <2>2
  <1> QED BY <1>3, <1>4, <1>5, <1>6 DEF Str

LEMMA NextPrefix == PrefixInv /\ [Next]_vars => PrefixInv'
  <1> SUFFICES ASSUME PrefixInv, [Next]_vars PROVE PrefixInv'
    OBVIOUS
  <1>w. WalkInv /\ WalkInv'
    BY NextWalk DEF PrefixInv
  <1>k. UNCHANGED <<text, tokens, format>> => (PairsAreKept' <=> PairsAreKept)
    BY DEF PairsAreKept, IsPairAt
  <1>1. CASE SetBlock
    <2>1. SubSeq(text', 1, 0) = <<>>
      BY SubSeqEmpty
    <2> QED BY <1>1, <1>w, <2>1 DEF SetBlock, PrefixInv
  <1>2. ASSUME NEW t \in tokens, IsNextToken(t), KeepToken(t) \/ CorrectToken(t)
        PROVE  PrefixInv'
    <2>1. pc = "tokens" /\ UNCHANGED <<text, tokens, format, pc>> /\ unprinted' = t.last
      BY <1>2 DEF IsNextToken, KeepToken, CorrectToken, PrintTo
    <2>2. ASSUME PairsAreKept
          PROVE  shown' = SubSeq(text, 1, t.last)
      <3>1. PrintedToken(t) = Str(t)
        BY <1>w, <2>2, PrintedAsItIs
      <3>2. PrintTo(t, Str(t))
        BY <1>2, <3>1 DEF KeepToken, CorrectToken
      <3> QED BY <1>2, <2>2, <3>2, PrefixGrows DEF PrintTo
    <2> QED BY <1>w, <1>k, <2>1, <2>2 DEF PrefixInv
  <1>3. ASSUME NEW t \in tokens, PassToken(t)
        PROVE  PrefixInv'
    BY <1>3, <1>w, <1>k DEF PassToken, PrefixInv
  <1>4. CASE pc = "tokens" /\ Coming = {} /\ Finish
    <2>1. UNCHANGED <<text, tokens, format>> /\ pc' = "done"
      BY <1>4 DEF Finish
    <2>2. ASSUME PairsAreKept
          PROVE  shown' = text
      <3>1. /\ text \in Seq(Unit) /\ Len(text) \in Nat
            /\ pos \in 0 .. Len(text) /\ unprinted \in 0 .. pos
        BY <1>4, <1>w, TextFacts DEF WalkInv
      <3>2. Gap(Len(text) + 1) = SubSeq(text, unprinted + 1, Len(text))
        <4>1. Len(text) + 1 \in pos + 1 .. Len(text) + 1 /\ Len(text) + 1 - 1 = Len(text)
          BY <3>1
        <4>2. \A t \in Coming : Len(text) + 1 <= t.first
          BY <1>4
        <4> QED BY <1>4, <1>w, <2>2, <4>1, <4>2, GapIsText
      <3>3. SubSeq(text, 1, unprinted) \o SubSeq(text, unprinted + 1, Len(text))
              = SubSeq(text, 1, Len(text))
        <4>1. /\ 1 \in 1 .. Len(text) + 1
              /\ unprinted \in 1 - 1 .. Len(text)
              /\ Len(text) \in unprinted .. Len(text)
          BY <3>1
        <4> QED BY <3>1, <4>1, ConcatAdjacentSubSeq
      <3>4. shown = SubSeq(text, 1, unprinted)
        BY <1>4, <2>2 DEF PrefixInv
      <3>5. shown' = shown \o Gap(Len(text) + 1)
        BY <1>4 DEF Finish
      <3> QED BY <3>1, <3>2, <3>3, <3>4, <3>5, SubSeqFull
    <2> QED BY <1>w, <1>k, <2>1, <2>2 DEF PrefixInv
  <1>5. CASE UNCHANGED vars
    BY <1>5, <1>w, <1>k DEF vars, PrefixInv
  <1> QED BY <1>1, <1>2, <1>3, <1>4, <1>5 DEF Next, TakeToken

LEMMA PrefixInvariance == Spec => []PrefixInv
  <1>1. Init => PrefixInv
    <2>1. SubSeq(text, 1, 0) = <<>>
      BY SubSeqEmpty
    <2> QED BY <2>1, InitWalk DEF Init, PrefixInv
  <1> QED BY <1>1, NextPrefix, PTL DEF Spec

(* For every input format and text, if no surrogate pair is cut, what has  *)
(* been sent is at every moment the text up to unprinted: nothing twice,   *)
(* nothing left out, whichever tokens are corrected.                       *)
THEOREM NothingTwice == Spec => []ShownIsPrefix
  <1>1. PrefixInv => ShownIsPrefix
    BY DEF PrefixInv, ShownIsPrefix
  <1> QED BY <1>1, PrefixInvariance, PTL

(* What api-reference.php:141 and MANUAL:314 promise, if no surrogate pair *)
(* is cut.                                                                 *)
THEOREM TextIsKept == Spec => []KeptTextIsPreserved
  <1>1. PrefixInv => KeptTextIsPreserved
    BY DEF PrefixInv, KeptTextIsPreserved
  <1> QED BY <1>1, PrefixInvariance, PTL

-----------------------------------------------------------------------------
(* What is known of the tokenizer (TokenizerProofs) and of the operators   *)
(* of Text, as the three components see them.                              *)

TokenizerFacts ==
  INSTANCE TokenizerProofs WITH
    options <- OptionsOf(inputFormat), i <- unit, tokens <- found,
    pc <- tokenizerPc

LEMMA SameTexts == \A block \in Texts : TokenizerFacts!WellFormed(block)
  BY TextsAssumption
     DEF TokenizerFacts!WellFormed, WellFormed, TokenizerFacts!IsPairAt, IsPairAt,
         TokenizerFacts!Unit, Unit

LEMMA SameTokens ==
  ASSUME NEW block
  PROVE  /\ \A S : TokenizerFacts!Runs(block, S) = Runs(block, S)
         /\ \A S : Input!Runs(block, S) = Runs(block, S)
         /\ TokenizerFacts!Unit = Unit /\ Input!Unit = Unit
         /\ TokenizerFacts!UntokenizedTokens(block) = UntokenizedTokens(block)
         /\ Input!VerticalTokens(block) = VerticalTokens(block)
         /\ Input!HorizontalTokens(block) = HorizontalTokens(block)
         /\ Input!Newlines(block) = Newlines(block)
         /\ Input!EmptyLines(block) = EmptyLines(block)
         /\ \A b, e : Input!Token(b, e) = Token(b, e)
  <1>1. \A S : TokenizerFacts!Runs(block, S) = Runs(block, S)
    BY DEF TokenizerFacts!Runs, Runs
  <1>2. \A S : Input!Runs(block, S) = Runs(block, S)
    BY DEF Input!Runs, Runs
  <1>3. TokenizerFacts!Unit = Unit /\ Input!Unit = Unit
    BY DEF TokenizerFacts!Unit, Input!Unit, Unit
  <1>4. TokenizerFacts!UntokenizedTokens(block) = UntokenizedTokens(block)
    BY <1>1 DEF TokenizerFacts!UntokenizedTokens, UntokenizedTokens, TokenizerFacts!Token, Token
  <1>5. /\ Input!VerticalTokens(block) = VerticalTokens(block)
        /\ Input!HorizontalTokens(block) = HorizontalTokens(block)
    BY <1>2, <1>3 DEF Input!VerticalTokens, VerticalTokens, Input!HorizontalTokens, HorizontalTokens
  <1>6. Input!Newlines(block) = Newlines(block)
    BY DEF Input!Newlines, Newlines
  <1>7. Input!EmptyLines(block) = EmptyLines(block)
    BY <1>6 DEF Input!EmptyLines, EmptyLines
  <1>8. \A b, e : Input!Token(b, e) = Token(b, e)
    BY DEF Input!Token, Token
  <1> QED BY <1>1, <1>2, <1>3, <1>4, <1>5, <1>6, <1>7, <1>8

LEMMA SameIsCutAt ==
  ASSUME NEW R, NEW units, NEW E
  PROVE  /\ TokenizerFacts!IsCutAt(R, units, E) <=> IsCutAt(R, units, E)
         /\ Input!IsCutAt(R, units, E) <=> IsCutAt(R, units, E)
         /\ Cut!IsCutAt(R, units, E) <=> IsCutAt(R, units, E)
  <1>1. TokenizerFacts!IsCutAt(R, units, E) <=> IsCutAt(R, units, E)
    BY DEF TokenizerFacts!IsCutAt, IsCutAt, TokenizerFacts!Cardinality, Cardinality
  <1>2. Input!IsCutAt(R, units, E) <=> IsCutAt(R, units, E)
    BY DEF Input!IsCutAt, IsCutAt, Input!Cardinality, Cardinality
  <1>3. Cut!IsCutAt(R, units, E) <=> IsCutAt(R, units, E)
    BY DEF Cut!IsCutAt, IsCutAt, Cut!Cardinality, Cardinality
  <1> QED BY <1>1, <1>2, <1>3

LEMMA SameTokenizer ==
  /\ Cut!Next <=> TokenizerFacts!Next
  /\ Cut!Init <=> TokenizerFacts!Init
  /\ Cut!TokensArePromised <=> TokenizerFacts!TokensArePromised
  /\ Cut!SentencesAreCut <=> TokenizerFacts!SentencesAreCut
  <1> USE DEF Cut!input, TokenizerFacts!input
  <1>1. \A k, S : Cut!RunAfter(k, S) = TokenizerFacts!RunAfter(k, S)
    BY DEF Cut!RunAfter, TokenizerFacts!RunAfter, Cut!Greatest, TokenizerFacts!Greatest
  <1>2. Cut!NewlineEnds <=> TokenizerFacts!NewlineEnds
    BY DEF Cut!NewlineEnds, TokenizerFacts!NewlineEnds
  <1>3. /\ Cut!ClosingPunct = TokenizerFacts!ClosingPunct
        /\ Cut!PunctuationEnds <=> TokenizerFacts!PunctuationEnds
    BY <1>1 DEF Cut!PunctuationEnds, TokenizerFacts!PunctuationEnds, Cut!FirstLetter,
                TokenizerFacts!FirstLetter, Cut!ClosingPunct, TokenizerFacts!ClosingPunct
  <1>4. Cut!LookForEnd <=> TokenizerFacts!LookForEnd
    BY <1>2, <1>3 DEF Cut!LookForEnd, TokenizerFacts!LookForEnd
  <1>5. /\ Cut!StartTokens <=> TokenizerFacts!StartTokens
        /\ Cut!SkipSpace <=> TokenizerFacts!SkipSpace
        /\ Cut!StartSentences <=> TokenizerFacts!StartSentences
        /\ Cut!Return <=> TokenizerFacts!Return
    BY DEF Cut!StartTokens, TokenizerFacts!StartTokens, Cut!SkipSpace, TokenizerFacts!SkipSpace,
           Cut!StartSentences, TokenizerFacts!StartSentences, Cut!Return, TokenizerFacts!Return
  <1>6. /\ Cut!TokenizeWord <=> TokenizerFacts!TokenizeWord
        /\ Cut!TokenizeUnit <=> TokenizerFacts!TokenizeUnit
    BY <1>1 DEF Cut!TokenizeWord, TokenizerFacts!TokenizeWord, Cut!TokenizeUnit,
                TokenizerFacts!TokenizeUnit, Cut!AddToken, TokenizerFacts!AddToken,
                Cut!Token, TokenizerFacts!Token
  <1>7. Cut!PlaceToken <=> TokenizerFacts!PlaceToken
    BY DEF Cut!PlaceToken, TokenizerFacts!PlaceToken, Cut!Placed, TokenizerFacts!Placed,
           Cut!PassEnds, TokenizerFacts!PassEnds, Cut!Greatest, TokenizerFacts!Greatest
  <1>8. Cut!Next <=> TokenizerFacts!Next
    BY <1>4, <1>5, <1>6, <1>7 DEF Cut!Next, TokenizerFacts!Next
  <1>9. Cut!Init <=> TokenizerFacts!Init
    BY DEF Cut!Init, TokenizerFacts!Init, Cut!Options, TokenizerFacts!Options
  <1>10. Cut!UntokenizedTokens(text) = TokenizerFacts!UntokenizedTokens(text)
    BY DEF Cut!UntokenizedTokens, TokenizerFacts!UntokenizedTokens, Cut!Runs, TokenizerFacts!Runs,
           Cut!Token, TokenizerFacts!Token
  <1>11. Cut!TokensArePromised <=> TokenizerFacts!TokensArePromised
    BY <1>10 DEF Cut!TokensArePromised, TokenizerFacts!TokensArePromised
  <1>12. Cut!SentenceEndings = TokenizerFacts!SentenceEndings
    BY DEF Cut!SentenceEndings, TokenizerFacts!SentenceEndings, Cut!PunctuationEndings,
           TokenizerFacts!PunctuationEndings, Cut!IsStretch, TokenizerFacts!IsStretch,
           Cut!Newlines, TokenizerFacts!Newlines, Cut!EmptyLines, TokenizerFacts!EmptyLines
  <1>13. Cut!SentencesAreCut <=> TokenizerFacts!SentencesAreCut
    BY <1>12, SameIsCutAt DEF Cut!SentencesAreCut, TokenizerFacts!SentencesAreCut
  <1> QED BY <1>8, <1>9, <1>11, <1>13

(* The invariant of the tokenizer.                                         *)
TokenizerInv ==
  /\ TokenizerFacts!EndsInv
  /\ TokenizerFacts!TokensInv
  /\ TokenizerFacts!SentencesInv

LEMMA TokenizerBegins == Cut!Init => TokenizerInv
  BY SameTexts, ClassesAssumption, SameTokenizer, TokenizerFacts!EndsBegin,
     TokenizerFacts!TokensBegin, TokenizerFacts!SentencesBegin
     DEF TokenizerInv

LEMMA TokenizerBeginsAgain == (Cut!Init => TokenizerInv)'
  BY TokenizerBegins, PTL

LEMMA TokenizerGoesOn == TokenizerInv /\ (Cut!Next \/ UNCHANGED <<text, inputFormat, tokenizerVars>>)
                           => TokenizerInv'
  <1> SUFFICES ASSUME TokenizerInv, Cut!Next \/ UNCHANGED <<text, inputFormat, tokenizerVars>>
               PROVE  TokenizerInv'
    OBVIOUS
  <1>1. [TokenizerFacts!Next]_(TokenizerFacts!vars)
    BY SameTokenizer DEF TokenizerFacts!vars, TokenizerFacts!input, tokenizerVars
  <1> QED BY <1>1, SameTexts, ClassesAssumption, TokenizerFacts!EndsStep,
             TokenizerFacts!TokensStep, TokenizerFacts!SentencesStep
          DEF TokenizerInv

LEMMA TokenizerIsDone ==
  ASSUME TokenizerInv, tokenizerPc = "done"
  PROVE  /\ Cut!SentencesAreCut
         /\ ret \in Seq(Seq(UntokenizedTokens(text)))
         /\ TokenizerFacts!SentencesInSequence(ret)
         /\ TokenizerFacts!TokensOf(ret) = UntokenizedTokens(text)
  BY SameTexts, ClassesAssumption, SameTokenizer, SameTokens, TokenizerFacts!SentencesAtTheEnd
     DEF TokenizerInv
-----------------------------------------------------------------------------
(* The tokens that are still to come.                                      *)

HasSentence == inputPc = "called" \/ (inputPc = "returned" /\ sentences # <<>>)

(* Of the sentence that is handed over or under construction, and of the   *)
(* rest of the block.                                                      *)
Waiting == IF HasSentence THEN {sentence[k] : k \in given + 1 .. Len(sentence)} ELSE {}

SentencesFrom(n) == {t \in tokens : \E a \in n .. Len(ret) : \E b \in 1 .. Len(ret[a]) : t = ret[a][b]}

Unread ==
  CASE inputPc = "end" -> {}
    [] inputPc # "end" /\ IsLineFormat -> {t \in tokens : t.first >= index}
    [] inputPc # "end" /\ ~IsLineFormat /\ tokenizerPc = "done" -> SentencesFrom(Len(sentences) + 1)
    [] OTHER -> tokens

HandInv ==
  /\ pc \in {"tokens", "done"}
  /\ pc = "done" => inputPc = "end"
  /\ pc = "tokens" => Coming = Waiting \union Unread
  /\ HasSentence => /\ sentence \in Seq(tokens)
                    /\ given \in 0 .. Len(sentence)
                    /\ TokenizerFacts!InSequence(sentence)
  /\ \A t \in Waiting, u \in Unread : t.last < u.first

(* The next token of the sentence is the one the output format expects.    *)
LEMMA HandedTokenIsNext ==
  ASSUME WalkInv, HandInv, inputPc = "returned", ~IsGiven
  PROVE  /\ sentence[given + 1] \in tokens
         /\ IsNextToken(sentence[given + 1])
         /\ HasSentence /\ given + 1 \in 1 .. Len(sentence)
         /\ Waiting = {sentence[k] : k \in given + 1 .. Len(sentence)}
         /\ \A k \in given + 2 .. Len(sentence) : sentence[given + 1].last < sentence[k].first
  <1>1. /\ HasSentence /\ pc = "tokens" /\ Coming = Waiting \union Unread
        /\ sentence \in Seq(tokens) /\ Len(sentence) \in Nat
        /\ given \in 0 .. Len(sentence) /\ given # Len(sentence)
        /\ TokenizerFacts!InSequence(sentence)
    BY LenProperties DEF HandInv, IsGiven, HasSentence
  <1>2. given + 1 \in 1 .. Len(sentence) /\ given + 1 \in given + 1 .. Len(sentence)
    BY <1>1
  <1>3. Waiting = {sentence[k] : k \in given + 1 .. Len(sentence)}
    BY <1>1 DEF Waiting
  <1>4. sentence[given + 1] \in tokens /\ sentence[given + 1] \in Waiting
    <2>1. sentence[given + 1] \in tokens
      BY <1>1, <1>2, LenProperties
    <2> QED BY <1>2, <1>3, <2>1
  <1>5. \A k \in given + 2 .. Len(sentence) : sentence[given + 1].last < sentence[k].first
    <2>1. \A k \in given + 2 .. Len(sentence) : k \in 1 .. Len(sentence) /\ given + 1 < k
      BY <1>1
    <2> QED BY <1>1, <1>2, <2>1 DEF TokenizerFacts!InSequence
  <1>6. \A t \in tokens : t.first \in Nat /\ t.last \in Nat /\ t.first <= t.last
    BY TextFacts, TokenFacts DEF WalkInv
  <1>7. ASSUME NEW u \in Coming
        PROVE  sentence[given + 1].first <= u.first
    <2>1. u \in tokens
      BY DEF Coming
    <2>2. CASE u \in Unread
      BY <1>4, <1>6, <2>1, <2>2 DEF HandInv
    <2>3. CASE u \in Waiting
      <3>1. PICK k \in given + 1 .. Len(sentence) : u = sentence[k]
        BY <1>3, <2>3
      <3>2. k = given + 1 \/ k \in given + 2 .. Len(sentence)
        BY <1>1
      <3>3. k = given + 1 \/ sentence[given + 1].last < u.first
        BY <1>5, <3>1, <3>2
      <3> QED BY <1>4, <1>6, <2>1, <3>1, <3>3
    <2> QED BY <1>1, <2>2, <2>3
  <1> QED BY <1>1, <1>2, <1>3, <1>4, <1>5, <1>7 DEF IsNextToken

LEMMA HandOverKeepsHand ==
  ASSUME WalkInv, HandInv, HandOver
  PROVE  HandInv'
  <1> DEFINE t == sentence[given + 1]
  <1>1. /\ inputPc = "returned" /\ ~IsGiven /\ TakeToken(t)
        /\ given' = given + 1
        /\ UNCHANGED <<inputFormat, index, sentence, sentences, inputPc, ret, tokenizerPc>>
    BY DEF HandOver, inputVars, tokenizerVars
  <1>2. UNCHANGED <<text, tokens, format, pc>> /\ pos' = t.last
    BY <1>1 DEF TakeToken, KeepToken, PassToken, CorrectToken, PrintTo
  <1>3. /\ t \in tokens /\ IsNextToken(t) /\ HasSentence /\ given + 1 \in 1 .. Len(sentence)
        /\ Waiting = {sentence[k] : k \in given + 1 .. Len(sentence)}
        /\ \A k \in given + 2 .. Len(sentence) : t.last < sentence[k].first
    BY <1>1, HandedTokenIsNext
  <1>4. /\ pc = "tokens" /\ t \in Coming /\ Coming = Waiting \union Unread
        /\ \A u \in Coming : t.first <= u.first
    BY <1>3 DEF IsNextToken, HandInv
  <1>5. /\ given \in Nat /\ Len(sentence) \in Nat
    BY <1>3, LenProperties DEF HandInv
  <1>6. HasSentence' /\ Waiting' = {sentence[k] : k \in given + 2 .. Len(sentence)}
    <2>1. HasSentence'
      BY <1>1, <1>3 DEF HasSentence
    <2>2. given' + 1 = given + 2
      BY <1>1, <1>5
    <2> QED BY <1>1, <2>1, <2>2 DEF Waiting
  <1>7. Waiting = Waiting' \union {t}
    <2>1. given + 1 .. Len(sentence) = given + 2 .. Len(sentence) \union {given + 1}
      BY <1>3, <1>5
    <2> QED BY <1>3, <1>6, <2>1
  <1>8. Unread' = Unread
    BY <1>1, <1>2 DEF Unread, IsLineFormat, SentencesFrom
  <1>9. \A u \in tokens : u.first \in Nat /\ u.last \in Nat /\ u.first <= u.last
    BY TextFacts, TokenFacts DEF WalkInv
  <1>10. Coming' = Waiting' \union Unread'
    <2>1. pos < t.first /\ pos \in Nat /\ pos' = t.last
      BY <1>2, <1>4, TextFacts DEF Coming, WalkInv
    <2>2. ASSUME NEW u \in Waiting' \union Unread'
          PROVE  u \in tokens /\ t.last < u.first
      <3>1. u \in Coming
        BY <1>4, <1>7, <1>8
      <3>2. CASE u \in Waiting'
        BY <1>3, <1>6, <3>1, <3>2 DEF Coming
      <3>3. CASE u \in Unread
        <4>1. t \in Waiting
          BY <1>7
        <4> QED BY <3>1, <3>3, <4>1 DEF HandInv, Coming
      <3> QED BY <1>8, <3>2, <3>3
    <2>3. ASSUME NEW u \in tokens, t.last < u.first
          PROVE  u \in Waiting' \union Unread'
      <3>1. u.first > pos
        BY <1>3, <1>9, <2>1, <2>3
      <3>2. u \in Coming /\ u # t
        BY <1>3, <1>9, <2>3, <3>1 DEF Coming
      <3> QED BY <1>4, <1>7, <1>8, <3>2
    <2>4. Coming' = {u \in tokens : u.first > t.last}
      BY <1>2 DEF Coming
    <2> HIDE DEF t
    <2>5. ASSUME NEW u \in tokens
          PROVE  u.first > t.last <=> t.last < u.first
      BY <1>3, <1>9
    <2> QED BY <2>2, <2>3, <2>4, <2>5
  <1>11. \A u \in Waiting', v \in Unread' : u.last < v.first
    BY <1>7, <1>8 DEF HandInv
  <1>12. given' \in 0 .. Len(sentence)
    BY <1>1, <1>3, <1>5
  <1> QED BY <1>1, <1>2, <1>3, <1>4, <1>6, <1>10, <1>11, <1>12 DEF HandInv, TokenizerFacts!InSequence
-----------------------------------------------------------------------------
(* The formats that hand out the list of the tokenizer.                    *)

ListInv ==
  ~IsLineFormat =>
    /\ tokens = UntokenizedTokens(text)
    /\ inputPc \in {"returned", "end"}
    /\ tokenizerPc # "done" => sentences = <<>> /\ inputPc = "returned"
    /\ sentences \in Seq(Seq(tokens))
    /\ tokenizerPc = "done" => /\ Len(sentences) <= Len(ret)
                               /\ \A a \in 1 .. Len(sentences) : sentences[a] = ret[a]
    /\ inputPc = "end" => Len(sentences) = Len(ret)

LEMMA ListFacts ==
  ASSUME TokenizerInv, ListInv, ~IsLineFormat, tokenizerPc = "done"
  PROVE  /\ ret \in Seq(Seq(tokens)) /\ Len(ret) \in Nat /\ Len(sentences) \in Nat
         /\ SentencesFrom(1) = tokens
         /\ TokenizerFacts!SentencesInSequence(ret)
  <1>1. /\ tokens = UntokenizedTokens(text) /\ sentences \in Seq(Seq(tokens))
        /\ ret \in Seq(Seq(tokens)) /\ TokenizerFacts!SentencesInSequence(ret)
        /\ TokenizerFacts!TokensOf(ret) = tokens
    BY TokenizerIsDone DEF ListInv
  <1>2. SentencesFrom(1) = tokens
    <2>1. \A t : t \in TokenizerFacts!TokensOf(ret)
                  <=> \E a \in 1 .. Len(ret) : \E b \in 1 .. Len(ret[a]) : t = ret[a][b]
      BY TokenizerFacts!TokenOfSentence, SameTexts, ClassesAssumption
    <2>2. \A t \in tokens : \E a \in 1 .. Len(ret) : \E b \in 1 .. Len(ret[a]) : t = ret[a][b]
      BY <1>1, <2>1
    <2> QED BY <2>2 DEF SentencesFrom
  <1> QED BY <1>1, <1>2, LenProperties

LEMMA ListFactsThen ==
  (TokenizerInv /\ ListInv /\ ~IsLineFormat /\ tokenizerPc = "done" => SentencesFrom(1) = tokens)'
  BY ListFacts, PTL

LEMMA TokenizerIsDoneThen ==
  (TokenizerInv /\ tokenizerPc = "done" => ret \in Seq(Seq(UntokenizedTokens(text))))'
  BY TokenizerIsDone, PTL

LEMMA NextOfListKeepsHand ==
  ASSUME WalkInv, TokenizerInv, HandInv, ListInv, NextOfList
  PROVE  HandInv' /\ ListInv'
  <1> DEFINE n == Len(sentences)
  <1>1. /\ ~IsLineFormat /\ tokenizerPc = "done" /\ inputPc = "returned" /\ IsGiven
        /\ given' = 0
        /\ UNCHANGED <<text, tokens, format, pos, pc, inputFormat, index, ret, tokenizerPc>>
    BY DEF NextOfList, vars, tokenizerVars
  <1>2. /\ ret \in Seq(Seq(tokens)) /\ Len(ret) \in Nat /\ n \in Nat
        /\ TokenizerFacts!SentencesInSequence(ret)
        /\ sentences \in Seq(Seq(tokens)) /\ n <= Len(ret)
        /\ \A a \in 1 .. n : sentences[a] = ret[a]
    BY <1>1, ListFacts DEF ListInv
  <1>3. pc = "tokens" /\ Coming = SentencesFrom(n + 1)
    <2>1. pc = "tokens" /\ Coming = Waiting \union Unread
      BY <1>1 DEF HandInv
    <2>2. Waiting = {}
      <3>1. CASE sentences = <<>>
        BY <1>1, <3>1 DEF Waiting, HasSentence
      <3>2. CASE sentences # <<>>
        <4>1. HasSentence /\ given = Len(sentence) /\ sentence \in Seq(tokens)
          BY <1>1, <3>2 DEF HasSentence, IsGiven, HandInv
        <4>2. given + 1 .. Len(sentence) = {}
          BY <4>1, LenProperties
        <4> QED BY <4>1, <4>2 DEF Waiting
      <3> QED BY <3>1, <3>2
    <2>3. Unread = SentencesFrom(n + 1)
      BY <1>1 DEF Unread
    <2> QED BY <2>1, <2>2, <2>3
  <1>4. Coming' = Coming
    BY <1>1 DEF Coming
  <1>5. CASE n = Len(ret)
    <2>1. inputPc' = "end" /\ UNCHANGED <<sentence, sentences>>
      BY <1>5 DEF NextOfList
    <2>2. Coming = {}
      <3>1. n + 1 .. Len(ret) = {}
        BY <1>2, <1>5
      <3> QED BY <1>3, <3>1 DEF SentencesFrom
    <2>3. ~HasSentence' /\ Waiting' = {} /\ Unread' = {}
      BY <2>1 DEF HasSentence, Waiting, Unread
    <2> QED BY <1>1, <1>2, <1>3, <1>4, <1>5, <2>1, <2>2, <2>3 DEF HandInv, ListInv, IsLineFormat
  <1>6. CASE n # Len(ret)
    <2>1. /\ sentence' = ret[n + 1] /\ sentences' = Append(sentences, ret[n + 1])
          /\ inputPc' = "returned"
      BY <1>1, <1>6 DEF NextOfList
    <2>2. n + 1 \in 1 .. Len(ret) /\ ret[n + 1] \in Seq(tokens)
      BY <1>2, <1>6, LenProperties
    <2>3. /\ sentences' \in Seq(Seq(tokens)) /\ Len(sentences') = n + 1
          /\ \A a \in 1 .. n : sentences'[a] = sentences[a]
          /\ sentences'[n + 1] = ret[n + 1]
      BY <1>2, <2>1, <2>2, AppendProperties
    <2>4. HasSentence' /\ sentences' # <<>>
      BY <1>2, <2>1, <2>3 DEF HasSentence
    <2>5. Waiting' = {ret[n + 1][k] : k \in 1 .. Len(ret[n + 1])}
      <3>1. given' + 1 = 1
        BY <1>1
      <3> QED BY <2>1, <2>4, <3>1 DEF Waiting
    <2>6. Unread' = SentencesFrom(n + 2)
      <3>1. Len(sentences') + 1 = n + 2
        BY <1>2, <2>3
      <3>2. inputPc' # "end" /\ ~IsLineFormat' /\ tokenizerPc' = "done"
        BY <1>1, <2>1 DEF IsLineFormat
      <3>3. Unread' = SentencesFrom(Len(sentences) + 1)'
        BY <3>2 DEF Unread
      <3> QED BY <1>1, <3>1, <3>3 DEF SentencesFrom
    <2>7. SentencesFrom(n + 1) = Waiting' \union SentencesFrom(n + 2)
      <3>1. \A k \in 1 .. Len(ret[n + 1]) : ret[n + 1][k] \in tokens
        BY <2>2, LenProperties
      <3>2. n + 1 .. Len(ret) = n + 2 .. Len(ret) \union {n + 1}
        BY <1>2, <2>2
      <3> QED BY <2>5, <3>1, <3>2 DEF SentencesFrom
    <2>8. ASSUME NEW t \in Waiting', NEW u \in Unread'
          PROVE  t.last < u.first
      <3>1. PICK k \in 1 .. Len(ret[n + 1]) : t = ret[n + 1][k]
        BY <2>5
      <3>2. PICK a \in n + 2 .. Len(ret) : \E b \in 1 .. Len(ret[a]) : u = ret[a][b]
        BY <2>6 DEF SentencesFrom
      <3>3. a \in 1 .. Len(ret) /\ n + 1 < a
        BY <1>2
      <3> QED BY <1>2, <2>2, <3>1, <3>2, <3>3 DEF TokenizerFacts!SentencesInSequence
    <2>9. TokenizerFacts!InSequence(sentence)'
      <3>1. TokenizerFacts!InSequence(ret[n + 1])
        BY <1>2, <2>2 DEF TokenizerFacts!SentencesInSequence
      <3> QED BY <2>1, <3>1 DEF TokenizerFacts!InSequence
    <2>10. given' \in 0 .. Len(sentence')
      BY <1>1, <2>1, <2>2, LenProperties
    <2>11. HandInv'
      BY <1>1, <1>3, <1>4, <2>1, <2>2, <2>4, <2>6, <2>7, <2>8, <2>9, <2>10 DEF HandInv
    <2>12. \A a \in 1 .. Len(sentences') : sentences'[a] = ret[a]
      <3>1. 1 .. n + 1 = 1 .. n \union {n + 1}
        BY <1>2
      <3> QED BY <1>2, <2>3, <3>1
    <2>13. Len(sentences') <= Len(ret)
      BY <2>2, <2>3
    <2>14. ListInv'
      BY <1>1, <2>1, <2>3, <2>12, <2>13 DEF ListInv, IsLineFormat
    <2> QED BY <2>11, <2>14
  <1> QED BY <1>5, <1>6

LEMMA TokenizeKeepsHand ==
  ASSUME TokenizerInv, TokenizerInv', HandInv, ListInv, Tokenize
  PROVE  HandInv' /\ ListInv'
  <1>1. /\ ~IsLineFormat /\ Cut!Next
        /\ UNCHANGED <<text, tokens, pos, pc, inputFormat, index, sentence, sentences, inputPc, given>>
    BY DEF Tokenize, vars, inputVars
  <1>2. tokenizerPc # "done"
    BY <1>1 DEF Cut!Next, Cut!LookForEnd, Cut!StartTokens, Cut!TokenizeWord, Cut!TokenizeUnit,
                Cut!SkipSpace, Cut!StartSentences, Cut!PlaceToken, Cut!Return
  <1>3. sentences = <<>> /\ inputPc = "returned" /\ ~IsLineFormat' /\ 1 .. Len(sentences) = {}
    BY <1>1, <1>2 DEF ListInv, IsLineFormat
  <1>4. Len(sentences') <= Len(ret') \/ tokenizerPc' # "done"
    <2>1. CASE tokenizerPc' = "done"
      <3>1. ret' \in Seq(Seq(UntokenizedTokens(text)'))
        BY <2>1, TokenizerIsDoneThen
      <3> QED BY <1>1, <1>3, <3>1, LenProperties
    <2> QED BY <2>1
  <1>5. ListInv'
    BY <1>1, <1>3, <1>4 DEF ListInv, IsLineFormat
  <1>6. Unread' = Unread
    <2>1. Unread = tokens
      BY <1>1, <1>2, <1>3 DEF Unread
    <2>2. CASE tokenizerPc' = "done"
      <3>1. Unread' = SentencesFrom(Len(sentences) + 1)'
        BY <1>1, <1>3, <2>2 DEF Unread
      <3>2. SentencesFrom(1)' = tokens'
        BY <1>3, <1>5, <2>2, ListFactsThen
      <3>3. Len(sentences') + 1 = 1
        BY <1>1, <1>3
      <3>4. SentencesFrom(Len(sentences) + 1)' = SentencesFrom(1)'
        BY <3>3 DEF SentencesFrom
      <3> QED BY <1>1, <2>1, <3>1, <3>2, <3>4
    <2>3. CASE tokenizerPc' # "done"
      BY <1>1, <1>3, <2>1, <2>3 DEF Unread
    <2> QED BY <2>2, <2>3
  <1>7. Waiting' = Waiting /\ Coming' = Coming /\ (HasSentence' <=> HasSentence)
    BY <1>1 DEF Waiting, Coming, HasSentence
  <1> QED BY <1>1, <1>5, <1>6, <1>7 DEF HandInv, TokenizerFacts!InSequence
-----------------------------------------------------------------------------
(* The formats that look for the next sentence when they are asked.        *)

LineUnits == IF inputFormat = "vertical" THEN Unit \ {Newline} ELSE Unit \ Space

(* The index is not inside a token, and what has been read is in front of  *)
(* it.                                                                     *)
LineInv ==
  IsLineFormat =>
    /\ tokens = Runs(text, LineUnits)
    /\ inputPc \in {"called", "returned", "end"}
    /\ index \in 1 .. Len(text) + 2
    /\ \A t \in tokens : t.last < index \/ index <= t.first
    /\ HasSentence => \A k \in 1 .. Len(sentence) : sentence[k].first < index
    /\ inputPc = "called" => given = 0
    /\ inputPc = "end" => index > Len(text)

LEMMA LineTokenFacts ==
  ASSUME WalkInv, LineInv, IsLineFormat
  PROVE  /\ text \in Seq(Unit) /\ Len(text) \in Nat /\ index \in Nat
         /\ \A t \in tokens : /\ t.first \in 1 .. Len(text) /\ t.last \in 1 .. Len(text)
                              /\ t.first <= t.last
                              /\ \A k \in t.first .. t.last : text[k] \in LineUnits
                              /\ t.last < Len(text) => text[t.last + 1] \notin LineUnits
                              /\ t = Token(t.first, t.last)
  <1>1. text \in Seq(Unit) /\ Len(text) \in Nat /\ index \in Nat
    BY TextFacts DEF WalkInv, LineInv
  <1>2. ASSUME NEW t \in tokens
        PROVE  /\ t.first \in 1 .. Len(text) /\ t.last \in 1 .. Len(text)
               /\ t.first <= t.last
               /\ \A k \in t.first .. t.last : text[k] \in LineUnits
               /\ t.last < Len(text) => text[t.last + 1] \notin LineUnits
               /\ t = Token(t.first, t.last)
    <2>1. t \in Runs(text, LineUnits)
      BY DEF LineInv
    <2> HIDE DEF LineUnits
    <2> QED BY <2>1 DEF Runs, Token
  <1> QED BY <1>1, <1>2

(* A unit that belongs to no token is passed.                              *)
LEMMA PassedUnit ==
  ASSUME WalkInv, LineInv, IsLineFormat, index <= Len(text), text[index] \notin LineUnits
  PROVE  /\ index + 1 \in 1 .. Len(text) + 2
         /\ \A t \in tokens : /\ t.first >= index + 1 <=> t.first >= index
                              /\ t.last < index + 1 \/ index + 1 <= t.first
  <1>1. index \in 1 .. Len(text) /\ Len(text) \in Nat
    BY LineTokenFacts DEF LineInv
  <1>2. ASSUME NEW t \in tokens
        PROVE  /\ t.first >= index + 1 <=> t.first >= index
               /\ t.last < index + 1 \/ index + 1 <= t.first
    <2>1. t.first \in Nat /\ t.last \in Nat /\ t.first <= t.last
      BY LineTokenFacts
    <2>2. t.first # index
      <3>1. text[t.first] \in LineUnits
        <4>1. t.first \in t.first .. t.last
          BY <2>1
        <4> QED BY <4>1, LineTokenFacts
      <3> QED BY <3>1
    <2>3. t.last < index \/ index <= t.first
      BY DEF LineInv
    <2> QED BY <1>1, <2>1, <2>2, <2>3
  <1> QED BY <1>1, <1>2

(* What begins at the index is a token, and the loop finds its end.        *)
LEMMA TakenRun ==
  ASSUME WalkInv, LineInv, IsLineFormat, index <= Len(text), text[index] \in LineUnits
  PROVE  LET e == Input!EndOfRun(LineUnits)
             t == Token(index, e - 1)
         IN  /\ index \in 1 .. Len(text)
             /\ e \in index + 1 .. Len(text) + 1
             /\ t \in tokens /\ t.first = index /\ t.last = e - 1
             /\ \A k \in index .. e - 1 : text[k] \in LineUnits
             /\ e <= Len(text) => text[e] \notin LineUnits
             /\ \A n \in {e, e + 1} :
                  /\ n \in 1 .. Len(text) + 2
                  /\ \A u \in tokens : /\ u.first >= index <=> u = t \/ u.first >= n
                                       /\ u.last < n \/ n <= u.first
  <1> DEFINE e == Input!EndOfRun(LineUnits)
             t == Token(index, e - 1)
             IsEnd(x) == /\ \A k \in index .. x - 1 : text[k] \in LineUnits
                         /\ x <= Len(text) => text[x] \notin LineUnits
  <1>1. /\ text \in Seq(Unit) /\ Len(text) \in Nat /\ index \in 1 .. Len(text)
    BY LineTokenFacts DEF LineInv
  <1>2. PICK run \in tokens : index \in run.first .. run.last
    <2>1. \E r \in TokenizerFacts!Runs(text, LineUnits) : index \in r.first .. r.last
      <3> HIDE DEF LineUnits
      <3>1. text \in Seq(TokenizerFacts!Unit)
        BY <1>1, SameTokens
      <3> QED BY <1>1, <3>1, SameTexts, ClassesAssumption, TokenizerFacts!RunsCover
    <2>2. TokenizerFacts!Runs(text, LineUnits) = tokens
      BY SameTokens DEF LineInv
    <2> QED BY <2>1, <2>2
  <1>3. /\ run.first \in Nat /\ run.last \in 1 .. Len(text) /\ run.first = index
        /\ run.first <= run.last
        /\ \A k \in run.first .. run.last : text[k] \in LineUnits
        /\ run.last < Len(text) => text[run.last + 1] \notin LineUnits
        /\ run = Token(run.first, run.last)
    <2>1. /\ run.first \in Nat /\ run.last \in 1 .. Len(text)
          /\ run.first <= run.last
          /\ \A k \in run.first .. run.last : text[k] \in LineUnits
          /\ run.last < Len(text) => text[run.last + 1] \notin LineUnits
          /\ run = Token(run.first, run.last)
      BY LineTokenFacts
    <2>2. run.last < index \/ index <= run.first
      BY DEF LineInv
    <2> QED BY <1>1, <1>2, <2>1, <2>2
  <1> DEFINE stop == run.last + 1
  <1>4. stop \in index + 1 .. Len(text) + 1 /\ IsEnd(stop)
    <2>1. stop - 1 = run.last /\ (stop <= Len(text) => run.last < Len(text))
      BY <1>1, <1>3
    <2>2. stop \in index + 1 .. Len(text) + 1
      BY <1>1, <1>3
    <2> HIDE DEF LineUnits
    <2> QED BY <1>3, <2>1, <2>2
  <1>5. ASSUME NEW x \in index .. Len(text) + 1, IsEnd(x)
        PROVE  x = stop
    <2>1. stop \in Nat /\ x \in Nat /\ index \in Nat
      BY <1>1, <1>4
    <2>2. ~(x < stop)
      <3> SUFFICES ASSUME x < stop PROVE FALSE
        OBVIOUS
      <3>1. x \in run.first .. run.last /\ x <= Len(text)
        BY <1>1, <1>3, <2>1
      <3> HIDE DEF LineUnits
      <3> QED BY <1>3, <1>5, <3>1
    <2>3. ~(stop < x)
      <3> SUFFICES ASSUME stop < x PROVE FALSE
        OBVIOUS
      <3>1. stop \in index .. x - 1 /\ stop <= Len(text)
        BY <1>1, <1>3, <2>1
      <3> HIDE DEF LineUnits, stop
      <3> QED BY <1>4, <1>5, <3>1
    <2> HIDE DEF stop
    <2> QED BY <2>1, <2>2, <2>3
  <1>6. e = stop
    <2>1. stop \in index .. Len(text) + 1
      BY <1>1, <1>4
    <2> HIDE DEF LineUnits, stop
    <2>2. e = CHOOSE x \in index .. Len(text) + 1 : IsEnd(x)
      BY DEF Input!EndOfRun
    <2> HIDE DEF IsEnd, e
    <2> QED BY <1>4, <1>5, <2>1, <2>2
  <1>7. t = run /\ t.first = index /\ t.last = e - 1
    <2>1. e - 1 = run.last
      BY <1>3, <1>6
    <2> QED BY <1>3, <2>1 DEF Token
  <1>8. \A u \in tokens : /\ u.first \in 1 .. Len(text) /\ u.last \in 1 .. Len(text) /\ u.first <= u.last
                          /\ u.last < index \/ index <= u.first
                          /\ u = run \/ u.last < run.first \/ run.last < u.first
    <2>1. \A u \in tokens : u.first \in 1 .. Len(text) /\ u.last \in 1 .. Len(text) /\ u.first <= u.last
      BY LineTokenFacts
    <2>2. \A u \in tokens : u = run \/ u.last < run.first \/ run.last < u.first
      BY TokenizationsAssumption DEF WalkInv, IsTokenization
    <2> QED BY <2>1, <2>2 DEF LineInv
  <1>9. \A u \in tokens : u.first = stop => FALSE
    <2> SUFFICES ASSUME NEW u \in tokens, u.first = stop PROVE FALSE
      OBVIOUS
    <2>1. u.first \in u.first .. u.last /\ stop <= Len(text)
      BY <1>8
    <2>2. text[u.first] \in LineUnits
      BY <2>1, LineTokenFacts
    <2> HIDE DEF LineUnits, stop
    <2> QED BY <1>4, <2>1, <2>2
  <1>10. ASSUME NEW n \in {stop, stop + 1}
         PROVE  /\ n \in 1 .. Len(text) + 2
                /\ \A u \in tokens : /\ u.first >= index <=> u = run \/ u.first >= n
                                     /\ u.last < n \/ n <= u.first
    <2>1. n \in 1 .. Len(text) + 2
      BY <1>1, <1>3
    <2>2. ASSUME NEW u \in tokens
          PROVE  /\ u.first >= index <=> u = run \/ u.first >= n
                 /\ u.last < n \/ n <= u.first
      <3>1. /\ u.first \in Nat /\ u.last \in Nat /\ u.first <= u.last
            /\ u.last < index \/ index <= u.first
            /\ u = run \/ u.last < run.first \/ run.last < u.first
            /\ u.first # run.last + 1
        BY <1>8, <1>9
      <3>2. CASE u = run
        BY <1>1, <1>3, <3>2
      <3>3. CASE u # run /\ u.last < run.first
        BY <1>1, <1>3, <3>1, <3>3
      <3>4. CASE u # run /\ run.last < u.first
        BY <1>1, <1>3, <3>1, <3>4
      <3> QED BY <3>1, <3>2, <3>3, <3>4
    <2> QED BY <2>1, <2>2
  <1> HIDE DEF LineUnits, e, stop, t
  <1> QED BY <1>1, <1>2, <1>4, <1>6, <1>7, <1>10 DEF e, t
(* The two kinds of steps of NextSentence: it passes a unit, or takes a    *)
(* token.                                                                  *)
LEMMA LineAlphabet ==
  ASSUME WalkInv, LineInv, IsLineFormat, index <= Len(text)
  PROVE  /\ text[index] = Newline => text[index] \notin LineUnits
         /\ inputFormat = "horizontal" => (text[index] \in Space <=> text[index] \notin LineUnits)
         /\ inputFormat = "vertical" => (text[index] = Newline <=> text[index] \notin LineUnits)
  <1>1. index \in 1 .. Len(text) /\ text \in Seq(Unit)
    BY LineTokenFacts DEF LineInv
  <1>2. text[index] \in Unit
    BY <1>1, LenProperties
  <1> HIDE DEF Unit
  <1> QED BY <1>2, ClassesAssumption DEF LineUnits, IsLineFormat

(* What a step of NextSentence does.                                       *)
PassesUnit ==
  /\ index <= Len(text) /\ text[index] \notin LineUnits
  /\ index' = index + 1
  /\ UNCHANGED sentence
  /\ IF text[index] = Newline /\ sentence # <<>>
       THEN sentences' = Append(sentences, sentence) /\ inputPc' = "returned"
       ELSE UNCHANGED <<sentences, inputPc>>

TakesRun ==
  LET e == Input!EndOfRun(LineUnits) IN
  /\ index <= Len(text) /\ text[index] \in LineUnits
  /\ sentence' = Append(sentence, Token(index, e - 1))
  /\ index' = IF inputFormat = "vertical" THEN e + 1 ELSE e
  /\ UNCHANGED <<sentences, inputPc>>

EndsText ==
  /\ index > Len(text)
  /\ UNCHANGED <<index, sentence>>
  /\ \/ sentence = <<>> /\ UNCHANGED sentences /\ inputPc' = "end"
     \/ sentence # <<>> /\ sentences' = Append(sentences, sentence) /\ inputPc' = "returned"

LEMMA LineSteps ==
  ASSUME WalkInv, LineInv, ReadOn
  PROVE  /\ IsLineFormat /\ inputPc = "called"
         /\ UNCHANGED <<vars, given, tokenizerVars, inputFormat>>
         /\ PassesUnit \/ TakesRun \/ EndsText
  <1>1. IsLineFormat /\ Input!Step /\ UNCHANGED <<vars, given, tokenizerVars>>
    BY DEF ReadOn
  <1>2. inputPc = "called" /\ UNCHANGED inputFormat
    BY <1>1 DEF Input!Step, Input!EndOfLine, Input!SkipSpace, Input!TakeLine, Input!TakeWord,
                Input!EndOfText, Input!InText
  <1>3. CASE Input!EndOfLine
    <2>1. index <= Len(text) /\ text[index] \notin LineUnits
      BY <1>1, <1>3, LineAlphabet DEF Input!EndOfLine, Input!InText
    <2>2. PassesUnit
      BY <1>3, <2>1 DEF Input!EndOfLine, PassesUnit
    <2> QED BY <1>1, <1>2, <2>2
  <1>4. CASE Input!SkipSpace
    <2>1. index <= Len(text) /\ text[index] \notin LineUnits
      BY <1>1, <1>4, LineAlphabet DEF Input!SkipSpace, Input!InText
    <2>2. PassesUnit
      BY <1>4, <2>1 DEF Input!SkipSpace, Input!InText, PassesUnit
    <2> QED BY <1>1, <1>2, <2>2
  <1>5. CASE Input!TakeLine
    <2>1. index <= Len(text) /\ text[index] \in LineUnits /\ inputFormat = "vertical"
      BY <1>1, <1>5, LineAlphabet DEF Input!TakeLine, Input!InText
    <2>2. LineUnits = Input!Unit \ {Newline}
      BY <2>1, SameTokens DEF LineUnits
    <2>3. TakesRun
      <3> HIDE DEF LineUnits
      <3>1. /\ sentence' = Append(sentence, Input!Token(index, Input!EndOfRun(LineUnits) - 1))
            /\ index' = Input!EndOfRun(LineUnits) + 1
            /\ UNCHANGED <<sentences, inputPc>>
        BY <1>5, <2>2 DEF Input!TakeLine
      <3> QED BY <2>1, <3>1, SameTokens DEF TakesRun
    <2> QED BY <1>1, <1>2, <2>3
  <1>6. CASE Input!TakeWord
    <2>1. index <= Len(text) /\ text[index] \in LineUnits /\ inputFormat = "horizontal"
      BY <1>1, <1>6, LineAlphabet DEF Input!TakeWord, Input!InText
    <2>2. LineUnits = Input!Unit \ Space
      BY <2>1, SameTokens DEF LineUnits
    <2>3. TakesRun
      <3> HIDE DEF LineUnits
      <3>1. /\ sentence' = Append(sentence, Input!Token(index, Input!EndOfRun(LineUnits) - 1))
            /\ index' = Input!EndOfRun(LineUnits)
            /\ UNCHANGED <<sentences, inputPc>>
        BY <1>6, <2>2 DEF Input!TakeWord
      <3> QED BY <2>1, <3>1, SameTokens DEF TakesRun
    <2> QED BY <1>1, <1>2, <2>3
  <1>7. CASE Input!EndOfText
    BY <1>1, <1>2, <1>7 DEF Input!EndOfText, EndsText
  <1> QED BY <1>1, <1>3, <1>4, <1>5, <1>6, <1>7 DEF Input!Step

LEMMA ReadOnKeepsHand ==
  ASSUME WalkInv, HandInv, LineInv, ReadOn
  PROVE  HandInv' /\ LineInv'
  <1>1. /\ IsLineFormat /\ inputPc = "called" /\ IsLineFormat' /\ LineUnits' = LineUnits
        /\ UNCHANGED <<text, tokens, format, pos, pc, given, inputFormat, ret, tokenizerPc>>
        /\ PassesUnit \/ TakesRun \/ EndsText
    BY LineSteps DEF vars, tokenizerVars, IsLineFormat, LineUnits
  <1>2. /\ pc = "tokens" /\ given = 0 /\ HasSentence
        /\ sentence \in Seq(tokens) /\ Len(sentence) \in Nat
        /\ TokenizerFacts!InSequence(sentence)
        /\ Coming = Waiting \union Unread
        /\ Waiting = {sentence[k] : k \in 1 .. Len(sentence)}
        /\ Unread = {t \in tokens : t.first >= index}
        /\ \A k \in 1 .. Len(sentence) : sentence[k].first < index
        /\ text \in Seq(Unit) /\ Len(text) \in Nat /\ index \in Nat
    <2>1. given = 0 /\ HasSentence /\ given + 1 = 1
      BY <1>1 DEF LineInv, HasSentence
    <2>2. pc = "tokens" /\ Coming = Waiting \union Unread
      BY <1>1 DEF HandInv
    <2>3. Waiting = {sentence[k] : k \in 1 .. Len(sentence)}
      BY <2>1 DEF Waiting
    <2>4. Unread = {t \in tokens : t.first >= index}
      BY <1>1 DEF Unread
    <2> QED BY <1>1, <2>1, <2>2, <2>3, <2>4, LineTokenFacts, LenProperties DEF HandInv, LineInv
  <1>3. Coming' = Coming
    BY <1>1 DEF Coming
  <1>4. ASSUME UNCHANGED sentence, HasSentence', Unread' = Unread
        PROVE  HandInv'
    <2>1. Waiting' = Waiting
      BY <1>1, <1>2, <1>4 DEF Waiting
    <2> QED BY <1>1, <1>2, <1>3, <1>4, <2>1 DEF HandInv, TokenizerFacts!InSequence
  <1>5. inputPc' # "end" => Unread' = {t \in tokens : t.first >= index'}
    BY <1>1 DEF Unread
  <1>6. CASE PassesUnit
    <2>1. /\ index' = index + 1 /\ UNCHANGED sentence
          /\ index + 1 \in 1 .. Len(text) + 2
          /\ \A t \in tokens : /\ t.first >= index + 1 <=> t.first >= index
                               /\ t.last < index + 1 \/ index + 1 <= t.first
      BY <1>1, <1>6, PassedUnit DEF PassesUnit
    <2>2. inputPc' \in {"called", "returned"} /\ HasSentence'
      <3>1. CASE UNCHANGED <<sentences, inputPc>>
        BY <1>1, <3>1 DEF HasSentence
      <3>2. CASE sentences' = Append(sentences, sentence) /\ inputPc' = "returned"
        BY <3>2 DEF HasSentence
      <3> QED BY <1>6, <3>1, <3>2 DEF PassesUnit
    <2>3. Unread' = Unread
      BY <1>2, <1>5, <2>1, <2>2
    <2>4. \A k \in 1 .. Len(sentence) : sentence[k].first < index'
      <3>1. \A k \in 1 .. Len(sentence) : sentence[k].first \in Nat
        <4>1. \A k \in 1 .. Len(sentence) : sentence[k] \in tokens
          BY <1>2, LenProperties
        <4> QED BY <1>1, <4>1, LineTokenFacts
      <3> QED BY <1>2, <2>1, <3>1
    <2>5. LineInv'
      BY <1>1, <1>2, <2>1, <2>2, <2>4 DEF LineInv
    <2> QED BY <1>4, <2>1, <2>2, <2>3, <2>5
  <1>7. CASE EndsText
    <2>1. index > Len(text) /\ UNCHANGED <<index, sentence>>
      BY <1>7 DEF EndsText
    <2>2. Unread = {}
      <3>1. \A t \in tokens : t.first \in 1 .. Len(text)
        BY <1>1, LineTokenFacts
      <3> QED BY <1>2, <2>1, <3>1
    <2>3. CASE sentence # <<>> /\ sentences' = Append(sentences, sentence) /\ inputPc' = "returned"
      <3>1. HasSentence'
        BY <2>3 DEF HasSentence
      <3>2. Unread' = Unread
        BY <1>2, <1>5, <2>1, <2>3
      <3>3. LineInv'
        BY <1>1, <1>2, <2>1, <2>3 DEF LineInv
      <3> QED BY <1>4, <2>1, <3>1, <3>2, <3>3
    <2>4. CASE sentence = <<>> /\ inputPc' = "end"
      <3>1. ~HasSentence' /\ Waiting' = {} /\ Unread' = {}
        BY <2>4 DEF HasSentence, Waiting, Unread
      <3>2. Coming = {}
        BY <1>2, <2>2, <2>4
      <3>3. LineInv'
        BY <1>1, <2>1, <2>4, <3>1 DEF LineInv
      <3> QED BY <1>1, <1>2, <1>3, <2>4, <3>1, <3>2, <3>3 DEF HandInv
    <2> QED BY <1>7, <2>3, <2>4 DEF EndsText
  <1>8. CASE TakesRun
    <2> DEFINE e == Input!EndOfRun(LineUnits)
               t == Token(index, e - 1)
    <2>1. /\ index <= Len(text) /\ text[index] \in LineUnits
          /\ sentence' = Append(sentence, t) /\ index' \in {e, e + 1}
          /\ inputPc' = "called" /\ HasSentence'
      BY <1>1, <1>8 DEF TakesRun, HasSentence
    <2>2. /\ t \in tokens /\ t.first = index /\ t.last = e - 1
          /\ e \in index + 1 .. Len(text) + 1
          /\ index' \in 1 .. Len(text) + 2
          /\ \A u \in tokens : /\ u.first >= index <=> u = t \/ u.first >= index'
                               /\ u.last < index' \/ index' <= u.first
      <3> HIDE DEF LineUnits
      <3> QED BY <1>1, <2>1, TakenRun
    <2> HIDE DEF e, t
    <2>3. /\ sentence' \in Seq(tokens) /\ Len(sentence') = Len(sentence) + 1
          /\ \A k \in 1 .. Len(sentence) : sentence'[k] = sentence[k]
          /\ sentence'[Len(sentence) + 1] = t
      BY <1>2, <2>1, <2>2, AppendProperties
    <2>4. 1 .. Len(sentence') = 1 .. Len(sentence) \union {Len(sentence) + 1}
      BY <1>2, <2>3
    <2>5. Waiting' = Waiting \union {t}
      <3>1. Waiting' = {sentence'[k] : k \in 1 .. Len(sentence')}
        <4>1. given' + 1 = 1
          BY <1>1, <1>2
        <4> QED BY <2>1, <4>1 DEF Waiting
      <3> QED BY <1>2, <2>3, <2>4, <3>1
    <2>6. Unread = Unread' \union {t}
      <3>1. Unread' = {u \in tokens : u.first >= index'}
        BY <1>5, <2>1
      <3>2. Unread = {u \in tokens : u.first >= index}
        BY <1>2
      <3> QED BY <2>2, <3>1, <3>2
    <2>7. \A u \in tokens : u.first \in Nat /\ u.last \in Nat /\ u.first <= u.last
      BY <1>1, LineTokenFacts
    <2>8. index' \in Nat /\ index' > index /\ t.last < index'
      BY <1>2, <2>1, <2>2
    <2>9. \A k \in 1 .. Len(sentence) : sentence[k] \in tokens /\ sentence[k].last < index
      <3>1. \A k \in 1 .. Len(sentence) : sentence[k] \in tokens
        BY <1>2, LenProperties
      <3>2. \A k \in 1 .. Len(sentence) :
              /\ sentence[k].first < index
              /\ sentence[k].last < index \/ index <= sentence[k].first
        BY <1>1, <1>2, <3>1 DEF LineInv
      <3> QED BY <1>2, <2>7, <3>1, <3>2
    <2>10. TokenizerFacts!InSequence(sentence)'
      <3> SUFFICES ASSUME NEW k \in 1 .. Len(sentence'), NEW l \in 1 .. Len(sentence'), k < l
                   PROVE  sentence'[k].last < sentence'[l].first
        BY DEF TokenizerFacts!InSequence
      <3>1. k \in 1 .. Len(sentence)
        BY <1>2, <2>3
      <3>2. CASE l \in 1 .. Len(sentence)
        BY <1>2, <2>3, <3>1, <3>2 DEF TokenizerFacts!InSequence
      <3>3. CASE l = Len(sentence) + 1
        BY <2>2, <2>3, <2>9, <3>1, <3>3
      <3> QED BY <2>4, <3>2, <3>3
    <2>11. ASSUME NEW u \in Waiting', NEW v \in Unread'
           PROVE  u.last < v.first
      <3>1. v \in tokens /\ v.first >= index'
        BY <1>5, <2>1
      <3>2. u \in tokens /\ u.last < index'
        <4>1. CASE u = t
          BY <2>2, <2>8, <4>1
        <4>2. CASE u \in Waiting
          BY <1>2, <2>7, <2>8, <2>9, <4>2
        <4> QED BY <2>5, <4>1, <4>2
      <3> QED BY <2>7, <2>8, <3>1, <3>2
    <2>12. \A k \in 1 .. Len(sentence') : sentence'[k].first < index'
      <3>1. \A k \in 1 .. Len(sentence) : sentence'[k].first < index'
        BY <1>2, <2>3, <2>7, <2>8, <2>9
      <3> QED BY <2>2, <2>3, <2>4, <2>8, <3>1
    <2>13. LineInv'
      BY <1>1, <1>2, <2>1, <2>2, <2>12 DEF LineInv
    <2>14. Coming' = Waiting' \union Unread'
      BY <1>2, <1>3, <2>5, <2>6
    <2>15. given' \in 0 .. Len(sentence')
      BY <1>1, <1>2, <2>3
    <2> QED BY <1>1, <1>2, <2>1, <2>3, <2>10, <2>11, <2>13, <2>14, <2>15 DEF HandInv
  <1> QED BY <1>1, <1>6, <1>7, <1>8

LEMMA NextSentenceKeepsHand ==
  ASSUME WalkInv, HandInv, LineInv, NextSentence
  PROVE  HandInv' /\ LineInv'
  <1>1. /\ IsLineFormat /\ pc = "tokens" /\ IsGiven /\ inputPc = "returned"
        /\ sentence' = <<>> /\ inputPc' = "called" /\ given' = 0
        /\ UNCHANGED <<text, tokens, pos, pc, inputFormat, index, sentences, ret, tokenizerPc>>
    BY DEF NextSentence, Input!NextSentence, vars, tokenizerVars
  <1>2. HasSentence' /\ IsLineFormat' /\ LineUnits' = LineUnits /\ Coming' = Coming
    BY <1>1 DEF HasSentence, IsLineFormat, LineUnits, Coming
  <1>3. Waiting = {}
    <2>1. CASE sentences = <<>>
      BY <1>1, <2>1 DEF Waiting, HasSentence
    <2>2. CASE sentences # <<>>
      <3>1. HasSentence /\ given = Len(sentence) /\ sentence \in Seq(tokens)
        BY <1>1, <2>2 DEF HasSentence, IsGiven, HandInv
      <3>2. given + 1 .. Len(sentence) = {}
        BY <3>1, LenProperties
      <3> QED BY <3>1, <3>2 DEF Waiting
    <2> QED BY <2>1, <2>2
  <1>4. Waiting' = {}
    BY <1>1 DEF Waiting
  <1>5. Unread' = Unread
    BY <1>1, <1>2 DEF Unread
  <1>6. sentence' \in Seq(tokens) /\ given' \in 0 .. Len(sentence') /\ TokenizerFacts!InSequence(sentence)'
    BY <1>1 DEF TokenizerFacts!InSequence
  <1>7. LineInv'
    BY <1>1, <1>2 DEF LineInv
  <1> QED BY <1>1, <1>2, <1>3, <1>4, <1>5, <1>6, <1>7 DEF HandInv
-----------------------------------------------------------------------------
(* All the components together.                                            *)

BlocksInv ==
  /\ WalkInv
  /\ TokenizerInv
  /\ HandInv
  /\ ListInv
  /\ LineInv

LEMMA OptionsAreOptions == \A f : OptionsOf(f) \in Cut!Options
  BY DEF OptionsOf, Cut!Options

(* Where a block begins.                                                   *)
AtTheBeginning ==
  /\ pc = "tokens" /\ pos = 0 /\ given = 0
  /\ text \in Texts /\ tokens \in Tokenizations(text) /\ tokens = PromisedTokens
  /\ inputPc = "returned" /\ sentences = <<>>
  /\ IsLineFormat => index = 1
  /\ Cut!Init

LEMMA BeginningIsWalked == AtTheBeginning => HandInv /\ ListInv /\ LineInv
  <1> SUFFICES ASSUME AtTheBeginning PROVE HandInv /\ ListInv /\ LineInv
    OBVIOUS
  <1>1. /\ Len(text) \in Nat
        /\ \A t \in tokens : /\ t.first \in 1 .. Len(text) /\ t.last \in 1 .. Len(text)
                             /\ 0 < t.first
    BY TextFacts, TokenFacts, StartOfBlock DEF AtTheBeginning
  <1>2. ~HasSentence /\ Waiting = {}
    BY DEF AtTheBeginning, HasSentence, Waiting
  <1>3. Coming = tokens
    <2>1. \A t \in tokens : t.first > 0
      BY <1>1
    <2> QED BY <2>1 DEF AtTheBeginning, Coming
  <1>4. Unread = tokens
    <2>1. CASE IsLineFormat
      <3>1. Unread = {t \in tokens : t.first >= 1}
        BY <2>1 DEF AtTheBeginning, Unread
      <3> QED BY <1>1, <3>1
    <2>2. CASE ~IsLineFormat
      BY <2>2 DEF AtTheBeginning, Unread, Cut!Init
    <2> QED BY <2>1, <2>2
  <1>5. HandInv
    BY <1>2, <1>3, <1>4 DEF AtTheBeginning, HandInv
  <1>6. ListInv
    BY DEF AtTheBeginning, ListInv, PromisedTokens, Cut!Init
  <1>7. ASSUME IsLineFormat
        PROVE  LineInv
    <2>1. tokens = Runs(text, LineUnits)
      <3>1. tokens = IF inputFormat = "vertical" THEN VerticalTokens(text) ELSE HorizontalTokens(text)
        BY <1>7, SameTokens DEF AtTheBeginning, PromisedTokens, Input!PromisedTokens
      <3> QED BY <3>1 DEF VerticalTokens, HorizontalTokens, LineUnits
    <2>2. \A t \in tokens : t.last < index \/ index <= t.first
      BY <1>1, <1>7 DEF AtTheBeginning
    <2> QED BY <1>1, <1>2, <1>7, <2>1, <2>2 DEF AtTheBeginning, LineInv
  <1>8. LineInv
    BY <1>7 DEF LineInv
  <1> QED BY <1>5, <1>6, <1>8

LEMMA BeginningIsWalkedAgain == (AtTheBeginning => HandInv /\ ListInv /\ LineInv)'
  BY BeginningIsWalked, PTL

LEMMA BlocksBegin == BlocksInit => BlocksInv
  <1> SUFFICES ASSUME BlocksInit PROVE BlocksInv
    OBVIOUS
  <1>1. WalkInv /\ TokenizerInv
    BY InitWalk, TokenizerBegins DEF BlocksInit
  <1>2. AtTheBeginning
    BY DEF BlocksInit, Init, Input!Init, AtTheBeginning
  <1> QED BY <1>1, <1>2, BeginningIsWalked DEF BlocksInv

(* A new block.                                                            *)
LEMMA NextBlockBegins ==
  ASSUME BlocksInv, NextBlock
  PROVE  SetBlock /\ Cut!Init' /\ AtTheBeginning'
  <1>1. SetBlock /\ UNCHANGED inputFormat /\ text' \in Texts
    BY FormatPairsAssumption DEF NextBlock, Input!SetBlock
  <1>2. Cut!Init'
    <2>1. text' \in Texts /\ OptionsOf(inputFormat') \in Cut!Options
      BY <1>1, OptionsAreOptions
    <2> QED BY <2>1 DEF NextBlock, Cut!Init, Cut!Options
  <1>3. /\ tokens' \in Tokenizations(text') /\ pc' = "tokens" /\ pos' = 0
    BY <1>1 DEF SetBlock
  <1>4. given' = 0 /\ tokens' = PromisedTokens'
    BY DEF NextBlock
  <1>5. /\ inputPc' = "returned" /\ sentences' = <<>>
        /\ IsLineFormat' => index' = 1
    <2>1. IsLineFormat' <=> IsLineFormat
      BY <1>1 DEF IsLineFormat
    <2>2. CASE IsLineFormat
      BY <2>1, <2>2 DEF NextBlock, Input!SetBlock
    <2>3. CASE ~IsLineFormat
      BY <2>1, <2>3 DEF NextBlock
    <2> QED BY <2>2, <2>3
  <1> QED BY <1>1, <1>2, <1>3, <1>4, <1>5 DEF AtTheBeginning

LEMMA FinishBlockKeepsHand ==
  ASSUME BlocksInv, FinishBlock
  PROVE  /\ pc = "tokens" /\ Coming = {} /\ Finish
         /\ HandInv' /\ ListInv' /\ LineInv'
  <1>1. /\ pc = "tokens" /\ inputPc = "end" /\ Finish /\ pc' = "done"
        /\ UNCHANGED <<text, tokens, pos, inputFormat, index, sentence, sentences, inputPc, given,
                       ret, tokenizerPc>>
    BY DEF FinishBlock, Finish, inputVars, tokenizerVars
  <1>2. ~HasSentence /\ Waiting = {} /\ Unread = {} /\ Coming = {}
    BY <1>1 DEF BlocksInv, HandInv, HasSentence, Waiting, Unread
  <1>3. ~HasSentence' /\ Waiting' = {} /\ Unread' = {}
    BY <1>1 DEF HasSentence, Waiting, Unread
  <1>4. HandInv'
    BY <1>1, <1>3 DEF HandInv
  <1>5. ListInv'
    BY <1>1 DEF BlocksInv, ListInv, IsLineFormat
  <1>6. LineInv'
    BY <1>1, <1>3 DEF BlocksInv, LineInv, IsLineFormat, LineUnits
  <1> QED BY <1>1, <1>2, <1>4, <1>5, <1>6

LEMMA HandOverKeepsInput ==
  ASSUME BlocksInv, HandOver
  PROVE  ListInv' /\ LineInv'
  <1>1. /\ inputPc = "returned" /\ TakeToken(sentence[given + 1])
        /\ UNCHANGED <<inputFormat, index, sentence, sentences, inputPc, ret, tokenizerPc>>
    BY DEF HandOver, inputVars, tokenizerVars
  <1>2. UNCHANGED <<text, tokens>>
    BY <1>1 DEF TakeToken, KeepToken, PassToken, CorrectToken, PrintTo
  <1>3. ListInv'
    BY <1>1, <1>2 DEF BlocksInv, ListInv, IsLineFormat
  <1>4. LineInv'
    BY <1>1, <1>2 DEF BlocksInv, LineInv, IsLineFormat, LineUnits, HasSentence
  <1> QED BY <1>3, <1>4

(* Every step of the loop is a step of the output format or leaves it      *)
(* alone, and keeps the invariant.                                         *)
LEMMA BlocksStep ==
  ASSUME BlocksInv, [BlocksNext]_allVars
  PROVE  [Next]_vars /\ BlocksInv'
  <1>1. ASSUME [Next]_vars, TokenizerInv', HandInv', ListInv', LineInv'
        PROVE  [Next]_vars /\ BlocksInv'
    BY <1>1, NextWalk DEF BlocksInv
  <1>2. ASSUME UNCHANGED <<text, inputFormat, tokenizerVars>>
        PROVE  TokenizerInv'
    BY <1>2, TokenizerGoesOn DEF BlocksInv
  <1>3. CASE NextBlock
    <2>1. SetBlock /\ Cut!Init' /\ AtTheBeginning'
      BY <1>3, NextBlockBegins
    <2> QED BY <1>1, <2>1, TokenizerBeginsAgain, BeginningIsWalkedAgain DEF Next
  <1>4. CASE Tokenize
    <2>1. TokenizerInv'
      BY <1>4, TokenizerGoesOn DEF BlocksInv, Tokenize
    <2>2. HandInv' /\ ListInv'
      BY <1>4, <2>1, TokenizeKeepsHand DEF BlocksInv
    <2>3. UNCHANGED vars /\ LineInv'
      BY <1>4 DEF Tokenize, inputVars, LineInv, IsLineFormat
    <2> QED BY <1>1, <2>1, <2>2, <2>3
  <1>5. CASE NextSentence
    <2>1. UNCHANGED vars /\ TokenizerInv'
      BY <1>2, <1>5 DEF NextSentence, Input!NextSentence, vars
    <2>2. HandInv' /\ LineInv'
      BY <1>5, NextSentenceKeepsHand DEF BlocksInv
    <2>3. ListInv'
      BY <1>5 DEF NextSentence, Input!NextSentence, ListInv, IsLineFormat
    <2> QED BY <1>1, <2>1, <2>2, <2>3
  <1>6. CASE ReadOn
    <2>1. /\ IsLineFormat /\ UNCHANGED <<vars, given, tokenizerVars, inputFormat>>
      BY <1>6, LineSteps DEF BlocksInv
    <2>2. UNCHANGED vars /\ TokenizerInv'
      BY <1>2, <2>1 DEF vars
    <2>3. HandInv' /\ LineInv'
      BY <1>6, ReadOnKeepsHand DEF BlocksInv
    <2>4. ListInv'
      BY <2>1 DEF ListInv, IsLineFormat
    <2> QED BY <1>1, <2>2, <2>3, <2>4
  <1>7. CASE NextOfList
    <2>1. UNCHANGED vars /\ TokenizerInv'
      BY <1>2, <1>7 DEF NextOfList, vars
    <2>2. HandInv' /\ ListInv'
      BY <1>7, NextOfListKeepsHand DEF BlocksInv
    <2>3. LineInv'
      BY <1>7 DEF NextOfList, LineInv, IsLineFormat
    <2> QED BY <1>1, <2>1, <2>2, <2>3
  <1>8. CASE HandOver
    <2> DEFINE t == sentence[given + 1]
    <2>1. t \in tokens /\ IsNextToken(t) /\ TakeToken(t)
      BY <1>8, HandedTokenIsNext DEF BlocksInv, HandOver
    <2>2. UNCHANGED text
      BY <2>1 DEF TakeToken, KeepToken, PassToken, CorrectToken, PrintTo
    <2>3. TokenizerInv'
      BY <1>2, <1>8, <2>2 DEF HandOver, inputVars
    <2>4. HandInv' /\ ListInv' /\ LineInv'
      BY <1>8, HandOverKeepsHand, HandOverKeepsInput DEF BlocksInv
    <2> QED BY <1>1, <2>1, <2>3, <2>4 DEF Next
  <1>9. CASE FinishBlock
    <2>1. pc = "tokens" /\ Coming = {} /\ Finish /\ HandInv' /\ ListInv' /\ LineInv'
      BY <1>9, FinishBlockKeepsHand
    <2>2. TokenizerInv'
      BY <1>2, <1>9 DEF FinishBlock, Finish, inputVars
    <2> QED BY <1>1, <2>1, <2>2 DEF Next
  <1>10. CASE UNCHANGED allVars
    <2>1. UNCHANGED <<vars, inputVars, given, tokenizerVars>>
      BY <1>10 DEF allVars
    <2>2. UNCHANGED vars /\ TokenizerInv'
      BY <1>2, <2>1 DEF inputVars, vars
    <2>3. HandInv' /\ ListInv' /\ LineInv'
      BY <2>1 DEF BlocksInv, vars, inputVars, tokenizerVars, HandInv, HasSentence, Waiting, Unread,
                  SentencesFrom, Coming, ListInv, LineInv, IsLineFormat, LineUnits,
                  TokenizerFacts!InSequence
    <2> QED BY <1>1, <2>2, <2>3
  <1> QED BY <1>3, <1>4, <1>5, <1>6, <1>7, <1>8, <1>9, <1>10 DEF BlocksNext

LEMMA BlocksInvariance == BlocksSpec => []BlocksInv
  <1>1. BlocksInv /\ [BlocksNext]_allVars => BlocksInv'
    BY BlocksStep
  <1> QED BY <1>1, BlocksBegin, PTL DEF BlocksSpec

(* The output format gets the tokens of the block one by one, every one    *)
(* once and in the order of the text, and finishes after the last one,     *)
(* whichever format cuts the block and however it keeps its place in it:   *)
(* the loop over blocks, sentences and tokens implements what the output   *)
(* formats are modelled with.                                              *)
THEOREM TokensAlwaysComeInOrder == BlocksSpec => TokensComeInOrder
  <1>1. BlocksInit => Init
    BY DEF BlocksInit
  <1>2. BlocksInv /\ [BlocksNext]_allVars => [Next]_vars
    BY BlocksStep
  <1> QED BY <1>1, <1>2, BlocksInvariance, PTL DEF BlocksSpec, TokensComeInOrder, Spec

(* The tokens the tokenizer finds in any block are the promised ones,      *)
(* whatever is handed over meanwhile and in whichever state the block      *)
(* before was left: SetBlock calls it anew (input_format.cpp:36-39).       *)
THEOREM TokensAreAlwaysPromised == BlocksSpec => []TokensArePromised
  <1>1. BlocksInv => TokensArePromised
    <2>1. TokenizerFacts!TokensInv => TokenizerFacts!TokensArePromised
      BY DEF TokenizerFacts!TokensInv, TokenizerFacts!TokensArePromised, TokenizerFacts!Found,
             TokenizerFacts!IsIncreasing
    <2> QED BY <2>1, SameTokenizer DEF BlocksInv, TokenizerInv, TokensArePromised
  <1> QED BY <1>1, BlocksInvariance, PTL

(* In the loop of korektor.cpp over blocks, sentences and tokens no part   *)
(* of a block is printed twice or left out, in any pair of formats.        *)
THEOREM NothingTwiceInTheLoop == BlocksSpec => []ShownIsPrefix
  BY TokensAlwaysComeInOrder, NothingTwice, PTL DEF TokensComeInOrder

(* After FinishBlock the printed block without its corrections is the      *)
(* block, if no surrogate pair is cut, in any pair of formats.             *)
THEOREM TextIsKeptInTheLoop == BlocksSpec => []KeptTextIsPreserved
  BY TokensAlwaysComeInOrder, TextIsKept, PTL DEF TokensComeInOrder

(* What original and xml copy from the block without looking at it is      *)
(* white space, whichever input format hands them its tokens.              *)
THEOREM OnlyWhiteSpaceInTheLoop == BlocksSpec => []GapsAreWhiteSpace
  BY TokensAlwaysComeInOrder, OnlyWhiteSpaceBetween, PTL DEF TokensComeInOrder
-----------------------------------------------------------------------------
(* The sentences of the line formats.                                      *)

LineEnds == IF inputFormat = "vertical" THEN EmptyLines(text) ELSE Newlines(text)

(* The sentences as far as they have been read.                            *)
IsInSentence == inputPc = "called" /\ sentence # <<>>
Parts == IF IsInSentence THEN Append(sentences, sentence) ELSE sentences

(* All tokens before the index, in their order.                            *)
AreRead(all) ==
  /\ all \in Seq(tokens)
  /\ TokenizerFacts!InSequence(all)
  /\ {all[k] : k \in 1 .. Len(all)} = {t \in tokens : t.first < index}

(* An end between the last of them and the index is where the sentence was *)
(* returned.                                                               *)
EndIsPassed(all) == \E e \in LineEnds : all[Len(all)].first <= e /\ e < index

AreCut(all) ==
  /\ AreRead(all)
  /\ TokenizerFacts!IsCut(Parts, all, LineEnds)
  /\ Len(all) # 0 =>
       IF IsInSentence THEN ~EndIsPassed(all) ELSE EndIsPassed(all) \/ index > Len(text)

LineCutInv ==
  IsLineFormat =>
    /\ sentences \in Seq(Seq(tokens))
    /\ inputFormat = "vertical" => index = 1 \/ index > Len(text) \/ text[index - 1] = Newline
    /\ \E all : AreCut(all)

LEMMA ReadTokens ==
  ASSUME WalkInv, LineInv, IsLineFormat, NEW all, AreRead(all)
  PROVE  /\ all \in Seq(tokens) /\ Len(all) \in Nat
         /\ \A k \in 1 .. Len(all) : /\ all[k] \in tokens
                                     /\ all[k].first \in 1 .. Len(text)
                                     /\ all[k].first < index
                                     /\ all[k].last < index
         /\ \A t \in tokens : t.first < index => \E k \in 1 .. Len(all) : t = all[k]
  <1>1. all \in Seq(tokens) /\ Len(all) \in Nat
    BY LenProperties DEF AreRead
  <1>2. ASSUME NEW k \in 1 .. Len(all)
        PROVE  /\ all[k] \in tokens
               /\ all[k].first \in 1 .. Len(text)
               /\ all[k].first < index
               /\ all[k].last < index
    <2>1. all[k] \in tokens /\ all[k].first < index
      BY DEF AreRead
    <2>2. /\ all[k].first \in 1 .. Len(text) /\ all[k].last \in 1 .. Len(text)
          /\ index \in Nat /\ Len(text) \in Nat
      BY <2>1, LineTokenFacts
    <2>3. all[k].last < index \/ index <= all[k].first
      BY <2>1 DEF LineInv
    <2> QED BY <2>1, <2>2, <2>3
  <1>3. \A t \in tokens : t.first < index => \E k \in 1 .. Len(all) : t = all[k]
    BY DEF AreRead
  <1> QED BY <1>1, <1>2, <1>3

LEMMA LineEndFacts ==
  ASSUME WalkInv, LineInv, IsLineFormat
  PROVE  /\ \A e \in LineEnds : e \in 1 .. Len(text) /\ text[e] = Newline
         /\ inputFormat = "horizontal" =>
              \A e \in 1 .. Len(text) : text[e] = Newline => e \in LineEnds
         /\ inputFormat = "vertical" =>
              /\ \A e \in LineEnds : e > 1 /\ text[e - 1] = Newline
              /\ \A e \in 2 .. Len(text) : text[e] = Newline /\ text[e - 1] = Newline => e \in LineEnds
  <1>1. Len(text) \in Nat
    BY LineTokenFacts
  <1>2. CASE inputFormat = "vertical"
    <2>1. LineEnds = {k \in 1 .. Len(text) : text[k] = Newline /\ k > 1 /\ text[k - 1] = Newline}
      BY <1>2 DEF LineEnds, EmptyLines, Newlines
    <2>2. \A e \in 2 .. Len(text) : e \in 1 .. Len(text) /\ e > 1
      BY <1>1
    <2> QED BY <1>2, <2>1, <2>2
  <1>3. CASE inputFormat # "vertical"
    BY <1>3 DEF LineEnds, Newlines
  <1> QED BY <1>2, <1>3

(* A step over a unit that belongs to no token.                            *)
LEMMA PassKeepsCut ==
  ASSUME BlocksInv, LineCutInv, ReadOn, PassesUnit
  PROVE  LineCutInv'
  <1>1. /\ WalkInv /\ LineInv /\ IsLineFormat /\ inputPc = "called"
        /\ IsLineFormat' /\ LineEnds' = LineEnds
        /\ UNCHANGED <<text, tokens, inputFormat>>
    BY LineSteps DEF BlocksInv, vars, IsLineFormat, LineEnds
  <1>2. /\ index <= Len(text) /\ text[index] \notin LineUnits
        /\ index' = index + 1 /\ UNCHANGED sentence
        /\ index \in 1 .. Len(text) /\ Len(text) \in Nat
    BY <1>1, LineTokenFacts DEF PassesUnit, LineInv
  <1>3. inputFormat = "vertical" => text[index'- 1] = Newline /\ text[index] = Newline
    <2>1. index' - 1 = index
      BY <1>2
    <2> QED BY <1>1, <1>2, <2>1, LineAlphabet
  <1>4. PICK all : AreCut(all)
    BY <1>1 DEF LineCutInv
  <1>5. AreRead(all)'
    <2>1. \A t \in tokens : t.first < index + 1 <=> t.first < index
      <3>1. \A t \in tokens : t.first \in Nat
        BY <1>1, LineTokenFacts
      <3>2. \A t \in tokens : t.first >= index + 1 <=> t.first >= index
        BY <1>1, <1>2, PassedUnit
      <3> QED BY <1>2, <3>1, <3>2
    <2> QED BY <1>1, <1>2, <1>4, <2>1 DEF AreCut, AreRead, TokenizerFacts!InSequence
  <1>6. /\ all \in Seq(tokens) /\ Len(all) \in Nat
        /\ Len(all) # 0 => all[Len(all)].first \in 1 .. Len(text) /\ all[Len(all)].first < index
    <2>1. /\ all \in Seq(tokens) /\ Len(all) \in Nat
          /\ \A k \in 1 .. Len(all) : all[k].first \in 1 .. Len(text) /\ all[k].first < index
      BY <1>1, <1>4, ReadTokens DEF AreCut
    <2>2. Len(all) # 0 => Len(all) \in 1 .. Len(all)
      BY <2>1
    <2> QED BY <2>1, <2>2
  <1>7. ASSUME EndIsPassed(all) PROVE EndIsPassed(all)'
    BY <1>1, <1>2, <1>7, LineEndFacts DEF EndIsPassed
  <1>8. sentences \in Seq(Seq(tokens)) /\ sentence \in Seq(tokens)
    BY <1>1 DEF LineCutInv, BlocksInv, HandInv, HasSentence
  <1>9. CASE text[index] = Newline /\ sentence # <<>>
    <2>1. /\ sentences' = Append(sentences, sentence) /\ inputPc' = "returned"
          /\ IsInSentence /\ ~IsInSentence'
      BY <1>1, <1>9 DEF PassesUnit, IsInSentence
    <2>2. Parts' = Parts
      BY <2>1 DEF Parts
    <2>3. sentences' \in Seq(Seq(tokens))
      BY <1>8, <2>1, AppendProperties
    <2>4. ASSUME Len(all) # 0
          PROVE  EndIsPassed(all)'
      <3>1. index \in LineEnds
        <4>1. CASE inputFormat = "horizontal"
          BY <1>1, <1>2, <1>9, <4>1, LineEndFacts
        <4>2. CASE inputFormat = "vertical"
          <5>1. index # 1
            BY <1>2, <1>6, <2>4
          <5>2. text[index - 1] = Newline /\ index \in 2 .. Len(text)
            BY <1>1, <1>2, <4>2, <5>1 DEF LineCutInv
          <5> QED BY <1>1, <1>9, <4>2, <5>2, LineEndFacts
        <4> QED BY <1>1, <4>1, <4>2 DEF IsLineFormat
      <3>2. all[Len(all)].first <= index /\ index < index'
        BY <1>2, <1>6, <2>4
      <3> QED BY <1>1, <3>1, <3>2 DEF EndIsPassed
    <2>5. AreCut(all)'
      BY <1>1, <1>4, <1>5, <2>1, <2>2, <2>4 DEF AreCut
    <2> QED BY <1>1, <1>3, <2>3, <2>5 DEF LineCutInv
  <1>10. CASE text[index] = Newline /\ sentence = <<>>
    <2>1. UNCHANGED <<sentences, inputPc>> /\ ~IsInSentence /\ ~IsInSentence' /\ Parts' = Parts
      BY <1>2, <1>10 DEF PassesUnit, IsInSentence, Parts
    <2>2. Len(all) # 0 => EndIsPassed(all)'
      BY <1>2, <1>4, <1>7, <2>1 DEF AreCut
    <2>3. AreCut(all)'
      BY <1>1, <1>4, <1>5, <2>1, <2>2 DEF AreCut
    <2> QED BY <1>1, <1>3, <1>8, <2>1, <2>3 DEF LineCutInv
  <1>11. CASE text[index] # Newline
    <2>1. UNCHANGED <<sentences, inputPc>> /\ (IsInSentence' <=> IsInSentence) /\ Parts' = Parts
      BY <1>2, <1>11 DEF PassesUnit, IsInSentence, Parts
    <2>2. ~EndIsPassed(all) => ~EndIsPassed(all)'
      <3> SUFFICES ASSUME NEW e \in LineEnds, all[Len(all)].first <= e, e < index'
                   PROVE  \E d \in LineEnds : all[Len(all)].first <= d /\ d < index
        BY <1>1 DEF EndIsPassed
      <3>1. e \in Nat /\ text[e] = Newline
        BY <1>1, LineEndFacts
      <3>2. e # index
        BY <1>11, <3>1
      <3> QED BY <1>2, <3>1, <3>2
    <2>3. Len(all) # 0 =>
            IF IsInSentence' THEN ~EndIsPassed(all)' ELSE EndIsPassed(all)'
      BY <1>2, <1>4, <1>7, <2>1, <2>2 DEF AreCut
    <2>4. AreCut(all)'
      BY <1>1, <1>4, <1>5, <2>1, <2>3 DEF AreCut
    <2> QED BY <1>1, <1>3, <1>8, <2>1, <2>4 DEF LineCutInv
  <1> QED BY <1>9, <1>10, <1>11

(* Where the end of a token has been passed, nothing ends inside it.       *)
LEMMA NothingEndsInside ==
  ASSUME WalkInv, LineInv, IsLineFormat, TakesRun
  PROVE  LET t == Token(index, Input!EndOfRun(LineUnits) - 1)
         IN  /\ t \in tokens /\ t.first = index
             /\ index \in 1 .. Len(text) /\ index' \in 1 .. Len(text) + 2 /\ index' > index
             /\ \A u \in tokens : u.first < index' <=> u.first < index \/ u = t
             /\ \A e \in LineEnds : ~(index <= e /\ e < index')
             /\ inputFormat = "vertical" => index' > Len(text) \/ text[index' - 1] = Newline
  <1> DEFINE e == Input!EndOfRun(LineUnits)
             t == Token(index, e - 1)
  <1>1. /\ index <= Len(text) /\ text[index] \in LineUnits
        /\ index' = IF inputFormat = "vertical" THEN e + 1 ELSE e
    BY DEF TakesRun
  <1>2. /\ index \in 1 .. Len(text) /\ Len(text) \in Nat /\ text \in Seq(Unit)
        /\ e \in index + 1 .. Len(text) + 1
        /\ t \in tokens /\ t.first = index /\ t.last = e - 1
        /\ \A k \in index .. e - 1 : text[k] \in LineUnits
        /\ e <= Len(text) => text[e] \notin LineUnits
        /\ index' \in 1 .. Len(text) + 2
        /\ \A u \in tokens : u.first >= index <=> u = t \/ u.first >= index'
    <2> HIDE DEF LineUnits
    <2> QED BY <1>1, TakenRun, LineTokenFacts
  <1> HIDE DEF e, t
  <1>3. index' > index
    BY <1>1, <1>2
  <1>4. \A u \in tokens : u.first < index' <=> u.first < index \/ u = t
    <2>1. \A u \in tokens : u.first \in Nat
      BY LineTokenFacts
    <2> QED BY <1>2, <1>3, <2>1
  <1>5. \A k \in index .. e - 1 : text[k] # Newline
    <2>1. Newline \notin LineUnits
      BY ClassesAssumption DEF LineUnits
    <2> QED BY <1>2, <2>1
  <1>6. inputFormat = "vertical" /\ e <= Len(text) => text[e] = Newline
    <2>1. ASSUME inputFormat = "vertical", e <= Len(text)
          PROVE  text[e] = Newline
      <3>1. e \in 1 .. Len(text)
        BY <1>2, <2>1
      <3>2. text[e] \in Unit /\ text[e] \notin Unit \ {Newline}
        BY <1>2, <2>1, <3>1, LenProperties DEF LineUnits
      <3> QED BY <3>2
    <2> QED BY <2>1
  <1>7. ASSUME NEW d \in LineEnds, index <= d, d < index'
        PROVE  FALSE
    <2>1. d \in 1 .. Len(text) /\ text[d] = Newline
      BY LineEndFacts
    <2>2. d = e /\ inputFormat = "vertical"
      BY <1>1, <1>2, <1>5, <1>7, <2>1
    <2>3. text[d - 1] = Newline /\ d - 1 \in index .. e - 1
      BY <1>2, <2>2, LineEndFacts
    <2> QED BY <1>5, <2>3
  <1>8. inputFormat = "vertical" => index' > Len(text) \/ text[index' - 1] = Newline
    <2>1. inputFormat = "vertical" => index' = e + 1 /\ index' - 1 = e
      BY <1>1, <1>2
    <2> QED BY <1>2, <1>6, <2>1
  <1> QED BY <1>2, <1>3, <1>4, <1>7, <1>8 DEF e, t

(* A sentence that grows is the last one of the list.                      *)
LEMMA LastPartGrows ==
  ASSUME NEW T, NEW R \in Seq(Seq(T)), NEW s \in Seq(T), NEW t \in T
  PROVE  LET Q == Append(R, s)
         IN  [Q EXCEPT ![Len(Q)] = Append(@, t)] = Append(R, Append(s, t))
  <1> DEFINE Q == Append(R, s)
             P == [Q EXCEPT ![Len(Q)] = Append(@, t)]
             O == Append(R, Append(s, t))
  <1>1. Append(s, t) \in Seq(T) /\ Len(R) \in Nat
    BY AppendProperties, LenProperties
  <1>2. /\ Q \in Seq(Seq(T)) /\ Len(Q) = Len(R) + 1 /\ Q[Len(R) + 1] = s
        /\ \A k \in 1 .. Len(R) : Q[k] = R[k]
    BY AppendProperties
  <1>3. /\ O \in Seq(Seq(T)) /\ Len(O) = Len(R) + 1 /\ O[Len(R) + 1] = Append(s, t)
        /\ \A k \in 1 .. Len(R) : O[k] = R[k]
    BY <1>1, AppendProperties
  <1>4. DOMAIN Q = 1 .. Len(R) + 1 /\ Q = [k \in 1 .. Len(R) + 1 |-> Q[k]]
    BY <1>2, LenProperties
  <1>5. O = [k \in 1 .. Len(R) + 1 |-> O[k]]
    BY <1>3, LenProperties
  <1> HIDE DEF Q, O
  <1>6. P = [k \in 1 .. Len(R) + 1 |-> IF k = Len(R) + 1 THEN Append(s, t) ELSE Q[k]]
    BY <1>1, <1>2, <1>4
  <1>7. ASSUME NEW k \in 1 .. Len(R) + 1
        PROVE  O[k] = IF k = Len(R) + 1 THEN Append(s, t) ELSE Q[k]
    <2>1. k = Len(R) + 1 \/ k \in 1 .. Len(R)
      BY <1>1
    <2> QED BY <1>1, <1>2, <1>3, <2>1
  <1>8. P = O
    BY <1>5, <1>6, <1>7
  <1> QED BY <1>8 DEF Q, O

(* The line or word that is taken begins a sentence or goes on with one.   *)
LEMMA TakeKeepsCut ==
  ASSUME BlocksInv, LineCutInv, ReadOn, TakesRun
  PROVE  LineCutInv'
  <1>1. /\ WalkInv /\ LineInv /\ IsLineFormat /\ inputPc = "called"
        /\ IsLineFormat' /\ LineEnds' = LineEnds
        /\ UNCHANGED <<text, tokens, inputFormat, sentences, inputPc>>
    BY LineSteps DEF BlocksInv, vars, IsLineFormat, LineEnds, TakesRun
  <1>2. PICK t \in tokens :
        /\ sentence' = Append(sentence, t) /\ t.first = index
        /\ index \in 1 .. Len(text) /\ index' \in 1 .. Len(text) + 2 /\ index' > index
        /\ \A u \in tokens : u.first < index' <=> u.first < index \/ u = t
        /\ \A e \in LineEnds : ~(index <= e /\ e < index')
        /\ inputFormat = "vertical" => index' > Len(text) \/ text[index' - 1] = Newline
    BY <1>1, NothingEndsInside DEF TakesRun
  <1>3. PICK all : AreCut(all)
    BY <1>1 DEF LineCutInv
  <1>4. /\ all \in Seq(tokens) /\ Len(all) \in Nat
        /\ \A k \in 1 .. Len(all) : /\ all[k] \in tokens
                                    /\ all[k].first < index
                                    /\ all[k].last < index
        /\ \A u \in tokens : u.first < index => \E k \in 1 .. Len(all) : u = all[k]
    BY <1>1, <1>3, ReadTokens DEF AreCut
  <1> DEFINE more == Append(all, t)
             n == Len(all) + 1
  <1>5. /\ more \in Seq(tokens) /\ Len(more) = n /\ more[n] = t
        /\ \A k \in 1 .. Len(all) : more[k] = all[k]
        /\ 1 .. n = 1 .. Len(all) \union {n}
    BY <1>2, <1>4, AppendProperties
  <1>6. /\ sentences \in Seq(Seq(tokens)) /\ sentence \in Seq(tokens)
        /\ sentence' \in Seq(tokens) /\ Len(sentence') # 0 /\ sentence' # <<>>
    <2>1. sentences \in Seq(Seq(tokens)) /\ sentence \in Seq(tokens)
      BY <1>1 DEF LineCutInv, BlocksInv, HandInv, HasSentence
    <2>2. sentence' \in Seq(tokens) /\ Len(sentence') = Len(sentence) + 1
      BY <1>1, <1>2, <2>1, AppendProperties
    <2> QED BY <2>1, <2>2, LenProperties
  <1> HIDE DEF more
  <1>7. AreRead(more)'
    <2>1. TokenizerFacts!InSequence(more)
      <3> SUFFICES ASSUME NEW k \in 1 .. n, NEW l \in 1 .. n, k < l
                   PROVE  more[k].last < more[l].first
        BY <1>5 DEF TokenizerFacts!InSequence
      <3>1. k \in 1 .. Len(all)
        BY <1>4
      <3>2. CASE l \in 1 .. Len(all)
        BY <1>3, <1>5, <3>1, <3>2 DEF AreCut, AreRead, TokenizerFacts!InSequence
      <3>3. CASE l = n
        BY <1>2, <1>4, <1>5, <3>1, <3>3
      <3> QED BY <1>5, <3>2, <3>3
    <2>2. {more[k] : k \in 1 .. Len(more)} = {u \in tokens : u.first < index'}
      <3>1. ASSUME NEW u \in tokens, u.first < index'
            PROVE  \E k \in 1 .. n : u = more[k]
        <4>1. CASE u = t
          <5>1. n \in 1 .. n
            BY <1>4
          <5> QED BY <1>5, <4>1, <5>1
        <4>2. CASE u # t
          <5>1. PICK k \in 1 .. Len(all) : u = all[k]
            BY <1>2, <1>4, <3>1, <4>2
          <5> QED BY <1>5, <5>1
        <4> QED BY <4>1, <4>2
      <3>2. \A k \in 1 .. n : more[k] \in tokens /\ more[k].first < index'
        BY <1>2, <1>4, <1>5
      <3> QED BY <1>5, <3>1, <3>2
    <2> QED BY <1>1, <1>5, <2>1, <2>2 DEF AreRead, TokenizerFacts!InSequence
  <1>8. /\ Len(all) # 0 => (TokenizerFacts!IsCutBefore(more, LineEnds, n) <=> EndIsPassed(all))
        /\ ~EndIsPassed(more)'
    <2>1. more[n] = t /\ t.first = index /\ n - 1 = Len(all)
      BY <1>2, <1>4, <1>5
    <2>2. Len(all) # 0 => more[Len(all)] = all[Len(all)]
      <3>1. Len(all) # 0 => Len(all) \in 1 .. Len(all)
        BY <1>4
      <3> QED BY <1>5, <3>1
    <2>3. Len(all) # 0 => (TokenizerFacts!IsCutBefore(more, LineEnds, n) <=> EndIsPassed(all))
      BY <2>1, <2>2 DEF TokenizerFacts!IsCutBefore, EndIsPassed
    <2>4. ~EndIsPassed(more)'
      BY <1>1, <1>2, <1>5, <2>1 DEF EndIsPassed
    <2> QED BY <2>3, <2>4
  <1>9. IsInSentence' /\ Parts' = Append(sentences, sentence')
    BY <1>1, <1>6 DEF IsInSentence, Parts
  <1>10. TokenizerFacts!IsCut(Parts, all, LineEnds) /\ Parts \in Seq(Seq(tokens))
    BY <1>3, <1>6, AppendProperties DEF AreCut, Parts
  <1>11. TokenizerFacts!IsCut(Append(sentences, sentence'), more, LineEnds)
    <2>1. CASE sentence = <<>>
      <3>1. Parts = sentences /\ ~IsInSentence
        BY <2>1 DEF Parts, IsInSentence
      <3>2. sentence' = <<t>>
        BY <1>2, <2>1
      <3>3. Len(all) = 0 \/ TokenizerFacts!IsCutBefore(Append(all, t), LineEnds, Len(all) + 1)
        BY <1>2, <1>3, <1>8, <3>1 DEF AreCut, more
      <3>4. TokenizerFacts!IsCut(Append(sentences, <<t>>), Append(all, t), LineEnds)
        BY <1>4, <1>6, <1>10, <3>1, <3>3, SameTexts, ClassesAssumption, TokenizerFacts!CutBeforeToken
      <3> QED BY <3>2, <3>4 DEF more
    <2>2. CASE sentence # <<>>
      <3>1. Parts = Append(sentences, sentence) /\ IsInSentence
        BY <1>1, <2>2 DEF Parts, IsInSentence
      <3>2. Len(all) # 0
        <4>1. Len(Parts) = Len(sentences) + 1 /\ Len(sentences) \in Nat
          BY <1>6, <3>1, AppendProperties, LenProperties
        <4>2. CASE Len(all) = 0
          <5>1. 1 .. Len(all) = {}
            BY <4>2
          <5>2. TokenizerFacts!Starts(all, LineEnds) = {}
            BY <5>1 DEF TokenizerFacts!Starts
          <5>3. Len(Parts) = 0
            BY <1>10, <5>2, FS_EmptySet DEF TokenizerFacts!IsCut, TokenizerFacts!Cardinality, Cardinality
          <5>4. Len(sentences) + 1 = 0 /\ Len(sentences) \in Nat
            BY <4>1, <5>3
          <5> HIDE DEF n
          <5> QED BY <5>4
        <4> QED BY <4>2
      <3>3. ~TokenizerFacts!IsCutBefore(Append(all, t), LineEnds, Len(all) + 1)
        BY <1>3, <1>8, <3>1, <3>2 DEF AreCut, more
      <3>4. TokenizerFacts!IsCut([Parts EXCEPT ![Len(Parts)] = Append(@, t)], Append(all, t), LineEnds)
        BY <1>4, <1>10, <3>2, <3>3, SameTexts, ClassesAssumption, TokenizerFacts!CutAfterToken
      <3>5. [Parts EXCEPT ![Len(Parts)] = Append(@, t)] = Append(sentences, Append(sentence, t))
        BY <1>6, <3>1, LastPartGrows
      <3> QED BY <1>2, <3>4, <3>5 DEF more
    <2> QED BY <2>1, <2>2
  <1>12. AreCut(more)'
    BY <1>1, <1>7, <1>8, <1>9, <1>11 DEF AreCut
  <1> QED BY <1>1, <1>2, <1>6, <1>12 DEF LineCutInv

LEMMA EndKeepsCut ==
  ASSUME BlocksInv, LineCutInv, ReadOn, EndsText
  PROVE  LineCutInv'
  <1>1. /\ IsLineFormat /\ inputPc = "called"
        /\ IsLineFormat' /\ LineEnds' = LineEnds
        /\ UNCHANGED <<text, tokens, inputFormat, index, sentence>>
        /\ index > Len(text)
    BY LineSteps DEF BlocksInv, vars, IsLineFormat, LineEnds, EndsText
  <1>2. PICK all : AreCut(all)
    BY <1>1 DEF LineCutInv
  <1>3. AreRead(all)'
    BY <1>1, <1>2 DEF AreCut, AreRead, TokenizerFacts!InSequence
  <1>4. sentences \in Seq(Seq(tokens)) /\ sentence \in Seq(tokens)
    BY <1>1 DEF LineCutInv, BlocksInv, HandInv, HasSentence
  <1>5. Parts' = Parts /\ ~IsInSentence' /\ sentences' \in Seq(Seq(tokens))
    <2>1. CASE sentence = <<>>
      BY <1>1, <1>4, <2>1 DEF EndsText, Parts, IsInSentence
    <2>2. CASE sentence # <<>>
      <3>1. sentences' = Append(sentences, sentence) /\ inputPc' = "returned"
        BY <2>2 DEF EndsText
      <3> QED BY <1>1, <1>4, <2>2, <3>1, AppendProperties DEF Parts, IsInSentence
    <2> QED BY <2>1, <2>2
  <1>6. AreCut(all)'
    BY <1>1, <1>2, <1>3, <1>5 DEF AreCut
  <1> QED BY <1>1, <1>5, <1>6 DEF LineCutInv

(* A step that leaves the place in the block alone.                        *)
LEMMA SameCut ==
  ASSUME LineCutInv,
         UNCHANGED <<text, tokens, inputFormat, index, sentences>>,
         Parts' = Parts, IsInSentence' <=> IsInSentence
  PROVE  LineCutInv'
  <1> SUFFICES ASSUME IsLineFormat' PROVE LineCutInv'
    BY DEF LineCutInv
  <1>1. IsLineFormat /\ LineEnds' = LineEnds
    BY DEF IsLineFormat, LineEnds
  <1>2. PICK all : AreCut(all)
    BY <1>1 DEF LineCutInv
  <1>3. AreRead(all)' /\ (EndIsPassed(all)' <=> EndIsPassed(all))
    BY <1>1, <1>2 DEF AreCut, AreRead, EndIsPassed, TokenizerFacts!InSequence
  <1>4. AreCut(all)'
    BY <1>1, <1>2, <1>3 DEF AreCut
  <1> QED BY <1>1, <1>4 DEF LineCutInv

LEMMA BeginningIsCut == AtTheBeginning => LineCutInv
  <1> SUFFICES ASSUME AtTheBeginning, IsLineFormat PROVE LineCutInv
    BY DEF LineCutInv
  <1>1. index = 1 /\ sentences = <<>> /\ inputPc = "returned"
    BY DEF AtTheBeginning
  <1>2. Parts = <<>> /\ ~IsInSentence
    BY <1>1 DEF Parts, IsInSentence
  <1>3. AreRead(<<>>)
    <2>1. \A t \in tokens : t.first \in Nat /\ t.first > 0
      BY TextFacts, TokenFacts, StartOfBlock DEF AtTheBeginning
    <2>2. {t \in tokens : t.first < index} = {}
      BY <1>1, <2>1
    <2> QED BY <2>2 DEF AreRead, TokenizerFacts!InSequence
  <1>4. TokenizerFacts!IsCut(<<>>, <<>>, LineEnds)
    BY SameTexts, ClassesAssumption, TokenizerFacts!NothingIsCut
  <1>5. AreCut(<<>>)
    BY <1>2, <1>3, <1>4 DEF AreCut
  <1> QED BY <1>1, <1>5 DEF LineCutInv

LEMMA BeginningIsCutAgain == (AtTheBeginning => LineCutInv)'
  BY BeginningIsCut, PTL

LEMMA LineCutBegins == BlocksInit => LineCutInv
  <1> SUFFICES ASSUME BlocksInit PROVE LineCutInv
    OBVIOUS
  <1>1. AtTheBeginning
    BY DEF BlocksInit, Init, Input!Init, AtTheBeginning
  <1> QED BY <1>1, BeginningIsCut

LEMMA LineCutStep ==
  ASSUME BlocksInv, LineCutInv, [BlocksNext]_allVars
  PROVE  LineCutInv'
  <1>1. CASE NextBlock
    BY <1>1, NextBlockBegins, BeginningIsCutAgain
  <1>2. CASE Tokenize
    BY <1>2 DEF Tokenize, inputVars, LineCutInv, IsLineFormat
  <1>3. CASE NextSentence
    <2>1. /\ inputPc = "returned" /\ sentence' = <<>>
          /\ UNCHANGED <<text, tokens, inputFormat, index, sentences>>
      BY <1>3 DEF NextSentence, Input!NextSentence, vars
    <2>2. Parts' = Parts /\ ~IsInSentence /\ ~IsInSentence'
      BY <2>1 DEF Parts, IsInSentence
    <2> QED BY <2>1, <2>2, SameCut
  <1>4. CASE ReadOn
    <2>1. PassesUnit \/ TakesRun \/ EndsText
      BY <1>4, LineSteps DEF BlocksInv
    <2> QED BY <1>4, <2>1, PassKeepsCut, TakeKeepsCut, EndKeepsCut
  <1>5. CASE NextOfList
    BY <1>5 DEF NextOfList, LineCutInv, IsLineFormat
  <1>6. ASSUME UNCHANGED <<text, tokens, inputVars>>
        PROVE  LineCutInv'
    <2>1. UNCHANGED <<text, tokens, inputFormat, index, sentence, sentences, inputPc>>
      BY <1>6 DEF inputVars
    <2>2. Parts' = Parts /\ (IsInSentence' <=> IsInSentence)
      BY <2>1 DEF Parts, IsInSentence
    <2> QED BY <2>1, <2>2, SameCut
  <1>7. CASE HandOver
    <2>1. TakeToken(sentence[given + 1]) /\ UNCHANGED inputVars
      BY <1>7 DEF HandOver
    <2>2. UNCHANGED <<text, tokens>>
      BY <2>1 DEF TakeToken, KeepToken, PassToken, CorrectToken, PrintTo
    <2> QED BY <1>6, <2>1, <2>2
  <1>8. CASE FinishBlock
    BY <1>6, <1>8 DEF FinishBlock, Finish
  <1>9. CASE UNCHANGED allVars
    BY <1>6, <1>9 DEF allVars, vars
  <1> QED BY <1>1, <1>2, <1>3, <1>4, <1>5, <1>7, <1>8, <1>9 DEF BlocksNext

(* There is one order of the tokens.                                       *)
NotAfter(P, t) == {u \in P : u.first <= t.first}

LEMMA OneOrder ==
  ASSUME NEW P, NEW all \in Seq(P), \A t \in P : \E k \in 1 .. Len(all) : t = all[k],
         TokenizerFacts!InSequence(all),
         \A t \in P : t.first \in Nat /\ t.last \in Nat /\ t.first <= t.last
  PROVE  all = [k \in 1 .. Cardinality(P) |-> CHOOSE t \in P : Cardinality(NotAfter(P, t)) = k]
  <1> DEFINE n == Len(all)
  <1>1. n \in Nat /\ all = [k \in 1 .. n |-> all[k]] /\ \A k \in 1 .. n : all[k] \in P
    BY LenProperties
  <1>2. \A k, l \in 1 .. n : k < l => all[k].first < all[l].first
    <2>1. \A k \in 1 .. n : all[k].first \in Nat /\ all[k].last \in Nat /\ all[k].first <= all[k].last
      BY <1>1
    <2>2. \A k, l \in 1 .. n : k < l => all[k].last < all[l].first
      BY DEF TokenizerFacts!InSequence
    <2> SUFFICES ASSUME NEW k \in 1 .. n, NEW l \in 1 .. n, k < l
                 PROVE  all[k].first < all[l].first
      OBVIOUS
    <2>3. all[k].last < all[l].first
      BY <2>2
    <2>4. /\ all[k].first \in Nat /\ all[k].last \in Nat /\ all[k].first <= all[k].last
          /\ all[l].first \in Nat
      BY <2>1
    <2>5. \A a, b, c \in Nat : a <= b /\ b < c => a < c
      OBVIOUS
    <2> QED BY ONLY <2>3, <2>4, <2>5, Zenon
  <1> HIDE DEF n
  <1>3. ASSUME NEW k \in 0 .. n
        PROVE  Cardinality({all[j] : j \in 1 .. k}) = k
    <2> DEFINE F == [j \in 1 .. k |-> all[j]]
               S == {all[j] : j \in 1 .. k}
    <2>1. k \in Nat /\ 1 .. k \subseteq 1 .. n
      BY <1>1
    <2>2. F \in Bijection(1 .. k, S)
      <3>1. F \in Surjection(1 .. k, S)
        BY DEF Surjection
      <3>2. \A a, b \in 1 .. k : a < b => F[a] # F[b]
        BY <1>1, <1>2, <2>1
      <3>3. \A a, b \in 1 .. k : F[a] = F[b] => a = b
        BY <2>1, <3>2
      <3> QED BY <3>1, <3>3 DEF Bijection, Injection, IsInjective
    <2>3. IsFiniteSet(1 .. k) /\ Cardinality(1 .. k) = k
      BY <2>1, FS_Interval
    <2> HIDE DEF F, S
    <2>4. Cardinality(S) = Cardinality(1 .. k)
      BY <2>2, <2>3, FS_Bijection DEF ExistsBijection
    <2> QED BY <2>3, <2>4 DEF S
  <1>4. P = {all[j] : j \in 1 .. n}
    BY <1>1 DEF n
  <1>5. Cardinality(P) = n
    BY <1>1, <1>3, <1>4
  <1>6. ASSUME NEW k \in 1 .. n
        PROVE  Cardinality(NotAfter(P, all[k])) = k
    <2>1. ASSUME NEW j \in 1 .. n
          PROVE  all[j].first <= all[k].first <=> j <= k
      <3>1. all[j].first \in Nat /\ all[k].first \in Nat
        BY <1>1
      <3>2. j < k \/ j = k \/ k < j
        BY <1>1
      <3> QED BY <1>1, <1>2, <3>1, <3>2
    <2>2. NotAfter(P, all[k]) \subseteq {all[j] : j \in 1 .. k}
      <3> SUFFICES ASSUME NEW u \in P, u.first <= all[k].first
                   PROVE  \E j \in 1 .. k : u = all[j]
        BY DEF NotAfter
      <3>1. PICK j \in 1 .. n : u = all[j]
        BY <1>4
      <3>2. j <= k /\ j \in 1 .. k
        BY <1>1, <2>1, <3>1
      <3> QED BY <3>1, <3>2
    <2>3. ASSUME NEW j \in 1 .. k
          PROVE  all[j] \in NotAfter(P, all[k])
      <3>1. j \in 1 .. n /\ j <= k
        BY <1>1
      <3> QED BY <1>1, <2>1, <3>1 DEF NotAfter
    <2>4. NotAfter(P, all[k]) = {all[j] : j \in 1 .. k}
      BY <2>2, <2>3
    <2>5. k \in 0 .. n
      BY <1>1
    <2> QED BY <1>3, <2>4, <2>5
  <1>7. ASSUME NEW k \in 1 .. n
        PROVE  all[k] = CHOOSE t \in P : Cardinality(NotAfter(P, t)) = k
    <2>1. \A t \in P : Cardinality(NotAfter(P, t)) = k <=> t = all[k]
      <3> TAKE t \in P
      <3>1. PICK j \in 1 .. n : t = all[j]
        BY <1>4
      <3> QED BY <1>6, <3>1
    <2> QED BY <1>1, <2>1
  <1> QED BY <1>1, <1>5, <1>7

LEMMA LineSentencesAreCut ==
  ASSUME BlocksInv, LineCutInv, IsLineFormat, inputPc = "end"
  PROVE  Input!SentencesAreCut
  <1>1. WalkInv /\ LineInv /\ index > Len(text)
    BY DEF BlocksInv, LineInv
  <1>2. PICK all : AreCut(all)
    BY DEF LineCutInv
  <1>3. TokenizerFacts!IsCut(sentences, all, LineEnds)
    BY <1>2 DEF AreCut, Parts, IsInSentence
  <1>4. /\ all \in Seq(tokens) /\ TokenizerFacts!InSequence(all)
        /\ {all[k] : k \in 1 .. Len(all)} = {t \in tokens : t.first < index}
    BY <1>2 DEF AreCut, AreRead
  <1>5. \A t \in tokens : /\ t.first \in Nat /\ t.last \in Nat /\ t.first <= t.last
                          /\ t.first < index
    BY <1>1, LineTokenFacts
  <1>6. \A t \in tokens : \E k \in 1 .. Len(all) : t = all[k]
    BY <1>4, <1>5
  <1>7. Input!PromisedTokens = tokens
    BY <1>1, SameTokens DEF LineInv, LineUnits, Input!PromisedTokens, VerticalTokens, HorizontalTokens
  <1>8. \A S : Input!Cardinality(S) = Cardinality(S)
    BY DEF Input!Cardinality, Cardinality
  <1>9. Input!InOrder = all
    <2>1. all = [k \in 1 .. Cardinality(tokens) |->
                   CHOOSE t \in tokens : Cardinality(NotAfter(tokens, t)) = k]
      BY <1>4, <1>5, <1>6, OneOrder
    <2>2. Input!InOrder = [k \in 1 .. Input!Cardinality(tokens) |->
                             CHOOSE t \in tokens : Input!Cardinality(NotAfter(tokens, t)) = k]
      BY <1>7 DEF Input!InOrder, NotAfter
    <2> QED BY <1>8, <2>1, <2>2
  <1>10. Input!SentenceEndings = LineEnds
    BY SameTokens DEF Input!SentenceEndings, LineEnds
  <1>11. TokenizerFacts!IsCutAt(sentences, all, LineEnds)
    BY <1>3, SameTexts, ClassesAssumption, TokenizerFacts!CutIsIsCutAt
  <1>12. Input!IsCutAt(sentences, all, LineEnds)
    BY <1>11, SameIsCutAt
  <1> QED BY <1>9, <1>10, <1>12 DEF Input!SentencesAreCut

LEMMA ListSentencesAreCut ==
  ASSUME BlocksInv, ~IsLineFormat, inputPc = "end"
  PROVE  sentences = ret /\ Cut!SentencesAreCut
  <1>1. /\ tokenizerPc = "done" /\ sentences \in Seq(Seq(tokens)) /\ Len(sentences) = Len(ret)
        /\ \A a \in 1 .. Len(sentences) : sentences[a] = ret[a]
    BY DEF BlocksInv, ListInv
  <1>2. ret \in Seq(Seq(tokens)) /\ Cut!SentencesAreCut
    BY <1>1, ListFacts, TokenizerIsDone DEF BlocksInv
  <1> QED BY <1>1, <1>2, SeqEqual

(* In every format the sentences of a block are its tokens, cut where the  *)
(* rules of the format say and nowhere else, for every text: whether the   *)
(* list of the tokenizer is handed out, or the next sentence is looked for *)
(* from where index was left.                                              *)
THEOREM EveryFormatCutsSentences == BlocksSpec => []SentencesAreCut
  <1>1. BlocksInv /\ LineCutInv /\ [BlocksNext]_allVars => LineCutInv'
    BY LineCutStep
  <1>2. BlocksInv /\ LineCutInv => SentencesAreCut
    <2> SUFFICES ASSUME BlocksInv, LineCutInv PROVE SentencesAreCut
      OBVIOUS
    <2>1. CASE IsLineFormat
      <3>1. inputPc = "end" => Input!SentencesAreCut
        BY <2>1, LineSentencesAreCut
      <3>2. inputPc # "end" => Input!SentencesAreCut
        BY DEF Input!SentencesAreCut
      <3> QED BY <2>1, <3>1, <3>2 DEF SentencesAreCut
    <2>2. CASE ~IsLineFormat
      BY <2>2, ListSentencesAreCut DEF SentencesAreCut
    <2> QED BY <2>1, <2>2
  <1> QED BY <1>1, <1>2, LineCutBegins, BlocksInvariance, PTL DEF BlocksSpec
==============================================================================
