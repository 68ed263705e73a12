-------------------------------- MODULE Text --------------------------------
(***************************************************************************)
(* Texts as the tokenizers and the output formats of src/src/token see     *)
(* them: sequences of UTF-16 units, which are told apart by the classes of *)
(* src/src/utils/utf.cpp only.  A character outside the basic plane is two *)
(* units, a high and a low surrogate.  Positions count from 1.             *)
(***************************************************************************)
EXTENDS Integers, Sequences, FiniteSets

CONSTANTS
  AlphaNum,    \* units the Is... functions of utf.cpp accept
  Upper,
  Space,
  Newline,
  Ending,      \* . : ? ! and the triple dot
  Opening,
  Closing,
  High, Low,   \* surrogates
  Replacement, \* what a lone surrogate is printed as
  Texts        \* the texts of a run

Unit ==
  AlphaNum \union Upper \union Space \union Ending \union Opening \union Closing
    \union High \union Low \union {Replacement}

(* Texts come from UTF-8 (UTF8To16), so that surrogates come in pairs.     *)
IsPairAt(text, k) == /\ k \in 1 .. Len(text) - 1
                     /\ text[k] \in High
                     /\ text[k + 1] \in Low

WellFormed(text) ==
  /\ text \in Seq(Unit)
  /\ \A k \in 1 .. Len(text) :
       /\ text[k] \in High => IsPairAt(text, k)
       /\ text[k] \in Low => IsPairAt(text, k - 1)

ASSUME TextsAssumption == \A text \in Texts : WellFormed(text)

ASSUME ClassesAssumption ==
  /\ Newline \in Space
  /\ AlphaNum \intersect Space = {}
  /\ Ending \intersect (AlphaNum \union Space) = {}
  /\ Closing \intersect (Ending \union Space) = {}
  /\ High \intersect Low = {}
  /\ (High \union Low) \intersect (AlphaNum \union Space) = {}

-----------------------------------------------------------------------------
(* Printing.                                                               *)

Greatest(S) == CHOOSE n \in S : \A k \in S : k <= n

(* The positions of from .. to at which utf16::decode starts a new code    *)
(* point when it decodes from the position from on.                        *)
CodePoints(text, from, to) == {k \in from .. to : k = from \/ ~IsPairAt(text, k - 1)}

(* Where UTF16To8Append(text, from, length, ...) stops: length counts the  *)
(* code points it appends, not the units it passes.                        *)
LastPrinted(text, from, length) ==
  Greatest({to \in from - 1 .. Len(text) : Cardinality(CodePoints(text, from, to)) <= length})

IsLone(text, from, k) ==
  /\ text[k] \in High \union Low
  /\ ~IsPairAt(text, k)
  /\ ~(k > from /\ IsPairAt(text, k - 1))

(* The units it stands for: UTF-8 is the same text, except that a lone     *)
(* surrogate becomes the replacement character.                            *)
UTF16To8(text, from, length) ==
  [j \in 1 .. LastPrinted(text, from, length) - from + 1 |->
     IF IsLone(text, from, from + j - 1) THEN Replacement ELSE text[from + j - 1]]

-----------------------------------------------------------------------------
(* Tokens: where they begin and where they end.                            *)

Token(first, last) == [first |-> first, last |-> last]

(* The maximal stretches of units of a set.                                *)
Runs(text, S) ==
  {t \in [first : 1 .. Len(text), last : 1 .. Len(text)] :
     /\ t.first <= t.last
     /\ \A k \in t.first .. t.last : text[k] \in S
     /\ t.first > 1 => text[t.first - 1] \notin S
     /\ t.last < Len(text) => text[t.last + 1] \notin S}

(* The reference for the input formats.                                    *)
UntokenizedTokens(text) ==
  Runs(text, AlphaNum)
    \union {Token(k, k) : k \in {j \in 1 .. Len(text) : text[j] \notin AlphaNum \union Space}}
VerticalTokens(text) == Runs(text, Unit \ {Newline})
HorizontalTokens(text) == Runs(text, Unit \ Space)

(* What a set of tokens has to be for the output formats.                  *)
IsTokenization(text, tokens) ==
  /\ tokens \subseteq [first : 1 .. Len(text), last : 1 .. Len(text)]
  /\ \A t \in tokens : t.first <= t.last
  /\ \A t, u \in tokens : t # u => t.last < u.first \/ u.last < t.first
  /\ \A k \in 1 .. Len(text) :
       text[k] \in Space \/ \E t \in tokens : k \in t.first .. t.last

-----------------------------------------------------------------------------
(* Sentences.                                                              *)

(* Positions of newlines, and of newlines that end an empty line.          *)
Newlines(text) == {k \in 1 .. Len(text) : text[k] = Newline}
EmptyLines(text) == {k \in Newlines(text) : k > 1 /\ text[k - 1] = Newline}

(* The sentences are the tokens in their order, cut before every token     *)
(* that has an end of a sentence between its predecessor and itself.       *)
IsCutAt(sentences, tokens, ends) ==
  LET cut(k) == \E e \in ends : tokens[k - 1].first <= e /\ e < tokens[k].first
      starts == {k \in 1 .. Len(tokens) : k = 1 \/ cut(k)}
      next(k) == {s \in starts : s > k}
      end(k) == IF next(k) = {} THEN Len(tokens)
                ELSE (CHOOSE s \in next(k) : \A r \in next(k) : s <= r) - 1
  IN  /\ Len(sentences) = Cardinality(starts)
      /\ \A k \in starts :
           sentences[Cardinality({s \in starts : s <= k})] = SubSeq(tokens, k, end(k))
=============================================================================
