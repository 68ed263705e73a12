------------------------------ MODULE Printing ------------------------------
(***************************************************************************)
(* What the output formats original and xml                                *)
(* (src/src/token/output_format.cpp) and the generator of /suggestions     *)
(* (src/src/rest_server/korektor_service.cpp) make of a block: they print  *)
(* its tokens, with or without corrections, and what is between them, and  *)
(* remember in unprinted how far they have come.  Here the tokens come one *)
(* by one in their order; Blocks shows that the input formats hand them    *)
(* over like that.                                                         *)
(*                                                                         *)
(* The output is followed in shown: what would be left of it if every      *)
(* correction were undone.  For /suggestions these are the first elements. *)
(***************************************************************************)
EXTENDS Text

CONSTANTS
  Tokenizations(_), \* the sets of tokens input formats find in a text
  OutputFormats     \* among "original", "xml" and "suggestions"

ASSUME TokenizationsAssumption ==
  \A block \in Texts : \A found \in Tokenizations(block) : IsTokenization(block, found)

VARIABLES
  text,       \* block, or data
  tokens,     \* the tokens of all its sentences
  format,
  pos,        \* the end of the last token that was handed over
  unprinted,  \* units printed so far
  shown,
  pc          \* "tokens" or "done"

vars == <<text, tokens, format, pos, unprinted, shown, pc>>

Init ==
  /\ text \in Texts
  /\ tokens \in Tokenizations(text)
  /\ format \in OutputFormats
  /\ pos = 0
  /\ unprinted = 0
  /\ shown = <<>>
  /\ pc = "tokens"

(* The next block, or for /suggestions the next request.                   *)
SetBlock ==
  /\ pc = "done"
  /\ text' \in Texts
  /\ tokens' \in Tokenizations(text')
  /\ pos' = 0
  /\ unprinted' = 0
  /\ shown' = <<>>
  /\ pc' = "tokens"
  /\ UNCHANGED format

-----------------------------------------------------------------------------

(* The text from unprinted to before a position.                           *)
Gap(position) ==
  IF unprinted < position - 1
    THEN UTF16To8(text, unprinted + 1, position - 1 - unprinted) ELSE <<>>

Str(t) == SubSeq(text, t.first, t.last)
PrintedToken(t) == UTF16To8(Str(t), 1, Len(Str(t)))

PrintTo(t, element) ==
  /\ shown' = shown \o Gap(t.first) \o element
  /\ unprinted' = t.last
  /\ pos' = t.last
  /\ UNCHANGED <<text, tokens, format, pc>>

(* A mutant of KeepToken: unprinted is not moved.                          *)
KeepTokenOnly(t) ==
  /\ format # "suggestions"
  /\ shown' = shown \o Gap(t.first) \o PrintedToken(t)
  /\ pos' = t.last
  /\ UNCHANGED <<text, tokens, format, unprinted, pc>>

(* A token without a correction.                                           *)
KeepToken(t) ==
  /\ format # "suggestions"
  /\ PrintTo(t, PrintedToken(t))

PassToken(t) ==
  /\ format = "suggestions"
  /\ pos' = t.last
  /\ UNCHANGED <<text, tokens, format, unprinted, shown, pc>>

(* A mutant of CorrectToken: what is before the token is left out.         *)
CorrectTokenOnly(t) ==
  /\ shown' = shown \o PrintedToken(t)
  /\ unprinted' = t.last
  /\ pos' = t.last
  /\ UNCHANGED <<text, tokens, format, pc>>

(* A token with a correction: original puts the correction in its place,   *)
(* the others print the token besides.                                     *)
CorrectToken(t) == PrintTo(t, IF format = "original" THEN Str(t) ELSE PrintedToken(t))

TakeToken(t) == KeepToken(t) \/ PassToken(t) \/ CorrectToken(t)

(* A mutant of Finish: nothing is printed after the last token.            *)
FinishAtToken ==
  /\ pc' = "done"
  /\ UNCHANGED <<text, tokens, format, pos, unprinted, shown>>

(* FinishBlock, or the end of the sentences in generate().                 *)
Finish ==
  /\ shown' = shown \o Gap(Len(text) + 1)
  /\ unprinted' = IF format = "suggestions" THEN unprinted ELSE Len(text)
  /\ pc' = "done"
  /\ UNCHANGED <<text, tokens, format, pos>>

(* The callers hand over every token once.                                 *)
Coming == {t \in tokens : t.first > pos}

IsNextToken(t) ==
  /\ pc = "tokens"
  /\ t \in Coming
  /\ \A u \in Coming : t.first <= u.first

Next ==
  \/ SetBlock
  \/ \E t \in tokens : IsNextToken(t) /\ TakeToken(t)
  \/ pc = "tokens" /\ Coming = {} /\ Finish

Spec == Init /\ [][Next]_vars

-----------------------------------------------------------------------------

(* No surrogate pair is cut: original and xml print whole tokens, and with *)
(* /suggestions a gap may be any part of the text.                         *)
PairsAreKept ==
  IF format = "suggestions"
    THEN \A k \in 1 .. Len(text) : text[k] \notin High \union Low
    ELSE \A t \in tokens : ~IsPairAt(text, t.first - 1) /\ ~IsPairAt(text, t.last)

(* While the tokens are handed over, what has been sent already is the     *)
(* text up to unprinted: no part of it twice and none left out.            *)
ShownIsPrefix == pc = "tokens" /\ PairsAreKept => shown = SubSeq(text, 1, unprinted)

(* api-reference.php:141 of /suggestions: "The concatenation of first      *)
(* elements of suggestions is equal to the original text"; and MANUAL:314  *)
(* of original: "the original words are replaced by the corrected ones,    *)
(* all other characters including spaces are preserved".                   *)
TextIsPreserved == pc = "done" => shown = text

(* The same if no surrogate pair is cut.                                   *)
KeptTextIsPreserved == pc = "done" /\ PairsAreKept => shown = text

(* What the formats original and xml print without looking at it is white  *)
(* space; xml does not encode it.                                          *)
GapsAreWhiteSpace ==
  format # "suggestions" /\ pc = "tokens" =>
    \A k \in unprinted + 1 .. Len(text) :
      (\A t \in Coming : k < t.first) => text[k] \in Space
=============================================================================
