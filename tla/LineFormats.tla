---------------------------- MODULE LineFormats ----------------------------
(***************************************************************************)
(* The input formats vertical and horizontal                               *)
(* (src/src/token/input_format.cpp): NextSentence walks through the block  *)
(* and returns a sentence as soon as it comes to its end; the index stays  *)
(* where it is until the next call.                                        *)
(***************************************************************************)
EXTENDS Text

CONSTANT Formats  \* the formats of a run, among "vertical" and "horizontal"

VARIABLES
  text,
  format,
  index,
  tokens,     \* of the sentence under construction
  sentences,  \* of the block, as far as they have been returned
  pc          \* "called", "returned", or "end" after NextSentence was false

vars == <<text, format, index, tokens, sentences, pc>>

Init ==
  /\ text \in Texts
  /\ format \in Formats
  /\ index = 1
  /\ tokens = <<>>
  /\ sentences = <<>>
  /\ pc = "returned"

SetBlock ==
  /\ pc = "end"
  /\ text' \in Texts
  /\ index' = 1
  /\ sentences' = <<>>
  /\ pc' = "returned"
  /\ UNCHANGED <<format, tokens>>

NextSentence ==
  /\ pc = "returned"
  /\ tokens' = <<>>
  /\ pc' = "called"
  /\ UNCHANGED <<text, format, index, sentences>>

InText == pc = "called" /\ index <= Len(text)

(* The first position from index on that is not in S, or past the text.    *)
EndOfRun(S) ==
  CHOOSE e \in index .. Len(text) + 1 :
    /\ \A k \in index .. e - 1 : text[k] \in S
    /\ e <= Len(text) => text[e] \notin S

(* A mutant of EndOfLine: the newline is skipped after the test for an     *)
(* empty sentence.                                                         *)
EndOfLineLate ==
  /\ InText
  /\ text[index] = Newline
  /\ IF tokens = <<>>
       THEN UNCHANGED <<index, sentences, pc>>
       ELSE index' = index + 1 /\ sentences' = Append(sentences, tokens) /\ pc' = "returned"
  /\ UNCHANGED <<text, format, tokens>>

(* A newline where a token could begin: an empty line in the vertical      *)
(* format, the end of the line in the horizontal one.                      *)
EndOfLine ==
  /\ InText
  /\ text[index] = Newline
  /\ index' = index + 1
  /\ IF tokens = <<>>
       THEN UNCHANGED <<sentences, pc>>
       ELSE sentences' = Append(sentences, tokens) /\ pc' = "returned"
  /\ UNCHANGED <<text, format, tokens>>

SkipSpace ==
  /\ InText
  /\ format = "horizontal"
  /\ text[index] \in Space \ {Newline}
  /\ index' = index + 1
  /\ UNCHANGED <<text, format, tokens, sentences, pc>>

(* A line of the vertical format: its newline is skipped.                  *)
TakeLine ==
  /\ InText
  /\ format = "vertical"
  /\ text[index] # Newline
  /\ LET end == EndOfRun(Unit \ {Newline}) IN
       /\ tokens' = Append(tokens, Token(index, end - 1))
       /\ index' = end + 1
  /\ UNCHANGED <<text, format, sentences, pc>>

TakeWord ==
  /\ InText
  /\ format = "horizontal"
  /\ text[index] \notin Space
  /\ LET end == EndOfRun(Unit \ Space) IN
       /\ tokens' = Append(tokens, Token(index, end - 1))
       /\ index' = end
  /\ UNCHANGED <<text, format, sentences, pc>>

EndOfText ==
  /\ pc = "called"
  /\ index > Len(text)
  /\ IF tokens = <<>>
       THEN UNCHANGED sentences /\ pc' = "end"
       ELSE sentences' = Append(sentences, tokens) /\ pc' = "returned"
  /\ UNCHANGED <<text, format, index, tokens>>

Step == EndOfLine \/ SkipSpace \/ TakeLine \/ TakeWord \/ EndOfText

Next == SetBlock \/ NextSentence \/ Step

-----------------------------------------------------------------------------

PromisedTokens ==
  IF format = "vertical" THEN VerticalTokens(text) ELSE HorizontalTokens(text)

(* The promised tokens in their order.                                     *)
InOrder ==
  LET before(t) == {u \in PromisedTokens : u.first <= t.first}
  IN  [k \in 1 .. Cardinality(PromisedTokens) |->
         CHOOSE t \in PromisedTokens : Cardinality(before(t)) = k]

SentenceEndings ==
  IF format = "vertical" THEN EmptyLines(text) ELSE Newlines(text)

(* MANUAL:293-296: every line is a word and an empty line ends a sentence, *)
(* or every line is a sentence of words separated by spaces.  Over all the *)
(* calls every token is returned once, in the sentence it belongs to, and  *)
(* no sentence is empty.                                                   *)
SentencesAreCut == pc = "end" => IsCutAt(sentences, InOrder, SentenceEndings)

=============================================================================
