----------------------------- MODULE Tokenizer -----------------------------
(***************************************************************************)
(* Tokenizer::Tokenize (src/src/token/tokenizer.cpp), the core of the      *)
(* input formats untokenized, untokenized_lines and segmented: it collects *)
(* the ends of sentences, then the tokens, and then walks through both.    *)
(* Nothing survives a call, so that one call is modelled.                  *)
(***************************************************************************)
EXTENDS Text

VARIABLES
  text,
  options,   \* [newline |-> segment_on_newline, punctuation |-> ...]
  i,         \* the position of the loop, or the token of the last one
  ends,      \* sentence_ends
  tokens,
  nextEnd,   \* next_sentence_end_index
  start,     \* sentence_start
  ret,
  pc         \* the three loops: "ends", "tokens", "sentences"; "done"

input == <<text, options>>
vars == <<input, i, ends, tokens, nextEnd, start, ret, pc>>

(* untokenized, untokenized_lines and segmented.                           *)
Options ==
  {[newline |-> FALSE, punctuation |-> TRUE],
   [newline |-> TRUE, punctuation |-> TRUE],
   [newline |-> TRUE, punctuation |-> FALSE]}

Init ==
  /\ text \in Texts
  /\ options \in Options
  /\ i = 1
  /\ ends = <<>>
  /\ tokens = <<>>
  /\ nextEnd = 1
  /\ start = TRUE
  /\ ret = <<>>
  /\ pc = "ends"

-----------------------------------------------------------------------------

(* A mutant of RunAfter: the last unit of the text is not looked at.       *)
RunAfterShort(k, S) ==
  Greatest({e \in k .. Len(text) :
              /\ e > k => e < Len(text)
              /\ \A j \in k + 1 .. e : text[j] \in S})

(* The last position of the stretch of units of S that follows k.          *)
RunAfter(k, S) ==
  Greatest({e \in k .. Len(text) : \A j \in k + 1 .. e : text[j] \in S})

NewlineEnds ==
  /\ text[i] = Newline
  /\ options.newline \/ (i > 1 /\ text[i - 1] = Newline)

ClosingPunct == RunAfter(i, Closing)
FirstLetter == RunAfter(ClosingPunct, Space \union Opening)

PunctuationEnds ==
  /\ options.punctuation
  /\ text[i] \in Ending
  /\ FirstLetter = Len(text) \/ text[FirstLetter + 1] \in Upper

LookForEnd ==
  /\ pc = "ends"
  /\ i <= Len(text)
  /\ ends' = CASE NewlineEnds -> Append(ends, i)
               [] ~NewlineEnds /\ PunctuationEnds -> Append(ends, ClosingPunct)
               [] OTHER -> ends
  /\ i' = i + 1
  /\ UNCHANGED <<input, tokens, nextEnd, start, ret, pc>>

StartTokens ==
  /\ pc = "ends"
  /\ i > Len(text)
  /\ i' = 1
  /\ pc' = "tokens"
  /\ UNCHANGED <<input, ends, tokens, nextEnd, start, ret>>

AddToken(last) ==
  /\ tokens' = Append(tokens, Token(i, last))
  /\ i' = last + 1
  /\ UNCHANGED <<input, ends, nextEnd, start, ret, pc>>

TokenizeWord ==
  /\ pc = "tokens"
  /\ i <= Len(text)
  /\ text[i] \in AlphaNum
  /\ AddToken(RunAfter(i, AlphaNum))

(* Any other unit is a token by itself, each half of a surrogate pair too. *)
TokenizeUnit ==
  /\ pc = "tokens"
  /\ i <= Len(text)
  /\ text[i] \notin AlphaNum \union Space
  /\ AddToken(i)

SkipSpace ==
  /\ pc = "tokens"
  /\ i <= Len(text)
  /\ text[i] \in Space
  /\ i' = i + 1
  /\ UNCHANGED <<input, ends, tokens, nextEnd, start, ret, pc>>

StartSentences ==
  /\ pc = "tokens"
  /\ i > Len(text)
  /\ i' = 1
  /\ pc' = "sentences"
  /\ UNCHANGED <<input, ends, tokens, nextEnd, start, ret>>

(* The while loop that passes the ends before the token.                   *)
PassEnds(first) ==
  Greatest({n \in nextEnd .. Len(ends) + 1 : \A m \in nextEnd .. n - 1 : first > ends[m]})

Placed(token, isStart) ==
  IF isStart THEN Append(ret, <<token>>)
             ELSE [ret EXCEPT ![Len(ret)] = Append(@, token)]

(* A mutant of PlaceToken: one end per token.                              *)
PlaceTokenAfterOne ==
  /\ pc = "sentences"
  /\ i <= Len(tokens)
  /\ LET passed == IF nextEnd <= Len(ends) /\ tokens[i].first > ends[nextEnd]
                     THEN nextEnd + 1 ELSE nextEnd
     IN  /\ nextEnd' = passed
         /\ ret' = Placed(tokens[i], start \/ passed > nextEnd)
  /\ start' = FALSE
  /\ i' = i + 1
  /\ UNCHANGED <<input, ends, tokens, pc>>

PlaceToken ==
  /\ pc = "sentences"
  /\ i <= Len(tokens)
  /\ nextEnd' = PassEnds(tokens[i].first)
  /\ ret' = Placed(tokens[i], start \/ nextEnd' > nextEnd)
  /\ start' = FALSE
  /\ i' = i + 1
  /\ UNCHANGED <<input, ends, tokens, pc>>

Return ==
  /\ pc = "sentences"
  /\ i > Len(tokens)
  /\ pc' = "done"
  /\ UNCHANGED <<input, i, ends, tokens, nextEnd, start, ret>>

Next ==
  \/ LookForEnd
  \/ StartTokens
  \/ TokenizeWord
  \/ TokenizeUnit
  \/ SkipSpace
  \/ StartSentences
  \/ PlaceToken
  \/ Return

(* A sequential function with bounded loops.                               *)
Spec == Init /\ [][Next]_vars /\ WF_vars(Next)

-----------------------------------------------------------------------------

(* The tokens are the words and the single units that are neither part of  *)
(* a word nor white space, in their order: whatever the loops skip, no     *)
(* character but white space is left out, and none is in two tokens.       *)
TokensArePromised ==
  pc \in {"sentences", "done"} =>
    /\ {tokens[k] : k \in 1 .. Len(tokens)} = UntokenizedTokens(text)
    /\ \A k \in 1 .. Len(tokens) - 1 : tokens[k].last < tokens[k + 1].first

(* Ends of sentences stated without the loops: the closing punctuation     *)
(* after a terminating mark, if an upper case letter or the end of the     *)
(* text follows after white space and opening punctuation.                 *)
IsStretch(k, e, S) ==
  /\ k <= e
  /\ \A j \in k + 1 .. e : text[j] \in S
  /\ e < Len(text) => text[e + 1] \notin S

PunctuationEndings ==
  {c \in 1 .. Len(text) : \E k, f \in 1 .. Len(text) :
     /\ text[k] \in Ending
     /\ IsStretch(k, c, Closing)
     /\ IsStretch(c, f, Space \union Opening)
     /\ f < Len(text) => text[f + 1] \in Upper}

SentenceEndings ==
  (IF options.newline THEN Newlines(text) ELSE EmptyLines(text))
    \union (IF options.punctuation THEN PunctuationEndings ELSE {})

(* The sentences contain all the tokens in their order, and are cut where  *)
(* the two rules say and nowhere else, although the walk over the ends     *)
(* keeps only an index and may pass several of them at a token.            *)
SentencesAreCut == pc = "done" => IsCutAt(ret, tokens, SentenceEndings)

=============================================================================
