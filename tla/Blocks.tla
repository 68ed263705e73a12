------------------------------- MODULE Blocks -------------------------------
(***************************************************************************)
(* The loop over the blocks, sentences and tokens of a document, as in     *)
(* src/src/korektor.cpp and, for one block, in the generators of           *)
(* /correct and /suggestions: an input format hands its sentences to an    *)
(* output format (Printing).  The formats vertical and horizontal look for *)
(* the next sentence when they are asked (LineFormats); the others cut the *)
(* whole block at once (Tokenizer) and hand out a list.  Which tokens get  *)
(* a correction is a choice.                                               *)
(***************************************************************************)
EXTENDS Printing

CONSTANTS
  FormatPairs,  \* the input and output formats of a run
  LaterTexts    \* the blocks after the first one, to bound the pairs of blocks

ASSUME FormatPairsAssumption ==
  /\ \A pair \in FormatPairs : pair[2] \in OutputFormats
  /\ LaterTexts \subseteq Texts

VARIABLES
  inputFormat,
  index,      \* of a line format
  sentence,   \* tokens, the sentence that is handed over
  sentences,
  inputPc,
  given,      \* tokens of the sentence the output format has got
  unit, ends, found, nextEnd, start, ret, tokenizerPc  \* of Tokenize

IsLineFormat == inputFormat \in {"vertical", "horizontal"}

Input ==
  INSTANCE LineFormats WITH
    Formats <- {pair[1] : pair \in FormatPairs}, format <- inputFormat,
    tokens <- sentence, pc <- inputPc

OptionsOf(f) ==
  [newline |-> f # "untokenized", punctuation |-> f # "segmented"]

Cut ==
  INSTANCE Tokenizer WITH
    options <- OptionsOf(inputFormat), i <- unit, tokens <- found,
    pc <- tokenizerPc

inputVars == <<inputFormat, index, sentence, sentences, inputPc>>
tokenizerVars == <<unit, ends, found, nextEnd, start, ret, tokenizerPc>>
allVars == <<vars, inputVars, given, tokenizerVars>>

PromisedTokens ==
  IF IsLineFormat THEN Input!PromisedTokens ELSE UntokenizedTokens(text)

BlocksInit ==
  /\ Init
  /\ \E pair \in FormatPairs : inputFormat = pair[1] /\ format = pair[2]
  /\ Input!Init
  /\ Cut!Init
  /\ tokens = PromisedTokens
  /\ given = 0

NextBlock ==
  /\ text' \in LaterTexts
  /\ SetBlock
  /\ IF IsLineFormat
     THEN Input!SetBlock
     ELSE inputPc' = "returned" /\ sentences' = <<>>
          /\ UNCHANGED <<inputFormat, index, sentence>>
  /\ tokens' = PromisedTokens'
  /\ given' = 0
  /\ unit' = 1 /\ ends' = <<>> /\ found' = <<>> /\ nextEnd' = 1
  /\ start' = TRUE /\ ret' = <<>> /\ tokenizerPc' = "ends"

(* The tokenizer goes on: it is called by SetBlock of its formats.         *)
Tokenize ==
  /\ ~IsLineFormat
  /\ UNCHANGED <<vars, inputVars, given>>
  /\ Cut!Next

IsGiven == sentences = <<>> \/ given = Len(sentence)

NextSentence ==
  /\ IsLineFormat
  /\ pc = "tokens"
  /\ IsGiven
  /\ Input!NextSentence
  /\ given' = 0
  /\ UNCHANGED <<vars, tokenizerVars>>

ReadOn ==
  /\ IsLineFormat
  /\ Input!Step
  /\ UNCHANGED <<vars, given, tokenizerVars>>

(* NextSentence of the other formats.                                      *)
NextOfList ==
  /\ ~IsLineFormat /\ tokenizerPc = "done"
  /\ inputPc = "returned"
  /\ IsGiven
  /\ given' = 0
  /\ IF Len(sentences) = Len(ret)
     THEN inputPc' = "end" /\ UNCHANGED <<sentence, sentences>>
     ELSE /\ sentence' = ret[Len(sentences) + 1]
          /\ sentences' = Append(sentences, sentence')
          /\ UNCHANGED inputPc
  /\ UNCHANGED <<vars, inputFormat, index, tokenizerVars>>

(* A mutant of HandOver: the first token of a sentence is left out.        *)
HandOverRest ==
  /\ inputPc = "returned"
  /\ ~IsGiven
  /\ IF given = 0 THEN UNCHANGED vars ELSE TakeToken(sentence[given + 1])
  /\ given' = given + 1
  /\ UNCHANGED <<inputVars, tokenizerVars>>

HandOver ==
  /\ inputPc = "returned"
  /\ ~IsGiven
  /\ TakeToken(sentence[given + 1])
  /\ given' = given + 1
  /\ UNCHANGED <<inputVars, tokenizerVars>>

FinishBlock ==
  /\ pc = "tokens"
  /\ inputPc = "end"
  /\ Finish
  /\ UNCHANGED <<inputVars, given, tokenizerVars>>

BlocksNext ==
  \/ NextBlock
  \/ Tokenize
  \/ NextSentence
  \/ ReadOn
  \/ NextOfList
  \/ HandOver
  \/ FinishBlock

(* Once a block is begun, sequential code goes through it; the next block  *)
(* or request need not come.                                               *)
BlocksSpec ==
  /\ BlocksInit /\ [][BlocksNext]_allVars
  /\ WF_allVars(Tokenize \/ NextSentence \/ ReadOn \/ NextOfList \/ HandOver
                 \/ FinishBlock)

-----------------------------------------------------------------------------

(* The two components fit together: the output format gets every token of  *)
(* the block once and in the order of the text, whatever lines and         *)
(* sentences it is cut into, and is finished after the last one.           *)
TokensComeInOrder == Spec

(* The tokens of the tokenizer are the words and the single units that are *)
(* neither part of a word nor white space, whatever its loops skip.        *)
TokensArePromised == ~IsLineFormat => Cut!TokensArePromised

(* In every format the sentences that have been returned are the tokens of *)
(* the block, cut where its rules say and nowhere else: although index is  *)
(* all that a line format keeps between its calls, and although the walk   *)
(* over the ends in the tokenizer keeps only an index into them and may    *)
(* pass several at a token.                                                *)
SentencesAreCut ==
  IF IsLineFormat THEN Input!SentencesAreCut
  ELSE inputPc = "end" => sentences = ret /\ Cut!SentencesAreCut

(* Every block comes to an end: each turn of a loop over it moves on.      *)
EveryBlockEnds == []<>(pc = "done")
=============================================================================
