------------------------------ MODULE MCBlocks ------------------------------
(***************************************************************************)
(* Small instances of the loop over blocks, with one unit of every class   *)
(* ("q" opens and closes, "h" and "l" are a surrogate pair): all texts of  *)
(* up to three units, longer ones in which a word and a full stop come     *)
(* first, and some with several words in a line and several lines.         *)
(***************************************************************************)
EXTENDS Blocks

Pairs(texts) ==
  {t \in texts :
     \A k \in 1 .. Len(t) :
       /\ t[k] = "h" => IsPairAt(t, k)
       /\ t[k] = "l" => IsPairAt(t, k - 1)}

TextsOver(units, lengths) == Pairs(UNION {[1 .. n -> units] : n \in lengths})

AfterFullStop(texts) == {<<"a", ".">> \o tail : tail \in texts}

LongTexts ==
  {<<"a", " ", "a", "nl", "a">>, <<"a", "nl", "nl", "nl", "a">>,
   <<"h", "l", "nl", "nl", "a">>, <<"a", "nl", "a", "nl", "nl", "a", "nl">>,
   <<"a", ".", "q", "nl", " ", "q", "A">>}

MCTexts ==
  TextsOver({"a", "A", " ", "nl", ".", "q", "h", "l"}, 0 .. 3)
    \union TextsOver({"a", " ", "nl", "h", "l"}, {4})
    \union AfterFullStop(TextsOver({"A", " ", "nl", "q", ")"}, {3}))
    \union LongTexts

MCLaterTexts == TextsOver({"a", "nl"}, 0 .. 2) \union LongTexts

MCTokenizations(block) ==
  {VerticalTokens(block), HorizontalTokens(block), UntokenizedTokens(block)}

MCFormatPairs ==
  {"vertical", "horizontal"} \X {"original", "xml", "suggestions"}
    \union {<<"untokenized", "original">>, <<"untokenized_lines", "xml">>,
            <<"segmented", "suggestions">>}
=============================================================================
