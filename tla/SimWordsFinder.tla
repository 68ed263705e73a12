--------------------------- MODULE SimWordsFinder ---------------------------
(***************************************************************************)
(* SimWordsFinder::Find: the possible corrections of a token, as pairs of  *)
(* a word of the lexicon and the spelling it is offered with.  The search  *)
(* configurations are tried in their order, until one offers something.    *)
(* They differ in how they treat the case of letters; at the beginning of  *)
(* a sentence a case-sensitive search is made twice, and its results are   *)
(* merged.                                                                 *)
(***************************************************************************)
EXTENDS SimilarWords, EditScripts

CONSTANTS
  Lexicons,      \* sequences of words
  Tokens,        \* str and sentence_start
  Configurations \* an errModel, from BuildErrorModel, and search_configs

(* What the parsers, Utf and the tables guarantee: characters are numbers, *)
(* case is settled by one conversion, a lexicon has words, which are all   *)
(* different and not empty, tokens are not empty, limits and prices are    *)
(* not negative, and no price is less than the smallest one.               *)
Letters == DOMAIN LowerOf

ArePrices(model) ==
  LET IsPrice(p) ==
        /\ p.edit_dist \in Nat /\ p.cost \in Nat
        /\ p.edit_dist >= model.minimum
  IN  /\ model.minimum \in Nat
      /\ \A kind \in {"case", "s", "i", "d", "swap"} : IsPrice(model.defaults[kind])
      /\ \A kind \in {"s", "i", "d", "swap"} :
           \A letters \in DOMAIN model.listed[kind] : IsPrice(model.listed[kind][letters])

ASSUME LettersAssumption ==
  /\ Letters \subseteq Nat
  /\ LowerOf \in [Letters -> Letters] /\ UpperOf \in [Letters -> Letters]
  /\ \A letter \in Letters :
       /\ LowerOf[LowerOf[letter]] = LowerOf[letter]
       /\ UpperOf[UpperOf[letter]] = UpperOf[letter]

ASSUME LexiconsAssumption ==
  \A words \in Lexicons :
    /\ words \in Seq(Seq(Letters)) /\ words # <<>>
    /\ IsInjective(words) /\ <<>> \notin Range(words)

ASSUME TokensAssumption ==
  \A t \in Tokens : t.str \in Seq(Letters) /\ t.str # <<>>

ASSUME ConfigurationsAssumption ==
  \A configuration \in Configurations :
    /\ ArePrices(configuration.errModel)
    /\ configuration.search_configs # <<>>
    /\ configuration.search_configs \in
         Seq([casing : {"case_sensitive", "ignore_case", "ignore_case_keep_orig"},
              max_ed_dist : Nat, max_cost : Nat, min_length : Nat, max_length : Nat])

VARIABLES
  token, search_configs,
  c,             \* the search configuration that is tried
  phase,
  swm,           \* the offers
  results        \* found of the first of two searches

findVars == <<searchVars, token, search_configs, c, phase, swm, results>>

-----------------------------------------------------------------------------

(* Token::InitLexiconInformation; no model lists noncorrectable words.     *)
CorrectionIsAllowed(t) ==
  \E k \in DOMAIN t.str : IsUpper(t.str[k]) \/ IsLower(t.str[k])

AllUpper(str) == \A k \in DOMAIN str : IsUpper(str[k])
UpperAfter(str, n) == \E k \in n + 1 .. Len(str) : IsUpper(str[k])

GetCapitalizationType(str) ==
  CASE AllUpper(str) -> "ALL_UPPER_CASE"
    [] ~UpperAfter(str, 0) -> "ALL_LOWER_CASE"
    [] IsUpper(str[1]) /\ ~UpperAfter(str, 1) /\ ~AllUpper(str) -> "FIRST_UPPER_CASE"
    [] OTHER -> "WEIRD"

Capitalized(str) == [str EXCEPT ![1] = UpperOf[@]]
Uncapitalized(str) == [str EXCEPT ![1] = LowerOf[@]]

(* The spelling of an offer in the case of the token.                      *)
Recased(ct, str) ==
  [k \in DOMAIN str |->
     CASE ct = "ALL_UPPER_CASE" \/ (ct = "FIRST_UPPER_CASE" /\ k = 1) -> UpperOf[str[k]]
       [] ct = "ALL_LOWER_CASE" \/ (ct = "FIRST_UPPER_CASE" /\ k > 1) -> LowerOf[str[k]]
       [] OTHER -> str[k]]

(* how is "capitalized", or "as found", or a capitalization type.          *)
SpelledAs(how, str) ==
  CASE how = "capitalized" -> Capitalized(str)
    [] how = "as found"    -> str
    [] OTHER               -> Recased(how, str)

EachOffer(map, how) ==
  [id \in DOMAIN map |-> [map[id] EXCEPT !.spelling = SpelledAs(how, @)]]

StartsUpper(t) == t.sentence_start /\ IsUpper(t.str[1])

(* A mutant of Merged: what only the second search found is lost.          *)
MergedKnown(first, second) ==
  [id \in DOMAIN first |->
     IF id \in DOMAIN second /\ second[id].cost < first[id].cost
     THEN second[id] ELSE first[id]]

(* Of two offers of a word the first is kept unless the second is cheaper. *)
Merged(first, second) ==
  [id \in DOMAIN first \union DOMAIN second |->
     IF id \in DOMAIN first /\ (id \in DOMAIN second => second[id].cost >= first[id].cost)
     THEN first[id] ELSE second[id]]

-----------------------------------------------------------------------------
Config == search_configs[c]
LimitsOf(config) ==
  [max_edit_distance |-> config.max_ed_dist, cost_limit |-> config.max_cost,
   ignore_case |-> config.casing # "case_sensitive"]

FitsLength(config, t) ==
  /\ config.min_length # 0 => Len(t.str) >= config.min_length
  /\ config.max_length # 0 => Len(t.str) <= config.max_length

FindInit ==
  /\ lexicon \in {BuildLexicon(words) : words \in Lexicons}
  /\ token \in Tokens
  /\ \E configuration \in Configurations :
       /\ errModel = configuration.errModel
       /\ search_configs = configuration.search_configs
  /\ c = 1 /\ phase = "configs" /\ swm = <<>> /\ results = <<>>
  /\ limits = LimitsOf(search_configs[1])
  /\ word = <<>> /\ prefix = <<>> /\ stack = <<>> /\ found = <<>>

Find == phase = "configs" /\ c <= Len(search_configs)
KeepSearch == UNCHANGED searchVars
KeepToken == UNCHANGED <<token, search_configs>>

SkipConfig ==
  /\ Find /\ ~FitsLength(Config, token)
  /\ c' = c + 1
  /\ UNCHANGED <<phase, swm, results>> /\ KeepSearch /\ KeepToken

OfferToken ==
  /\ Find /\ FitsLength(Config, token)
  /\ Config.casing = "case_sensitive" /\ ~CorrectionIsAllowed(token)
  /\ swm' = [id \in {GetWordID(lexicon, token.str)} |->
                [spelling |-> token.str, cost |-> 0]]
  /\ phase' = "found"
  /\ UNCHANGED <<c, results>> /\ KeepSearch /\ KeepToken

BeginSearch ==
  /\ Find /\ FitsLength(Config, token)
  /\ Config.casing = "case_sensitive" => CorrectionIsAllowed(token)
  /\ GetSimilarWords(token.str, LimitsOf(Config))
  /\ phase' = "search"
  /\ UNCHANGED <<c, swm, results>> /\ KeepToken

Search ==
  /\ phase \in {"search", "search_lc"}
  /\ SearchStep
  /\ UNCHANGED <<c, phase, swm, results>> /\ KeepToken

Returned(place) == phase = place /\ stack = <<>>

SearchLowerCase ==
  /\ Returned("search")
  /\ Config.casing = "case_sensitive" /\ StartsUpper(token)
  /\ results' = EachOffer(found, "capitalized")
  /\ GetSimilarWords(Uncapitalized(token.str), LimitsOf(Config))
  /\ phase' = "search_lc"
  /\ UNCHANGED <<c, swm>> /\ KeepToken

MergeLowerCase ==
  /\ Returned("search_lc")
  /\ swm' = Merged(results, EachOffer(found, "capitalized"))
  /\ phase' = "found" /\ results' = <<>>
  /\ UNCHANGED c /\ KeepSearch /\ KeepToken

TakeFound ==
  /\ Returned("search")
  /\ ~(Config.casing = "case_sensitive" /\ StartsUpper(token))
  /\ swm' = EachOffer(found,
              CASE Config.casing = "ignore_case_keep_orig" ->
                     GetCapitalizationType(token.str)
                [] Config.casing = "ignore_case" /\ StartsUpper(token) -> "capitalized"
                [] OTHER -> "as found")
  /\ phase' = "found"
  /\ UNCHANGED <<c, results>> /\ KeepSearch /\ KeepToken

NextConfig ==
  /\ phase = "found" /\ swm = <<>>
  /\ c' = c + 1 /\ phase' = "configs"
  /\ UNCHANGED <<swm, results>> /\ KeepSearch /\ KeepToken

IsFound ==
  \/ phase = "found" /\ swm # <<>>
  \/ phase = "configs" /\ c > Len(search_configs)

ReturnOffers ==
  /\ IsFound
  /\ phase' = "done"
  /\ UNCHANGED <<c, swm, results>> /\ KeepSearch /\ KeepToken

FindNext ==
  \/ SkipConfig \/ OfferToken \/ BeginSearch \/ Search
  \/ SearchLowerCase \/ MergeLowerCase \/ TakeFound
  \/ NextConfig \/ ReturnOffers

FindSpec == FindInit /\ [][FindNext]_findVars

-----------------------------------------------------------------------------
(* What the search needs of the models: a trie; that swapping letters is   *)
(* not for nothing; and, where case is ignored, that an edit may cost      *)
(* nothing by the smallest distance too (see lexicon.cpp:492).             *)
LexiconsAreTries ==
  \A words \in Lexicons : IsTrie(BuildLexicon(words), words, Nodes(words))

SwapsCostSomething ==
  \A configuration \in Configurations :
    LET model == configuration.errModel
    IN  /\ model.defaults["swap"].edit_dist > 0
        /\ \A letters \in DOMAIN model.listed["swap"] :
             model.listed["swap"][letters].edit_dist > 0

FreeEditsAreCounted ==
  \A configuration \in Configurations : \A k \in DOMAIN configuration.search_configs :
    configuration.search_configs[k].casing # "case_sensitive" =>
      configuration.errModel.minimum = 0

Words == CHOOSE words \in Lexicons : BuildLexicon(words) = lexicon
ScriptsFor(str, lims) == Scripts(str, Range(Words), errModel, lims)
Reached(str, lims) ==
  {k - 1 : k \in {k \in DOMAIN Words :
                    \E s \in ScriptsFor(str, lims) : s.spelled = Words[k]}}

(* A search finds the words that edits within the limits make of the token *)
(* and no others, spelled as in the lexicon and at a cost that one of the  *)
(* scripts has, although it breaks off, merges its maps and changes the    *)
(* word in place; and both buffers are as before.  The cost is the lowest  *)
(* one if no two edits fit; with more, a map that is merged in does not    *)
(* lower what is there (lexicon.cpp:495).                                  *)
SimilarWordsAreFound ==
  phase \in {"search", "search_lc"} /\ stack = <<>> =>
    LET str == IF phase = "search" THEN token.str ELSE Uncapitalized(token.str)
        scripts == ScriptsFor(str, limits)
    IN  /\ DOMAIN found = Reached(str, limits)
        /\ \A id \in DOMAIN found :
             /\ found[id].spelling = Words[id + 1]
             /\ \E s \in scripts :
                  s.spelled = found[id].spelling /\ s.cost = found[id].cost
             /\ limits.max_edit_distance < 2 * errModel.minimum =>
                  \A s \in scripts :
                    s.spelled = found[id].spelling => s.cost >= found[id].cost
        /\ word = str /\ prefix = <<>>

(* What a configuration can offer for the token.                           *)
Offered(config) ==
  CASE ~FitsLength(config, token) -> {}
    [] FitsLength(config, token) /\ config.casing = "case_sensitive"
         /\ ~CorrectionIsAllowed(token) -> {GetWordID(lexicon, token.str)}
    [] OTHER ->
         Reached(token.str, LimitsOf(config)) \union
           (IF config.casing = "case_sensitive" /\ StartsUpper(token)
            THEN Reached(Uncapitalized(token.str), LimitsOf(config)) ELSE {})

(* documentation/manual_model_creation.t2t:132-145: the first of the       *)
(* searches that finds anything makes the offers, and they have the case   *)
(* it promises, after the two searches at the beginning of a sentence too. *)
OffersComeFromFirstSearch ==
  IsFound =>
    LET ct == GetCapitalizationType(token.str)
        IsInCase(config, spelling) ==
          IF config.casing = "ignore_case_keep_orig" THEN spelling = Recased(ct, spelling)
          ELSE StartsUpper(token) => ~IsLower(spelling[1])
        OffersNothing(k) == Offered(search_configs[k]) = {}
    IN  \/ swm = <<>> /\ \A k \in DOMAIN search_configs : OffersNothing(k)
        \/ /\ swm # <<>>
           /\ \E k \in DOMAIN search_configs :
                /\ DOMAIN swm = Offered(search_configs[k])
                /\ \A j \in 1 .. k - 1 : OffersNothing(j)
                /\ \A id \in DOMAIN swm : IsInCase(search_configs[k], swm[id].spelling)
=============================================================================
