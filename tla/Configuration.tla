---------------------------- MODULE Configuration ----------------------------
(***************************************************************************)
(* Configuration::Configuration (src/src/spellchecker/configuration.cpp),  *)
(* which reads the configuration file line by line, and the options of the *)
(* command line tool, which are applied after it.  One action per kind of  *)
(* line; which line comes next is a choice, so that every file with lines  *)
(* of Lines is read.  A line stands for its keyword and what the           *)
(* constructor sees of its value and of the file it names.                 *)
(***************************************************************************)
EXTENDS Integers, Sequences, FiniteSetsExt, SequencesExt

CONSTANTS
  Lines,         \* the lines of a file: records with a kind
  MaxLines,      \* bound on the length of a file
  Options,       \* what the command line overrides: records of numbers, 0 for none
  OrderLimit,    \* 50, see is_initialized
  DefaultPruning, \* Constants::prunning_constant
  None

LmLines == {line \in Lines : line.kind = "lm"}
MorpholexLines == {line \in Lines : line.kind = "morpholex"}

(* The order of a lm line is any number: the code does not look at it, and *)
(* a negative one becomes, unsigned, one that is far too high.  The        *)
(* factors of a lexicon have different names: they are the keys of a map   *)
(* from names to numbers.                                                  *)
ASSUME LinesAssumption ==
  /\ MaxLines \in Nat /\ OrderLimit \in Nat
  /\ \A line \in LmLines : line.order \in Nat /\ line # None
  /\ \A line \in MorpholexLines :
       /\ line # None
       /\ line.factors \in Seq(STRING) /\ line.factors # <<>>
       /\ IsInjective(line.factors)
  /\ \A line \in Lines : line.kind = "viterbi_order" => line.value \in Int
  /\ \A o \in Options : o.viterbi_order \in Nat

VARIABLES
  file,        \* history: the lines that have been read
  factorMap,   \* factor_map: the numbers of the factors, from 1
  named,       \* factor_names.size()
  factors,     \* enabled_factors, factor_LMS, factor_orders, factor_weights
  lastEnabled, \* last_enabled_factor_index
  modelOrder,  \* model_order
  viterbiOrder, beam, pruning,
  lexiconLine, \* lexicon and morphology: their morpholex line, or None
  errorModel,
  searches,    \* search_configs
  wordLists,   \* diagnostics: None, or the morphology that has its word lists
  progress           \* "reading", "loaded", "running", "failed" or "undefined"

factorVars == <<factorMap, named, factors, lastEnabled, modelOrder>>
viterbiVars == <<viterbiOrder, beam, pruning>>
partVars == <<lexiconLine, errorModel, searches, wordLists>>
loadVars == <<file, factorVars, viterbiVars, partVars, progress>>

LoadInit ==
  /\ file = <<>>
  /\ factorMap = <<>> /\ named = 0 /\ factors = <<>>
  /\ lastEnabled = 1 /\ modelOrder = 1
  /\ viterbiOrder = 0 /\ beam = 0 /\ pruning = DefaultPruning
  /\ lexiconLine = None /\ errorModel = None /\ searches = <<>> /\ wordLists = None
  /\ progress = "reading"

-----------------------------------------------------------------------------

Read(line) ==
  /\ progress = "reading" /\ Len(file) < MaxLines
  /\ line \in Lines
  /\ file' = Append(file, line)

(* The program ends, or does what the language does not define.            *)
StopAs(outcome) ==
  /\ progress' = outcome
  /\ UNCHANGED <<factorVars, viterbiVars, partVars>>

(* The file a line names cannot be opened, a number cannot be parsed, the  *)
(* columns or the casing treatment are wrong.                              *)
Reject(line) ==
  /\ Read(line) /\ line.kind = "rejected"
  /\ StopAs("failed")

(* Comments, empty lines, "mode", and lines with no keyword.               *)
Ignore(line) ==
  /\ Read(line) /\ line.kind = "ignored"
  /\ UNCHANGED <<factorVars, viterbiVars, partVars, progress>>

(* LoadMorphologyAndLexicon: the numbers of the factors are replaced, their *)
(* names are appended to, and for every name there is by now, the ones of  *)
(* an earlier lexicon included, an entry is appended to what is kept of    *)
(* the factors.                                                            *)
Disabled == [enabled |-> FALSE, lm |-> None, order |-> 0, weight |-> 0]

FactorMapOf(names) ==
  [name \in ToSet(names) |-> CHOOSE i \in 1 .. Len(names) : names[i] = name]

ReadMorpholex(line) ==
  /\ Read(line) /\ line.kind = "morpholex"
  /\ lexiconLine' = line
  /\ factorMap' = FactorMapOf(line.factors)
  /\ named' = named + Len(line.factors)
  /\ factors' = factors \o [i \in 1 .. named' |-> Disabled]
  /\ UNCHANGED <<lastEnabled, modelOrder, viterbiVars, errorModel, searches,
                 wordLists, progress>>

ReadErrorModel(line) ==
  /\ Read(line) /\ line.kind = "errormodel"
  /\ errorModel' = line
  /\ UNCHANGED <<factorVars, viterbiVars, lexiconLine, searches, wordLists, progress>>

(* factor_map[name]: a name that is not there gets the number of the first *)
(* factor.                                                                 *)
NumberOf(name) == IF name \in DOMAIN factorMap THEN factorMap[name] ELSE 1

(* A mutant of Higher: the order of the last lm line counts.               *)
Later(m, n) == n
Higher(m, n) == IF m < n THEN n ELSE m

(* A mutant of EnabledFactor: the highest order of a factor is kept.       *)
FactorWithHighestOrder(old, line) ==
  [enabled |-> TRUE, lm |-> line, order |-> Higher(old.order, line.order),
   weight |-> line.weight]
EnabledFactor(old, line) ==
  [enabled |-> TRUE, lm |-> line, order |-> line.order, weight |-> line.weight]

(* LoadLM and EnableFactor                                                 *)
ReadLM(line) ==
  /\ Read(line) /\ line.kind = "lm"
  /\ factors # <<>>
  /\ LET number == NumberOf(line.factor) IN
     /\ factorMap' = [name \in DOMAIN factorMap \cup {line.factor} |->
                        NumberOf(name)]
     /\ factors' = [factors EXCEPT ![number] = EnabledFactor(@, line)]
     /\ lastEnabled' = Higher(lastEnabled, number)
  /\ modelOrder' = Higher(modelOrder, line.order)
  /\ UNCHANGED <<named, viterbiVars, partVars, progress>>

(* Without a morpholex line before it, it writes to an empty vector.       *)
ReadLMTooEarly(line) ==
  /\ Read(line) /\ line.kind = "lm"
  /\ factors = <<>>
  /\ StopAs("undefined")

ReadSearch(line) ==
  /\ Read(line) /\ line.kind = "search"
  /\ searches' = Append(searches, line)
  /\ UNCHANGED <<factorVars, viterbiVars, lexiconLine, errorModel, wordLists, progress>>

(* The morphology loaded so far gets its word lists.                       *)
ReadDiagnostics(line) ==
  /\ Read(line) /\ line.kind = "diagnostics"
  /\ lexiconLine # None
  /\ wordLists' = lexiconLine
  /\ UNCHANGED <<factorVars, viterbiVars, lexiconLine, errorModel, searches, progress>>

ReadDiagnosticsTooEarly(line) ==
  /\ Read(line) /\ line.kind = "diagnostics"
  /\ lexiconLine = None
  /\ StopAs("undefined")

IsViterbi(line) ==
  line.kind \in {"viterbi_order", "viterbi_beam_size", "viterbi_stage_pruning"}

ReadViterbi(line) ==
  /\ Read(line) /\ IsViterbi(line) /\ line.value > 0
  /\ viterbiOrder' = IF line.kind = "viterbi_order" THEN line.value ELSE viterbiOrder
  /\ beam' = IF line.kind = "viterbi_beam_size" THEN line.value ELSE beam
  /\ pruning' = IF line.kind = "viterbi_stage_pruning" THEN line.value ELSE pruning
  /\ UNCHANGED <<factorVars, partVars, progress>>

RejectViterbi(line) ==
  /\ Read(line) /\ IsViterbi(line) /\ line.value <= 0
  /\ StopAs("failed")

(* The end of the file.  The tokenizer and simWordsFinder are made in any  *)
(* case.                                                                   *)
DefaultOrder == IF viterbiOrder = 0 THEN modelOrder - 1 ELSE viterbiOrder

IsInitialized ==
  /\ modelOrder > 0 /\ modelOrder < OrderLimit
  /\ DefaultOrder > 0 /\ DefaultOrder <= modelOrder
  /\ lexiconLine # None /\ errorModel # None

EndOfFile ==
  /\ progress = "reading"
  /\ viterbiOrder' = DefaultOrder
  /\ progress' = IF IsInitialized THEN "loaded" ELSE "failed"
  /\ UNCHANGED <<file, factorVars, beam, pruning, partVars>>

(* The command line tool overrides what the file says.                     *)
Or(option, value) == IF option # 0 THEN option ELSE value

Override ==
  /\ progress = "loaded"
  /\ \E o \in Options :
       /\ viterbiOrder' = Or(o.viterbi_order, viterbiOrder)
       /\ beam' = Or(o.viterbi_beam_size, beam)
       /\ pruning' = Or(o.viterbi_stage_pruning, pruning)
  /\ progress' = "running"
  /\ UNCHANGED <<file, factorVars, partVars>>

ReadLine ==
  \E line \in Lines :
    \/ Reject(line) \/ Ignore(line)
    \/ ReadMorpholex(line) \/ ReadErrorModel(line)
    \/ ReadLM(line) \/ ReadLMTooEarly(line)
    \/ ReadSearch(line)
    \/ ReadDiagnostics(line) \/ ReadDiagnosticsTooEarly(line)
    \/ ReadViterbi(line) \/ RejectViterbi(line)

LoadNext == ReadLine \/ EndOfFile \/ Override

LoadSpec == LoadInit /\ [][LoadNext]_loadVars

-----------------------------------------------------------------------------
(* Whatever the file: every factor of the lexicon has its entry, no model  *)
(* has a higher order than model_order, the last enabled factor is enabled *)
(* and behind all others, and there is a viterbi order.                    *)
NumberedFactorsExist == Len(lexiconLine.factors) <= Len(factors)

ModelsFit ==
  \A i \in DOMAIN factors : factors[i].enabled =>
    factors[i].order \in 0 .. modelOrder /\ i <= lastEnabled

LastIsEnabled ==
  \/ lastEnabled \in DOMAIN factors /\ factors[lastEnabled].enabled
  \/ lastEnabled = 1 /\ \A i \in DOMAIN factors : ~factors[i].enabled

OrdersFit ==
  /\ progress = "loaded" => viterbiOrder \in 1 .. modelOrder
  /\ progress = "running" => viterbiOrder > 0

(* The files the decoder is made for: there are models, all of one order   *)
(* of at least 2, and if there is more than one lexicon, they have equally *)
(* many factors.                                                           *)
LinesIn(kind) == {line \in ToSet(file) : line.kind = kind}

IsProper ==
  /\ LinesIn("lm") # {}
  /\ \A line, other \in LinesIn("lm") : line.order > 1 /\ line.order = other.order
  /\ \A line, other \in LinesIn("morpholex") :
       Len(line.factors) = Len(other.factors)

(* What the decoder takes for granted: a factor has a model, model_order   *)
(* is above 1 (decoder_base.cpp:227), the order of every model is          *)
(* model_order (decoder_multi_factor.cpp:70 moves the pointer of the key   *)
(* back for it), and the last enabled factor is one of the lexicon, else   *)
(* get_morphology_rec returns no analysis (morphology.cpp:144).            *)
DecoderIsServed ==
  /\ \E i \in DOMAIN factors : factors[i].enabled
  /\ modelOrder > 1
  /\ \A i \in DOMAIN factors : factors[i].enabled => factors[i].order = modelOrder
  /\ lastEnabled <= Len(lexiconLine.factors)

ServesTheDecoder ==
  /\ OrdersFit
  /\ progress \in {"loaded", "running"} =>
       /\ NumberedFactorsExist /\ ModelsFit /\ LastIsEnabled
       /\ IsProper => DecoderIsServed

(* The lines that are wanted, in their order.                             *)
Filtered(lines, wanted) ==
  LET kept[n \in 0 .. Len(lines)] ==
        IF n = 0 THEN <<>>
        ELSE IF lines[n] \in wanted THEN Append(kept[n - 1], lines[n])
        ELSE kept[n - 1]
  IN  kept[Len(lines)]

(* The meaning of a file with one morpholex line whose factors are those   *)
(* of the lm lines: the last line of a kind counts, and for lm lines the   *)
(* last one of a factor.  If it is loaded at all, the order of its lines   *)
(* does not matter otherwise (configuration.cpp:57, MANUAL:599).           *)
LinesOf(kind) == Filtered(file, {line \in Lines : line.kind = kind})
FactorNames == LinesOf("morpholex")[1].factors

IsOrdinary ==
  /\ Len(LinesOf("morpholex")) = 1
  /\ \A line \in ToSet(LinesOf("lm")) : line.factor \in ToSet(FactorNames)

LastValue(kind, default) ==
  IF LinesOf(kind) = <<>> THEN default ELSE Last(LinesOf(kind)).value

WrittenFactor(lmLines, name) ==
  LET own == Filtered(lmLines, {line \in LmLines : line.factor = name}) IN
  IF own = <<>> THEN Disabled
  ELSE [enabled |-> TRUE, lm |-> Last(own), order |-> Last(own).order,
        weight |-> Last(own).weight]

WrittenFactors ==
  [i \in 1 .. Len(FactorNames) |-> WrittenFactor(LinesOf("lm"), FactorNames[i])]

WrittenOrders == {1} \cup {line.order : line \in ToSet(LinesOf("lm"))}
WrittenModelOrder == Max(WrittenOrders)

LoadedAsWritten ==
  progress = "loaded" /\ IsOrdinary =>
    /\ factors = WrittenFactors
    /\ modelOrder = WrittenModelOrder
    /\ viterbiOrder = LastValue("viterbi_order", WrittenModelOrder - 1)
    /\ beam = LastValue("viterbi_beam_size", 0)
    /\ pruning = LastValue("viterbi_stage_pruning", DefaultPruning)
    /\ errorModel = Last(LinesOf("errormodel"))
    /\ searches = LinesOf("search")
    /\ wordLists = IF LinesOf("diagnostics") = <<>> THEN None ELSE lexiconLine
=============================================================================
