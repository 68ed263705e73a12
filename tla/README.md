# Korektor in TLA+

Korektor is a statistical spellchecker. A text is cut into tokens and sentences;
every token gets a set of candidate analyses (its own spelling and similar words
of the lexicon, each with an error cost); a Viterbi beam search over the sentence
picks one analysis per token using several language models at once (forms, lemmas,
tags); for the tokens whose spelling changes, further alternatives are ranked; and
a command line tool, a library and a REST server return the result in several
formats. These modules model the parts of the C++ program (`src/src`) whose
correctness depends on a long sequence of steps, often of several actors, rather
than on one formula.

Paths below are relative to the repository; the C++ sources are in its `src/`
directory, so `decoder/decoder_base.cpp` is `src/decoder/decoder_base.cpp` there
and `src/src/decoder/decoder_base.cpp` in `PROJECT.json`. In the same way `MANUAL:599`
is a line of `MANUAL`.

## 1. Inventory

| Component | State it keeps | Operations | Works with |
|---|---|---|---|
| **decoder** (`decoder/`) | per sentence: `stage_posibilities`, `last_trellis_stage`, `new_trellis_stage`, `best`, the shared `ngram_search_key` | `DecodeTokenizedSentence`, `ComputeTransitionCost`, `ComputeTransitionCostSPSequence`, the comparison, hash and update of a `ViterbiState` | reads the configuration; calls `LMWrapper::GetProb`; called by the spellchecker |
| **spellchecker** (`spellchecker/spellchecker.*`) | per sentence: the corrections, `decoded_corrections`, the map `alternatives_cost` and the heap `alternatives_heap` | `Spellcheck`, `SpellcheckToken` | decoder (the chosen analyses and the cost of windows), similar words, lexicon |
| **language model** (`language_model/`) | read only after loading: the levels of the n-gram tree in packed arrays | `CreateFromTextFile`, `GetNGramForNGramKey`, `LMWrapper::GetProb` | called by the decoder for every transition |
| **configuration** (`spellchecker/configuration.*`) | models, factor map, orders, weights, search strategies, decoder settings | loading line by line, `is_initialized` | read by everything |
| **lexicon** (`lexicon/`) | read only trie; during a search the word, the prefix and the recursion | construction, `GetSimilarWords`, `Find`, casing strategies | error model, morphology |
| **error model** (`error_model/`) | read only table of edit costs | construction, substitution, insertion, deletion, swap costs | called by the lexicon search |
| **morphology** (`morphology/`) | read only bit array with a table of offsets, groups and dependencies of factors; while reading, a bit offset and a list of factors | analyses of a form, factor strings | made by `create_morphology`; called by the decoder and the spellchecker |
| **tokenizer and formats** (`token/`) | input: the block and `index` in it; output: the block and `unprinted` | `SetBlock`, `NextSentence`, `AppendSentence`, `FinishBlock` of five input and four output formats | command line, service |
| **persistent structures** (`persistent_structures/`) | read only packed arrays, hash tables | value lookup, creation, (de)serialisation | language model, lexicon, error model, morphology |
| **utils** (`utils/`) | none | UTF conversions, parsing, I/O helpers | everything |
| **command line tool** (`korektor.cpp`) | options | read a block, spellcheck its sentences, print | formats, spellchecker |
| **REST service** (`rest_server/korektor_service.*`) | loaded models; one generator per response | `models`, `correct`, `suggestions`, `generate` | formats, spellchecker, rest server |
| **microrestd** (`rest_server/microrestd/rest_server`) | one request object per connection: body, parameters, generator, response | receive a body or a form, answer, stream a generated answer, start, stop | libmicrohttpd; the service |
| **libmicrohttpd** (vendored, `rest_server/microrestd/libmicrohttpd`) | the daemon's lists, counter and flags, shared by threads; per connection a state machine, buffers, a post processor | accept, handle a connection, clean up, quiesce, stop | microrestd |
| **other vendored libraries** | | pugixml, unilib | |
| **creation tools** (`create/`), **training, scripts, web** | | offline programs around the spellchecker | |

How a sentence flows: the tokenizer yields tokens; `Spellcheck` asks the
similar-words search for the possibilities of each of them
(`init_inner_stage_posibilities`), hands them to `DecodeTokenizedSentence`, which
calls `ComputeTransitionCost` for each extension, which calls `GetProb` once per
factor on a key it shares with all other calls; with the returned sequence
`Spellcheck` re-measures windows of possibilities
(`ComputeTransitionCostSPSequence`) to rank alternatives with a bounded map and a
heap with lazy deletion. A token without context is corrected by `SpellcheckToken`
from the similar words alone.

How a request flows: the accept thread of libmicrohttpd gives every client a handler
thread, which reads the request, calls `rest_server::handle_request` with the parts of
the upload as they come (through the post processor for a form), queues a response
and streams it from a generator of the service; when the connection ends
`request_completed` deletes the request, and the accept thread or `rest_server::stop`
joins the thread and frees the connection.

### What is hard

* *Bounds that move during the loop they prune.* `best` falls while a stage is built
  (`decoder/decoder_base.cpp:137,153,194`); the cost of the worst kept alternative
  changes while a candidate is measured against it (`spellchecker.cpp:74-98`).
* *Merging.* Two paths with one `unique_identifier` are merged by overwriting part of
  the stored state (`decoder_base.cpp:181`).
* *Scratch state that must be restored.* `ngram_search_key` (`lm_wrapper.cpp:45-61`,
  `decoder_multi_factor.cpp:51,70`), the bit offset and the factors shared by the calls of
  `get_morphology_rec`, `decoded_corrections`, map and heap of the
  alternatives, word and prefix of the recursive lexicon search (`lexicon.cpp:521`).
* *Two positions in one text.* An input format and an output format walk over the same
  block with an index each (`input_format.cpp:119`, `output_format.cpp:103`), across sentences and
  blocks, and agree only because the caller hands every token over once and in order.
* *Boundaries.* Model order 1, beam size, negative costs from quantisation, the
  constant 100000000 as infinity, characters of two UTF-16 units, the unsigned
  allowance of a request body.
* *Sequences of configuration lines* whose order matters.
* *Pieces.* A body, a chunk, a boundary of a form or an escape is cut anywhere by the network and
  by buffers; an answer is generated and sent in pieces of any size.
* *Threads.* The accept thread, the main thread in `stop` and the handlers share two lists
  under a mutex, and a counter and flags under none; a timeout, a client that leaves and
  the shutdown come at any moment.

`PROJECT.json` lists them under `hazards`, each at its line, with the properties that
cover it.

### What makes each component correct

* **decoder**: a stage is never empty and a sentence is always answered, with one
  possibility per token, out of the candidates of that token; a distance is the cost of
  the path it stands for; pruning on the way changes nothing the final filter would have
  kept; with exact settings the path is a cheapest one.
* **transition costs**: the key is left as it was found and is never used outside its
  buffer; a cost is what the weighted back-off models say.
* **spellchecker**: the alternatives are the forms with which the whole sentence is
  cheapest, cheapest first, other than the correction; `decoded_corrections` is restored and
  nothing of a token survives into the next one; a token without context gets the best offers.
* **lexicon and error model**: the similar words are exactly those that edit scripts within
  the limits reach, whatever order the trie is searched in, and buffers shared by all calls are left as they were.
* **tokenizer and formats**: the words leave out white space only and do not overlap; a sentence
  is cut where the rules of its format say and nowhere else; over all sentences and blocks,
  the text comes back with nothing left out or repeated, whichever words are corrected, and
  the elements of `/suggestions` concatenate to it.
* **morphology and persistent structures**: the analyses read for a form are those written for it, with their costs up to quantisation, whichever
  factors are enabled, grouped or determined by others, although nothing in the bits says where anything ends.
* **configuration**: after a successful load every number of a factor has its entry, an enabled factor a
  model, and no order is above `model_order`; what is loaded is what the file says.
* **one request**: a body or form is seen by the service whole, however it is cut, or refused, for its
  length only by the service; every byte of an answer is sent once and in order; nobody uses a request after
  its completion; every connection ends.
* **server**: a connection is held by exactly one list or thread, joined and freed once;
  the counter is exact; `stop` returns, and only when no request is being answered.

## 2. Modules

| Module | What it is | Code |
|---|---|---|
| `Trellis` | Constants, states and pure operations of the decoder | `decoder/viterbi_state.*`, `stage_possibility.*`, `decoder_base.*`, `decoder_multi_factor.cpp` |
| `Decoder` | `DecodeTokenizedSentence`, one action per outcome of the innermost loop | `decoder/decoder_base.cpp:75-230` |
| `TrellisStages` | Abstract specification of `Decoder`: one step per stage, independent of order and of the online bound | same |
| `LanguageModel` | Making the n-gram tree from a text model, looking an n-gram up, and the back-off reference | `language_model/zip_lm.cpp`, `zip_lm_creation.cpp` |
| `TransitionCost` | Both transition cost functions and `GetProb`, over the shared key | `decoder/decoder_multi_factor.cpp`, `language_model/lm_wrapper.cpp` |
| `Alternatives` | The map and the heap that select alternatives | `spellchecker/spellchecker.cpp` |
| `Spellchecker` | `Spellcheck` after the decoder: the windows it measures on the path, composed with `Alternatives` | `spellchecker/spellchecker.cpp` |
| `Lexicon` | Building the trie and looking up | `lexicon/lexicon.cpp` |
| `ErrorModel` | Prices of edit operations, with their case variants | `error_model/error_model_basic.cpp` |
| `SimilarWords` | The recursive search of the trie, with the stack of its calls | `lexicon/lexicon.cpp` |
| `SimWordsFinder` | The searches of a configuration and their casings | `lexicon/sim_words_finder.cpp` |
| `PackedStructures` | The arrays of a model file, as sequences of bits | `persistent_structures/`, `utils/bits.h` |
| `Morphology` | Writing the analyses of all forms into bits, and reading those of a form | `create/create_morphology.cpp`, `morphology/morphology.cpp` |
| `SpellcheckToken` | What is made of the offers for a token: the possibilities of its stage for the decoder, or its correction without context; `SimWordsFinder` composed with `Morphology` | `decoder/decoder_multi_factor.cpp:130`, `spellchecker/spellchecker.cpp` |
| `EditScripts` | What a search promises: the words edits reach, without trie or order | reference |
| `Configuration` | Loading a configuration line by line, and the overrides of the command line | `spellchecker/configuration.cpp`, `korektor.cpp` |
| `Text` | Units and their classes, conversion to UTF-8, and what the words and sentences of each format are | `utils/utf.cpp`, `unilib/utf16.h`, `token/token.h` |
| `Tokenizer` | `Tokenize`, the core of the formats untokenized, untokenized_lines and segmented | `token/tokenizer.cpp` |
| `LineFormats` | `NextSentence` of the formats vertical and horizontal | `token/input_format.cpp` |
| `Printing` | What original, xml and `/suggestions` print of a text and its tokens | `token/output_format.cpp`, `rest_server/korektor_service.cpp` |
| `Blocks` | The loop over blocks and sentences: `LineFormats` and `Tokenizer` composed with `Printing` | `korektor.cpp`, `rest_server/korektor_service.cpp` |
| `RestServer` | The threads of the server, from accept to stop | `rest_server.cpp`, `libmicrohttpd/daemon.cpp`, `connection.cpp` |
| `RestRequest` | One connection: state machine, request, generator | `rest_server.cpp`, `libmicrohttpd/connection.cpp`, `response.cpp` |
| `RequestLife` | Abstract specification of `RestRequest`: the calls the HTTP library promises its application | same |
| `Forms` | Bodies of forms as clients write them, and the parameters they stand for | reference |
| `PostProcessor` | The post processor with the `post_iterator` of rest_server | `libmicrohttpd/postprocessor.cpp`, `rest_server.cpp` |
| `MC…` | Small instances for TLC | |
| `…Proofs` | Theorems and their proofs | |

`Decoder` EXTENDS `Trellis` and instantiates `TrellisStages` (which EXTENDS it, too) by the
identity on the variables they share: `new`, `best`, `toVisit`, `current` and `toTry` are
what the detailed specification adds. `TransitionCost` EXTENDS `LanguageModel` and computes
what `Trellis` and `Spellchecker` take as the constant operator `Transition`; the composition is by that
interface, so that the decoder is checked for many cost functions and not only for the few
that small n-gram models yield. In the same way `Spellchecker` takes any path through the stages:
`ResultFollowsStages` of `Decoder` says that the decoder returns one.

### Decoder

`last`, `new`, `best`, `i`, `result` are the variables of the function of the same role
(see the comments at their declarations); the position of its two inner loops is
`toVisit`/`current`/`toTry`. `VisitState` is a turn of the loop over the last stage,
`PruneOnEmission`, `PruneOnTransition`, `InsertState`, `ImproveState` and `KeepStored` are
the five ways the inner loop body can end, `EndStage` is filter, sort and beam, `Backtrack`
the part after the stages, `NextSentence` a new call. Both prunings are a `continue`, so that the inner loop goes on with the next
possibility. The order of the loops (by distance or emission cost, then by a hash) is kept up to
the hash, which is a free choice.

What is abstracted: costs are integers; `unique_id` and `unique_identifier` are what is
hashed rather than a 64-bit hash (no collisions); an ancestor pointer is the sequence that
backtracking reads through it.

### TransitionCost

`offset` is where `ngram_search_key.word_ids` points, relative to the start of the buffer, and
`order` is the order in the key; `filled` remembers where it pointed when the buffer was filled.
One action per branch of `GetProb` and one per step of the two callers.

### Alternatives and Spellchecker

`live` is `alternatives_cost`, `heap` and `top` are `alternatives_heap`. The standard library's
heap is modelled by its set of elements and its root: which of several elements of the greatest
cost comes to the root after a pop is a choice, and a push replaces the root only by a
strictly greater element. A candidate is the sequence of running costs the loop sees for
it, so that the early exits at `spellchecker.cpp:74,82` are decided exactly as in the code.

`Spellchecker` EXTENDS `Alternatives` and says where those costs come from. `decoded` is
`decoded_corrections`: `MeasureAlternative` writes a possibility into it and takes its steps in
`Alternatives` with the windows measured there, `RestoreCorrection` puts the correction back,
`StoreAlternative` empties the heap into the answer, `KeepToken`, `CorrectToken` and `FinishToken` are the turns of the
loop over the tokens. Map and heap live as long as the sentence; no action clears them between
tokens, as in the code.

### Lexicon, SimilarWords, SimWordsFinder and SpellcheckToken

The trie is built as in `lexicon.cpp`: numbered nodes and three arrays. A call of
`GetSimilarWords_impl` is a frame of `stack`; its loop body is a sequence of places (`at`) with one
action each (skip a letter, follow an arc, replace, swap, add). `word` and `prefix` are shared by all frames,
as references are in the code: an edit that is followed by a recursive call is left in the
buffers until `ReturnToCaller` takes it back. `SimWordsFinder` has the case-sensitive search with its second search
at the beginning of a sentence, the two searches that ignore case, and the choice between them.

`SpellcheckToken` goes on from the offers in one of two ways. `InitInnerStagePossibilities` is the decoder's use of them: every analysis
of every offer is a possibility of the stage, or the unknown word if there is none (`stage` "decode"). The other actions
are `SpellcheckToken` of the code: the offers are taken in any order, as a hash map gives them, and a heap keeps the
best. Both ask the same table, `morphology`, which holds what `GetMorphology` says of each form; lexicon and
morphology are made from one morphological lexicon (`cm`), as `create_morphology` makes them.

### PackedStructures and Morphology

These are pure algorithms, so they are operators without variables. An array is a sequence of bits, the low one of a
number first, which is what the shifts and masks over bytes come to. `Collected` is the tree of
`create_morphology` as a set of paths, with the counts of lines; `Groups`, `Dependencies` and the widths decide how it is
written, `SaveNode` writes the subtree of a form, and `BuildMorphology` is the model file. `GetMorphologyRec` reads a node as the
code does, with the bit offset, the list of factors and the result passed from call to call (`r`), as they are
shared there by reference. Emission costs are quantised by
`GetCenterID`; what the cost of two counts is (a logarithm in the code) and where the centers are is a constant.

### Configuration

One action per kind of line; the next line is a choice, so that every file of lines in `Lines` is
read. `file` is a history variable for what the file says. `named` is `factor_names.size()`: names are never taken out,
so that a second `morpholex` line, which gives the factors new numbers, appends an entry for the names of both
lexicons and leaves enabled models under their old numbers (`configuration.cpp:37-51`). A `lm` line may have any order. Lines that stop the
program (`runtime_failure`) end in "failed", and lines that index or dereference what is not there yet
(`ReadLMTooEarly`, `ReadDiagnosticsTooEarly`) in "undefined", where nothing is claimed. `Override` is
what `korektor.cpp` does after loading, without looking at the result again.

### Text, Tokenizer and LineFormats

A text is a sequence of UTF-16 units, told apart by the classes of `utils/utf.cpp`; a surrogate pair is
two units, and `WellFormed` says that pairs are complete, as `UTF8To16` makes them. The classes are
constants, with what the code needs of them in `ClassesAssumption`. `UTF16To8` does what
`UTF16To8Append` does to a stretch of units: its length counts code points, and half a pair
becomes the replacement character. Positions count from 1, and a token is the positions of its first
and last unit. No unit of a text is NUL.

`Tokenizer` has one action per branch of the three loops of `Tokenize`: `LookForEnd` collects `ends`,
`TokenizeWord`, `TokenizeUnit` and `SkipSpace` collect `tokens`, `PlaceToken` distributes them
over sentences with `nextEnd` and `start`. The inner scans of a loop are the operator `RunAfter`.
`LineFormats` is one state machine for both formats, because their loops differ in two places only:
at a space (`SkipSpace`) and at the end of a line (`EndOfLine`). `NextSentence` is the call,
`EndOfText` the return, and `index` is the only thing the code keeps between calls; `sentences`
collects what was returned.

### Printing and Blocks

`unprinted` is the variable of that name, and `pos` is the end of the last token the caller
handed over. `shown` is the printed text with the corrections undone: for a corrected token it
holds what stands before the correction (`original` puts the correction in the place of the token, `xml` and
`/suggestions` print the token besides). Whether a token is corrected is a choice (`KeepToken` or
`PassToken`, and `CorrectToken`). `/suggestions` prints corrected tokens only, with all that lies before them.
The mark-up and what is escaped in it are left out.

`Printing` takes the tokens of a text in order; which tokens those are is the constant operator
`Tokenizations`, restricted by `TokenizationsAssumption`. `Blocks` EXTENDS `Printing` and instantiates
`LineFormats` and `Tokenizer` for the input. With a line format, `NextSentence` calls it when the last sentence has been
handed over and `ReadOn` is a step of that call; with the other three, `Tokenize` is a step of `SetBlock`, which
cuts the whole block, and `NextOfList` returns its sentences one by one. `HandOver` is a token of
`AppendSentence`, and `FinishBlock` comes when the input has no more. `TokensComeInOrder` is `Printing`'s own
specification as a property: the loop implements what `Printing` assumes of its callers.

### RestServer

The accept thread (`MHD_select_thread`), the main thread in `rest_server::stop` and one handler per client
each have a program counter; an action is what lies between two accesses to what they share. `connections++` and
`connections--` are a load and a store each, because nothing synchronises them; the lists are accessed under
`mutex`. `Connect` is a client, `Receive` and `Close` stand for everything its handler does (that is `RestRequest`), and
`CreateThread` may fail. `racing` remembers that the signal came while the
accept thread was between accept and its count.

### RestRequest, Forms and PostProcessor

`state` is `connection->state`; `pc` tells where the handler thread is: in poll, in the loop of
`MHD_connection_handle_idle`, inside a call of the application, or past the end. The client's stream is a
sequence of units (a line, a byte, a chunk header), of which `Read` takes any number that fits.
`context` is `*con_cls`, with the value "deleted" after `request_completed`: the pointer dangles, as in the
code. `response` says what it was made of; "error" is an answer of the library itself (`TransmitError`): 400 for a malformed
line, 414 and 413 if the memory of the connection does not suffice for the lines, 500 if there is none left for the
body. Memory is not modelled, so that it may end at any line (`MemoryEnds`), and for the error's own headers as
well (`NoMemoryForAnswer`). The service's 413 has another kind. For `RequestLife` such an answer is life "abandoned": only completion follows. `remaining` counts in unsigned arithmetic. The generator produces outputs of given lengths; `GeneratorCallback`
copies and consumes as `generator_callback` does, with the buffer sizes the library uses.
`PostProcessor` is one record and one operator per branch of the two loops of
`postprocessor.cpp`, each turn a step, so that buffers fill and pieces end between any two of them. `Forms` writes
the bodies and says what they mean, and shares no definition with the reader.

## 3. Runs

| Run | Question | Instance |
|---|---|---|
| `decoder_exact` | Is a distance the cost of its path, and is the answer a cheapest path? | trigram, `viterbi_order` 2, no beam, pruning 100; sentences of 2 and 3 words with 2 or 3 candidates; 16 cost functions |
| `decoder_pruned` | Do the decoder's assertions hold in the roughest setting, are answers candidates of their tokens, is the pruning bound the distance of a state that exists, and, where costs rise, does pruning on the way change a stage? (refinement of `TrellisStages`) | `viterbi_order` 1, shared ids, 32 cost functions of which 16 have negative costs, beam 2, pruning 2 |
| `transition_cost` | Are transition costs backed off correctly, does the key stay in its buffer, does every call return? | 3 factors of which 2 are enabled, trigram models over 2 known ids, several calls |
| `transition_cost_mixed` | *violation*: factors of different orders | as above with orders 3 and 2 |
| `spellchecker` | Are the alternatives the forms with which the sentence is cheapest, although they are measured by windows on a path that measuring overwrites? | trigram windows, sentences of 1 and 2 tokens with 5 possibilities over 4 forms, every path, 2 alternatives, 16 models |
| `spellcheck_token` | Does the search find exactly what edit scripts reach, does the right search answer, does the decoder get every analysis that was written for them, are the best offers given? | tokens of 1 and 2 letters out of three, some of 3 letters, and digits; three morphological lexicons with 3 factors and 4 forms; two configurations of three and two searches with up to two edits; 3 sets of enabled factors; 0 to 2 alternatives |
| `blocks` | Do an input format, the loop and an output format together send back the text, block after block, in sentences cut by the rules? (refinement of `Printing`) | all texts of up to 3 units over 8 classes, of 4 units over 5 classes, "a." followed by 3 units over 5 classes, and five longer ones with several lines; nine pairs of formats |
| `printing_suggestions` | *violation*: concatenating the elements of `/suggestions` | texts of up to 4 units with a surrogate pair, vertical |
| `configuration` | Do entries, orders and enabled factors fit each other, does a proper file serve the decoder, and is an ordinary one loaded as written? | files of up to 5 lines out of 17, with three lexicons of one and two factors, known and unknown factors, orders 0, 2 and 3; 8 settings of the command line |
| `rest_server` | Is every connection held once, the limit kept, the count exact; does stop wait and return? | two clients, limits 1 and 2 |
| `rest_server_cut` | *violation*: stop handles the current requests | two clients, limit 2 |
| `rest_request` | Are bodies, forms and answers whole, do the calls keep their contract, does every connection end? (refinement of `RequestLife`) | plain requests, bodies up to 5 bytes in one part or in chunks around a limit of 3, malformed lines, an unreadable length, memory that ends anywhere, forms in both encodings, five generators |

Why the bounds are enough. In the decoder the state of a stage depends on the last two
possibilities (trigrams), so that two and three inner stages plus the final one contain a
merge of paths with different pasts, a merge whose loser was extended first, and a beam that drops
a state; the three candidates of a stage have pairwise different emission costs, where the
pruned run has equal ones and two that share an id. Each of the 16 cost functions is a subset of four features by
which a context can be told apart.

For transition costs,
the models contain n-grams of each order with and without their contexts, an id no model knows
makes the lookup end at each depth, and two factors and both callers
follow each other in every order. All models of the run have the starts of their n-grams (Observations, gaps).

For the alternatives, five possibilities over four forms, of which one is the correction, and a limit of two allow:
lowering the cost of a form at and below the root, evicting
a form while a dead entry of it is buried, taking it back, and storing; the second token begins with what
the first one left. The windows have costs that do not fall; falling running costs are covered by the theorem
on the heap only. `MaxPossibilities` is the number of analyses of a token.

In `spellcheck_token`, tokens and words of up to three letters with two edits have every pair of operations next to each other and apart, at both ends
of a word; one configuration has operations at the prices of the manual's example, the other a distance for all of them, so
that a search can stop an edit earlier. The lexicons have words that differ in case only up to a letter, and words that are prefixes of others. What
a token before it may have left is the set `Earlier`; the order of a hash map of offers is a free choice.

The morphological lexicons have each way of writing a level: the first groups the lemmas and not the tags, the second has lemmas that
follow from the form and grouped tags, the third lemmas that are neither and tags that follow from the lemma. The code
looks whether a grouping is worth it at every tenth group and the run at every sixth (`GroupCheck`), so that three special entries and a few forms
decide it either way. `PartSize` 4 (4096 in the code) gives the tables of offsets two parts, the second of them short. `CostBits` 2
gives four centers, and one of the costs lies in the middle between two, where `GetCenterID` takes the upper one. The enabled factors leave
out the last level, a level in the middle, or none. `UnknownWordCost` 100 is more than any offer costs.

In `blocks`, three and four units have a gap or a pair at the beginning, between words and
at the end. The rule about a full stop looks at closing punctuation, white space, opening punctuation and a
capital, in this order; "a." with three more units has each of them absent and present, with a newline (the
other rule) among them. The longer texts add several words in one line, empty lines in a row, and a sentence that
ends with the text. `LaterTexts` bounds which blocks follow the first one, so that pairs of blocks stay few: what can go wrong
between blocks depends on what the first one leaves in `unprinted` and `index`.

In `configuration` five lines are a lexicon, an error model, and three of: models, of one order or different ones, a second
lexicon with the same or fewer factors, before or after a model. Longer files
add lines of a kind that is there already. That no file is too long for `ServesTheDecoder` and `LoadedAsWritten` is a theorem.

In `rest_server` two clients are the least with which a connection ends while another one is accepted, and the limit of one
keeps the second in the backlog; `UnsignedRange` stands for 2^32 and is small so that a counter that wraps is
visible. The theorems about this module hold for any number of clients. In `rest_request` the allowance wraps likewise
(`UnsignedRange` 64). Bodies of 2 to 5 bytes around a limit of 3 hit it below, at, one above and two above the limit, in one read or several; forms
have limits at their length, one below it, and none. `PostBuffer` 9 and `EscapeBuffer` 4 are below the length of keys, values and
boundaries of the forms, so that each of the buffers is full at every place of an escape, a boundary
and a line. `BufferSize` 3 is below most answers, `MinGenerated` 2 above the least. `SizeUnknown` is
MHD_SIZE_UNKNOWN, a number that no answer reaches.

No run uses symmetry. Deadlock is checked wherever the program goes on: a decoder takes the next sentence, a cost call
is followed by the next call and a block by the next block. It is not where the system stops: when the sentence has been corrected
(`spellchecker`), the file has been read (`configuration`), the connection has ended (`rest_request`) or the
server has stopped (`rest_server`). In these modules, liveness properties say where they stop, or the invariants are about the state in which they do.

### Fairness

`Decoder` and `TransitionCost` state weak fairness of the steps of the function itself
(`Decode`, `Compute`) and none of its callers: a sequential loop with no blocking call
takes its next step, but nobody need ask for another sentence. `EveryCallReturns` is therefore a
leads-to. `Blocks` states weak fairness of every step within a block, but not of `NextBlock`: `ReadBlock` waits for
input that need not come. `EveryBlockEnds` is `[]<>(pc = "done")`: from `done` nothing need follow, and
whatever was begun ends.

`RestServer` has weak fairness of each thread: threads are scheduled. Acquiring the mutex (`LockLists`, `AddConnection`, `MoveToCleanup`, `ShutSockets`) has
strong fairness, because the mutex may be taken and released by others between any two turns of the one that waits;
a mutex that never serves a waiter is not what `pthread_mutex_lock` does. A handler closes in the end, because the server sets a
timeout for connections. Nobody has to connect, to send anything or to call `stop`, and `StopReturns` is
about a `stop` that was called. It excludes the signal that races with an accept, after which
the count may stay at one for ever: the finding below and `OnlyRacingRequestsCutOff` are about the same moment.

`RestRequest` has weak fairness of the handler thread and strong fairness of the timeout only: the thread returns to poll again and
again, and time passes meanwhile. The client need not send, read or leave.

### Findings

* **Language models of different orders** (`transition_cost_mixed`):
  `decoder_multi_factor.cpp:70` moves the key's pointer back by the difference between
  the orders, while the line that moved it forward (line 51) is commented out, although MANUAL:574
  gives every language model its own order. Written that way, the next factor is stored before the buffer.
* **Surrogate pairs and `/suggestions`** (`printing_suggestions`): `UTF16To8Append` counts its length in code points
  (`utils/utf.cpp:101`), its callers count units. With a character outside the basic plane in a gap,
  the start of the next token or the end of the text is printed twice, while
  `src/web/lindat-service/api-reference.php:141` promises that the first elements concatenate to the text.
* **`stop` and a client being accepted** (`rest_server_cut`): `rest_server.cpp:401` says that stop waits "for current
  requests to be handled", and polls the number of connections; `daemon.cpp:1497` counts a connection after its
  thread was started, so that the number reads zero while the request is handled, and `MHD_stop_daemon` ends it.

### Observations

What was met while modelling and is not the subject of a run. A run's instance avoids a case only where this list says so.

Decoder and language models
* `model_order` 1: `is_initialized` accepts it (with an explicit `viterbi_order`), but the initial state of the trellis then has an empty history,
  the result is one longer than the lattice, and `assert(ret_vec.size() == stage_posibilities->size())`
  (`decoder_base.cpp:227`) fails; the extra element is a read of `history[-1]`. `ResultAlwaysCovers` assumes a larger order.
* Text models with gaps: for an n-gram whose start is not in the text
  model, `zip_lm_creation.cpp:291` makes an auxiliary node that counts as found, so that the
  back-off weight of the context, which `lm_wrapper.h:35` asks for,
  is not added. The models of the run have all starts.

Lexicon, error model and morphology
* `ret.insert` (`lexicon.cpp:495,527,562,606`) keeps the first cost found for a word, not the least: with two edits, "Aa" is offered
  "ab" at 8 although a script costs 3. `SimilarWordsAreFound` asks for the least cost only where one edit fits.
* A search stops an edit early by the smallest distance of an operation (`lexicon.cpp:492`). With `ignore_case` a case mismatch costs nothing even if
  that minimum is 1, and words are missed ("AA" does not find "baa"). The run has a minimum of 0 for these searches.
* `DeletionCost` is always called with `' '` as the letter before it (`lexicon.cpp:586,588`), while
  `manual_model_creation.t2t:73` describes a price for a context.
* For letters without case, the variants of a substitution are written to the same entry, and the last write counts: a mismatch can replace
  the price itself (`error_model_basic.cpp:39-52`).
* `keep_orig` with a token of irregular case keeps the spelling of the lexicon.
* Words that come twice break the node table (`lexicon.cpp:287`); the list of noncorrectable words is never loaded.
* `SpellcheckToken` marks "no analysis" by -1 (`spellchecker.cpp:146`), which a negative quantised cost can be. Without alternatives the correction of the
  token before may survive in `correction`, where no caller reads it.
* A table of offsets whose last part has a single value divides zero by zero and converts the result to an unsigned multiplier (`increasing_array.cpp:55-58`); it is
  used times zero only.
* `GetMorphology` reads factors behind the last enabled one as well and leaves in the list what it read last; nobody looks at them.
* `save_node` adds the width of a number of children that it does not write when the next level is dependent (`create_morphology.cpp:421`); the width is zero then, because
  a factor that another one determines has one child everywhere.
* `UTF::EqualIgnoringCase` compares its first argument with itself (`utf.cpp:132`); nothing calls it.

Formats
* The tokenizer makes a token of every unit that is neither alphanumeric nor white space (`token/tokenizer.cpp:68`), also of half a pair, which
  `original` and `xml` print as a question mark, while MANUAL:314-316 promises that all other characters are preserved.
  `KeptTextIsPreserved` is about texts in which no pair is cut (`PairsAreKept`).

Configuration
* MANUAL:599 lets the lines come in any order, but a `lm` or `diagnostics` line before the `morpholex` line is
  undefined behaviour (`configuration.cpp:57,187`).
* A `lm` line for an unknown factor replaces the model of the first factor, because `factor_map[...]` inserts 0.
* A second `morpholex` line appends an entry for every name so far, and the new numbers lead to the old
  entries: a model enabled before it goes with whatever factor of the new lexicon has its number, and if the new lexicon has fewer
  factors, the last enabled one may be none of them, and `get_morphology_rec` returns no analysis (`morphology.cpp:144`).
* The orders of `lm` lines are not looked at: order 0 loads, so do different orders (the first finding), a `model_order` of 1 (above), and
  an order above the one the model was made with, for which `assert(ngram_key.order <= lm_order)` (`zip_lm.cpp:135`) fails.
  The override of `viterbi_order` on the command line is not checked (`korektor.cpp:83`).
* So `is_initialized` does not promise what the decoder takes for granted. `DecoderIsServed` says what that is, and `ServesTheDecoder` promises it
  for proper files only (`IsProper`: models, all of one order above 1, and lexicons of equally many factors). For every file that is loaded it promises
  the rest: an entry for each numbered factor, no order above `model_order`, the last enabled factor enabled, `viterbi_order` between 1 and
  `model_order` until the command line overrides it. `TransitionCost` takes orders of at least 1, and no run has order 0 beyond loading.

Server
* `stop` closes the listening socket while the accept thread may be polling it or have copied it (`rest_server.cpp:404`), against
  the advice of `daemon.cpp:2842`.
* `max_request_body_size` of 2^32-1 makes the allowance wrap to zero (`rest_server.cpp:110`); `SizesAssumption` leaves it out.
* The library answers 413 and 414 itself, for headers, trailers and arguments that do not fit its memory of 32 kB or what is left of
  it (`connection.cpp:1010-1014,1150-1153,1192,1321,1877-1892`), with the text "Request too big". A client cannot tell this 413 from the
  service's by the status; in the model the kind of the response does, and `WholeBodyOrTooLarge` is about both: the service's is due to the
  length of the body, and with the library's the service has not seen the request. If the arguments or the cookies do not fit, the code queues the answer
  and reads the rest of the headers that it has; it calls nobody on the way, except for a body that comes with neither POST nor PUT, which no request of the run has.
* A `Content-Length` that is no number closes the connection with no answer (`connection.cpp:1966-1979`). One that is too large for
  `strtoul`, or -1, becomes `MHD_SIZE_UNKNOWN`, an upload that is never complete ("other" in the model).
* A malformed header line closes the connection and then queues the answer 400, which is never sent. A client that closes its half of the connection
  after the request never gets its answer. The end of an answer is the end of the connection, so that an aborted one looks complete.
* A service that computes longer than the timeout finds its connection closed without an answer.
* With `Content-Length: 0`, `Expect: 100-continue` and further bytes, the handler enters the body although nothing is left of it: the application gets those bytes
  as a body (`connection.cpp:1595-1602`), and the remaining size wraps below zero to `MHD_SIZE_UNKNOWN` (1643). The run has no such request and `ContractIsKept` excludes it. A HEAD request with a
  generator spins until the timeout.
* The post processor accepts a urlencoded body that ends in CR LF in one piece and rejects it if the LF comes separately (`postprocessor.cpp:481-489`); an incomplete
  escape at the end of a value leaks into the next value (`a=x%&b=y`); text after the last boundary is an error, although the comment at 937-947 allows
  it; nested multiparts use the wrong length (739-755). A multipart form without a boundary is closed without an answer.
  `FormIsUnderstood` is about forms as clients write them (`WellFormedForm`).
* `log_request` runs before the last urlencoded value is flushed.

## 4. Proofs

TLC checks instances; the theorems hold for all values of the constants that satisfy the
named assumptions of their modules.

**DecoderProofs**: `TypeCorrectness`, `TrellisNeverEmpty`, `BestAlwaysAttained`,
`ResultAlwaysCovers` (the last for `ModelOrder > 1`), and further down four more. None of the safety properties is
inductive: that a stage is not empty at its end depends on what happened to its first extension.
The inductive invariant is `Inv` of `Decoder`. It says that as long as `new` is empty there is an extension
left to try (`WorkLeft`), that the distances of stage *n* are at most *n* times `MaxStageCost`
(`Bounded`), so that the first extension is below the ceiling `best` starts from and cannot be pruned,
that `best` is the least distance of `new` from then on (`BestIsAttained`), so that the
filter at the end keeps at least that state for every positive pruning constant and every beam, and that
a chain of ancestors is as long as its stage is far (`ChainsHaveLength`), which gives
the length of the result.
Assumptions: `OrdersAssumption`, `DataAssumption`, `TransitionAssumption`,
`SentencesAssumption` are what the configuration and the search for candidates guarantee;
`CeilingAssumption` is what the assertion at `decoder_base.cpp:135` takes for granted: no sentence is
so costly that its distance reaches 100000000. Costs may be negative.

What a stage keeps and what is returned are the subject of four more theorems, each with its own invariant over `Inv`:

* `ResultAlwaysFollows` (`ModelOrder > 1`), from `FollowInv`: backwards from a state of either stage, the chain of ancestors takes at each
  stage a possibility of that stage, whatever was pruned or recombined on the way.
* `DistanceAlwaysIsPathCost`, from `PathInv`: the distance of a state is the cost of the sequence its ancestors give, and its history is the end
  of that sequence. The cost of a path is `PathCost`, a recursive function that knows nothing of states. The hypothesis `StatesAreToldApart` says that `viterbi_order` covers
  what the language models look at and that possibilities of a stage have different identifiers; with a shorter history the decoder takes the winner's
  distance for a path whose end it does not know, and the equation is false (the pruned run has such orders and does not check it).
* `ResultAlwaysIsCheapest`, from `NothingLost`: for every path through the stages so far there is a state that ends like it and is not dearer
  (`PathsMatched`), and for every extension tried in the new stage there is a state that stands for it (`TriedAreStored`).
  `LowInv` bounds the distances of a stage from below, and with `Bounded` from above: the
  difference stays below the pruning constant. `IsExact` states this hypothesis: states are told apart, no beam, and a pruning constant that no two
  paths can differ by (`PruningExceeds`). The default constant, 6, does not promise it; then the decoder is a heuristic and
  only the other theorems hold.
* `StagesDoNotDependOnOrder`, the refinement of `TrellisStages`, from `OrderInv`: an extension that was tried is either too expensive or stands in
  `new` with a state at most as dear (`Covered`); every stored state took its distance, its ancestor and its history from extensions of its identifier,
  possibly from different ones (`ComesFrom`, which is what the assignment in place of a stored state does, `decoder_base.cpp:181`); stored states are told apart by their identifiers.
  While `best` falls, `new` may hold states that a cheaper extension of the same identifier should have replaced, had it not been pruned, but these lie above the bound and do not survive
  the filter. `RisingCosts` is the hypothesis, per step and per model: pruning on the emission alone gives nothing away only where transitions cost nothing or more.

**SpellcheckerProofs** begins with the selection of alternatives: `HeapInvariance`, `EvictedFormsLeaveTheHeap`, `RootIsTheWorstForm`,
`HeapIsEmptyAtTheEnd`, together `HeapStaysSound`; and `MapKeepsTheCheapest`. The inductive invariant is `HeapInv`: every kept
form has its current entry in the heap and all other entries there belong to kept forms and are strictly dearer.
`EntriesMatch` is the strengthening: without it, a step
that pops the root could not conclude that the next live entry is the worst of the map.
`MapKeepsTheCheapest` assumes `RisingCosts`; with costs that fall (quantised models), the early
exit may drop a candidate that would have been among the best. So does `AlternativesAreAlwaysKBest`, from `StoreInv`: the forms that are
stored and those that are still kept are together the cheapest of the forms offered, as many as asked for, and the stored ones are the dearest of them, in order.
The theorems about the heap do not assume it; the run has rising costs only, so that for falling costs they rest on the proofs alone.

Of the loop around it, `PathIsAlwaysRestored` and `ImplementsAlternatives`: every behaviour of `Spellcheck` is one of
`Alternatives`, for every sentence, order and model. The inductive invariant, `PathInv`, says
that `decoded_corrections` differs from the path at most at the position of the token, so that
what a window costs does not depend on what was measured before. `HeapStaysSoundInSentences` carries the theorem about the heap over.

`CheapestAreKeptInSentences`, `KBestAreStoredInSentences` and `AlternativesAreAlwaysRanked` follow from `RankInv`, which joins `PathInv` and `StoreInv` and says
that what is measured belongs to the token at hand (`StageIsMeasured`) and that every finished token is ranked. `Spellcheck`
never computes the cost of a sentence: it adds up the windows that contain the token. `MeasuredLikePaths` is why this is enough: two possibilities of a
token differ in what is measured by as much as the two whole sentences differ, as all other windows are the same. The two rankings are therefore the same
(`SameRanks`), also when several possibilities of one form are offered. The hypothesis, `TransitionsRaise`, is about the models only: no transition on a path of the sentence is negative.
Emissions may be: the emission of a possibility is where its running cost starts.

**ModelsProofs** is about what is made of the files, and what a transition costs. First `KeyIsRestored` (for all models and orders) from `KeyInv`, which
describes the key at each program location, and `KeyInBuffer` (under `SameOrders`, the assumption the
finding above violates) from `PointerInv`, which adds that the pointer is at the start of the
buffer between factors. `CostIsAlwaysBackedOff` is about the number that comes out: while the model walks from context to context,
`CostInv` says, `ret_prob` is the cost of the reference less the weights of the contexts that are still to come, which are the ones
longer than what was found. The weights of the shorter ones are zero in the reference, and the sum of the reference
is a recursive function (`Sums`) about which the proof needs two facts. It does not need `SameOrders`: the cost depends on the
n-gram relative to the pointer, wherever this is, as long as the entries around it are the ones that were written. It does need `NothingMissing`: where a text model has an
n-gram but not its start, the packed model stops early (Observations). Assumptions: `ArpasAssumption`, `IdsAssumption`.

Then the configuration: `ConfigurationInvariance`, `EveryConfigurationServes` and `ConfigurationIsLoadedAsWritten`, for files of any length, any lines, factors,
orders and options. The inductive invariant `LoadInv` says of every
moment that the numbers in `factor_map` are those of entries (also after a second lexicon), that no enabled model has a larger order than
`model_order` or comes behind the last enabled factor, and that this one is enabled (`NumbersFit`, `ModelsFit`, `LastIsEnabled`, `OrdersFit`).
This is what `ServesTheDecoder` promises of every file. Its last part, `IsProper => DecoderIsServed`, needs `FileInv`, which relates what is kept
to the lines read: an enabled factor has the order of some `lm` line, `model_order` is the order of one or still 1, there are at least as many
entries as the latest lexicon has factors, and the last enabled number is a factor of some lexicon, so that with equally many in each it is one of the latest
(`ProperFileServes`).
`LinesAssumption` says of an order only that it is a natural number.
`LoadedAsWritten` is proved from `WrittenInv`, which relates each variable to the lines read so far. What needs it to be an invariant of all files, and not of ordinary ones only, is
the moment at which the lexicon comes: nothing that needs a lexicon has been read before (`NothingWithoutLexicon`), as the program would have ended there.

Then the lexicon. `BuiltIsTrie`: what its constructor makes of any different words that are not empty is their trie (`IsTrie`). The nodes grow by beginnings of words
(`Grown`, `NodesGrow`); that the arcs of a node come in the order of their characters (`SortedByCharacter`) is what the binary search of `SingleArc` needs (`SingleArcFinds`).

**CorrectionProofs** is about the correction of a token, from the search of the lexicon to what is offered, for any words, tokens, tables of prices, limits and search configurations.

* `FindIsRight` is the inductive invariant of `SimWordsFinder::Find`. In a search, every frame of `stack` stands for a node and a cost of some edits (`IsFrame`), the buffers are what the
  frames, from the bottom up, have made of them (`IsStack`), and the map of a frame holds exactly the words that edits reach through what the frame has been through, which the place `at` in its
  loop body says. When a frame returns, its caller's map takes in its words, and nothing that has been
  found is lost or made dearer than the scripts allow. On the other side, `EditScripts` knows neither trie nor order: `ScriptsAreReached` relates the two, script by script, as edits are
  made from the left. Around a search, the invariant says of each configuration passed that it can offer nothing, and what the first of two searches has found.
  `SimilarWordsFound` and `FirstSearchOffers` follow from it.
* `TokensAreRanked` adds `RankingIsRight`, which says of the loop over the offers that the heap holds as many as are asked for of the cheapest offers so far, of equal ones any; and while it is emptied, that what
  is filled in are the dearest of them, in order. `BestOffersRanked` and `EveryAnalysisOffered` follow.

The hypotheses are about the models and are those that TLC evaluates for its instance (`ModelsAssumption` of `MCSpellcheckToken`). `SwapsCostSomething` and `FreeEditsAreCounted`
are about prices: without the first a search could swap two letters for ever, without the second it stops an edit early (Observations). `MorphologyIsRead`, which only
`BestOffersRanked` and `EveryAnalysisOffered` have, says that the arrays of the morphology give back what was written into them. Assumptions: `LettersAssumption`, `LexiconsAssumption`,
`TokensAssumption`, `ConfigurationsAssumption`, `RankingAssumption`.

**TokenizerProofs**: `TokenizerKeepsItsPromise` (for every text and option) from `TokensInv`: when the loop
over the units is at `i`, it has found the promised tokens that begin before `i` (`Before`), and no promised
token reaches across `i` (`Between`). Without the second part the step over a word could not
conclude that the word is maximal to its left. `LineTokensAreTokens`,
`UntokenizedTokensAreTokens` and `LineTokensKeepPairs` are about the reference definitions of `Text`: words are disjoint,
cover everything but white space, and those of the line formats cut no surrogate pair. `SentencesAreAlwaysCut` has two invariants more.
`EndsInv`: the ends found so far are those with a reason before `i`, in their order. That a mark appends an end ahead of `i`
does no harm, because closing punctuation contains no other ending (`ClassesAssumption`).
`SentencesInv`: the sentences so far are the tokens so far, cut at all the ends of the reference, and `next_sentence_end_index` is the
first end that is not before the last of these tokens (`AtEnd`), from which it follows that the walk passes an end exactly where there is one between two tokens.
These theorems rest on `TextsAssumption` and `ClassesAssumption`.

**BlocksProofs**, first of `Printing` alone: `OnlyWhiteSpaceBetween`, `NothingTwice` and `TextIsKept`, for every set of texts and every
input format with `TokenizationsAssumption`, which the theorems above discharge for the formats of this code.
`WalkInv` says that `pos` splits no token and that `original` and `xml` have printed up to it;
`PrefixInv` adds that what was printed is the text up to `unprinted`. `ShownIsPrefix` alone is not
inductive: that the gap before a token holds no half of a pair follows from the token being whole.
Both hold on the condition `PairsAreKept`; outside of it lie the finding about `/suggestions` and half pairs (Observations).

Then of the loop, for all pairs of formats, all texts and any number of blocks: `TokensAlwaysComeInOrder` (`BlocksSpec` implements `Printing`), and by it the three theorems again,
`NothingTwiceInTheLoop`, `TextIsKeptInTheLoop` and `OnlyWhiteSpaceInTheLoop`; `TokensAreAlwaysPromised` and `EveryFormatCutsSentences`. The inductive invariant is `BlocksInv`,
of which `HandInv` is the center: what the output format still expects is what is left of the sentence in hand (`Waiting`) together with what the
input format has not read (`Unread`), and every token of the first comes before every one of the second. `Unread` is a different thing in each kind of format: the tokens from `index` on,
or the sentences of the list from the current one on. `ListInv` ties the list to the result of the tokenizer, whose invariants hold in every block (`TokenizerInv`); `LineInv`
says that `index` is never inside a token. For the sentences, `LineCutInv` says that the sentences returned, with the one under construction, are all tokens before `index`
cut by the rule, and that there is an end between the last of them and `index` if and only if no sentence is under construction, except at the end of the text. In the vertical format
it also needs that `index` is at the beginning of a line: the loop takes a newline for an empty line without looking at the one before it.
Assumptions: those of `Text`, `TokenizationsAssumption` and `FormatPairsAssumption`.

**RestServerProofs**, for any set of clients and any limit: `TypeCorrectness`, `ConnectionsHeldOnce`, `StopLeavesNothing`, `CountStaysExact`, `LimitIsAlwaysKept`,
`QuietStopCutsNobodyOff`. They build on each other. `PlaceInv` says where each connection is, given the steps of the two
threads, and who holds the mutex; `StopInv` says what the phases of the shutdown have already emptied.
`CountIsExact` is about every moment, also after the signal, while the accept thread and the main thread clean up after each other; it excludes only a signal that
comes while a client is between accept and its count. It needs more than its own statement: `CountInv` says that a value loaded and not yet stored is still the counter, and it
holds, after the signal as well, because a signal that does not race finds the accept thread outside of its additions and keeps it there (`QuietInv`),
and subtractions are made under the mutex. `RoomInv` bounds the lists and what is in the
threads' hands by the limit, with one place reserved from the moment the accept thread has seen room. `CutInv` follows a polled
zero to the shutdown.

**RestRequestProofs**, for any set of requests and any pieces in which they arrive: `InvHolds`, `RequestAlwaysLivesWhileUsed`, `WholeBodyOrAlwaysTooLarge`,
`ContractIsKept`, `AnswerIsAlwaysWhole` and `UrlFormIsUnderstood`. Nothing about the upload is inductive without the place in the stream: the buffer
and the socket together hold what the client sends after some unit *t* (`Unread`), and the state of the connection, the bytes handed
over and the counters of the upload and of the chunk say which unit *t* is (`AtUnit`, `InBody`). So the library
never takes a chunk header for a byte of the body or the other way round, and the upload is complete when it says so. On top of this stand `KeptInv` (what the application
kept is the beginning of the upload, as long as it stays within the limit, and `remaining` is what the limit leaves), `SeenInv` (before its final call the service has seen nothing: so
an error that the library answers itself, with 413 like the service, is not about the body), and the steps to
`RequestLife`, of which each call is one step or none. `AnswerInv` is about the way back: what was sent is the
beginning of the answer up to `position`, the data that are ready begin before it or there and end where the generator has
been read to (`Sending`); or, for HEAD, nothing is sent and the position is at the end from the beginning (`Pretending`).

`UrlFormIsUnderstood` is about what the post processor makes of an url-encoded form, whatever pieces the network, the chunks and the two buffers cut it into. Four things carry it.
Unescaping is the inverse of what a client does (`EscapedIsUnescaped`), also of a text cut between two escapes; a cut within an escape keeps the
incomplete one back (`Pending`), which is why the reader never unescapes half of it. `UrlLaid` gives each key, value and separator its positions in the form. On these stands `PostInv`: between
two calls the post processor has read the form up to what it was given, and within one up to some unit of the piece; it is inside a key, of which the buffer holds
what was read, or inside a value, of which the parameter holds what is complete and `escape` the rest; and the parameters are those of the fields before, over the arguments of the query.
`UrlDestroyed` is the last value, which only comes when the post processor is destroyed, and `FormAnswered` keeps what the service saw until the end of the answer.

What is assumed of the clients and generators is in `RequestsAssumption` (requests are of the kinds listed; chunks are not empty and make up the upload; only lines
are malformed), `OutputsAssumption` (a generator only appends), `SizesAssumption` (limits and sizes that do not reach the ends of their types) and `NoneAssumption`. Three theorems have hypotheses of their own:

* `ContractIsKept` has `NoneOverruns`: no request announces an empty upload, waits for "100 continue" and sends bytes all the same. For such a request it
  is false (Observations, Server).
* `UrlFormIsUnderstood` has `NoneOverruns`, and `FormsAreReadable`: forms are posted, an url-encoded one begins with its first key, what means something in it is escaped (`Hex` has
  a code for it, of digits that mean nothing themselves: `HexAssumption`), and an escaped key fits into the buffer of the post processor. A client may do otherwise; what becomes
  of it is under Observations. `MCRestRequest` evaluates `FormsAreReadable` and `HexAssumption` for its requests and its code.
* `AnswerIsAlwaysWhole` has `MinGenerated > 0`: korektor's generators ask for 2048 bytes at least. With a minimum of zero a generator
  that has nothing yet would end its answer (`rest_server.cpp:292`).

**Only model-checked**:
* liveness (`EveryCallReturns`, `EveryBlockEnds`, `StopReturns`, `ConnectionEnds`), as neither fairness nor ENABLED is in the
  reach of the prover;
* `MorphologyIsRead`, the way of the analyses through the bits of the packed morphology, which `MCSpellcheckToken` evaluates for its lexicons as an assumption of
  `BestOffersRanked` and `EveryAnalysisOffered`;
* the multipart half of `FormIsUnderstood`: its reader searches for boundaries in a buffer that it refills and whose rest it keeps, so that one would have to carry a
  decomposition of the whole body through all states of the reader and of its skipping. The proof of the url-encoded half does not carry over; `MCRestRequest` checks both.

The recursive functions over numbers and positions, of all modules, are no induction over data: the facts needed about them are proved from the least
counterexample, `LeastExists`.

## 5. Plan

Done, in this order: `Trellis`, `TrellisStages`, `Decoder`; `Alternatives`; `LanguageModel`, `TransitionCost`; `Text`, `Tokenizer`,
`LineFormats`, `Printing`, `Blocks`; `Spellchecker`; `SimilarWords` and what is built on it; `RestServer`; `RestRequest` with
forms; `Configuration`; `PackedStructures`, `Morphology` and their composition with the search; and the proofs of section 4.

Left, in order of importance:
1. The stages of a whole sentence, as `SpellcheckToken` makes them one by one, handed to `Decoder`, whose `Sentences` are now any
   stages that satisfy its assumptions.
2. Widths modulo 2^32 of bit positions, and the packed arrays of the language model.
3. The handlers of `korektor_service`: choice of a model and of formats.

## 6. Not modelled

* Floating point: costs are integers, so that absorption of small numbers in large ones
  (`decoder_base.cpp:197`) is out of sight. Quantised costs that decrease are covered as negative integers.
* Hash collisions of 64-bit ids.
* The bytes and words of the packed arrays: `GetValueAt` reads eight bytes at a byte boundary, perhaps past the end of the array, and masks them. Bit positions
  are numbers here and unsigned of 32 bits in the code, which matters for arrays of half a gigabyte.
* Loading, writing and printing of models; the words of factors (`morpho_word_lists`), which are for debugging; k-means, by which the centers
  of a value mapping are found; `StringArray`, the hash tables and the packed arrays of the language model; the parsing of ARPA files.
* Of libmicrohttpd: the parsing inside of lines, cookies, authentication, TLS, select and epoll modes, thread pools, keep-alive and pipelining, nested
  multiparts. The server starts it with one thread per connection and poll, and every answer ends with the connection.
  Most of its lines are in these parts or in copies of one function per mode.
* pugixml and unilib (third-party; pugixml serves creation tools and XML output), XML and JSON writing, logging.
* Creation and training tools apart from the making of the n-gram tree and of the morphology: offline programs, each of them a straight pass over files.
* `ReadBlock`, the parsing of options, and the output formats vertical and horizontal,
  which keep no state between sentences. The handlers of the service, which choose models and formats and keep none either.
* The lexicon information of tokens apart from what the search uses; the list of noncorrectable words, which nothing loads.
* Scripts and web front ends.
