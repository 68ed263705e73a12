------------------------------ MODULE Lexicon -------------------------------
(***************************************************************************)
(* The lexicon (lexicon/lexicon.cpp): a trie whose nodes are numbered so   *)
(* that the nodes below root_id are the words, and which is stored in      *)
(* three arrays: the characters and targets of all arcs, sorted by node    *)
(* and character, and the offset of the first arc of every node.           *)
(*                                                                         *)
(* Characters are natural numbers, as the order of char16_t matters.  The  *)
(* arrays are indexed from 0, their sequences here from 1.                 *)
(***************************************************************************)
EXTENDS Integers, Sequences, SequencesExt, FiniteSetsExt

NONE == -1

(* The prefixes that are no words get the numbers from num_words on, the   *)
(* root first and then in the order in which the words need them.          *)
AddInnerNodes(nodes, word) ==
  LET known[n \in 0 .. Len(word)] ==
        IF n = 0 THEN nodes
        ELSE LET before == known[n - 1]
             IN  IF SubSeq(word, 1, n) \in Range(before) THEN before
                 ELSE Append(before, SubSeq(word, 1, n))
  IN  known[Len(word)]

(* The node with the number k spells the element k + 1.                    *)
Nodes(words) ==
  LET nodes[k \in 0 .. Len(words)] ==
        IF k = 0 THEN Append(words, <<>>) ELSE AddInnerNodes(nodes[k - 1], words[k])
  IN  nodes[Len(words)]

(* Character and target of the arcs of a node, by their characters.        *)
EdgesOf(nodes, node) ==
  {<<Last(nodes[k]), k - 1>> :
     k \in {k \in DOMAIN nodes : nodes[k] # <<>> /\ Front(nodes[k]) = node}}

ByCharacter(arcs) ==
  [j \in 1 .. Cardinality(arcs) |->
     CHOOSE arc \in arcs : Cardinality({other \in arcs : other[1] < arc[1]}) = j - 1]

ArcsOf(nodes, node) == ByCharacter(EdgesOf(nodes, node))

(* Words are distinct and not empty.                                       *)
BuildLexicon(words) ==
  LET nodes == Nodes(words)
      arcs  == [k \in 1 .. Len(nodes) |-> ArcsOf(nodes, nodes[k])]
      upTo[k \in 0 .. Len(nodes)] == IF k = 0 THEN <<>> ELSE upTo[k - 1] \o arcs[k]
      flat  == upTo[Len(nodes)]
  IN  [num_words      |-> Len(words),
       root_id        |-> Len(words),
       offsets        |-> [k \in 1 .. Len(nodes) |-> Len(upTo[k - 1])],
       arcs_char      |-> [j \in 1 .. Len(flat) |-> flat[j][1]],
       arcs_nextstate |-> [j \in 1 .. Len(flat) |-> flat[j][2]]]

(* Node 0 needs the exception: without arcs its last index would be -1.    *)
FirstLastIndexPair(lexicon, state) ==
  LET last == IF state < Len(lexicon.offsets) - 1
              THEN lexicon.offsets[state + 2] - 1
              ELSE Len(lexicon.arcs_char) - 1
  IN  IF last = -1 THEN <<1, 0>> ELSE <<lexicon.offsets[state + 1], last>>

(* The binary search for an arc.                                           *)
SingleArc(lexicon, state, character) ==
  LET pair == FirstLastIndexPair(lexicon, state)
      arcs == pair[1] .. pair[2]
      search[part \in arcs \X arcs] ==
        LET left     == part[1]
            right    == part[2]
            act      == (left + right) \div 2
            arc_char == lexicon.arcs_char[act + 1]
        IN  CASE arc_char = character -> lexicon.arcs_nextstate[act + 1]
              [] arc_char > character ->
                   IF act \in {left, right} THEN NONE ELSE search[<<left, act>>]
              [] OTHER ->
                   CASE left = right -> NONE
                     [] left = act /\ right = left + 1 -> search[<<right, right>>]
                     [] OTHER -> search[<<act, right>>]
  IN  IF arcs = {} THEN NONE ELSE search[pair]

StateIsWord(lexicon, state) == state < lexicon.root_id

(* The word that is left to spell from a node; start counts from 0.        *)
ContainsSuffix(lexicon, state, word, start) ==
  LET at[k \in start .. Len(word)] ==
        IF k = start THEN state
        ELSE IF at[k - 1] = NONE THEN NONE ELSE SingleArc(lexicon, at[k - 1], word[k])
      end == at[Len(word)]
  IN  IF end # NONE /\ StateIsWord(lexicon, end) THEN end ELSE NONE

GetWordID(lexicon, word) ==
  ContainsSuffix(lexicon, lexicon.root_id, word, 0)

-----------------------------------------------------------------------------
(* What the arrays have to say of the words: the nodes are the beginnings  *)
(* of the words, each has one number, the words the first ones, and from a *)
(* node one arc leads to each node that has one letter more, in the order  *)
(* of these letters.                                                       *)
ArcsAre(lexicon, nodes, state) ==
  LET pair == FirstLastIndexPair(lexicon, state)
      arcs == pair[1] .. pair[2]
      char(j)   == lexicon.arcs_char[j + 1]
      target(j) == lexicon.arcs_nextstate[j + 1]
  IN  /\ pair[1] \in Nat /\ pair[2] \in Nat /\ pair[1] <= pair[2] + 1
      /\ \A j \in arcs :
           /\ char(j) \in Nat /\ target(j) \in 0 .. Len(nodes) - 1
           /\ nodes[target(j) + 1] = Append(nodes[state + 1], char(j))
      /\ \A k \in DOMAIN nodes :
           nodes[k] # <<>> /\ Front(nodes[k]) = nodes[state + 1] =>
             \E j \in arcs : target(j) = k - 1
      /\ \A j, k \in arcs : j < k => char(j) < char(k)

IsTrie(lexicon, words, nodes) ==
  /\ words \in Seq(Seq(Nat)) /\ words # <<>> /\ nodes \in Seq(Seq(Nat))
  /\ IsInjective(nodes)
  /\ Range(nodes) = UNION {{SubSeq(w, 1, n) : n \in 0 .. Len(w)} : w \in Range(words)}
  /\ lexicon.root_id = Len(words) /\ Len(words) < Len(nodes)
  /\ nodes[Len(words) + 1] = <<>>
  /\ \A k \in DOMAIN words : nodes[k] = words[k]
  /\ \A state \in 0 .. Len(nodes) - 1 : ArcsAre(lexicon, nodes, state)
=============================================================================
