----------------------------- MODULE Morphology -----------------------------
(***************************************************************************)
(* The morphology of a model: create_morphology writes the analyses of all *)
(* forms, a tree with a level for each factor, as one array of bits from   *)
(* which all that can be known otherwise is left out, and                  *)
(* Morphology::GetMorphology reads the analyses of a form back.            *)
(*                                                                         *)
(* Levels count from 0, the form, and a node is the sequence of the        *)
(* identifiers on the path to it, so that a node of level l has l + 1.     *)
(* A morpholex is a sequence of entries: names, one for each factor, and   *)
(* count, 0 if the line has none.                                          *)
(***************************************************************************)
EXTENDS PackedStructures

CONSTANTS
  num_factors,
  SpecialNames,        \* <s>, </s> and <unk>
  GroupCheck,          \* 10 in the code
  GroupOverhead,       \* 16 in the code
  EmissionCost(_, _),  \* of the counts of the form with a factor and of all
  Centers,             \* of the value mapping, sorted
  CostBits             \* 8 in the code

ASSUME MorphologyAssumption ==
  /\ num_factors \in Nat \ {0} /\ GroupCheck \in Nat \ {0} /\ GroupOverhead \in Nat
  /\ Len(SpecialNames) = 3 /\ IsInjective(SpecialNames)
  /\ Len(Centers) = 2 ^ CostBits
  /\ \A k \in 1 .. Len(Centers) - 1 : Centers[k] <= Centers[k + 1]

unknown_word_id == 2
NO_FACTOR == -1
LevelSet == 0 .. num_factors - 1
LevelOf(node) == Len(node) - 1

-----------------------------------------------------------------------------
(* The special entries come first and have their name in every factor.     *)
Entries(morpholex) ==
  [k \in 1 .. 3 |-> [names |-> [l \in 1 .. num_factors |-> SpecialNames[k]], count |-> 0]]
    \o morpholex

(* The names of a factor in the order of their identifiers.                *)
Vocabulary(morpholex, level) ==
  FoldLeft(LAMBDA known, entry :
             IF entry.names[level + 1] \in Range(known) THEN known
             ELSE Append(known, entry.names[level + 1]),
           <<>>, Entries(morpholex))

PathOf(morpholex, names) ==
  [k \in 1 .. num_factors |->
     (CHOOSE j \in DOMAIN Vocabulary(morpholex, k - 1) :
        Vocabulary(morpholex, k - 1)[j] = names[k]) - 1]

(* The variables of create_morphology: a path and a count for each line,   *)
(* and the tree as the set of its nodes.                                   *)
Collected(morpholex) ==
  LET entries == Entries(morpholex)
      paths   == [k \in DOMAIN entries |-> PathOf(morpholex, entries[k].names)]
  IN  [paths  |-> paths,
       counts |-> [k \in DOMAIN entries |-> entries[k].count],
       tree   |-> UNION {{SubSeq(path, 1, n) : n \in 1 .. num_factors} :
                           path \in Range(paths)}]

IsBefore(x, y) ==
  \E k \in DOMAIN x : x[k] < y[k] /\ \A j \in 1 .. k - 1 : x[j] = y[j]

InOrder(nodes) ==
  [k \in 1 .. Cardinality(nodes) |->
     CHOOSE node \in nodes :
       Cardinality({other \in nodes : IsBefore(other, node)}) = k - 1]

(* The nodes of a level, and the identifiers of the children of a node.    *)
Level(cm, level) == InOrder({node \in cm.tree : LevelOf(node) = level})

Children(cm, node) ==
  LET below == InOrder({n \in cm.tree : Len(n) = Len(node) + 1 /\ Front(n) = node})
  IN  [k \in DOMAIN below |-> Last(below[k])]

-----------------------------------------------------------------------------
(* AddCount counts every node once and every line ten times its count.     *)
Counted(cm, level, forms, factor_id) ==
  LET IsOne(path) == path[1] \in forms /\ path[level + 1] = factor_id
  IN  Cardinality({node \in cm.tree : LevelOf(node) = level /\ IsOne(node)})
        + MapThenSumSet(LAMBDA k : 10 * cm.counts[k],
                        {k \in DOMAIN cm.paths : IsOne(cm.paths[k])})

CostOfFactor(cm, form_id, level, factor_id) ==
  EmissionCost(Counted(cm, level, {form_id}, factor_id),
               Counted(cm, level, {path[1] : path \in Range(cm.paths)}, factor_id))

Distance(left, right) == IF left < right THEN right - left ELSE left - right

GetCenterID(value) ==
  LET search[left \in Nat, right \in Nat] ==
        LET index == (left + right) \div 2
        IN  CASE right - left > 1 /\ Centers[index + 1] < value -> search[index, right]
              [] right - left > 1 /\ Centers[index + 1] >= value -> search[left, index]
              [] OTHER ->
                   IF Distance(Centers[left + 1], value) < Distance(Centers[right + 1], value)
                   THEN left ELSE right
  IN  search[0, Len(Centers) - 1]

GetDouble(center) == Centers[center + 1]

-----------------------------------------------------------------------------
BitsPerValue(cm, level) ==
  Needed(Max({Last(node) : node \in Range(Level(cm, level))}))

MaxChildren(cm, level) ==
  Needed(Max({Len(Children(cm, node)) - 1 : node \in Range(Level(cm, level))}))

(* The sets of children that nodes of a level have, as long as they seem   *)
(* to be worth it: that is looked at when their number is a multiple.      *)
MakeGrouping(cm, level) ==
  LET nodes == Level(cm, level)
      below == Level(cm, level + 1)
      nongrouped_bits_needed ==
        Len(nodes) * MaxChildren(cm, level) + Len(below) * BitsPerValue(cm, level + 1)
      grouped_bits_needed(groups) ==
        Len(nodes) * Needed(Len(groups) - 1)
          + Len(FlattenSeq(groups)) * BitsPerValue(cm, level + 1)
          + Len(groups) * GroupOverhead
      WithGroup(groups, group) ==
        LET longer == Append(groups, group)
        IN  [groups  |-> longer,
             refused |-> /\ Len(longer) % GroupCheck = 0
                         /\ grouped_bits_needed(longer) * 2 > nongrouped_bits_needed]
  IN  FoldLeft(LAMBDA made, node :
                 IF made.refused \/ Children(cm, node) \in Range(made.groups) THEN made
                 ELSE WithGroup(made.groups, Children(cm, node)),
               [groups |-> <<>>, refused |-> FALSE], nodes)

Groups(cm) ==
  [level \in {l \in LevelSet \ {0} : ~MakeGrouping(cm, l - 1).refused} |->
     MakeGrouping(cm, level - 1).groups]

(* The factor of a level is the same wherever that of another is.          *)
Determines(cm, governing, level) ==
  \A x, y \in Range(Level(cm, level)) :
    x[governing + 1] = y[governing + 1] => Last(x) = Last(y)

GoverningOf(cm, level) ==
  {l \in 0 .. level - 1 : Determines(cm, l, level)}

(* Of a level that is not grouped: by the smallest level that does.        *)
Dependencies(cm, groups) ==
  [level \in {l \in LevelSet \ (DOMAIN groups \union {0}) : GoverningOf(cm, l) # {}} |->
     LET SizeOf(l) == Len(Level(cm, l))
         governing == Min({l \in GoverningOf(cm, level) :
                             \A other \in GoverningOf(cm, level) : SizeOf(l) <= SizeOf(other)})
         nodes == Range(Level(cm, level))
     IN  [governing_factor |-> governing,
          dependency_mapping |->
            PackedArray([k \in 1 .. 1 + Max({x[governing + 1] : x \in nodes}) |->
                           Last(CHOOSE x \in nodes : x[governing + 1] = k - 1)])]]

-----------------------------------------------------------------------------
IsDependant(model, level) == level \in DOMAIN model.dependencies
IsGrouped(model, level) == level \in DOMAIN model.groupings

(* What save_node writes of a node: the cost, its factor and the number or *)
(* group of its children, unless they follow from elsewhere.               *)
SavedItself(cm, model, groups, node) ==
  LET level == LevelOf(node)
      cost  == <<GetCenterID(CostOfFactor(cm, node[1], level, Last(node))), CostBits>>
      below == IF IsGrouped(model, level + 1)
               THEN CHOOSE k \in DOMAIN groups[level + 1] :
                      groups[level + 1][k] = Children(cm, node)
               ELSE Len(Children(cm, node))
  IN  (IF level > 0 THEN <<cost>> ELSE <<>>)
        \o (IF level > 0 /\ ~IsGrouped(model, level) /\ ~IsDependant(model, level)
            THEN << <<Last(node), model.bits_per_value[level + 1]>> >> ELSE <<>>)
        \o (IF level + 1 < num_factors /\ ~IsDependant(model, level + 1)
            THEN << <<below - 1, model.bits_per_children[level + 1]>> >> ELSE <<>>)

(* bits_used counts the number of children of a dependent level too, which *)
(* is not written: there is one child, and its number has no bits.         *)
SaveNode(cm, model, groups, form) ==
  LET saved[node \in cm.tree] ==
        FoldLeft(LAMBDA done, child :
                   [values    |-> done.values \o saved[Append(node, child)].values,
                    bits_used |-> done.bits_used + saved[Append(node, child)].bits_used],
                 LET itself == SavedItself(cm, model, groups, node)
                 IN  [values    |-> itself,
                      bits_used |->
                        FoldLeft(LAMBDA sum, value : sum + value[2], 0, itself)
                          + (IF IsDependant(model, LevelOf(node) + 1)
                             THEN model.bits_per_children[LevelOf(node) + 1] ELSE 0)],
                 Children(cm, node))
  IN  saved[<<form>>]

Grouping(groups) ==
  [group_values  |-> PackedArray(FlattenSeq(groups)),
   group_offsets |->
     CompIncreasingArray([k \in DOMAIN groups |-> Len(FlattenSeq(SubSeq(groups, 1, k - 1)))],
                         Len(FlattenSeq(groups)) - 1)]

BuildMorphology(cm) ==
  LET groups == Groups(cm)
      tables ==
        [dependencies   |-> Dependencies(cm, groups),
         groupings      |-> [level \in DOMAIN groups |-> Grouping(groups[level])],
         bits_per_value |-> [k \in 1 .. num_factors |-> BitsPerValue(cm, k - 1)],
         bits_per_children |->
           [k \in 1 .. num_factors - 1 |->
              IF k \in DOMAIN groups THEN Needed(Len(groups[k]) - 1)
              ELSE MaxChildren(cm, k - 1)]]
      saved  == [k \in DOMAIN Level(cm, 0) |-> SaveNode(cm, tables, groups, k - 1)]
      bits_used(n) == FoldLeft(LAMBDA sum, form : sum + form.bits_used, 0, SubSeq(saved, 1, n))
  IN  [tables       |-> tables,
       form_offsets |->
         CompIncreasingArray([k \in DOMAIN saved |-> bits_used(k - 1)],
                             bits_used(Len(saved)) - 1),
       morpho_data  |-> BitArray(FlattenSeq([k \in DOMAIN saved |-> saved[k].values]))]

-----------------------------------------------------------------------------
GroupMembers(grouping, group_id) ==
  LET pair == FirstLastPair(grouping.group_offsets, group_id)
  IN  [k \in 1 .. pair[2] - pair[1] + 1 |->
         PackedAt(grouping.group_values, pair[1] + k - 1)]

(* The entry of a level; entries of later levels are no longer looked at.  *)
Placed(level, list, value) == Append(SubSeq(list, 1, level), value)

(* The calls share the list of factors and the offset into the bits; r has *)
(* both, and ret.  A level that is not enabled is read over.               *)
ReadCost(model, enabled, level, r) ==
  LET cost == IF level \in enabled
              THEN GetDouble(ValueAt(model.morpho_data, r.bit_offset, CostBits)) ELSE 0
  IN  IF level = 0 THEN r
      ELSE [r EXCEPT !.emission_costs = Placed(level, @, cost), !.bit_offset = @ + CostBits]

ReadFactor(model, level, r, next_factor) ==
  LET dependency == model.tables.dependencies[level]
      bits       == model.tables.bits_per_value[level + 1]
  IN  CASE next_factor # NO_FACTOR -> [r EXCEPT !.factors = Placed(level, @, next_factor)]
        [] next_factor = NO_FACTOR /\ IsDependant(model.tables, level) ->
             [r EXCEPT !.factors =
                Placed(level, @, PackedAt(dependency.dependency_mapping,
                                      @[dependency.governing_factor + 1]))]
        [] next_factor = NO_FACTOR /\ ~IsDependant(model.tables, level) /\ level > 0 ->
             [r EXCEPT !.factors = Placed(level, @, ValueAt(model.morpho_data, r.bit_offset, bits)),
                       !.bit_offset = @ + bits]
        [] OTHER -> r

(* The factors of the calls for the children, where they are known.        *)
NextFactors(model, level, r) ==
  LET bits  == model.tables.bits_per_children[level + 1]
      value == ValueAt(model.morpho_data, r.bit_offset, bits)
  IN  CASE level + 1 = num_factors -> <<>>
        [] level + 1 # num_factors /\ IsDependant(model.tables, level + 1) -> <<NO_FACTOR>>
        [] level + 1 # num_factors /\ IsGrouped(model.tables, level + 1) ->
             GroupMembers(model.tables.groupings[level + 1], value)
        [] OTHER -> [k \in 1 .. value + 1 |-> NO_FACTOR]

ReadChildren(model, level, r) ==
  [r EXCEPT !.bit_offset =
     IF level + 1 = num_factors \/ IsDependant(model.tables, level + 1) THEN @
     ELSE @ + model.tables.bits_per_children[level + 1]]

(* What the calls of GetMorphology_rec pass on.                            *)
AnalysisRead == [factors : Seq(Int), emission_costs : Seq(Int)]
Reading == [bit_offset : Nat, factors : Seq(Int), emission_costs : Seq(Int),
            ret : Seq(AnalysisRead)]

GetMorphologyRec(model, enabled, start, form) ==
  LET Rec[level \in 0 .. num_factors, r \in Reading, next_factor \in Int] ==
        LET here == ReadFactor(model, level, ReadCost(model, enabled, level, r), next_factor)
            after == FoldLeft(LAMBDA read, factor : Rec[level + 1, read, factor],
                              ReadChildren(model, level, here),
                              NextFactors(model, level, here))
        IN  IF level # Max(enabled) THEN after
            ELSE [after EXCEPT !.ret = Append(@,
                    [factors        |-> SubSeq(after.factors, 1, level + 1),
                     emission_costs |-> SubSeq(after.emission_costs, 1, level + 1)])]
  IN  Rec[0, start, form]

(* The analyses of a form, up to the last factor that is enabled: later    *)
(* ones have what was read last and are not looked at.                     *)
GetMorphology(model, enabled, form_id) ==
  IF form_id \notin 0 .. model.form_offsets.num_values - 1 THEN <<>>
  ELSE GetMorphologyRec(model, enabled,
         [bit_offset     |-> CompIncreasingAt(model.form_offsets, form_id),
          factors        |-> <<form_id>>,
          emission_costs |-> <<0>>,
          ret            |-> <<>>], NO_FACTOR).ret
=============================================================================
