---------------------------- MODULE DecisionTree ----------------------------
(* The nodes of a decision tree for win/draw/loss values and the operations *)
(* on them (dtnode.cpp, wdlnode.cpp, decisiontree.cpp).  A tree is a        *)
(* function from paths to nodes: <<>> is the root, and FALSE leads to the   *)
(* left child and TRUE to the right one, where the predicate holds.  Costs  *)
(* are floating point numbers; the decisions made from them are choices.    *)
EXTENDS Integers, FiniteSets, FiniteSetsExt, SequencesExt

CONSTANTS Preds,          \* predicates of positions
          NStatsChunks,   \* the positions are looked at in so many chunks
          MaxDepth        \* of the tree

ASSUME TreeAssumption == NStatsChunks \in Nat \ {0} /\ MaxDepth \in Nat \ {0} /\ Preds # {}

(* Loss, blessed loss, draw, cursed win and win for white.                  *)
BlessedLoss == -1
WdlVals == -2 .. 2
NoStats == [v \in WdlVals |-> 0]
IsEmpty(stats) == stats = NoStats
AddStats(a, b) == [v \in WdlVals |-> a[v] + b[v]]
(* Counts of some of the chunks, scaled to all of them and rounded.         *)
ScaleCounts(stats, applied) ==
    [v \in WdlVals |-> (2 * stats[v] * NStatsChunks + applied) \div (2 * applied)]

PredicateNode(p) == [kind |-> "predicate", pred |-> p]
StatsNode(stats) == [kind |-> "stats", stats |-> stats]
EncoderNode(table) == [kind |-> "encoder", table |-> table]
StatsCollector ==
    [kind |-> "collector", applied |-> 0, stats |-> [p \in Preds |-> [b \in BOOLEAN |-> NoStats]]]

NodesOf(tree, kind) == {path \in DOMAIN tree : tree[path].kind = kind}
Collectors(tree) == NodesOf(tree, "collector")
(* The leaf of a position for which the predicates of a set hold.           *)
Leaf(tree, holds) ==
    CHOOSE path \in DOMAIN tree :
        /\ tree[path].kind # "predicate"
        /\ \A n \in DOMAIN path : path[n] = (tree[SubSeq(path, 1, n - 1)].pred \in holds)

(* A collector counts the values of samples for each of its predicates.     *)
ApplyData(node, samples) ==
    [node EXCEPT !.stats = [p \in Preds |-> [b \in BOOLEAN |-> [v \in WdlVals |->
        @[p][b][v] + Cardinality({s \in samples : s.value = v /\ (p \in s.holds) = b})]]]]
ChunkAdded(tree) ==
    [path \in DOMAIN tree |-> IF path \in Collectors(tree)
                              THEN [tree[path] EXCEPT !.applied = @ + 1] ELSE tree[path]]

(* The best predicate replaces a collector: by a node for it with counts    *)
(* for both children, or by the counts alone when one child has none.       *)
(* Children may get a collector of their own.                               *)
Half(tree, best, c, b) == ScaleCounts(tree[c].stats[best[c]][b], tree[c].applied)
Split(tree, best) == {c \in DOMAIN best : \A b \in BOOLEAN : ~IsEmpty(Half(tree, best, c, b))}
Children(tree, best) == {Append(c, b) : c \in Split(tree, best), b \in BOOLEAN}
Replaced(tree, best, grown) ==
    LET split == Split(tree, best)
        children == Children(tree, best)
        half(c, b) == Half(tree, best, c, b)
        node(path) ==
            CASE path \in children \cap grown -> StatsCollector
              [] path \in children \ grown -> StatsNode(half(Front(path), Last(path)))
              [] path \in split -> PredicateNode(best[path])
              [] path \in DOMAIN best \ split ->
                    StatsNode(AddStats(half(path, FALSE), half(path, TRUE)))
              [] OTHER -> tree[path]
    IN  [path \in DOMAIN tree \cup children |-> node(path)]

(* The values in the order of their counts, most frequent first.  An exact  *)
(* table has none for the values that were not counted.                     *)
NoValue == 99
EncTable(stats, approximate) ==
    LET before(u, v) == stats[u] > stats[v] \/ (stats[u] = stats[v] /\ u < v)
        nth(n) == CHOOSE v \in WdlVals : Cardinality({u \in WdlVals : before(u, v)}) = n - 1
    IN  [n \in 1 .. Cardinality(WdlVals) |->
            IF approximate \/ stats[nth(n)] > 0 THEN nth(n) ELSE NoValue]
SubSetOf(table, other) ==
    \A n \in DOMAIN table : (\A m \in 1 .. n : table[m] # NoValue) => table[n] = other[n]
SameEncoding(a, b) ==
    LET encA == EncTable(a, FALSE)
        encB == EncTable(b, FALSE)
    IN  SubSetOf(encA, encB) \/ SubSetOf(encB, encA)

(* Two counting children are merged when that costs little, which is so for *)
(* the paths chosen here, or when they encode alike.  It goes from the      *)
(* leaves upwards, so all of a subtree is merged before its root is.        *)
Below(tree, path) == {p \in DOMAIN tree : IsPrefix(path, p)}
SumStats(tree, path) ==
    [v \in WdlVals |-> MapThenSumSet(LAMBDA leaf : tree[leaf].stats[v],
                                     Below(tree, path) \cap NodesOf(tree, "stats"))]
SimplifyTree(tree, chosen) ==
    LET merges(path) ==
            \/ path \in chosen
            \/ SameEncoding(SumStats(tree, Append(path, FALSE)), SumStats(tree, Append(path, TRUE)))
        merged == {path \in NodesOf(tree, "predicate") :
                    \A p \in Below(tree, path) \cap NodesOf(tree, "predicate") : merges(p)}
        gone == UNION {Below(tree, path) \ {path} : path \in merged}
    IN  [path \in DOMAIN tree \ gone |->
            IF path \in merged THEN StatsNode(SumStats(tree, path)) ELSE tree[path]]
EncoderTree(tree) ==
    [path \in DOMAIN tree |-> IF tree[path].kind = "stats"
                              THEN EncoderNode(EncTable(tree[path].stats, TRUE)) ELSE tree[path]]

(* How many values of the table come before a value.  Those that are worse  *)
(* for the side to move than its best capture are not counted.              *)
CanHave(value, wtm, capt) == IF wtm THEN value >= capt ELSE value <= capt
(* A bug: worse for the other side.                                         *)
EncodeValueBySide(table, wtm, capt, value) ==
    LET last == CHOOSE n \in DOMAIN table : table[n] = value
    IN  Cardinality({n \in 1 .. last - 1 : /\ table[n] # BlessedLoss
                                           /\ CanHave(table[n], ~wtm, capt)})
EncodeValue(table, wtm, capt, value) ==
    LET last == CHOOSE n \in DOMAIN table : table[n] = value
    IN  Cardinality({n \in 1 .. last - 1 : /\ table[n] # BlessedLoss
                                           /\ CanHave(table[n], wtm, capt)})
=============================================================================
