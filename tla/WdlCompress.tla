---------------------------- MODULE WdlCompress ----------------------------
(* wdlDump of WdlCompress (wdlcomp.cpp) with DecisionTree::computeTree: the *)
(* win/draw/loss values of all positions of a material are looked up, those *)
(* that need not be stored are taken out, and a decision tree is grown from *)
(* samples of the rest and encodes it.  The loops over all positions are    *)
(* cut into batches, which are tasks of a thread pool; results are combined *)
(* when the tasks are done, in any order.                                   *)
EXTENDS PosIndex, DecisionTree, FiniteSetsExt

CONSTANTS Tables,              \* materials, and which values they have
          CanTakeKing(_), HasLegalMoves(_),
          CaptureResults(_, _), \* values after each legal capture, for the side to move
          ProbeWdl(_, _),      \* value of a position, for the side to move
          Holds(_, _, _),      \* a predicate of a position and its capture value
          Chunk(_),            \* sample in which a position is looked at
          MinBatch, MaxTasks,  \* 128 * 1024 and 1024
          ActiveWord           \* bits of a word of a bit array (64)

ASSUME BatchAssumption ==
    /\ ActiveWord \in Nat \ {0} /\ MaxTasks \in Nat \ {0}
    /\ MinBatch \in Nat \ {0} /\ MinBatch % ActiveWord = 0

(* What is known of the tables: a value is at least that of each capture.   *)
ASSUME ProbeAssumption ==
    \A t \in Tables : \E m \in {Material(t.white, t.black)} :
        /\ m.size \in Nat
        /\ \A i \in 0 .. m.size - 1 : \E at \in {Index2Pos(m, i)} :
            /\ Chunk(i) \in 0 .. NStatsChunks - 1
            /\ at.valid /\ ~CanTakeKing(at.pos) /\ HasLegalMoves(at.pos) =>
                    /\ ProbeWdl(t, at.pos) \in WdlVals
                    /\ CaptureResults(t, at.pos) \subseteq -2 .. ProbeWdl(t, at.pos)

VARIABLES table,               \* the material, and which of its values
          posIndex,            \* the PosIndex made for it
          position,            \* what index2Pos gives for every index
          data,                \* WDLInfo of every index
          truth,               \* what data was before it was reduced (history)
          best,                \* bestWtm and bestBtm
          active,              \* the indices whose value is to be encoded
          tree, chunkNo,
          code,                \* encoded values; 0 where nothing is encoded
          phase,               \* step of wdlDump and computeTree
          todo,                \* first indices of batches not yet begun
          writer               \* tasks of replaceDontCares
vars == <<table, posIndex, position, data, truth, best, active, tree, chunkNo, code,
          phase, todo, writer>>

-----------------------------------------------------------------------------
Invalid == 3
GameEnd == 4
OptimalCapture == 5
NoInfo == [wdl |-> -2, capt |-> -2, handled |-> FALSE]      \* all bits zero

Size == posIndex.size
Indices == 0 .. Size - 1
CeilDiv(a, b) == (a + b - 1) \div b
BatchSize == Max({MinBatch, CeilDiv(Size, MaxTasks)})
(* A bug: tasks that write the bit array may begin within a word.           *)
WriteBatchSizeAny == BatchSize
WriteBatchSize == Max({MinBatch, (CeilDiv(Size, MaxTasks) \div ActiveWord) * ActiveWord})
Batches(size) == {b \in Indices : b % size = 0}
Batch(b, size) == {i \in Indices : i >= b /\ i < b + size}

Idle == [word |-> 0, register |-> {}, loaded |-> FALSE]
Init ==
    /\ table \in Tables
    /\ posIndex = Material(table.white, table.black)
    /\ position = <<>> /\ code = <<>> /\ truth = <<>>
    /\ data = <<>> /\ best = [wtm |-> -2, btm |-> 2]
    /\ active = {} /\ tree = [path \in {<<>>} |-> StatsCollector] /\ chunkNo = 0
    /\ phase = "start" /\ todo = {} /\ writer = <<>>

-----------------------------------------------------------------------------
WdlBestCapture(pos) ==
    LET value == Max({-2} \cup CaptureResults(table, pos)) IN IF pos.wtm THEN value ELSE -value
WhiteValue(pos) == IF pos.wtm THEN ProbeWdl(table, pos) ELSE -ProbeWdl(table, pos)
(* A winning capture settles the value; else it is looked up.               *)
Probed(info, wtm) == info.capt # (IF wtm THEN 2 ELSE -2)
InfoOf(at) ==
    LET capture == [NoInfo EXCEPT !.capt = WdlBestCapture(at.pos)]
    IN  IF ~at.valid \/ CanTakeKing(at.pos) THEN [NoInfo EXCEPT !.wdl = Invalid]
        ELSE IF ~HasLegalMoves(at.pos) THEN [NoInfo EXCEPT !.wdl = GameEnd]
        ELSE [capture EXCEPT !.wdl = IF Probed(capture, at.pos.wtm) THEN WhiteValue(at.pos)
                                     ELSE capture.capt]
IsValue(info) == info.wdl \in WdlVals

Start ==
    /\ phase = "start"
    /\ position' = [i \in Indices |-> Index2Pos(posIndex, i)]
    /\ data' = [i \in Indices |-> NoInfo] /\ active' = Indices
    /\ phase' = "initialize" /\ todo' = Batches(BatchSize)
    /\ UNCHANGED <<table, posIndex, truth, best, tree, chunkNo, code, writer>>
InitializeData(b) ==
    /\ phase = "initialize" /\ b \in todo
    /\ LET batch == Batch(b, BatchSize)
           values(wtm) == {data'[i].wdl : i \in {j \in batch : /\ IsValue(data'[j])
                                                              /\ position[j].pos.wtm = wtm
                                                              /\ Probed(data'[j], wtm)}}
       IN  /\ data' = [i \in Indices |-> IF i \in batch THEN InfoOf(position[i]) ELSE data[i]]
           /\ best' = [wtm |-> Max({best.wtm} \cup values(TRUE)),
                       btm |-> Min({best.btm} \cup values(FALSE))]
    /\ todo' = todo \ {b}
    /\ UNCHANGED <<table, posIndex, position, truth, active, tree, chunkNo, code, phase, writer>>
DataInitialized ==
    /\ phase = "initialize" /\ todo = {}
    /\ truth' = data
    /\ phase' = "captures" /\ todo' = Batches(BatchSize)
    /\ UNCHANGED <<table, posIndex, position, data, best, active, tree, chunkNo, code, writer>>

(* The best value of the side to move, in any position that was probed.     *)
BestOf(pos) == IF pos.wtm THEN best.wtm ELSE best.btm
ComputeOptimalCaptures(b) ==
    /\ phase = "captures" /\ b \in todo
    /\ data' = [i \in Indices |->
                    IF /\ i \in Batch(b, BatchSize) /\ data[i].wdl \notin {Invalid, GameEnd}
                       /\ data[i].capt = BestOf(position[i].pos)
                    THEN [data[i] EXCEPT !.wdl = OptimalCapture] ELSE data[i]]
    /\ todo' = todo \ {b}
    /\ UNCHANGED <<table, posIndex, position, truth, best, active, tree, chunkNo, code, phase, writer>>
CapturesComputed ==
    /\ phase = "captures" /\ todo = {}
    /\ phase' = "replace"
    /\ writer' = [b \in Batches(WriteBatchSize) |-> [Idle EXCEPT !.word = b \div ActiveWord]]
    /\ UNCHANGED <<table, posIndex, position, data, truth, best, active, tree, chunkNo, code, todo>>

(* A task clears the bits of a word in memory: it loads it and stores it    *)
(* back.  The bits of its positions in one word are cleared together.       *)
Word(w) == {i \in Indices : i \div ActiveWord = w}
InReach(b) == Batch(b, WriteBatchSize) \cap Word(writer[b].word)
DontCares(b) == {i \in InReach(b) : data[i].wdl > 2}
LoadWord(b) ==
    /\ phase = "replace" /\ InReach(b) # {} /\ ~writer[b].loaded
    /\ writer' = [writer EXCEPT ![b].register = active \cap Word(writer[b].word),
                                ![b].loaded = TRUE]
    /\ UNCHANGED <<table, posIndex, position, data, truth, best, active, tree, chunkNo, code,
                   phase, todo>>
ReplaceDontCares(b) ==
    /\ phase = "replace" /\ writer[b].loaded
    /\ data' = [i \in Indices |-> IF i \in DontCares(b) THEN NoInfo ELSE data[i]]
    /\ active' = IF DontCares(b) = {} THEN active
                 ELSE (active \ Word(writer[b].word)) \cup (writer[b].register \ DontCares(b))
    /\ writer' = [writer EXCEPT ![b] = [Idle EXCEPT !.word = writer[b].word + 1]]
    /\ UNCHANGED <<table, posIndex, position, truth, best, tree, chunkNo, code, phase, todo>>
DontCaresReplaced ==
    /\ phase = "replace" /\ \A b \in DOMAIN writer : InReach(b) = {}
    /\ phase' = "stats" /\ writer' = <<>>
    /\ UNCHANGED <<table, posIndex, position, data, truth, best, active, tree, chunkNo, code, todo>>

-----------------------------------------------------------------------------
(* computeTree.  One sample of the positions after the other runs through   *)
(* the tree; a position that ends in a node which only counts is done with. *)
HoldsAt(i) == {p \in Preds : Holds(p, position[i].pos, data[i].capt)}
SampleAt(i) == [at |-> i, holds |-> HoldsAt(i), value |-> data[i].wdl]
Samples == {SampleAt(i) : i \in {j \in active : Chunk(j) = chunkNo /\ ~data[j].handled}}
Reaching(samples, path) == {s \in samples : Leaf(tree, s.holds) = path}
UpdateStats ==
    /\ phase = "stats"
    /\ \E samples \in {Samples} :
        /\ tree' = ChunkAdded([path \in DOMAIN tree |->
                        IF path \in Collectors(tree) THEN ApplyData(tree[path], Reaching(samples, path))
                                                     ELSE tree[path]])
        /\ data' = LET counted == {s \in samples : tree[Leaf(tree, s.holds)].kind = "stats"}
                   IN  [i \in Indices |-> IF \E s \in counted : s.at = i
                                          THEN [data[i] EXCEPT !.handled = TRUE] ELSE data[i]]
    /\ chunkNo' = (chunkNo + 1) % NStatsChunks
    /\ phase' = "select"
    /\ UNCHANGED <<table, posIndex, position, truth, best, active, code, todo, writer>>

(* The sampling error is zero when all samples have been seen.              *)
MustReplace == {c \in Collectors(tree) : tree[c].applied = NStatsChunks}
(* A bug: the depth is not bounded.                                         *)
MayGrowAlways(c) == TRUE
MayGrow(c) == Len(c) + 1 < MaxDepth
(* The collectors that may be replaced now, and where new ones may be.      *)
Selections == {MustReplace \cup more : more \in SUBSET (Collectors(tree) \ MustReplace)}
Growable(chosen) == {c \in chosen : MayGrow(c)}
NextCollectors(chosen) == {Append(c, b) : c \in Growable(chosen), b \in BOOLEAN}
SelectBestPreds ==
    /\ phase = "select"
    /\ \E chosen \in Selections : \E pred \in [chosen -> Preds] :
        \E grown \in SUBSET NextCollectors(chosen) : tree' = Replaced(tree, pred, grown)
    /\ phase' = IF Collectors(tree') # {} THEN "stats" ELSE "simplify"
    /\ UNCHANGED <<table, posIndex, position, data, truth, best, active, chunkNo, code, todo, writer>>
SimplifyAndMakeEncoders ==
    /\ phase = "simplify"
    /\ \E chosen \in SUBSET NodesOf(tree, "predicate") :
            tree' = EncoderTree(SimplifyTree(tree, chosen))
    /\ code' = [i \in Indices |-> 0]
    /\ phase' = "encode" /\ todo' = Batches(BatchSize)
    /\ UNCHANGED <<table, posIndex, position, data, truth, best, active, chunkNo, writer>>

EncodeValues(b) ==
    /\ phase = "encode" /\ b \in todo
    /\ code' = [i \in Indices |->
                    IF i \in Batch(b, BatchSize) \cap active
                    THEN EncodeValue(tree[Leaf(tree, HoldsAt(i))].table, position[i].pos.wtm,
                                     data[i].capt, data[i].wdl)
                    ELSE code[i]]
    /\ todo' = todo \ {b}
    /\ UNCHANGED <<table, posIndex, position, data, truth, best, active, tree, chunkNo, phase, writer>>
ValuesEncoded ==
    /\ phase = "encode" /\ todo = {}
    /\ phase' = "done"
    /\ UNCHANGED <<table, posIndex, position, data, truth, best, active, tree, chunkNo, code, todo, writer>>

(* wdlDump returns.                                                         *)
Terminated == phase = "done" /\ UNCHANGED vars

Next ==
    \/ Start
    \/ \E b \in todo : InitializeData(b) \/ ComputeOptimalCaptures(b) \/ EncodeValues(b)
    \/ \E b \in DOMAIN writer : LoadWord(b) \/ ReplaceDontCares(b)
    \/ DataInitialized \/ CapturesComputed \/ DontCaresReplaced
    \/ UpdateStats \/ SelectBestPreds \/ SimplifyAndMakeEncoders \/ ValuesEncoded
    \/ Terminated
Spec == Init /\ [][Next]_vars

-----------------------------------------------------------------------------
(* The mapping is invertible (posindex.hpp:62): every index that is valid   *)
(* is the index of its position; and every placement of the pieces, whether *)
(* white or black has the stronger ones, has an index in the table whose    *)
(* position is the one returned for it.  Dividing by multiplication is      *)
(* exact for all indices, and no factor is one that a Divider cannot have.  *)
Placements ==
    LET all == {i \in Indices : position[i].valid}
        image(sym, pos) == [pos EXCEPT !.bb = [type \in PieceTypes |->
                                                {SymmetryRemap(sym, sq) : sq \in pos.bb[type]}]]
        images == {image(sym, position[i].pos) : sym \in SymmetryTypes(posIndex.hasPawn), i \in all}
    IN  images \cup {SwapColors(pos) : pos \in images}
IndexInvertible ==
    phase = "initialize" /\ todo = Batches(BatchSize) =>
        /\ \A i \in Indices : position[i].valid => Pos2Index(posIndex, position[i].pos).index = i
        /\ \A pos \in Placements :
                LET found == Pos2Index(posIndex, pos)
                IN  /\ found.index \in Indices /\ position[found.index].valid
                    /\ position[found.index].pos.bb = found.pos.bb
        /\ \A n \in DOMAIN posIndex.factor, i \in Indices :
                /\ DividesExactly(posIndex.factor[n])
                /\ ModDiv(posIndex.factor[n], i) = [q |-> i \div posIndex.factor[n],
                                                    r |-> i % posIndex.factor[n]]

(* Once the reduction is over, a position is left out exactly if its value  *)
(* needs no table: it is not valid, the game is over, or a capture reaches  *)
(* the best that its side ever has.  No update of the shared bit array is   *)
(* lost, and what is left out of the data is found by looking at captures.  *)
DontCaresAreKnown ==
    phase \in {"stats", "select", "simplify", "encode", "done"} =>
        \A i \in Indices :
            /\ i \in active => IsValue(truth[i]) /\ data[i].wdl = truth[i].wdl
            /\ i \notin active =>
                /\ data[i] = NoInfo
                /\ \/ ~IsValue(truth[i])
                   \/ truth[i].wdl = truth[i].capt /\ truth[i].capt = BestOf(position[i].pos)

(* A collector that was given k samples has counted, for every predicate,   *)
(* each active position of the last k samples that reaches it, once.        *)
Counted(c) ==
    Reaching({SampleAt(i) : i \in {j \in active :
                \E n \in 1 .. tree[c].applied : Chunk(j) = (chunkNo - n) % NStatsChunks}}, c)
CollectorsExact ==
    phase \in {"stats", "select"} =>
        \A c \in Collectors(tree) :
            /\ tree[c].applied <= NStatsChunks
            /\ tree[c].stats = ApplyData(StatsCollector, Counted(c)).stats
(* Positions that a reader of the encoded table cannot tell apart, because  *)
(* they have the same leaf, side to move and capture value, have different  *)
(* codes if their values differ.  Blessed losses are excepted: the encoder  *)
(* does not count them (wdlnode.cpp:368), so their code is another value's. *)
Encoded ==
    {[seen |-> <<Leaf(tree, HoldsAt(i)), position[i].pos.wtm, data[i].capt>>,
      value |-> truth[i].wdl, code |-> code[i]] : i \in active}
Decodable ==
    phase = "done" =>
        \A codes \in {Encoded} : \A x, y \in codes :
            /\ x.seen = y.seen /\ x.value # y.value
            /\ BlessedLoss \notin {x.value, y.value}
            => x.code # y.code
(* The statistics that the tree is grown from are exact, and the codes can  *)
(* be decoded with the tree.                                                *)
TreeIsFaithful == CollectorsExact /\ Decodable

(* wdlDump ends: a step begins a later phase, or leaves less to be done in  *)
(* a loop, and what there is to do in a loop is a finite set.  For growing  *)
(* the tree these are the samples that collectors can still be given, those *)
(* that may take their places included: a collector is replaced after at    *)
(* most NStatsChunks samples, and only by deeper ones, above MaxDepth.      *)
Phases == <<"start", "initialize", "captures", "replace", "stats", "select", "simplify", "encode", "done">>
Later(old, new) ==
    \E m, n \in DOMAIN Phases : Phases[m] = old /\ Phases[n] = new /\ m < n
Growing == {"stats", "select"}
TreePaths == UNION {[1 .. n -> BOOLEAN] : n \in 0 .. MaxDepth - 1}
MayCollect(path, k) ==
    \E c \in Collectors(tree) : IsPrefix(c, path) /\ (c = path => tree[c].applied <= k)
SamplesToCome == {s \in TreePaths \X (0 .. NStatsChunks - 1) : MayCollect(s[1], s[2])}
(* Each word is loaded (FALSE) and then stored (TRUE).                      *)
WillWrite(b, w, store) ==
    writer[b].word < w \/ (writer[b].word = w /\ (writer[b].loaded => store))
WordsToCome == {s \in (DOMAIN writer) \X (0 .. Size - 1) \X BOOLEAN : WillWrite(s[1], s[2], s[3])}
Fewer(new, old) == new \subseteq old /\ new # old
Nearer ==
    \/ Later(phase, phase') /\ ~{phase, phase'} \subseteq Growing
    \/ phase = "stats" /\ phase' = "select" /\ Fewer(SamplesToCome', SamplesToCome)
    \/ phase = "select" /\ phase' = "stats" /\ SamplesToCome' \subseteq SamplesToCome
    \/ phase' = phase /\ Fewer(todo', todo)
    \/ phase' = phase /\ phase = "replace" /\ Fewer(WordsToCome', WordsToCome)
StepsLeadToTheEnd == [][Nearer]_vars
=============================================================================
