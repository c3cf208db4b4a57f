------------------------------- MODULE RePair -------------------------------
(* RePairComp::compress (repair.cpp): the pair with the most occurrences is *)
(* replaced by a new symbol, over and over.  A replacement walks a list of  *)
(* cached positions, or compacts the whole array with one thread-pool task  *)
(* per chunk; neighbouring tasks meet at the chunk borders, where a mutex   *)
(* and the skipFirst flags make them agree.                                 *)
(* Tasks start in any order and any number run at once, so every number of  *)
(* threads is covered.  The frequency deltas of the tasks are added up as   *)
(* they arise: compress reads the sums only after all tasks have ended.     *)
EXTENDS SymbolArray, Huffman

CONSTANTS Cases,      \* what is compressed: [bytes, chunkSize, limit]
          MinFreq, MaxSyms,
          FieldBits       \* bits of a field of the symbol table in the stream (16)

(* maxCache: positions the cache may hold (at least 64M in the code);       *)
(* idxBytes: bytes of a cached position (8); candFloor, candPerSym: the     *)
(* number of candidates may always be the one (128K), or the other (8) times*)
(* the number of free symbols.  Chunks begin at a word of the bit array     *)
(* (symbolarray.cpp:7), or all are in one word, as in a test.               *)
Limits == [maxCache : Nat, idxBytes : Nat, candFloor : Nat, candPerSym : Nat]
ASSUME RePairAssumption ==
    /\ Word >= 12
    /\ \A c \in Cases : /\ c.bytes \in Seq(Byte) \ {<<>>}
                          /\ c.chunkSize \in Nat \ {0} /\ c.limit \in Limits
                          /\ (c.chunkSize % Word = 0 \/ Len(c.bytes) <= Word)
    /\ {MinFreq, MaxSyms} \subseteq Nat \ {0}
    /\ MaxSyms < Base * Base /\ 2^FieldBits >= Base * Base
    /\ FieldBits \in 1 .. BufBits - 1

VARIABLES input,      \* history: the bytes compress was given
          limit,
          text,       \* history: the symbols in the array after the last pass
          arr, symbols, cands, cacheSize, comprSize,
          phase,      \* what compress is doing
          cur,        \* the pair <<X, Y>> it is replacing
          toCache,    \* refillCache: pairs to be cached
          toVisit,    \* replacePairsIdxCache: cached positions still to be visited
          delta,      \* DeltaFreq and the replacement count of this pass
          task,       \* replacePairs: the state of the task of each chunk
          mutex,      \* replacePairs: the chunk whose task holds the mutex
          skipFirst

setting == <<input, shape, limit>>   \* never changes
vars == <<setting, text, arr, symbols, cands, cacheSize, comprSize, phase, cur, toCache,
          toVisit, delta, task, mutex, skipFirst>>
table == <<symbols, cands, cacheSize, comprSize>>
parallel == <<task, mutex, skipFirst>>

NoTask == -1
SymId == 0 .. MaxSyms - 1
X == cur[1]
Y == cur[2]
Z == Len(symbols) - 1

(* RePairSymbol: symbol s is symbols[s + 1].                                *)
Primitive(v) == [primitive |-> TRUE, left |-> 0, right |-> v, depth |-> 1]
Composite(l, r, d) == [primitive |-> FALSE, left |-> l, right |-> r, depth |-> d]
PairDepth(s, t) == Max({symbols[s + 1].depth, symbols[t + 1].depth}) + 1

FreqPrio(c) == c.freq * 256 + 255 - c.depth
FreqOf(cs) == [p \in DOMAIN cs |-> cs[p].freq]
Cached(cs) == {p \in DOMAIN cs : cs[p].indices # <<>>}
PositionCount(cs) == [p \in DOMAIN cs |-> Len(cs[p].indices)]

(* Elements of S leave in the order of their key, lowest first and ties in  *)
(* any order, until their weights reach the excess: the sets that may leave.*)
LowestFirst(S, key, weight, excess) ==
    LET Weight(P) == MapThenSumSet(LAMBDA p : weight[p], P)
        Leaves(P) == /\ P # {}
                     /\ \A p \in P, q \in S \ P : key[p] <= key[q]
                     /\ P = S \/ Weight(P) >= excess
                     /\ \E last \in P : /\ \A q \in P : key[q] <= key[last]
                                        /\ Weight(P \ {last}) < excess
    IN  IF excess <= 0 \/ S = {} THEN {{}} ELSE {P \in SUBSET S : Leaves(P)}

(* pruneCache: the sets of pairs whose positions it may drop.               *)
PruneSets(cs, size, maxSize, maxFreq) ==
    LowestFirst({p \in Cached(cs) : cs[p].freq < maxFreq}, FreqOf(cs), PositionCount(cs),
                size - maxSize)
PrunedOnlyInCount(cs, P) == cs   \* mutant: the positions are not dropped
Pruned(cs, P) == [p \in DOMAIN cs |-> IF p \in P THEN [cs[p] EXCEPT !.indices = <<>>] ELSE cs[p]]
(* The number of positions that the pairs of P have cached.                 *)
SizeOf(cs, P) == Cardinality(UNION {{p} \X (1 .. Len(cs[p].indices)) : p \in P})

NoDelta == [AZ |-> [s \in SymId |-> 0], ZB |-> [s \in SymId |-> 0],
            AX |-> [s \in SymId |-> 0], YB |-> [s \in SymId |-> 0],
            vecAZ |-> [s \in SymId |-> <<>>], vecZB |-> [s \in SymId |-> <<>>], nRepl |-> 0]
(* The frequencies change when AXYB becomes AZB; -1 stands for no neighbour.*)
(* (Mutant: the pair YB keeps its frequency.)                               *)
CountReplacedLeft(d, a, b) ==
    LET before == IF a = -1 THEN d ELSE [d EXCEPT !.AZ[a] = @ + 1, !.AX[a] = @ - 1]
        both == IF b = -1 THEN before ELSE [before EXCEPT !.ZB[b] = @ + 1]
    IN  [both EXCEPT !.nRepl = @ + 1]
CountReplaced(d, a, b) ==
    LET before == IF a = -1 THEN d ELSE [d EXCEPT !.AZ[a] = @ + 1, !.AX[a] = @ - 1]
        both == IF b = -1 THEN before ELSE [before EXCEPT !.ZB[b] = @ + 1, !.YB[b] = @ - 1]
    IN  [both EXCEPT !.nRepl = @ + 1]

(* The positions where pair p starts.                                       *)
NextSymbol(s, i) == GetSymbol(s, MoveToNext(s, Iter(s, i)))
Occurs(s, p) == {i \in Positions(s) : SymbolAt(s, i) = p[1] /\ NextSymbol(s, i) = p[2]}

-----------------------------------------------------------------------------
Init ==
    /\ \E c \in Cases : /\ input = c.bytes /\ limit = c.limit
                         /\ shape = [size |-> Len(input), chunkSize |-> c.chunkSize]
    /\ arr \in Constructed([i \in Index |-> input[i + 1]])
    /\ symbols = <<>> /\ cands = <<>> /\ cacheSize = 0 /\ comprSize = Size
    /\ text = <<>> /\ phase = "init" /\ cur = <<0, 0>> /\ toCache = {} /\ toVisit = <<>>
    /\ delta = NoDelta
    /\ task = [c \in Chunk |-> [pc |-> "done"]] /\ mutex = NoTask
    /\ skipFirst = [c \in 0 .. NChunks |-> FALSE]

(* The bytes in use become the primitive symbols 0, 1, ... in order of their*)
(* value, the array is rewritten in terms of them, and the pairs that occur *)
(* often enough are the first candidates.                                   *)
InitSymbols ==
    LET bytes == Ascending({SymbolAt(arr, i) : i \in Index})
        Renamed(i) == CHOOSE s \in 0 .. Len(bytes) - 1 : bytes[s + 1] = SymbolAt(arr, i)
        after == [arr EXCEPT !.data = [i \in Index |-> Renamed(i)]]
        prims == 0 .. Len(bytes) - 1
        frequent == {p \in prims \X prims : Cardinality(Occurs(after, p)) >= MinFreq}
    IN  /\ phase = "init" /\ phase' = "pick"
        /\ symbols' = [k \in 1 .. Len(bytes) |-> Primitive(bytes[k])]
        /\ arr' = after /\ text' = SymbolSeq(after)
        /\ cands' = [p \in frequent |-> [freq |-> Cardinality(Occurs(after, p)), depth |-> 2,
                                         indices |-> <<>>]]
        /\ UNCHANGED <<setting, cacheSize, comprSize, cur, toCache, toVisit, delta, parallel>>

(* The candidate with the highest priority; its positions are first looked  *)
(* up if they are not cached and are few enough.                            *)
Pick(p) ==
    LET c == cands[p]
        refill == c.indices = <<>> /\ c.freq * limit.idxBytes <= Min({limit.maxCache, comprSize})
    IN  /\ phase = "pick" /\ Len(symbols) < MaxSyms
        /\ \A q \in DOMAIN cands : FreqPrio(cands[q]) <= FreqPrio(c)
        /\ cur' = p /\ phase' = IF refill THEN "refill" ELSE "start"
        /\ UNCHANGED <<setting, text, arr, table, toCache, toVisit, delta, parallel>>

Stop ==
    /\ phase = "pick" /\ (DOMAIN cands = {} \/ Len(symbols) >= MaxSyms)
    /\ phase' = "done"
    /\ UNCHANGED <<setting, text, arr, table, cur, toCache, toVisit, delta, parallel>>

(* refillCache takes the pairs without positions, most frequent first, as   *)
(* long as they fit once less frequent positions are dropped.               *)
NewCacheSize == MapThenSumSet(LAMBDA p : cands[p].freq, toCache)
Uncached == DOMAIN cands \ (Cached(cands) \cup toCache)
NextToCache == {p \in Uncached : \A q \in Uncached : cands[q].freq <= cands[p].freq}
Fits(size, p) == size + NewCacheSize + cands[p].freq <= limit.maxCache

RefillConsider(p) ==
    /\ phase = "refill" /\ p \in NextToCache
    /\ \E P \in PruneSets(cands, cacheSize, limit.maxCache - NewCacheSize - cands[p].freq, cands[p].freq) :
        LET size == cacheSize - SizeOf(cands, P)
        IN  /\ cands' = Pruned(cands, P) /\ cacheSize' = size
            /\ IF Fits(size, p) THEN toCache' = toCache \cup {p} /\ UNCHANGED phase
                                ELSE phase' = "fill" /\ UNCHANGED toCache
    /\ UNCHANGED <<setting, text, arr, symbols, comprSize, cur, toVisit, delta, parallel>>

RefillNoMore ==
    /\ phase = "refill" /\ Uncached = {} /\ phase' = "fill"
    /\ UNCHANGED <<setting, text, arr, table, cur, toCache, toVisit, delta, parallel>>

(* Chunk tasks collect the positions of the chosen pairs, which are sorted. *)
RefillFill ==
    LET filled == [p \in DOMAIN cands |->
                    IF p \in toCache THEN [cands[p] EXCEPT !.indices = Ascending(Occurs(arr, p))]
                                     ELSE cands[p]]
    IN  /\ phase = "fill" /\ phase' = "start"
        /\ cands' = filled /\ cacheSize' = cacheSize + SizeOf(filled, toCache) /\ toCache' = {}
        /\ UNCHANGED <<setting, text, arr, symbols, comprSize, cur, toVisit, delta, parallel>>
-----------------------------------------------------------------------------
NewSymbol == Composite(X, Y, PairDepth(X, Y))

(* replacePairsIdxCache: the cached positions in order, the stale ones      *)
(* skipped.                                                                 *)
StartIdxCache ==
    /\ phase = "start" /\ cands[cur].indices # <<>>
    /\ symbols' = Append(symbols, NewSymbol)
    /\ toVisit' = cands[cur].indices /\ delta' = NoDelta /\ phase' = "visit"
    /\ UNCHANGED <<setting, text, arr, cands, cacheSize, comprSize, cur, toCache, parallel>>

VisitIndex ==
    LET i     == Head(toVisit)
        it    == Iter(arr, i)
        itY   == MoveToNext(arr, it)
        idxA  == MoveToPrev(arr, it)
        a     == SymbolAt(arr, idxA)
        b     == GetSymbol(arr, MoveToNext(arr, itY))
        d     == CountReplaced(delta, a, b)
        withA == IF a = -1 THEN d ELSE [d EXCEPT !.vecAZ[a] = Append(@, idxA)]
        withB == IF b = -1 THEN withA ELSE [withA EXCEPT !.vecZB[b] = Append(@, i)]
    IN  /\ phase = "visit" /\ toVisit # <<>> /\ toVisit' = Tail(toVisit)
        /\ IF GetSymbol(arr, it) = X /\ GetSymbol(arr, itY) = Y
           THEN arr' = CombineSymbol(arr, i, itY.idx, Z) /\ delta' = withB
           ELSE UNCHANGED <<arr, delta>>
        /\ UNCHANGED <<setting, text, table, phase, cur, toCache, parallel>>

AllVisited ==
    /\ phase = "visit" /\ toVisit = <<>>
    /\ phase' = "update" /\ text' = SymbolSeq(arr)
    /\ UNCHANGED <<setting, arr, table, cur, toCache, toVisit, delta, parallel>>

(* computeSkipFirst: a chunk that starts inside a run of X skips its first X*)
(* when an odd number of them comes before it.                              *)
FirstIn(s, c) ==
    LET it == IterAtChunk(s, c)
    IN  IF GetSymbol(s, it) = -1 THEN MoveToNext(s, it) ELSE it
XsBefore(s, c) ==
    LET it    == FirstIn(s, c)
        start == FirstIn(s, c - 1).idx
        prev  == {i \in Positions(s) : start <= i /\ i < it.idx}
        run   == {i \in prev : \A j \in prev : j >= i => SymbolAt(s, j) = X}
        inRun == GetSymbol(s, it) = X /\ GetSymbol(s, MoveToNext(s, it)) = X
    IN  CASE ~inRun -> [count |-> 0, all |-> FALSE]
          [] inRun /\ ChunkIdx(start) # c - 1 -> [count |-> 0, all |-> TRUE]
          [] OTHER -> [count |-> Cardinality(run), all |-> run = prev]
SkipNothing(s) == [c \in 0 .. NChunks |-> FALSE]   \* mutant
ComputeSkipFirst(s) ==
    LET before[c \in Chunk] ==
            IF c = 0 THEN 0
            ELSE XsBefore(s, c).count + (IF XsBefore(s, c).all THEN before[c - 1] ELSE 0)
    IN  [c \in 0 .. NChunks |-> X = Y /\ c \in Chunk /\ before[c] % 2 # 0]

StartReplacePairs ==
    /\ phase = "start" /\ cands[cur].indices = <<>>
    /\ symbols' = Append(symbols, NewSymbol)
    /\ skipFirst' = ComputeSkipFirst(arr)
    /\ task' = [c \in Chunk |-> [pc |-> "todo"]] /\ mutex' = NoTask
    /\ delta' = NoDelta /\ phase' = "replace"
    /\ UNCHANGED <<setting, text, arr, cands, cacheSize, comprSize, cur, toCache, toVisit>>

-----------------------------------------------------------------------------
(* The position from which the task of c must hold the mutex again: two     *)
(* symbols before the last word of what precedes the next chunk.  The       *)
(* subtraction wraps around when the last symbol starts in the first word.  *)
(* A scan that finds less than two such symbols in the chunk goes on into   *)
(* earlier ones.  What it finds there makes no difference: an index below   *)
(* beg means, like beg, that the task always holds the mutex.               *)
EndLock(s, c) ==
    LET last == MoveToPrev(s, IterAtChunk(s, c + 1))
        far == {i \in Positions(s) : /\ Beg(c) <= i /\ i < last
                                     /\ (last < Word \/ i + 1 < last - Word)}
    IN  CASE c + 1 >= NChunks -> s.end[c]
          [] c + 1 < NChunks /\ Cardinality(far) < 2 -> Beg(c)
          [] OTHER -> Max(far \ {Max(far)})

(* The task up to its main loop; it takes the mutex first.                  *)
NoSymbols(c) == FirstIn(arr, c).idx >= arr.end[c]

BeginNothing(c) ==
    /\ phase = "replace" /\ task[c].pc = "todo" /\ NoSymbols(c)
    /\ Beg(c) < arr.end[c] => mutex = NoTask
    /\ task' = [task EXCEPT ![c] = [pc |-> "done"]]
    /\ UNCHANGED <<setting, text, arr, table, phase, cur, toCache, toVisit, delta, mutex, skipFirst>>

Begin(c) ==
    LET first == FirstIn(arr, c)
        straddled == first.idx # Beg(c) /\ Beg(c) > 0 /\ Used(arr, Beg(c) - 1)
        out   == IF straddled THEN Beg(c) + 1 ELSE Beg(c)
        s     == GetSymbol(arr, first)
        after == IF skipFirst[c] THEN PutSymbol(arr, out, s) ELSE arr
        itX   == IF skipFirst[c] THEN MoveToNext(arr, first) ELSE first
        itY   == MoveToNext(after, itX)
        itB   == MoveToNext(after, itY)
    IN  /\ phase = "replace" /\ task[c].pc = "todo" /\ ~NoSymbols(c)
        /\ mutex = NoTask /\ mutex' = c
        /\ arr' = after
        /\ task' = [task EXCEPT ![c] =
            [pc |-> "loop", in |-> MoveToNext(after, itB),
             out |-> IF skipFirst[c] THEN PutEnd(out, s) ELSE out,
             a |-> SymbolAt(after, MoveToPrev(after, itX)),
             x |-> GetSymbol(after, itX), idxX |-> itX.idx,
             y |-> GetSymbol(after, itY), idxY |-> itY.idx,
             b |-> GetSymbol(after, itB), idxB |-> itB.idx,
             endLock |-> EndLock(after, c), lastY |-> 0]]
        /\ UNCHANGED <<setting, text, table, phase, cur, toCache, toVisit, delta, skipFirst>>

InLoop(c) == phase = "replace" /\ task[c].pc = "loop" /\ task[c].idxX < arr.end[c]
NeedsMutex(c) == task[c].in.idx >= task[c].endLock
GivesMutexAtOnce(c) == ~NeedsMutex(c) /\ task[c].out >= Beg(c)   \* mutant: no word kept
GivesMutexAlways(c) == task[c].out >= Beg(c) + Word   \* mutant: also near the end
GivesMutex(c) == ~NeedsMutex(c) /\ task[c].out >= Beg(c) + Word

LockTail(c) ==
    /\ InLoop(c) /\ NeedsMutex(c) /\ mutex = NoTask /\ mutex' = c
    /\ UNCHANGED <<setting, text, arr, table, phase, cur, toCache, toVisit, delta, task, skipFirst>>

UnlockMiddle(c) ==
    /\ InLoop(c) /\ GivesMutex(c) /\ mutex = c /\ mutex' = NoTask
    /\ UNCHANGED <<setting, text, arr, table, phase, cur, toCache, toVisit, delta, task, skipFirst>>

CanStep(c) == InLoop(c) /\ (NeedsMutex(c) => mutex = c) /\ (GivesMutex(c) => mutex # c)
AtPair(c) == task[c].x = X /\ task[c].y = Y

(* AXYB becomes AZB; two more symbols are read.                             *)
ReplacePair(c) ==
    LET t == task[c]
        after == PutSymbol(SetUsedIdx(arr, t.idxY, FALSE), t.out, Z)
        itB == MoveToNext(after, t.in)
    IN  /\ CanStep(c) /\ AtPair(c)
        /\ arr' = after /\ delta' = CountReplaced(delta, t.a, t.b)
        /\ task' = [task EXCEPT ![c] =
            [t EXCEPT !.out = PutEnd(t.out, Z), !.lastY = t.idxY, !.a = Z,
                      !.x = t.b, !.idxX = t.idxB,
                      !.y = GetSymbol(after, t.in), !.idxY = t.in.idx,
                      !.b = GetSymbol(after, itB), !.idxB = itB.idx,
                      !.in = MoveToNext(after, itB)]]
        /\ UNCHANGED <<setting, text, table, phase, cur, toCache, toVisit, mutex, skipFirst>>

CopySymbol(c) ==
    LET t == task[c]
        after == PutSymbol(arr, t.out, t.x)
    IN  /\ CanStep(c) /\ ~AtPair(c)
        /\ arr' = after
        /\ task' = [task EXCEPT ![c] =
            [t EXCEPT !.out = PutEnd(t.out, t.x), !.a = t.x,
                      !.x = t.y, !.idxX = t.idxY, !.y = t.b, !.idxY = t.idxB,
                      !.b = GetSymbol(after, t.in), !.idxB = t.in.idx,
                      !.in = MoveToNext(after, t.in)]]
        /\ UNCHANGED <<setting, text, table, phase, cur, toCache, toVisit, delta, mutex, skipFirst>>

(* The chunk now ends at out, where a zero byte that is no symbol follows   *)
(* if there is room.  The chunk that lost its first symbols to this one has *)
(* nothing left to skip.                                                    *)
EndChunk(c) ==
    LET out == task[c].out
        shorter == SetChunkEnd(arr, c, out)
    IN  /\ phase = "replace" /\ task[c].pc = "loop" /\ task[c].idxX >= arr.end[c]
        /\ arr' = IF out < ChunkEnd(c) THEN SetUsedIdx(SetByte(shorter, out, 0), out, FALSE)
                                       ELSE shorter
        /\ skipFirst' = [skipFirst EXCEPT ![Max({c + 1, ChunkIdx(task[c].lastY)})] = FALSE]
        /\ mutex' = IF mutex = c THEN NoTask ELSE mutex
        /\ task' = [task EXCEPT ![c] = [pc |-> "done"]]
        /\ UNCHANGED <<setting, text, table, phase, cur, toCache, toVisit, delta>>

AllReplaced ==
    /\ phase = "replace" /\ \A c \in Chunk : task[c].pc = "done"
    /\ phase' = "update" /\ text' = SymbolSeq(arr)
    /\ UNCHANGED <<setting, arr, table, cur, toCache, toVisit, delta, parallel>>

-----------------------------------------------------------------------------
(* The new pairs that are frequent enough become candidates, those that lost*)
(* too many occurrences stop being candidates, and the cache and the set of *)
(* candidates are cut to their limits.                                      *)
NewFreq == LET d == [delta.AZ EXCEPT ![Z] = @ + delta.ZB[Z]]
           IN  [p \in ((0 .. Z) \X {Z}) \cup ({Z} \X (0 .. Z)) |->
                    IF p[2] = Z THEN d[p[1]] ELSE delta.ZB[p[2]]]
NewIndices(p) == IF p[2] = Z THEN delta.vecAZ[p[1]] ELSE delta.vecZB[p[2]]
NewCands ==
    [p \in {q \in DOMAIN NewFreq : NewFreq[q] >= MinFreq} |->
        [freq |-> NewFreq[p], depth |-> PairDepth(p[1], p[2]), indices |-> NewIndices(p)]]
DeltaOf(p) == (IF p[2] = X THEN delta.AX[p[1]] ELSE 0) + (IF p[1] = Y THEN delta.YB[p[2]] ELSE 0)

(* The replaced pair is no candidate any more, the new ones are.            *)
WithNew(new) ==
    [p \in DOMAIN new \cup (DOMAIN cands \ {cur}) |-> IF p \in DOMAIN new THEN new[p] ELSE cands[p]]
Lowered(cs) == [p \in DOMAIN cs |-> [cs[p] EXCEPT !.freq = @ + DeltaOf(p)]]
(* freq is unsigned: below zero it would wrap around and stay a candidate.  *)
Frequent(cs) == Restrict(cs, {p \in DOMAIN cs : cs[p].freq >= MinFreq \/ cs[p].freq < 0})
MaxCands == Max({limit.candFloor, limit.candPerSym * (MaxSyms - Len(symbols))})

Update ==
    LET added == WithNew(NewCands)
        size == cacheSize - Len(cands[cur].indices) + SizeOf(added, DOMAIN NewCands)
    IN  /\ phase = "update" /\ phase' = "pick"
        /\ \E P \in PruneSets(added, size, limit.maxCache, comprSize) :
            LET lowered == Lowered(Pruned(added, P))
                kept == Frequent(lowered)
                infrequent == DOMAIN lowered \ DOMAIN kept
                sizeKept == size - SizeOf(added, P) - SizeOf(lowered, infrequent)
            IN  \E Q \in LowestFirst(DOMAIN kept, [p \in DOMAIN kept |-> FreqPrio(kept[p])],
                                     [p \in DOMAIN kept |-> 1], Cardinality(DOMAIN kept) - MaxCands) :
                    /\ cands' = Restrict(kept, DOMAIN kept \ Q)
                    /\ cacheSize' = sizeKept - SizeOf(kept, Q)
        /\ comprSize' = comprSize - delta.nRepl
        /\ delta' = NoDelta /\ cur' = <<0, 0>>
        /\ UNCHANGED <<setting, text, arr, symbols, toCache, toVisit, parallel>>

ChunkTask(c) == \/ BeginNothing(c) \/ Begin(c) \/ LockTail(c) \/ UnlockMiddle(c)
                \/ ReplacePair(c) \/ CopySymbol(c) \/ EndChunk(c)
Compress == \/ InitSymbols \/ (\E p \in DOMAIN cands : Pick(p)) \/ Stop
            \/ (\E p \in DOMAIN cands : RefillConsider(p)) \/ RefillNoMore \/ RefillFill
            \/ StartIdxCache \/ VisitIndex \/ AllVisited
            \/ StartReplacePairs \/ AllReplaced \/ Update

Done == phase = "done" /\ UNCHANGED vars
Next == Compress \/ (\E c \in Chunk : ChunkTask(c)) \/ Done

Spec == Init /\ [][Next]_vars
-----------------------------------------------------------------------------
(* What a task takes for granted: the symbols in the used range of a chunk   *)
(* are its own, and the last byte of the last range is not the first of two.*)
(* When a cached pass takes the symbol across a border into another one, the*)
(* range of its chunk still ends behind it; a pass over all chunks may then *)
(* break this.                                                              *)
RangesSound ==
    /\ \A c \in Chunk : \A i \in Beg(c) .. arr.end[c] - 1 : arr.used[i] => ChunkIdx(i) = c
    /\ \A i \in Positions(arr) : i + 1 = arr.end[NChunks - 1] => SymbolAt(arr, i) < Base

(* A symbol is a byte or a pair of older symbols, a candidate a pair of     *)
(* symbols there are.  That the counts are not negative is a part of        *)
(* CandidatesExact.                                                         *)
TypeOK ==
    /\ arr \in SymbolArrays
    /\ \A k \in DOMAIN symbols :
            IF symbols[k].primitive THEN symbols[k].right \in Byte
            ELSE {symbols[k].left, symbols[k].right} \subseteq 0 .. k - 2
    /\ DOMAIN cands \subseteq (0 .. Len(symbols) - 1) \X (0 .. Len(symbols) - 1)
    /\ \A p \in DOMAIN cands : cands[p].freq \in Int
    /\ cacheSize \in Nat /\ comprSize \in Int
    /\ phase \in {"init", "pick", "refill", "fill", "start", "visit", "replace", "update", "done"}
    /\ toCache \subseteq DOMAIN cands
    /\ mutex \in Chunk \cup {NoTask}
    /\ \A c \in Chunk : task[c].pc \in {"todo", "loop", "done"}

(* A symbol is unfolded with a stack of the parts to come.                  *)
UnfoldAll(syms, txt) ==
    LET unfold[stack \in Seq(SymId)] ==
            IF stack = <<>> THEN <<>>
            ELSE LET s == syms[Last(stack) + 1]
                     rest == Front(stack)
                 IN  IF s.primitive THEN <<s.right>> \o unfold[rest]
                     ELSE unfold[rest \o <<s.right, s.left>>]
    IN  FoldLeft(LAMBDA out, sym : out \o unfold[<<sym>>], <<>>, txt)

(* The stream: the table of symbols, with INV on the left of a primitive    *)
(* one, then the code for the symbols that are left, and they in that code. *)
INV == Base * Base - 1
ToBitBuf ==
    LET Field(w, val) == WriteBits(w, val, FieldBits)
        Row(w, s) == Field(Field(w, IF s.primitive THEN INV ELSE s.left), s.right)
        rows == FoldLeft(Row, Field(EmptyWriter, Len(symbols)), symbols)
        freq == [s \in 0 .. Len(symbols) - 1 |-> Cardinality({k \in DOMAIN text : text[k] = s})]
        code == ComputePrefixCode(freq)
        bits == SymBits(code.len)
        head == WriteU64(CodeToBitBuf(code, rows), Len(text))
    IN  GetBuf(FoldLeft(LAMBDA w, s : EncodeSymbol(code, bits, w, s), head, text))

Times(n) == [k \in 1 .. n |-> k]
(* Both return what they read as out, and the reader after it as r.         *)
SymbolsFromBuf(count) ==
    LET Row(acc, k) ==
            LET left == ReadBits(acc.r, FieldBits)
                right == ReadBits(left, FieldBits)
            IN  [r |-> right,
                 out |-> Append(acc.out, [primitive |-> left.val = INV, left |-> left.val,
                                          right |-> right.val])]
    IN  FoldLeft(Row, [r |-> count, out |-> <<>>], Times(count.val))
TextFromBuf(code, bits, nSyms) ==
    LET Sym(acc, k) == LET r == DecodeSymbol(code, bits, acc.r)
                       IN  [r |-> r, out |-> Append(acc.out, r.val)]
    IN  FoldLeft(Sym, [r |-> nSyms, out |-> <<>>], Times(nSyms.val))
(* deCompressAll returns bytes; no word behind the end of buf is read.      *)
DeCompressesTo(buf, bytes) ==
    \E syms \in {SymbolsFromBuf(ReadBits(Reader(buf), FieldBits))} :
    \E coded \in {CodeFromBitBuf(syms.r)} :
    \E result \in {TextFromBuf(coded.code, SymBits(coded.code.len), ReadU64(coded.r))} :
        UnfoldAll(syms.out, result.out) = bytes /\ ~result.r.past

(* Whatever was compressed can be decompressed: after every pass the text   *)
(* in the array unfolds to the bytes compress was given.                    *)
Lossless ==
    phase # "init" => /\ \A k \in DOMAIN text : text[k] \in 0 .. Len(symbols) - 1
                      /\ UnfoldAll(symbols, text) = input

(* The stream that toBitBuf writes of the result, with its Huffman code, is *)
(* read back by deCompressAll as the bytes compress was given, and no word  *)
(* behind its end is read.                                                  *)
StreamReadsBack ==
    phase = "done" => DeCompressesTo(ToBitBuf, input)

Count(p) == Cardinality({k \in 1 .. Len(text) - 1 : text[k] = p[1] /\ text[k + 1] = p[2]})

(* All positions fit in the cache, and all pairs in the set of candidates.  *)
Roomy == limit.maxCache >= Size /\ limit.candFloor >= Size

(* comprSize is the number of symbols left.                                 *)
FrequenciesExact ==
    comprSize = Len(text) /\ \A p \in DOMAIN cands : cands[p].freq = Count(p)
CacheSizeExact == cacheSize = SizeOf(cands, DOMAIN cands)
CacheCovers ==
    \A p \in Cached(cands) :
        /\ Occurs(arr, p) \subseteq Range(cands[p].indices)
        /\ \A k \in 1 .. Len(cands[p].indices) - 1 : cands[p].indices[k] < cands[p].indices[k + 1]

(* The bookkeeping by differences never drifts.  After each pass a          *)
(* candidate's frequency is the number of places where its pair occurs;     *)
(* cacheSize is always what its comment says, the sum of indices.size() over*)
(* all candidates, through refills, prunings and erasures; and while        *)
(* everything fits in the cache, the positions of a cached pair cover all   *)
(* its occurrences, in order, although the pairs around them change.        *)
CandidatesExact ==
    /\ CacheSizeExact
    /\ phase = "pick" => FrequenciesExact /\ (Roomy => CacheCovers)

-----------------------------------------------------------------------------
(* The words of usedIdx that the next iteration of a task, its prologue or  *)
(* its end reads and writes.                                                *)
Words(I) == {i \div Word : i \in I \cap (0 .. BitCount - 1)}
WillBegin(c) == task[c].pc = "todo" /\ mutex = NoTask /\ Beg(c) < arr.end[c]
WillEnd(c) == task[c].pc = "loop" /\ task[c].idxX >= arr.end[c]
IterationReads(c) ==
    LET t == task[c]
        n == MoveToNext(arr, t.in)
    IN  t.in.idx .. IF AtPair(c) THEN MoveToNext(arr, n).idx ELSE n.idx
IterationWrites(c) ==
    LET t == task[c]
        val == IF AtPair(c) THEN Z ELSE t.x
    IN  (t.out .. PutEnd(t.out, val) - 1) \cup (IF AtPair(c) THEN {t.idxY} ELSE {})
PrologueReads(c) ==
    LET first == FirstIn(arr, c)
        itB == MoveToNext(arr, MoveToNext(arr, first))
        prev == MoveToPrev(arr, first)
        scan == IF c + 1 < NChunks THEN Min({EndLock(arr, c), Beg(c + 1)}) .. Beg(c + 1) - 1 ELSE {}
    IN  IF NoSymbols(c) THEN Beg(c) .. first.idx
        ELSE (Max({prev, 0}) .. MoveToNext(arr, MoveToNext(arr, itB)).idx) \cup scan
PrologueWrites(c) == IF skipFirst[c] /\ ~NoSymbols(c) THEN Beg(c) .. Beg(c) + 2 ELSE {}

Reads(c) ==
    CASE WillBegin(c) -> Words(PrologueReads(c))
      [] WillEnd(c) -> {}
      [] OTHER -> Words(IterationReads(c))
Writes(c) ==
    CASE WillBegin(c) -> Words(PrologueWrites(c))
      [] WillEnd(c) -> Words({task[c].out})
      [] OTHER -> Words(IterationWrites(c))

(* An iteration that runs without the mutex touches no word of the bit      *)
(* array that another task could be changing, and changes none that another *)
(* task could be reading; but for what the scan for the end lock reads in   *)
(* earlier chunks (see EndLock).                                            *)
NoRace ==
    phase = "replace" => \A c, d \in Chunk :
        c # d /\ CanStep(c) /\ mutex # c /\ (CanStep(d) \/ WillBegin(d) \/ WillEnd(d))
            => Writes(c) \cap (Reads(d) \cup Writes(d)) = {} /\ Reads(c) \cap Writes(d) = {}

(* skipFirst is a vector<bool>, whose elements share words: a task writes   *)
(* its element only while it holds the mutex.                               *)
EndsWithMutex == \A c \in Chunk : phase = "replace" /\ WillEnd(c) => mutex = c

(* The mutex protects what tasks share: words of the bit array near the ends*)
(* of chunks, and skipFirst.                                                *)
MutexDiscipline == NoRace /\ EndsWithMutex

-----------------------------------------------------------------------------
(* What is left to do: the passes to come; in a pass the phases to come; in *)
(* a phase the pairs a refill has to consider, the cached positions to visit*)
(* or, for each chunk task, its begin (-1), the bytes of the array it has to*)
(* pass and its end (Size); and before a task goes on it may have to take   *)
(* the mutex or to give it back.                                            *)
SymbolsToCome == Len(symbols) + 1 .. MaxSyms
Phases == <<"init", "visit", "replace", "update", "pick", "refill", "fill", "start", "done">>
Later(old, new) ==
    \E m, n \in DOMAIN Phases : Phases[m] = old /\ Phases[n] = new /\ m < n
WillPass(c, i) == \/ task[c].pc = "todo"
                  \/ task[c].pc = "loop" /\ (i >= task[c].idxX \/ i = Size)
StepsToCome ==
    CASE phase = "refill"  -> DOMAIN cands \ toCache
      [] phase = "visit"   -> 1 .. Len(toVisit)
      [] phase = "replace" -> {s \in Chunk \X (-1 .. Size) : WillPass(s[1], s[2])}
      [] phase \notin {"refill", "visit", "replace"} -> {}
Waits(c) == (NeedsMutex(c) /\ mutex # c) \/ (GivesMutex(c) /\ mutex = c)
Waiting == {c \in Chunk : InLoop(c) /\ Waits(c)}
Fewer(new, old) == new \subseteq old /\ new # old

(* No livelock: every step leaves less to do, so tasks do not pass the mutex*)
(* to and fro, a refill does not consider pairs for ever, and, as no state  *)
(* is a deadlock, every compression ends.                                   *)
Advances ==
    \/ Fewer(SymbolsToCome', SymbolsToCome)
    \/ SymbolsToCome' \subseteq SymbolsToCome /\ Later(phase, phase')
    \/ UNCHANGED <<symbols, phase>> /\ Fewer(StepsToCome', StepsToCome)
    \/ UNCHANGED <<symbols, phase, StepsToCome>> /\ Fewer(Waiting', Waiting)
EveryStepAdvances == [][Advances]_vars
-----------------------------------------------------------------------------
(* The rules of the abstract grammar: the symbols, without the one whose    *)
(* pair is still being replaced.                                            *)
RuleOf(s) == IF s.primitive THEN <<"byte", s.right>> ELSE <<s.left, s.right>>
Rules == [k \in 1 .. Len(symbols) - (IF phase \in {"visit", "replace"} THEN 1 ELSE 0) |-> RuleOf(symbols[k])]
Texts == {c.bytes : c \in Cases}

Grammar == INSTANCE PairGrammar WITH rules <- Rules, text <- text, done <- phase = "done"

(* While everything fits in the cache, each pass, parallel or by cached     *)
(* positions, is one step of re-pair: a most frequent pair is replaced      *)
(* everywhere, from left to right, as if there were no chunks and no        *)
(* threads, and compress ends only when no frequent pair is left.           *)
ImplementsGrammar == Grammar!Init /\ [][Roomy => Grammar!Next]_(Grammar!vars)
=============================================================================
