---------------------------- MODULE SymbolArray ----------------------------
(* The array of variable-length symbols that re-pair compresses in place    *)
(* (symbolarray.hpp): a byte vector, one "used" bit per byte, and the used  *)
(* range of each chunk.  A used byte starts a symbol; the symbol takes a    *)
(* second byte iff the bit after it is clear.                               *)
(* An array is a value [data, used, end, bitPast, bytePast]: end[c] is      *)
(* Chunk::endUsed.  begUsed stays equal to beg, because only the tests call *)
(* setChunkUsedRange.  bitPast and bytePast stand for what a read one       *)
(* position past the two vectors happens to return.                         *)
EXTENDS Integers, Sequences, FiniteSets, FiniteSetsExt, SequencesExt

CONSTANTS Base,       \* values of a byte (256 in the code)
          Word        \* bits of a word of the BitArray (64 in the code)
ASSUME ArrayAssumption == Base \in Nat \ {0, 1} /\ Word \in Nat \ {0}

(* The bytes in the array and in a chunk, which its constructor is given.   *)
VARIABLE shape
Size == shape.size
ChunkSize == shape.chunkSize

CeilDiv(n, d) == (n + d - 1) \div d

Byte == 0 .. Base - 1
Index == 0 .. Size - 1
BitCount == Word * CeilDiv(Size, Word)

NChunks == CeilDiv(Size, ChunkSize)
Chunk == 0 .. NChunks - 1
Beg(c) == c * ChunkSize
ChunkEnd(c) == Min({Size, Beg(c) + ChunkSize})
ChunkIdx(i) == i \div ChunkSize

SymbolArrays == [data : [Index -> Byte], used : [0 .. BitCount - 1 -> BOOLEAN],
                 end : [Chunk -> 0 .. Size], bitPast : BOOLEAN, bytePast : Byte]

(* A read past the vectors happens only when the bits fill their last word. *)
Constructed(bytes) ==
    {[data |-> bytes, used |-> [i \in 0 .. BitCount - 1 |-> TRUE],
      end |-> [c \in Chunk |-> ChunkEnd(c)], bitPast |-> bit, bytePast |-> byte] :
        bit \in IF Size % Word = 0 THEN BOOLEAN ELSE {TRUE},
        byte \in IF Size % Word = 0 THEN Byte ELSE {0}}

Used(s, i) == IF i < BitCount THEN s.used[i] ELSE s.bitPast
DataAt(s, i) == IF i < Size THEN s.data[i] ELSE s.bytePast
SetUsedIdx(s, i, val) == [s EXCEPT !.used[i] = val]
SetByte(s, i, val) == [s EXCEPT !.data[i] = val]
SetChunkEnd(s, c, e) == [s EXCEPT !.end[c] = e]

-----------------------------------------------------------------------------
(* An iterator keeps the chunk it is in and the end of that chunk's used    *)
(* range as it was when the iterator entered the chunk.                     *)
Iter(s, i) == [idx |-> i, chunk |-> ChunkIdx(i), end |-> s.end[ChunkIdx(i)]]
IterAtChunk(s, c) == Iter(s, Beg(c))

GetSymbol(s, it) ==
    IF it.idx < it.end /\ Used(s, it.idx)
    THEN s.data[it.idx] + (IF Used(s, it.idx + 1) THEN 0 ELSE Base * DataAt(s, it.idx + 1))
    ELSE -1

(* The positions at which some iterator would stop.                         *)
Positions(s) == {i \in Index : i < s.end[ChunkIdx(i)] /\ s.used[i]}

MoveToNext(s, it) ==
    LET here  == {i \in it.idx + 1 .. it.end - 1 : s.used[i]}
        later == {i \in Positions(s) : ChunkIdx(i) > it.chunk}
        last  == IF it.chunk >= NChunks - 1 THEN it.end ELSE s.end[NChunks - 1]
    IN  CASE here # {}  -> [it EXCEPT !.idx = Min(here)]
          [] here = {} /\ later # {} -> Iter(s, Min(later))
          [] OTHER      -> [idx |-> Max({it.idx + 1, last}), chunk |-> NChunks, end |-> last]

(* moveToPrev: the position reached, or -1 when it fails.                   *)
MoveToPrev(s, it) ==
    LET here    == {i \in Beg(it.chunk) .. it.idx - 1 : s.used[i]}
        earlier == {i \in Positions(s) : ChunkIdx(i) < it.chunk}
    IN  CASE here # {} -> Max(here)
          [] here = {} /\ earlier # {} -> Max(earlier)
          [] OTHER -> -1

SymbolAt(s, i) == IF i = -1 THEN -1 ELSE GetSymbol(s, Iter(s, i))

(* putSymbol at position i, and the position it advances to.                *)
PutSymbol(s, i, val) ==
    LET one == SetUsedIdx(SetByte(s, i, val % Base), i, TRUE)
    IN  IF val < Base THEN one
        ELSE SetUsedIdx(SetByte(one, i + 1, val \div Base), i + 1, FALSE)
PutEnd(i, val) == IF val < Base THEN i + 1 ELSE i + 2

CombineSymbolLow(s, idxX, idxY, val) ==   \* mutant: the second byte is not written
    SetUsedIdx(SetByte(s, idxX, val % Base), idxY, FALSE)
CombineSymbol(s, idxX, idxY, val) ==
    SetUsedIdx(SetByte(SetByte(s, idxX, val % Base), idxX + 1, val \div Base), idxY, FALSE)

(* A set of numbers in ascending order.                                     *)
Ascending(S) ==
    [k \in 1 .. Cardinality(S) |-> CHOOSE i \in S : Cardinality({j \in S : j < i}) = k - 1]

(* What an iteration from the first chunk to the last reads.                *)
SymbolSeq(s) ==
    LET order == Ascending(Positions(s))
    IN  [k \in 1 .. Len(order) |-> SymbolAt(s, order[k])]
=============================================================================
