------------------------------ MODULE MCRePair ------------------------------
(* Small instances of RePair for TLC.                                       *)
EXTENDS RePair
Limit(cache, bytes, floor, perSym) ==
    [maxCache |-> cache, idxBytes |-> bytes, candFloor |-> floor, candPerSym |-> perSym]
CaseSet(inputs, size, limits) == [bytes : inputs, chunkSize : {size}, limit : {limits}]

(* All inputs of seven bytes in which every byte value occurs, the first one*)
(* first: every new symbol takes two bytes.  There is room for everything.  *)
AllBytesInputs == {f \in [1 .. 7 -> Byte] : f[1] = 0 /\ Range(f) = Byte}
SmallCases == CaseSet(AllBytesInputs, 3, Limit(20, 4, 20, 8))
(* Those that start with 0 1 0 1; three positions fit in the cache, and few *)
(* candidates are kept, so that both are pruned.                            *)
TightCases == CaseSet({f \in AllBytesInputs : SubSeq(f, 1, 4) = <<0, 1, 0, 1>>}, 3, Limit(3, 1, 4, 1))
(* Chunks long enough for tasks that run without the mutex: a word repeated,*)
(* and a run of one byte across the chunk border.  No position is worth     *)
(* caching.                                                                 *)
Repeated(w) == [k \in 1 .. 67 |-> w[((k - 1) % Len(w)) + 1]]
RunOf1(lo, hi) == [k \in 1 .. 67 |-> IF k - 1 \in lo .. hi THEN 1 ELSE 2 * ((k - 1) % 2)]
LongInputs == {Repeated(<<0, 1, 2>>), Repeated(<<0, 2, 1, 1>>), RunOf1(26, 58), RunOf1(27, 58)}
LongCases == CaseSet(LongInputs, 48, Limit(70, 100, 70, 8))
PassCases == SmallCases \cup TightCases \cup LongCases

(* All inputs of seven bytes over two of the byte values.                   *)
BorderCases ==
    CaseSet({f \in [1 .. 7 -> {0, 1}] : f[1] = 0 /\ Range(f) = {0, 1}}, 3, Limit(20, 2, 20, 8))

(* 0 1 lies across the border of the first two chunks and is replaced by a  *)
(* pass over all chunks, then 2 and the new symbol along cached positions;  *)
(* two positions fit in the cache, so that later pairs have none.           *)
StaleCases == CaseSet({<<1, 2, 0, 1, 2, 0, 1, 1, 0, 1>>}, 3, Limit(2, 1, 20, 8))
=============================================================================
