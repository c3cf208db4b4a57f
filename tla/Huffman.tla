------------------------------- MODULE Huffman -------------------------------
(* Huffman codes (huffman.cpp): the lengths of the code words from symbol   *)
(* frequencies, the canonical code with those lengths, and how it is written*)
(* to a bit stream and read back.  A code is [len, default]: len[s] is the  *)
(* length of symbol s (0: no code word), default the only symbol when all   *)
(* lengths are 0, else -1.                                                  *)
EXTENDS BitBuffer, FiniteSets, FiniteSetsExt, SequencesExt, Functions

NoSymbol == -1

(* A tree is [freq, id, depth]; depth tells how deep each of its leaves is. *)
Merged(t, u, id) ==
    [freq |-> t.freq + u.freq, id |-> id,
     depth |-> [s \in DOMAIN t.depth \cup DOMAIN u.depth |->
                    (IF s \in DOMAIN t.depth THEN t.depth[s] ELSE u.depth[s]) + 1]]
(* The queue's order: the lowest frequency first, then the oldest node.     *)
FirstOf(queue) ==
    CHOOSE t \in queue : \A u \in queue : t.freq < u.freq \/ (t.freq = u.freq /\ t.id <= u.id)

(* The two first trees become one; an unused symbol is dropped.             *)
MergeFirst(queue, id) ==
    LET t == FirstOf(queue)
        rest == queue \ {t}
        u == FirstOf(rest)
    IN  IF t.freq = 0 THEN rest ELSE (rest \ {u}) \cup {Merged(t, u, id)}

(* What stands for the only symbol in use: the last one in use.             *)
DefaultSymbolFirst(freq) == 0   \* mutant: not kept
DefaultSymbol(freq) == Max({s \in DOMAIN freq : freq[s] > 0} \cup {0})

ComputePrefixCode(freq) ==
    LET nSym   == Cardinality(DOMAIN freq)
        leaves == {[freq |-> freq[s], id |-> s, depth |-> (s :> 0)] : s \in DOMAIN freq}
        root   == FirstOf(FoldLeft(MergeFirst, leaves, [k \in 1 .. nSym - 1 |-> nSym + k]))
        len    == root.depth @@ [s \in DOMAIN freq |-> 0]
    IN  [len |-> len,
         default |-> IF \E s \in DOMAIN len : len[s] > 0 THEN NoSymbol ELSE DefaultSymbol(freq)]

-----------------------------------------------------------------------------
(* Shorter words come first, and among words of a length smaller symbols;   *)
(* each is the one before plus one, with zeros up to its length.            *)
CodeOrder(len) ==
    LET coded == {s \in DOMAIN len : len[s] > 0}
        before(s) == {t \in coded : len[t] < len[s] \/ (len[t] = len[s] /\ t < s)}
    IN  [k \in 1 .. Cardinality(coded) |-> CHOOSE s \in coded : Cardinality(before(s)) = k - 1]
SymBits(len) ==
    LET Next(acc, s) ==
            LET bits == IF acc.words = <<>> THEN 0 ELSE (acc.bits + 1) * 2^(len[s] - acc.len)
            IN  [bits |-> bits, len |-> len[s], words |-> (s :> bits) @@ acc.words]
    IN  FoldLeft(Next, [bits |-> 0, len |-> 0, words |-> <<>>], CodeOrder(len)).words

EncodeSymbol(code, bits, w, s) ==
    IF code.len[s] = 0 THEN w ELSE WriteBits(w, bits[s], code.len[s])

(* The tree is walked bit by bit until there is no node below; a child that *)
(* is missing is read as symbol 0.                                          *)
DecodeSymbol(code, bits, r) ==
    LET below(n, v) == {s \in DOMAIN bits : code.len[s] > n /\ Shr(bits[s], code.len[s] - n) = v}
        leaf(n, v) == {s \in DOMAIN bits : code.len[s] = n /\ bits[s] = v}
        step[n \in Nat] ==
            LET before == step[n - 1]
                bit == ReadBit(before.r)
            IN  IF n = 0 THEN [r |-> r, v |-> 0] ELSE [r |-> bit, v |-> 2 * before.v + bit.val]
        n == CHOOSE d \in 1 .. BufBits : /\ below(d, step[d].v) = {}
                                         /\ \A e \in 1 .. d - 1 : below(e, step[e].v) # {}
        last == step[n]
    IN  IF code.default # NoSymbol THEN [r EXCEPT !.val = code.default]
        ELSE [last.r EXCEPT !.val = IF leaf(n, last.v) = {} THEN 0 ELSE CHOOSE s \in leaf(n, last.v) : TRUE]

-----------------------------------------------------------------------------
(* The number of symbols, the number of bits of a length, and the lengths;  *)
(* when there are none the default symbol.                                  *)
CodeToBitBuf(code, w) ==
    LET nSym    == Cardinality(DOMAIN code.len)
        lenBits == BitsIn(Max(Range(code.len)))
        header  == WriteU64(WriteU64(w, nSym), lenBits)
        lengths == FoldLeft(LAMBDA x, k : WriteBits(x, code.len[k - 1], lenBits), header,
                            [k \in 1 .. nSym |-> k])
    IN  IF lenBits = 0 THEN WriteU64(lengths, code.default) ELSE lengths

(* The code, and the reader after it.                                       *)
CodeFromBitBuf(r) ==
    LET count   == ReadU64(r)
        lenBits == ReadU64(count)
        field[k \in Nat] == IF k = 0 THEN lenBits ELSE ReadBits(field[k - 1], lenBits.val)
        len     == [s \in 0 .. count.val - 1 |-> field[s + 1].val]
        after   == field[count.val]
        last    == ReadU64(after)
    IN  IF lenBits.val = 0 THEN [code |-> [len |-> len, default |-> last.val], r |-> last]
        ELSE [code |-> [len |-> len, default |-> NoSymbol], r |-> after]
=============================================================================
