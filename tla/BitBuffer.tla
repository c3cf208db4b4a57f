------------------------------ MODULE BitBuffer ------------------------------
(* The bit stream of the table compressor (bitbuffer.hpp): numbers of up to *)
(* a word's bits, packed most significant bit first into words.  The word   *)
(* being filled or emptied is a number below 2^BufBits; shifted-out bits are*)
(* lost.  That words are stored as eight little-endian bytes is left out.   *)
EXTENDS Integers, Sequences

CONSTANT BufBits      \* bits of a word of the stream (64 in the code)
ASSUME BufferAssumption == BufBits \in Nat \ {0, 1}

Shl(val, n) == (val * 2^n) % 2^BufBits
Shr(val, n) == val \div 2^n
(* The number of bits of val: how often it can be halved.                   *)
BitsIn(val) == CHOOSE n \in 0 .. val : val < 2^n /\ (n > 0 => 2^(n - 1) <= val)

-----------------------------------------------------------------------------
(* Only the lowest n bits of data are valid; what a full word left above    *)
(* them is shifted out before data is stored.                               *)
EmptyWriter == [buf |-> <<>>, data |-> 0, n |-> 0]

(* val has at most nBits bits, so that "or" with a shifted word is "+".     *)
WriteBits(w, val, nBits) ==
    IF w.n + nBits < BufBits
    THEN [w EXCEPT !.data = Shl(@, nBits) + val, !.n = @ + nBits]
    ELSE LET left == w.n + nBits - BufBits
         IN  [buf |-> Append(w.buf, Shl(w.data, BufBits - w.n) + Shr(val, left)),
              data |-> val, n |-> left]

(* As many zeros as val has bits, then val; zero is a single one.           *)
WriteU64(w, val) ==
    IF val = 0 THEN WriteBits(w, 1, 1)
    ELSE WriteBits(WriteBits(w, 0, BitsIn(val)), val, BitsIn(val))

GetBuf(w) == IF w.n > 0 THEN Append(w.buf, Shl(w.data, BufBits - w.n)) ELSE w.buf

-----------------------------------------------------------------------------
(* The n valid bits are the highest of data.  A read returns the value and  *)
(* the reader after it; past tells that it has read behind the last word,   *)
(* where there may be anything.                                             *)
Reader(buf) == [buf |-> buf, data |-> 0, n |-> 0, val |-> 0, past |-> FALSE]

ReadData(r) ==
    [r EXCEPT !.buf = IF @ = <<>> THEN @ ELSE Tail(@), !.n = @ + BufBits,
              !.data = IF r.buf = <<>> THEN 0 ELSE Head(r.buf), !.past = @ \/ r.buf = <<>>]

(* A shift by the whole width of a word is a shift by zero on the machines  *)
(* this runs on; data is zero then.                                         *)
ShrTop(data, n) == Shr(data, (BufBits - n) % BufBits)

ReadBits(r, nBits) ==
    LET short == nBits > r.n
        last  == IF short THEN nBits - r.n ELSE nBits
        high  == IF short THEN Shl(ShrTop(r.data, r.n), last) ELSE 0
        full  == IF short THEN ReadData(r) ELSE r
    IN  IF nBits = 0 THEN [r EXCEPT !.val = 0]
        ELSE [full EXCEPT !.val = high + Shr(full.data, BufBits - last),
                          !.data = Shl(full.data, last), !.n = full.n - nBits]

ReadBit(r) ==
    LET full == IF r.n = 0 THEN ReadData(r) ELSE r
    IN  [full EXCEPT !.val = full.data \div 2^(BufBits - 1), !.n = @ - 1, !.data = Shl(@, 1)]

(* The zeros up to the first one are counted.                               *)
ReadU64(r) ==
    LET bit[k \in Nat] == IF k = 0 THEN ReadBit(r) ELSE ReadBit(bit[k - 1])
        zeros == CHOOSE k \in 0 .. BufBits : /\ k = BufBits \/ bit[k].val = 1
                                             /\ \A j \in 0 .. k - 1 : bit[j].val = 0
        rest  == ReadBits(bit[zeros], zeros - 1)
    IN  IF zeros = 0 THEN [bit[0] EXCEPT !.val = 0]
        ELSE [rest EXCEPT !.val = @ + 2^(zeros - 1)]
=============================================================================
