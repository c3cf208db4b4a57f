---------------------------- MODULE PairGrammar ----------------------------
(* What re-pair compression promises, as a grammar and a text.  The rules   *)
(* give every symbol a byte or a pair of earlier symbols.  A step takes a   *)
(* pair that occurs most often in the text, adds a rule for it, and rewrites*)
(* the text from left to right.  Compression is done when no pair occurs    *)
(* often enough or the table of symbols is full.                            *)
EXTENDS Integers, Sequences, FiniteSets

CONSTANTS Texts,      \* the byte sequences that may be compressed
          MinFreq, MaxSyms

VARIABLES rules, text, done
vars == <<rules, text, done>>

BytesOf(bytes) == {bytes[k] : k \in DOMAIN bytes}
(* The symbol of a byte is the number of smaller bytes in use.              *)
SymbolOf(bytes, v) == Cardinality({w \in BytesOf(bytes) : w < v})
PrimitiveRules(bytes) ==
    [k \in 1 .. Cardinality(BytesOf(bytes)) |->
        <<"byte", CHOOSE v \in BytesOf(bytes) : SymbolOf(bytes, v) = k - 1>>]

PairAt(k) == <<text[k], text[k + 1]>>
Pairs == {PairAt(k) : k \in 1 .. Len(text) - 1}
Occurrences(p) == Cardinality({k \in 1 .. Len(text) - 1 : PairAt(k) = p})

(* All occurrences of p that do not overlap one further left become z.      *)
Rewritten(p, z) ==
    LET from[k \in 1 .. Len(text) + 1] ==
            CASE k > Len(text) -> <<>>
              [] k < Len(text) /\ PairAt(k) = p -> <<z>> \o from[k + 2]
              [] OTHER -> <<text[k]>> \o from[k + 1]
    IN  from[1]

Init == rules = <<>> /\ text = <<>> /\ done = FALSE

Load ==
    /\ rules = <<>>
    /\ \E bytes \in Texts :
        /\ rules' = PrimitiveRules(bytes)
        /\ text' = [k \in DOMAIN bytes |-> SymbolOf(bytes, bytes[k])]
    /\ UNCHANGED done

Rewrite(p) ==
    /\ ~done /\ Len(rules) < MaxSyms
    /\ rules' = Append(rules, p) /\ UNCHANGED done
    /\ Occurrences(p) >= MinFreq
    /\ \A q \in Pairs : Occurrences(q) <= Occurrences(p)
    /\ text' = Rewritten(p, Len(rules))

Finish ==
    /\ Len(rules) >= MaxSyms \/ \A q \in Pairs : Occurrences(q) < MinFreq
    /\ done' = TRUE /\ UNCHANGED <<rules, text>>

Next == Load \/ (\E p \in Pairs : Rewrite(p)) \/ Finish
Spec == Init /\ [][Next]_vars
=============================================================================
