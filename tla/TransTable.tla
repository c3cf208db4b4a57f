----------------------------- MODULE TransTable -----------------------------
(* TranspositionTable (transpositionTable.hpp, .cpp): a hash table that all *)
(* search threads read and write without a lock, and whose last part holds  *)
(* an endgame table while one is in use.                                    *)
(* A 64-bit word is the set of the things that were xor-ed into it, so a    *)
(* word that no thread stored is never taken for another by chance.         *)
EXTENDS Integers, FiniteSets

CONSTANTS Threads,            \* search threads
          Keys,               \* hash keys of positions
          Contempts,          \* hashes of the contempt settings; {} for none
          Top(_), Low(_),     \* the upper 16 bits of a word, and all bits
          TopRange,           \* values of the upper 16 bits (2^16)
          TopLimit, Ways,     \* 256 and 4; Ways is a power of 2
          TableSizes, TbSize, \* entries of the table, and of an endgame table in it
          MinRest,            \* entries to be left for hashing (2 MB)
          Materials,          \* endgames that fit in an endgame table
          Plies,              \* distances of a node from the root
          Offers(_),          \* what a search may find out about a position
          Parts,              \* how much of it may be written when it is given up
          Garbage,            \* what a word of an endgame table may look like as data
          Generations,        \* 16
          UnusedLimit,        \* 3
          MaxSetups, MaxCalls \* bounds: setups before searches, and calls in them

(* 2 to the power of k.                                                     *)
Pow2[k \in Nat] == IF k = 0 THEN 1 ELSE 2 * Pow2[k - 1]

(* What is left of a table is always large enough for buckets of Ways: the  *)
(* smallest hash table, of 1 MB, has 2^16 entries.                          *)
ASSUME TableAssumption ==
    /\ \E w \in 0 .. Ways : Ways = Pow2[w]
    /\ TopLimit \in Nat \ {0, 1} /\ TopRange \in Nat \ {0} /\ Generations \in Nat \ {0}
    /\ TbSize \in Nat /\ Parts \subseteq 0 .. TbSize
    /\ \A s \in TableSizes \cup {MinRest} : s \in Nat /\ 2 * s >= TopLimit * Ways

VARIABLES table,              \* the entries, each a key word and a data word
          usedSize, generation, contemptHash, notUsedCnt,
          tbGen,              \* the endgame table, or NoTable
          phase,              \* "setup" between searches, or "search"
          thread,             \* what each thread is doing
          setups, calls       \* counted up to the bounds
settings == <<usedSize, generation, contemptHash, notUsedCnt, tbGen>>
vars == <<table, settings, phase, thread, setups, calls>>

-----------------------------------------------------------------------------
Xor(a, b) == (a \ b) \cup (b \ a)
NoMove == "no move"
NoData == [move |-> NoMove, score |-> 0, depth |-> 0, type |-> "EMPTY", gen |-> 0, busy |-> FALSE]
EmptyEntry == [key |-> {}, data |-> NoData]
(* The key word in the table for an entry's key, and back.                  *)
Bits(data) == IF data = NoData THEN {} ELSE {data}
CodedPlain(key, data) == key      \* mutant: the key is stored as it is
Coded(key, data) == Xor(key, Bits(data))

TableSize == Cardinality(DOMAIN table)
(* setUsedSize: usedSize = TopBits * 2^Shift, rounded down.                 *)
Shift == CHOOSE k \in 0 .. usedSize : /\ usedSize \div Pow2[k] < TopLimit
                                      /\ k > 0 => usedSize \div Pow2[k - 1] >= TopLimit
TopBits == usedSize \div Pow2[Shift]
GetIndexOdd(key) ==               \* mutant: the mask keeps the lowest bits
    ((Top(key) * TopBits) \div TopRange) * Pow2[Shift] + (Low(key) % Pow2[Shift])
GetIndex(key) ==
    LET low == Low(key) % Pow2[Shift]
    IN  ((Top(key) * TopBits) \div TopRange) * Pow2[Shift] + (low - (low % Ways))

(* Mate scores count from the root in a search, from the node in the table. *)
MATE0 == 32000
IsWinScore(s) == s > MATE0 \div 2
IsLoseScore(s) == s < -(MATE0 \div 2)
SetScore(s, ply) == IF IsWinScore(s) THEN s + ply ELSE IF IsLoseScore(s) THEN s - ply ELSE s
GetScore(s, ply) == IF IsWinScore(s) THEN s - ply ELSE IF IsLoseScore(s) THEN s + ply ELSE s

(* The words are those of positions' keys, of contempt settings and of data,*)
(* which are all different, and mates are nearer than half of MATE0 plies.  *)
Types == {"EXACT", "GE", "LE"}
Moves == {NoMove} \cup UNION {{o.move : o \in Offers(k)} : k \in Keys}
DataWords == [move : Moves, score : Int, depth : Nat, type : Types \cup {"EMPTY"}, gen : Nat,
              busy : BOOLEAN]
ContemptHashes == Contempts \cup {{}}
HashKeys == {Xor({k}, c) : k \in Keys, c \in ContemptHashes}
ASSUME WordAssumption ==
    /\ Keys \cap UNION Contempts = {} /\ Garbage \subseteq DataWords /\ Plies \subseteq Nat
    /\ \A h \in Keys \cup UNION Contempts : h \notin DataWords \cup [material : Materials, entry : Nat]
    /\ \A key \in HashKeys : Top(key) \in 0 .. TopRange - 1 /\ Low(key) \in Nat
    /\ \A k \in Keys : Offers(k) \subseteq [move : Moves, score : Int, depth : Nat, type : Types]
    /\ \A k \in Keys, ply \in Plies : \A o \in Offers(k) :
          /\ IsWinScore(o.score) => IsWinScore(o.score - ply)
          /\ IsLoseScore(o.score) => IsLoseScore(o.score + ply)

BetterThan(a, b) ==
    LET current(d) == d.gen = generation
        worth(d) == d.depth + (IF d.type = "EXACT" THEN 3 ELSE 0)
    IN  IF current(a) # current(b) THEN current(a) ELSE worth(a) > worth(b)

(* A deeper entry of the same type is kept if it says as much.              *)
DoStore(ent, key, o) ==
    \/ o.busy \/ ent.key # key \/ ent.data.depth <= o.depth \/ ent.data.type # o.type
    \/ o.type = "GE" /\ o.score > GetScore(ent.data.score, o.ply)
    \/ o.type = "LE" /\ o.score < GetScore(ent.data.score, o.ply)
(* The entry that insert stores in place of ent.                            *)
NewEntry(ent, key, o) ==
    [key |-> key,
     data |-> [move |-> IF ent.key # key \/ o.move # NoMove THEN o.move ELSE ent.data.move,
               score |-> SetScore(o.score, o.ply), depth |-> o.depth, type |-> o.type,
               gen |-> generation, busy |-> o.busy]]

-----------------------------------------------------------------------------
Idle == [pc |-> "idle"]
NoTable == [material |-> "none", words |-> NoData, complete |-> FALSE]
Init ==
    /\ \E s \in TableSizes : table = [i \in 0 .. s - 1 |-> EmptyEntry] /\ usedSize = s
    /\ generation = 0 /\ contemptHash = {} /\ notUsedCnt = 0 /\ tbGen = NoTable
    /\ phase = "setup"
    /\ thread = [t \in Threads |-> Idle]
    /\ setups = 0 /\ calls = 0

(* Between searches, and when a search starts, only one thread runs.        *)
Setup == phase = "setup" /\ setups < MaxSetups /\ setups' = setups + 1

ReSize ==
    /\ Setup
    /\ \E s \in TableSizes : table' = [i \in 0 .. s - 1 |-> EmptyEntry] /\ usedSize' = s
    /\ generation' = 0 /\ tbGen' = NoTable /\ notUsedCnt' = 0
    /\ UNCHANGED <<contemptHash, phase, thread, calls>>

Clear ==
    /\ Setup
    /\ table' = [i \in DOMAIN table |-> EmptyEntry] /\ usedSize' = TableSize
    /\ tbGen' = NoTable /\ notUsedCnt' = 0
    /\ UNCHANGED <<generation, contemptHash, phase, thread, calls>>

(* startThread: the contempt of the search, and a new generation.           *)
SetWhiteContempt ==
    /\ Setup
    /\ contemptHash' \in Contempts
    /\ generation' = (generation + 1) % Generations
    /\ UNCHANGED <<table, usedSize, notUsedCnt, tbGen, phase, thread, calls>>

(* A search may start without a look at endgame tables, or when there is not *)
(* the time, or the room, to generate one.                                   *)
StartSearch ==
    /\ phase = "setup" /\ phase' = "search"
    /\ UNCHANGED <<table, settings, thread, setups, calls>>

(* updateTB for a position that has too many pieces or pawns: after some    *)
(* times the endgame table is given up.                                     *)
UpdateTBUnsuitable ==
    LET drop == tbGen # NoTable /\ notUsedCnt > UnusedLimit
    IN  /\ phase = "setup" /\ phase' = "search"
        /\ tbGen' = IF drop THEN NoTable ELSE tbGen
        /\ usedSize' = IF drop THEN TableSize ELSE usedSize
        /\ notUsedCnt' = CASE drop -> 0 [] tbGen = NoTable -> notUsedCnt [] OTHER -> notUsedCnt + 1
        /\ UNCHANGED <<table, generation, contemptHash, thread, setups, calls>>

TbRegion == TableSize - TbSize .. TableSize - 1
TbEntry(tb, i) == [key |-> {[material |-> tb.material, entry |-> i]}, data |-> tb.words]
(* updateTB finds the value of the position in the endgame table, or, in one *)
(* that was not completed, whatever is there.                               *)
UpdateTBHit(m) ==
    /\ phase = "setup" /\ phase' = "search"
    /\ tbGen # NoTable /\ (tbGen.complete => tbGen.material = m)
    /\ notUsedCnt' = 0
    /\ UNCHANGED <<table, usedSize, generation, contemptHash, tbGen, thread, setups, calls>>

(* The endgame table is generated at the end of the hash table, or, when the*)
(* time is up or the search is stopped, only a part of it.                  *)
UpdateTBGenerate(m) ==
    /\ Setup /\ phase' = "search"
    /\ (tbGen.complete => tbGen.material # m) /\ TableSize >= TbSize + MinRest
    /\ \E words \in Garbage, complete \in BOOLEAN :
      \E n \in IF complete THEN {TbSize} ELSE Parts :
        /\ tbGen' = [material |-> m, words |-> words, complete |-> complete]
        /\ table' = [i \in DOMAIN table |->
                        IF i \in TbRegion /\ i < TableSize - TbSize + n THEN TbEntry(tbGen', i)
                                                                       ELSE table[i]]
        /\ usedSize' = IF complete THEN TableSize - TbSize ELSE usedSize
        /\ notUsedCnt' = IF complete THEN 0 ELSE notUsedCnt
    /\ UNCHANGED <<generation, contemptHash, thread, calls>>

(* A search ends when all its threads have stopped.                         *)
EndSearch ==
    /\ phase = "search" /\ \A t \in Threads : thread[t] = Idle
    /\ phase' = "setup"
    /\ UNCHANGED <<table, settings, thread, setups, calls>>
-----------------------------------------------------------------------------
(* The threads.  Loads and stores of a word are relaxed: the two words of an*)
(* entry are read, and written, in either order.                            *)
Words == {"key", "data"}
NoWord == "none"
Call(what, key, offer) ==
    [pc |-> "load", what |-> what, key |-> key, offer |-> offer, i |-> 0,
     word |-> NoWord, value |-> {}, at |-> 0, ent |-> EmptyEntry]
NoOffer == [move |-> NoMove, score |-> 0, depth |-> 0, type |-> "EMPTY", ply |-> 0, busy |-> FALSE]
Become(t, next) == thread' = [thread EXCEPT ![t] = next]
NewCall == phase = "search" /\ calls < MaxCalls /\ calls' = calls + 1

(* A search at some ply inserts what it found out about the position there. *)
Insert(t) ==
    /\ NewCall /\ thread[t] = Idle
    /\ \E k \in Keys, ply \in Plies : \E o \in Offers(k) :
        Become(t, Call("insert", Xor({k}, contemptHash),
                       [move |-> o.move, score |-> GetScore(o.score, ply), depth |-> o.depth,
                        type |-> o.type, ply |-> ply, busy |-> FALSE]))
    /\ UNCHANGED <<table, settings, phase, setups>>

Probe(t) ==
    /\ NewCall /\ thread[t] = Idle
    /\ \E k \in Keys : Become(t, Call("probe", Xor({k}, contemptHash), NoOffer))
    /\ UNCHANGED <<table, settings, phase, setups>>

Slot(t) == GetIndex(thread[t].key) + thread[t].i
LoadOne(t) ==
    /\ thread[t].pc = "load" /\ thread[t].word = NoWord
    /\ \E w \in Words : Become(t, [thread[t] EXCEPT !.word = w, !.value = table[Slot(t)][w]])
    /\ UNCHANGED <<table, settings, phase, setups, calls>>

(* The entry that load decodes from the two words.                          *)
Loaded(t) ==
    LET value(w) == IF w = thread[t].word THEN thread[t].value ELSE table[Slot(t)][w]
    IN  [key |-> Coded(value("key"), value("data")), data |-> value("data")]

(* insert: the entry with the key, or else the first of the least valuable. *)
Chosen(t) ==
    LET th == thread[t]
        found == Loaded(t)
    IN  IF found.key = th.key \/ th.i = 0 \/ BetterThan(th.ent.data, found.data)
        THEN [th EXCEPT !.ent = found, !.at = Slot(t)] ELSE th
LoadOtherInsert(t) ==
    /\ thread[t].pc = "load" /\ thread[t].word # NoWord /\ thread[t].what = "insert"
    /\ LET th == Chosen(t)
           last == Loaded(t).key = th.key \/ th.i = Ways - 1
       IN  Become(t, IF ~last THEN [th EXCEPT !.i = @ + 1, !.word = NoWord, !.value = {}]
                     ELSE IF ~DoStore(th.ent, th.key, th.offer) THEN Idle
                     ELSE [th EXCEPT !.pc = "store", !.word = NoWord, !.value = {},
                                     !.ent = NewEntry(th.ent, th.key, th.offer)])
    /\ UNCHANGED <<table, settings, phase, setups, calls>>

(* probe: the entry with the key, which is given the current generation.    *)
LoadOtherProbe(t) ==
    /\ thread[t].pc = "load" /\ thread[t].word # NoWord /\ thread[t].what = "probe"
    /\ LET th == [thread[t] EXCEPT !.word = NoWord, !.value = {}]
           ent == Loaded(t)
       IN  Become(t, IF ent.key = th.key
                     THEN [th EXCEPT !.pc = IF ent.data.gen = generation THEN "found" ELSE "store",
                                     !.at = Slot(t),
                                     !.ent = [ent EXCEPT !.data.gen = generation]]
                     ELSE IF th.i = Ways - 1 THEN Idle ELSE [th EXCEPT !.i = @ + 1])
    /\ UNCHANGED <<table, settings, phase, setups, calls>>

StoredWord(ent, w) == IF w = "key" THEN Coded(ent.key, ent.data) ELSE ent.data
StoreOne(t) ==
    /\ thread[t].pc = "store" /\ thread[t].word = NoWord
    /\ \E w \in Words :
        /\ table' = [table EXCEPT ![thread[t].at][w] = StoredWord(thread[t].ent, w)]
        /\ Become(t, [thread[t] EXCEPT !.word = w])
    /\ UNCHANGED <<settings, phase, setups, calls>>

StoreOther(t) ==
    /\ thread[t].pc = "store" /\ thread[t].word # NoWord
    /\ \E w \in Words \ {thread[t].word} :
        table' = [table EXCEPT ![thread[t].at][w] = StoredWord(thread[t].ent, w)]
    /\ Become(t, IF thread[t].what = "probe" THEN [thread[t] EXCEPT !.pc = "found", !.word = NoWord]
                                             ELSE Idle)
    /\ UNCHANGED <<settings, phase, setups, calls>>

(* The search uses what it found.                                           *)
Use(t) ==
    /\ thread[t].pc = "found" /\ Become(t, Idle)
    /\ UNCHANGED <<table, settings, phase, setups, calls>>

(* It marks the position as being searched: setBusy inserts the entry again,*)
(* under the key of the entry, to which insert applies the contempt.        *)
SetBusy(t) ==
    /\ thread[t].pc = "found" /\ NewCall
    /\ \E ply \in Plies :
        LET ent == thread[t].ent
        IN  Become(t, Call("insert", Xor(ent.key, contemptHash),
                           [move |-> ent.data.move, score |-> GetScore(ent.data.score, ply),
                            depth |-> ent.data.depth, type |-> ent.data.type, ply |-> ply,
                            busy |-> TRUE]))
    /\ UNCHANGED <<table, settings, phase, setups>>

Next ==
    \/ ReSize \/ Clear \/ SetWhiteContempt \/ StartSearch \/ UpdateTBUnsuitable
    \/ \E m \in Materials : UpdateTBHit(m) \/ UpdateTBGenerate(m)
    \/ EndSearch
    \/ \E t \in Threads :
        \/ Insert(t) \/ Probe(t) \/ LoadOne(t) \/ LoadOtherInsert(t) \/ LoadOtherProbe(t)
        \/ StoreOne(t) \/ StoreOther(t) \/ Use(t) \/ SetBusy(t)
Spec == Init /\ [][Next]_vars

(***************************************************************************)
(* What is checked.                                                        *)
(***************************************************************************)
(* What a probe finds was inserted for the position probed, as a whole: the *)
(* words of two stores are never taken for one entry.  Only the move may be *)
(* that of an earlier insert, for the same position.  Mate scores are those *)
(* of the position, whatever the plies of the insert and of the probe.      *)
Found(t) == thread[t].pc = "found" /\ thread[t].ent.data.type # "EMPTY"
ProbeFaithful ==
    \A t \in Threads : Found(t) =>
        LET d == thread[t].ent.data
            offers == Offers(CHOOSE k \in Keys : k \in thread[t].key)
        IN  /\ \E o \in offers : d.score = o.score /\ d.depth = o.depth /\ d.type = o.type
            /\ \E o \in offers : d.move = o.move

(* As long as a complete endgame table is in use no thread writes to it: its*)
(* buckets, for whatever key and contempt, end before it, also when it has  *)
(* been generated over entries of the hash table.                           *)
TbIntact ==
    tbGen.complete => \A i \in TbRegion : table[i] = TbEntry(tbGen, i)
=============================================================================
