# A verification development for tbcomp

tbcomp (`app/tbcomp`) compresses chess endgame tablebases: it trains a decision
tree that predicts the value of a position, encodes how the real value differs
from the prediction, and compresses the resulting array with re-pair and Huffman
codes.  It stands on the libraries of the Texel chess engine, whose search is a
tree of communicating threads and whose UCI front end is two threads sharing
options and flags.  This directory holds TLA+ models of the parts whose
correctness depends on interleaving, ordering or exact bookkeeping, the TLC
configurations that check them, and TLAPS proofs about the central ones.

Contents: [Inventory](#inventory) - [Modules](#modules) - [Runs](#runs) -
[Fairness](#fairness) - [Findings](#findings) - [Proofs](#proofs) -
[Not modelled](#not-modelled) - [Plan](#plan) - [Running it](#running-it).
Paths are relative to the repository.

## Inventory

| Part | Source | State | Operations | Interacts with | What is hard, and what must hold |
|---|---|---|---|---|---|
| ThreadPool | `lib/texelutillib/threadpool.hpp` | task, result and exception deques, `nActive`, `stopped`, two condition variables | `addTask`, `getResult`, destructor, `workerLoop` | every parallel pass of tbcomp (re-pair, decision tree, encoding), TaskRunner | Wakeups on the edge empty to non-empty with several waiting clients; notification after unlock; tasks and result copies that throw. No task lost or handed out twice, no thread asleep beside work, `getResult` says "nothing" only when there is nothing |
| TaskRunner | `app/tbcomp/taskrunner.hpp` | typed result deque beside a pool | `addTask`, `getResult`, `waitAll` | ThreadPool | Two deques filled and emptied under different locks |
| Communicator, WorkerThread | `lib/texellib/parallel.cpp` | per thread: command queue, notifier, acknowledgement counters, job, node counters | `sendInitSearch`, `sendStartSearch`, `sendStopSearch`, `sendReportResult`, `sendStopAck`, `sendQuit`, `poll`, `mainLoop`, `doSearch` | parent and children threads, Search, EngineMainThread | Commands superseded while queued, polls inside the search that leave the notifier set, job numbers reused in each search. Stop and quit terminate; nothing of one search reaches the next |
| Search (job protocol) | `lib/texellib/search.cpp` | job counter, stop handler, result listener | `iterativeDeepening`, `shouldStop`, `notifyResult` | Communicator of the main thread | A helper's result ends the root's own search by an exception; a late result must be ignored |
| EngineControl, EngineMainThread, UCIProtocol | `app/texel/enginecontrol.cpp`, `uciprotocol.cpp` | search pointers, `ponder`, `infinite`, `pendingOptions`, `optionsSetFinished`, `quitFlag`, two condition variables | `go`, `stop`, `ponderhit`, `quit`, `setoption`, `isready`; `mainLoop`, `doSearch`, `setOptions` | the GUI, the search threads, `Parameters` | Unlocked flags read in sequence, options applied outside the lock, one notifier shared by three waits. One bestmove per go, options in effect before the next search, no access to the search or the tables by both threads |
| Re-pair compressor | `app/tbcomp/repair.cpp`, `repair.hpp` | symbol table, candidate pairs with frequencies and cached positions, cache size | `compress`, `initSymbols`, `refillCache`, `pruneCache`, `replacePairsIdxCache`, `replacePairs`, `deCompressAll` | ThreadPool (a task per chunk), SymbolArray, bit buffer | Neighbouring tasks meet at chunk borders and share words of the bit array; frequencies kept by differences; cached positions go stale. Decompression gives back the input; the result does not depend on the schedule |
| Symbol array | `app/tbcomp/symbolarray.hpp`, `bitarray.hpp` | bytes, one "used" bit per byte, used range of each chunk | iterator moves, `getSymbol`, `putSymbol`, `combineSymbol` | Re-pair | A symbol has one or two bytes, told by the next bit; the bit after the last one |
| Bit buffer, Huffman codes | `app/tbcomp/bitbuffer.hpp`, `huffman.cpp` | writer and reader words, code tree | `writeBits`, `readBits`, `writeU64`, `readU64`, `computePrefixCode`, `encode`, `decode` | Re-pair and the file format | Shifts by the word size, codes with one symbol or none. What is written is read back and nothing is read past the end |
| Creation of search threads | `lib/texellib/parallel.cpp` | the tree of `WorkerThread` objects | `createWorkers`, destructors, `addChild`, `removeChild` | EngineControl | A tree rebuilt while the threads of the old one run. Each go gets the tree it asked for |
| Transposition table | `lib/texellib/transpositionTable.hpp`, `.cpp` | two atomic words per entry, used size, generation, the endgame table in the last part | `insert`, `probe`, `setBusy`, `reSize`, `clear`, `setWhiteContempt`, `updateTB` | all search threads, endgame tables | Entries torn between writers, revealed by the xor; an endgame table in the memory that the hash table used. A probe finds only what was stored for its position |
| Generated endgame tables | `lib/texellib/tbgen.cpp`, `tbgen.hpp` | value of every index, blocks with newly mated positions | `generate`, `getMoves`, `getUnMoves`, `probeDTM` | transposition table, search | Moves and takebacks must be inverse although positions are mirrored and equal pieces sorted; counts of remaining moves. The table holds the distances to mate |
| Decision tree, WDL compression | `app/tbcomp/decisiontree.cpp`, `wdlcomp.cpp`, `wdlnode.cpp` | tree of predicates, statistics, one bit for each active position | `wdlDump`, `computeTree` and their tasks | ThreadPool, PosIndex, Re-pair | Tasks that each own a range of positions but share words of a bit array; encoder and decoder must agree |
| PosIndex | `app/tbcomp/posindex.cpp` | piece counts and factors | `pos2Index`, `index2Pos` | WDL compression | A bijection up to symmetry; division by multiplication |
| Attack tables | `lib/texellib/bitBoard.cpp` | tables of attacked squares | look-up | endgame tables, PosIndex | |
| Cluster, ClusterTT | `lib/texellib/cluster.cpp`, `clustertt.cpp` | window of unacknowledged packets, minimum depth | send, receive, acknowledge | Communicator, transposition table (MPI builds only) | Back-pressure, window of 16 packets |
| Move generation, evaluation, alpha-beta, tablebase probing, books, tools | `lib/texellib`, `lib/texelutillib`, `app/*` | | | | See [Not modelled](#not-modelled) |

How the parts interact: the UCI thread calls `EngineControl`, which hands a
`Search` to `EngineMainThread` and wakes it; the main thread runs the search and
drives a tree of `WorkerThread`s through `Communicator`s.  tbcomp has no such
front end: its main function calls the compressor stages, which fan out over
`ThreadPool` tasks and join them by `getResult`.

`PROJECT.json` lists, under `hazards`, each thing in this code that a test would
hardly reach, at the line where it bites, with the properties that watch it.

## Modules

| Module | Models | Relation |
|---|---|---|
| `TaskBag` | what a task pool promises: an outcome is handed out once, "nothing" only when nothing is left | abstract |
| `ThreadPool` | `threadpool.hpp` | implements `TaskBag` (`ImplementsFairBag`) |
| `Communicator` | `parallel.cpp` and the job protocol of `search.cpp` | |
| `WorkerTree` | `createWorkers` and the destructors of `parallel.cpp` | sees of `Communicator` the stop and its acknowledgements |
| `UciSession` | what the engine promises the GUI about go and bestmove | abstract |
| `EngineControl` | `enginecontrol.cpp`, the calls of `uciprotocol.cpp` | implements `UciSession`; sees `Communicator` as one variable `tree` |
| `BitBoard` | attacks of the pieces, by the ray walks that fill the tables of `bitBoard.cpp` | operators |
| `TbGen` | `TBGenerator` of `tbgen.cpp`: retrograde analysis | for any graph of positions |
| `TbIndex` | `TBIndex` and `TBPosition`: positions as numbers, moves, takebacks | extends `BitBoard` |
| `TbChess` | `probeDTM` and the graphs of chess | extends `TbGen` and `TbIndex` |
| `TransTable` | `transpositionTable.hpp`, `.cpp` | |
| `SymbolArray` | `symbolarray.hpp`, `bitarray.hpp` as operators on an array value | |
| `BitBuffer` | `bitbuffer.hpp`, over words of a small width | operators |
| `Huffman` | `huffman.cpp` | extends `BitBuffer` |
| `PairGrammar` | what re-pair promises: a grammar grown by the most frequent pair | abstract |
| `RePair` | `repair.cpp` | extends `SymbolArray` and `Huffman`, implements `PairGrammar`; sees `ThreadPool` as tasks that run in any order, any number at once |
| `PosIndex` | `posindex.cpp` | extends `BitBoard` |
| `DecisionTree` | nodes of `dtnode.cpp`, `wdlnode.cpp`, `decisiontree.cpp` as operators on a tree value | |
| `WdlCompress` | `wdlDump` and `computeTree` | extends `PosIndex` and `DecisionTree` |
| `MC...` | constants for TLC | one for each run's module |
| `ThreadPoolProofs`, `EngineControlProofs`, `TbGenProofs`, `TransTableProofs`, `WorkerTreeProofs`, `RePairProofs`, `WdlCompressProofs` | proofs about the module of that name (the last also the lemmas about `DecisionTree`) | each extends it |
| `CommunicatorInvariant` | the inductive invariant of `Communicator` | extends it |
| `CommunicatorProofs` | that every action of `Communicator` preserves the invariant, and the theorems | extends `CommunicatorInvariant` |

Definitions marked as mutants in the modules are wrong variants of the
definition that follows them (a dropped guard, a missing reset, a swapped
order).  No action uses them; each run's properties have been shown to fail when
the variant replaces its original.

### ThreadPool

Everything the code does while it holds `mutex` is one action, because no other
thread sees the state in between.  A condition variable is the set of threads in
state "wait"; `notify_all` moves them to the state in which they contend for the
mutex again, and a thread may leave a wait spuriously.  `addTask` and the
destructor notify after they have released the mutex, so there the notification
is a step of its own; a worker notifies `completeCv` with the mutex held and
only when the outcomes become non-empty.  A task is a number; it ends by
returning or by throwing.  With `CopyMayThrow`, `results.push_back(result)` may
throw, as it may for a `std::vector`.  `delivered` is a history variable.

The actions are `AddTask`, `NotifyTask`, `CallGetResult`, `GetException`,
`GetValue`, `GetNothing`, `WaitComplete` for a client, `Destroy`, `NotifyStop`,
`Join` for the client that owns the pool, and `WaitTask`, `Exit`, `TakeTask`,
`StartTask`, `TaskReturns`, `CopyThrows`, `TaskThrows` for a worker.  The owner
destroys the pool when the other clients are outside its methods; calling a
method of a pool that is being destroyed is undefined and no caller does it.

### Communicator

Each node of the tree is a thread with a `Communicator`.  A handler (of
`CommunicatorHandler`) runs on the thread of its node, changes that node's state, which no other
thread writes, and appends to the queues of its neighbours under their locks; so
the handling of one command is one action.  `poll` has a loop that takes the
commands one by one; other threads may append in between, and do in the model.
`PushOver` is the queue's rule that a new START_SEARCH or STOP_SEARCH erases
queued START_SEARCH, STOP_SEARCH and REPORT_RESULT commands.  The Notifier is a flag that a wait
consumes and that counts nothing.  `pc` tells where the thread is: in the loop
of `mainLoop`, asleep, polling between two handlers, searching, or polling from
inside the search (`shouldStop`).  A search is "some work": it may report nodes,
finish an iteration, finish the last iteration, or be stopped by a poll.  The
root's part is `Search::iterativeDeepening` and the stop and quit loops of
`EngineMainThread`.  The node counts are modelled by the set of searches whose
nodes they contain, which is what resetting them is about.  Commands carry the
search that sent them as a history field; no guard reads it.

### EngineControl

One action per critical section or unlocked access.  `uciPc` tells where the
UCI thread is inside `stopThread`, `startThread`, `waitReady`, `ponderHit`,
`quit`; `mainPc` where `EngineMainThread::mainLoop` and `doSearch` are.  The
condition variables `searchStopped` and `optionsSet` are waited for in loops and
notified after every change of what they wait for, so a wait is a guard.  The
Notifier is a flag, consumed by three different waits of the main thread.
`setOptions` takes the pending options under the lock and sets them one by one
outside it.  Option values are numbers: the n-th setoption command sets n; 0 is
the default, or "nothing pending".  A go command has a time limit, a depth
limit, or is infinite; `ponder` is a form of go.  The search threads are seen as
`tree` (idle, searching, stopping, stopped, ...), whose progress is what
`Communicator` shows.  `heldBack`, `requested`, `gos` and `bestmoves` are
history variables.

### WorkerTree

One record for each `WorkerThread` object, with its thread (`pc`) and its
`Communicator`: `kids` is the vector of children it owns, `list` the children
that have registered with its `Communicator`.  `createWorkers` runs on the UCI
thread for the whole tree and on each new worker for its own subtree, so the
tree grows in parallel: `Go` resizes the root's vector, `CreateChild` keeps or
makes one child, `EndCreate` waits until the new children are initialized.  The
destructor is `dying`, the stack of objects whose destructors the UCI thread is
in: children first (`ClearChildren`), then the thread is told to end and joined
(`Terminate`, `Join`).  A search is only its end: a stop goes down the tree and
the acknowledgements come back.  `Walk` is the part of `poll` that goes through
the list of children without a lock.

### Endgame tables: TbGen, TbIndex, TbChess

`TbGen` is `TBGenerator::generate` for any graph of positions.  One action is a
batch between two looks at the clock (`Classify`, `Count`), a sweep's start, the
next position mated in n-1 (`NextMated`), one takeback of it (`UnMove`), or the
end of a sweep.  `Abort` may happen at every look at the clock.  `newMated` has
one flag for each block of 64 positions.  `UNKNOWN` equals "0 moves remaining",
as in the code.  `TbIndex` translates the index arithmetic: mirrored boards, a
captured piece on the black king's square, equal pieces sorted; `getMoves` and
`getUnMoves` on indexes.  `TbChess` joins the two and adds `setPosition` and
`probeDTM`; the rules of chess it is compared with are written on boards, not on
indexes.

### TransTable

An entry has a key word and a data word; loads and stores of them are relaxed,
so `LoadOne`, `LoadOther...`, `StoreOne` and `StoreOther` are steps of their own,
in either order.  A word is the set of the things that were xor-ed into it, so
equal words mean equal contents: that different contents have the same 64-bit
hash is left out.  Setup commands run between searches, when no thread is in a
call (`EndSearch`).  An endgame table occupies the last `TbSize` entries; when
the generator is aborted a part of it stays in memory, whose words look like
data of the hash table (`Garbage`).

### SymbolArray, BitBuffer, Huffman and RePair

An array is a record of bytes, used bits and the end of the used range of each
chunk; iterators are records as in the code.  `bitPast` and `bytePast` stand for
whatever a read one position past the two vectors returns; TLC tries all their
values.

`RePair` follows `compress`: choose the candidate of highest priority (`Pick`),
possibly look up positions for the pairs without (`RefillConsider`,
`RefillNoMore`, `RefillFill`), replace the pair either along its cached
positions (`StartIdxCache`, `VisitIndex`, `AllVisited`) or by compaction with one task per chunk
(`StartReplacePairs` up to `AllReplaced`), then bring candidates, frequencies
and cache up to date (`Update`).  A chunk task takes the mutex for the start of
its chunk (`Begin`, or `BeginNothing` for an empty chunk), gives it back when it
has written a word past the chunk's start (`UnlockMiddle`), takes it again at
`endLock` (`LockTail`), and in its loop either writes the new symbol
(`ReplacePair`) or copies one (`CopySymbol`); `EndChunk` sets the chunk's end and
the next `skipFirst` flag.  Any number of tasks may be in the middle part at
once.  The loop iterations of different tasks interleave freely; `NoRace` shows
that those outside the mutex touch no word in common, which is what makes one
iteration a legitimate atomic step.  The scan for `endLock` is the one exception
(see Findings).  The sums of `DeltaFreq` are read only after
all tasks have ended, so they are added up as they arise.  Elements with equal
keys in the candidate set's indexes are in no particular order, so a choice
among them is free.

`ToBitBuf` writes the stream as the code does: the symbol table in fields of
`FieldBits` bits, the Huffman code in the form `toBitBuf` gives it, the number of
symbols, the symbols.  `DeCompressesTo` reads it back word by word and says
whether a word behind the end was read.

Sizes are scaled: `Base` stands for the 256 values of a byte, `Word` for the 64
bits of a word (it must exceed the five or so symbols a task reads ahead, which
64 does), `BufBits` for the 64 bits of a word of the stream, `FieldBits` for the
16 bits of a field, `MaxCache` for 64M positions or the size of the input if that
is larger, `IdxBytes` for the 8 bytes of a position in the test that decides
whether to refill, `CandFloor` and `CandPerSym` for 128K candidates and 8 per
free symbol.

### PosIndex, DecisionTree and WdlCompress

`PosIndex` has the numbering both ways: kings up to symmetry, then for each type
of piece which of the squares left are occupied, as a number with mixed radix;
`ModDiv` is the division by multiplication with its width.  `DecisionTree` has
the nodes as values and the operations on them.  Costs are floating-point
numbers, so which predicate is best, which leaves are merged where it is not
forced, and where the tree grows on are choices; that includes every choice the
code makes.  `WdlCompress` has one action for a task on a batch of positions, and
two for the bits of one word that a task clears (`LoadWord`,
`ReplaceDontCares`), because clearing a bit loads and stores the whole word.
The values of positions come from a table given as a constant.

## Runs

A run's name is its name in `PROJECT.json`.  Deadlock is checked in `pool`,
`comm_broom`, the re-pair runs and `wdl`; the other programs stop after quit or
at a bound on the commands given to them, and a thread that sleeps for ever
before that is found by their temporal properties.

| Run | Instance | Question | Result |
|---|---|---|---|
| `pool` | 2 clients, 2 workers, 3 tasks, fair | Are wakeups lost, tasks lost or handed out twice; does the pool implement the bag, do `getResult` and the destructor return? | holds |
| `pool_copy_throws` | the same, 2 tasks, copies may throw | Is every task still in exactly one place when copying a result throws? | holds |
| `comm_chain` | main - w1 - w2; a search of two jobs, one of one job, quit; fair | Do acknowledgements balance, does nothing of one search reach the next, do stop and quit complete, is every job searched? | holds |
| `comm_broom` | main - w1 - {w2, w3}; one search, one job, quit | Do acknowledgements of two children and the node itself balance in every order, and does no thread get stuck? | holds |
| `worker_tree` | go twice for 0 to 3 workers, 2 children per node, fair | Is the tree complete before each search, whatever was there; who changes the list of children under a polling thread; does every go and stop end? | holds |
| `engine` | 2 options, 3 setoption, 2 go of every kind, any number of stop, ponderhit, isready, then quit; fair | Do the threads exclude each other, do options arrive, is the UCI promise kept, does every command return? | holds |
| `engine_ready` | 1 option, 2 setoption, 2 go | Does an idle engine set pending options before it answers isready? | violated |
| `tb_generate` | KQK and KKR on a board of 4x4; part of KNNK | Are takebacks the inverse of moves, counts right, values distances to mate, probes the negamax of their successors on every board? | holds |
| `repair` | every input of 7 bytes over 3 values in chunks of 3; those that start with 0 1 0 1 with a cache of 3 positions; inputs of 67 bytes in chunks of 48 | Is each pass the next step of the grammar, does the text unfold to the input, is the stream read back, are frequencies and cache exact, do tasks outside the mutex share no word, does every compression end? | holds |
| `repair_border` | inputs with an unused byte value | Lossless? | violated |
| `wdl` | KRK, KPK, KNNK on a board of 3x3, trees of depth 2 with 2 predicates | Is the numbering one to one, are only known values left out, are counts exact, can codes be decoded, does `wdlDump` end? | holds |
| `tt` | 2 threads, 2 positions, tables of 5 and 7 entries, 2 setups and 3 calls | Does a probe find only what was stored for its position, is an endgame table in use left alone? | holds |

Why the bounds are enough to be worth something:

* Pool: the edge-triggered notification needs two waiting clients and a second
  outcome that arrives before the first is retrieved, and a third task that is
  queued meanwhile; two workers, two clients and three tasks give all of that.
  With one client the notification of a single thread would be enough.
* Search threads: a chain of three has a node that both forwards and searches;
  the broom has a node that collects from two children and itself.  Job numbers
  repeat in the second search, and the second job of the first search is started
  while a worker may still hold, or have queued, the first.  Nothing in a handler
  depends on more than one level of parents and children.
* Tree of threads: with two children per node, three workers make a tree of two
  levels, and going from any size to any other keeps, replaces, adds and removes
  subtrees.  Six objects are enough for an old and a new tree.
* Engine: two go commands, so that one arrives while the last is searching, held
  back, or answered; two options, because they are set one by one while others
  are set again; the third setoption overtakes one that is being set.
* Endgame tables: 4x4 is the smallest board with all mirrorings, a diagonal and
  mates in several moves; white and black have the extra piece in turn.  KNNK
  has equal pieces; its table is too large for a whole generation, so `MovesInverse`
  is checked on one of its batches (`Generated`).
* Re-pair: seven bytes over three chunks give pairs across both borders, runs
  through a whole chunk (whose parity the next chunk must know), and chunks that
  become empty.  All inputs are tried up to renaming of bytes.  Tasks that leave
  the mutex need chunks longer than a few words: the four long inputs are two
  repeated words and runs of odd and even length across the border.  A cache of
  three positions makes refills drop pairs, leave pairs out, and passes with and
  without positions alternate.
* Transposition table: two entries per bucket and two positions that share a
  bucket in one table and not in the other; contempt moves them.  Three calls are
  enough for an insert torn by another and a probe of the result.
* WDL: nine squares give all symmetries with and without pawns, captures and
  positions without moves; batches of eight make several tasks, some of them in
  the same word.

Bounds by name: `MaxTasks` (tasks added), `Jobs` (one search for each element,
of so many jobs), `MaxSets` and `MaxGos` (commands), `MaxSetups` and `MaxCalls`
(`TransTable`), `MaxSyms` (which the code has too: at most 65535 symbols).  They
sit in the guards of `AddTask`, `RootInitSearch`, `RootNoMoves`, `RootStartJob`,
`SetOption`, `GoCommand`, `GoPonderCommand`, `Go`, `Setup`, `NewCall`.  A worker reports one result
per job, as in the code, and node counts are sets of searches, so the queues stay
finite without a bound of their own.

Where every position fits in the cache or none is cached, `ImplementsGrammar` and
`CacheCovers` are asked (`Roomy`).  When parallel passes follow cached ones,
cached positions go stale and fewer occurrences are replaced than a fresh count
would find: this is how the code behaves.

## Fairness

* ThreadPool: weak fairness of each client that has called `getResult`, of the
  destructor's steps, and of each worker.  The scheduler runs every thread and a
  task ends.  Calling `addTask` or `getResult` is nobody's duty.  No fairness is
  needed for notifications beyond those of the threads that give them, and
  spurious wakeups are never relied upon: they are not fair.
* Communicator: weak fairness of every worker's loop (`WorkerLoop`), of its
  entering a poll from inside a search (`EnterPoll`: `negaScout` calls
  `shouldStop` every `nodesBetweenTimeCheck` nodes), and of the root's loops.
  That a search finishes, finds nodes or starts another job is not assumed.
* EngineControl: weak fairness of the UCI thread inside a command, of the main
  thread, of a limited search that has run out of time or depth
  (`EndSearch /\ OutOfTime`), and of the search threads' answer to stop and quit
  (`TreeStops`), which is what `StopTerminates` and `QuitTerminates` of
  `Communicator` establish.  The GUI owes no command.
* WorkerTree: weak fairness of the UCI thread's steps (`Uci`) and of every thread
  (`Thread`), the end of a search included.
* TbGen, TransTable: none; only safety is asked.
* WdlCompress: none.  `StepsLeadToTheEnd` says that each step begins a later
  phase or leaves less to do in it, so with the deadlock check `wdlDump` ends.
* RePair: none.  `EveryStepAdvances` says that each step decreases the natural
  number `Work`, so with the deadlock check every compression ends.

## Findings

Runs that are expected to be violated show where the code differs from what its
comments promise.

* `engine_ready` (`enginecontrol.cpp:603`): `waitReady` takes the pointer `sc`
  for "a search is running", but it is never reset, so after the first search
  isready is answered while options are still pending.
* `repair_border` (`repair.cpp:535`): a new symbol below 256 that replaces a pair
  across the end of a chunk takes one byte, and the bit after it, that of the
  replaced symbol, is cleared: the symbol reads back as one of two bytes.  Needs
  an input with few byte values, where new symbols are below 256.

More, met while modelling and not made into runs of their own:

* `threadpool.hpp:136`, `:141`: if copying a result throws, `nActive` is
  decremented a second time in the handler; from then on `getResult` may wait with
  nothing to wait for.  (The theorem `EveryoneWakes` therefore excludes it.)
* `threadpool.hpp:130` against the comment at `:49`: tasks may start in another
  order than they were added, because they are taken under the lock and called
  after it.
* `repair.cpp:550`: the used range of a full chunk whose last symbol has its second
  byte in the next chunk ends one byte inside it.  When a cached pass has removed
  that symbol and a parallel pass follows, the symbol is read twice.  Needs a
  parallel pass after cached ones.
* `repair.cpp:499`: the scan for `endLock` goes back to symbols far enough before
  the end of the chunk, and in a chunk with fewer than two of them runs into the
  chunks before it, where it reads used bits that another task changes without the
  mutex.  A data race, but a harmless one: whatever it finds there lies before the
  chunk, so the task keeps the mutex all the way.
* `repair.cpp:163`: a pass for which no position is cached compacts the whole
  array although the pair may have few occurrences.
* `symbolarray.hpp:136`, `bitarray.hpp:22`: `getSymbol` at the last byte reads the
  used bit after it, which lies outside the bit array when the size is a multiple
  of 64.
* `wdlnode.cpp:368` against `dtnode.hpp:158`: the encoder compares with -1 a value
  from which 2 has been subtracted already, so blessed losses are not counted.
* `posindex.hpp:75`: `pos2Index` of a position whose colours it swaps does not
  return the side to move.
* `transpositionTable.cpp:327` against `.hpp:190`: an endgame table whose
  generation was aborted stays in `tbGen`.
* `transpositionTable.cpp:148`: `setBusy` applies the key of the contempt a second
  time, so the mark goes to another entry.
* `transpositionTable.hpp`, `getIndex`: a table of fewer than 512 entries may be
  indexed past its end.
* `parallel.cpp:569`: the destructor takes the children away before it tells its
  own thread to end; a thread woken by a left-over notification may walk the list
  meanwhile (`RacesOnlyIfDestroyed` says that nothing else does).

## Proofs

Every theorem holds for all values of the constants that satisfy the named
assumptions, which TLC evaluates on each instance.

`ThreadPoolProofs`, from `PoolAssumption` (finitely many workers and at least
one, an owner among the clients):

* `Typing`: `TypeOK` is inductive.
* `WorkersWake`: no worker sleeps beside a queued task, or in a stopped pool,
  unless a client is about to notify.  Inductive together with `TypeOK`: a worker
  goes to sleep only when the queue is empty, and each thread that makes it
  non-empty is then in "notify" until it has notified.
* `Counting`, `ClientsWake`: unless copying a result throws, `nActive` is the
  number of workers holding a task; and so a client asleep in `getResult` has
  nothing to retrieve and something to wait for.  The second needs the first:
  the worker that ends the last activity is one that produces an outcome, and the
  edge from empty to non-empty wakes every client.
* `Conservation`: every added task is in exactly one of queue, hands of a
  worker, results, exceptions, delivered, also when copies throw.  The invariant is restated
  as `Conserved`, with the five places written out, because the provers do better
  on pairwise disjoint sets than on a tuple of them; `ConservedIsTasksConserved`
  says that it is the same.
* `Refinement`: unless copying a result throws, the pool implements `TaskBag`.
  The step that needs the invariants is "nothing to wait for": with no outcome,
  no task and `nActive = 0`, conservation leaves "delivered" as the only place.

`EngineControlProofs`, from `BoundsAssumption`.  The inductive invariant `IInv`
has six parts:

* `TypeOK`;
* `OptionsInv`: the value an option should have is pending, else taken but not
  yet set, else set; `optionsSetFinished` means that nothing is pending or taken.
* `SearchInv`: in which states of the two threads a search exists.  It is what
  makes the UCI thread's wait for `search` to be cleared an exclusion of the main
  thread.
* `AnswerInv`: answers lag behind searches by one exactly while a search is
  unanswered.
* `CommandInv`: what the UCI thread will do when the search has stopped.
* `HeldInv`: while the GUI has not allowed an answer, `ponder` or `infinite` is
  set, and what the main thread has read of them so far agrees with that; it is
  why reading the two flags one after the other without a lock is safe in the
  order the code has.

`Invariance` proves `IInv`; `Typing`, `MutualExclusion` (`Exclusive`),
`OptionsArrive` (`OptionsInEffect`) and `Refinement` (`ImplementsSession`)
follow from it.

`CommunicatorProofs`, from `TreeAssumption` (finitely many nodes, and from every
node the parents lead to the root; nothing about the shape of the tree or the
number of jobs and searches).  `Typing` (`TypeOK`), `StopsExact`
(`StopsAreExact`), `NoneLost` (`NoLostNotification`) and `Separate`
(`SearchesAreSeparate`) follow from `IInv` of `CommunicatorInvariant`, where
"coming" to a node means queued at it or above it:

* `Places` and `Queues`: where threads are and what may wait in a queue.  At most
  one start or stop command waits at a worker, which is `PushOver`, and commands
  that name a search name the root's: without it nothing could be said about a
  start command that overtakes others.
* `Acks`: what a node still waits for is the number of its children that owe an
  acknowledgement plus the acknowledgements in its queue.  To see that a node
  never counts an answer twice one needs that a node with a start or stop command
  before it has answered the last stop.
* `StopWave`: behind a stop command that travels down, no node has a job, and a
  queued result is followed by the acknowledgement of the child that sent it;
  this is why a result that passes the root's stop is dropped before the next
  search.
* `InitWave`: before the init command of a search the tree is still at rest, and
  that command is the first of a queue; so it resets the counts before any job of
  the new search begins.
* `Current`: jobs, stop handlers, results and counts are of the root's search.
* `Quits`: the same balance for the acknowledgements of quit.
* `Notifications`: a thread asleep has nothing queued unless its flag is set.
  Polls inside a search take commands and leave the flag alone, so a worker that
  searches with something left to do must have it set already.

`CommunicatorProofs` has one lemma per action and part of the invariant.

`TbGenProofs`, from `GeneratorAssumption`: `Inductive`, `CountsExact`
(`RemainingExact`) and `TableExact` (`ValuesExact`), for any graph of positions
and any batch and block size.  They have the hypothesis `[]MovesInverse`: that
takebacks are the inverse of moves is a property of the index arithmetic of
chess, which TLC checks on the graphs of `TbChess`.  The invariant says of every
live position which of four cases explains its value (won by a move to a lost
position, lost because every move is to a won one, without moves, or open with as
many moves counted as are not yet known to lose), which positions mated in n or n-1
still have takebacks ahead (`TakenBack`), and that each of those lies in a marked
block (`Marked`), without which a sweep could skip it.

`TransTableProofs`, from `TableAssumption` and `WordAssumption` (the number of
ways of a bucket is a power of two; a table in use has at least as many entries
as `getIndex` needs; coded scores stay in the range of their kind; hashes are no
data words): `Inductive`, `Faithful` (`ProbeFaithful`) and `TablesKept`
(`TbIntact`), for any number of threads, positions, contempts, sizes and
searches.  The invariant types every word that may be in the place of a key: an
empty entry's, one of an endgame table, or the xor of a key and a data word that
was stored for it as a whole.  A probe accepts a pair of words only if their xor
is its key; the lemma `Decoded` says that then both came from one store.
`TbIntact` needs that `getIndex` stays below the used size, which comes down to
the shift and the powers of two there.  `Pow2` is a recursive function, because
the provers know no more about exponentiation than its type; what is needed of
it is proved by taking the least number for which it fails.

`WorkerTreeProofs`, from `TreeAssumption` (finitely many objects, at least one
child per node; any sizes and any number of goes): `Inductive`, `TreeIsComplete`
(`TreeComplete`) and `Races` (`RacesOnlyIfDestroyed`).

* `Kinds`, `Kinship`: an object with a thread is owned by its parent or is being
  destroyed; the list of a `Communicator` holds exactly the children whose
  threads have begun; a child that is not initialized is one its parent waits
  for.  So a thread that is polling sees its list change only when it is being
  destroyed: the parent adds and removes children only in its own time.
* `Destruction`: an object on the stack of destructors is there once, and its
  parent, if not the root, is further down the stack.
* `Numbers`: a worker and those below it have consecutive numbers; the children
  placed so far have divided the numbers below `first` among them.  That the last
  child takes what is left rests on the lemma `Division` about the shares.
* `TreeIsComplete` goes from numbers to nodes: of two workers whose numbers
  overlap one is above the other (by taking the pair whose sum of numbers is
  least), so no number is used twice, and the least number without a worker would
  lie in some child's share.

`WdlCompressProofs`, from `BatchAssumption` (batches of tasks that write bits are
made of whole words, whatever their minimum and the sizes are) and
`ProbeAssumption` (a position with legal moves has a value that no capture
exceeds): `Inductive` and `NothingElseLeftOut` (`DontCaresAreKnown`); with
`TreeAssumption`, `CountingAndCoding` and `TreeFaithful` (`TreeIsFaithful`).

* `Initialized`, `Captured`: an index whose batch is still waiting has the data of
  before the loop, any other that of after it, so the order of the tasks does not
  matter.  No position that was looked up is better than `best`; this is why a
  capture as good as `best` settles the value without its having been looked up.
* `Clearing`: the register of a task that has loaded a word holds what is in
  memory, because no other task reaches that word (`OwnWord`, from `WholeWords`).
  With batches that end inside a word it is false, and so is the theorem.
* `Reduced`: growing the tree and encoding change only the marks of the samples.
* `Shape`: a tree has no gaps.  Then whatever holds for a position, it ends in
  exactly one leaf (`LeafFacts`): among the paths it follows there is a longest one,
  and two that end in leaves agree step by step.  Replacing collectors
  (`ReplacedFacts`) and merging (`SimplifiedFacts`) keep the shape, and the leaves of
  the positions that they do not touch (`SameLeaf`).
* `Collecting`: a collector that was given k chunks has counted the samples of the
  last k.  The chunk counted now is none of those (`ChunkOrder`, k is less than
  `NStatsChunks` when a chunk begins), and no position that ends in a collector has
  been marked as done with (`DoneWith`), so none is missing and none counted twice.
* `Encoding`: each leaf has a table with all values (`Places`: how many come before
  a value is different for all of them).  Of two values that the side to move can
  have, the one whose place is later has the other one counted in its code, so the
  codes differ (`DifferentCodes`).

* `DumpEnds` (`StepsLeadToTheEnd`): every step begins a later phase or leaves less
  of a finite set to be done: tasks, words to write, and for the tree the samples
  that may still come to collectors that may still be made.  The invariant
  `Collecting` is needed here too: collectors are replaced by their children only, and
  none lies below another.  With the deadlock check of `wdl` this is what makes
  every dump end, whatever order the tasks have and however the tree grows.

`RePairProofs`, from `RePairAssumption` (among other things words of at least 12
bits and chunks that begin with a word; 64 and a million bytes in the code) and
with the hypothesis `[]RangesSound`: that the used range of a chunk ends where a
symbol ends and that its symbols follow each other without a gap.  This is the part of
`TypeOK` that depends on what is stored in the array, and TLC checks it in `repair`;
it is also what fails in `repair_border`.

* `ArrayWellFormed`: bytes and used bits in range, and every chunk's end between its
  begin and the end of the chunk after it, in cached and in parallel passes.
* `RaceFree` (`MutexDiscipline`): a task without the mutex touches no word of the bit
  array that another task touches at the same time, and `skipFirst` is read and
  written with the mutex only.  Tasks with the mutex need no argument; for one
  without it the invariant `TasksOK` keeps its indices a word away from both ends of
  what is its own: `Window` orders the places it writes, holds and reads ahead,
  `Ahead` says how far apart these can be, `Middle` that it has passed the first word
  and not reached `endLock`, `Kept` that what it has not yet read is as the pass
  found it, and `Dense` that the symbols before the end lock are there to be
  stopped at.

Only model-checked: everything about liveness (no backend handles fairness and
`ENABLED`); that takebacks invert moves (`MovesInverse`) and that probes are the
negamax of their successors (`ProbesAreNegamax`); of `RePair` what is stored
(`RangesSound` in `TypeOK`, `Lossless`, `StreamReadsBack`, `CandidatesExact`, the
refinement of `PairGrammar`) and `EveryStepAdvances`; that the numbering of positions
is invertible (`IndexInvertible`).  What recursive definitions and
folds compute for every input (`UnfoldAll`, `SymbolSeq`, the numbering of `PosIndex`,
the Huffman code) needs induction over data, whose theorems the installed provers
cannot instantiate.

## Not modelled

* Move generation, position updates, evaluation, alpha-beta pruning: sequential
  code, tested by the repository with perft counts and positions.  The search
  appears as "some work between two polls".
* Endgame tablebase probing (Gaviota, Syzygy): third-party.
* `TaskRunner`, which nothing uses yet; `Cluster` and `ClusterTT`, compiled only
  with MPI.
* Costs and statistics of the decision tree; the particular predicates.
  Command-line tools, book GUI, UCI adapter: argument parsing and user interface.
* Within the modelled parts: time allocation, the opening book's contents, texts
  of the protocol, the hash table (`LookupTable`) that re-pair uses to count
  deltas, which is modelled by the function it represents, the magic
  multiplication of the attack tables, bit fields of table entries.

## Plan

What is worth proving next, in this order:

1. `RangesSound` of `RePair`, the hypothesis of its theorems, for inputs with all
   byte values: which symbols a pass leaves in the last bytes of a chunk.
2. `Lossless` and the refinement of `PairGrammar` for a single pass without a
   cache, as far as they can be stated without recursion over the data.
3. `IndexInvertible`, in parts: division by multiplication and the numbering of
   kings do not need recursion over the data.

Another run would be worth its cost for the move generator and the pruned search,
with a small board; they are sequential and well covered by the repository's tests.

## Running it

`tlc -config X.cfg M` for the module and configuration of a run, `tlapm M.tla` for
each of the modules `ThreadPoolProofs`, `EngineControlProofs`, `CommunicatorProofs`,
`WorkerTreeProofs`, `TbGenProofs`, `TransTableProofs`, `RePairProofs` and
`WdlCompressProofs`.  On a laptop core or two the longest runs (`comm_chain`,
`repair`) take a minute and a half; the proofs of `CommunicatorProofs` take about
seven minutes, those of `RePairProofs` four, those of `WorkerTreeProofs` a few, the
others a minute or two each.
