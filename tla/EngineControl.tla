--------------------------- MODULE EngineControl ---------------------------
(***************************************************************************)
(* The two threads of the chess engine (app/texel): the UCI thread, which  *)
(* reads commands (UCIProtocol) and calls EngineControl, and the main      *)
(* thread, which searches and sets options (EngineMainThread).             *)
(*                                                                         *)
(* The condition variables searchStopped and optionsSet are waited for in  *)
(* loops and notified after every change of what they wait for, so a wait  *)
(* is a guard.  The Notifier of the main thread is modelled by its flag,   *)
(* which the search threads set too.  They and their protocol are module   *)
(* Communicator; here tree says how far that protocol is.                  *)
(***************************************************************************)
EXTENDS Naturals, FiniteSets

CONSTANTS Options,   \* names of UCI options
          MaxSets,   \* bound on the setoption commands
          MaxGos     \* bound on the go commands

ASSUME BoundsAssumption == MaxSets \in Nat /\ MaxGos \in Nat

VARIABLES
    uciPc, next,          \* where the UCI thread is; the command that stops the search
    sc,                   \* EngineControl::sc is set
    limit,                \* the time limit of that search: "none", "time", "zero"
    kind,                 \* which limits the last go command has
    ponder, infinite,
    mainPc,
    search, quitFlag,
    notified,             \* flag of the main thread's Notifier
    pendingOptions, optionsSetFinished,
    options,              \* the options setOptions has taken and not yet set
    params,               \* Parameters::instance()
    depthLimited,         \* the search on the main thread has a depth or node limit
    tree,                 \* state of the search threads' protocol
    sets, requested,      \* history: setoption commands; the value each option should have
    heldBack,             \* history: the GUI has not yet allowed an answer
    gos, bestmoves        \* history: searches started, answers given

uciVars  == <<uciPc, next>>
goVars   == <<sc, kind, depthLimited>>
optVars  == <<pendingOptions, optionsSetFinished, options, params>>
histVars == <<sets, requested, heldBack, gos, bestmoves>>
flagVars == <<ponder, infinite, limit>>
vars == <<uciVars, goVars, optVars, histVars, flagVars, mainPc, search, quitFlag, notified, tree>>

None == 0   \* no value pending for an option
NoOptions == [o \in Options |-> None]

Init ==
    /\ uciPc = "read" /\ next = "none"
    /\ sc = FALSE /\ limit = "none" /\ kind = "time" /\ depthLimited = FALSE
    /\ ponder = FALSE /\ infinite = FALSE
    /\ mainPc = "wait"
    /\ search = FALSE /\ quitFlag = FALSE /\ notified = FALSE
    /\ pendingOptions = NoOptions /\ optionsSetFinished = TRUE
    /\ options = NoOptions /\ params = NoOptions
    /\ tree = "idle"
    /\ sets = 0 /\ requested = NoOptions
    /\ heldBack = FALSE /\ gos = 0 /\ bestmoves = 0

-----------------------------------------------------------------------------
(* The UCI thread: setoption and isready *)

SetOption(o) ==
    /\ uciPc = "read" /\ sets < MaxSets
    /\ sets' = sets + 1
    /\ pendingOptions' = [pendingOptions EXCEPT ![o] = sets + 1]
    /\ requested' = [requested EXCEPT ![o] = sets + 1]
    /\ optionsSetFinished' = FALSE
    /\ uciPc' = "notifyOption"
    /\ UNCHANGED <<next, goVars, options, params, heldBack, gos, bestmoves, flagVars, mainPc, search,
                   quitFlag, notified, tree>>

\* setOptionWhenIdle notifies after it has released the mutex, also when there
\* is no option of that name.
SetUnknownOption ==
    /\ uciPc = "read"
    /\ uciPc' = "notifyOption"
    /\ UNCHANGED <<next, goVars, optVars, histVars, flagVars, mainPc, search, quitFlag, notified,
                   tree>>

\* Mutant: while searching no notification, as options are set after the search.
NotifyOptionIfIdle ==
    /\ uciPc = "notifyOption"
    /\ notified' = (notified \/ ~search)
    /\ uciPc' = "read"
    /\ UNCHANGED <<next, goVars, optVars, histVars, flagVars, mainPc, search, quitFlag, tree>>

NotifyOption ==
    /\ uciPc = "notifyOption"
    /\ notified' = TRUE
    /\ uciPc' = "read"
    /\ UNCHANGED <<next, goVars, optVars, histVars, flagVars, mainPc, search, quitFlag, tree>>

IsReady ==
    /\ uciPc = "read"
    /\ uciPc' = IF sc THEN "readyok" ELSE "waitReady"
    /\ UNCHANGED <<next, goVars, optVars, histVars, flagVars, mainPc, search, quitFlag, notified,
                   tree>>

WaitReady ==
    /\ uciPc = "waitReady" /\ optionsSetFinished
    /\ uciPc' = "readyok"
    /\ UNCHANGED <<next, goVars, optVars, histVars, flagVars, mainPc, search, quitFlag, notified,
                   tree>>

ReadyOk ==
    /\ uciPc = "readyok"
    /\ uciPc' = "read"
    /\ UNCHANGED <<next, goVars, optVars, histVars, flagVars, mainPc, search, quitFlag, notified,
                   tree>>

-----------------------------------------------------------------------------
(* The UCI thread: go, ponderhit, stop, quit *)

Kinds == {"time", "depth", "infinite"}

\* stopThread, called by cmd, first lets the search run out of time.
CallStopThread(cmd) ==
    /\ uciPc = "read"
    /\ next' = cmd
    /\ limit' = IF sc THEN "zero" ELSE limit
    /\ heldBack' = FALSE
    /\ uciPc' = "clearInfinite"
    /\ UNCHANGED <<goVars, optVars, sets, requested, gos, bestmoves, ponder, infinite, mainPc, search, quitFlag,
                   notified, tree>>

Stop == CallStopThread("stop")
QuitCommand == CallStopThread("quit")   \* or the end of the input
GoCommand == gos < MaxGos /\ CallStopThread("go")
GoPonderCommand == gos < MaxGos /\ CallStopThread("ponder")

ClearInfinite ==
    /\ uciPc = "clearInfinite"
    /\ infinite' = FALSE
    /\ uciPc' = "clearPonder"
    /\ UNCHANGED <<next, goVars, optVars, histVars, ponder, limit, mainPc, search, quitFlag,
                   notified, tree>>

\* Mutant: a search that ponders goes on.
ClearPonderNot ==
    /\ uciPc = "clearPonder"
    /\ uciPc' = "waitStop"
    /\ UNCHANGED <<next, goVars, optVars, histVars, flagVars, mainPc, search, quitFlag,
                   notified, tree>>

ClearPonder ==
    /\ uciPc = "clearPonder"
    /\ ponder' = FALSE
    /\ uciPc' = "waitStop"
    /\ UNCHANGED <<next, goVars, optVars, histVars, infinite, limit, mainPc, search, quitFlag,
                   notified, tree>>

WaitStop ==
    /\ uciPc = "waitStop" /\ ~search
    /\ uciPc' = "waitOptions"
    /\ UNCHANGED <<next, goVars, optVars, histVars, flagVars, mainPc, search, quitFlag, notified,
                   tree>>

WaitOptionsSet ==
    /\ uciPc = "waitOptions" /\ optionsSetFinished
    /\ uciPc' = CASE next = "stop" -> "read"
                  [] next = "quit" -> "quit"
                  [] OTHER -> "prepare"
    /\ UNCHANGED <<next, goVars, optVars, histVars, flagVars, mainPc, search, quitFlag, notified,
                   tree>>

\* startSearch, startPonder and startThread up to the call of the main thread:
\* a new Search object is made, the hash table ages, threads are created.
StartThread(k) ==
    /\ uciPc = "prepare"
    /\ kind' = k
    /\ ponder' = (next = "ponder")
    /\ infinite' = (next = "go" /\ k = "infinite")
    /\ limit' = IF next = "go" /\ k = "time" THEN "time" ELSE "none"
    /\ depthLimited' = (next = "go" /\ k = "depth")
    /\ sc' = TRUE
    /\ heldBack' = (next = "ponder" \/ k = "infinite")
    /\ uciPc' = "start"
    /\ UNCHANGED <<next, optVars, sets, requested, gos, bestmoves, mainPc, search, quitFlag, notified, tree>>

StartSearch ==
    /\ uciPc = "start"
    /\ search' = TRUE
    /\ gos' = gos + 1
    /\ uciPc' = "notifySearch"
    /\ UNCHANGED <<next, goVars, optVars, sets, requested, heldBack, bestmoves, flagVars, mainPc, quitFlag,
                   notified, tree>>

\* Mutant: the main thread is not told of the search.
NotifySearchNot ==
    /\ uciPc = "notifySearch"
    /\ uciPc' = "read"
    /\ UNCHANGED <<next, goVars, optVars, histVars, flagVars, mainPc, search, quitFlag, notified,
                   tree>>

NotifySearch ==
    /\ uciPc = "notifySearch"
    /\ notified' = TRUE
    /\ uciPc' = "read"
    /\ UNCHANGED <<next, goVars, optVars, histVars, flagVars, mainPc, search, quitFlag, tree>>

\* Mutant: infinite is not computed for a search without limits.
PonderHitAlwaysEnds ==
    /\ uciPc = "read" /\ sc
    /\ limit' = IF kind = "time" THEN "time" ELSE "none"
    /\ heldBack' = (heldBack /\ kind = "infinite")
    /\ uciPc' = "ponderHit"
    /\ UNCHANGED <<next, goVars, optVars, sets, requested, gos, bestmoves, ponder, infinite,
                   mainPc, search, quitFlag, notified, tree>>

\* The GUI sends ponderhit after a go command only.
PonderHit ==
    /\ uciPc = "read" /\ sc
    /\ limit' = IF kind = "time" THEN "time" ELSE "none"
    /\ infinite' = (kind = "infinite")
    /\ heldBack' = (heldBack /\ kind = "infinite")
    /\ uciPc' = "ponderHit"
    /\ UNCHANGED <<next, goVars, optVars, sets, requested, gos, bestmoves, ponder, mainPc,
                   search, quitFlag, notified, tree>>

PonderHitDone ==
    /\ uciPc = "ponderHit"
    /\ ponder' = FALSE
    /\ uciPc' = "read"
    /\ UNCHANGED <<next, goVars, optVars, histVars, infinite, limit, mainPc, search, quitFlag,
                   notified, tree>>

Quit ==
    /\ uciPc = "quit"
    /\ quitFlag' = TRUE /\ notified' = TRUE
    /\ uciPc' = "done"
    /\ UNCHANGED <<next, goVars, optVars, histVars, flagVars, mainPc, search, tree>>

-----------------------------------------------------------------------------
(* The main thread *)

MainWait ==
    /\ mainPc = "wait" /\ notified
    /\ notified' = FALSE
    /\ mainPc' = "awake"
    /\ UNCHANGED <<uciVars, goVars, optVars, histVars, flagVars, search, quitFlag, tree>>

CheckQuit ==
    /\ mainPc = "awake"
    /\ mainPc' = IF quitFlag THEN "sendQuit" ELSE "options"
    /\ UNCHANGED <<uciVars, goVars, optVars, histVars, flagVars, search, quitFlag, notified, tree>>

\* Mutant: the options count as set when they are taken.
TakeOptionsFinishes ==
    /\ mainPc \in {"options", "optionsAfter"}
    /\ pendingOptions # NoOptions
    /\ options' = pendingOptions
    /\ pendingOptions' = NoOptions
    /\ optionsSetFinished' = TRUE
    /\ mainPc' = IF mainPc = "options" THEN "apply" ELSE "applyAfter"
    /\ UNCHANGED <<uciVars, goVars, params, histVars, flagVars, search, quitFlag, notified, tree>>

\* setOptions is called before and after a search; it takes what is pending ...
TakeOptions ==
    /\ mainPc \in {"options", "optionsAfter"}
    /\ pendingOptions # NoOptions
    /\ options' = pendingOptions
    /\ pendingOptions' = NoOptions
    /\ mainPc' = IF mainPc = "options" THEN "apply" ELSE "applyAfter"
    /\ UNCHANGED <<uciVars, goVars, optionsSetFinished, params, histVars, flagVars, search,
                   quitFlag, notified, tree>>

\* ... sets it, one option after the other, and looks again ...
ApplyOption(o) ==
    /\ mainPc \in {"apply", "applyAfter"}
    /\ options[o] # None
    /\ params' = [params EXCEPT ![o] = options[o]]
    /\ options' = [options EXCEPT ![o] = None]
    /\ UNCHANGED <<uciVars, goVars, pendingOptions, optionsSetFinished, histVars, flagVars,
                   mainPc, search, quitFlag, notified, tree>>

ApplyDone ==
    /\ mainPc \in {"apply", "applyAfter"}
    /\ options = NoOptions
    /\ mainPc' = IF mainPc = "apply" THEN "options" ELSE "optionsAfter"
    /\ UNCHANGED <<uciVars, goVars, optVars, histVars, flagVars, search, quitFlag, notified, tree>>

\* ... until nothing is pending.
OptionsDone ==
    /\ mainPc \in {"options", "optionsAfter"}
    /\ pendingOptions = NoOptions
    /\ optionsSetFinished' = TRUE
    /\ mainPc' = IF mainPc = "options" THEN "checkSearch" ELSE "clearSearch"
    /\ UNCHANGED <<uciVars, goVars, pendingOptions, options, params, histVars, flagVars, search,
                   quitFlag, notified, tree>>

NoSearch ==
    /\ mainPc = "checkSearch" /\ ~search
    /\ mainPc' = "wait"
    /\ UNCHANGED <<uciVars, goVars, optVars, histVars, flagVars, search, quitFlag, notified, tree>>

BookMove ==
    /\ mainPc = "checkSearch" /\ search
    /\ mainPc' = "readPonder"
    /\ UNCHANGED <<uciVars, goVars, optVars, histVars, flagVars, search, quitFlag, notified, tree>>

BeginSearch ==
    /\ mainPc = "checkSearch" /\ search
    /\ mainPc' = "search"
    /\ tree' = "busy"
    /\ UNCHANGED <<uciVars, goVars, optVars, histVars, flagVars, search, quitFlag, notified>>

\* iterativeDeepening may return at any time; it must when the time is up.
OutOfTime == limit # "none" \/ depthLimited
EndSearch ==
    /\ mainPc = "search"
    /\ mainPc' = "readPonder"
    /\ UNCHANGED <<uciVars, goVars, optVars, histVars, flagVars, search, quitFlag, notified, tree>>

\* while (*ponder || *infinite): two reads, between which the UCI thread runs
ReadPonder ==
    /\ mainPc = "readPonder" /\ ~ponder
    /\ mainPc' = "readInfinite"
    /\ UNCHANGED <<uciVars, goVars, optVars, histVars, flagVars, search, quitFlag, notified, tree>>

ReadInfinite ==
    /\ mainPc = "readInfinite"
    /\ mainPc' = IF infinite THEN "readPonder" ELSE "finish"
    /\ UNCHANGED <<uciVars, goVars, optVars, histVars, flagVars, search, quitFlag, notified, tree>>

\* Mutant: a search from the book goes back to the test of the search flag.
FinishSearchAgain ==
    /\ mainPc = "finish"
    /\ bestmoves' = bestmoves + 1
    /\ mainPc' = IF tree = "idle" THEN "checkSearch" ELSE "sendStop"
    /\ UNCHANGED <<uciVars, goVars, optVars, sets, requested, heldBack, gos, flagVars, search,
                   quitFlag, notified, tree>>

\* Mutant: the search counts as stopped when the move is played.
FinishSearchClears ==
    /\ mainPc = "finish"
    /\ bestmoves' = bestmoves + 1
    /\ search' = FALSE
    /\ mainPc' = IF tree = "idle" THEN "optionsAfter" ELSE "sendStop"
    /\ UNCHANGED <<uciVars, goVars, optVars, sets, requested, heldBack, gos, flagVars, quitFlag,
                   notified, tree>>

FinishSearch ==
    /\ mainPc = "finish"
    /\ bestmoves' = bestmoves + 1
    /\ mainPc' = IF tree = "idle" THEN "optionsAfter" ELSE "sendStop"
    /\ UNCHANGED <<uciVars, goVars, optVars, sets, requested, heldBack, gos, flagVars, search, quitFlag,
                   notified, tree>>

\* sendStopSearch; without workers the tree has stopped at once.
SendStop ==
    /\ mainPc = "sendStop"
    /\ tree' \in {"stopping", "stopped"}
    /\ notified' = TRUE
    /\ mainPc' = "stopPoll"
    /\ UNCHANGED <<uciVars, goVars, optVars, histVars, flagVars, search, quitFlag>>

StopPoll ==
    /\ mainPc = "stopPoll" /\ tree = "stopping"
    /\ mainPc' = "stopWait"
    /\ UNCHANGED <<uciVars, goVars, optVars, histVars, flagVars, search, quitFlag, notified, tree>>

StopWait ==
    /\ mainPc = "stopWait" /\ notified
    /\ notified' = FALSE
    /\ mainPc' = "stopPoll"
    /\ UNCHANGED <<uciVars, goVars, optVars, histVars, flagVars, search, quitFlag, tree>>

Stopped ==
    /\ mainPc = "stopPoll" /\ tree = "stopped"
    /\ tree' = "idle"
    /\ notified' = TRUE
    /\ mainPc' = "optionsAfter"
    /\ UNCHANGED <<uciVars, goVars, optVars, histVars, flagVars, search, quitFlag>>

ClearSearch ==
    /\ mainPc = "clearSearch"
    /\ search' = FALSE
    /\ mainPc' = "wait"
    /\ UNCHANGED <<uciVars, goVars, optVars, histVars, flagVars, quitFlag, notified, tree>>

SendQuit ==
    /\ mainPc = "sendQuit"
    /\ tree' \in {"quitting", "quit"}
    /\ mainPc' = "quitPoll"
    /\ UNCHANGED <<uciVars, goVars, optVars, histVars, flagVars, search, quitFlag, notified>>

QuitPoll ==
    /\ mainPc = "quitPoll"
    /\ mainPc' = IF tree = "quit" THEN "exited" ELSE "quitWait"
    /\ UNCHANGED <<uciVars, goVars, optVars, histVars, flagVars, search, quitFlag, notified, tree>>

QuitWait ==
    /\ mainPc = "quitWait" /\ notified
    /\ notified' = FALSE
    /\ mainPc' = "quitPoll"
    /\ UNCHANGED <<uciVars, goVars, optVars, histVars, flagVars, search, quitFlag, tree>>

-----------------------------------------------------------------------------
(* The search threads *)

\* A result or an acknowledgement is queued for the main thread.
TreeReports ==
    /\ tree \in {"busy", "stopping"}
    /\ notified' = TRUE
    /\ UNCHANGED <<uciVars, goVars, optVars, histVars, flagVars, mainPc, search, quitFlag, tree>>

TreeStops ==
    /\ tree \in {"stopping", "quitting"}
    /\ tree' = IF tree = "stopping" THEN "stopped" ELSE "quit"
    /\ notified' = TRUE
    /\ UNCHANGED <<uciVars, goVars, optVars, histVars, flagVars, mainPc, search, quitFlag>>

-----------------------------------------------------------------------------
UciCommand ==
    \/ \E o \in Options : SetOption(o)
    \/ SetUnknownOption \/ IsReady \/ Stop \/ QuitCommand \/ GoCommand \/ GoPonderCommand
    \/ PonderHit

UciStep ==
    \/ NotifyOption \/ WaitReady \/ ReadyOk \/ ClearInfinite \/ ClearPonder \/ WaitStop
    \/ WaitOptionsSet \/ StartSearch \/ NotifySearch \/ PonderHitDone \/ Quit
    \/ \E k \in Kinds : StartThread(k)

MainStep ==
    \/ MainWait \/ CheckQuit \/ TakeOptions \/ ApplyDone \/ OptionsDone
    \/ \E o \in Options : ApplyOption(o)
    \/ NoSearch \/ BookMove \/ BeginSearch \/ ReadPonder \/ ReadInfinite \/ FinishSearch
    \/ SendStop \/ StopPoll \/ StopWait \/ Stopped \/ ClearSearch
    \/ SendQuit \/ QuitPoll \/ QuitWait

Terminated == mainPc = "exited" /\ uciPc = "done" /\ UNCHANGED vars

Next == UciCommand \/ UciStep \/ MainStep \/ EndSearch \/ TreeReports \/ TreeStops \/ Terminated

Spec == Init /\ [][Next]_vars

\* Both threads run, a search that is out of time returns, the tree answers
\* (StopTerminates and QuitTerminates of Communicator).  The GUI owes nothing.
Fairness ==
    /\ WF_vars(UciStep)
    /\ WF_vars(MainStep)
    /\ WF_vars(EndSearch /\ OutOfTime)
    /\ WF_vars(TreeStops)

FairSpec == Spec /\ Fairness

-----------------------------------------------------------------------------
(* Properties *)

UciPcs == {"read", "notifyOption", "waitReady", "readyok", "clearInfinite", "clearPonder",
           "waitStop", "waitOptions", "prepare", "start", "notifySearch", "ponderHit", "quit",
           "done"}
MainPcs == {"wait", "awake", "options", "apply", "checkSearch", "search", "readPonder",
            "readInfinite", "finish", "sendStop", "stopPoll", "stopWait", "optionsAfter",
            "applyAfter", "clearSearch", "sendQuit", "quitPoll", "quitWait", "exited"}
Values == 0..MaxSets

FlagTypes ==
    /\ sc \in BOOLEAN /\ depthLimited \in BOOLEAN
    /\ ponder \in BOOLEAN /\ infinite \in BOOLEAN
    /\ search \in BOOLEAN /\ quitFlag \in BOOLEAN /\ notified \in BOOLEAN
    /\ optionsSetFinished \in BOOLEAN /\ heldBack \in BOOLEAN
ControlTypes ==
    /\ uciPc \in UciPcs /\ next \in {"none", "stop", "quit", "go", "ponder"}
    /\ mainPc \in MainPcs
    /\ limit \in {"none", "time", "zero"} /\ kind \in Kinds
    /\ tree \in {"idle", "busy", "stopping", "stopped", "quitting", "quit"}
OptionTypes ==
    /\ pendingOptions \in [Options -> Values] /\ options \in [Options -> Values]
    /\ params \in [Options -> Values] /\ requested \in [Options -> Values]
    /\ sets \in Values
CountTypes == gos \in 0..MaxGos /\ bestmoves \in 0..MaxGos

\* Every variable has its type, and no answer is given beyond the last go.
TypeOK == FlagTypes /\ ControlTypes /\ OptionTypes /\ CountTypes

\* Where the main thread uses the search object, the tables or the parameters.
MainBusy == mainPc \in {"search", "readPonder", "readInfinite", "finish", "sendStop", "stopPoll",
                        "stopWait", "optionsAfter", "apply", "applyAfter", "clearSearch"}

\* While the UCI thread makes a new Search, ages the hash table, reads the
\* parameters and creates threads, none of which is locked, the main thread
\* neither searches nor sets options and the search threads rest.
Exclusive ==
    uciPc \in {"prepare", "start"} => ~MainBusy /\ tree = "idle"

\* When optionsSetFinished is set, every option has the last value asked for:
\* no setoption is lost between setOptionWhenIdle and setOptions, and a search
\* is prepared with the options that were set before the go command.
OptionsInEffect == optionsSetFinished => params = requested

\* go and bestmove keep the promise of UciSession: one bestmove per go, before
\* the next search, and none while the GUI has not allowed it, though the main
\* thread reads ponder and infinite one after the other without a lock.
Session == INSTANCE UciSession WITH held <- search /\ heldBack
ImplementsSession == Session!Spec

\* "If the engine is not searching, wait until all pending options have been
\* processed" (waitReady, enginecontrol.hpp:151).
ReadyMeansOptionsSet ==
    [][uciPc # "readyok" /\ uciPc' = "readyok" /\ ~search => params = requested]_vars

\* Every command returns to the loop that reads them: a stop, a quit, a go that
\* follows a search, and isready are not blocked for ever by the search or by
\* options.  After a quit the main thread leaves its loop.
CommandsReturn ==
    /\ uciPc \notin {"read", "done"} ~> uciPc \in {"read", "done"}
    /\ uciPc = "quit" ~> mainPc = "exited"

\* Options are set as soon as the engine is idle, also when their notification
\* was consumed by a wait for something else.
OptionsGetSet == pendingOptions # NoOptions ~> pendingOptions = NoOptions \/ search

\* A search with a limit, not held back, ends by itself.
LimitedSearchEnds == search /\ ~ponder /\ ~infinite /\ OutOfTime ~> ~search
=============================================================================
