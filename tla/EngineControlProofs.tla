------------------------ MODULE EngineControlProofs ------------------------
(***************************************************************************)
(* Proofs about EngineControl for any set of options and any number of     *)
(* commands: the mutual exclusion of the two threads, the delivery of      *)
(* options, and the refinement of UciSession.                              *)
(***************************************************************************)
EXTENDS EngineControl, TLAPS

-----------------------------------------------------------------------------
(* The inductive invariant *)

\* Between the test of search and the reset of search the main thread works on
\* the search that was started; from the answer on, Answered.
Answered == {"sendStop", "stopPoll", "stopWait", "optionsAfter", "applyAfter",
        "clearSearch"}
OnSearch == {"search", "readPonder", "readInfinite", "finish"} \union Answered
Quitting == {"sendQuit", "quitPoll", "quitWait", "exited"}

\* Where the value an option should have is: still pending, taken but not yet
\* set, or set.
Effective(o) == IF pendingOptions[o] # None THEN pendingOptions[o]
                ELSE IF options[o] # None THEN options[o] ELSE params[o]

OptionsInv ==
    /\ \A o \in Options : Effective(o) = requested[o]
    /\ optionsSetFinished => pendingOptions = NoOptions /\ options = NoOptions
    /\ mainPc \in {"apply", "applyAfter"} => ~optionsSetFinished
    /\ mainPc \notin {"apply", "applyAfter"} => options = NoOptions

SearchInv ==
    /\ uciPc \in {"waitOptions", "prepare", "start"} => ~search
    /\ uciPc \in {"prepare", "start"} => optionsSetFinished
    /\ mainPc \in OnSearch => search
    /\ tree # "idle" => mainPc \in (OnSearch \ {"optionsAfter", "applyAfter",
        "clearSearch"})
                                   \union Quitting
    /\ mainPc \in Quitting => quitFlag
    /\ quitFlag => uciPc = "done"

AnswerInv ==
    /\ ~search \/ mainPc \in Answered => bestmoves = gos
    /\ search /\ mainPc \notin Answered => bestmoves + 1 = gos

\* While the answer is held back one of the two flags is set, and what the main
\* thread has read of them agrees with that.
HeldInv ==
    /\ heldBack => ponder \/ infinite
    /\ uciPc = "ponderHit" /\ heldBack => infinite
    /\ uciPc \in {"clearInfinite", "clearPonder"} => ~heldBack
    /\ mainPc = "readInfinite" /\ heldBack => infinite
    /\ mainPc = "finish" => ~heldBack

\* A go command that is being carried out is one of the MaxGos.
Stopping == {"clearInfinite", "clearPonder", "waitStop", "waitOptions"}
CommandInv ==
    /\ uciPc \in Stopping => next \in {"stop", "quit", "go", "ponder"}
    /\ uciPc \in {"prepare", "start"} => next \in {"go", "ponder"}
    /\ uciPc \in Stopping \union {"prepare", "start"} /\ next \in {"go", "ponder"}
          => gos < MaxGos

IInv == TypeOK /\ OptionsInv /\ SearchInv /\ AnswerInv /\ CommandInv /\ HeldInv

\* The initial state has the types.
LEMMA InitTypeOK == Init => TypeOK
<1> SUFFICES ASSUME Init PROVE TypeOK
  OBVIOUS
<1>1. FlagTypes
  BY DEF Init, FlagTypes
<1>2. ControlTypes
  BY DEF Init, ControlTypes, Kinds, UciPcs, MainPcs
<1>3. OptionTypes /\ CountTypes
  BY BoundsAssumption DEF Init, OptionTypes, CountTypes, Values, NoOptions, None
<1> QED
  BY <1>1, <1>2, <1>3 DEF TypeOK

\* The invariant holds initially ...
LEMMA InitInv == Init => IInv
<1> SUFFICES ASSUME Init PROVE IInv
  OBVIOUS
<1>1. TypeOK
  BY InitTypeOK
<1>2. OptionsInv
  BY DEF Init, OptionsInv, Effective
<1>3. SearchInv /\ AnswerInv /\ CommandInv /\ HeldInv
  BY DEF Init, SearchInv, AnswerInv, CommandInv, Stopping, HeldInv, Answered, OnSearch,
        Quitting
<1> QED
  BY <1>1, <1>2, <1>3 DEF IInv

\* The flags stay Boolean.
LEMMA StepFlags == FlagTypes /\ [Next]_vars => FlagTypes'
<1> SUFFICES ASSUME FlagTypes, [Next]_vars PROVE FlagTypes'
  OBVIOUS
<1> USE DEF FlagTypes,
        uciVars, goVars, optVars, histVars, flagVars
<1>1. ASSUME NEW o \in Options, SetOption(o) PROVE FlagTypes'
  BY <1>1 DEF SetOption
<1>2. CASE SetUnknownOption \/ IsReady \/ Stop \/ QuitCommand \/ GoCommand
  BY <1>2 DEF SetUnknownOption, IsReady, Stop, CallStopThread, QuitCommand, GoCommand
<1>3. CASE GoPonderCommand \/ PonderHit
  BY <1>3 DEF GoPonderCommand, CallStopThread, PonderHit
<1>4. CASE NotifyOption \/ WaitReady \/ ReadyOk
  BY <1>4 DEF NotifyOption, WaitReady, ReadyOk
<1>5. CASE ClearInfinite \/ ClearPonder \/ WaitStop
  BY <1>5 DEF ClearInfinite, ClearPonder, WaitStop
<1>6. CASE WaitOptionsSet \/ StartSearch \/ NotifySearch
  BY <1>6 DEF WaitOptionsSet, StartSearch, NotifySearch
<1>7. CASE PonderHitDone \/ Quit
  BY <1>7 DEF PonderHitDone, Quit
<1>8. ASSUME NEW k \in Kinds, StartThread(k) PROVE FlagTypes'
  BY <1>8 DEF StartThread
<1>9. ASSUME NEW o \in Options, ApplyOption(o) PROVE FlagTypes'
  BY <1>9 DEF ApplyOption
<1>10. CASE MainWait \/ CheckQuit \/ TakeOptions \/ ApplyDone
  BY <1>10 DEF MainWait, CheckQuit, TakeOptions, ApplyDone
<1>11. CASE OptionsDone \/ NoSearch \/ BookMove
  BY <1>11 DEF OptionsDone, NoSearch, BookMove
<1>12. CASE BeginSearch \/ ReadPonder \/ ReadInfinite
  BY <1>12 DEF BeginSearch, ReadPonder, ReadInfinite
<1>13. CASE FinishSearch \/ SendStop \/ StopPoll
  BY <1>13 DEF FinishSearch, SendStop, StopPoll
<1>14. CASE StopWait \/ Stopped \/ ClearSearch
  BY <1>14 DEF StopWait, Stopped, ClearSearch
<1>15. CASE SendQuit \/ QuitPoll \/ QuitWait
  BY <1>15 DEF SendQuit, QuitPoll, QuitWait
<1>16. CASE EndSearch \/ TreeReports \/ TreeStops
  BY <1>16 DEF EndSearch, TreeReports, TreeStops
<1>17. CASE UNCHANGED vars
  BY <1>17 DEF vars
<1> QED
  BY <1>1, <1>2, <1>3, <1>4, <1>5, <1>6, <1>7, <1>8, <1>9, <1>10, <1>11, <1>12, <1>13,
        <1>14, <1>15, <1>16, <1>17 DEF Next, UciCommand, UciStep, MainStep, Terminated

\* Every step leads to a known place.
LEMMA StepControl == ControlTypes /\ [Next]_vars => ControlTypes'
<1> SUFFICES ASSUME ControlTypes, [Next]_vars PROVE ControlTypes'
  OBVIOUS
<1> USE DEF ControlTypes, Kinds, UciPcs, MainPcs,
        uciVars, goVars, optVars, histVars, flagVars
<1>1. ASSUME NEW o \in Options, SetOption(o) PROVE ControlTypes'
  BY <1>1 DEF SetOption
<1>2. CASE SetUnknownOption \/ IsReady \/ Stop \/ QuitCommand \/ GoCommand \/
        GoPonderCommand \/ PonderHit
  BY <1>2 DEF SetUnknownOption, IsReady, Stop, CallStopThread, QuitCommand, GoCommand,
        GoPonderCommand, PonderHit
<1>3. CASE NotifyOption \/ WaitReady \/ ReadyOk \/ ClearInfinite \/ ClearPonder \/
        WaitStop \/ WaitOptionsSet \/ StartSearch \/ NotifySearch \/ PonderHitDone \/
        Quit
  BY <1>3 DEF NotifyOption, WaitReady, ReadyOk, ClearInfinite, ClearPonder, WaitStop,
        WaitOptionsSet, StartSearch, NotifySearch, PonderHitDone, Quit
<1>4. ASSUME NEW k \in Kinds, StartThread(k) PROVE ControlTypes'
  BY <1>4 DEF StartThread
<1>5. ASSUME NEW o \in Options, ApplyOption(o) PROVE ControlTypes'
  BY <1>5 DEF ApplyOption
<1>6. CASE MainWait \/ CheckQuit \/ TakeOptions \/ ApplyDone \/ OptionsDone \/ NoSearch
        \/ BookMove \/ BeginSearch \/ ReadPonder \/ ReadInfinite
  BY <1>6 DEF MainWait, CheckQuit, TakeOptions, ApplyDone, OptionsDone, NoSearch,
        BookMove, BeginSearch, ReadPonder, ReadInfinite
<1>7. CASE FinishSearch \/ SendStop \/ StopPoll \/ StopWait \/ Stopped \/ ClearSearch \/
        SendQuit \/ QuitPoll \/ QuitWait
  BY <1>7 DEF FinishSearch, SendStop, StopPoll, StopWait, Stopped, ClearSearch,
        SendQuit, QuitPoll, QuitWait
<1>8. CASE EndSearch \/ TreeReports \/ TreeStops
  BY <1>8 DEF EndSearch, TreeReports, TreeStops
<1>9. CASE UNCHANGED vars
  BY <1>9 DEF vars
<1> QED
  BY <1>1, <1>2, <1>3, <1>4, <1>5, <1>6, <1>7, <1>8, <1>9 DEF Next, UciCommand, UciStep,
        MainStep, Terminated

\* Option values stay in range.
LEMMA StepOptionTypes == OptionTypes /\ [Next]_vars => OptionTypes'
<1> SUFFICES ASSUME OptionTypes, [Next]_vars PROVE OptionTypes'
  OBVIOUS
<1> USE BoundsAssumption DEF OptionTypes, Values, NoOptions, None,
        uciVars, goVars, optVars, histVars, flagVars
<1>1. ASSUME NEW o \in Options, SetOption(o) PROVE OptionTypes'
  BY <1>1 DEF SetOption
<1>2. CASE SetUnknownOption \/ IsReady \/ Stop \/ QuitCommand \/ GoCommand \/
        GoPonderCommand \/ PonderHit
  BY <1>2 DEF SetUnknownOption, IsReady, Stop, CallStopThread, QuitCommand, GoCommand,
        GoPonderCommand, PonderHit
<1>3. CASE NotifyOption \/ WaitReady \/ ReadyOk \/ ClearInfinite \/ ClearPonder \/
        WaitStop \/ WaitOptionsSet \/ StartSearch \/ NotifySearch \/ PonderHitDone \/
        Quit
  BY <1>3 DEF NotifyOption, WaitReady, ReadyOk, ClearInfinite, ClearPonder, WaitStop,
        WaitOptionsSet, StartSearch, NotifySearch, PonderHitDone, Quit
<1>4. ASSUME NEW k \in Kinds, StartThread(k) PROVE OptionTypes'
  BY <1>4 DEF StartThread
<1>5. ASSUME NEW o \in Options, ApplyOption(o) PROVE OptionTypes'
  BY <1>5 DEF ApplyOption
<1>6. CASE MainWait \/ CheckQuit \/ TakeOptions \/ ApplyDone \/ OptionsDone \/ NoSearch
        \/ BookMove \/ BeginSearch \/ ReadPonder \/ ReadInfinite
  BY <1>6 DEF MainWait, CheckQuit, TakeOptions, ApplyDone, OptionsDone, NoSearch,
        BookMove, BeginSearch, ReadPonder, ReadInfinite
<1>7. CASE FinishSearch \/ SendStop \/ StopPoll \/ StopWait \/ Stopped \/ ClearSearch \/
        SendQuit \/ QuitPoll \/ QuitWait
  BY <1>7 DEF FinishSearch, SendStop, StopPoll, StopWait, Stopped, ClearSearch,
        SendQuit, QuitPoll, QuitWait
<1>8. CASE EndSearch \/ TreeReports \/ TreeStops
  BY <1>8 DEF EndSearch, TreeReports, TreeStops
<1>9. CASE UNCHANGED vars
  BY <1>9 DEF vars
<1> QED
  BY <1>1, <1>2, <1>3, <1>4, <1>5, <1>6, <1>7, <1>8, <1>9 DEF Next, UciCommand, UciStep,
        MainStep, Terminated

\* The counters stay in range.
LEMMA StepCounts == CountTypes /\ CommandInv /\ SearchInv /\ AnswerInv /\ [Next]_vars =>
        CountTypes'
<1> SUFFICES ASSUME CountTypes /\ CommandInv /\ SearchInv /\ AnswerInv, [Next]_vars
        PROVE CountTypes'
  OBVIOUS
<1> USE BoundsAssumption DEF CountTypes, CommandInv, Stopping, SearchInv, AnswerInv,
        OnSearch, Answered,
        uciVars, goVars, optVars, histVars, flagVars
<1>1. ASSUME NEW o \in Options, SetOption(o) PROVE CountTypes'
  BY <1>1 DEF SetOption
<1>2. CASE SetUnknownOption \/ IsReady \/ Stop \/ QuitCommand \/ GoCommand \/
        GoPonderCommand \/ PonderHit
  BY <1>2 DEF SetUnknownOption, IsReady, Stop, CallStopThread, QuitCommand, GoCommand,
        GoPonderCommand, PonderHit
<1>3. CASE NotifyOption \/ WaitReady \/ ReadyOk \/ ClearInfinite \/ ClearPonder \/
        WaitStop \/ WaitOptionsSet \/ StartSearch \/ NotifySearch \/ PonderHitDone \/
        Quit
  BY <1>3 DEF NotifyOption, WaitReady, ReadyOk, ClearInfinite, ClearPonder, WaitStop,
        WaitOptionsSet, StartSearch, NotifySearch, PonderHitDone, Quit
<1>4. ASSUME NEW k \in Kinds, StartThread(k) PROVE CountTypes'
  BY <1>4 DEF StartThread
<1>5. ASSUME NEW o \in Options, ApplyOption(o) PROVE CountTypes'
  BY <1>5 DEF ApplyOption
<1>6. CASE MainWait \/ CheckQuit \/ TakeOptions \/ ApplyDone \/ OptionsDone \/ NoSearch
        \/ BookMove \/ BeginSearch \/ ReadPonder \/ ReadInfinite
  BY <1>6 DEF MainWait, CheckQuit, TakeOptions, ApplyDone, OptionsDone, NoSearch,
        BookMove, BeginSearch, ReadPonder, ReadInfinite
<1>7. CASE FinishSearch \/ SendStop \/ StopPoll \/ StopWait \/ Stopped \/ ClearSearch \/
        SendQuit \/ QuitPoll \/ QuitWait
  BY <1>7 DEF FinishSearch, SendStop, StopPoll, StopWait, Stopped, ClearSearch,
        SendQuit, QuitPoll, QuitWait
<1>8. CASE EndSearch \/ TreeReports \/ TreeStops
  BY <1>8 DEF EndSearch, TreeReports, TreeStops
<1>9. CASE UNCHANGED vars
  BY <1>9 DEF vars
<1> QED
  BY <1>1, <1>2, <1>3, <1>4, <1>5, <1>6, <1>7, <1>8, <1>9 DEF Next, UciCommand, UciStep,
        MainStep, Terminated

\* search is set exactly while the main thread works for the UCI thread.
LEMMA StepSearch == SearchInv /\ OptionsInv /\ [Next]_vars => SearchInv'
<1> SUFFICES ASSUME SearchInv /\ OptionsInv, [Next]_vars PROVE SearchInv'
  OBVIOUS
<1> USE DEF SearchInv, OptionsInv, OnSearch, Answered, Quitting,
        uciVars, goVars, optVars, histVars, flagVars
<1>1. ASSUME NEW o \in Options, SetOption(o) PROVE SearchInv'
  BY <1>1 DEF SetOption
<1>2. CASE SetUnknownOption \/ IsReady \/ Stop \/ QuitCommand \/ GoCommand \/
        GoPonderCommand \/ PonderHit
  BY <1>2 DEF SetUnknownOption, IsReady, Stop, CallStopThread, QuitCommand, GoCommand,
        GoPonderCommand, PonderHit
<1>3. CASE NotifyOption \/ WaitReady \/ ReadyOk \/ ClearInfinite \/ ClearPonder \/
        WaitStop \/ WaitOptionsSet \/ StartSearch \/ NotifySearch \/ PonderHitDone \/
        Quit
  BY <1>3 DEF NotifyOption, WaitReady, ReadyOk, ClearInfinite, ClearPonder, WaitStop,
        WaitOptionsSet, StartSearch, NotifySearch, PonderHitDone, Quit
<1>4. ASSUME NEW k \in Kinds, StartThread(k) PROVE SearchInv'
  BY <1>4 DEF StartThread
<1>5. ASSUME NEW o \in Options, ApplyOption(o) PROVE SearchInv'
  BY <1>5 DEF ApplyOption
<1>6. CASE MainWait \/ CheckQuit \/ TakeOptions \/ ApplyDone \/ OptionsDone \/ NoSearch
        \/ BookMove \/ BeginSearch \/ ReadPonder \/ ReadInfinite
  BY <1>6 DEF MainWait, CheckQuit, TakeOptions, ApplyDone, OptionsDone, NoSearch,
        BookMove, BeginSearch, ReadPonder, ReadInfinite
<1>7. CASE FinishSearch \/ SendStop \/ StopPoll \/ StopWait \/ Stopped \/ ClearSearch \/
        SendQuit \/ QuitPoll \/ QuitWait
  BY <1>7 DEF FinishSearch, SendStop, StopPoll, StopWait, Stopped, ClearSearch,
        SendQuit, QuitPoll, QuitWait
<1>8. CASE EndSearch \/ TreeReports \/ TreeStops
  BY <1>8 DEF EndSearch, TreeReports, TreeStops
<1>9. CASE UNCHANGED vars
  BY <1>9 DEF vars
<1> QED
  BY <1>1, <1>2, <1>3, <1>4, <1>5, <1>6, <1>7, <1>8, <1>9 DEF Next, UciCommand, UciStep,
        MainStep, Terminated

\* One answer per search.
LEMMA StepAnswer == SearchInv /\ AnswerInv /\ CountTypes /\ [Next]_vars => AnswerInv'
<1> SUFFICES ASSUME SearchInv /\ AnswerInv /\ CountTypes, [Next]_vars PROVE AnswerInv'
  OBVIOUS
<1> USE DEF SearchInv, AnswerInv, CountTypes, OnSearch, Answered, Quitting,
        uciVars, goVars, optVars, histVars, flagVars
<1>1. ASSUME NEW o \in Options, SetOption(o) PROVE AnswerInv'
  BY <1>1 DEF SetOption
<1>2. CASE SetUnknownOption \/ IsReady \/ Stop \/ QuitCommand \/ GoCommand \/
        GoPonderCommand \/ PonderHit
  BY <1>2 DEF SetUnknownOption, IsReady, Stop, CallStopThread, QuitCommand, GoCommand,
        GoPonderCommand, PonderHit
<1>3. CASE NotifyOption \/ WaitReady \/ ReadyOk \/ ClearInfinite \/ ClearPonder \/
        WaitStop \/ WaitOptionsSet \/ StartSearch \/ NotifySearch \/ PonderHitDone \/
        Quit
  BY <1>3 DEF NotifyOption, WaitReady, ReadyOk, ClearInfinite, ClearPonder, WaitStop,
        WaitOptionsSet, StartSearch, NotifySearch, PonderHitDone, Quit
<1>4. ASSUME NEW k \in Kinds, StartThread(k) PROVE AnswerInv'
  BY <1>4 DEF StartThread
<1>5. ASSUME NEW o \in Options, ApplyOption(o) PROVE AnswerInv'
  BY <1>5 DEF ApplyOption
<1>6. CASE MainWait \/ CheckQuit \/ TakeOptions \/ ApplyDone \/ OptionsDone \/ NoSearch
        \/ BookMove \/ BeginSearch \/ ReadPonder \/ ReadInfinite
  BY <1>6 DEF MainWait, CheckQuit, TakeOptions, ApplyDone, OptionsDone, NoSearch,
        BookMove, BeginSearch, ReadPonder, ReadInfinite
<1>7. CASE FinishSearch \/ SendStop \/ StopPoll \/ StopWait \/ Stopped \/ ClearSearch \/
        SendQuit \/ QuitPoll \/ QuitWait
  BY <1>7 DEF FinishSearch, SendStop, StopPoll, StopWait, Stopped, ClearSearch,
        SendQuit, QuitPoll, QuitWait
<1>8. CASE EndSearch \/ TreeReports \/ TreeStops
  BY <1>8 DEF EndSearch, TreeReports, TreeStops
<1>9. CASE UNCHANGED vars
  BY <1>9 DEF vars
<1> QED
  BY <1>1, <1>2, <1>3, <1>4, <1>5, <1>6, <1>7, <1>8, <1>9 DEF Next, UciCommand, UciStep,
        MainStep, Terminated

\* The command that is being carried out.
LEMMA StepCommand == CommandInv /\ SearchInv /\ [Next]_vars => CommandInv'
<1> SUFFICES ASSUME CommandInv /\ SearchInv, [Next]_vars PROVE CommandInv'
  OBVIOUS
<1> USE DEF CommandInv, Stopping, SearchInv,
        uciVars, goVars, optVars, histVars, flagVars
<1>1. ASSUME NEW o \in Options, SetOption(o) PROVE CommandInv'
  BY <1>1 DEF SetOption
<1>2. CASE SetUnknownOption \/ IsReady \/ Stop \/ QuitCommand \/ GoCommand \/
        GoPonderCommand \/ PonderHit
  BY <1>2 DEF SetUnknownOption, IsReady, Stop, CallStopThread, QuitCommand, GoCommand,
        GoPonderCommand, PonderHit
<1>3. CASE NotifyOption \/ WaitReady \/ ReadyOk \/ ClearInfinite \/ ClearPonder \/
        WaitStop \/ WaitOptionsSet \/ StartSearch \/ NotifySearch \/ PonderHitDone \/
        Quit
  BY <1>3 DEF NotifyOption, WaitReady, ReadyOk, ClearInfinite, ClearPonder, WaitStop,
        WaitOptionsSet, StartSearch, NotifySearch, PonderHitDone, Quit
<1>4. ASSUME NEW k \in Kinds, StartThread(k) PROVE CommandInv'
  BY <1>4 DEF StartThread
<1>5. ASSUME NEW o \in Options, ApplyOption(o) PROVE CommandInv'
  BY <1>5 DEF ApplyOption
<1>6. CASE MainWait \/ CheckQuit \/ TakeOptions \/ ApplyDone \/ OptionsDone \/ NoSearch
        \/ BookMove \/ BeginSearch \/ ReadPonder \/ ReadInfinite
  BY <1>6 DEF MainWait, CheckQuit, TakeOptions, ApplyDone, OptionsDone, NoSearch,
        BookMove, BeginSearch, ReadPonder, ReadInfinite
<1>7. CASE FinishSearch \/ SendStop \/ StopPoll \/ StopWait \/ Stopped \/ ClearSearch \/
        SendQuit \/ QuitPoll \/ QuitWait
  BY <1>7 DEF FinishSearch, SendStop, StopPoll, StopWait, Stopped, ClearSearch,
        SendQuit, QuitPoll, QuitWait
<1>8. CASE EndSearch \/ TreeReports \/ TreeStops
  BY <1>8 DEF EndSearch, TreeReports, TreeStops
<1>9. CASE UNCHANGED vars
  BY <1>9 DEF vars
<1> QED
  BY <1>1, <1>2, <1>3, <1>4, <1>5, <1>6, <1>7, <1>8, <1>9 DEF Next, UciCommand, UciStep,
        MainStep, Terminated

\* The answer is held back as long as the GUI wants.
LEMMA StepHeld == CommandInv /\ SearchInv /\ HeldInv /\ [Next]_vars => HeldInv'
<1> SUFFICES ASSUME CommandInv /\ SearchInv /\ HeldInv, [Next]_vars PROVE HeldInv'
  OBVIOUS
<1> USE DEF CommandInv, SearchInv, HeldInv, OnSearch, Answered, Quitting,
        uciVars, goVars, optVars, histVars, flagVars
<1>1. ASSUME NEW o \in Options, SetOption(o) PROVE HeldInv'
  BY <1>1 DEF SetOption
<1>2. CASE SetUnknownOption \/ IsReady
  BY <1>2 DEF SetUnknownOption, IsReady
<1>3. CASE Stop \/ QuitCommand \/ GoCommand \/ GoPonderCommand
  BY <1>3 DEF Stop, CallStopThread, QuitCommand, GoCommand, GoPonderCommand
<1>4. CASE PonderHit
  BY <1>4 DEF PonderHit
<1>5. CASE NotifyOption \/ WaitReady \/ ReadyOk \/ ClearInfinite \/ ClearPonder \/
        WaitStop \/ WaitOptionsSet \/ StartSearch \/ NotifySearch \/ PonderHitDone \/
        Quit
  BY <1>5 DEF NotifyOption, WaitReady, ReadyOk, ClearInfinite, ClearPonder, WaitStop,
        WaitOptionsSet, StartSearch, NotifySearch, PonderHitDone, Quit
<1>6. ASSUME NEW k \in Kinds, StartThread(k) PROVE HeldInv'
  BY <1>6 DEF StartThread
<1>7. ASSUME NEW o \in Options, ApplyOption(o) PROVE HeldInv'
  BY <1>7 DEF ApplyOption
<1>8. CASE MainWait \/ CheckQuit \/ TakeOptions \/ ApplyDone \/ OptionsDone \/ NoSearch
        \/ BookMove \/ BeginSearch \/ ReadPonder \/ ReadInfinite
  BY <1>8 DEF MainWait, CheckQuit, TakeOptions, ApplyDone, OptionsDone, NoSearch,
        BookMove, BeginSearch, ReadPonder, ReadInfinite
<1>9. CASE FinishSearch \/ SendStop \/ StopPoll \/ StopWait \/ Stopped \/ ClearSearch \/
        SendQuit \/ QuitPoll \/ QuitWait
  BY <1>9 DEF FinishSearch, SendStop, StopPoll, StopWait, Stopped, ClearSearch,
        SendQuit, QuitPoll, QuitWait
<1>10. CASE EndSearch \/ TreeReports \/ TreeStops
  BY <1>10 DEF EndSearch, TreeReports, TreeStops
<1>11. CASE UNCHANGED vars
  BY <1>11 DEF vars
<1> QED
  BY <1>1, <1>2, <1>3, <1>4, <1>5, <1>6, <1>7, <1>8, <1>9, <1>10, <1>11 DEF Next,
        UciCommand, UciStep, MainStep, Terminated

\* What setOptions and setOptionWhenIdle do to an option.
LEMMA StepOptions == OptionsInv /\ OptionTypes /\ [Next]_vars => OptionsInv'
<1> SUFFICES ASSUME OptionsInv, OptionTypes, [Next]_vars PROVE OptionsInv'
  OBVIOUS
<1> DEFINE Applying == mainPc \in {"apply", "applyAfter"}
           Idle == UNCHANGED <<optVars, requested>> /\ (Applying' <=> Applying)
<1>1. ASSUME NEW p \in Options, SetOption(p) PROVE OptionsInv'
  BY <1>1 DEF SetOption, OptionsInv, Effective, OptionTypes, Values, None
<1>2. CASE TakeOptions
  BY <1>2 DEF TakeOptions, OptionsInv, Effective, OptionTypes, NoOptions, None, histVars
<1>3. ASSUME NEW p \in Options, ApplyOption(p) PROVE OptionsInv'
  <2>1. options # NoOptions /\ ~optionsSetFinished
    BY <1>3 DEF ApplyOption, OptionsInv, NoOptions, None
  <2>2. \A o \in Options : Effective(o)' = Effective(o)
    BY <1>3 DEF ApplyOption, Effective, OptionTypes, None
  <2> QED
    BY <1>3, <2>1, <2>2 DEF ApplyOption, OptionsInv, histVars
<1>4. CASE ApplyDone
  BY <1>4 DEF ApplyDone, OptionsInv, Effective, optVars, histVars
<1>5. CASE OptionsDone
  BY <1>5 DEF OptionsDone, OptionsInv, Effective, histVars
<1>6. ASSUME Idle PROVE OptionsInv'
  BY <1>6 DEF OptionsInv, Effective, optVars
<1>7. CASE SetUnknownOption \/ IsReady \/ Stop \/ QuitCommand \/ GoCommand \/
        GoPonderCommand \/ PonderHit
  BY <1>6, <1>7 DEF SetUnknownOption, IsReady, Stop, CallStopThread, QuitCommand,
        GoCommand, GoPonderCommand, PonderHit,
        uciVars, goVars, optVars, histVars, flagVars
<1>8. CASE NotifyOption \/ WaitReady \/ ReadyOk \/ ClearInfinite \/ ClearPonder \/
        WaitStop \/ WaitOptionsSet \/ StartSearch \/ NotifySearch \/ PonderHitDone \/
        Quit
  BY <1>6, <1>8 DEF NotifyOption, WaitReady, ReadyOk, ClearInfinite, ClearPonder,
        WaitStop, WaitOptionsSet, StartSearch, NotifySearch, PonderHitDone, Quit,
        uciVars, goVars, optVars, histVars, flagVars
<1>9. ASSUME NEW k \in Kinds, StartThread(k) PROVE OptionsInv'
  BY <1>6, <1>9 DEF StartThread, uciVars, goVars, optVars, histVars, flagVars
<1>10. CASE MainWait \/ CheckQuit \/ NoSearch \/ BookMove \/ BeginSearch \/ ReadPonder
        \/ ReadInfinite \/ FinishSearch
  BY <1>6, <1>10 DEF MainWait, CheckQuit, NoSearch, BookMove, BeginSearch, ReadPonder,
        ReadInfinite, FinishSearch,
        uciVars, goVars, optVars, histVars, flagVars
<1>11. CASE SendStop \/ StopPoll \/ StopWait \/ Stopped \/ ClearSearch \/ SendQuit \/
        QuitPoll \/ QuitWait
  BY <1>6, <1>11 DEF SendStop, StopPoll, StopWait, Stopped, ClearSearch, SendQuit,
        QuitPoll, QuitWait,
        uciVars, goVars, optVars, histVars, flagVars
<1>12. CASE EndSearch \/ TreeReports \/ TreeStops
  BY <1>6, <1>12 DEF EndSearch, TreeReports, TreeStops,
        uciVars, goVars, optVars, histVars, flagVars
<1>13. CASE UNCHANGED vars
  BY <1>6, <1>13 DEF vars, uciVars, goVars, optVars, histVars, flagVars
<1> QED
  BY <1>1, <1>2, <1>3, <1>4, <1>5, <1>7, <1>8, <1>9, <1>10, <1>11, <1>12, <1>13 DEF
        Next, UciCommand, UciStep, MainStep, Terminated

\* ... and every step preserves it.
LEMMA StepInv == IInv /\ [Next]_vars => IInv'
<1> SUFFICES ASSUME IInv, [Next]_vars PROVE IInv'
  OBVIOUS
<1> USE DEF IInv, TypeOK
<1>1. TypeOK'
  BY StepFlags, StepControl, StepOptionTypes, StepCounts
<1>2. OptionsInv'
  BY StepOptions
<1>3. SearchInv' /\ AnswerInv' /\ CommandInv' /\ HeldInv'
  BY StepSearch, StepAnswer, StepCommand, StepHeld
<1> QED
  BY <1>1, <1>2, <1>3

\* The strengthening from which the properties of the runs follow.
THEOREM Invariance == Spec => []IInv
BY InitInv, StepInv, PTL DEF Spec

-----------------------------------------------------------------------------
(* The theorems *)

\* The variables keep their types; no search is answered twice.
THEOREM Typing == Spec => []TypeOK
<1>1. IInv => TypeOK
  BY DEF IInv
<1> QED
  BY Invariance, <1>1, PTL

\* The UCI thread prepares a search only while the main thread does not search
\* and sets no options: stopThread waits for the end of the search and of
\* setOptions, and no step of the main thread starts either again.
THEOREM MutualExclusion == Spec => []Exclusive
<1>1. IInv => Exclusive
  <2> SUFFICES ASSUME IInv, uciPc \in {"prepare", "start"} PROVE ~MainBusy /\ tree =
        "idle"
    BY DEF Exclusive
  <2>1. mainPc \notin OnSearch
    BY DEF IInv, SearchInv
  <2>2. mainPc \notin {"apply", "applyAfter"}
    BY DEF IInv, SearchInv, OptionsInv
  <2>3. mainPc \notin Quitting
    BY DEF IInv, SearchInv
  <2> QED
    BY <2>1, <2>2, <2>3 DEF IInv, SearchInv, MainBusy, OnSearch, Answered
<1> QED
  BY Invariance, <1>1, PTL

\* When optionsSetFinished is set, every option has the last value asked for:
\* what is not yet set is pending or taken, and then it is not set.
THEOREM OptionsArrive == Spec => []OptionsInEffect
<1>1. IInv => OptionsInEffect
  <2> SUFFICES ASSUME IInv, optionsSetFinished PROVE params = requested
    BY DEF OptionsInEffect
  <2>1. \A o \in Options : params[o] = requested[o]
    BY DEF IInv, OptionsInv, Effective, NoOptions, None
  <2>2. params \in [Options -> Values] /\ requested \in [Options -> Values]
    BY DEF IInv, TypeOK, OptionTypes
  <2> QED
    BY <2>1, <2>2
<1> QED
  BY Invariance, <1>1, PTL

\* Every step is a step of UciSession or leaves go, bestmove and the permission
\* to answer as they are.
LEMMA StepSession == IInv /\ [Next]_vars => [Session!Next]_(Session!svars)
<1> SUFFICES ASSUME IInv, [Next]_vars PROVE [Session!Next]_(Session!svars)
  OBVIOUS
<1> USE DEF Session!Next, Session!svars
<1>1. heldBack \in BOOLEAN /\ heldBack' \in BOOLEAN
  BY StepInv DEF IInv, TypeOK, FlagTypes
<1>2. CASE StartSearch
  <2>1. bestmoves = gos
    BY <1>2 DEF StartSearch, IInv, SearchInv, AnswerInv
  <2>2. (search /\ heldBack)' \in BOOLEAN
    OBVIOUS
  <2> QED
    BY <1>2, <2>1, <2>2 DEF StartSearch, Session!Go
<1>3. CASE FinishSearch
  <2>1. search /\ bestmoves + 1 = gos /\ ~heldBack
    BY <1>3 DEF FinishSearch, IInv, SearchInv, AnswerInv, HeldInv, OnSearch, Answered
  <2>2. bestmoves < gos
    BY <2>1 DEF IInv, TypeOK, CountTypes
  <2> QED
    BY <1>3, <2>1, <2>2 DEF FinishSearch, Session!BestMove, flagVars
<1>4. ASSUME UNCHANGED <<gos, bestmoves>>, (search /\ heldBack)' => search /\ heldBack
      PROVE [Session!Next]_(Session!svars)
  <2>1. CASE (search /\ heldBack)' = (search /\ heldBack)
    BY <1>4, <2>1
  <2>2. CASE search /\ heldBack /\ (search /\ heldBack)' = FALSE
    BY <1>4, <2>2 DEF Session!Release
  <2> QED
    BY <1>4, <2>1, <2>2
<1>5. ASSUME NEW o \in Options, SetOption(o) PROVE [Session!Next]_(Session!svars)
  BY <1>4, <1>5 DEF SetOption
<1>6. ASSUME NEW k \in Kinds, StartThread(k) PROVE [Session!Next]_(Session!svars)
  BY <1>4, <1>6 DEF StartThread, IInv, SearchInv
<1>7. ASSUME NEW o \in Options, ApplyOption(o) PROVE [Session!Next]_(Session!svars)
  BY <1>4, <1>7 DEF ApplyOption, histVars
<1>8. CASE SetUnknownOption \/ IsReady \/ Stop \/ QuitCommand \/ GoCommand \/
        GoPonderCommand \/ PonderHit
  BY <1>4, <1>8 DEF SetUnknownOption, IsReady, Stop, CallStopThread, QuitCommand,
        GoCommand, GoPonderCommand, PonderHit,
        histVars
<1>9. CASE NotifyOption \/ WaitReady \/ ReadyOk \/ ClearInfinite \/ ClearPonder \/
        WaitStop \/ WaitOptionsSet \/ NotifySearch \/ PonderHitDone \/ Quit
  BY <1>4, <1>9 DEF NotifyOption, WaitReady, ReadyOk, ClearInfinite, ClearPonder,
        WaitStop, WaitOptionsSet, NotifySearch, PonderHitDone, Quit,
        histVars
<1>10. CASE MainWait \/ CheckQuit \/ TakeOptions \/ ApplyDone \/ OptionsDone \/ NoSearch
        \/ BookMove \/ BeginSearch \/ ReadPonder
  BY <1>4, <1>10 DEF MainWait, CheckQuit, TakeOptions, ApplyDone, OptionsDone, NoSearch,
        BookMove, BeginSearch, ReadPonder,
        histVars
<1>11. CASE ReadInfinite \/ SendStop \/ StopPoll \/ StopWait \/ Stopped \/ ClearSearch
        \/ SendQuit \/ QuitPoll \/ QuitWait
  BY <1>4, <1>11 DEF ReadInfinite, SendStop, StopPoll, StopWait, Stopped, ClearSearch,
        SendQuit, QuitPoll, QuitWait,
        histVars
<1>12. CASE EndSearch \/ TreeReports \/ TreeStops
  BY <1>4, <1>12 DEF EndSearch, TreeReports, TreeStops,
        histVars
<1>13. CASE UNCHANGED vars
  BY <1>4, <1>13 DEF vars, histVars
<1> QED
  BY <1>2, <1>3, <1>5, <1>6, <1>7, <1>8, <1>9, <1>10, <1>11, <1>12, <1>13 DEF Next,
        UciCommand, UciStep, MainStep, Terminated

\* One bestmove per go, before the next search, and not before it is allowed.
THEOREM Refinement == Spec => ImplementsSession
<1>1. Init => Session!Init
  BY DEF Init, Session!Init
<1> QED
  BY <1>1, StepSession, Invariance, PTL DEF Spec, ImplementsSession, Session!Spec
=============================================================================
