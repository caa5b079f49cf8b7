-------------------------- MODULE Shutdown_proofs --------------------------
(***************************************************************************)
(* Shutdown for every number of log lines: on both platforms, with SIGINT  *)
(* between any two steps of main, no freed object is met before the end,   *)
(* lines reach an open file, and the catalog file keeps the stored tables. *)
(*                                                                         *)
(* Then Catalog, the tables behind that file, over any number of starts,   *)
(* saves and kills: the hash map keeps every node in its chain through     *)
(* rehashes, and every start adds the same tables once more.               *)
(***************************************************************************)
EXTENDS Shutdown, Catalog, FiniteSetTheorems, SequenceTheorems, WellFoundedInduction, TLAPS

MainPlaces ==
  {"start", "setLogger", "catalog", "load", "loading", "pager", "work", "flush", "save", "saving",
   "closeLog", "destroyCatalog", "destroyLogger", "closePager", "ended"}

HandlerPlaces == {"idle", "flush", "save", "saving", "closeLog", "exit"}

\* Where main is when what it has set up or freed is, or is not yet, there.
BeforeCatalog == {"start", "setLogger", "catalog"}
BeforeLoaded  == BeforeCatalog \union {"load", "loading"}
BeforePager   == BeforeLoaded \union {"pager"}
CatalogGone   == {"destroyLogger", "closePager", "ended"}
Closing       == {"destroyCatalog", "destroyLogger", "closePager"}
MainLogs      == {"catalog", "pager", "work", "flush", "closePager"}

Calls == [doing : {"nothing", "open", "line", "close", "delete"}, on : 0 .. 2, inside : BOOLEAN]

Loggers == [state : {"none", "live", "freed"}, owner : Threads \union {"nobody"}, fileOpen : BOOLEAN]

ShutdownTypeOK ==
  /\ at \in [Threads -> MainPlaces \union HandlerPlaces]
  /\ at["main"] \in MainPlaces /\ at["handler"] \in HandlerPlaces
  /\ lines \in [Threads -> Nat]
  /\ call \in [Threads -> Calls]
  /\ loggers \in [1 .. 2 -> Loggers]
  /\ instance \in 0 .. 2
  /\ catalog \in {"none", "fresh", "partial", "stored", "freed"}
  /\ catalogFile \in {"fresh", "partial", "stored", "truncated"}
  /\ windows \in BOOLEAN /\ crowded \in BOOLEAN /\ signalled \in BOOLEAN /\ loadedFirst \in BOOLEAN
  /\ gLogger \in BOOLEAN /\ gCatalog \in BOOLEAN /\ gPager \in BOOLEAN
  /\ status \in {"running", "exited", "undefined"}

\* The pointers and objects there are, by the place main has come to.
SetUp ==
  /\ gLogger <=> at["main"] \notin {"start", "setLogger"}
  /\ gCatalog <=> at["main"] \notin BeforeCatalog
  /\ gPager <=> at["main"] \notin BeforePager
  /\ catalog = "none" <=> ~ gCatalog
  /\ catalog = "freed" <=> at["main"] \in CatalogGone

\* The first logger lives until main has deleted it; the second is the one that
\* the first log line after that creates.  instance_ is the one that lives.
LoggersInTurn ==
  /\ loggers[1].state = "none" <=> at["main"] = "start"
  /\ loggers[1].state = "live" <=> instance = 1
  /\ loggers[1].state = "freed" => at["main"] \in {"closePager", "ended"}
  /\ loggers[2].state # "none" => loggers[1].state = "freed"
  /\ loggers[2].state # "freed"
  /\ loggers[2].state = "live" <=> instance = 2

\* What a call may be doing where its thread is, and which logger it is on.
CallsInPlace ==
  \A t \in Threads :
    /\ call[t].doing = "nothing" <=> call[t] = NoCall
    /\ call[t] # NoCall => call[t].on # 0 /\ loggers[call[t].on].state # "none"
    /\ call[t].doing \in {"open", "close", "delete"} => call[t].on = 1
    /\ call[t].doing = "open" => t = "main" /\ at[t] = "setLogger"
    /\ call[t].doing = "delete" =>
         t = "main" /\ at[t] = "closePager" /\ loggers[1].state = "live"
    /\ call[t].doing = "close" => at[t] = IF t = "main" THEN "destroyCatalog" ELSE "exit"
    /\ call[t].doing = "line" => at[t] \in IF t = "main" THEN MainLogs ELSE {"flush"}

\* Who is inside a logger owns its lock, and the logger lives.  Unless there are
\* two threads at work, so does the logger of every call.
CallsOnLive ==
  \A t \in Threads :
    /\ call[t].inside => loggers[call[t].on].state = "live" /\ loggers[call[t].on].owner = t
    /\ call[t] # NoCall /\ ~ (windows /\ signalled) => loggers[call[t].on].state = "live"

LinesInPlace ==
  /\ lines["main"] > 0 => at["main"] \in MainLogs
  /\ lines["handler"] > 0 => at["handler"] = "flush"

\* The file of the first logger is open from initialize to shutdown.
FileIsOpen ==
  status = "running" /\ loggers[1].state = "live" /\ ~ loggers[1].fileOpen =>
    \/ call["main"].doing = "open"
    \/ at["main"] \in Closing
    \/ at["handler"] = "exit"

\* The handler starts with the signal, with a flush only if there is a pager, and
\* remembers when that was.
SignalIsSeen ==
  /\ signalled <=> at["handler"] # "idle"
  /\ at["handler"] = "flush" => gPager
  /\ at["handler"] = "saving" => gCatalog
  /\ call["handler"] # NoCall => signalled
  /\ loadedFirst => signalled /\ at["main"] \notin BeforeLoaded

\* One thread at a time (POSIX): the tables stored in the file are in the catalog
\* once it is loaded; the file holds them until one of the two saves it, and then
\* those of them that a save leaves.
TablesAreKept ==
  ~ windows =>
    /\ ~ signalled /\ at["main"] \in BeforePager \union {"work", "flush", "save"} =>
         catalogFile = "stored"
    /\ ~ signalled /\ at["main"] \in CatalogGone \union {"closeLog", "destroyCatalog"} =>
         catalogFile = IF crowded THEN "partial" ELSE "stored"
    /\ at["main"] \notin BeforeLoaded => catalog \in {"stored", "freed"}
    /\ signalled /\ loadedFirst /\ at["handler"] \in {"closeLog", "exit"} =>
         catalogFile = IF crowded THEN "partial" ELSE "stored"
    /\ signalled => at["main"] # "ended"

\* Until the signal main alone decides, on both platforms.
MainAlone ==
  ~ signalled /\ at["main"] \in BeforeLoaded => catalogFile = "stored"

Ended ==
  /\ at["main"] = "ended" => status = "exited"
  /\ status = "exited" => at["main"] = "ended" \/ at["handler"] = "exit"

IInv ==
  /\ ShutdownTypeOK
  /\ SetUp
  /\ LoggersInTurn
  /\ CallsInPlace
  /\ CallsOnLive
  /\ LinesInPlace
  /\ FileIsOpen
  /\ SignalIsSeen
  /\ TablesAreKept
  /\ MainAlone
  /\ Ended
  /\ FreedOnlyAtTheEnd

(***************************************************************************)
(* What the parts of the actions do.                                       *)
(***************************************************************************)
LEMMA Moved ==
  ASSUME ShutdownTypeOK, NEW t \in Threads, NEW place, NEW n \in Nat, GoTo(t, place, n),
         place \in IF t = "main" THEN MainPlaces ELSE HandlerPlaces
  PROVE  /\ at' \in [Threads -> MainPlaces \union HandlerPlaces]
         /\ at'["main"] \in MainPlaces /\ at'["handler"] \in HandlerPlaces
         /\ lines' \in [Threads -> Nat]
         /\ at'[t] = place /\ lines'[t] = n
         /\ \A u \in Threads : u # t => at'[u] = at[u] /\ lines'[u] = lines[u]
  BY DEF ShutdownTypeOK, GoTo, Threads

LEMMA GotInstance ==
  ASSUME GetInstance
  PROVE  /\ instance' = Instance
         /\ loggers' = IF instance # 0 THEN loggers ELSE [loggers EXCEPT ![Instance] = NewLogger]
  BY DEF GetInstance

\* A call on a logger that lives.
LEMMA Entered ==
  ASSUME NEW t \in Threads, NEW doing, NEW i, Enter(t, doing, i), loggers[i].state # "freed"
  PROVE  /\ call' = [call EXCEPT ![t] = [doing |-> doing, on |-> i, inside |-> FALSE]]
         /\ status' = status
  BY DEF Enter

LEMMA InitOK ==
  ASSUME Init
  PROVE  IInv
<1> USE DEF Init, Threads, NoCall, NoLogger
<1>1. ShutdownTypeOK
  <2>1. /\ at \in [Threads -> MainPlaces \union HandlerPlaces]
        /\ at["main"] \in MainPlaces /\ at["handler"] \in HandlerPlaces
    BY DEF MainPlaces, HandlerPlaces
  <2>2. lines \in [Threads -> Nat] /\ call \in [Threads -> Calls] /\ loggers \in [1 .. 2 -> Loggers]
    BY DEF Calls, Loggers
  <2>3. /\ windows \in BOOLEAN /\ signalled \in BOOLEAN /\ loadedFirst \in BOOLEAN
        /\ gLogger \in BOOLEAN /\ gCatalog \in BOOLEAN /\ gPager \in BOOLEAN
    BY Zenon
  <2>4. /\ instance \in 0 .. 2 /\ catalog = "none" /\ catalogFile = "stored"
        /\ status = "running"
    OBVIOUS
  <2> QED
    BY <2>1, <2>2, <2>3, <2>4, Zenon DEF ShutdownTypeOK
<1>2. SetUp /\ LoggersInTurn
  BY DEF SetUp, LoggersInTurn, BeforeCatalog, BeforePager, BeforeLoaded, CatalogGone
<1>3. CallsInPlace /\ CallsOnLive /\ LinesInPlace /\ FileIsOpen
  BY DEF CallsInPlace, CallsOnLive, LinesInPlace, FileIsOpen
<1>4. SignalIsSeen /\ TablesAreKept /\ MainAlone /\ Ended /\ FreedOnlyAtTheEnd
  BY DEF SignalIsSeen, TablesAreKept, MainAlone, Ended, FreedOnlyAtTheEnd, BeforeLoaded, BeforeCatalog, BeforePager, CatalogGone
<1> QED
  BY <1>1, <1>2, <1>3, <1>4 DEF IInv

(***************************************************************************)
(* main.                                                                   *)
(***************************************************************************)
LEMMA StartKeeps ==
  ASSUME IInv, Start
  PROVE  IInv'
<1>1. /\ status = "running" /\ (windows \/ ~ signalled)
      /\ call["main"] = NoCall /\ at["main"] = "start" /\ lines["main"] = 0
  BY DEF Start, Reaches, Free, Runs
<1>2. instance = 0 /\ loggers[1].state = "none" /\ loggers[2].state = "none"
  BY <1>1 DEF IInv, ShutdownTypeOK, LoggersInTurn, Loggers
<1>3. /\ instance' = 1
      /\ loggers' = [loggers EXCEPT ![1] = NewLogger]
      /\ call' = [call EXCEPT !["main"] = [doing |-> "open", on |-> 1, inside |-> FALSE]]
      /\ UNCHANGED << status, catalog, pointers, catalogFile, signal >>
      /\ GoTo("main", "setLogger", 0)
  <2>1. Instance = 1
    BY <1>2 DEF Instance
  <2> QED
    BY <1>2, <2>1, GotInstance, Entered DEF Start, Threads
<1>4. /\ at' \in [Threads -> MainPlaces \union HandlerPlaces]
      /\ at'["main"] = "setLogger" /\ at'["handler"] = at["handler"]
      /\ lines' \in [Threads -> Nat]
      /\ lines'["main"] = 0 /\ lines'["handler"] = lines["handler"]
  BY <1>3, Moved DEF IInv, Threads, MainPlaces
<1>5. ShutdownTypeOK'
  BY <1>3, <1>4 DEF IInv, ShutdownTypeOK, MainPlaces, Calls, Loggers, NewLogger, Threads, pointers, signal
<1>6. /\ loggers'[1] = NewLogger
      /\ loggers'[2] = loggers[2]
      /\ call'["main"] = [doing |-> "open", on |-> 1, inside |-> FALSE]
      /\ call'["handler"] = call["handler"]
  BY <1>3 DEF IInv, ShutdownTypeOK, Threads
<1>7. SetUp' /\ LoggersInTurn'
  BY <1>1, <1>2, <1>3, <1>4, <1>6
     DEF IInv, NewLogger, SetUp, LoggersInTurn, pointers, BeforeCatalog, BeforePager, BeforeLoaded, CatalogGone
<1>8. CallsInPlace' /\ CallsOnLive'
  BY <1>1, <1>2, <1>3, <1>4, <1>6
     DEF IInv, NewLogger, SetUp, CallsInPlace, CallsOnLive, SignalIsSeen, pointers, signal, Threads, NoCall, BeforePager, BeforeLoaded, BeforeCatalog
<1>9. LinesInPlace' /\ FileIsOpen' /\ SignalIsSeen' /\ Ended'
  BY <1>1, <1>2, <1>3, <1>4, <1>6
     DEF IInv, NewLogger, SetUp, LinesInPlace, FileIsOpen, SignalIsSeen, Ended, pointers, signal, Threads, BeforePager, BeforeLoaded, BeforeCatalog
<1>10. TablesAreKept' /\ MainAlone' /\ FreedOnlyAtTheEnd'
  BY <1>1, <1>2, <1>3, <1>4, <1>6
     DEF IInv, NewLogger, TablesAreKept, MainAlone, FreedOnlyAtTheEnd, pointers, signal, Threads, BeforeLoaded, BeforeCatalog, BeforePager, CatalogGone
<1> QED
  BY <1>5, <1>7, <1>8, <1>9, <1>10 DEF IInv

\* A step of t between its calls leaves the calls where they are.
LEMMA CallsStay ==
  ASSUME IInv, NEW t \in Threads, call[t] = NoCall,
         UNCHANGED << call, loggers, windows, signalled >>,
         \A u \in Threads : u # t => at'[u] = at[u]
  PROVE  CallsInPlace' /\ CallsOnLive'
<1>1. CallsInPlace'
  BY DEF IInv, CallsInPlace, NoCall
<1>2. CallsOnLive'
  BY DEF IInv, CallsOnLive, NoCall
<1> QED
  BY <1>1, <1>2

LEMMA SetLoggerKeeps ==
  ASSUME IInv, SetLogger
  PROVE  IInv'
<1> USE DEF BeforeCatalog, BeforeLoaded, BeforePager, CatalogGone, Closing, MainLogs
<1>1. /\ status = "running" /\ (windows \/ ~ signalled)
      /\ call["main"] = NoCall /\ at["main"] = "setLogger" /\ lines["main"] = 0
      /\ UNCHANGED << call, loggers, instance, catalog, gCatalog, gPager, catalogFile, windows, crowded, signalled, loadedFirst, status >>
      /\ gLogger' = TRUE
      /\ GoTo("main", "catalog", 1)
  BY DEF SetLogger, Reaches, Free, Runs, pointers, signal
<1>2. /\ at' \in [Threads -> MainPlaces \union HandlerPlaces] /\ lines' \in [Threads -> Nat]
      /\ at'["main"] = "catalog" /\ at'["handler"] = at["handler"] /\ at'["handler"] \in HandlerPlaces
      /\ lines'["main"] = 1 /\ lines'["handler"] = lines["handler"]
  BY <1>1, Moved, LineAssumption DEF IInv, Threads, MainPlaces
<1>3. ShutdownTypeOK'
  BY <1>1, <1>2 DEF IInv, ShutdownTypeOK, MainPlaces
<1>4. SetUp' /\ LoggersInTurn' /\ LinesInPlace'
  BY <1>1, <1>2 DEF IInv, SetUp, LoggersInTurn, LinesInPlace
<1>5. CallsInPlace' /\ CallsOnLive'
  BY <1>1, <1>2, CallsStay DEF Threads
<1>6. FileIsOpen'
  BY <1>1, <1>2 DEF IInv, FileIsOpen, CallsInPlace, Threads, NoCall
<1>7. SignalIsSeen' /\ Ended'
  BY <1>1, <1>2 DEF IInv, SetUp, SignalIsSeen, Ended
<1>8. TablesAreKept' /\ MainAlone' /\ FreedOnlyAtTheEnd'
  BY <1>1, <1>2 DEF IInv, SetUp, SignalIsSeen, TablesAreKept, MainAlone, FreedOnlyAtTheEnd
<1> QED
  BY <1>3, <1>4, <1>5, <1>6, <1>7, <1>8 DEF IInv

LEMMA NewCatalogKeeps ==
  ASSUME IInv, NewCatalog
  PROVE  IInv'
<1> USE DEF BeforeCatalog, BeforeLoaded, BeforePager, CatalogGone, Closing, MainLogs
<1>1. /\ status = "running" /\ (windows \/ ~ signalled)
      /\ call["main"] = NoCall /\ at["main"] = "catalog" /\ lines["main"] = 0
      /\ UNCHANGED << call, loggers, instance, gLogger, gPager, catalogFile, windows, crowded, signalled, loadedFirst, status >>
      /\ catalog' = "fresh" /\ gCatalog' = TRUE
      /\ GoTo("main", "load", 0)
  BY DEF NewCatalog, Reaches, Free, Runs, pointers, signal
<1>2. /\ at' \in [Threads -> MainPlaces \union HandlerPlaces] /\ lines' \in [Threads -> Nat]
      /\ at'["main"] = "load" /\ at'["handler"] = at["handler"] /\ at'["handler"] \in HandlerPlaces
      /\ lines'["main"] = 0 /\ lines'["handler"] = lines["handler"]
  BY <1>1, Moved, LineAssumption DEF IInv, Threads, MainPlaces
<1>3. ShutdownTypeOK'
  BY <1>1, <1>2 DEF IInv, ShutdownTypeOK, MainPlaces
<1>4. SetUp' /\ LoggersInTurn' /\ LinesInPlace'
  BY <1>1, <1>2 DEF IInv, SetUp, LoggersInTurn, LinesInPlace
<1>5. CallsInPlace' /\ CallsOnLive'
  BY <1>1, <1>2, CallsStay DEF Threads
<1>6. FileIsOpen'
  BY <1>1, <1>2 DEF IInv, FileIsOpen, CallsInPlace, Threads, NoCall
<1>7. SignalIsSeen' /\ Ended'
  BY <1>1, <1>2 DEF IInv, SetUp, SignalIsSeen, Ended
<1>8. TablesAreKept' /\ MainAlone' /\ FreedOnlyAtTheEnd'
  BY <1>1, <1>2 DEF IInv, SetUp, SignalIsSeen, TablesAreKept, MainAlone, FreedOnlyAtTheEnd
<1> QED
  BY <1>3, <1>4, <1>5, <1>6, <1>7, <1>8 DEF IInv

\* The file is what was stored before, unless a handler in its own thread writes to it.
LEMMA BeginLoadKeeps ==
  ASSUME IInv, BeginLoad
  PROVE  IInv'
<1> USE DEF BeforeCatalog, BeforeLoaded, BeforePager, CatalogGone, Closing, MainLogs
<1>1. /\ status = "running" /\ (windows \/ ~ signalled)
      /\ call["main"] = NoCall /\ at["main"] = "load" /\ lines["main"] = 0
      /\ UNCHANGED << call, loggers, instance, gLogger, gCatalog, gPager, catalogFile, windows, crowded, signalled, loadedFirst >>
      /\ catalog' = IF catalogFile = "stored" THEN "partial" ELSE catalog
      /\ status' = IF catalogFile = "truncated" THEN "undefined" ELSE status
      /\ GoTo("main", "loading", 0)
  BY DEF BeginLoad, Reaches, Free, Runs, pointers, signal
<1>2. /\ at' \in [Threads -> MainPlaces \union HandlerPlaces] /\ lines' \in [Threads -> Nat]
      /\ at'["main"] = "loading" /\ at'["handler"] = at["handler"] /\ at'["handler"] \in HandlerPlaces
      /\ lines'["main"] = 0 /\ lines'["handler"] = lines["handler"]
  BY <1>1, Moved, LineAssumption DEF IInv, Threads, MainPlaces
<1>3. ShutdownTypeOK'
  BY <1>1, <1>2 DEF IInv, ShutdownTypeOK, MainPlaces
<1>4. SetUp' /\ LoggersInTurn' /\ LinesInPlace'
  BY <1>1, <1>2 DEF IInv, SetUp, LoggersInTurn, LinesInPlace
<1>5. CallsInPlace' /\ CallsOnLive'
  BY <1>1, <1>2, CallsStay DEF Threads
<1>6. FileIsOpen'
  BY <1>1, <1>2 DEF IInv, FileIsOpen, CallsInPlace, Threads, NoCall
<1>7. SignalIsSeen' /\ Ended'
  BY <1>1, <1>2 DEF IInv, SetUp, SignalIsSeen, Ended
<1>8. TablesAreKept' /\ MainAlone' /\ FreedOnlyAtTheEnd'
  BY <1>1, <1>2 DEF IInv, SetUp, SignalIsSeen, TablesAreKept, MainAlone, FreedOnlyAtTheEnd
<1> QED
  BY <1>3, <1>4, <1>5, <1>6, <1>7, <1>8 DEF IInv

LEMMA EndLoadKeeps ==
  ASSUME IInv, EndLoad
  PROVE  IInv'
<1> USE DEF BeforeCatalog, BeforeLoaded, BeforePager, CatalogGone, Closing, MainLogs
<1>1. /\ status = "running" /\ (windows \/ ~ signalled)
      /\ call["main"] = NoCall /\ at["main"] = "loading" /\ lines["main"] = 0
      /\ UNCHANGED << call, loggers, instance, gLogger, gCatalog, gPager, catalogFile, windows, crowded, signalled, loadedFirst >>
      /\ catalog' = IF catalogFile = "stored" THEN "stored" ELSE catalog
      /\ status' = IF catalogFile \in {"truncated", "partial"} THEN "undefined" ELSE status
      /\ GoTo("main", "pager", 1)
  BY DEF EndLoad, Reaches, Free, Runs, pointers, signal, Loaded
<1>2. /\ at' \in [Threads -> MainPlaces \union HandlerPlaces] /\ lines' \in [Threads -> Nat]
      /\ at'["main"] = "pager" /\ at'["handler"] = at["handler"] /\ at'["handler"] \in HandlerPlaces
      /\ lines'["main"] = 1 /\ lines'["handler"] = lines["handler"]
  BY <1>1, Moved, LineAssumption DEF IInv, Threads, MainPlaces
<1>3. ShutdownTypeOK'
  BY <1>1, <1>2 DEF IInv, ShutdownTypeOK, MainPlaces
<1>4. SetUp' /\ LoggersInTurn' /\ LinesInPlace'
  BY <1>1, <1>2 DEF IInv, SetUp, LoggersInTurn, LinesInPlace
<1>5. CallsInPlace' /\ CallsOnLive'
  BY <1>1, <1>2, CallsStay DEF Threads
<1>6. FileIsOpen'
  BY <1>1, <1>2 DEF IInv, FileIsOpen, CallsInPlace, Threads, NoCall
<1>7. SignalIsSeen' /\ Ended'
  BY <1>1, <1>2 DEF IInv, SetUp, SignalIsSeen, Ended
<1>8. TablesAreKept' /\ MainAlone' /\ FreedOnlyAtTheEnd'
  BY <1>1, <1>2 DEF IInv, SetUp, SignalIsSeen, TablesAreKept, MainAlone, FreedOnlyAtTheEnd
<1> QED
  BY <1>3, <1>4, <1>5, <1>6, <1>7, <1>8 DEF IInv

LEMMA NewPagerKeeps ==
  ASSUME IInv, NewPager
  PROVE  IInv'
<1> USE DEF BeforeCatalog, BeforeLoaded, BeforePager, CatalogGone, Closing, MainLogs
<1>1. /\ status = "running" /\ (windows \/ ~ signalled)
      /\ call["main"] = NoCall /\ at["main"] = "pager" /\ lines["main"] = 0
      /\ UNCHANGED << call, loggers, instance, catalog, gLogger, gCatalog, catalogFile, windows, crowded, signalled, loadedFirst, status >>
      /\ gPager' = TRUE
      /\ GoTo("main", "work", WorkLines)
  BY DEF NewPager, Reaches, Free, Runs, pointers, signal
<1>2. /\ at' \in [Threads -> MainPlaces \union HandlerPlaces] /\ lines' \in [Threads -> Nat]
      /\ at'["main"] = "work" /\ at'["handler"] = at["handler"] /\ at'["handler"] \in HandlerPlaces
      /\ lines'["main"] = WorkLines /\ lines'["handler"] = lines["handler"]
  BY <1>1, Moved, LineAssumption DEF IInv, Threads, MainPlaces
<1>3. ShutdownTypeOK'
  BY <1>1, <1>2 DEF IInv, ShutdownTypeOK, MainPlaces
<1>4. SetUp' /\ LoggersInTurn' /\ LinesInPlace'
  BY <1>1, <1>2 DEF IInv, SetUp, LoggersInTurn, LinesInPlace
<1>5. CallsInPlace' /\ CallsOnLive'
  BY <1>1, <1>2, CallsStay DEF Threads
<1>6. FileIsOpen'
  BY <1>1, <1>2 DEF IInv, FileIsOpen, CallsInPlace, Threads, NoCall
<1>7. SignalIsSeen' /\ Ended'
  BY <1>1, <1>2 DEF IInv, SetUp, SignalIsSeen, Ended
<1>8. TablesAreKept' /\ MainAlone' /\ FreedOnlyAtTheEnd'
  BY <1>1, <1>2 DEF IInv, SetUp, SignalIsSeen, TablesAreKept, MainAlone, FreedOnlyAtTheEnd
<1> QED
  BY <1>3, <1>4, <1>5, <1>6, <1>7, <1>8 DEF IInv

LEMMA CleanUpKeeps ==
  ASSUME IInv, CleanUp
  PROVE  IInv'
<1> USE DEF BeforeCatalog, BeforeLoaded, BeforePager, CatalogGone, Closing, MainLogs
<1>1. /\ status = "running" /\ (windows \/ ~ signalled)
      /\ call["main"] = NoCall /\ at["main"] = "work" /\ lines["main"] = 0
      /\ UNCHANGED << call, loggers, instance, catalog, gLogger, gCatalog, gPager, catalogFile, windows, crowded, signalled, loadedFirst, status >>
      /\ GoTo("main", "flush", FlushLines)
  BY DEF CleanUp, Reaches, Free, Runs, pointers, signal
<1>2. /\ at' \in [Threads -> MainPlaces \union HandlerPlaces] /\ lines' \in [Threads -> Nat]
      /\ at'["main"] = "flush" /\ at'["handler"] = at["handler"] /\ at'["handler"] \in HandlerPlaces
      /\ lines'["main"] = FlushLines /\ lines'["handler"] = lines["handler"]
  BY <1>1, Moved, LineAssumption DEF IInv, Threads, MainPlaces
<1>3. ShutdownTypeOK'
  BY <1>1, <1>2 DEF IInv, ShutdownTypeOK, MainPlaces
<1>4. SetUp' /\ LoggersInTurn' /\ LinesInPlace'
  BY <1>1, <1>2 DEF IInv, SetUp, LoggersInTurn, LinesInPlace
<1>5. CallsInPlace' /\ CallsOnLive'
  BY <1>1, <1>2, CallsStay DEF Threads
<1>6. FileIsOpen'
  BY <1>1, <1>2 DEF IInv, FileIsOpen, CallsInPlace, Threads, NoCall
<1>7. SignalIsSeen' /\ Ended'
  BY <1>1, <1>2 DEF IInv, SetUp, SignalIsSeen, Ended
<1>8. TablesAreKept' /\ MainAlone' /\ FreedOnlyAtTheEnd'
  BY <1>1, <1>2 DEF IInv, SetUp, SignalIsSeen, TablesAreKept, MainAlone, FreedOnlyAtTheEnd
<1> QED
  BY <1>3, <1>4, <1>5, <1>6, <1>7, <1>8 DEF IInv

LEMMA DestroyCatalogKeeps ==
  ASSUME IInv, DestroyCatalog
  PROVE  IInv'
<1> USE DEF BeforeCatalog, BeforeLoaded, BeforePager, CatalogGone, Closing, MainLogs
<1>1. /\ status = "running" /\ (windows \/ ~ signalled)
      /\ call["main"] = NoCall /\ at["main"] = "destroyCatalog" /\ lines["main"] = 0
      /\ UNCHANGED << call, loggers, instance, gLogger, gCatalog, gPager, catalogFile, windows, crowded, signalled, loadedFirst >>
      /\ catalog' = "freed" /\ status' \in {"running", "undefined"}
      /\ GoTo("main", "destroyLogger", 0)
  BY DEF DestroyCatalog, Reaches, Free, Runs, pointers, signal
<1>2. /\ at' \in [Threads -> MainPlaces \union HandlerPlaces] /\ lines' \in [Threads -> Nat]
      /\ at'["main"] = "destroyLogger" /\ at'["handler"] = at["handler"] /\ at'["handler"] \in HandlerPlaces
      /\ lines'["main"] = 0 /\ lines'["handler"] = lines["handler"]
  BY <1>1, Moved, LineAssumption DEF IInv, Threads, MainPlaces
<1>3. ShutdownTypeOK'
  BY <1>1, <1>2 DEF IInv, ShutdownTypeOK, MainPlaces
<1>4. SetUp' /\ LoggersInTurn' /\ LinesInPlace'
  BY <1>1, <1>2 DEF IInv, SetUp, LoggersInTurn, LinesInPlace
<1>5. CallsInPlace' /\ CallsOnLive'
  BY <1>1, <1>2, CallsStay DEF Threads
<1>6. FileIsOpen'
  BY <1>1, <1>2 DEF IInv, FileIsOpen, CallsInPlace, Threads, NoCall
<1>7. SignalIsSeen' /\ Ended'
  BY <1>1, <1>2 DEF IInv, SetUp, SignalIsSeen, Ended
<1>8. TablesAreKept' /\ MainAlone' /\ FreedOnlyAtTheEnd'
  BY <1>1, <1>2 DEF IInv, SetUp, SignalIsSeen, TablesAreKept, MainAlone, FreedOnlyAtTheEnd
<1> QED
  BY <1>3, <1>4, <1>5, <1>6, <1>7, <1>8 DEF IInv

LEMMA ReturnKeeps ==
  ASSUME IInv, Return
  PROVE  IInv'
<1> USE DEF BeforeCatalog, BeforeLoaded, BeforePager, CatalogGone, Closing, MainLogs
<1>1. /\ status = "running" /\ (windows \/ ~ signalled)
      /\ call["main"] = NoCall /\ at["main"] = "closePager" /\ lines["main"] = 0
      /\ UNCHANGED << call, loggers, instance, catalog, gLogger, gCatalog, gPager, catalogFile, windows, crowded, signalled, loadedFirst >>
      /\ status' = "exited"
      /\ GoTo("main", "ended", 0)
  BY DEF Return, Reaches, Free, Runs, pointers, signal
<1>2. /\ at' \in [Threads -> MainPlaces \union HandlerPlaces] /\ lines' \in [Threads -> Nat]
      /\ at'["main"] = "ended" /\ at'["handler"] = at["handler"] /\ at'["handler"] \in HandlerPlaces
      /\ lines'["main"] = 0 /\ lines'["handler"] = lines["handler"]
  BY <1>1, Moved, LineAssumption DEF IInv, Threads, MainPlaces
<1>3. ShutdownTypeOK'
  BY <1>1, <1>2 DEF IInv, ShutdownTypeOK, MainPlaces
<1>4. SetUp' /\ LoggersInTurn' /\ LinesInPlace'
  BY <1>1, <1>2 DEF IInv, SetUp, LoggersInTurn, LinesInPlace
<1>5. CallsInPlace' /\ CallsOnLive'
  BY <1>1, <1>2, CallsStay DEF Threads
<1>6. FileIsOpen'
  BY <1>1, <1>2 DEF IInv, FileIsOpen, CallsInPlace, Threads, NoCall
<1>7. SignalIsSeen' /\ Ended'
  BY <1>1, <1>2 DEF IInv, SetUp, SignalIsSeen, Ended
<1>8. TablesAreKept' /\ MainAlone' /\ FreedOnlyAtTheEnd'
  BY <1>1, <1>2 DEF IInv, SetUp, SignalIsSeen, TablesAreKept, MainAlone, FreedOnlyAtTheEnd
<1> QED
  BY <1>3, <1>4, <1>5, <1>6, <1>7, <1>8 DEF IInv

\* It is the first logger that main deletes, and it is still there.
LEMMA DestroyLoggerKeeps ==
  ASSUME IInv, DestroyLogger
  PROVE  IInv'
<1> USE DEF BeforeCatalog, BeforeLoaded, BeforePager, CatalogGone, Closing, MainLogs
<1>1. /\ status = "running" /\ (windows \/ ~ signalled)
      /\ call["main"] = NoCall /\ at["main"] = "destroyLogger" /\ lines["main"] = 0
      /\ UNCHANGED << loggers, instance, catalog, gLogger, gCatalog, gPager, catalogFile, windows, crowded, signalled, loadedFirst >>
      /\ GoTo("main", "closePager", FlushLines)
  BY DEF DestroyLogger, Reaches, Free, Runs, pointers, signal
<1>2. instance = 1 /\ loggers[1].state = "live"
  BY <1>1 DEF IInv, ShutdownTypeOK, LoggersInTurn, Loggers
<1>3. /\ call' = [call EXCEPT !["main"] = [doing |-> "delete", on |-> 1, inside |-> FALSE]]
      /\ status' = status
  BY <1>2, Entered DEF DestroyLogger, Threads
<1>4. /\ at' \in [Threads -> MainPlaces \union HandlerPlaces] /\ lines' \in [Threads -> Nat]
      /\ at'["main"] = "closePager" /\ at'["handler"] = at["handler"] /\ at'["handler"] \in HandlerPlaces
      /\ lines'["main"] = FlushLines /\ lines'["handler"] = lines["handler"]
  BY <1>1, Moved, LineAssumption DEF IInv, Threads, MainPlaces
<1>5. /\ call'["main"] = [doing |-> "delete", on |-> 1, inside |-> FALSE]
      /\ call'["handler"] = call["handler"]
  BY <1>3 DEF IInv, ShutdownTypeOK, Threads
<1>6. ShutdownTypeOK'
  <2>1. call' \in [Threads -> Calls]
    <3>1. [doing |-> "delete", on |-> 1, inside |-> FALSE] \in Calls
      BY DEF Calls
    <3> QED
      BY <1>3, <3>1 DEF IInv, ShutdownTypeOK
  <2> QED
    BY <1>1, <1>3, <1>4, <2>1 DEF IInv, ShutdownTypeOK, MainPlaces
<1>7. SetUp' /\ LoggersInTurn' /\ LinesInPlace'
  BY <1>1, <1>4 DEF IInv, SetUp, LoggersInTurn, LinesInPlace
<1>8. CallsInPlace' /\ CallsOnLive'
  BY <1>1, <1>2, <1>4, <1>5 DEF IInv, CallsInPlace, CallsOnLive, Threads, NoCall
<1>9. FileIsOpen' /\ SignalIsSeen' /\ Ended'
  BY <1>1, <1>3, <1>4, <1>5 DEF IInv, SetUp, FileIsOpen, SignalIsSeen, Ended
<1>10. TablesAreKept' /\ MainAlone' /\ FreedOnlyAtTheEnd'
  BY <1>1, <1>3, <1>4 DEF IInv, TablesAreKept, MainAlone, FreedOnlyAtTheEnd
<1> QED
  BY <1>6, <1>7, <1>8, <1>9, <1>10 DEF IInv

(***************************************************************************)
(* The signal.                                                             *)
(***************************************************************************)
LEMMA SigintKeeps ==
  ASSUME IInv, Sigint
  PROVE  IInv'
<1> USE DEF BeforeCatalog, BeforeLoaded, BeforePager, CatalogGone, Closing, MainLogs
<1> DEFINE place == IF gPager THEN "flush" ELSE "save"
           n == IF gPager THEN FlushLines ELSE 0
<1>1. /\ status = "running" /\ ~ signalled
      /\ signalled' = TRUE
      /\ loadedFirst' = (at["main"] \notin BeforeLoaded)
      /\ UNCHANGED << call, loggers, instance, catalog, gLogger, gCatalog, gPager, catalogFile, windows, crowded, status >>
      /\ GoTo("handler", place, n)
  BY DEF Sigint, pointers
<1>2. place \in HandlerPlaces /\ n \in Nat
  BY LineAssumption DEF HandlerPlaces
<1>3. /\ at' \in [Threads -> MainPlaces \union HandlerPlaces] /\ lines' \in [Threads -> Nat]
      /\ at'["handler"] = place /\ at'["main"] = at["main"] /\ at'["main"] \in MainPlaces
      /\ lines'["handler"] = n /\ lines'["main"] = lines["main"]
  <2> HIDE DEF place, n
  <2> QED
    BY <1>1, <1>2, Moved DEF IInv, Threads
<1>4. at["handler"] = "idle" /\ call["handler"] = NoCall
  BY <1>1 DEF IInv, SignalIsSeen
<1>5. ShutdownTypeOK'
  BY <1>1, <1>2, <1>3 DEF IInv, ShutdownTypeOK
<1>6. SetUp' /\ LoggersInTurn' /\ LinesInPlace'
  BY <1>1, <1>3 DEF IInv, SetUp, LoggersInTurn, LinesInPlace
<1>7. CallsInPlace' /\ CallsOnLive'
  BY <1>1, <1>3, <1>4 DEF IInv, CallsInPlace, CallsOnLive, Threads, NoCall
<1>8. FileIsOpen' /\ SignalIsSeen' /\ Ended'
  BY <1>1, <1>3, <1>4 DEF IInv, SetUp, FileIsOpen, SignalIsSeen, Ended
<1>9. TablesAreKept' /\ MainAlone' /\ FreedOnlyAtTheEnd'
  BY <1>1, <1>3, <1>4 DEF IInv, TablesAreKept, MainAlone, Ended, FreedOnlyAtTheEnd
<1> QED
  BY <1>5, <1>6, <1>7, <1>8, <1>9 DEF IInv

LEMMA ExitKeeps ==
  ASSUME IInv, Exit
  PROVE  IInv'
<1>1. /\ signalled /\ at["handler"] = "exit" /\ status' = "exited"
      /\ UNCHANGED << at, lines, call, loggers, instance, catalog, gLogger, gCatalog, gPager, catalogFile, windows, crowded, signalled, loadedFirst >>
  BY DEF Exit, Reaches, Free, Runs, logging, pointers, signal
<1>2. ShutdownTypeOK' /\ SetUp' /\ LoggersInTurn' /\ LinesInPlace'
  BY <1>1 DEF IInv, ShutdownTypeOK, SetUp, LoggersInTurn, LinesInPlace
<1>3. CallsInPlace' /\ CallsOnLive'
  BY <1>1 DEF IInv, CallsInPlace, CallsOnLive
<1>4. FileIsOpen' /\ SignalIsSeen' /\ Ended'
  BY <1>1 DEF IInv, FileIsOpen, SignalIsSeen, Ended
<1>5. TablesAreKept' /\ MainAlone' /\ FreedOnlyAtTheEnd'
  BY <1>1 DEF IInv, TablesAreKept, MainAlone, FreedOnlyAtTheEnd
<1> QED
  BY <1>2, <1>3, <1>4, <1>5 DEF IInv

(***************************************************************************)
(* The logger, by main and the handler.                                    *)
(***************************************************************************)
\* A line goes to the logger there is, or to one that is made for it, never to a
\* freed one.
LEMMA LogLineKeeps ==
  ASSUME IInv, NEW t \in Threads, LogLine(t)
  PROVE  IInv'
<1> USE DEF BeforeCatalog, BeforeLoaded, BeforePager, CatalogGone, Closing, MainLogs
<1>1. /\ status = "running" /\ call[t] = NoCall /\ lines[t] > 0
      /\ lines' = [lines EXCEPT ![t] = @ - 1]
      /\ UNCHANGED << at, catalog, gLogger, gCatalog, gPager, catalogFile, windows, crowded, signalled, loadedFirst >>
  BY DEF LogLine, HasLines, Free, Runs, pointers, signal
<1>2. at["main"] # "start" /\ (t = "handler" => signalled)
  BY <1>1 DEF IInv, LinesInPlace, SignalIsSeen, SetUp, Threads, LogLine, Free, Runs
<1>3. /\ Instance \in 1 .. 2
      /\ instance # 0 => Instance = instance /\ loggers[Instance].state = "live"
      /\ instance = 0 => Instance = 2 /\ loggers[1].state = "freed" /\ loggers[2].state = "none"
  BY <1>2 DEF IInv, ShutdownTypeOK, LoggersInTurn, Loggers, Instance
<1>4. /\ instance' = Instance
      /\ loggers' = IF instance # 0 THEN loggers ELSE [loggers EXCEPT ![2] = NewLogger]
      /\ call' = [call EXCEPT ![t] = [doing |-> "line", on |-> Instance, inside |-> FALSE]]
      /\ status' = status
  BY <1>3, GotInstance, Entered DEF LogLine
<1>5. /\ call'[t] = [doing |-> "line", on |-> Instance, inside |-> FALSE]
      /\ \A u \in Threads : u # t => call'[u] = call[u]
      /\ lines'[t] = lines[t] - 1
      /\ \A u \in Threads : u # t => lines'[u] = lines[u]
  BY <1>1, <1>4 DEF IInv, ShutdownTypeOK
<1>6. /\ loggers'[1] = loggers[1]
      /\ loggers'[2] = loggers[2] \/ (loggers[2].state = "none" /\ loggers'[2] = NewLogger)
      /\ loggers'[Instance].state = "live"
  BY <1>3, <1>4 DEF IInv, ShutdownTypeOK, NewLogger
<1>7. ShutdownTypeOK'
  BY <1>1, <1>3, <1>4 DEF IInv, ShutdownTypeOK, Calls, Loggers, NewLogger
<1>8. SetUp' /\ LoggersInTurn'
  BY <1>1, <1>3, <1>4, <1>6 DEF IInv, ShutdownTypeOK, SetUp, LoggersInTurn, NewLogger
<1>9. LinesInPlace'
  BY <1>1, <1>5 DEF IInv, ShutdownTypeOK, LinesInPlace, Threads
<1>10. CallsInPlace'
  <2>1. \A i \in 1 .. 2 : loggers[i].state # "none" => loggers'[i] = loggers[i]
    BY <1>6
  <2> QED
    BY <1>1, <1>3, <1>5, <1>6, <2>1 DEF IInv, ShutdownTypeOK, Calls, CallsInPlace, LinesInPlace, Threads, NoCall
<1>11. CallsOnLive'
  <2>1. \A i \in 1 .. 2 : loggers[i].state = "live" => loggers'[i] = loggers[i]
    BY <1>6
  <2>2. ASSUME NEW u \in Threads, u # t
        PROVE  /\ call'[u].inside => loggers'[call'[u].on].state = "live" /\ loggers'[call'[u].on].owner = u
               /\ call'[u] # NoCall /\ ~ (windows /\ signalled) => loggers'[call'[u].on].state = "live"
    <3>1. call'[u] = call[u] /\ call[u] \in Calls
      BY <1>5, <2>2 DEF IInv, ShutdownTypeOK
    <3>2. call[u].inside => call[u] # NoCall
      BY DEF NoCall
    <3>3. call[u] # NoCall => call[u].on \in 1 .. 2
      BY <3>1 DEF IInv, CallsInPlace, Calls
    <3> QED
      BY <2>1, <3>1, <3>2, <3>3 DEF IInv, CallsOnLive
  <2> QED
    BY <1>1, <1>5, <1>6, <2>2 DEF CallsOnLive
<1>12. FileIsOpen'
  BY <1>1, <1>4, <1>5, <1>6 DEF IInv, FileIsOpen, CallsInPlace, NoCall, Threads
<1>13. SignalIsSeen' /\ Ended'
  BY <1>1, <1>2, <1>4, <1>5 DEF IInv, SignalIsSeen, Ended, Threads
<1>14. TablesAreKept' /\ MainAlone' /\ FreedOnlyAtTheEnd'
  BY <1>1, <1>4 DEF IInv, TablesAreKept, MainAlone, FreedOnlyAtTheEnd
<1> QED
  BY <1>7, <1>8, <1>9, <1>10, <1>11, <1>12, <1>13, <1>14 DEF IInv

\* The one that locks finds the logger alive, unless the other thread freed it.
LEMMA LockKeeps ==
  ASSUME IInv, NEW t \in Threads, Lock(t)
  PROVE  IInv'
<1> DEFINE i == call[t].on
<1>1. /\ status = "running" /\ (t = "main" => windows \/ ~ signalled)
      /\ call[t] # NoCall /\ ~ call[t].inside
      /\ UNCHANGED << at, lines, instance, catalog, gLogger, gCatalog, gPager, catalogFile, windows, crowded, signalled, loadedFirst >>
  BY DEF Lock, Runs, pointers, signal
<1>2. i \in 1 .. 2 /\ call[t] \in Calls /\ loggers[i] \in Loggers /\ loggers[i].state # "none"
  BY <1>1 DEF IInv, ShutdownTypeOK, CallsInPlace, Calls
<1>3. CASE loggers[i].state = "freed"
  <2>1. status' = "undefined" /\ UNCHANGED << call, loggers >>
    BY <1>3 DEF Lock
  <2>2. windows /\ signalled
    BY <1>1, <1>3 DEF IInv, CallsOnLive
  <2>3. ShutdownTypeOK' /\ SetUp' /\ LoggersInTurn' /\ LinesInPlace'
    BY <1>1, <2>1 DEF IInv, ShutdownTypeOK, SetUp, LoggersInTurn, LinesInPlace
  <2>4. CallsInPlace' /\ CallsOnLive' /\ FileIsOpen' /\ SignalIsSeen'
    BY <1>1, <2>1 DEF IInv, CallsInPlace, CallsOnLive, FileIsOpen, SignalIsSeen
  <2>5. TablesAreKept' /\ MainAlone' /\ Ended' /\ FreedOnlyAtTheEnd'
    BY <1>1, <2>1, <2>2 DEF IInv, TablesAreKept, MainAlone, Ended, FreedOnlyAtTheEnd
  <2> QED
    BY <2>3, <2>4, <2>5 DEF IInv
<1>4. CASE loggers[i].state # "freed"
  <2>1. /\ loggers[i].owner \in {"nobody", t}
        /\ call' = [call EXCEPT ![t].inside = TRUE]
        /\ loggers' = [loggers EXCEPT ![i].owner = t]
        /\ status' = status
    BY <1>4 DEF Lock
  <2>2. loggers[i].state = "live"
    BY <1>2, <1>4 DEF Loggers
  <2>3. /\ call'[t].doing = call[t].doing /\ call'[t].on = i /\ call'[t].inside
        /\ call'[t] # NoCall
        /\ \A u \in Threads : u # t => call'[u] = call[u]
    BY <2>1 DEF IInv, ShutdownTypeOK, NoCall
  <2>4. /\ \A j \in 1 .. 2 : /\ loggers'[j].state = loggers[j].state
                             /\ loggers'[j].fileOpen = loggers[j].fileOpen
                             /\ j # i => loggers'[j].owner = loggers[j].owner
        /\ loggers'[i].owner = t
    BY <1>2, <2>1 DEF IInv, ShutdownTypeOK
  <2>5. ShutdownTypeOK'
    <3>1. call' \in [Threads -> Calls]
      BY <1>2, <2>1 DEF IInv, ShutdownTypeOK, Calls
    <3>2. loggers' \in [1 .. 2 -> Loggers]
      BY <1>2, <2>1 DEF IInv, ShutdownTypeOK, Loggers
    <3> QED
      BY <1>1, <2>1, <3>1, <3>2 DEF IInv, ShutdownTypeOK
  <2>6. SetUp' /\ LoggersInTurn' /\ LinesInPlace'
    BY <1>1, <2>4 DEF IInv, SetUp, LoggersInTurn, LinesInPlace
  <2>7. ASSUME NEW u \in Threads, u # t
        PROVE  call[u] \in Calls /\ (call[u] # NoCall => call[u].on \in 1 .. 2)
    BY DEF IInv, ShutdownTypeOK, CallsInPlace, Calls
  <2>8. CallsInPlace'
    BY <1>1, <1>2, <2>3, <2>4, <2>7 DEF IInv, CallsInPlace, NoCall
  \* The other one is not inside the same logger: it would own the lock.
  <2>9. CallsOnLive'
    <3>1. ASSUME NEW u \in Threads, u # t, call[u].inside
          PROVE  call[u].on \in 1 .. 2 /\ call[u].on # i
      BY <2>1, <2>7, <3>1 DEF IInv, CallsOnLive, NoCall, Threads
    <3> QED
      BY <1>1, <1>2, <2>2, <2>3, <2>4, <2>7, <3>1 DEF IInv, CallsOnLive
  <2>10. FileIsOpen' /\ SignalIsSeen' /\ Ended'
    BY <1>1, <2>1, <2>3, <2>4 DEF IInv, FileIsOpen, SignalIsSeen, Ended, Threads
  <2>11. TablesAreKept' /\ MainAlone' /\ FreedOnlyAtTheEnd'
    BY <1>1, <2>1 DEF IInv, TablesAreKept, MainAlone, FreedOnlyAtTheEnd
  <2> QED
    BY <2>5, <2>6, <2>8, <2>9, <2>10, <2>11 DEF IInv
<1> QED
  BY <1>3, <1>4

\* Only main's delete frees a logger, the first one, and no other call is then
\* inside it, or waits for it but in a thread of its own.
LEMMA UnlockKeeps ==
  ASSUME IInv, NEW t \in Threads, Unlock(t)
  PROVE  IInv'
<1> USE DEF BeforeCatalog, BeforeLoaded, BeforePager, CatalogGone, Closing, MainLogs
<1> DEFINE i == call[t].on
           doing == call[t].doing
<1>1. /\ status = "running" /\ (t = "main" => windows \/ ~ signalled)
      /\ call[t].inside
      /\ loggers' = [loggers EXCEPT ![i] = [state    |-> IF doing = "delete" THEN "freed" ELSE "live",
                                            owner    |-> "nobody",
                                            fileOpen |-> FileAfter(doing, @.fileOpen)]]
      /\ instance' = IF doing = "delete" THEN 0 ELSE instance
      /\ call' = [call EXCEPT ![t] = NoCall]
      /\ UNCHANGED << at, lines, catalog, gLogger, gCatalog, gPager, catalogFile, windows, crowded, signalled, loadedFirst, status >>
  BY DEF Unlock, Runs, Released, InstanceAfter, pointers, signal
<1>2. /\ call[t] # NoCall /\ call[t] \in Calls /\ i \in 1 .. 2
      /\ loggers[i] \in Loggers /\ loggers[i].state = "live" /\ loggers[i].owner = t
  <2>1. call[t] # NoCall
    BY <1>1 DEF NoCall
  <2> QED
    BY <1>1, <2>1 DEF IInv, ShutdownTypeOK, CallsInPlace, CallsOnLive, Calls
<1>3. /\ call'[t] = NoCall
      /\ \A u \in Threads : u # t => call'[u] = call[u]
  BY <1>1 DEF IInv, ShutdownTypeOK
<1>4. /\ \A j \in 1 .. 2 : j # i => loggers'[j] = loggers[j]
      /\ loggers'[i].state = IF doing = "delete" THEN "freed" ELSE "live"
      /\ loggers'[i].owner = "nobody"
      /\ loggers'[i].fileOpen = FileAfter(doing, loggers[i].fileOpen)
  BY <1>1, <1>2 DEF IInv, ShutdownTypeOK
<1>5. doing = "delete" => t = "main" /\ at["main"] = "closePager" /\ i = 1 /\ instance = 1 /\ loggers[2].state = "none"
  BY <1>2 DEF IInv, ShutdownTypeOK, CallsInPlace, LoggersInTurn, Loggers
<1>6. ShutdownTypeOK'
  <2>1. call' \in [Threads -> Calls]
    BY <1>1 DEF IInv, ShutdownTypeOK, Calls, NoCall
  <2>2. FileAfter(doing, loggers[i].fileOpen) \in BOOLEAN
    BY <1>2 DEF FileAfter, Loggers
  <2>3. [state    |-> IF doing = "delete" THEN "freed" ELSE "live",
         owner    |-> "nobody",
         fileOpen |-> FileAfter(doing, loggers[i].fileOpen)] \in Loggers
    BY <2>2 DEF Loggers
  <2>4. loggers' \in [1 .. 2 -> Loggers]
    BY <1>1, <1>2, <2>3 DEF IInv, ShutdownTypeOK
  <2> QED
    BY <1>1, <2>1, <2>4 DEF IInv, ShutdownTypeOK
<1>7. SetUp' /\ LinesInPlace' /\ Ended'
  BY <1>1 DEF IInv, SetUp, LinesInPlace, Ended
<1>8. LoggersInTurn'
  BY <1>1, <1>2, <1>4, <1>5 DEF IInv, ShutdownTypeOK, LoggersInTurn
<1>9. ASSUME NEW u \in Threads, u # t
      PROVE  /\ call[u] \in Calls /\ (call[u] # NoCall => call[u].on \in 1 .. 2)
             /\ call[u].inside => call[u] # NoCall /\ call[u].on # i
  BY <1>2, <1>9 DEF IInv, ShutdownTypeOK, CallsInPlace, CallsOnLive, Calls, NoCall
<1>10. CallsInPlace'
  BY <1>1, <1>2, <1>3, <1>4, <1>5, <1>9 DEF IInv, CallsInPlace, NoCall
<1>11. CallsOnLive'
  <2>1. ASSUME NEW u \in Threads, u # t, call[u] # NoCall, ~ (windows /\ signalled)
        PROVE  doing # "delete"
    BY <1>1, <1>5, <2>1 DEF IInv, SignalIsSeen, Threads
  <2>2. ASSUME NEW u \in Threads, u # t
        PROVE  /\ call'[u].inside => loggers'[call'[u].on].state = "live" /\ loggers'[call'[u].on].owner = u
               /\ call'[u] # NoCall /\ ~ (windows /\ signalled) => loggers'[call'[u].on].state = "live"
    <3>1. call'[u] = call[u] /\ (call[u] # NoCall => call[u].on \in 1 .. 2)
      BY <1>3, <1>9, <2>2
    <3>2. call[u].inside => loggers'[call[u].on] = loggers[call[u].on]
      BY <1>4, <1>9, <2>2, <3>1
    <3>3. call[u] # NoCall /\ ~ (windows /\ signalled) => loggers'[call[u].on].state = "live"
      BY <1>2, <1>4, <2>1, <2>2, <3>1 DEF IInv, CallsOnLive
    <3> QED
      BY <3>1, <3>2, <3>3 DEF IInv, CallsOnLive
  <2>3. ~ call'[t].inside
    BY <1>3 DEF NoCall
  <2> QED
    BY <1>1, <1>3, <2>2, <2>3 DEF CallsOnLive
<1>12. FileIsOpen'
  BY <1>1, <1>2, <1>3, <1>4, <1>5 DEF IInv, FileIsOpen, FileAfter, CallsInPlace, NoCall, Threads, Calls
<1>13. SignalIsSeen'
  BY <1>1, <1>3 DEF IInv, SignalIsSeen, Threads
<1>14. TablesAreKept' /\ MainAlone' /\ FreedOnlyAtTheEnd'
  BY <1>1 DEF IInv, TablesAreKept, MainAlone, FreedOnlyAtTheEnd
<1> QED
  BY <1>6, <1>7, <1>8, <1>10, <1>11, <1>12, <1>13, <1>14 DEF IInv

(***************************************************************************)
(* Flush, save and shutdown, by main and the handler.                      *)
(***************************************************************************)
LEMMA FlushedKeeps ==
  ASSUME IInv, NEW t \in Threads, Flushed(t)
  PROVE  IInv'
<1> USE DEF BeforeCatalog, BeforeLoaded, BeforePager, CatalogGone, Closing, MainLogs
<1>1. /\ status = "running" /\ (t = "handler" => signalled) /\ (t = "main" => windows \/ ~ signalled)
      /\ call[t] = NoCall /\ at[t] = "flush"
      /\ GoTo(t, "save", 0)
      /\ UNCHANGED << call, loggers, instance, catalog, gLogger, gCatalog, gPager, catalogFile, windows, crowded, signalled, loadedFirst, status >>
  BY DEF Flushed, Reaches, Free, Runs, pointers, signal
<1>2. /\ at' \in [Threads -> MainPlaces \union HandlerPlaces] /\ lines' \in [Threads -> Nat]
      /\ at'["main"] \in MainPlaces /\ at'["handler"] \in HandlerPlaces
      /\ at'[t] = "save" /\ lines'[t] = 0
      /\ \A u \in Threads : u # t => at'[u] = at[u] /\ lines'[u] = lines[u]
  BY <1>1, Moved DEF IInv, MainPlaces, HandlerPlaces
<1>3. ShutdownTypeOK'
  BY <1>1, <1>2 DEF IInv, ShutdownTypeOK
<1>4. SetUp' /\ LoggersInTurn' /\ LinesInPlace'
  BY <1>1, <1>2 DEF IInv, SetUp, LoggersInTurn, LinesInPlace, Threads
<1>5. CallsInPlace' /\ CallsOnLive'
  BY <1>1, <1>2, CallsStay
<1>6. FileIsOpen' /\ SignalIsSeen' /\ Ended'
  BY <1>1, <1>2 DEF IInv, SetUp, FileIsOpen, SignalIsSeen, Ended, Threads
<1>7. TablesAreKept' /\ MainAlone' /\ FreedOnlyAtTheEnd'
  BY <1>1, <1>2 DEF IInv, TablesAreKept, MainAlone, FreedOnlyAtTheEnd, Threads
<1> QED
  BY <1>3, <1>4, <1>5, <1>6, <1>7 DEF IInv

\* A catalog that is saved was there when g_catalog was set, and is freed only
\* when main has saved it itself.
LEMMA OpenCatalogKeeps ==
  ASSUME IInv, NEW t \in Threads, OpenCatalog(t)
  PROVE  IInv'
<1> USE DEF BeforeCatalog, BeforeLoaded, BeforePager, CatalogGone, Closing, MainLogs
<1>1. /\ status = "running" /\ (t = "handler" => signalled) /\ (t = "main" => windows \/ ~ signalled)
      /\ call[t] = NoCall /\ at[t] = "save" /\ lines[t] = 0
      /\ UNCHANGED << call, loggers, instance, catalog, gLogger, gCatalog, gPager, windows, crowded, signalled, loadedFirst >>
      /\ \/ /\ GoTo(t, "closeLog", 0) /\ t = "handler" /\ ~ gCatalog
            /\ UNCHANGED << catalogFile, status >>
         \/ /\ t = "handler" => gCatalog
            /\ catalog \in {"none", "freed"}
            /\ status' = "undefined" /\ UNCHANGED << at, lines, catalogFile >>
         \/ /\ GoTo(t, "saving", 0) /\ catalog \notin {"none", "freed"}
            /\ catalogFile' = "truncated" /\ status' = status
  BY DEF OpenCatalog, Reaches, Free, Runs, Saves, pointers, signal, Threads
<1>2. CASE UNCHANGED << at, lines, catalogFile >> /\ status' = "undefined" /\ catalog \in {"none", "freed"} /\ (t = "handler" => gCatalog)
  <2>1. t = "handler" /\ catalog = "freed"
    BY <1>1, <1>2 DEF IInv, SetUp, Threads
  <2>2. ShutdownTypeOK' /\ SetUp' /\ LoggersInTurn' /\ LinesInPlace'
    BY <1>1, <1>2 DEF IInv, ShutdownTypeOK, SetUp, LoggersInTurn, LinesInPlace
  <2>3. CallsInPlace' /\ CallsOnLive' /\ FileIsOpen' /\ SignalIsSeen'
    BY <1>1, <1>2 DEF IInv, CallsInPlace, CallsOnLive, FileIsOpen, SignalIsSeen
  <2>4. TablesAreKept' /\ MainAlone' /\ Ended' /\ FreedOnlyAtTheEnd'
    BY <1>1, <1>2, <2>1 DEF IInv, SetUp, TablesAreKept, MainAlone, Ended, FreedOnlyAtTheEnd, Threads
  <2> QED
    BY <2>2, <2>3, <2>4 DEF IInv
<1>3. ASSUME NEW place \in {"closeLog", "saving"}, GoTo(t, place, 0), status' = status,
             place = "closeLog" => t = "handler" /\ ~ gCatalog /\ catalogFile' = catalogFile,
             place = "saving" => catalogFile' = "truncated" /\ catalog \notin {"none", "freed"}
      PROVE  IInv'
  <2>1. /\ at' \in [Threads -> MainPlaces \union HandlerPlaces] /\ lines' \in [Threads -> Nat]
        /\ at'["main"] \in MainPlaces /\ at'["handler"] \in HandlerPlaces
        /\ at'[t] = place /\ lines'[t] = 0
        /\ \A u \in Threads : u # t => at'[u] = at[u] /\ lines'[u] = lines[u]
    BY <1>3, Moved DEF IInv, MainPlaces, HandlerPlaces
  <2>2. ShutdownTypeOK'
    BY <1>1, <1>3, <2>1 DEF IInv, ShutdownTypeOK
  <2>3. SetUp' /\ LoggersInTurn' /\ LinesInPlace'
    BY <1>1, <1>3, <2>1 DEF IInv, SetUp, LoggersInTurn, LinesInPlace, Threads
  <2>4. CallsInPlace' /\ CallsOnLive'
    BY <1>1, <2>1, CallsStay
  <2>5. FileIsOpen' /\ SignalIsSeen' /\ Ended'
    BY <1>1, <1>3, <2>1 DEF IInv, SetUp, FileIsOpen, SignalIsSeen, Ended, Threads
  <2>6. TablesAreKept' /\ MainAlone' /\ FreedOnlyAtTheEnd'
    BY <1>1, <1>3, <2>1 DEF IInv, SetUp, SignalIsSeen, TablesAreKept, MainAlone, FreedOnlyAtTheEnd, Threads
  <2> QED
    BY <2>2, <2>3, <2>4, <2>5, <2>6 DEF IInv
<1> QED
  BY <1>1, <1>2, <1>3

LEMMA WriteCatalogKeeps ==
  ASSUME IInv, NEW t \in Threads, WriteCatalog(t)
  PROVE  IInv'
<1> USE DEF BeforeCatalog, BeforeLoaded, BeforePager, CatalogGone, Closing, MainLogs
<1>1. /\ status = "running" /\ (t = "handler" => signalled) /\ (t = "main" => windows \/ ~ signalled)
      /\ call[t] = NoCall /\ at[t] = "saving" /\ lines[t] = 0
      /\ UNCHANGED << call, loggers, instance, catalog, gLogger, gCatalog, gPager, windows, crowded, signalled, loadedFirst >>
  BY DEF WriteCatalog, Reaches, Free, Runs, pointers, signal
<1>2. CASE catalog = "freed"
  <2>1. status' = "undefined" /\ UNCHANGED << at, lines, catalogFile >>
    BY <1>2 DEF WriteCatalog
  <2>2. t = "handler"
    BY <1>1, <1>2 DEF IInv, SetUp, Threads
  <2>3. ShutdownTypeOK' /\ SetUp' /\ LoggersInTurn' /\ LinesInPlace'
    BY <1>1, <2>1 DEF IInv, ShutdownTypeOK, SetUp, LoggersInTurn, LinesInPlace
  <2>4. CallsInPlace' /\ CallsOnLive' /\ FileIsOpen' /\ SignalIsSeen'
    BY <1>1, <2>1 DEF IInv, CallsInPlace, CallsOnLive, FileIsOpen, SignalIsSeen
  <2>5. TablesAreKept' /\ MainAlone' /\ Ended' /\ FreedOnlyAtTheEnd'
    BY <1>1, <1>2, <2>1, <2>2 DEF IInv, SetUp, TablesAreKept, MainAlone, Ended, FreedOnlyAtTheEnd
  <2> QED
    BY <2>3, <2>4, <2>5 DEF IInv
<1>3. CASE catalog # "freed"
  <2>1. /\ catalogFile' = IF catalog = "stored" /\ crowded THEN "partial" ELSE catalog
        /\ GoTo(t, "closeLog", 0) /\ status' = status
    BY <1>3 DEF WriteCatalog, Stored
  <2>2. /\ at' \in [Threads -> MainPlaces \union HandlerPlaces] /\ lines' \in [Threads -> Nat]
        /\ at'["main"] \in MainPlaces /\ at'["handler"] \in HandlerPlaces
        /\ at'[t] = "closeLog" /\ lines'[t] = 0
        /\ \A u \in Threads : u # t => at'[u] = at[u] /\ lines'[u] = lines[u]
    BY <2>1, Moved DEF IInv, MainPlaces, HandlerPlaces
  <2>3. ShutdownTypeOK'
    BY <1>1, <1>3, <2>1, <2>2 DEF IInv, ShutdownTypeOK, SetUp, SignalIsSeen, Threads
  <2>4. SetUp' /\ LoggersInTurn' /\ LinesInPlace'
    BY <1>1, <2>1, <2>2 DEF IInv, SetUp, LoggersInTurn, LinesInPlace, Threads
  <2>5. CallsInPlace' /\ CallsOnLive'
    BY <1>1, <2>2, CallsStay
  <2>6. FileIsOpen' /\ SignalIsSeen' /\ Ended'
    BY <1>1, <2>1, <2>2 DEF IInv, SetUp, FileIsOpen, SignalIsSeen, Ended, Threads
  <2>7. TablesAreKept' /\ MainAlone' /\ FreedOnlyAtTheEnd'
    BY <1>1, <1>3, <2>1, <2>2 DEF IInv, SetUp, SignalIsSeen, TablesAreKept, MainAlone, FreedOnlyAtTheEnd, Threads
  <2> QED
    BY <2>3, <2>4, <2>5, <2>6, <2>7 DEF IInv
<1> QED
  BY <1>2, <1>3

\* main closes the first logger while it lives.  So does the handler on top of
\* main, unless main has already freed it: the catalog was freed before.
LEMMA CloseLogKeeps ==
  ASSUME IInv, NEW t \in Threads, CloseLog(t)
  PROVE  IInv'
<1> USE DEF BeforeCatalog, BeforeLoaded, BeforePager, CatalogGone, Closing, MainLogs
<1> DEFINE place == IF t = "main" THEN "destroyCatalog" ELSE "exit"
           close == [doing |-> "close", on |-> 1, inside |-> FALSE]
<1>1. /\ status = "running" /\ (t = "handler" => signalled) /\ (t = "main" => windows \/ ~ signalled)
      /\ call[t] = NoCall /\ at[t] = "closeLog" /\ lines[t] = 0
      /\ UNCHANGED << loggers, instance, catalog, gLogger, gCatalog, gPager, catalogFile, windows, crowded, signalled, loadedFirst >>
      /\ GoTo(t, place, 0)
      /\ IF t = "main" \/ gLogger THEN Enter(t, "close", 1) ELSE UNCHANGED << call, status >>
  BY DEF CloseLog, Reaches, Free, Runs, pointers, signal
<1>2. /\ at' \in [Threads -> MainPlaces \union HandlerPlaces] /\ lines' \in [Threads -> Nat]
      /\ at'["main"] \in MainPlaces /\ at'["handler"] \in HandlerPlaces
      /\ at'[t] = place /\ lines'[t] = 0
      /\ \A u \in Threads : u # t => at'[u] = at[u] /\ lines'[u] = lines[u]
  <2>1. place \in IF t = "main" THEN MainPlaces ELSE HandlerPlaces
    BY DEF MainPlaces, HandlerPlaces
  <2> HIDE DEF place
  <2> QED
    BY <1>1, <2>1, Moved DEF IInv
<1>3. \/ status' = "undefined" /\ call' = call /\ loggers[1].state = "freed" /\ t = "handler"
      \/ status' = status /\ call' = call
      \/ status' = status /\ call' = [call EXCEPT ![t] = close] /\ loggers[1].state = "live"
  <2>1. t = "main" => loggers[1].state = "live"
    BY <1>1 DEF IInv, ShutdownTypeOK, LoggersInTurn, Loggers
  <2>2. gLogger => loggers[1].state # "none"
    BY DEF IInv, SetUp, LoggersInTurn
  <2>3. loggers[1].state \in {"none", "live", "freed"}
    BY DEF IInv, ShutdownTypeOK, Loggers
  <2> QED
    BY <1>1, <2>1, <2>2, <2>3 DEF Enter, Threads
<1>4. ShutdownTypeOK'
  <2>1. close \in Calls
    BY DEF Calls
  <2>2. call' \in [Threads -> Calls]
    <3> HIDE DEF close
    <3> QED
      BY <1>3, <2>1 DEF IInv, ShutdownTypeOK
  <2> QED
    BY <1>1, <1>2, <1>3, <2>2 DEF IInv, ShutdownTypeOK
<1>5. SetUp' /\ LoggersInTurn' /\ LinesInPlace'
  BY <1>1, <1>2 DEF IInv, SetUp, LoggersInTurn, LinesInPlace, Threads
<1>6. CallsInPlace' /\ CallsOnLive'
  <2>1. CASE call' = call
    BY <1>1, <1>2, <2>1, CallsStay
  <2>2. CASE call' = [call EXCEPT ![t] = close] /\ loggers[1].state = "live"
    <3>1. call'[t] = close /\ \A u \in Threads : u # t => call'[u] = call[u]
      BY <2>2 DEF IInv, ShutdownTypeOK
    <3> QED
      BY <1>1, <1>2, <2>2, <3>1 DEF IInv, CallsInPlace, CallsOnLive, NoCall, Threads
  <2> QED
    BY <1>3, <2>1, <2>2
<1>7. FileIsOpen' /\ SignalIsSeen' /\ Ended'
  <2>1. \A u \in Threads : u # t => call'[u] = call[u]
    BY <1>3 DEF IInv, ShutdownTypeOK
  <2> QED
    BY <1>1, <1>2, <1>3, <2>1 DEF IInv, SetUp, FileIsOpen, SignalIsSeen, Ended, Threads
<1>8. TablesAreKept' /\ MainAlone' /\ FreedOnlyAtTheEnd'
  BY <1>1, <1>2, <1>3
     DEF IInv, SetUp, LoggersInTurn, SignalIsSeen, TablesAreKept, MainAlone, FreedOnlyAtTheEnd, Threads
<1> QED
  BY <1>4, <1>5, <1>6, <1>7, <1>8 DEF IInv

LEMMA StutterKeeps ==
  ASSUME IInv, UNCHANGED vars
  PROVE  IInv'
<1> USE DEF vars, logging, pointers, signal
<1>1. ShutdownTypeOK' /\ SetUp' /\ LoggersInTurn' /\ LinesInPlace'
  BY DEF IInv, ShutdownTypeOK, SetUp, LoggersInTurn, LinesInPlace
<1>2. CallsInPlace' /\ CallsOnLive' /\ FileIsOpen' /\ SignalIsSeen'
  BY DEF IInv, CallsInPlace, CallsOnLive, FileIsOpen, SignalIsSeen
<1>3. TablesAreKept' /\ MainAlone' /\ Ended' /\ FreedOnlyAtTheEnd'
  BY DEF IInv, TablesAreKept, MainAlone, Ended, FreedOnlyAtTheEnd
<1> QED
  BY <1>1, <1>2, <1>3 DEF IInv

(***************************************************************************)
(* Theorems.                                                               *)
(***************************************************************************)
\* What is set up, what is freed, who is in the logger and what the catalog file
\* holds go together at every point a signal can come at (main.cpp:33-56, 82-296).
THEOREM Invariance == Spec => []IInv
<1>1. Init => IInv
  BY InitOK
<1>2. IInv /\ [Next]_vars => IInv'
  <2> SUFFICES ASSUME IInv, [Next]_vars
               PROVE  IInv'
    OBVIOUS
  <2>1. CASE Main
    <3>1. CASE Start
      BY <3>1, StartKeeps
    <3>2. CASE SetLogger
      BY <3>2, SetLoggerKeeps
    <3>3. CASE NewCatalog
      BY <3>3, NewCatalogKeeps
    <3>4. CASE BeginLoad
      BY <3>4, BeginLoadKeeps
    <3>10. CASE EndLoad
      BY <3>10, EndLoadKeeps
    <3>5. CASE NewPager
      BY <3>5, NewPagerKeeps
    <3>6. CASE CleanUp
      BY <3>6, CleanUpKeeps
    <3>7. CASE DestroyCatalog
      BY <3>7, DestroyCatalogKeeps
    <3>8. CASE DestroyLogger
      BY <3>8, DestroyLoggerKeeps
    <3>9. CASE Return
      BY <3>9, ReturnKeeps
    <3> QED
      BY <2>1, <3>1, <3>2, <3>3, <3>4, <3>5, <3>6, <3>7, <3>8, <3>9, <3>10 DEF Main
  <2>2. CASE Sigint
    BY <2>2, SigintKeeps
  <2>3. CASE Exit
    BY <2>3, ExitKeeps
  <2>4. ASSUME NEW t \in Threads, Shared(t)
        PROVE  IInv'
    <3>1. CASE LogLine(t)
      BY <3>1, LogLineKeeps
    <3>2. CASE Lock(t)
      BY <3>2, LockKeeps
    <3>3. CASE Unlock(t)
      BY <3>3, UnlockKeeps
    <3>4. CASE Flushed(t)
      BY <3>4, FlushedKeeps
    <3>5. CASE OpenCatalog(t)
      BY <3>5, OpenCatalogKeeps
    <3>6. CASE WriteCatalog(t)
      BY <3>6, WriteCatalogKeeps
    <3>7. CASE CloseLog(t)
      BY <3>7, CloseLogKeeps
    <3> QED
      BY <2>4, <3>1, <3>2, <3>3, <3>4, <3>5, <3>6, <3>7 DEF Shared
  <2>5. CASE UNCHANGED vars
    BY <2>5, StutterKeeps
  <2> QED
    BY <2>1, <2>2, <2>3, <2>4, <2>5 DEF Next
<1> QED
  BY <1>1, <1>2, PTL DEF Spec

\* A handler on top of main meets no freed object before SystemCatalog::destroy,
\* and a main that runs alone none at all but in that destructor.
THEOREM NothingFreedTooEarly == Spec => []FreedOnlyAtTheEnd
<1>1. IInv => FreedOnlyAtTheEnd
  BY DEF IInv
<1> QED
  BY <1>1, Invariance, PTL

\* No line is written to a closed log before main or the handler has shut it down.
THEOREM NoLineLost == Spec => []LinesReachTheFile
<1>1. ASSUME IInv
      PROVE  LinesReachTheFile
  <2>1. SUFFICES ASSUME status = "running", NEW t \in Threads, call[t].doing = "line", call[t].inside,
                        ~ loggers[call[t].on].fileOpen
                 PROVE  \/ at["main"] \in {"destroyCatalog", "destroyLogger", "closePager"}
                        \/ at["handler"] = "exit"
    BY DEF LinesReachTheFile
  <2>2. /\ at[t] \in IF t = "main" THEN MainLogs ELSE {"flush"}
        /\ call[t].on \in 1 .. 2 /\ loggers[call[t].on].state = "live"
    BY <1>1, <2>1 DEF IInv, ShutdownTypeOK, CallsInPlace, CallsOnLive, Calls
  <2>3. CASE call[t].on = 1
    BY <1>1, <2>1, <2>2, <2>3
       DEF IInv, SetUp, CallsInPlace, SignalIsSeen, FileIsOpen, Closing, MainLogs, Threads, BeforePager, BeforeLoaded, BeforeCatalog
  <2>4. CASE call[t].on = 2
    BY <1>1, <2>1, <2>2, <2>4 DEF IInv, LoggersInTurn, Ended
  <2> QED
    BY <2>2, <2>3, <2>4
<1> QED
  BY <1>1, Invariance, PTL

\* On POSIX an exit leaves the stored tables in the catalog file, or a part of them if
\* they have rehashed the map, unless the signal came before all were loaded.
THEOREM StoredTablesSurvive == Spec => []CatalogKept
<1>1. IInv => CatalogKept
  BY DEF IInv, CatalogKept, TablesAreKept, SignalIsSeen, Ended, CatalogGone
<1> QED
  BY <1>1, Invariance, PTL

(***************************************************************************)
(* The catalog.  First, induction over the natural numbers, and loops.     *)
(***************************************************************************)
\* A set of numbers has a least one.
LEMMA LeastOf ==
  ASSUME NEW S \in SUBSET Nat, S # {}
  PROVE  \E m \in S : \A n \in S : m <= n
<1> DEFINE R == OpToRel(<, Nat)
<1>1. IsWellFoundedOn(R, Nat)
  BY NatLessThanWellFounded, Zenon
<1>2. \A x, y \in Nat : y < x => << y, x >> \in R
  BY DEF OpToRel
<1> HIDE DEF R
<1>3. PICK m \in S : \A n \in S : ~ (<< n, m >> \in R)
  BY <1>1, WFMin, Zenon
<1>4. ASSUME NEW n \in S
      PROVE  ~ (n < m)
  BY <1>2, <1>3, Zenon
<1> QED
  BY <1>4

\* Induction from 0 to n.
LEMMA UpTo ==
  ASSUME NEW n \in Nat, NEW S, 0 \in S, \A i \in 1 .. n : i - 1 \in S => i \in S
  PROVE  \A i \in 0 .. n : i \in S
<1> DEFINE Missing == {i \in 0 .. n : i \notin S}
<1>1. SUFFICES ASSUME Missing # {}
               PROVE  FALSE
  OBVIOUS
<1>2. Missing \in SUBSET Nat
  OBVIOUS
<1>3. PICK i \in Missing : \A m \in Missing : i <= m
  BY <1>1, <1>2, LeastOf
<1>4. i \in 1 .. n /\ i - 1 \in 0 .. n
  BY <1>3
<1>5. i - 1 \notin Missing
  BY <1>3, <1>4
<1> QED
  BY <1>3, <1>4, <1>5

\* A loop of n rounds: there is the function of what it has after each of them.
IsLoop(f, n, base, step) ==
  /\ f[0] = base
  /\ \A i \in 1 .. n : f[i] = step[i][f[i - 1]]

LEMMA LoopExists ==
  ASSUME NEW n \in Nat, NEW D, NEW base \in D, NEW step \in [1 .. n -> [D -> D]]
  PROVE  \E f \in [0 .. n -> D] : IsLoop(f, n, base, step)
<1> DEFINE S == {k \in 0 .. n : \E f \in [0 .. k -> D] : IsLoop(f, k, base, step)}
<1>1. 0 \in S
  <2> DEFINE f == [i \in 0 .. 0 |-> base]
  <2>1. f \in [0 .. 0 -> D] /\ IsLoop(f, 0, base, step)
    BY DEF IsLoop
  <2> QED
    BY <2>1
<1>2. ASSUME NEW k \in 1 .. n, k - 1 \in S
      PROVE  k \in S
  <2>1. PICK g \in [0 .. k - 1 -> D] : IsLoop(g, k - 1, base, step)
    BY <1>2
  <2> DEFINE f == [i \in 0 .. k |-> IF i = k THEN step[k][g[k - 1]] ELSE g[i]]
  <2>2. g[k - 1] \in D /\ step[k] \in [D -> D]
    BY <2>1
  <2>3. f \in [0 .. k -> D]
    BY <2>2
  <2>4. \A i \in 0 .. k - 1 : f[i] = g[i]
    OBVIOUS
  <2>5. f[k] = step[k][g[k - 1]]
    OBVIOUS
  <2> HIDE DEF f
  <2>6. f[0] = base /\ \A i \in 1 .. k - 1 : f[i] = step[i][f[i - 1]]
    BY <2>1, <2>4 DEF IsLoop
  <2>7. f[k] = step[k][f[k - 1]]
    BY <2>4, <2>5
  <2>8. IsLoop(f, k, base, step)
    BY <2>6, <2>7 DEF IsLoop
  <2> QED
    BY <2>3, <2>8
<1> HIDE DEF S
<1>3. \A k \in 0 .. n : k \in S
  BY <1>1, <1>2, UpTo
<1>4. n \in S
  BY <1>3
<1> QED
  BY <1>4 DEF S

(***************************************************************************)
(* Counting the names of a sequence.                                       *)
(***************************************************************************)
LEMMA TallyIs ==
  ASSUME NEW S, NEW s \in Seq(S), NEW Y
  PROVE  /\ IsFiniteSet({i \in DOMAIN s : s[i] \in Y})
         /\ Tally(s, Y) \in Nat
<1>1. IsFiniteSet(1 .. Len(s)) /\ DOMAIN s = 1 .. Len(s)
  BY FS_Interval
<1>2. {i \in DOMAIN s : s[i] \in Y} \in SUBSET (1 .. Len(s))
  BY <1>1
<1>3. IsFiniteSet({i \in DOMAIN s : s[i] \in Y})
  BY <1>1, <1>2, FS_Subset
<1> QED
  BY <1>3, FS_CardinalityType DEF Tally

LEMMA TallyOfNothing ==
  ASSUME NEW Y
  PROVE  Tally(<< >>, Y) = 0
<1>1. {i \in DOMAIN << >> : << >>[i] \in Y} = {}
  OBVIOUS
<1> QED
  BY <1>1, FS_EmptySet DEF Tally

LEMMA TallyOfOne ==
  ASSUME NEW x, NEW Y
  PROVE  Tally(<< x >>, Y) = IF x \in Y THEN 1 ELSE 0
<1> DEFINE P == {i \in DOMAIN << x >> : << x >>[i] \in Y}
<1>1. P = IF x \in Y THEN {1} ELSE {}
  OBVIOUS
<1>2. Cardinality({1}) = 1 /\ Cardinality({}) = 0
  BY FS_EmptySet, FS_Singleton
<1> QED
  BY <1>1, <1>2 DEF Tally

LEMMA TallyOfAll ==
  ASSUME NEW S, NEW s \in Seq(S)
  PROVE  Tally(s, S) = Len(s)
<1>1. {i \in DOMAIN s : s[i] \in S} = 1 .. Len(s)
  OBVIOUS
<1>2. Cardinality(1 .. Len(s)) = IF 1 > Len(s) THEN 0 ELSE Len(s) - 1 + 1
  BY FS_Interval
<1>3. (IF 1 > Len(s) THEN 0 ELSE Len(s) - 1 + 1) = Len(s)
  <2> DEFINE n == Len(s)
  <2>1. n \in Nat
    OBVIOUS
  <2> HIDE DEF n
  <2>2. (IF 1 > n THEN 0 ELSE n - 1 + 1) = n
    BY <2>1
  <2> QED
    BY <2>2 DEF n
<1> QED
  BY <1>1, <1>2, <1>3 DEF Tally

LEMMA TallyOfBoth ==
  ASSUME NEW S, NEW s \in Seq(S), NEW t \in Seq(S), NEW Y
  PROVE  Tally(s \o t, Y) = Tally(s, Y) + Tally(t, Y)
<1> DEFINE n == Len(s)
           m == Len(t)
           st == s \o t
           P == {i \in DOMAIN s : s[i] \in Y}
           Q == {i \in DOMAIN t : t[i] \in Y}
           R == {i \in DOMAIN st : st[i] \in Y}
           f == [i \in Q |-> n + i]
           Later == {i \in R : i > n}
<1>1. /\ n \in Nat /\ m \in Nat /\ DOMAIN s = 1 .. n /\ DOMAIN t = 1 .. m /\ DOMAIN st = 1 .. n + m
      /\ \A i \in 1 .. n : st[i] = s[i]
      /\ \A i \in 1 .. m : st[n + i] = t[i]
  OBVIOUS
<1>2. IsFiniteSet(P) /\ IsFiniteSet(Q)
  BY TallyIs
<1> HIDE DEF n, m, st
<1>3. f \in Bijection(Q, Later)
  <2>1. \A i \in Q : f[i] \in Later
    BY <1>1
  <2>2. f \in [Q -> Later]
    BY <2>1
  <2>3. \A i, j \in Q : f[i] = f[j] => i = j
    BY <1>1
  <2>4. \A k \in Later : k - n \in Q /\ f[k - n] = k
    <3> SUFFICES ASSUME NEW k \in Later
                 PROVE  k - n \in Q /\ f[k - n] = k
      OBVIOUS
    <3>1. k - n \in 1 .. m /\ k = n + (k - n)
      BY <1>1
    <3>2. st[k] = t[k - n]
      BY <1>1, <3>1
    <3> QED
      BY <1>1, <3>1, <3>2
  <2> HIDE DEF f, Later, Q
  <2>5. f \in Injection(Q, Later)
    BY <2>2, <2>3 DEF Injection, IsInjective
  <2>6. f \in Surjection(Q, Later)
    BY <2>2, <2>4 DEF Surjection
  <2> QED
    BY <2>5, <2>6 DEF Bijection
<1>4. R = P \union Later
  BY <1>1
<1>5. P \cap Later = {}
  BY <1>1
<1> HIDE DEF P, Q, R, Later, f
<1>6. IsFiniteSet(Later) /\ Cardinality(Later) = Cardinality(Q)
  BY <1>2, <1>3, FS_Bijection DEF ExistsBijection
<1>7. Cardinality(R) = Cardinality(P) + Cardinality(Later) - Cardinality({})
  BY <1>2, <1>4, <1>5, <1>6, FS_Union
<1>8. Cardinality({}) = 0 /\ Cardinality(P) \in Nat /\ Cardinality(Later) \in Nat
  BY <1>2, <1>6, FS_EmptySet, FS_CardinalityType
<1>9. Cardinality(R) = Cardinality(P) + Cardinality(Q)
  BY <1>6, <1>7, <1>8
<1> QED
  BY <1>9 DEF Tally, P, Q, R, st

\* The first i names, counted.
TallyTo(s, i, Y) == Cardinality({j \in 1 .. i : s[j] \in Y})

LEMMA TallyStep ==
  ASSUME NEW s, NEW i \in Nat \ {0}, NEW Y
  PROVE  TallyTo(s, i, Y) = TallyTo(s, i - 1, Y) + IF s[i] \in Y THEN 1 ELSE 0
<1> DEFINE P == {j \in 1 .. i - 1 : s[j] \in Y}
           R == {j \in 1 .. i : s[j] \in Y}
<1>1. IsFiniteSet(1 .. i - 1)
  BY FS_Interval
<1>2. IsFiniteSet(P)
  BY <1>1, FS_Subset
<1>3. i \notin P
  OBVIOUS
<1>4. R = IF s[i] \in Y THEN P \union {i} ELSE P
  OBVIOUS
<1> HIDE DEF P, R
<1>5. Cardinality(P \union {i}) = Cardinality(P) + 1 /\ Cardinality(P) \in Nat
  BY <1>2, <1>3, FS_AddElement, FS_CardinalityType
<1>6. Cardinality(R) = Cardinality(P) + IF s[i] \in Y THEN 1 ELSE 0
  BY <1>4, <1>5
<1> QED
  BY <1>6 DEF TallyTo, P, R

LEMMA TallyEnds ==
  ASSUME NEW S, NEW s \in Seq(S), NEW Y
  PROVE  TallyTo(s, 0, Y) = 0 /\ TallyTo(s, Len(s), Y) = Tally(s, Y)
<1>1. {j \in 1 .. 0 : s[j] \in Y} = {}
  OBVIOUS
<1>2. TallyTo(s, 0, Y) = 0
  BY <1>1, FS_EmptySet DEF TallyTo
<1>3. DOMAIN s = 1 .. Len(s)
  OBVIOUS
<1> QED
  BY <1>2, <1>3 DEF TallyTo, Tally

(***************************************************************************)
(* The map.                                                                *)
(***************************************************************************)
MapType(c) == [capacity : {c}, size : Nat, chain : [0 .. c - 1 -> Seq(Names)]]

InBucket(m) ==
  \A b \in 0 .. m.capacity - 1 :
    \A i \in 1 .. Len(m.chain[b]) : hashOf[m.chain[b][i]] % m.capacity = b

HashTyped == hashOf \in [Names -> Nat]

\* The walk is a loop over the buckets: g has the nodes of the first ones.
WalkedBy(g, m, n) ==
  /\ g \in [0 .. n -> Seq(Names)]
  /\ g[0] = << >>
  /\ \A b \in 1 .. n : g[b] = g[b - 1] \o m.chain[b - 1]
  /\ Walk(m, n) = g[n]

LEMMA WalkIs ==
  ASSUME NEW c \in Nat, NEW n \in 0 .. c, NEW m, m.chain \in [0 .. c - 1 -> Seq(Names)]
  PROVE  \E g : WalkedBy(g, m, n)
<1> DEFINE D == Seq(Names)
           Is(g) == g = [b \in 0 .. n |-> IF b = 0 THEN << >> ELSE g[b - 1] \o m.chain[b - 1]]
           g == CHOOSE h : Is(h)
           step == [b \in 1 .. n |-> [s \in D |-> s \o m.chain[b - 1]]]
<1>1. n \in Nat /\ \A b \in 1 .. n : b - 1 \in 0 .. n /\ b - 1 \in 0 .. c - 1
  OBVIOUS
<1>2. \A b \in 1 .. n : m.chain[b - 1] \in D
  BY <1>1
<1>3. \A s \in D, t \in D : s \o t \in D
  OBVIOUS
<1>4. << >> \in D
  OBVIOUS
<1> HIDE DEF D
<1>5. step \in [1 .. n -> [D -> D]]
  BY <1>2, <1>3
<1>6. PICK h \in [0 .. n -> D] : IsLoop(h, n, << >>, step)
  <2> HIDE DEF step
  <2> QED
    BY <1>1, <1>4, <1>5, LoopExists
<1>7. \A b \in 1 .. n : h[b] = h[b - 1] \o m.chain[b - 1]
  BY <1>1, <1>6 DEF IsLoop
<1>8. h[0] = << >>
  BY <1>6 DEF IsLoop
<1>9. Is(h)
  <2>1. \A b \in 0 .. n : b # 0 => b \in 1 .. n
    BY <1>1
  <2>2. \A b \in 0 .. n : h[b] = IF b = 0 THEN << >> ELSE h[b - 1] \o m.chain[b - 1]
    BY <1>7, <1>8, <2>1
  <2>3. h = [b \in 0 .. n |-> h[b]]
    OBVIOUS
  <2> QED
    BY <2>2, <2>3
<1>10. Is(g)
  BY <1>9
<1>11. Walk(m, n) = g[n]
  BY DEF Walk
<1> HIDE DEF g
<1>12. \A b \in 0 .. n : g[b] = IF b = 0 THEN << >> ELSE g[b - 1] \o m.chain[b - 1]
  BY <1>10
<1>13. g[0] = << >> /\ \A b \in 1 .. n : g[b] = g[b - 1] \o m.chain[b - 1]
  <2>1. 0 \in 0 .. n /\ \A b \in 1 .. n : b \in 0 .. n /\ b # 0
    OBVIOUS
  <2> QED
    BY <1>12, <2>1
<1>14. g \in [0 .. n -> D]
  <2> DEFINE Good == {b \in 0 .. n : g[b] \in D}
  <2>1. 0 \in Good
    BY <1>1, <1>4, <1>13
  <2>2. ASSUME NEW b \in 1 .. n, b - 1 \in Good
        PROVE  b \in Good
    <3>1. b \in 0 .. n /\ g[b - 1] \in D /\ m.chain[b - 1] \in D
      BY <1>2, <2>2
    <3>2. g[b - 1] \o m.chain[b - 1] \in D
      BY <1>3, <3>1
    <3> QED
      BY <1>13, <3>1, <3>2
  <2> HIDE DEF Good
  <2>3. \A b \in 0 .. n : b \in Good
    BY <1>1, <2>1, <2>2, UpTo
  <2>4. \A b \in 0 .. n : g[b] \in D
    BY <2>3 DEF Good
  <2>5. g = [b \in 0 .. n |-> g[b]]
    BY <1>10
  <2> QED
    BY <2>4, <2>5
<1> QED
  BY <1>11, <1>13, <1>14 DEF D, WalkedBy

LEMMA WalkOf ==
  ASSUME NEW c \in Nat \ {0}, NEW m \in MapType(c)
  PROVE  \E g : WalkedBy(g, m, c)
<1>1. m.chain \in [0 .. c - 1 -> Seq(Names)]
  BY DEF MapType
<1>2. c \in Nat /\ c \in 0 .. c
  OBVIOUS
<1> QED
  BY <1>1, <1>2, WalkIs

\* An empty map has no nodes.
LEMMA EmptyMapIs ==
  ASSUME NEW c \in Nat \ {0}
  PROVE  /\ EmptyMap(c) \in MapType(c)
         /\ InBucket(EmptyMap(c))
         /\ EmptyMap(c).size = 0
         /\ Walk(EmptyMap(c), c) = << >>
<1> DEFINE m == EmptyMap(c)
<1>1. m \in MapType(c) /\ m.capacity = c /\ m.size = 0 /\ \A b \in 0 .. c - 1 : m.chain[b] = << >>
  BY DEF EmptyMap, MapType
<1> HIDE DEF m
<1>2. PICK g : WalkedBy(g, m, c)
  BY <1>1, WalkOf
<1>3. g[c] = << >>
  <2> DEFINE Good == {b \in 0 .. c : g[b] = << >>}
  <2>1. 0 \in Good
    BY <1>2 DEF WalkedBy
  <2>2. ASSUME NEW b \in 1 .. c, b - 1 \in Good
        PROVE  b \in Good
    <3>1. g[b - 1] = << >> /\ m.chain[b - 1] = << >>
      BY <1>1, <2>2
    <3>2. << >> \o << >> = << >>
      OBVIOUS
    <3>3. g[b] = << >>
      BY <1>2, <3>1, <3>2 DEF WalkedBy
    <3> QED
      BY <3>3
  <2> HIDE DEF Good
  <2>3. \A b \in 0 .. c : b \in Good
    BY <2>1, <2>2, UpTo
  <2> QED
    BY <2>3 DEF Good
<1>4. InBucket(m)
  <2>1. \A b \in 0 .. c - 1 : 1 .. Len(m.chain[b]) = {}
    BY <1>1
  <2> QED
    BY <1>1, <2>1 DEF InBucket
<1> QED
  BY <1>1, <1>2, <1>3, <1>4 DEF m, WalkedBy

\* A new node is in its chain and changes nothing else.
LEMMA AddedIs ==
  ASSUME HashTyped, NEW c \in Nat \ {0}, NEW m \in MapType(c), InBucket(m), NEW x \in Names
  PROVE  /\ Added(m, x) \in MapType(c)
         /\ InBucket(Added(m, x))
         /\ Added(m, x).size = m.size + 1
         /\ \A Y : Tally(Walk(Added(m, x), c), Y)
                     = Tally(Walk(m, c), Y) + IF x \in Y THEN 1 ELSE 0
<1> DEFINE k == hashOf[x] % c
           m1 == Added(m, x)
           D == Seq(Names)
<1>1. /\ m.capacity = c /\ m.size \in Nat /\ m.chain \in [0 .. c - 1 -> D]
      /\ m = [capacity |-> c, size |-> m.size, chain |-> m.chain]
  BY DEF MapType
<1>2. k \in 0 .. c - 1
  <2> DEFINE h == hashOf[x]
  <2>1. h \in Nat
    BY DEF HashTyped
  <2> HIDE DEF h
  <2>2. h % c \in 0 .. c - 1
    BY <2>1
  <2> QED
    BY <2>2 DEF h
<1>3. m1 = [m EXCEPT !.chain[k] = << x >> \o @, !.size = @ + 1]
  BY <1>1 DEF Added
<1> HIDE DEF m1, k
<1>4. m1 = [capacity |-> c, size |-> m.size + 1, chain |-> [m.chain EXCEPT ![k] = << x >> \o @]]
  BY <1>1, <1>3
<1>5. m.chain[k] \in D /\ << x >> \in D
  BY <1>1, <1>2
<1>6. << x >> \o m.chain[k] \in D
  BY <1>5
<1>7. /\ m1.capacity = c /\ m1.size = m.size + 1
      /\ \A b \in 0 .. c - 1 : m1.chain[b] = IF b = k THEN << x >> \o m.chain[k] ELSE m.chain[b]
  BY <1>1, <1>4
<1>8. m1 \in MapType(c)
  <2>1. [m.chain EXCEPT ![k] = << x >> \o @] \in [0 .. c - 1 -> D]
    BY <1>1, <1>2, <1>6
  <2>2. m.size + 1 \in Nat
    BY <1>1
  <2> QED
    BY <1>4, <2>1, <2>2 DEF MapType
<1>9. InBucket(m1)
  <2> SUFFICES ASSUME NEW b \in 0 .. c - 1, NEW i \in 1 .. Len(m1.chain[b])
               PROVE  hashOf[m1.chain[b][i]] % c = b
    BY <1>7 DEF InBucket
  <2>1. CASE b # k
    BY <1>1, <1>7, <2>1 DEF InBucket
  <2>2. CASE b = k
    <3> DEFINE s == m.chain[k]
               t == << x >> \o s
    <3>1. m1.chain[b] = t /\ s \in D
      BY <1>5, <1>7, <2>2
    <3>2. t[1] = x /\ \A j \in 1 .. Len(t) : j # 1 => j - 1 \in 1 .. Len(s) /\ t[j] = s[j - 1]
      BY <3>1
    <3>3. \A j \in 1 .. Len(s) : hashOf[s[j]] % c = k
      BY <1>1, <1>2 DEF InBucket
    <3> HIDE DEF s, t
    <3>4. i = 1 \/ (i - 1 \in 1 .. Len(s) /\ t[i] = s[i - 1])
      BY <3>1, <3>2
    <3> QED
      BY <2>2, <3>1, <3>2, <3>3, <3>4 DEF k
  <2> QED
    BY <2>1, <2>2
<1>10. ASSUME NEW Y
       PROVE  Tally(Walk(m1, c), Y) = Tally(Walk(m, c), Y) + IF x \in Y THEN 1 ELSE 0
  <2> DEFINE one == IF x \in Y THEN 1 ELSE 0
  <2>1. m1.chain \in [0 .. c - 1 -> D]
    BY <1>8 DEF MapType
  <2>2. PICK g : WalkedBy(g, m, c)
    BY WalkOf
  <2>3. PICK f : WalkedBy(f, m1, c)
    BY <1>8, WalkOf
  <2> DEFINE Good == {b \in 0 .. c : Tally(f[b], Y) = Tally(g[b], Y) + IF b > k THEN one ELSE 0}
  <2>4. 0 \in Good
    BY <1>2, <2>2, <2>3, TallyOfNothing DEF WalkedBy
  <2>5. ASSUME NEW b \in 1 .. c, b - 1 \in Good
        PROVE  b \in Good
    <3>1. b - 1 \in 0 .. c - 1 /\ b - 1 \in 0 .. c
      OBVIOUS
    <3>2. f[b - 1] \in D /\ g[b - 1] \in D /\ m.chain[b - 1] \in D /\ m1.chain[b - 1] \in D
      BY <1>1, <2>1, <2>2, <2>3, <3>1 DEF WalkedBy
    <3>3. /\ Tally(f[b], Y) = Tally(f[b - 1], Y) + Tally(m1.chain[b - 1], Y)
          /\ Tally(g[b], Y) = Tally(g[b - 1], Y) + Tally(m.chain[b - 1], Y)
      <4>1. /\ Tally(f[b - 1] \o m1.chain[b - 1], Y) = Tally(f[b - 1], Y) + Tally(m1.chain[b - 1], Y)
            /\ Tally(g[b - 1] \o m.chain[b - 1], Y) = Tally(g[b - 1], Y) + Tally(m.chain[b - 1], Y)
        BY <3>2, TallyOfBoth
      <4>2. f[b] = f[b - 1] \o m1.chain[b - 1] /\ g[b] = g[b - 1] \o m.chain[b - 1]
        BY <2>2, <2>3 DEF WalkedBy
      <4> QED
        BY <4>1, <4>2
    <3>4. Tally(f[b - 1], Y) = Tally(g[b - 1], Y) + IF b - 1 > k THEN one ELSE 0
      BY <2>5
    <3>5. Tally(m1.chain[b - 1], Y) = Tally(m.chain[b - 1], Y) + IF b - 1 = k THEN one ELSE 0
      <4>1. CASE b - 1 = k
        <5>1. Tally(<< x >> \o m.chain[k], Y) = Tally(<< x >>, Y) + Tally(m.chain[k], Y)
          BY <1>5, TallyOfBoth
        <5>2. Tally(<< x >>, Y) = one
          BY TallyOfOne
        <5>3. m1.chain[b - 1] = << x >> \o m.chain[k]
          BY <1>7, <3>1, <4>1
        <5>4. Tally(m.chain[k], Y) \in Nat /\ one \in Nat
          BY <1>5, TallyIs
        <5> HIDE DEF one
        <5> QED
          BY <4>1, <5>1, <5>2, <5>3, <5>4
      <4>2. CASE b - 1 # k
        <5>1. m1.chain[b - 1] = m.chain[b - 1]
          BY <1>7, <3>1, <4>2
        <5>2. Tally(m.chain[b - 1], Y) \in Nat
          BY <3>2, TallyIs
        <5> QED
          BY <4>2, <5>1, <5>2
      <4> QED
        BY <4>1, <4>2
    <3>6. /\ Tally(g[b - 1], Y) \in Nat /\ Tally(m.chain[b - 1], Y) \in Nat
          /\ one \in Nat
      BY <3>2, TallyIs
    <3> HIDE DEF one
    <3>7. Tally(f[b], Y) = Tally(g[b], Y) + IF b > k THEN one ELSE 0
      BY <1>2, <3>3, <3>4, <3>5, <3>6
    <3> QED
      BY <3>7
  <2> HIDE DEF Good
  <2>6. \A b \in 0 .. c : b \in Good
    BY <2>4, <2>5, UpTo
  <2>7. c \in Good /\ c > k
    BY <1>2, <2>6
  <2> QED
    BY <2>2, <2>3, <2>7 DEF Good, WalkedBy
<1> QED
  BY <1>7, <1>8, <1>9, <1>10 DEF m1

\* The maps of capacity c whose nodes are in their chains.
Maps(c) == {m \in MapType(c) : InBucket(m)}

LEMMA WalkTyped ==
  ASSUME NEW c \in Nat \ {0}, NEW m \in MapType(c), NEW n \in 0 .. c
  PROVE  Walk(m, n) \in Seq(Names)
<1>1. m.chain \in [0 .. c - 1 -> Seq(Names)]
  BY DEF MapType
<1>2. PICK g : WalkedBy(g, m, n)
  BY <1>1, WalkIs
<1>3. n \in 0 .. n
  OBVIOUS
<1> QED
  BY <1>2, <1>3 DEF WalkedBy

\* rehash loses no node and makes none, and counts those it has put back.
LEMMA RehashIs ==
  ASSUME HashTyped, NEW c \in Nat \ {0}, NEW m \in MapType(c), NEW d \in Nat \ {0}
  PROVE  /\ Rehash(m, d) \in Maps(d)
         /\ Rehash(m, d).size = Len(Walk(m, c))
         /\ \A Y : Tally(Walk(Rehash(m, d), d), Y) = Tally(Walk(m, c), Y)
         /\ \A i \in 0 .. Len(Walk(m, c)) :
              Rehashing(m, d)[i] \in Maps(d) /\ Rehashing(m, d)[i].size = i
<1> DEFINE s == Walk(m, c)
           n == Len(s)
           D == Maps(d)
           base == EmptyMap(d)
           Is(f) == f = [i \in 0 .. n |-> IF i = 0 THEN base ELSE Added(f[i - 1], s[i])]
           f == CHOOSE h : Is(h)
           step == [i \in 1 .. n |-> [r \in D |-> Added(r, s[i])]]
<1>1. s \in Seq(Names) /\ n \in Nat /\ m.capacity = c
  <2>1. c \in 0 .. c
    OBVIOUS
  <2>2. s \in Seq(Names)
    BY <2>1, WalkTyped
  <2> QED
    BY <2>2 DEF MapType
<1>2. Rehashing(m, d) = f /\ Rehash(m, d) = f[n]
  BY <1>1 DEF Rehash, Rehashing
<1>3. base \in D /\ base.size = 0 /\ Walk(base, d) = << >>
  BY EmptyMapIs DEF Maps
<1>4. \A i \in 1 .. n : s[i] \in Names
  BY <1>1
<1> HIDE DEF s, base, n
<1>5. \A r \in D, x \in Names : Added(r, x) \in D /\ Added(r, x).size = r.size + 1
  BY AddedIs DEF Maps
<1>6. \A r \in D, x \in Names : \A Y : Tally(Walk(Added(r, x), d), Y) = Tally(Walk(r, d), Y) + IF x \in Y THEN 1 ELSE 0
  BY AddedIs DEF Maps
<1>7. \A r \in D : r.size \in Nat
  BY DEF Maps, MapType
<1> HIDE DEF D
<1>8. step \in [1 .. n -> [D -> D]]
  BY <1>4, <1>5
<1>9. PICK h \in [0 .. n -> D] : IsLoop(h, n, base, step)
  <2> HIDE DEF step
  <2> QED
    BY <1>1, <1>3, <1>8, LoopExists
<1>10. Is(h)
  <2>1. \A i \in 0 .. n : i # 0 => i \in 1 .. n /\ i - 1 \in 0 .. n
    BY <1>1
  <2>2. \A i \in 1 .. n : h[i] = Added(h[i - 1], s[i])
    <3> TAKE i \in 1 .. n
    <3>1. h[i] = step[i][h[i - 1]] /\ h[i - 1] \in D
      BY <1>1, <1>9 DEF IsLoop
    <3> QED
      BY <3>1
  <2>3. \A i \in 0 .. n : h[i] = IF i = 0 THEN base ELSE Added(h[i - 1], s[i])
    BY <1>9, <2>1, <2>2 DEF IsLoop
  <2>4. h = [i \in 0 .. n |-> h[i]]
    OBVIOUS
  <2> QED
    BY <2>3, <2>4
<1>11. Is(f)
  BY <1>10
<1> HIDE DEF f
<1>12. \A i \in 0 .. n : f[i] = IF i = 0 THEN base ELSE Added(f[i - 1], s[i])
  BY <1>11
<1>13. f[0] = base /\ \A i \in 1 .. n : f[i] = Added(f[i - 1], s[i])
  <2>1. 0 \in 0 .. n /\ \A i \in 1 .. n : i \in 0 .. n /\ i # 0
    BY <1>1
  <2> QED
    BY <1>12, <2>1
<1> HIDE DEF Is, step
<1>14. \A i \in 0 .. n : f[i] \in D /\ f[i].size = i
  <2> DEFINE Good == {i \in 0 .. n : f[i] \in D /\ f[i].size = i}
  <2>1. 0 \in Good
    BY <1>1, <1>3, <1>13
  <2>2. ASSUME NEW i \in 1 .. n, i - 1 \in Good
        PROVE  i \in Good
    <3>1. f[i] = Added(f[i - 1], s[i]) /\ f[i - 1] \in D /\ f[i - 1].size = i - 1
      BY <1>13, <2>2
    <3>2. f[i] \in D /\ f[i].size = i - 1 + 1
      BY <1>4, <1>5, <3>1
    <3>3. i \in 0 .. n /\ f[i].size = i
      BY <1>1, <3>2
    <3> QED
      BY <3>2, <3>3
  <2> HIDE DEF Good
  <2>3. \A i \in 0 .. n : i \in Good
    BY <1>1, <2>1, <2>2, UpTo
  <2> QED
    BY <2>3 DEF Good
<1>15. ASSUME NEW Y
       PROVE  Tally(Walk(f[n], d), Y) = Tally(s, Y)
  <2> DEFINE Good == {i \in 0 .. n : Tally(Walk(f[i], d), Y) = TallyTo(s, i, Y)}
  <2>1. 0 \in Good
    BY <1>1, <1>3, <1>13, TallyOfNothing, TallyEnds
  <2>2. ASSUME NEW i \in 1 .. n, i - 1 \in Good
        PROVE  i \in Good
    <3>1. f[i] = Added(f[i - 1], s[i]) /\ f[i - 1] \in D
      BY <1>1, <1>13, <1>14
    <3>2. Tally(Walk(f[i], d), Y) = Tally(Walk(f[i - 1], d), Y) + IF s[i] \in Y THEN 1 ELSE 0
      BY <1>4, <1>6, <3>1
    <3>3. TallyTo(s, i, Y) = TallyTo(s, i - 1, Y) + IF s[i] \in Y THEN 1 ELSE 0
      BY <1>1, TallyStep
    <3>4. Tally(Walk(f[i], d), Y) = TallyTo(s, i, Y) /\ i \in 0 .. n
      BY <1>1, <2>2, <3>2, <3>3
    <3> QED
      BY <3>4
  <2> HIDE DEF Good
  <2>3. \A i \in 0 .. n : i \in Good
    BY <1>1, <2>1, <2>2, UpTo
  <2>4. n \in Good
    BY <1>1, <2>3
  <2> QED
    BY <1>1, <2>4, TallyEnds DEF Good, n
<1>16. n \in 0 .. n
  BY <1>1
<1> QED
  BY <1>2, <1>14, <1>15, <1>16 DEF D, s, n

(***************************************************************************)
(* What the map of a catalog is like at all times: it grows only when it   *)
(* is due, so that a map of more than the first buckets has many nodes.    *)
(***************************************************************************)
Load(c) == (c * 3) \div 4

Whole(m) == Walk(m, m.capacity)

MapOk(m) ==
  /\ m.capacity \in Nat \ {0}
  /\ m \in Maps(m.capacity)
  /\ m.size = Len(Whole(m))
  /\ m.size <= Load(m.capacity)
  /\ m.capacity >= Buckets
  /\ m.capacity > Buckets => m.size > Load(Buckets)

LEMMA LoadIs ==
  ASSUME NEW a \in Nat \ {0}, NEW b \in Nat \ {0}, a >= b
  PROVE  /\ Load(a) \in Nat /\ Load(b) \in Nat
         /\ Load(b) <= Load(a)
         /\ Load(a) + 1 <= Load(a * 2)
BY DEF Load

LEMMA FreshMapIs ==
  MapOk(EmptyMap(Buckets)) /\ EmptyMap(Buckets).size = 0 /\ Whole(EmptyMap(Buckets)) = << >>
<1> DEFINE m == EmptyMap(Buckets)
<1>1. Buckets \in Nat \ {0}
  BY CatalogAssumption
<1>2. m \in Maps(Buckets) /\ m.size = 0 /\ Walk(m, Buckets) = << >>
  BY <1>1, EmptyMapIs DEF Maps
<1>3. m.capacity = Buckets
  BY DEF EmptyMap
<1>4. Load(Buckets) \in Nat
  BY <1>1, LoadIs
<1> HIDE DEF m
<1>5. Whole(m) = << >> /\ Len(Whole(m)) = 0
  BY <1>2, <1>3 DEF Whole
<1> QED
  BY <1>1, <1>2, <1>3, <1>4, <1>5 DEF MapOk, m

\* insert adds one node, with a rehash or without.
LEMMA InsertIs ==
  ASSUME HashTyped, NEW m, MapOk(m), NEW x \in Names
  PROVE  /\ MapOk(Insert(m, x))
         /\ Insert(m, x).size = m.size + 1
         /\ \A Y : Tally(Whole(Insert(m, x)), Y) = Tally(Whole(m), Y) + IF x \in Y THEN 1 ELSE 0
<1> DEFINE c == m.capacity
           a == Added(m, x)
           r == Rehash(a, c * 2)
           m1 == Insert(m, x)
<1>1. /\ c \in Nat \ {0} /\ m \in MapType(c) /\ InBucket(m) /\ m.size = Len(Walk(m, c))
      /\ m.size \in Nat /\ m.size <= Load(c) /\ c >= Buckets /\ Buckets \in Nat \ {0}
      /\ c > Buckets => m.size > Load(Buckets)
  BY CatalogAssumption DEF MapOk, Maps, Whole, MapType
<1>2. m1 = IF a.size > Load(c) THEN r ELSE a
  <2>1. RehashIsDue(a) <=> a.size > Load(c)
    BY DEF RehashIsDue, Load, Added
  <2> QED
    BY <2>1 DEF Insert
<1> HIDE DEF c, m1
<1>3. /\ a \in MapType(c) /\ InBucket(a) /\ a.size = m.size + 1
      /\ \A Y : Tally(Walk(a, c), Y) = Tally(Walk(m, c), Y) + IF x \in Y THEN 1 ELSE 0
  BY <1>1, AddedIs
<1> HIDE DEF a
<1>4. a.capacity = c /\ c \in 0 .. c
  BY <1>1, <1>3 DEF MapType
<1>5. Walk(m, c) \in Seq(Names) /\ Walk(a, c) \in Seq(Names)
  BY <1>1, <1>3, <1>4, WalkTyped
<1>6. Len(Walk(a, c)) = m.size + 1
  <2>1. Tally(Walk(m, c), Names) = Len(Walk(m, c)) /\ Tally(Walk(a, c), Names) = Len(Walk(a, c))
    BY <1>5, TallyOfAll
  <2>2. Tally(Walk(a, c), Names) = Tally(Walk(m, c), Names) + 1
    BY <1>3
  <2> QED
    BY <1>1, <2>1, <2>2
<1>7. Load(Buckets) \in Nat /\ Load(c) \in Nat /\ Load(Buckets) <= Load(c) /\ Load(c) + 1 <= Load(c * 2)
  BY <1>1, LoadIs
<1>8. CASE a.size > Load(c)
  <2> DEFINE d == c * 2
  <2>1. d \in Nat \ {0} /\ d > Buckets
    BY <1>1
  <2>2. r = Rehash(a, d) /\ m1 = r
    BY <1>2, <1>8
  <2> HIDE DEF d
  <2>3. /\ r \in Maps(d) /\ r.size = Len(Walk(a, c))
        /\ \A Y : Tally(Walk(r, d), Y) = Tally(Walk(a, c), Y)
    BY <1>1, <1>3, <2>1, <2>2, RehashIs
  <2> HIDE DEF r
  <2>4. r.capacity = d /\ Whole(r) = Walk(r, d)
    BY <2>3 DEF Maps, MapType, Whole
  <2>5. r.size = m.size + 1
    BY <1>6, <2>3
  <2>6. r.size = Len(Whole(r))
    <3>1. Walk(r, d) \in Seq(Names)
      BY <2>1, <2>3, WalkTyped DEF Maps
    <3>2. Tally(Walk(r, d), Names) = Len(Walk(r, d)) /\ Tally(Walk(a, c), Names) = Len(Walk(a, c))
      BY <1>5, <3>1, TallyOfAll
    <3> QED
      BY <2>3, <2>4, <3>2
  <2>7. r.size <= Load(d) /\ r.size > Load(Buckets)
    BY <1>1, <1>3, <1>7, <1>8, <2>5 DEF d
  <2>8. MapOk(r)
    BY <1>1, <2>1, <2>3, <2>4, <2>6, <2>7 DEF MapOk
  <2> QED
    BY <1>3, <2>2, <2>3, <2>4, <2>5, <2>8 DEF m1, Whole, c
<1>9. CASE ~ (a.size > Load(c))
  <2>1. m1 = a
    BY <1>2, <1>9
  <2>2. a.size <= Load(c) /\ a.size \in Nat
    BY <1>1, <1>3, <1>7, <1>9
  <2>3. c > Buckets => a.size > Load(Buckets)
    BY <1>1, <1>3, <1>7
  <2>4. MapOk(a)
    BY <1>1, <1>3, <1>4, <1>6, <2>2, <2>3 DEF MapOk, Maps, Whole
  <2> QED
    BY <1>3, <1>4, <2>1, <2>4 DEF m1, Whole, c
<1> QED
  BY <1>8, <1>9

\* registerTable for one name after another adds each of them once.
LEMMA RegisteredIs ==
  ASSUME HashTyped, NEW m, MapOk(m), NEW s \in Seq(Names)
  PROVE  /\ MapOk(Registered(m, s))
         /\ Registered(m, s).size = m.size + Len(s)
         /\ \A Y : Tally(Whole(Registered(m, s)), Y) = Tally(Whole(m), Y) + Tally(s, Y)
<1> DEFINE n == Len(s)
           D == {r \in UNION {MapType(c) : c \in Nat \ {0}} : MapOk(r)}
           Is(f) == f = [i \in 0 .. n |-> IF i = 0 THEN m ELSE Insert(f[i - 1], s[i])]
           f == CHOOSE h : Is(h)
           step == [i \in 1 .. n |-> [r \in D |-> Insert(r, s[i])]]
<1>1. \A r : MapOk(r) => r \in D
  BY DEF MapOk, Maps
<1>2. \A r \in D : MapOk(r) /\ r.size \in Nat
  BY DEF MapOk, Maps, MapType
<1>3. n \in Nat /\ \A i \in 1 .. n : s[i] \in Names
  OBVIOUS
<1>4. Registered(m, s) = f[n]
  BY DEF Registered
<1> HIDE DEF n, D
<1>5. \A r \in D, x \in Names : Insert(r, x) \in D /\ Insert(r, x).size = r.size + 1
  BY <1>1, <1>2, InsertIs
<1>6. \A r \in D, x \in Names : \A Y :
        Tally(Whole(Insert(r, x)), Y) = Tally(Whole(r), Y) + IF x \in Y THEN 1 ELSE 0
  BY <1>2, InsertIs
<1>7. \A r \in D : \A Y : Tally(Whole(r), Y) \in Nat
  <2> TAKE r \in D
  <2> TAKE Y
  <2> DEFINE c == r.capacity
  <2>1. c \in Nat \ {0} /\ r \in MapType(c)
    BY <1>2 DEF MapOk, Maps
  <2> HIDE DEF c
  <2>2. Walk(r, c) \in Seq(Names)
    BY <2>1, WalkTyped
  <2> QED
    BY <2>2, TallyIs DEF Whole, c
<1>8. step \in [1 .. n -> [D -> D]]
  BY <1>3, <1>5
<1>9. m \in D
  BY <1>1
<1>10. PICK h \in [0 .. n -> D] : IsLoop(h, n, m, step)
  <2> HIDE DEF step
  <2> QED
    BY <1>3, <1>8, <1>9, LoopExists
<1>11. Is(h)
  <2>1. \A i \in 0 .. n : i # 0 => i \in 1 .. n /\ i - 1 \in 0 .. n
    BY <1>3
  <2>2. \A i \in 1 .. n : h[i] = Insert(h[i - 1], s[i])
    <3> TAKE i \in 1 .. n
    <3>1. h[i] = step[i][h[i - 1]] /\ h[i - 1] \in D
      BY <1>3, <1>10 DEF IsLoop
    <3> QED
      BY <3>1
  <2>3. \A i \in 0 .. n : h[i] = IF i = 0 THEN m ELSE Insert(h[i - 1], s[i])
    BY <1>10, <2>1, <2>2 DEF IsLoop
  <2>4. h = [i \in 0 .. n |-> h[i]]
    OBVIOUS
  <2> QED
    BY <2>3, <2>4
<1>12. Is(f)
  BY <1>11
<1> HIDE DEF f
<1>13. f[0] = m /\ \A i \in 1 .. n : f[i] = Insert(f[i - 1], s[i])
  <2>1. \A i \in 0 .. n : f[i] = IF i = 0 THEN m ELSE Insert(f[i - 1], s[i])
    BY <1>12
  <2>2. 0 \in 0 .. n /\ \A i \in 1 .. n : i \in 0 .. n /\ i # 0
    BY <1>3
  <2> QED
    BY <2>1, <2>2
<1> HIDE DEF Is, step
<1>14. \A i \in 0 .. n : f[i] \in D /\ f[i].size = m.size + i
  <2> DEFINE Good == {i \in 0 .. n : f[i] \in D /\ f[i].size = m.size + i}
  <2>1. 0 \in Good
    BY <1>2, <1>3, <1>9, <1>13
  <2>2. ASSUME NEW i \in 1 .. n, i - 1 \in Good
        PROVE  i \in Good
    <3>1. f[i] = Insert(f[i - 1], s[i]) /\ f[i - 1] \in D /\ f[i - 1].size = m.size + (i - 1)
      BY <1>13, <2>2
    <3>2. f[i] \in D /\ f[i].size = m.size + (i - 1) + 1
      BY <1>3, <1>5, <3>1
    <3>3. i \in 0 .. n /\ f[i].size = m.size + i
      BY <1>2, <1>3, <1>9, <3>2
    <3> QED
      BY <3>2, <3>3
  <2> HIDE DEF Good
  <2>3. \A i \in 0 .. n : i \in Good
    BY <1>3, <2>1, <2>2, UpTo
  <2> QED
    BY <2>3 DEF Good
<1>15. ASSUME NEW Y
       PROVE  Tally(Whole(f[n]), Y) = Tally(Whole(m), Y) + Tally(s, Y)
  <2> DEFINE Good == {i \in 0 .. n : Tally(Whole(f[i]), Y) = Tally(Whole(m), Y) + TallyTo(s, i, Y)}
  <2>1. Tally(Whole(m), Y) \in Nat
    BY <1>7, <1>9
  <2>2. 0 \in Good
    BY <1>3, <1>13, <2>1, TallyEnds
  <2>3. ASSUME NEW i \in 1 .. n, i - 1 \in Good
        PROVE  i \in Good
    <3>1. f[i] = Insert(f[i - 1], s[i]) /\ f[i - 1] \in D /\ i \in 0 .. n /\ i \in Nat \ {0}
      <4>1. i - 1 \in 0 .. n /\ i \in 0 .. n /\ i \in Nat \ {0}
        BY <1>3
      <4> QED
        BY <1>13, <1>14, <4>1
    <3>2. Tally(Whole(f[i]), Y) = Tally(Whole(f[i - 1]), Y) + IF s[i] \in Y THEN 1 ELSE 0
      BY <1>3, <1>6, <3>1
    <3>3. TallyTo(s, i, Y) = TallyTo(s, i - 1, Y) + IF s[i] \in Y THEN 1 ELSE 0
      BY <3>1, TallyStep
    <3>4. TallyTo(s, i - 1, Y) \in Nat
      <4>1. IsFiniteSet({j \in 1 .. i - 1 : s[j] \in Y})
        <5>1. IsFiniteSet(1 .. i - 1)
          BY <3>1, FS_Interval
        <5> QED
          BY <5>1, FS_Subset
      <4> QED
        BY <4>1, FS_CardinalityType DEF TallyTo
    <3>5. Tally(Whole(f[i]), Y) = Tally(Whole(m), Y) + TallyTo(s, i, Y)
      BY <2>1, <2>3, <3>2, <3>3, <3>4
    <3> QED
      BY <3>1, <3>5
  <2> HIDE DEF Good
  <2>4. \A i \in 0 .. n : i \in Good
    BY <1>3, <2>2, <2>3, UpTo
  <2>5. n \in Good
    BY <1>3, <2>4
  <2> QED
    BY <2>5, TallyEnds DEF Good, n
<1>16. n \in 0 .. n
  BY <1>3
<1> QED
  BY <1>2, <1>4, <1>14, <1>15, <1>16 DEF n

LEMMA FreshCatalogIs ==
  ASSUME HashTyped
  PROVE  /\ MapOk(FreshCatalog)
         /\ FreshCatalog.size = Len(Tables)
         /\ \A x \in Range(Tables) : Tally(Whole(FreshCatalog), {x}) = 1
<1> DEFINE m == FreshCatalog
           e == EmptyMap(Buckets)
<1>1. Tables \in Seq(Names)
  <2>1. Range(Tables) \subseteq Names
    BY DEF Names
  <2>2. Tables \in Seq(Range(Tables))
    BY CatalogAssumption
  <2> HIDE DEF Names
  <2> QED
    BY <2>1, <2>2
<1>2. MapOk(e) /\ e.size = 0 /\ Whole(e) = << >>
  BY FreshMapIs
<1>3. m = Registered(e, Tables)
  BY DEF FreshCatalog
<1> HIDE DEF m, e
<1>4. /\ MapOk(m) /\ m.size = e.size + Len(Tables)
      /\ \A Y : Tally(Whole(m), Y) = Tally(Whole(e), Y) + Tally(Tables, Y)
  BY <1>1, <1>2, <1>3, RegisteredIs
<1>5. Len(Tables) \in Nat
  BY <1>1
<1>6. ASSUME NEW x \in Range(Tables)
      PROVE  Tally(Whole(m), {x}) = 1
  <2>1. PICK i \in DOMAIN Tables : Tables[i] = x
    BY DEF Range
  <2>2. \A j \in DOMAIN Tables : Tables[j] = x => j = i
    BY <2>1, CatalogAssumption DEF IsInjective
  <2>3. {j \in DOMAIN Tables : Tables[j] \in {x}} = {i}
    BY <2>1, <2>2
  <2>4. Tally(Tables, {x}) = 1
    BY <2>3, FS_Singleton DEF Tally
  <2>5. Tally(<< >>, {x}) = 0
    BY TallyOfNothing
  <2> QED
    BY <1>2, <1>4, <2>4, <2>5
<1> QED
  BY <1>2, <1>4, <1>5, <1>6 DEF m

LEMMA Resized ==
  ASSUME NEW e \in Nat \ {0}, NEW y \in MapType(e), NEW n \in Nat
  PROVE  [y EXCEPT !.size = n] \in MapType(e) /\ [y EXCEPT !.size = n].size = n
BY DEF MapType

\* What a handler may find in the middle of insert is a map of at least the first
\* buckets that counts no more nodes than insert is to leave.
LEMMA MidInsertIs ==
  ASSUME HashTyped, NEW m, MapOk(m), NEW x \in Names, NEW k \in MidInsert(m, x)
  PROVE  /\ \E c \in Nat \ {0} : c >= Buckets /\ k \in MapType(c)
         /\ k.size \in Nat /\ k.size <= m.size + 1
<1> DEFINE c == m.capacity
           a == Added(m, x)
           d == c * 2
           s == Walk(a, c)
           rounds == Rehashing(a, d)
<1>1. /\ c \in Nat \ {0} /\ m \in MapType(c) /\ InBucket(m) /\ m.size = Len(Walk(m, c))
      /\ m.size \in Nat /\ c >= Buckets /\ Buckets \in Nat \ {0}
  BY CatalogAssumption DEF MapOk, Maps, Whole, MapType
<1>2. d \in Nat \ {0} /\ d >= Buckets
  BY <1>1
<1>3. /\ a \in MapType(c) /\ a.capacity = c /\ a.size = m.size + 1
      /\ \A Y : Tally(Walk(a, c), Y) = Tally(Walk(m, c), Y) + IF x \in Y THEN 1 ELSE 0
  <2> HIDE DEF a, c
  <2>1. /\ Added(m, x) \in MapType(c) /\ Added(m, x).size = m.size + 1
        /\ \A Y : Tally(Walk(Added(m, x), c), Y) = Tally(Walk(m, c), Y) + IF x \in Y THEN 1 ELSE 0
    BY <1>1, AddedIs
  <2> QED
    BY <2>1 DEF a, MapType
<1> HIDE DEF a, c, d
<1>5. s \in Seq(Names) /\ Len(s) = m.size + 1
  <2>1. c \in 0 .. c
    BY <1>1
  <2>2. Walk(m, c) \in Seq(Names) /\ Walk(a, c) \in Seq(Names)
    BY <1>1, <1>3, <2>1, WalkTyped
  <2>3. Tally(Walk(m, c), Names) = Len(Walk(m, c)) /\ Tally(Walk(a, c), Names) = Len(Walk(a, c))
    BY <2>2, TallyOfAll
  <2> QED
    BY <1>1, <1>3, <2>2, <2>3
<1>6. \A i \in 0 .. Len(s) : rounds[i] \in Maps(d) /\ rounds[i].size = i
  BY <1>1, <1>2, <1>3, RehashIs
<1>7. \/ k \in {[a EXCEPT !.size = m.size], a}
      \/ k = [rounds[0] EXCEPT !.size = a.size]
      \/ \E i \in 0 .. Len(s) : k = rounds[i]
      \/ \E i \in 1 .. Len(s) : k = [Added(rounds[i - 1], s[i]) EXCEPT !.size = rounds[i - 1].size]
  BY <1>3 DEF MidInsert, a, c, d
<1> HIDE DEF s, rounds
<1>8. CASE k \in {[a EXCEPT !.size = m.size], a}
  <2>1. [a EXCEPT !.size = m.size] \in MapType(c) /\ [a EXCEPT !.size = m.size].size = m.size
    BY <1>1, <1>3, Resized
  <2>2. k \in MapType(c) /\ (k.size = m.size \/ k.size = m.size + 1)
    <3>1. CASE k = a
      BY <1>3, <3>1
    <3>2. CASE k = [a EXCEPT !.size = m.size]
      BY <2>1, <3>2
    <3> QED
      BY <1>8, <3>1, <3>2
  <2> QED
    BY <1>1, <2>2
<1>9. CASE k = [rounds[0] EXCEPT !.size = a.size]
  <2>1. rounds[0] \in MapType(d) /\ a.size \in Nat
    BY <1>1, <1>3, <1>5, <1>6 DEF Maps
  <2>2. k \in MapType(d) /\ k.size = m.size + 1
    BY <1>2, <1>3, <1>5, <1>9, <2>1, Resized
  <2> QED
    BY <1>1, <1>2, <2>2
<1>10. CASE \E i \in 0 .. Len(s) : k = rounds[i]
  <2>1. PICK i \in 0 .. Len(s) : k = rounds[i]
    BY <1>10
  <2>2. k \in MapType(d) /\ k.size = i
    BY <1>6, <2>1 DEF Maps
  <2> QED
    BY <1>1, <1>2, <1>5, <2>2
<1>11. CASE \E i \in 1 .. Len(s) : k = [Added(rounds[i - 1], s[i]) EXCEPT !.size = rounds[i - 1].size]
  <2>1. PICK i \in 1 .. Len(s) : k = [Added(rounds[i - 1], s[i]) EXCEPT !.size = rounds[i - 1].size]
    BY <1>11
  <2>2. i - 1 \in 0 .. Len(s) /\ s[i] \in Names /\ i - 1 \in Nat /\ i - 1 <= m.size + 1
    BY <1>1, <1>5
  <2>3. rounds[i - 1] \in MapType(d) /\ InBucket(rounds[i - 1]) /\ rounds[i - 1].size = i - 1
    BY <1>6, <2>2 DEF Maps
  <2>4. Added(rounds[i - 1], s[i]) \in MapType(d)
    BY <1>2, <2>2, <2>3, AddedIs
  <2>5. k \in MapType(d) /\ k.size = i - 1
    BY <1>2, <2>1, <2>2, <2>3, <2>4, Resized
  <2> QED
    BY <1>2, <2>2, <2>5
<1> QED
  BY <1>7, <1>8, <1>9, <1>10, <1>11

(***************************************************************************)
(* The inductive invariant.  A file that says of few tables that it has    *)
(* them has them all: they came from a map of the first capacity, which    *)
(* saveToDisk walks to its end.  What a start reads from a file of more is *)
(* told apart from the tables of TPC-H only by a map that was rehashed.    *)
(***************************************************************************)
\* The map while loadFromDisk is at work and after it.
MapGrown ==
  /\ generation = saved + 1
  /\ map.size = Len(Tables) + read
  /\ \A x \in Range(Tables) : Tally(Whole(map), {x}) >= 1
  /\ ~ cutShort => tableCount = file.count
  /\ ~ cutShort /\ ~ early /\ file.count <= Load(Buckets) =>
       \A x \in Range(Tables) : Tally(Whole(map), {x}) = 1 + TallyTo(file.tables, read, {x})

FileGrown ==
  /\ file.count = Len(Tables) * saved
  /\ file.count <= Load(Buckets) =>
       /\ Len(file.tables) = file.count
       /\ \A x \in Range(Tables) : Tally(file.tables, {x}) = saved

CatalogInv ==
  /\ HashTyped
  /\ MapOk(map)
  /\ file.tables \in Seq(Names)
  /\ file.count \in Nat \union {Unknown}
  /\ tableCount \in Nat /\ read \in 0 .. tableCount
  /\ generation \in Nat /\ saved \in Nat
  /\ up => MapGrown
  /\ ~ cutShort => file.count \in Nat /\ file.count <= Len(Tables) * saved
  /\ ~ cutShort /\ ~ early => FileGrown

\* What is written of a map: all the names when it has no buckets but the first.
LEMMA WrittenIs ==
  ASSUME NEW m, MapOk(m)
  PROVE  /\ Walk(m, Buckets) \in Seq(Names)
         /\ m.size \in Nat /\ m.size = Len(Whole(m))
         /\ m.size <= Load(Buckets) => m.capacity = Buckets /\ Walk(m, Buckets) = Whole(m)
<1> DEFINE c == m.capacity
<1>1. /\ c \in Nat \ {0} /\ m \in MapType(c) /\ c >= Buckets /\ Buckets \in Nat \ {0}
      /\ c > Buckets => m.size > Load(Buckets)
      /\ m.size = Len(Whole(m))
  BY CatalogAssumption DEF MapOk, Maps
<1>2. m.size \in Nat
  BY <1>1 DEF MapType
<1>3. Whole(m) = Walk(m, c)
  BY DEF Whole
<1> HIDE DEF c
<1>4. Buckets \in 0 .. c
  BY <1>1
<1>5. Walk(m, Buckets) \in Seq(Names)
  BY <1>1, <1>4, WalkTyped
<1>6. ASSUME m.size <= Load(Buckets)
      PROVE  c = Buckets
  <2>1. Load(Buckets) \in Nat
    BY <1>1, LoadIs
  <2> QED
    BY <1>1, <1>2, <1>6, <2>1
<1> QED
  BY <1>1, <1>2, <1>3, <1>5, <1>6 DEF c

LEMMA CatalogStarts ==
  CatalogInit => CatalogInv
<1> SUFFICES ASSUME CatalogInit
             PROVE  CatalogInv
  OBVIOUS
<1>1. HashTyped
  BY CatalogAssumption DEF CatalogInit, HashTyped
<1>2. MapOk(map)
  BY FreshMapIs DEF CatalogInit
<1>3. file.count = 0 /\ file.tables = << >> /\ << >> \in Seq(Names)
  BY DEF CatalogInit
<1>4. FileGrown
  <2>1. saved = 0 /\ Len(Tables) \in Nat /\ Len(<< >>) = 0
    BY CatalogAssumption DEF CatalogInit
  <2>2. \A x : Tally(<< >>, {x}) = 0
    BY TallyOfNothing
  <2>3. file.count = Len(Tables) * saved
    BY <1>3, <2>1
  <2>4. Len(file.tables) = file.count
    BY <1>3, <2>1
  <2>5. \A x \in Range(Tables) : Tally(file.tables, {x}) = saved
    BY <1>3, <2>1, <2>2
  <2> QED
    BY <2>3, <2>4, <2>5 DEF FileGrown
<1>5. file.count <= Len(Tables) * saved
  BY <1>3, CatalogAssumption DEF CatalogInit
<1>6. /\ tableCount \in Nat /\ read \in 0 .. tableCount
      /\ generation \in Nat /\ saved \in Nat /\ ~ up
  BY DEF CatalogInit
<1> QED
  BY <1>1, <1>2, <1>3, <1>4, <1>5, <1>6 DEF CatalogInv

\* What is said of the next map with the hashes of now.
LEMMA NextMap ==
  ASSUME UNCHANGED hashOf, MapOk(map')
  PROVE  MapOk(map)'
BY DEF MapOk, Maps, MapType, InBucket, Whole, Walk, Load

\* Steps after which there is no process.
LEMMA NoProcessKeeps ==
  ASSUME NoProcess, UNCHANGED hashOf
  PROVE  /\ MapOk(map)' /\ generation' \in Nat /\ ~ up'
         /\ tableCount' \in Nat /\ read' \in 0 .. tableCount'
<1>1. map' = EmptyMap(Buckets) /\ generation' = 0 /\ up' = FALSE /\ tableCount' = 0 /\ read' = 0
  BY DEF NoProcess
<1>2. MapOk(map')
  BY <1>1, FreshMapIs
<1> QED
  BY <1>1, <1>2, NextMap

\* The next table is one of the names.
LEMMA TableIsNamed ==
  ASSUME CatalogInv, NEW i \in Nat \ {0}
  PROVE  TableAt(i) \in Names
  BY DEF CatalogInv, TableAt, Names

\* What saveToDisk finds is typed, and counts no more tables than there will be.
LEMMA SavableIs ==
  ASSUME CatalogInv, NEW m \in Savable
  PROVE  /\ Walk(m, Buckets) \in Seq(Names)
         /\ m.size \in Nat
         /\ m.size <= map.size + IF read < tableCount THEN 1 ELSE 0
         /\ ~ (read < tableCount) => m = map
<1>1. Buckets \in Nat \ {0} /\ HashTyped /\ MapOk(map) /\ read \in Nat /\ tableCount \in Nat
  BY CatalogAssumption DEF CatalogInv
<1>2. CASE m = map
  <2>1. /\ map.capacity \in Nat \ {0} /\ map \in MapType(map.capacity) /\ map.size \in Nat
        /\ Buckets \in 0 .. map.capacity
    BY <1>1 DEF MapOk, Maps, MapType
  <2> QED
    BY <1>2, <2>1, WalkTyped
<1>3. CASE read < tableCount /\ m \in MidInsert(map, TableAt(read + 1))
  <2>1. TableAt(read + 1) \in Names
    BY <1>1, TableIsNamed
  <2>2. /\ \E c \in Nat \ {0} : c >= Buckets /\ m \in MapType(c)
        /\ m.size \in Nat /\ m.size <= map.size + 1
    BY <1>1, <1>3, <2>1, MidInsertIs
  <2>3. PICK c \in Nat \ {0} : c >= Buckets /\ m \in MapType(c)
    BY <2>2
  <2>4. Buckets \in 0 .. c
    BY <1>1, <2>3
  <2> QED
    BY <1>3, <2>2, <2>3, <2>4, WalkTyped
<1> QED
  BY <1>1, <1>2, <1>3 DEF Savable

\* What the invariant says of the file after a save without a kill.
LEMMA SavedIsGrown ==
  ASSUME CatalogInv, up, NEW m \in Savable, file' = Written(m), saved' = generation
  PROVE  /\ file'.tables \in Seq(Names) /\ file'.count \in Nat
         /\ ~ cutShort => file'.count <= Len(Tables) * saved'
         /\ ~ cutShort /\ ~ early /\ ~ (read < tableCount) => FileGrown'
<1> DEFINE l == Len(Tables)
<1>1. /\ Walk(m, Buckets) \in Seq(Names) /\ m.size \in Nat
      /\ m.size <= map.size + IF read < tableCount THEN 1 ELSE 0
      /\ ~ (read < tableCount) => m = map
  BY SavableIs
<1>2. file'.count = m.size /\ file'.tables = Walk(m, Buckets)
  BY DEF Written, TableCount
<1>3. /\ l \in Nat /\ saved \in Nat /\ read \in 0 .. tableCount /\ tableCount \in Nat
      /\ saved' = saved + 1 /\ map.size = l + read
      /\ ~ cutShort => tableCount = file.count /\ file.count <= l * saved
  BY CatalogAssumption DEF CatalogInv, MapGrown
<1> HIDE DEF l
<1>4. l * (saved + 1) = l * saved + l /\ l * saved \in Nat
  BY <1>3
<1>5. ASSUME ~ cutShort
      PROVE  m.size <= l * (saved + 1)
  <2>1. CASE read < tableCount
    BY <1>1, <1>3, <1>4, <1>5, <2>1
  <2>2. CASE ~ (read < tableCount)
    BY <1>1, <1>3, <1>4, <1>5, <2>2
  <2> QED
    BY <2>1, <2>2
<1>6. ASSUME ~ cutShort, ~ early, ~ (read < tableCount)
      PROVE  FileGrown'
  <2>1. read = file.count /\ file.count = l * saved /\ m = map
    BY <1>1, <1>3, <1>6 DEF CatalogInv, FileGrown, l
  <2>2. file'.count = l * saved'
    BY <1>2, <1>3, <1>4, <2>1
  <2>3. ASSUME file'.count <= Load(Buckets)
        PROVE  /\ Len(file'.tables) = file'.count
               /\ \A x \in Range(Tables) : Tally(file'.tables, {x}) = saved'
    <3>1. /\ map.capacity = Buckets /\ Walk(map, Buckets) = Whole(map)
          /\ map.size = Len(Whole(map))
      BY <1>2, <2>1, <2>3, WrittenIs DEF CatalogInv
    <3>2. file.count <= Load(Buckets) /\ file.count \in Nat
      <4>1. Load(Buckets) \in Nat
        BY CatalogAssumption, LoadIs
      <4> QED
        BY <1>2, <1>3, <1>4, <2>1, <2>3, <4>1
    <3>3. /\ Len(file.tables) = file.count
          /\ \A x \in Range(Tables) : Tally(file.tables, {x}) = saved
          /\ \A x \in Range(Tables) : Tally(Whole(map), {x}) = 1 + TallyTo(file.tables, read, {x})
      BY <1>6, <3>2 DEF CatalogInv, FileGrown, MapGrown
    <3>4. \A x \in Range(Tables) : TallyTo(file.tables, read, {x}) = saved
      <4>1. file.tables \in Seq(Names) /\ read = Len(file.tables)
        BY <2>1, <3>3 DEF CatalogInv
      <4> QED
        BY <3>3, <4>1, TallyEnds
    <3>5. file'.tables = Whole(map) /\ file'.count = Len(Whole(map))
      BY <1>2, <2>1, <3>1
    <3>6. \A x \in Range(Tables) : Tally(Whole(map), {x}) = 1 + saved
      BY <3>3, <3>4
    <3>7. saved' = 1 + saved
      BY <1>3
    <3> QED
      BY <3>5, <3>6, <3>7
  <2> QED
    BY <2>2, <2>3 DEF FileGrown, Load, l
<1> QED
  BY <1>1, <1>2, <1>3, <1>5, <1>6 DEF l

\* What a start makes of a file.
LEMMA StartIsGrown ==
  ASSUME CatalogInv, StartUp
  PROVE  /\ MapOk(map') /\ MapGrown'
         /\ tableCount' \in Nat /\ read' \in 0 .. tableCount'
<1>1. /\ map' = FreshCatalog /\ tableCount' \in Counts /\ read' = 0
      /\ generation' = saved + 1
      /\ UNCHANGED << hashOf, file, saved, cutShort, early >>
  BY DEF StartUp
<1>2. tableCount' \in Nat /\ (~ cutShort => tableCount' = file.count)
  BY <1>1, CatalogAssumption DEF CatalogInv, Counts
<1>3. /\ MapOk(FreshCatalog) /\ FreshCatalog.size = Len(Tables)
      /\ \A x \in Range(Tables) : Tally(Whole(FreshCatalog), {x}) = 1
  BY FreshCatalogIs DEF CatalogInv
<1>4. \A x : TallyTo(file.tables, 0, {x}) = 0
  <2>1. file.tables \in Seq(Names)
    BY DEF CatalogInv
  <2> QED
    BY <2>1, TallyEnds
<1>5. Len(Tables) \in Nat
  BY CatalogAssumption
<1>6. ASSUME NEW x \in Range(Tables)
      PROVE  Tally(Whole(map'), {x}) >= 1 /\ Tally(Whole(map'), {x}) = 1 + TallyTo(file'.tables, read', {x})
  <2>1. Tally(Whole(map'), {x}) = 1
    BY <1>1, <1>3
  <2>2. TallyTo(file'.tables, read', {x}) = 0
    BY <1>1, <1>4
  <2> QED
    BY <2>1, <2>2
<1>7. map'.size = Len(Tables) + read' /\ generation' = saved' + 1
  BY <1>1, <1>3, <1>5
<1>8. ~ cutShort' => tableCount' = file'.count
  BY <1>1, <1>2
<1>9. MapGrown'
  BY <1>6, <1>7, <1>8 DEF MapGrown, Whole, Tally, TallyTo, Walk, Load
<1>10. read' \in 0 .. tableCount'
  BY <1>1, <1>2
<1> QED
  BY <1>1, <1>2, <1>3, <1>9, <1>10

\* What a table from the file adds.
LEMMA TableIsGrown ==
  ASSUME CatalogInv, LoadTable
  PROVE  /\ MapOk(map') /\ MapGrown'
         /\ tableCount' \in Nat /\ read' \in 0 .. tableCount'
<1> DEFINE x == TableAt(read + 1)
           m == map'
<1>1. /\ up /\ read < tableCount /\ map' = Insert(map, x) /\ read' = read + 1
      /\ UNCHANGED << hashOf, file, up, tableCount, generation, saved, cutShort, early >>
  BY DEF LoadTable
<1>2. read \in Nat /\ tableCount \in Nat /\ read + 1 \in Nat \ {0} /\ x \in Names
  <2>1. read \in Nat /\ tableCount \in Nat /\ read + 1 \in Nat \ {0}
    BY DEF CatalogInv
  <2> QED
    BY <2>1, TableIsNamed
<1>3. MapGrown /\ Len(Tables) \in Nat
  BY <1>1, CatalogAssumption DEF CatalogInv
<1> HIDE DEF x
<1>4. /\ MapOk(map') /\ map'.size = map.size + 1
      /\ \A Y : Tally(Whole(map'), Y) = Tally(Whole(map), Y) + IF x \in Y THEN 1 ELSE 0
  <2>1. HashTyped /\ MapOk(map)
    BY DEF CatalogInv
  <2> QED
    BY <1>1, <1>2, <2>1, InsertIs
<1>5. \A y : Tally(Whole(map), {y}) \in Nat
  <2>1. Whole(map) \in Seq(Names)
    <3>1. map.capacity \in Nat \ {0} /\ map \in MapType(map.capacity) /\ map.capacity \in 0 .. map.capacity
      BY DEF CatalogInv, MapOk, Maps
    <3> QED
      BY <3>1, WalkTyped DEF Whole
  <2> QED
    BY <2>1, TallyIs
<1>6. ASSUME NEW y \in Range(Tables)
      PROVE  Tally(Whole(map'), {y}) >= 1
  <2>1. Tally(Whole(map), {y}) >= 1 /\ Tally(Whole(map), {y}) \in Nat
    BY <1>3, <1>5 DEF MapGrown
  <2>2. Tally(Whole(map'), {y}) = Tally(Whole(map), {y}) + IF x \in {y} THEN 1 ELSE 0
    BY <1>4
  <2> QED
    BY <2>1, <2>2
<1>7. ASSUME ~ cutShort, ~ early, file.count <= Load(Buckets), NEW y \in Range(Tables)
      PROVE  Tally(Whole(map'), {y}) = 1 + TallyTo(file.tables, read + 1, {y})
  <2>1. Len(file.tables) = file.count /\ file.count = tableCount
    BY <1>3, <1>7 DEF CatalogInv, FileGrown, MapGrown
  <2>2. x = file.tables[read + 1]
    BY <1>1, <1>2, <2>1 DEF x, TableAt
  <2>3. read + 1 \in 1 .. Len(file.tables) /\ read + 1 - 1 = read
    BY <1>1, <1>2, <2>1
  <2>4. TallyTo(file.tables, read + 1, {y})
          = TallyTo(file.tables, read, {y}) + IF file.tables[read + 1] \in {y} THEN 1 ELSE 0
    BY <1>2, <2>3, TallyStep
  <2>5. Tally(Whole(map), {y}) = 1 + TallyTo(file.tables, read, {y})
    BY <1>3, <1>7 DEF MapGrown
  <2>6. TallyTo(file.tables, read, {y}) \in Nat
    <3>1. IsFiniteSet({j \in 1 .. read : file.tables[j] \in {y}})
      <4>1. IsFiniteSet(1 .. read)
        BY <1>2, FS_Interval
      <4> QED
        BY <4>1, FS_Subset
    <3> QED
      BY <3>1, FS_CardinalityType DEF TallyTo
  <2> QED
    BY <1>4, <2>2, <2>4, <2>5, <2>6
<1>8. map'.size = Len(Tables) + read' /\ generation' = saved' + 1
  BY <1>1, <1>2, <1>3, <1>4 DEF MapGrown
<1>9. ~ cutShort' => tableCount' = file'.count
  BY <1>1, <1>3 DEF MapGrown
<1>10. ~ cutShort' /\ ~ early' /\ file'.count <= Load(Buckets) =>
         \A y \in Range(Tables) : Tally(Whole(map'), {y}) = 1 + TallyTo(file'.tables, read', {y})
  BY <1>1, <1>7
<1>11. MapGrown'
  BY <1>6, <1>8, <1>9, <1>10 DEF MapGrown, Whole, Tally, TallyTo, Walk, Load
<1>12. tableCount' \in Nat /\ read' \in 0 .. tableCount'
  BY <1>1, <1>2
<1> QED
  BY <1>4, <1>11, <1>12

\* Steps that leave the file as it is.
LEMMA FileGrownKept ==
  ASSUME FileGrown, UNCHANGED << file, saved >>
  PROVE  FileGrown'
BY DEF FileGrown, Tally, Load

LEMMA MapGrownKept ==
  ASSUME MapGrown, UNCHANGED << map, file, tableCount, read, generation, saved, cutShort, early >>
  PROVE  MapGrown'
<1>1. generation' = saved' + 1 /\ map'.size = Len(Tables) + read'
  BY DEF MapGrown
<1>2. \A x \in Range(Tables) : Tally(Whole(map'), {x}) >= 1
  BY DEF MapGrown
<1>3. ~ cutShort' => tableCount' = file'.count
  BY DEF MapGrown
<1>4. ~ cutShort' /\ ~ early' /\ file'.count <= Load(Buckets) =>
        \A x \in Range(Tables) : Tally(Whole(map'), {x}) = 1 + TallyTo(file'.tables, read', {x})
  BY DEF MapGrown
<1> QED
  BY <1>1, <1>2, <1>3, <1>4 DEF MapGrown, Whole, Tally, TallyTo, Walk, Load

LEMMA CatalogSteps ==
  CatalogInv /\ [CatalogNext]_catalogVars => CatalogInv'
<1> SUFFICES ASSUME CatalogInv, [CatalogNext]_catalogVars
             PROVE  CatalogInv'
  OBVIOUS
<1>1. UNCHANGED hashOf
  BY DEF CatalogNext, catalogVars, StartUp, LoadTable, SaveAndExit, KillInSave, Kill
<1>2. HashTyped'
  BY <1>1 DEF CatalogInv, HashTyped, Names
<1>3. ASSUME UNCHANGED << file, saved, cutShort, early >>
      PROVE  /\ file'.tables \in Seq(Names) /\ file'.count \in Nat \union {Unknown}
             /\ saved' \in Nat
             /\ ~ cutShort' => file'.count \in Nat /\ file'.count <= Len(Tables) * saved'
             /\ ~ cutShort' /\ ~ early' => FileGrown'
  BY <1>3, FileGrownKept DEF CatalogInv
<1>4. CASE StartUp \/ LoadTable
  <2>1. /\ UNCHANGED << file, saved, cutShort, early >>
        /\ generation' \in Nat
    BY <1>4 DEF StartUp, LoadTable, CatalogInv
  <2>2. MapOk(map') /\ MapGrown' /\ tableCount' \in Nat /\ read' \in 0 .. tableCount'
    BY <1>4, StartIsGrown, TableIsGrown
  <2>3. MapOk(map)'
    BY <1>1, <2>2, NextMap
  <2> QED
    BY <1>2, <1>3, <2>1, <2>2, <2>3 DEF CatalogInv
<1>5. CASE SaveAndExit
  <2>1. PICK m \in Savable : file' = Written(m)
    BY <1>5 DEF SaveAndExit
  <2>2. /\ saved' = generation /\ saved' \in Nat /\ UNCHANGED cutShort /\ up
        /\ early' = (early \/ read < tableCount) /\ NoProcess
    BY <1>5 DEF SaveAndExit, Saving, CatalogInv
  <2>3. /\ MapOk(map)' /\ generation' \in Nat /\ ~ up'
        /\ tableCount' \in Nat /\ read' \in 0 .. tableCount'
    BY <1>1, <2>2, NoProcessKeeps
  <2>4. /\ file'.tables \in Seq(Names) /\ file'.count \in Nat
        /\ ~ cutShort' => file'.count <= Len(Tables) * saved'
        /\ ~ cutShort' /\ ~ early' => FileGrown'
    BY <2>1, <2>2, SavedIsGrown
  <2> QED
    BY <1>2, <2>2, <2>3, <2>4 DEF CatalogInv
<1>6. CASE KillInSave
  <2>1. saved' = generation /\ saved' \in Nat /\ cutShort' /\ NoProcess
    BY <1>6 DEF KillInSave, CatalogInv
  <2>2. /\ MapOk(map)' /\ generation' \in Nat /\ ~ up'
        /\ tableCount' \in Nat /\ read' \in 0 .. tableCount'
    BY <1>1, <2>1, NoProcessKeeps
  <2>3. file'.tables \in Seq(Names) /\ file'.count \in Nat \union {Unknown}
    <3>1. CASE file' = [count |-> Unknown, tables |-> << >>]
      BY <3>1
    <3>2. ASSUME NEW m \in Savable, NEW n \in 0 .. Len(Written(m).tables),
                 file' = [Written(m) EXCEPT !.tables = SubSeq(@, 1, n)]
          PROVE  file'.tables \in Seq(Names) /\ file'.count \in Nat
      <4> DEFINE s == Walk(m, Buckets)
      <4>1. s \in Seq(Names) /\ m.size \in Nat
        BY SavableIs
      <4>2. file'.count = m.size /\ file'.tables = SubSeq(s, 1, n) /\ n \in 0 .. Len(s)
        BY <3>2 DEF Written, TableCount
      <4> HIDE DEF s
      <4>3. SubSeq(s, 1, n) \in Seq(Names)
        <5>1. \A i \in 1 .. n : i \in 1 .. Len(s)
          BY <4>1, <4>2
        <5> QED
          BY <4>1, <4>2, <5>1, SubSeqProperties
      <4> QED
        BY <4>1, <4>2, <4>3
    <3> QED
      BY <1>6, <3>1, <3>2 DEF KillInSave
  <2> QED
    BY <1>2, <2>1, <2>2, <2>3 DEF CatalogInv
<1>7. CASE Kill
  <2>1. NoProcess /\ UNCHANGED << file, saved, cutShort, early >>
    BY <1>7 DEF Kill
  <2>2. /\ MapOk(map)' /\ generation' \in Nat /\ ~ up'
        /\ tableCount' \in Nat /\ read' \in 0 .. tableCount'
    BY <1>1, <2>1, NoProcessKeeps
  <2> QED
    BY <1>2, <1>3, <2>1, <2>2 DEF CatalogInv
<1>8. CASE UNCHANGED catalogVars
  <2>1. UNCHANGED << hashOf, map, up, tableCount, read, generation, file, saved, cutShort, early >>
    BY <1>8 DEF catalogVars, loading
  <2>2. MapOk(map)'
    <3>1. MapOk(map')
      BY <2>1 DEF CatalogInv
    <3> QED
      BY <1>1, <3>1, NextMap
  <2>3. up' => MapGrown'
    BY <2>1, MapGrownKept DEF CatalogInv
  <2>4. tableCount' \in Nat /\ read' \in 0 .. tableCount' /\ generation' \in Nat
    BY <2>1 DEF CatalogInv
  <2> QED
    BY <1>2, <1>3, <2>1, <2>2, <2>3, <2>4 DEF CatalogInv
<1> QED
  BY <1>4, <1>5, <1>6, <1>7, <1>8 DEF CatalogNext

\* Every state of the catalog satisfies the invariant.
THEOREM CatalogInvariant ==
  CatalogSpec => []CatalogInv
<1> QED
  BY CatalogStarts, CatalogSteps, PTL DEF CatalogSpec

\* HashMap: size_ counts the nodes, and insert and rehash leave each of them in the
\* chain that get searches for its key, below the load at which a rehash is due;
\* for every hash function, number of buckets and set of tables, and whatever
\* saveToDisk and the kills made of the file that loadFromDisk registered.
THEOREM MapIsTyped ==
  CatalogSpec => []TypeOK
<1>1. CatalogInv => TypeOK
  BY DEF CatalogInv, TypeOK, InOwnBucket, MapOk, Maps, MapType, InBucket, Whole, Load
<1> QED
  BY <1>1, CatalogInvariant, PTL

\* initializeTPCHTables registers its tables again at every start, and loadFromDisk
\* adds those of the file: none of TPC-H's is ever missing, and as long as no kill cut
\* saveToDisk short there are never more tables than starts have registered; exactly
\* as many, and the same number of copies of each until the first rehash, when no
\* SIGINT has saved a catalog before it was loaded.
THEOREM CatalogGrows ==
  CatalogSpec => []GrowsByStarts
<1>1. ASSUME CatalogInv, up
      PROVE  /\ \A x \in Range(Tables) : Copies(map, x) >= 1
             /\ ~ cutShort => map.size <= Len(Tables) * generation
             /\ ~ cutShort /\ ~ early /\ read = tableCount =>
                  /\ map.size = Len(Tables) * generation
                  /\ map.capacity = Buckets => \A x \in Range(Tables) : Copies(map, x) = generation
  <2> DEFINE l == Len(Tables)
  <2>1. /\ l \in Nat /\ saved \in Nat /\ read \in 0 .. tableCount /\ tableCount \in Nat
        /\ generation = saved + 1 /\ map.size = l + read
        /\ ~ cutShort => tableCount = file.count /\ file.count <= l * saved
        /\ MapGrown
    BY <1>1, CatalogAssumption DEF CatalogInv, MapGrown
  <2>2. \A x \in Range(Tables) : Copies(map, x) >= 1
    BY <2>1 DEF MapGrown, Copies, Whole
  <2> HIDE DEF l
  <2>3. l * generation = l * saved + l /\ l * saved \in Nat
    BY <2>1
  <2>4. ~ cutShort => map.size <= l * generation
    BY <2>1, <2>3
  <2>5. ASSUME ~ cutShort, ~ early, read = tableCount
        PROVE  /\ map.size = l * generation
               /\ map.capacity = Buckets => \A x \in Range(Tables) : Copies(map, x) = generation
    <3>1. FileGrown
      BY <1>1, <2>5 DEF CatalogInv
    <3>2. read = file.count /\ file.count = l * saved
      BY <2>1, <2>5, <3>1 DEF FileGrown, l
    <3>3. ASSUME map.capacity = Buckets, NEW x \in Range(Tables)
          PROVE  Copies(map, x) = generation
      <4>1. map.size <= Load(Buckets) /\ Load(Buckets) \in Nat
        BY <1>1, <3>3, CatalogAssumption, LoadIs DEF CatalogInv, MapOk
      <4>2. file.count <= Load(Buckets)
        BY <2>1, <2>3, <3>2, <4>1
      <4>3. /\ Len(file.tables) = file.count /\ Tally(file.tables, {x}) = saved
            /\ Tally(Whole(map), {x}) = 1 + TallyTo(file.tables, read, {x})
        BY <2>1, <2>5, <3>1, <3>3, <4>2 DEF FileGrown, MapGrown
      <4>4. TallyTo(file.tables, read, {x}) = saved
        <5>1. file.tables \in Seq(Names) /\ read = Len(file.tables)
          BY <1>1, <3>2, <4>3 DEF CatalogInv
        <5> QED
          BY <4>3, <5>1, TallyEnds
      <4> QED
        BY <2>1, <4>3, <4>4 DEF Copies, Whole
    <3> QED
      BY <2>1, <2>3, <3>2, <3>3
  <2> QED
    BY <2>2, <2>4, <2>5 DEF l
<1>2. CatalogInv => GrowsByStarts
  BY <1>1 DEF GrowsByStarts
<1> QED
  BY <1>2, CatalogInvariant, PTL
=============================================================================
