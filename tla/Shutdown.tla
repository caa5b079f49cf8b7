------------------------------ MODULE Shutdown ------------------------------
(***************************************************************************)
(* The life of the process (src/main.cpp) from the first singleton to the  *)
(* last destructor, the Logger every part of it writes to                  *)
(* (src/common/Logger.cpp), and the SIGINT handler, which flushes, saves   *)
(* and exits in the middle of all that.                                    *)
(*                                                                         *)
(* The handler runs on top of the interrupted main and never returns to it *)
(* (POSIX, where the lock is a default mutex), or in a thread of its own   *)
(* (Windows, where it is a CRITICAL_SECTION, which its owner may enter     *)
(* again).  What pages and catalog contain is left to Pager and Catalog:   *)
(* here a flush is the lines it logs, the catalog is what of the stored    *)
(* tables it holds.                                                        *)
(***************************************************************************)
EXTENDS Integers

CONSTANTS
  WorkLines,   \* the log lines of main between the pager and the cleanup
  FlushLines   \* the log lines of one flushAll (pages not cached, pages written)

ASSUME LineAssumption == WorkLines \in Nat /\ FlushLines \in Nat \ {0}

VARIABLES
  windows,      \* _WIN32, the platform the program was built for
  crowded,      \* the stored tables rehash the map when they are loaded, and some
                \* come to lie behind the 256 buckets it started with
  at,           \* what main and the handler are doing
  lines,        \* how many log lines each of them has still to write there
  call,         \* the Logger call each of them is in
  loggers,      \* the two Logger objects the process can come to create
  instance,     \* Logger::instance_, 0 for null
  catalog,      \* the SystemCatalog object
  gLogger, gCatalog, gPager,  \* whether the pointer is set
  catalogFile,  \* data/catalog.bin
  signalled,    \* SIGINT has come
  cutIntoLog,   \* history: it came while main was inside the lock of a logger
  loadedFirst,  \* history: it did not come before loadFromDisk was done
  status        \* "running", "exited", or "undefined": what happens next is anything

Threads == {"main", "handler"}
pointers == << gLogger, gCatalog, gPager >>
logging == << lines, call, loggers, instance >>
signal == << windows, crowded, signalled, cutIntoLog, loadedFirst >>
vars == << at, logging, catalog, pointers, catalogFile, signal, status >>

NoCall == [doing |-> "nothing", on |-> 0, inside |-> FALSE]
NoLogger == [state |-> "none", owner |-> "nobody", fileOpen |-> FALSE]
NewLogger == [state |-> "live", owner |-> "nobody", fileOpen |-> FALSE]

Init ==
  /\ windows \in BOOLEAN /\ crowded \in BOOLEAN
  /\ at = [main |-> "start", handler |-> "idle"]
  /\ lines = [t \in Threads |-> 0]
  /\ call = [t \in Threads |-> NoCall]
  /\ loggers = [i \in 1 .. 2 |-> NoLogger]
  /\ instance = 0
  /\ catalog = "none"
  /\ gLogger = FALSE /\ gCatalog = FALSE /\ gPager = FALSE
  /\ catalogFile = "stored"
  /\ signalled = FALSE /\ cutIntoLog = FALSE /\ loadedFirst = FALSE
  /\ status = "running"

\* Mutation: the handler on top of main on every platform.
Runs_OnTop(t) ==
  /\ status = "running"
  /\ t = "handler" => signalled
  /\ t = "main" => ~ signalled

\* Whose turn it may be: a POSIX main waits for the handler on top of it.
Runs(t) ==
  /\ status = "running"
  /\ t = "handler" => signalled
  /\ t = "main" => windows \/ ~ signalled

\* t is between two statements of its own, not inside the logger.
Free(t) == Runs(t) /\ call[t] = NoCall

GoTo(t, place, n) ==
  /\ at' = [at EXCEPT ![t] = place]
  /\ lines' = [lines EXCEPT ![t] = n]

(***************************************************************************)
(* The logger.  Every public operation is lock(); something; unlock().     *)
(***************************************************************************)
\* A call on logger i; on a freed one the program has no meaning any more.
Enter(t, doing, i) ==
  IF loggers[i].state = "freed"
  THEN status' = "undefined" /\ UNCHANGED call
  ELSE call' = [call EXCEPT ![t] = [doing |-> doing, on |-> i, inside |-> FALSE]]
       /\ UNCHANGED status

\* getInstance: the logger there is, or a new one, whose file is not open.
Instance == IF instance # 0 THEN instance
            ELSE IF loggers[1].state = "none" THEN 1 ELSE 2

GetInstance ==
  /\ instance' = Instance
  /\ loggers' = IF instance # 0 THEN loggers
                ELSE [loggers EXCEPT ![Instance] = NewLogger]

HasLines(t) == lines[t] > 0

\* Logger::getInstance()->logLog(...), one of the lines t has still to write.
LogLine(t) ==
  /\ Free(t)
  /\ HasLines(t)
  /\ lines' = [lines EXCEPT ![t] = @ - 1]
  /\ GetInstance
  /\ Enter(t, "line", Instance)
  /\ UNCHANGED << at, catalog, pointers, catalogFile, signal >>

\* lock(): main and the handler exclude each other, also where both are the one
\* thread of the process; only a CRITICAL_SECTION lets its owner in again.
Lock(t) ==
  /\ Runs(t)
  /\ call[t] # NoCall /\ ~ call[t].inside
  /\ IF loggers[call[t].on].state = "freed"
     THEN status' = "undefined" /\ UNCHANGED << call, loggers >>
     ELSE /\ loggers[call[t].on].owner \in {"nobody"} \union (IF windows THEN {t} ELSE {})
          /\ call' = [call EXCEPT ![t].inside = TRUE]
          /\ loggers' = [loggers EXCEPT ![call[t].on].owner = t]
          /\ UNCHANGED status
  /\ UNCHANGED << at, lines, instance, catalog, pointers, catalogFile, signal >>

\* Mutation: an early return between lock and unlock.
Released_Never(t) == t

Released(t) == "nobody"

\* Mutation: initialize does not open the file for appending.
FileAfter_NotOpened(doing, was) == doing = "line" /\ was

\* logFile_ # nullptr after initialize, log or shutdown.
FileAfter(doing, was) == doing = "open" \/ (doing = "line" /\ was)

InstanceAfter(doing) == IF doing = "delete" THEN 0 ELSE instance

\* What is done under the lock, and unlock(); ~Logger then frees the object,
\* whoever waits for its lock, and destroy nulls instance_.
Unlock(t) ==
  /\ Runs(t)
  /\ call[t].inside
  /\ LET i == call[t].on
         doing == call[t].doing
     IN  /\ loggers' = [loggers EXCEPT
                          ![i] = [state    |-> IF doing = "delete" THEN "freed" ELSE "live",
                                  owner    |-> Released(t),
                                  fileOpen |-> FileAfter(doing, @.fileOpen)]]
         /\ instance' = InstanceAfter(doing)
  /\ call' = [call EXCEPT ![t] = NoCall]
  /\ UNCHANGED << at, lines, catalog, pointers, catalogFile, signal, status >>

(***************************************************************************)
(* main.  A statement is reached when the lines before it are written.     *)
(***************************************************************************)
Reaches(t, place) == Free(t) /\ at[t] = place /\ lines[t] = 0

Start ==
  /\ Reaches("main", "start")
  /\ GetInstance
  /\ Enter("main", "open", Instance)
  /\ GoTo("main", "setLogger", 0)
  /\ UNCHANGED << catalog, pointers, catalogFile, signal >>

SetLogger ==
  /\ Reaches("main", "setLogger")
  /\ gLogger' = TRUE
  /\ GoTo("main", "catalog", 1)
  /\ UNCHANGED << call, loggers, instance, catalog, gCatalog, gPager, catalogFile, signal, status >>

\* The constructor registers the tables of TPC-H, and those only.
NewCatalog ==
  /\ Reaches("main", "catalog")
  /\ catalog' = "fresh"
  /\ gCatalog' = TRUE
  /\ GoTo("main", "load", 0)
  /\ UNCHANGED << call, loggers, instance, gLogger, gPager, catalogFile, signal, status >>

\* loadFromDisk up to some of the tables; of a file the handler has just truncated
\* it reads no tableCount, and goes by whatever is in that variable.
BeginLoad ==
  /\ Reaches("main", "load")
  /\ catalog' = IF catalogFile = "stored" THEN "partial" ELSE catalog
  /\ status' = IF catalogFile = "truncated" THEN "undefined" ELSE status
  /\ GoTo("main", "loading", 0)
  /\ UNCHANGED << call, loggers, instance, pointers, catalogFile, signal >>

\* Mutation: the first tables are all that loadFromDisk finds.
Loaded_First == catalog

Loaded == IF catalogFile = "stored" THEN "stored" ELSE catalog

\* The rest of loadFromDisk, from a file that nobody has written to meanwhile.
EndLoad ==
  /\ Reaches("main", "loading")
  /\ catalog' = Loaded
  /\ status' = IF catalogFile \in {"truncated", "partial"} THEN "undefined" ELSE status
  /\ GoTo("main", "pager", 1)
  /\ UNCHANGED << call, loggers, instance, pointers, catalogFile, signal >>

NewPager ==
  /\ Reaches("main", "pager")
  /\ gPager' = TRUE
  /\ GoTo("main", "work", WorkLines)
  /\ UNCHANGED << call, loggers, instance, catalog, gLogger, gCatalog, catalogFile, signal, status >>

\* The queries are done: flushAll.
CleanUp ==
  /\ Reaches("main", "work")
  /\ GoTo("main", "flush", FlushLines)
  /\ UNCHANGED << call, loggers, instance, catalog, pointers, catalogFile, signal, status >>

Flushed(t) ==
  /\ Reaches(t, "flush")
  /\ GoTo(t, "save", 0)
  /\ UNCHANGED << call, loggers, instance, catalog, pointers, catalogFile, signal, status >>

\* Mutation: the handler does not look at g_catalog.
Saves_Always(t) == TRUE

\* main saves the catalog, the handler if g_catalog is not null.
Saves(t) == t = "handler" => gCatalog

\* saveToDisk: fopen truncates the file, the tables follow.
OpenCatalog(t) ==
  /\ Reaches(t, "save")
  /\ IF ~ Saves(t)
     THEN GoTo(t, "closeLog", 0) /\ UNCHANGED << catalogFile, status >>
     ELSE IF catalog \in {"none", "freed"}
     THEN status' = "undefined" /\ UNCHANGED << at, lines, catalogFile >>
     ELSE /\ catalogFile' = "truncated"
          /\ GoTo(t, "saving", 0)
          /\ UNCHANGED status
  /\ UNCHANGED << call, loggers, instance, catalog, pointers, signal >>

\* What saveToDisk writes: the tables in the first 256 buckets, under the number of
\* all there are.
Stored == IF catalog = "stored" /\ crowded THEN "partial" ELSE catalog

WriteCatalog(t) ==
  /\ Reaches(t, "saving")
  /\ IF catalog = "freed"
     THEN status' = "undefined" /\ UNCHANGED << at, lines, catalogFile >>
     ELSE /\ catalogFile' = Stored
          /\ GoTo(t, "closeLog", 0)
          /\ UNCHANGED status
  /\ UNCHANGED << call, loggers, instance, catalog, pointers, signal >>

\* logger->shutdown() on the first logger, by main or through g_logger.
CloseLog(t) ==
  /\ Reaches(t, "closeLog")
  /\ GoTo(t, IF t = "main" THEN "destroyCatalog" ELSE "exit", 0)
  /\ IF t = "main" \/ gLogger
     THEN Enter(t, "close", 1)
     ELSE UNCHANGED << call, status >>
  /\ UNCHANGED << loggers, instance, catalog, pointers, catalogFile, signal >>

\* ~SystemCatalog frees the nodes and the buckets of the map and then deletes the
\* map, whose destructor goes through them again: an allocator may let it.
DestroyCatalog ==
  /\ Reaches("main", "destroyCatalog")
  /\ catalog' = "freed"
  /\ status' \in {"running", "undefined"}
  /\ GoTo("main", "destroyLogger", 0)
  /\ UNCHANGED << call, loggers, instance, pointers, catalogFile, signal >>

\* Logger::destroy; a logger another thread has destroyed does not exist here.
DestroyLogger ==
  /\ Reaches("main", "destroyLogger")
  /\ Enter("main", "delete", instance)
  /\ GoTo("main", "closePager", FlushLines)
  /\ UNCHANGED << loggers, instance, catalog, pointers, catalogFile, signal >>

\* ~Pager has flushed and logged once more, to whatever logger getInstance gave it.
Return ==
  /\ Reaches("main", "closePager")
  /\ status' = "exited"
  /\ GoTo("main", "ended", 0)
  /\ UNCHANGED << call, loggers, instance, catalog, pointers, catalogFile, signal >>

(***************************************************************************)
(* signalHandler.                                                          *)
(***************************************************************************)
Sigint ==
  /\ status = "running"
  /\ ~ signalled
  /\ signalled' = TRUE
  /\ cutIntoLog' = call["main"].inside
  /\ loadedFirst' = (at["main"] \notin {"start", "setLogger", "catalog", "load", "loading"})
  /\ GoTo("handler", IF gPager THEN "flush" ELSE "save", IF gPager THEN FlushLines ELSE 0)
  /\ UNCHANGED << windows, crowded, call, loggers, instance, catalog, pointers, catalogFile, status >>

Exit ==
  /\ Reaches("handler", "exit")
  /\ status' = "exited"
  /\ UNCHANGED << at, logging, catalog, pointers, catalogFile, signal >>

Main ==
  \/ Start
  \/ SetLogger
  \/ NewCatalog
  \/ BeginLoad
  \/ EndLoad
  \/ NewPager
  \/ CleanUp
  \/ DestroyCatalog
  \/ DestroyLogger
  \/ Return

Shared(t) ==
  \/ LogLine(t)
  \/ Lock(t)
  \/ Unlock(t)
  \/ Flushed(t)
  \/ OpenCatalog(t)
  \/ WriteCatalog(t)
  \/ CloseLog(t)

Next ==
  \/ Main
  \/ Sigint
  \/ Exit
  \/ \E t \in Threads : Shared(t)

\* main and the handler go on when they can; SIGINT may never come.
Spec ==
  /\ Init
  /\ [][Next]_vars
  /\ WF_vars(Main \/ Shared("main"))
  /\ WF_vars(Exit \/ Shared("handler"))

(***************************************************************************)
(* Properties.                                                             *)
(***************************************************************************)
\* The pointers the handler looks at are set late enough and the objects freed
\* late enough that a handler on top of main meets no freed object before
\* SystemCatalog::destroy, when pages and catalog are saved.  A main that runs
\* alone has no other fault than the second walk through the catalog's buckets:
\* the flush and the logger of ~Pager after it find live objects.
FreedOnlyAtTheEnd ==
  status = "undefined" => /\ ~ windows => catalog = "freed"
                          /\ ~ signalled => at["main"] = "destroyLogger"

\* A line is written to an open log file, unless main or the handler has already
\* called shutdown: none is lost while the engine works.
LinesReachTheFile ==
  status = "running" => \A t \in Threads :
    (call[t].doing = "line" /\ call[t].inside /\ ~ loggers[call[t].on].fileOpen)
      => \/ at["main"] \in {"destroyCatalog", "destroyLogger", "closePager"}
         \/ at["handler"] = "exit"

\* What the catalog file held before an exit leaves in it, whatever of main the
\* signal cut short and even in the middle of saving, except for a signal that came
\* before all of it was loaded.  But once the map has been rehashed every exit, the
\* ordinary one as well, leaves a part.  A handler in a thread of its own cannot
\* promise either: it may exit while main has just truncated the file.
CatalogKept ==
  status = "exited" /\ ~ windows => \/ catalogFile = IF crowded THEN "partial" ELSE "stored"
                                    \/ signalled /\ ~ loadedFirst

\* Without a signal main comes to its end, or at least to ~SystemCatalog: no log
\* call blocks it.
MainEnds == [](~ signalled) => <>(status # "running")

\* The handler comes to its end if it has a thread of its own, or the signal did
\* not come inside a log call: main and the handler never wait for each other.
SigintEndsOutsideLog ==
  (signalled /\ (windows \/ ~ cutIntoLog)) ~> (status # "running")

\* main.cpp:35 announces it: after SIGINT the process shuts down.
SigintEnds == signalled ~> (status # "running")
=============================================================================
