------------------------------- MODULE ToolRun -------------------------------
(***************************************************************************)
(* The life of the event file, from the traced run to the queries: the     *)
(* dumper (module PinEventDumper) records the events and hands over their  *)
(* number; dumpEvents, in the thread that called finalize, reads the file  *)
(* back, gives each access its variable and writes it back (EventManager,  *)
(* with tool.cpp's Fini around it); the tool exits; the query program      *)
(* reads the file again, pass after pass.                                  *)
(*                                                                         *)
(* The two components share the file.  The saver closes its stream after   *)
(* it has set saved, so it may still append the last events while they     *)
(* are read back, or never, when the tool exits first.                     *)
(***************************************************************************)
EXTENDS Integers, Sequences, SequencesExt, FiniteSetsExt

CONSTANTS Logs,             \* the runs considered: sequences of
                            \* [type, threadId, func, frameBase]
          Thread, NoFunc, EVENT_CHUNK_SIZE, MaxPasses,        \* EventManager
          EventBlockSize, StreamBuf, IntLimit, NotHandedOver  \* PinEventDumper

VARIABLES log, file,
          pEventsMain, pEventsSave, saved, filled, finished, eventsWritten, cpc, spc,
          stream, recorded, handed,                           \* PinEventDumper
          preloadEvents, iterIndex, callStackGlobal, totalThreads, failed, pc, mode,
          passes, returned, shortRead                         \* EventManager

writerVars == <<pEventsMain, pEventsSave, saved, filled, finished, eventsWritten, cpc, spc,
                stream, recorded, handed>>
readerVars == <<preloadEvents, iterIndex, callStackGlobal, totalThreads, failed, pc, mode,
                passes, returned, shortRead>>
vars == <<log, file, writerVars, readerVars>>

Reader == INSTANCE EventManager WITH totalEvents <- handed

\* A StoredEvent; the dumper is given those without a variable.
StoredEvent == [n : Nat, hasVar : BOOLEAN]

Dumper == INSTANCE PinEventDumper WITH Event <- StoredEvent, totalEvents <- eventsWritten

ASSUME ComponentAssumptions == Reader!ReaderAssumption
\* What PinEventDumper assumes of its constants; a query makes a pass.
ASSUME BlockAssumption == EventBlockSize \in Nat /\ StreamBuf \in Nat \ {0}
ASSUME IntAssumption == IntLimit \in Nat /\ EventBlockSize + 1 < IntLimit
ASSUME NoneAssumption == NotHandedOver \notin Int
ASSUME PassesAssumption == MaxPasses \in Nat \ {0}
\* A log is empty or begins with main's Call (PinHandler, LogIsTheRunOfMain);
\* dump() would skip a log of one access.  An int can count its events.
ASSUME LogsAssumption ==
    \A l \in Logs :
        /\ l \in Seq(Range(l)) /\ Len(l) < IntLimit
        /\ \A i \in 1 .. Len(l) : l[i].threadId \in Thread /\ l[i].frameBase \in Int
        /\ l # <<>> => l[1].type = "Call"

CallOf(event) == [func |-> event.func, frameBase |-> event.frameBase]

\* The calls of thread t among the first n events of a log that have not returned.
OpenCalls(l, t, n) ==
    {CallOf(l[i]) :
        i \in {j \in 1 .. n :
                 /\ l[j].type = "Call" /\ l[j].threadId = t /\ l[j].func # NoFunc
                 /\ \A k \in j + 1 .. n :
                      ~(l[k].type = "Ret" /\ l[k].threadId = t /\ CallOf(l[k]) = CallOf(l[j]))}}

\* The frames of a thread lie one above the other and return in the reverse order;
\* those that leave without a Ret are the subject of module ExecContext.
ASSUME NestedAssumption ==
    \A l \in Logs : \A n \in 1 .. Len(l) :
        LET open == OpenCalls(l, l[n].threadId, n - 1)
        IN l[n].func # NoFunc =>
             /\ l[n].type = "Call" => \A c \in open : c.frameBase > l[n].frameBase
             /\ l[n].type = "Ret" => /\ CallOf(l[n]) \in open
                                     /\ \A c \in open \ {CallOf(l[n])} :
                                          c.frameBase > l[n].frameBase

Init == /\ log \in Logs
        /\ Dumper!Init
        /\ Reader!Init
-----------------------------------------------------------------------------
\* An assertion of the post-processing ends the tool, the saver with it.
ToolAborted == failed /\ mode = "post"

\* The next event of the run is recorded; after the last one comes finalize.
Record == /\ Len(recorded) < Len(log)
          /\ Dumper!AddEvent(Reader!Stored(Len(recorded) + 1))

Finalize == /\ Len(recorded) = Len(log)
            /\ Dumper!Finalize

HandOver == Dumper!HandBlockOver \/ Dumper!FinalizeSteps

\* Fini goes on when dumpEvents has returned.
Exit == /\ mode = "saved"
        /\ Dumper!Destroy \/ Dumper!ProcessExit

Save == /\ ~ToolAborted
        /\ Dumper!Saver

Write == /\ Record \/ Finalize \/ HandOver \/ Exit \/ Save
         /\ UNCHANGED <<log, readerVars>>

\* dumpEvents begins with the EventManager that finalize returns.
PostProcess == /\ handed # NotHandedOver
               /\ Reader!Iterate \/ Reader!PostProcessed
               /\ mode = "post"

\* src/run.sh:29-32 starts the query program when the tool has ended.
Query == /\ cpc = "exited"
         /\ Reader!QueryLoads \/ Reader!NextPass \/ (mode = "query" /\ Reader!Iterate)

Read == /\ PostProcess \/ Query
        /\ UNCHANGED <<log, writerVars>>

Next == Write \/ Read

Spec == Init /\ [][Next]_vars

(* The thread that runs Fini goes on, and the query program is started and *)
(* makes its passes.  Nothing is assumed of the saver, for which nobody    *)
(* waits any more, and nothing makes the traced program go on to its end.  *)
Fairness == /\ WF_vars(Read)
            /\ WF_vars(Exit /\ UNCHANGED <<log, readerVars>>)

FairSpec == Spec /\ Fairness
-----------------------------------------------------------------------------
TypeOK == /\ \A n \in DOMAIN log : log[n].threadId \in Thread
          /\ file \in Seq(StoredEvent) /\ stream \in Seq(StoredEvent)
          /\ preloadEvents \in [0 .. EVENT_CHUNK_SIZE - 1 -> StoredEvent]
          /\ iterIndex \in 0 .. Len(log)
          /\ DOMAIN callStackGlobal = Thread
          /\ totalThreads \in Nat
          /\ pc \in {"top", "load", "event"}
          /\ mode \in {"post", "saved", "query"} /\ passes \in 0 .. MaxPasses
          /\ returned \in StoredEvent
          /\ failed \in BOOLEAN /\ shortRead \in BOOLEAN
          /\ handed \in {NotHandedOver, Len(log)}

Annotated(i) == [n |-> i, hasVar |-> Reader!IsAccess(log[i])]

\* When the post-processing is over every access on file has its variable, and
\* the events are those of the run in their order: the writes of dump() that
\* overlap the reads, and the saver's own last write, lose nothing.  After a read
\* that came before that last write this holds for all events but the last
\* StreamBuf - 1, the most that the saver's stream can have held back.
FileIsAnnotatedLog ==
    mode # "post" =>
        /\ \A i \in 1 .. Len(log) - (StreamBuf - 1) : i <= Len(file) /\ file[i] = Annotated(i)
        /\ ~shortRead => file = [i \in 1 .. Len(log) |-> Annotated(i)]

\* The number of threads a query asks for before its first pass covers every
\* thread that occurs in the log and no more.
ThreadsAreCounted ==
    ~shortRead /\ mode # "post" =>
        totalThreads = Max({0} \cup {log[i].threadId + 1 : i \in 1 .. Len(log)})

\* While a pass visits an event, the frames on the stack of each thread are those
\* that were live when the event was recorded (topFuncInfo decides which events a
\* query accepts), in every pass; no assertion of pop fails.  The query also knows
\* how many threads it has to ask for.
StacksAreOfThisPass ==
    /\ ~shortRead => /\ ~failed
                     /\ \A t \in Thread : ToSet(callStackGlobal[t]) = OpenCalls(log, t, iterIndex)
    /\ ThreadsAreCounted

\* A read meets the end of the file too early only in the post-processing, and
\* only while the saver has not closed the stream that it announced as saved
\* (pineventdumper.cpp:42): a query never reads a file that is short of an event
\* which the tool had read.
ShortReadIsLateFlush ==
    [][shortRead' /\ ~shortRead =>
         mode = "post" /\ stream # <<>> /\ spc \in {"check", "closeLoop", "closeReturn"}]_vars

\* The tool's and the query's iteration are an array with a cursor, until a short
\* read: the chunk in memory stands for its part of the file.
ChunkStart == ((iterIndex - 1) \div EVENT_CHUNK_SIZE) * EVENT_CHUNK_SIZE
InMemory(i) == IF pc = "event" THEN i \in iterIndex + 1 .. iterIndex + EVENT_CHUNK_SIZE
               ELSE iterIndex > 0 /\ i \in ChunkStart + 1 .. ChunkStart + EVENT_CHUNK_SIZE
View(i) == IF InMemory(i) THEN preloadEvents[(i - 1) % EVENT_CHUNK_SIZE]
           ELSE (file \o stream)[i]

\* Before the handover nothing is to be read.
Readable == handed # NotHandedOver /\ ~shortRead

Store == INSTANCE EventStore WITH
             IsAccess <- Reader!IsAccess,
             hasVar <- IF Readable THEN {i \in 1 .. Len(log) : View(i).hasVar} ELSE {},
             pos <- IF Readable THEN iterIndex ELSE 0,
             visited <- IF Readable THEN returned ELSE Reader!Stored(0),
             mode <- IF shortRead THEN "broken" ELSE mode

\* What the readers are promised (eventmanager.h): events in the order of the run,
\* each as the post-processing left it, whatever the chunks and blocks between.
ImplementsEventStore == Store!Spec

\* A log that was handed over is post-processed and read by the queries to the
\* end of their last pass, unless an assertion of pop ends a program.
QueriesEnd ==
    (handed # NotHandedOver) ~>
        (failed \/ (mode = "query" /\ passes = MaxPasses /\ iterIndex = Len(log)))
=============================================================================
