---------------------------- MODULE EventManager ----------------------------
(***************************************************************************)
(* The iteration over the event file (src/src/common/event/eventmanager.h) *)
(* by the post-processing at the end of the traced run, which gives each   *)
(* access its variable, and by the passes of the query program.  A chunk   *)
(* of EVENT_CHUNK_SIZE events is kept in memory; next() writes it back and *)
(* reads the next one when the cursor crosses a chunk.  Every next() also  *)
(* replays the event on the EventManager's own call stacks.                *)
(*                                                                         *)
(* What is read is what the dumper left in the file, which may still be    *)
(* short of its last events: module ToolRun composes the two.              *)
(*                                                                         *)
(* An event on file is [n, hasVar]: the n-th of the log, and whether it    *)
(* has been given its variable.  n = 0 is an Event of zero bytes.          *)
(***************************************************************************)
EXTENDS Integers, Sequences, SequencesExt, FiniteSets, FiniteSetsExt, CallStack

CONSTANTS Thread,           \* thread ids
          NoFunc,           \* the func of a routine without debug information
          EVENT_CHUNK_SIZE,
          MaxPasses         \* bound: how often a query reads the log

\* eventmanager.cpp:3; dump() would skip the first of chunks of one event.
ReaderAssumption == /\ Thread \subseteq Nat /\ 0 \in Thread
                    /\ EVENT_CHUNK_SIZE \in Nat /\ EVENT_CHUNK_SIZE >= 2

VARIABLES log,             \* the events of the run: a sequence of
                           \* [type, threadId, func, frameBase]
          file,            \* the event file
          totalEvents,     \* how many events finalize counted
          preloadEvents, iterIndex, callStackGlobal, totalThreads,
          pc,              \* in next(): "top", "load" after dump(), "event" after the read
          mode, passes,    \* who iterates: see EventStore; the passes begun by the query
          returned,        \* the event that next() returned, as its caller leaves it
          failed,          \* an assertion of CallStack::pop ended the program
          shortRead        \* history: a read met the end of the file too early

tables == <<callStackGlobal, totalThreads, failed>>
readerVars == <<preloadEvents, iterIndex, tables, pc, mode, passes, returned, shortRead>>
vars == <<log, file, totalEvents, readerVars>>

ZeroEvent == [type |-> "CallInst", threadId |-> 0, func |-> NoFunc, frameBase |-> 0]
Stored(n) == [n |-> n, hasVar |-> FALSE]
EventOf(stored) == IF stored.n = 0 THEN ZeroEvent ELSE log[stored.n]
IsAccess(event) == event.type \in {"Read", "Write"}

NoCalls == [t \in Thread |-> <<>>]
ZeroChunk == [j \in 0 .. EVENT_CHUNK_SIZE - 1 |-> Stored(0)]

\* finalize returns an EventManager; dumpEvents begins.
Init == /\ preloadEvents = ZeroChunk /\ iterIndex = 0
        /\ callStackGlobal = NoCalls /\ totalThreads = 0 /\ failed = FALSE
        /\ pc = "top" /\ mode = "post" /\ passes = 0
        /\ returned = Stored(0)
        /\ shortRead = FALSE
-----------------------------------------------------------------------------
(* dump *)

\* The file after count events of the chunk are written from begIndex; a gap
\* before them is filled with zero bytes.
Written(begIndex, count) ==
    [i \in 1 .. Max({Len(file), begIndex + count}) |->
        IF i \in begIndex + 1 .. begIndex + count THEN preloadEvents[i - 1 - begIndex]
        ELSE IF i <= Len(file) THEN file[i] ELSE Stored(0)]

\* Variant of Dump: the events behind the last chunk are written too.
DumpWholeChunk ==
    LET curIndex == iterIndex - 1
        begIndex == (curIndex \div EVENT_CHUNK_SIZE) * EVENT_CHUNK_SIZE
    IN file' = IF curIndex <= 0 \/ curIndex >= totalEvents THEN file
               ELSE Written(begIndex, EVENT_CHUNK_SIZE)

Dump ==
    LET curIndex == iterIndex - 1
        begIndex == (curIndex \div EVENT_CHUNK_SIZE) * EVENT_CHUNK_SIZE
    IN file' = IF curIndex <= 0 \/ curIndex >= totalEvents THEN file
               ELSE Written(begIndex, Min({EVENT_CHUNK_SIZE, totalEvents - begIndex}))
-----------------------------------------------------------------------------
(* next *)

\* Variant of hasNext: one event too many.
hasNextInclusive == iterIndex <= totalEvents

hasNext == iterIndex < totalEvents

\* The cursor is at the first event of a chunk.
DumpChunk ==
    /\ ~failed /\ pc = "top" /\ hasNext /\ mode \in {"post", "query"}
    /\ iterIndex % EVENT_CHUNK_SIZE = 0
    /\ Dump
    /\ pc' = "load"
    /\ UNCHANGED <<log, totalEvents, preloadEvents, iterIndex, tables, mode, passes,
                   returned, shortRead>>

\* Variant of LoadChunk: a short read is tried again.
LoadChunkRetry ==
    /\ pc = "load"
    /\ LET eventCount == Min({EVENT_CHUNK_SIZE, totalEvents - iterIndex})
           isShort == Len(file) < iterIndex + eventCount
       IN /\ preloadEvents' =
               [j \in 0 .. EVENT_CHUNK_SIZE - 1 |->
                  IF j < eventCount /\ iterIndex + j + 1 <= Len(file)
                  THEN file[iterIndex + j + 1] ELSE preloadEvents[j]]
          /\ shortRead' = (shortRead \/ isShort)
          /\ pc' = IF isShort THEN "load" ELSE "event"
    /\ UNCHANGED <<log, file, totalEvents, iterIndex, tables, mode, passes, returned>>

LoadChunk ==
    /\ pc = "load"
    /\ LET eventCount == Min({EVENT_CHUNK_SIZE, totalEvents - iterIndex})
       IN /\ preloadEvents' =
               [j \in 0 .. EVENT_CHUNK_SIZE - 1 |->
                  IF j < eventCount /\ iterIndex + j + 1 <= Len(file)
                  THEN file[iterIndex + j + 1] ELSE preloadEvents[j]]
          /\ shortRead' = (shortRead \/ Len(file) < iterIndex + eventCount)
    /\ pc' = "event"
    /\ UNCHANGED <<log, file, totalEvents, iterIndex, tables, mode, passes, returned>>

\* The replay of an event on the call stacks; a routine without debug
\* information is passed over.
Replay(event) ==
    LET t == event.threadId
        call == [func |-> event.func, frameBase |-> event.frameBase]
        calls == callStackGlobal[t]
    IN CASE event.type = "Call" /\ event.func # NoFunc ->
              /\ callStackGlobal' = [callStackGlobal EXCEPT ![t] = Push(calls, call)]
              /\ UNCHANGED failed
         [] event.type = "Ret" /\ event.func # NoFunc ->
              /\ failed' = ~PopMatches(calls, call)
              /\ callStackGlobal' = IF failed' THEN callStackGlobal
                                    ELSE [callStackGlobal EXCEPT ![t] = Pop(calls)]
         [] OTHER -> UNCHANGED <<callStackGlobal, failed>>

CountThread(event) == totalThreads' = Max({totalThreads - 1, event.threadId}) + 1

\* Variant of NextEvent: the caller annotates a copy of the event.
NextEventCopied(annotate) ==
    /\ ~failed /\ hasNext /\ mode \in {"post", "query"}
    /\ pc = "event" \/ (pc = "top" /\ iterIndex % EVENT_CHUNK_SIZE # 0)
    /\ LET mod == iterIndex % EVENT_CHUNK_SIZE
           event == EventOf(preloadEvents[mod])
       IN /\ Replay(event)
          /\ CountThread(event)
          /\ returned' = [preloadEvents[mod] EXCEPT
                            !.hasVar = @ \/ (annotate /\ ~failed' /\ IsAccess(event))]
    /\ iterIndex' = iterIndex + 1
    /\ pc' = "top"
    /\ UNCHANGED <<log, file, totalEvents, preloadEvents, mode, passes, shortRead>>

\* The rest of next(), and what its caller does to the event before its next call.
NextEvent(annotate) ==
    /\ ~failed /\ hasNext /\ mode \in {"post", "query"}
    /\ pc = "event" \/ (pc = "top" /\ iterIndex % EVENT_CHUNK_SIZE # 0)
    /\ LET mod == iterIndex % EVENT_CHUNK_SIZE
           event == EventOf(preloadEvents[mod])
       IN /\ Replay(event)
          /\ CountThread(event)
          /\ returned' = [preloadEvents[mod] EXCEPT
                            !.hasVar = @ \/ (annotate /\ ~failed' /\ IsAccess(event))]
          /\ preloadEvents' = [preloadEvents EXCEPT ![mod] = returned']
    /\ iterIndex' = iterIndex + 1
    /\ pc' = "top"
    /\ UNCHANGED <<log, file, totalEvents, mode, passes, shortRead>>
-----------------------------------------------------------------------------
(* The callers *)

\* Variant of Reset: the call stacks of the last pass stay.
ResetKeepsCalls ==
    /\ iterIndex' = 0
    /\ UNCHANGED callStackGlobal

Reset == /\ iterIndex' = 0
         /\ callStackGlobal' = NoCalls

\* The end of dumpEvents: the last chunk is written back; Fini saves totalEvents
\* and totalThreads.
PostProcessed ==
    /\ ~failed /\ mode = "post" /\ ~hasNext
    /\ Dump
    /\ mode' = "saved"
    /\ UNCHANGED <<log, totalEvents, preloadEvents, iterIndex, tables, pc, passes,
                   returned, shortRead>>

\* The tool has exited; the query program loads an EventManager of its own.
QueryLoads ==
    /\ mode = "saved"
    /\ mode' = "query" /\ passes' = 1
    /\ Reset
    /\ preloadEvents' = ZeroChunk
    /\ returned' = Stored(0)
    /\ UNCHANGED <<log, file, totalEvents, totalThreads, failed, pc, shortRead>>

\* getAccessMatrix, getLocalities and getAccessPatterns each begin with reset().
NextPass ==
    /\ ~failed /\ mode = "query" /\ ~hasNext /\ passes < MaxPasses
    /\ passes' = passes + 1
    /\ Reset
    /\ returned' = Stored(0)
    /\ UNCHANGED <<log, file, totalEvents, preloadEvents, totalThreads, failed, pc, mode, shortRead>>

\* An iteration, by the post-processing or by a query.
Iterate == DumpChunk \/ LoadChunk \/ NextEvent(mode = "post")

Next == Iterate \/ PostProcessed \/ QueryLoads \/ NextPass
=============================================================================
