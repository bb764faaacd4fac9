--------------------------- MODULE PinEventDumper ---------------------------
(***************************************************************************)
(* The event dumper (src/src/tool/pin/pineventdumper.cpp): the thread of   *)
(* the traced program that records an event fills pEventsMain; a full      *)
(* block is swapped with pEventsSave and written to the event file by an   *)
(* internal thread, the saver.  The two threads hand the block over with   *)
(* two semaphores: saved (pEventsSave is the caller's to swap) and filled  *)
(* (pEventsSave is the saver's to write).                                  *)
(*                                                                         *)
(* Calls of addEvent and finalize are serialised by PinHandler::lock (see  *)
(* module PinHandler), so one program counter, cpc, stands for the caller; *)
(* spc is the saver's.  One step is one access to shared state.            *)
(***************************************************************************)
EXTENDS Integers, Sequences, SequencesExt

CONSTANTS Event,          \* what is recorded; a timestamp makes each one unique
          EventBlockSize, \* a block is handed over when it is longer than this
          StreamBuf,      \* ofstream::write sends this many events or more to the
                          \* file at once and keeps fewer until the stream closes
          IntLimit,       \* 2^31: an int counts from -IntLimit to IntLimit - 1
          NotHandedOver   \* finalize has not returned an EventManager

ASSUME BlockAssumption == EventBlockSize \in Nat /\ StreamBuf \in Nat \ {0}
ASSUME IntAssumption == IntLimit \in Nat /\ EventBlockSize + 1 < IntLimit
ASSUME NoneAssumption == NotHandedOver \notin Int

VARIABLES pEventsMain, \* the block being filled
          pEventsSave, \* the block being written
          saved,       \* semaphore: the last block is written
          filled,      \* semaphore: a block is ready to be written
          finished,    \* the saver is to return
          totalEvents, \* number of events written
          cpc,         \* where the caller is in addEvent, finalize or its exit
          spc,         \* where the saver is in threadFunc
          file,        \* the event file
          stream,      \* the events in the buffer of the saver's ofstream
          recorded,    \* history: every event given to addEvent
          handed       \* the event count finalize returned

vars == <<pEventsMain, pEventsSave, saved, filled, finished, totalEvents,
          cpc, spc, file, stream, recorded, handed>>
callerVars == <<cpc, pEventsMain, recorded, handed, finished>>
saverVars == <<spc, totalEvents, file, stream>>

CallerPC == {"idle", "waitSaved", "clearSaved", "swap", "setFilled",
             "finWait", "finClear", "finSwap", "finFinish", "finFill", "finWaitLast",
             "done", "destroyed", "exited"}
SaverPC == {"wait", "clear", "write", "count", "empty", "set", "check",
            "closeLoop", "closeReturn", "returned", "killed"}

\* Variant of AsInt: the sum is kept whole.
AsIntUnbounded(n) == n

\* The sum totalEvents + size, converted to int; neither term is above IntLimit.
AsInt(n) == IF n < IntLimit THEN n ELSE n - 2 * IntLimit

Init == /\ pEventsMain = <<>> /\ pEventsSave = <<>>
        /\ saved = TRUE /\ filled = FALSE /\ finished = FALSE
        /\ totalEvents = 0
        /\ cpc = "idle" /\ spc = "wait"
        /\ file = <<>> /\ stream = <<>>
        /\ recorded = <<>>
        /\ handed = NotHandedOver
-----------------------------------------------------------------------------
(* The caller: addEvent *)

AddEvent(e) ==
    /\ cpc = "idle"
    /\ e \notin ToSet(recorded)
    /\ pEventsMain' = Append(pEventsMain, e)
    /\ recorded' = Append(recorded, e)
    /\ cpc' = IF Len(pEventsMain') > EventBlockSize THEN "waitSaved" ELSE "idle"
    /\ UNCHANGED <<pEventsSave, saved, filled, finished, handed, saverVars>>

\* Variant of WaitSaved: the caller does not wait.
WaitSavedNever(from, to) ==
    /\ cpc = from
    /\ cpc' = to
    /\ UNCHANGED <<pEventsMain, pEventsSave, saved, filled, finished, recorded, handed, saverVars>>

\* PIN_SemaphoreWait(&saved) returns; it does not clear the semaphore.
WaitSaved(from, to) ==
    /\ cpc = from
    /\ saved
    /\ cpc' = to
    /\ UNCHANGED <<pEventsMain, pEventsSave, saved, filled, finished, recorded, handed, saverVars>>

ClearSaved(from, to) ==
    /\ cpc = from
    /\ saved' = FALSE
    /\ cpc' = to
    /\ UNCHANGED <<pEventsMain, pEventsSave, filled, finished, recorded, handed, saverVars>>

Swap(from, to) ==
    /\ cpc = from
    /\ pEventsMain' = pEventsSave
    /\ pEventsSave' = pEventsMain
    /\ cpc' = to
    /\ UNCHANGED <<saved, filled, finished, recorded, handed, saverVars>>

\* Variant of SetFilled: finalize forgets to announce the last block.
SetFilledNotLast(from, to) ==
    /\ cpc = from
    /\ filled' = (filled \/ from # "finFill")
    /\ cpc' = to
    /\ UNCHANGED <<pEventsMain, pEventsSave, saved, finished, recorded, handed, saverVars>>

SetFilled(from, to) ==
    /\ cpc = from
    /\ filled' = TRUE
    /\ cpc' = to
    /\ UNCHANGED <<pEventsMain, pEventsSave, saved, finished, recorded, handed, saverVars>>

HandBlockOver == \/ WaitSaved("waitSaved", "clearSaved")
                 \/ ClearSaved("clearSaved", "swap")
                 \/ Swap("swap", "setFilled")
                 \/ SetFilled("setFilled", "idle")
-----------------------------------------------------------------------------
(* The caller: finalize, and what Fini does after it *)

Finalize ==
    /\ cpc = "idle"
    /\ cpc' = "finWait"
    /\ UNCHANGED <<pEventsMain, pEventsSave, saved, filled, finished, recorded, handed, saverVars>>

SetFinished ==
    /\ cpc = "finFinish"
    /\ finished' = TRUE
    /\ cpc' = "finFill"
    /\ UNCHANGED <<pEventsMain, pEventsSave, saved, filled, recorded, handed, saverVars>>

\* Variant of ReturnEventManager: it does not wait for the last block.
ReturnUnsaved ==
    /\ cpc = "finWaitLast"
    /\ handed' = totalEvents
    /\ cpc' = "done"
    /\ UNCHANGED <<pEventsMain, pEventsSave, saved, filled, finished, recorded, saverVars>>

\* The last wait for saved, and return EventManager(.., totalEvents).
ReturnEventManager ==
    /\ cpc = "finWaitLast"
    /\ saved
    /\ handed' = totalEvents
    /\ cpc' = "done"
    /\ UNCHANGED <<pEventsMain, pEventsSave, saved, filled, finished, recorded, saverVars>>

FinalizeSteps == \/ WaitSaved("finWait", "finClear")
                 \/ ClearSaved("finClear", "finSwap")
                 \/ Swap("finSwap", "finFinish")
                 \/ SetFinished
                 \/ SetFilled("finFill", "finWaitLast")
                 \/ ReturnEventManager

\* Fini: delete pinHandler, whose member the dumper is.
Destroy ==
    /\ cpc = "done"
    /\ cpc' = "destroyed"
    /\ UNCHANGED <<pEventsMain, pEventsSave, saved, filled, finished, recorded, handed, saverVars>>

\* exit(0): nobody waits for the saver; what its stream still buffers is lost
\* unless the saver has closed it.
ProcessExit ==
    /\ cpc = "destroyed"
    /\ cpc' = "exited"
    /\ spc' = IF spc = "returned" THEN spc ELSE "killed"
    /\ stream' = <<>>
    /\ UNCHANGED <<pEventsMain, pEventsSave, saved, filled, finished, recorded, handed,
                   totalEvents, file>>
-----------------------------------------------------------------------------
(* The saver: threadFunc *)

SaverWaitFilled ==
    /\ spc = "wait"
    /\ filled
    /\ spc' = "clear"
    /\ UNCHANGED <<callerVars, pEventsSave, saved, filled, totalEvents, file, stream>>

SaverClearFilled ==
    /\ spc = "clear"
    /\ filled' = FALSE
    /\ spc' = "write"
    /\ UNCHANGED <<callerVars, pEventsSave, saved, totalEvents, file, stream>>

\* Variant of SaverWrite: the stream is opened without ios::app.
SaverOverwrite ==
    /\ spc = "write"
    /\ IF Len(pEventsSave) >= StreamBuf
       THEN file' = pEventsSave /\ UNCHANGED stream
       ELSE stream' = pEventsSave /\ UNCHANGED file
    /\ spc' = "count"
    /\ UNCHANGED <<callerVars, pEventsSave, saved, filled, totalEvents>>

\* A fresh ofstream in append mode, and out.write of the whole block.
SaverWrite ==
    /\ spc = "write"
    /\ IF Len(pEventsSave) >= StreamBuf
       THEN file' = file \o pEventsSave /\ UNCHANGED stream
       ELSE stream' = pEventsSave /\ UNCHANGED file
    /\ spc' = "count"
    /\ UNCHANGED <<callerVars, pEventsSave, saved, filled, totalEvents>>

SaverCount ==
    /\ spc = "count"
    /\ totalEvents' = AsInt(totalEvents + Len(pEventsSave))
    /\ spc' = "empty"
    /\ UNCHANGED <<callerVars, pEventsSave, saved, filled, file, stream>>

\* Variant of SaverEmpty: the written block goes back to the caller full.
SaverKeepsBlock ==
    /\ spc = "empty"
    /\ spc' = "set"
    /\ UNCHANGED <<callerVars, pEventsSave, saved, filled, totalEvents, file, stream>>

SaverEmpty ==
    /\ spc = "empty"
    /\ pEventsSave' = <<>>
    /\ spc' = "set"
    /\ UNCHANGED <<callerVars, saved, filled, totalEvents, file, stream>>

SaverSetSaved ==
    /\ spc = "set"
    /\ saved' = TRUE
    /\ spc' = "check"
    /\ UNCHANGED <<callerVars, pEventsSave, filled, totalEvents, file, stream>>

\* if (finished) return: a read of freed memory once the dumper is destroyed.
SaverCheck ==
    /\ spc = "check"
    /\ \E f \in (IF cpc = "destroyed" THEN BOOLEAN ELSE {finished}) :
         spc' = IF f THEN "closeReturn" ELSE "closeLoop"
    /\ UNCHANGED <<callerVars, pEventsSave, saved, filled, totalEvents, file, stream>>

\* Variant of SaverClose: the thread is ended where it is, no destructor runs.
SaverExits ==
    /\ spc \in {"closeLoop", "closeReturn"}
    /\ IF spc = "closeLoop" THEN spc' = "wait" /\ file' = file \o stream /\ stream' = <<>>
                            ELSE spc' = "returned" /\ UNCHANGED <<file, stream>>
    /\ UNCHANGED <<callerVars, pEventsSave, saved, filled, totalEvents>>

\* The ofstream is a local of the loop body: its destructor flushes it here,
\* after saved was set, on both ways out.
SaverClose ==
    /\ spc \in {"closeLoop", "closeReturn"}
    /\ file' = file \o stream
    /\ stream' = <<>>
    /\ spc' = IF spc = "closeLoop" THEN "wait" ELSE "returned"
    /\ UNCHANGED <<callerVars, pEventsSave, saved, filled, totalEvents>>

Saver == \/ SaverWaitFilled \/ SaverClearFilled \/ SaverWrite \/ SaverCount
         \/ SaverEmpty \/ SaverSetSaved \/ SaverCheck \/ SaverClose
-----------------------------------------------------------------------------
Caller == \/ \E e \in Event : AddEvent(e)
          \/ HandBlockOver
          \/ Finalize
          \/ FinalizeSteps
          \/ Destroy
          \/ ProcessExit

Next == Caller \/ Saver

Spec == Init /\ [][Next]_vars

(* Both threads are scheduled for ever: the caller finishes what it began,  *)
(* but nothing makes the traced program record another event or end.        *)
Fairness == /\ WF_vars(HandBlockOver)
            /\ WF_vars(FinalizeSteps)
            /\ WF_vars(Saver)

FairSpec == Spec /\ Fairness
-----------------------------------------------------------------------------
\* Types, and the counts fit an int (totalEvents, EventManager's argument).
TypeOK == /\ pEventsMain \in Seq(Event) /\ pEventsSave \in Seq(Event)
          /\ saved \in BOOLEAN /\ filled \in BOOLEAN /\ finished \in BOOLEAN
          /\ totalEvents \in -IntLimit .. IntLimit - 1
          /\ cpc \in CallerPC /\ spc \in SaverPC
          /\ file \in Seq(Event) /\ stream \in Seq(Event)
          /\ recorded \in Seq(Event)
          /\ handed \in -IntLimit .. IntLimit - 1 \cup {NotHandedOver}

\* Who may touch pEventsSave: the caller between clearing saved and setting
\* filled, the saver from clearing filled to setting saved.
CallerOwns == cpc \in {"swap", "setFilled", "finSwap", "finFinish", "finFill"}
SaverOwns == spc \in {"clear", "write", "count", "empty", "set"}

\* The two semaphores pass one token: the caller and the saver never hold
\* pEventsSave at the same time, so neither the swap nor the write races, and
\* a block that is ready or being written is never announced as saved.
BlockHasOneOwner ==
    cpc # "exited" =>
        /\ ~(CallerOwns /\ SaverOwns)
        /\ saved => ~CallerOwns /\ ~SaverOwns /\ ~filled
        /\ filled => ~CallerOwns

\* The events of pEventsSave that are not yet in the stream or the file.
Unwritten == IF spc \in {"count", "empty"} THEN <<>> ELSE pEventsSave

\* On its way from addEvent through the two vectors and the stream to the
\* file no event is lost, doubled or reordered.
NothingLost ==
    cpc # "exited" => recorded = file \o stream \o Unwritten \o pEventsMain

\* When finalize has returned, every event is in the file or in the stream
\* buffer of the saver, less than StreamBuf of them in the latter, and these
\* are all that exit(0) can lose; the count is right unless int overflowed.
HandedOverComplete ==
    handed # NotHandedOver =>
        /\ IsPrefix(file, recorded)
        /\ Len(recorded) - Len(file) < StreamBuf
        /\ cpc # "exited" => recorded = file \o stream
        /\ Len(recorded) < IntLimit => handed = Len(recorded)

\* What the dumper promises its clients: an append-only copy of what was
\* recorded, and its length.
ELog == INSTANCE EventLog WITH stored <- file, total <- handed, MaxCount <- IntLimit - 1
ImplementsEventLog == ELog!Spec

\* finalize returns when it finds the saver waiting for the next block.
FinalizeReturnsIfSaverWaits == (cpc = "finWait" /\ spc = "wait" /\ ~filled) ~> (handed # NotHandedOver)

\* What a run of the tool needs (src/run.sh:29-32 starts the query when the tool
\* has ended): finalize always returns.  It does not: a saver that has set
\* saved for a full block but not yet read finished takes the last block's
\* finished for its own and returns without writing that block.
FinalizeReturns == (cpc = "finWait") ~> (handed # NotHandedOver)

\* "EVENTS SAVED" (pineventdumper.cpp:36) and the semaphore saved: once the
\* count is handed over, the reader that opens the file next finds the events
\* in it.
SavedEventsAreInFile == handed # NotHandedOver => file = recorded
=============================================================================
