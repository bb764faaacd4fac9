----------------------------- MODULE PinHandler -----------------------------
(***************************************************************************)
(* The analysis functions that run in the threads of the traced program    *)
(* (src/src/tool/pin/pinhandler.cpp), with the part of ExecContext they    *)
(* call (ExecContext::addEvent) and the event dumper below it, which is    *)
(* module PinEventDumper: every step of a thread inside eventDumper is a   *)
(* caller step of that module, and the saver runs beside the threads.      *)
(*                                                                         *)
(* Two locks: mem::lock around the hooks of malloc and calloc, and         *)
(* PinHandler::lock around every event.  mallocAfter takes the second      *)
(* while it holds the first.                                               *)
(*                                                                         *)
(* Event kinds: "MainCall" and "MainRet" are the Call and the Ret of main, *)
(* "Alloc" is an Alloc, and "Other" is any of CallInst, Read, Write, Free  *)
(* and the Call and Ret of other routines, which the handlers treat alike. *)
(***************************************************************************)
EXTENDS Integers, Sequences, FiniteSets

CONSTANTS Thread,
          MainThread,  \* the thread that runs main
          NoThread,    \* the owner of a free lock
          Size,        \* sizes asked of malloc and calloc
          MaxOps,      \* bound: what each thread does before it idles
          EventBlockSize, StreamBuf, IntLimit, NotHandedOver

ASSUME ThreadAssumption == MainThread \in Thread /\ NoThread \notin Thread
ASSUME OpsAssumption == MaxOps \in Nat
\* What PinEventDumper assumes of its constants.
ASSUME BlockAssumption == EventBlockSize \in Nat /\ StreamBuf \in Nat \ {0}
ASSUME IntAssumption == IntLimit \in Nat /\ EventBlockSize + 1 < IntLimit
ASSUME NoneAssumption == NotHandedOver \notin Int

VARIABLES pEventsMain, pEventsSave, saved, filled, finished, totalEvents,
          cpc, spc, file, stream, recorded, handed, \* see PinEventDumper
          lock,             \* PinHandler::lock
          memLock,          \* mem::lock
          sizeRequested,    \* mallocSizeRequested and callocSizeRequested
          profilingEnabled,
          tsc,              \* the time stamp counter that Event's constructor reads
          pc, event,        \* each thread's place in the analysis functions, its Event
          request,          \* each thread's malloc or calloc: function, size, result
          mainPhase,        \* main is not yet called, running, or has returned
          ops,              \* what each thread has done so far
          overlapped        \* history: threads whose allocation met another one

dumperVars == <<pEventsMain, pEventsSave, saved, filled, finished, totalEvents,
                cpc, spc, file, stream, recorded, handed>>
memVars == <<memLock, sizeRequested, request, overlapped>>
appVars == <<mainPhase, ops>>
vars == <<dumperVars, memVars, appVars, lock, profilingEnabled, tsc, pc, event>>

AllocFn == {"malloc", "calloc"}
Kind == {"MainCall", "MainRet", "Alloc", "Other"}
SizeOrZero == Size \cup {0} \* 0 is also "no request"
Event == [kind : Kind, threadId : Thread, size : SizeOrZero, timestamp : Nat]

Dumper == INSTANCE PinEventDumper

Init == /\ Dumper!Init
        /\ lock = NoThread /\ memLock = NoThread
        /\ sizeRequested = [f \in AllocFn |-> 0]
        /\ profilingEnabled = FALSE
        /\ tsc = 0
        /\ pc = [t \in Thread |-> "app"]
        /\ event = [t \in Thread |-> [kind |-> "Other", threadId |-> t, size |-> 0, timestamp |-> 0]]
        /\ request = [t \in Thread |-> [fn |-> "malloc", size |-> 0, ok |-> FALSE]]
        /\ mainPhase = "before"
        /\ ops = [t \in Thread |-> 0]
        /\ overlapped = {}

Goto(t, from, to) == /\ pc[t] = from
                     /\ pc' = [pc EXCEPT ![t] = to]
-----------------------------------------------------------------------------
(* The traced program runs into an instrumented point *)

\* A routine entry or exit, a call instruction, a memory access or free.
Instrumented(t, kind) ==
    /\ Goto(t, "app", "getLock")
    /\ ops[t] < MaxOps
    /\ CASE kind = "MainCall" -> t = MainThread /\ mainPhase = "before" /\ mainPhase' = "running"
         [] kind = "MainRet"  -> t = MainThread /\ mainPhase = "running" /\ mainPhase' = "returned"
         [] OTHER             -> kind = "Other" /\ UNCHANGED mainPhase
    /\ event' = [event EXCEPT ![t].kind = kind, ![t].size = 0]
    /\ ops' = [ops EXCEPT ![t] = @ + 1]
    /\ UNCHANGED <<dumperVars, memVars, lock, profilingEnabled, tsc>>

\* The entry of malloc or calloc; the product of calloc's arguments is a Size.
AllocCalled(t, f, size) ==
    /\ Goto(t, "app", "memBefore")
    /\ ops[t] < MaxOps
    /\ request' = [request EXCEPT ![t] = [fn |-> f, size |-> size, ok |-> FALSE]]
    /\ ops' = [ops EXCEPT ![t] = @ + 1]
    /\ overlapped' = overlapped \ {t}
    /\ UNCHANGED <<dumperVars, memLock, sizeRequested, mainPhase, lock, profilingEnabled, tsc, event>>

\* libc returns; ok is an address other than null.
AllocReturns(t, ok) ==
    /\ Goto(t, "libc", "memAfter")
    /\ request' = [request EXCEPT ![t].ok = ok]
    /\ UNCHANGED <<dumperVars, memLock, sizeRequested, overlapped, appVars, lock,
                   profilingEnabled, tsc, event>>
-----------------------------------------------------------------------------
(* namespace mem *)

GetMemLock(t, from, to) ==
    /\ Goto(t, from, to)
    /\ memLock = NoThread
    /\ memLock' = t
    /\ UNCHANGED <<dumperVars, sizeRequested, request, overlapped, appVars, lock,
                   profilingEnabled, tsc, event>>

ReleaseMemLock(t, from, to) ==
    /\ Goto(t, from, to)
    /\ memLock' = NoThread
    /\ UNCHANGED <<dumperVars, sizeRequested, request, overlapped, appVars, lock,
                   profilingEnabled, tsc, event>>

\* The threads that have stored a size for f and not yet read it back and zeroed it.
InFlight(f) == {u \in Thread : /\ request[u].fn = f
                               /\ \/ pc[u] \in {"relBefore", "libc", "memAfter"}
                                  \/ memLock = u /\ pc[u] \notin {"setSize", "relAfter"}}

\* mallocBefore, callocBefore
SetSizeRequested(t) ==
    /\ Goto(t, "setSize", "relBefore")
    /\ LET f == request[t].fn
           others == InFlight(f) \ {t}
       IN /\ sizeRequested' = [sizeRequested EXCEPT ![f] = request[t].size]
          /\ overlapped' = overlapped \cup others \cup (IF others # {} THEN {t} ELSE {})
    /\ UNCHANGED <<dumperVars, memLock, request, appVars, lock, profilingEnabled, tsc, event>>

\* Variant of TestSizeRequested: callocAfter reads malloc's size.
TestMallocSizeRequested(t) ==
    /\ pc[t] = "testSize"
    /\ LET size == sizeRequested["malloc"]
       IN IF ~request[t].ok \/ size = 0
          THEN Goto(t, "testSize", "relAfter") /\ UNCHANGED event
          ELSE /\ Goto(t, "testSize", "getLock")
               /\ event' = [event EXCEPT ![t].kind = "Alloc", ![t].size = size]
    /\ UNCHANGED <<dumperVars, memVars, appVars, lock, profilingEnabled, tsc>>

\* Variant of TestSizeRequested: the early return keeps mem::lock.
TestSizeKeepsLock(t) ==
    /\ pc[t] = "testSize"
    /\ LET size == sizeRequested[request[t].fn]
       IN IF ~request[t].ok \/ size = 0
          THEN Goto(t, "testSize", "app") /\ UNCHANGED event
          ELSE /\ Goto(t, "testSize", "getLock")
               /\ event' = [event EXCEPT ![t].kind = "Alloc", ![t].size = size]
    /\ UNCHANGED <<dumperVars, memVars, appVars, lock, profilingEnabled, tsc>>

\* mallocAfter, callocAfter: nothing to report, or go on to handleHeapAlloc
TestSizeRequested(t) ==
    /\ pc[t] = "testSize"
    /\ LET size == sizeRequested[request[t].fn]
       IN IF ~request[t].ok \/ size = 0
          THEN Goto(t, "testSize", "relAfter") /\ UNCHANGED event
          ELSE /\ Goto(t, "testSize", "getLock")
               /\ event' = [event EXCEPT ![t].kind = "Alloc", ![t].size = size]
    /\ UNCHANGED <<dumperVars, memVars, appVars, lock, profilingEnabled, tsc>>

\* Variant of ZeroSizeRequested: -1 for "no request".
MinusSizeRequested(t) ==
    /\ Goto(t, "zero", "relAfter")
    /\ sizeRequested' = [sizeRequested EXCEPT ![request[t].fn] = -1]
    /\ UNCHANGED <<dumperVars, memLock, request, overlapped, appVars, lock,
                   profilingEnabled, tsc, event>>

ZeroSizeRequested(t) ==
    /\ Goto(t, "zero", "relAfter")
    /\ sizeRequested' = [sizeRequested EXCEPT ![request[t].fn] = 0]
    /\ UNCHANGED <<dumperVars, memLock, request, overlapped, appVars, lock,
                   profilingEnabled, tsc, event>>

Mem(t) == \/ GetMemLock(t, "memBefore", "setSize")
          \/ SetSizeRequested(t)
          \/ ReleaseMemLock(t, "relBefore", "libc")
          \/ GetMemLock(t, "memAfter", "testSize")
          \/ TestSizeRequested(t)
          \/ ZeroSizeRequested(t)
          \/ ReleaseMemLock(t, "relAfter", "app")
-----------------------------------------------------------------------------
(* PinHandler::handle..., ExecContext::addEvent *)

\* Variant of GetLock: no lock is taken.
GetNoLock(t) ==
    /\ Goto(t, "getLock", "build")
    /\ lock' = t
    /\ UNCHANGED <<dumperVars, memVars, appVars, profilingEnabled, tsc, event>>

GetLock(t) ==
    /\ Goto(t, "getLock", "build")
    /\ lock = NoThread
    /\ lock' = t
    /\ UNCHANGED <<dumperVars, memVars, appVars, profilingEnabled, tsc, event>>

\* Event e(..): its constructor reads the time stamp counter.
BuildEvent(t) ==
    /\ Goto(t, "build", "addEvent")
    /\ event' = [event EXCEPT ![t].timestamp = tsc]
    /\ tsc' = tsc + 1
    /\ UNCHANGED <<dumperVars, memVars, appVars, lock, profilingEnabled>>

\* Variant of AddEvent: events are recorded from the start.
AddEventAlways(t) ==
    /\ pc[t] = "addEvent"
    /\ profilingEnabled' = TRUE
    /\ Goto(t, "addEvent", IF event[t].kind = "MainRet" THEN "dumpLast" ELSE "dump")
    /\ Dumper!AddEvent(event[t])
    /\ UNCHANGED <<memVars, appVars, lock, tsc, event>>

\* The Call of main starts the recording, its Ret ends it.
AddEvent(t) ==
    /\ pc[t] = "addEvent"
    /\ profilingEnabled' = (profilingEnabled \/ event[t].kind = "MainCall")
    /\ IF event[t].kind = "MainRet"
       THEN Goto(t, "addEvent", "dumpLast") /\ Dumper!AddEvent(event[t])
       ELSE IF profilingEnabled'
            THEN Goto(t, "addEvent", "dump") /\ Dumper!AddEvent(event[t])
            ELSE Goto(t, "addEvent", "release") /\ UNCHANGED dumperVars
    /\ UNCHANGED <<memVars, appVars, lock, tsc, event>>

\* Inside eventDumper.addEvent, with the block full.
Dump(t) ==
    /\ pc[t] \in {"dump", "dumpLast"}
    /\ Dumper!HandBlockOver
    /\ UNCHANGED <<memVars, appVars, lock, profilingEnabled, tsc, pc, event>>

\* Variant of DumpReturns: the lock is let go before the block is handed over.
DumpReturnsEarly(t) ==
    /\ Goto(t, "dump", "release")
    /\ UNCHANGED <<dumperVars, memVars, appVars, lock, profilingEnabled, tsc, event>>

DumpReturns(t) ==
    /\ Goto(t, "dump", "release")
    /\ cpc = "idle"
    /\ UNCHANGED <<dumperVars, memVars, appVars, lock, profilingEnabled, tsc, event>>

ReleaseLock(t) ==
    /\ Goto(t, "release", IF memLock = t THEN "zero" ELSE "app")
    /\ lock' = NoThread
    /\ UNCHANGED <<dumperVars, memVars, appVars, profilingEnabled, tsc, event>>

\* Fini, called with the lock held: dumpEvents begins with eventDumper.finalize.
EnterFini(t) ==
    /\ Goto(t, "dumpLast", "fini")
    /\ cpc = "idle"
    /\ Dumper!Finalize
    /\ UNCHANGED <<memVars, appVars, lock, profilingEnabled, tsc, event>>

\* The traced program ends without a return from main, by exit(): Pin stops the
\* other threads outside the analysis functions and calls Fini, which takes no
\* lock (PIN_AddFiniUnlockedFunction, tool.cpp:100).
ProgramExits(t) ==
    /\ \A u \in Thread : pc[u] \in {"app", "libc"}
    /\ pc[t] = "app"
    /\ pc' = [u \in Thread |-> IF u = t THEN "fini" ELSE "stopped"]
    /\ Dumper!Finalize
    /\ UNCHANGED <<memVars, appVars, lock, profilingEnabled, tsc, event>>

\* The rest of Fini up to delete pinHandler.
Fini(t) ==
    /\ pc[t] = "fini"
    /\ Dumper!FinalizeSteps \/ Dumper!Destroy
    /\ UNCHANGED <<memVars, appVars, lock, profilingEnabled, tsc, pc, event>>

\* exit(0) ends every thread.
Exit(t) ==
    /\ pc[t] = "fini"
    /\ Dumper!ProcessExit
    /\ pc' = [u \in Thread |-> "ended"]
    /\ UNCHANGED <<memVars, appVars, lock, profilingEnabled, tsc, event>>

Handler(t) == \/ GetLock(t) \/ BuildEvent(t) \/ AddEvent(t) \/ Dump(t)
              \/ DumpReturns(t) \/ ReleaseLock(t) \/ EnterFini(t) \/ Fini(t) \/ Exit(t)
-----------------------------------------------------------------------------
App(t) == \/ \E kind \in Kind : Instrumented(t, kind)
          \/ \E f \in AllocFn, size \in Size : AllocCalled(t, f, size)
          \/ \E ok \in BOOLEAN : AllocReturns(t, ok)
          \/ ProgramExits(t)

Saver == Dumper!Saver /\ UNCHANGED <<memVars, appVars, lock, profilingEnabled, tsc, pc, event>>

Next == \/ \E t \in Thread : App(t) \/ Mem(t) \/ Handler(t)
        \/ Saver

Spec == Init /\ [][Next]_vars

(* Every thread runs, and libc returns; the program need not go on.  Weak   *)
(* fairness is enough for the locks: MaxOps bounds how often they are taken. *)
FairSpec == /\ Spec
            /\ \A t \in Thread : /\ WF_vars(Mem(t))
                                 /\ WF_vars(Handler(t))
                                 /\ WF_vars(\E ok \in BOOLEAN : AllocReturns(t, ok))
            /\ WF_vars(Saver)
-----------------------------------------------------------------------------
TypeOK == /\ Dumper!TypeOK
          /\ lock \in Thread \cup {NoThread} /\ memLock \in Thread \cup {NoThread}
          /\ sizeRequested \in [AllocFn -> SizeOrZero]
          /\ profilingEnabled \in BOOLEAN
          /\ tsc \in Nat
          /\ event \in [Thread -> Event]
          /\ request \in [Thread -> [fn : AllocFn, size : SizeOrZero, ok : BOOLEAN]]
          /\ ops \in [Thread -> 0 .. MaxOps]
          /\ overlapped \subseteq Thread

InDumper == {"dump", "dumpLast", "fini"}

\* The dumper assumes that its calls are serialised: one thread at most is inside
\* it, and holds PinHandler::lock all the while, the time it is blocked for the
\* saver included; or all others are stopped.
DumperCallsSerialised ==
    cpc # "exited" =>
        /\ \A t \in Thread : pc[t] \in InDumper =>
              lock = t \/ \A u \in Thread \ {t} : pc[u] = "stopped"
        /\ cpc # "idle" => Cardinality({t \in Thread : pc[t] \in InDumper}) = 1

\* Events reach the dumper in the order of their time stamps, whatever thread
\* they come from: the constructor reads the counter under the lock that orders
\* the recording.
RecordedInTimeOrder ==
    \A i, j \in 1 .. Len(recorded) : i < j => recorded[i].timestamp < recorded[j].timestamp

\* The log is the run of main: it begins with main's Call; when main returns its
\* Ret is the last event, no thread adds one after it, and it is handed over.
LogIsTheRunOfMain ==
    /\ recorded # <<>> => recorded[1].kind = "MainCall"
    /\ \A i \in 1 .. Len(recorded) : recorded[i].kind = "MainRet" => i = Len(recorded)
    /\ handed # NotHandedOver /\ mainPhase = "returned" =>
         recorded[Len(recorded)].kind = "MainRet"

\* Allocations that meet no other one of the same function are recorded with the
\* size that was asked for; "not thread safe" (pinhandler.cpp:36) is about the rest.
AllocHasItsSize ==
    \A t \in Thread \ overlapped :
        /\ memLock = t /\ pc[t] \in {"getLock", "build", "addEvent", "dump", "release", "zero"} =>
              event[t].size = request[t].size
        /\ pc[t] = "testSize" => sizeRequested[request[t].fn] = request[t].size

\* No thread stays in an analysis function: neither lock is held for ever and a
\* thread blocked on a full block is let go, until the program ends.
HandlersReturn ==
    \A t \in Thread : (pc[t] # "app") ~>
        (pc[t] \in {"app", "fini", "stopped", "ended"} \/ mainPhase = "returned")
=============================================================================
