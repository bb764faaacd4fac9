-------------------------- MODULE PinHandler_proofs --------------------------
(***************************************************************************)
(* What holds of the analysis functions for any number of threads, any     *)
(* sizes and any block size: the two locks keep the event dumper's calls   *)
(* apart, so that all that PinEventDumper_proofs says of the dumper holds  *)
(* under them; and the log is ordered, is the run of main, and has the     *)
(* sizes that were asked for.                                              *)
(***************************************************************************)
EXTENDS PinHandler, FiniteSetTheorems, SequenceTheorems, TLAPS

DumperProofs == INSTANCE PinEventDumper_proofs

(***************************************************************************)
(* The inductive invariant, in parts.                                      *)
(***************************************************************************)

PC == {"app", "memBefore", "setSize", "relBefore", "libc", "memAfter", "testSize", "zero",
       "relAfter", "getLock", "build", "addEvent", "dump", "dumpLast", "release",
       "fini", "stopped", "ended"}

\* Where a thread has an event that is not yet recorded.
Reporting == {"getLock", "build", "addEvent"}

\* The types of what the analysis functions have beside the dumper.
Typed == /\ lock \in Thread \cup {NoThread} /\ memLock \in Thread \cup {NoThread}
         /\ sizeRequested \in [AllocFn -> SizeOrZero]
         /\ profilingEnabled \in BOOLEAN
         /\ tsc \in Nat
         /\ pc \in [Thread -> PC]
         /\ event \in [Thread -> Event]
         /\ request \in [Thread -> [fn : AllocFn, size : SizeOrZero, ok : BOOLEAN]]
         /\ mainPhase \in {"before", "running", "returned"}
         /\ ops \in [Thread -> 0 .. MaxOps]
         /\ overlapped \subseteq Thread

\* Who holds which lock where; Fini holds the lock or has stopped the others.
Locks ==
    \A t \in Thread :
        /\ pc[t] \in {"build", "addEvent", "dump", "dumpLast", "release"} => lock = t
        /\ pc[t] = "fini" => lock = t \/ \A u \in Thread \ {t} : pc[u] = "stopped"
        /\ pc[t] \in {"setSize", "relBefore", "testSize", "zero", "relAfter"} => memLock = t
        /\ memLock = t => pc[t] \in {"setSize", "relBefore", "testSize", "zero", "relAfter",
                                     "getLock", "build", "addEvent", "dump", "release", "ended"}
        /\ memLock = t /\ pc[t] \in Reporting => event[t].kind = "Alloc"

\* While the dumper's caller is inside it some thread is at that place.
InsideDumper ==
    /\ cpc \in {"waitSaved", "clearSaved", "swap", "setFilled"} =>
         \E t \in Thread : pc[t] \in {"dump", "dumpLast"}
    /\ cpc \in {"finWait", "finClear", "finSwap", "finFinish", "finFill", "finWaitLast",
                "done", "destroyed"} => \E t \in Thread : pc[t] = "fini"
    /\ cpc = "exited" => \A t \in Thread : pc[t] = "ended"
    /\ \A t \in Thread : pc[t] = "ended" => cpc = "exited"
    /\ handed # NotHandedOver => cpc \in {"done", "destroyed", "exited"}

\* The time stamps: an event that is about to be recorded is the latest.
Stamped ==
    /\ \A i \in 1 .. Len(recorded) : recorded[i].timestamp < tsc
    /\ \A t \in Thread : pc[t] = "addEvent" =>
         /\ event[t].timestamp < tsc
         /\ \A i \in 1 .. Len(recorded) : recorded[i].timestamp < event[t].timestamp

\* The Call and the Ret of main on their way into the log.
MainRun ==
    /\ \A t \in Thread : pc[t] \in Reporting =>
         /\ event[t].kind = "MainCall" => t = MainThread /\ mainPhase = "running" /\ ~profilingEnabled
         /\ event[t].kind = "MainRet" => t = MainThread /\ mainPhase = "returned"
    /\ \A t \in Thread :
         /\ pc[t] = "dumpLast" => t = MainThread /\ mainPhase = "returned"
         /\ pc[t] = "fini" => \/ t = MainThread /\ mainPhase = "returned"
                              \/ mainPhase # "returned" /\ \A u \in Thread \ {t} : pc[u] = "stopped"
    /\ profilingEnabled => mainPhase # "before" /\ recorded # <<>> /\ recorded[1].kind = "MainCall"
    /\ ~profilingEnabled => recorded = <<>>
    /\ mainPhase # "before" /\ ~profilingEnabled =>
         pc[MainThread] \in Reporting /\ event[MainThread].kind = "MainCall"

\* Where main's Ret is, once main has returned.
LastIsRet ==
    /\ \A i \in 1 .. Len(recorded) :
         recorded[i].kind = "MainRet" => i = Len(recorded) /\ mainPhase = "returned"
    /\ mainPhase = "returned" =>
         \/ /\ pc[MainThread] \in Reporting
            /\ event[MainThread].kind = "MainRet"
            /\ \A i \in 1 .. Len(recorded) : recorded[i].kind # "MainRet"
         \/ /\ pc[MainThread] \in {"dumpLast", "fini"} /\ lock = MainThread
            /\ recorded # <<>> /\ recorded[Len(recorded)].kind = "MainRet"
         \/ /\ pc[MainThread] = "ended"
            /\ recorded # <<>> /\ recorded[Len(recorded)].kind = "MainRet"

\* The sizes: of two threads between storing a size and reading it back, for the
\* same function, both are known to overlap; any other finds its own size.
Sizes ==
    /\ \A f \in AllocFn : \A t, u \in InFlight(f) : t # u => t \in overlapped
    /\ \A t \in Thread \ overlapped :
         /\ pc[t] \in {"relBefore", "libc", "memAfter", "testSize"} =>
              sizeRequested[request[t].fn] = request[t].size
         /\ memLock = t /\ pc[t] \in {"getLock", "build", "addEvent", "dump", "release", "zero"} =>
              event[t].size = request[t].size

IInv == /\ Typed /\ Dumper!TypeOK
        /\ Locks /\ InsideDumper
        /\ Stamped /\ RecordedInTimeOrder
        /\ MainRun /\ LastIsRet
        /\ Sizes
-----------------------------------------------------------------------------
(* Types, and the dumper's steps *)

\* What Instrumented and TestSizeRequested write into a thread's event, and
\* what BuildEvent writes.
WithKindAndSize(ev, t, k, n) == [ev EXCEPT ![t].kind = k, ![t].size = n]
WithTime(ev, t, n) == [ev EXCEPT ![t].timestamp = n]

LEMMA KindAndSizeSet ==
    ASSUME NEW ev \in [Thread -> Event], NEW t \in Thread, NEW k \in Kind, NEW n \in SizeOrZero
    PROVE  /\ WithKindAndSize(ev, t, k, n) \in [Thread -> Event]
           /\ WithKindAndSize(ev, t, k, n)[t].kind = k
           /\ WithKindAndSize(ev, t, k, n)[t].size = n
           /\ WithKindAndSize(ev, t, k, n)[t].timestamp = ev[t].timestamp
           /\ \A u \in Thread \ {t} : WithKindAndSize(ev, t, k, n)[u] = ev[u]
<1> DEFINE mid == [ev EXCEPT ![t].kind = k]
           set == [mid EXCEPT ![t].size = n]
<1>1. /\ mid \in [Thread -> Event]
      /\ mid[t].kind = k /\ mid[t].size = ev[t].size /\ mid[t].timestamp = ev[t].timestamp
      /\ \A u \in Thread \ {t} : mid[u] = ev[u]
  <2> DEFINE e == [kind |-> k, threadId |-> ev[t].threadId, size |-> ev[t].size,
                   timestamp |-> ev[t].timestamp]
  <2>1. e \in Event /\ [ev[t] EXCEPT !.kind = k] = e
    BY DEF Event
  <2>2. mid = [ev EXCEPT ![t] = e]
    BY <2>1
  <2>3. QED
    BY <2>1, <2>2
<1> HIDE DEF mid
<1>2. /\ set \in [Thread -> Event]
      /\ set[t].kind = mid[t].kind /\ set[t].size = n /\ set[t].timestamp = mid[t].timestamp
      /\ \A u \in Thread \ {t} : set[u] = mid[u]
  <2> DEFINE e == [kind |-> mid[t].kind, threadId |-> mid[t].threadId, size |-> n,
                   timestamp |-> mid[t].timestamp]
  <2>0. mid[t] \in Event
    BY <1>1
  <2>1. e \in Event /\ [mid[t] EXCEPT !.size = n] = e
    BY <2>0 DEF Event
  <2>2. set = [mid EXCEPT ![t] = e]
    BY <2>1
  <2>3. QED
    BY <1>1, <2>1, <2>2
<1>3. WithKindAndSize(ev, t, k, n) = set
  BY DEF mid, WithKindAndSize
<1>4. QED
  BY <1>1, <1>2, <1>3

LEMMA TimestampSet ==
    ASSUME NEW ev \in [Thread -> Event], NEW t \in Thread, NEW n \in Nat
    PROVE  /\ WithTime(ev, t, n) \in [Thread -> Event]
           /\ WithTime(ev, t, n)[t].kind = ev[t].kind
           /\ WithTime(ev, t, n)[t].size = ev[t].size
           /\ WithTime(ev, t, n)[t].timestamp = n
           /\ \A u \in Thread \ {t} : WithTime(ev, t, n)[u] = ev[u]
<1> DEFINE e == [kind |-> ev[t].kind, threadId |-> ev[t].threadId, size |-> ev[t].size,
                 timestamp |-> n]
<1>1. e \in Event /\ [ev[t] EXCEPT !.timestamp = n] = e
  BY DEF Event
<1>2. WithTime(ev, t, n) = [ev EXCEPT ![t] = e]
  BY <1>1 DEF WithTime
<1>3. QED
  BY <1>1, <1>2

\* A thread has a new event when it is instrumented, reports an allocation or
\* reads the time; the others keep theirs.
LEMMA EventSteps ==
    ASSUME Typed, NEW t \in Thread
    PROVE  /\ \A kind \in Kind : Instrumented(t, kind) =>
                /\ event' \in [Thread -> Event]
                /\ event'[t].kind = kind
                /\ \A u \in Thread \ {t} : event'[u] = event[u]
           /\ TestSizeRequested(t) =>
                /\ event' \in [Thread -> Event]
                /\ \A u \in Thread \ {t} : event'[u] = event[u]
                /\ \/ pc' = [pc EXCEPT ![t] = "relAfter"] /\ UNCHANGED event
                   \/ /\ pc' = [pc EXCEPT ![t] = "getLock"]
                      /\ event'[t].kind = "Alloc"
                      /\ event'[t].size = sizeRequested[request[t].fn]
           /\ BuildEvent(t) =>
                /\ event' \in [Thread -> Event]
                /\ event'[t].kind = event[t].kind /\ event'[t].size = event[t].size
                /\ event'[t].timestamp = tsc
                /\ \A u \in Thread \ {t} : event'[u] = event[u]
<1>1. event \in [Thread -> Event] /\ tsc \in Nat /\ 0 \in SizeOrZero /\ "Alloc" \in Kind
  BY DEF Typed, Kind, SizeOrZero
<1>2. ASSUME NEW kind \in Kind, Instrumented(t, kind)
      PROVE  /\ event' \in [Thread -> Event]
             /\ event'[t].kind = kind
             /\ \A u \in Thread \ {t} : event'[u] = event[u]
  <2>1. event' = WithKindAndSize(event, t, kind, 0)
    BY <1>2 DEF Instrumented, WithKindAndSize
  <2>2. QED
    BY <1>1, <2>1, KindAndSizeSet
<1>3. ASSUME TestSizeRequested(t)
      PROVE  /\ event' \in [Thread -> Event]
             /\ \A u \in Thread \ {t} : event'[u] = event[u]
             /\ \/ pc' = [pc EXCEPT ![t] = "relAfter"] /\ UNCHANGED event
                \/ /\ pc' = [pc EXCEPT ![t] = "getLock"]
                   /\ event'[t].kind = "Alloc"
                   /\ event'[t].size = sizeRequested[request[t].fn]
  <2> DEFINE n == sizeRequested[request[t].fn]
  <2>1. n \in SizeOrZero
    BY DEF Typed
  <2>2. CASE ~request[t].ok \/ n = 0
    BY <1>1, <1>3, <2>2 DEF TestSizeRequested, Goto
  <2>3. CASE ~(~request[t].ok \/ n = 0)
    <3>1. /\ pc' = [pc EXCEPT ![t] = "getLock"]
          /\ event' = WithKindAndSize(event, t, "Alloc", n)
      BY <1>3, <2>3 DEF TestSizeRequested, Goto, WithKindAndSize
    <3> HIDE DEF n
    <3>2. /\ event' \in [Thread -> Event]
          /\ event'[t].kind = "Alloc" /\ event'[t].size = n
          /\ \A u \in Thread \ {t} : event'[u] = event[u]
      BY <1>1, <2>1, <3>1, KindAndSizeSet
    <3>3. QED
      BY <3>1, <3>2 DEF n
  <2>4. QED
    BY <2>2, <2>3
<1>4. ASSUME BuildEvent(t)
      PROVE  /\ event' \in [Thread -> Event]
             /\ event'[t].kind = event[t].kind /\ event'[t].size = event[t].size
             /\ event'[t].timestamp = tsc
             /\ \A u \in Thread \ {t} : event'[u] = event[u]
  <2>1. event' = WithTime(event, t, tsc)
    BY <1>4 DEF BuildEvent, WithTime
  <2>2. QED
    BY <1>1, <2>1, TimestampSet
<1>5. QED
  BY <1>2, <1>3, <1>4

\* AllocReturns writes no more than the outcome of the request.
WithOutcome(req, t, b) == [req EXCEPT ![t].ok = b]

LEMMA OutcomeSet ==
    ASSUME Typed, NEW t \in Thread, NEW b \in BOOLEAN
    PROVE  /\ WithOutcome(request, t, b) \in [Thread -> [fn : AllocFn, size : SizeOrZero, ok : BOOLEAN]]
           /\ \A u \in Thread : /\ WithOutcome(request, t, b)[u].fn = request[u].fn
                                /\ WithOutcome(request, t, b)[u].size = request[u].size
<1> DEFINE e == [fn |-> request[t].fn, size |-> request[t].size, ok |-> b]
<1>1. request \in [Thread -> [fn : AllocFn, size : SizeOrZero, ok : BOOLEAN]]
  BY DEF Typed
<1>2. e \in [fn : AllocFn, size : SizeOrZero, ok : BOOLEAN] /\ [request[t] EXCEPT !.ok = b] = e
  BY <1>1
<1>3. WithOutcome(request, t, b) = [request EXCEPT ![t] = e]
  BY <1>2 DEF WithOutcome
<1>4. QED
  BY <1>1, <1>2, <1>3

\* Each step of the analysis functions keeps the types.
LEMMA TypedStep == Typed /\ [Next]_vars => Typed'
<1> SUFFICES ASSUME Typed, [Next]_vars PROVE Typed'
  OBVIOUS
<1> USE ThreadAssumption, OpsAssumption
    DEF Typed, SizeOrZero, PC, Kind, AllocFn, Goto, dumperVars, memVars, appVars
<1>1. ASSUME NEW t \in Thread, NEW kind \in Kind, Instrumented(t, kind) PROVE Typed'
  <2>1. event' \in [Thread -> Event]
    BY <1>1, EventSteps
  <2>2. QED
    BY <1>1, <2>1 DEF Instrumented
<1>2. ASSUME NEW t \in Thread, NEW f \in AllocFn, NEW size \in Size, AllocCalled(t, f, size) PROVE Typed'
  BY <1>2 DEF AllocCalled
<1>3. ASSUME NEW t \in Thread, NEW ok \in BOOLEAN, AllocReturns(t, ok) PROVE Typed'
  <2>1. request' = WithOutcome(request, t, ok)
    BY <1>3 DEF AllocReturns, WithOutcome
  <2>2. request' \in [Thread -> [fn : AllocFn, size : SizeOrZero, ok : BOOLEAN]]
    BY <2>1, OutcomeSet
  <2>3. QED
    BY <1>3, <2>2 DEF AllocReturns
<1>4. ASSUME NEW t \in Thread, ProgramExits(t) PROVE Typed'
  BY <1>4 DEF ProgramExits
<1>5. ASSUME NEW t \in Thread, GetMemLock(t, "memBefore", "setSize") PROVE Typed'
  BY <1>5 DEF GetMemLock
<1>6. ASSUME NEW t \in Thread, SetSizeRequested(t) PROVE Typed'
  BY <1>6 DEF SetSizeRequested, InFlight
<1>7. ASSUME NEW t \in Thread, ReleaseMemLock(t, "relBefore", "libc") PROVE Typed'
  BY <1>7 DEF ReleaseMemLock
<1>8. ASSUME NEW t \in Thread, GetMemLock(t, "memAfter", "testSize") PROVE Typed'
  BY <1>8 DEF GetMemLock
<1>9. ASSUME NEW t \in Thread, TestSizeRequested(t) PROVE Typed'
  <2>1. event' \in [Thread -> Event]
    BY <1>9, EventSteps
  <2>2. QED
    BY <1>9, <2>1 DEF TestSizeRequested
<1>10. ASSUME NEW t \in Thread, ZeroSizeRequested(t) PROVE Typed'
  BY <1>10 DEF ZeroSizeRequested
<1>11. ASSUME NEW t \in Thread, ReleaseMemLock(t, "relAfter", "app") PROVE Typed'
  BY <1>11 DEF ReleaseMemLock
<1>12. ASSUME NEW t \in Thread, GetLock(t) PROVE Typed'
  BY <1>12 DEF GetLock
<1>13. ASSUME NEW t \in Thread, BuildEvent(t) PROVE Typed'
  <2>1. event' \in [Thread -> Event]
    BY <1>13, EventSteps
  <2>2. QED
    BY <1>13, <2>1 DEF BuildEvent
<1>14. ASSUME NEW t \in Thread, AddEvent(t) PROVE Typed'
  BY <1>14 DEF AddEvent
<1>15. ASSUME NEW t \in Thread, Dump(t) PROVE Typed'
  BY <1>15 DEF Dump
<1>16. ASSUME NEW t \in Thread, DumpReturns(t) PROVE Typed'
  BY <1>16 DEF DumpReturns
<1>17. ASSUME NEW t \in Thread, ReleaseLock(t) PROVE Typed'
  BY <1>17 DEF ReleaseLock
<1>18. ASSUME NEW t \in Thread, EnterFini(t) PROVE Typed'
  BY <1>18 DEF EnterFini
<1>19. ASSUME NEW t \in Thread, Fini(t) PROVE Typed'
  BY <1>19 DEF Fini
<1>20. ASSUME NEW t \in Thread, Exit(t) PROVE Typed'
  BY <1>20 DEF Exit
<1>21. CASE Saver
  BY <1>21 DEF Saver
<1>22. CASE UNCHANGED vars
  BY <1>22 DEF vars
<1> HIDE DEF Typed, SizeOrZero, PC, Kind, AllocFn, Goto, dumperVars, memVars, appVars
<1>23. QED
  BY <1>1, <1>2, <1>3, <1>4, <1>5, <1>6, <1>7, <1>8, <1>9, <1>10, <1>11, <1>12, <1>13, <1>14, <1>15, <1>16, <1>17, <1>18, <1>19, <1>20, <1>21, <1>22
  DEF Next, App, Mem, Handler
-----------------------------------------------------------------------------
(* The dumper below the locks.  Dumper and DumperProofs name the same module *)
(* twice, once without and once with what is proved of it.                   *)

LEMMA SameInit == Dumper!Init <=> DumperProofs!Init
  BY DEF Dumper!Init, DumperProofs!Init

LEMMA SameNext == [Dumper!Next]_(Dumper!vars) <=> [DumperProofs!Next]_(DumperProofs!vars)
  BY DEF Dumper!AddEvent, DumperProofs!AddEvent, Dumper!WaitSaved, DumperProofs!WaitSaved,
         Dumper!ClearSaved, DumperProofs!ClearSaved, Dumper!Swap, DumperProofs!Swap,
         Dumper!SetFilled, DumperProofs!SetFilled, Dumper!HandBlockOver,
         DumperProofs!HandBlockOver, Dumper!Finalize, DumperProofs!Finalize,
         Dumper!SetFinished, DumperProofs!SetFinished, Dumper!ReturnEventManager,
         DumperProofs!ReturnEventManager, Dumper!FinalizeSteps, DumperProofs!FinalizeSteps,
         Dumper!Destroy, DumperProofs!Destroy, Dumper!ProcessExit, DumperProofs!ProcessExit,
         Dumper!SaverWaitFilled, DumperProofs!SaverWaitFilled, Dumper!SaverClearFilled,
         DumperProofs!SaverClearFilled, Dumper!SaverWrite, DumperProofs!SaverWrite,
         Dumper!SaverCount, DumperProofs!SaverCount, Dumper!SaverEmpty,
         DumperProofs!SaverEmpty, Dumper!SaverSetSaved, DumperProofs!SaverSetSaved,
         Dumper!SaverCheck, DumperProofs!SaverCheck, Dumper!SaverClose,
         DumperProofs!SaverClose, Dumper!Saver, DumperProofs!Saver, Dumper!Caller,
         DumperProofs!Caller, Dumper!Next, DumperProofs!Next, Dumper!vars,
         DumperProofs!vars, Dumper!callerVars, DumperProofs!callerVars, Dumper!saverVars,
         DumperProofs!saverVars, Dumper!AsInt, DumperProofs!AsInt, Dumper!ToSet,
         DumperProofs!ToSet

LEMMA SameTypeOK == Dumper!TypeOK <=> DumperProofs!TypeOK
  BY DEF Dumper!TypeOK, DumperProofs!TypeOK, Dumper!CallerPC, DumperProofs!CallerPC,
         Dumper!SaverPC, DumperProofs!SaverPC

LEMMA SameSpec == Dumper!Spec <=> DumperProofs!Spec
  BY SameInit, SameNext, PTL DEF Dumper!Spec, DumperProofs!Spec

LEMMA InitTyped == Init => Typed
<1> SUFFICES ASSUME Init PROVE Typed
  OBVIOUS
<1>1. sizeRequested \in [AllocFn -> SizeOrZero]
  BY DEF Init, SizeOrZero
<1>2. pc \in [Thread -> PC]
  BY DEF Init, PC
<1>3. event \in [Thread -> Event]
  BY DEF Init, Event, Kind, SizeOrZero
<1>4. request \in [Thread -> [fn : AllocFn, size : SizeOrZero, ok : BOOLEAN]]
  BY DEF Init, AllocFn, SizeOrZero
<1>5. ops \in [Thread -> 0 .. MaxOps]
  BY OpsAssumption DEF Init
<1>6. QED
  BY <1>1, <1>2, <1>3, <1>4, <1>5 DEF Init, Typed

LEMMA TypedInvariant == Spec => []Typed
<1> QED
  BY InitTyped, TypedStep, PTL DEF Spec

\* Whatever a thread does, the dumper below makes a step of its own or none.
LEMMA DumperStep == Typed /\ [Next]_vars => [Dumper!Next]_(Dumper!vars)
<1> SUFFICES ASSUME Typed, [Next]_vars PROVE [Dumper!Next]_(Dumper!vars)
  OBVIOUS
<1> USE DEF Dumper!Next, Dumper!Caller, dumperVars, Dumper!vars
<1>1. ASSUME NEW t \in Thread, NEW kind \in Kind, Instrumented(t, kind) PROVE [Dumper!Next]_(Dumper!vars)
  BY <1>1 DEF Instrumented
<1>2. ASSUME NEW t \in Thread, NEW f \in AllocFn, NEW size \in Size, AllocCalled(t, f, size) PROVE [Dumper!Next]_(Dumper!vars)
  BY <1>2 DEF AllocCalled
<1>3. ASSUME NEW t \in Thread, NEW ok \in BOOLEAN, AllocReturns(t, ok) PROVE [Dumper!Next]_(Dumper!vars)
  BY <1>3 DEF AllocReturns
<1>4. ASSUME NEW t \in Thread, ProgramExits(t) PROVE [Dumper!Next]_(Dumper!vars)
  BY <1>4 DEF ProgramExits
<1>5. ASSUME NEW t \in Thread, GetMemLock(t, "memBefore", "setSize") PROVE [Dumper!Next]_(Dumper!vars)
  BY <1>5 DEF GetMemLock
<1>6. ASSUME NEW t \in Thread, SetSizeRequested(t) PROVE [Dumper!Next]_(Dumper!vars)
  BY <1>6 DEF SetSizeRequested
<1>7. ASSUME NEW t \in Thread, ReleaseMemLock(t, "relBefore", "libc") PROVE [Dumper!Next]_(Dumper!vars)
  BY <1>7 DEF ReleaseMemLock
<1>8. ASSUME NEW t \in Thread, GetMemLock(t, "memAfter", "testSize") PROVE [Dumper!Next]_(Dumper!vars)
  BY <1>8 DEF GetMemLock
<1>9. ASSUME NEW t \in Thread, TestSizeRequested(t) PROVE [Dumper!Next]_(Dumper!vars)
  BY <1>9 DEF TestSizeRequested
<1>10. ASSUME NEW t \in Thread, ZeroSizeRequested(t) PROVE [Dumper!Next]_(Dumper!vars)
  BY <1>10 DEF ZeroSizeRequested
<1>11. ASSUME NEW t \in Thread, ReleaseMemLock(t, "relAfter", "app") PROVE [Dumper!Next]_(Dumper!vars)
  BY <1>11 DEF ReleaseMemLock
<1>12. ASSUME NEW t \in Thread, GetLock(t) PROVE [Dumper!Next]_(Dumper!vars)
  BY <1>12 DEF GetLock
<1>13. ASSUME NEW t \in Thread, BuildEvent(t) PROVE [Dumper!Next]_(Dumper!vars)
  BY <1>13 DEF BuildEvent
<1>14. ASSUME NEW t \in Thread, AddEvent(t) PROVE [Dumper!Next]_(Dumper!vars)
  BY <1>14 DEF AddEvent, Typed
<1>15. ASSUME NEW t \in Thread, Dump(t) PROVE [Dumper!Next]_(Dumper!vars)
  BY <1>15 DEF Dump
<1>16. ASSUME NEW t \in Thread, DumpReturns(t) PROVE [Dumper!Next]_(Dumper!vars)
  BY <1>16 DEF DumpReturns
<1>17. ASSUME NEW t \in Thread, ReleaseLock(t) PROVE [Dumper!Next]_(Dumper!vars)
  BY <1>17 DEF ReleaseLock
<1>18. ASSUME NEW t \in Thread, EnterFini(t) PROVE [Dumper!Next]_(Dumper!vars)
  BY <1>18 DEF EnterFini
<1>19. ASSUME NEW t \in Thread, Fini(t) PROVE [Dumper!Next]_(Dumper!vars)
  BY <1>19 DEF Fini
<1>20. ASSUME NEW t \in Thread, Exit(t) PROVE [Dumper!Next]_(Dumper!vars)
  BY <1>20 DEF Exit
<1>21. CASE Saver
  BY <1>21 DEF Saver
<1>22. CASE UNCHANGED vars
  BY <1>22 DEF vars
<1> HIDE DEF Dumper!Next, Dumper!Caller, dumperVars, Dumper!vars
<1>23. QED
  BY <1>1, <1>2, <1>3, <1>4, <1>5, <1>6, <1>7, <1>8, <1>9, <1>10, <1>11, <1>12, <1>13, <1>14, <1>15, <1>16, <1>17, <1>18, <1>19, <1>20, <1>21, <1>22
  DEF Next, App, Mem, Handler
-----------------------------------------------------------------------------
(* The locks, and the dumper's caller between them *)

\* Every step keeps the discipline of the two locks.
LEMMA LocksStep == Typed /\ Locks /\ [Next]_vars => Locks'
<1> SUFFICES ASSUME Typed, Locks, [Next]_vars PROVE Locks'
  OBVIOUS
<1> USE ThreadAssumption
    DEF Typed, PC, Locks, Reporting, Goto, memVars, appVars
<1>1. ASSUME NEW t \in Thread, NEW kind \in Kind, Instrumented(t, kind) PROVE Locks'
  BY <1>1 DEF Instrumented
<1>2. ASSUME NEW t \in Thread, NEW f \in AllocFn, NEW size \in Size, AllocCalled(t, f, size) PROVE Locks'
  BY <1>2 DEF AllocCalled
<1>3. ASSUME NEW t \in Thread, NEW ok \in BOOLEAN, AllocReturns(t, ok) PROVE Locks'
  BY <1>3 DEF AllocReturns
<1>4. ASSUME NEW t \in Thread, ProgramExits(t) PROVE Locks'
  BY <1>4 DEF ProgramExits
<1>5. ASSUME NEW t \in Thread, GetMemLock(t, "memBefore", "setSize") PROVE Locks'
  BY <1>5 DEF GetMemLock
<1>6. ASSUME NEW t \in Thread, SetSizeRequested(t) PROVE Locks'
  BY <1>6 DEF SetSizeRequested
<1>7. ASSUME NEW t \in Thread, ReleaseMemLock(t, "relBefore", "libc") PROVE Locks'
  BY <1>7 DEF ReleaseMemLock
<1>8. ASSUME NEW t \in Thread, GetMemLock(t, "memAfter", "testSize") PROVE Locks'
  BY <1>8 DEF GetMemLock
<1>9. ASSUME NEW t \in Thread, TestSizeRequested(t) PROVE Locks'
  <2>1. /\ event' \in [Thread -> Event]
        /\ \A u \in Thread \ {t} : event'[u] = event[u]
        /\ \/ pc' = [pc EXCEPT ![t] = "relAfter"] /\ UNCHANGED event
           \/ pc' = [pc EXCEPT ![t] = "getLock"] /\ event'[t].kind = "Alloc"
    BY <1>9, EventSteps
  <2>2. pc[t] = "testSize" /\ UNCHANGED <<lock, memLock>>
    BY <1>9 DEF TestSizeRequested
  <2>3. QED
    BY <2>1, <2>2
<1>10. ASSUME NEW t \in Thread, ZeroSizeRequested(t) PROVE Locks'
  BY <1>10 DEF ZeroSizeRequested
<1>11. ASSUME NEW t \in Thread, ReleaseMemLock(t, "relAfter", "app") PROVE Locks'
  BY <1>11 DEF ReleaseMemLock
<1>12. ASSUME NEW t \in Thread, GetLock(t) PROVE Locks'
  BY <1>12 DEF GetLock
<1>13. ASSUME NEW t \in Thread, BuildEvent(t) PROVE Locks'
  BY <1>13 DEF BuildEvent
<1>14. ASSUME NEW t \in Thread, AddEvent(t) PROVE Locks'
  BY <1>14 DEF AddEvent
<1>15. ASSUME NEW t \in Thread, Dump(t) PROVE Locks'
  BY <1>15 DEF Dump
<1>16. ASSUME NEW t \in Thread, DumpReturns(t) PROVE Locks'
  BY <1>16 DEF DumpReturns
<1>17. ASSUME NEW t \in Thread, ReleaseLock(t) PROVE Locks'
  BY <1>17 DEF ReleaseLock
<1>18. ASSUME NEW t \in Thread, EnterFini(t) PROVE Locks'
  BY <1>18 DEF EnterFini
<1>19. ASSUME NEW t \in Thread, Fini(t) PROVE Locks'
  BY <1>19 DEF Fini
<1>20. ASSUME NEW t \in Thread, Exit(t) PROVE Locks'
  BY <1>20 DEF Exit
<1>21. CASE Saver
  BY <1>21 DEF Saver
<1>22. CASE UNCHANGED vars
  BY <1>22 DEF vars
<1> HIDE DEF Typed, PC, Locks, Reporting, Goto, memVars, appVars
<1>23. QED
  BY <1>1, <1>2, <1>3, <1>4, <1>5, <1>6, <1>7, <1>8, <1>9, <1>10, <1>11, <1>12, <1>13,
     <1>14, <1>15, <1>16, <1>17, <1>18, <1>19, <1>20, <1>21, <1>22
  DEF Next, App, Mem, Handler

\* The caller's place in the dumper and the threads' places go together.
LEMMA InsideDumperStep == Typed /\ Dumper!TypeOK /\ Locks /\ InsideDumper /\ [Next]_vars => InsideDumper'
<1> SUFFICES ASSUME Typed, Dumper!TypeOK, Locks, InsideDumper, [Next]_vars PROVE InsideDumper'
  OBVIOUS
<1> USE ThreadAssumption
    DEF Typed, PC, Locks, InsideDumper, Goto, dumperVars, memVars, appVars
<1>1. ASSUME NEW t \in Thread, NEW kind \in Kind, Instrumented(t, kind) PROVE InsideDumper'
  BY <1>1 DEF Instrumented
<1>2. ASSUME NEW t \in Thread, NEW f \in AllocFn, NEW size \in Size, AllocCalled(t, f, size) PROVE InsideDumper'
  BY <1>2 DEF AllocCalled
<1>3. ASSUME NEW t \in Thread, NEW ok \in BOOLEAN, AllocReturns(t, ok) PROVE InsideDumper'
  BY <1>3 DEF AllocReturns
<1>4. ASSUME NEW t \in Thread, ProgramExits(t) PROVE InsideDumper'
  BY <1>4 DEF ProgramExits, Dumper!Finalize
<1>5. ASSUME NEW t \in Thread, GetMemLock(t, "memBefore", "setSize") PROVE InsideDumper'
  BY <1>5 DEF GetMemLock
<1>6. ASSUME NEW t \in Thread, SetSizeRequested(t) PROVE InsideDumper'
  BY <1>6 DEF SetSizeRequested
<1>7. ASSUME NEW t \in Thread, ReleaseMemLock(t, "relBefore", "libc") PROVE InsideDumper'
  BY <1>7 DEF ReleaseMemLock
<1>8. ASSUME NEW t \in Thread, GetMemLock(t, "memAfter", "testSize") PROVE InsideDumper'
  BY <1>8 DEF GetMemLock
<1>9. ASSUME NEW t \in Thread, TestSizeRequested(t) PROVE InsideDumper'
  BY <1>9 DEF TestSizeRequested
<1>10. ASSUME NEW t \in Thread, ZeroSizeRequested(t) PROVE InsideDumper'
  BY <1>10 DEF ZeroSizeRequested
<1>11. ASSUME NEW t \in Thread, ReleaseMemLock(t, "relAfter", "app") PROVE InsideDumper'
  BY <1>11 DEF ReleaseMemLock
<1>12. ASSUME NEW t \in Thread, GetLock(t) PROVE InsideDumper'
  BY <1>12 DEF GetLock
<1>13. ASSUME NEW t \in Thread, BuildEvent(t) PROVE InsideDumper'
  BY <1>13 DEF BuildEvent
<1>14. ASSUME NEW t \in Thread, AddEvent(t) PROVE InsideDumper'
  BY <1>14 DEF AddEvent, Dumper!AddEvent, Dumper!saverVars
<1>15. ASSUME NEW t \in Thread, Dump(t) PROVE InsideDumper'
  BY <1>15 DEF Dump, Dumper!HandBlockOver, Dumper!WaitSaved, Dumper!ClearSaved, Dumper!Swap,
                Dumper!SetFilled, Dumper!saverVars
<1>16. ASSUME NEW t \in Thread, DumpReturns(t) PROVE InsideDumper'
  BY <1>16 DEF DumpReturns
<1>17. ASSUME NEW t \in Thread, ReleaseLock(t) PROVE InsideDumper'
  BY <1>17 DEF ReleaseLock
<1>18. ASSUME NEW t \in Thread, EnterFini(t) PROVE InsideDumper'
  BY <1>18 DEF EnterFini, Dumper!Finalize
<1>19. ASSUME NEW t \in Thread, Fini(t) PROVE InsideDumper'
  BY <1>19 DEF Fini, Dumper!FinalizeSteps, Dumper!WaitSaved, Dumper!ClearSaved, Dumper!Swap,
                Dumper!SetFilled, Dumper!SetFinished, Dumper!ReturnEventManager, Dumper!Destroy
<1>20. ASSUME NEW t \in Thread, Exit(t) PROVE InsideDumper'
  BY <1>20 DEF Exit, Dumper!ProcessExit
<1>21. CASE Saver
  BY <1>21 DEF Saver, Dumper!Saver, Dumper!SaverWaitFilled, Dumper!SaverClearFilled, Dumper!SaverWrite,
              Dumper!SaverCount, Dumper!SaverEmpty, Dumper!SaverSetSaved, Dumper!SaverCheck,
              Dumper!SaverClose, Dumper!callerVars
<1>22. CASE UNCHANGED vars
  BY <1>22 DEF vars
<1> HIDE DEF Typed, PC, Locks, InsideDumper, Goto, dumperVars, memVars, appVars
<1>23. QED
  BY <1>1, <1>2, <1>3, <1>4, <1>5, <1>6, <1>7, <1>8, <1>9, <1>10, <1>11, <1>12, <1>13,
     <1>14, <1>15, <1>16, <1>17, <1>18, <1>19, <1>20, <1>21, <1>22
  DEF Next, App, Mem, Handler

-----------------------------------------------------------------------------
(* What is recorded *)

\* Of the dumper's operations addEvent alone records.
LEMMA RecordedKept ==
    Dumper!HandBlockOver \/ Dumper!Finalize \/ Dumper!FinalizeSteps \/ Dumper!Destroy
      \/ Dumper!ProcessExit \/ Dumper!Saver => UNCHANGED recorded
  BY DEF Dumper!HandBlockOver, Dumper!WaitSaved, Dumper!ClearSaved, Dumper!Swap,
         Dumper!SetFilled, Dumper!Finalize, Dumper!FinalizeSteps, Dumper!SetFinished,
         Dumper!ReturnEventManager, Dumper!Destroy, Dumper!ProcessExit, Dumper!Saver,
         Dumper!SaverWaitFilled, Dumper!SaverClearFilled, Dumper!SaverWrite,
         Dumper!SaverCount, Dumper!SaverEmpty, Dumper!SaverSetSaved, Dumper!SaverCheck,
         Dumper!SaverClose, Dumper!callerVars

\* A thread in ExecContext::addEvent records its event or, outside of main, drops it.
LEMMA RecordedGrows ==
    ASSUME Typed, Dumper!TypeOK, NEW t \in Thread, AddEvent(t)
    PROVE  /\ recorded \in Seq(Event) /\ Len(recorded) \in Nat /\ event[t] \in Event
           /\ \/ /\ UNCHANGED recorded /\ ~profilingEnabled'
                 /\ event[t].kind # "MainRet" /\ pc' = [pc EXCEPT ![t] = "release"]
              \/ /\ \/ profilingEnabled' /\ event[t].kind # "MainRet" /\ pc' = [pc EXCEPT ![t] = "dump"]
                    \/ event[t].kind = "MainRet" /\ pc' = [pc EXCEPT ![t] = "dumpLast"]
                 /\ recorded' = Append(recorded, event[t])
                 /\ Len(recorded') = Len(recorded) + 1
                 /\ recorded'[Len(recorded) + 1] = event[t]
                 /\ \A i \in 1 .. Len(recorded) : recorded'[i] = recorded[i]
<1>1. recorded \in Seq(Event) /\ Len(recorded) \in Nat /\ event[t] \in Event
  BY LenProperties DEF Dumper!TypeOK, Typed
<1>2. CASE Dumper!AddEvent(event[t])
  <2>1. recorded' = Append(recorded, event[t])
    BY <1>2 DEF Dumper!AddEvent
  <2>2. /\ Len(recorded') = Len(recorded) + 1
        /\ recorded'[Len(recorded) + 1] = event[t]
        /\ \A i \in 1 .. Len(recorded) : recorded'[i] = recorded[i]
    BY <1>1, <2>1, AppendProperties
  <2>3. \/ profilingEnabled' /\ event[t].kind # "MainRet" /\ pc' = [pc EXCEPT ![t] = "dump"]
        \/ event[t].kind = "MainRet" /\ pc' = [pc EXCEPT ![t] = "dumpLast"]
        \/ UNCHANGED recorded
    BY DEF AddEvent, Goto, dumperVars
  <2>4. recorded' # recorded
    BY <1>1, <2>2
  <2>5. QED
    BY <1>1, <2>1, <2>2, <2>3, <2>4
<1>3. CASE ~Dumper!AddEvent(event[t])
  BY <1>1, <1>3 DEF AddEvent, Goto, dumperVars
<1>4. QED
  BY <1>2, <1>3

\* The time stamps of what is recorded stay in order.
LEMMA StampedStep == Typed /\ Dumper!TypeOK /\ Locks /\ Stamped /\ RecordedInTimeOrder /\ [Next]_vars => Stamped' /\ RecordedInTimeOrder'
<1> SUFFICES ASSUME Typed, Dumper!TypeOK, Locks, Stamped, RecordedInTimeOrder, [Next]_vars PROVE Stamped' /\ RecordedInTimeOrder'
  OBVIOUS
<1> DEFINE StampsInNat == tsc \in Nat /\ \A i \in 1 .. Len(recorded) : recorded[i].timestamp \in Nat
<1>a. StampsInNat
  <2>1. recorded \in Seq(Event) /\ tsc \in Nat
    BY DEF Typed, Dumper!TypeOK
  <2>2. \A i \in 1 .. Len(recorded) : recorded[i] \in Event
    BY <2>1, ElementOfSeq
  <2>3. \A e \in Event : e.timestamp \in Nat
    BY DEF Event
  <2>4. QED
    BY <2>1, <2>2, <2>3
<1> USE ThreadAssumption
    DEF Stamped, RecordedInTimeOrder, Goto, dumperVars, memVars, appVars
<1>1. ASSUME NEW t \in Thread, NEW kind \in Kind, Instrumented(t, kind) PROVE Stamped' /\ RecordedInTimeOrder'
  <2>1. /\ event' \in [Thread -> Event]
        /\ \A u \in Thread \ {t} : event'[u] = event[u]
    BY <1>1, EventSteps
  <2>2. pc' = [pc EXCEPT ![t] = "getLock"] /\ UNCHANGED <<recorded, tsc>>
    BY <1>1 DEF Instrumented
  <2>3. QED
    BY <2>1, <2>2 DEF Typed
<1>2. ASSUME NEW t \in Thread, NEW f \in AllocFn, NEW size \in Size, AllocCalled(t, f, size) PROVE Stamped' /\ RecordedInTimeOrder'
  BY <1>2 DEF AllocCalled, Typed
<1>3. ASSUME NEW t \in Thread, NEW ok \in BOOLEAN, AllocReturns(t, ok) PROVE Stamped' /\ RecordedInTimeOrder'
  BY <1>3 DEF AllocReturns, Typed
<1>4. ASSUME NEW t \in Thread, ProgramExits(t) PROVE Stamped' /\ RecordedInTimeOrder'
  <2>1. UNCHANGED <<recorded, tsc, event>> /\ \A u \in Thread : pc'[u] # "addEvent"
    BY <1>4, RecordedKept DEF ProgramExits
  <2>2. QED
    BY <2>1
<1>5. ASSUME NEW t \in Thread, GetMemLock(t, "memBefore", "setSize") PROVE Stamped' /\ RecordedInTimeOrder'
  BY <1>5 DEF GetMemLock, Typed
<1>6. ASSUME NEW t \in Thread, SetSizeRequested(t) PROVE Stamped' /\ RecordedInTimeOrder'
  BY <1>6 DEF SetSizeRequested, Typed
<1>7. ASSUME NEW t \in Thread, ReleaseMemLock(t, "relBefore", "libc") PROVE Stamped' /\ RecordedInTimeOrder'
  BY <1>7 DEF ReleaseMemLock, Typed
<1>8. ASSUME NEW t \in Thread, GetMemLock(t, "memAfter", "testSize") PROVE Stamped' /\ RecordedInTimeOrder'
  BY <1>8 DEF GetMemLock, Typed
<1>9. ASSUME NEW t \in Thread, TestSizeRequested(t) PROVE Stamped' /\ RecordedInTimeOrder'
  <2>1. /\ event' \in [Thread -> Event]
        /\ \A u \in Thread \ {t} : event'[u] = event[u]
        /\ \/ pc' = [pc EXCEPT ![t] = "relAfter"] /\ UNCHANGED event
           \/ pc' = [pc EXCEPT ![t] = "getLock"] /\ event'[t].kind = "Alloc"
    BY <1>9, EventSteps
  <2>2. UNCHANGED <<recorded, tsc>>
    BY <1>9 DEF TestSizeRequested
  <2>3. QED
    BY <2>1, <2>2 DEF Typed
<1>10. ASSUME NEW t \in Thread, ZeroSizeRequested(t) PROVE Stamped' /\ RecordedInTimeOrder'
  BY <1>10 DEF ZeroSizeRequested, Typed
<1>11. ASSUME NEW t \in Thread, ReleaseMemLock(t, "relAfter", "app") PROVE Stamped' /\ RecordedInTimeOrder'
  BY <1>11 DEF ReleaseMemLock, Typed
<1>12. ASSUME NEW t \in Thread, GetLock(t) PROVE Stamped' /\ RecordedInTimeOrder'
  BY <1>12 DEF GetLock, Typed
<1>13. ASSUME NEW t \in Thread, BuildEvent(t) PROVE Stamped' /\ RecordedInTimeOrder'
  <2>1. /\ event' \in [Thread -> Event]
        /\ event'[t].timestamp = tsc
        /\ \A u \in Thread \ {t} : event'[u] = event[u]
    BY <1>13, EventSteps
  <2>2. /\ pc' = [pc EXCEPT ![t] = "addEvent"] /\ pc[t] = "build"
        /\ UNCHANGED recorded /\ tsc' = tsc + 1
    BY <1>13 DEF BuildEvent
  <2>3. \A u \in Thread : pc'[u] = "addEvent" => u = t
    BY <2>2 DEF Typed, Locks
  <2>4. tsc \in Nat /\ \A i \in 1 .. Len(recorded) : recorded[i].timestamp \in Nat
    BY <1>a
  <2>5. QED
    BY <2>1, <2>2, <2>3, <2>4
<1>14. ASSUME NEW t \in Thread, AddEvent(t) PROVE Stamped' /\ RecordedInTimeOrder'
  <2>1. UNCHANGED <<tsc, event>> /\ pc[t] = "addEvent"
    BY <1>14 DEF AddEvent
  <2>2. \A u \in Thread : pc'[u] # "addEvent"
    <3>1. \E to \in {"release", "dump", "dumpLast"} : pc' = [pc EXCEPT ![t] = to]
      BY <1>14 DEF AddEvent
    <3>2. QED
      BY <2>1, <3>1 DEF Typed, Locks
  <2>3. CASE UNCHANGED recorded
    BY <2>1, <2>2, <2>3
  <2>4. CASE ~UNCHANGED recorded
    <3>1. /\ Len(recorded) \in Nat /\ Len(recorded') = Len(recorded) + 1
          /\ recorded'[Len(recorded) + 1] = event[t]
          /\ \A i \in 1 .. Len(recorded) : recorded'[i] = recorded[i]
      BY <1>14, <2>4, RecordedGrows
    <3>2. \A i \in 1 .. Len(recorded') : i \in 1 .. Len(recorded) \/ i = Len(recorded) + 1
      BY <3>1
    <3>3. /\ event[t].timestamp < tsc
          /\ \A i \in 1 .. Len(recorded) : recorded[i].timestamp < event[t].timestamp
      BY <2>1
    <3>4. Stamped'
      BY <2>1, <2>2, <3>1, <3>2, <3>3
    <3>5. ASSUME NEW i \in 1 .. Len(recorded'), NEW j \in 1 .. Len(recorded'), i < j
          PROVE  recorded'[i].timestamp < recorded'[j].timestamp
      <4>1. i \in 1 .. Len(recorded)
        BY <3>1, <3>5
      <4>2. QED
        BY <3>1, <3>2, <3>3, <3>5, <4>1
    <3>6. QED
      BY <3>4, <3>5
  <2>5. QED
    BY <2>3, <2>4
<1>15. ASSUME NEW t \in Thread, Dump(t) PROVE Stamped' /\ RecordedInTimeOrder'
  <2>1. UNCHANGED <<recorded, tsc, event, pc>>
    BY <1>15, RecordedKept DEF Dump
  <2>2. QED
    BY <2>1
<1>16. ASSUME NEW t \in Thread, DumpReturns(t) PROVE Stamped' /\ RecordedInTimeOrder'
  BY <1>16 DEF DumpReturns, Typed
<1>17. ASSUME NEW t \in Thread, ReleaseLock(t) PROVE Stamped' /\ RecordedInTimeOrder'
  BY <1>17 DEF ReleaseLock, Typed
<1>18. ASSUME NEW t \in Thread, EnterFini(t) PROVE Stamped' /\ RecordedInTimeOrder'
  <2>1. UNCHANGED <<recorded, tsc, event>> /\ pc' = [pc EXCEPT ![t] = "fini"]
    BY <1>18, RecordedKept DEF EnterFini
  <2>2. QED
    BY <2>1 DEF Typed
<1>19. ASSUME NEW t \in Thread, Fini(t) PROVE Stamped' /\ RecordedInTimeOrder'
  <2>1. UNCHANGED <<recorded, tsc, event, pc>>
    BY <1>19, RecordedKept DEF Fini
  <2>2. QED
    BY <2>1
<1>20. ASSUME NEW t \in Thread, Exit(t) PROVE Stamped' /\ RecordedInTimeOrder'
  <2>1. UNCHANGED <<recorded, tsc, event>> /\ \A u \in Thread : pc'[u] # "addEvent"
    BY <1>20, RecordedKept DEF Exit
  <2>2. QED
    BY <2>1
<1>21. CASE Saver
  <2>1. UNCHANGED <<recorded, tsc, event, pc>>
    BY <1>21, RecordedKept DEF Saver
  <2>2. QED
    BY <2>1
<1>22. CASE UNCHANGED vars
  BY <1>22 DEF vars
<1> HIDE DEF Stamped, RecordedInTimeOrder, Goto, dumperVars, memVars, appVars
<1>23. QED
  BY <1>1, <1>2, <1>3, <1>4, <1>5, <1>6, <1>7, <1>8, <1>9, <1>10, <1>11, <1>12, <1>13,
     <1>14, <1>15, <1>16, <1>17, <1>18, <1>19, <1>20, <1>21, <1>22
  DEF Next, App, Mem, Handler

-----------------------------------------------------------------------------
(* The run of main *)

\* The Call of main starts the log and nothing but main's Ret follows main.
LEMMA MainRunStep == Typed /\ Dumper!TypeOK /\ Locks /\ MainRun /\ LastIsRet /\ [Next]_vars => MainRun'
<1> SUFFICES ASSUME Typed, Dumper!TypeOK, Locks, MainRun, LastIsRet, [Next]_vars PROVE MainRun'
  OBVIOUS
<1> USE ThreadAssumption
    DEF Typed, Locks, PC, MainRun, LastIsRet, Reporting, Goto, dumperVars, memVars, appVars
<1>1. ASSUME NEW t \in Thread, NEW kind \in Kind, Instrumented(t, kind) PROVE MainRun'
  <2>1. /\ event' \in [Thread -> Event] /\ event'[t].kind = kind
        /\ \A u \in Thread \ {t} : event'[u] = event[u]
    BY <1>1, EventSteps
  <2>2. /\ pc[t] = "app" /\ pc' = [pc EXCEPT ![t] = "getLock"]
        /\ UNCHANGED <<recorded, profilingEnabled, lock>>
        /\ \/ kind = "MainCall" /\ t = MainThread /\ mainPhase = "before" /\ mainPhase' = "running"
           \/ kind = "MainRet" /\ t = MainThread /\ mainPhase = "running" /\ mainPhase' = "returned"
           \/ kind = "Other" /\ mainPhase' = mainPhase
    BY <1>1 DEF Instrumented
  <2>3. QED
    BY <2>1, <2>2
<1>2. ASSUME NEW t \in Thread, NEW f \in AllocFn, NEW size \in Size, AllocCalled(t, f, size) PROVE MainRun'
  BY <1>2 DEF AllocCalled
<1>3. ASSUME NEW t \in Thread, NEW ok \in BOOLEAN, AllocReturns(t, ok) PROVE MainRun'
  BY <1>3 DEF AllocReturns
<1>4. ASSUME NEW t \in Thread, ProgramExits(t) PROVE MainRun'
  <2>1. /\ \A u \in Thread : pc[u] \in {"app", "libc"}
        /\ pc' = [u \in Thread |-> IF u = t THEN "fini" ELSE "stopped"]
        /\ UNCHANGED <<recorded, profilingEnabled, lock, mainPhase, event>>
    BY <1>4, RecordedKept DEF ProgramExits
  <2>2. QED
    BY <2>1
<1>5. ASSUME NEW t \in Thread, GetMemLock(t, "memBefore", "setSize") PROVE MainRun'
  BY <1>5 DEF GetMemLock
<1>6. ASSUME NEW t \in Thread, SetSizeRequested(t) PROVE MainRun'
  BY <1>6 DEF SetSizeRequested
<1>7. ASSUME NEW t \in Thread, ReleaseMemLock(t, "relBefore", "libc") PROVE MainRun'
  BY <1>7 DEF ReleaseMemLock
<1>8. ASSUME NEW t \in Thread, GetMemLock(t, "memAfter", "testSize") PROVE MainRun'
  BY <1>8 DEF GetMemLock
<1>9. ASSUME NEW t \in Thread, TestSizeRequested(t) PROVE MainRun'
  <2>1. /\ event' \in [Thread -> Event]
        /\ \A u \in Thread \ {t} : event'[u] = event[u]
        /\ \/ pc' = [pc EXCEPT ![t] = "relAfter"] /\ UNCHANGED event
           \/ pc' = [pc EXCEPT ![t] = "getLock"] /\ event'[t].kind = "Alloc"
    BY <1>9, EventSteps
  <2>2. pc[t] = "testSize" /\ UNCHANGED <<recorded, profilingEnabled, lock, mainPhase>>
    BY <1>9 DEF TestSizeRequested
  <2>3. CASE pc' = [pc EXCEPT ![t] = "relAfter"] /\ UNCHANGED event
    BY <2>2, <2>3
  <2>4. CASE pc' = [pc EXCEPT ![t] = "getLock"] /\ event'[t].kind = "Alloc"
    BY <2>1, <2>2, <2>4, SMTT(30)
  <2>5. QED
    BY <2>1, <2>3, <2>4
<1>10. ASSUME NEW t \in Thread, ZeroSizeRequested(t) PROVE MainRun'
  BY <1>10 DEF ZeroSizeRequested
<1>11. ASSUME NEW t \in Thread, ReleaseMemLock(t, "relAfter", "app") PROVE MainRun'
  BY <1>11 DEF ReleaseMemLock
<1>12. ASSUME NEW t \in Thread, GetLock(t) PROVE MainRun'
  BY <1>12 DEF GetLock
<1>13. ASSUME NEW t \in Thread, BuildEvent(t) PROVE MainRun'
  <2>1. /\ event' \in [Thread -> Event] /\ event'[t].kind = event[t].kind
        /\ \A u \in Thread \ {t} : event'[u] = event[u]
    BY <1>13, EventSteps
  <2>2. /\ pc[t] = "build" /\ pc' = [pc EXCEPT ![t] = "addEvent"]
        /\ UNCHANGED <<recorded, profilingEnabled, lock, mainPhase>>
    BY <1>13 DEF BuildEvent
  <2>3. QED
    BY <2>1, <2>2
<1>14. ASSUME NEW t \in Thread, AddEvent(t) PROVE MainRun'
  <2>1. /\ pc[t] = "addEvent" /\ UNCHANGED <<lock, mainPhase, event>>
        /\ profilingEnabled' = (profilingEnabled \/ event[t].kind = "MainCall")
    BY <1>14 DEF AddEvent
  <2>2. CASE UNCHANGED recorded
    <3>1. /\ ~profilingEnabled' /\ event[t].kind # "MainRet"
          /\ pc' = [pc EXCEPT ![t] = "release"]
      BY <1>14, <2>2, RecordedGrows
    <3>2. /\ \A u \in Thread : pc'[u] \in Reporting => pc[u] \in Reporting
          /\ \A u \in Thread : pc'[u] \in {"dumpLast", "fini"} => pc'[u] = pc[u]
          /\ \A u \in Thread : pc[u] = "stopped" => pc'[u] = "stopped"
      BY <2>1, <3>1
    <3>3. /\ ~profilingEnabled /\ event[t].kind # "MainCall"
          /\ mainPhase # "before" => t # MainThread
      BY <2>1, <3>1
    <3>4. pc'[MainThread] = pc[MainThread] \/ mainPhase = "before"
      BY <3>1, <3>3
    <3>5. QED
      BY <2>1, <2>2, <3>1, <3>2, <3>3, <3>4 DEF MainRun
  <2>3. CASE ~UNCHANGED recorded
    <3>1. /\ \/ profilingEnabled' /\ event[t].kind # "MainRet" /\ pc' = [pc EXCEPT ![t] = "dump"]
             \/ event[t].kind = "MainRet" /\ pc' = [pc EXCEPT ![t] = "dumpLast"]
          /\ Len(recorded) \in Nat /\ recorded \in Seq(Event)
          /\ Len(recorded') = Len(recorded) + 1
          /\ recorded'[Len(recorded) + 1] = event[t]
          /\ \A i \in 1 .. Len(recorded) : recorded'[i] = recorded[i]
      BY <1>14, <2>3, RecordedGrows
    <3>2. recorded' # <<>> /\ (recorded # <<>> => 1 \in 1 .. Len(recorded))
      BY <3>1, EmptySeq
    <3>3. QED
      BY <2>1, <3>1, <3>2, SMTT(30)
  <2>4. QED
    BY <2>2, <2>3
<1>15. ASSUME NEW t \in Thread, Dump(t) PROVE MainRun'
  <2>1. /\ UNCHANGED pc
        /\ UNCHANGED <<recorded, profilingEnabled, lock, mainPhase, event>>
    BY <1>15, RecordedKept DEF Dump
  <2>2. QED
    BY <2>1
<1>16. ASSUME NEW t \in Thread, DumpReturns(t) PROVE MainRun'
  BY <1>16 DEF DumpReturns
<1>17. ASSUME NEW t \in Thread, ReleaseLock(t) PROVE MainRun'
  BY <1>17 DEF ReleaseLock
<1>18. ASSUME NEW t \in Thread, EnterFini(t) PROVE MainRun'
  <2>1. /\ pc[t] = "dumpLast" /\ pc' = [pc EXCEPT ![t] = "fini"]
        /\ UNCHANGED <<recorded, profilingEnabled, lock, mainPhase, event>>
    BY <1>18, RecordedKept DEF EnterFini
  <2>2. QED
    BY <2>1
<1>19. ASSUME NEW t \in Thread, Fini(t) PROVE MainRun'
  <2>1. /\ UNCHANGED pc
        /\ UNCHANGED <<recorded, profilingEnabled, lock, mainPhase, event>>
    BY <1>19, RecordedKept DEF Fini
  <2>2. QED
    BY <2>1
<1>20. ASSUME NEW t \in Thread, Exit(t) PROVE MainRun'
  <2>1. /\ pc[t] = "fini" /\ pc' = [u \in Thread |-> "ended"]
        /\ UNCHANGED <<recorded, profilingEnabled, lock, mainPhase, event>>
    BY <1>20, RecordedKept DEF Exit
  <2>2. QED
    BY <2>1
<1>21. CASE Saver
  <2>1. /\ UNCHANGED pc
        /\ UNCHANGED <<recorded, profilingEnabled, lock, mainPhase, event>>
    BY <1>21, RecordedKept DEF Saver
  <2>2. QED
    BY <2>1
<1>22. CASE UNCHANGED vars
  BY <1>22 DEF vars
<1> HIDE DEF Typed, Locks, PC, MainRun, LastIsRet, Reporting, Goto, dumperVars, memVars, appVars
<1>23. QED
  BY <1>1, <1>2, <1>3, <1>4, <1>5, <1>6, <1>7, <1>8, <1>9, <1>10, <1>11, <1>12, <1>13,
     <1>14, <1>15, <1>16, <1>17, <1>18, <1>19, <1>20, <1>21, <1>22
  DEF Next, App, Mem, Handler

\* No event follows main's Ret.
LEMMA LastIsRetStep == Typed /\ Dumper!TypeOK /\ Locks /\ InsideDumper /\ MainRun /\ LastIsRet /\ [Next]_vars => LastIsRet'
<1> SUFFICES ASSUME Typed, Dumper!TypeOK, Locks, InsideDumper, MainRun, LastIsRet, [Next]_vars PROVE LastIsRet'
  OBVIOUS
<1> USE ThreadAssumption
    DEF Typed, Locks, PC, InsideDumper, MainRun, LastIsRet, Reporting, Goto, dumperVars, memVars, appVars
<1>1. ASSUME NEW t \in Thread, NEW kind \in Kind, Instrumented(t, kind) PROVE LastIsRet'
  <2>1. /\ event' \in [Thread -> Event] /\ event'[t].kind = kind
        /\ \A u \in Thread \ {t} : event'[u] = event[u]
    BY <1>1, EventSteps
  <2>2. /\ pc[t] = "app" /\ pc' = [pc EXCEPT ![t] = "getLock"]
        /\ UNCHANGED <<recorded, profilingEnabled, lock>>
        /\ \/ kind = "MainCall" /\ t = MainThread /\ mainPhase = "before" /\ mainPhase' = "running"
           \/ kind = "MainRet" /\ t = MainThread /\ mainPhase = "running" /\ mainPhase' = "returned"
           \/ kind = "Other" /\ mainPhase' = mainPhase
    BY <1>1 DEF Instrumented
  <2>3. QED
    BY <2>1, <2>2
<1>2. ASSUME NEW t \in Thread, NEW f \in AllocFn, NEW size \in Size, AllocCalled(t, f, size) PROVE LastIsRet'
  BY <1>2 DEF AllocCalled
<1>3. ASSUME NEW t \in Thread, NEW ok \in BOOLEAN, AllocReturns(t, ok) PROVE LastIsRet'
  BY <1>3 DEF AllocReturns
<1>4. ASSUME NEW t \in Thread, ProgramExits(t) PROVE LastIsRet'
  <2>1. /\ \A u \in Thread : pc[u] \in {"app", "libc"}
        /\ pc' = [u \in Thread |-> IF u = t THEN "fini" ELSE "stopped"]
        /\ UNCHANGED <<recorded, profilingEnabled, lock, mainPhase, event>>
    BY <1>4, RecordedKept DEF ProgramExits
  <2>2. QED
    BY <2>1
<1>5. ASSUME NEW t \in Thread, GetMemLock(t, "memBefore", "setSize") PROVE LastIsRet'
  BY <1>5 DEF GetMemLock
<1>6. ASSUME NEW t \in Thread, SetSizeRequested(t) PROVE LastIsRet'
  BY <1>6 DEF SetSizeRequested
<1>7. ASSUME NEW t \in Thread, ReleaseMemLock(t, "relBefore", "libc") PROVE LastIsRet'
  BY <1>7 DEF ReleaseMemLock
<1>8. ASSUME NEW t \in Thread, GetMemLock(t, "memAfter", "testSize") PROVE LastIsRet'
  BY <1>8 DEF GetMemLock
<1>9. ASSUME NEW t \in Thread, TestSizeRequested(t) PROVE LastIsRet'
  <2>1. /\ event' \in [Thread -> Event]
        /\ \A u \in Thread \ {t} : event'[u] = event[u]
        /\ \/ pc' = [pc EXCEPT ![t] = "relAfter"] /\ UNCHANGED event
           \/ pc' = [pc EXCEPT ![t] = "getLock"] /\ event'[t].kind = "Alloc"
    BY <1>9, EventSteps
  <2>2. pc[t] = "testSize" /\ UNCHANGED <<recorded, profilingEnabled, lock, mainPhase>>
    BY <1>9 DEF TestSizeRequested
  <2>3. QED
    BY <2>1, <2>2
<1>10. ASSUME NEW t \in Thread, ZeroSizeRequested(t) PROVE LastIsRet'
  BY <1>10 DEF ZeroSizeRequested
<1>11. ASSUME NEW t \in Thread, ReleaseMemLock(t, "relAfter", "app") PROVE LastIsRet'
  BY <1>11 DEF ReleaseMemLock
<1>12. ASSUME NEW t \in Thread, GetLock(t) PROVE LastIsRet'
  BY <1>12 DEF GetLock
<1>13. ASSUME NEW t \in Thread, BuildEvent(t) PROVE LastIsRet'
  <2>1. /\ event' \in [Thread -> Event] /\ event'[t].kind = event[t].kind
        /\ \A u \in Thread \ {t} : event'[u] = event[u]
    BY <1>13, EventSteps
  <2>2. /\ pc[t] = "build" /\ pc' = [pc EXCEPT ![t] = "addEvent"]
        /\ UNCHANGED <<recorded, profilingEnabled, lock, mainPhase>>
    BY <1>13 DEF BuildEvent
  <2>3. QED
    BY <2>1, <2>2
<1>14. ASSUME NEW t \in Thread, AddEvent(t) PROVE LastIsRet'
  <2>1. /\ pc[t] = "addEvent" /\ UNCHANGED <<lock, mainPhase, event>>
        /\ profilingEnabled' = (profilingEnabled \/ event[t].kind = "MainCall")
    BY <1>14 DEF AddEvent
  <2>2. CASE UNCHANGED recorded
    <3>1. /\ ~profilingEnabled' /\ event[t].kind # "MainRet"
          /\ pc' = [pc EXCEPT ![t] = "release"]
      BY <1>14, <2>2, RecordedGrows
    <3>2. QED
      BY <2>1, <2>2, <3>1
  <2>3. CASE ~UNCHANGED recorded
    <3>1. /\ \/ profilingEnabled' /\ event[t].kind # "MainRet" /\ pc' = [pc EXCEPT ![t] = "dump"]
             \/ event[t].kind = "MainRet" /\ pc' = [pc EXCEPT ![t] = "dumpLast"]
          /\ Len(recorded) \in Nat /\ recorded \in Seq(Event)
          /\ Len(recorded') = Len(recorded) + 1
          /\ recorded'[Len(recorded) + 1] = event[t]
          /\ \A i \in 1 .. Len(recorded) : recorded'[i] = recorded[i]
      BY <1>14, <2>3, RecordedGrows
    <3>2. recorded' # <<>> /\ (recorded # <<>> => 1 \in 1 .. Len(recorded))
      BY <3>1, EmptySeq
    <3>3. mainPhase = "returned" =>
              /\ pc[MainThread] \in Reporting /\ event[MainThread].kind = "MainRet"
              /\ \A i \in 1 .. Len(recorded) : recorded[i].kind # "MainRet"
      BY <2>1
    <3>4. \A i \in 1 .. Len(recorded) : recorded[i].kind # "MainRet"
      BY <3>3
    <3>5. \A i \in 1 .. Len(recorded') : i \in 1 .. Len(recorded) \/ i = Len(recorded')
      BY <3>1
    <3>6. CASE event[t].kind = "MainRet"
      <4>1. /\ t = MainThread /\ mainPhase = "returned" /\ lock = t
            /\ pc' = [pc EXCEPT ![t] = "dumpLast"]
        BY <2>1, <3>1, <3>6
      <4>2. pc'[MainThread] = "dumpLast" /\ recorded'[Len(recorded')].kind = "MainRet"
        BY <2>1, <3>1, <3>6, <4>1
      <4>3. \A i \in 1 .. Len(recorded') : recorded'[i].kind = "MainRet" => i = Len(recorded')
        BY <3>1, <3>4, <3>5
      <4>4. lock' = MainThread /\ mainPhase' = "returned"
        BY <2>1, <4>1
      <4>5. QED
        BY <3>2, <4>2, <4>3, <4>4 DEF LastIsRet
    <3>7. CASE event[t].kind # "MainRet"
      <4>1. \A i \in 1 .. Len(recorded') : recorded'[i].kind # "MainRet"
        BY <3>1, <3>4, <3>5, <3>7
      <4>2. mainPhase = "returned" => t # MainThread /\ pc'[MainThread] = pc[MainThread]
        BY <3>1, <3>3, <3>7
      <4>3. QED
        BY <2>1, <3>3, <4>1, <4>2
    <3>8. QED
      BY <3>6, <3>7
  <2>4. QED
    BY <2>2, <2>3
<1>15. ASSUME NEW t \in Thread, Dump(t) PROVE LastIsRet'
  <2>1. /\ UNCHANGED pc
        /\ UNCHANGED <<recorded, profilingEnabled, lock, mainPhase, event>>
    BY <1>15, RecordedKept DEF Dump
  <2>2. QED
    BY <2>1
<1>16. ASSUME NEW t \in Thread, DumpReturns(t) PROVE LastIsRet'
  BY <1>16 DEF DumpReturns
<1>17. ASSUME NEW t \in Thread, ReleaseLock(t) PROVE LastIsRet'
  BY <1>17 DEF ReleaseLock
<1>18. ASSUME NEW t \in Thread, EnterFini(t) PROVE LastIsRet'
  <2>1. /\ pc[t] = "dumpLast" /\ pc' = [pc EXCEPT ![t] = "fini"]
        /\ UNCHANGED <<recorded, profilingEnabled, lock, mainPhase, event>>
    BY <1>18, RecordedKept DEF EnterFini
  <2>2. QED
    BY <2>1
<1>19. ASSUME NEW t \in Thread, Fini(t) PROVE LastIsRet'
  <2>1. /\ UNCHANGED pc
        /\ UNCHANGED <<recorded, profilingEnabled, lock, mainPhase, event>>
    BY <1>19, RecordedKept DEF Fini
  <2>2. QED
    BY <2>1
<1>20. ASSUME NEW t \in Thread, Exit(t) PROVE LastIsRet'
  <2>1. /\ pc[t] = "fini" /\ pc' = [u \in Thread |-> "ended"]
        /\ UNCHANGED <<recorded, profilingEnabled, lock, mainPhase, event>>
    BY <1>20, RecordedKept DEF Exit
  <2>2. QED
    BY <2>1
<1>21. CASE Saver
  <2>1. /\ UNCHANGED pc
        /\ UNCHANGED <<recorded, profilingEnabled, lock, mainPhase, event>>
    BY <1>21, RecordedKept DEF Saver
  <2>2. QED
    BY <2>1
<1>22. CASE UNCHANGED vars
  BY <1>22 DEF vars
<1> HIDE DEF Typed, Locks, PC, InsideDumper, MainRun, LastIsRet, Reporting, Goto, dumperVars, memVars, appVars
<1>23. QED
  BY <1>1, <1>2, <1>3, <1>4, <1>5, <1>6, <1>7, <1>8, <1>9, <1>10, <1>11, <1>12, <1>13,
     <1>14, <1>15, <1>16, <1>17, <1>18, <1>19, <1>20, <1>21, <1>22
  DEF Next, App, Mem, Handler

-----------------------------------------------------------------------------
(* The sizes of allocations *)

\* Every step keeps the sizes right of those that do not overlap.
LEMMA SizesStep == Typed /\ Locks /\ Sizes /\ [Next]_vars => Sizes'
<1> SUFFICES ASSUME Typed, Locks, Sizes, [Next]_vars PROVE Sizes'
  OBVIOUS
<1>a. \A t \in Thread, ok \in BOOLEAN, u \in Thread :
        /\ WithOutcome(request, t, ok)[u].fn = request[u].fn
        /\ WithOutcome(request, t, ok)[u].size = request[u].size
  BY OutcomeSet
<1> USE ThreadAssumption
    DEF Typed, PC, Locks, Reporting, AllocFn, Sizes, InFlight, Goto, memVars, appVars
<1>1. ASSUME NEW t \in Thread, NEW kind \in Kind, Instrumented(t, kind) PROVE Sizes'
  <2>1. \A u \in Thread \ {t} : event'[u] = event[u]
    BY <1>1, EventSteps
  <2>2. /\ pc[t] = "app" /\ pc' = [pc EXCEPT ![t] = "getLock"]
        /\ UNCHANGED <<memLock, sizeRequested, request, overlapped>>
    BY <1>1 DEF Instrumented
  <2>3. memLock # t
    BY <2>2
  <2>4. QED
    BY <2>1, <2>2, <2>3
<1>2. ASSUME NEW t \in Thread, NEW f \in AllocFn, NEW size \in Size, AllocCalled(t, f, size) PROVE Sizes'
  BY <1>2 DEF AllocCalled
<1>3. ASSUME NEW t \in Thread, NEW ok \in BOOLEAN, AllocReturns(t, ok) PROVE Sizes'
  <2>1. /\ request' = WithOutcome(request, t, ok)
        /\ pc[t] = "libc" /\ pc' = [pc EXCEPT ![t] = "memAfter"]
        /\ UNCHANGED <<memLock, sizeRequested, event, overlapped>>
    BY <1>3 DEF AllocReturns, WithOutcome
  <2>2. \A u \in Thread : request'[u].fn = request[u].fn /\ request'[u].size = request[u].size
    BY <2>1, <1>a
  <2>3. QED
    BY <2>1, <2>2
<1>4. ASSUME NEW t \in Thread, ProgramExits(t) PROVE Sizes'
  BY <1>4 DEF ProgramExits
<1>5. ASSUME NEW t \in Thread, GetMemLock(t, "memBefore", "setSize") PROVE Sizes'
  BY <1>5 DEF GetMemLock
<1>6. ASSUME NEW t \in Thread, SetSizeRequested(t) PROVE Sizes'
  BY <1>6 DEF SetSizeRequested
<1>7. ASSUME NEW t \in Thread, ReleaseMemLock(t, "relBefore", "libc") PROVE Sizes'
  BY <1>7 DEF ReleaseMemLock
<1>8. ASSUME NEW t \in Thread, GetMemLock(t, "memAfter", "testSize") PROVE Sizes'
  BY <1>8 DEF GetMemLock
<1>9. ASSUME NEW t \in Thread, TestSizeRequested(t) PROVE Sizes'
  <2>1. /\ \A u \in Thread \ {t} : event'[u] = event[u]
        /\ \/ pc' = [pc EXCEPT ![t] = "relAfter"] /\ UNCHANGED event
           \/ /\ pc' = [pc EXCEPT ![t] = "getLock"]
              /\ event'[t].size = sizeRequested[request[t].fn]
    BY <1>9, EventSteps
  <2>2. pc[t] = "testSize" /\ UNCHANGED <<memLock, sizeRequested, request, overlapped>>
    BY <1>9 DEF TestSizeRequested
  <2>3. QED
    BY <2>1, <2>2
<1>10. ASSUME NEW t \in Thread, ZeroSizeRequested(t) PROVE Sizes'
  BY <1>10 DEF ZeroSizeRequested
<1>11. ASSUME NEW t \in Thread, ReleaseMemLock(t, "relAfter", "app") PROVE Sizes'
  BY <1>11 DEF ReleaseMemLock
<1>12. ASSUME NEW t \in Thread, GetLock(t) PROVE Sizes'
  BY <1>12 DEF GetLock
<1>13. ASSUME NEW t \in Thread, BuildEvent(t) PROVE Sizes'
  <2>1. /\ event'[t].size = event[t].size
        /\ \A u \in Thread \ {t} : event'[u] = event[u]
    BY <1>13, EventSteps
  <2>2. /\ pc[t] = "build" /\ pc' = [pc EXCEPT ![t] = "addEvent"]
        /\ UNCHANGED <<memLock, sizeRequested, request, overlapped>>
    BY <1>13 DEF BuildEvent
  <2>3. QED
    BY <2>1, <2>2
<1>14. ASSUME NEW t \in Thread, AddEvent(t) PROVE Sizes'
  BY <1>14, SMTT(30) DEF AddEvent
<1>15. ASSUME NEW t \in Thread, Dump(t) PROVE Sizes'
  BY <1>15 DEF Dump
<1>16. ASSUME NEW t \in Thread, DumpReturns(t) PROVE Sizes'
  BY <1>16 DEF DumpReturns
<1>17. ASSUME NEW t \in Thread, ReleaseLock(t) PROVE Sizes'
  BY <1>17 DEF ReleaseLock
<1>18. ASSUME NEW t \in Thread, EnterFini(t) PROVE Sizes'
  BY <1>18 DEF EnterFini
<1>19. ASSUME NEW t \in Thread, Fini(t) PROVE Sizes'
  BY <1>19 DEF Fini
<1>20. ASSUME NEW t \in Thread, Exit(t) PROVE Sizes'
  BY <1>20 DEF Exit
<1>21. CASE Saver
  BY <1>21 DEF Saver
<1>22. CASE UNCHANGED vars
  BY <1>22 DEF vars
<1> HIDE DEF Typed, PC, Locks, Reporting, AllocFn, Sizes, InFlight, Goto, memVars, appVars
<1>23. QED
  BY <1>1, <1>2, <1>3, <1>4, <1>5, <1>6, <1>7, <1>8, <1>9, <1>10, <1>11, <1>12, <1>13,
     <1>14, <1>15, <1>16, <1>17, <1>18, <1>19, <1>20, <1>21, <1>22
  DEF Next, App, Mem, Handler

-----------------------------------------------------------------------------
(* What follows *)

LEMMA InitRest == Init => Locks /\ InsideDumper /\ Stamped /\ RecordedInTimeOrder
                            /\ MainRun /\ LastIsRet /\ Sizes
<1> SUFFICES ASSUME Init
             PROVE  Locks /\ InsideDumper /\ Stamped /\ RecordedInTimeOrder
                      /\ MainRun /\ LastIsRet /\ Sizes
  OBVIOUS
<1>1. /\ recorded = <<>> /\ cpc = "idle" /\ handed = NotHandedOver
      /\ \A t \in Thread : pc[t] = "app"
      /\ memLock = NoThread /\ mainPhase = "before" /\ ~profilingEnabled
  BY DEF Init, Dumper!Init
<1>2. \A i \in 1 .. Len(recorded) : FALSE
  BY <1>1
<1>3. Locks /\ InsideDumper
  BY <1>1, ThreadAssumption DEF Locks, InsideDumper, Reporting
<1>4. Stamped /\ RecordedInTimeOrder
  BY <1>1, <1>2 DEF Stamped, RecordedInTimeOrder
<1>5. MainRun /\ LastIsRet
  BY <1>1, <1>2 DEF MainRun, LastIsRet, Reporting
<1>6. Sizes
  BY <1>1, ThreadAssumption DEF Sizes, InFlight
<1>7. QED
  BY <1>3, <1>4, <1>5, <1>6

\* Seen from below, the threads and their locks are a client of the dumper: a run
\* of the analysis functions is a run of PinEventDumper.
THEOREM DumperWithin == Spec => Dumper!Spec
<1>1. Init => Dumper!Init
  BY DEF Init
<1>2. QED
  BY <1>1, DumperStep, TypedInvariant, PTL DEF Spec, Dumper!Spec

LEMMA DumperTyped == Spec => []Dumper!TypeOK
<1>1. DumperProofs!Spec => []DumperProofs!TypeOK
  BY DumperProofs!TypeCorrect, BlockAssumption, IntAssumption, NoneAssumption
<1>2. QED
  BY <1>1, DumperWithin, SameSpec, SameTypeOK, PTL

LEMMA IInvInvariant == Spec => []IInv
<1>1. Typed /\ Dumper!TypeOK /\ Locks /\ InsideDumper /\ Stamped /\ RecordedInTimeOrder
        /\ MainRun /\ LastIsRet /\ Sizes /\ [Next]_vars
        => Locks' /\ InsideDumper' /\ Stamped' /\ RecordedInTimeOrder'
             /\ MainRun' /\ LastIsRet' /\ Sizes'
  BY LocksStep, InsideDumperStep, StampedStep, MainRunStep, LastIsRetStep, SizesStep
<1>2. QED
  BY <1>1, InitRest, TypedInvariant, DumperTyped, PTL DEF Spec, IInv

\* All variables keep their types, the dumper's below the locks included.
THEOREM TypeCorrect == Spec => []TypeOK
<1>1. IInv => TypeOK
  BY DEF IInv, Typed, TypeOK
<1>2. QED
  BY <1>1, IInvInvariant, PTL

\* The dumper's promises hold under the locks: one owner of each block, no event
\* lost on the way to the file, a complete hand-over, and the abstract EventLog.
THEOREM DumperKeepsItsPromises ==
    Spec => /\ []DumperProofs!BlockHasOneOwner
            /\ []DumperProofs!NothingLost
            /\ []DumperProofs!HandedOverComplete
            /\ DumperProofs!ImplementsEventLog
<1>1. DumperProofs!Spec => []DumperProofs!BlockHasOneOwner
  BY DumperProofs!OneOwner, BlockAssumption, IntAssumption, NoneAssumption
<1>2. DumperProofs!Spec => []DumperProofs!NothingLost
  BY DumperProofs!NoEventLost, BlockAssumption, IntAssumption, NoneAssumption
<1>3. DumperProofs!Spec => []DumperProofs!HandedOverComplete
  BY DumperProofs!HandOver, BlockAssumption, IntAssumption, NoneAssumption
<1>4. DumperProofs!Spec => DumperProofs!ImplementsEventLog
  BY DumperProofs!Implementation, BlockAssumption, IntAssumption, NoneAssumption
<1>5. QED
  BY <1>1, <1>2, <1>3, <1>4, DumperWithin, SameSpec, PTL

\* eventDumper.addEvent and finalize, which take no lock, are never in two
\* threads at once: the handlers' lock, or the end of the others, sees to it.
THEOREM Serialised == Spec => []DumperCallsSerialised
<1>1. IInv => DumperCallsSerialised
  <2> SUFFICES ASSUME IInv, cpc # "exited" PROVE DumperCallsSerialised
    BY DEF DumperCallsSerialised
  <2> DEFINE inside == {t \in Thread : pc[t] \in InDumper}
  <2>1. \A t \in inside : lock = t \/ \A u \in Thread \ {t} : pc[u] = "stopped"
    BY DEF IInv, Locks, InDumper
  <2>2. ASSUME cpc # "idle" PROVE Cardinality(inside) = 1
    <3>1. cpc \in {"waitSaved", "clearSaved", "swap", "setFilled", "finWait", "finClear",
                   "finSwap", "finFinish", "finFill", "finWaitLast", "done", "destroyed"}
      BY <2>2 DEF IInv, Dumper!TypeOK, Dumper!CallerPC
    <3>2. PICK t \in Thread : t \in inside
      BY <3>1 DEF IInv, InsideDumper, InDumper
    <3>3. \A u \in inside : u = t
      BY <2>1, <3>2 DEF InDumper
    <3>4. inside = {t}
      BY <3>2, <3>3
    <3>5. QED
      BY <3>4, FS_Singleton
  <2>3. QED
    BY <2>1, <2>2 DEF DumperCallsSerialised
<1>2. QED
  BY <1>1, IInvInvariant, PTL

\* What the dumper is given is in the order of the time stamp counter.
THEOREM TimeOrder == Spec => []RecordedInTimeOrder
<1>1. IInv => RecordedInTimeOrder
  BY DEF IInv
<1>2. QED
  BY <1>1, IInvInvariant, PTL

\* The event a thread gives to the dumper is none that is recorded: the guard of
\* PinEventDumper's AddEvent, that its events are unique, never stops a thread.
EventsDiffer == \A t \in Thread : pc[t] = "addEvent" => event[t] \notin Dumper!ToSet(recorded)

THEOREM EventsAreUnique == Spec => []EventsDiffer
<1>1. IInv => EventsDiffer
  <2> SUFFICES ASSUME IInv, NEW t \in Thread, pc[t] = "addEvent",
                      event[t] \in Dumper!ToSet(recorded)
               PROVE  FALSE
    BY DEF EventsDiffer
  <2>1. PICK i \in 1 .. Len(recorded) : recorded[i] = event[t]
    BY DEF Dumper!ToSet
  <2>2. recorded[i].timestamp < event[t].timestamp /\ event[t].timestamp \in Nat
    <3>1. event[t] \in Event
      BY DEF IInv, Typed
    <3>2. event[t].timestamp \in Nat
      BY <3>1 DEF Event
    <3>3. QED
      BY <3>2 DEF IInv, Stamped
  <2>3. QED
    BY <2>1, <2>2
<1>2. QED
  BY <1>1, IInvInvariant, PTL

\* The log begins with the Call of main and ends with its Ret.
THEOREM RunOfMain == Spec => []LogIsTheRunOfMain
<1>1. IInv => LogIsTheRunOfMain
  <2> SUFFICES ASSUME IInv PROVE LogIsTheRunOfMain
    OBVIOUS
  <2>1. recorded # <<>> => recorded[1].kind = "MainCall"
    BY DEF IInv, MainRun
  <2>2. \A i \in 1 .. Len(recorded) : recorded[i].kind = "MainRet" => i = Len(recorded)
    BY DEF IInv, LastIsRet
  <2>3. ASSUME handed # NotHandedOver, mainPhase = "returned"
        PROVE  recorded[Len(recorded)].kind = "MainRet"
    <3>1. (\A t \in Thread : pc[t] = "ended") \/ (\E t \in Thread : pc[t] = "fini")
      BY <2>3 DEF IInv, InsideDumper
    <3>2. pc[MainThread] \in {"ended", "fini"}
      BY <2>3, <3>1, ThreadAssumption DEF IInv, MainRun
    <3>3. QED
      BY <2>3, <3>2 DEF IInv, LastIsRet, Reporting
  <2>4. QED
    BY <2>1, <2>2, <2>3 DEF LogIsTheRunOfMain
<1>2. QED
  BY <1>1, IInvInvariant, PTL

\* An allocation that no other one of its function overlaps has its own size.
THEOREM AllocSizes == Spec => []AllocHasItsSize
<1>1. IInv => AllocHasItsSize
  BY DEF IInv, Sizes, AllocHasItsSize
<1>2. QED
  BY <1>1, IInvInvariant, PTL
=============================================================================
