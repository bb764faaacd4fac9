----------------------------- MODULE CallStack -----------------------------
(***************************************************************************)
(* The call stack that is rebuilt from the Call and Ret events of a thread *)
(* (src/src/common/callstack.cpp).  A CallStack is a sequence of FuncCalls,*)
(* records with a func and a frameBase; the last one is the top.  Both     *)
(* readers of the event log keep one per thread: ExecContext::dumpEvents   *)
(* and EventManager.                                                       *)
(***************************************************************************)
EXTENDS Integers, Sequences

\* Variant of Kept: the comparison is turned round.
KeptBelow(calls, base) ==
    CHOOSE n \in 0 .. Len(calls) :
        /\ n > 0 => calls[n].frameBase < base
        /\ \A i \in n + 1 .. Len(calls) : calls[i].frameBase >= base

\* How many calls are left when those with a frameBase up to base are popped
\* from the top.
Kept(calls, base) ==
    CHOOSE n \in 0 .. Len(calls) :
        /\ n > 0 => calls[n].frameBase > base
        /\ \A i \in n + 1 .. Len(calls) : calls[i].frameBase <= base

\* Variant of Push: no clean-up of the calls that ended without a Ret.
PushOnly(calls, call) == Append(calls, call)

Push(calls, call) == Append(SubSeq(calls, 1, Kept(calls, call.frameBase)), call)

\* The two assertions of pop.  The top of an empty vector is not defined; what
\* is read there fails an assertion or faults, and either ends the tool.
PopMatches(calls, call) == calls # <<>> /\ calls[Len(calls)] = call

Pop(calls) == SubSeq(calls, 1, Len(calls) - 1)
=============================================================================
