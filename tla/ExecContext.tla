---------------------------- MODULE ExecContext ----------------------------
(***************************************************************************)
(* The post-processing of the event log (ExecContext::dumpEvents in        *)
(* src/src/tool/pin/execcontext.cpp): it replays the Calls and Rets of     *)
(* every thread on a CallStack and looks up, for every Read and Write, the *)
(* variable at the address.                                                *)
(*                                                                         *)
(* The traced program and the replay take their steps together: PinHandler *)
(* shows that events are recorded, and replayed, in the order they happen. *)
(* real is the program's own stack of the functions that have debug        *)
(* information; a frame may leave it without a Ret event: by longjmp, an   *)
(* exception, or a tail call to a function that has no debug information.  *)
(*                                                                         *)
(* heapSupportEnabled is a constant false (execcontext.h:53), so Alloc and *)
(* Free events change nothing, and CallInst only what Alloc would read.    *)
(***************************************************************************)
EXTENDS Integers, Sequences, SequencesExt, FiniteSets, CallStack

CONSTANTS Thread,
          Thread0,     \* the only thread whose stack findStackObject searches
          Func,        \* the functions with debug information
          Vars,        \* their variables in memory: sequences of [offset, size]
          FrameSize,   \* their locals are in the FrameSize bytes below frameBase
          ArgSize,     \* parameters passed on the stack in the ArgSize bytes from it on
          Bases,       \* the frame bases each thread's stack can have
          StaticVars,  \* the static variables: a sequence of [addr, size]
          StackBound,  \* 0x70000000000: larger addresses are searched on the stack
          MaxSilent    \* bound: how many frames leave without a Ret

ASSUME ThreadAssumption == Thread0 \in Thread
ASSUME BaseAssumption == Bases \in [Thread -> SUBSET Int]
ASSUME FrameAssumption == FrameSize \in [Func -> Nat \ {0}] /\ ArgSize \in [Func -> Nat]
ASSUME SilentAssumption == MaxSilent \in Nat
\* A variable is a local or a parameter.  Those of different lexical blocks may
\* share their bytes.
ASSUME VarsAssumption ==
    /\ Vars \in [Func -> Seq([offset : Int, size : Nat])]
    /\ \A f \in Func : \A i \in 1 .. Len(Vars[f]) :
         \/ -FrameSize[f] <= Vars[f][i].offset /\ Vars[f][i].offset + Vars[f][i].size <= 0
         \/ 0 <= Vars[f][i].offset /\ Vars[f][i].offset + Vars[f][i].size <= ArgSize[f]
\* The stacks lie above StackBound, and no frame of another thread overlaps one of
\* thread 0.
ASSUME StackAssumption ==
    /\ StackBound \in Int
    /\ \A t \in Thread : \A base \in Bases[t], f \in Func : base - FrameSize[f] > StackBound
    /\ \A t \in Thread \ {Thread0} :
         \A base0 \in Bases[Thread0], base \in Bases[t], f, g \in Func :
            \/ base + ArgSize[g] <= base0 - FrameSize[f]
            \/ base0 + ArgSize[f] <= base - FrameSize[g]
\* The static variables lie below it and do not overlap.
ASSUME StaticAssumption ==
    /\ StaticVars \in Seq([addr : Int, size : Nat])
    /\ \A i, j \in 1 .. Len(StaticVars) :
         /\ StaticVars[i].addr + StaticVars[i].size <= StackBound + 1
         /\ i < j => \/ StaticVars[i].addr + StaticVars[i].size <= StaticVars[j].addr
                     \/ StaticVars[j].addr + StaticVars[j].size <= StaticVars[i].addr

VARIABLES real,    \* the frames that are live in each thread of the program
          calls,   \* callStackGlobal
          silent,  \* history: how many frames of each thread left without a Ret
          failed   \* an assertion of CallStack::pop failed and ended the tool

vars == <<real, calls, silent, failed>>

\* Variant of FuncCall: the frame base as it is before the return address is pushed.
FuncCallEarly(f, base) == [func |-> f, frameBase |-> base + 1]

FuncCall(f, base) == [func |-> f, frameBase |-> base]

Init == /\ real = [t \in Thread |-> <<>>]
        /\ calls = [t \in Thread |-> <<>>]
        /\ silent = [t \in Thread |-> 0]
        /\ failed = FALSE

\* The bytes of a frame: from Bottom on, up to Top.
Bottom(call) == call.frameBase - FrameSize[call.func]
Top(call) == call.frameBase + ArgSize[call.func]

\* Where the stack of t ends: a new frame lies below the locals of the last one.
Room(t, call) == real[t] # <<>> => Top(call) <= Bottom(Last(real[t]))

\* The event Call of function f with its frame at base.
Call(t, f, base) ==
    /\ ~failed
    /\ Room(t, FuncCall(f, base))
    /\ real' = [real EXCEPT ![t] = Append(@, FuncCall(f, base))]
    /\ calls' = [calls EXCEPT ![t] = Push(@, FuncCall(f, base))]
    /\ UNCHANGED <<silent, failed>>

\* The last function jumps to f, which takes over its frame base and the place of its
\* parameters: no Ret, a Call.
TailCall(t, f) ==
    /\ ~failed
    /\ real[t] # <<>> /\ ArgSize[f] <= ArgSize[Last(real[t]).func]
    /\ LET call == FuncCall(f, Last(real[t]).frameBase)
       IN /\ real' = [real EXCEPT ![t] = Append(Front(@), call)]
          /\ calls' = [calls EXCEPT ![t] = Push(@, call)]
    /\ UNCHANGED <<silent, failed>>

\* Variant of Ret: nothing is popped.
RetKeepsCall(t) ==
    /\ ~failed
    /\ real[t] # <<>>
    /\ failed' = ~PopMatches(calls[t], Last(real[t]))
    /\ real' = [real EXCEPT ![t] = Front(@)]
    /\ UNCHANGED <<silent, calls>>

\* The event Ret of the last function, with the frame base of its Call.
Ret(t) ==
    /\ ~failed
    /\ real[t] # <<>>
    /\ failed' = ~PopMatches(calls[t], Last(real[t]))
    /\ calls' = IF failed' THEN calls ELSE [calls EXCEPT ![t] = Pop(@)]
    /\ real' = [real EXCEPT ![t] = Front(@)]
    /\ UNCHANGED silent

\* The last frame goes without an event.
LeaveSilently(t) ==
    /\ ~failed
    /\ real[t] # <<>>
    /\ silent[t] < MaxSilent
    /\ silent' = [silent EXCEPT ![t] = @ + 1]
    /\ real' = [real EXCEPT ![t] = Front(@)]
    /\ UNCHANGED <<calls, failed>>

Next == \E t \in Thread :
          \/ \E f \in Func, base \in Bases[t] : Call(t, f, base)
          \/ \E f \in Func : TailCall(t, f)
          \/ Ret(t)
          \/ LeaveSilently(t)

Spec == Init /\ [][Next]_vars
-----------------------------------------------------------------------------
(* The lookup of the variable at an address *)

NoObject == [call |-> "none"]

\* The bytes of variable v of a frame.
Covers(call, v, addr) == /\ call.frameBase + v.offset <= addr
                         /\ addr <= call.frameBase + v.offset + v.size - 1

\* Variant of VarAt: one byte too many at the end.
VarAtOrAfter(call, addr) ==
    SelectInSeq(Vars[call.func], LAMBDA v : /\ call.frameBase + v.offset <= addr
                                            /\ addr <= call.frameBase + v.offset + v.size)

\* The index of the first variable of the frame that covers addr, or 0.
VarAt(call, addr) == SelectInSeq(Vars[call.func], LAMBDA v : Covers(call, v, addr))

\* The innermost frame of thread 0 with a variable at addr.
FindStackObject(addr) ==
    LET stack == calls[Thread0]
        i == SelectLastInSeq(stack, LAMBDA c : addr <= c.frameBase /\ VarAt(c, addr) # 0)
    IN IF i = 0 THEN NoObject ELSE [call |-> stack[i], var |-> VarAt(stack[i], addr)]

\* DebugContext::findVarByAddress.
FindNonStackObject(addr) ==
    LET i == SelectInSeq(StaticVars, LAMBDA v : v.addr <= addr /\ addr < v.addr + v.size)
    IN IF i = 0 THEN NoObject ELSE [call |-> "static", var |-> i]

FindObject(addr) == IF addr > StackBound THEN FindStackObject(addr)
                                         ELSE FindNonStackObject(addr)
-----------------------------------------------------------------------------
Frames == [func : Func, frameBase : UNION {Bases[t] : t \in Thread}]

TypeOK == /\ real \in [Thread -> Seq(Frames)]
          /\ calls \in [Thread -> Seq(Frames)]
          /\ silent \in [Thread -> 0 .. MaxSilent]
          /\ failed \in BOOLEAN

\* The frame bases of a rebuilt stack strictly decrease: the clean-up in push
\* keeps one frame per base, however frames left and whatever was called next.
BasesDecrease ==
    \A t \in Thread : \A i, j \in 1 .. Len(calls[t]) :
        i < j => calls[t][i].frameBase > calls[t][j].frameBase

\* Every live frame is on the rebuilt stack, also when others left silently, and in
\* its place: bases decrease.
LiveFramesFound ==
    /\ BasesDecrease
    /\ ~failed => \A t \in Thread : ToSet(real[t]) \subseteq ToSet(calls[t])

\* The rebuilt stack is the program's, and no assertion of pop fails, as long as
\* every frame leaves by a Ret or by a tail call to a function with debug
\* information.
ExactStacks ==
    /\ \A t \in Thread : silent[t] = 0 /\ ~failed => calls[t] = real[t]
    /\ (\A t \in Thread : silent[t] = 0) => ~failed

\* A call from the surviving frame heals the stack when its frame lies above
\* the frames that left silently.
CallHeals ==
    [][\A t \in Thread :
         (/\ Len(real'[t]) = Len(real[t]) + 1
          /\ \A c \in ToSet(calls[t]) \ ToSet(real[t]) : c.frameBase <= Last(real'[t]).frameBase)
         => calls'[t] = real'[t]]_vars

\* Variable i has addr, and no variable before it, of another block, shares that byte.
IsFirst(call, i, addr) == \A j \in 1 .. i : Covers(call, Vars[call.func][j], addr) <=> j = i

\* What the lookup makes of the live variables, whichever frames are stale: a byte
\* up to the frame base, that is of a local or the first one of the parameters, is
\* attributed to the first variable of that frame that has it; the other bytes of
\* the parameters are lost, or are taken for those of a frame that has left; no byte
\* of another thread's stack is given a variable; a byte of a static variable is
\* attributed to it.
AttributionIsRight ==
    ~failed =>
      /\ \A t \in Thread : \A c \in ToSet(real[t]) : \A i \in 1 .. Len(Vars[c.func]) :
           \A addr \in c.frameBase + Vars[c.func][i].offset ..
                       c.frameBase + Vars[c.func][i].offset + Vars[c.func][i].size - 1 :
             LET found == FindObject(addr)
             IN IF t # Thread0 THEN found = NoObject
                ELSE IF addr <= c.frameBase
                THEN IsFirst(c, i, addr) => found = [call |-> c, var |-> i]
                ELSE \/ found = NoObject
                     \/ found.call \in ToSet(calls[Thread0]) \ ToSet(real[Thread0])
      /\ \A i \in 1 .. Len(StaticVars) :
           \A addr \in StaticVars[i].addr .. StaticVars[i].addr + StaticVars[i].size - 1 :
             FindObject(addr) = [call |-> "static", var |-> i]

\* The assertions of CallStack::pop (callstack.cpp:46-47): a Ret meets its own
\* Call on the top of the stack.  It does not after a frame left silently.
RetMeetsItsCall == ~failed
=============================================================================
