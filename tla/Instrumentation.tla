--------------------------- MODULE Instrumentation ---------------------------
(***************************************************************************)
(* What is recorded of a run (src/src/tool/pin/pinhandler.cpp, from        *)
(* instrumentRoutine on; the callbacks of src/src/tool/tool.cpp).  Pin     *)
(* calls instrumentImageLoad for every image and instrumentInstruction for *)
(* every instruction it is about to run; both put calls of the analysis    *)
(* functions, here hooks, before instructions.  An instruction of the      *)
(* traced binary gets those of both.                                       *)
(*                                                                         *)
(* Pin and the traced program are external: threads run the instructions   *)
(* of Code, each after its hooks, one hook at a time; a hook is atomic, as *)
(* module PinHandler shows.  What the hooks record is replayed at once on  *)
(* a CallStack for each thread, as the readers of the log do later.        *)
(***************************************************************************)
EXTENDS Integers, Sequences, SequencesExt, FiniteSets, CallStack

CONSTANTS Thread,
          Code,       \* for each address an instruction, see Instruction
          Image,      \* for each routine the image it is in
          Entry,      \* for each thread the address where it starts
          MainThread, \* the thread that calls main; main creates the others
          binPath,    \* the image of the traced binary
          KnownFuncs, \* the routines with debug information
          NoFunc,     \* -1, the id of all others
          Block,      \* addresses that malloc can return
          NoBlock     \* null

Address == DOMAIN Code
Routine == DOMAIN Image
Operand == [read : BOOLEAN, written : BOOLEAN]
Op == {"plain", "jump", "call", "ret", "end",  \* flow of control
       "alloc", "release", "resize",           \* the bodies of malloc, free and realloc
       "keep", "pick"}                         \* their result and argument
\* What arg is to a thread: nothing, what malloc or realloc returned, or a block to
\* give to free or realloc.
Holding == {"nothing", "new", "old"}
\* holds and gives are a contract, see HeapAssumption: what arg is before the
\* instruction, and what it is when the routine that runs it has returned.
Instruction == [rtn : Routine, op : Op, operands : Seq(Operand), to : SUBSET Address,
                direct : BOOLEAN, predicated : BOOLEAN, holds : Holding, gives : Holding]

First(rtn) == CHOOSE a \in Address : /\ Code[a].rtn = rtn
                                     /\ \A b \in Address : Code[b].rtn = rtn => a <= b

NextInRoutine(a) == a + 1 \in Address /\ Code[a + 1].rtn = Code[a].rtn

\* Control comes to b from another routine, or by a call.
Enters(a, b) == /\ b \in Code[a].to
                /\ Code[a].op = "call" \/ (Code[a].op = "jump" /\ Code[a].rtn # Code[b].rtn)

\* A thread that holds one thing may act as if it held nothing.
Passes(held, needed) == needed \in {held, "nothing"}

ASSUME CodeAssumption ==
    /\ Address \subseteq Nat /\ \A a \in Address : Code[a] \in Instruction
    /\ Entry \in [Thread -> Address] /\ MainThread \in Thread
    /\ \A f \in KnownFuncs : f \in Routine /\ Image[f] = binPath
    /\ NoFunc \notin Routine \cup {"main"} /\ NoBlock \notin Block

\* The program keeps to what compilers and linkers make of a program: a routine is
\* entered at its first instruction (the routines without debug information, like
\* .plt, need not be).
ASSUME FlowAssumption ==
    \A a \in Address :
      /\ Code[a].op \notin {"jump", "ret", "end"} => NextInRoutine(a)
      /\ Code[a].op = "pick" => \A b \in Code[a].to : Code[b].rtn = Code[a].rtn
      /\ \A b \in Code[a].to : Enters(a, b) /\ Code[b].rtn \in KnownFuncs \cup {"malloc", "free"} =>
                                  b = First(Code[b].rtn)

\* Only startup code without debug information leads to the call of main.
IsStartup(S) ==
    \A a, b \in Address : Enters(a, b) /\ Code[b].rtn \in S \cup {"main"} => Code[a].rtn \in S

ASSUME StartAssumption == /\ \A t \in Thread : Code[Entry[t]].rtn \notin KnownFuncs
                          /\ \E S \in SUBSET (Routine \ KnownFuncs) : IsStartup(S)

\* The program gives to free and realloc only what malloc or realloc returned, and
\* once: what arg is to a thread changes where a block is allocated, kept, picked,
\* released or resized, and on all other ways from an instruction to the next it
\* stays as it is.  malloc and free are in a library, and do their work without calls.
HeapFlow(a) ==
    LET this == Code[a]
        next == Code[a + 1]
    IN /\ this.op \notin {"jump", "ret", "end"} => next.gives = this.gives
       /\ this.op \in {"jump", "pick"} => \A b \in this.to : Code[b].gives = this.gives
       /\ CASE this.op = "plain" -> Passes(this.holds, next.holds)
            [] this.op = "jump" -> \A b \in this.to : Passes(this.holds, Code[b].holds)
            [] this.op = "call" -> \A b \in this.to : /\ Passes(this.holds, Code[b].holds)
                                                      /\ Passes(Code[b].gives, next.holds)
            [] this.op = "ret" -> Passes(this.holds, this.gives)
            [] this.op = "alloc" -> next.holds # "old"
            [] this.op = "release" -> this.rtn = "free" /\ this.holds = "old" /\ next.holds = "nothing"
            [] this.op = "resize" -> this.rtn = "realloc" /\ this.holds = "old" /\ next.holds # "old"
            [] this.op = "keep" -> this.holds = "new" /\ next.holds = "nothing"
            [] this.op = "pick" -> /\ next.holds # "new"
                                   /\ \A b \in this.to : Code[b].holds = "nothing"
            [] this.op = "end" -> TRUE

ASSUME HeapAssumption ==
    /\ \A f \in {"malloc", "free"} \cap Routine : Image[f] # binPath
    /\ \A a \in Address :
         /\ HeapFlow(a)
         /\ \/ Code[a].rtn \notin {"malloc", "free"}
            \/ /\ Code[a].rtn = "malloc" /\ Code[a].op # "call"
               /\ Code[a].op = "ret" => Code[a].holds = "new"
               /\ a = First("malloc") => Code[a].holds = "nothing"
            \/ Code[a].rtn = "free" /\ Code[a].op \notin {"call", "pick"}

VARIABLES hooks,       \* at each address the hooks that instrumentImageLoad put there
          images,      \* the images loaded so far
          aborted,     \* an assertion of instrumentInstruction has ended the tool
          recording,   \* "off", "on" from main's Call, "over" after its Ret
          mallocSizeRequested, \* whether it is not 0
          pc, at, todo, \* each thread's instruction, whether it is fetched, its hooks to run
          executes,    \* whether the predicate of the instruction is true
          frames,      \* each thread's stack: sequences of [rtn, back]
          taken,       \* the blocks that are allocated
          owned, arg,  \* those the program can free; each thread's argument or result
          calls, failed,  \* the stacks rebuilt from the log; an assertion of pop has ended this
          slipped,     \* history: the calls that a tail call left on them without a Ret
          emitted,     \* history: the types of the events of each thread's instruction
          watched,     \* history: whether it was fetched while main was running
          unfreed,     \* history: how many Allocs of each block have no Free in the log
          lost         \* history: how often realloc released it since its last Free there

programVars == <<pc, frames, taken, owned, arg>>
logVars == <<recording, mallocSizeRequested, calls, failed, emitted, unfreed>>
vars == <<hooks, images, aborted, slipped, lost, at, todo, executes, watched, programVars, logVars>>

Init == /\ hooks = [a \in Address |-> <<>>] /\ images = {} /\ aborted = FALSE
        /\ recording = "off" /\ mallocSizeRequested = FALSE
        /\ pc = Entry /\ at = [t \in Thread |-> "fetch"] /\ todo = [t \in Thread |-> <<>>]
        /\ frames = [t \in Thread |-> <<[rtn |-> Code[Entry[t]].rtn, back |-> Entry[t]]>>]
        /\ taken = {} /\ owned = {} /\ arg = [t \in Thread |-> NoBlock]
        /\ calls = [t \in Thread |-> <<>>] /\ failed = FALSE /\ slipped = [t \in Thread |-> {}]
        /\ executes = [t \in Thread |-> TRUE] /\ watched = [t \in Thread |-> FALSE]
        /\ emitted = [t \in Thread |-> <<>>]
        /\ unfreed = [b \in Block |-> 0] /\ lost = [b \in Block |-> 0]
-----------------------------------------------------------------------------
(* The hooks: [fn, id, predicated]; fn is the analysis function *)

Hook(fn) == [fn |-> fn, id |-> NoFunc, predicated |-> FALSE]
RoutineHook(fn, id) == [fn |-> fn, id |-> id, predicated |-> FALSE]
PredicatedHook(fn, id) == [fn |-> fn, id |-> id, predicated |-> TRUE]
HookIf(condition, hook) == IF condition THEN <<hook>> ELSE <<>>

\* Variant of GetRoutineId: every routine has an id.
GetRoutineIdAlways(rtn) == rtn

\* ExecContext::getRoutineId
GetRoutineId(rtn) == IF rtn \in KnownFuncs THEN rtn ELSE NoFunc

\* Variant of OperandHooks: an operand is read or else written.
OperandHooksElse(operand) ==
    IF operand.read THEN <<PredicatedHook("memoryRead", NoFunc)>>
                    ELSE HookIf(operand.written, PredicatedHook("memoryWrite", NoFunc))

OperandHooks(operand) ==
    HookIf(operand.read, PredicatedHook("memoryRead", NoFunc))
    \o HookIf(operand.written, PredicatedHook("memoryWrite", NoFunc))

\* A direct call to a routine other than .plt; INS_Next has to be valid.  The
\* callInstAfter of the next instruction does nothing.
CallHooks(a, nextValid) ==
    LET target == CHOOSE b \in Code[a].to : TRUE
    IN IF Code[a].op = "call" /\ Code[a].direct /\ nextValid /\ Code[target].rtn # ".plt"
       THEN <<PredicatedHook("callInstBefore", GetRoutineId(Code[target].rtn))>>
       ELSE <<>>

\* assert(f) of its loop: an operand is read or written (or both).
CanInstrument(a) ==
    \A i \in DOMAIN Code[a].operands : Code[a].operands[i].read \/ Code[a].operands[i].written

InstrumentInstruction(a, nextValid) ==
    FlattenSeq([i \in DOMAIN Code[a].operands |-> OperandHooks(Code[a].operands[i])])
    \o CallHooks(a, nextValid)

\* Variant of InstrumentRoutine: the exit hook is at the last instruction only.
InstrumentRoutineLast(a) ==
    LET rtn == Code[a].rtn
    IN HookIf(a = First(rtn), RoutineHook("routineEnter", GetRoutineId(rtn)))
       \o HookIf(Code[a].op = "ret" /\ (a + 1 \in Address => Code[a + 1].rtn # rtn),
                 RoutineHook("routineExit", GetRoutineId(rtn)))

\* Before the first instruction, and (IPOINT_AFTER) before every ret.
InstrumentRoutine(a) ==
    LET rtn == Code[a].rtn
    IN HookIf(a = First(rtn), RoutineHook("routineEnter", GetRoutineId(rtn)))
       \o HookIf(Code[a].op = "ret", RoutineHook("routineExit", GetRoutineId(rtn)))

\* Variant of InstrumentRoutineExternal: free is recorded when it is done.
InstrumentRoutineExternalAfter(a) ==
    LET rtn == Code[a].rtn
    IN HookIf(rtn = "malloc" /\ a = First(rtn), Hook("mallocBefore"))
       \o HookIf(rtn = "malloc" /\ Code[a].op = "ret", Hook("mallocAfter"))
       \o HookIf(rtn = "free" /\ Code[a].op = "ret", Hook("freeBefore"))

\* calloc is hooked like malloc, with a size of its own.
InstrumentRoutineExternal(a) ==
    LET rtn == Code[a].rtn
    IN HookIf(rtn = "malloc" /\ a = First(rtn), Hook("mallocBefore"))
       \o HookIf(rtn = "malloc" /\ Code[a].op = "ret", Hook("mallocAfter"))
       \o HookIf(rtn = "free" /\ a = First(rtn), Hook("freeBefore"))

\* In the loop over the routines of the image, what is put before instruction a.
ImageHooks(a) == IF Image[Code[a].rtn] # binPath THEN InstrumentRoutineExternal(a)
                 ELSE InstrumentRoutine(a) \o InstrumentInstruction(a, NextInRoutine(a))

InstrumentImageLoad(img) ==
    /\ img \notin images
    /\ images' = images \cup {img}
    /\ aborted' = \E a \in Address : /\ Image[Code[a].rtn] = img /\ img = binPath
                                     /\ ~CanInstrument(a)
    /\ hooks' = [a \in Address |-> IF Image[Code[a].rtn] = img THEN ImageHooks(a) ELSE hooks[a]]
    /\ UNCHANGED <<at, todo, executes, watched, slipped, lost, programVars, logVars>>
-----------------------------------------------------------------------------
(* A thread comes to an instruction *)

\* Instruction, the callback of tool.cpp, when Pin compiles the instruction.  It
\* depends on the place of a call in the compiled code whether INS_Next is valid.
Fetch(t) ==
    /\ at[t] = "fetch" /\ recording # "over"
    /\ t = MainThread \/ recording = "on"
    /\ Image[Code[pc[t]].rtn] \in images
    /\ aborted' = ~CanInstrument(pc[t])
    /\ \E nextValid \in BOOLEAN :
         todo' = [todo EXCEPT ![t] = hooks[pc[t]] \o InstrumentInstruction(pc[t], nextValid)]
    /\ \E p \in BOOLEAN : /\ Code[pc[t]].predicated \/ p
                          /\ executes' = [executes EXCEPT ![t] = p]
    /\ watched' = [watched EXCEPT ![t] = (recording # "off")]
    /\ at' = [at EXCEPT ![t] = "hooks"]
    /\ emitted' = [emitted EXCEPT ![t] = <<>>]
    /\ UNCHANGED <<hooks, images, slipped, lost, programVars, recording, mallocSizeRequested,
                   calls, failed, unfreed>>
-----------------------------------------------------------------------------
(* Its hooks *)

NextHook(t) == /\ at[t] = "hooks" /\ recording # "over" /\ todo[t] # <<>>
               /\ todo' = [todo EXCEPT ![t] = Tail(@)]
               /\ UNCHANGED <<hooks, images, aborted, at, executes, watched, programVars>>

RunHook(t, fn) == /\ NextHook(t)
                  /\ Head(todo[t]).fn = fn
                  /\ Head(todo[t]).predicated => executes[t]

\* Pin passes over a predicated hook of an instruction that does not execute.
SkipHook(t) == /\ NextHook(t)
               /\ Head(todo[t]).predicated /\ ~executes[t]
               /\ UNCHANGED <<slipped, lost, logVars>>

\* An event is recorded from main's Call on, up to its Ret.
Emit(t, type) == emitted' = IF recording' = "off" THEN emitted
                            ELSE [emitted EXCEPT ![t] = Append(@, type)]

\* The replay of the event: a routine without an id is passed over, and so is all
\* that comes after an assertion failed.
FuncCall(t, id) == [func |-> id, frameBase |-> -Len(frames[t])]

RoutineEnter(t) ==
    /\ RunHook(t, "routineEnter")
    /\ LET id == Head(todo[t]).id
       IN /\ recording' = IF id = "main" THEN "on" ELSE recording
          /\ Emit(t, "Call")
          /\ IF recording' = "off" \/ id = NoFunc \/ failed
             THEN UNCHANGED <<calls, slipped>>
             ELSE /\ calls' = [calls EXCEPT ![t] = Push(@, FuncCall(t, id))]
                  /\ slipped' = [slipped EXCEPT ![t] =
                                   {call \in @ : call.frameBase > FuncCall(t, id).frameBase}]
    /\ UNCHANGED <<mallocSizeRequested, failed, unfreed, lost>>

RoutineExit(t) ==
    /\ RunHook(t, "routineExit")
    /\ LET id == Head(todo[t]).id
           matters == recording # "off" /\ id # NoFunc
       IN /\ recording' = IF id = "main" THEN "over" ELSE recording
          /\ Emit(t, "Ret")
          /\ failed' = (failed \/ (matters /\ ~PopMatches(calls[t], FuncCall(t, id))))
          /\ calls' = IF matters /\ ~failed' THEN [calls EXCEPT ![t] = Pop(@)] ELSE calls
    /\ UNCHANGED <<mallocSizeRequested, unfreed, slipped, lost>>

MemoryAccess(t) ==
    /\ UNCHANGED <<recording, mallocSizeRequested, calls, failed, slipped, unfreed, lost>>
    /\ \/ RunHook(t, "memoryRead") /\ Emit(t, "Read")
       \/ RunHook(t, "memoryWrite") /\ Emit(t, "Write")
       \/ RunHook(t, "callInstBefore") /\ Emit(t, "CallInst")

\* The requested size may be 0.
MallocBefore(t) ==
    /\ RunHook(t, "mallocBefore")
    /\ mallocSizeRequested' \in BOOLEAN
    /\ UNCHANGED <<recording, calls, failed, slipped, emitted, unfreed, lost>>

MallocAfter(t) ==
    /\ RunHook(t, "mallocAfter")
    /\ UNCHANGED <<recording, calls, failed, slipped, lost>>
    /\ IF arg[t] = NoBlock \/ ~mallocSizeRequested
       THEN UNCHANGED <<mallocSizeRequested, emitted, unfreed>>
       ELSE /\ mallocSizeRequested' = FALSE
            /\ Emit(t, "Alloc")
            /\ unfreed' = IF recording = "off" THEN unfreed ELSE [unfreed EXCEPT ![arg[t]] = @ + 1]

FreeBefore(t) ==
    /\ RunHook(t, "freeBefore")
    /\ UNCHANGED <<recording, mallocSizeRequested, calls, failed, slipped>>
    /\ Emit(t, "Free")
    /\ IF recording = "off" THEN UNCHANGED <<unfreed, lost>>
       ELSE /\ unfreed' = [unfreed EXCEPT ![arg[t]] = 0]
            /\ lost' = [lost EXCEPT ![arg[t]] = 0]
-----------------------------------------------------------------------------
(* The instruction itself *)

Done(t, op) == /\ at[t] = "hooks" /\ recording # "over" /\ todo[t] = <<>>
               /\ Code[pc[t]].op = op
               /\ at' = [at EXCEPT ![t] = IF op = "end" THEN "ended" ELSE "fetch"]
               /\ UNCHANGED <<hooks, images, aborted, todo, executes, watched, logVars>>

Goto(t, a) == pc' = [pc EXCEPT ![t] = a]

Plain(t) == /\ Done(t, "plain")
            /\ Goto(t, pc[t] + 1)
            /\ UNCHANGED <<frames, taken, owned, arg, slipped, lost>>

\* Into another routine: a tail call, which takes over the frame.  The call of a
\* function with debug information stays on the rebuilt stack.
Jump(t) == /\ Done(t, "jump")
           /\ \E b \in Code[pc[t]].to :
                LET rtn == Code[pc[t]].rtn
                    leaves == Code[b].rtn # rtn /\ rtn \in KnownFuncs /\ recording = "on" /\ ~failed
                IN /\ Goto(t, b)
                   /\ frames' = [frames EXCEPT ![t][Len(frames[t])].rtn = Code[b].rtn]
                   /\ slipped' = IF leaves THEN [slipped EXCEPT ![t] = @ \cup {FuncCall(t, rtn)}]
                                 ELSE slipped
           /\ UNCHANGED <<taken, owned, arg, lost>>

Call(t) == /\ Done(t, "call")
           /\ \E b \in Code[pc[t]].to :
                /\ Goto(t, b)
                /\ frames' = [frames EXCEPT ![t] =
                                Append(@, [rtn |-> Code[b].rtn, back |-> pc[t] + 1])]
           /\ UNCHANGED <<taken, owned, arg, slipped, lost>>

\* The routine in which a thread starts does not return.
Ret(t) == /\ Done(t, "ret") /\ Len(frames[t]) > 1
          /\ Goto(t, Last(frames[t]).back)
          /\ frames' = [frames EXCEPT ![t] = Front(@)]
          /\ UNCHANGED <<taken, owned, arg, slipped, lost>>

End(t) == Done(t, "end") /\ UNCHANGED <<slipped, lost, programVars>>

\* malloc finds a free block, or none; an allocator without hooks does the same.
Alloc(t) == /\ Done(t, "alloc")
            /\ Goto(t, pc[t] + 1)
            /\ \E b \in (Block \ taken) \cup {NoBlock} :
                 /\ arg' = [arg EXCEPT ![t] = b]
                 /\ taken' = taken \cup ({b} \ {NoBlock})
            /\ UNCHANGED <<frames, owned, slipped, lost>>

Release(t) == /\ Done(t, "release")
              /\ Goto(t, pc[t] + 1)
              /\ taken' = taken \ {arg[t]}
              /\ UNCHANGED <<frames, owned, arg, slipped, lost>>

\* realloc has no hooks: it keeps the block where it is, moves it, frees it for a
\* size of 0, or finds no memory, and then the block is still the program's.
Resize(t) == /\ Done(t, "resize")
             /\ Goto(t, pc[t] + 1)
             /\ \/ UNCHANGED <<taken, owned, arg, lost>>
                \/ \E b \in (Block \ taken) \cup {NoBlock} :
                     /\ arg' = [arg EXCEPT ![t] = b]
                     /\ taken' = (taken \ {arg[t]}) \cup ({b} \ {NoBlock})
                     /\ lost' = [lost EXCEPT ![arg[t]] = @ + 1]
                     /\ UNCHANGED owned
                \/ /\ arg' = [arg EXCEPT ![t] = NoBlock]
                   /\ owned' = owned \cup ({arg[t]} \ {NoBlock})
                   /\ UNCHANGED <<taken, lost>>
             /\ UNCHANGED <<frames, slipped>>

\* The program takes the result of malloc; any thread may free the block.
Keep(t) == /\ Done(t, "keep")
           /\ Goto(t, pc[t] + 1)
           /\ owned' = owned \cup ({arg[t]} \ {NoBlock})
           /\ UNCHANGED <<frames, taken, arg, slipped, lost>>

\* It takes a block to free or resize, or goes elsewhere.
Pick(t) == /\ Done(t, "pick")
           /\ \/ \E b \in owned : /\ arg' = [arg EXCEPT ![t] = b]
                                 /\ owned' = owned \ {b}
                                 /\ Goto(t, pc[t] + 1)
              \/ /\ \E a \in Code[pc[t]].to : Goto(t, a)
                 /\ UNCHANGED <<owned, arg>>
           /\ UNCHANGED <<frames, taken, slipped, lost>>

Next == /\ ~aborted
        /\ \/ \E img \in {Image[r] : r \in Routine} : InstrumentImageLoad(img)
           \/ \E t \in Thread :
                \/ Fetch(t) \/ SkipHook(t)
                \/ RoutineEnter(t) \/ RoutineExit(t) \/ MemoryAccess(t)
                \/ MallocBefore(t) \/ MallocAfter(t) \/ FreeBefore(t)
                \/ Plain(t) \/ Jump(t) \/ Call(t) \/ Ret(t) \/ End(t)
                \/ Alloc(t) \/ Release(t) \/ Resize(t) \/ Keep(t) \/ Pick(t)

Spec == Init /\ [][Next]_vars
-----------------------------------------------------------------------------
EventType == {"Call", "Ret", "CallInst", "Read", "Write", "Alloc", "Free"}
Hooks == [fn : {"routineEnter", "routineExit", "memoryRead", "memoryWrite", "callInstBefore",
                "mallocBefore", "mallocAfter", "freeBefore"},
          id : KnownFuncs \cup {NoFunc}, predicated : BOOLEAN]
Frame == [rtn : Routine, back : Address]
KnownCall == [func : KnownFuncs, frameBase : Int]

TypeOK == /\ hooks \in [Address -> Seq(Hooks)]
          /\ recording \in {"off", "on", "over"} /\ mallocSizeRequested \in BOOLEAN
          /\ pc \in [Thread -> Address]
          /\ at \in [Thread -> {"fetch", "hooks", "ended"}]
          /\ todo \in [Thread -> Seq(Hooks)]
          /\ executes \in [Thread -> BOOLEAN] /\ watched \in [Thread -> BOOLEAN]
          /\ emitted \in [Thread -> Seq(EventType)]
          /\ frames \in [Thread -> Seq(Frame) \ {<<>>}]
          /\ calls \in [Thread -> Seq(KnownCall)]
          /\ owned \in SUBSET Block /\ taken \in SUBSET Block
          /\ arg \in [Thread -> Block \cup {NoBlock}]
          /\ slipped \in [Thread -> SUBSET KnownCall]
          /\ unfreed \in [Block -> Nat] /\ lost \in [Block -> Nat]

\* How many operands of an instruction are of the type.
Operands(a, type) ==
    Cardinality({i \in DOMAIN Code[a].operands :
                   IF type = "Read" THEN Code[a].operands[i].read ELSE Code[a].operands[i].written})

\* While main runs no access is missed: those of the binary are recorded twice,
\* by the hooks of both callbacks, and those of the libraries once; none is
\* recorded of an instruction whose predicate is false.
AccessesRecorded ==
    \A t \in Thread :
        at[t] = "hooks" /\ todo[t] = <<>> /\ watched[t] =>
            \A type \in {"Read", "Write"} :
                Cardinality({i \in DOMAIN emitted[t] : emitted[t][i] = type}) =
                    IF ~executes[t] THEN 0
                    ELSE (IF Image[Code[pc[t]].rtn] = binPath THEN 2 ELSE 1) * Operands(pc[t], type)

\* The calls of the lowest n frames of t, of those with debug information.
KnownFrames(t, n) == {[func |-> frames[t][i].rtn, frameBase |-> -i] :
                        i \in {j \in 1 .. n : frames[t][j].rtn \in KnownFuncs}}

\* The stack rebuilt for t has just those calls and what tail calls left there, in
\* the order of their places.
Rebuilt(t, n) == /\ {calls[t][i] : i \in DOMAIN calls[t]} = KnownFrames(t, n) \cup slipped[t]
                 /\ \A i, j \in DOMAIN calls[t] :
                      i < j => calls[t][i].frameBase > calls[t][j].frameBase

\* Every access is recorded between the Call and the Ret of the function that
\* makes it, so that the stack rebuilt from the log is the program's, with two
\* exceptions: the read of a ret itself comes after the Ret, and a function that
\* leaves by a tail call to one without debug information stays there, until a
\* known function is called at its place or above.
StackAtAccess ==
    \A t \in Thread :
        ~failed /\ emitted[t] # <<>> /\ Last(emitted[t]) \in {"Read", "Write"} /\ at[t] = "hooks" =>
            Rebuilt(t, IF Code[pc[t]].op = "ret" /\ Code[pc[t]].rtn \in KnownFuncs
                       THEN Len(frames[t]) - 1 ELSE Len(frames[t]))

\* The assertion of pop (callstack.cpp:46-47) fails at the Ret of a function under
\* whose frame such a call is left, and at no other Ret: not with tail calls between
\* known functions, calls through .plt, functions that return at several places, or
\* a call left behind that a later one has removed.
PopFailsAtSlipped ==
    [][\A t \in Thread :
         RoutineExit(t) /\ recording = "on" /\ ~failed /\ Head(todo[t]).id # NoFunc =>
             (failed' <=> \E call \in slipped[t] : call.frameBase < -Len(frames[t]))]_vars

\* The log shows a block that has been given back as still allocated, or allocated
\* once more (which the assertion of HeapInfo::handleAlloc, execcontext.cpp:118,
\* forbids), only as often as realloc has released it, whichever threads allocate
\* and free: the hook of malloc is at its end and the one of free at its beginning.
HeapLogMatches ==
    \A b \in Block : unfreed[b] <= lost[b] + (IF b \in taken THEN 1 ELSE 0)
=============================================================================
