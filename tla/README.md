# A TLA+ model of bin-inst

bin-inst is a Pin tool and a query program. The tool (`src/make_tool`) runs a
program under Intel Pin, records its calls, returns and memory accesses, and,
when `main` returns, gives every access the variable it touched. The query
program (`src/make_query`) reads the recorded events and prints an access
matrix, two locality figures and access patterns. `src/run.sh` runs one after
the other. Paths below are relative to `src/src/` unless they begin with `src/`.

The modules in this directory model the parts of both programs that keep state;
TLC checks them on small instances. TLAPS proves, for instances of any size, what the
dumper, the handlers, the replay of the call stacks and the event file promise, that the
instrumentation records every access of a program with its stack, and that the matrix, the
locality figures and the access patterns of the query program are those of the whole
trace (section 5).

## 1. The system

    traced threads --> hooks --> handlers --> dumper --> event file --> post-processing --> queries
    (Pin)                        (locks)      + saver                   (EventManager)     (EventManager)
    DWARF of the binary --> DebugContext -------------------> (functions, variables) ^

| Component | State | Operations | What is hard | What makes it correct |
|---|---|---|---|---|
| Instrumentation `tool/pin/pinhandler.cpp`, `tool/tool.cpp` | the hooks that Pin keeps for each instruction | `instrumentImageLoad`, `instrumentInstruction`, `instrumentRoutine`, `instrumentRoutineExternal` | two callbacks instrument the same instruction; order of the hooks at a routine's entry and its rets; routines without debug information | an access is recorded with the stack of the function that makes it; none is missed while `main` runs |
| Event dumper `tool/pin/pineventdumper.*` | two event blocks, two semaphores, `finished`, `totalEvents`, the event file | `addEvent`, `finalize` (traced thread); `threadFunc` (saver thread) | two threads share two pointers without a lock; the stream is buffered; the tool exits under the saver | no event lost, doubled or reordered; the count handed over is right; the caller is never stuck |
| Handlers `tool/pin/pinhandler.cpp` | `PinHandler::lock`, `mem::lock`, the requested sizes | one handler per kind of event, in any traced thread | lock order; blocking on the saver with a lock held; the end of `main` inside a handler | events in time order; the log is the run of `main`; every handler returns |
| Post-processing `tool/pin/execcontext.cpp` | a call stack per thread | `addEvent`, `dumpEvents`, `findObject` | frames that leave without a `Ret` | an access to a live local gets that variable of that frame |
| Call stack `common/callstack.cpp` | frames with their bases | `push` (with a clean-up), `pop` (with assertions) | stale frames | live frames are never lost |
| EventManager `common/event/eventmanager.h` | a chunk in memory, the cursor, call stacks, thread count | `next`, `reset`, `dump`, `load`, `save` | reads, writes and the cursor at chunk boundaries; three passes over one object | an array with a cursor |
| Queries `query/querymanager/` | filter, matrix | `accept...`, `reject...`, `getAccessMatrix`, `getLocalities`, `getAccessPatterns` | filter by the function on top of a replayed stack; merging of entries | the matrix counts exactly the accesses asked for |
| Patterns `query/pattern/` | a window, groups of matches, a hash table of shapes | `process`, `getMatches` | merging and erasing groups; packing a window into a hash | reported groups are chains, large enough, and all of them |
| Locality `query/locality/` | LRU caches, a ring of addresses, two histograms | `add`, `getValue` | two structures in each cache; int arithmetic on 64-bit words | the histograms are those of stack distance and stride |
| Debug information `common/debuginfo/`, `tool/dwarf/` | functions, variables, instruction bindings, by id | DIE walk, `toDbg`, `addFunc`, `addVar`, move, `save`, `load` | ids and pointers across a move and two programs; assertions on duplicates | the query finds what the tool recorded |
| `tool/tool.cpp`, `query/query.cpp` | – | `main`, `Fini` | `Fini` is called from a handler or from Pin; the saver's last write may come while the file is read | the queries read what the tool wrote, and end |

Not part of the behaviour that can be checked: `str()` functions (but for the
cells of the access matrix), `common/streamutils` and logs (formatting), `common/utils.*` (raw I/O of single values),
`tool/pin/eventkeeper.h` (included by nothing that is built), the build files,
`src/tools/*` and the programs in `src/test` (they are to be traced).

## 2. Modules

| Module | Models | Abstraction |
|---|---|---|
| `EventLog` | the promise of the dumper: an append-only log, handed over once | – |
| `PinEventDumper` | `pineventdumper.cpp`, one step per access to shared state | an event is an element of `Event`, unique because of its time stamp |
| `PinHandler` | `pinhandler.cpp`, `ExecContext::addEvent`, `Fini`; composed with `PinEventDumper` (`Dumper == INSTANCE PinEventDumper`) | the kinds of events that handlers treat alike are one kind |
| `CallStack` | `callstack.cpp`, as operators on sequences | – |
| `ExecContext` | the replay of Calls and Rets and the lookup in `execcontext.cpp`, beside the traced program's own stack | addresses are small integers |
| `EventStore` | the promise of EventManager: an array of events with a cursor | – |
| `EventManager` | `eventmanager.h`, as the post-processing and the query program use it | an event on file is its number in the log and whether it has its variable |
| `ToolRun` | the life of the event file: `PinEventDumper` and `EventManager` composed (`Dumper`, `Reader`), with `addEvent`, `dumpEvents`, `Fini`, the exit of the tool and `query.cpp` around them | the run is a constant log of events |
| `Instrumentation` | the instrumentation callbacks and the hooks they insert, while threads run a program | the program is a constant; hooks are atomic (`PinHandler`) |
| `QueryManager` | `QueryContext`, `AccessMatrix` with its table, `getAccessMatrix` | name and line of a variable are one tag |
| `AccessPattern` | `query/pattern`: all three patterns of a `PatternAnalyzer` | – |
| `Locality` | both localities and `LRUCache` | a `double` is a fraction, not rounded |
| `Query` | `query.cpp`: the three calls, composed of `QueryManager`, `Locality` and `AccessPattern` | each call keeps its own objects, so a behaviour is one of the calls |
| `Dwarf` | `tool/dwarf`: the walk over the DIEs, sizes of types, locations | libdwarf yields the next DIE; its attributes are those the parser asks for |
| `DebugInfo` | `DwarfContext::toDbg`, `common/debuginfo`, from the tool's contexts to the query's | a name, a line and a source file are data nothing looks at |
| `...MC` | instances for TLC | |
| `PinEventDumper_proofs` | theorems about the dumper | |
| `PinHandler_proofs` | theorems about the handlers, on top of the dumper's | |
| `CallStack_proofs` | lemmas about `push`, `pop` and the frames that the clean-up keeps | |
| `ExecContext_proofs` | theorems about the replay and the attribution | |
| `ToolRun_proofs` | theorems about the event file and its readers | |
| `Query_proofs` | theorems about the matrix, the locality figures and the access patterns | |
| `Instrumentation_proofs` | theorems about what is recorded of a program | |
| `DebugInfo_proofs` | theorems about the contexts of the debug information | |

State and actions carry the names of the code where it has one. How the rest
corresponds:

* `PinEventDumper`: `cpc` is the place of the calling thread in `addEvent` or
  `finalize`, `spc` that of the saver in `threadFunc`. `WaitSaved`,
  `ClearSaved`, `Swap` and `SetFilled` occur in both functions and take the
  places before and after as arguments. `stream` is the buffer of the saver's
  `ofstream`: a block of `StreamBuf` events or more is written through, a
  smaller one stays until the stream is closed at the end of the loop body,
  after `saved` was set (`SaverClose`). `Destroy` is `delete pinHandler` in
  `Fini`; from then on the saver's read of `finished` gives either value.
  `recorded` is history.
* `PinHandler`: `pc[t]` is the place of a thread; `app` is the traced program,
  `libc` the inside of `malloc`. A thread in `dump`, `dumpLast` or `fini` takes
  the steps of the dumper's caller, so `cpc` says where it is. `Saver` runs
  beside. `EnterFini` is `Fini(0, nullptr)` at the Ret of `main`
  (`execcontext.cpp:257-263`), `ProgramExits` the same function called by Pin.
  Two assumptions on what is not in `src/`: `exit(0)` inside a handler ends the
  process without another call of `Fini`, and Pin stops the other threads
  outside of analysis functions before it calls `Fini`.
* `ExecContext`: program and replay step together, which `RecordedInTimeOrder`
  and `ImplementsEventStore` justify. `real[t]` is the program's stack, `calls[t]`
  the replayed one. A frame leaves `real` by `Ret`, by `TailCall` to a function
  with debug information, or by `LeaveSilently` (`longjmp`, an exception, a
  tail call to a function without debug information). A frame is the bytes from `Bottom`,
  below its base, up to `Top`, above it: the DIE walk records locals and, as parameters are
  collected like variables (`dwarfparser.cpp:157`), those that the caller pushed, which lie
  from the frame base on. Variables of one function may share bytes, as those of disjoint
  lexical blocks do. Their sizes are taken to be right; `SizeAndExtent` of `DebugInfo` says when
  they are. The callee of a tail call has no more parameters on the stack than the caller.
  `heapSupportEnabled` is a constant `false` (`execcontext.h:53`), so `HeapInfo` is not
  modelled.
* `EventManager`: `pc` splits `next()` at its two accesses to the file, between
  which the saver may write. `mode` says who iterates.
  `returned` is the event as the caller of `next()` leaves it: the
  post-processing writes `varId` through the reference.
* `ToolRun`: `file` belongs to both components. `Write` are the steps of the
  dumper's two threads, up to `delete pinHandler` and the exit of the process,
  `Read` those of `dumpEvents` in the thread that called `finalize` and of the
  query program, which `run.sh` starts when the tool has ended. `Save` goes on
  beside `Read`: the saver may still close its stream. `handed` is the count
  that `finalize` returns, which the reader takes for the number of events.
* `Instrumentation`: `hooks` is what `instrumentImageLoad` left at each address;
  `Fetch` adds what `instrumentInstruction` puts there when Pin compiles the
  instruction, and chooses the value of its predicate. `frames` is the program's
  stack, `calls` the one a reader rebuilds from the log. Assumptions on Pin: calls
  inserted by both callbacks stay, and run in the order of insertion;
  `IPOINT_AFTER` is before each `ret`; whether `INS_Next` is valid in an
  instruction callback is open. The threads beside `main`'s are started by
  `main`. `calloc` is hooked like `malloc`, `realloc` not at all: `Resize` may move, free or
  keep the block. `aborted` is the assertion at `pinhandler.cpp:203`, that an operand is read
  or written. `executes` is the value of the predicate; `watched`, `emitted`, `unfreed`,
  `slipped` (the calls that a tail call has left on the rebuilt stack) and `lost` (how often
  `realloc` has released a block unseen) are history. What the program has to
  keep to is stated in four assumptions, which TLC evaluates for the program of the run:
  `CodeAssumption` (types), `FlowAssumption` (a routine with debug information, `malloc`
  and `free` are entered at their first instruction; where a tail call goes is free),
  `StartAssumption` (only startup code without debug information leads to
  `main`, and threads start in such code) and `HeapAssumption` (the program gives to `free` and
  `realloc` what `malloc` or `realloc` returned, once; `holds` and `gives` of an instruction say
  where it has such a block at hand; `malloc` and `free` are in a library and do their work
  without calls). Other allocators without hooks (`memalign`, `mmap`) are routines
  with an instruction `alloc`.
* `AccessPattern`: `PushAccess` is `PatternAnalyzer::pushAccess`, that is
  `process` of all three patterns.
* `Query`: `call` is which of the three calls of `main` is looked at.
* `Locality`: `Add` is one accepted access in `getLocalities`. The loop in
  `SpatialLocality::add` always stops in its first round (`break` after the
  first difference, which is below `SIZE_MAX`): the model has that round only.
* `Dwarf`: a call of `walkTree` is the step `WalkTree`; `walkInfo[d]` is the local
  `childWalkInfo` of the call for DIE `d`. The binary is read as it is walked: any
  DIE that a compiler may put there comes next, and `dies` records the tree. An
  offset is a position in this sequence. Each dimension of an array has a lower and an upper
  bound, if the DIE gives them. `getSize` reads no lower bound. It does not look at the
  result of `dwarf_formudata` either, which refuses an upper bound that is negative or no
  constant: the variable then keeps the value of the dimension before, or, in the first, what
  happens to be in memory (`junk`). The `off` of a `LocEntry` is an `int` (`IntLimit` is 2^31),
  so `Entries` cuts the operand of an operation. Sizes beyond 2^64 are not modelled.
* `DebugInfo`: `conv`, `tool` and `query` are the three contexts: `ctxt` in `toDbg`,
  `dbgCtxt` of the tool and `debugContext` of the query. A pointer to a function
  is the key of its map node. `VarInfo`s are a set because theirs is ordered by
  address (`varinfo.cpp:21-24`): the argument of `insert` is never in it, so each
  is inserted, at a place that depends on the layout of memory; `LoadVar` takes
  them in any order, and so does `LoadFunc` with the functions, which the file has in
  the order of their names. A step is one round of one of the loops in `toDbg` and
  `load`; `todo` and `todoVars` are the functions and variables still to come, in the
  order of their DIEs in `toDbg`.
* `QueryManager`: `Configure` and its four users are the calls on the
  `QueryContext`; `Visit` is one round of `getAccessMatrix`; `Columns` and `Row`
  are what `str()` gives to the table.

Beside some definitions stands a `Variant of` them with a plausible mistake. They are
used by nothing; replacing the definition by its variant makes the property named
with it in `PROJECT.json` fail.

## 3. Runs

| Run | Instance | Shows |
|---|---|---|
| `dumper` | blocks of 2 events, 5 events, 2^31 replaced by 4, streams that keep 1 event | safety, refinement of `EventLog` and liveness of the dumper |
| `dumper_finalize` | the same with 3 events | **violated**: `finalize` may wait for ever |
| `dumper_saved` | the same with 3 events | **violated**: events announced as saved are not in the file |
| `handler_safety` | 2 threads, 2 operations each, sizes 0 to 2, blocks of 2 | locks, order, start and end of the recording, allocation sizes |
| `handler_live` | the same, one size | every handler returns |
| `replay` | 2 threads; 2 functions, one with a local and a parameter on the stack, one with two locals that share a byte; 7 and 2 frame bases; up to 2 silent leaves per thread | replayed stacks and attribution |
| `replay_assert` | the same | **violated**: an assertion of `CallStack::pop` |
| `instrument` | 42 instructions in 11 routines (4 with debug information) of 2 images, 2 threads, 2 blocks of memory | which accesses are recorded, how often and with which stack; which Rets fail the assertion of `pop`; the order of Alloc and Free |
| `toolrun` | all well-nested logs of up to 5 events, blocks of 3 (written when the third is in), a stream that keeps 2 events, chunks of 2, 2 query passes | the file from the dumper to the queries; refinement of `EventStore`; liveness of the readers |
| `query` | matrix: 2 threads, 2 functions (symmetric), 4 variables (2 with one tag, 2 without), 2 calls on the context, 2 events; localities: 7 addresses in 6 words, traces of up to 6, caches of 2, 3 and 5 words, a window of 2, ints below 4; patterns: 5 different accesses, traces of up to 7, groups of 2 | filter, matrix, table and merge; histograms and figures; groups, merging, shapes |
| `debuginfo` | all trees of up to 5 DIEs of 18 kinds: units in three languages, 4 functions, 2 scopes, 9 variables over 9 types, ints below 16 | scopes, sizes, places, ids and pointers from the DIEs to the query |

Why the bounds are enough. *Dumper*: five events fill two blocks and leave a
last one that is empty, short or full, so each block is swapped in both roles;
the saver can be one hand-over behind, at most, because the caller waits for
it; 4 is passed by the count in the second block. *Handlers*: two threads
suffice for every conflict of two locks; four operations fill the block once
and leave something for `finalize`. *Replay*: seven bases take three frames, so
a stale frame can lie above, at and below a new one, and two can be stale at
once; a parameter of two bytes has one at the frame base and one above. *File*: five events are three chunks, the last one partial, four are
two full ones, and two blocks, the last one short; what the stream keeps may cover
a whole chunk or parts of two. *Instrumentation*: two threads in `f`, which has
two rets and tail calls to `g` and to `u`; `u` has no debug information and jumps on to `g` or
calls it, so the call of `f` that is left behind is replaced, or buried, or stays on top
until the caller returns or calls again; one thread is below a routine without debug
information; a block can go from one thread to the other, and through `realloc`. *Patterns*: seven accesses
hold two groups of two with a short one between. *Locality*: more distinct
words than the largest cache holds; with ints below 4 and words up to 9, distances alias. *Query*: one event to be filtered and one
to be merged with it; two calls that disagree. *Debug information*: five DIEs are
a unit, a function, a scope with a variable in it and one after it, or two units
with a function each; an address of 20 is beyond the int; arrays begin at, above and below the
index that `getSize` presumes, and have bounds that it cannot read.

Deadlock checking is off in all of them because the modelled program ends
(the process exits, the log or trace has its maximal length); `HandlersReturn`,
`FinalizeReturns`, `FinalizeReturnsIfSaverWaits` and `QueriesEnd` look for threads
that are stuck.

### Properties

Dumper. `BlockHasOneOwner`: the semaphores pass one token. `NothingLost`: the
events recorded are always the file, the stream, the block being written and the
block being filled, in this order. `HandedOverComplete`: when `finalize` has
returned, only what the saver's stream holds can still be missing, and the count
is right below 2^31. `FinalizeReturnsIfSaverWaits`: with the saver at its wait,
`finalize` comes back.

Instrumentation. `AccessesRecorded`: what is read and written by an instruction
whose predicate is true is in the log, twice for the binary and once for the
libraries. `StackAtAccess`: the stack rebuilt from the log is the program's at
each access, whatever routines are passed over, with two exceptions: the read of
a `ret` itself comes after the Ret, and the call of a function that left by a tail call to a
routine without debug information stays until a known function is called at its place or
above. `PopFailsAtSlipped`: the assertion of `pop` fails at the Ret of a function
under whose frame such a call is left, and at no other. `HeapLogMatches`: the log
shows a block allocated that was given back, or allocated more than once, only as
often as `realloc` has released it since its last Free.

Handlers. `DumperCallsSerialised` discharges what the dumper assumes of its
callers. `RecordedInTimeOrder`: time stamps increase along the log, across
threads. `LogIsTheRunOfMain`. `AllocHasItsSize`: the comment "not thread safe"
(`pinhandler.cpp:36`) is made precise: the size is right for every allocation
that overlaps no other one of the same function. `HandlersReturn`.

Replay. `LiveFramesFound` (with `BasesDecrease`) and `CallHeals` say what the clean-up in
`push` achieves; `ExactStacks` that without silent leaves it never removes too
much; `AttributionIsRight` that each byte of a variable of thread 0 that lies below or at the
frame base gets the first variable of that live frame which has the byte, although stale
frames are searched too; that other bytes, those of parameters on the stack but for the first
(`addr <= call.frameBase`, `execcontext.cpp:203`), get none, or one of a stale frame; that the stacks
of other threads get none.

File. `ShortReadIsLateFlush`: only the post-processing can meet the end of the
file too early, and only between `saved` and the close of the saver's stream,
which is the finding of `dumper_saved`. Until then `ImplementsEventStore` and
`FileIsAnnotatedLog` say that chunks are written back to where they came from, at
every cursor, and that a query changes nothing; after it, `FileIsAnnotatedLog`
bounds the damage: all events but those the stream can hold back are right.
`StacksAreOfThisPass`: the stack a query filters by is that of the traced program
at this event, and its number of threads is right (`ThreadsAreCounted`).
`QueriesEnd`: whatever is in the file, the passes end.

Queries. `MatrixIsExact` (with `MergedByTag`), `GroupsAreChains` (with
`NoSmallGroupReported`), `LongRunsAreReported`, `StatCountsShapes`,
`ReuseIsStackDistance` (with `MapMatchesList`), `StridesAreExact`: each
relates a table built event by event to a definition over the whole trace.
`StridesAreExact` holds for every trace: a bin counts the accesses at that distance from the
one a window ago, and exactly those `Misplaced` there: the first ones of the trace, which are
compared with the zeros in the window (`spatiallocality.h:18`), and those whose distance becomes the bin's only
when it is cut to an `int` (28).
`MatrixIsExact` also looks at the cells that are printed. `FiguresAreShares`: both
figures are between 0 and 1, are no numbers only if no access was accepted, and
the temporal one is the mean weight of the stack distances.

Debug information. `ExactlyTheKnown` goes from the DIEs to the context of the
query: each variable that can be attributed, no other, with a place of its kind;
its part `ScopesAreEnclosing` says that what a subtree sets in its `WalkInfo` never
reaches a sibling, its part `SizeAndExtent` compares sizes with a count of the indices
of an array, from its own lower bound, or that of its language, on. The size is at least
that count when each dimension starts at or above the index that `getSize` presumes, at most when
they start at or below, so it is exact for those that start there; an array without an upper bound has the size of a
pointer, as Fortran passes it; a bound that is no constant has no count.
`QueryFindsTheSame`: the ids in the event file mean the same to
the query; its part `PointersAgree` says that maps by name and by id, sets and lists of
variables agree after every operation. `AbortsOnTwins`: the assertion of `addFunc` (`debugcontext.cpp:57`)
ends the tool exactly if two functions with an `rsp` frame base have one name, as
`static` functions of two C files may.

### Fairness

`PinEventDumper!Fairness` lets the saver and a caller inside the dumper run:
both are native threads, and semaphores of Pin wake their waiters. Nothing makes
the traced program record another event or end. `PinHandler!FairSpec` adds that
each thread runs inside its handler and that `malloc` returns. Weak fairness for
`PIN_GetLock` is enough because `MaxOps` bounds how often a lock is taken, so
the properties do not claim that the lock is fair without that bound.
`ToolRun!FairSpec` asks only that the thread which runs `Fini` and the query program
run (`Read`, `Exit`): for the saver, for which nobody waits after `finalize`, and
for the traced program there is no fairness.

## 4. What the checks found

* `finalize` can wait for ever (`dumper_finalize`): the saver reads `finished`
  after it has set `saved` for an earlier block. If `finalize` passes its wait
  and sets `finished` in between, the saver returns, the last block is not
  written and nobody sets `saved` again. It needs a full block shortly before
  the end of `main`.
* The last block may not be in the file when it is said to be saved
  (`dumper_saved`): `saved` is set before the stream is closed. It concerns a
  last block smaller than the stream buffer. `toolrun` shows what follows: the
  post-processing gets stale bytes unless the stream is closed before it reads, and
  then the events that the stream held back, but no other, are wrong or missing in
  the file the queries read.
* An assertion of `pop` fails for legal programs (`replay_assert`). `PopFailsAtSlipped` gives
  the common case: a function ends in a tail call to a routine without debug information
  (`jmp printf@plt`), and its caller returns without a further call.

What the model keeps as the code has it, and no line of the
repository contradicts: `AccessPattern::mergeMatches` erases the new match and
not the small group before it (`accesspattern.cpp:78`), so a short run hides
later long ones (`LongRunsAreReported` says when it does not);
`AccessMatrix::merge` adds into a copy (`auto first`, `accessmatrix.h:115`), so
what is merged is lost; every access of the binary is recorded twice, since both
callbacks instrument it (`AccessesRecorded`), so the column "Accessed" of the matrix
counts double; the temporal figure gives the closest accesses, those of cache 0, no
weight (`FiguresAreShares`); the first accesses of a trace are compared with zeros
and distances beyond 2^31 words are cut (`StridesAreExact`).

Three more are about sizes and places of variables. `getSize` looks at no lower bound
(`dwarfparser.cpp:98-117`), so `a(0:n)` and `a(-5:5)` in Fortran get too small a size, and any
array with a first index above the usual one too large a size. It does not look at the result of
`dwarf_formudata` (99, 110), so an upper bound that is negative or no constant gives a size
that is chance. An address beyond 2^31 is cut to an `int`. `SizeAndExtent` and
`ExactlyTheKnown` say for which arrays and addresses what is recorded is right. And of a
parameter on the stack only the first byte is found (`AttributionIsRight`).

`realloc` has no hooks, so a block that it moved or freed shows as allocated until its next
Free, and a later Alloc of the same block shows it allocated twice
(`HeapLogMatches`). Nothing reads this today (section 7).

`toDbg` accepts an address for a variable of a function only if its type is
`Static` (`dwarfcontext.cpp:119-128`), which `walkTree` gives to no variable that
has a function: a `static` local is never attributed to. `ExactlyTheKnown` says so.

## 5. What is proved

For every value of the constants, from the named assumptions, in eight modules, of
which `CallStack_proofs` has lemmas only. Each of the others has an inductive invariant,
a conjunction of named parts, lemmas that a step of the program keeps the parts, and the
theorems at the end. The assumptions are evaluated by TLC in the runs.

`PinEventDumper_proofs` (any events, block size, stream buffer, int width):

* `TypeCorrect`, `OneOwner`, `NoEventLost`, `HandOver`: `Spec` implies
  `[]TypeOK`, `[]BlockHasOneOwner`, `[]NothingLost`, `[]HandedOverComplete`;
* `Implementation`: `Spec => ImplementsEventLog`.

None of the four is inductive. The argument is about the token: `Handshake` adds
to `BlockHasOneOwner` that `filled` stays off while the saver works and that
`saved` stays on between the caller's wait and its clear. From the token follow
`Buffers` (a block that is swapped back is empty, a stream is empty when the
next block is written) and with them that each step moves events only across one
boundary of the concatenation in `NothingLost`. `Counts` relates `totalEvents`
to the file while it fits an int. For the refinement, `FileGrows` shows that what the
saver adds to the file is the next part of `recorded`.

`PinHandler_proofs` (any number of threads, any `MaxOps`, sizes and blocks):

* `DumperWithin`: `Spec => Dumper!Spec`. What the threads do, with their locks, is a run
  of `PinEventDumper`, which lets its caller do one thing at a time; so the dumper's
  theorems hold of the composition (`DumperKeepsItsPromises`).
* `TypeCorrect`, `Serialised`, `TimeOrder`, `RunOfMain`, `AllocSizes`: `[]` of `TypeOK`,
  `DumperCallsSerialised`, `RecordedInTimeOrder`, `LogIsTheRunOfMain`, `AllocHasItsSize`.
* `EventsAreUnique`: the guard of the dumper's `AddEvent` that makes events distinct
  never holds a thread back. The time stamps see to it.

The parts of the invariant: `Locks` (which places of `pc` imply which lock: who is inside
the dumper holds `lock`, or is alone because Pin stopped the others), `InsideDumper`
(which places of `pc` go with which of `cpc`), `Stamped` (an event that waits for the
dumper is younger than all recorded ones), `MainRun` and `LastIsRet` (between them:
nothing is added after the Ret of `main`), `Sizes` (the size requested is that of the
only allocation in flight).

`ExecContext_proofs`, from the lemmas about the stack in `CallStack_proofs` (any threads,
functions, frame sizes, locals, parameters and frame bases):

* `TypeCorrect`, `LiveFrames`, `Exact`: `[]` of `TypeOK`, `LiveFramesFound`, `ExactStacks`;
* `Heals`: `Spec => CallHeals`;
* `Attribution`: `[]AttributionIsRight`.

`CallStack` defines the clean-up by its result, the frames `Kept`: those below the first
that is not above the new one. `KeptIs`, `PushIs` and `PopIs` say this as a length
that is least or greatest; that there is one (`LeastExists`) comes from the well-ordering
of the naturals. With frame bases that decrease, `push` then removes stale frames only and `pop` cuts
exactly above the frame that returns. `Attribution` needs that frames of a thread do not
overlap, which `Call` and `TailCall` see to, nor the stacks of two threads
(`StackAssumption`), nor static variables (`StaticAssumption`), and that a
variable is a local, below the frame base, or a parameter, from it on (`VarsAssumption`).
`VarInFrame` puts a variable inside its frame and `VarAtIs` makes the lookup in a frame a
least index. With `NotAbove` (for an address from the bottom of a live frame on, no frame
further in, whose base is below, comes into question), `StackObjectIs` finds the frame of a
byte up to the frame base, and `ParameterObjectIs` shows that no live frame is found for the
bytes above.

`ToolRun_proofs` (any logs, threads, blocks, stream, chunks, number of passes), from the
dumper's invariant and `CallStack_proofs`:

* `TypeCorrect`, `FileAnnotated`, `ShortReads`: `[]TypeOK`, `[]FileIsAnnotatedLog`,
  `ShortReadIsLateFlush`;
* `Implementation`: `Spec => ImplementsEventStore`. The array is the log, with the variable
  for each access before the cursor; a short read is its `Break`;
* `Stacks`: `[]StacksAreOfThisPass`.

The invariant is two, one on each side of `handed`: `Recording`, the invariant of the dumper with
idle readers, and `Reading`. Its heart is `Chunks`: `file \o stream` holds an event as it is
now unless its chunk is in memory, and then it holds it as it is or as it was recorded, while
the memory holds it as it is. `Lengths` says how much the stream may hold back, `Cursor`
that the cursor is at a multiple of the chunk size when there is a load. The rest is
arithmetic of `%` and of concatenation.
`Replayed` relates the stacks to the calls of the log that have not returned.

Assumptions on the log (`LogsAssumption`): it begins with a Call, which is
`LogIsTheRunOfMain` with the lines that start the recording, and an int can count its
events, beyond which `HandedOverComplete` promises no count. `Stacks` alone also uses
`NestedAssumption`: every frame leaves with an event. Programs that do not keep to it are
the subject of `ExecContext`. In all modules: blocks are smaller than an int can count, a
stream has a buffer, and the values that stand for "none" are no values of their kind.

`Query_proofs` (traces of any length, any number and size of caches, window, histogram,
group and pool):

* `TypeCorrect`: `[]TypeOK`, of all three calls;
* `StridesExact`: `[]StridesAreExact`. By `Ring`, the window holds the latest words, the one
  of `d` accesses ago at `PlaceOf(d)`; `DistanceIs` is the arithmetic of the cut to an int;
* `ReuseCorrect`: `[]ReuseIsStackDistance`, with `MapMatchesList`. By `InOrder`, the list of a
  cache is the latest distinct words of the trace, as many as fit, the latest first, so a
  cache has a word just if no more words than that came since (`Since`); and the sizes of
  the caches ascend. `CacheSize` is defined by recursion, and TLA+ gives a meaning to such a
  function only if there is one: `CacheSizeIs` shows it, by the least number without a value;
* `FiguresCorrect`: `[]FiguresAreShares`. By `Shares`, no access is counted at two strides, so
  `SpatialValue` is at most 1 (`SumScaled`). The temporal figure adds up levels, the property
  accesses: `SumByLevel` exchanges the two, since `Histogram` counts the accesses of a level;
* `GroupsCorrect`: `[]GroupsAreChains`. By `Chains`, also before `getMatches` all groups but
  the last are large enough, although `mergeMatches` erases the wrong one;
* `LongRunsCorrect`: `[]LongRunsAreReported`. `KeptAll` says that the groups add up to the
  matches so far, that the last group ends at the last match, and that it is no smaller than the run
  that ends there. If every run that has ended was long (`EndedRunsAreLong`), then the last
  group is small only while its run goes on, and the next match extends it (`KeepsAll`): so
  `mergeMatches` never erases. In the end the last run is long too, and `getMatches` drops
  nothing (`ReportsAll`);
* `MatrixCorrect`: `[]MatrixIsExact`. By `MatrixInv`, each entry counts the wanted accesses
  of the trace so far, and `seen` is their threads. `Filters` relates the two sets and flags of
  a `QueryContext` to the last call about each argument. For the table,
  `SeenInOrder` is an enumeration of `seen`, because numbers of smaller threads differ
  for different threads. The merge keeps the smallest id of each tag;
* `StatCorrect`: `[]StatCountsShapes`. `HashCodeIs` divides a code again into its three
  parts, so that `SameCode` holds: two windows share a code if and only if they have one shape.
  Then the test of the names in `match` never fails (`PoolStep`).

The assumptions (`SizeAssumption` of `Locality` and `AccessPattern`) are those of the
constants in the code: at least two caches, bins for no more strides than an int has
(`StrideSize <= IntLimit`), addresses that are no less than 0, accesses that are reads or
writes. Of the trace nothing is assumed.

Each of these is a table that grows with the trace, and each invariant says of the table
what the property says of the trace so far. One more access adds one position to a set, or
none (`CountNext`): the induction is that over steps. Only the sums of `FiguresCorrect`
and `LongRunsCorrect` need one over data. The library defines them by recursive functions
over the subsets of a set; `FoldExists` shows that there is such a function, and `SumNext`
and `SizesOfLonger` what one more element adds. For want of an induction theorem, these
proofs and those about sums take the least number of elements for which the claim fails
(`LeastExists`).

`DebugInfo_proofs` (any DIEs, trees of any size and shape, any instructions):

* `TypeCorrect`, `Found`, `Aborts`, `KnownExactly`: `[]` of `TypeOK`,
  `QueryFindsTheSame` (with `PointersAgree`), `AbortsOnTwins`, `ExactlyTheKnown`.

`Agree(c)` is what `PointersAgree` says of one context, with the shapes of its records; a
lemma per operation (`PutFuncAgrees`, `PutVarAgrees`, `MoveAgrees`) shows that it
keeps a context whole if the name and the id are not in use. That they are not in use is
the rest of the invariant: `Good` (every id was handed out, so the next is new),
`Converting` (the names in the context are those of the functions that `toDbg` has
visited and keeps, one each; so a name that is in use belongs to a twin) and `Loading` (what
the query has is the tool's, and the file holds the rest). `Tree` says that a function's
list holds variables of its own, so the function of a variable is in the context
before it. `LoadedVarIs` is the step from an id on file back to a function:
the ids of functions begin at 0, and -1 is none of them.

`ExactlyTheKnown` needs more (`AttributionInv`). `Walked` says what `walkTree` has put
down: the `WalkInfo` of a DIE is `InfoAt`, which looks at nothing but the DIE and those
around it, and there is a variable for each DIE that has a size. So nothing comes from a
sibling, and `WalkNests` and the lemmas about `InAt`, the innermost DIE of some tags, make
`ScopesAreEnclosing` of it. `Attributing` says which variables `toDbg` has put into a
context so far, each once and at its place (`MadeFor`); at the end those are the known ones
(`KnownAre`). `SizeAndExtent` is about data alone: `size` and `bytes` are recursive functions
over the types, `UpperBounds` and `ElemCount` over the dimensions. `NumbersExist` shows that
there are such functions because no type is made of itself, `SameNumbers` that there is one
only; `UpperBoundsAre`, `ElemCountIs`, `SizesAre` and `ExtentsAre` say what they are.
`IndicesNext` shows that a dimension more multiplies the tuples of indices by its
elements: a bijection, for each dimension, takes the place of an induction (`ElementsAre`). Then
`SizesGrow` compares the two products, factor by factor and type by type, and
`SizesFollow` makes `SizeAndExtent` of it.

Assumed are the fields of a DIE (`DieAssumption`), that the null pointer is nobody's name
(`NoFuncAssumption`), and of what compilers write:

* `TreeAssumption`: units are at the root (`dwarfparser.cpp:271` asserts it), a lexical
  block is in a function, for else the variables in it have automatic storage and no function
  (190), and the location of a variable outside of functions begins with an address,
  for `toDbg` takes its first entry for one without a look (`dwarfcontext.cpp:145-153`).
* `TypeAssumption`: the DIEs of types refer to each other without a circle, or `getSize`
  would not return, and every dimension but the first has an upper bound (109 asserts it). A
  bound may be negative, the upper one also no constant.

`Instrumentation_proofs` (any program that keeps to the assumptions of section 2: any number
of threads, images, routines, instructions with any operands, and blocks):

* `TypeCorrect`, `EveryAccessRecorded`, `StackCorrect`, `HeapCorrect`: `[]` of `TypeOK`,
  `AccessesRecorded`, `StackAtAccess`, `HeapLogMatches`;
* `PopFails`: `Spec => PopFailsAtSlipped`.

The hooks before an instruction are a concatenation, and `AllHooksAre` says once what the
rest needs of it: their order (`Ordered`), that none is missing (`Complete`), and how many record
an access (`Count`). A first hook that is taken away keeps `Ordered` (`OrderedTail`). Then
`AccessInv` adds what is recorded to what is still to run: the sum stays the number of accesses.
`FramesInv` is about the program alone: a frame is of the routine in which it goes on, no call
returns to the first instruction of a routine, and below `main` there is only startup code.
`StackInv` says that, until the assertion of `pop` fails, the rebuilt stack `Shows` the frames
of known functions and, among them, just the calls in `slipped`, but for the top frame when
its Call is due (`Pending`) or its Ret is recorded (`Exited`). It covers a tail call, which
makes the call of the routine left a slipped one until the clean-up in `push` removes it; the
call of `main`, when the stacks of all threads are still empty and have to be right nonetheless;
and the hooks at an instruction that is both the first of its routine and a `ret`. At a Ret the
stack is then that of the frames with their slipped calls, and the last of these decides the
assertion (`ExitFails`). `HeapInv` says that two threads never hold one block, that a block at
hand is allocated and not owned, and that the log does not show a block between `malloc` and
the hook at its end, nor between the hook of `free` and its end (`Unlogged`), more often than
`realloc` has released it (`Settled`).

What stays with TLC:

* Liveness, which this prover cannot do: `FinalizeReturnsIfSaverWaits`, `HandlersReturn`,
  `QueriesEnd`. Also `FinalizeReturns` and the two other findings, which fail. Every
  invariant and every action property that a run confirms is proved.

## 6. How the parts are composed

The components are composed where they interact (handlers and dumper in `PinHandler`,
the file in `ToolRun`, the DIEs and three contexts in `DebugInfo`, the queries in
`Query`). Proved are the path of an event from the instruction that causes it to the
handler, to the file and back out of it, what the queries make of it, and the debug
information from the binary to the query. Open is a bound on the thread ids that index
the call stacks.

## 7. What is not modelled

* `HeapInfo` (`execcontext.cpp`): `heapSupportEnabled` is a constant `false`, so
  neither it nor the assertion in it is reached. With it on, the log would violate the
  assertion at `execcontext.cpp:118` for programs that call `realloc`, and, by
  `HeapLogMatches`, for no others that keep to `HeapAssumption`.
* The search for the binary's path in `argv` (`tool.cpp:75-82`): `binPath` is a
  constant. `ThreadStart` only tests the limit of the stack.
* Reads and writes beyond the 244 call stacks of `MAX_THREADS`.
* libdwarf and Pin, but for what is assumed of them above.
* All output but the cells of the access matrix: widths, texts, logs.
* The rounding of `double` in `getValue`, and sizes of 2^64 bytes or more.
