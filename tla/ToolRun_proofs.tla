---------------------------- MODULE ToolRun_proofs ----------------------------
(***************************************************************************)
(* What holds of the event file for every log, any number of threads and   *)
(* any sizes of blocks, chunks and the stream: the dumper, the saver that  *)
(* is late to close its stream and the readers that write back what they   *)
(* read leave the annotated log on file, and the readers see an array of   *)
(* events with a cursor (EventStore).                                      *)
(***************************************************************************)
EXTENDS ToolRun, CallStack_proofs, FiniteSetTheorems, SequenceTheorems, TLAPS

DumperProofs == INSTANCE PinEventDumper_proofs
                  WITH Event <- StoredEvent, totalEvents <- eventsWritten

(***************************************************************************)
(* The inductive invariant, in parts.                                      *)
(***************************************************************************)

\* The events finalize waits for are all in the dumper from here on.
Finalizing == {"finWait", "finClear", "finSwap", "finFinish", "finFill", "finWaitLast"}

\* Until finalize returns: the dumper's own invariant, and nobody reads.
Recording ==
    /\ DumperProofs!IInv
    /\ recorded = [i \in 1 .. Len(recorded) |-> Reader!Stored(i)]
    /\ Len(recorded) <= Len(log)
    /\ cpc \in Finalizing => Len(recorded) = Len(log)
    /\ cpc \notin {"done", "destroyed", "exited"}
    /\ Reader!Init

\* After that: what the saver may still do.
Closing ==
    /\ handed = Len(log) /\ recorded \in Seq(StoredEvent)
    /\ cpc \in {"done", "destroyed", "exited"} /\ saved = TRUE /\ filled = FALSE
    /\ finished \in BOOLEAN
    /\ spc \in {"wait", "check", "closeLoop", "closeReturn", "returned", "killed"}
    /\ stream # <<>> => spc \in {"check", "closeLoop", "closeReturn"}
    /\ Len(stream) < StreamBuf
    /\ cpc # "done" => mode # "post"
    /\ cpc = "exited" => stream = <<>> /\ spc \in {"returned", "killed"}
    /\ mode = "query" => cpc = "exited"

\* An event on file, or the zero bytes that a short read leaves.
OnFile == [n : 0 .. Len(log), hasVar : BOOLEAN]

ReaderTyped ==
    /\ file \in Seq(OnFile) /\ stream \in Seq(OnFile)
    /\ preloadEvents \in [0 .. EVENT_CHUNK_SIZE - 1 -> OnFile]
    /\ returned \in OnFile
    /\ DOMAIN callStackGlobal = Thread
    /\ totalThreads \in Nat
    /\ failed \in BOOLEAN /\ shortRead \in BOOLEAN
    /\ mode \in {"post", "saved", "query"} /\ passes \in 0 .. MaxPasses

\* The cursor is at the begin of a chunk while that is read.
Cursor ==
    /\ iterIndex \in 0 .. Len(log)
    /\ pc \in {"top", "load", "event"}
    /\ pc # "top" => /\ iterIndex < Len(log) /\ iterIndex % EVENT_CHUNK_SIZE = 0
                     /\ mode # "saved"
    /\ mode = "saved" => iterIndex = Len(log)

\* The events that no short read can miss or garble.
Trusted == {i \in 1 .. Len(log) : ~shortRead \/ i <= Len(log) - (StreamBuf - 1)}

\* An event as the post-processing has it by now.
Now(i) == [n |-> i, hasVar |-> (mode # "post" \/ i <= iterIndex) /\ Reader!IsAccess(log[i])]

\* The chunk in memory is up to date, and the file beside it.
Chunks ==
    \A i \in Trusted :
        /\ InMemory(i) => preloadEvents[(i - 1) % EVENT_CHUNK_SIZE] = Now(i)
        /\ InMemory(i) /\ ~shortRead => i <= Len(file)
        /\ ~InMemory(i) \/ pc = "load" \/ mode # "post" => (file \o stream)[i] = Now(i)
        /\ (file \o stream)[i] \in {Now(i), Reader!Stored(i)}

\* How much is in the file.
Lengths ==
    /\ Len(log) - (StreamBuf - 1) <= Len(file)
    /\ ~shortRead => Len(file) + Len(stream) = Len(log)
    /\ ~shortRead /\ mode # "post" => stream = <<>>

Reading == Closing /\ ReaderTyped /\ Cursor /\ Chunks /\ Lengths

IInv == /\ log \in Logs
        /\ handed = NotHandedOver => Recording
        /\ handed # NotHandedOver => Reading
-----------------------------------------------------------------------------
(* The dumper, until it hands over.  Dumper and DumperProofs name the same   *)
(* module twice, once without and once with what is proved of it.            *)

LEMMA SameInit == Dumper!Init <=> DumperProofs!Init
  BY DEF Dumper!Init, DumperProofs!Init

LEMMA SameNext == [Dumper!Next]_(Dumper!vars) <=> [DumperProofs!Next]_(DumperProofs!vars)
  BY DEF Dumper!AddEvent, DumperProofs!AddEvent, Dumper!WaitSaved, DumperProofs!WaitSaved,
         Dumper!ClearSaved, DumperProofs!ClearSaved, Dumper!Swap, DumperProofs!Swap,
         Dumper!SetFilled, DumperProofs!SetFilled, Dumper!HandBlockOver,
         DumperProofs!HandBlockOver, Dumper!Finalize, DumperProofs!Finalize,
         Dumper!SetFinished, DumperProofs!SetFinished, Dumper!ReturnEventManager,
         DumperProofs!ReturnEventManager, Dumper!FinalizeSteps, DumperProofs!FinalizeSteps,
         Dumper!Destroy, DumperProofs!Destroy, Dumper!ProcessExit, DumperProofs!ProcessExit,
         Dumper!SaverWaitFilled, DumperProofs!SaverWaitFilled, Dumper!SaverClearFilled,
         DumperProofs!SaverClearFilled, Dumper!SaverWrite, DumperProofs!SaverWrite,
         Dumper!SaverCount, DumperProofs!SaverCount, Dumper!SaverEmpty,
         DumperProofs!SaverEmpty, Dumper!SaverSetSaved, DumperProofs!SaverSetSaved,
         Dumper!SaverCheck, DumperProofs!SaverCheck, Dumper!SaverClose,
         DumperProofs!SaverClose, Dumper!Saver, DumperProofs!Saver, Dumper!Caller,
         DumperProofs!Caller, Dumper!Next, DumperProofs!Next, Dumper!vars,
         DumperProofs!vars, Dumper!callerVars, DumperProofs!callerVars, Dumper!saverVars,
         DumperProofs!saverVars, Dumper!AsInt, DumperProofs!AsInt, Dumper!ToSet,
         DumperProofs!ToSet

LEMMA DumperInitIInv == Dumper!Init => DumperProofs!IInv
  BY SameInit, DumperProofs!InitIInv, BlockAssumption, IntAssumption, NoneAssumption

LEMMA DumperStep ==
    DumperProofs!IInv /\ [Dumper!Next]_(Dumper!vars) => DumperProofs!IInv'
<1> SUFFICES ASSUME DumperProofs!IInv, [DumperProofs!Next]_(DumperProofs!vars)
             PROVE  DumperProofs!IInv'
  BY SameNext
<1>1. DumperProofs!TypeOK' /\ DumperProofs!Handshake' /\ DumperProofs!Phases'
  BY DumperProofs!TypeStep, DumperProofs!HandshakeStep, BlockAssumption, IntAssumption,
     NoneAssumption
<1>2. DumperProofs!Buffers' /\ DumperProofs!NothingLost'
  BY DumperProofs!BuffersStep, DumperProofs!NothingLostStep, BlockAssumption, IntAssumption,
     NoneAssumption
<1>3. DumperProofs!Counts' /\ DumperProofs!HandedOverComplete'
  BY DumperProofs!CountsStep, DumperProofs!HandedOverStep, BlockAssumption, IntAssumption,
     NoneAssumption
<1>4. QED
  BY <1>1, <1>2, <1>3 DEF DumperProofs!IInv

\* What the threads do above the dumper is a step of it.
LEMMA WriteIsDumperStep == Write => [Dumper!Next]_(Dumper!vars)
<1> SUFFICES ASSUME Write PROVE Dumper!Next
  OBVIOUS
<1>1. ASSUME Record PROVE Dumper!Next
  <2>1. Len(recorded) \in Nat => Reader!Stored(Len(recorded) + 1) \in StoredEvent
    BY DEF Reader!Stored, StoredEvent
  <2>2. QED
    BY <1>1, <2>1 DEF Record, Dumper!Next, Dumper!Caller
<1>2. QED
  BY <1>1 DEF Write, Finalize, HandOver, Exit, Save, Dumper!Next, Dumper!Caller

\* Of the dumper's operations addEvent alone records.
LEMMA RecordedKept ==
    Dumper!HandBlockOver \/ Dumper!Finalize \/ Dumper!FinalizeSteps \/ Dumper!Destroy
      \/ Dumper!ProcessExit \/ Dumper!Saver => UNCHANGED recorded
  BY DEF Dumper!HandBlockOver, Dumper!WaitSaved, Dumper!ClearSaved, Dumper!Swap,
         Dumper!SetFilled, Dumper!Finalize, Dumper!FinalizeSteps, Dumper!SetFinished,
         Dumper!ReturnEventManager, Dumper!Destroy, Dumper!ProcessExit, Dumper!Saver,
         Dumper!SaverWaitFilled, Dumper!SaverClearFilled, Dumper!SaverWrite,
         Dumper!SaverCount, Dumper!SaverEmpty, Dumper!SaverSetSaved, Dumper!SaverCheck,
         Dumper!SaverClose, Dumper!callerVars

\* The saver leaves the caller alone.
LEMMA SaverIsApart == Dumper!Saver => UNCHANGED <<cpc, recorded, handed, finished>>
  BY DEF Dumper!Saver, Dumper!SaverWaitFilled, Dumper!SaverClearFilled, Dumper!SaverWrite,
         Dumper!SaverCount, Dumper!SaverEmpty, Dumper!SaverSetSaved, Dumper!SaverCheck,
         Dumper!SaverClose, Dumper!callerVars

\* finalize returns in one step, when the last block is saved.
LEMMA HandedByReturn ==
    [Dumper!Next]_(Dumper!vars) /\ handed' # handed => Dumper!ReturnEventManager
  BY DEF Dumper!Next, Dumper!Caller, Dumper!AddEvent, Dumper!HandBlockOver, Dumper!WaitSaved,
         Dumper!ClearSaved, Dumper!Swap, Dumper!SetFilled, Dumper!Finalize, Dumper!FinalizeSteps,
         Dumper!SetFinished, Dumper!Destroy, Dumper!ProcessExit, Dumper!Saver,
         Dumper!SaverWaitFilled, Dumper!SaverClearFilled, Dumper!SaverWrite,
         Dumper!SaverCount, Dumper!SaverEmpty, Dumper!SaverSetSaved, Dumper!SaverCheck,
         Dumper!SaverClose, Dumper!callerVars, Dumper!saverVars, Dumper!vars

\* As long as nothing is handed over the step is the writers' and nobody reads.
LEMMA OnlyWrite ==
    Recording /\ handed = NotHandedOver /\ [Next]_vars =>
        /\ UNCHANGED <<log, readerVars>>
        /\ [Dumper!Next]_(Dumper!vars)
        /\ [Write]_vars
<1> SUFFICES ASSUME Recording, handed = NotHandedOver, [Next]_vars
             PROVE  /\ UNCHANGED <<log, readerVars>>
                    /\ [Dumper!Next]_(Dumper!vars)
                    /\ [Write]_vars
  OBVIOUS
<1>1. ~Read
  BY DEF Read, PostProcess, Query, Recording
<1>2. CASE Write
  <2>1. UNCHANGED <<log, readerVars>>
    BY <1>2 DEF Write
  <2>2. QED
    BY <1>2, <2>1, WriteIsDumperStep
<1>3. CASE UNCHANGED vars
  BY <1>3 DEF vars, writerVars, Dumper!vars
<1>4. QED
  BY <1>1, <1>2, <1>3 DEF Next

LEMMA InitRecording == Init => Recording /\ handed = NotHandedOver /\ log \in Logs
<1> SUFFICES ASSUME Init PROVE Recording /\ handed = NotHandedOver /\ log \in Logs
  OBVIOUS
<1>1. recorded = <<>> /\ cpc = "idle" /\ handed = NotHandedOver /\ log \in Logs
  BY DEF Init, Dumper!Init
<1>2. Len(log) \in Nat
  BY <1>1, LogsAssumption, LenProperties
<1>3. recorded = [i \in 1 .. Len(recorded) |-> Reader!Stored(i)]
  BY <1>1
<1>4. QED
  BY <1>1, <1>2, <1>3, DumperInitIInv DEF Init, Recording, Finalizing

LEMMA RecordingStep ==
    Recording /\ log \in Logs /\ handed = NotHandedOver /\ [Next]_vars
      /\ handed' = NotHandedOver => Recording'
<1> SUFFICES ASSUME Recording, log \in Logs, handed = NotHandedOver, [Next]_vars,
                    handed' = NotHandedOver
             PROVE  Recording'
  OBVIOUS
<1>1. /\ UNCHANGED <<log, readerVars>>
      /\ [Dumper!Next]_(Dumper!vars)
      /\ [Write]_vars
  BY OnlyWrite
<1>2. DumperProofs!IInv'
  BY <1>1, DumperStep DEF Recording
<1>3. Reader!Init'
  BY <1>1 DEF Recording, Reader!Init, readerVars, Reader!ZeroChunk, Reader!NoCalls, Reader!Stored
<1>4. cpc' \notin {"done", "destroyed", "exited"}
  BY <1>2 DEF DumperProofs!IInv, DumperProofs!Phases
<1>5. /\ recorded \in Seq(StoredEvent) /\ Len(recorded) \in Nat /\ Len(log) \in Nat
      /\ cpc \in Dumper!CallerPC
  BY LogsAssumption, LenProperties DEF Recording, DumperProofs!IInv, DumperProofs!TypeOK,
     DumperProofs!CallerPC, Dumper!CallerPC
<1>6. /\ recorded' = [i \in 1 .. Len(recorded') |-> Reader!Stored(i)]
      /\ Len(recorded') <= Len(log)
      /\ cpc' \in Finalizing => Len(recorded') = Len(log)
  <2>1. CASE UNCHANGED vars
    BY <2>1 DEF vars, writerVars, Recording, Finalizing, Reader!Stored
  <2>2. CASE Record
    <3> DEFINE e == Reader!Stored(Len(recorded) + 1)
    <3>1. /\ Len(recorded) < Len(log) /\ recorded' = Append(recorded, e)
          /\ cpc' \in {"waitSaved", "idle"}
      BY <2>2 DEF Record, Dumper!AddEvent
    <3>2. e \in StoredEvent
      BY <1>5 DEF StoredEvent, Reader!Stored
    <3> HIDE DEF e
    <3>3. /\ Len(recorded') = Len(recorded) + 1
          /\ recorded'[Len(recorded) + 1] = e
          /\ \A i \in 1 .. Len(recorded) : recorded'[i] = recorded[i]
          /\ recorded' \in Seq(StoredEvent)
      BY <1>5, <3>1, <3>2, AppendProperties
    <3>4. recorded' = [i \in 1 .. Len(recorded') |-> recorded'[i]]
      BY <3>3
    <3>5. \A i \in 1 .. Len(recorded') : recorded'[i] = Reader!Stored(i)
      <4> SUFFICES ASSUME NEW i \in 1 .. Len(recorded') PROVE recorded'[i] = Reader!Stored(i)
        OBVIOUS
      <4>1. CASE i = Len(recorded) + 1
        BY <3>3, <4>1 DEF e
      <4>2. CASE i # Len(recorded) + 1
        <5>1. i \in 1 .. Len(recorded)
          BY <1>5, <3>3, <4>2
        <5>2. recorded[i] = Reader!Stored(i)
          BY <5>1 DEF Recording
        <5>3. QED
          BY <3>3, <5>1, <5>2
      <4>3. QED
        BY <4>1, <4>2
    <3>6. QED
      BY <1>5, <3>1, <3>3, <3>4, <3>5 DEF Finalizing
  <2>3. CASE Finalize
    BY <2>3, RecordedKept DEF Finalize, Recording, Dumper!Finalize, Reader!Stored
  <2>4. CASE HandOver
    <3>1. UNCHANGED recorded
      BY <2>4, RecordedKept DEF HandOver
    <3>2. cpc' \in Finalizing => cpc \in Finalizing
      BY <2>4 DEF HandOver, Finalizing, Dumper!HandBlockOver, Dumper!FinalizeSteps,
         Dumper!WaitSaved, Dumper!ClearSaved, Dumper!Swap, Dumper!SetFilled,
         Dumper!SetFinished, Dumper!ReturnEventManager
    <3>3. QED
      BY <3>1, <3>2 DEF Recording, Reader!Stored
  <2>5. ~Exit
    BY DEF Exit, Recording, Reader!Init
  <2>6. CASE Save
    BY <1>1, <2>6, SaverIsApart DEF Save, Recording, Reader!Stored
  <2>7. QED
    BY <1>1, <2>1, <2>2, <2>3, <2>4, <2>5, <2>6 DEF Write
<1>7. QED
  BY <1>1, <1>2, <1>3, <1>4, <1>6 DEF Recording

\* The state in which finalize returns: all events are in the file or, less than
\* StreamBuf of them, in the stream that the saver has still to close.
LEMMA HandOverStep ==
    Recording /\ log \in Logs /\ handed = NotHandedOver /\ [Next]_vars
      /\ handed' # NotHandedOver => Reading'
<1> SUFFICES ASSUME Recording, log \in Logs, handed = NotHandedOver, [Next]_vars,
                    handed' # NotHandedOver
             PROVE  Reading'
  OBVIOUS
<1>1. /\ UNCHANGED <<log, readerVars>> /\ [Dumper!Next]_(Dumper!vars)
  BY OnlyWrite
<1>2. DumperProofs!IInv'
  BY <1>1, DumperStep DEF Recording
<1>3. /\ cpc = "finWaitLast" /\ cpc' = "done"
      /\ recorded' = recorded /\ Len(recorded) = Len(log)
  BY <1>1, HandedByReturn DEF Dumper!ReturnEventManager, Recording, Finalizing
<1>4. /\ Len(log) \in Nat /\ Len(log) < IntLimit /\ log' = log
  BY <1>1, LogsAssumption, LenProperties
<1>5. /\ file' \in Seq(StoredEvent) /\ stream' \in Seq(StoredEvent) /\ recorded \in Seq(StoredEvent)
      /\ Len(file') \in Nat /\ Len(stream') \in Nat
      /\ saved' \in BOOLEAN /\ filled' \in BOOLEAN /\ finished' \in BOOLEAN
      /\ spc' \in DumperProofs!SaverPC
  BY <1>2, <1>3 DEF DumperProofs!IInv, DumperProofs!TypeOK
<1>6. /\ handed' = Len(log) /\ Len(log) - Len(file') < StreamBuf
      /\ recorded = file' \o stream'
  BY <1>2, <1>3, <1>4 DEF DumperProofs!IInv, DumperProofs!HandedOverComplete
<1>7. \A i \in 1 .. Len(log) : recorded[i] = Reader!Stored(i)
  BY <1>3 DEF Recording
<1>8. Closing'
  <2>1. saved' = TRUE /\ filled' = FALSE
    BY <1>2, <1>3, <1>5 DEF DumperProofs!IInv, DumperProofs!Handshake, DumperProofs!BlockHasOneOwner
  <2>2. /\ spc' \in {"wait", "check", "closeLoop", "closeReturn", "returned", "killed"}
        /\ stream' # <<>> => spc' \in {"check", "closeLoop", "closeReturn"}
        /\ Len(stream') < StreamBuf
    BY <1>2, <1>3, <1>5, <2>1
    DEF DumperProofs!IInv, DumperProofs!Handshake, DumperProofs!BlockHasOneOwner,
        DumperProofs!SaverOwns, DumperProofs!SaverPC, DumperProofs!Buffers
  <2>3. mode' = "post"
    BY <1>1 DEF Recording, Reader!Init, readerVars
  <2>4. QED
    BY <1>3, <1>4, <1>5, <1>6, <2>1, <2>2, <2>3 DEF Closing
<1>9. /\ Len(file') + Len(stream') = Len(log)
      /\ \A i \in 1 .. Len(file') : file'[i] = recorded[i]
      /\ \A k \in 1 .. Len(stream') : stream'[k] = recorded[Len(file') + k]
  BY <1>3, <1>5, <1>6, ConcatProperties
<1>10. /\ preloadEvents' = Reader!ZeroChunk /\ iterIndex' = 0 /\ pc' = "top" /\ mode' = "post"
       /\ callStackGlobal' = Reader!NoCalls /\ totalThreads' = 0 /\ failed' = FALSE
       /\ passes' = 0 /\ returned' = Reader!Stored(0) /\ shortRead' = FALSE
  BY <1>1 DEF Recording, Reader!Init, readerVars
<1>11. ReaderTyped'
  <2> DEFINE E == [n : 0 .. Len(log), hasVar : BOOLEAN]
  <2>1. \A i \in 0 .. Len(log) : Reader!Stored(i) \in E
    BY DEF Reader!Stored
  <2>2. OnFile' = E
    BY <1>4 DEF OnFile
  <2> HIDE DEF E
  <2>3. file' \in Seq(E)
    <3>1. ASSUME NEW i \in 1 .. Len(file') PROVE file'[i] \in E
      <4>1. i \in 1 .. Len(log)
        BY <1>4, <1>5, <1>9
      <4>2. QED
        BY <1>7, <1>9, <2>1, <4>1
    <3>2. QED
      BY <1>5, <3>1, SeqDef
  <2>4. stream' \in Seq(E)
    <3>1. ASSUME NEW k \in 1 .. Len(stream') PROVE stream'[k] \in E
      <4>1. Len(file') + k \in 1 .. Len(log)
        BY <1>4, <1>5, <1>9
      <4>2. QED
        BY <1>7, <1>9, <2>1, <4>1
    <3>2. QED
      BY <1>5, <3>1, SeqDef
  <2>5. /\ preloadEvents' \in [0 .. EVENT_CHUNK_SIZE - 1 -> E]
        /\ returned' \in E
    BY <1>4, <1>10, <2>1 DEF Reader!ZeroChunk
  <2>6. DOMAIN callStackGlobal' = Thread
    BY <1>10 DEF Reader!NoCalls
  <2>7. totalThreads' \in Nat /\ passes' \in 0 .. MaxPasses
    BY <1>10, PassesAssumption
  <2>8. failed' \in BOOLEAN /\ shortRead' \in BOOLEAN /\ mode' \in {"post", "saved", "query"}
    BY <1>10, Zenon
  <2>9. QED
    BY <2>2, <2>3, <2>4, <2>5, <2>6, <2>7, <2>8 DEF ReaderTyped
<1>12. Cursor'
  BY <1>4, <1>10 DEF Cursor
<1>13. Chunks'
  <2> SUFFICES ASSUME NEW i \in 1 .. Len(log) PROVE (file' \o stream')[i] = Now(i)' /\ ~InMemory(i)'
    BY <1>4 DEF Chunks, Trusted
  <2>1. Now(i)' = Reader!Stored(i)
    <3>1. ~(mode' # "post" \/ i <= iterIndex')
      BY <1>4, <1>10
    <3>2. QED
      BY <3>1 DEF Now, Reader!Stored
  <2>2. ~InMemory(i)'
    BY <1>10 DEF InMemory
  <2>3. QED
    BY <1>6, <1>7, <2>1, <2>2
<1>14. Lengths'
  BY <1>4, <1>5, <1>6, <1>9, <1>10, BlockAssumption DEF Lengths
<1>15. QED
  BY <1>8, <1>11, <1>12, <1>13, <1>14 DEF Reading
-----------------------------------------------------------------------------
(* Chunks *)

\* Where the chunk of the event after the first x begins.
ChunkBegin(x) == (x \div EVENT_CHUNK_SIZE) * EVENT_CHUNK_SIZE

LEMMA ChunkSize == EVENT_CHUNK_SIZE \in Nat /\ EVENT_CHUNK_SIZE >= 2 /\ Thread \subseteq Nat
  BY ComponentAssumptions DEF Reader!ReaderAssumption

LEMMA ChunkFacts ==
    \A x \in Nat : /\ ChunkBegin(x) \in Nat
                   /\ ChunkBegin(x) <= x /\ x < ChunkBegin(x) + EVENT_CHUNK_SIZE
                   /\ x % EVENT_CHUNK_SIZE = x - ChunkBegin(x)
  BY ChunkSize DEF ChunkBegin

\* Two multiples of the chunk size that are less than one apart are the same.
LEMMA MultiplesApart ==
    ASSUME NEW p \in Int, NEW q \in Int,
           p * EVENT_CHUNK_SIZE < q * EVENT_CHUNK_SIZE + EVENT_CHUNK_SIZE,
           q * EVENT_CHUNK_SIZE < p * EVENT_CHUNK_SIZE + EVENT_CHUNK_SIZE
    PROVE  p * EVENT_CHUNK_SIZE = q * EVENT_CHUNK_SIZE
  BY ChunkSize

LEMMA SameChunk ==
    \A x, y \in Nat : ChunkBegin(x) <= y /\ y < ChunkBegin(x) + EVENT_CHUNK_SIZE
                        => ChunkBegin(y) = ChunkBegin(x)
<1> SUFFICES ASSUME NEW x \in Nat, NEW y \in Nat,
                    ChunkBegin(x) <= y, y < ChunkBegin(x) + EVENT_CHUNK_SIZE
             PROVE  ChunkBegin(y) = ChunkBegin(x)
  OBVIOUS
<1>1. x \div EVENT_CHUNK_SIZE \in Int /\ y \div EVENT_CHUNK_SIZE \in Int
  BY ChunkSize
<1>2. /\ ChunkBegin(x) \in Nat /\ ChunkBegin(y) \in Nat
      /\ ChunkBegin(y) <= y /\ y < ChunkBegin(y) + EVENT_CHUNK_SIZE
  BY ChunkFacts
<1>3. /\ ChunkBegin(x) < ChunkBegin(y) + EVENT_CHUNK_SIZE
      /\ ChunkBegin(y) < ChunkBegin(x) + EVENT_CHUNK_SIZE
  BY <1>2, ChunkSize
<1>4. QED
  BY <1>1, <1>3, MultiplesApart DEF ChunkBegin

\* The event before the cursor is in the last chunk when the cursor is at the
\* begin of one, and in the cursor's else.
LEMMA ChunkBorder ==
    \A x \in Nat \ {0} :
        IF x % EVENT_CHUNK_SIZE = 0
        THEN ChunkBegin(x) = x /\ ChunkBegin(x - 1) = x - EVENT_CHUNK_SIZE
        ELSE ChunkBegin(x - 1) = ChunkBegin(x)
<1> SUFFICES ASSUME NEW x \in Nat \ {0}
             PROVE  IF x % EVENT_CHUNK_SIZE = 0
                    THEN ChunkBegin(x) = x /\ ChunkBegin(x - 1) = x - EVENT_CHUNK_SIZE
                    ELSE ChunkBegin(x - 1) = ChunkBegin(x)
  OBVIOUS
<1>1. /\ ChunkBegin(x) \in Nat /\ ChunkBegin(x - 1) \in Nat
      /\ ChunkBegin(x) <= x /\ x < ChunkBegin(x) + EVENT_CHUNK_SIZE
      /\ ChunkBegin(x - 1) <= x - 1 /\ x - 1 < ChunkBegin(x - 1) + EVENT_CHUNK_SIZE
      /\ x % EVENT_CHUNK_SIZE = x - ChunkBegin(x)
  BY ChunkFacts
<1>2. CASE x % EVENT_CHUNK_SIZE = 0
  <2> DEFINE p == (x - 1) \div EVENT_CHUNK_SIZE
             q == (x \div EVENT_CHUNK_SIZE) - 1
  <2>1. p \in Int /\ q \in Int
    BY ChunkSize
  <2>2. ChunkBegin(x) = x
    BY <1>1, <1>2
  <2>3. q * EVENT_CHUNK_SIZE = x - EVENT_CHUNK_SIZE
    BY <2>2, ChunkSize DEF ChunkBegin
  <2>4. p * EVENT_CHUNK_SIZE = ChunkBegin(x - 1)
    BY DEF ChunkBegin
  <2> HIDE DEF p, q
  <2>5. /\ p * EVENT_CHUNK_SIZE < q * EVENT_CHUNK_SIZE + EVENT_CHUNK_SIZE
        /\ q * EVENT_CHUNK_SIZE < p * EVENT_CHUNK_SIZE + EVENT_CHUNK_SIZE
    BY <1>1, <2>3, <2>4, ChunkSize
  <2>6. QED
    BY <1>2, <2>1, <2>2, <2>3, <2>4, <2>5, MultiplesApart
<1>3. CASE x % EVENT_CHUNK_SIZE # 0
  <2>1. ChunkBegin(x) <= x - 1 /\ x - 1 < ChunkBegin(x) + EVENT_CHUNK_SIZE
    BY <1>1, <1>3, ChunkSize
  <2>2. QED
    BY <1>3, <2>1, SameChunk
<1>4. QED
  BY <1>2, <1>3

\* The chunk in memory: where it begins, and where in it an event is.
Begin == IF pc = "event" THEN iterIndex ELSE ChunkStart

LEMMA InMemoryIs ==
    ASSUME Cursor, Len(log) \in Nat, pc = "event" \/ iterIndex > 0
    PROVE  /\ Begin \in Nat
           /\ \A i \in 1 .. Len(log) :
                /\ InMemory(i) <=> Begin < i /\ i <= Begin + EVENT_CHUNK_SIZE
                /\ InMemory(i) => (i - 1) % EVENT_CHUNK_SIZE = i - 1 - Begin
           /\ pc # "event" => Begin < iterIndex /\ iterIndex <= Begin + EVENT_CHUNK_SIZE
<1>1. iterIndex \in Nat
  BY DEF Cursor
<1>2. CASE pc = "event"
  <2>1. Begin = iterIndex /\ iterIndex % EVENT_CHUNK_SIZE = 0
    BY <1>2 DEF Begin, Cursor
  <2>2. ChunkBegin(iterIndex) = iterIndex
    <3>1. iterIndex % EVENT_CHUNK_SIZE = iterIndex - ChunkBegin(iterIndex)
            /\ ChunkBegin(iterIndex) \in Nat
      BY <1>1, ChunkFacts
    <3>2. QED
      BY <1>1, <2>1, <3>1
  <2>3. ASSUME NEW i \in 1 .. Len(log)
        PROVE  /\ InMemory(i) <=> Begin < i /\ i <= Begin + EVENT_CHUNK_SIZE
               /\ InMemory(i) => (i - 1) % EVENT_CHUNK_SIZE = i - 1 - Begin
    <3>1. InMemory(i) <=> Begin < i /\ i <= Begin + EVENT_CHUNK_SIZE
      BY <1>1, <1>2, <2>1, ChunkSize DEF InMemory
    <3>2. ASSUME InMemory(i) PROVE ChunkBegin(i - 1) = iterIndex
      BY <1>1, <2>1, <2>2, <3>1, <3>2, SameChunk, ChunkSize
    <3>3. QED
      BY <2>1, <3>1, <3>2, ChunkFacts
  <2>4. QED
    BY <1>1, <1>2, <2>1, <2>3
<1>3. CASE pc # "event"
  <2>1. iterIndex - 1 \in Nat /\ Begin = ChunkBegin(iterIndex - 1)
    BY <1>1, <1>3 DEF Begin, ChunkStart, ChunkBegin
  <2>2. /\ Begin \in Nat /\ Begin <= iterIndex - 1 /\ iterIndex - 1 < Begin + EVENT_CHUNK_SIZE
    BY <2>1, ChunkFacts
  <2>3. ASSUME NEW i \in 1 .. Len(log)
        PROVE  /\ InMemory(i) <=> Begin < i /\ i <= Begin + EVENT_CHUNK_SIZE
               /\ InMemory(i) => (i - 1) % EVENT_CHUNK_SIZE = i - 1 - Begin
    <3>1. InMemory(i) <=> Begin < i /\ i <= Begin + EVENT_CHUNK_SIZE
      <4>1. Begin = ChunkStart
        BY <1>3 DEF Begin
      <4>2. InMemory(i) <=> i \in Begin + 1 .. Begin + EVENT_CHUNK_SIZE
        BY <1>3, <4>1 DEF InMemory
      <4>3. QED
        BY <2>2, <4>2, ChunkSize
    <3>2. ASSUME InMemory(i) PROVE ChunkBegin(i - 1) = Begin
      BY <2>1, <2>2, <3>1, <3>2, SameChunk, ChunkSize
    <3>3. QED
      BY <3>1, <3>2, ChunkFacts
  <2>4. QED
    BY <1>1, <1>3, <2>2, <2>3, ChunkSize
<1>4. QED
  BY <1>2, <1>3
-----------------------------------------------------------------------------
(* dump *)

LEMMA ReaderMax == \A a, b \in Int : Reader!Max({a, b}) = IF a >= b THEN a ELSE b
  BY DEF Reader!Max

LEMMA ReaderMin == \A a, b \in Int : Reader!Min({a, b}) = IF a <= b THEN a ELSE b
  BY DEF Reader!Min

\* Where an event on file is: in the file or still in the stream.
LEMMA Cat ==
    ASSUME NEW f \in Seq(OnFile), NEW s \in Seq(OnFile), NEW i \in 1 .. Len(f) + Len(s)
    PROVE  (f \o s)[i] = IF i <= Len(f) THEN f[i] ELSE s[i - Len(f)]
  BY ConcatProperties

LEMMA ReadingFacts ==
    ASSUME Reading, log \in Logs
    PROVE  /\ Len(log) \in Nat /\ Len(log) < IntLimit /\ iterIndex \in Nat
           /\ iterIndex <= Len(log)
           /\ Len(file) \in Nat /\ Len(stream) \in Nat
           /\ \A i \in Trusted : /\ i \in 1 .. Len(log) /\ i \in 1 .. Len(file) + Len(stream)
                                 /\ shortRead => i <= Len(file)
<1>1. Len(log) \in Nat /\ Len(log) < IntLimit /\ iterIndex \in Nat /\ iterIndex <= Len(log)
  BY LogsAssumption, LenProperties DEF Reading, Cursor
<1>2. Len(file) \in Nat /\ Len(stream) \in Nat
  BY LenProperties DEF Reading, ReaderTyped
<1>3. ASSUME NEW i \in Trusted
      PROVE  /\ i \in 1 .. Len(log) /\ i \in 1 .. Len(file) + Len(stream)
             /\ shortRead => i <= Len(file)
  <2>1. i \in 1 .. Len(log) /\ (~shortRead \/ i <= Len(log) - (StreamBuf - 1))
    BY DEF Trusted
  <2>2. /\ Len(log) - (StreamBuf - 1) <= Len(file)
        /\ ~shortRead => Len(file) + Len(stream) = Len(log)
    BY DEF Reading, Lengths
  <2>3. shortRead => i <= Len(file)
    BY <1>1, <1>2, <2>1, <2>2, BlockAssumption
  <2>4. QED
    BY <1>1, <1>2, <2>1, <2>2, <2>3
<1>4. QED
  BY <1>1, <1>2, <1>3

\* dump() before a chunk is left: the file has what was in memory, the rest of it
\* is as before, and it is no longer than it was unless a read was short.
LEMMA DumpWrites ==
    ASSUME Reading, log \in Logs, pc = "top",
           iterIndex % EVENT_CHUNK_SIZE = 0 \/ iterIndex = Len(log), Reader!Dump
    PROVE  /\ file' \in Seq(OnFile) /\ Len(file') \in Nat /\ Len(file) <= Len(file')
           /\ ~shortRead => Len(file') = Len(file)
           /\ \A i \in Trusted : (file' \o stream)[i] = Now(i)
<1> DEFINE b == ((iterIndex - 1) \div EVENT_CHUNK_SIZE) * EVENT_CHUNK_SIZE
           c == Reader!Min({EVENT_CHUNK_SIZE, handed - b})
<1>1. /\ Len(log) \in Nat /\ iterIndex \in Nat /\ iterIndex <= Len(log) /\ handed = Len(log)
      /\ file \in Seq(OnFile) /\ stream \in Seq(OnFile)
      /\ Len(file) \in Nat /\ Len(stream) \in Nat
      /\ preloadEvents \in [0 .. EVENT_CHUNK_SIZE - 1 -> OnFile]
  BY ReadingFacts DEF Reading, Closing, ReaderTyped
<1>2. \A i \in Trusted : /\ i \in 1 .. Len(log) /\ i \in 1 .. Len(file) + Len(stream)
                         /\ shortRead => i <= Len(file)
  BY ReadingFacts
<1>3. file' = IF iterIndex - 1 <= 0 \/ iterIndex - 1 >= Len(log) THEN file
              ELSE Reader!Written(b, c)
  BY <1>1 DEF Reader!Dump
<1>4. CASE iterIndex <= 1
  <2>1. file' = file
    BY <1>1, <1>3, <1>4
  <2>2. ASSUME NEW i \in Trusted PROVE (file \o stream)[i] = Now(i)
    <3>1. CASE iterIndex = 0
      <4>1. ~InMemory(i)
        BY <3>1 DEF InMemory
      <4>2. QED
        BY <4>1 DEF Reading, Chunks
    <3>2. CASE iterIndex = 1
      <4>1. Len(log) = 1 /\ i = 1
        <5>1. 1 % EVENT_CHUNK_SIZE = 1
          BY ChunkSize
        <5>2. Len(log) = 1
          BY <3>2, <5>1
        <5>3. i \in 1 .. Len(log)
          BY <1>2
        <5>4. QED
          BY <5>2, <5>3
      <4>2. ~Reader!IsAccess(log[i])
        <5>1. log # <<>>
          BY <4>1
        <5>2. log[1].type = "Call"
          BY <5>1, LogsAssumption, Zenon
        <5>3. QED
          BY <4>1, <5>2 DEF Reader!IsAccess
      <4>3. Now(i) = Reader!Stored(i)
        BY <4>2 DEF Now, Reader!Stored
      <4>4. QED
        BY <4>3 DEF Reading, Chunks
    <3>3. iterIndex = 0 \/ iterIndex = 1
      BY <1>1, <1>4
    <3>4. QED
      BY <3>1, <3>2, <3>3
  <2>3. Len(file) <= Len(file)
    BY <1>1
  <2>4. QED
    BY <1>1, <2>1, <2>2, <2>3
<1>5. CASE iterIndex > 1
  <2>1. /\ b \in Nat /\ Begin = b /\ b < iterIndex /\ iterIndex <= b + EVENT_CHUNK_SIZE
        /\ \A i \in 1 .. Len(log) :
             /\ InMemory(i) <=> b < i /\ i <= b + EVENT_CHUNK_SIZE
             /\ InMemory(i) => (i - 1) % EVENT_CHUNK_SIZE = i - 1 - b
    <3>1. Begin = b
      BY DEF Begin, ChunkStart
    <3>2. Cursor /\ iterIndex > 0
      BY <1>1, <1>5 DEF Reading
    <3> HIDE DEF b
    <3>3. QED
      BY <1>1, <3>1, <3>2, InMemoryIs
  <2>2. /\ c \in Nat /\ c > 0 /\ c <= EVENT_CHUNK_SIZE /\ b + c <= Len(log)
        /\ c = EVENT_CHUNK_SIZE \/ b + c = Len(log)
    <3> HIDE DEF b
    <3>1. c = IF EVENT_CHUNK_SIZE <= Len(log) - b THEN EVENT_CHUNK_SIZE ELSE Len(log) - b
      <4>1. EVENT_CHUNK_SIZE \in Int /\ Len(log) - b \in Int
        BY <1>1, <2>1, ChunkSize
      <4>2. c = Reader!Min({EVENT_CHUNK_SIZE, Len(log) - b})
        BY <1>1
      <4>3. QED
        BY <4>1, <4>2, ReaderMin
    <3> HIDE DEF c
    <3>2. QED
      BY <1>1, <2>1, <3>1, ChunkSize
  <2> DEFINE m == Reader!Max({Len(file), b + c})
  <2>3. file' = [i \in 1 .. m |->
                   IF i \in b + 1 .. b + c THEN preloadEvents[i - 1 - b]
                   ELSE IF i <= Len(file) THEN file[i] ELSE Reader!Stored(0)]
    BY <1>1, <1>3, <1>5 DEF Reader!Written
  <2> HIDE DEF b, c
  <2>4. m = IF Len(file) >= b + c THEN Len(file) ELSE b + c
    <3>1. Len(file) \in Int /\ b + c \in Int
      BY <1>1, <2>1, <2>2
    <3>2. QED
      BY <3>1, ReaderMax
  <2> HIDE DEF m
  <2>5. m \in Nat /\ Len(file) <= m /\ b + c <= m
    BY <1>1, <2>1, <2>2, <2>4
  <2>6. ~shortRead => m = Len(file)
    <3>1. b + c \in 1 .. Len(log) /\ b < b + c /\ b + c <= b + EVENT_CHUNK_SIZE
      BY <1>1, <2>1, <2>2, ChunkSize
    <3>2. InMemory(b + c)
      BY <2>1, <3>1
    <3>3. ~shortRead => b + c \in Trusted
      BY <3>1 DEF Trusted
    <3>4. ~shortRead => b + c <= Len(file)
      BY <3>2, <3>3 DEF Reading, Chunks
    <3>5. QED
      BY <1>1, <2>1, <2>2, <2>4, <3>4
  <2>7. file' \in Seq(OnFile) /\ Len(file') = m
    <3>1. Reader!Stored(0) \in OnFile
      BY <1>1 DEF Reader!Stored, OnFile
    <3>2. ASSUME NEW i \in 1 .. m PROVE file'[i] \in OnFile
      <4>1. CASE i \in b + 1 .. b + c
        <5>1. i - 1 - b \in 0 .. EVENT_CHUNK_SIZE - 1
          BY <2>1, <2>2, <4>1, ChunkSize
        <5>2. QED
          BY <1>1, <2>3, <4>1, <5>1
      <4>2. CASE i \notin b + 1 .. b + c /\ i <= Len(file)
        <5>1. file[i] \in OnFile
          BY <1>1, <4>2, ElementOfSeq
        <5>2. QED
          BY <2>3, <4>2, <5>1
      <4>3. CASE i \notin b + 1 .. b + c /\ ~(i <= Len(file))
        BY <2>3, <3>1, <4>3
      <4>4. QED
        BY <4>1, <4>2, <4>3
    <3>3. file' = [i \in 1 .. m |-> file'[i]]
      BY <2>3
    <3>4. file' \in Seq(OnFile)
      BY <2>5, <3>2, <3>3, SeqDef
    <3>5. QED
      BY <2>5, <3>3, <3>4
  <2>8. ASSUME NEW i \in Trusted PROVE (file' \o stream)[i] = Now(i)
    <3>1. /\ i \in 1 .. Len(log) /\ i \in 1 .. Len(file) + Len(stream)
          /\ shortRead => i <= Len(file)
      BY <1>2
    <3>2. i \in 1 .. Len(file') + Len(stream)
      BY <1>1, <2>5, <2>7, <3>1
    <3>3. CASE InMemory(i)
      <4>1. i \in b + 1 .. b + c /\ i \in 1 .. m /\ (i - 1) % EVENT_CHUNK_SIZE = i - 1 - b
        BY <1>1, <2>1, <2>2, <2>5, <3>1, <3>3, ChunkSize
      <4>2. file'[i] = Now(i)
        BY <2>3, <3>3, <4>1 DEF Reading, Chunks
      <4>3. (file' \o stream)[i] = file'[i]
        BY <1>1, <2>5, <2>7, <3>2, <4>1, Cat
      <4>4. QED
        BY <4>2, <4>3
    <3>4. CASE ~InMemory(i)
      <4>1. i \notin b + 1 .. b + c
        BY <2>1, <2>2, <3>1, <3>4, ChunkSize
      <4>2. (file \o stream)[i] = Now(i)
        BY <3>4 DEF Reading, Chunks
      <4>3. CASE i <= Len(file)
        <5>1. file'[i] = file[i] /\ i <= Len(file')
          BY <1>1, <2>3, <2>5, <2>7, <3>1, <4>1, <4>3
        <5>2. (file' \o stream)[i] = file'[i] /\ (file \o stream)[i] = file[i]
          BY <1>1, <2>7, <3>1, <3>2, <4>3, <5>1, Cat
        <5>3. QED
          BY <4>2, <5>1, <5>2
      <4>4. CASE ~(i <= Len(file))
        <5>1. Len(file') = Len(file)
          BY <2>6, <2>7, <3>1, <4>4
        <5>2. /\ (file' \o stream)[i] = stream[i - Len(file)]
              /\ (file \o stream)[i] = stream[i - Len(file)]
          BY <1>1, <2>7, <3>1, <3>2, <4>4, <5>1, Cat
        <5>3. QED
          BY <4>2, <5>2
      <4>5. QED
        BY <4>3, <4>4
    <3>5. QED
      BY <3>3, <3>4
  <2>9. QED
    BY <2>5, <2>6, <2>7, <2>8
<1>6. iterIndex <= 1 \/ iterIndex > 1
  BY <1>1
<1>7. QED
  BY <1>4, <1>5, <1>6

-----------------------------------------------------------------------------
(* The writers after the handover *)

\* The readers do not notice where the events are, file or stream.
LEMMA FileMoves ==
    ASSUME Reading, log \in Logs, UNCHANGED <<log, readerVars, handed>>,
           file' \in Seq(OnFile), stream' \in Seq(OnFile),
           Len(file') \in Nat, Len(file) <= Len(file'),
           \A i \in Trusted : (file' \o stream')[i] = (file \o stream)[i],
           ~shortRead => Len(file') + Len(stream') = Len(file) + Len(stream),
           ~shortRead /\ stream = <<>> => stream' = <<>>
    PROVE  ReaderTyped' /\ Cursor' /\ Chunks' /\ Lengths'
<1>1. /\ log' = log /\ handed' = handed
      /\ preloadEvents' = preloadEvents /\ iterIndex' = iterIndex
      /\ callStackGlobal' = callStackGlobal /\ totalThreads' = totalThreads /\ failed' = failed
      /\ pc' = pc /\ mode' = mode /\ passes' = passes /\ returned' = returned
      /\ shortRead' = shortRead
  BY DEF readerVars
<1>2. OnFile' = OnFile /\ Trusted' = Trusted
  BY <1>1 DEF OnFile, Trusted
<1>3. ReaderTyped'
  BY <1>1, <1>2 DEF Reading, ReaderTyped
<1>4. Cursor'
  BY <1>1 DEF Reading, Cursor
<1>5. Chunks'
  <2> SUFFICES ASSUME NEW i \in Trusted
               PROVE  /\ InMemory(i)' => preloadEvents'[(i - 1) % EVENT_CHUNK_SIZE] = Now(i)'
                      /\ InMemory(i)' /\ ~shortRead' => i <= Len(file')
                      /\ ~InMemory(i)' \/ pc' = "load" \/ mode' # "post"
                           => (file' \o stream')[i] = Now(i)'
                      /\ (file' \o stream')[i] \in {Now(i)', Reader!Stored(i)}
    BY <1>2 DEF Chunks, Reader!Stored
  <2>1. Now(i)' = Now(i) /\ (InMemory(i)' <=> InMemory(i))
    BY <1>1 DEF Now, InMemory, ChunkStart
  <2>2. /\ InMemory(i) => preloadEvents[(i - 1) % EVENT_CHUNK_SIZE] = Now(i)
        /\ InMemory(i) /\ ~shortRead => i <= Len(file)
        /\ ~InMemory(i) \/ pc = "load" \/ mode # "post" => (file \o stream)[i] = Now(i)
        /\ (file \o stream)[i] \in {Now(i), Reader!Stored(i)}
    BY DEF Reading, Chunks
  <2>3. (file' \o stream')[i] = (file \o stream)[i]
    OBVIOUS
  <2>4. i \in Nat /\ Len(file) \in Nat
    BY ReadingFacts
  <2>5. i <= Len(file) => i <= Len(file')
    BY <2>4
  <2>6. QED
    BY <1>1, <2>1, <2>2, <2>3, <2>5
<1>6. Lengths'
  <2>1. Len(log) \in Nat /\ Len(file) \in Nat
    BY ReadingFacts
  <2>2. Len(log') - (StreamBuf - 1) <= Len(file')
    BY <1>1, <2>1, BlockAssumption DEF Reading, Lengths
  <2>3. QED
    BY <1>1, <2>2 DEF Reading, Lengths
<1>7. QED
  BY <1>3, <1>4, <1>5, <1>6

\* The saver closes its stream, or Fini ends the tool.
LEMMA WriteReading ==
    ASSUME Reading, log \in Logs, Write PROVE Reading' /\ handed' = handed
<1>1. UNCHANGED <<log, readerVars>>
  BY DEF Write
<1>2. /\ cpc \in {"done", "destroyed", "exited"} /\ filled = FALSE
      /\ spc \in {"wait", "check", "closeLoop", "closeReturn", "returned", "killed"}
      /\ file \in Seq(OnFile) /\ stream \in Seq(OnFile)
      /\ Len(file) \in Nat /\ Len(stream) \in Nat
  BY ReadingFacts DEF Reading, Closing, ReaderTyped
<1>3. Exit \/ Dumper!SaverCheck \/ Dumper!SaverClose
  BY <1>2 DEF Write, Record, Finalize, HandOver, Save, Dumper!AddEvent, Dumper!Finalize,
              Dumper!HandBlockOver, Dumper!FinalizeSteps, Dumper!WaitSaved, Dumper!ClearSaved,
              Dumper!Swap, Dumper!SetFilled, Dumper!SetFinished, Dumper!ReturnEventManager,
              Dumper!Saver, Dumper!SaverWaitFilled, Dumper!SaverClearFilled, Dumper!SaverWrite,
              Dumper!SaverCount, Dumper!SaverEmpty, Dumper!SaverSetSaved
<1>4. mode' = mode /\ log' = log
  BY <1>1 DEF readerVars
<1>5. CASE Dumper!SaverCheck
  <2>1. /\ spc = "check" /\ spc' \in {"closeLoop", "closeReturn"}
        /\ UNCHANGED <<file, stream, saved, filled, cpc, handed, recorded, finished>>
    BY <1>5 DEF Dumper!SaverCheck, Dumper!callerVars
  <2>2. Closing'
    BY <1>4, <2>1 DEF Reading, Closing
  <2>3. ReaderTyped' /\ Cursor' /\ Chunks' /\ Lengths'
    <3>1. Len(file) <= Len(file)
      BY <1>2
    <3>2. QED
      BY <1>1, <1>2, <2>1, <3>1, FileMoves
  <2>4. QED
    BY <2>1, <2>2, <2>3 DEF Reading
<1>6. CASE Dumper!SaverClose
  <2>1. /\ spc \in {"closeLoop", "closeReturn"} /\ spc' \in {"wait", "returned"}
        /\ file' = file \o stream /\ stream' = <<>>
        /\ UNCHANGED <<saved, filled, cpc, handed, recorded, finished>>
    BY <1>6 DEF Dumper!SaverClose, Dumper!callerVars
  <2>2. Closing'
    <3>1. Len(stream') < StreamBuf
      BY <2>1, BlockAssumption
    <3>2. cpc # "exited"
      BY <2>1 DEF Reading, Closing
    <3>3. QED
      BY <1>4, <2>1, <3>1, <3>2 DEF Reading, Closing
  <2>3. /\ file' \in Seq(OnFile) /\ stream' \in Seq(OnFile)
        /\ Len(file') = Len(file) + Len(stream) /\ Len(stream') = 0
        /\ file' \o stream' = file \o stream
    <3>1. file \o stream \in Seq(OnFile) /\ Len(file \o stream) = Len(file) + Len(stream)
      BY <1>2, ConcatProperties
    <3>2. <<>> \in Seq(OnFile) /\ (file \o stream) \o <<>> = file \o stream
      BY <3>1, ConcatProperties
    <3>3. QED
      BY <2>1, <3>1, <3>2
  <2>4. ReaderTyped' /\ Cursor' /\ Chunks' /\ Lengths'
    <3>1. /\ Len(file') \in Nat /\ Len(file) <= Len(file')
          /\ Len(file') + Len(stream') = Len(file) + Len(stream)
      BY <1>2, <2>3
    <3>2. \A i \in Trusted : (file' \o stream')[i] = (file \o stream)[i]
      BY <2>3
    <3>3. QED
      BY <1>1, <2>1, <2>3, <3>1, <3>2, FileMoves
  <2>5. QED
    BY <2>1, <2>2, <2>4 DEF Reading
<1>7. CASE Exit
  <2>1. mode = "saved"
    BY <1>7 DEF Exit
  <2>2. CASE Dumper!Destroy
    <3>1. /\ cpc = "done" /\ cpc' = "destroyed"
          /\ UNCHANGED <<file, stream, saved, filled, spc, handed, recorded, finished>>
      BY <2>2 DEF Dumper!Destroy, Dumper!saverVars
    <3>2. Closing'
      BY <1>4, <2>1, <3>1 DEF Reading, Closing
    <3>3. ReaderTyped' /\ Cursor' /\ Chunks' /\ Lengths'
      <4>1. Len(file) <= Len(file)
        BY <1>2
      <4>2. QED
        BY <1>1, <1>2, <3>1, <4>1, FileMoves
    <3>4. QED
      BY <3>1, <3>2, <3>3 DEF Reading
  <2>3. CASE Dumper!ProcessExit
    <3>1. /\ cpc = "destroyed" /\ cpc' = "exited" /\ spc' \in {"returned", "killed"}
          /\ stream' = <<>>
          /\ UNCHANGED <<file, saved, filled, handed, recorded, finished>>
      BY <2>3 DEF Dumper!ProcessExit
    <3>2. Closing'
      <4>1. Len(stream') < StreamBuf
        BY <3>1, BlockAssumption
      <4>2. QED
        BY <1>4, <2>1, <3>1, <4>1 DEF Reading, Closing
    <3>3. ~shortRead => stream = <<>>
      BY <2>1 DEF Reading, Lengths
    <3>4. ASSUME NEW i \in Trusted PROVE (file' \o stream')[i] = (file \o stream)[i]
      <4>1. /\ i \in 1 .. Len(file) + Len(stream)
            /\ shortRead => i <= Len(file)
        BY ReadingFacts
      <4>2. CASE shortRead
        <5>1. (file \o stream)[i] = file[i]
          BY <1>2, <4>1, <4>2, Cat
        <5>2. (file \o <<>>)[i] = file[i]
          BY <1>2, ConcatProperties
        <5>3. QED
          BY <3>1, <5>1, <5>2
      <4>3. CASE ~shortRead
        BY <3>1, <3>3, <4>3
      <4>4. QED
        BY <4>2, <4>3
    <3>5. /\ <<>> \in Seq(OnFile) /\ Len(file) <= Len(file)
          /\ ~shortRead => Len(file') + Len(stream') = Len(file) + Len(stream)
      BY <1>2, <3>1, <3>3
    <3>6. ReaderTyped' /\ Cursor' /\ Chunks' /\ Lengths'
      BY <1>1, <1>2, <3>1, <3>4, <3>5, FileMoves
    <3>7. QED
      BY <3>1, <3>2, <3>6 DEF Reading
  <2>4. QED
    BY <1>7, <2>2, <2>3 DEF Exit
<1>8. QED
  BY <1>3, <1>5, <1>6, <1>7

-----------------------------------------------------------------------------
(* The readers, between the events *)

\* The readers leave the writers' state alone, and one of them follows the other.
LEMMA ClosingKept ==
    ASSUME Reading, UNCHANGED <<log, writerVars>>,
           mode' = mode \/ mode' = "saved" \/ (mode' = "query" /\ cpc = "exited")
    PROVE  Closing' /\ handed' = handed
  BY DEF writerVars, Reading, Closing

\* While the cursor is at the end nothing is being read.
LEMMA AtEnd ==
    ASSUME Reading, log \in Logs, ~Reader!hasNext
    PROVE  iterIndex = Len(log) /\ pc = "top"
  BY ReadingFacts DEF Reader!hasNext, Reading, Closing, Cursor

\* Once everything was read without a short read there is nothing in the stream.
LEMMA AllOnFile ==
    ASSUME Reading, log \in Logs, iterIndex = Len(log), pc = "top", ~shortRead
    PROVE  stream = <<>>
<1>1. /\ Len(log) \in Nat /\ Len(file) \in Nat /\ Len(stream) \in Nat /\ stream \in Seq(OnFile)
      /\ Len(file) + Len(stream) = Len(log)
  BY ReadingFacts DEF Reading, ReaderTyped, Lengths
<1>2. CASE Len(log) = 0
  BY <1>1, <1>2, EmptySeq
<1>3. CASE Len(log) > 0
  <2>1. Cursor
    BY DEF Reading
  <2>2. /\ Begin < iterIndex /\ iterIndex <= Begin + EVENT_CHUNK_SIZE
        /\ \A i \in 1 .. Len(log) : InMemory(i) <=> Begin < i /\ i <= Begin + EVENT_CHUNK_SIZE
    BY <1>1, <1>3, <2>1, InMemoryIs
  <2>3. Len(log) \in 1 .. Len(log)
    BY <1>1, <1>3
  <2>4. InMemory(Len(log)) /\ Len(log) \in Trusted
    BY <2>2, <2>3 DEF Trusted
  <2>5. Len(log) <= Len(file)
    BY <2>4 DEF Reading, Chunks
  <2>6. Len(stream) = 0
    BY <1>1, <2>5
  <2>7. QED
    BY <1>1, <2>6, EmptySeq
<1>4. QED
  BY <1>1, <1>2, <1>3

LEMMA DumpChunkReading ==
    ASSUME Reading, log \in Logs, Reader!DumpChunk, UNCHANGED <<log, writerVars>>
    PROVE  Reading' /\ handed' = handed
<1>1. /\ pc = "top" /\ pc' = "load" /\ iterIndex < Len(log)
      /\ iterIndex % EVENT_CHUNK_SIZE = 0 /\ mode \in {"post", "query"}
      /\ Reader!Dump
      /\ UNCHANGED <<preloadEvents, iterIndex, callStackGlobal, totalThreads, failed, mode,
                     passes, returned, shortRead>>
      /\ UNCHANGED <<log, stream, handed>>
  BY DEF Reader!DumpChunk, Reader!hasNext, Reader!tables, writerVars, Reading, Closing
<1>2. /\ file' \in Seq(OnFile) /\ Len(file') \in Nat /\ Len(file) <= Len(file')
      /\ ~shortRead => Len(file') = Len(file)
      /\ \A i \in Trusted : (file' \o stream)[i] = Now(i)
  BY <1>1, DumpWrites
<1>3. Closing' /\ handed' = handed
  BY <1>1, ClosingKept
<1>4. OnFile' = OnFile /\ Trusted' = Trusted
  BY <1>1 DEF OnFile, Trusted
<1>5. ReaderTyped'
  BY <1>1, <1>2, <1>4 DEF Reading, ReaderTyped
<1>6. Cursor'
  BY <1>1 DEF Reading, Cursor
<1>7. Chunks'
  <2> SUFFICES ASSUME NEW i \in Trusted
               PROVE  /\ InMemory(i)' => preloadEvents'[(i - 1) % EVENT_CHUNK_SIZE] = Now(i)'
                      /\ InMemory(i)' /\ ~shortRead' => i <= Len(file')
                      /\ (file' \o stream')[i] = Now(i)'
    BY <1>4 DEF Chunks
  <2>1. Now(i)' = Now(i) /\ (InMemory(i)' <=> InMemory(i))
    BY <1>1 DEF Now, InMemory, ChunkStart
  <2>2. /\ InMemory(i) => preloadEvents[(i - 1) % EVENT_CHUNK_SIZE] = Now(i)
        /\ InMemory(i) /\ ~shortRead => i <= Len(file)
    BY DEF Reading, Chunks
  <2>3. ~shortRead => Len(file') = Len(file)
    BY <1>2
  <2>4. (file' \o stream)[i] = Now(i)
    BY <1>2
  <2>5. QED
    BY <1>1, <2>1, <2>2, <2>3, <2>4
<1>8. Lengths'
  <2>1. Len(log) \in Nat /\ Len(file) \in Nat
    BY ReadingFacts
  <2>2. Len(log') - (StreamBuf - 1) <= Len(file')
    BY <1>1, <1>2, <2>1, BlockAssumption DEF Reading, Lengths
  <2>3. QED
    BY <1>1, <1>2, <2>2 DEF Reading, Lengths
<1>9. QED
  BY <1>3, <1>5, <1>6, <1>7, <1>8 DEF Reading

LEMMA PostProcessedReading ==
    ASSUME Reading, log \in Logs, Reader!PostProcessed, UNCHANGED <<log, writerVars>>
    PROVE  Reading' /\ handed' = handed
<1>1. /\ mode = "post" /\ mode' = "saved" /\ Reader!Dump
      /\ UNCHANGED <<preloadEvents, iterIndex, callStackGlobal, totalThreads, failed, pc,
                     passes, returned, shortRead>>
      /\ UNCHANGED <<log, stream, handed>>
      /\ iterIndex = Len(log) /\ pc = "top"
  BY AtEnd DEF Reader!PostProcessed, Reader!tables, writerVars
<1>2. /\ file' \in Seq(OnFile) /\ Len(file') \in Nat /\ Len(file) <= Len(file')
      /\ ~shortRead => Len(file') = Len(file)
      /\ \A i \in Trusted : (file' \o stream)[i] = Now(i)
  BY <1>1, DumpWrites
<1>3. Closing' /\ handed' = handed
  BY <1>1, ClosingKept
<1>4. OnFile' = OnFile /\ Trusted' = Trusted
  BY <1>1 DEF OnFile, Trusted
<1>5. ReaderTyped'
  BY <1>1, <1>2, <1>4 DEF Reading, ReaderTyped
<1>6. Cursor'
  BY <1>1 DEF Reading, Cursor
<1>7. Chunks'
  <2> SUFFICES ASSUME NEW i \in Trusted
               PROVE  /\ InMemory(i)' => preloadEvents'[(i - 1) % EVENT_CHUNK_SIZE] = Now(i)'
                      /\ InMemory(i)' /\ ~shortRead' => i <= Len(file')
                      /\ (file' \o stream')[i] = Now(i)'
    BY <1>4 DEF Chunks
  <2>1. InMemory(i)' <=> InMemory(i)
    BY <1>1 DEF InMemory, ChunkStart
  <2>2. i <= iterIndex
    BY <1>1, ReadingFacts
  <2>3. Now(i)' = Now(i)
    BY <1>1, <2>2 DEF Now
  <2>4. /\ InMemory(i) => preloadEvents[(i - 1) % EVENT_CHUNK_SIZE] = Now(i)
        /\ InMemory(i) /\ ~shortRead => i <= Len(file)
    BY DEF Reading, Chunks
  <2>5. ~shortRead => Len(file') = Len(file)
    BY <1>2
  <2>6. (file' \o stream)[i] = Now(i)
    BY <1>2
  <2>7. QED
    BY <1>1, <2>1, <2>3, <2>4, <2>5, <2>6
<1>8. Lengths'
  <2>1. Len(log) \in Nat /\ Len(file) \in Nat
    BY ReadingFacts
  <2>2. Len(log') - (StreamBuf - 1) <= Len(file')
    BY <1>1, <1>2, <2>1, BlockAssumption DEF Reading, Lengths
  <2>3. ~shortRead => stream = <<>>
    BY <1>1, AllOnFile
  <2>4. QED
    BY <1>1, <1>2, <2>2, <2>3 DEF Reading, Lengths
<1>9. QED
  BY <1>3, <1>5, <1>6, <1>7, <1>8 DEF Reading

\* The read of a chunk: what is trusted afterwards was in the file.
LEMMA LoadChunkReading ==
    ASSUME Reading, log \in Logs, Reader!LoadChunk, UNCHANGED <<log, writerVars>>
    PROVE  Reading' /\ handed' = handed
<1> DEFINE c == Reader!Min({EVENT_CHUNK_SIZE, handed - iterIndex})
<1>1. /\ pc = "load" /\ pc' = "event" /\ handed = Len(log)
      /\ preloadEvents' =
           [j \in 0 .. EVENT_CHUNK_SIZE - 1 |->
              IF j < c /\ iterIndex + j + 1 <= Len(file)
              THEN file[iterIndex + j + 1] ELSE preloadEvents[j]]
      /\ shortRead' = (shortRead \/ Len(file) < iterIndex + c)
      /\ UNCHANGED <<file, iterIndex, callStackGlobal, totalThreads, failed, mode, passes,
                     returned>>
      /\ UNCHANGED <<log, stream, handed>>
  BY DEF Reader!LoadChunk, Reader!tables, writerVars, Reading, Closing
<1>2. /\ Len(log) \in Nat /\ iterIndex \in Nat /\ iterIndex < Len(log)
      /\ Len(file) \in Nat /\ Len(stream) \in Nat
      /\ file \in Seq(OnFile) /\ stream \in Seq(OnFile)
      /\ preloadEvents \in [0 .. EVENT_CHUNK_SIZE - 1 -> OnFile]
      /\ iterIndex % EVENT_CHUNK_SIZE = 0
  BY <1>1, ReadingFacts DEF Reading, ReaderTyped, Cursor
<1>3. c = IF EVENT_CHUNK_SIZE <= Len(log) - iterIndex THEN EVENT_CHUNK_SIZE
          ELSE Len(log) - iterIndex
  <2>1. EVENT_CHUNK_SIZE \in Int /\ Len(log) - iterIndex \in Int
    BY <1>2, ChunkSize
  <2>2. c = Reader!Min({EVENT_CHUNK_SIZE, Len(log) - iterIndex})
    BY <1>1
  <2>3. QED
    BY <2>1, <2>2, ReaderMin
<1> HIDE DEF c
<1>4. /\ c \in Nat /\ iterIndex + c <= Len(log) /\ c <= EVENT_CHUNK_SIZE
      /\ c = EVENT_CHUNK_SIZE \/ iterIndex + c = Len(log)
  BY <1>2, <1>3, ChunkSize
<1>5. Closing' /\ handed' = handed
  BY <1>1, ClosingKept
<1>6. shortRead \in BOOLEAN /\ shortRead' \in BOOLEAN /\ OnFile' = OnFile
  <2>1. shortRead \in BOOLEAN /\ OnFile' = OnFile
    BY <1>1 DEF Reading, ReaderTyped, OnFile
  <2>2. shortRead' \in BOOLEAN
    BY <1>1, Zenon
  <2>3. QED
    BY <2>1, <2>2
<1>7. ReaderTyped'
  <2>1. ASSUME NEW j \in 0 .. EVENT_CHUNK_SIZE - 1 PROVE preloadEvents'[j] \in OnFile
    <3>1. CASE j < c /\ iterIndex + j + 1 <= Len(file)
      <4>1. iterIndex + j + 1 \in 1 .. Len(file)
        BY <1>2, <3>1, ChunkSize
      <4>2. file[iterIndex + j + 1] \in OnFile
        BY <1>2, <4>1, ElementOfSeq
      <4>3. QED
        BY <1>1, <3>1, <4>2
    <3>2. CASE ~(j < c /\ iterIndex + j + 1 <= Len(file))
      BY <1>1, <1>2, <3>2
    <3>3. QED
      BY <3>1, <3>2
  <2>2. preloadEvents' \in [0 .. EVENT_CHUNK_SIZE - 1 -> OnFile]
    <3>1. preloadEvents' = [j \in 0 .. EVENT_CHUNK_SIZE - 1 |-> preloadEvents'[j]]
      BY <1>1
    <3>2. QED
      BY <2>1, <3>1
  <2>3. QED
    BY <1>1, <1>6, <2>2 DEF Reading, ReaderTyped
<1>8. Cursor'
  BY <1>1, <1>2 DEF Reading, Cursor
<1>9. Chunks'
  <2> SUFFICES ASSUME NEW i \in Trusted'
               PROVE  /\ InMemory(i)' => /\ preloadEvents'[(i - 1) % EVENT_CHUNK_SIZE] = Now(i)'
                                         /\ i <= Len(file')
                      /\ (file' \o stream')[i] = Now(i)'
    BY DEF Chunks
  <2>1. /\ i \in Trusted /\ i \in 1 .. Len(log)
        /\ ~shortRead' \/ i <= Len(log) - (StreamBuf - 1)
    BY <1>1 DEF Trusted
  <2>2. Now(i)' = Now(i)
    BY <1>1 DEF Now
  <2>3. (file \o stream)[i] = Now(i)
    BY <1>1, <2>1 DEF Reading, Chunks
  <2>4. ASSUME InMemory(i)'
        PROVE  preloadEvents'[(i - 1) % EVENT_CHUNK_SIZE] = Now(i)' /\ i <= Len(file')
    <3> DEFINE j == i - 1 - iterIndex
    <3>1. iterIndex < i /\ i <= iterIndex + EVENT_CHUNK_SIZE
      BY <1>1, <1>2, <2>1, <2>4, ChunkSize DEF InMemory
    <3>2. j \in 0 .. EVENT_CHUNK_SIZE - 1 /\ j < c /\ iterIndex + j + 1 = i
      BY <1>2, <1>4, <2>1, <3>1, ChunkSize
    <3>3. i <= Len(file)
      <4>1. CASE shortRead'
        BY <1>2, <2>1, <4>1, BlockAssumption DEF Reading, Lengths
      <4>2. CASE ~shortRead'
        <5>1. ~(Len(file) < iterIndex + c)
          BY <1>1, <4>2
        <5>2. QED
          BY <1>2, <1>4, <2>1, <3>2, <5>1
      <4>3. QED
        BY <4>1, <4>2
    <3>4. (i - 1) % EVENT_CHUNK_SIZE = j
      <4>1. ChunkBegin(iterIndex) = iterIndex /\ iterIndex % EVENT_CHUNK_SIZE = iterIndex - ChunkBegin(iterIndex)
        <5>1. iterIndex % EVENT_CHUNK_SIZE = iterIndex - ChunkBegin(iterIndex)
                /\ ChunkBegin(iterIndex) \in Nat
          BY <1>2, ChunkFacts
        <5>2. QED
          BY <1>2, <5>1
      <4>2. i - 1 \in Nat /\ iterIndex <= i - 1 /\ i - 1 < iterIndex + EVENT_CHUNK_SIZE
        BY <1>2, <2>1, <3>1, ChunkSize
      <4>3. ChunkBegin(i - 1) = iterIndex
        BY <1>2, <4>1, <4>2, SameChunk
      <4>4. QED
        BY <4>2, <4>3, ChunkFacts
    <3>5. preloadEvents'[j] = file[i]
      BY <1>1, <3>2, <3>3
    <3>6. (file \o stream)[i] = file[i]
      <4>1. i \in 1 .. Len(file) + Len(stream)
        BY <1>2, <2>1, <3>3
      <4>2. QED
        BY <1>2, <3>3, <4>1, Cat
    <3>7. QED
      BY <1>1, <2>2, <2>3, <3>3, <3>4, <3>5, <3>6
  <2>5. QED
    BY <1>1, <2>2, <2>3, <2>4
<1>10. Lengths'
  BY <1>1 DEF Reading, Lengths
<1>11. QED
  BY <1>5, <1>7, <1>8, <1>9, <1>10 DEF Reading

\* The begin of a pass: nothing is in memory.
LEMMA RewindReading ==
    ASSUME Reading, log \in Logs, Reader!QueryLoads \/ Reader!NextPass, cpc = "exited",
           UNCHANGED <<log, writerVars>>
    PROVE  Reading' /\ handed' = handed
<1>1. /\ mode \in {"saved", "query"} /\ mode' = "query" /\ iterIndex' = 0
      /\ callStackGlobal' = Reader!NoCalls /\ returned' = Reader!Stored(0)
      /\ preloadEvents' \in {preloadEvents, Reader!ZeroChunk}
      /\ UNCHANGED <<file, totalThreads, failed, shortRead, pc>>
      /\ UNCHANGED <<log, stream, handed>>
  BY DEF Reader!QueryLoads, Reader!NextPass, Reader!Reset, writerVars
<1>2. pc = "top"
  <2>1. CASE Reader!QueryLoads
    BY <2>1 DEF Reader!QueryLoads, Reading, Cursor
  <2>2. CASE Reader!NextPass
    BY <2>2, AtEnd DEF Reader!NextPass
  <2>3. QED
    BY <2>1, <2>2
<1>3. passes' \in 0 .. MaxPasses
  <2>1. CASE Reader!QueryLoads
    BY <2>1, PassesAssumption DEF Reader!QueryLoads
  <2>2. CASE Reader!NextPass
    BY <2>2, PassesAssumption DEF Reader!NextPass, Reading, ReaderTyped
  <2>3. QED
    BY <2>1, <2>2
<1>4. Len(log) \in Nat
  BY ReadingFacts
<1>5. Closing' /\ handed' = handed
  BY <1>1, ClosingKept
<1>6. OnFile' = OnFile /\ Trusted' = Trusted
  BY <1>1 DEF OnFile, Trusted
<1>7. ReaderTyped'
  <2>1. Reader!Stored(0) \in OnFile
    BY <1>4 DEF Reader!Stored, OnFile
  <2>2. Reader!ZeroChunk \in [0 .. EVENT_CHUNK_SIZE - 1 -> OnFile]
    BY <2>1 DEF Reader!ZeroChunk
  <2>3. preloadEvents' \in [0 .. EVENT_CHUNK_SIZE - 1 -> OnFile]
    BY <1>1, <2>2 DEF Reading, ReaderTyped
  <2>4. DOMAIN callStackGlobal' = Thread
    BY <1>1 DEF Reader!NoCalls
  <2>5. QED
    BY <1>1, <1>3, <1>6, <2>1, <2>3, <2>4 DEF Reading, ReaderTyped
<1>8. Cursor'
  BY <1>1, <1>2, <1>4 DEF Cursor
<1>9. Chunks'
  <2> SUFFICES ASSUME NEW i \in Trusted
               PROVE  ~InMemory(i)' /\ (file' \o stream')[i] = Now(i)'
    BY <1>6 DEF Chunks
  <2>1. ~InMemory(i)'
    BY <1>1, <1>2 DEF InMemory
  <2>2. Now(i)' = Now(i)
    BY <1>1 DEF Now
  <2>3. (file \o stream)[i] = Now(i)
    BY <1>1 DEF Reading, Chunks
  <2>4. QED
    BY <1>1, <2>1, <2>2, <2>3
<1>10. Lengths'
  BY <1>1 DEF Reading, Lengths
<1>11. QED
  BY <1>5, <1>7, <1>8, <1>9, <1>10 DEF Reading

-----------------------------------------------------------------------------
(* The readers, at an event *)

\* The replay ends in failure only at a Ret.
LEMMA ReplayFacts ==
    ASSUME NEW event, Reader!Replay(event), DOMAIN callStackGlobal = Thread, failed \in BOOLEAN
    PROVE  /\ DOMAIN callStackGlobal' = Thread /\ failed' \in BOOLEAN
           /\ Reader!IsAccess(event) => failed' = failed
<1> DEFINE t == event.threadId
           call == [func |-> event.func, frameBase |-> event.frameBase]
           calls == callStackGlobal[t]
<1>1. CASE event.type = "Call" /\ event.func # NoFunc
  <2>1. /\ callStackGlobal' = [callStackGlobal EXCEPT ![t] = Reader!Push(calls, call)]
        /\ failed' = failed
    BY <1>1 DEF Reader!Replay
  <2>2. QED
    BY <1>1, <2>1 DEF Reader!IsAccess
<1>2. CASE event.type = "Ret" /\ event.func # NoFunc
  <2>1. /\ failed' = ~Reader!PopMatches(calls, call)
        /\ callStackGlobal' = IF failed' THEN callStackGlobal
                              ELSE [callStackGlobal EXCEPT ![t] = Reader!Pop(calls)]
    BY <1>2 DEF Reader!Replay
  <2>2. failed' \in BOOLEAN
    BY <2>1, Zenon
  <2>3. DOMAIN callStackGlobal' = Thread
    BY <2>1
  <2>4. ~Reader!IsAccess(event)
    BY <1>2 DEF Reader!IsAccess
  <2>5. QED
    BY <2>2, <2>3, <2>4
<1>3. CASE ~(event.type = "Call" /\ event.func # NoFunc) /\ ~(event.type = "Ret" /\ event.func # NoFunc)
  <2>1. UNCHANGED <<callStackGlobal, failed>>
    BY <1>3 DEF Reader!Replay
  <2>2. QED
    BY <2>1
<1>4. QED
  BY <1>1, <1>2, <1>3

\* The event at the cursor.
Current == Reader!EventOf(preloadEvents[iterIndex % EVENT_CHUNK_SIZE])

\* The event that next() returns, as its caller leaves it.
LEMMA Visited ==
    ASSUME Reading, log \in Logs, Reader!NextEvent(mode = "post"), UNCHANGED <<log, writerVars>>
    PROVE  /\ iterIndex < Len(log) /\ iterIndex' = iterIndex + 1 /\ pc' = "top"
           /\ mode \in {"post", "query"}
           /\ preloadEvents' = [preloadEvents EXCEPT ![iterIndex % EVENT_CHUNK_SIZE] = returned']
           /\ iterIndex % EVENT_CHUNK_SIZE \in 0 .. EVENT_CHUNK_SIZE - 1
           /\ returned' \in OnFile
           /\ DOMAIN callStackGlobal' = Thread /\ failed' \in BOOLEAN /\ totalThreads' \in Nat
           /\ UNCHANGED <<file, mode, passes, shortRead, log, stream, handed>>
           /\ \A i \in Trusted : i = iterIndex + 1 => returned' = Now(i)' /\ Current = log[i]
           /\ ~failed /\ Reader!Replay(Current) /\ Reader!CountThread(Current)
           /\ \A i \in 1 .. Len(log) : InMemory(i)' <=> InMemory(i)
           /\ InMemory(iterIndex + 1)
<1> DEFINE k == iterIndex % EVENT_CHUNK_SIZE
           n == iterIndex + 1
           stored == preloadEvents[k]
<1>1. /\ ~failed /\ iterIndex < Len(log) /\ mode \in {"post", "query"}
      /\ pc = "event" \/ (pc = "top" /\ iterIndex % EVENT_CHUNK_SIZE # 0)
      /\ Reader!Replay(Current) /\ Reader!CountThread(Current)
      /\ returned' = [stored EXCEPT !.hasVar = @ \/ (mode = "post" /\ ~failed' /\ Reader!IsAccess(Current))]
      /\ preloadEvents' = [preloadEvents EXCEPT ![k] = returned']
      /\ iterIndex' = n /\ pc' = "top"
      /\ UNCHANGED <<file, mode, passes, shortRead, log, stream, handed>>
  BY DEF Reader!NextEvent, Reader!hasNext, Current, writerVars, Reading, Closing
<1>2. /\ Len(log) \in Nat /\ iterIndex \in Nat
      /\ preloadEvents \in [0 .. EVENT_CHUNK_SIZE - 1 -> OnFile]
      /\ DOMAIN callStackGlobal = Thread /\ totalThreads \in Nat
      /\ failed \in BOOLEAN
      /\ Cursor
  BY ReadingFacts DEF Reading, ReaderTyped
<1>3. k \in 0 .. EVENT_CHUNK_SIZE - 1 /\ k = iterIndex - ChunkBegin(iterIndex)
        /\ ChunkBegin(iterIndex) \in Nat /\ ChunkBegin(iterIndex) <= iterIndex
        /\ iterIndex < ChunkBegin(iterIndex) + EVENT_CHUNK_SIZE
  <2>1. /\ k = iterIndex - ChunkBegin(iterIndex)
        /\ ChunkBegin(iterIndex) \in Nat /\ ChunkBegin(iterIndex) <= iterIndex
        /\ iterIndex < ChunkBegin(iterIndex) + EVENT_CHUNK_SIZE
    BY <1>2, ChunkFacts
  <2> HIDE DEF k
  <2>2. QED
    BY <1>2, <2>1, ChunkSize
<1>4. n \in 1 .. Len(log)
  BY <1>1, <1>2
<1>5. /\ stored.n \in 0 .. Len(log) /\ stored.hasVar \in BOOLEAN
      /\ stored = [n |-> stored.n, hasVar |-> stored.hasVar]
  <2>1. stored \in OnFile
    BY <1>2, <1>3
  <2>2. QED
    BY <2>1 DEF OnFile
<1>6. returned' = [n |-> stored.n,
                   hasVar |-> stored.hasVar \/ (mode = "post" /\ ~failed' /\ Reader!IsAccess(Current))]
  BY <1>1, <1>5
<1>7. returned' \in OnFile
  <2>1. (stored.hasVar \/ (mode = "post" /\ ~failed' /\ Reader!IsAccess(Current))) \in BOOLEAN
    BY Zenon
  <2>2. QED
    BY <1>5, <1>6, <2>1 DEF OnFile
<1>8. /\ DOMAIN callStackGlobal' = Thread /\ failed' \in BOOLEAN
      /\ Reader!IsAccess(Current) => failed' = failed
  BY <1>1, <1>2, ReplayFacts
<1>9. totalThreads' \in Nat
  <2>1. Current.threadId \in Nat
    <3>1. CASE stored.n = 0
      BY <3>1 DEF Current, Reader!EventOf, Reader!ZeroEvent
    <3>2. CASE stored.n # 0
      <4>1. stored.n \in 1 .. Len(log)
        BY <1>2, <1>5, <3>2
      <4>2. Current = log[stored.n]
        BY <3>2 DEF Current, Reader!EventOf
      <4>3. log[stored.n].threadId \in Thread
        BY <4>1, LogsAssumption
      <4>4. QED
        BY <4>2, <4>3, ChunkSize
    <3>3. QED
      BY <3>1, <3>2
  <2>2. totalThreads' = Reader!Max({totalThreads - 1, Current.threadId}) + 1
    BY <1>1 DEF Reader!CountThread
  <2>3. totalThreads - 1 \in Int /\ Current.threadId \in Int
    BY <1>2, <2>1
  <2>4. Reader!Max({totalThreads - 1, Current.threadId})
          = IF totalThreads - 1 >= Current.threadId THEN totalThreads - 1 ELSE Current.threadId
    BY <2>3, ReaderMax
  <2>5. QED
    BY <1>2, <2>1, <2>2, <2>4
<1> HIDE DEF k
\* The chunk in memory stays where it is.
<1>10. Begin = ChunkBegin(iterIndex) /\ Begin' = ChunkBegin(iterIndex)
  <2>1. Begin' = ChunkBegin(iterIndex)
    <3>1. iterIndex' - 1 = iterIndex
      BY <1>1, <1>2
    <3>2. Begin' = ChunkBegin(iterIndex' - 1)
      BY <1>1 DEF Begin, ChunkStart, ChunkBegin
    <3>3. QED
      BY <3>1, <3>2
  <2>2. CASE pc = "event"
    <3>1. Begin = iterIndex /\ iterIndex % EVENT_CHUNK_SIZE = 0
      BY <1>2, <2>2 DEF Begin, Cursor
    <3>2. ChunkBegin(iterIndex) = iterIndex
      BY <1>2, <1>3, <3>1 DEF k
    <3>3. QED
      BY <2>1, <3>1, <3>2
  <2>3. CASE pc = "top" /\ iterIndex % EVENT_CHUNK_SIZE # 0
    <3>1. iterIndex # 0
      <4>1. 0 % EVENT_CHUNK_SIZE = 0
        BY ChunkSize
      <4>2. QED
        BY <2>3, <4>1
    <3>2. ChunkBegin(iterIndex - 1) = ChunkBegin(iterIndex)
      BY <1>2, <2>3, <3>1, ChunkBorder
    <3>3. Begin = ChunkBegin(iterIndex - 1)
      BY <2>3 DEF Begin, ChunkStart, ChunkBegin
    <3>4. QED
      BY <2>1, <3>2, <3>3
  <2>4. QED
    BY <1>1, <2>2, <2>3
<1>11. \A i \in 1 .. Len(log) :
         /\ InMemory(i) <=> Begin < i /\ i <= Begin + EVENT_CHUNK_SIZE
         /\ InMemory(i)' <=> Begin < i /\ i <= Begin + EVENT_CHUNK_SIZE
         /\ InMemory(i) => (i - 1) % EVENT_CHUNK_SIZE = i - 1 - Begin
  <2>1. pc = "event" \/ iterIndex > 0
    <3>1. 0 % EVENT_CHUNK_SIZE = 0
      BY ChunkSize
    <3>2. QED
      BY <1>1, <1>2, <3>1
  <2>2. ASSUME NEW i \in 1 .. Len(log)
        PROVE  InMemory(i)' <=> Begin < i /\ i <= Begin + EVENT_CHUNK_SIZE
    <3>1. pc' = "top" /\ iterIndex' > 0 /\ Begin' = ChunkStart'
      BY <1>1, <1>2 DEF Begin
    <3>2. InMemory(i)' <=> i \in Begin' + 1 .. Begin' + EVENT_CHUNK_SIZE
      BY <3>1 DEF InMemory
    <3>3. Begin' = Begin /\ Begin \in Nat
      BY <1>3, <1>10
    <3>4. QED
      BY <1>2, <3>2, <3>3, ChunkSize
  <2>3. QED
    BY <1>2, <2>1, <2>2, InMemoryIs
<1>12. InMemory(n)
  <2>1. Begin < n /\ n <= Begin + EVENT_CHUNK_SIZE
    BY <1>2, <1>3, <1>10, ChunkSize
  <2>2. QED
    BY <1>4, <1>11, <2>1
<1>13. ASSUME NEW i \in Trusted, i = n PROVE returned' = Now(i)' /\ Current = log[i]
  <2>1. (i - 1) % EVENT_CHUNK_SIZE = k
    BY <1>2, <1>13 DEF k
  <2>2. stored = Now(i)
    BY <1>12, <1>13, <2>1 DEF Reading, Chunks
  <2>3. stored.n = i /\ stored.hasVar = (mode # "post" /\ Reader!IsAccess(log[i]))
    <3>1. ~(i <= iterIndex)
      BY <1>2, <1>13
    <3>2. QED
      BY <2>2, <3>1 DEF Now
  <2>4. Current = log[i]
    BY <1>2, <1>13, <2>3 DEF Current, Reader!EventOf, k
  <2>5. Now(i)' = [n |-> i, hasVar |-> Reader!IsAccess(log[i])]
    <3>1. i <= iterIndex' /\ log' = log
      BY <1>1, <1>2, <1>13
    <3>2. ((mode' # "post" \/ i <= iterIndex') /\ Reader!IsAccess(log'[i]))
            = Reader!IsAccess(log[i])
      BY <3>1 DEF Reader!IsAccess
    <3>3. QED
      BY <3>2 DEF Now, Reader!IsAccess
  <2>6. (stored.hasVar \/ (mode = "post" /\ ~failed' /\ Reader!IsAccess(Current)))
          = Reader!IsAccess(log[i])
    <3>1. Reader!IsAccess(log[i]) => ~failed'
      BY <1>1, <1>8, <2>4
    <3>2. Reader!IsAccess(Current) = Reader!IsAccess(log[i])
      BY <2>4
    <3>3. Reader!IsAccess(log[i]) \in BOOLEAN
      BY DEF Reader!IsAccess
    <3>4. QED
      BY <2>3, <3>1, <3>2, <3>3, Zenon
  <2>7. QED
    BY <1>6, <2>3, <2>4, <2>5, <2>6
<1>14. QED
  BY <1>1, <1>3, <1>7, <1>8, <1>9, <1>11, <1>12, <1>13 DEF k

LEMMA NextEventReading ==
    ASSUME Reading, log \in Logs, Reader!NextEvent(mode = "post"), UNCHANGED <<log, writerVars>>
    PROVE  Reading' /\ handed' = handed
<1> DEFINE k == iterIndex % EVENT_CHUNK_SIZE
           n == iterIndex + 1
<1>1. /\ iterIndex < Len(log) /\ iterIndex' = n /\ pc' = "top" /\ mode \in {"post", "query"}
      /\ preloadEvents' = [preloadEvents EXCEPT ![k] = returned']
      /\ k \in 0 .. EVENT_CHUNK_SIZE - 1 /\ returned' \in OnFile
      /\ DOMAIN callStackGlobal' = Thread /\ failed' \in BOOLEAN /\ totalThreads' \in Nat
      /\ UNCHANGED <<file, mode, passes, shortRead, log, stream, handed>>
  BY Visited
<1>2. \A i \in Trusted : i = n => returned' = Now(i)'
  BY Visited
<1>3. InMemory(n) /\ \A i \in 1 .. Len(log) : InMemory(i)' <=> InMemory(i)
  BY Visited
<1>4. /\ Len(log) \in Nat /\ iterIndex \in Nat
      /\ preloadEvents \in [0 .. EVENT_CHUNK_SIZE - 1 -> OnFile]
      /\ Cursor
  BY ReadingFacts DEF Reading, ReaderTyped
<1>5. Closing' /\ handed' = handed
  BY <1>1, ClosingKept
<1>6. OnFile' = OnFile /\ Trusted' = Trusted
  BY <1>1 DEF OnFile, Trusted
<1>7. ReaderTyped'
  <2>1. preloadEvents' \in [0 .. EVENT_CHUNK_SIZE - 1 -> OnFile]
    BY <1>1, <1>4
  <2>2. QED
    BY <1>1, <1>6, <2>1 DEF Reading, ReaderTyped
<1>8. Cursor'
  BY <1>1, <1>4 DEF Cursor
<1>9. \A i \in 1 .. Len(log) : InMemory(i) => /\ Begin < i /\ i <= Begin + EVENT_CHUNK_SIZE
                                             /\ (i - 1) % EVENT_CHUNK_SIZE = i - 1 - Begin
                                             /\ Begin \in Nat
  <2>1. pc = "event" \/ iterIndex > 0
    BY <1>3, <1>4 DEF InMemory
  <2>2. QED
    BY <1>4, <2>1, InMemoryIs
<1>10. Chunks'
  <2> SUFFICES ASSUME NEW i \in Trusted
               PROVE  /\ InMemory(i)' => preloadEvents'[(i - 1) % EVENT_CHUNK_SIZE] = Now(i)'
                      /\ InMemory(i)' /\ ~shortRead' => i <= Len(file')
                      /\ ~InMemory(i)' \/ pc' = "load" \/ mode' # "post"
                           => (file' \o stream')[i] = Now(i)'
                      /\ (file' \o stream')[i] \in {Now(i)', Reader!Stored(i)}
    BY <1>6 DEF Chunks, Reader!Stored
  <2>1. i \in 1 .. Len(log)
    BY DEF Trusted
  <2>2. /\ InMemory(i) => preloadEvents[(i - 1) % EVENT_CHUNK_SIZE] = Now(i)
        /\ InMemory(i) /\ ~shortRead => i <= Len(file)
        /\ ~InMemory(i) \/ pc = "load" \/ mode # "post" => (file \o stream)[i] = Now(i)
        /\ (file \o stream)[i] \in {Now(i), Reader!Stored(i)}
    BY DEF Reading, Chunks
  <2>3. InMemory(i)' <=> InMemory(i)
    BY <1>3, <2>1
  <2>4. mode # "post" \/ i # n => Now(i)' = Now(i)
    <3>1. i # n => (i <= n <=> i <= iterIndex)
      BY <1>4, <2>1
    <3>2. QED
      BY <1>1, <3>1 DEF Now, Reader!IsAccess
  <2>5. CASE i # n
    <3>1. InMemory(i) => preloadEvents'[(i - 1) % EVENT_CHUNK_SIZE]
                           = preloadEvents[(i - 1) % EVENT_CHUNK_SIZE]
      <4>1. SUFFICES ASSUME InMemory(i) PROVE preloadEvents'[(i - 1) % EVENT_CHUNK_SIZE]
                                                = preloadEvents[(i - 1) % EVENT_CHUNK_SIZE]
        OBVIOUS
      <4>2. n \in 1 .. Len(log)
        BY <1>1, <1>4
      <4>3. /\ (i - 1) % EVENT_CHUNK_SIZE = i - 1 - Begin /\ Begin < i
            /\ i <= Begin + EVENT_CHUNK_SIZE /\ Begin \in Nat
            /\ (n - 1) % EVENT_CHUNK_SIZE = n - 1 - Begin
        BY <1>3, <1>9, <2>1, <4>1, <4>2
      <4>4. k = n - 1 - Begin
        BY <1>4, <4>3
      <4> HIDE DEF k
      <4>5. i - 1 - Begin # k /\ i - 1 - Begin \in 0 .. EVENT_CHUNK_SIZE - 1
        BY <1>4, <2>1, <2>5, <4>3, <4>4, ChunkSize
      <4>6. QED
        BY <1>1, <1>4, <4>3, <4>5
    <3>2. QED
      BY <1>1, <2>2, <2>3, <2>4, <2>5, <3>1
  <2>6. CASE i = n
    <3>1. (i - 1) % EVENT_CHUNK_SIZE = k
      BY <1>4, <2>6
    <3> HIDE DEF k
    <3>2. preloadEvents'[(i - 1) % EVENT_CHUNK_SIZE] = Now(i)'
      <4>1. returned' = Now(i)'
        BY <1>2, <2>6
      <4>2. preloadEvents'[k] = returned'
        BY <1>1, <1>4
      <4>3. QED
        BY <3>1, <4>1, <4>2
    <3>3. mode = "post" => Now(i) = Reader!Stored(i)
      <4>1. ~(i <= iterIndex)
        BY <1>4, <2>6
      <4>2. QED
        BY <4>1 DEF Now, Reader!Stored
    <3>4. (file \o stream)[i] \in {Now(i)', Reader!Stored(i)}
      BY <2>2, <2>4, <3>3
    <3>5. mode # "post" => (file \o stream)[i] = Now(i)'
      BY <2>2, <2>4
    <3>6. QED
      BY <1>1, <1>3, <2>2, <2>3, <2>6, <3>2, <3>4, <3>5
  <2>7. QED
    BY <2>5, <2>6
<1>11. Lengths'
  BY <1>1 DEF Reading, Lengths
<1>12. QED
  BY <1>5, <1>7, <1>8, <1>10, <1>11 DEF Reading

-----------------------------------------------------------------------------
(* The invariant *)

LEMMA StutterReading ==
    ASSUME Reading, log \in Logs, UNCHANGED vars PROVE Reading'
<1>1. UNCHANGED <<log, file, writerVars, readerVars>> /\ UNCHANGED <<stream, handed>>
  BY DEF vars, writerVars
<1>2. Closing'
  BY <1>1, ClosingKept DEF readerVars
<1>3. /\ file \in Seq(OnFile) /\ stream \in Seq(OnFile) /\ Len(file) \in Nat
      /\ Len(file) <= Len(file)
  BY ReadingFacts DEF Reading, ReaderTyped
<1>4. ReaderTyped' /\ Cursor' /\ Chunks' /\ Lengths'
  BY <1>1, <1>3, FileMoves
<1>5. QED
  BY <1>2, <1>4 DEF Reading

\* The steps of the readers, one by one.
LEMMA ReadCases ==
    ASSUME Read
    PROVE  /\ UNCHANGED <<log, writerVars>>
           /\ \/ Reader!DumpChunk
              \/ Reader!LoadChunk
              \/ Reader!NextEvent(mode = "post")
              \/ Reader!PostProcessed
              \/ (Reader!QueryLoads \/ Reader!NextPass) /\ cpc = "exited"
  BY DEF Read, PostProcess, Query, Reader!Iterate

LEMMA ReadReading ==
    ASSUME Reading, log \in Logs, Read PROVE Reading' /\ handed' = handed
<1> USE ReadCases
<1>1. CASE Reader!DumpChunk
  BY <1>1, DumpChunkReading
<1>2. CASE Reader!LoadChunk
  BY <1>2, LoadChunkReading
<1>3. CASE Reader!NextEvent(mode = "post")
  BY <1>3, NextEventReading
<1>4. CASE Reader!PostProcessed
  BY <1>4, PostProcessedReading
<1>5. CASE (Reader!QueryLoads \/ Reader!NextPass) /\ cpc = "exited"
  BY <1>5, RewindReading
<1>6. QED
  BY <1>1, <1>2, <1>3, <1>4, <1>5

LEMMA NextIInv == IInv /\ [Next]_vars => IInv'
<1> SUFFICES ASSUME IInv, [Next]_vars PROVE IInv'
  OBVIOUS
<1>1. log \in Logs /\ log' = log
  BY DEF IInv, Next, Write, Read, vars
<1>2. CASE handed = NotHandedOver
  <2>1. Recording
    BY <1>2 DEF IInv
  <2>2. QED
    BY <1>1, <1>2, <2>1, RecordingStep, HandOverStep DEF IInv
<1>3. CASE handed # NotHandedOver
  <2>1. Reading
    BY <1>3 DEF IInv
  <2>2. Reading' /\ handed' = handed
    <3>1. CASE Write
      BY <1>1, <2>1, <3>1, WriteReading
    <3>2. CASE Read
      BY <1>1, <2>1, <3>2, ReadReading
    <3>3. CASE UNCHANGED vars
      BY <1>1, <2>1, <3>3, StutterReading DEF vars, writerVars
    <3>4. QED
      BY <3>1, <3>2, <3>3 DEF Next
  <2>3. QED
    BY <1>1, <1>3, <2>2 DEF IInv
<1>4. QED
  BY <1>2, <1>3

\* The invariant holds in every state.
THEOREM Invariant == Spec => []IInv
<1>1. Init => IInv
  BY InitRecording DEF IInv
<1>2. QED
  BY <1>1, NextIInv, PTL DEF Spec
-----------------------------------------------------------------------------
(* What the run checks, for all logs and all sizes *)

\* The state of the file and of its readers has its types, before the handover
\* and after it.
THEOREM TypeCorrect == Spec => []TypeOK
<1>1. IInv => TypeOK
  <2> SUFFICES ASSUME IInv PROVE TypeOK
    OBVIOUS
  <2>1. /\ log \in Logs /\ Len(log) \in Nat
        /\ \A n \in DOMAIN log : log[n].threadId \in Thread
    <3>1. log \in Logs /\ log \in Seq(Range(log)) /\ Len(log) \in Nat
      BY LogsAssumption, LenProperties DEF IInv
    <3>2. DOMAIN log = 1 .. Len(log)
      BY <3>1, LenProperties
    <3>3. QED
      BY <3>1, <3>2, LogsAssumption
  <2>2. CASE handed = NotHandedOver
    <3>1. DumperProofs!TypeOK /\ Reader!Init
      BY <2>2 DEF IInv, Recording, DumperProofs!IInv
    <3>2. Reader!Stored(0) \in StoredEvent
      BY DEF Reader!Stored, StoredEvent
    <3>3. preloadEvents \in [0 .. EVENT_CHUNK_SIZE - 1 -> StoredEvent]
      BY <3>1, <3>2 DEF Reader!Init, Reader!ZeroChunk
    <3>4. DOMAIN callStackGlobal = Thread
      BY <3>1 DEF Reader!Init, Reader!NoCalls
    <3>5. failed \in BOOLEAN /\ shortRead \in BOOLEAN
      BY <3>1 DEF Reader!Init
    <3>6. /\ iterIndex \in 0 .. Len(log) /\ totalThreads \in Nat /\ passes \in 0 .. MaxPasses
          /\ pc = "top" /\ mode = "post" /\ returned \in StoredEvent
      BY <2>1, <3>1, <3>2, PassesAssumption DEF Reader!Init
    <3>7. file \in Seq(StoredEvent) /\ stream \in Seq(StoredEvent)
      BY <3>1 DEF DumperProofs!TypeOK
    <3>8. QED
      BY <2>1, <2>2, <3>3, <3>4, <3>5, <3>6, <3>7 DEF TypeOK
  <2>3. CASE handed # NotHandedOver
    <3>1. Closing /\ ReaderTyped /\ Cursor
      BY <2>3 DEF IInv, Reading
    <3>2. OnFile \subseteq StoredEvent
      BY <2>1 DEF OnFile, StoredEvent
    <3>3. ASSUME NEW s \in Seq(OnFile) PROVE s \in Seq(StoredEvent)
      BY <3>2, SeqDef
    <3>4. file \in Seq(StoredEvent) /\ stream \in Seq(StoredEvent)
      BY <3>1, <3>3 DEF ReaderTyped
    <3>5. /\ preloadEvents \in [0 .. EVENT_CHUNK_SIZE - 1 -> StoredEvent]
          /\ returned \in StoredEvent
      BY <3>1, <3>2 DEF ReaderTyped
    <3>6. QED
      BY <2>1, <3>1, <3>4, <3>5 DEF TypeOK, Closing, ReaderTyped, Cursor
  <2>4. QED
    BY <2>2, <2>3
<1>2. QED
  BY <1>1, Invariant, PTL

\* Whatever the chunks and the blocks, and however late the saver closes its
\* stream: after the post-processing the file is the annotated log, but for the
\* last StreamBuf - 1 events when a read came too early.
THEOREM FileAnnotated == Spec => []FileIsAnnotatedLog
<1>1. IInv => FileIsAnnotatedLog
  <2> SUFFICES ASSUME IInv, mode # "post"
               PROVE  /\ \A i \in 1 .. Len(log) - (StreamBuf - 1) :
                           i <= Len(file) /\ file[i] = Annotated(i)
                      /\ ~shortRead => file = [i \in 1 .. Len(log) |-> Annotated(i)]
    BY DEF FileIsAnnotatedLog
  <2>1. Reading /\ log \in Logs
    BY DEF IInv, Recording, Reader!Init
  <2>2. /\ Len(log) \in Nat /\ Len(file) \in Nat /\ Len(stream) \in Nat
        /\ file \in Seq(OnFile) /\ stream \in Seq(OnFile)
    BY <2>1, ReadingFacts DEF Reading, ReaderTyped
  <2>3. ASSUME NEW i \in Trusted, i <= Len(file) PROVE file[i] = Annotated(i)
    <3>1. (file \o stream)[i] = Now(i)
      BY <2>1 DEF Reading, Chunks
    <3>2. Now(i) = Annotated(i)
      BY DEF Now, Annotated, Reader!IsAccess
    <3>3. i \in 1 .. Len(file) + Len(stream)
      BY <2>1, <2>2, <2>3, ReadingFacts
    <3>4. (file \o stream)[i] = file[i]
      BY <2>2, <2>3, <3>3, Cat
    <3>5. QED
      BY <3>1, <3>2, <3>4
  <2>4. ASSUME NEW i \in 1 .. Len(log) - (StreamBuf - 1)
        PROVE  i <= Len(file) /\ file[i] = Annotated(i)
    <3>1. i \in 1 .. Len(log) /\ i <= Len(file)
      BY <2>1, <2>2, BlockAssumption DEF Reading, Lengths
    <3>2. i \in Trusted
      BY <2>2, <3>1, BlockAssumption DEF Trusted
    <3>3. QED
      BY <2>3, <3>1, <3>2
  <2>5. ASSUME ~shortRead PROVE file = [i \in 1 .. Len(log) |-> Annotated(i)]
    <3>1. stream = <<>> /\ Len(file) = Len(log)
      BY <2>1, <2>2, <2>5 DEF Reading, Lengths
    <3>2. file = [i \in 1 .. Len(file) |-> file[i]]
      BY <2>2
    <3>3. \A i \in 1 .. Len(log) : file[i] = Annotated(i)
      BY <2>2, <2>3, <2>5, <3>1 DEF Trusted
    <3>4. QED
      BY <3>1, <3>2, <3>3
  <2>6. QED
    BY <2>4, <2>5
<1>2. QED
  BY <1>1, Invariant, PTL

\* A read meets the end of the file too early only while the saver has not
\* closed the stream that it announced as saved.
THEOREM ShortReads == Spec => ShortReadIsLateFlush
<1> DEFINE LateFlush == shortRead' /\ ~shortRead =>
              mode = "post" /\ stream # <<>> /\ spc \in {"check", "closeLoop", "closeReturn"}
<1>1. IInv /\ [Next]_vars => [LateFlush]_vars
  <2> SUFFICES ASSUME IInv, Next, shortRead', ~shortRead
               PROVE  mode = "post" /\ stream # <<>> /\ spc \in {"check", "closeLoop", "closeReturn"}
    OBVIOUS
  <2>1. Read
    BY DEF Next, Write, readerVars
  <2>2. Reader!LoadChunk
    BY <2>1, ReadCases DEF Reader!DumpChunk, Reader!NextEvent, Reader!PostProcessed,
                           Reader!QueryLoads, Reader!NextPass
  <2>3. handed # NotHandedOver
    BY <2>2 DEF IInv, Recording, Reader!Init, Reader!LoadChunk
  <2>4. Reading /\ log \in Logs
    BY <2>3 DEF IInv
  <2>5. /\ handed = Len(log) /\ Len(log) \in Nat /\ iterIndex \in Nat /\ iterIndex <= Len(log)
        /\ Len(file) \in Nat /\ Len(stream) \in Nat
    BY <2>4, ReadingFacts DEF Reading, Closing
  <2>6. Len(file) < Len(log)
    <3> DEFINE c == Reader!Min({EVENT_CHUNK_SIZE, Len(log) - iterIndex})
    <3>1. Len(file) < iterIndex + c
      BY <2>2, <2>5 DEF Reader!LoadChunk
    <3>2. EVENT_CHUNK_SIZE \in Int /\ Len(log) - iterIndex \in Int
      BY <2>5, ChunkSize
    <3>3. c = IF EVENT_CHUNK_SIZE <= Len(log) - iterIndex THEN EVENT_CHUNK_SIZE
              ELSE Len(log) - iterIndex
      BY <3>2, ReaderMin
    <3> HIDE DEF c
    <3>4. QED
      BY <2>5, <3>1, <3>3, ChunkSize
  <2>7. stream # <<>>
    <3>1. Len(file) + Len(stream) = Len(log)
      BY <2>4 DEF Reading, Lengths
    <3>2. QED
      BY <2>5, <2>6, <3>1
  <2>8. QED
    BY <2>4, <2>7 DEF Reading, Closing, Lengths
<1>2. QED
  BY <1>1, Invariant, PTL DEF Spec, ShortReadIsLateFlush

-----------------------------------------------------------------------------
(* The array of events with a cursor *)

\* The state of EventStore, as ToolRun maps it.
StoreHasVar == IF Readable THEN {i \in 1 .. Len(log) : View(i).hasVar} ELSE {}
StorePos == IF Readable THEN iterIndex ELSE 0
StoreVisited == IF Readable THEN returned ELSE Reader!Stored(0)
StoreMode == IF shortRead THEN "broken" ELSE mode

\* The events that have their variable by now.
Given == {i \in 1 .. Len(log) : (mode # "post" \/ i <= iterIndex) /\ Reader!IsAccess(log[i])}

\* What the readers see is the chunk in memory, and beside it the file with what
\* the saver still holds: either way the event as it is by now.
LEMMA ViewIsNow == IInv /\ Readable => StoreHasVar = Given
<1> SUFFICES ASSUME IInv, Readable PROVE StoreHasVar = Given
  OBVIOUS
<1>1. Reading
  BY DEF IInv, Readable
<1>2. ASSUME NEW i \in 1 .. Len(log) PROVE View(i) = Now(i)
  <2>1. i \in Trusted
    BY DEF Readable, Trusted
  <2>2. QED
    BY <1>1, <2>1 DEF Reading, Chunks, View
<1>3. ASSUME NEW i \in 1 .. Len(log)
      PROVE  View(i).hasVar = ((mode # "post" \/ i <= iterIndex) /\ Reader!IsAccess(log[i]))
  <2>1. Now(i).hasVar = ((mode # "post" \/ i <= iterIndex) /\ Reader!IsAccess(log[i]))
    BY DEF Now, Reader!IsAccess
  <2>2. QED
    BY <1>2, <2>1
<1>4. StoreHasVar = {i \in 1 .. Len(log) : View(i).hasVar}
  BY DEF StoreHasVar, Readable
<1>5. QED
  BY <1>3, <1>4 DEF Given

LEMMA ViewIsNowNext == IInv' /\ Readable' => StoreHasVar' = Given'
<1>1. (IInv /\ Readable => StoreHasVar = Given)'
  BY ViewIsNow, PTL
<1>2. QED
  BY <1>1

LEMMA NotReadable ==
    ASSUME ~Readable
    PROVE  StoreHasVar = {} /\ StorePos = 0 /\ StoreVisited = Reader!Stored(0)
  BY DEF StoreHasVar, StorePos, StoreVisited

LEMMA NotReadableNext ==
    ASSUME ~Readable'
    PROVE  StoreHasVar' = {} /\ StorePos' = 0 /\ StoreVisited' = Reader!Stored(0)
  BY DEF StoreHasVar, StorePos, StoreVisited, Reader!Stored

\* The steps of EventStore, in these terms.
StoreStutters == UNCHANGED <<log, StoreHasVar, StorePos, StoreVisited, StoreMode>>

LEMMA StoreSteps ==
    \/ StoreStutters
    \/ /\ StoreMode \in {"post", "query"} /\ StorePos < Len(log) /\ StorePos' = StorePos + 1
       /\ StoreVisited' = [n |-> StorePos + 1, hasVar |-> StorePos + 1 \in StoreHasVar']
       /\ log' = log /\ StoreMode' = StoreMode
       /\ StoreHasVar' = IF StoreMode = "query" THEN StoreHasVar
                         ELSE StoreHasVar \cup {n \in {StorePos + 1} : Reader!IsAccess(log[n])}
    \/ /\ StoreMode = "post" /\ StorePos = Len(log) /\ StoreMode' = "saved"
       /\ UNCHANGED <<log, StoreHasVar, StorePos, StoreVisited>>
    \/ /\ \/ StoreMode = "saved"
          \/ StoreMode = "query" /\ StorePos = Len(log)
       /\ StoreMode' = "query" /\ StorePos' = 0 /\ StoreVisited' = Reader!Stored(0)
       /\ UNCHANGED <<log, StoreHasVar>>
    \/ /\ StoreMode # "broken" /\ StoreMode' = "broken"
       /\ StoreHasVar' = {} /\ StorePos' = 0 /\ StoreVisited' = Reader!Stored(0)
       /\ log' = log
    => [Store!Next]_(Store!vars)
  BY DEF StoreStutters, StoreHasVar, StorePos, StoreVisited, StoreMode, Store!Next, Store!vars,
         Store!Annotate, Store!Visit, Store!Finish, Store!Open, Store!Read, Store!Rewind,
         Store!Break, Store!NotVisited, Reader!Stored, Reader!IsAccess

\* A step that the readers do not notice.
LEMMA SameView ==
    ASSUME IInv, IInv', Readable,
           UNCHANGED <<log, handed, iterIndex, mode, returned, shortRead>>
    PROVE  StoreStutters
<1>1. Readable'
  BY DEF Readable
<1>2. Given' = Given
  BY DEF Given, Reader!IsAccess
<1>3. StoreHasVar' = StoreHasVar
  BY <1>1, <1>2, ViewIsNow, ViewIsNowNext
<1>4. QED
  BY <1>1, <1>3 DEF StoreStutters, StorePos, StoreVisited, StoreMode

\* The steps of the readers are those of EventStore.
LEMMA ReadIsStoreStep ==
    ASSUME IInv, IInv', Readable, Read
    PROVE  [Store!Next]_(Store!vars)
<1>1. /\ Reading /\ log \in Logs /\ handed' = handed /\ log' = log
      /\ mode \in {"post", "saved", "query"}
  BY ReadReading, ReadCases DEF IInv, Readable, Reading, ReaderTyped
<1>2. /\ Len(log) \in Nat /\ iterIndex \in Nat /\ iterIndex <= Len(log) /\ handed = Len(log)
  BY <1>1, ReadingFacts DEF Reading, Closing
<1>3. /\ StorePos = iterIndex /\ StoreVisited = returned /\ StoreMode = mode
      /\ StoreHasVar = Given
  BY ViewIsNow DEF StorePos, StoreVisited, StoreMode, Readable
<1>4. ~shortRead' => /\ StorePos' = iterIndex' /\ StoreVisited' = returned'
                     /\ StoreMode' = mode' /\ StoreHasVar' = Given'
  <2>1. SUFFICES ASSUME ~shortRead'
                 PROVE  /\ StorePos' = iterIndex' /\ StoreVisited' = returned'
                        /\ StoreMode' = mode' /\ StoreHasVar' = Given'
    OBVIOUS
  <2>2. Readable'
    BY <1>1, <2>1 DEF Readable
  <2>3. QED
    BY <2>2, ViewIsNowNext DEF StorePos, StoreVisited, StoreMode, Readable
<1>5. CASE Reader!DumpChunk
  <2>1. StoreStutters
    BY <1>1, <1>5, SameView DEF Reader!DumpChunk, Reader!tables
  <2>2. QED
    BY <2>1, StoreSteps
<1>6. CASE Reader!LoadChunk
  <2>1. UNCHANGED <<log, handed, iterIndex, mode, returned>>
    BY <1>1, <1>6 DEF Reader!LoadChunk, Reader!tables
  <2>2. CASE ~shortRead'
    <3>1. shortRead' = shortRead
      <4>1. shortRead' \in BOOLEAN /\ shortRead \in BOOLEAN
        <5>1. Reading'
          BY <1>1 DEF IInv, Readable
        <5>2. QED
          BY <1>1, <5>1 DEF Reading, ReaderTyped
      <4>2. QED
        BY <2>2, <4>1 DEF Readable
    <3>2. StoreStutters
      BY <2>1, <3>1, SameView
    <3>3. QED
      BY <3>2, StoreSteps
  <2>3. CASE shortRead'
    <3>1. /\ StoreHasVar' = {} /\ StorePos' = 0 /\ StoreVisited' = Reader!Stored(0)
          /\ StoreMode' = "broken" /\ StoreMode # "broken"
      BY <1>1, <1>3, <2>3, NotReadableNext DEF StoreMode, Readable
    <3>2. QED
      BY <1>1, <3>1, StoreSteps
  <2>4. QED
    BY <2>2, <2>3
<1>7. CASE Reader!NextEvent(mode = "post")
  <2>1. UNCHANGED <<log, writerVars>>
    BY ReadCases
  <2>2. /\ iterIndex < Len(log) /\ iterIndex' = iterIndex + 1 /\ mode \in {"post", "query"}
        /\ mode' = mode /\ shortRead' = shortRead
        /\ \A i \in Trusted : i = iterIndex + 1 => returned' = Now(i)'
    BY <1>1, <1>7, <2>1, Visited
  <2>3. ~shortRead'
    BY <2>2 DEF Readable
  <2>4. ASSUME NEW n \in 1 .. Len(log), n = iterIndex + 1
        PROVE  /\ returned' = [n |-> n, hasVar |-> n \in Given']
               /\ Given' = IF mode = "query" THEN Given
                           ELSE Given \cup {i \in {n} : Reader!IsAccess(log[i])}
    <3>1. returned' = Now(n)'
      BY <2>2, <2>4 DEF Trusted, Readable
    <3>2. Given' = {i \in 1 .. Len(log) : (mode # "post" \/ i <= n) /\ Reader!IsAccess(log[i])}
      BY <1>1, <2>2, <2>4 DEF Given, Reader!IsAccess
    <3>3. Now(n)' = [n |-> n, hasVar |-> n \in Given']
      <4>1. n <= n
        BY <1>2
      <4>2. (n \in Given') = Reader!IsAccess(log[n])
        BY <3>2, <4>1 DEF Reader!IsAccess
      <4>3. ((mode' # "post" \/ n <= iterIndex') /\ Reader!IsAccess(log[n]))
              = Reader!IsAccess(log[n])
        BY <2>2, <2>4, <4>1 DEF Reader!IsAccess
      <4>4. Now(n)' = [n |-> n, hasVar |-> Reader!IsAccess(log[n])]
        BY <1>1, <4>3 DEF Now, Reader!IsAccess
      <4>5. QED
        BY <4>2, <4>4
    <3>4. Given' = IF mode = "query" THEN Given
                   ELSE Given \cup {i \in {n} : Reader!IsAccess(log[i])}
      <4>1. CASE mode = "query"
        BY <3>2, <4>1 DEF Given
      <4>2. CASE mode = "post"
        <5>1. \A i \in 1 .. Len(log) : i <= n <=> i <= iterIndex \/ i = n
          BY <1>2, <2>4
        <5>2. QED
          BY <3>2, <4>2, <5>1 DEF Given
      <4>3. QED
        BY <2>2, <4>1, <4>2
    <3>5. QED
      BY <3>1, <3>3, <3>4
  <2>5. iterIndex + 1 \in 1 .. Len(log)
    BY <1>2, <2>2
  <2>6. /\ returned' = [n |-> iterIndex + 1, hasVar |-> iterIndex + 1 \in Given']
        /\ Given' = IF mode = "query" THEN Given
                    ELSE Given \cup {i \in {iterIndex + 1} : Reader!IsAccess(log[i])}
    BY <2>4, <2>5
  <2>7. QED
    BY <1>1, <1>3, <1>4, <2>2, <2>3, <2>6, StoreSteps
<1>8. CASE Reader!PostProcessed
  <2>1. /\ mode = "post" /\ mode' = "saved" /\ iterIndex = Len(log)
        /\ UNCHANGED <<iterIndex, returned, shortRead>>
    BY <1>1, <1>8, AtEnd DEF Reader!PostProcessed, Reader!tables
  <2>2. ~shortRead'
    BY <2>1 DEF Readable
  <2>3. Given' = Given
    <3>1. \A i \in 1 .. Len(log) : i <= iterIndex
      BY <1>2, <2>1
    <3>2. QED
      BY <1>1, <2>1, <3>1 DEF Given, Reader!IsAccess
  <2>4. QED
    BY <1>1, <1>3, <1>4, <2>1, <2>2, <2>3, StoreSteps
<1>9. CASE (Reader!QueryLoads \/ Reader!NextPass) /\ cpc = "exited"
  <2>1. /\ mode = "saved" \/ (mode = "query" /\ iterIndex = Len(log))
        /\ mode' = "query" /\ iterIndex' = 0 /\ returned' = Reader!Stored(0)
        /\ shortRead' = shortRead
    BY <1>1, <1>9, AtEnd DEF Reader!QueryLoads, Reader!NextPass, Reader!Reset
  <2>2. ~shortRead'
    BY <2>1 DEF Readable
  <2>3. Given' = Given
    BY <1>1, <2>1 DEF Given, Reader!IsAccess
  <2>4. QED
    BY <1>1, <1>3, <1>4, <2>1, <2>2, <2>3, StoreSteps
<1>10. QED
  BY <1>5, <1>6, <1>7, <1>8, <1>9, ReadCases

LEMMA StoreStep == IInv /\ IInv' /\ [Next]_vars => [Store!Next]_(Store!vars)
<1> SUFFICES ASSUME IInv, IInv', [Next]_vars PROVE [Store!Next]_(Store!vars)
  OBVIOUS
<1>1. SUFFICES ASSUME ~Read \/ ~Readable PROVE StoreStutters
  BY ReadIsStoreStep, StoreSteps
<1>2. log' = log
  BY DEF Next, Write, Read, vars
<1>3. CASE handed = NotHandedOver
  <2>1. UNCHANGED <<log, readerVars>> /\ Reader!Init
    BY <1>3, OnlyWrite DEF IInv, Recording
  <2>2. ~Readable /\ ~shortRead /\ mode' = mode /\ shortRead' = shortRead
    BY <1>3, <2>1 DEF Readable, Reader!Init, readerVars
  <2>3. StoreHasVar' = {} /\ StorePos' = 0 /\ StoreVisited' = Reader!Stored(0)
    <3>1. CASE ~Readable'
      BY <3>1, NotReadableNext
    <3>2. CASE Readable'
      <4>1. iterIndex' = 0 /\ mode' = "post" /\ returned' = Reader!Stored(0)
        BY <2>1 DEF Reader!Init, readerVars
      <4>2. StoreHasVar' = Given'
        BY <3>2, ViewIsNowNext
      <4>3. \A i \in 1 .. Len(log) : ~(i <= 0)
        <5>1. Len(log) \in Nat
          BY LogsAssumption, LenProperties DEF IInv
        <5>2. QED
          BY <5>1
      <4>4. Given' = {}
        BY <1>2, <4>1, <4>3 DEF Given
      <4>5. QED
        BY <3>2, <4>1, <4>2, <4>4 DEF StorePos, StoreVisited
    <3>3. QED
      BY <3>1, <3>2
  <2>4. QED
    BY <1>2, <2>2, <2>3, NotReadable DEF StoreStutters, StoreMode
<1>4. CASE handed # NotHandedOver /\ shortRead
  <2>1. shortRead' /\ ~Readable /\ ~Readable'
    <3>1. shortRead'
      <4>1. CASE Read
        BY <1>4, <4>1, ReadCases, Zenon
        DEF Reader!DumpChunk, Reader!LoadChunk, Reader!NextEvent, Reader!PostProcessed,
            Reader!QueryLoads, Reader!NextPass
      <4>2. CASE ~Read
        BY <1>4, <4>2 DEF Next, Write, readerVars, vars
      <4>3. QED
        BY <4>1, <4>2
    <3>2. QED
      BY <1>4, <3>1 DEF Readable
  <2>2. QED
    BY <1>2, <1>4, <2>1, NotReadable, NotReadableNext DEF StoreStutters, StoreMode
<1>5. CASE handed # NotHandedOver /\ ~shortRead
  <2>1. Readable /\ Reading /\ log \in Logs
    BY <1>5 DEF Readable, IInv
  <2>2. UNCHANGED <<readerVars, handed>>
    BY <1>1, <2>1, WriteReading DEF Next, Write, vars, writerVars
  <2>3. QED
    BY <1>2, <2>1, <2>2, SameView DEF readerVars
<1>6. QED
  BY <1>3, <1>4, <1>5

\* The post-processing and the queries read and write an array of events with a
\* cursor, whatever file, chunks, stream and saver are below, until a read is short.
THEOREM Implementation == Spec => ImplementsEventStore
<1>1. Init => Store!Init
  <2> SUFFICES ASSUME Init PROVE Store!Init
    OBVIOUS
  <2>1. log \in Logs /\ ~Readable /\ mode = "post" /\ ~shortRead
    BY InitRecording DEF Readable, Recording, Reader!Init
  <2>2. StoreHasVar = {} /\ StorePos = 0 /\ StoreVisited = Reader!Stored(0) /\ StoreMode = "post"
    BY <2>1, NotReadable DEF StoreMode
  <2>3. QED
    BY <2>1, <2>2 DEF Store!Init, StoreHasVar, StorePos, StoreVisited, StoreMode,
                      Store!NotVisited, Reader!Stored
<1>2. QED
  BY <1>1, StoreStep, Invariant, PTL DEF Spec, ImplementsEventStore, Store!Spec
-----------------------------------------------------------------------------
(* The call stacks of a pass *)

Frames(l) == [func : {l[i].func : i \in 1 .. Len(l)}, frameBase : Int]

LEMMA SameStackOperators ==
    \A calls, call : /\ Reader!Push(calls, call) = Push(calls, call)
                     /\ Reader!PopMatches(calls, call) = PopMatches(calls, call)
                     /\ Reader!Pop(calls) = Pop(calls)
  BY DEF Reader!Push, Push, Reader!Kept, Kept, Reader!PopMatches, PopMatches, Reader!Pop, Pop

\* A stack of open calls, in the order of their frames: there is but one.
Rebuilt(l, t, calls, n) ==
    /\ calls \in Seq(Frames(l)) /\ Decreasing(calls)
    /\ ToSet(calls) = OpenCalls(l, t, n)

\* The event at n opens a call of its thread, or closes one, or neither.
LEMMA OpenCallsNext ==
    ASSUME NEW l, Len(l) \in Nat, NEW n \in 1 .. Len(l), NEW t \in Thread
    PROVE  LET mine == l[n].threadId = t /\ l[n].func # NoFunc
           IN OpenCalls(l, t, n) =
                IF mine /\ l[n].type = "Call" THEN OpenCalls(l, t, n - 1) \cup {CallOf(l[n])}
                ELSE IF mine /\ l[n].type = "Ret" THEN OpenCalls(l, t, n - 1) \ {CallOf(l[n])}
                ELSE OpenCalls(l, t, n - 1)
<1> DEFINE Opens(j) == l[j].type = "Call" /\ l[j].threadId = t /\ l[j].func # NoFunc
           Closes(k, c) == l[k].type = "Ret" /\ l[k].threadId = t /\ CallOf(l[k]) = c
           Open(m) == {j \in 1 .. m : Opens(j) /\ \A k \in j + 1 .. m : ~Closes(k, CallOf(l[j]))}
<1>1. /\ OpenCalls(l, t, n) = {CallOf(l[i]) : i \in Open(n)}
      /\ OpenCalls(l, t, n - 1) = {CallOf(l[i]) : i \in Open(n - 1)}
  BY DEF OpenCalls
<1>2. \A j \in 1 .. n : j \in Open(n) <=>
         IF j = n THEN Opens(n) ELSE j \in Open(n - 1) /\ ~Closes(n, CallOf(l[j]))
  <2> SUFFICES ASSUME NEW j \in 1 .. n
               PROVE  j \in Open(n) <=>
                        IF j = n THEN Opens(n) ELSE j \in Open(n - 1) /\ ~Closes(n, CallOf(l[j]))
    OBVIOUS
  <2> HIDE DEF Opens, Closes
  <2>1. CASE j = n
    BY <2>1
  <2>2. CASE j # n
    <3>1. j \in 1 .. n - 1
      BY <2>2
    <3>2. j + 1 .. n = (j + 1 .. n - 1) \cup {n}
      BY <3>1
    <3>3. QED
      BY <2>2, <3>1, <3>2
  <2>3. QED
    BY <2>1, <2>2
<1>3. Open(n) \subseteq 1 .. n /\ Open(n - 1) \subseteq 1 .. n - 1
  OBVIOUS
<1>4. \A j \in 1 .. n : Closes(n, CallOf(l[j])) /\ Opens(j) => l[n].func # NoFunc
  BY DEF CallOf
<1>5. \A j \in Open(n - 1) : Opens(j)
  OBVIOUS
<1>6. \A j \in Open(n - 1) : j \in 1 .. n /\ j # n
  BY <1>3
<1>7. n \in 1 .. n
  OBVIOUS
<1>8. Opens(n) <=> l[n].type = "Call" /\ l[n].threadId = t /\ l[n].func # NoFunc
  OBVIOUS
<1>9. \A c : Closes(n, c) <=> l[n].type = "Ret" /\ l[n].threadId = t /\ CallOf(l[n]) = c
  OBVIOUS
<1> HIDE DEF Open, Opens, Closes
<1>10. CASE Opens(n)
  <2>1. \A c : ~Closes(n, c)
    BY <1>8, <1>9, <1>10
  <2>2. Open(n) = Open(n - 1) \cup {n}
    BY <1>2, <1>3, <1>6, <1>7, <1>10, <2>1
  <2>3. QED
    BY <1>1, <1>8, <1>10, <2>2
<1>11. CASE ~Opens(n)
  <2>1. \A j : j \in Open(n) <=> j \in Open(n - 1) /\ ~Closes(n, CallOf(l[j]))
    BY <1>2, <1>3, <1>6, <1>11
  <2>2. CASE l[n].type = "Ret" /\ l[n].threadId = t /\ l[n].func # NoFunc
    <3>1. \A c : Closes(n, c) <=> c = CallOf(l[n])
      BY <1>9, <2>2
    <3>2. QED
      BY <1>1, <1>8, <1>11, <2>1, <2>2, <3>1
  <2>3. CASE ~(l[n].type = "Ret" /\ l[n].threadId = t /\ l[n].func # NoFunc)
    <3>1. \A j \in Open(n - 1) : ~Closes(n, CallOf(l[j]))
      BY <1>4, <1>5, <1>6, <1>9, <2>3
    <3>2. Open(n) = Open(n - 1)
      BY <2>1, <3>1
    <3>3. QED
      BY <1>1, <1>8, <1>11, <2>3, <3>2
  <2>4. QED
    BY <2>2, <2>3
<1>12. QED
  BY <1>10, <1>11

\* The replay of the next event rebuilds the stacks, and no assertion of pop fails.
LEMMA ReplayRebuilds ==
    ASSUME log \in Logs, Len(log) \in Nat, NEW n \in 1 .. Len(log),
           DOMAIN callStackGlobal = Thread, failed = FALSE,
           \A t \in Thread : Rebuilt(log, t, callStackGlobal[t], n - 1),
           Reader!Replay(log[n])
    PROVE  failed' = FALSE /\ \A t \in Thread : Rebuilt(log, t, callStackGlobal'[t], n)
<1> DEFINE u == log[n].threadId
           call == CallOf(log[n])
           calls == callStackGlobal[u]
<1>1. u \in Thread /\ call \in Frames(log) /\ log[n].frameBase \in Int
  BY LogsAssumption DEF CallOf, Frames
<1>2. /\ calls \in Seq(Frames(log)) /\ Decreasing(calls) /\ ToSet(calls) = OpenCalls(log, u, n - 1)
      /\ Len(calls) \in Nat /\ DOMAIN calls = 1 .. Len(calls)
      /\ \A i \in 1 .. Len(calls) : calls[i] \in Frames(log) /\ calls[i].frameBase \in Int
  <2>1. calls \in Seq(Frames(log)) /\ Decreasing(calls) /\ ToSet(calls) = OpenCalls(log, u, n - 1)
    BY <1>1 DEF Rebuilt
  <2>2. \A i \in 1 .. Len(calls) : calls[i] \in Frames(log)
    BY <2>1, ElementOfSeq
  <2>3. QED
    BY <2>1, <2>2, LenProperties DEF Frames
<1>3. AreFrames(Frames(log))
  BY DEF AreFrames, Frames
<1>4. call.frameBase = log[n].frameBase /\ call = [func |-> log[n].func, frameBase |-> log[n].frameBase]
  BY DEF CallOf
<1>5. \A t \in Thread :
        OpenCalls(log, t, n) =
          IF t = u /\ log[n].func # NoFunc /\ log[n].type = "Call"
          THEN OpenCalls(log, t, n - 1) \cup {call}
          ELSE IF t = u /\ log[n].func # NoFunc /\ log[n].type = "Ret"
          THEN OpenCalls(log, t, n - 1) \ {call}
          ELSE OpenCalls(log, t, n - 1)
  BY OpenCallsNext
<1>6. \A i \in 1 .. Len(calls) : calls[i] \in OpenCalls(log, u, n - 1)
  BY <1>2 DEF ToSet
<1>7. log[n].func # NoFunc =>
        /\ log[n].type = "Call" => \A c \in OpenCalls(log, u, n - 1) : c.frameBase > call.frameBase
        /\ log[n].type = "Ret" => /\ call \in OpenCalls(log, u, n - 1)
                                  /\ \A c \in OpenCalls(log, u, n - 1) \ {call} :
                                       c.frameBase > call.frameBase
  BY <1>4, NestedAssumption
<1> HIDE DEF call, calls, u
<1>8. CASE log[n].func # NoFunc /\ log[n].type = "Call"
  <2> DEFINE next == Push(calls, call)
  <2>1. /\ callStackGlobal' = [callStackGlobal EXCEPT ![u] = next]
        /\ failed' = failed
    BY <1>4, <1>8, SameStackOperators DEF Reader!Replay, u, calls, call
  <2>2. /\ next \in Seq(Frames(log)) /\ Decreasing(next) /\ Len(next) \in 1 .. Len(calls) + 1
        /\ next[Len(next)] = call
        /\ \A i \in 1 .. Len(next) - 1 : next[i] = calls[i]
        /\ \A i \in Len(next) .. Len(calls) : calls[i].frameBase <= call.frameBase
    <3>1. /\ calls \in Seq(Frames(log)) /\ AreFrames(Frames(log)) /\ call \in Frames(log)
          /\ Decreasing(calls)
      BY <1>1, <1>2, <1>3
    <3>2. /\ Push(calls, call) \in Seq(Frames(log)) /\ Decreasing(Push(calls, call))
          /\ Len(Push(calls, call)) \in 1 .. Len(calls) + 1
          /\ Push(calls, call)[Len(Push(calls, call))] = call
          /\ \A i \in 1 .. Len(Push(calls, call)) - 1 :
               Push(calls, call)[i] = calls[i] /\ calls[i].frameBase > call.frameBase
          /\ \A i \in Len(Push(calls, call)) .. Len(calls) : calls[i].frameBase <= call.frameBase
      BY <3>1, PushIs
    <3>3. QED
      BY <3>2
  <2> HIDE DEF next
  <2>3. \A i \in 1 .. Len(calls) : calls[i].frameBase > call.frameBase
    BY <1>6, <1>7, <1>8
  <2>4. Len(next) = Len(calls) + 1
    <3>1. SUFFICES ASSUME Len(next) # Len(calls) + 1 PROVE FALSE
      OBVIOUS
    <3>2. Len(calls) \in Len(next) .. Len(calls) /\ Len(calls) \in 1 .. Len(calls)
      BY <1>2, <2>2, <3>1
    <3>3. calls[Len(calls)].frameBase <= call.frameBase /\ calls[Len(calls)].frameBase > call.frameBase
      BY <2>2, <2>3, <3>2
    <3>4. QED
      BY <1>1, <1>2, <1>4, <3>2, <3>3
  <2>5. ToSet(next) = ToSet(calls) \cup {call}
    <3>1. DOMAIN next = 1 .. Len(calls) + 1
      BY <2>2, <2>4, LenProperties
    <3>2. /\ \A i \in 1 .. Len(calls) : next[i] = calls[i]
          /\ next[Len(calls) + 1] = call
      BY <1>2, <2>2, <2>4
    <3>3. 1 .. Len(calls) + 1 = (1 .. Len(calls)) \cup {Len(calls) + 1}
      BY <1>2
    <3>4. QED
      BY <1>2, <3>1, <3>2, <3>3 DEF ToSet
  <2>6. ASSUME NEW t \in Thread PROVE Rebuilt(log, t, callStackGlobal'[t], n)
    <3>1. CASE t = u
      <4>1. callStackGlobal'[t] = next
        BY <1>1, <2>1, <3>1
      <4>2. ToSet(next) = OpenCalls(log, t, n)
        BY <1>2, <1>5, <1>8, <2>5, <3>1
      <4>3. QED
        BY <2>2, <4>1, <4>2 DEF Rebuilt
    <3>2. CASE t # u
      <4>1. callStackGlobal'[t] = callStackGlobal[t] /\ OpenCalls(log, t, n) = OpenCalls(log, t, n - 1)
        BY <1>5, <2>1, <3>2
      <4>2. QED
        BY <4>1 DEF Rebuilt
    <3>3. QED
      BY <3>1, <3>2
  <2>7. QED
    BY <2>1, <2>6
<1>9. CASE log[n].func # NoFunc /\ log[n].type = "Ret"
  <2>1. \A i \in 1 .. Len(calls) : calls[i] = call \/ calls[i].frameBase > call.frameBase
    BY <1>6, <1>7, <1>9
  <2>2. PICK i \in 1 .. Len(calls) : calls[i] = call
    BY <1>2, <1>7, <1>9 DEF ToSet
  <2>3. i = Len(calls) /\ Len(calls) \in 1 .. Len(calls)
    <3>1. Len(calls) \in 1 .. Len(calls)
      BY <1>2, <2>2
    <3>2. i < Len(calls) => calls[i].frameBase > calls[Len(calls)].frameBase
      BY <1>2, <3>1 DEF Decreasing
    <3>3. ~(i < Len(calls))
      BY <1>2, <2>1, <2>2, <3>1, <3>2
    <3>4. i \in 1 .. Len(calls)
      BY <2>2
    <3>5. QED
      BY <1>2, <3>1, <3>3, <3>4
  <2>4. PopMatches(calls, call)
    BY <1>2, <2>2, <2>3 DEF PopMatches
  <2> DEFINE next == Pop(calls)
  <2>5. failed' = FALSE /\ callStackGlobal' = [callStackGlobal EXCEPT ![u] = next]
    <3>1. /\ failed' = ~Reader!PopMatches(calls, call)
          /\ callStackGlobal' = IF failed' THEN callStackGlobal
                                ELSE [callStackGlobal EXCEPT ![u] = Reader!Pop(calls)]
      BY <1>4, <1>9 DEF Reader!Replay, u, calls, call
    <3>2. failed' = FALSE
      BY <2>4, <3>1, SameStackOperators, Zenon
    <3>3. QED
      BY <3>1, <3>2, SameStackOperators
  <2>6. /\ next \in Seq(Frames(log)) /\ Len(next) = Len(calls) - 1
        /\ \A k \in 1 .. Len(calls) - 1 : next[k] = calls[k]
    <3>1. calls \in Seq(Frames(log)) /\ calls # <<>>
      BY <1>2, <2>3
    <3>2. QED
      BY <3>1, PopIs
  <2> HIDE DEF next
  <2>7. Decreasing(next)
    <3>1. SUFFICES ASSUME NEW j \in 1 .. Len(calls) - 1, NEW k \in 1 .. Len(calls) - 1, j < k
                   PROVE  next[j].frameBase > next[k].frameBase
      BY <2>6 DEF Decreasing
    <3>2. j \in 1 .. Len(calls) /\ k \in 1 .. Len(calls)
      BY <1>2
    <3>3. calls[j].frameBase > calls[k].frameBase
      BY <1>2, <3>1, <3>2 DEF Decreasing
    <3>4. next[j] = calls[j] /\ next[k] = calls[k]
      BY <2>6
    <3>5. QED
      BY <3>3, <3>4
  <2>8. ToSet(next) = ToSet(calls) \ {call}
    <3>1. DOMAIN next = 1 .. Len(calls) - 1
      BY <2>6, LenProperties
    <3>2. \A k \in 1 .. Len(calls) - 1 : calls[k] # call
      <4>1. SUFFICES ASSUME NEW k \in 1 .. Len(calls) - 1, calls[k] = call PROVE FALSE
        OBVIOUS
      <4>2. calls[k].frameBase > calls[Len(calls)].frameBase
        BY <1>2, <2>3 DEF Decreasing
      <4>3. QED
        BY <1>1, <1>4, <2>2, <2>3, <4>1, <4>2
    <3>3. 1 .. Len(calls) = (1 .. Len(calls) - 1) \cup {Len(calls)}
      BY <1>2, <2>3
    <3>4. calls[Len(calls)] = call
      BY <2>2, <2>3
    <3>5. QED
      BY <1>2, <2>6, <3>1, <3>2, <3>3, <3>4 DEF ToSet
  <2>9. ASSUME NEW t \in Thread PROVE Rebuilt(log, t, callStackGlobal'[t], n)
    <3>1. CASE t = u
      <4>1. callStackGlobal'[t] = next
        BY <1>1, <2>5, <3>1
      <4>2. ToSet(next) = OpenCalls(log, t, n)
        BY <1>2, <1>5, <1>9, <2>8, <3>1
      <4>3. QED
        BY <2>6, <2>7, <4>1, <4>2 DEF Rebuilt
    <3>2. CASE t # u
      <4>1. callStackGlobal'[t] = callStackGlobal[t] /\ OpenCalls(log, t, n) = OpenCalls(log, t, n - 1)
        BY <1>5, <2>5, <3>2
      <4>2. QED
        BY <4>1 DEF Rebuilt
    <3>3. QED
      BY <3>1, <3>2
  <2>10. QED
    BY <2>5, <2>9
<1>10. CASE ~(log[n].func # NoFunc /\ log[n].type \in {"Call", "Ret"})
  <2>1. callStackGlobal' = callStackGlobal /\ failed' = failed
    BY <1>10 DEF Reader!Replay
  <2>2. \A t \in Thread : OpenCalls(log, t, n) = OpenCalls(log, t, n - 1)
    BY <1>5, <1>10
  <2>3. QED
    BY <2>1, <2>2 DEF Rebuilt
<1>11. QED
  BY <1>8, <1>9, <1>10

\* How many threads are counted when the first m events were seen.
Counted(l, m, total) == /\ \A i \in 1 .. m : l[i].threadId < total
                        /\ total = 0 \/ \E i \in 1 .. m : l[i].threadId + 1 = total

\* As long as no read was short the stacks are those of the run at the cursor.
Replayed ==
    ~shortRead =>
        /\ failed = FALSE
        /\ \A t \in Thread : Rebuilt(log, t, callStackGlobal[t], iterIndex)
        /\ Counted(log, IF mode = "post" THEN iterIndex ELSE Len(log), totalThreads)

LEMMA NothingReplayed ==
    ASSUME log \in Logs, NEW t \in Thread PROVE Rebuilt(log, t, <<>>, 0)
<1>1. OpenCalls(log, t, 0) = {}
  BY DEF OpenCalls
<1>2. ToSet(<<>>) = {}
  BY DEF ToSet
<1>3. <<>> \in Seq(Frames(log)) /\ Len(<<>>) = 0
  OBVIOUS
<1>4. Decreasing(<<>>)
  BY <1>3 DEF Decreasing
<1>5. QED
  BY <1>1, <1>2, <1>3, <1>4 DEF Rebuilt

LEMMA ReplayedStep == IInv /\ IInv' /\ Replayed /\ [Next]_vars => Replayed'
<1> SUFFICES ASSUME IInv, IInv', Replayed, [Next]_vars, ~shortRead'
             PROVE  Replayed'
  BY DEF Replayed
<1>1. log' = log /\ log \in Logs /\ Len(log) \in Nat
  BY LogsAssumption, LenProperties DEF Next, Write, Read, vars, IInv
<1>2. CASE UNCHANGED readerVars
  BY <1>1, <1>2 DEF readerVars, Replayed
<1>3. CASE Read
  <2>1. Reading /\ handed # NotHandedOver
    BY <1>3 DEF IInv, Recording, Reader!Init, Read, PostProcess, Query
  <2>2. UNCHANGED <<log, writerVars>>
    BY <1>3, ReadCases
  <2>3. iterIndex \in Nat /\ iterIndex <= Len(log) /\ DOMAIN callStackGlobal = Thread
        /\ totalThreads \in Nat
    BY <1>1, <2>1, ReadingFacts DEF Reading, ReaderTyped
  <2>4. CASE Reader!DumpChunk \/ Reader!LoadChunk
    <3>1. /\ UNCHANGED <<iterIndex, callStackGlobal, totalThreads, failed, mode>>
      BY <2>4 DEF Reader!DumpChunk, Reader!LoadChunk, Reader!tables
    <3>2. ~shortRead
      BY <2>4, Zenon DEF Reader!DumpChunk, Reader!LoadChunk
    <3>3. QED
      BY <1>1, <3>1, <3>2 DEF Replayed
  <2>5. CASE Reader!NextEvent(mode = "post")
    <3>1. /\ iterIndex < Len(log) /\ iterIndex' = iterIndex + 1
          /\ mode \in {"post", "query"} /\ mode' = mode /\ shortRead' = shortRead
          /\ \A i \in Trusted : i = iterIndex + 1 => Current = log[i]
          /\ ~failed /\ Reader!Replay(Current) /\ Reader!CountThread(Current)
      BY <1>1, <2>1, <2>2, <2>5, Visited
    <3>2. /\ failed = FALSE /\ \A t \in Thread : Rebuilt(log, t, callStackGlobal[t], iterIndex)
          /\ Counted(log, IF mode = "post" THEN iterIndex ELSE Len(log), totalThreads)
      BY <3>1 DEF Replayed
    <3> DEFINE n == iterIndex + 1
    <3>3. n \in 1 .. Len(log) /\ n \in Trusted /\ n - 1 = iterIndex
      BY <1>1, <2>3, <3>1 DEF Trusted
    <3>4. Current = log[n]
      BY <3>1, <3>3
    <3>5. failed' = FALSE /\ \A t \in Thread : Rebuilt(log, t, callStackGlobal'[t], n)
      <4>1. Reader!Replay(log[n])
        BY <3>1, <3>4
      <4>2. \A t \in Thread : Rebuilt(log, t, callStackGlobal[t], n - 1)
        BY <3>2, <3>3
      <4> HIDE DEF n
      <4>3. QED
        BY <1>1, <2>3, <3>2, <3>3, <4>1, <4>2, ReplayRebuilds
    <3>6. Counted(log, IF mode' = "post" THEN n ELSE Len(log), totalThreads')
      <4> DEFINE id == log[n].threadId
                 m == IF mode = "post" THEN n ELSE Len(log)
                 old == IF mode = "post" THEN iterIndex ELSE Len(log)
      <4>1. id \in Nat
        BY <1>1, <3>3, LogsAssumption, ChunkSize
      <4>2. totalThreads' = (IF totalThreads - 1 >= id THEN totalThreads - 1 ELSE id) + 1
        <5>1. totalThreads' = Reader!Max({totalThreads - 1, id}) + 1
          BY <3>1, <3>4 DEF Reader!CountThread
        <5>2. totalThreads - 1 \in Int /\ id \in Int
          BY <2>3, <4>1
        <5> HIDE DEF id
        <5>3. QED
          BY <5>1, <5>2, ReaderMax
      <4>3. /\ totalThreads' >= totalThreads /\ id < totalThreads'
            /\ totalThreads' = totalThreads \/ totalThreads' = id + 1
            /\ totalThreads' \in Nat
        <5> HIDE DEF id
        <5>1. QED
          BY <2>3, <4>1, <4>2
      <4>4. /\ \A i \in 1 .. old : log[i].threadId < totalThreads
            /\ totalThreads = 0 \/ \E i \in 1 .. old : log[i].threadId + 1 = totalThreads
        BY <3>2 DEF Counted
      <4>5. /\ \A i \in 1 .. m : i \in 1 .. Len(log) /\ (i \in 1 .. old \/ i = n)
            /\ \A i \in 1 .. old : i \in 1 .. m
            /\ n \in 1 .. m
        BY <1>1, <2>3, <3>1, <3>3
      <4>6. \A i \in 1 .. Len(log) : log[i].threadId \in Nat
        BY <1>1, LogsAssumption, ChunkSize
      <4> HIDE DEF m, old
      <4>7. \A i \in 1 .. m : log[i].threadId < totalThreads'
        BY <2>3, <4>3, <4>4, <4>5, <4>6
      <4>8. totalThreads' = 0 \/ \E i \in 1 .. m : log[i].threadId + 1 = totalThreads'
        BY <4>3, <4>4, <4>5
      <4>9. (IF mode' = "post" THEN n ELSE Len(log)) = m
        BY <3>1 DEF m
      <4>10. QED
        BY <4>7, <4>8, <4>9 DEF Counted
    <3>7. QED
      BY <1>1, <3>1, <3>5, <3>6 DEF Replayed
  <2>6. CASE Reader!PostProcessed
    <3>1. /\ UNCHANGED <<iterIndex, callStackGlobal, totalThreads, failed, shortRead>>
          /\ mode = "post" /\ mode' = "saved" /\ iterIndex = Len(log)
      BY <1>1, <2>1, <2>6, AtEnd DEF Reader!PostProcessed, Reader!tables
    <3>2. QED
      BY <1>1, <3>1 DEF Replayed
  <2>7. CASE Reader!QueryLoads \/ Reader!NextPass
    <3>1. /\ iterIndex' = 0 /\ callStackGlobal' = Reader!NoCalls
          /\ mode # "post" /\ mode' # "post"
          /\ UNCHANGED <<totalThreads, failed, shortRead>>
      BY <2>7 DEF Reader!QueryLoads, Reader!NextPass, Reader!Reset
    <3>2. \A t \in Thread : callStackGlobal'[t] = <<>>
      BY <3>1 DEF Reader!NoCalls
    <3>3. \A t \in Thread : Rebuilt(log, t, callStackGlobal'[t], 0)
      BY <1>1, <3>2, NothingReplayed
    <3>4. QED
      BY <1>1, <3>1, <3>3 DEF Replayed
  <2>8. QED
    BY <1>3, <2>4, <2>5, <2>6, <2>7, ReadCases
<1>4. QED
  BY <1>2, <1>3 DEF Next, Write, vars

\* Whatever the chunks: at each event of a pass the stacks hold the calls that had
\* not returned when it was recorded, and the threads are counted once and for all.
THEOREM Stacks == Spec => []StacksAreOfThisPass
<1>1. Init => Replayed
  <2> SUFFICES ASSUME Init PROVE Replayed
    OBVIOUS
  <2>1. log \in Logs /\ Reader!Init
    BY DEF Init
  <2>2. /\ iterIndex = 0 /\ mode = "post" /\ totalThreads = 0 /\ failed = FALSE
        /\ \A t \in Thread : callStackGlobal[t] = <<>>
    BY <2>1 DEF Reader!Init, Reader!NoCalls
  <2>3. QED
    BY <2>1, <2>2, NothingReplayed DEF Replayed, Counted
<1>2. IInv /\ Replayed => StacksAreOfThisPass
  <2> SUFFICES ASSUME IInv, Replayed, ~shortRead PROVE StacksAreOfThisPass
    BY DEF StacksAreOfThisPass, ThreadsAreCounted
  <2>1. \A t \in Thread : ToSet(callStackGlobal[t]) = OpenCalls(log, t, iterIndex)
    BY DEF Replayed, Rebuilt
  <2>2. ASSUME mode # "post"
        PROVE  totalThreads = Max({0} \cup {log[i].threadId + 1 : i \in 1 .. Len(log)})
    <3> DEFINE ids == {log[i].threadId + 1 : i \in 1 .. Len(log)}
    <3>1. /\ \A i \in 1 .. Len(log) : log[i].threadId < totalThreads
          /\ totalThreads = 0 \/ \E i \in 1 .. Len(log) : log[i].threadId + 1 = totalThreads
      BY <2>2 DEF Replayed, Counted
    <3>2. /\ totalThreads \in Nat
          /\ \A i \in 1 .. Len(log) : log[i].threadId \in Nat
      BY <2>2, LogsAssumption, ChunkSize DEF IInv, Recording, Reader!Init, Reading, ReaderTyped
    <3>3. /\ totalThreads \in {0} \cup ids
          /\ \A x \in {0} \cup ids : x \in Nat /\ totalThreads >= x
      BY <3>1, <3>2
    <3> HIDE DEF ids
    <3>4. \A x \in {0} \cup ids : (\A y \in {0} \cup ids : x >= y) => x = totalThreads
      BY <3>2, <3>3
    <3>5. Max({0} \cup ids) = totalThreads
      BY <3>3, <3>4 DEF Max
    <3>6. QED
      BY <3>5 DEF ids
  <2>3. failed = FALSE
    BY DEF Replayed
  <2>4. QED
    BY <2>1, <2>2, <2>3 DEF StacksAreOfThisPass, ThreadsAreCounted
<1>3. Spec => []Replayed
  BY <1>1, ReplayedStep, Invariant, PTL DEF Spec
<1>4. QED
  BY <1>2, <1>3, Invariant, PTL

=============================================================================
