------------------------ MODULE PinEventDumper_proofs ------------------------
(***************************************************************************)
(* What holds of the event dumper for every block size, stream buffer and  *)
(* set of events: the hand-over of pEventsSave has one owner at a time, no *)
(* event is lost on its way to the file, and the dumper implements         *)
(* EventLog.                                                               *)
(***************************************************************************)
EXTENDS PinEventDumper, SequenceTheorems, TLAPS

(***************************************************************************)
(* The inductive invariant, in parts.                                      *)
(***************************************************************************)

\* The token: what BlockHasOneOwner needs of the steps around it.
Handshake ==
    /\ BlockHasOneOwner
    /\ cpc # "exited" =>
         /\ spc \in {"write", "count", "empty", "set"} => ~filled
         /\ cpc \in {"clearSaved", "finClear", "done", "destroyed"} => saved

\* handed is set by finalize, and exit(0) ends the saver.
Phases ==
    /\ handed # NotHandedOver <=> cpc \in {"done", "destroyed", "exited"}
    /\ cpc = "exited" => spc \in {"returned", "killed"}

\* Where each of the three buffers is empty, and how long the blocks get.
Buffers ==
    /\ cpc # "exited" =>
         (saved \/ cpc \in {"swap", "finSwap"} \/ spc = "set" => pEventsSave = <<>>)
    /\ cpc \in {"setFilled", "finFinish", "finFill", "finWaitLast", "done", "destroyed"} =>
         pEventsMain = <<>>
    /\ spc \in {"wait", "clear", "write", "returned", "killed"} => stream = <<>>
    /\ Len(stream) < StreamBuf
    /\ Len(pEventsMain) <= EventBlockSize + 1
    /\ cpc = "idle" => Len(pEventsMain) <= EventBlockSize
    /\ Len(pEventsSave) <= EventBlockSize + 1

\* totalEvents counts what was written, while that fits an int.
Written == Len(file) + Len(stream)
Counts ==
    cpc # "exited" /\ Written < IntLimit =>
        totalEvents = Written - (IF spc = "count" THEN Len(pEventsSave) ELSE 0)

IInv == TypeOK /\ Handshake /\ Phases /\ Buffers /\ NothingLost /\ Counts /\ HandedOverComplete
-----------------------------------------------------------------------------
(***************************************************************************)
(* Each part is preserved, one action at a time.                           *)
(***************************************************************************)

\* The state the constructor leaves satisfies every part.
LEMMA InitIInv == Init => IInv
  <1> SUFFICES ASSUME Init PROVE IInv
    OBVIOUS
  <1> USE BlockAssumption, IntAssumption, NoneAssumption DEF Init
  <1>1. TypeOK
    <2>1. saved \in BOOLEAN /\ filled \in BOOLEAN /\ finished \in BOOLEAN
      BY Zenon
    <2>2. cpc \in CallerPC /\ spc \in SaverPC
      BY DEF CallerPC, SaverPC
    <2>3. totalEvents \in -IntLimit .. IntLimit - 1
      OBVIOUS
    <2> QED
      BY <2>1, <2>2, <2>3 DEF TypeOK
  <1>2. Handshake /\ Phases /\ Buffers
    BY DEF Handshake, BlockHasOneOwner, CallerOwns, SaverOwns, Phases, Buffers
  <1>3. NothingLost
    BY DEF NothingLost, Unwritten
  <1>4. Counts /\ HandedOverComplete
    BY DEF Counts, Written, HandedOverComplete
  <1> QED
    BY <1>1, <1>2, <1>3, <1>4 DEF IInv

\* Every step of the caller and the saver passes the token on or leaves it.
LEMMA HandshakeStep == IInv /\ [Next]_vars => Handshake' /\ Phases'
  <1> SUFFICES ASSUME IInv, [Next]_vars PROVE Handshake' /\ Phases'
    OBVIOUS
  <1> USE NoneAssumption DEF IInv, Handshake, BlockHasOneOwner, CallerOwns, SaverOwns, Phases, 
                             callerVars, saverVars
  <1>1. ASSUME NEW e \in Event, AddEvent(e) PROVE Handshake' /\ Phases'
    BY <1>1 DEF AddEvent
  <1>2. CASE HandBlockOver
    BY <1>2 DEF HandBlockOver, WaitSaved, ClearSaved, Swap, SetFilled
  <1>3. CASE Finalize
    BY <1>3 DEF Finalize
  <1>4. CASE FinalizeSteps
    <2>1. CASE ReturnEventManager
      BY <2>1, IntAssumption DEF ReturnEventManager, TypeOK
    <2>2. CASE ~ReturnEventManager
      BY <1>4, <2>2 DEF FinalizeSteps, WaitSaved, ClearSaved, Swap, SetFilled, SetFinished
    <2> QED
      BY <2>1, <2>2
  <1>5. CASE Destroy
    BY <1>5 DEF Destroy
  <1>6. CASE ProcessExit
    BY <1>6 DEF ProcessExit
  <1>7. CASE Saver
    BY <1>7 DEF Saver, SaverWaitFilled, SaverClearFilled, SaverWrite, SaverCount, SaverEmpty,
                SaverSetSaved, SaverCheck, SaverClose
  <1>8. CASE UNCHANGED vars
    BY <1>8 DEF vars
  <1> QED
    BY <1>1, <1>2, <1>3, <1>4, <1>5, <1>6, <1>7, <1>8 DEF Next, Caller

\* The sum wraps into an int; everything else is moved, never changed.
LEMMA TypeStep == IInv /\ [Next]_vars => TypeOK'
  <1> SUFFICES ASSUME IInv, [Next]_vars PROVE TypeOK'
    OBVIOUS
  <1> USE BlockAssumption, IntAssumption, NoneAssumption
      DEF IInv, TypeOK, CallerPC, SaverPC, callerVars, saverVars
  <1>1. ASSUME NEW e \in Event, AddEvent(e) PROVE TypeOK'
    BY <1>1 DEF AddEvent
  <1>2. CASE HandBlockOver
    BY <1>2 DEF HandBlockOver, WaitSaved, ClearSaved, Swap, SetFilled
  <1>3. CASE Finalize
    BY <1>3 DEF Finalize
  <1>4. CASE FinalizeSteps
    BY <1>4 DEF FinalizeSteps, WaitSaved, ClearSaved, Swap, SetFilled, SetFinished,
                ReturnEventManager
  <1>5. CASE Destroy
    BY <1>5 DEF Destroy
  <1>6. CASE ProcessExit
    BY <1>6 DEF ProcessExit
  <1>7. CASE Saver
    <2>1. CASE SaverWrite
      <3>1. file \o pEventsSave \in Seq(Event)
        BY ConcatProperties
      <3>2. file' \in Seq(Event) /\ stream' \in Seq(Event)
        BY <2>1, <3>1 DEF SaverWrite
      <3> QED
        BY <2>1, <3>2 DEF SaverWrite
    <2>2. CASE SaverCount
      <3>1. Len(pEventsSave) \in 0 .. IntLimit - 1
        BY DEF Buffers
      <3>2. AsInt(totalEvents + Len(pEventsSave)) \in -IntLimit .. IntLimit - 1
        BY <3>1 DEF AsInt
      <3> QED
        BY <2>2, <3>2 DEF SaverCount
    <2>3. CASE SaverClose
      BY <2>3 DEF SaverClose
    <2>4. CASE SaverCheck
      BY <2>4 DEF SaverCheck
    <2>5. CASE SaverWaitFilled
      BY <2>5 DEF SaverWaitFilled
    <2>6. CASE SaverClearFilled
      BY <2>6 DEF SaverClearFilled
    <2>7. CASE SaverEmpty
      BY <2>7 DEF SaverEmpty
    <2>8. CASE SaverSetSaved
      BY <2>8 DEF SaverSetSaved
    <2> QED
      BY <1>7, <2>1, <2>2, <2>3, <2>4, <2>5, <2>6, <2>7, <2>8 DEF Saver
  <1>8. CASE UNCHANGED vars
    BY <1>8 DEF vars
  <1> QED
    BY <1>1, <1>2, <1>3, <1>4, <1>5, <1>6, <1>7, <1>8 DEF Next, Caller

\* A block is empty when it is swapped back, and the stream when a block begins.
LEMMA BuffersStep == IInv /\ [Next]_vars => Buffers'
  <1> SUFFICES ASSUME IInv, [Next]_vars PROVE Buffers'
    OBVIOUS
  <1> USE BlockAssumption DEF IInv, Buffers, callerVars, saverVars
  <1>1. ASSUME NEW e \in Event, AddEvent(e) PROVE Buffers'
    BY <1>1 DEF AddEvent, TypeOK
  <1>2. CASE HandBlockOver
    BY <1>2, SMTT(30) DEF HandBlockOver, WaitSaved, ClearSaved, Swap, SetFilled, TypeOK,
                Handshake, BlockHasOneOwner, CallerOwns, SaverOwns
  <1>3. CASE Finalize
    BY <1>3 DEF Finalize
  <1>4. CASE FinalizeSteps
    BY <1>4, SMTT(30) DEF FinalizeSteps, WaitSaved, ClearSaved, Swap, SetFilled, SetFinished,
                ReturnEventManager, TypeOK,
                Handshake, BlockHasOneOwner, CallerOwns, SaverOwns
  <1>5. CASE Destroy
    BY <1>5 DEF Destroy
  <1>6. CASE ProcessExit
    BY <1>6 DEF ProcessExit
  <1>7. CASE Saver
    BY <1>7, SMTT(30) DEF Saver, SaverWaitFilled, SaverClearFilled, SaverWrite, SaverCount, SaverEmpty,
                SaverSetSaved, SaverCheck, SaverClose, TypeOK,
                Handshake, BlockHasOneOwner, CallerOwns, SaverOwns
  <1>8. CASE UNCHANGED vars
    BY <1>8 DEF vars
  <1> QED
    BY <1>1, <1>2, <1>3, <1>4, <1>5, <1>6, <1>7, <1>8 DEF Next, Caller

\* Recording an event appends it to what is stored and to be stored.
LEMMA AppendOfConcat ==
  \A s, t \in Seq(Event) : \A e \in Event : Append(s \o t, e) = s \o Append(t, e)
  <1> SUFFICES ASSUME NEW s \in Seq(Event), NEW t \in Seq(Event), NEW e \in Event
               PROVE  Append(s \o t, e) = s \o Append(t, e)
    OBVIOUS
  <1>1. <<e>> \in Seq(Event) /\ s \o t \in Seq(Event)
    BY ConcatProperties
  <1>2. (s \o t) \o <<e>> = s \o (t \o <<e>>)
    BY <1>1, ConcatAssociative
  <1>3. Append(t, e) = t \o <<e>> /\ Append(s \o t, e) = (s \o t) \o <<e>>
    BY <1>1, AppendIsConcat
  <1> QED
    BY <1>2, <1>3

\* Moving a boundary between two neighbouring buffers changes nothing.
LEMMA ConcatAssoc == \A s, t, u \in Seq(Event) : s \o t \o u = s \o (t \o u)
  BY ConcatAssociative

\* Once the last block is written nothing is left in the vectors.
LEMMA AllWritten ==
  IInv /\ saved /\ cpc \in {"finWaitLast", "done", "destroyed"} => recorded = file \o stream
  <1> SUFFICES ASSUME IInv, saved, cpc \in {"finWaitLast", "done", "destroyed"}
               PROVE  recorded = file \o stream
    OBVIOUS
  <1>1. pEventsMain = <<>> /\ Unwritten = <<>>
    BY DEF IInv, Handshake, BlockHasOneOwner, SaverOwns, Buffers, Unwritten
  <1>2. file \o stream \in Seq(Event)
    BY ConcatProperties DEF IInv, TypeOK
  <1> QED
    BY <1>1, <1>2, ConcatEmptySeq DEF IInv, NothingLost

\* Each step moves events from one buffer to the next, in order.
LEMMA NothingLostStep == IInv /\ [Next]_vars => NothingLost'
  <1> SUFFICES ASSUME IInv, [Next]_vars, cpc' # "exited" PROVE NothingLost'
    BY DEF NothingLost
  <1> DEFINE AllEvents == file \o stream \o Unwritten \o pEventsMain
  <1>0. cpc # "exited" /\ recorded = AllEvents
    BY DEF IInv, NothingLost, Phases, Next, Caller, AddEvent, HandBlockOver, WaitSaved, ClearSaved,
           Swap, SetFilled, Finalize, FinalizeSteps, SetFinished, ReturnEventManager, Destroy,
           ProcessExit, Saver, SaverWaitFilled, SaverClearFilled, SaverWrite, SaverCount, SaverEmpty,
           SaverSetSaved, SaverCheck, SaverClose, vars, callerVars, saverVars
  <1> SUFFICES recorded' = AllEvents'
    BY DEF NothingLost
  <1>T. /\ pEventsMain \in Seq(Event) /\ pEventsSave \in Seq(Event) /\ Unwritten \in Seq(Event)
        /\ file \in Seq(Event) /\ stream \in Seq(Event) /\ recorded \in Seq(Event)
    BY DEF IInv, TypeOK, Unwritten
  <1>P. file \o stream \in Seq(Event) /\ file \o stream \o Unwritten \in Seq(Event)
    BY <1>T, ConcatProperties
  <1>1. ASSUME NEW e \in Event, AddEvent(e) PROVE recorded' = AllEvents'
    <2>1. /\ pEventsMain' = Append(pEventsMain, e)
          /\ recorded' = Append(recorded, e)
          /\ UNCHANGED <<file, stream, Unwritten>>
      BY <1>1 DEF AddEvent, saverVars, Unwritten
    <2> DEFINE Before == file \o stream \o Unwritten
    <2>2. Before \in Seq(Event) /\ recorded = Before \o pEventsMain
      BY <1>0, <1>P
    <2>3. Append(Before \o pEventsMain, e) = Before \o Append(pEventsMain, e)
      BY <1>T, <2>2, AppendOfConcat
    <2>4. AllEvents' = Before \o Append(pEventsMain, e)
      BY <2>1
    <2> QED
      BY <2>1, <2>2, <2>3, <2>4
  <1>2. ASSUME NEW from, NEW to, Swap(from, to), from \in {"swap", "finSwap"}
        PROVE recorded' = AllEvents'
    <2>1. /\ pEventsSave = <<>> /\ spc \notin {"count", "empty"}
      BY <1>0, <1>2 DEF Swap, IInv, Buffers, Handshake, BlockHasOneOwner, CallerOwns, SaverOwns
    <2>2. /\ Unwritten = <<>> /\ Unwritten' = pEventsMain /\ pEventsMain' = <<>>
          /\ UNCHANGED <<file, stream, recorded>>
      BY <1>2, <2>1 DEF Swap, saverVars, Unwritten
    <2> QED
      BY <1>0, <1>T, <1>P, <2>2, ConcatEmptySeq, ConcatProperties
  <1>3. CASE SaverWrite
    <2>1. stream = <<>> /\ Unwritten = pEventsSave /\ Unwritten' = <<>>
      BY <1>3 DEF SaverWrite, IInv, Buffers, Unwritten
    <2>2. UNCHANGED <<recorded, pEventsMain>>
      BY <1>3 DEF SaverWrite, callerVars
    <2>3. CASE Len(pEventsSave) >= StreamBuf
      <3>1. file' = file \o pEventsSave /\ stream' = <<>>
        BY <1>3, <2>1, <2>3 DEF SaverWrite
      <3> QED
        BY <1>0, <1>T, <1>P, <2>1, <2>2, <3>1, ConcatEmptySeq, ConcatProperties
    <2>4. CASE ~(Len(pEventsSave) >= StreamBuf)
      <3>1. file' = file /\ stream' = pEventsSave
        BY <1>3, <2>4 DEF SaverWrite
      <3> QED
        BY <1>0, <1>T, <1>P, <2>1, <2>2, <3>1, ConcatEmptySeq, ConcatProperties
    <2> QED
      BY <2>3, <2>4
  <1>4. CASE SaverClose
    <2>1. /\ file' = file \o stream /\ stream' = <<>>
          /\ UNCHANGED <<recorded, pEventsMain, Unwritten>>
      BY <1>4 DEF SaverClose, callerVars, Unwritten
    <2> QED
      BY <1>0, <1>T, <1>P, <2>1, ConcatEmptySeq
  <1>5. CASE SaverEmpty
    <2>1. UNCHANGED <<recorded, file, stream, pEventsMain, Unwritten>>
      BY <1>5 DEF SaverEmpty, callerVars, Unwritten
    <2> QED
      BY <1>0, <2>1
  <1>6. CASE SaverSetSaved \/ SaverCount \/ SaverWaitFilled \/ SaverClearFilled \/ SaverCheck
    <2>1. UNCHANGED <<recorded, file, stream, pEventsMain, Unwritten>>
      BY <1>6 DEF SaverSetSaved, SaverCount, SaverWaitFilled, SaverClearFilled, SaverCheck,
                  callerVars, Unwritten
    <2> QED
      BY <1>0, <2>1
  <1>7. CASE \/ UNCHANGED vars \/ Finalize \/ SetFinished \/ ReturnEventManager \/ Destroy
             \/ \E from, to \in CallerPC : WaitSaved(from, to) \/ ClearSaved(from, to)
                                           \/ SetFilled(from, to)
    <2>1. UNCHANGED <<recorded, file, stream, pEventsMain, Unwritten>>
      BY <1>7 DEF vars, Finalize, SetFinished, ReturnEventManager, Destroy, WaitSaved, ClearSaved,
                  SetFilled, saverVars, Unwritten
    <2> QED
      BY <1>0, <2>1
  <1>8. ~ProcessExit
    BY DEF ProcessExit
  <1> QED
    BY <1>1, <1>2, <1>3, <1>4, <1>5, <1>6, <1>7, <1>8
    DEF Next, Caller, HandBlockOver, FinalizeSteps, Saver, CallerPC

\* totalEvents changes only with the block that is counted.
LEMMA CountsStep == IInv /\ [Next]_vars => Counts'
  <1> SUFFICES ASSUME IInv, [Next]_vars PROVE Counts'
    OBVIOUS
  <1> USE DEF Counts, Written
  <1>T. /\ Len(pEventsSave) \in Nat /\ Len(file) \in Nat /\ Len(stream) \in Nat
        /\ totalEvents \in Int
    BY DEF IInv, TypeOK
  <1>1. ASSUME NEW e \in Event, AddEvent(e) PROVE Counts'
    BY <1>1 DEF AddEvent, IInv, saverVars
  <1>2. CASE HandBlockOver
    BY <1>2 DEF HandBlockOver, WaitSaved, ClearSaved, Swap, SetFilled, IInv, saverVars,
                Handshake, BlockHasOneOwner, CallerOwns, SaverOwns
  <1>3. CASE Finalize
    BY <1>3 DEF Finalize, IInv, saverVars
  <1>4. CASE FinalizeSteps
    BY <1>4 DEF FinalizeSteps, WaitSaved, ClearSaved, Swap, SetFilled, SetFinished,
                ReturnEventManager, IInv, saverVars,
                Handshake, BlockHasOneOwner, CallerOwns, SaverOwns
  <1>5. CASE Destroy
    BY <1>5 DEF Destroy, IInv, saverVars
  <1>6. CASE ProcessExit
    BY <1>6 DEF ProcessExit
  <1>7. CASE SaverWrite
    <2>1. stream = <<>> /\ Len(stream) = 0
      BY <1>7 DEF SaverWrite, IInv, Buffers
    <2>2. Len(file \o pEventsSave) = Len(file) + Len(pEventsSave)
      BY ConcatProperties DEF IInv, TypeOK
    <2>3. Written' = Written + Len(pEventsSave)
      BY <1>7, <2>1, <2>2, <1>T DEF SaverWrite
    <2> QED
      BY <1>7, <2>3, <1>T, IntAssumption, SMTT(30) DEF SaverWrite, IInv, callerVars
  <1>8. CASE SaverCount
    BY <1>8, <1>T, IntAssumption DEF SaverCount, IInv, AsInt, callerVars
  <1>9. CASE SaverClose
    <2>1. Len(file \o stream) = Len(file) + Len(stream)
      BY ConcatProperties DEF IInv, TypeOK
    <2>2. Written' = Written
      BY <1>9, <2>1, <1>T DEF SaverClose
    <2> QED
      BY <1>9, <2>2, <1>T DEF SaverClose, IInv, callerVars
  <1>10. CASE SaverWaitFilled \/ SaverClearFilled \/ SaverEmpty \/ SaverSetSaved \/ SaverCheck
    BY <1>10 DEF SaverWaitFilled, SaverClearFilled, SaverEmpty, SaverSetSaved, SaverCheck,
                 IInv, callerVars
  <1>11. CASE UNCHANGED vars
    BY <1>11 DEF vars, IInv
  <1> QED
    BY <1>1, <1>2, <1>3, <1>4, <1>5, <1>6, <1>7, <1>8, <1>9, <1>10, <1>11 DEF Next, Caller, Saver

\* A sequence is a prefix of its concatenation with another one.
LEMMA PrefixOfConcat ==
  \A s, t \in Seq(Event) : /\ IsPrefix(s, s \o t)
                           /\ s = SubSeq(s \o t, 1, Len(s))
                           /\ Len(s \o t) = Len(s) + Len(t)
  <1> SUFFICES ASSUME NEW s \in Seq(Event), NEW t \in Seq(Event)
               PROVE  /\ IsPrefix(s, s \o t)
                      /\ s = SubSeq(s \o t, 1, Len(s))
                      /\ Len(s \o t) = Len(s) + Len(t)
    OBVIOUS
  <1>1. /\ s \o t \in Seq(Event) /\ Len(s \o t) = Len(s) + Len(t)
        /\ \A i \in 1 .. Len(s) : (s \o t)[i] = s[i]
    BY ConcatProperties
  <1>2. s = SubSeq(s \o t, 1, Len(s))
    BY <1>1
  <1>3. IsPrefix(s, s \o t)
    BY <1>1, <1>2 DEF IsPrefix
  <1> QED
    BY <1>1, <1>2, <1>3

\* What finalize returns is fixed when it returns; the file only grows then.
LEMMA HandedOverStep == IInv /\ [Next]_vars => HandedOverComplete'
  <1> SUFFICES ASSUME IInv, [Next]_vars, handed' # NotHandedOver PROVE HandedOverComplete'
    BY DEF HandedOverComplete
  <1>T. /\ file \in Seq(Event) /\ stream \in Seq(Event) /\ recorded \in Seq(Event)
        /\ Len(file) \in Nat /\ Len(stream) \in Nat /\ Len(recorded) \in Nat
        /\ Len(stream) < StreamBuf
    BY DEF IInv, TypeOK, Buffers
  <1>1. CASE ReturnEventManager
    <2>1. /\ cpc = "finWaitLast" /\ saved /\ cpc' = "done" /\ handed' = totalEvents
          /\ UNCHANGED <<file, stream, recorded>>
      BY <1>1 DEF ReturnEventManager, saverVars
    <2>2. recorded = file \o stream
      BY <2>1, AllWritten
    <2>3. IsPrefix(file, recorded) /\ Len(recorded) = Written
      BY <1>T, <2>2, PrefixOfConcat DEF Written
    <2>4. spc # "count"
      BY <2>1 DEF IInv, Handshake, BlockHasOneOwner, SaverOwns
    <2>5. Written < IntLimit => totalEvents = Written
      BY <1>T, <2>1, <2>4 DEF IInv, Counts, TypeOK, Written
    <2> QED
      BY <1>T, <2>1, <2>2, <2>3, <2>5 DEF HandedOverComplete, Written
  <1>2. CASE ProcessExit
    <2>1. handed # NotHandedOver /\ UNCHANGED <<handed, recorded, file>> /\ cpc' = "exited"
      BY <1>2 DEF ProcessExit, IInv, Phases
    <2> QED
      BY <2>1 DEF IInv, HandedOverComplete
  <1>3. CASE SaverClose
    <2>1. handed # NotHandedOver /\ UNCHANGED <<handed, recorded>>
          /\ file' = file \o stream /\ stream' = <<>>
      BY <1>3 DEF SaverClose, callerVars
    <2>2. cpc # "exited" /\ cpc' # "exited"
      BY <1>3 DEF SaverClose, callerVars, IInv, Phases
    <2>3. recorded = file \o stream
      BY <2>1, <2>2 DEF IInv, HandedOverComplete
    <2>4. IsPrefix(recorded, recorded) /\ recorded \o <<>> = recorded
      BY <1>T, ConcatEmptySeq DEF IsPrefix
    <2> QED
      BY <1>T, <2>1, <2>2, <2>3, <2>4, BlockAssumption DEF IInv, HandedOverComplete
  <1>4. CASE ~ReturnEventManager /\ ~ProcessExit /\ ~SaverClose
    <2>1. handed # NotHandedOver /\ UNCHANGED handed
      BY <1>4 DEF Next, Caller, AddEvent, HandBlockOver, WaitSaved, ClearSaved, Swap, SetFilled,
                  Finalize, FinalizeSteps, SetFinished, Destroy, Saver, SaverWaitFilled,
                  SaverClearFilled, SaverWrite, SaverCount, SaverEmpty, SaverSetSaved, SaverCheck,
                  vars, callerVars
    <2>2. cpc \in {"done", "destroyed", "exited"}
      BY <2>1 DEF IInv, Phases
    <2>3. Destroy \/ SaverCheck \/ UNCHANGED vars
      BY <1>4, <2>2 DEF IInv, Phases, Handshake, BlockHasOneOwner, SaverOwns,
           Next, Caller, AddEvent, HandBlockOver, WaitSaved, ClearSaved, Swap, SetFilled,
           Finalize, FinalizeSteps, SetFinished, Saver, SaverWaitFilled,
           SaverClearFilled, SaverWrite, SaverCount, SaverEmpty, SaverSetSaved
    <2>4. UNCHANGED <<file, stream, recorded>> /\ (cpc = "exited" => cpc' = "exited")
      BY <2>3 DEF Destroy, SaverCheck, vars, callerVars, saverVars
    <2> QED
      BY <2>1, <2>4 DEF IInv, HandedOverComplete
  <1> QED
    BY <1>1, <1>2, <1>3, <1>4
-----------------------------------------------------------------------------
(***************************************************************************)
(* The theorems.                                                           *)
(***************************************************************************)

\* The inductive invariant holds in every reachable state.
LEMMA IInvInvariant == Spec => []IInv
  <1>1. Init => IInv
    BY InitIInv
  <1>2. IInv /\ [Next]_vars => IInv'
    BY TypeStep, HandshakeStep, BuffersStep, NothingLostStep, CountsStep, HandedOverStep DEF IInv
  <1> QED
    BY <1>1, <1>2, PTL DEF Spec

\* The counts of the dumper fit an int whatever is recorded: they wrap.
THEOREM TypeCorrect == Spec => []TypeOK
  <1>1. IInv => TypeOK
    BY DEF IInv
  <1> QED
    BY <1>1, IInvInvariant, PTL

\* The two semaphores keep the caller and the saver out of each other's block.
THEOREM OneOwner == Spec => []BlockHasOneOwner
  <1>1. IInv => BlockHasOneOwner
    BY DEF IInv, Handshake
  <1> QED
    BY <1>1, IInvInvariant, PTL

\* Every event given to addEvent is, in order, in the file, in the stream or in
\* one of the two vectors, until the process exits.
THEOREM NoEventLost == Spec => []NothingLost
  <1>1. IInv => NothingLost
    BY DEF IInv
  <1> QED
    BY <1>1, IInvInvariant, PTL

\* When finalize returns, less than one stream buffer of events is not yet in the
\* file, and the count it returns is right unless an int overflowed.
THEOREM HandOver == Spec => []HandedOverComplete
  <1>1. IInv => HandedOverComplete
    BY DEF IInv
  <1> QED
    BY <1>1, IInvInvariant, PTL

\* An empty dumper is an empty log.
LEMMA InitImplements == Init => ELog!Init
  BY DEF Init, ELog!Init

\* What the saver adds to the file is the next events of the log.
LEMMA FileGrows ==
  ASSUME IInv, [Next]_vars, SaverWrite \/ SaverClose
  PROVE  ELog!Store \/ UNCHANGED ELog!logVars
  <1>T. /\ file \in Seq(Event) /\ stream \in Seq(Event) /\ recorded \in Seq(Event)
        /\ pEventsSave \in Seq(Event) /\ pEventsMain \in Seq(Event)
    BY DEF IInv, TypeOK
  <1>1. UNCHANGED <<recorded, handed>> /\ cpc # "exited"
    BY DEF SaverWrite, SaverClose, callerVars, IInv, Phases
  <1>2. recorded = file \o stream \o Unwritten \o pEventsMain
    BY <1>1 DEF IInv, NothingLost
  <1>3. \/ UNCHANGED file
        \/ \E rest \in Seq(Event) : recorded = file' \o rest /\ file' \in Seq(Event)
                                 /\ Len(file) <= Len(file')
    <2>1. CASE SaverClose
      <3>1. Unwritten \in Seq(Event)
        BY <1>T DEF Unwritten
      <3>2. Unwritten \o pEventsMain \in Seq(Event) /\ file \o stream \in Seq(Event)
            /\ Len(file \o stream) = Len(file) + Len(stream)
        BY <1>T, <3>1, ConcatProperties
      <3>3. recorded = (file \o stream) \o (Unwritten \o pEventsMain)
        <4> DEFINE fs == file \o stream
        <4>0. fs \in Seq(Event)
          BY <3>2
        <4> HIDE DEF fs
        <4>1. (fs \o Unwritten) \o pEventsMain = fs \o (Unwritten \o pEventsMain)
          BY <1>T, <3>1, <4>0, ConcatAssoc, ZenonT(30)
        <4> QED
          BY <1>2, <4>1 DEF fs
      <3>4. file' = file \o stream
        BY <2>1 DEF SaverClose
      <3>5. recorded = file' \o (Unwritten \o pEventsMain) /\ file' \in Seq(Event)
            /\ Len(file) <= Len(file')
        BY <1>T, <3>2, <3>3, <3>4
      <3> QED
        BY <3>2, <3>5
    <2>2. CASE SaverWrite
      <3>1. stream = <<>> /\ Unwritten = pEventsSave
        BY <2>2 DEF SaverWrite, IInv, Buffers, Unwritten
      <3>2. file \o pEventsSave \in Seq(Event)
            /\ Len(file \o pEventsSave) = Len(file) + Len(pEventsSave)
        BY <1>T, ConcatProperties
      <3>3. recorded = (file \o pEventsSave) \o pEventsMain
        BY <1>T, <1>2, <3>1, ConcatEmptySeq
      <3>4. UNCHANGED file \/ file' = file \o pEventsSave
        BY <2>2 DEF SaverWrite
      <3>5. CASE file' = file \o pEventsSave
        <4>1. recorded = file' \o pEventsMain /\ file' \in Seq(Event) /\ Len(file) <= Len(file')
          BY <1>T, <3>2, <3>3, <3>5
        <4> QED
          BY <1>T, <4>1
      <3> QED
        BY <3>4, <3>5
    <2> QED
      BY <2>1, <2>2
  <1>4. CASE UNCHANGED file
    BY <1>1, <1>4 DEF ELog!logVars
  <1>5. ASSUME NEW rest \in Seq(Event), recorded = file' \o rest, file' \in Seq(Event),
               Len(file) <= Len(file')
        PROVE  ELog!Store
    <2>1. file' = SubSeq(recorded, 1, Len(file')) /\ Len(recorded) = Len(file') + Len(rest)
      BY <1>5, PrefixOfConcat
    <2>2. Len(file') \in Len(file) .. Len(recorded)
      BY <1>5, <2>1, <1>T
    <2> QED
      BY <1>1, <2>1, <2>2 DEF ELog!Store
  <1> QED
    BY <1>3, <1>4, <1>5

\* Every step records, stores or hands over, or is hidden.
LEMMA StepImplements == IInv /\ IInv' /\ [Next]_vars => [ELog!Next]_ELog!logVars
  <1> SUFFICES ASSUME IInv, IInv', [Next]_vars PROVE [ELog!Next]_ELog!logVars
    OBVIOUS
  <1> USE DEF ELog!Next, ELog!logVars
  <1>1. ASSUME NEW e \in Event, AddEvent(e) PROVE ELog!Record
    <2>1. handed = NotHandedOver
      BY <1>1 DEF AddEvent, IInv, Phases
    <2> QED
      BY <1>1, <2>1 DEF AddEvent, saverVars, ELog!Record
  <1>2. CASE ReturnEventManager
    <2>1. /\ cpc = "finWaitLast" /\ handed' # NotHandedOver
          /\ UNCHANGED <<file, stream, recorded>>
      BY <1>2 DEF ReturnEventManager, saverVars, IInv, Phases
    <2>2. handed = NotHandedOver
      BY <2>1 DEF IInv, Phases
    <2>3. Len(recorded) < IntLimit => handed' = Len(recorded)
      BY <2>1 DEF IInv, HandedOverComplete
    <2>4. Len(recorded) <= IntLimit - 1 => handed' = Len(recorded)
      BY <2>3, IntAssumption DEF IInv, TypeOK
    <2> QED
      BY <2>1, <2>2, <2>4 DEF ELog!HandOver
  <1>3. CASE SaverWrite \/ SaverClose
    BY <1>3, FileGrows
  <1>4. CASE \/ HandBlockOver \/ Finalize \/ (FinalizeSteps /\ ~ReturnEventManager) \/ Destroy
             \/ ProcessExit \/ (Saver /\ ~SaverWrite /\ ~SaverClose) \/ UNCHANGED vars
    BY <1>4 DEF HandBlockOver, WaitSaved, ClearSaved, Swap, SetFilled, Finalize, FinalizeSteps,
                SetFinished, Destroy, ProcessExit, Saver, SaverWaitFilled, SaverClearFilled,
                SaverCount, SaverEmpty, SaverSetSaved, SaverCheck, vars, callerVars, saverVars
  <1> QED
    BY <1>1, <1>2, <1>3, <1>4 DEF Next, Caller

\* Whatever the interleaving of the caller and the saver, the file is an
\* append-only copy of what was recorded, and its length is handed over.
THEOREM Implementation == Spec => ImplementsEventLog
  <1>1. Init => ELog!Init
    BY InitImplements
  <1>2. IInv /\ IInv' /\ [Next]_vars => [ELog!Next]_ELog!logVars
    BY StepImplements
  <1> QED
    BY <1>1, <1>2, IInvInvariant, PTL DEF Spec, ImplementsEventLog, ELog!Spec
=============================================================================
