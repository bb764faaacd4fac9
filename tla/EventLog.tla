------------------------------ MODULE EventLog ------------------------------
(***************************************************************************)
(* What the event dumper promises its two clients, the handlers that       *)
(* record events and the post-processing pass that reads them back: the    *)
(* file is an append-only copy of the recorded events in the order they    *)
(* were recorded, nothing lost, doubled or reordered; recording ends when  *)
(* the log is handed over; and the number of events handed over with it is *)
(* the number that was recorded, up to the largest count an int can hold.  *)
(*                                                                         *)
(* It says nothing of when an event reaches the file: that is the subject  *)
(* of the properties of PinEventDumper.                                    *)
(***************************************************************************)
EXTENDS Integers, Sequences

CONSTANTS Event,        \* the events that can be recorded
          MaxCount,     \* the largest number of events that can be counted
          NotHandedOver \* the value of total before finalize has returned

VARIABLES recorded,   \* the events recorded so far, in order
          stored,     \* the events in the file, in order
          total       \* the event count handed to the reader

logVars == <<recorded, stored, total>>

Init == /\ recorded = <<>>
        /\ stored = <<>>
        /\ total = NotHandedOver

Record == /\ total = NotHandedOver
          /\ \E e \in Event : recorded' = Append(recorded, e)
          /\ UNCHANGED <<stored, total>>

\* Some more of the recorded events reach the file.
Store == /\ \E n \in Len(stored) .. Len(recorded) : stored' = SubSeq(recorded, 1, n)
         /\ UNCHANGED <<recorded, total>>

HandOver == /\ total = NotHandedOver
            /\ total' # NotHandedOver
            /\ Len(recorded) <= MaxCount => total' = Len(recorded)
            /\ UNCHANGED <<recorded, stored>>

Next == Record \/ Store \/ HandOver

Spec == Init /\ [][Next]_logVars
=============================================================================
