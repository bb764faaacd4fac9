----------------------------- MODULE EventStore -----------------------------
(***************************************************************************)
(* What an EventManager promises its readers: an array of events with a    *)
(* cursor.  The post-processing visits every event once, in order, and     *)
(* gives each access its variable; the queries visit them all again, pass  *)
(* after pass, and find every event as the post-processing left it.  That  *)
(* the array is a file, read and written back in chunks, does not show.    *)
(* The promise ends with a read that finds the file shorter than the log.  *)
(***************************************************************************)
EXTENDS Integers, Sequences

CONSTANTS Logs,     \* the logs considered: sequences of events
          IsAccess(_) \* whether an event is a Read or a Write

VARIABLES log,      \* the events
          hasVar,   \* the indices of the events that have their variable
          pos,      \* how many events of this pass have been visited
          visited,  \* the last one and whether it had its variable, as the reader saw it
          mode      \* "post" the post-processing, "saved" after it, "query" a pass of a
                    \* query; "broken" after a short read

vars == <<log, hasVar, pos, visited, mode>>

NotVisited == [n |-> 0, hasVar |-> FALSE]

Init == /\ log \in Logs
        /\ hasVar = {} /\ pos = 0 /\ visited = NotVisited /\ mode = "post"

Visit == /\ pos < Len(log)
         /\ pos' = pos + 1
         /\ visited' = [n |-> pos + 1, hasVar |-> pos + 1 \in hasVar']
         /\ UNCHANGED <<log, mode>>

Annotate == /\ mode = "post" /\ pos < Len(log)
            /\ hasVar' = hasVar \cup {n \in {pos + 1} : IsAccess(log[n])}
            /\ Visit

Finish == /\ mode = "post" /\ pos = Len(log)
          /\ mode' = "saved"
          /\ UNCHANGED <<log, hasVar, pos, visited>>

Open == /\ mode = "saved"
        /\ mode' = "query" /\ pos' = 0 /\ visited' = NotVisited
        /\ UNCHANGED <<log, hasVar>>

Read == /\ mode = "query"
        /\ UNCHANGED hasVar
        /\ Visit

Rewind == /\ mode = "query" /\ pos = Len(log)
          /\ pos' = 0 /\ visited' = NotVisited
          /\ UNCHANGED <<log, hasVar, mode>>

Break == /\ mode # "broken"
         /\ mode' = "broken" /\ hasVar' = {} /\ pos' = 0 /\ visited' = NotVisited
         /\ UNCHANGED log

Next == Annotate \/ Finish \/ Open \/ Read \/ Rewind \/ Break

Spec == Init /\ [][Next]_vars
=============================================================================
