--------------------------- MODULE ToolRunMC ------------------------------
(***************************************************************************)
(* Two threads.  Thread 0 runs main (frame base 10); both can call f (8),  *)
(* thread 0 also a routine without debug information, and both access      *)
(* memory.  The logs are the empty one and all well-nested ones of up to   *)
(* MaxLen events that begin with main's Call; some end with its Ret.       *)
(***************************************************************************)
EXTENDS ToolRun

CONSTANT MaxLen

Ev(type, t, f, base) == [type |-> type, threadId |-> t, func |-> f, frameBase |-> base]
MainCall == Ev("Call", 0, "main", 10)
MainRet == Ev("Ret", 0, "main", 10)

Middle == {Ev(type, t, "f", 8) : type \in {"Call", "Ret"}, t \in {0, 1}}
          \cup {Ev("Write", 0, NoFunc, 0), Ev("Read", 1, NoFunc, 0), Ev("Call", 0, NoFunc, 9)}

\* f is not recursive here: in each thread its Calls and Rets alternate.
WellNested(l, mainRet) ==
    \A t \in {0, 1} :
        LET own == SelectSeq(l, LAMBDA e : e.threadId = t /\ e.func = "f")
        IN /\ \A i \in 1 .. Len(own) : own[i].type = IF i % 2 = 1 THEN "Call" ELSE "Ret"
           /\ t = 0 /\ mainRet => Len(own) % 2 = 0

Middles(most) == UNION {[1 .. n -> Middle] : n \in 0 .. most}
MCLogs == {<<>>}
          \cup {<<MainCall>> \o l : l \in {m \in Middles(MaxLen - 1) : WellNested(m, FALSE)}}
          \cup {<<MainCall>> \o l \o <<MainRet>> :
                  l \in {m \in Middles(MaxLen - 2) : WellNested(m, TRUE)}}
=============================================================================
