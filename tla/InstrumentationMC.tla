------------------------- MODULE InstrumentationMC -------------------------
(***************************************************************************)
(* A program of two threads.  main and worker call malloc through .plt,    *)
(* main free, and worker realloc and then free.  f returns at two places,  *)
(* or ends in a tail call of g or of u; u, which has no debug information, *)
(* goes on in g by a tail call, or calls it.  worker calls h, which has none *)
(* either and calls f twice, and then g.  g begins with an instruction that *)
(* reads and writes under a predicate (a rep or a cmov).  The thread of    *)
(* worker ends at an operand that is neither read nor written.             *)
(***************************************************************************)
EXTENDS Instrumentation, TLC

R == [read |-> TRUE, written |-> FALSE]
W == [read |-> FALSE, written |-> TRUE]
None == [read |-> FALSE, written |-> FALSE]
RW == [read |-> TRUE, written |-> TRUE]

Ins(rtn, op, operands, to) ==
    [rtn |-> rtn, op |-> op, operands |-> operands, to |-> to, direct |-> TRUE, predicated |-> FALSE]

MCInstructions ==
       1 :> Ins("main", "plain", <<RW>>, {})
    @@ 2 :> Ins("main", "call", <<W>>, {11})
    @@ 3 :> Ins("main", "call", <<W>>, {21})
    @@ 4 :> Ins("main", "keep", <<>>, {})
    @@ 5 :> Ins("main", "pick", <<>>, {7})
    @@ 6 :> Ins("main", "call", <<W>>, {22})
    @@ 7 :> Ins("main", "ret", <<R>>, {})
    @@ 11 :> Ins("f", "jump", <<>>, {12, 13, 14})
    @@ 12 :> Ins("f", "ret", <<R>>, {})
    @@ 13 :> Ins("f", "jump", <<>>, {16, 39})
    @@ 14 :> Ins("f", "ret", <<R>>, {})
    @@ 16 :> [Ins("g", "plain", <<RW, R>>, {}) EXCEPT !.predicated = TRUE]
    @@ 17 :> Ins("g", "ret", <<R>>, {})
    @@ 18 :> Ins("h", "call", <<W>>, {11})
    @@ 19 :> Ins("h", "call", <<W>>, {11})
    @@ 20 :> Ins("h", "ret", <<R>>, {})
    @@ 21 :> Ins(".plt", "jump", <<R>>, {31})
    @@ 22 :> Ins(".plt", "jump", <<R>>, {33})
    @@ 23 :> Ins(".plt", "jump", <<R>>, {43})
    @@ 31 :> Ins("malloc", "alloc", <<>>, {})
    @@ 32 :> Ins("malloc", "ret", <<R>>, {})
    @@ 33 :> Ins("free", "release", <<>>, {})
    @@ 34 :> Ins("free", "ret", <<R>>, {})
    @@ 35 :> [Ins("start", "call", <<W>>, {1}) EXCEPT !.direct = FALSE]
    @@ 36 :> Ins("start", "end", <<>>, {})
    @@ 37 :> [Ins("start", "call", <<W>>, {50}) EXCEPT !.direct = FALSE]
    @@ 38 :> Ins("start", "end", <<None>>, {})
    @@ 39 :> Ins("u", "jump", <<>>, {16, 40})
    @@ 40 :> Ins("u", "call", <<W>>, {16})
    @@ 41 :> Ins("u", "ret", <<R>>, {})
    @@ 43 :> Ins("realloc", "resize", <<RW>>, {})
    @@ 44 :> Ins("realloc", "ret", <<R>>, {})
    @@ 50 :> [Ins("worker", "call", <<R, W>>, {18}) EXCEPT !.direct = FALSE]
    @@ 51 :> Ins("worker", "call", <<W>>, {16})
    @@ 52 :> Ins("worker", "call", <<W>>, {21})
    @@ 53 :> Ins("worker", "keep", <<>>, {})
    @@ 54 :> Ins("worker", "pick", <<>>, {59})
    @@ 55 :> Ins("worker", "call", <<W>>, {23})
    @@ 56 :> Ins("worker", "keep", <<>>, {})
    @@ 57 :> Ins("worker", "pick", <<>>, {59})
    @@ 58 :> Ins("worker", "call", <<W>>, {22})
    @@ 59 :> Ins("worker", "ret", <<R>>, {})

\* From the end of malloc or realloc to where its result is kept, and from where a
\* block is picked to where it is released or resized.
New == {4, 32, 44, 53, 56}
Old == {6, 22, 23, 33, 43, 55, 58}
Gives == {21, 23, 31, 32, 43, 44}

MCCode == [a \in DOMAIN MCInstructions |->
              MCInstructions[a] @@ [holds |-> IF a \in New THEN "new"
                                              ELSE IF a \in Old THEN "old" ELSE "nothing",
                                    gives |-> IF a \in Gives THEN "new" ELSE "nothing"]]

MCImage == [r \in {"main", "f", "g", "h", "u", ".plt", "worker"} |-> "bin"]
           @@ [r \in {"malloc", "free", "realloc", "start"} |-> "libc"]

MCEntry == 0 :> 35 @@ 1 :> 37
=============================================================================
