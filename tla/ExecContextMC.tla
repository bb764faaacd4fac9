--------------------------- MODULE ExecContextMC ---------------------------
(***************************************************************************)
(* Two threads, the stack of thread 0 above the other one's; function "f"  *)
(* has a local and, on the stack, a parameter, of two bytes each; "g" has  *)
(* two locals, in different blocks, that share a byte.                     *)
(***************************************************************************)
EXTENDS ExecContext, TLC

MCThread == {0, 1}
MCFunc == {"f", "g"}
MCVars == [f |-> <<[offset |-> -2, size |-> 2], [offset |-> 0, size |-> 2]>>,
           g |-> <<[offset |-> -3, size |-> 2], [offset |-> -2, size |-> 2]>>]
MCFrameSize == [f |-> 2, g |-> 3]
MCArgSize == [f |-> 2, g |-> 0]
MCBases == (0 :> (19 .. 25)) @@ (1 :> {12, 14})
MCStaticVars == <<[addr |-> 1, size |-> 2], [addr |-> 3, size |-> 1]>>
=============================================================================
