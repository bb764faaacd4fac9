------------------------------- MODULE QueryMC -------------------------------
(***************************************************************************)
(* Matrix: four variables; 1 and 2 are one variable of an inlined function,*)
(* which has debug information twice; the lines of 3 and 4 are not known.  *)
(*                                                                         *)
(* Localities: six words, one of them addressed at two bytes and one far   *)
(* from all others; caches of 2, 3 and 5 words, so that words are evicted  *)
(* from each.                                                              *)
(*                                                                         *)
(* Patterns: an array of four elements of size 1, read everywhere and      *)
(* written at one place.  Groups of two are large enough, so that two of   *)
(* them, and a shorter one, fit into the trace; Stat looks two bytes to    *)
(* both sides, so that some windows are too wide.                          *)
(***************************************************************************)
EXTENDS Query, TLC

MCTag == 1 :> "a" @@ 2 :> "a" @@ 3 :> NoTag @@ 4 :> NoTag

\* The two functions are interchangeable.
FuncSymmetry == Permutations(Func)

MCAddr == {0, 8, 12, 16, 24, 32, 72}

MCAccess == {[accessType |-> "Read", addr |-> a] : a \in 0 .. 3}
            \cup {[accessType |-> "Write", addr |-> 1]}
=============================================================================
