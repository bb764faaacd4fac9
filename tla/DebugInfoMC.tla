---------------------------- MODULE DebugInfoMC -----------------------------
(***************************************************************************)
(* Every tree of up to MaxDies DIEs of a few kinds, in C and in Fortran:   *)
(* scopes end and reopen, functions are nested, have no name, no rsp base  *)
(* or a name that occurs twice, variables lie in the frame, at an address  *)
(* or at one beyond the int, under types whose sizes differ: arrays with   *)
(* lower bounds, of arrays, and with bounds that getSize cannot read.      *)
(***************************************************************************)
EXTENDS DebugInfo, TLC

Dim(lower, upper) == [lower |-> lower, upper |-> upper]
Array(dims, of) == [tag |-> "array", dims |-> dims, of |-> of]

MCTypeDie == "int"     :> [tag |-> "sized", size |-> 4] @@
             "matrix"  :> Array(<<Dim(NoBound, 2), Dim(NoBound, 1)>>, "int") @@
             "shifted" :> Array(<<Dim(0, 2)>>, "int") @@
             "rows"    :> Array(<<Dim(2, 3)>>, "shifted") @@
             "alias"   :> [tag |-> "named", of |-> "rows"] @@
             "open"    :> Array(<<Dim(NoBound, NoBound)>>, "int") @@
             "dynamic" :> Array(<<Dim(NoBound, NoConst)>>, "int") @@
             "below"   :> Array(<<Dim(NoBound, 1), Dim(-2, -1)>>, "int") @@
             "void"    :> [tag |-> "unsized"]

MCJunk == [t \in DOMAIN MCTypeDie |-> 0]
Kind(tag) == [tag |-> tag, parent |-> 0, lang |-> "C", name |-> NoName, linkageName |-> NoLinkageName,
              type |-> NoType, loc |-> <<>>, junk |-> MCJunk]
Func(name, linkageName, reg) ==
    [Kind("func") EXCEPT !.name = name, !.linkageName = linkageName, !.loc = <<[reg |-> reg, off |-> 8]>>]
Var(tag, type, regs) ==
    [Kind(tag) EXCEPT !.type = type, !.loc = [i \in 1 .. Len(regs) |-> [reg |-> regs[i], off |-> i]]]

Units == {[Kind("cu") EXCEPT !.lang = lang] : lang \in Lang}
Functions == {Func("f", NoLinkageName, "rsp"), Func("f", "g", "rsp"), Func("f", NoLinkageName, "rbp"),
              Func(NoName, NoLinkageName, "rsp")}
Locals == {Var("var", "int", <<"addr", "fbreg">>), Var("var", "alias", <<"fbreg", "other">>),
           Var("var", "below", <<"other", "fbreg">>),
           Var("param", "matrix", <<"fbreg">>), Var("var", "open", <<"fbreg">>),
           [Var("var", "dynamic", <<"fbreg">>) EXCEPT !.junk["dynamic"] = 5]}
Static == Var("var", "matrix", <<"addr">>)
Shared == {[Var("var", "shifted", <<"addr">>) EXCEPT !.loc[1].off = 20], Var("var", "void", <<"addr">>)}
Scopes == {Kind("block"), Kind("common")}

MCDie == Units \cup Functions \cup Locals \cup Shared \cup Scopes \cup {Static}

MCChild == [k \in MCDie \cup {Root} |->
    IF k = Root THEN Units
    ELSE CASE k.tag = "cu"               -> IF k.lang = "Fortran08" THEN Shared ELSE Functions \cup Shared
           [] k.tag \in {"func", "block"} -> Functions \cup Locals \cup Scopes \cup {Static}
           [] k.tag = "common"           -> {Static}
           [] OTHER                      -> {}]

MCInst == {1}
MCLineOf == 1 :> "line"
=============================================================================
