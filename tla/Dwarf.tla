------------------------------- MODULE Dwarf --------------------------------
(***************************************************************************)
(* The reading of a binary's debug information (src/src/tool/dwarf): the   *)
(* walk over the tree of DIEs collects functions and variables in a        *)
(* DwarfContext.  libdwarf is external: it yields the DIEs in the order of *)
(* their offsets, each with the attributes that the parser asks for.       *)
(***************************************************************************)
EXTENDS Integers, Sequences, SequencesExt, FiniteSets, FiniteSetsExt

CONSTANTS Die,      \* the DIEs considered, see below
          Root,     \* the place of a compilation unit
          Child,    \* for Root and each DIE, the DIEs that compilers put below it
          MaxDies,  \* bound: DIEs of a binary
          TypeDie,  \* the types that DIEs refer to, by name
          NoType,   \* a DIE without DW_AT_type
          NoBound,  \* a dimension without DW_AT_upper_bound or DW_AT_lower_bound
          NoConst,  \* an upper bound that is an expression
          IntLimit, \* 2^31: the off of a LocEntry is an int
          NoName,   \* DwarfEmptyName, a DIE without a name
          NoLinkageName

(* A DIE is [tag, parent, lang, name, linkageName, type, loc]: parent is   *)
(* the offset of its parent, 0 until it has a place in a tree, lang the    *)
(* language of a unit, and loc the operations of DW_AT_frame_base or       *)
(* DW_AT_location, each [reg, off], with reg "other" for what LocInfo      *)
(* calls an unknown location.  junk is what the uninitialised upperBound   *)
(* of getSize happens to be when it gets at each type for this DIE.        *)
Tag == {"cu", "func", "block", "common", "var", "param"}

\* "Fortran" are the three that getSize knows, Fortran 77, 90 and 95.
Lang == {"C", "Fortran", "Fortran08"}

ASSUME DieAssumption ==
    /\ \A k \in Die : /\ DOMAIN k = {"tag", "parent", "lang", "name", "linkageName", "type", "loc",
                                     "junk"}
                      /\ k.tag \in Tag /\ k.lang \in Lang /\ k.junk \in [DOMAIN TypeDie -> Nat]
                      /\ k.type \in DOMAIN TypeDie \cup {NoType}
                      /\ k.loc \in Seq([reg : STRING, off : Int])
    /\ IntLimit \in Nat \ {0}
    /\ Root \notin Die
    /\ Child \in [Die \cup {Root} -> SUBSET Die]
    /\ \A k \in Child[Root] : k.tag = "cu"

\* Compilers nest DIEs so that the assertions of walk, walkTree and toDbg hold: units
\* only at the root, lexical blocks only in functions, nothing in variables. What is
\* not of one call lies at an address, as far as LocInfo knows its location.
ASSUME TreeAssumption ==
    \A k \in Die :
        /\ k = [k EXCEPT !.parent = 0]
        /\ \A c \in Child[k] :
             /\ k.tag \in {"cu", "func", "block", "common"} /\ c.tag # "cu"
             /\ c.tag = "block" => k.tag \in {"func", "block"}
             /\ c.tag \in {"var", "param"} /\ k.tag \in {"cu", "common"} =>
                  c.loc = <<>> \/ Head(c.loc).reg \in {"addr", "other"}

\* Types refer to types, and not in a circle. A dimension of an array has bounds of its
\* own or those of the language; only the first may be without an upper one (an
\* assertion of getSize), and an upper one may be negative or no constant.
ASSUME TypeAssumption ==
    /\ NoBound \notin Int /\ NoConst \notin Int \cup {NoBound} /\ NoType \notin DOMAIN TypeDie
    /\ \A t \in DOMAIN TypeDie :
         LET type == TypeDie[t] IN
         /\ type.tag \in {"sized", "named", "array", "unsized"}
         /\ type.tag = "sized" => type.size \in Nat
         /\ type.tag \in {"named", "array"} => type.of \in DOMAIN TypeDie
         /\ type.tag = "array" =>
              /\ type.dims \in Seq([lower : Int \cup {NoBound},
                                    upper : Int \cup {NoBound, NoConst}]) \ {<<>>}
              /\ \A k \in 2 .. Len(type.dims) : type.dims[k].upper # NoBound
    /\ \A types \in SUBSET (DOMAIN TypeDie) : types # {} =>
         \E t \in types : TypeDie[t].tag \in {"named", "array"} => TypeDie[t].of \notin types

VARIABLES dies,     \* the DIEs of the binary, as far as it is read, by offset
          walkInfo, \* for each DIE visited, childWalkInfo of its walkTree
          funcs,    \* DwarfContext::funcs
          vars      \* DwarfContext::vars

dwarfVars == <<dies, walkInfo, funcs, vars>>

Empty == [x \in {} |-> <<>>]

DwarfInit == /\ dies = <<>>
             /\ walkInfo = Empty
             /\ funcs = Empty /\ vars = Empty

Put(f, x, y) == [z \in DOMAIN f \cup {x} |-> IF z = x THEN y ELSE f[z]]
-----------------------------------------------------------------------------
(* Types and locations *)

PtrSize == 8

\* The elements of a dimension, for arrays that count from 1 in Fortran, from 0
\* elsewhere: getSize looks at no lower bound.
Count(upperBound, lang) == IF lang = "Fortran" THEN upperBound ELSE upperBound + 1

\* upperBound after each dimension: what dwarf_formudata refuses, a bound that is
\* negative or no constant, leaves it as it was, and nobody looks at its result.
UpperBounds(dims, junk, lang) ==
    LET upperBound[k \in 0 .. Len(dims)] ==
            IF k = 0 THEN junk
            ELSE Count(IF dims[k].upper \in Nat THEN dims[k].upper ELSE upperBound[k - 1], lang)
    IN upperBound

ElemCount(dims, junk, lang) ==
    LET elemCount[n \in 0 .. Len(dims)] ==
            IF n = 0 THEN 1 ELSE elemCount[n - 1] * UpperBounds(dims, junk, lang)[n]
    IN elemCount[Len(dims)]

\* What getSize makes of a type, size being that of the types it is made of.
SizeOf(type, junk, size, lang) ==
    CASE type.tag = "sized"    -> type.size
      [] type.tag = "named"    -> size[type.of]
      [] type.tag = "array"    -> IF type.dims[1].upper = NoBound THEN PtrSize
                                  ELSE ElemCount(type.dims, junk, lang) * size[type.of]
      [] type.tag = "unsized"  -> 0

\* getSize of a DIE of type t, unless it is a parameter
Size(t, junk, lang) ==
    LET size[u \in DOMAIN TypeDie] == SizeOf(TypeDie[u], junk[u], size, lang)
    IN IF t = NoType THEN 0 ELSE size[t]

IsArray(die) == die.type # NoType /\ TypeDie[die.type].tag = "array"

GetSize(die, lang) == IF IsArray(die) /\ die.tag = "param" THEN PtrSize
                      ELSE Size(die.type, die.junk, lang)

\* *pTypeSize, and what walkTree makes of a 0: only an array has elements,
\* not a typedef of one.
GetTypeSize(die, lang) ==
    IF IsArray(die) /\ die.tag # "param" /\ TypeDie[die.type].dims[1].upper # NoBound
    THEN Size(TypeDie[die.type].of, die.junk, lang)
    ELSE GetSize(die, lang)

\* The conversion to int of the operand of an operation.
ToInt(n) == ((n + IntLimit) % (2 * IntLimit)) - IntLimit

\* The entries of a LocInfo: all before the first that is unknown.
Entries(loc) ==
    LET unknown == {i \in 1 .. Len(loc) : loc[i].reg = "other"}
        known == IF unknown = {} THEN loc ELSE SubSeq(loc, 1, Min(unknown) - 1)
    IN [i \in 1 .. Len(known) |-> [known[i] EXCEPT !.off = ToInt(@)]]
-----------------------------------------------------------------------------
(* walkTree *)

\* Variant of ChildInfo: a common block does not end the automatic storage.
ChildInfoAuto(d, die, info) ==
    [info EXCEPT !.lastFuncDie = IF die.tag = "func" THEN d ELSE @,
                 !.storageType = IF die.tag \in {"block", "func"} THEN "Auto" ELSE @]

\* The copy of a DIE's WalkInfo that its children get.
ChildInfo(d, die, info) ==
    [info EXCEPT !.lastFuncDie = IF die.tag = "func" THEN d ELSE @,
                 !.storageType = CASE die.tag \in {"block", "func"} -> "Auto"
                                   [] die.tag = "common"            -> "Static"
                                   [] OTHER                         -> @]

\* The WalkInfo with which walk, or the walkTree of its parent, visits a DIE.
InfoOf(die) == IF die.tag = "cu"
               THEN [storageType |-> "Static", lastFuncDie |-> 0, lang |-> die.lang]
               ELSE walkInfo[die.parent]

AddFunc(d, die) ==
    /\ funcs' = Put(funcs, d, [name |-> die.name, linkageName |-> die.linkageName,
                               entries |-> Entries(die.loc), vars |-> <<>>])
    /\ UNCHANGED vars

\* parent is 0, the null pointer, for a static variable.
AddVar(d, die, info) ==
    LET parent == IF info.storageType = "Static" THEN 0 ELSE info.lastFuncDie
    IN /\ vars' = Put(vars, d, [type |-> info.storageType, parent |-> parent,
                                size |-> GetSize(die, info.lang),
                                typeSize |-> GetTypeSize(die, info.lang),
                                entries |-> Entries(die.loc)])
       /\ funcs' = IF parent = 0 THEN funcs
                   ELSE [funcs EXCEPT ![parent].vars = Append(@, d)]

\* d and the DIEs around it: the walkTrees that are running when d is visited.
Path(d) == LET up[e \in 0 .. d] == IF e = 0 THEN {} ELSE {e} \cup up[dies[e].parent]
           IN up[d]

\* One call of walkTree: for the first child of the DIE before, for a sibling of
\* one that is still open, or (from walk) for the next unit.
WalkTree(parent, k) ==
    LET d == Len(dies) + 1
        die == [k EXCEPT !.parent = parent]
        info == InfoOf(die)
    IN /\ d <= MaxDies
       /\ parent \in {0} \cup Path(Len(dies))
       /\ k \in Child[IF parent = 0 THEN Root ELSE [dies[parent] EXCEPT !.parent = 0]]
       /\ dies' = Append(dies, die)
       /\ CASE die.tag = "func" -> AddFunc(d, die)
            [] die.tag \in {"var", "param"} /\ GetSize(die, info.lang) # 0 -> AddVar(d, die, info)
            [] OTHER -> UNCHANGED <<funcs, vars>>
       /\ walkInfo' = Put(walkInfo, d, ChildInfo(d, die, info))
-----------------------------------------------------------------------------
(* What the tree says, for the properties *)

\* The innermost of the given tags around d, or 0.
Innermost(d, tags) == LET es == {e \in Path(dies[d].parent) : dies[e].tag \in tags}
                      IN IF es = {} THEN 0 ELSE Max(es)

\* The variable d exists once, for all calls of all functions.
IsShared(d) == LET e == Innermost(d, {"func", "block", "common"})
               IN e = 0 \/ dies[e].tag = "common"

\* The name of the function d as the linker and Pin have it, or NoName.
Symbol(d) == CASE dies[d].linkageName # NoLinkageName -> dies[d].linkageName
               [] OTHER -> dies[d].name

HasRspBase(d) == LET loc == dies[d].loc IN loc # <<>> /\ Head(loc).reg = "rsp"

LangOf(d) == dies[Innermost(d, {"cu"})].lang
=============================================================================
