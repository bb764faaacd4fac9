----------------------------- MODULE DebugInfo ------------------------------
(***************************************************************************)
(* The DebugContext (src/src/common/debuginfo) from the binary to the      *)
(* query: DwarfContext::toDbg fills one, tool.cpp's main moves it to       *)
(* dbgCtxt, the post-processing adds bindings of instructions, Fini saves  *)
(* it and the query program loads it.                                      *)
(*                                                                         *)
(* A pointer to a FuncInfo in a context is its name, the key of its map    *)
(* node; a pointer to a VarInfo is the record itself, which no operation   *)
(* changes once it is in the set.  The set of VarInfos is ordered by       *)
(* address: nothing may depend on its order, and load takes them in any,   *)
(* and the functions too, which it finds in the order of their names.      *)
(***************************************************************************)
EXTENDS Dwarf

CONSTANTS Inst,   \* instructions that touch a variable
          LineOf, \* the source location Pin gives for each
          NoFunc  \* the null pointer to a FuncInfo

ASSUME LineAssumption == DOMAIN LineOf = Inst

ASSUME NoFuncAssumption == NoFunc # NoName /\ \A k \in Die : NoFunc \notin {k.name, k.linkageName}

VARIABLES conv,     \* ctxt in toDbg
          tool,     \* dbgCtxt of the tool
          query,    \* debugContext of the query program
          globalId, \* the static counters of FuncInfo and VarInfo
          todo,     \* the functions that toDbg, and then load, has still to visit
          todoVars, \* the variables that it has
          file,     \* bin/dbginfo.bin
          phase

dbgVars == <<conv, tool, query, globalId, todo, todoVars, file, phase>>
allVars == <<dwarfVars, dbgVars>>

Context == [funcs |-> Empty, idFuncs |-> Empty, vars |-> {}, idVars |-> Empty,
            instBindings |-> Empty]
NoFile == [funcs |-> {}, vars |-> {}, instBindings |-> Empty]

Init == /\ DwarfInit
        /\ conv = Context /\ tool = Context /\ query = Context
        /\ globalId = [func |-> 0, var |-> 0]
        /\ todo = {} /\ todoVars = {}
        /\ file = NoFile
        /\ phase = "walk"

Walk == /\ phase = "walk"
        /\ \E parent \in 0 .. Len(dies), k \in Die : WalkTree(parent, k)
        /\ UNCHANGED dbgVars

\* There is no further unit: main calls toDbg.
WalkEnds == /\ phase = "walk"
            /\ phase' = "functions"
            /\ todo' = DOMAIN funcs
            /\ UNCHANGED <<dwarfVars, conv, tool, query, globalId, todoVars, file>>
-----------------------------------------------------------------------------
(* toDbg *)

\* DebugContext::addFunc, of a name that is not in the context
PutFunc(ctxt, func) == [ctxt EXCEPT !.funcs = Put(@, func.name, func),
                                    !.idFuncs = Put(@, func.id, func.name)]

\* DebugContext::addVar, and what load does with a VarInfo
PutVar(ctxt, var) ==
    [ctxt EXCEPT !.vars = @ \cup {var},
                 !.funcs = IF var.parent = NoFunc THEN @
                           ELSE [ctxt.funcs EXCEPT ![var.parent].vars = Append(@, var.id)],
                 !.idVars = Put(@, var.id, var)]

\* Variant of FuncName: overloaded functions have one name.
FuncNamePlain(f) == f.name

FuncName(f) == IF f.linkageName = NoLinkageName THEN f.name ELSE f.linkageName

\* toDbg keeps functions with a name whose frame base is relative to rsp.
Convertible(f) == /\ FuncName(f) # NoName
                  /\ f.entries # <<>>
                  /\ f.entries[1].reg = "rsp"

\* The entries of a function's variable that give it a place.
Usable(v) == {i \in 1 .. Len(v.entries) :
                 \/ v.entries[i].reg = "fbreg"
                 \/ v.entries[i].reg = "addr" /\ v.type = "Static"}

\* Variant of NewVar: the counter is advanced before it is used.
NewVarPreIncrement(id, d, type, offset, parent) ==
    [id |-> id + 1, die |-> d, type |-> type, stackOffset |-> offset, parent |-> parent,
     size |-> vars[d].size, typeSize |-> vars[d].typeSize]

\* A VarInfo for the DIE d; its name, line and sizes are those of vars[d].
NewVar(id, d, type, offset, parent) ==
    [id |-> id, die |-> d, type |-> type, stackOffset |-> offset, parent |-> parent,
     size |-> vars[d].size, typeSize |-> vars[d].typeSize]

\* One round of the loop over the functions, as far as addFunc; its assertion ends
\* the tool when the name was there.
ConvertFunc ==
    /\ phase = "functions" /\ todo # {} /\ todoVars = {}
    /\ LET d == Min(todo)
           name == FuncName(funcs[d])
       IN /\ todo' = todo \ {d}
          /\ CASE ~Convertible(funcs[d]) -> UNCHANGED <<conv, globalId, todoVars, phase>>
               [] Convertible(funcs[d]) /\ name \in DOMAIN conv.funcs ->
                    phase' = "aborted" /\ UNCHANGED <<conv, globalId, todoVars>>
               [] OTHER ->
                    /\ conv' = PutFunc(conv, [id |-> globalId.func, name |-> name, vars |-> <<>>,
                                              stackOffset |-> funcs[d].entries[1].off])
                    /\ globalId' = [globalId EXCEPT !.func = @ + 1]
                    /\ todoVars' = {v \in Range(funcs[d].vars) : Usable(vars[v]) # {}}
                    /\ UNCHANGED phase
    /\ UNCHANGED <<dwarfVars, tool, query, file>>

\* One round of the loop over its variables, which lie in the order of their DIEs.
ConvertVar ==
    /\ phase = "functions" /\ todoVars # {}
    /\ LET v == Min(todoVars)
           entry == vars[v].entries[Min(Usable(vars[v]))]
       IN /\ conv' = PutVar(conv, NewVar(globalId.var, v, vars[v].type, entry.off,
                                         FuncName(funcs[vars[v].parent])))
          /\ todoVars' = todoVars \ {v}
    /\ globalId' = [globalId EXCEPT !.var = @ + 1]
    /\ UNCHANGED <<dwarfVars, tool, query, todo, file, phase>>

FunctionsEnd ==
    /\ phase = "functions" /\ todo = {} /\ todoVars = {}
    /\ phase' = "globals"
    /\ todoVars' = {v \in DOMAIN vars : vars[v].parent = 0 /\ vars[v].entries # <<>>}
    /\ UNCHANGED <<dwarfVars, conv, tool, query, globalId, todo, file>>

\* One round of the loop over the variables without a function.
ConvertGlobal ==
    /\ phase = "globals" /\ todoVars # {}
    /\ LET v == Min(todoVars)
       IN /\ conv' = PutVar(conv, NewVar(globalId.var, v, "Static", vars[v].entries[1].off, NoFunc))
          /\ todoVars' = todoVars \ {v}
    /\ globalId' = [globalId EXCEPT !.var = @ + 1]
    /\ UNCHANGED <<dwarfVars, tool, query, todo, file, phase>>
-----------------------------------------------------------------------------
(* The tool's context and the query's *)

\* dbgCtxt = toDbg(): the nodes move, the pointers by id are set anew.
Move ==
    /\ phase = "globals" /\ todoVars = {}
    /\ tool' = [conv EXCEPT
                  !.idFuncs = [id \in {f.id : f \in Range(conv.funcs)} |->
                                 (CHOOSE f \in Range(conv.funcs) : f.id = id).name],
                  !.idVars = [id \in {v.id : v \in conv.vars} |->
                                 CHOOSE v \in conv.vars : v.id = id]]
    /\ conv' = Context
    /\ phase' = "run"
    /\ UNCHANGED <<dwarfVars, query, globalId, todo, todoVars, file>>

\* setInstBinding, for an access to a variable; the same line each time
SetInstBinding(i) ==
    /\ phase = "run"
    /\ tool' = [tool EXCEPT !.instBindings = Put(@, i, LineOf[i])]
    /\ UNCHANGED <<dwarfVars, conv, query, globalId, todo, todoVars, file, phase>>

\* VarInfo::save: the pointer to the function becomes its id, or -1.
SavedVar(ctxt, v) ==
    [v EXCEPT !.parent = IF v.parent = NoFunc THEN -1 ELSE ctxt.funcs[v.parent].id]

\* Fini; the tool ends.
Save == /\ phase = "run"
        /\ file' = [funcs |-> {[id |-> f.id, name |-> f.name, stackOffset |-> f.stackOffset] :
                                 f \in Range(tool.funcs)},
                    vars |-> {SavedVar(tool, v) : v \in tool.vars},
                    instBindings |-> tool.instBindings]
        /\ phase' = "saved"
        /\ UNCHANGED <<dwarfVars, conv, tool, query, globalId, todo, todoVars>>

\* The query program begins with load, which has three loops.
Load == /\ phase = "saved"
        /\ phase' = "loading"
        /\ todo' = file.funcs /\ todoVars' = file.vars
        /\ UNCHANGED <<dwarfVars, conv, tool, query, globalId, file>>

LoadFunc(f) ==
    /\ phase = "loading" /\ f \in todo
    /\ query' = PutFunc(query, [id |-> f.id, name |-> f.name, vars |-> <<>>,
                                stackOffset |-> f.stackOffset])
    /\ todo' = todo \ {f}
    /\ UNCHANGED <<dwarfVars, conv, tool, globalId, todoVars, file, phase>>

\* Variant of ParentOf: an id of 0 is taken for none.
ParentOfPositive(id) == IF id > 0 /\ id \in DOMAIN query.idFuncs THEN query.idFuncs[id] ELSE NoFunc

\* VarInfo::load: findFuncById of an id that is not negative
ParentOf(id) == IF id >= 0 /\ id \in DOMAIN query.idFuncs THEN query.idFuncs[id] ELSE NoFunc

LoadVar(v) ==
    /\ phase = "loading" /\ todo = {} /\ v \in todoVars
    /\ query' = PutVar(query, [v EXCEPT !.parent = ParentOf(v.parent)])
    /\ todoVars' = todoVars \ {v}
    /\ UNCHANGED <<dwarfVars, conv, tool, globalId, todo, file, phase>>

LoadInstBindings ==
    /\ phase = "loading" /\ todo = {} /\ todoVars = {}
    /\ query' = [query EXCEPT !.instBindings = file.instBindings]
    /\ phase' = "loaded"
    /\ UNCHANGED <<dwarfVars, conv, tool, globalId, todo, todoVars, file>>

Next == \/ Walk \/ WalkEnds \/ ConvertFunc \/ ConvertVar \/ FunctionsEnd \/ ConvertGlobal \/ Move
        \/ \E i \in Inst : SetInstBinding(i)
        \/ Save \/ Load
        \/ \E f \in todo : LoadFunc(f)
        \/ \E v \in todoVars : LoadVar(v)
        \/ LoadInstBindings

Spec == Init /\ [][Next]_allVars
-----------------------------------------------------------------------------
TypeOK ==
    /\ phase \in {"walk", "functions", "aborted", "globals", "run", "saved", "loading", "loaded"}
    /\ DOMAIN walkInfo = DOMAIN dies /\ DOMAIN funcs \cup DOMAIN vars \subseteq DOMAIN dies
    /\ globalId \in [func : Nat, var : Nat]
    /\ \A c \in {conv, tool, query} :
         \A v \in c.vars : v.id \in 0 .. globalId.var - 1 /\ v.parent \in DOMAIN c.funcs \cup {NoFunc}

\* WalkInfo is handed down by copy, so that what a subtree sets never reaches its
\* siblings: every variable has the storage and the function of the blocks that
\* enclose it (walkTree; lastFuncDie, storageType).
ScopesAreEnclosing ==
    \A d \in DOMAIN vars :
        /\ vars[d].type = "Static" <=> IsShared(d)
        /\ vars[d].parent = (IF IsShared(d) THEN 0 ELSE Innermost(d, {"func"}))

\* The index that getSize presumes the first of every dimension to be, and the one it
\* is, by its own lower bound or by the standard of the language.
Presumed(lang) == IF lang = "Fortran" THEN 1 ELSE 0
First(dim, lang) == IF dim.lower # NoBound THEN dim.lower
                    ELSE IF lang \in {"Fortran", "Fortran08"} THEN 1 ELSE 0

HasConstants(dims) == \A k \in DOMAIN dims : dims[k].upper \in Nat

\* The elements of an array, counted index by index.
Elements(dims, lang) ==
    LET indices == [k \in 1 .. Len(dims) |-> First(dims[k], lang) .. dims[k].upper]
    IN Cardinality({ix \in [1 .. Len(dims) -> UNION {indices[k] : k \in 1 .. Len(dims)}] :
                      \A k \in DOMAIN ix : ix[k] \in indices[k]})

\* The number of bytes of a value, bytes being that of the types it is made of; an
\* array without a bound is passed as a pointer.
BytesOf(type, bytes, lang) ==
    CASE type.tag = "sized" -> type.size
      [] type.tag = "named" -> bytes[type.of]
      [] type.tag = "array" /\ type.dims[1].upper = NoBound -> PtrSize
      [] type.tag = "array" /\ type.dims[1].upper # NoBound /\ HasConstants(type.dims) ->
           Elements(type.dims, lang) * bytes[type.of]
      [] OTHER -> 0

Extent(t, lang) ==
    LET bytes[u \in DOMAIN TypeDie] == BytesOf(TypeDie[u], bytes, lang)
    IN bytes[t]

\* The types made of nothing but the given ones.
MadeOf(types) ==
    {t \in types : \E ts \in SUBSET types :
        t \in ts /\ \A u \in ts : TypeDie[u].tag \in {"named", "array"} => TypeDie[u].of \in ts}

\* If t is an array that is no pointer, its bounds are constants and it starts, in every
\* dimension, at or above the index that getSize presumes, or at or below it.
IsCounted(t) == TypeDie[t].tag = "array" /\ TypeDie[t].dims[1].upper # NoBound
StartsAbove(t, lang) == IsCounted(t) =>
    LET dims == TypeDie[t].dims
    IN HasConstants(dims) /\ \A k \in DOMAIN dims : First(dims[k], lang) >= Presumed(lang)
StartsBelow(t, lang) == IsCounted(t) =>
    LET dims == TypeDie[t].dims
    IN HasConstants(dims) /\ \A k \in DOMAIN dims : First(dims[k], lang) <= Presumed(lang)

\* The types of which this holds, and of all that they are made of.
Above == [lang \in Lang |-> MadeOf({t \in DOMAIN TypeDie : StartsAbove(t, lang)})]
Below == [lang \in Lang |-> MadeOf({t \in DOMAIN TypeDie : StartsBelow(t, lang)})]

\* getSize looks at no lower bound: the size of a variable is no less than its extent
\* when its arrays start above the index it presumes, and no more when they start
\* below, so that it is the extent of the arrays that start there, of any number of
\* dimensions in either language. A parameter that is an array is a pointer, and a
\* variable recorded as an array of elements is tiled by them.
SizeAndExtent ==
    \A d \in DOMAIN vars :
        LET t == dies[d].type
            lang == LangOf(d)
        IN /\ IsArray(dies[d]) /\ dies[d].tag = "param" => vars[d].size = PtrSize
           /\ ~(IsArray(dies[d]) /\ dies[d].tag = "param") =>
                /\ t \in Above[lang] => vars[d].size >= Extent(t, lang)
                /\ t \in Below[lang] => vars[d].size <= Extent(t, lang)
           /\ vars[d].typeSize # 0 /\ vars[d].size % vars[d].typeSize = 0

\* A variable of a named function with an rsp frame base that has a place in the
\* frame, or a shared one with a place.
Known(d) == LET entries == Entries(dies[d].loc)
                f == Innermost(d, {"func"})
            IN /\ dies[d].tag \in {"var", "param"} /\ GetSize(dies[d], LangOf(d)) # 0
               /\ \/ IsShared(d) /\ entries # <<>>
                  \/ /\ ~IsShared(d)
                     /\ \E e \in Range(entries) : e.reg = "fbreg"
                     /\ Symbol(f) # NoName /\ HasRspBase(f)

\* From the tree to the context: the variables that the tool can attribute an
\* access to are exactly the known ones, each once, under its own function, with
\* the place its DIE names and the size that ExecContext will compare addresses
\* with (walkTree, getSize, LocInfo, toDbg).
ExactlyTheKnown ==
    /\ ScopesAreEnclosing
    /\ SizeAndExtent
    /\ \A c \in {tool, query} :
        c # Context =>
            /\ phase # "loading" => {v.die : v \in c.vars} = {d \in 1 .. Len(dies) : Known(d)}
            /\ \A v, w \in c.vars : v.die = w.die => v = w
            /\ \A v \in c.vars :
                 /\ \E op \in Range(dies[v.die].loc) :
                      /\ op.reg = IF v.type = "Static" THEN "addr" ELSE "fbreg"
                      /\ op.off \in -IntLimit .. IntLimit - 1 => v.stackOffset = op.off
                 /\ v.parent # NoFunc =>
                      v.parent = Symbol(Innermost(v.die, {"func"}))

\* The structures of a context agree after every operation, the move and the load
\* included: a function lists exactly its variables, each once, and the pointers
\* by id lead to every function and variable (addFunc, addVar, operator=, load).
PointersAgree ==
    \A c \in {conv, tool, query} :
        /\ \A n \in DOMAIN c.funcs :
             /\ Range(c.funcs[n].vars) = {v.id : v \in {w \in c.vars : w.parent = n}}
             /\ IsInjective(c.funcs[n].vars)
        /\ DOMAIN c.idFuncs = {c.funcs[n].id : n \in DOMAIN c.funcs}
        /\ \A n \in DOMAIN c.funcs : c.idFuncs[c.funcs[n].id] = n
        /\ DOMAIN c.idVars = {v.id : v \in c.vars}
        /\ \A v \in c.vars : c.idVars[v.id] = v

\* The events on file name functions and variables by the ids that the tool gave
\* them: the query finds the same function, variable and source line under each
\* (save, load), and the contexts are whole all the way to there.
QueryFindsTheSame ==
    /\ PointersAgree
    /\ phase = "loaded" =>
         /\ query.idVars = tool.idVars
         /\ query.idFuncs = tool.idFuncs
         /\ query.instBindings = tool.instBindings
         /\ \A n \in DOMAIN tool.funcs : query.funcs[n].stackOffset = tool.funcs[n].stackOffset

\* The assertion of addFunc (debugcontext.cpp:57) ends the tool for no other reason
\* than two functions of the binary that have one name, and then it does.
Twins == \E d, e \in 1 .. Len(dies) :
            /\ d # e /\ \A x \in {d, e} : dies[x].tag = "func"
            /\ Symbol(d) = Symbol(e) /\ Symbol(d) # NoName
            /\ HasRspBase(d) /\ HasRspBase(e)

AbortsOnTwins == /\ phase = "aborted" => Twins
                 /\ phase \in {"globals", "run", "saved", "loading", "loaded"} => ~Twins
=============================================================================
