-------------------------- MODULE DebugInfo_proofs --------------------------
(***************************************************************************)
(* The debug information from the binary to the query, for binaries of any *)
(* size: in each context the two ways to a function or a variable, by name *)
(* or in the set and by id, agree, what the query loads under an id is     *)
(* what the tool had there, and the variables are those that the tree of   *)
(* DIEs says can be known, with their functions, places and sizes.         *)
(***************************************************************************)
EXTENDS DebugInfo, CallStack_proofs, FiniteSetTheorems, TLAPS

-----------------------------------------------------------------------------
(* A context *)

IsFcn(f) == f = [x \in DOMAIN f |-> f[x]]

IsContext(c) == \E fs, ids, vs, idvs, bs :
                    c = [funcs |-> fs, idFuncs |-> ids, vars |-> vs, idVars |-> idvs, instBindings |-> bs]

IsFunc(f) == /\ f = [id |-> f.id, name |-> f.name, vars |-> f.vars, stackOffset |-> f.stackOffset]
             /\ f.id \in Nat /\ f.vars \in Seq(Nat)

IsVar(v) == /\ v = [id |-> v.id, die |-> v.die, type |-> v.type, stackOffset |-> v.stackOffset,
                    parent |-> v.parent, size |-> v.size, typeSize |-> v.typeSize]
            /\ v.id \in Nat

FuncsAgree(c) ==
    /\ IsFcn(c.funcs) /\ IsFcn(c.idFuncs) /\ NoFunc \notin DOMAIN c.funcs
    /\ \A n \in DOMAIN c.funcs : IsFunc(c.funcs[n]) /\ c.funcs[n].name = n
    /\ DOMAIN c.idFuncs = {c.funcs[n].id : n \in DOMAIN c.funcs}
    /\ \A n \in DOMAIN c.funcs : c.idFuncs[c.funcs[n].id] = n

VarsAgree(c) ==
    /\ IsFcn(c.idVars)
    /\ \A v \in c.vars : IsVar(v) /\ v.parent \in DOMAIN c.funcs \cup {NoFunc}
    /\ DOMAIN c.idVars = {v.id : v \in c.vars}
    /\ \A v \in c.vars : c.idVars[v.id] = v

\* Each function has a list of the ids of its variables.
ListsAgree(c) ==
    \A n \in DOMAIN c.funcs :
        /\ \A i \in 1 .. Len(c.funcs[n].vars) :
             \E v \in c.vars : v.parent = n /\ v.id = c.funcs[n].vars[i]
        /\ \A v \in c.vars : v.parent = n => \E i \in 1 .. Len(c.funcs[n].vars) : v.id = c.funcs[n].vars[i]
        /\ \A i, j \in 1 .. Len(c.funcs[n].vars) : c.funcs[n].vars[i] = c.funcs[n].vars[j] => i = j

Agree(c) == IsContext(c) /\ FuncsAgree(c) /\ VarsAgree(c) /\ ListsAgree(c)

\* A context begins whole.
LEMMA ContextAgrees == Agree(Context)
<1>1. /\ Context.vars = {} /\ Context.funcs = Empty /\ Context.idFuncs = Empty
      /\ Context.idVars = Empty /\ IsContext(Context)
  BY DEF Context, IsContext
<1>2. DOMAIN Empty = {} /\ IsFcn(Empty)
  BY DEF Empty, IsFcn
<1>3. QED
  BY <1>1, <1>2 DEF Agree, FuncsAgree, VarsAgree, ListsAgree

\* addFunc keeps a context whole, if neither the name nor the id is in use.
LEMMA PutFuncAgrees ==
    ASSUME NEW c, Agree(c), NEW f, IsFunc(f), f.vars = <<>>, f.name # NoFunc,
           f.name \notin DOMAIN c.funcs, f.id \notin DOMAIN c.idFuncs
    PROVE  LET d == PutFunc(c, f)
           IN /\ Agree(d) /\ d.vars = c.vars /\ DOMAIN d.funcs = DOMAIN c.funcs \cup {f.name}
              /\ d.idVars = c.idVars /\ d.instBindings = c.instBindings
              /\ d.funcs[f.name] = f /\ \A n \in DOMAIN c.funcs : d.funcs[n] = c.funcs[n]
<1> DEFINE d == PutFunc(c, f)
<1>1. /\ IsContext(d) /\ d.vars = c.vars /\ d.idVars = c.idVars /\ d.instBindings = c.instBindings
      /\ d.funcs = Put(c.funcs, f.name, f) /\ d.idFuncs = Put(c.idFuncs, f.id, f.name)
  <2>1. PICK fs, ids, vs, idvs, bs :
           c = [funcs |-> fs, idFuncs |-> ids, vars |-> vs, idVars |-> idvs, instBindings |-> bs]
    BY DEF Agree, IsContext
  <2>2. PICK name, id : name = f.name /\ id = f.id
    OBVIOUS
  <2>3. d = [funcs |-> Put(fs, name, f), idFuncs |-> Put(ids, id, name), vars |-> vs, idVars |-> idvs,
             instBindings |-> bs]
    <3>1. PICK p, q : p = Put(fs, name, f) /\ q = Put(ids, id, name)
      OBVIOUS
    <3>2. c.funcs = fs /\ c.idFuncs = ids
      BY <2>1
    <3>3. Put(c.funcs, f.name, f) = p /\ Put(c.idFuncs, f.id, f.name) = q
      BY <3>1, <3>2, <2>2, Zenon
    <3>4. d = [[c EXCEPT !.funcs = p] EXCEPT !.idFuncs = q]
      BY <3>3, Zenon DEF PutFunc
    <3> HIDE DEF d
    <3>5. d = [funcs |-> p, idFuncs |-> q, vars |-> vs, idVars |-> idvs, instBindings |-> bs]
      BY <3>4, <2>1
    <3>6. QED
      BY <3>5, <3>1
  <2> HIDE DEF d
  <2>4. QED
    BY <2>1, <2>2, <2>3 DEF IsContext
<1> HIDE DEF d
<1>2. /\ IsFcn(d.funcs) /\ DOMAIN d.funcs = DOMAIN c.funcs \cup {f.name} /\ d.funcs[f.name] = f
      /\ \A n \in DOMAIN c.funcs : d.funcs[n] = c.funcs[n]
  <2>1. PICK fs, name : fs = c.funcs /\ name = f.name /\ name \notin DOMAIN fs
    OBVIOUS
  <2>2. d.funcs = Put(fs, name, f)
    BY <1>1, <2>1
  <2>3. /\ IsFcn(d.funcs) /\ DOMAIN d.funcs = DOMAIN fs \cup {name} /\ d.funcs[name] = f
        /\ \A z \in DOMAIN fs : z # name => d.funcs[z] = fs[z]
    BY <2>2 DEF Put, IsFcn
  <2>4. QED
    BY <2>1, <2>3
<1>3. /\ IsFcn(d.idFuncs) /\ DOMAIN d.idFuncs = DOMAIN c.idFuncs \cup {f.id}
      /\ d.idFuncs[f.id] = f.name
      /\ \A i \in DOMAIN c.idFuncs : d.idFuncs[i] = c.idFuncs[i]
  <2>1. PICK ids, id, name : ids = c.idFuncs /\ id = f.id /\ name = f.name /\ id \notin DOMAIN ids
    OBVIOUS
  <2>2. d.idFuncs = Put(ids, id, name)
    BY <1>1, <2>1
  <2>3. /\ IsFcn(d.idFuncs) /\ DOMAIN d.idFuncs = DOMAIN ids \cup {id} /\ d.idFuncs[id] = name
        /\ \A z \in DOMAIN ids : z # id => d.idFuncs[z] = ids[z]
    BY <2>2 DEF Put, IsFcn
  <2>4. QED
    BY <2>1, <2>3
<1>4. FuncsAgree(d)
  <2>1. \A n \in DOMAIN c.funcs : c.funcs[n].id \in DOMAIN c.idFuncs
    BY DEF Agree, FuncsAgree
  <2>2. DOMAIN d.idFuncs = {d.funcs[n].id : n \in DOMAIN d.funcs}
    BY <1>2, <1>3 DEF Agree, FuncsAgree
  <2>3. \A n \in DOMAIN d.funcs : d.idFuncs[d.funcs[n].id] = n
    BY <2>1, <1>2, <1>3 DEF Agree, FuncsAgree
  <2>4. \A n \in DOMAIN d.funcs : IsFunc(d.funcs[n]) /\ d.funcs[n].name = n /\ n # NoFunc
    BY <1>2 DEF Agree, FuncsAgree
  <2>5. QED
    BY <2>2, <2>3, <2>4, <1>2, <1>3 DEF FuncsAgree
<1>5. VarsAgree(d)
  BY <1>1, <1>2 DEF Agree, VarsAgree
<1>6. ListsAgree(d)
  <2>1. \A v \in c.vars : v.parent # f.name
    BY DEF Agree, VarsAgree
  <2>2. ASSUME NEW n \in DOMAIN d.funcs
        PROVE  /\ \A i \in 1 .. Len(d.funcs[n].vars) :
                    \E v \in c.vars : v.parent = n /\ v.id = d.funcs[n].vars[i]
               /\ \A v \in c.vars : v.parent = n =>
                    \E i \in 1 .. Len(d.funcs[n].vars) : v.id = d.funcs[n].vars[i]
               /\ \A i, j \in 1 .. Len(d.funcs[n].vars) :
                    d.funcs[n].vars[i] = d.funcs[n].vars[j] => i = j
    <3>1. CASE n = f.name
      BY <3>1, <2>1, <1>2
    <3>2. CASE n # f.name
      <4>1. n \in DOMAIN c.funcs /\ d.funcs[n] = c.funcs[n]
        BY <3>2, <1>2
      <4>2. QED
        BY <4>1 DEF Agree, ListsAgree
    <3>3. QED
      BY <3>1, <3>2
  <2>3. QED
    BY <2>2, <1>1 DEF ListsAgree
<1>7. QED
  BY <1>1, <1>2, <1>4, <1>5, <1>6 DEF Agree, d

\* addVar keeps a context whole, if the id is not in use and the function is known.
LEMMA PutVarAgrees ==
    ASSUME NEW c, Agree(c), NEW v, IsVar(v), v.parent \in DOMAIN c.funcs \cup {NoFunc},
           v.id \notin DOMAIN c.idVars
    PROVE  LET d == PutVar(c, v)
           IN /\ Agree(d) /\ d.vars = c.vars \cup {v} /\ DOMAIN d.funcs = DOMAIN c.funcs
              /\ d.idFuncs = c.idFuncs /\ d.instBindings = c.instBindings
              /\ \A n \in DOMAIN c.funcs : /\ d.funcs[n].id = c.funcs[n].id
                                           /\ d.funcs[n].stackOffset = c.funcs[n].stackOffset
<1> DEFINE d == PutVar(c, v)
<1>1. /\ IsContext(d) /\ d.vars = c.vars \cup {v} /\ d.idFuncs = c.idFuncs
      /\ d.instBindings = c.instBindings /\ d.idVars = Put(c.idVars, v.id, v)
      /\ d.funcs = IF v.parent = NoFunc THEN c.funcs
                   ELSE [c.funcs EXCEPT ![v.parent].vars = Append(@, v.id)]
  <2>1. PICK fs, ids, vs, idvs, bs :
           c = [funcs |-> fs, idFuncs |-> ids, vars |-> vs, idVars |-> idvs, instBindings |-> bs]
    BY DEF Agree, IsContext
  <2>2. PICK gs : gs = IF v.parent = NoFunc THEN fs ELSE [fs EXCEPT ![v.parent].vars = Append(@, v.id)]
    OBVIOUS
  <2>3. PICK id : id = v.id
    OBVIOUS
  <2>4. d = [funcs |-> gs, idFuncs |-> ids, vars |-> vs \cup {v}, idVars |-> Put(idvs, id, v),
             instBindings |-> bs]
    <3>1. PICK p : p = Put(idvs, id, v)
      OBVIOUS
    <3>2. c.funcs = fs /\ c.idVars = idvs
      BY <2>1
    <3>3. Put(c.idVars, v.id, v) = p
      BY <3>1, <3>2, <2>3, Zenon
    <3>4. d = [[[c EXCEPT !.vars = c.vars \cup {v}] EXCEPT !.funcs = gs] EXCEPT !.idVars = p]
      BY <3>2, <3>3, <2>2 DEF PutVar
    <3> HIDE DEF d
    <3>5. d = [funcs |-> gs, idFuncs |-> ids, vars |-> vs \cup {v}, idVars |-> p,
               instBindings |-> bs]
      BY <3>4, <2>1
    <3>6. QED
      BY <3>5, <3>1
  <2> HIDE DEF d
  <2>5. /\ IsContext(d) /\ d.vars = vs \cup {v} /\ d.idFuncs = ids /\ d.instBindings = bs
        /\ d.idVars = Put(idvs, id, v) /\ d.funcs = gs
    BY <2>4 DEF IsContext
  <2>6. c.vars = vs /\ c.idFuncs = ids /\ c.instBindings = bs /\ c.idVars = idvs /\ c.funcs = fs
    BY <2>1
  <2>7. d.funcs = IF v.parent = NoFunc THEN c.funcs
                  ELSE [c.funcs EXCEPT ![v.parent].vars = Append(@, v.id)]
    BY <2>2, <2>5, <2>6
  <2>8. QED
    BY <2>3, <2>5, <2>6, <2>7
<1> HIDE DEF d
<1>2. /\ IsFcn(d.idVars) /\ DOMAIN d.idVars = DOMAIN c.idVars \cup {v.id} /\ d.idVars[v.id] = v
      /\ \A i \in DOMAIN c.idVars : d.idVars[i] = c.idVars[i]
  <2>1. PICK ids, id : ids = c.idVars /\ id = v.id /\ id \notin DOMAIN ids
    OBVIOUS
  <2>2. d.idVars = Put(ids, id, v)
    BY <1>1, <2>1
  <2>3. /\ IsFcn(d.idVars) /\ DOMAIN d.idVars = DOMAIN ids \cup {id} /\ d.idVars[id] = v
        /\ \A z \in DOMAIN ids : z # id => d.idVars[z] = ids[z]
    BY <2>2 DEF Put, IsFcn
  <2>4. QED
    BY <2>1, <2>3
<1>3. /\ IsFcn(c.funcs) /\ NoFunc \notin DOMAIN c.funcs
      /\ \A n \in DOMAIN c.funcs : IsFunc(c.funcs[n]) /\ c.funcs[n].name = n
  BY DEF Agree, FuncsAgree
<1>4. /\ IsFcn(d.funcs) /\ DOMAIN d.funcs = DOMAIN c.funcs
      /\ \A n \in DOMAIN c.funcs :
           d.funcs[n] = IF n = v.parent
                        THEN [c.funcs[n] EXCEPT !.vars = Append(c.funcs[n].vars, v.id)]
                        ELSE c.funcs[n]
  <2>1. CASE v.parent = NoFunc
    <3>1. d.funcs = c.funcs /\ \A n \in DOMAIN c.funcs : n # v.parent
      BY <2>1, <1>1, <1>3
    <3>2. QED
      BY <3>1, <1>3
  <2>2. CASE v.parent # NoFunc
    <3>1. d.funcs = [c.funcs EXCEPT ![v.parent] =
                       [c.funcs[v.parent] EXCEPT !.vars = Append(c.funcs[v.parent].vars, v.id)]]
      BY <2>2, <1>1
    <3>2. QED
      BY <3>1 DEF IsFcn
  <2>3. QED
    BY <2>1, <2>2
<1>5. \A n \in DOMAIN c.funcs :
        /\ IsFunc(d.funcs[n]) /\ d.funcs[n].name = n
        /\ d.funcs[n].id = c.funcs[n].id /\ d.funcs[n].stackOffset = c.funcs[n].stackOffset
        /\ d.funcs[n].vars = IF n = v.parent THEN Append(c.funcs[n].vars, v.id) ELSE c.funcs[n].vars
  <2>1. ASSUME NEW n \in DOMAIN c.funcs, n = v.parent
        PROVE  /\ IsFunc(d.funcs[n]) /\ d.funcs[n].name = n
               /\ d.funcs[n].id = c.funcs[n].id /\ d.funcs[n].stackOffset = c.funcs[n].stackOffset
               /\ d.funcs[n].vars = Append(c.funcs[n].vars, v.id)
    <3>1. PICK g : g = c.funcs[n]
      OBVIOUS
    <3>2. IsFunc(g) /\ g.name = n
      BY <3>1, <1>3
    <3>3. d.funcs[n] = [g EXCEPT !.vars = Append(g.vars, v.id)]
      BY <3>1, <2>1, <1>4
    <3>4. Append(g.vars, v.id) \in Seq(Nat)
      BY <3>2 DEF IsFunc, IsVar
    <3>5. d.funcs[n] = [id |-> g.id, name |-> g.name, vars |-> Append(g.vars, v.id),
                        stackOffset |-> g.stackOffset]
      BY <3>2, <3>3 DEF IsFunc
    <3>6. QED
      BY <3>1, <3>2, <3>4, <3>5 DEF IsFunc
  <2>2. QED
    BY <2>1, <1>3, <1>4
<1>6. FuncsAgree(d)
  <2>1. /\ IsFcn(c.idFuncs) /\ DOMAIN c.idFuncs = {c.funcs[n].id : n \in DOMAIN c.funcs}
        /\ \A n \in DOMAIN c.funcs : c.idFuncs[c.funcs[n].id] = n
    BY DEF Agree, FuncsAgree
  <2>2. {d.funcs[n].id : n \in DOMAIN d.funcs} = {c.funcs[n].id : n \in DOMAIN c.funcs}
    BY <1>4, <1>5
  <2>3. DOMAIN d.idFuncs = {d.funcs[n].id : n \in DOMAIN d.funcs}
    BY <2>1, <2>2, <1>1
  <2>4. \A n \in DOMAIN d.funcs : d.idFuncs[d.funcs[n].id] = n
    BY <2>1, <1>1, <1>4, <1>5
  <2>5. QED
    BY <2>1, <2>3, <2>4, <1>1, <1>3, <1>4, <1>5 DEF FuncsAgree
<1>7. VarsAgree(d)
  <2>1. DOMAIN d.idVars = {w.id : w \in d.vars}
    BY <1>1, <1>2 DEF Agree, VarsAgree
  <2>2. \A w \in d.vars : d.idVars[w.id] = w
    <3>1. \A w \in c.vars : w.id \in DOMAIN c.idVars /\ c.idVars[w.id] = w
      BY DEF Agree, VarsAgree
    <3>2. QED
      BY <3>1, <1>1, <1>2
  <2>3. QED
    BY <2>1, <2>2, <1>1, <1>2, <1>4 DEF Agree, VarsAgree
<1>8. ListsAgree(d)
  <2> SUFFICES ASSUME NEW n \in DOMAIN c.funcs
               PROVE  /\ \A i \in 1 .. Len(d.funcs[n].vars) :
                           \E w \in d.vars : w.parent = n /\ w.id = d.funcs[n].vars[i]
                      /\ \A w \in d.vars : w.parent = n =>
                           \E i \in 1 .. Len(d.funcs[n].vars) : w.id = d.funcs[n].vars[i]
                      /\ \A i, j \in 1 .. Len(d.funcs[n].vars) :
                           d.funcs[n].vars[i] = d.funcs[n].vars[j] => i = j
    BY <1>4 DEF ListsAgree
  <2>1. PICK old : old = c.funcs[n].vars
    OBVIOUS
  <2>2. PICK new : new = d.funcs[n].vars
    OBVIOUS
  <2>3. /\ old \in Seq(Nat) /\ new = (IF n = v.parent THEN Append(old, v.id) ELSE old)
    BY <2>1, <2>2, <1>3, <1>5 DEF IsFunc
  <2>4. /\ \A i \in 1 .. Len(old) : \E w \in c.vars : w.parent = n /\ w.id = old[i]
        /\ \A w \in c.vars : w.parent = n => \E i \in 1 .. Len(old) : w.id = old[i]
        /\ \A i, j \in 1 .. Len(old) : old[i] = old[j] => i = j
    BY <2>1 DEF Agree, ListsAgree
  <2>5. CASE n # v.parent
    BY <2>2, <2>3, <2>4, <2>5, <1>1
  <2>6. CASE n = v.parent
    <3>1. /\ Len(new) = Len(old) + 1 /\ new[Len(old) + 1] = v.id /\ Len(old) \in Nat
          /\ \A i \in 1 .. Len(old) : new[i] = old[i]
      BY <2>3, <2>6 DEF IsVar
    <3>2. \A i \in 1 .. Len(old) : old[i] # v.id
      <4>1. \A w \in c.vars : w.id \in DOMAIN c.idVars
        BY DEF Agree, VarsAgree
      <4>2. QED
        BY <4>1, <2>4
    <3>3. \A i \in 1 .. Len(new) : i \in 1 .. Len(old) \/ i = Len(old) + 1
      BY <3>1
    <3>4. \A i \in 1 .. Len(new) : \E w \in d.vars : w.parent = n /\ w.id = new[i]
      BY <3>1, <3>3, <2>4, <2>6, <1>1
    <3>5. \A w \in d.vars : w.parent = n => \E i \in 1 .. Len(new) : w.id = new[i]
      BY <3>1, <2>4, <2>6, <1>1
    <3>6. \A i, j \in 1 .. Len(new) : new[i] = new[j] => i = j
      BY <3>1, <3>2, <3>3, <2>4
    <3>7. QED
      BY <3>4, <3>5, <3>6, <2>2
  <2>7. QED
    BY <2>5, <2>6
<1>9. QED
  BY <1>1, <1>4, <1>5, <1>6, <1>7, <1>8 DEF Agree, d

-----------------------------------------------------------------------------
(* The walk *)

ReadDie == {[k EXCEPT !.parent = p] : k \in Die, p \in Nat}

\* What the walk keeps of the DIE of a function, with the variables listed in it
FuncOf(die, list) == [name |-> die.name, linkageName |-> die.linkageName,
                      entries |-> Entries(die.loc), vars |-> list]

\* The functions collected are those of the tree, and each lists variables of its own.
Tree ==
    /\ dies \in Seq(ReadDie)
    /\ DOMAIN walkInfo = 1 .. Len(dies) /\ DOMAIN vars \subseteq 1 .. Len(dies)
    /\ DOMAIN funcs = {d \in 1 .. Len(dies) : dies[d].tag = "func"}
    /\ \A d \in DOMAIN funcs :
         \E list \in Seq(Nat) :
            /\ funcs[d] = FuncOf(dies[d], list)
            /\ \A i \in 1 .. Len(list) : list[i] \in DOMAIN vars /\ vars[list[i]].parent = d

\* Put adds one place.
LEMMA PutDomain ==
    ASSUME NEW f, NEW x, NEW y
    PROVE  DOMAIN Put(f, x, y) = DOMAIN f \cup {x}
  BY DEF Put

\* A call of walkTree adds a DIE and what it collects of it.
LEMMA WalkKeepsTree ==
    ASSUME Tree, Walk
    PROVE  Tree'
<1>1. PICK parent \in 0 .. Len(dies), k \in Die : WalkTree(parent, k)
  BY DEF Walk
<1>2. PICK n : n = Len(dies)
  OBVIOUS
<1>3. n \in Nat /\ dies \in Seq(ReadDie)
  BY <1>2 DEF Tree
<1>4. PICK die : die = [k EXCEPT !.parent = parent]
  OBVIOUS
<1>5. PICK info : info = InfoOf(die)
  OBVIOUS
<1>6. /\ dies' = Append(dies, die)
      /\ CASE die.tag = "func" -> AddFunc(n + 1, die)
           [] die.tag \in {"var", "param"} /\ GetSize(die, info.lang) # 0 -> AddVar(n + 1, die, info)
           [] OTHER -> UNCHANGED <<funcs, vars>>
      /\ walkInfo' = Put(walkInfo, n + 1, ChildInfo(n + 1, die, info))
  BY <1>1, <1>2, <1>4, <1>5, Zenon DEF WalkTree
<1>7. die \in ReadDie
  BY <1>4, <1>2, <1>3 DEF ReadDie
<1>8. /\ dies' \in Seq(ReadDie) /\ Len(dies') = n + 1 /\ dies'[n + 1] = die
      /\ \A d \in 1 .. n : dies'[d] = dies[d]
  BY <1>2, <1>3, <1>6, <1>7
<1>9. DOMAIN walkInfo' = 1 .. n + 1
  <2>1. DOMAIN walkInfo' = DOMAIN walkInfo \cup {n + 1}
    BY <1>6, PutDomain
  <2>2. QED
    BY <2>1, <1>2, <1>3 DEF Tree
<1>10. /\ DOMAIN vars \subseteq 1 .. n /\ DOMAIN funcs = {d \in 1 .. n : dies[d].tag = "func"}
       /\ \A d \in DOMAIN funcs :
            \E list \in Seq(Nat) :
               /\ funcs[d] = FuncOf(dies[d], list)
               /\ \A i \in 1 .. Len(list) : list[i] \in DOMAIN vars /\ vars[list[i]].parent = d
  BY <1>2 DEF Tree
<1>11. CASE die.tag = "func"
  <2>1. /\ funcs' = Put(funcs, n + 1, FuncOf(die, <<>>)) /\ vars' = vars
    BY <1>6, <1>11 DEF AddFunc, FuncOf
  <2>2. /\ DOMAIN funcs' = DOMAIN funcs \cup {n + 1} /\ funcs'[n + 1] = FuncOf(die, <<>>)
        /\ \A d \in DOMAIN funcs : d # n + 1 => funcs'[d] = funcs[d]
    BY <2>1 DEF Put
  <2>3. DOMAIN funcs' = {d \in 1 .. n + 1 : dies'[d].tag = "func"}
    <3>1. DOMAIN funcs = {d \in 1 .. n : dies[d].tag = "func"}
      BY <1>10
    <3>2. \A d \in 1 .. n + 1 : d \in 1 .. n \/ d = n + 1
      BY <1>3
    <3>3. \A d \in 1 .. n : d \in 1 .. n + 1
      BY <1>3
    <3>4. n + 1 \in 1 .. n + 1
      BY <1>3
    <3>5. QED
      BY <3>1, <3>2, <3>3, <3>4, <2>2, <1>8, <1>11
  <2>4. ASSUME NEW d \in DOMAIN funcs'
        PROVE  \E list \in Seq(Nat) :
                  /\ funcs'[d] = FuncOf(dies'[d], list)
                  /\ \A i \in 1 .. Len(list) : list[i] \in DOMAIN vars' /\ vars'[list[i]].parent = d
    <3>1. CASE d = n + 1
      <4>1. funcs'[d] = FuncOf(dies'[d], <<>>)
        BY <3>1, <2>2, <1>8
      <4>2. <<>> \in Seq(Nat) /\ Len(<<>>) = 0
        OBVIOUS
      <4>3. PICK none : none = <<>>
        OBVIOUS
      <4>4. none \in Seq(Nat) /\ funcs'[d] = FuncOf(dies'[d], none) /\ Len(none) = 0
        BY <4>1, <4>2, <4>3
      <4>5. \A i \in 1 .. Len(none) : FALSE
        BY <4>4
      <4>6. QED
        BY <4>4, <4>5
    <3>2. CASE d # n + 1
      <4>1. d \in DOMAIN funcs /\ d \in 1 .. n /\ funcs'[d] = funcs[d] /\ dies'[d] = dies[d]
        BY <3>2, <2>2, <1>8, <1>10
      <4>2. QED
        BY <4>1, <2>1, <1>10
    <3>3. QED
      BY <3>1, <3>2
  <2>5. DOMAIN vars' \subseteq 1 .. n + 1
    BY <2>1, <1>3, <1>10
  <2>6. QED
    BY <2>3, <2>4, <2>5, <1>8, <1>9 DEF Tree
<1>12. CASE die.tag # "func" /\ UNCHANGED <<funcs, vars>>
  <2>1. DOMAIN funcs' = {d \in 1 .. n + 1 : dies'[d].tag = "func"}
    BY <1>3, <1>8, <1>10, <1>12
  <2>2. ASSUME NEW d \in DOMAIN funcs'
        PROVE  \E list \in Seq(Nat) :
                  /\ funcs'[d] = FuncOf(dies'[d], list)
                  /\ \A i \in 1 .. Len(list) : list[i] \in DOMAIN vars' /\ vars'[list[i]].parent = d
    <3>1. d \in DOMAIN funcs /\ funcs'[d] = funcs[d] /\ dies'[d] = dies[d]
      BY <1>8, <1>10, <1>12
    <3>2. QED
      BY <3>1, <1>10, <1>12
  <2>3. DOMAIN vars' \subseteq 1 .. n + 1
    BY <1>3, <1>10, <1>12
  <2>4. QED
    BY <2>1, <2>2, <2>3, <1>8, <1>9 DEF Tree
<1>13. CASE die.tag # "func" /\ AddVar(n + 1, die, info)
  <2>1. PICK parent1, rec : /\ vars' = Put(vars, n + 1, rec) /\ rec.parent = parent1
                            /\ funcs' = IF parent1 = 0 THEN funcs
                                        ELSE [funcs EXCEPT ![parent1].vars = Append(@, n + 1)]
    <3>1. PICK parent1 : parent1 = IF info.storageType = "Static" THEN 0 ELSE info.lastFuncDie
      OBVIOUS
    <3>2. PICK rec : rec = [type |-> info.storageType, parent |-> parent1,
                            size |-> GetSize(die, info.lang),
                            typeSize |-> GetTypeSize(die, info.lang),
                            entries |-> Entries(die.loc)]
      OBVIOUS
    <3>3. vars' = Put(vars, n + 1, rec)
      BY <1>13, <3>1, <3>2, Zenon DEF AddVar
    <3>4. funcs' = IF parent1 = 0 THEN funcs
                   ELSE [funcs EXCEPT ![parent1].vars = Append(@, n + 1)]
      BY <1>13, <3>1, Zenon DEF AddVar
    <3>5. rec.parent = parent1
      BY <3>2
    <3>6. QED
      BY <3>3, <3>4, <3>5
  <2>2. /\ DOMAIN vars' = DOMAIN vars \cup {n + 1} /\ vars'[n + 1].parent = parent1
        /\ \A v \in DOMAIN vars : v # n + 1 => vars'[v] = vars[v]
    BY <2>1 DEF Put
  <2>3. \A v \in DOMAIN vars : v \in DOMAIN vars' /\ vars'[v] = vars[v]
    BY <2>2, <1>3, <1>10
  <2>4. DOMAIN funcs' = DOMAIN funcs
    BY <2>1
  <2>5. DOMAIN funcs' = {d \in 1 .. n + 1 : dies'[d].tag = "func"}
    BY <2>4, <1>3, <1>8, <1>10, <1>13
  <2>6. ASSUME NEW d \in DOMAIN funcs
        PROVE  \E list \in Seq(Nat) :
                  /\ funcs'[d] = FuncOf(dies'[d], list)
                  /\ \A i \in 1 .. Len(list) : list[i] \in DOMAIN vars' /\ vars'[list[i]].parent = d
    <3>1. PICK list \in Seq(Nat) :
             /\ funcs[d] = FuncOf(dies[d], list)
             /\ \A i \in 1 .. Len(list) : list[i] \in DOMAIN vars /\ vars[list[i]].parent = d
      BY <1>10
    <3>2. dies'[d] = dies[d]
      BY <1>8, <1>10
    <3>3. CASE parent1 = d /\ parent1 # 0
      <4>1. PICK more : more = Append(list, n + 1)
        OBVIOUS
      <4>2. /\ more \in Seq(Nat) /\ Len(more) = Len(list) + 1 /\ more[Len(list) + 1] = n + 1
            /\ Len(list) \in Nat /\ \A i \in 1 .. Len(list) : more[i] = list[i]
        BY <4>1, <1>3
      <4>3. funcs'[d] = [funcs[d] EXCEPT !.vars = Append(funcs[d].vars, n + 1)]
        BY <2>1, <3>3
      <4>4. funcs'[d] = FuncOf(dies[d], more)
        <5>1. PICK nm, ln, es : nm = dies[d].name /\ ln = dies[d].linkageName /\ es = Entries(dies[d].loc)
          OBVIOUS
        <5>2. funcs[d] = [name |-> nm, linkageName |-> ln, entries |-> es, vars |-> list]
          BY <5>1, <3>1 DEF FuncOf
        <5>3. funcs[d].vars = list
          BY <5>2
        <5>4. funcs'[d] = [[name |-> nm, linkageName |-> ln, entries |-> es, vars |-> list]
                             EXCEPT !.vars = more]
          BY <5>2, <5>3, <4>1, <4>3
        <5>5. funcs'[d] = [name |-> nm, linkageName |-> ln, entries |-> es, vars |-> more]
          BY <5>4
        <5>6. QED
          BY <5>1, <5>5 DEF FuncOf
      <4>5. \A i \in 1 .. Len(more) : i \in 1 .. Len(list) \/ i = Len(list) + 1
        BY <4>2
      <4>6. \A i \in 1 .. Len(more) : more[i] \in DOMAIN vars' /\ vars'[more[i]].parent = d
        <5>1. \A i \in 1 .. Len(list) : more[i] \in DOMAIN vars' /\ vars'[more[i]].parent = d
          BY <4>2, <3>1, <2>3
        <5>2. more[Len(list) + 1] \in DOMAIN vars' /\ vars'[more[Len(list) + 1]].parent = d
          BY <4>2, <3>3, <2>2
        <5>3. QED
          BY <5>1, <5>2, <4>5
      <4>7. QED
        BY <4>2, <4>4, <4>6, <3>2
    <3>4. CASE ~(parent1 = d /\ parent1 # 0)
      <4>1. funcs'[d] = funcs[d]
        BY <2>1, <3>4
      <4>2. QED
        BY <4>1, <3>1, <3>2, <2>3
    <3>5. QED
      BY <3>3, <3>4
  <2>7. DOMAIN vars' \subseteq 1 .. n + 1
    BY <2>2, <1>3, <1>10
  <2>8. QED
    BY <2>4, <2>5, <2>6, <2>7, <1>8, <1>9 DEF Tree
<1>14. QED
  BY <1>6, <1>11, <1>12, <1>13

-----------------------------------------------------------------------------
(* The functions that toDbg keeps *)

\* The minimum of a set of natural numbers is one of them.
LEMMA MinIs ==
    ASSUME NEW S \in SUBSET Nat, S # {}
    PROVE  Min(S) \in S /\ \A k \in S : Min(S) <= k
<1>1. \E m \in S : \A k \in S : m <= k
  BY LeastExists
<1>2. QED
  BY <1>1 DEF Min

\* The operations before the first that is unknown
KnownOps(loc) == LET unknown == {i \in 1 .. Len(loc) : loc[i].reg = "other"}
                 IN IF unknown = {} THEN loc ELSE SubSeq(loc, 1, Min(unknown) - 1)

\* They are the first of the location.
LEMMA KnownOpsAre ==
    ASSUME NEW loc \in Seq([reg : STRING, off : Int])
    PROVE  LET es == KnownOps(loc)
           IN /\ es \in Seq([reg : STRING, off : Int]) /\ Len(es) <= Len(loc)
              /\ \A i \in 1 .. Len(es) : es[i] = loc[i] /\ es[i].reg # "other"
              /\ es = <<>> => loc = <<>> \/ loc[1].reg = "other"
<1> DEFINE unknown == {i \in 1 .. Len(loc) : loc[i].reg = "other"}
<1>1. CASE unknown = {}
  <2>1. KnownOps(loc) = loc
    BY <1>1 DEF KnownOps
  <2>2. QED
    BY <2>1, <1>1
<1>2. CASE unknown # {}
  <2>1. unknown \in SUBSET Nat
    OBVIOUS
  <2>2. PICK m : m = Min(unknown)
    OBVIOUS
  <2>3. m \in unknown /\ \A k \in unknown : m <= k
    <3> HIDE DEF unknown
    <3> QED BY <1>2, <2>1, <2>2, MinIs
  <2>4. m \in 1 .. Len(loc) /\ Len(loc) \in Nat
    BY <2>3
  <2>5. PICK es : es = KnownOps(loc)
    OBVIOUS
  <2>6. es = SubSeq(loc, 1, m - 1)
    BY <1>2, <2>2, <2>5 DEF KnownOps
  <2>7. PICK n, S : n = m - 1 /\ S = [reg : STRING, off : Int]
    OBVIOUS
  <2>8. n \in Int /\ n \in 0 .. Len(loc) /\ loc \in Seq(S) /\ \A i \in 1 .. n : loc[i] \in S
    <3>1. n \in Int /\ n \in 0 .. Len(loc) /\ loc \in Seq(S)
      BY <2>4, <2>7
    <3>2. \A i \in 1 .. n : loc[i] \in S
      BY <3>1
    <3>3. QED
      BY <3>1, <3>2
  <2>9. /\ SubSeq(loc, 1, n) \in Seq(S)
        /\ Len(SubSeq(loc, 1, n)) = IF 1 <= n THEN n - 1 + 1 ELSE 0
        /\ \A i \in 1 .. n - 1 + 1 : SubSeq(loc, 1, n)[i] = loc[1 + i - 1]
    <3> HIDE DEF unknown
    <3> QED BY <2>8, SubSeqProperties
  <2>10. (IF 1 <= n THEN n - 1 + 1 ELSE 0) = n /\ n - 1 + 1 = n
    BY <2>8
  <2>11. \A i \in 1 .. n : loc[1 + i - 1] = loc[i]
    BY <2>8
  <2>12. es = SubSeq(loc, 1, n)
    BY <2>6, <2>7
  <2>13. Len(es) = n /\ es \in Seq(S) /\ \A i \in 1 .. n : es[i] = loc[i]
    BY <2>9, <2>10, <2>11, <2>12
  <2>14. \A i \in 1 .. n : loc[i].reg # "other"
    BY <2>3, <2>4, <2>7
  <2>15. es = <<>> => loc[1].reg = "other"
    <3>1. es = <<>> => m = 1
      BY <2>4, <2>7, <2>13
    <3>2. QED
      BY <3>1, <2>3
  <2>16. QED
    BY <2>5, <2>7, <2>8, <2>13, <2>14, <2>15
<1>3. QED
  BY <1>1, <1>2

\* What fits the int is not changed by the conversion.
LEMMA ToIntIs ==
    ASSUME NEW n \in Int
    PROVE  /\ ToInt(n) \in Int
           /\ n \in -IntLimit .. IntLimit - 1 => ToInt(n) = n
<1>1. PICK m \in Nat \ {0} : m = IntLimit
  BY DieAssumption
<1>2. PICK k \in Nat \ {0} : k = 2 * m
  OBVIOUS
<1>3. PICK a \in Int : a = n + m
  OBVIOUS
<1>4. ToInt(n) = (a % k) - m
  BY <1>1, <1>2, <1>3 DEF ToInt
<1>5. a % k \in Int
  OBVIOUS
<1>6. a \in 0 .. k - 1 => a % k = a
  OBVIOUS
<1>7. QED
  BY <1>1, <1>2, <1>3, <1>4, <1>5, <1>6

\* The entries of a LocInfo are the first of the location, all known, as far as they fit
\* the int.
LEMMA EntriesAre ==
    ASSUME NEW loc \in Seq([reg : STRING, off : Int])
    PROVE  LET es == Entries(loc)
           IN /\ es \in Seq([reg : STRING, off : Int]) /\ Len(es) <= Len(loc)
              /\ \A i \in 1 .. Len(es) : /\ es[i].reg = loc[i].reg /\ es[i].reg # "other"
                                        /\ es[i].off = ToInt(loc[i].off)
              /\ es = <<>> => loc = <<>> \/ loc[1].reg = "other"
<1>1. PICK ops : ops = KnownOps(loc)
  OBVIOUS
<1>2. /\ ops \in Seq([reg : STRING, off : Int]) /\ Len(ops) <= Len(loc)
      /\ \A i \in 1 .. Len(ops) : ops[i] = loc[i] /\ ops[i].reg # "other"
      /\ ops = <<>> => loc = <<>> \/ loc[1].reg = "other"
  BY <1>1, KnownOpsAre
<1>3. PICK es : es = Entries(loc)
  OBVIOUS
<1>4. es = [i \in 1 .. Len(ops) |-> [ops[i] EXCEPT !.off = ToInt(@)]]
  BY <1>1, <1>3, Zenon DEF Entries, KnownOps
<1>5. PICK n \in Nat : n = Len(ops) /\ ops \in [1 .. n -> [reg : STRING, off : Int]]
  <2>1. PICK S : S = [reg : STRING, off : Int]
    OBVIOUS
  <2>2. ops \in Seq(S)
    BY <1>2, <2>1
  <2>3. Len(ops) \in Nat /\ ops \in [1 .. Len(ops) -> S]
    BY <2>2
  <2>4. QED
    BY <2>1, <2>3
<1>6. ASSUME NEW i \in 1 .. n
      PROVE  /\ es[i] \in [reg : STRING, off : Int]
             /\ es[i].reg = ops[i].reg /\ es[i].off = ToInt(ops[i].off)
  <2>1. PICK op \in [reg : STRING, off : Int] : op = ops[i]
    BY <1>5
  <2>2. es[i] = [op EXCEPT !.off = ToInt(op.off)]
    BY <1>4, <1>5, <2>1
  <2>3. ToInt(op.off) \in Int
    BY <2>1, ToIntIs
  <2>4. QED
    BY <2>1, <2>2, <2>3
<1>7. es \in [1 .. n -> [reg : STRING, off : Int]]
  BY <1>4, <1>5, <1>6
<1>8. es \in Seq([reg : STRING, off : Int]) /\ Len(es) = n
  <2>1. PICK S : S = [reg : STRING, off : Int]
    OBVIOUS
  <2>2. es \in [1 .. n -> S]
    BY <1>7, <2>1
  <2>3. es \in Seq(S) /\ Len(es) = n
    BY <2>2
  <2>4. QED
    BY <2>1, <2>3
<1>9. es = <<>> => ops = <<>>
  BY <1>5, <1>8
<1>10. QED
  BY <1>2, <1>3, <1>5, <1>6, <1>8, <1>9

\* A LocInfo begins with what the attribute begins with, if that is rsp.
LEMMA EntriesBegin ==
    ASSUME NEW loc \in Seq([reg : STRING, off : Int])
    PROVE  LET es == Entries(loc)
           IN es # <<>> /\ es[1].reg = "rsp" <=> loc # <<>> /\ Head(loc).reg = "rsp"
<1>1. PICK es : es = Entries(loc)
  OBVIOUS
<1>2. /\ es \in Seq([reg : STRING, off : Int]) /\ Len(es) <= Len(loc)
      /\ \A i \in 1 .. Len(es) : es[i].reg = loc[i].reg
      /\ es = <<>> => loc = <<>> \/ loc[1].reg = "other"
  BY <1>1, EntriesAre
<1>3. loc # <<>> => Head(loc) = loc[1]
  OBVIOUS
<1>4. es # <<>> => loc # <<>> /\ es[1].reg = loc[1].reg
  BY <1>2
<1>5. QED
  BY <1>1, <1>2, <1>3, <1>4

\* What the tree says of a function decides whether toDbg keeps it.
LEMMA ConvertibleIs ==
    ASSUME Tree, NEW d \in DOMAIN funcs
    PROVE  /\ FuncName(funcs[d]) = Symbol(d) /\ FuncName(funcs[d]) # NoFunc
           /\ Convertible(funcs[d]) <=> Symbol(d) # NoName /\ HasRspBase(d)
<1>1. PICK list : d \in 1 .. Len(dies) /\ funcs[d] = FuncOf(dies[d], list)
  BY DEF Tree
<1>2. PICK k \in Die, p \in Nat : dies[d] = [k EXCEPT !.parent = p]
  <2>1. dies[d] \in ReadDie
    BY <1>1 DEF Tree
  <2>2. QED
    BY <2>1 DEF ReadDie
<1>3. DOMAIN k = {"tag", "parent", "lang", "name", "linkageName", "type", "loc", "junk"}
  BY DieAssumption
<1>4. /\ dies[d].name = k.name /\ dies[d].linkageName = k.linkageName /\ dies[d].loc = k.loc
  BY <1>2, <1>3
<1>5. /\ funcs[d].name = k.name /\ funcs[d].linkageName = k.linkageName
      /\ funcs[d].entries = Entries(k.loc)
  BY <1>1, <1>4 DEF FuncOf
<1>6. FuncName(funcs[d]) = Symbol(d) /\ FuncName(funcs[d]) # NoFunc
  BY <1>4, <1>5, NoFuncAssumption DEF FuncName, Symbol
<1>7. k.loc \in Seq([reg : STRING, off : Int])
  BY DieAssumption
<1>8. Entries(k.loc) # <<>> /\ Entries(k.loc)[1].reg = "rsp" <=> k.loc # <<>> /\ Head(k.loc).reg = "rsp"
  BY <1>7, EntriesBegin
<1>9. QED
  BY <1>4, <1>5, <1>6, <1>8, Zenon DEF Convertible, HasRspBase

-----------------------------------------------------------------------------
(* toDbg *)

\* A context whose ids were all handed out
Good(c, ids) == /\ Agree(c) /\ ids \in [func : Nat, var : Nat]
                /\ \A n \in DOMAIN c.funcs : c.funcs[n].id < ids.func
                /\ \A v \in c.vars : v.id < ids.var

KeptFuncs == {d \in DOMAIN funcs : Convertible(funcs[d])}

\* A function and its name were one before toDbg visited the functions in todo.
Converting ==
    /\ phase = "walk" => todo = {} /\ todoVars = {} /\ conv = Context
    /\ phase = "functions" =>
         /\ todo \subseteq DOMAIN funcs
         /\ DOMAIN conv.funcs = {FuncName(funcs[d]) : d \in KeptFuncs \ todo}
         /\ \A d, e \in KeptFuncs \ todo : FuncName(funcs[d]) = FuncName(funcs[e]) => d = e
         /\ \A v \in todoVars : /\ v \in DOMAIN vars /\ vars[v].parent \in DOMAIN funcs
                                /\ FuncName(funcs[vars[v].parent]) \in DOMAIN conv.funcs
    /\ phase = "globals" => todoVars \subseteq DOMAIN vars

\* Twins are two functions that toDbg keeps under one name.
LEMMA TwinsAre ==
    ASSUME Tree
    PROVE  Twins <=> \E d, e \in KeptFuncs : d # e /\ FuncName(funcs[d]) = FuncName(funcs[e])
<1>1. DOMAIN funcs = {d \in 1 .. Len(dies) : dies[d].tag = "func"}
  BY DEF Tree
<1>2. \A d \in DOMAIN funcs : /\ FuncName(funcs[d]) = Symbol(d)
                              /\ Convertible(funcs[d]) <=> Symbol(d) # NoName /\ HasRspBase(d)
  BY ConvertibleIs
<1>3. ASSUME Twins
      PROVE  \E d, e \in KeptFuncs : d # e /\ FuncName(funcs[d]) = FuncName(funcs[e])
  <2>1. PICK d \in 1 .. Len(dies), e \in 1 .. Len(dies) :
          /\ d # e /\ dies[d].tag = "func" /\ dies[e].tag = "func"
          /\ Symbol(d) = Symbol(e) /\ Symbol(d) # NoName
          /\ HasRspBase(d) /\ HasRspBase(e)
    BY <1>3, Zenon DEF Twins
  <2>2. QED
    BY <2>1, <1>1, <1>2 DEF KeptFuncs
<1>4. ASSUME NEW d \in KeptFuncs, NEW e \in KeptFuncs, d # e, FuncName(funcs[d]) = FuncName(funcs[e])
      PROVE  Twins
  <2>1. /\ d \in 1 .. Len(dies) /\ dies[d].tag = "func" /\ Symbol(d) # NoName /\ HasRspBase(d)
        /\ e \in 1 .. Len(dies) /\ dies[e].tag = "func" /\ HasRspBase(e) /\ Symbol(d) = Symbol(e)
    BY <1>1, <1>2, <1>4 DEF KeptFuncs
  <2>2. QED
    BY <2>1, <1>4 DEF Twins
<1>5. QED
  BY <1>3, <1>4

\* One more id was handed out: the contexts are as good as they were.
LEMMA GoodStays ==
    ASSUME NEW c, NEW ids, Good(c, ids), NEW ids1 \in [func : Nat, var : Nat],
           ids.func <= ids1.func, ids.var <= ids1.var
    PROVE  Good(c, ids1)
<1>1. \A n \in DOMAIN c.funcs : c.funcs[n].id \in Nat
  BY DEF Good, Agree, FuncsAgree, IsFunc
<1>2. \A v \in c.vars : v.id \in Nat
  BY DEF Good, Agree, VarsAgree, IsVar
<1>3. ids.func \in Nat /\ ids.var \in Nat /\ ids1.func \in Nat /\ ids1.var \in Nat
  BY DEF Good
<1>4. \A n \in DOMAIN c.funcs : c.funcs[n].id < ids1.func
  BY <1>1, <1>3 DEF Good
<1>5. \A v \in c.vars : v.id < ids1.var
  BY <1>2, <1>3 DEF Good
<1>6. QED
  BY <1>4, <1>5 DEF Good

\* addFunc of a FuncInfo that was just made, of a name that is new
LEMMA FreshFunc ==
    ASSUME NEW c, NEW ids, Good(c, ids), NEW name, name # NoFunc, name \notin DOMAIN c.funcs,
           NEW off, NEW f, f = [id |-> ids.func, name |-> name, vars |-> <<>>, stackOffset |-> off],
           NEW ids1, ids1 = [ids EXCEPT !.func = ids.func + 1]
    PROVE  /\ Good(PutFunc(c, f), ids1) /\ ids1 \in [func : Nat, var : Nat]
           /\ ids1.func = ids.func + 1 /\ ids1.var = ids.var
           /\ DOMAIN PutFunc(c, f).funcs = DOMAIN c.funcs \cup {name}
<1>1. /\ ids1 \in [func : Nat, var : Nat] /\ ids1.func = ids.func + 1 /\ ids1.var = ids.var
      /\ ids.func \in Nat /\ ids.var \in Nat
  BY DEF Good
<1>2. IsFunc(f) /\ f.vars = <<>> /\ f.name = name /\ f.id = ids.func
  <2>1. <<>> \in Seq(Nat)
    OBVIOUS
  <2>2. PICK none : none = <<>>
    OBVIOUS
  <2>3. f = [id |-> ids.func, name |-> name, vars |-> none, stackOffset |-> off] /\ none \in Seq(Nat)
    BY <2>1, <2>2
  <2>4. f.vars = none /\ f.name = name /\ f.id = ids.func /\ f.stackOffset = off
    BY <2>3
  <2>5. IsFunc(f)
    BY <2>3, <2>4, <1>1 DEF IsFunc
  <2>6. QED
    BY <2>2, <2>4, <2>5
<1>3. Agree(c) /\ \A n \in DOMAIN c.funcs : c.funcs[n].id < ids.func /\ c.funcs[n].id \in Nat
  BY DEF Good, Agree, FuncsAgree, IsFunc
<1>4. ids.func \notin DOMAIN c.idFuncs
  <2>1. DOMAIN c.idFuncs = {c.funcs[n].id : n \in DOMAIN c.funcs}
    BY <1>3 DEF Agree, FuncsAgree
  <2>2. \A n \in DOMAIN c.funcs : c.funcs[n].id # ids.func
    BY <1>1, <1>3
  <2>3. QED
    BY <2>1, <2>2
<1>5. PICK d : d = PutFunc(c, f)
  OBVIOUS
<1>6. /\ Agree(d) /\ d.vars = c.vars /\ DOMAIN d.funcs = DOMAIN c.funcs \cup {name}
      /\ d.funcs[name] = f /\ \A n \in DOMAIN c.funcs : d.funcs[n] = c.funcs[n]
  <2>1. f.name # NoFunc /\ f.name \notin DOMAIN c.funcs /\ f.id \notin DOMAIN c.idFuncs
    BY <1>2, <1>4
  <2>2. QED
    BY <1>2, <1>3, <1>5, <2>1, PutFuncAgrees
<1>7. \A n \in DOMAIN d.funcs : d.funcs[n].id < ids1.func
  BY <1>1, <1>2, <1>3, <1>6
<1>8. \A v \in d.vars : v.id < ids1.var
  BY <1>1, <1>6 DEF Good
<1>9. QED
  BY <1>1, <1>5, <1>6, <1>7, <1>8 DEF Good

\* addVar of a VarInfo that was just made
LEMMA FreshVar ==
    ASSUME NEW c, NEW ids, Good(c, ids), NEW v, IsVar(v), v.id = ids.var,
           v.parent \in DOMAIN c.funcs \cup {NoFunc},
           NEW ids1, ids1 = [ids EXCEPT !.var = ids.var + 1]
    PROVE  /\ Good(PutVar(c, v), ids1) /\ ids1 \in [func : Nat, var : Nat]
           /\ ids1.func = ids.func /\ ids1.var = ids.var + 1
           /\ DOMAIN PutVar(c, v).funcs = DOMAIN c.funcs
<1>1. /\ ids1 \in [func : Nat, var : Nat] /\ ids1.func = ids.func /\ ids1.var = ids.var + 1
      /\ ids.func \in Nat /\ ids.var \in Nat
  BY DEF Good
<1>2. Agree(c) /\ \A w \in c.vars : w.id < ids.var /\ w.id \in Nat
  BY DEF Good, Agree, VarsAgree, IsVar
<1>3. v.id \notin DOMAIN c.idVars
  <2>1. DOMAIN c.idVars = {w.id : w \in c.vars}
    BY <1>2 DEF Agree, VarsAgree
  <2>2. \A w \in c.vars : w.id # ids.var
    BY <1>1, <1>2
  <2>3. QED
    BY <2>1, <2>2
<1>4. PICK d : d = PutVar(c, v)
  OBVIOUS
<1>5. /\ Agree(d) /\ d.vars = c.vars \cup {v} /\ DOMAIN d.funcs = DOMAIN c.funcs
      /\ \A n \in DOMAIN c.funcs : d.funcs[n].id = c.funcs[n].id
  BY <1>2, <1>3, <1>4, PutVarAgrees
<1>6. \A n \in DOMAIN d.funcs : d.funcs[n].id < ids1.func
  BY <1>1, <1>5 DEF Good
<1>7. \A w \in d.vars : w.id < ids1.var
  BY <1>1, <1>2, <1>5
<1>8. QED
  BY <1>1, <1>4, <1>5, <1>6, <1>7 DEF Good

\* A VarInfo that was just made has the id and the function it was given.
LEMMA NewVarIs ==
    ASSUME NEW id \in Nat, NEW d, NEW type, NEW offset, NEW parent
    PROVE  LET v == NewVar(id, d, type, offset, parent)
           IN IsVar(v) /\ v.id = id /\ v.parent = parent
<1>1. PICK s, t : s = vars[d].size /\ t = vars[d].typeSize
  OBVIOUS
<1>2. PICK v : v = NewVar(id, d, type, offset, parent)
  OBVIOUS
<1>3. v = [id |-> id, die |-> d, type |-> type, stackOffset |-> offset, parent |-> parent,
           size |-> s, typeSize |-> t]
  BY <1>1, <1>2 DEF NewVar
<1>4. IsVar(v) /\ v.id = id /\ v.parent = parent
  BY <1>3 DEF IsVar
<1>5. QED
  BY <1>2, <1>4

\* A function of the first loop of toDbg is added under a new name, or there are twins.
LEMMA ConvertFuncKeeps ==
    ASSUME Tree, Converting, AbortsOnTwins, Good(conv, globalId), ConvertFunc
    PROVE  /\ Converting' /\ AbortsOnTwins' /\ Good(conv', globalId')
           /\ globalId' \in [func : Nat, var : Nat]
           /\ globalId.func <= globalId'.func /\ globalId.var <= globalId'.var
<1>1. PICK d : d = Min(todo)
  OBVIOUS
<1>2. /\ phase = "functions" /\ todo \subseteq DOMAIN funcs /\ todo # {} /\ todoVars = {}
      /\ DOMAIN conv.funcs = {FuncName(funcs[e]) : e \in KeptFuncs \ todo}
      /\ \A e, f \in KeptFuncs \ todo : FuncName(funcs[e]) = FuncName(funcs[f]) => e = f
  BY DEF Converting, ConvertFunc
<1>3. d \in todo /\ d \in DOMAIN funcs
  <2>1. DOMAIN funcs \subseteq Nat
    BY DEF Tree
  <2>2. QED
    BY <2>1, <1>1, <1>2, MinIs
<1>4. todo' = todo \ {d} /\ UNCHANGED dwarfVars /\ funcs' = funcs /\ vars' = vars
  BY <1>1 DEF ConvertFunc, dwarfVars
<1>5. /\ globalId \in [func : Nat, var : Nat] /\ globalId.func \in Nat /\ globalId.var \in Nat
  BY DEF Good
<1>6. KeptFuncs' = KeptFuncs
  BY <1>4 DEF KeptFuncs, Convertible, FuncName
<1>7. CASE ~Convertible(funcs[d])
  <2>1. UNCHANGED <<conv, globalId, todoVars, phase>>
    BY <1>1, <1>7 DEF ConvertFunc
  <2>2. KeptFuncs \ todo' = KeptFuncs \ todo
    BY <1>4, <1>7 DEF KeptFuncs
  <2>4. Converting'
    BY <2>1, <2>2, <1>2, <1>4, <1>6 DEF Converting, FuncName
  <2>5. AbortsOnTwins'
    BY <2>1, <1>2 DEF AbortsOnTwins
  <2>6. QED
    BY <2>1, <2>4, <2>5, <1>5
<1>8. CASE Convertible(funcs[d]) /\ FuncName(funcs[d]) \in DOMAIN conv.funcs
  <2>1. phase' = "aborted" /\ UNCHANGED <<conv, globalId, todoVars>>
    BY <1>1, <1>8 DEF ConvertFunc
  <2>2. PICK e \in KeptFuncs \ todo : FuncName(funcs[e]) = FuncName(funcs[d])
    BY <1>2, <1>8
  <2>3. d \in KeptFuncs /\ e \in KeptFuncs /\ e # d
    BY <1>3, <1>8 DEF KeptFuncs
  <2>4. Twins
    BY <2>2, <2>3, TwinsAre
  <2>5. AbortsOnTwins'
    <3>1. Twins'
      BY <2>4, <1>4 DEF Twins, Symbol, HasRspBase, dwarfVars
    <3>2. QED
      BY <3>1, <2>1 DEF AbortsOnTwins
  <2>6. Converting'
    BY <2>1 DEF Converting
  <2>7. QED
    BY <2>1, <2>5, <2>6, <1>5
<1>9. CASE Convertible(funcs[d]) /\ FuncName(funcs[d]) \notin DOMAIN conv.funcs
  <2>1. PICK name, off : name = FuncName(funcs[d]) /\ off = funcs[d].entries[1].off
    OBVIOUS
  <2>2. PICK f : f = [id |-> globalId.func, name |-> name, vars |-> <<>>, stackOffset |-> off]
    OBVIOUS
  <2>3. /\ conv' = PutFunc(conv, f)
        /\ globalId' = [globalId EXCEPT !.func = globalId.func + 1]
        /\ todoVars' = {v \in Range(funcs[d].vars) : Usable(vars[v]) # {}}
        /\ phase' = phase
    BY <2>1, <2>2, <1>1, <1>9 DEF ConvertFunc
  <2>4. name # NoFunc
    BY <2>1, <1>3, ConvertibleIs
  <2>5. /\ Good(conv', globalId') /\ globalId' \in [func : Nat, var : Nat]
        /\ globalId'.func = globalId.func + 1 /\ globalId'.var = globalId.var
        /\ DOMAIN conv'.funcs = DOMAIN conv.funcs \cup {name}
    BY <2>1, <2>2, <2>3, <2>4, <1>9, FreshFunc
  <2>6. KeptFuncs \ todo' = (KeptFuncs \ todo) \cup {d} /\ d \in KeptFuncs
    BY <1>3, <1>4, <1>9 DEF KeptFuncs
  <2>7. DOMAIN conv'.funcs = {FuncName(funcs[e]) : e \in KeptFuncs \ todo'}
    BY <2>1, <2>5, <2>6, <1>2
  <2>8. \A e, g \in KeptFuncs \ todo' : FuncName(funcs[e]) = FuncName(funcs[g]) => e = g
    <3>1. \A e \in KeptFuncs \ todo : FuncName(funcs[e]) # FuncName(funcs[d])
      BY <1>2, <1>9
    <3>2. QED
      BY <3>1, <2>6, <1>2
  <2>9. \A v \in todoVars' : /\ v \in DOMAIN vars /\ vars[v].parent \in DOMAIN funcs
                             /\ FuncName(funcs[vars[v].parent]) \in DOMAIN conv'.funcs
    <3>1. PICK list \in Seq(Nat) :
             /\ funcs[d] = FuncOf(dies[d], list)
             /\ \A i \in 1 .. Len(list) : list[i] \in DOMAIN vars /\ vars[list[i]].parent = d
      BY <1>3 DEF Tree
    <3>2. funcs[d].vars = list
      BY <3>1 DEF FuncOf
    <3>3. \A v \in todoVars' : \E i \in 1 .. Len(list) : v = list[i]
      BY <3>1, <3>2, <2>3 DEF Range
    <3>4. QED
      BY <3>1, <3>3, <2>1, <2>5, <1>3
  <2>10. Converting'
    <3>1. phase' = "functions" /\ todo' \subseteq DOMAIN funcs'
      BY <2>3, <1>2, <1>4
    <3>2. (DOMAIN conv.funcs = {FuncName(funcs[e]) : e \in KeptFuncs \ todo})'
      BY <2>7, <1>4, <1>6 DEF FuncName
    <3>3. (\A e, g \in KeptFuncs \ todo : FuncName(funcs[e]) = FuncName(funcs[g]) => e = g)'
      BY <2>8, <1>4, <1>6 DEF FuncName
    <3>4. (\A v \in todoVars : /\ v \in DOMAIN vars /\ vars[v].parent \in DOMAIN funcs
                               /\ FuncName(funcs[vars[v].parent]) \in DOMAIN conv.funcs)'
      BY <2>9, <1>4 DEF FuncName
    <3>5. QED
      BY <3>1, <3>2, <3>3, <3>4 DEF Converting
  <2>11. AbortsOnTwins'
    BY <2>3, <1>2 DEF AbortsOnTwins
  <2>12. QED
    BY <2>5, <2>10, <2>11, <1>5
<1>10. QED
  BY <1>7, <1>8, <1>9

\* A variable of either loop of toDbg is added under a function that is there.
LEMMA ConvertVarKeeps ==
    ASSUME Tree, Converting, AbortsOnTwins, Good(conv, globalId), ConvertVar \/ ConvertGlobal
    PROVE  /\ Converting' /\ AbortsOnTwins' /\ Good(conv', globalId')
           /\ globalId' \in [func : Nat, var : Nat]
           /\ globalId.func <= globalId'.func /\ globalId.var <= globalId'.var
<1>1. /\ globalId \in [func : Nat, var : Nat] /\ globalId.func \in Nat /\ globalId.var \in Nat
  BY DEF Good
<1>2. /\ UNCHANGED <<funcs, vars, todo, phase>> /\ phase \in {"functions", "globals"}
      /\ todoVars # {} /\ globalId' = [globalId EXCEPT !.var = globalId.var + 1]
  BY DEF ConvertVar, ConvertGlobal, dwarfVars
<1>3. PICK v : v = Min(todoVars)
  OBVIOUS
<1>4. v \in todoVars /\ v \in DOMAIN vars
  <2>1. todoVars \subseteq DOMAIN vars
    BY <1>2 DEF Converting
  <2>2. DOMAIN vars \subseteq Nat
    BY DEF Tree
  <2>3. QED
    BY <2>1, <2>2, <1>2, <1>3, MinIs
<1>5. \E type, off, parent :
        /\ parent \in DOMAIN conv.funcs \cup {NoFunc}
        /\ conv' = PutVar(conv, NewVar(globalId.var, v, type, off, parent))
        /\ todoVars' = todoVars \ {v}
  <2>1. CASE ConvertVar
    <3>1. phase = "functions"
      BY <2>1 DEF ConvertVar
    <3>2. PICK off, parent : /\ off = vars[v].entries[Min(Usable(vars[v]))].off
                             /\ parent = FuncName(funcs[vars[v].parent])
      OBVIOUS
    <3>3. parent \in DOMAIN conv.funcs
      BY <3>1, <3>2, <1>4 DEF Converting
    <3>4. conv' = PutVar(conv, NewVar(globalId.var, v, vars[v].type, off, parent))
      BY <2>1, <3>2, <1>3, Zenon DEF ConvertVar
    <3>5. todoVars' = todoVars \ {v}
      BY <2>1, <1>3, Zenon DEF ConvertVar
    <3>6. QED
      BY <3>3, <3>4, <3>5
  <2>2. CASE ConvertGlobal
    <3>1. PICK off : off = vars[v].entries[1].off
      OBVIOUS
    <3>2. conv' = PutVar(conv, NewVar(globalId.var, v, "Static", off, NoFunc))
      BY <2>2, <3>1, <1>3, Zenon DEF ConvertGlobal
    <3>3. todoVars' = todoVars \ {v}
      BY <2>2, <1>3, Zenon DEF ConvertGlobal
    <3>4. QED
      BY <3>2, <3>3
  <2>3. QED
    BY <2>1, <2>2
<1>6. PICK type, off, parent :
        /\ parent \in DOMAIN conv.funcs \cup {NoFunc}
        /\ conv' = PutVar(conv, NewVar(globalId.var, v, type, off, parent))
        /\ todoVars' = todoVars \ {v}
  BY <1>5
<1>7. PICK w : w = NewVar(globalId.var, v, type, off, parent)
  OBVIOUS
<1>8. IsVar(w) /\ w.id = globalId.var /\ w.parent = parent
  BY <1>1, <1>7, NewVarIs
<1>9. /\ Good(conv', globalId') /\ globalId' \in [func : Nat, var : Nat]
      /\ globalId'.func = globalId.func /\ globalId'.var = globalId.var + 1
      /\ DOMAIN conv'.funcs = DOMAIN conv.funcs
  BY <1>2, <1>6, <1>7, <1>8, FreshVar
<1>10. Converting'
  <2>1. KeptFuncs' = KeptFuncs
    BY <1>2 DEF KeptFuncs, Convertible, FuncName
  <2>2. QED
    BY <2>1, <1>2, <1>6, <1>9 DEF Converting, FuncName
<1>11. AbortsOnTwins'
  BY <1>2 DEF AbortsOnTwins, Twins, Symbol, HasRspBase, ConvertVar, ConvertGlobal, dwarfVars
<1>12. QED
  BY <1>1, <1>9, <1>10, <1>11

\* After the first loop no two functions have one name.
LEMMA FunctionsEndKeeps ==
    ASSUME Tree, Converting, AbortsOnTwins, FunctionsEnd
    PROVE  Converting' /\ AbortsOnTwins'
<1>1. /\ phase = "functions" /\ todo = {} /\ phase' = "globals" /\ UNCHANGED <<dies, funcs, vars>>
      /\ todoVars' \subseteq DOMAIN vars
  BY DEF FunctionsEnd, dwarfVars
<1>2. ~Twins
  BY <1>1, TwinsAre DEF Converting
<1>3. AbortsOnTwins'
  BY <1>1, <1>2 DEF AbortsOnTwins, Twins, Symbol, HasRspBase
<1>4. Converting'
  BY <1>1 DEF Converting
<1>5. QED
  BY <1>3, <1>4

-----------------------------------------------------------------------------
(* The move to dbgCtxt, save and load *)

\* The lists depend on nothing but the functions and the variables.
LEMMA SameLists ==
    ASSUME NEW c, ListsAgree(c), NEW d, d.funcs = c.funcs, d.vars = c.vars
    PROVE  ListsAgree(d)
  BY DEF ListsAgree

\* The pointers ids1 and idvs1 lead to a function and a variable with the id.
Leads(c, ids1, idvs1) ==
    /\ IsFcn(ids1) /\ DOMAIN ids1 = {c.funcs[n].id : n \in DOMAIN c.funcs}
    /\ \A n \in DOMAIN c.funcs :
         \E m \in DOMAIN c.funcs : c.funcs[m].id = c.funcs[n].id /\ ids1[c.funcs[n].id] = c.funcs[m].name
    /\ IsFcn(idvs1) /\ DOMAIN idvs1 = {v.id : v \in c.vars}
    /\ \A v \in c.vars : \E w \in c.vars : w.id = v.id /\ idvs1[v.id] = w

Moved(c, ids1, idvs1) == [c EXCEPT !.idFuncs = ids1, !.idVars = idvs1]

\* operator= finds under each id what was there.
LEMMA MoveAgrees ==
    ASSUME NEW c, Agree(c), NEW ids1, NEW idvs1, Leads(c, ids1, idvs1), NEW d,
           d = Moved(c, ids1, idvs1)
    PROVE  Agree(d) /\ d.funcs = c.funcs /\ d.vars = c.vars /\ d.instBindings = c.instBindings
<1>1. PICK fs, ids, vs, idvs, bs :
         c = [funcs |-> fs, idFuncs |-> ids, vars |-> vs, idVars |-> idvs, instBindings |-> bs]
  BY DEF Agree, IsContext
<1>2. d = [funcs |-> fs, idFuncs |-> ids1, vars |-> vs, idVars |-> idvs1, instBindings |-> bs]
  BY <1>1 DEF Moved
<1>5. /\ IsContext(d) /\ d.funcs = c.funcs /\ d.vars = c.vars /\ d.instBindings = c.instBindings
      /\ d.idFuncs = ids1 /\ d.idVars = idvs1
  <2>1. IsContext(d)
    BY <1>2, Zenon DEF IsContext
  <2>2. QED
    BY <2>1, <1>1, <1>2
<1>6. /\ \A n \in DOMAIN c.funcs : c.funcs[n].name = n
      /\ DOMAIN c.idFuncs = {c.funcs[n].id : n \in DOMAIN c.funcs}
      /\ \A n \in DOMAIN c.funcs : c.idFuncs[c.funcs[n].id] = n
  BY DEF Agree, FuncsAgree
<1>7. \A n \in DOMAIN c.funcs : ids1[c.funcs[n].id] = n
  <2>1. ASSUME NEW n \in DOMAIN c.funcs
        PROVE  ids1[c.funcs[n].id] = n
    <3>1. PICK m \in DOMAIN c.funcs :
            c.funcs[m].id = c.funcs[n].id /\ ids1[c.funcs[n].id] = c.funcs[m].name
      BY DEF Leads
    <3>2. m = n
      BY <3>1, <1>6
    <3>3. QED
      BY <3>1, <3>2, <1>6
  <2>2. QED
    BY <2>1
<1>8. \A v \in c.vars : idvs1[v.id] = v
  BY DEF Agree, VarsAgree, Leads
<1>9. FuncsAgree(d)
  <2>1. /\ IsFcn(c.funcs) /\ NoFunc \notin DOMAIN c.funcs
        /\ \A n \in DOMAIN c.funcs : IsFunc(c.funcs[n])
    BY DEF Agree, FuncsAgree
  <2>2. IsFcn(d.funcs) /\ IsFcn(d.idFuncs) /\ NoFunc \notin DOMAIN d.funcs
    BY <2>1, <1>5 DEF Leads
  <2>3. \A n \in DOMAIN d.funcs : IsFunc(d.funcs[n]) /\ d.funcs[n].name = n
    BY <2>1, <1>5, <1>6
  <2>4. DOMAIN d.idFuncs = {d.funcs[n].id : n \in DOMAIN d.funcs}
    <3>1. \A n \in DOMAIN c.funcs : d.funcs[n] = c.funcs[n]
      BY <1>5
    <3>2. {d.funcs[n].id : n \in DOMAIN d.funcs} = {c.funcs[n].id : n \in DOMAIN c.funcs}
      BY <3>1, <1>5
    <3>3. QED
      BY <3>2, <1>5 DEF Leads
  <2>5. \A n \in DOMAIN d.funcs : d.idFuncs[d.funcs[n].id] = n
    BY <1>5, <1>7
  <2>6. QED
    BY <2>2, <2>3, <2>4, <2>5 DEF FuncsAgree
<1>10. VarsAgree(d)
  BY <1>5, <1>8 DEF Agree, VarsAgree, Leads
<1>11. ListsAgree(d)
  BY <1>5, SameLists DEF Agree
<1>12. QED
  BY <1>5, <1>9, <1>10, <1>11 DEF Agree

\* FuncInfo::save
SavedFunc(f) == [id |-> f.id, name |-> f.name, stackOffset |-> f.stackOffset]

Filed == phase \in {"saved", "loading", "loaded"} =>
            file = [funcs |-> {SavedFunc(tool.funcs[n]) : n \in DOMAIN tool.funcs},
                    vars |-> {SavedVar(tool, v) : v \in tool.vars},
                    instBindings |-> tool.instBindings]

\* What is in the query's context is the tool's, and the rest is still to be read.
Loading ==
    /\ phase \notin {"loading", "loaded"} => query = Context
    /\ \A n \in DOMAIN query.funcs :
         /\ n \in DOMAIN tool.funcs /\ query.funcs[n].id = tool.funcs[n].id
         /\ query.funcs[n].stackOffset = tool.funcs[n].stackOffset
    /\ query.vars \subseteq tool.vars
    /\ phase = "loading" =>
         /\ todo = {SavedFunc(tool.funcs[n]) : n \in DOMAIN tool.funcs \ DOMAIN query.funcs}
         /\ todoVars = {SavedVar(tool, v) : v \in tool.vars \ query.vars}
    /\ phase = "loaded" =>
         /\ DOMAIN query.funcs = DOMAIN tool.funcs /\ query.vars = tool.vars
         /\ query.instBindings = tool.instBindings

\* FuncInfo::save and load keep the name, the id and the offset.
LEMMA SavedFuncIs ==
    ASSUME NEW c, Agree(c), NEW n \in DOMAIN c.funcs
    PROVE  LET f == SavedFunc(c.funcs[n])
           IN f.name = n /\ f.id = c.funcs[n].id /\ f.stackOffset = c.funcs[n].stackOffset
  BY DEF Agree, FuncsAgree, SavedFunc

\* The first loop of load adds a function of the tool's that was not there.
LEMMA LoadFuncKeeps ==
    ASSUME Good(tool, globalId), Good(query, globalId), Loading, Filed, NEW f \in todo, LoadFunc(f)
    PROVE  Good(query', globalId') /\ Loading' /\ Filed'
<1>1. /\ phase = "loading" /\ todo' = todo \ {f}
      /\ UNCHANGED <<tool, globalId, todoVars, file, phase>>
  BY DEF LoadFunc
<1>2. Agree(tool) /\ Agree(query) /\ globalId \in [func : Nat, var : Nat]
  BY DEF Good
<1>3. PICK n \in DOMAIN tool.funcs \ DOMAIN query.funcs : f = SavedFunc(tool.funcs[n])
  BY <1>1 DEF Loading
<1>4. f.name = n /\ f.id = tool.funcs[n].id /\ f.stackOffset = tool.funcs[n].stackOffset
  BY <1>2, <1>3, SavedFuncIs
<1>5. PICK g : g = [id |-> f.id, name |-> f.name, vars |-> <<>>, stackOffset |-> f.stackOffset]
  OBVIOUS
<1>6. query' = PutFunc(query, g)
  BY <1>5 DEF LoadFunc
<1>7. /\ g.id = tool.funcs[n].id /\ g.name = n /\ g.vars = <<>>
      /\ g.stackOffset = tool.funcs[n].stackOffset /\ IsFunc(g)
  <2>1. <<>> \in Seq(Nat) /\ tool.funcs[n].id \in Nat
    <3>1. IsFunc(tool.funcs[n])
      BY <1>2 DEF Agree, FuncsAgree
    <3>2. QED
      BY <3>1 DEF IsFunc
  <2>2. PICK none, id, off : none = <<>> /\ id = f.id /\ off = f.stackOffset
    OBVIOUS
  <2>3. g = [id |-> id, name |-> n, vars |-> none, stackOffset |-> off]
    BY <2>2, <1>4, <1>5
  <2>4. g.id = id /\ g.name = n /\ g.vars = none /\ g.stackOffset = off
    BY <2>3
  <2>5. none \in Seq(Nat) /\ id \in Nat
    BY <2>1, <2>2, <1>4
  <2>6. IsFunc(g)
    BY <2>3, <2>4, <2>5 DEF IsFunc
  <2>7. QED
    BY <2>2, <2>4, <2>6, <1>4
<1>8. g.name # NoFunc /\ g.name \notin DOMAIN query.funcs /\ g.id \notin DOMAIN query.idFuncs
  <2>1. n # NoFunc /\ n \notin DOMAIN query.funcs
    BY <1>2, <1>3 DEF Agree, FuncsAgree
  <2>2. \A m \in DOMAIN query.funcs : query.funcs[m].id # tool.funcs[n].id
    <3>1. \A m \in DOMAIN tool.funcs : tool.idFuncs[tool.funcs[m].id] = m
      BY <1>2 DEF Agree, FuncsAgree
    <3>2. QED
      BY <3>1, <2>1, <1>3 DEF Loading
  <2>3. DOMAIN query.idFuncs = {query.funcs[m].id : m \in DOMAIN query.funcs}
    BY <1>2 DEF Agree, FuncsAgree
  <2>4. QED
    BY <2>1, <2>2, <2>3, <1>7
<1>9. /\ Agree(query') /\ query'.vars = query.vars /\ DOMAIN query'.funcs = DOMAIN query.funcs \cup {n}
      /\ query'.funcs[n] = g /\ \A m \in DOMAIN query.funcs : query'.funcs[m] = query.funcs[m]
  BY <1>2, <1>6, <1>7, <1>8, PutFuncAgrees
<1>10. Good(query', globalId')
  <2>1. \A m \in DOMAIN query'.funcs : query'.funcs[m].id < globalId.func
    BY <1>3, <1>7, <1>9 DEF Good
  <2>2. \A v \in query'.vars : v.id < globalId.var
    BY <1>9 DEF Good
  <2>3. QED
    BY <2>1, <2>2, <1>1, <1>2, <1>9 DEF Good
<1>11. todo \ {f} = {SavedFunc(tool.funcs[m]) : m \in DOMAIN tool.funcs \ DOMAIN query'.funcs}
  <2>1. todo = {SavedFunc(tool.funcs[m]) : m \in DOMAIN tool.funcs \ DOMAIN query.funcs}
    BY <1>1 DEF Loading
  <2>2. \A m \in DOMAIN tool.funcs : SavedFunc(tool.funcs[m]).name = m
    BY <1>2, SavedFuncIs
  <2>3. \A m \in DOMAIN tool.funcs : SavedFunc(tool.funcs[m]) = f => m = n
    BY <2>2, <1>4
  <2>4. QED
    BY <2>1, <2>3, <1>3, <1>9
<1>12. Loading'
  <2>1. \A m \in DOMAIN query'.funcs :
          /\ m \in DOMAIN tool.funcs /\ query'.funcs[m].id = tool.funcs[m].id
          /\ query'.funcs[m].stackOffset = tool.funcs[m].stackOffset
    BY <1>3, <1>7, <1>9 DEF Loading
  <2>2. todoVars = {SavedVar(tool, v) : v \in tool.vars \ query'.vars} /\ query'.vars \subseteq tool.vars
    BY <1>1, <1>9 DEF Loading
  <2>3. todoVars' = {SavedVar(tool', v) : v \in tool'.vars \ query'.vars}
    BY <2>2, <1>1
  <2>4. QED
    BY <2>1, <2>2, <2>3, <1>1, <1>11 DEF Loading
<1>13. Filed'
  BY <1>1 DEF Filed, SavedVar
<1>14. QED
  BY <1>10, <1>12, <1>13

\* VarInfo::load undoes VarInfo::save: the id of a function leads back to its name.
LEMMA LoadedVarIs ==
    ASSUME Agree(tool), Agree(query), NEW w \in tool.vars,
           DOMAIN query.funcs = DOMAIN tool.funcs,
           \A n \in DOMAIN query.funcs : query.funcs[n].id = tool.funcs[n].id
    PROVE  /\ SavedVar(tool, w).id = w.id
           /\ [SavedVar(tool, w) EXCEPT !.parent = ParentOf(SavedVar(tool, w).parent)] = w
<1>1. PICK i, d, t, o, p, s, ts :
         w = [id |-> i, die |-> d, type |-> t, stackOffset |-> o, parent |-> p, size |-> s, typeSize |-> ts]
  <2>1. IsVar(w)
    BY DEF Agree, VarsAgree
  <2>2. QED
    BY <2>1, Zenon DEF IsVar
<1>2. w.id = i /\ w.parent = p
  BY <1>1
<1>3. PICK q : q = IF p = NoFunc THEN -1 ELSE tool.funcs[p].id
  OBVIOUS
<1>4. PICK saved : saved = SavedVar(tool, w)
  OBVIOUS
<1>5. saved = [w EXCEPT !.parent = q]
  BY <1>2, <1>3, <1>4 DEF SavedVar
<1>6. saved = [id |-> i, die |-> d, type |-> t, stackOffset |-> o, parent |-> q, size |-> s, typeSize |-> ts]
  BY <1>1, <1>5
<1>7. ParentOf(q) = p
  <2>1. CASE p = NoFunc
    <3>1. q = -1 /\ ~(q >= 0)
      BY <2>1, <1>3
    <3>2. QED
      BY <3>1, <2>1 DEF ParentOf
  <2>2. CASE p # NoFunc
    <3>1. p \in DOMAIN tool.funcs
      BY <2>2, <1>2 DEF Agree, VarsAgree
    <3>2. IsFunc(tool.funcs[p]) /\ q = tool.funcs[p].id
      BY <3>1, <2>2, <1>3 DEF Agree, FuncsAgree
    <3>3. q \in Nat
      BY <3>2 DEF IsFunc
    <3>4. q = query.funcs[p].id /\ p \in DOMAIN query.funcs
      BY <3>1, <3>2
    <3>5. q \in DOMAIN query.idFuncs /\ query.idFuncs[q] = p
      BY <3>4 DEF Agree, FuncsAgree
    <3>6. q >= 0
      BY <3>3
    <3>7. QED
      BY <3>5, <3>6 DEF ParentOf
  <2>3. QED
    BY <2>1, <2>2
<1>8. saved.parent = q /\ saved.id = i
  BY <1>6
<1>9. [saved EXCEPT !.parent = p] = w
  BY <1>1, <1>6
<1>10. QED
  BY <1>2, <1>4, <1>7, <1>8, <1>9

\* The second loop of load adds a variable of the tool's that was not there.
LEMMA LoadVarKeeps ==
    ASSUME Good(tool, globalId), Good(query, globalId), Loading, Filed, NEW v \in todoVars, LoadVar(v)
    PROVE  Good(query', globalId') /\ Loading' /\ Filed'
<1>1. /\ phase = "loading" /\ todo = {} /\ todoVars' = todoVars \ {v}
      /\ UNCHANGED <<tool, globalId, todo, file, phase>>
  BY DEF LoadVar
<1>2. Agree(tool) /\ Agree(query) /\ globalId \in [func : Nat, var : Nat]
  BY DEF Good
<1>3. /\ \A n \in DOMAIN query.funcs : /\ n \in DOMAIN tool.funcs
                                       /\ query.funcs[n].id = tool.funcs[n].id
                                       /\ query.funcs[n].stackOffset = tool.funcs[n].stackOffset
      /\ query.vars \subseteq tool.vars
      /\ todo = {SavedFunc(tool.funcs[n]) : n \in DOMAIN tool.funcs \ DOMAIN query.funcs}
      /\ todoVars = {SavedVar(tool, w) : w \in tool.vars \ query.vars}
  BY <1>1 DEF Loading
<1>4. DOMAIN query.funcs = DOMAIN tool.funcs
  BY <1>1, <1>3
<1>5. PICK w \in tool.vars \ query.vars : v = SavedVar(tool, w)
  BY <1>3
<1>6. \A u \in tool.vars : /\ SavedVar(tool, u).id = u.id
                           /\ [SavedVar(tool, u) EXCEPT !.parent = ParentOf(SavedVar(tool, u).parent)] = u
  BY <1>2, <1>3, <1>4, LoadedVarIs
<1>7. query' = PutVar(query, w)
  <2>1. PICK x : x = [v EXCEPT !.parent = ParentOf(v.parent)]
    OBVIOUS
  <2>2. x = w
    BY <2>1, <1>5, <1>6
  <2>3. query' = PutVar(query, x)
    BY <2>1, Zenon DEF LoadVar
  <2>4. QED
    BY <2>2, <2>3
<1>8. IsVar(w) /\ w.parent \in DOMAIN query.funcs \cup {NoFunc} /\ w.id \notin DOMAIN query.idVars
  <2>1. /\ \A u \in tool.vars : tool.idVars[u.id] = u
        /\ IsVar(w) /\ w.parent \in DOMAIN tool.funcs \cup {NoFunc}
    BY <1>2, <1>5 DEF Agree, VarsAgree
  <2>2. \A u \in query.vars : u.id # w.id
    BY <2>1, <1>3, <1>5
  <2>3. DOMAIN query.idVars = {u.id : u \in query.vars}
    BY <1>2 DEF Agree, VarsAgree
  <2>4. QED
    BY <2>1, <2>2, <2>3, <1>4
<1>9. /\ Agree(query') /\ query'.vars = query.vars \cup {w} /\ DOMAIN query'.funcs = DOMAIN query.funcs
      /\ \A n \in DOMAIN query.funcs : /\ query'.funcs[n].id = query.funcs[n].id
                                       /\ query'.funcs[n].stackOffset = query.funcs[n].stackOffset
  BY <1>2, <1>7, <1>8, PutVarAgrees
<1>10. Good(query', globalId')
  <2>1. \A m \in DOMAIN query'.funcs : query'.funcs[m].id < globalId.func
    BY <1>9 DEF Good
  <2>2. \A u \in query'.vars : u.id < globalId.var
    BY <1>3, <1>5, <1>9 DEF Good
  <2>3. QED
    BY <2>1, <2>2, <1>1, <1>2, <1>9 DEF Good
<1>11. todoVars \ {v} = {SavedVar(tool, u) : u \in tool.vars \ query'.vars}
  <2>1. \A u \in tool.vars : SavedVar(tool, u) = v => u = w
    BY <1>5, <1>6
  <2>2. QED
    BY <2>1, <1>3, <1>5, <1>9
<1>12. Loading'
  <2>1. \A m \in DOMAIN query'.funcs :
          /\ m \in DOMAIN tool.funcs /\ query'.funcs[m].id = tool.funcs[m].id
          /\ query'.funcs[m].stackOffset = tool.funcs[m].stackOffset
    BY <1>3, <1>9
  <2>2. todo = {SavedFunc(tool.funcs[n]) : n \in DOMAIN tool.funcs \ DOMAIN query'.funcs}
    BY <1>3, <1>9
  <2>3. todoVars' = {SavedVar(tool', u) : u \in tool'.vars \ query'.vars}
    BY <1>1, <1>11
  <2>4. query'.vars \subseteq tool.vars
    BY <1>3, <1>5, <1>9
  <2>5. QED
    BY <2>1, <2>2, <2>3, <2>4, <1>1 DEF Loading
<1>13. Filed'
  BY <1>1 DEF Filed, SavedVar
<1>14. QED
  BY <1>10, <1>12, <1>13

\* load begins with an empty context and the whole file.
LEMMA LoadBegins ==
    ASSUME Good(query, globalId), Loading, Filed, Load
    PROVE  Loading' /\ Filed'
<1>1. /\ phase = "saved" /\ phase' = "loading" /\ todo' = file.funcs /\ todoVars' = file.vars
      /\ UNCHANGED <<tool, query, file>>
  BY DEF Load
<1>2. query = Context
  BY <1>1 DEF Loading
<1>3. DOMAIN query.funcs = {} /\ query.vars = {}
  BY <1>2 DEF Context, Empty
<1>4. /\ file.funcs = {SavedFunc(tool.funcs[n]) : n \in DOMAIN tool.funcs}
      /\ file.vars = {SavedVar(tool, v) : v \in tool.vars}
  BY <1>1 DEF Filed
<1>5. todo' = {SavedFunc(tool'.funcs[n]) : n \in DOMAIN tool'.funcs \ DOMAIN query'.funcs}
  BY <1>1, <1>3, <1>4
<1>6. todoVars' = {SavedVar(tool', v) : v \in tool'.vars \ query'.vars}
  BY <1>1, <1>3, <1>4
<1>7. Loading'
  BY <1>1, <1>3, <1>5, <1>6 DEF Loading
<1>8. Filed'
  BY <1>1 DEF Filed, SavedVar
<1>9. QED
  BY <1>7, <1>8

\* A binding is no concern of the structures.
LEMMA BindingsAside ==
    ASSUME NEW c, NEW ids, Good(c, ids), NEW bs
    PROVE  LET d == [c EXCEPT !.instBindings = bs]
           IN /\ Good(d, ids) /\ d.funcs = c.funcs /\ d.vars = c.vars
              /\ d.instBindings = bs
<1>1. PICK d : d = [c EXCEPT !.instBindings = bs]
  OBVIOUS
<1>2. PICK fs, is, vs, ivs, bs0 :
         c = [funcs |-> fs, idFuncs |-> is, vars |-> vs, idVars |-> ivs, instBindings |-> bs0]
  BY DEF Good, Agree, IsContext
<1>3. d = [funcs |-> fs, idFuncs |-> is, vars |-> vs, idVars |-> ivs, instBindings |-> bs]
  BY <1>1, <1>2
<1>4. IsContext(d)
  BY <1>3, Zenon DEF IsContext
<1>5. /\ d.funcs = c.funcs /\ d.vars = c.vars /\ d.idFuncs = c.idFuncs /\ d.idVars = c.idVars
      /\ d.instBindings = bs
  BY <1>2, <1>3
<1>6. FuncsAgree(c) /\ VarsAgree(c) /\ ListsAgree(c)
  BY DEF Good, Agree
<1>7. FuncsAgree(d)
  <2>1. /\ IsFcn(d.funcs) /\ IsFcn(d.idFuncs) /\ NoFunc \notin DOMAIN d.funcs
        /\ \A n \in DOMAIN d.funcs : IsFunc(d.funcs[n]) /\ d.funcs[n].name = n
        /\ \A n \in DOMAIN d.funcs : d.idFuncs[d.funcs[n].id] = n
    BY <1>5, <1>6 DEF FuncsAgree
  <2>2. \A n \in DOMAIN c.funcs : d.funcs[n] = c.funcs[n]
    BY <1>5
  <2>3. {d.funcs[n].id : n \in DOMAIN d.funcs} = {c.funcs[n].id : n \in DOMAIN c.funcs}
    BY <2>2, <1>5
  <2>4. DOMAIN d.idFuncs = {d.funcs[n].id : n \in DOMAIN d.funcs}
    BY <2>3, <1>5, <1>6 DEF FuncsAgree
  <2>5. QED
    BY <2>1, <2>4 DEF FuncsAgree
<1>8. VarsAgree(d)
  BY <1>5, <1>6, Zenon DEF VarsAgree
<1>9. ListsAgree(d)
  BY <1>5, <1>6, SameLists
<1>10. Good(d, ids)
  BY <1>4, <1>5, <1>7, <1>8, <1>9 DEF Good, Agree
<1>11. QED
  BY <1>1, <1>5, <1>10

\* load ends when every function and variable is there.
LEMMA LoadEnds ==
    ASSUME Good(query, globalId), Loading, Filed, LoadInstBindings
    PROVE  Good(query', globalId') /\ Loading' /\ Filed'
<1>1. /\ phase = "loading" /\ todo = {} /\ todoVars = {} /\ phase' = "loaded"
      /\ UNCHANGED <<tool, globalId, file>>
      /\ query' = [query EXCEPT !.instBindings = file.instBindings]
  BY DEF LoadInstBindings
<1>2. PICK bs : bs = file.instBindings
  OBVIOUS
<1>3. query' = [query EXCEPT !.instBindings = bs] /\ bs = tool.instBindings
  BY <1>1, <1>2 DEF Filed
<1>4. /\ Good(query', globalId) /\ query'.funcs = query.funcs /\ query'.vars = query.vars
      /\ query'.instBindings = bs
  BY <1>3, BindingsAside
<1>5. DOMAIN query.funcs = DOMAIN tool.funcs /\ query.vars = tool.vars
  BY <1>1 DEF Loading
<1>6. Loading'
  BY <1>1, <1>3, <1>4, <1>5 DEF Loading
<1>7. Filed'
  BY <1>1 DEF Filed, SavedVar
<1>8. QED
  BY <1>1, <1>4, <1>6, <1>7

\* The move, an access and the save leave the tool's context whole.
LEMMA RunKeeps ==
    ASSUME Good(conv, globalId), Good(tool, globalId), Good(query, globalId), Loading,
           Move \/ (\E i \in Inst : SetInstBinding(i)) \/ Save
    PROVE  Good(conv', globalId') /\ Good(tool', globalId') /\ Loading' /\ Filed'
<1>1. /\ phase \in {"globals", "run"} /\ phase' \in {"run", "saved"} /\ UNCHANGED <<query, globalId>>
      /\ query = Context /\ globalId \in [func : Nat, var : Nat]
  BY DEF Move, SetInstBinding, Save, Loading, Good
<1>2. DOMAIN query.funcs = {} /\ query.vars = {}
  BY <1>1 DEF Context, Empty
<1>3. Loading'
  BY <1>1, <1>2 DEF Loading
<1>4. CASE Move
  <2>1. PICK ids1, idvs1 :
          /\ ids1 = [id \in {f.id : f \in Range(conv.funcs)} |->
                       (CHOOSE f \in Range(conv.funcs) : f.id = id).name]
          /\ idvs1 = [id \in {v.id : v \in conv.vars} |-> CHOOSE v \in conv.vars : v.id = id]
    OBVIOUS
  <2>2. tool' = [conv EXCEPT !.idFuncs = ids1, !.idVars = idvs1]
    BY <2>1, <1>4, Zenon DEF Move
  <2>3. Agree(tool') /\ tool'.funcs = conv.funcs /\ tool'.vars = conv.vars
    <3>1. /\ IsFcn(ids1) /\ DOMAIN ids1 = {f.id : f \in Range(conv.funcs)}
          /\ IsFcn(idvs1) /\ DOMAIN idvs1 = {v.id : v \in conv.vars}
      BY <2>1 DEF IsFcn
    <3>2. DOMAIN ids1 = {conv.funcs[n].id : n \in DOMAIN conv.funcs}
      BY <3>1 DEF Range
    <3>3. ASSUME NEW n \in DOMAIN conv.funcs
          PROVE  \E m \in DOMAIN conv.funcs :
                    conv.funcs[m].id = conv.funcs[n].id /\ ids1[conv.funcs[n].id] = conv.funcs[m].name
      <4>1. PICK id : id = conv.funcs[n].id
        OBVIOUS
      <4>2. conv.funcs[n] \in Range(conv.funcs)
        BY DEF Range
      <4>3. PICK g : g = CHOOSE f \in Range(conv.funcs) : f.id = id
        OBVIOUS
      <4>4. g \in Range(conv.funcs) /\ g.id = id
        BY <4>1, <4>2, <4>3
      <4>5. ids1[id] = g.name
        BY <4>1, <4>2, <4>3, <2>1
      <4>6. QED
        BY <4>1, <4>4, <4>5 DEF Range
    <3>4. ASSUME NEW v \in conv.vars
          PROVE  \E w \in conv.vars : w.id = v.id /\ idvs1[v.id] = w
      <4>1. PICK w : w = CHOOSE u \in conv.vars : u.id = v.id
        OBVIOUS
      <4>2. w \in conv.vars /\ w.id = v.id
        BY <4>1
      <4>3. idvs1[v.id] = w
        BY <4>1, <2>1
      <4>4. QED
        BY <4>2, <4>3
    <3>5. Agree(conv)
      BY DEF Good
    <3>6. PICK d : d = tool'
      OBVIOUS
    <3>7. d = Moved(conv, ids1, idvs1)
      BY <2>2, <3>6, Zenon DEF Moved
    <3>8. \A n \in DOMAIN conv.funcs :
             \E m \in DOMAIN conv.funcs :
                conv.funcs[m].id = conv.funcs[n].id /\ ids1[conv.funcs[n].id] = conv.funcs[m].name
      BY <3>3
    <3>9. \A v \in conv.vars : \E w \in conv.vars : w.id = v.id /\ idvs1[v.id] = w
      BY <3>4
    <3>10. Leads(conv, ids1, idvs1)
      BY <3>1, <3>2, <3>8, <3>9 DEF Leads
    <3>11. Agree(d) /\ d.funcs = conv.funcs /\ d.vars = conv.vars
      BY <3>5, <3>7, <3>10, MoveAgrees
    <3>12. QED
      BY <3>6, <3>11
  <2>4. Good(tool', globalId)
    BY <2>3 DEF Good
  <2>5. conv' = Context /\ phase' = "run"
    BY <1>4 DEF Move
  <2>6. Context.vars = {} /\ DOMAIN Context.funcs = {}
    BY DEF Context, Empty
  <2>7. Good(Context, globalId)
    BY <2>6, <1>1, ContextAgrees DEF Good
  <2>8. QED
    BY <2>4, <2>5, <2>7, <1>1, <1>3 DEF Filed
<1>5. CASE \E i \in Inst : SetInstBinding(i)
  <2>1. PICK i \in Inst : SetInstBinding(i)
    BY <1>5
  <2>2. PICK bs : bs = Put(tool.instBindings, i, LineOf[i])
    OBVIOUS
  <2>3. tool' = [tool EXCEPT !.instBindings = bs] /\ UNCHANGED <<conv, phase>> /\ phase = "run"
    BY <2>1, <2>2 DEF SetInstBinding
  <2>4. Good(tool', globalId)
    BY <2>3, BindingsAside
  <2>5. QED
    BY <2>3, <2>4, <1>1, <1>3 DEF Filed
<1>6. CASE Save
  <2>1. /\ file'.funcs = {[id |-> f.id, name |-> f.name, stackOffset |-> f.stackOffset] :
                            f \in Range(tool.funcs)}
        /\ UNCHANGED <<conv, tool>>
    BY <1>6 DEF Save
  <2>2. {[id |-> f.id, name |-> f.name, stackOffset |-> f.stackOffset] : f \in Range(tool.funcs)}
          = {SavedFunc(tool.funcs[n]) : n \in DOMAIN tool.funcs}
    BY DEF Range, SavedFunc
  <2>3. file' = [funcs |-> {SavedFunc(tool.funcs[n]) : n \in DOMAIN tool.funcs},
                 vars |-> {SavedVar(tool, v) : v \in tool.vars},
                 instBindings |-> tool.instBindings]
    BY <2>2, <1>6, Zenon DEF Save
  <2>4. Filed'
    BY <2>1, <2>3 DEF Filed, SavedVar
  <2>5. QED
    BY <2>1, <2>4, <1>1, <1>3
<1>7. QED
  BY <1>4, <1>5, <1>6

-----------------------------------------------------------------------------
(* The invariant *)

Phase == {"walk", "functions", "aborted", "globals", "run", "saved", "loading", "loaded"}

DebugInv ==
    /\ phase \in Phase
    /\ Tree /\ Converting /\ AbortsOnTwins
    /\ Good(conv, globalId) /\ Good(tool, globalId) /\ Good(query, globalId)
    /\ Filed /\ Loading

\* The invariant holds before the first DIE is read.
LEMMA InitDebugInv == Init => DebugInv
<1> SUFFICES ASSUME Init PROVE DebugInv
  OBVIOUS
<1>1. /\ dies = <<>> /\ walkInfo = Empty /\ funcs = Empty /\ vars = Empty
      /\ conv = Context /\ tool = Context /\ query = Context
      /\ globalId = [func |-> 0, var |-> 0] /\ todo = {} /\ todoVars = {} /\ phase = "walk"
  BY DEF Init, DwarfInit
<1>2. DOMAIN Empty = {} /\ DOMAIN Context.funcs = {} /\ Context.vars = {}
  BY DEF Empty, Context
<1>3. <<>> \in Seq(ReadDie) /\ Len(<<>>) = 0
  OBVIOUS
<1>4. dies \in Seq(ReadDie) /\ Len(dies) = 0 /\ 1 .. Len(dies) = {}
  BY <1>1, <1>3
<1>5. Tree
  BY <1>1, <1>2, <1>4 DEF Tree
<1>6. Good(Context, globalId)
  <2>1. globalId \in [func : Nat, var : Nat]
    BY <1>1
  <2>2. QED
    BY <2>1, <1>2, ContextAgrees DEF Good
<1>7. Converting /\ AbortsOnTwins /\ Filed
  BY <1>1 DEF Converting, AbortsOnTwins, Filed
<1>8. Loading
  BY <1>1, <1>2 DEF Loading
<1>9. QED
  BY <1>1, <1>5, <1>6, <1>7, <1>8 DEF DebugInv, Phase

Late == {"globals", "run", "saved", "loading", "loaded"}

\* Once the functions are converted there are no twins, and the tree stays.
LEMMA NoTwinsStay ==
    ASSUME AbortsOnTwins, UNCHANGED dies, phase \in Late, phase' \in Late
    PROVE  AbortsOnTwins'
  BY DEF AbortsOnTwins, Late, Twins, Symbol, HasRspBase

\* Every step of the walk, of toDbg, of the run and of load keeps the invariant.
LEMMA NextDebugInv == DebugInv /\ [Next]_allVars => DebugInv'
<1> SUFFICES ASSUME DebugInv, [Next]_allVars PROVE DebugInv'
  OBVIOUS
<1>1. /\ phase \in Phase /\ Tree /\ Converting /\ AbortsOnTwins
      /\ Good(conv, globalId) /\ Good(tool, globalId) /\ Good(query, globalId)
      /\ Filed /\ Loading
  BY DEF DebugInv
<1>2. CASE Walk
  <2>1. UNCHANGED dbgVars /\ phase = "walk"
    BY <1>2 DEF Walk
  <2>2. Tree'
    BY <1>1, <1>2, WalkKeepsTree
  <2>3. UNCHANGED <<conv, tool, query, globalId, todo, todoVars, file, phase>>
    BY <2>1 DEF dbgVars
  <2>4. Converting' /\ AbortsOnTwins' /\ Filed'
    BY <2>1, <2>3, <1>1 DEF Converting, AbortsOnTwins, Filed
  <2>5. Loading'
    BY <2>1, <2>3, <1>1 DEF Loading
  <2>6. Good(conv', globalId') /\ Good(tool', globalId') /\ Good(query', globalId')
    BY <2>3, <1>1
  <2>7. QED
    BY <2>2, <2>3, <2>4, <2>5, <2>6, <1>1 DEF DebugInv
<1>3. ASSUME UNCHANGED dwarfVars
      PROVE  Tree'
  BY <1>1, <1>3 DEF Tree, dwarfVars
<1>4. CASE WalkEnds
  <2>1. /\ phase = "walk" /\ phase' = "functions" /\ todo' = DOMAIN funcs
        /\ UNCHANGED <<dwarfVars, conv, tool, query, globalId, todoVars, file>>
    BY <1>4 DEF WalkEnds
  <2>2. conv = Context /\ todoVars = {} /\ UNCHANGED <<funcs, vars>>
    BY <2>1, <1>1 DEF Converting, dwarfVars
  <2>3. DOMAIN conv.funcs = {}
    BY <2>2 DEF Context, Empty
  <2>4. KeptFuncs' = KeptFuncs /\ KeptFuncs \subseteq DOMAIN funcs
    BY <2>2 DEF KeptFuncs, Convertible, FuncName
  <2>5. Converting'
    BY <2>1, <2>2, <2>3, <2>4 DEF Converting
  <2>6. AbortsOnTwins' /\ Filed' /\ Loading'
    BY <2>1, <1>1 DEF AbortsOnTwins, Filed, Loading
  <2>7. Good(conv', globalId') /\ Good(tool', globalId') /\ Good(query', globalId')
    BY <2>1, <1>1
  <2>8. QED
    BY <2>1, <2>5, <2>6, <2>7, <1>3 DEF DebugInv, Phase
<1>5. CASE ConvertFunc \/ ConvertVar \/ ConvertGlobal
  <2>1. /\ Converting' /\ AbortsOnTwins' /\ Good(conv', globalId')
        /\ globalId' \in [func : Nat, var : Nat]
        /\ globalId.func <= globalId'.func /\ globalId.var <= globalId'.var
    BY <1>1, <1>5, ConvertFuncKeeps, ConvertVarKeeps
  <2>2. /\ phase \in {"functions", "globals"} /\ phase' \in {"functions", "globals", "aborted"}
        /\ UNCHANGED <<dwarfVars, tool, query, file>>
    BY <1>5 DEF ConvertFunc, ConvertVar, ConvertGlobal
  <2>3. Good(tool', globalId') /\ Good(query', globalId')
    BY <2>1, <2>2, <1>1, GoodStays
  <2>4. Filed'
    BY <2>2 DEF Filed
  <2>5. Loading'
    BY <2>2, <1>1 DEF Loading
  <2>6. QED
    BY <2>1, <2>2, <2>3, <2>4, <2>5, <1>3 DEF DebugInv, Phase
<1>6. CASE FunctionsEnd
  <2>1. Converting' /\ AbortsOnTwins'
    BY <1>1, <1>6, FunctionsEndKeeps
  <2>2. /\ phase = "functions" /\ phase' = "globals"
        /\ UNCHANGED <<dwarfVars, conv, tool, query, globalId, file>>
    BY <1>6 DEF FunctionsEnd
  <2>3. Filed' /\ Loading'
    BY <2>2, <1>1 DEF Filed, Loading
  <2>4. Good(conv', globalId') /\ Good(tool', globalId') /\ Good(query', globalId')
    BY <2>2, <1>1
  <2>5. QED
    BY <2>1, <2>2, <2>3, <2>4, <1>3 DEF DebugInv, Phase
<1>7. CASE Move \/ (\E i \in Inst : SetInstBinding(i)) \/ Save
  <2>1. Good(conv', globalId') /\ Good(tool', globalId') /\ Loading' /\ Filed'
    BY <1>1, <1>7, RunKeeps
  <2>2. /\ phase \in {"globals", "run"} /\ phase' \in {"run", "saved"}
        /\ UNCHANGED <<dwarfVars, query, globalId>>
    BY <1>7 DEF Move, SetInstBinding, Save
  <2>3. AbortsOnTwins'
    BY <2>2, <1>1, NoTwinsStay DEF Late, dwarfVars
  <2>4. Converting'
    BY <2>2 DEF Converting
  <2>5. Good(query', globalId')
    BY <2>2, <1>1
  <2>6. QED
    BY <2>1, <2>2, <2>3, <2>4, <2>5, <1>3 DEF DebugInv, Phase
<1>8. CASE Load \/ (\E f \in todo : LoadFunc(f)) \/ (\E v \in todoVars : LoadVar(v)) \/ LoadInstBindings
  <2>1. /\ phase \in {"saved", "loading"} /\ phase' \in {"loading", "loaded"}
        /\ UNCHANGED <<dwarfVars, conv, tool, globalId>>
    BY <1>8 DEF Load, LoadFunc, LoadVar, LoadInstBindings
  <2>2. Good(query', globalId') /\ Loading' /\ Filed'
    <3>1. CASE Load
      <4>1. UNCHANGED <<query, globalId>>
        BY <3>1 DEF Load
      <4>2. QED
        BY <3>1, <4>1, <1>1, LoadBegins
    <3>2. CASE \E f \in todo : LoadFunc(f)
      BY <3>2, <1>1, LoadFuncKeeps
    <3>3. CASE \E v \in todoVars : LoadVar(v)
      BY <3>3, <1>1, LoadVarKeeps
    <3>4. CASE LoadInstBindings
      BY <3>4, <1>1, LoadEnds
    <3>5. QED
      BY <3>1, <3>2, <3>3, <3>4, <1>8
  <2>3. AbortsOnTwins'
    BY <2>1, <1>1, NoTwinsStay DEF Late, dwarfVars
  <2>4. Converting'
    BY <2>1 DEF Converting
  <2>5. Good(conv', globalId') /\ Good(tool', globalId')
    BY <2>1, <1>1
  <2>6. QED
    BY <2>1, <2>2, <2>3, <2>4, <2>5, <1>3 DEF DebugInv, Phase
<1>9. CASE UNCHANGED allVars
  <2>1. /\ UNCHANGED dwarfVars /\ UNCHANGED <<dies, walkInfo, funcs, vars>>
        /\ UNCHANGED <<conv, tool, query, globalId, todo, todoVars, file, phase>>
    BY <1>9 DEF allVars, dbgVars, dwarfVars
  <2>2. Converting'
    BY <2>1, <1>1 DEF Converting, KeptFuncs, Convertible, FuncName
  <2>3. AbortsOnTwins'
    BY <2>1, <1>1 DEF AbortsOnTwins, Twins, Symbol, HasRspBase
  <2>4. Filed' /\ Loading'
    BY <2>1, <1>1 DEF Filed, Loading, SavedVar
  <2>5. Good(conv', globalId') /\ Good(tool', globalId') /\ Good(query', globalId')
    BY <2>1, <1>1
  <2>6. QED
    BY <2>1, <2>2, <2>3, <2>4, <2>5, <1>1, <1>3 DEF DebugInv
<1>10. QED
  BY <1>2, <1>4, <1>5, <1>6, <1>7, <1>8, <1>9 DEF Next

\* The invariant holds throughout.
THEOREM DebugInvariant == Spec => []DebugInv
<1>1. QED
  BY InitDebugInv, NextDebugInv, PTL DEF Spec

-----------------------------------------------------------------------------
(* What follows *)

\* Every part of the state has its type: a variable of a context has an id that
\* was handed out, and its function is in the same context (DebugContext).
THEOREM TypeCorrect == Spec => []TypeOK
<1>1. DebugInv => TypeOK
  <2> SUFFICES ASSUME DebugInv PROVE TypeOK
    OBVIOUS
  <2>1. phase \in Phase /\ Tree /\ globalId \in [func : Nat, var : Nat]
    BY DEF DebugInv, Good
  <2>2. ASSUME NEW c \in {conv, tool, query}, NEW v \in c.vars
        PROVE  v.id \in 0 .. globalId.var - 1 /\ v.parent \in DOMAIN c.funcs \cup {NoFunc}
    <3>1. Good(c, globalId)
      BY DEF DebugInv
    <3>2. IsVar(v) /\ v.parent \in DOMAIN c.funcs \cup {NoFunc} /\ v.id < globalId.var
      BY <3>1 DEF Good, Agree, VarsAgree
    <3>3. v.id \in Nat /\ globalId.var \in Nat
      BY <3>2, <2>1 DEF IsVar
    <3>4. QED
      BY <3>2, <3>3
  <2>3. DOMAIN walkInfo = DOMAIN dies /\ DOMAIN funcs \cup DOMAIN vars \subseteq DOMAIN dies
    BY <2>1 DEF Tree
  <2>4. QED
    BY <2>1, <2>2, <2>3 DEF TypeOK, Phase
<1>2. QED
  BY <1>1, DebugInvariant, PTL

\* After every operation on a context, the move and the load included, a function
\* lists its variables and no others, each once, and the ids lead to every function
\* and variable (addFunc, addVar, operator=, load).
LEMMA PointersFollow == DebugInv => PointersAgree
<1> SUFFICES ASSUME DebugInv, NEW c \in {conv, tool, query}
             PROVE  /\ \A n \in DOMAIN c.funcs :
                         /\ Range(c.funcs[n].vars) = {v.id : v \in {w \in c.vars : w.parent = n}}
                         /\ IsInjective(c.funcs[n].vars)
                    /\ DOMAIN c.idFuncs = {c.funcs[n].id : n \in DOMAIN c.funcs}
                    /\ \A n \in DOMAIN c.funcs : c.idFuncs[c.funcs[n].id] = n
                    /\ DOMAIN c.idVars = {v.id : v \in c.vars}
                    /\ \A v \in c.vars : c.idVars[v.id] = v
  BY DEF PointersAgree
<1>1. Agree(c)
  BY DEF DebugInv, Good
<1>2. /\ DOMAIN c.idFuncs = {c.funcs[n].id : n \in DOMAIN c.funcs}
      /\ \A n \in DOMAIN c.funcs : c.idFuncs[c.funcs[n].id] = n
  BY <1>1 DEF Agree, FuncsAgree
<1>3. DOMAIN c.idVars = {v.id : v \in c.vars} /\ \A v \in c.vars : c.idVars[v.id] = v
  BY <1>1 DEF Agree, VarsAgree
<1>4. ASSUME NEW n \in DOMAIN c.funcs
      PROVE  /\ Range(c.funcs[n].vars) = {v.id : v \in {w \in c.vars : w.parent = n}}
             /\ IsInjective(c.funcs[n].vars)
  <2>1. PICK list : list = c.funcs[n].vars
    OBVIOUS
  <2>2. list \in Seq(Nat) /\ DOMAIN list = 1 .. Len(list)
    <3>1. IsFunc(c.funcs[n])
      BY <1>1 DEF Agree, FuncsAgree
    <3>2. QED
      BY <3>1, <2>1 DEF IsFunc
  <2>3. /\ \A i \in 1 .. Len(list) : \E v \in c.vars : v.parent = n /\ v.id = list[i]
        /\ \A v \in c.vars : v.parent = n => \E i \in 1 .. Len(list) : v.id = list[i]
        /\ \A i, j \in 1 .. Len(list) : list[i] = list[j] => i = j
    BY <1>1, <2>1 DEF Agree, ListsAgree
  <2>4. Range(list) = {v.id : v \in {w \in c.vars : w.parent = n}}
    <3>1. PICK S : S = {v.id : v \in {w \in c.vars : w.parent = n}}
      OBVIOUS
    <3>2. \A x : x \in S <=> \E v \in c.vars : v.parent = n /\ x = v.id
      BY <3>1
    <3>3. \A x : x \in Range(list) <=> \E i \in 1 .. Len(list) : x = list[i]
      BY <2>2 DEF Range
    <3>4. \A x : x \in Range(list) => x \in S
      BY <3>2, <3>3, <2>3
    <3>5. \A x : x \in S => x \in Range(list)
      BY <3>2, <3>3, <2>3
    <3>6. Range(list) = S
      BY <3>4, <3>5
    <3>7. QED
      BY <3>1, <3>6
  <2>5. IsInjective(list)
    BY <2>2, <2>3 DEF IsInjective
  <2>6. QED
    BY <2>1, <2>4, <2>5
<1>5. QED
  BY <1>2, <1>3, <1>4

\* All contexts are whole after every operation, and the query finds under every id,
\* and under every name, what the tool had there when it saved the file (save, load).
THEOREM Found == Spec => []QueryFindsTheSame
<1>1. DebugInv => QueryFindsTheSame
  <2> SUFFICES ASSUME DebugInv, phase = "loaded"
               PROVE  /\ query.idVars = tool.idVars
                      /\ query.idFuncs = tool.idFuncs
                      /\ query.instBindings = tool.instBindings
                      /\ \A n \in DOMAIN tool.funcs : query.funcs[n].stackOffset = tool.funcs[n].stackOffset
    BY PointersFollow DEF QueryFindsTheSame
  <2>1. Agree(tool) /\ Agree(query) /\ Loading
    BY DEF DebugInv, Good
  <2>2. /\ DOMAIN query.funcs = DOMAIN tool.funcs /\ query.vars = tool.vars
        /\ query.instBindings = tool.instBindings
        /\ \A n \in DOMAIN query.funcs : /\ query.funcs[n].id = tool.funcs[n].id
                                         /\ query.funcs[n].stackOffset = tool.funcs[n].stackOffset
    BY <2>1 DEF Loading
  <2>3. query.idVars = tool.idVars
    <3>1. PICK f, g : f = tool.idVars /\ g = query.idVars
      OBVIOUS
    <3>2. IsFcn(f) /\ IsFcn(g) /\ DOMAIN f = {v.id : v \in tool.vars} /\ DOMAIN g = {v.id : v \in query.vars}
      BY <2>1, <3>1 DEF Agree, VarsAgree
    <3>3. DOMAIN g = DOMAIN f
      BY <3>2, <2>2
    <3>4. \A v \in tool.vars : f[v.id] = v /\ g[v.id] = v
      BY <2>1, <2>2, <3>1 DEF Agree, VarsAgree
    <3>5. \A i \in DOMAIN f : f[i] = g[i]
      BY <3>2, <3>4
    <3>6. f = g
      BY <3>2, <3>3, <3>5 DEF IsFcn
    <3>7. QED
      BY <3>1, <3>6
  <2>4. query.idFuncs = tool.idFuncs
    <3>1. PICK f, g : f = tool.idFuncs /\ g = query.idFuncs
      OBVIOUS
    <3>2. /\ IsFcn(f) /\ IsFcn(g) /\ DOMAIN f = {tool.funcs[n].id : n \in DOMAIN tool.funcs}
          /\ DOMAIN g = {query.funcs[n].id : n \in DOMAIN query.funcs}
      BY <2>1, <3>1 DEF Agree, FuncsAgree
    <3>3. DOMAIN g = DOMAIN f
      BY <3>2, <2>2
    <3>4. \A n \in DOMAIN tool.funcs : f[tool.funcs[n].id] = n /\ g[query.funcs[n].id] = n
      BY <2>1, <2>2, <3>1 DEF Agree, FuncsAgree
    <3>5. \A i \in DOMAIN f : f[i] = g[i]
      BY <3>2, <3>4, <2>2
    <3>6. f = g
      BY <3>2, <3>3, <3>5 DEF IsFcn
    <3>7. QED
      BY <3>1, <3>6
  <2>5. QED
    BY <2>2, <2>3, <2>4
<1>2. QED
  BY <1>1, DebugInvariant, PTL

\* The assertion of addFunc ends the tool exactly when two functions that toDbg keeps
\* have one name (debugcontext.cpp:57).
THEOREM Aborts == Spec => []AbortsOnTwins
<1>1. DebugInv => AbortsOnTwins
  BY DEF DebugInv
<1>2. QED
  BY <1>1, DebugInvariant, PTL

-----------------------------------------------------------------------------
(* The DIEs around a DIE *)

\* Below each DIE come those that refer to it.
Rooted(ds, n) == n \in Nat /\ \A e \in 1 .. n : ds[e].parent \in 0 .. e - 1

Up(ds, d, up) == up = [e \in 0 .. d |-> IF e = 0 THEN {} ELSE {e} \cup up[ds[e].parent]]

PathIn(ds, d) == (CHOOSE up : Up(ds, d, up))[d]

\* The innermost of d and the DIEs around it that has one of the tags, or 0.
InAt(ds, d, tags) == LET es == {e \in PathIn(ds, d) : ds[e].tag \in tags}
                     IN IF es = {} THEN 0 ELSE Max(es)

\* The way up from each DIE exists.
LEMMA PathExists ==
    ASSUME NEW ds, NEW n, Rooted(ds, n)
    PROVE  \E up : Up(ds, n, up)
<1> DEFINE Bad == {m \in 0 .. n : ~\E up : Up(ds, m, up)}
<1>0. n \in Nat /\ \A e \in 1 .. n : ds[e].parent \in 0 .. e - 1
  BY DEF Rooted
<1>1. ASSUME Bad # {}
      PROVE  FALSE
  <2>1. PICK m \in Bad : \A k \in Bad : m <= k
    <3>1. Bad \in SUBSET Nat
      BY <1>0
    <3> HIDE DEF Bad
    <3> QED BY <3>1, <1>1, LeastExists
  <2>2. CASE m = 0
    <3>1. PICK up : up = [e \in 0 .. 0 |-> {}]
      OBVIOUS
    <3>2. \A e \in 0 .. 0 : e = 0
      OBVIOUS
    <3>3. up = [e \in 0 .. 0 |-> IF e = 0 THEN {} ELSE {e} \cup up[ds[e].parent]]
      BY <3>1, <3>2
    <3>4. QED
      BY <3>3, <2>1, <2>2 DEF Up
  <2>3. CASE m # 0
    <3>1. m \in 1 .. n /\ m - 1 \in 0 .. n /\ m - 1 \notin Bad
      BY <2>1, <2>3, <1>0
    <3>2. PICK up : Up(ds, m - 1, up)
      BY <3>1
    <3>3. up = [e \in 0 .. m - 1 |-> IF e = 0 THEN {} ELSE {e} \cup up[ds[e].parent]]
      BY <3>2 DEF Up
    <3>4. PICK w : w = [e \in 0 .. m |-> IF e = m THEN {m} \cup up[ds[m].parent] ELSE up[e]]
      OBVIOUS
    <3>5. \A e \in 0 .. m : w[e] = IF e = 0 THEN {} ELSE {e} \cup w[ds[e].parent]
      <4> SUFFICES ASSUME NEW e \in 0 .. m
                   PROVE  w[e] = IF e = 0 THEN {} ELSE {e} \cup w[ds[e].parent]
        OBVIOUS
      <4>1. CASE e = 0
        BY <4>1, <3>1, <3>3, <3>4
      <4>2. CASE e # 0
        <5>1. PICK p : p = ds[e].parent
          OBVIOUS
        <5>2. p \in 0 .. e - 1 /\ p \in 0 .. m /\ p # m
          BY <5>1, <4>2, <3>1, <1>0
        <5>3. w[p] = up[p]
          BY <5>2, <3>4
        <5>4. w[e] = {e} \cup up[p]
          <6>1. CASE e = m
            BY <5>1, <6>1, <3>4
          <6>2. CASE e # m
            <7>1. e \in 0 .. m - 1 /\ w[e] = up[e]
              BY <6>2, <3>1, <3>4
            <7>2. QED
              BY <5>1, <7>1, <4>2, <3>3
          <6>3. QED
            BY <6>1, <6>2
        <5>5. QED
          BY <5>1, <5>3, <5>4, <4>2
      <4>3. QED
        BY <4>1, <4>2
    <3>6. w = [e \in 0 .. m |-> IF e = 0 THEN {} ELSE {e} \cup w[ds[e].parent]]
      BY <3>4, <3>5
    <3>7. QED
      BY <3>6, <2>1 DEF Up
  <2>4. QED
    BY <2>2, <2>3
<1>2. n \notin Bad
  BY <1>1
<1>3. QED
  BY <1>0, <1>2

\* and there is only one.
LEMMA PathUnique ==
    ASSUME NEW ds, NEW n, Rooted(ds, n), NEW m \in 0 .. n,
           NEW up, Up(ds, n, up), NEW w, Up(ds, m, w)
    PROVE  \A e \in 0 .. m : w[e] = up[e]
<1> DEFINE Bad == {e \in 0 .. m : w[e] # up[e]}
<1>0. n \in Nat /\ \A e \in 1 .. n : ds[e].parent \in 0 .. e - 1
  BY DEF Rooted
<1>1. /\ up = [e \in 0 .. n |-> IF e = 0 THEN {} ELSE {e} \cup up[ds[e].parent]]
      /\ w = [e \in 0 .. m |-> IF e = 0 THEN {} ELSE {e} \cup w[ds[e].parent]]
  BY DEF Up
<1>2. ASSUME Bad # {}
      PROVE  FALSE
  <2>1. PICK e \in Bad : \A k \in Bad : e <= k
    <3>1. Bad \in SUBSET Nat
      BY <1>0
    <3> HIDE DEF Bad
    <3> QED BY <3>1, <1>2, LeastExists
  <2>2. e \in 0 .. m /\ e \in 0 .. n
    BY <2>1, <1>0
  <2>3. CASE e = 0
    BY <2>1, <2>2, <2>3, <1>1
  <2>4. CASE e # 0
    <3>1. PICK p : p = ds[e].parent
      OBVIOUS
    <3>2. p \in 0 .. e - 1 /\ p \in 0 .. m
      BY <3>1, <2>2, <2>4, <1>0
    <3>3. w[p] = up[p]
      BY <3>2, <2>1, <2>2
    <3>4. w[e] = {e} \cup w[p] /\ up[e] = {e} \cup up[p]
      BY <3>1, <2>2, <2>4, <1>1
    <3>5. QED
      BY <3>3, <3>4, <2>1
  <2>5. QED
    BY <2>3, <2>4
<1>3. QED
  BY <1>2

\* Around a DIE are the DIE and what is around its parent.
LEMMA PathIs ==
    ASSUME NEW ds, NEW n, Rooted(ds, n)
    PROVE  /\ PathIn(ds, 0) = {}
           /\ \A d \in 1 .. n : PathIn(ds, d) = {d} \cup PathIn(ds, ds[d].parent)
<1>0. n \in Nat /\ \A e \in 1 .. n : ds[e].parent \in 0 .. e - 1
  BY DEF Rooted
<1>1. ASSUME NEW d \in 0 .. n
      PROVE  \E up : Up(ds, d, up) /\ PathIn(ds, d) = up[d] /\ Rooted(ds, d)
  <2>1. Rooted(ds, d)
    BY <1>0 DEF Rooted
  <2>2. \E up : Up(ds, d, up)
    BY <2>1, PathExists
  <2>3. PICK up : up = CHOOSE u : Up(ds, d, u)
    OBVIOUS
  <2>4. Up(ds, d, up)
    BY <2>2, <2>3
  <2>5. PathIn(ds, d) = up[d]
    BY <2>3 DEF PathIn
  <2>6. QED
    BY <2>1, <2>4, <2>5
<1>2. PathIn(ds, 0) = {}
  <2>1. PICK up : Up(ds, 0, up) /\ PathIn(ds, 0) = up[0]
    BY <1>0, <1>1
  <2>2. up = [e \in 0 .. 0 |-> IF e = 0 THEN {} ELSE {e} \cup up[ds[e].parent]]
    BY <2>1 DEF Up
  <2>3. 0 \in 0 .. 0
    OBVIOUS
  <2>4. up[0] = {}
    BY <2>2, <2>3
  <2>5. QED
    BY <2>1, <2>4
<1>3. ASSUME NEW d \in 1 .. n
      PROVE  PathIn(ds, d) = {d} \cup PathIn(ds, ds[d].parent)
  <2>1. PICK p : p = ds[d].parent
    OBVIOUS
  <2>2. p \in 0 .. d - 1 /\ p \in 0 .. n /\ d \in 0 .. n /\ p \in 0 .. d
    BY <2>1, <1>0
  <2>3. PICK up : Up(ds, d, up) /\ PathIn(ds, d) = up[d] /\ Rooted(ds, d)
    BY <2>2, <1>1
  <2>4. PICK w : Up(ds, p, w) /\ PathIn(ds, p) = w[p]
    BY <2>2, <1>1
  <2>5. w[p] = up[p]
    <3>1. \A e \in 0 .. p : w[e] = up[e]
      BY <2>2, <2>3, <2>4, PathUnique
    <3>2. QED
      BY <3>1, <2>2
  <2>6. up = [e \in 0 .. d |-> IF e = 0 THEN {} ELSE {e} \cup up[ds[e].parent]]
    BY <2>3 DEF Up
  <2>7. d \in 0 .. d /\ d # 0
    BY <1>0
  <2>8. up[d] = {d} \cup up[p]
    BY <2>1, <2>6, <2>7
  <2>9. QED
    BY <2>1, <2>3, <2>4, <2>5, <2>8
<1>4. QED
  BY <1>2, <1>3

\* The innermost of some tags around a DIE is the DIE or that around its parent.
LEMMA InAtIs ==
    ASSUME NEW ds, NEW n, Rooted(ds, n), NEW tags
    PROVE  /\ InAt(ds, 0, tags) = 0
           /\ \A d \in 1 .. n :
                InAt(ds, d, tags) = IF ds[d].tag \in tags THEN d ELSE InAt(ds, ds[d].parent, tags)
<1>0. n \in Nat /\ \A e \in 1 .. n : ds[e].parent \in 0 .. e - 1
  BY DEF Rooted
<1>1. \A d \in 0 .. n : PathIn(ds, d) \subseteq 1 .. d
  <2> DEFINE Bad == {d \in 0 .. n : ~(PathIn(ds, d) \subseteq 1 .. d)}
  <2>1. ASSUME Bad # {}
        PROVE  FALSE
    <3>1. PICK d \in Bad : \A k \in Bad : d <= k
      <4>1. Bad \in SUBSET Nat
        BY <1>0
      <4> HIDE DEF Bad
      <4> QED BY <4>1, <2>1, LeastExists
    <3>2. d # 0
      BY <3>1, PathIs
    <3>3. PICK p : p = ds[d].parent
      OBVIOUS
    <3>4. d \in 1 .. n /\ p \in 0 .. d - 1 /\ p \in 0 .. n
      BY <3>1, <3>2, <3>3, <1>0
    <3>5. PathIn(ds, p) \subseteq 1 .. p
      BY <3>1, <3>4
    <3>6. PathIn(ds, d) = {d} \cup PathIn(ds, p)
      BY <3>3, <3>4, PathIs
    <3>7. QED
      BY <3>1, <3>4, <3>5, <3>6
  <2>2. QED
    BY <2>1
<1>2. InAt(ds, 0, tags) = 0
  <2>1. PathIn(ds, 0) = {}
    BY PathIs
  <2>2. QED
    BY <2>1 DEF InAt
<1>3. ASSUME NEW d \in 1 .. n
      PROVE  InAt(ds, d, tags) = IF ds[d].tag \in tags THEN d ELSE InAt(ds, ds[d].parent, tags)
  <2>1. PICK p : p = ds[d].parent
    OBVIOUS
  <2>2. PathIn(ds, d) = {d} \cup PathIn(ds, p)
    BY <2>1, PathIs
  <2>3. PICK E, F : /\ E = {e \in PathIn(ds, d) : ds[e].tag \in tags}
                    /\ F = {e \in PathIn(ds, p) : ds[e].tag \in tags}
    OBVIOUS
  <2>4. InAt(ds, d, tags) = IF E = {} THEN 0 ELSE Max(E)
    BY <2>3, Zenon DEF InAt
  <2>5. InAt(ds, p, tags) = IF F = {} THEN 0 ELSE Max(F)
    BY <2>3, Zenon DEF InAt
  <2>6. CASE ds[d].tag \in tags
    <3>1. d \in E /\ \A e \in E : e \in 1 .. d
      BY <2>2, <2>3, <2>6, <1>0, <1>1
    <3>2. \A x \in E : (\A e \in E : x >= e) => x = d
      BY <3>1
    <3>3. \A e \in E : d >= e
      BY <3>1
    <3>4. Max(E) = d
      BY <3>1, <3>2, <3>3 DEF Max
    <3>5. QED
      BY <3>1, <3>4, <2>4, <2>6
  <2>7. CASE ds[d].tag \notin tags
    <3>1. E = F
      BY <2>2, <2>3, <2>7
    <3>2. QED
      BY <3>1, <2>1, <2>4, <2>5, <2>7
  <2>8. QED
    BY <2>6, <2>7
<1>4. QED
  BY <1>2, <1>3

\* The innermost function, the unit, and what decides how long a variable lives
Func(ds, d) == InAt(ds, d, {"func"})
Unit(ds, d) == InAt(ds, d, {"cu"})
Scope(ds, d) == InAt(ds, d, {"func", "block", "common"})

\* Each is that of the parent, unless the DIE is one itself.
LEMMA AroundIs ==
    ASSUME NEW ds, NEW n, Rooted(ds, n)
    PROVE  /\ Func(ds, 0) = 0 /\ Unit(ds, 0) = 0 /\ Scope(ds, 0) = 0
           /\ \A d \in 1 .. n :
                /\ Func(ds, d) = IF ds[d].tag = "func" THEN d ELSE Func(ds, ds[d].parent)
                /\ Unit(ds, d) = IF ds[d].tag = "cu" THEN d ELSE Unit(ds, ds[d].parent)
                /\ Scope(ds, d) = IF ds[d].tag \in {"func", "block", "common"} THEN d
                                  ELSE Scope(ds, ds[d].parent)
<1>1. PICK f, u, s : f = {"func"} /\ u = {"cu"} /\ s = {"func", "block", "common"}
  OBVIOUS
<1>2. /\ InAt(ds, 0, f) = 0 /\ InAt(ds, 0, u) = 0 /\ InAt(ds, 0, s) = 0
      /\ \A d \in 1 .. n :
           /\ InAt(ds, d, f) = IF ds[d].tag \in f THEN d ELSE InAt(ds, ds[d].parent, f)
           /\ InAt(ds, d, u) = IF ds[d].tag \in u THEN d ELSE InAt(ds, ds[d].parent, u)
           /\ InAt(ds, d, s) = IF ds[d].tag \in s THEN d ELSE InAt(ds, ds[d].parent, s)
  BY InAtIs
<1>3. \A d : Func(ds, d) = InAt(ds, d, f) /\ Unit(ds, d) = InAt(ds, d, u) /\ Scope(ds, d) = InAt(ds, d, s)
  BY <1>1 DEF Func, Unit, Scope
<1>4. \A x : (x \in f <=> x = "func") /\ (x \in u <=> x = "cu")
  BY <1>1
<1>5. QED
  BY <1>1, <1>2, <1>3, <1>4

\* The innermost is one of them.
LEMMA InAtIn ==
    ASSUME NEW ds, NEW n, Rooted(ds, n), NEW tags, NEW d \in 0 .. n
    PROVE  /\ InAt(ds, d, tags) \in 0 .. d
           /\ InAt(ds, d, tags) # 0 => ds[InAt(ds, d, tags)].tag \in tags
<1>0. n \in Nat /\ \A e \in 1 .. n : ds[e].parent \in 0 .. e - 1
  BY DEF Rooted
<1> DEFINE In(e) == /\ InAt(ds, e, tags) \in 0 .. e
                    /\ InAt(ds, e, tags) # 0 => ds[InAt(ds, e, tags)].tag \in tags
           Bad == {e \in 0 .. n : ~In(e)}
<1>1. ASSUME Bad # {}
      PROVE  FALSE
  <2>1. PICK e \in Bad : \A k \in Bad : e <= k
    <3>1. Bad \in SUBSET Nat
      BY <1>0
    <3> HIDE DEF Bad
    <3> QED BY <3>1, <1>1, LeastExists
  <2>2. e # 0
    BY <2>1, InAtIs
  <2>3. PICK p : p = ds[e].parent
    OBVIOUS
  <2>4. e \in 1 .. n /\ p \in 0 .. e - 1 /\ p \in 0 .. n
    BY <2>1, <2>2, <2>3, <1>0
  <2>5. In(p)
    BY <2>1, <2>4
  <2>6. InAt(ds, e, tags) = IF ds[e].tag \in tags THEN e ELSE InAt(ds, p, tags)
    BY <2>3, <2>4, InAtIs
  <2>7. In(e)
    BY <2>4, <2>5, <2>6
  <2>8. QED
    BY <2>1, <2>7
<1>2. QED
  BY <1>1

\* Each is 0 or a DIE of its kind.
LEMMA InAroundIs ==
    ASSUME NEW ds, NEW n, Rooted(ds, n), NEW d \in 0 .. n
    PROVE  /\ Func(ds, d) \in 0 .. d /\ (Func(ds, d) # 0 => ds[Func(ds, d)].tag = "func")
           /\ Unit(ds, d) \in 0 .. d /\ (Unit(ds, d) # 0 => ds[Unit(ds, d)].tag = "cu")
           /\ Scope(ds, d) \in 0 .. d
<1>1. PICK f, u, s : f = {"func"} /\ u = {"cu"} /\ s = {"func", "block", "common"}
  OBVIOUS
<1>2. /\ InAt(ds, d, f) \in 0 .. d /\ (InAt(ds, d, f) # 0 => ds[InAt(ds, d, f)].tag \in f)
      /\ InAt(ds, d, u) \in 0 .. d /\ (InAt(ds, d, u) # 0 => ds[InAt(ds, d, u)].tag \in u)
      /\ InAt(ds, d, s) \in 0 .. d
  BY InAtIn
<1>3. Func(ds, d) = InAt(ds, d, f) /\ Unit(ds, d) = InAt(ds, d, u) /\ Scope(ds, d) = InAt(ds, d, s)
  BY <1>1 DEF Func, Unit, Scope
<1>4. \A x : (x \in f => x = "func") /\ (x \in u => x = "cu")
  BY <1>1
<1>5. QED
  BY <1>2, <1>3, <1>4

\* A DIE that is read later is not around one that was read before.
LEMMA InAtStays ==
    ASSUME NEW ds, NEW ds1, NEW n, Rooted(ds, n), \A e \in 1 .. n : ds1[e] = ds[e], NEW tags,
           NEW d \in 0 .. n
    PROVE  InAt(ds1, d, tags) = InAt(ds, d, tags)
<1>0. n \in Nat /\ \A e \in 1 .. n : ds[e].parent \in 0 .. e - 1
  BY DEF Rooted
<1>1. Rooted(ds1, n)
  BY <1>0 DEF Rooted
<1> DEFINE Bad == {e \in 0 .. n : InAt(ds1, e, tags) # InAt(ds, e, tags)}
<1>2. ASSUME Bad # {}
      PROVE  FALSE
  <2>1. PICK e \in Bad : \A k \in Bad : e <= k
    <3>1. Bad \in SUBSET Nat
      BY <1>0
    <3> HIDE DEF Bad
    <3> QED BY <3>1, <1>2, LeastExists
  <2>2. e # 0
    BY <2>1, <1>1, InAtIs
  <2>3. PICK p : p = ds[e].parent
    OBVIOUS
  <2>4. e \in 1 .. n /\ p \in 0 .. e - 1 /\ p \in 0 .. n /\ ds1[e] = ds[e]
    BY <2>1, <2>2, <2>3, <1>0
  <2>5. InAt(ds1, p, tags) = InAt(ds, p, tags)
    BY <2>1, <2>4
  <2>6. /\ InAt(ds, e, tags) = IF ds[e].tag \in tags THEN e ELSE InAt(ds, p, tags)
        /\ InAt(ds1, e, tags) = IF ds1[e].tag \in tags THEN e ELSE InAt(ds1, ds1[e].parent, tags)
    BY <2>3, <2>4, <1>1, InAtIs
  <2>7. QED
    BY <2>1, <2>3, <2>4, <2>5, <2>6
<1>3. QED
  BY <1>2

\* The properties ask for the innermost around the parent.
LEMMA InnermostIs ==
    ASSUME NEW d, NEW tags
    PROVE  Innermost(d, tags) = InAt(dies, dies[d].parent, tags)
  BY Zenon DEF Innermost, InAt, Path, PathIn, Up

-----------------------------------------------------------------------------
(* What walkTree hands down *)

\* DIEs are nested as TreeAssumption has it.
Nested(ds, n) ==
    \A d \in 1 .. n :
        LET die == ds[d]
            around == ds[die.parent].tag
        IN /\ die.parent = 0 <=> die.tag = "cu"
           /\ die.parent # 0 =>
                /\ around \in {"cu", "func", "block", "common"}
                /\ die.tag = "block" => around \in {"func", "block"}
                /\ die.tag \in {"var", "param"} /\ around \in {"cu", "common"} =>
                     die.loc = <<>> \/ Head(die.loc).reg \in {"addr", "other"}

\* The WalkInfo for the children of d, from the DIEs around them
InfoAt(ds, d) ==
    [storageType |-> IF Scope(ds, d) = 0 \/ ds[Scope(ds, d)].tag = "common" THEN "Static" ELSE "Auto",
     lastFuncDie |-> Func(ds, d),
     lang |-> ds[Unit(ds, d)].lang]

\* What AddVar keeps of a variable
VarOf(die, info) == [type |-> info.storageType,
                     parent |-> IF info.storageType = "Static" THEN 0 ELSE info.lastFuncDie,
                     size |-> GetSize(die, info.lang), typeSize |-> GetTypeSize(die, info.lang),
                     entries |-> Entries(die.loc)]

\* Around every DIE is a unit, and a function around what is neither shared nor in a function.
LEMMA UnitAround ==
    ASSUME NEW ds, NEW n, Rooted(ds, n), Nested(ds, n), NEW d \in 1 .. n
    PROVE  Unit(ds, d) \in 1 .. d /\ ds[Unit(ds, d)].tag = "cu"
<1>0. n \in Nat /\ \A e \in 1 .. n : ds[e].parent \in 0 .. e - 1
  BY DEF Rooted
<1> DEFINE Bad == {e \in 1 .. n : Unit(ds, e) = 0}
<1>1. ASSUME Bad # {}
      PROVE  FALSE
  <2>1. PICK e \in Bad : \A k \in Bad : e <= k
    <3>1. Bad \in SUBSET Nat
      BY <1>0
    <3> HIDE DEF Bad
    <3> QED BY <3>1, <1>1, LeastExists
  <2>2. PICK p : p = ds[e].parent
    OBVIOUS
  <2>3. p \in 0 .. e - 1 /\ (p = 0 => ds[e].tag = "cu")
    BY <2>1, <2>2, <1>0 DEF Nested
  <2>4. Unit(ds, e) = IF ds[e].tag = "cu" THEN e ELSE Unit(ds, p)
    BY <2>1, <2>2, AroundIs
  <2>5. p # 0 /\ p \in 1 .. n /\ Unit(ds, p) = 0
    BY <2>1, <2>3, <2>4, <1>0
  <2>6. QED
    BY <2>1, <2>3, <2>5
<1>2. Unit(ds, d) # 0
  BY <1>1
<1>3. QED
  BY <1>0, <1>2, InAroundIs

\* What has automatic storage is in a function.
LEMMA FuncAround ==
    ASSUME NEW ds, NEW n, Rooted(ds, n), Nested(ds, n), NEW d \in 0 .. n,
           InfoAt(ds, d).storageType = "Auto"
    PROVE  Func(ds, d) \in 1 .. d /\ ds[Func(ds, d)].tag = "func"
<1>0. n \in Nat /\ \A e \in 1 .. n : ds[e].parent \in 0 .. e - 1
  BY DEF Rooted
<1> DEFINE In(e) == Scope(ds, e) = 0 \/ ds[Scope(ds, e)].tag = "common" \/ Func(ds, e) # 0
           Bad == {e \in 0 .. n : ~In(e)}
<1>1. ASSUME Bad # {}
      PROVE  FALSE
  <2>1. PICK e \in Bad : \A k \in Bad : e <= k
    <3>1. Bad \in SUBSET Nat
      BY <1>0
    <3> HIDE DEF Bad
    <3> QED BY <3>1, <1>1, LeastExists
  <2>2. e # 0
    BY <2>1, AroundIs
  <2>3. PICK p : p = ds[e].parent
    OBVIOUS
  <2>4. e \in 1 .. n /\ p \in 0 .. e - 1 /\ p \in 0 .. n /\ (p # 0 => p \in 1 .. n)
    BY <2>1, <2>2, <2>3, <1>0
  <2>5. In(p)
    BY <2>1, <2>4
  <2>6. /\ Scope(ds, e) = IF ds[e].tag \in {"func", "block", "common"} THEN e ELSE Scope(ds, p)
        /\ Func(ds, e) = IF ds[e].tag = "func" THEN e ELSE Func(ds, p)
    BY <2>3, <2>4, AroundIs
  <2>7. CASE ds[e].tag \notin {"func", "block", "common"}
    BY <2>1, <2>5, <2>6, <2>7
  <2>8. CASE ds[e].tag \in {"func", "common"}
    BY <2>1, <2>2, <2>6, <2>8
  <2>9. CASE ds[e].tag = "block"
    <3>1. p # 0 /\ ds[p].tag \in {"func", "block"}
      BY <2>3, <2>4, <2>9 DEF Nested
    <3>2. Scope(ds, p) = p
      BY <3>1, <2>4, AroundIs
    <3>3. Func(ds, p) # 0
      BY <3>1, <3>2, <2>5
    <3>4. QED
      BY <3>3, <2>1, <2>6, <2>9
  <2>10. QED
    BY <2>7, <2>8, <2>9
<1>2. In(d)
  BY <1>1
<1>3. Func(ds, d) # 0
  BY <1>2 DEF InfoAt
<1>4. QED
  BY <1>0, <1>3, InAroundIs

\* A DIE that is read later changes no WalkInfo.
LEMMA InfoStays ==
    ASSUME NEW ds, NEW ds1, NEW n, Rooted(ds, n), Nested(ds, n), \A e \in 1 .. n : ds1[e] = ds[e],
           NEW d \in 1 .. n
    PROVE  InfoAt(ds1, d) = InfoAt(ds, d)
<1>0. n \in Nat
  BY DEF Rooted
<1>1. PICK e, f, u : e = Scope(ds, d) /\ f = Func(ds, d) /\ u = Unit(ds, d)
  OBVIOUS
<1>2. e = Scope(ds1, d) /\ f = Func(ds1, d) /\ u = Unit(ds1, d)
  <2>1. \A tags : InAt(ds1, d, tags) = InAt(ds, d, tags)
    BY <1>0, InAtStays
  <2>2. QED
    BY <1>1, <2>1, Zenon DEF Scope, Func, Unit
<1>3. u \in 1 .. n /\ e \in 0 .. n
  BY <1>0, <1>1, UnitAround, InAroundIs
<1>4. ds1[u] = ds[u] /\ (e # 0 => ds1[e] = ds[e])
  BY <1>3
<1>5. (e = 0 \/ ds1[e].tag = "common") <=> (e = 0 \/ ds[e].tag = "common")
  BY <1>4
<1>6. InfoAt(ds, d) = [storageType |-> IF e = 0 \/ ds[e].tag = "common" THEN "Static" ELSE "Auto",
                       lastFuncDie |-> f, lang |-> ds[u].lang]
  BY <1>1, Zenon DEF InfoAt
<1>7. InfoAt(ds1, d) = [storageType |-> IF e = 0 \/ ds1[e].tag = "common" THEN "Static" ELSE "Auto",
                        lastFuncDie |-> f, lang |-> ds1[u].lang]
  BY <1>2, Zenon DEF InfoAt
<1>8. QED
  BY <1>4, <1>5, <1>6, <1>7

\* What ChildInfo makes of it is what is around the children.
LEMMA ChildInfoIs ==
    ASSUME NEW ds, NEW n, Rooted(ds, n), Nested(ds, n), NEW d \in 1 .. n, NEW info,
           info = IF ds[d].tag = "cu"
                  THEN [storageType |-> "Static", lastFuncDie |-> 0, lang |-> ds[d].lang]
                  ELSE InfoAt(ds, ds[d].parent)
    PROVE  ChildInfo(d, ds[d], info) = InfoAt(ds, d)
<1>1. PICK p, tag : p = ds[d].parent /\ tag = ds[d].tag
  OBVIOUS
<1>2. n \in Nat /\ p \in 0 .. d - 1 /\ (p = 0 <=> tag = "cu")
  BY <1>1 DEF Rooted, Nested
<1>3. /\ Scope(ds, d) = IF tag \in {"func", "block", "common"} THEN d ELSE Scope(ds, p)
      /\ Func(ds, d) = IF tag = "func" THEN d ELSE Func(ds, p)
      /\ Unit(ds, d) = IF tag = "cu" THEN d ELSE Unit(ds, p)
      /\ Scope(ds, 0) = 0 /\ Func(ds, 0) = 0
  BY <1>1, AroundIs
<1>4. PICK i, f, u : i = Scope(ds, d) /\ f = Func(ds, d) /\ u = Unit(ds, d)
  OBVIOUS
<1>5. InfoAt(ds, d) = [storageType |-> IF i = 0 \/ ds[i].tag = "common" THEN "Static" ELSE "Auto",
                       lastFuncDie |-> f, lang |-> ds[u].lang]
  BY <1>4, Zenon DEF InfoAt
<1>6. PICK t, l, g : /\ info = [storageType |-> t, lastFuncDie |-> l, lang |-> g]
                     /\ t = IF tag = "cu" \/ Scope(ds, p) = 0 \/ ds[Scope(ds, p)].tag = "common"
                            THEN "Static" ELSE "Auto"
                     /\ l = IF tag = "cu" THEN 0 ELSE Func(ds, p)
                     /\ g = IF tag = "cu" THEN ds[d].lang ELSE ds[Unit(ds, p)].lang
  <2>1. CASE tag = "cu"
    BY <2>1, <1>1
  <2>2. CASE tag # "cu"
    <3>1. info = InfoAt(ds, p)
      BY <2>2, <1>1
    <3>2. PICK j, h, v : j = Scope(ds, p) /\ h = Func(ds, p) /\ v = Unit(ds, p)
      OBVIOUS
    <3>3. info = [storageType |-> IF j = 0 \/ ds[j].tag = "common" THEN "Static" ELSE "Auto",
                  lastFuncDie |-> h, lang |-> ds[v].lang]
      BY <3>1, <3>2, Zenon DEF InfoAt
    <3>4. QED
      BY <3>2, <3>3, <2>2
  <2>3. QED
    BY <2>1, <2>2
<1>7. PICK a, b : /\ a = (IF tag = "func" THEN d ELSE l)
                  /\ b = (CASE tag \in {"block", "func"} -> "Auto"
                            [] tag = "common"            -> "Static"
                            [] OTHER                     -> t)
  OBVIOUS
<1>8. ChildInfo(d, ds[d], info) = [storageType |-> b, lastFuncDie |-> a, lang |-> g]
  <2>1. PICK r : r = ChildInfo(d, ds[d], info)
    OBVIOUS
  <2>2. info.storageType = t /\ info.lastFuncDie = l
    BY <1>6
  <2>3. r = [info EXCEPT !.lastFuncDie = a, !.storageType = b]
    BY <2>1, <2>2, <1>1, <1>7, Zenon DEF ChildInfo
  <2>4. r = [[storageType |-> t, lastFuncDie |-> l, lang |-> g]
               EXCEPT !.lastFuncDie = a, !.storageType = b]
    BY <2>3, <1>6, Zenon
  <2>5. r = [storageType |-> b, lastFuncDie |-> a, lang |-> g]
    BY <2>4
  <2>6. QED
    BY <2>1, <2>5
<1>9. a = f
  BY <1>1, <1>2, <1>3, <1>4, <1>6, <1>7
<1>10. g = ds[u].lang
  BY <1>1, <1>3, <1>4, <1>6
<1>11. b = IF i = 0 \/ ds[i].tag = "common" THEN "Static" ELSE "Auto"
  <2>1. CASE tag \in {"func", "block", "common"}
    <3>1. i = d /\ i # 0 /\ ds[i].tag = tag
      BY <2>1, <1>1, <1>3, <1>4
    <3>2. QED
      BY <2>1, <3>1, <1>7
  <2>2. CASE tag \notin {"func", "block", "common"}
    <3>1. i = Scope(ds, p) /\ (tag = "cu" => i = 0)
      BY <2>2, <1>1, <1>2, <1>3, <1>4
    <3>2. b = t
      BY <2>2, <1>7
    <3>3. QED
      BY <3>1, <3>2, <1>6
  <2>3. QED
    BY <2>1, <2>2
<1>12. QED
  BY <1>5, <1>8, <1>9, <1>10, <1>11, Zenon

\* A DIE with its place in the tree is otherwise the DIE it was.
LEMMA PlacedIs ==
    ASSUME NEW k \in Die, NEW p
    PROVE  LET die == [k EXCEPT !.parent = p]
           IN /\ die.parent = p /\ die.tag = k.tag /\ die.lang = k.lang /\ die.type = k.type
              /\ die.loc = k.loc /\ [die EXCEPT !.parent = 0] = k
<1>1. PICK die : die = [k EXCEPT !.parent = p]
  OBVIOUS
<1>2. DOMAIN k = {"tag", "parent", "lang", "name", "linkageName", "type", "loc", "junk"}
  BY DieAssumption
<1>3. k = [k EXCEPT !.parent = 0]
  BY TreeAssumption
<1>4. DOMAIN die = DOMAIN k /\ \A x \in DOMAIN k : die[x] = IF x = "parent" THEN p ELSE k[x]
  BY <1>1
<1>5. k = [x \in DOMAIN k |-> IF x = "parent" THEN 0 ELSE k[x]]
  BY <1>3
<1>6. [die EXCEPT !.parent = 0] = [x \in DOMAIN die |-> IF x = "parent" THEN 0 ELSE die[x]]
  OBVIOUS
<1>7. [x \in DOMAIN die |-> IF x = "parent" THEN 0 ELSE die[x]]
        = [x \in DOMAIN k |-> IF x = "parent" THEN 0 ELSE k[x]]
  BY <1>4
<1>8. /\ die.parent = p /\ die.tag = k.tag /\ die.lang = k.lang /\ die.type = k.type
      /\ die.loc = k.loc
  BY <1>1, <1>2
<1>9. QED
  BY <1>1, <1>5, <1>6, <1>7, <1>8

\* The DIEs are nested, every WalkInfo is what is around a DIE, and the variables
\* collected are those of a size, each as its place has it and listed in its function.
Walked ==
    /\ Rooted(dies, Len(dies)) /\ Nested(dies, Len(dies))
    /\ \A d \in 1 .. Len(dies) : walkInfo[d] = InfoAt(dies, d)
    /\ \A d \in 1 .. Len(dies) :
         d \in DOMAIN vars <=> /\ dies[d].tag \in {"var", "param"}
                               /\ GetSize(dies[d], InfoAt(dies, dies[d].parent).lang) # 0
    /\ \A d \in DOMAIN vars :
         /\ vars[d] = VarOf(dies[d], InfoAt(dies, dies[d].parent))
         /\ vars[d].parent # 0 =>
              /\ vars[d].parent \in DOMAIN funcs
              /\ \E i \in DOMAIN funcs[vars[d].parent].vars : funcs[vars[d].parent].vars[i] = d

\* The DIE that a call of walkTree adds is nested as those before.
LEMMA WalkNests ==
    ASSUME Tree, Walked, NEW parent \in 0 .. Len(dies), NEW k \in Die, WalkTree(parent, k)
    PROVE  /\ Rooted(dies', Len(dies) + 1) /\ Nested(dies', Len(dies) + 1)
           /\ Len(dies') = Len(dies) + 1 /\ dies'[Len(dies) + 1] = [k EXCEPT !.parent = parent]
           /\ \A d \in 1 .. Len(dies) : dies'[d] = dies[d]
<1>1. PICK n, die : n = Len(dies) /\ die = [k EXCEPT !.parent = parent]
  OBVIOUS
<1>2. /\ n \in Nat /\ dies \in Seq(ReadDie) /\ Rooted(dies, n) /\ Nested(dies, n)
  BY <1>1 DEF Tree, Walked
<1>3. /\ dies' = Append(dies, die)
      /\ k \in Child[IF parent = 0 THEN Root ELSE [dies[parent] EXCEPT !.parent = 0]]
  BY <1>1, Zenon DEF WalkTree
<1>4. die \in ReadDie
  BY <1>1, <1>2 DEF ReadDie
<1>5. /\ Len(dies') = n + 1 /\ dies'[n + 1] = die /\ \A d \in 1 .. n : dies'[d] = dies[d]
  BY <1>1, <1>2, <1>3, <1>4
<1>6. die.parent = parent /\ die.tag = k.tag /\ die.loc = k.loc
  BY <1>1, PlacedIs
<1>7. Rooted(dies', n + 1)
  <2>1. \A d \in 1 .. n : dies'[d].parent \in 0 .. d - 1
    BY <1>2, <1>5 DEF Rooted
  <2>2. dies'[n + 1].parent \in 0 .. (n + 1) - 1
    BY <1>1, <1>2, <1>5, <1>6
  <2>3. QED
    BY <2>1, <2>2, <1>2 DEF Rooted
<1>8. ASSUME NEW d \in 1 .. n + 1
      PROVE  LET x == dies'[d]
                 around == dies'[x.parent].tag
             IN /\ x.parent = 0 <=> x.tag = "cu"
                /\ x.parent # 0 =>
                     /\ around \in {"cu", "func", "block", "common"}
                     /\ x.tag = "block" => around \in {"func", "block"}
                     /\ x.tag \in {"var", "param"} /\ around \in {"cu", "common"} =>
                          x.loc = <<>> \/ Head(x.loc).reg \in {"addr", "other"}
  <2>1. CASE d \in 1 .. n
    <3>1. dies'[d] = dies[d] /\ (dies[d].parent # 0 => dies[d].parent \in 1 .. n)
      BY <2>1, <1>2, <1>5 DEF Rooted
    <3>2. dies[d].parent # 0 => dies'[dies[d].parent] = dies[dies[d].parent]
      BY <3>1, <1>5
    <3>3. QED
      BY <3>1, <3>2, <2>1, <1>2 DEF Nested
  <2>2. CASE d = n + 1 /\ parent = 0
    <3>1. k \in Child[Root]
      BY <2>2, <1>3
    <3>2. k.tag = "cu"
      BY <3>1, DieAssumption
    <3>3. QED
      BY <3>2, <2>2, <1>5, <1>6
  <2>3. CASE d = n + 1 /\ parent # 0
    <3>1. parent \in 1 .. n /\ dies'[parent] = dies[parent] /\ dies[parent] \in ReadDie
      BY <2>3, <1>1, <1>2, <1>5
    <3>2. PICK q \in Die, p \in Nat : dies[parent] = [q EXCEPT !.parent = p]
      BY <3>1 DEF ReadDie
    <3>3. dies[parent].tag = q.tag /\ [dies[parent] EXCEPT !.parent = 0] = q
      <4>1. PICK x : x = [q EXCEPT !.parent = p]
        OBVIOUS
      <4>2. x.tag = q.tag
        BY <4>1, PlacedIs
      <4>3. [[q EXCEPT !.parent = p] EXCEPT !.parent = 0] = q
        BY PlacedIs, Zenon
      <4>4. [x EXCEPT !.parent = 0] = q
        BY <4>1, <4>3
      <4>5. dies[parent] = x
        BY <3>2, <4>1
      <4>6. QED
        BY <4>2, <4>4, <4>5
    <3>4. k \in Child[q]
      BY <3>3, <2>3, <1>3
    <3>5. /\ q.tag \in {"cu", "func", "block", "common"} /\ k.tag # "cu"
          /\ k.tag = "block" => q.tag \in {"func", "block"}
          /\ k.tag \in {"var", "param"} /\ q.tag \in {"cu", "common"} =>
               k.loc = <<>> \/ Head(k.loc).reg \in {"addr", "other"}
      BY <3>4, TreeAssumption
    <3>6. PICK x : x = dies'[d]
      OBVIOUS
    <3>7. x.parent = parent /\ x.tag = k.tag /\ x.loc = k.loc /\ dies'[x.parent].tag = q.tag
      BY <3>1, <3>3, <3>6, <2>3, <1>5, <1>6
    <3>8. QED
      BY <3>5, <3>6, <3>7, <2>3
  <2>4. QED
    BY <2>1, <2>2, <2>3, <1>2
<1>9. Nested(dies', n + 1)
  BY <1>8 DEF Nested
<1>10. QED
  BY <1>1, <1>5, <1>7, <1>9

\* A call of walkTree gives a variable the storage and the function around it.
LEMMA WalkKeepsWalked ==
    ASSUME Tree, Walked, Walk
    PROVE  Walked'
<1>1. PICK parent \in 0 .. Len(dies), k \in Die : WalkTree(parent, k)
  BY DEF Walk
<1>2. PICK n, die, info : n = Len(dies) /\ die = [k EXCEPT !.parent = parent] /\ info = InfoOf(die)
  OBVIOUS
<1>3. /\ CASE die.tag = "func" -> AddFunc(n + 1, die)
           [] die.tag \in {"var", "param"} /\ GetSize(die, info.lang) # 0 -> AddVar(n + 1, die, info)
           [] OTHER -> UNCHANGED <<funcs, vars>>
      /\ walkInfo' = Put(walkInfo, n + 1, ChildInfo(n + 1, die, info))
  BY <1>1, <1>2, Zenon DEF WalkTree
<1>4. /\ n \in Nat /\ Rooted(dies, n) /\ Nested(dies, n)
      /\ DOMAIN walkInfo = 1 .. n /\ DOMAIN vars \subseteq 1 .. n
      /\ DOMAIN funcs = {d \in 1 .. n : dies[d].tag = "func"}
  BY <1>2 DEF Tree, Walked
<1>5. /\ Rooted(dies', n + 1) /\ Nested(dies', n + 1) /\ Len(dies') = n + 1
      /\ dies'[n + 1] = die /\ \A d \in 1 .. n : dies'[d] = dies[d]
  BY <1>1, <1>2, WalkNests
<1>6. die.parent = parent /\ die.tag = k.tag
  BY <1>2, PlacedIs
<1>7. \A d \in 1 .. n : InfoAt(dies', d) = InfoAt(dies, d) /\ walkInfo[d] = InfoAt(dies, d)
  <2>1. \A d \in 1 .. n : walkInfo[d] = InfoAt(dies, d)
    BY <1>2 DEF Walked
  <2>2. \A d \in 1 .. n : InfoAt(dies', d) = InfoAt(dies, d)
    BY <1>4, <1>5, InfoStays
  <2>3. QED
    BY <2>1, <2>2
<1>8. /\ die.tag # "cu" => parent \in 1 .. n /\ info = InfoAt(dies', parent)
      /\ info = IF die.tag = "cu"
                THEN [storageType |-> "Static", lastFuncDie |-> 0, lang |-> die.lang]
                ELSE InfoAt(dies', parent)
  <2>1. parent = 0 <=> die.tag = "cu"
    BY <1>4, <1>5, <1>6 DEF Nested
  <2>2. CASE die.tag = "cu"
    BY <2>2, <1>2 DEF InfoOf
  <2>3. CASE die.tag # "cu"
    <3>1. parent \in 1 .. n
      BY <2>1, <2>3, <1>2, <1>4
    <3>2. info = walkInfo[parent]
      BY <2>3, <1>2, <1>6 DEF InfoOf
    <3>3. QED
      BY <3>1, <3>2, <2>3, <1>7
  <2>4. QED
    BY <2>2, <2>3
<1>9. \A d \in 1 .. n + 1 : walkInfo'[d] = InfoAt(dies', d)
  <2>1. ChildInfo(n + 1, die, info) = InfoAt(dies', n + 1)
    <3>1. n + 1 \in 1 .. n + 1
      BY <1>4
    <3>2. info = IF dies'[n + 1].tag = "cu"
                 THEN [storageType |-> "Static", lastFuncDie |-> 0, lang |-> dies'[n + 1].lang]
                 ELSE InfoAt(dies', dies'[n + 1].parent)
      BY <1>5, <1>6, <1>8
    <3>3. ChildInfo(n + 1, dies'[n + 1], info) = InfoAt(dies', n + 1)
      BY <3>1, <3>2, <1>5, ChildInfoIs
    <3>4. QED
      BY <3>3, <1>5
  <2>2. /\ walkInfo'[n + 1] = ChildInfo(n + 1, die, info)
        /\ \A d \in 1 .. n : walkInfo'[d] = walkInfo[d]
    <3>1. PICK c : c = ChildInfo(n + 1, die, info)
      OBVIOUS
    <3>2. walkInfo' = [z \in (1 .. n) \cup {n + 1} |-> IF z = n + 1 THEN c ELSE walkInfo[z]]
      BY <3>1, <1>3, <1>4 DEF Put
    <3>3. QED
      BY <3>1, <3>2, <1>4
  <2>3. QED
    BY <2>1, <2>2, <1>4, <1>7
<1>10. ASSUME NEW d \in 1 .. n
       PROVE  /\ InfoAt(dies', dies'[d].parent) = InfoAt(dies, dies[d].parent) \/ d \notin DOMAIN vars
              /\ d \in DOMAIN vars <=> /\ dies'[d].tag \in {"var", "param"}
                                       /\ GetSize(dies'[d], InfoAt(dies', dies'[d].parent).lang) # 0
              /\ d \in DOMAIN vars => vars[d] = VarOf(dies'[d], InfoAt(dies', dies'[d].parent))
  <2>1. /\ d \in DOMAIN vars <=> /\ dies[d].tag \in {"var", "param"}
                                 /\ GetSize(dies[d], InfoAt(dies, dies[d].parent).lang) # 0
        /\ d \in DOMAIN vars => vars[d] = VarOf(dies[d], InfoAt(dies, dies[d].parent))
    BY <1>2 DEF Walked
  <2>2. dies'[d] = dies[d]
    BY <1>5
  <2>3. dies[d].tag \in {"var", "param"} => InfoAt(dies', dies[d].parent) = InfoAt(dies, dies[d].parent)
    <3>1. dies[d].tag \in {"var", "param"} => dies[d].parent \in 1 .. n
      BY <1>4 DEF Rooted, Nested
    <3>2. QED
      BY <3>1, <1>7
  <2>4. QED
    BY <2>1, <2>2, <2>3
<1>11. CASE die.tag \in {"var", "param"} /\ GetSize(die, info.lang) # 0
  <2>1. AddVar(n + 1, die, info) /\ die.tag # "func" /\ die.tag # "cu"
    BY <1>3, <1>11
  <2>2. PICK p, rec : /\ rec = VarOf(die, info) /\ p = rec.parent
                      /\ vars' = Put(vars, n + 1, rec)
                      /\ funcs' = IF p = 0 THEN funcs ELSE [funcs EXCEPT ![p].vars = Append(@, n + 1)]
    <3>1. PICK p, t, s, ts, es : /\ p = IF info.storageType = "Static" THEN 0 ELSE info.lastFuncDie
                                 /\ t = info.storageType /\ s = GetSize(die, info.lang)
                                 /\ ts = GetTypeSize(die, info.lang) /\ es = Entries(die.loc)
      OBVIOUS
    <3>2. PICK rec : rec = [type |-> t, parent |-> p, size |-> s, typeSize |-> ts, entries |-> es]
      OBVIOUS
    <3>3. vars' = Put(vars, n + 1, rec)
      BY <2>1, <3>1, <3>2, Zenon DEF AddVar
    <3>4. funcs' = IF p = 0 THEN funcs ELSE [funcs EXCEPT ![p].vars = Append(@, n + 1)]
      BY <2>1, <3>1, Zenon DEF AddVar
    <3>5. rec = VarOf(die, info)
      BY <3>1, <3>2, Zenon DEF VarOf
    <3>6. rec.parent = p
      BY <3>2
    <3>7. QED
      BY <3>3, <3>4, <3>5, <3>6
  <2>3. /\ DOMAIN vars' = DOMAIN vars \cup {n + 1} /\ vars'[n + 1] = rec
        /\ \A d \in DOMAIN vars : vars'[d] = vars[d]
    <3>1. /\ DOMAIN vars' = DOMAIN vars \cup {n + 1} /\ vars'[n + 1] = rec
          /\ \A d \in DOMAIN vars : d # n + 1 => vars'[d] = vars[d]
      BY <2>2 DEF Put
    <3>2. QED
      BY <3>1, <1>4
  <2>4. info = InfoAt(dies', dies'[n + 1].parent)
    BY <2>1, <1>5, <1>6, <1>8
  <2>5. \A d \in 1 .. n + 1 :
          d \in DOMAIN vars' <=> /\ dies'[d].tag \in {"var", "param"}
                                 /\ GetSize(dies'[d], InfoAt(dies', dies'[d].parent).lang) # 0
    <3>1. \A d \in 1 .. n : d \in DOMAIN vars' <=> d \in DOMAIN vars
      BY <2>3, <1>4
    <3>2. n + 1 \in DOMAIN vars' /\ dies'[n + 1].tag \in {"var", "param"}
          /\ GetSize(dies'[n + 1], InfoAt(dies', dies'[n + 1].parent).lang) # 0
      BY <2>3, <2>4, <1>5, <1>11
    <3>3. QED
      BY <3>1, <3>2, <1>4, <1>10
  <2>6. \A d \in DOMAIN vars' : vars'[d] = VarOf(dies'[d], InfoAt(dies', dies'[d].parent))
    <3>1. vars'[n + 1] = VarOf(dies'[n + 1], InfoAt(dies', dies'[n + 1].parent))
      BY <2>2, <2>3, <2>4, <1>5
    <3>2. QED
      BY <3>1, <2>3, <1>4, <1>10
  <2>7. p # 0 => p \in DOMAIN funcs
    <3>1. SUFFICES ASSUME p # 0 PROVE p \in DOMAIN funcs
      OBVIOUS
    <3>2. p = IF info.storageType = "Static" THEN 0 ELSE info.lastFuncDie
      BY <2>2 DEF VarOf
    <3>3. parent \in 1 .. n /\ info = InfoAt(dies', parent)
      BY <2>1, <1>8
    <3>4. info.storageType \in {"Static", "Auto"} /\ info.lastFuncDie = Func(dies', parent)
      BY <3>3 DEF InfoAt
    <3>5. InfoAt(dies', parent).storageType = "Auto" /\ p = Func(dies', parent)
      BY <3>1, <3>2, <3>3, <3>4
    <3>6. p \in 1 .. parent /\ dies'[p].tag = "func"
      <4>1. parent \in 0 .. n + 1
        BY <3>3, <1>4
      <4>2. QED
        BY <4>1, <3>5, <1>5, FuncAround
    <3>7. QED
      BY <3>3, <3>6, <1>4, <1>5
  <2>8. ASSUME NEW d \in DOMAIN vars', vars'[d].parent # 0
        PROVE  /\ vars'[d].parent \in DOMAIN funcs'
               /\ \E i \in DOMAIN funcs'[vars'[d].parent].vars : funcs'[vars'[d].parent].vars[i] = d
    <3>1. DOMAIN funcs' = DOMAIN funcs
      BY <2>2
    <3>2. PICK q : q = vars'[d].parent
      OBVIOUS
    <3>3. /\ q \in DOMAIN funcs
          /\ (d = n + 1 /\ q = p) \/ \E i \in DOMAIN funcs[q].vars : funcs[q].vars[i] = d
      <4>1. CASE d = n + 1
        BY <4>1, <3>2, <2>2, <2>3, <2>7, <2>8
      <4>2. CASE d # n + 1
        <5>1. d \in DOMAIN vars /\ q = vars[d].parent
          BY <4>2, <3>2, <2>3
        <5>2. QED
          BY <5>1, <3>2, <2>8 DEF Walked
      <4>3. QED
        BY <4>1, <4>2
    <3>4. PICK list \in Seq(Nat) : funcs[q] = FuncOf(dies[q], list)
      BY <3>3 DEF Tree
    <3>5. funcs[q].vars = list
      BY <3>4 DEF FuncOf
    <3>6. CASE q = p
      <4>1. funcs'[q] = [funcs[q] EXCEPT !.vars = Append(funcs[q].vars, n + 1)]
        BY <3>2, <3>3, <3>6, <2>2, <2>8
      <4>2. PICK more : more = Append(list, n + 1)
        OBVIOUS
      <4>3. funcs'[q].vars = more
        <5>1. funcs'[q] = [funcs[q] EXCEPT !.vars = more]
          BY <4>1, <4>2, <3>5
        <5>2. "vars" \in DOMAIN funcs[q]
          BY <3>4 DEF FuncOf
        <5>3. QED
          BY <5>1, <5>2
      <4>4. /\ DOMAIN list = 1 .. Len(list) /\ DOMAIN more = 1 .. Len(list) + 1 /\ Len(list) \in Nat
            /\ \A i \in 1 .. Len(list) : more[i] = list[i]
            /\ more[Len(list) + 1] = n + 1
        BY <4>2, <1>4
      <4>5. CASE d = n + 1
        <5>1. Len(list) + 1 \in DOMAIN more
          BY <4>4
        <5>2. QED
          BY <5>1, <4>3, <4>4, <4>5, <3>1, <3>2, <3>3
      <4>6. CASE d # n + 1
        <5>1. PICK i \in DOMAIN list : list[i] = d
          BY <4>6, <3>3, <3>5
        <5>2. i \in DOMAIN more /\ more[i] = d
          BY <5>1, <4>4
        <5>3. QED
          BY <5>2, <4>3, <3>1, <3>2, <3>3
      <4>7. QED
        BY <4>5, <4>6
    <3>7. CASE q # p
      <4>1. funcs'[q] = funcs[q]
        BY <3>3, <3>7, <2>2
      <4>2. QED
        BY <4>1, <3>1, <3>2, <3>3, <3>7
    <3>8. QED
      BY <3>6, <3>7
  <2>9. QED
    BY <2>5, <2>6, <2>8, <1>5, <1>9 DEF Walked
<1>12. CASE ~(die.tag \in {"var", "param"} /\ GetSize(die, info.lang) # 0)
  <2>1. vars' = vars /\ DOMAIN funcs \subseteq DOMAIN funcs' /\ \A d \in DOMAIN funcs : funcs'[d] = funcs[d]
    <3>1. CASE die.tag = "func"
      <4>1. PICK f : funcs' = Put(funcs, n + 1, f) /\ vars' = vars
        BY <3>1, <1>3 DEF AddFunc
      <4>2. DOMAIN funcs' = DOMAIN funcs \cup {n + 1} /\ \A d \in DOMAIN funcs : d # n + 1 => funcs'[d] = funcs[d]
        BY <4>1 DEF Put
      <4>3. QED
        BY <4>1, <4>2, <1>4
    <3>2. CASE die.tag # "func"
      <4>1. UNCHANGED <<funcs, vars>>
        BY <3>2, <1>3, <1>12
      <4>2. QED
        BY <4>1
    <3>3. QED
      BY <3>1, <3>2
  <2>2. ~(dies'[n + 1].tag \in {"var", "param"}
          /\ GetSize(dies'[n + 1], InfoAt(dies', dies'[n + 1].parent).lang) # 0)
    BY <1>5, <1>6, <1>8, <1>12
  <2>3. n + 1 \notin DOMAIN vars
    BY <1>4
  <2>4. \A d \in 1 .. n + 1 :
          d \in DOMAIN vars' <=> /\ dies'[d].tag \in {"var", "param"}
                                 /\ GetSize(dies'[d], InfoAt(dies', dies'[d].parent).lang) # 0
    BY <2>1, <2>2, <2>3, <1>4, <1>10
  <2>5. \A d \in DOMAIN vars' : vars'[d] = VarOf(dies'[d], InfoAt(dies', dies'[d].parent))
    BY <2>1, <1>4, <1>10
  <2>6. ASSUME NEW d \in DOMAIN vars', vars'[d].parent # 0
        PROVE  /\ vars'[d].parent \in DOMAIN funcs'
               /\ \E i \in DOMAIN funcs'[vars'[d].parent].vars : funcs'[vars'[d].parent].vars[i] = d
    <3>1. PICK q : q = vars[d].parent
      OBVIOUS
    <3>2. q \in DOMAIN funcs /\ \E i \in DOMAIN funcs[q].vars : funcs[q].vars[i] = d
      BY <3>1, <2>1, <2>6 DEF Walked
    <3>3. q \in DOMAIN funcs' /\ funcs'[q] = funcs[q] /\ vars'[d].parent = q
      BY <3>1, <3>2, <2>1
    <3>4. QED
      BY <3>2, <3>3
  <2>7. QED
    BY <2>4, <2>5, <2>6, <1>5, <1>9 DEF Walked
<1>13. QED
  BY <1>11, <1>12

\* The walk begins without a DIE.
LEMMA InitWalked == Init => Walked
<1> SUFFICES ASSUME Init PROVE Walked
  OBVIOUS
<1>1. dies = <<>> /\ walkInfo = Empty /\ vars = Empty
  BY DEF Init, DwarfInit
<1>2. DOMAIN vars = {} /\ Len(dies) = 0
  BY <1>1 DEF Empty
<1>3. 1 .. Len(dies) = {} /\ Len(dies) \in Nat
  BY <1>2
<1>4. QED
  BY <1>2, <1>3 DEF Walked, Rooted, Nested

\* Nothing after the walk changes what it found.
LEMMA WalkedStays ==
    ASSUME Walked, UNCHANGED dwarfVars
    PROVE  Walked'
  BY DEF Walked, dwarfVars

-----------------------------------------------------------------------------
(* What the tree says of a variable *)

\* A variable that the walk collected has the storage, the function and the language
\* that the DIEs around it give it.
LEMMA ScopeIs ==
    ASSUME Tree, Walked, NEW d \in 1 .. Len(dies), dies[d].tag \in {"var", "param"}
    PROVE  LET info == InfoAt(dies, dies[d].parent)
           IN /\ info.storageType \in {"Static", "Auto"}
              /\ info.storageType = "Static" <=> IsShared(d)
              /\ info.lastFuncDie = Innermost(d, {"func"}) /\ info.lang = LangOf(d)
              /\ ~IsShared(d) => Innermost(d, {"func"}) \in DOMAIN funcs
              /\ IsShared(d) => dies[d].loc = <<>> \/ Head(dies[d].loc).reg \in {"addr", "other"}
<1>1. PICK n, p : n = Len(dies) /\ p = dies[d].parent
  OBVIOUS
<1>2. n \in Nat /\ Rooted(dies, n) /\ Nested(dies, n) /\ d \in 1 .. n
  BY <1>1 DEF Walked, Rooted
<1>3. p \in 1 .. n /\ dies[d].tag # "cu"
  BY <1>1, <1>2 DEF Rooted, Nested
<1>4. PICK e, f, u : e = Scope(dies, p) /\ f = Func(dies, p) /\ u = Unit(dies, p)
  OBVIOUS
<1>5. /\ Innermost(d, {"func"}) = f /\ Innermost(d, {"cu"}) = u
      /\ Innermost(d, {"func", "block", "common"}) = e
  <2>1. \A tags : Innermost(d, tags) = InAt(dies, p, tags)
    BY <1>1, InnermostIs
  <2>2. QED
    BY <2>1, <1>4, Zenon DEF Func, Unit, Scope
<1>6. IsShared(d) <=> e = 0 \/ dies[e].tag = "common"
  BY <1>5, Zenon DEF IsShared
<1>7. LangOf(d) = dies[u].lang
  BY <1>5, Zenon DEF LangOf
<1>8. InfoAt(dies, p) = [storageType |-> IF e = 0 \/ dies[e].tag = "common" THEN "Static" ELSE "Auto",
                         lastFuncDie |-> f, lang |-> dies[u].lang]
  BY <1>4, Zenon DEF InfoAt
<1>9. PICK info : info = InfoAt(dies, p)
  OBVIOUS
<1>10. /\ info.storageType = IF IsShared(d) THEN "Static" ELSE "Auto"
       /\ info.lastFuncDie = Innermost(d, {"func"}) /\ info.lang = LangOf(d)
  BY <1>5, <1>6, <1>7, <1>8, <1>9
<1>11. ~IsShared(d) => Innermost(d, {"func"}) \in DOMAIN funcs
  <2>1. SUFFICES ASSUME ~IsShared(d) PROVE f \in DOMAIN funcs
    BY <1>5
  <2>2. InfoAt(dies, p).storageType = "Auto"
    BY <2>1, <1>9, <1>10
  <2>3. f \in 1 .. p /\ dies[f].tag = "func"
    <3>1. p \in 0 .. n
      BY <1>3
    <3>2. QED
      BY <3>1, <2>2, <1>2, <1>4, FuncAround
  <2>4. QED
    BY <2>3, <1>1, <1>3 DEF Tree
<1>12. IsShared(d) => dies[d].loc = <<>> \/ Head(dies[d].loc).reg \in {"addr", "other"}
  <2>1. SUFFICES ASSUME IsShared(d) PROVE dies[p].tag \in {"cu", "common"}
    BY <1>1, <1>2, <1>3 DEF Nested
  <2>2. dies[p].tag \in {"cu", "func", "block", "common"}
    BY <1>1, <1>2, <1>3 DEF Nested
  <2>3. dies[p].tag \in {"func", "block", "common"} => e = p
    BY <1>2, <1>3, <1>4, AroundIs
  <2>4. QED
    BY <2>1, <2>2, <2>3, <1>3, <1>6
<1>13. QED
  BY <1>1, <1>9, <1>10, <1>11, <1>12

\* What walkTree put down for a variable, in terms of the tree.
LEMMA VariableIs ==
    ASSUME Tree, Walked, NEW d \in DOMAIN vars
    PROVE  /\ d \in 1 .. Len(dies) /\ dies[d].tag \in {"var", "param"}
           /\ vars[d].type = (IF IsShared(d) THEN "Static" ELSE "Auto")
           /\ vars[d].parent = (IF IsShared(d) THEN 0 ELSE Innermost(d, {"func"}))
           /\ ~IsShared(d) => vars[d].parent \in DOMAIN funcs /\ vars[d].parent # 0
           /\ vars[d].size = GetSize(dies[d], LangOf(d)) /\ vars[d].size # 0
           /\ vars[d].typeSize = GetTypeSize(dies[d], LangOf(d))
           /\ vars[d].entries = Entries(dies[d].loc)
<1>1. d \in 1 .. Len(dies)
  BY DEF Tree
<1>2. PICK die, info : die = dies[d] /\ info = InfoAt(dies, dies[d].parent)
  OBVIOUS
<1>3. /\ die.tag \in {"var", "param"} /\ GetSize(die, info.lang) # 0
      /\ vars[d] = VarOf(die, info)
  BY <1>1, <1>2 DEF Walked
<1>4. /\ info.storageType \in {"Static", "Auto"} /\ (info.storageType = "Static" <=> IsShared(d))
      /\ info.lastFuncDie = Innermost(d, {"func"}) /\ info.lang = LangOf(d)
      /\ ~IsShared(d) => Innermost(d, {"func"}) \in DOMAIN funcs
  BY <1>1, <1>2, <1>3, ScopeIs
<1>5. /\ vars[d].type = info.storageType
      /\ vars[d].parent = IF info.storageType = "Static" THEN 0 ELSE info.lastFuncDie
      /\ vars[d].size = GetSize(die, info.lang) /\ vars[d].typeSize = GetTypeSize(die, info.lang)
      /\ vars[d].entries = Entries(die.loc)
  BY <1>3 DEF VarOf
<1>6. 0 \notin DOMAIN funcs
  BY DEF Tree
<1>7. QED
  BY <1>1, <1>2, <1>3, <1>4, <1>5, <1>6

\* The storage and the function of a variable are those of the blocks around it.
LEMMA ScopesFollow ==
    ASSUME Tree, Walked
    PROVE  ScopesAreEnclosing
  BY VariableIs DEF ScopesAreEnclosing

-----------------------------------------------------------------------------
(* The variables that toDbg keeps *)

FuncVars(fs) == {d \in DOMAIN vars : vars[d].parent \in fs /\ Usable(vars[d]) # {}}
Globals == {d \in DOMAIN vars : vars[d].parent = 0 /\ vars[d].entries # <<>>}

DiesOf(c) == {v.die : v \in c.vars}

\* A VarInfo has the place and the function of the variable it was made for.
MadeFor(v, d) ==
    \/ /\ d \in Globals
       /\ v.parent = NoFunc /\ v.type = "Static" /\ v.stackOffset = vars[d].entries[1].off
    \/ /\ d \in FuncVars(DOMAIN funcs)
       /\ v.parent = FuncName(funcs[vars[d].parent]) /\ v.type = vars[d].type
       /\ v.stackOffset = vars[d].entries[Min(Usable(vars[d]))].off

\* Each VarInfo is of a variable of its own.
Made(c) == /\ \A v \in c.vars : MadeFor(v, v.die)
           /\ \A v, w \in c.vars : v.die = w.die => v = w

\* The variables of the functions that toDbg visited are in the context, except for
\* those of the last one that are still to be visited; then those without a function.
Attributing ==
    /\ Made(conv) /\ Made(tool)
    /\ phase = "functions" =>
         /\ todoVars \subseteq FuncVars(KeptFuncs \ todo)
         /\ DiesOf(conv) = FuncVars(KeptFuncs \ todo) \ todoVars
    /\ phase = "globals" =>
         /\ todoVars \subseteq Globals
         /\ DiesOf(conv) = (FuncVars(KeptFuncs) \cup Globals) \ todoVars
    /\ IF phase \in {"run", "saved", "loading", "loaded"}
       THEN DiesOf(tool) = FuncVars(KeptFuncs) \cup Globals
       ELSE tool = Context

\* What addFunc and addVar do to the set of variables
LEMMA PutFuncVars ==
    ASSUME NEW c, Agree(c), NEW f
    PROVE  PutFunc(c, f).vars = c.vars
<1>1. PICK fs, ids, vs, idvs, bs :
         c = [funcs |-> fs, idFuncs |-> ids, vars |-> vs, idVars |-> idvs, instBindings |-> bs]
  BY DEF Agree, IsContext
<1>2. PICK p, q : p = Put(c.funcs, f.name, f) /\ q = Put(c.idFuncs, f.id, f.name)
  OBVIOUS
<1>3. PutFunc(c, f) = [[c EXCEPT !.funcs = p] EXCEPT !.idFuncs = q]
  BY <1>2, Zenon DEF PutFunc
<1>4. PICK d : d = PutFunc(c, f)
  OBVIOUS
<1>5. d.vars = c.vars
  BY <1>1, <1>3, <1>4
<1>6. QED
  BY <1>4, <1>5

\* addVar adds the variable.
LEMMA PutVarVars ==
    ASSUME NEW c, Agree(c), NEW v
    PROVE  PutVar(c, v).vars = c.vars \cup {v}
<1>1. PICK fs, ids, vs, idvs, bs :
         c = [funcs |-> fs, idFuncs |-> ids, vars |-> vs, idVars |-> idvs, instBindings |-> bs]
  BY DEF Agree, IsContext
<1>2. PICK p, q, r : /\ p = c.vars \cup {v} /\ r = Put(c.idVars, v.id, v)
                     /\ q = IF v.parent = NoFunc THEN c.funcs
                            ELSE [c.funcs EXCEPT ![v.parent].vars = Append(@, v.id)]
  OBVIOUS
<1>3. PICK d : d = PutVar(c, v)
  OBVIOUS
<1>4. d = [[[c EXCEPT !.vars = p] EXCEPT !.funcs = q] EXCEPT !.idVars = r]
  <2>1. c.funcs = fs
    BY <1>1
  <2>2. d = [c EXCEPT !.vars = p, !.funcs = q, !.idVars = r]
    <3>1. PICK e : e = [c EXCEPT !.vars = p]
      OBVIOUS
    <3>2. e.funcs = c.funcs
      BY <1>1, <3>1
    <3>3. QED
      BY <3>1, <3>2, <1>2, <1>3 DEF PutVar
  <2>3. QED
    BY <2>2
<1>5. d.vars = p
  BY <1>1, <1>4
<1>6. QED
  BY <1>2, <1>3, <1>5

\* A VarInfo that was just made is of the variable and has the place it was given.
LEMMA NewVarParts ==
    ASSUME NEW id, NEW d, NEW type, NEW offset, NEW parent
    PROVE  LET v == NewVar(id, d, type, offset, parent)
           IN v.die = d /\ v.type = type /\ v.stackOffset = offset /\ v.parent = parent
<1>1. PICK s, t : s = vars[d].size /\ t = vars[d].typeSize
  OBVIOUS
<1>2. PICK v : v = NewVar(id, d, type, offset, parent)
  OBVIOUS
<1>3. v = [id |-> id, die |-> d, type |-> type, stackOffset |-> offset, parent |-> parent,
           size |-> s, typeSize |-> t]
  BY <1>1, <1>2 DEF NewVar
<1>4. v.die = d /\ v.type = type /\ v.stackOffset = offset /\ v.parent = parent
  BY <1>3
<1>5. QED
  BY <1>2, <1>4

\* The variables that a function lists are those around which it is the innermost.
LEMMA ListedAre ==
    ASSUME Tree, Walked, NEW d \in DOMAIN funcs
    PROVE  {v \in Range(funcs[d].vars) : Usable(vars[v]) # {}} = FuncVars({d})
<1>1. PICK list \in Seq(Nat) :
         /\ funcs[d] = FuncOf(dies[d], list)
         /\ \A i \in 1 .. Len(list) : list[i] \in DOMAIN vars /\ vars[list[i]].parent = d
  BY DEF Tree
<1>2. funcs[d].vars = list /\ DOMAIN list = 1 .. Len(list)
  BY <1>1 DEF FuncOf
<1>3. d # 0
  BY DEF Tree
<1>4. \A v \in DOMAIN vars : vars[v].parent = d => \E i \in DOMAIN list : list[i] = v
  BY <1>2, <1>3 DEF Walked
<1>5. Range(list) = {v \in DOMAIN vars : vars[v].parent = d}
  BY <1>1, <1>2, <1>4 DEF Range
<1>6. QED
  BY <1>2, <1>5 DEF FuncVars

\* One more VarInfo, of a variable that had none
LEMMA OneMoreMade ==
    ASSUME NEW c, Agree(c), Made(c), NEW w, w.die \notin DiesOf(c), MadeFor(w, w.die)
    PROVE  Made(PutVar(c, w)) /\ DiesOf(PutVar(c, w)) = DiesOf(c) \cup {w.die}
<1>1. PICK d : d = PutVar(c, w)
  OBVIOUS
<1>2. d.vars = c.vars \cup {w}
  BY <1>1, PutVarVars
<1>3. \A v \in c.vars : v.die # w.die
  BY DEF DiesOf
<1>4. Made(d)
  BY <1>2, <1>3 DEF Made
<1>5. DiesOf(d) = DiesOf(c) \cup {w.die}
  BY <1>2 DEF DiesOf
<1>6. QED
  BY <1>1, <1>4, <1>5

\* As long as the walk's findings stay, what was made of them stays.
LEMMA MadeStays ==
    ASSUME UNCHANGED <<funcs, vars>>
    PROVE  /\ KeptFuncs' = KeptFuncs /\ Globals' = Globals
           /\ \A fs : FuncVars(fs)' = FuncVars(fs)
           /\ Made(conv') => Made(conv)'
           /\ Made(tool') => Made(tool)'
<1>1. \A f : Convertible(f)' = Convertible(f) /\ FuncName(f)' = FuncName(f) /\ Usable(f)' = Usable(f)
  BY DEF Convertible, FuncName, Usable
<1>2. /\ KeptFuncs' = KeptFuncs /\ Globals' = Globals
      /\ \A fs : FuncVars(fs)' = FuncVars(fs)
  BY DEF KeptFuncs, Globals, FuncVars, Convertible, FuncName, Usable
<1>3. \A v, d : MadeFor(v, d)' <=> MadeFor(v, d)
  BY DEF MadeFor, Globals, FuncVars, FuncName, Usable
<1>4. Made(conv') => Made(conv)'
  BY <1>3 DEF Made
<1>5. Made(tool') => Made(tool)'
  BY <1>3 DEF Made
<1>6. QED
  BY <1>2, <1>4, <1>5

\* Before toDbg no context has a variable.
LEMMA InitAttributing == Init => Attributing
<1> SUFFICES ASSUME Init PROVE Attributing
  OBVIOUS
<1>1. conv = Context /\ tool = Context /\ phase = "walk"
  BY DEF Init
<1>2. Context.vars = {}
  BY DEF Context
<1>3. Made(Context)
  BY <1>2 DEF Made
<1>4. QED
  BY <1>1, <1>3 DEF Attributing

\* Before toDbg nothing is in a context.
LEMMA WalkEndsAttributing ==
    ASSUME Tree, Converting, Attributing, WalkEnds
    PROVE  Attributing'
<1>1. /\ phase = "walk" /\ phase' = "functions" /\ todo' = DOMAIN funcs
      /\ UNCHANGED <<funcs, vars, conv, tool, todoVars>>
  BY DEF WalkEnds, dwarfVars
<1>2. conv = Context /\ todoVars = {} /\ tool = Context
  BY <1>1 DEF Converting, Attributing
<1>3. KeptFuncs \ DOMAIN funcs = {} /\ FuncVars({}) = {} /\ DiesOf(Context) = {}
  BY DEF KeptFuncs, FuncVars, DiesOf, Context
<1>4. Made(conv)' /\ Made(tool)'
  <2>1. Made(conv') /\ Made(tool')
    BY <1>1 DEF Attributing
  <2>2. QED
    BY <2>1, <1>1, MadeStays
<1>5. (FuncVars(KeptFuncs \ todo))' = {}
  <2>1. KeptFuncs' = KeptFuncs /\ \A fs : FuncVars(fs)' = FuncVars(fs)
    BY <1>1, MadeStays
  <2>2. (KeptFuncs \ todo)' = {}
    BY <2>1, <1>1, <1>3
  <2>3. QED
    BY <1>1, <1>3, <2>2 DEF FuncVars
<1>6. DiesOf(conv)' = {}
  BY <1>1, <1>2, <1>3 DEF DiesOf
<1>7. QED
  BY <1>1, <1>2, <1>4, <1>5, <1>6 DEF Attributing

\* toDbg leaves the variables of a function that it just added for the rounds to come.
LEMMA ConvertFuncAttributing ==
    ASSUME Tree, Walked, Converting, Attributing, Good(conv, globalId), ConvertFunc
    PROVE  Attributing'
<1>1. PICK d : d = Min(todo)
  OBVIOUS
<1>2. /\ phase = "functions" /\ todo \subseteq DOMAIN funcs /\ todo # {} /\ todoVars = {}
      /\ todo' = todo \ {d} /\ UNCHANGED <<funcs, vars, tool>>
  BY <1>1 DEF Converting, ConvertFunc, dwarfVars
<1>3. d \in todo /\ d \in DOMAIN funcs
  <2>1. DOMAIN funcs \subseteq Nat
    BY DEF Tree
  <2>2. QED
    BY <2>1, <1>1, <1>2, MinIs
<1>4. /\ Made(conv) /\ Made(tool) /\ DiesOf(conv) = FuncVars(KeptFuncs \ todo) /\ tool = Context
  BY <1>2 DEF Attributing
<1>5. KeptFuncs' = KeptFuncs /\ \A fs : FuncVars(fs)' = FuncVars(fs)
  BY <1>2, MadeStays
<1>6. (FuncVars(KeptFuncs \ todo))' = FuncVars(KeptFuncs \ todo')
  BY <1>2, <1>5 DEF FuncVars, Usable
<1>7. Made(tool)'
  <2>1. Made(tool')
    BY <1>2, <1>4
  <2>2. QED
    BY <2>1, <1>2, MadeStays
<1>8. CASE ~Convertible(funcs[d])
  <2>1. UNCHANGED <<conv, todoVars, phase>>
    BY <1>1, <1>8 DEF ConvertFunc
  <2>2. KeptFuncs \ todo' = KeptFuncs \ todo
    BY <1>2, <1>8 DEF KeptFuncs
  <2>3. Made(conv)'
    <3>1. Made(conv')
      BY <2>1, <1>4
    <3>2. QED
      BY <3>1, <1>2, MadeStays
  <2>4. DiesOf(conv)' = DiesOf(conv)
    BY <2>1 DEF DiesOf
  <2>5. QED
    BY <2>1, <2>2, <2>3, <2>4, <1>2, <1>4, <1>6, <1>7 DEF Attributing
<1>9. CASE Convertible(funcs[d]) /\ FuncName(funcs[d]) \in DOMAIN conv.funcs
  <2>1. phase' = "aborted" /\ UNCHANGED <<conv, todoVars>>
    BY <1>1, <1>9 DEF ConvertFunc
  <2>2. Made(conv)'
    <3>1. Made(conv')
      BY <2>1, <1>4
    <3>2. QED
      BY <3>1, <1>2, MadeStays
  <2>3. QED
    BY <2>1, <2>2, <1>2, <1>4, <1>7 DEF Attributing
<1>10. CASE Convertible(funcs[d]) /\ FuncName(funcs[d]) \notin DOMAIN conv.funcs
  <2>1. PICK f : f = [id |-> globalId.func, name |-> FuncName(funcs[d]), vars |-> <<>>,
                      stackOffset |-> funcs[d].entries[1].off]
    OBVIOUS
  <2>2. /\ conv' = PutFunc(conv, f)
        /\ todoVars' = {v \in Range(funcs[d].vars) : Usable(vars[v]) # {}}
        /\ phase' = phase
    BY <2>1, <1>1, <1>10 DEF ConvertFunc
  <2>3. conv'.vars = conv.vars
    BY <2>2, PutFuncVars DEF Good
  <2>4. todoVars' = FuncVars({d})
    BY <2>2, <1>3, ListedAre
  <2>5. KeptFuncs \ todo' = (KeptFuncs \ todo) \cup {d}
    BY <1>2, <1>3, <1>10 DEF KeptFuncs
  <2>6. FuncVars(KeptFuncs \ todo') = FuncVars(KeptFuncs \ todo) \cup FuncVars({d})
    BY <2>5 DEF FuncVars
  <2>7. FuncVars(KeptFuncs \ todo) \cap FuncVars({d}) = {}
    BY <1>3 DEF FuncVars
  <2>8. Made(conv)' /\ DiesOf(conv)' = DiesOf(conv)
    <3>1. Made(conv')
      BY <2>3, <1>4 DEF Made
    <3>2. DiesOf(conv)' = DiesOf(conv)
      BY <2>3 DEF DiesOf
    <3>3. QED
      BY <3>1, <3>2, <1>2, MadeStays
  <2>9. /\ todoVars' \subseteq FuncVars(KeptFuncs \ todo')
        /\ DiesOf(conv) = FuncVars(KeptFuncs \ todo') \ todoVars'
    BY <2>4, <2>6, <2>7, <1>4
  <2>10. phase' = "functions" /\ tool' = Context
    BY <2>2, <1>2, <1>4
  <2>11. /\ todoVars' \subseteq (FuncVars(KeptFuncs \ todo))'
         /\ DiesOf(conv)' = (FuncVars(KeptFuncs \ todo))' \ todoVars'
    BY <2>8, <2>9, <1>6
  <2>12. QED
    BY <2>8, <2>10, <2>11, <1>7 DEF Attributing
<1>11. QED
  BY <1>8, <1>9, <1>10

\* A variable of either loop comes into the context with its own place.
LEMMA ConvertVarAttributing ==
    ASSUME Tree, Walked, Converting, Attributing, Good(conv, globalId), ConvertVar \/ ConvertGlobal
    PROVE  Attributing'
<1>1. PICK d : d = Min(todoVars)
  OBVIOUS
<1>2. /\ UNCHANGED <<funcs, vars, todo, tool, phase>> /\ phase \in {"functions", "globals"}
      /\ todoVars # {} /\ todoVars' = todoVars \ {d}
  BY <1>1 DEF ConvertVar, ConvertGlobal, dwarfVars
<1>3. /\ Made(conv) /\ Made(tool) /\ tool = Context
      /\ phase = "functions" =>
           /\ todoVars \subseteq FuncVars(KeptFuncs \ todo)
           /\ DiesOf(conv) = FuncVars(KeptFuncs \ todo) \ todoVars
      /\ phase = "globals" =>
           /\ todoVars \subseteq Globals
           /\ DiesOf(conv) = (FuncVars(KeptFuncs) \cup Globals) \ todoVars
  BY <1>2 DEF Attributing
<1>4. d \in todoVars /\ d \in DOMAIN vars
  <2>1. todoVars \subseteq DOMAIN vars
    BY <1>2, <1>3 DEF FuncVars, Globals
  <2>2. DOMAIN vars \subseteq Nat
    BY DEF Tree
  <2>3. QED
    BY <2>1, <2>2, <1>1, <1>2, MinIs
<1>5. d \notin DiesOf(conv)
  BY <1>2, <1>3, <1>4
<1>6. Agree(conv)
  BY DEF Good
<1>7. \E w : conv' = PutVar(conv, w) /\ w.die = d /\ MadeFor(w, d)
  <2>1. CASE ConvertVar
    <3>1. phase = "functions"
      BY <2>1 DEF ConvertVar
    <3>2. PICK off, parent : /\ off = vars[d].entries[Min(Usable(vars[d]))].off
                             /\ parent = FuncName(funcs[vars[d].parent])
      OBVIOUS
    <3>3. PICK w : w = NewVar(globalId.var, d, vars[d].type, off, parent)
      OBVIOUS
    <3>4. conv' = PutVar(conv, w)
      BY <2>1, <3>2, <3>3, <1>1, Zenon DEF ConvertVar
    <3>5. w.die = d /\ w.type = vars[d].type /\ w.stackOffset = off /\ w.parent = parent
      BY <3>3, NewVarParts
    <3>6. d \in FuncVars(DOMAIN funcs)
      BY <3>1, <1>3, <1>4 DEF FuncVars, KeptFuncs
    <3>7. MadeFor(w, d)
      BY <3>2, <3>5, <3>6 DEF MadeFor
    <3>8. QED
      BY <3>4, <3>5, <3>7
  <2>2. CASE ConvertGlobal
    <3>1. phase = "globals"
      BY <2>2 DEF ConvertGlobal
    <3>2. PICK off : off = vars[d].entries[1].off
      OBVIOUS
    <3>3. PICK w : w = NewVar(globalId.var, d, "Static", off, NoFunc)
      OBVIOUS
    <3>4. conv' = PutVar(conv, w)
      BY <2>2, <3>2, <3>3, <1>1, Zenon DEF ConvertGlobal
    <3>5. w.die = d /\ w.type = "Static" /\ w.stackOffset = off /\ w.parent = NoFunc
      BY <3>3, NewVarParts
    <3>6. MadeFor(w, d)
      BY <3>1, <3>2, <3>5, <1>3, <1>4 DEF MadeFor
    <3>7. QED
      BY <3>4, <3>5, <3>6
  <2>3. QED
    BY <2>1, <2>2
<1>8. PICK w : conv' = PutVar(conv, w) /\ w.die = d /\ MadeFor(w, d)
  BY <1>7
<1>9. Made(PutVar(conv, w)) /\ DiesOf(PutVar(conv, w)) = DiesOf(conv) \cup {d}
  BY <1>3, <1>5, <1>6, <1>8, OneMoreMade
<1>10. Made(conv)' /\ Made(tool)' /\ DiesOf(conv)' = DiesOf(conv) \cup {d}
  <2>1. Made(conv') /\ Made(tool')
    BY <1>2, <1>3, <1>8, <1>9
  <2>2. DiesOf(conv') = DiesOf(conv) \cup {d}
    BY <1>8, <1>9
  <2>3. DiesOf(conv)' = DiesOf(conv')
    BY DEF DiesOf
  <2>4. QED
    BY <2>1, <2>2, <2>3, <1>2, MadeStays
<1>11. /\ KeptFuncs' = KeptFuncs /\ Globals' = Globals
       /\ (FuncVars(KeptFuncs \ todo))' = FuncVars(KeptFuncs \ todo)
       /\ FuncVars(KeptFuncs)' = FuncVars(KeptFuncs)
  BY <1>2, MadeStays DEF FuncVars, Usable
<1>12. phase = "functions" =>
         /\ todoVars' \subseteq FuncVars(KeptFuncs \ todo)
         /\ DiesOf(conv)' = FuncVars(KeptFuncs \ todo) \ todoVars'
  BY <1>2, <1>3, <1>4, <1>10
<1>13. phase = "globals" =>
         /\ todoVars' \subseteq Globals
         /\ DiesOf(conv)' = (FuncVars(KeptFuncs) \cup Globals) \ todoVars'
  BY <1>2, <1>3, <1>4, <1>10
<1>14. QED
  BY <1>2, <1>3, <1>10, <1>11, <1>12, <1>13 DEF Attributing

\* The second loop begins with all the variables that have a place but no function.
LEMMA FunctionsEndAttributing ==
    ASSUME Tree, Walked, Attributing, FunctionsEnd
    PROVE  Attributing'
<1>1. /\ phase = "functions" /\ todo = {} /\ todoVars = {} /\ phase' = "globals"
      /\ UNCHANGED <<funcs, vars, conv, tool>> /\ todoVars' = Globals
  BY DEF FunctionsEnd, dwarfVars, Globals
<1>2. /\ Made(conv) /\ Made(tool) /\ tool = Context /\ DiesOf(conv) = FuncVars(KeptFuncs)
  BY <1>1 DEF Attributing
<1>3. Made(conv)' /\ Made(tool)'
  <2>1. Made(conv') /\ Made(tool')
    BY <1>1, <1>2
  <2>2. QED
    BY <2>1, <1>1, MadeStays
<1>4. FuncVars(KeptFuncs) \cap Globals = {}
  <2>1. 0 \notin KeptFuncs
    BY DEF Tree, KeptFuncs
  <2>2. QED
    BY <2>1 DEF FuncVars, Globals
<1>5. /\ Globals' = Globals /\ FuncVars(KeptFuncs)' = FuncVars(KeptFuncs)
  BY <1>1, MadeStays DEF FuncVars, Usable
<1>6. DiesOf(conv)' = DiesOf(conv)
  BY <1>1 DEF DiesOf
<1>7. QED
  BY <1>1, <1>2, <1>3, <1>4, <1>5, <1>6 DEF Attributing

\* The move takes all the variables along, and they stay.
LEMMA MoveAttributing ==
    ASSUME Attributing, Good(conv, globalId), Move
    PROVE  Attributing'
<1>1. /\ phase = "globals" /\ todoVars = {} /\ phase' = "run" /\ conv' = Context
      /\ UNCHANGED <<funcs, vars>>
  BY DEF Move, dwarfVars
<1>2. Made(conv) /\ DiesOf(conv) = FuncVars(KeptFuncs) \cup Globals
  BY <1>1 DEF Attributing
<1>3. tool'.vars = conv.vars
  <2>1. PICK p, q :
          /\ p = [id \in {f.id : f \in Range(conv.funcs)} |->
                    (CHOOSE f \in Range(conv.funcs) : f.id = id).name]
          /\ q = [id \in {v.id : v \in conv.vars} |-> CHOOSE v \in conv.vars : v.id = id]
    OBVIOUS
  <2>2. tool' = [conv EXCEPT !.idFuncs = p, !.idVars = q]
    BY <2>1, Zenon DEF Move
  <2>3. PICK fs, ids, vs, idvs, bs :
          conv = [funcs |-> fs, idFuncs |-> ids, vars |-> vs, idVars |-> idvs, instBindings |-> bs]
    BY DEF Good, Agree, IsContext
  <2>4. QED
    BY <2>2, <2>3
<1>4. Context.vars = {}
  BY DEF Context
<1>5. Made(conv)' /\ Made(tool)'
  <2>1. Made(conv') /\ Made(tool')
    BY <1>1, <1>2, <1>3, <1>4 DEF Made
  <2>2. QED
    BY <2>1, <1>1, MadeStays
<1>6. /\ Globals' = Globals /\ FuncVars(KeptFuncs)' = FuncVars(KeptFuncs)
  BY <1>1, MadeStays DEF FuncVars, Usable
<1>7. DiesOf(tool)' = DiesOf(conv)
  BY <1>3 DEF DiesOf
<1>8. QED
  BY <1>1, <1>2, <1>5, <1>6, <1>7 DEF Attributing

\* Bindings, save and load leave the variables of the tool alone.
LEMMA AttributingStays ==
    ASSUME Attributing, Good(tool, globalId),
           \/ /\ UNCHANGED <<funcs, vars, conv, tool>>
              /\ phase \in {"run", "saved", "loading"} /\ phase' \in {"run", "saved", "loading", "loaded"}
           \/ \E i \in Inst : SetInstBinding(i)
           \/ UNCHANGED <<funcs, vars, conv, tool, todo, todoVars, phase>>
    PROVE  Attributing'
<1>1. UNCHANGED <<funcs, vars, conv>>
  BY DEF SetInstBinding, dwarfVars
<1>2. tool'.vars = tool.vars
  <2>1. CASE \E i \in Inst : SetInstBinding(i)
    <3>1. PICK bs : tool' = [tool EXCEPT !.instBindings = bs]
      BY <2>1 DEF SetInstBinding
    <3>2. QED
      BY <3>1, BindingsAside
  <2>2. QED
    BY <2>1
<1>3. Made(conv)' /\ Made(tool)' /\ DiesOf(tool)' = DiesOf(tool) /\ DiesOf(conv)' = DiesOf(conv)
  <2>1. Made(conv') /\ Made(tool')
    BY <1>1, <1>2 DEF Made, Attributing
  <2>2. DiesOf(tool)' = DiesOf(tool) /\ DiesOf(conv)' = DiesOf(conv)
    BY <1>1, <1>2 DEF DiesOf
  <2>3. QED
    BY <2>1, <2>2, <1>1, MadeStays
<1>4. /\ Globals' = Globals /\ FuncVars(KeptFuncs)' = FuncVars(KeptFuncs) /\ KeptFuncs' = KeptFuncs
  BY <1>1, MadeStays DEF FuncVars, Usable
<1>5. CASE phase \in {"run", "saved", "loading"} /\ phase' \in {"run", "saved", "loading", "loaded"}
  BY <1>3, <1>4, <1>5 DEF Attributing
<1>6. CASE UNCHANGED <<funcs, vars, conv, tool, todo, todoVars, phase>>
  <2>1. (FuncVars(KeptFuncs \ todo))' = FuncVars(KeptFuncs \ todo)
    BY <1>4, <1>6 DEF FuncVars, Usable
  <2>2. QED
    BY <2>1, <1>3, <1>4, <1>6 DEF Attributing
<1>7. QED
  BY <1>5, <1>6 DEF SetInstBinding

\* The walk is over before a context has a variable.
LEMMA WalkAttributing ==
    ASSUME Converting, Attributing, Walk, UNCHANGED dbgVars
    PROVE  Attributing'
<1>1. phase = "walk" /\ UNCHANGED <<conv, tool, phase>>
  BY DEF Walk, dbgVars
<1>2. conv = Context /\ tool = Context /\ Context.vars = {}
  BY <1>1 DEF Converting, Attributing, Context
<1>3. Made(conv)' /\ Made(tool)'
  BY <1>1, <1>2 DEF Made
<1>4. QED
  BY <1>1, <1>2, <1>3 DEF Attributing

AttributionInv == DebugInv /\ Walked /\ Attributing

\* The invariant holds before the first DIE, and every step keeps it.
LEMMA NextAttribution == AttributionInv /\ [Next]_allVars => AttributionInv'
<1> SUFFICES ASSUME AttributionInv, [Next]_allVars PROVE AttributionInv'
  OBVIOUS
<1>1. /\ DebugInv /\ Walked /\ Attributing /\ Tree /\ Converting
      /\ Good(conv, globalId) /\ Good(tool, globalId)
  BY DEF AttributionInv, DebugInv
<1>2. DebugInv'
  BY <1>1, NextDebugInv
<1>3. Walked' /\ Attributing'
  <2>1. CASE Walk
    <3>1. UNCHANGED dbgVars
      BY <2>1 DEF Walk
    <3>2. QED
      BY <2>1, <3>1, <1>1, WalkKeepsWalked, WalkAttributing
  <2>2. ASSUME UNCHANGED dwarfVars
        PROVE  Walked'
    BY <2>2, <1>1, WalkedStays
  <2>3. CASE WalkEnds
    <3>1. UNCHANGED dwarfVars
      BY <2>3 DEF WalkEnds
    <3>2. QED
      BY <3>1, <2>2, <2>3, <1>1, WalkEndsAttributing
  <2>4. CASE ConvertFunc
    <3>1. UNCHANGED dwarfVars
      BY <2>4 DEF ConvertFunc
    <3>2. QED
      BY <3>1, <2>2, <2>4, <1>1, ConvertFuncAttributing
  <2>5. CASE ConvertVar \/ ConvertGlobal
    <3>1. UNCHANGED dwarfVars
      BY <2>5 DEF ConvertVar, ConvertGlobal
    <3>2. QED
      BY <3>1, <2>2, <2>5, <1>1, ConvertVarAttributing
  <2>6. CASE FunctionsEnd
    <3>1. UNCHANGED dwarfVars
      BY <2>6 DEF FunctionsEnd
    <3>2. QED
      BY <3>1, <2>2, <2>6, <1>1, FunctionsEndAttributing
  <2>7. CASE Move
    <3>1. UNCHANGED dwarfVars
      BY <2>7 DEF Move
    <3>2. QED
      BY <3>1, <2>2, <2>7, <1>1, MoveAttributing
  <2>8. CASE \E i \in Inst : SetInstBinding(i)
    <3>1. UNCHANGED dwarfVars
      BY <2>8 DEF SetInstBinding
    <3>2. QED
      BY <3>1, <2>2, <2>8, <1>1, AttributingStays
  <2>9. CASE Save \/ Load \/ (\E f \in todo : LoadFunc(f)) \/ (\E v \in todoVars : LoadVar(v)) \/ LoadInstBindings
    <3>1. /\ UNCHANGED dwarfVars /\ UNCHANGED <<conv, tool>>
          /\ phase \in {"run", "saved", "loading"} /\ phase' \in {"run", "saved", "loading", "loaded"}
      BY <2>9 DEF Save, Load, LoadFunc, LoadVar, LoadInstBindings
    <3>2. UNCHANGED <<funcs, vars, conv, tool>>
      BY <3>1 DEF dwarfVars
    <3>3. QED
      BY <3>1, <3>2, <2>2, <1>1, AttributingStays
  <2>10. CASE UNCHANGED allVars
    <3>1. UNCHANGED dwarfVars /\ UNCHANGED <<funcs, vars, conv, tool, todo, todoVars, phase>>
      BY <2>10 DEF allVars, dbgVars, dwarfVars
    <3>2. QED
      BY <3>1, <2>2, <1>1, AttributingStays
  <2>11. QED
    BY <2>1, <2>3, <2>4, <2>5, <2>6, <2>7, <2>8, <2>9, <2>10 DEF Next
<1>4. QED
  BY <1>2, <1>3 DEF AttributionInv

\* At every time the variables are attributed as far as toDbg has come.
THEOREM AttributionInvariant == Spec => []AttributionInv
<1>1. Init => AttributionInv
  BY InitDebugInv, InitWalked, InitAttributing DEF AttributionInv
<1>2. QED
  BY <1>1, NextAttribution, PTL DEF Spec

-----------------------------------------------------------------------------
(* The variables that the properties ask for *)

\* The location of a DIE is a list of operations, and its type is one of the types.
LEMMA ReadDieIs ==
    ASSUME Tree, NEW d \in 1 .. Len(dies)
    PROVE  /\ dies[d].loc \in Seq([reg : STRING, off : Int])
           /\ dies[d].type \in DOMAIN TypeDie \cup {NoType}
           /\ dies[d].junk \in [DOMAIN TypeDie -> Nat] /\ dies[d].lang \in Lang
<1>1. PICK k \in Die, p \in Nat : dies[d] = [k EXCEPT !.parent = p]
  <2>1. dies[d] \in ReadDie
    BY DEF Tree
  <2>2. QED
    BY <2>1 DEF ReadDie
<1>2. DOMAIN k = {"tag", "parent", "lang", "name", "linkageName", "type", "loc", "junk"}
  BY DieAssumption
<1>3. dies[d].loc = k.loc /\ dies[d].type = k.type /\ dies[d].junk = k.junk /\ dies[d].lang = k.lang
  BY <1>1, <1>2
<1>4. QED
  BY <1>3, DieAssumption

\* What is kept and what has no function is known, and nothing else.
LEMMA KnownAre ==
    ASSUME Tree, Walked
    PROVE  FuncVars(KeptFuncs) \cup Globals = {d \in 1 .. Len(dies) : Known(d)}
<1>1. ASSUME NEW d \in 1 .. Len(dies)
      PROVE  d \in DOMAIN vars <=> dies[d].tag \in {"var", "param"} /\ GetSize(dies[d], LangOf(d)) # 0
  <2>1. dies[d].tag \in {"var", "param"} => InfoAt(dies, dies[d].parent).lang = LangOf(d)
    BY ScopeIs
  <2>2. QED
    BY <2>1 DEF Walked
<1>2. ASSUME NEW d \in DOMAIN vars
      PROVE  Known(d) <=> d \in FuncVars(KeptFuncs) \cup Globals
  <2>1. PICK es, f : es = Entries(dies[d].loc) /\ f = Innermost(d, {"func"})
    OBVIOUS
  <2>2. /\ d \in 1 .. Len(dies) /\ dies[d].tag \in {"var", "param"}
        /\ vars[d].type = (IF IsShared(d) THEN "Static" ELSE "Auto")
        /\ vars[d].parent = (IF IsShared(d) THEN 0 ELSE f)
        /\ ~IsShared(d) => f \in DOMAIN funcs /\ f # 0
        /\ vars[d].entries = es /\ GetSize(dies[d], LangOf(d)) # 0
    BY <2>1, VariableIs
  <2>3. es \in Seq([reg : STRING, off : Int])
    BY <2>1, <2>2, ReadDieIs, EntriesAre
  <2>4. Known(d) <=> \/ IsShared(d) /\ es # <<>>
                     \/ /\ ~IsShared(d)
                        /\ \E e \in Range(es) : e.reg = "fbreg"
                        /\ Symbol(f) # NoName /\ HasRspBase(f)
    BY <2>1, <2>2, Zenon DEF Known
  <2>5. 0 \notin KeptFuncs
    BY DEF Tree, KeptFuncs
  <2>6. CASE IsShared(d)
    BY <2>2, <2>4, <2>5, <2>6 DEF FuncVars, Globals
  <2>7. CASE ~IsShared(d)
    <3>1. f \in KeptFuncs <=> Symbol(f) # NoName /\ HasRspBase(f)
      BY <2>2, <2>7, ConvertibleIs DEF KeptFuncs
    <3>2. Usable(vars[d]) # {} <=> \E e \in Range(es) : e.reg = "fbreg"
      <4>1. vars[d].type # "Static"
        BY <2>2, <2>7
      <4>2. Usable(vars[d]) = {i \in 1 .. Len(es) : es[i].reg = "fbreg"}
        BY <4>1, <2>2 DEF Usable
      <4>3. DOMAIN es = 1 .. Len(es)
        BY <2>3
      <4>4. QED
        BY <4>2, <4>3 DEF Range
    <3>3. QED
      BY <3>1, <3>2, <2>2, <2>4, <2>7 DEF FuncVars, Globals
  <2>8. QED
    BY <2>6, <2>7
<1>3. DOMAIN vars \subseteq 1 .. Len(dies)
  BY DEF Tree
<1>4. \A d \in 1 .. Len(dies) : Known(d) => d \in DOMAIN vars
  BY <1>1 DEF Known
<1>5. FuncVars(KeptFuncs) \cup Globals \subseteq DOMAIN vars
  BY DEF FuncVars, Globals
<1>6. QED
  BY <1>2, <1>3, <1>4, <1>5

\* A VarInfo has the place of an operation, if that fits the int.
PlacedBy(v, loc) == \E op \in Range(loc) :
                       /\ op.reg = IF v.type = "Static" THEN "addr" ELSE "fbreg"
                       /\ op.off \in -IntLimit .. IntLimit - 1 => v.stackOffset = op.off

\* A VarInfo has a place that the DIE names, and the function around it.
LEMMA PlaceIs ==
    ASSUME Tree, Walked, NEW v, NEW d, MadeFor(v, d)
    PROVE  /\ PlacedBy(v, dies[d].loc)
           /\ v.parent # NoFunc => v.parent = Symbol(Innermost(d, {"func"}))
<1>1. d \in DOMAIN vars
  BY DEF MadeFor, Globals, FuncVars
<1>2. PICK loc, es, f : loc = dies[d].loc /\ es = Entries(loc) /\ f = Innermost(d, {"func"})
  OBVIOUS
<1>3. /\ d \in 1 .. Len(dies) /\ dies[d].tag \in {"var", "param"}
      /\ vars[d].type = (IF IsShared(d) THEN "Static" ELSE "Auto")
      /\ vars[d].parent = (IF IsShared(d) THEN 0 ELSE f)
      /\ ~IsShared(d) => f \in DOMAIN funcs /\ f # 0
      /\ vars[d].entries = es
  BY <1>1, <1>2, VariableIs
<1>4. loc \in Seq([reg : STRING, off : Int])
  BY <1>2, <1>3, ReadDieIs
<1>5. /\ es \in Seq([reg : STRING, off : Int]) /\ Len(es) <= Len(loc)
      /\ \A i \in 1 .. Len(es) : /\ es[i].reg = loc[i].reg /\ es[i].reg # "other"
                                /\ es[i].off = ToInt(loc[i].off)
  BY <1>2, <1>4, EntriesAre
<1>6. ASSUME NEW i \in 1 .. Len(es)
      PROVE  \E op \in Range(loc) : /\ op.reg = es[i].reg
                                    /\ op.off \in -IntLimit .. IntLimit - 1 => es[i].off = op.off
  <2>1. i \in DOMAIN loc /\ loc[i] \in Range(loc)
    BY <1>4, <1>5 DEF Range
  <2>2. loc[i].off \in Int
    <3>1. PICK S : S = [reg : STRING, off : Int]
      OBVIOUS
    <3>2. loc \in Seq(S) /\ i \in 1 .. Len(loc)
      BY <3>1, <2>1, <1>4, <1>5
    <3>3. PICK op \in S : op = loc[i]
      BY <3>2
    <3>4. op.off \in Int
      BY <3>1
    <3>5. QED
      BY <3>3, <3>4
  <2>3. QED
    BY <2>1, <2>2, <1>5, ToIntIs
<1>7. CASE d \in Globals /\ v.parent = NoFunc /\ v.type = "Static" /\ v.stackOffset = vars[d].entries[1].off
  <2>1. vars[d].parent = 0 /\ es # <<>>
    BY <1>3, <1>7 DEF Globals
  <2>2. IsShared(d)
    BY <2>1, <1>3
  <2>3. loc = <<>> \/ Head(loc).reg \in {"addr", "other"}
    BY <2>2, <1>2, <1>3, ScopeIs
  <2>4. 1 \in 1 .. Len(es) /\ loc # <<>> /\ Head(loc) = loc[1]
    BY <2>1, <1>4, <1>5
  <2>5. es[1].reg = "addr"
    BY <2>3, <2>4, <1>5
  <2>6. PICK op \in Range(loc) : /\ op.reg = "addr"
                                 /\ op.off \in -IntLimit .. IntLimit - 1 => es[1].off = op.off
    BY <2>4, <2>5, <1>6
  <2>7. PlacedBy(v, loc)
    BY <2>6, <1>3, <1>7 DEF PlacedBy
  <2>8. QED
    BY <2>7, <1>2, <1>7
<1>8. CASE /\ d \in FuncVars(DOMAIN funcs)
           /\ v.parent = FuncName(funcs[vars[d].parent]) /\ v.type = vars[d].type
           /\ v.stackOffset = vars[d].entries[Min(Usable(vars[d]))].off
  <2>1. vars[d].parent \in DOMAIN funcs /\ Usable(vars[d]) # {}
    BY <1>8 DEF FuncVars
  <2>2. ~IsShared(d) /\ vars[d].parent = f /\ v.type # "Static"
    BY <2>1, <1>3, <1>8 DEF Tree
  <2>3. v.parent = Symbol(f)
    BY <2>1, <2>2, <1>8, ConvertibleIs
  <2>4. PICK i : i = Min(Usable(vars[d]))
    OBVIOUS
  <2>5. Usable(vars[d]) = {j \in 1 .. Len(es) : es[j].reg = "fbreg"}
    BY <2>2, <1>3, <1>8 DEF Usable
  <2>6. i \in 1 .. Len(es) /\ es[i].reg = "fbreg"
    <3>1. Usable(vars[d]) \in SUBSET Nat
      BY <2>5
    <3>2. i \in Usable(vars[d])
      BY <3>1, <2>1, <2>4, MinIs
    <3>3. QED
      BY <3>2, <2>5
  <2>7. PICK op \in Range(loc) : /\ op.reg = "fbreg"
                                 /\ op.off \in -IntLimit .. IntLimit - 1 => es[i].off = op.off
    BY <2>6, <1>6
  <2>8. v.stackOffset = es[i].off
    BY <2>4, <1>3, <1>8
  <2>9. PlacedBy(v, loc)
    BY <2>2, <2>7, <2>8 DEF PlacedBy
  <2>10. QED
    BY <2>2, <2>3, <2>9, <1>2
<1>9. QED
  BY <1>7, <1>8 DEF MadeFor

-----------------------------------------------------------------------------
(* Functions that are defined by recursion, over the dimensions of an array  *)
(* or over the types that a type is made of, exist.                          *)

\* o leads from no element of A back to where one comes from.
Acyclic(T, A, o) == \A S \in SUBSET T : S # {} => \E t \in S : t \in A => o[t] \notin S

\* f has a number for each element of T: for those in A, so many times that of another
\* and so many more.
Numbers(f, T, A, o, M, K, B) == \A u \in T : f[u] = IF u \in A THEN M[u] * f[o[u]] + K[u] ELSE B[u]

\* There is such a function: nothing leads back to itself.
LEMMA NumbersExist ==
    ASSUME NEW T, NEW A \in SUBSET T, NEW o \in [A -> T], NEW M \in [A -> Nat], NEW K \in [A -> Nat],
           NEW B \in [T -> Nat], Acyclic(T, A, o)
    PROVE  \E f \in [T -> Nat] : Numbers(f, T, A, o, M, K, B)
<1> DEFINE Solves(g, u) == g[u] = IF u \in A THEN M[u] * g[o[u]] + K[u] ELSE B[u]
           On(C, g) == /\ C \in SUBSET T /\ \A u \in C : u \in A => o[u] \in C
                       /\ g \in [C -> Nat] /\ \A u \in C : Solves(g, u)
           Has(u, n) == \E C, g : On(C, g) /\ u \in C /\ n = g[u]
           Bad == {u \in T : ~\E n \in Nat : Has(u, n)}
<1>1. ASSUME NEW C, NEW g, On(C, g), NEW D, NEW h, On(D, h), NEW u \in C \cap D PROVE g[u] = h[u]
  <2> DEFINE S == {x \in C \cap D : g[x] # h[x]}
  <2> SUFFICES ASSUME S # {} PROVE FALSE
    OBVIOUS
  <2>1. S \in SUBSET T
    BY <1>1
  <2>2. PICK t \in S : t \in A => o[t] \notin S
    <3> HIDE DEF S
    <3> QED BY <2>1 DEF Acyclic
  <2>3. t \in C /\ t \in D /\ Solves(g, t) /\ Solves(h, t) /\ g[t] # h[t]
    BY <2>2, <1>1
  <2>4. t \in A => g[o[t]] = h[o[t]]
    BY <2>2, <1>1
  <2>5. QED
    BY <2>3, <2>4, Zenon
<1>2. Bad = {}
  <2> SUFFICES ASSUME Bad # {} PROVE FALSE
    OBVIOUS
  <2>1. PICK t \in Bad : t \in A => o[t] \notin Bad
    <3>1. Bad \in SUBSET T
      OBVIOUS
    <3> HIDE DEF Bad
    <3> QED BY <3>1 DEF Acyclic
  <2>2. t \in T /\ \A n \in Nat : ~Has(t, n)
    <3> HIDE DEF Has
    <3> QED BY <2>1
  <2>3. CASE t \notin A
    <3>1. PICK b \in Nat : b = B[t]
      BY <2>2
    <3> DEFINE g == [x \in {t} |-> b]
    <3>2. g \in [{t} -> Nat] /\ g[t] = b
      OBVIOUS
    <3>3. On({t}, g)
      <4> HIDE DEF g
      <4> QED BY <3>1, <3>2, <2>2, <2>3
    <3> HIDE DEF On, g
    <3>4. Has(t, b)
      BY <3>2, <3>3
    <3> QED BY <3>4, <2>2
  <2>4. CASE t \in A
    <3>1. o[t] \in T /\ o[t] \notin Bad
      BY <2>1, <2>4
    <3>2. PICK C, h : On(C, h) /\ o[t] \in C
      <4> HIDE DEF On
      <4> QED BY <3>1
    <3>3. PICK b \in Nat : b = M[t] * h[o[t]] + K[t]
      <4>1. M[t] \in Nat /\ h[o[t]] \in Nat /\ K[t] \in Nat
        BY <3>2, <2>4
      <4>2. \A i, j, k \in Nat : i * j + k \in Nat
        OBVIOUS
      <4> QED BY <4>1, <4>2
    <3> DEFINE g == [x \in C \cup {t} |-> IF x \in C THEN h[x] ELSE b]
    <3>4. t \notin C
      <4>1. On(C, h) /\ t \in C => Has(t, h[t]) /\ h[t] \in Nat
        OBVIOUS
      <4> HIDE DEF On, Has
      <4> QED BY <4>1, <3>2, <2>2
    <3>5. /\ g \in [C \cup {t} -> Nat] /\ g[t] = b /\ \A x \in C : g[x] = h[x]
      BY <3>2, <3>4
    <3> HIDE DEF g
    <3>6. ASSUME NEW x \in C \cup {t} PROVE Solves(g, x) /\ (x \in A => o[x] \in C \cup {t})
      <4>1. CASE x \in C
        <5>1. Solves(h, x) /\ (x \in A => o[x] \in C)
          BY <3>2, <4>1
        <5>2. g[x] = h[x] /\ (x \in A => g[o[x]] = h[o[x]])
          BY <5>1, <3>5, <4>1
        <5> QED BY <5>1, <5>2, Zenon
      <4>2. CASE x = t
        <5>1. g[t] = M[t] * g[o[t]] + K[t] /\ o[t] \in C
          BY <3>5, <3>2, <3>3, Zenon
        <5> QED BY <5>1, <4>2, <2>4, Zenon
      <4> QED BY <4>1, <4>2
    <3>7. On(C \cup {t}, g)
      <4>1. C \cup {t} \in SUBSET T
        BY <3>2, <2>2
      <4> HIDE DEF Solves
      <4> QED BY <4>1, <3>5, <3>6
    <3> HIDE DEF On
    <3>8. Has(t, b)
      BY <3>5, <3>7
    <3> QED BY <3>8, <2>2
  <2>5. QED
    BY <2>3, <2>4
<1> DEFINE val(u) == CHOOSE n \in Nat : Has(u, n)
           f == [u \in T |-> val(u)]
<1>3. ASSUME NEW u \in T PROVE val(u) \in Nat /\ Has(u, val(u))
  <2>1. \E n \in Nat : Has(u, n)
    <3> HIDE DEF Has
    <3> QED BY <1>2
  <2> HIDE DEF Has
  <2> QED BY <2>1
<1>4. ASSUME NEW u \in T PROVE Solves(f, u)
  <2>1. PICK C, g : On(C, g) /\ u \in C /\ val(u) = g[u]
    <3> HIDE DEF On, val
    <3> QED BY <1>3
  <2>2. ASSUME NEW x \in C PROVE f[x] = g[x]
    <3>1. x \in T
      BY <2>1
    <3>2. PICK D, h : On(D, h) /\ x \in D /\ val(x) = h[x]
      <4> HIDE DEF On, val
      <4> QED BY <1>3, <3>1
    <3>3. g[x] = h[x]
      <4> HIDE DEF On, val
      <4> QED BY <1>1, <2>1, <3>2
    <3> HIDE DEF val, On
    <3> QED BY <3>1, <3>2, <3>3
  <2>3. Solves(g, u) /\ (u \in A => o[u] \in C)
    BY <2>1
  <2>4. f[u] = g[u] /\ (u \in A => f[o[u]] = g[o[u]])
    BY <2>1, <2>2, <2>3
  <2> HIDE DEF f
  <2> QED BY <2>3, <2>4, Zenon
<1>5. f \in [T -> Nat]
  <2> HIDE DEF val
  <2> QED BY <1>3
<1>6. QED
  <2> HIDE DEF f
  <2>1. Numbers(f, T, A, o, M, K, B)
    BY <1>4, Zenon DEF Numbers
  <2> QED BY <1>5, <2>1

IsOn(f, T) == f = [u \in T |-> f[u]]

\* They agree wherever they agree on what the recursion goes back to.
Follows(f, g, T, A, o) == \A u \in T : (u \in A => f[o[u]] = g[o[u]]) => f[u] = g[u]

\* And only one, whatever the recursion is.
LEMMA SameNumbers ==
    ASSUME NEW T, NEW A \in SUBSET T, NEW o \in [A -> T], Acyclic(T, A, o), NEW f, NEW g,
           IsOn(f, T), IsOn(g, T), Follows(f, g, T, A, o)
    PROVE  f = g
<1> DEFINE S == {u \in T : f[u] # g[u]}
<1>1. S = {}
  <2> SUFFICES ASSUME S # {} PROVE FALSE
    OBVIOUS
  <2>1. PICK u \in S : u \in A => o[u] \notin S
    <3>1. S \in SUBSET T
      OBVIOUS
    <3> HIDE DEF S
    <3> QED BY <3>1 DEF Acyclic
  <2>2. u \in T /\ f[u] # g[u]
    BY <2>1
  <2>3. u \in A => o[u] \in T /\ f[o[u]] = g[o[u]]
    BY <2>1
  <2>4. QED
    BY <2>2, <2>3 DEF Follows
<1>2. \A u \in T : f[u] = g[u]
  BY <1>1
<1>3. [u \in T |-> f[u]] = [u \in T |-> g[u]]
  BY <1>2
<1>4. QED
  BY <1>3 DEF IsOn

\* From each number to the one before.
LEMMA DownIsAcyclic ==
    ASSUME NEW len \in Nat, NEW A \in SUBSET (1 .. len), NEW o, \A n \in A : o[n] = n - 1
    PROVE  Acyclic(0 .. len, A, o)
<1> SUFFICES ASSUME NEW S \in SUBSET (0 .. len), S # {} PROVE \E t \in S : t \in A => o[t] \notin S
  BY DEF Acyclic
<1>1. PICK m \in S : \A k \in S : m <= k
  <2>1. S \in SUBSET Nat
    OBVIOUS
  <2>2. QED
    BY <2>1, LeastExists
<1>2. m \in A => o[m] = m - 1 /\ ~(m <= m - 1)
  OBVIOUS
<1>3. QED
  BY <1>1, <1>2

-----------------------------------------------------------------------------
(* The dimensions of an array *)

Upper == Int \cup {NoBound, NoConst}
Dims == Seq([lower : Int \cup {NoBound}, upper : Upper])

\* Each upperBound is a number, whatever it was before, and that of a bound that is a
\* constant is its count.
LEMMA UpperBoundsAre ==
    ASSUME NEW dims \in Dims, NEW junk \in Nat, NEW lang
    PROVE  /\ UpperBounds(dims, junk, lang) \in [0 .. Len(dims) -> Nat]
           /\ \A k \in 1 .. Len(dims) : dims[k].upper \in Nat =>
                UpperBounds(dims, junk, lang)[k] = Count(dims[k].upper, lang)
<1>1. PICK len \in Nat : len = Len(dims)
  BY DEF Dims
<1> DEFINE Next1(n, x) == Count(IF dims[n].upper \in Nat THEN dims[n].upper ELSE x, lang)
           Is(f) == f = [k \in 0 .. Len(dims) |->
                           IF k = 0 THEN junk
                           ELSE Count(IF dims[k].upper \in Nat THEN dims[k].upper ELSE f[k - 1], lang)]
           more == IF lang = "Fortran" THEN 0 ELSE 1
           A == {n \in 1 .. len : dims[n].upper \notin Nat}
           o == [n \in A |-> n - 1]
           M == [n \in A |-> 1]
           K == [n \in A |-> more]
           B == [n \in 0 .. len |-> IF n \in 1 .. len /\ dims[n].upper \in Nat THEN Count(dims[n].upper, lang)
                                    ELSE junk]
<1>2. \A n \in Nat : Count(n, lang) = n + more
  BY DEF Count
<1>3. /\ A \in SUBSET (0 .. len) /\ A \in SUBSET (1 .. len) /\ o \in [A -> 0 .. len]
      /\ M \in [A -> Nat] /\ K \in [A -> Nat]
  OBVIOUS
<1>4. B \in [0 .. len -> Nat]
  BY <1>2
<1>5. Acyclic(0 .. len, A, o)
  <2>1. \A n \in A : o[n] = n - 1
    OBVIOUS
  <2> HIDE DEF A, o
  <2>2. QED
    BY <1>3, <2>1, DownIsAcyclic
<1>6. PICK f \in [0 .. len -> Nat] : \A n \in 0 .. len : f[n] = IF n \in A THEN M[n] * f[o[n]] + K[n] ELSE B[n]
  <2> HIDE DEF A, o, M, K, B
  <2>1. PICK f \in [0 .. len -> Nat] : Numbers(f, 0 .. len, A, o, M, K, B)
    BY <1>3, <1>4, <1>5, NumbersExist
  <2>2. \A n \in 0 .. len : f[n] = IF n \in A THEN M[n] * f[o[n]] + K[n] ELSE B[n]
    BY <2>1, Zenon DEF Numbers
  <2>3. QED
    BY <2>2
<1>7. ASSUME NEW n \in 0 .. len
      PROVE  f[n] = IF n = 0 THEN junk
                    ELSE Count(IF dims[n].upper \in Nat THEN dims[n].upper ELSE f[n - 1], lang)
  <2>1. CASE n \in A
    <3>1. n # 0 /\ n - 1 \in 0 .. len /\ dims[n].upper \notin Nat /\ o[n] = n - 1 /\ M[n] = 1 /\ K[n] = more
      BY <2>1
    <3>2. f[n] = M[n] * f[o[n]] + K[n] /\ f[n - 1] \in Nat /\ more \in Nat
      <4>1. f[n] = M[n] * f[o[n]] + K[n]
        <5> HIDE DEF A, o, M, K, B, more
        <5> QED BY <1>6, <2>1
      <4>2. f[n - 1] \in Nat /\ more \in Nat
        BY <3>1
      <4>3. QED
        BY <4>1, <4>2
    <3>3. f[n] = f[n - 1] + more
      <4> HIDE DEF A, o, M, K, B, more
      <4>1. f[n] = 1 * f[n - 1] + more
        BY <3>1, <3>2, Zenon
      <4>2. QED
        BY <3>2, <4>1
    <3>4. QED
      BY <3>1, <3>2, <3>3, <1>2
  <2>2. CASE n \notin A
    <3>1. f[n] = B[n]
      <4> HIDE DEF A, o, M, K, B
      <4> QED BY <1>6, <2>2
    <3>2. B[n] = IF n = 0 THEN junk ELSE Count(dims[n].upper, lang)
      BY <2>2
    <3>3. n # 0 => dims[n].upper \in Nat
      BY <2>2
    <3>4. QED
      BY <3>1, <3>2, <3>3
  <2>3. QED
    BY <2>1, <2>2
<1>8. Is(f)
  <2> HIDE DEF A, o, M, K, B
  <2>1. f = [k \in 0 .. len |-> f[k]]
    OBVIOUS
  <2>2. [k \in 0 .. len |-> f[k]] =
          [k \in 0 .. len |-> IF k = 0 THEN junk
                              ELSE Count(IF dims[k].upper \in Nat THEN dims[k].upper ELSE f[k - 1], lang)]
    BY <1>7, Zenon
  <2>3. QED
    BY <1>1, <2>1, <2>2, Zenon
<1>9. ASSUME NEW g, Is(g) PROVE g = f
  <2>1. \A n \in 0 .. len : g[n] = IF n = 0 THEN junk
                                   ELSE Count(IF dims[n].upper \in Nat THEN dims[n].upper ELSE g[n - 1], lang)
    BY <1>1, <1>9, Zenon
  <2>2. IsOn(g, 0 .. len) /\ IsOn(f, 0 .. len)
    <3>1. g = [n \in 0 .. len |-> g[n]]
      BY <1>1, <1>9
    <3>2. f = [n \in 0 .. len |-> f[n]]
      OBVIOUS
    <3>3. QED
      BY <3>1, <3>2, Zenon DEF IsOn
  <2> DEFINE A1 == 1 .. len
             o1 == [n \in A1 |-> n - 1]
  <2>3. A1 \in SUBSET (0 .. len) /\ A1 \in SUBSET (1 .. len) /\ o1 \in [A1 -> 0 .. len] /\ \A n \in A1 : o1[n] = n - 1
    OBVIOUS
  <2>4. ASSUME NEW n \in 0 .. len, n \in A1 => g[o1[n]] = f[o1[n]]
        PROVE  g[n] = f[n]
    <3>1. n # 0 => g[n - 1] = f[n - 1]
      BY <2>3, <2>4
    <3>2. g[n] = IF n = 0 THEN junk
                 ELSE Count(IF dims[n].upper \in Nat THEN dims[n].upper ELSE g[n - 1], lang)
      BY <2>1, Zenon
    <3>3. f[n] = IF n = 0 THEN junk
                 ELSE Count(IF dims[n].upper \in Nat THEN dims[n].upper ELSE f[n - 1], lang)
      BY <1>7, Zenon
    <3> HIDE DEF A, o, M, K, B
    <3>4. QED
      BY <3>1, <3>2, <3>3
  <2> HIDE DEF A1, o1, Is, A, o, M, K, B
  <2>5. Acyclic(0 .. len, A1, o1)
    BY <2>3, DownIsAcyclic
  <2>6. PICK T : T = 0 .. len
    OBVIOUS
  <2>7. Follows(g, f, T, A1, o1)
    BY <2>4, <2>6, Zenon DEF Follows
  <2>8. A1 \in SUBSET T /\ o1 \in [A1 -> T] /\ Acyclic(T, A1, o1) /\ IsOn(g, T) /\ IsOn(f, T)
    BY <2>2, <2>3, <2>5, <2>6
  <2>9. QED
    BY <2>7, <2>8, SameNumbers
<1>10. UpperBounds(dims, junk, lang) = f
  <2>1. UpperBounds(dims, junk, lang) = CHOOSE g : Is(g)
    BY Zenon DEF UpperBounds
  <2> HIDE DEF Is
  <2>2. QED
    BY <2>1, <1>8, <1>9
<1>11. ASSUME NEW k \in 1 .. len, dims[k].upper \in Nat PROVE f[k] = Count(dims[k].upper, lang)
  BY <1>7, <1>11
<1>12. QED
  BY <1>1, <1>10, <1>11

\* f has, for each n, the product of the first n numbers of c.
IsProduct(f, c, len) == f[0] = 1 /\ \A n \in 1 .. len : f[n] = f[n - 1] * c[n]

\* There is such a function.
LEMMA ProductExists ==
    ASSUME NEW len \in Nat, NEW c, \A n \in 1 .. len : c[n] \in Nat
    PROVE  \E f \in [0 .. len -> Nat] : IsProduct(f, c, len)
<1> DEFINE A == 1 .. len
           o == [n \in A |-> n - 1]
           M == [n \in A |-> c[n]]
           K == [n \in A |-> 0]
           B == [n \in 0 .. len |-> 1]
<1>1. /\ A \in SUBSET (0 .. len) /\ A \in SUBSET (1 .. len) /\ o \in [A -> 0 .. len]
      /\ M \in [A -> Nat] /\ K \in [A -> Nat] /\ B \in [0 .. len -> Nat]
  OBVIOUS
<1>2. Acyclic(0 .. len, A, o)
  <2>1. \A n \in A : o[n] = n - 1
    OBVIOUS
  <2> HIDE DEF A, o
  <2>2. QED
    BY <1>1, <2>1, DownIsAcyclic
<1>3. PICK f \in [0 .. len -> Nat] : \A n \in 0 .. len : f[n] = IF n \in A THEN M[n] * f[o[n]] + K[n] ELSE B[n]
  <2> HIDE DEF A, o, M, K, B
  <2>1. PICK f \in [0 .. len -> Nat] : Numbers(f, 0 .. len, A, o, M, K, B)
    BY <1>1, <1>2, NumbersExist
  <2>2. \A n \in 0 .. len : f[n] = IF n \in A THEN M[n] * f[o[n]] + K[n] ELSE B[n]
    BY <2>1, Zenon DEF Numbers
  <2>3. QED
    BY <2>2
<1>4. f[0] = 1
  <2>1. 0 \notin A /\ 0 \in 0 .. len /\ B[0] = 1
    OBVIOUS
  <2> HIDE DEF A, o, M, K, B
  <2>2. QED
    BY <2>1, <1>3
<1>5. ASSUME NEW n \in 1 .. len PROVE f[n] = f[n - 1] * c[n]
  <2>1. n \in A /\ o[n] = n - 1 /\ M[n] = c[n] /\ K[n] = 0 /\ n \in 0 .. len
    OBVIOUS
  <2>2. f[n - 1] \in Nat /\ c[n] \in Nat
    OBVIOUS
  <2> HIDE DEF A, o, M, K, B
  <2>3. f[n] = c[n] * f[n - 1] + 0
    BY <2>1, <1>3
  <2>4. \A i, j \in Nat : i * j + 0 = j * i
    OBVIOUS
  <2>5. QED
    BY <2>2, <2>3, <2>4
<1>6. QED
  BY <1>4, <1>5 DEF IsProduct

\* What getSize multiplies.
LEMMA ElemCountIs ==
    ASSUME NEW dims \in Dims, NEW junk \in Nat, NEW lang
    PROVE  \E f \in [0 .. Len(dims) -> Nat] :
             /\ IsProduct(f, UpperBounds(dims, junk, lang), Len(dims))
             /\ ElemCount(dims, junk, lang) = f[Len(dims)]
<1>1. PICK len \in Nat : len = Len(dims)
  BY DEF Dims
<1>2. PICK c \in [0 .. len -> Nat] : c = UpperBounds(dims, junk, lang)
  BY <1>1, UpperBoundsAre
<1>3. \A n \in 1 .. len : c[n] \in Nat
  OBVIOUS
<1>4. PICK f \in [0 .. len -> Nat] : IsProduct(f, c, len)
  BY <1>3, ProductExists
<1> DEFINE Is(g) == g = [n \in 0 .. Len(dims) |->
                           IF n = 0 THEN 1 ELSE g[n - 1] * UpperBounds(dims, junk, lang)[n]]
<1>5. ASSUME NEW n \in 0 .. len PROVE f[n] = IF n = 0 THEN 1 ELSE f[n - 1] * c[n]
  <2>1. n = 0 \/ n \in 1 .. len
    OBVIOUS
  <2>2. QED
    BY <2>1, <1>4 DEF IsProduct
<1>6. Is(f)
  <2>1. f = [n \in 0 .. len |-> f[n]]
    OBVIOUS
  <2>2. [n \in 0 .. len |-> f[n]] = [n \in 0 .. len |-> IF n = 0 THEN 1 ELSE f[n - 1] * c[n]]
    BY <1>5, Zenon
  <2>3. QED
    BY <1>1, <1>2, <2>1, <2>2, Zenon
<1>7. ASSUME NEW g, Is(g) PROVE g = f
  <2>1. \A n \in 0 .. len : g[n] = IF n = 0 THEN 1 ELSE g[n - 1] * c[n]
    BY <1>1, <1>2, <1>7, Zenon
  <2>2. IsOn(g, 0 .. len) /\ IsOn(f, 0 .. len)
    <3>1. g = [n \in 0 .. len |-> g[n]]
      BY <1>1, <1>7
    <3>2. f = [n \in 0 .. len |-> f[n]]
      OBVIOUS
    <3>3. QED
      BY <3>1, <3>2, Zenon DEF IsOn
  <2> DEFINE A == 1 .. len
             o == [n \in A |-> n - 1]
  <2>3. A \in SUBSET (0 .. len) /\ A \in SUBSET (1 .. len) /\ o \in [A -> 0 .. len] /\ \A n \in A : o[n] = n - 1
    OBVIOUS
  <2>4. ASSUME NEW n \in 0 .. len, n \in A => g[o[n]] = f[o[n]]
        PROVE  g[n] = f[n]
    <3>1. n # 0 => g[n - 1] = f[n - 1]
      BY <2>3, <2>4
    <3>2. g[n] = IF n = 0 THEN 1 ELSE g[n - 1] * c[n]
      BY <2>1, Zenon
    <3>3. f[n] = IF n = 0 THEN 1 ELSE f[n - 1] * c[n]
      BY <1>5, Zenon
    <3>4. QED
      BY <3>1, <3>2, <3>3, Zenon
  <2> HIDE DEF A, o, Is
  <2>5. Acyclic(0 .. len, A, o)
    BY <2>3, DownIsAcyclic
  <2>6. PICK T : T = 0 .. len
    OBVIOUS
  <2>7. Follows(g, f, T, A, o)
    BY <2>4, <2>6, Zenon DEF Follows
  <2>8. A \in SUBSET T /\ o \in [A -> T] /\ Acyclic(T, A, o) /\ IsOn(g, T) /\ IsOn(f, T)
    BY <2>2, <2>3, <2>5, <2>6
  <2>9. QED
    BY <2>7, <2>8, SameNumbers
<1>8. ElemCount(dims, junk, lang) = f[len]
  <2>1. ElemCount(dims, junk, lang) = (CHOOSE g : Is(g))[len]
    BY <1>1, Zenon DEF ElemCount
  <2> HIDE DEF Is
  <2>2. QED
    BY <2>1, <1>6, <1>7
<1>9. QED
  BY <1>1, <1>2, <1>4, <1>8

\* The tuples of indices of the first m dimensions, ind[k] being those of dimension k
Indices(m, ind, U) == {ix \in [1 .. m -> U] : \A k \in DOMAIN ix : ix[k] \in ind[k]}

\* One dimension more: an index of it, for each tuple of the others.
LEMMA IndicesNext ==
    ASSUME NEW len \in Nat, NEW U, NEW ind, \A k \in 1 .. len : ind[k] \subseteq U, NEW m \in 1 .. len
    PROVE  ExistsBijection(Indices(m - 1, ind, U) \X ind[m], Indices(m, ind, U))
<1> DEFINE S == Indices(m - 1, ind, U)
           D == S \X ind[m]
           T == Indices(m, ind, U)
           f == [p \in D |-> [k \in 1 .. m |-> IF k = m THEN p[2] ELSE p[1][k]]]
           short(ix) == [k \in 1 .. m - 1 |-> ix[k]]
<1>0. m - 1 \in Nat /\ ind[m] \subseteq U
  OBVIOUS
<1>1. \A ix : ix \in S <=> /\ ix \in [1 .. m - 1 -> U]
                           /\ \A k \in 1 .. m - 1 : ix[k] \in ind[k]
  BY DEF Indices
<1>2. \A ix : ix \in T <=> /\ ix \in [1 .. m -> U]
                           /\ \A k \in 1 .. m : ix[k] \in ind[k]
  BY DEF Indices
<1>3. ASSUME NEW p \in D PROVE f[p] \in T
  <2>1. p[1] \in S /\ p[2] \in ind[m]
    OBVIOUS
  <2>2. f[p] = [k \in 1 .. m |-> IF k = m THEN p[2] ELSE p[1][k]]
    OBVIOUS
  <2> HIDE DEF f, S, D, T
  <2>3. p[2] \in U
    BY <2>1, <1>0
  <2>4. \A k \in 1 .. m : k # m => k \in 1 .. m - 1
    OBVIOUS
  <2>5. p[1] \in [1 .. m - 1 -> U] /\ \A k \in 1 .. m - 1 : p[1][k] \in ind[k]
    BY <2>1, <1>1
  <2>6. \A k \in 1 .. m : /\ (IF k = m THEN p[2] ELSE p[1][k]) \in U
                          /\ (IF k = m THEN p[2] ELSE p[1][k]) \in ind[k]
    BY <2>1, <2>3, <2>4, <2>5
  <2>7. f[p] \in [1 .. m -> U] /\ \A k \in 1 .. m : f[p][k] \in ind[k]
    BY <2>2, <2>6, Zenon
  <2>8. QED
    BY <2>7, <1>2
<1>4. ASSUME NEW p \in D, NEW q \in D, f[p] = f[q] PROVE p = q
  <2>1. p[1] \in S /\ q[1] \in S /\ p = <<p[1], p[2]>> /\ q = <<q[1], q[2]>>
    OBVIOUS
  <2>2. f[p] = [k \in 1 .. m |-> IF k = m THEN p[2] ELSE p[1][k]]
    OBVIOUS
  <2>3. f[q] = [k \in 1 .. m |-> IF k = m THEN q[2] ELSE q[1][k]]
    OBVIOUS
  <2> HIDE DEF f, S, D, T
  <2> DEFINE Is(g, r) == \A k \in 1 .. m : g[k] = IF k = m THEN r[2] ELSE r[1][k]
  <2>0. PICK g : Is(g, p) /\ Is(g, q)
    <3>1. Is(f[p], p)
      BY <2>2, Zenon
    <3>2. Is(f[q], q)
      BY <2>3, Zenon
    <3> HIDE DEF Is
    <3> QED BY <3>1, <3>2, <1>4
  <2>4. p[2] = q[2]
    BY <2>0, m \in 1 .. m
  <2>5. ASSUME NEW k \in 1 .. m - 1 PROVE p[1][k] = q[1][k]
    <3>1. k \in 1 .. m /\ k # m
      OBVIOUS
    <3> QED BY <3>1, <2>0
  <2>6. p[1] = q[1]
    <3>1. PICK i : i = p[1]
      OBVIOUS
    <3>2. PICK j : j = q[1]
      OBVIOUS
    <3>3. i \in [1 .. m - 1 -> U] /\ j \in [1 .. m - 1 -> U]
      BY <2>1, <1>1, <3>1, <3>2
    <3>4. \A k \in 1 .. m - 1 : i[k] = j[k]
      BY <2>5, <3>1, <3>2
    <3>5. i = j
      BY <3>3, <3>4
    <3> QED BY <3>1, <3>2, <3>5
  <2>7. QED
    BY <2>1, <2>4, <2>6
<1>5. ASSUME NEW ix \in T PROVE \E p \in D : f[p] = ix
  <2> DEFINE p == <<short(ix), ix[m]>>
  <2>1. ix \in [1 .. m -> U] /\ \A k \in 1 .. m : ix[k] \in ind[k]
    <3> HIDE DEF T
    <3> QED BY <1>2
  <2>2. short(ix) \in [1 .. m - 1 -> U] /\ \A k \in 1 .. m - 1 : short(ix)[k] \in ind[k]
    BY <2>1
  <2>3. short(ix) \in S
    <3> HIDE DEF S, short
    <3> QED BY <2>2, <1>1
  <2>4. ix[m] \in ind[m]
    BY <2>1
  <2>5. p \in D
    <3> HIDE DEF S, short
    <3> QED BY <2>3, <2>4
  <2>6. f[p] = [k \in 1 .. m |-> IF k = m THEN ix[m] ELSE short(ix)[k]]
    <3> HIDE DEF D, short
    <3> QED BY <2>5
  <2>7. ASSUME NEW k \in 1 .. m PROVE (IF k = m THEN ix[m] ELSE short(ix)[k]) = ix[k]
    <3>1. k = m \/ k \in 1 .. m - 1
      OBVIOUS
    <3> QED BY <3>1
  <2> HIDE DEF f, D, p, short
  <2>8. f[p] = ix
    BY <2>1, <2>6, <2>7
  <2>9. QED
    BY <2>5, <2>8
<1>6. f \in Bijection(D, T)
  <2>1. f \in [D -> T]
    <3> HIDE DEF D, T
    <3> QED BY <1>3
  <2> HIDE DEF f, D, T
  <2>2. QED
    BY <2>1, <1>4, <1>5 DEF Bijection, Injection, Surjection, IsInjective
<1>7. QED
  BY <1>6 DEF ExistsBijection

\* c has the number of the indices of each dimension.
AreCounts(c, ind, U, len) ==
    \A k \in 1 .. len : ind[k] \subseteq U /\ IsFiniteSet(ind[k]) /\ c[k] = Cardinality(ind[k])

\* The tuples of indices of some dimensions are the product of their numbers.
LEMMA IndicesAre ==
    ASSUME NEW len \in Nat, NEW U, NEW ind, NEW c,
           AreCounts(c, ind, U, len),
           NEW f, f \in [0 .. len -> Nat], IsProduct(f, c, len)
    PROVE  Cardinality(Indices(len, ind, U)) = f[len]
<1> DEFINE S(m) == Indices(m, ind, U)
           Bad == {m \in 0 .. len : ~(IsFiniteSet(S(m)) /\ Cardinality(S(m)) = f[m])}
<1> SUFFICES ASSUME Bad # {} PROVE FALSE
  <2>1. len \in 0 .. len
    OBVIOUS
  <2> DEFINE Fits(m) == IsFiniteSet(S(m)) /\ Cardinality(S(m)) = f[m]
  <2>2. Fits(len) => Cardinality(Indices(len, ind, U)) = f[len]
    OBVIOUS
  <2>3. Bad = {m \in 0 .. len : ~Fits(m)}
    OBVIOUS
  <2> HIDE DEF S, Fits, Bad
  <2> QED BY <2>1, <2>2, <2>3
<1>1. PICK m \in Bad : \A k \in Bad : m <= k
  <2>1. Bad \in SUBSET Nat /\ Bad # {}
    OBVIOUS
  <2> HIDE DEF Bad
  <2> QED BY <2>1, LeastExists
<1>2. CASE m = 0
  <2>1. \A ix : ix \in S(0) <=> ix \in [1 .. 0 -> U]
    BY DEF Indices
  <2>2. S(0) = {[k \in 1 .. 0 |-> 0]}
    <3> HIDE DEF S
    <3>1. [k \in 1 .. 0 |-> 0] \in [1 .. 0 -> U]
      OBVIOUS
    <3>2. \A ix \in [1 .. 0 -> U] : ix = [k \in 1 .. 0 |-> 0]
      OBVIOUS
    <3> QED BY <3>1, <3>2, <2>1
  <2> HIDE DEF S
  <2>3. IsFiniteSet(S(0)) /\ Cardinality(S(0)) = 1
    <3>1. PICK e : S(0) = {e}
      BY <2>2
    <3>2. IsFiniteSet({e}) /\ Cardinality({e}) = 1
      BY FS_Singleton
    <3> QED BY <3>1, <3>2
  <2>4. f[0] = 1
    BY DEF IsProduct
  <2>5. QED
    BY <1>1, <1>2, <2>3, <2>4
<1>3. CASE m # 0
  <2>1. m \in 1 .. len /\ m - 1 \in 0 .. len /\ m - 1 \notin Bad
    BY <1>1, <1>3
  <2>2. IsFiniteSet(S(m - 1)) /\ Cardinality(S(m - 1)) = f[m - 1]
    <3> HIDE DEF S
    <3> QED BY <2>1
  <2>3. IsFiniteSet(ind[m]) /\ c[m] = Cardinality(ind[m]) /\ \A k \in 1 .. len : ind[k] \subseteq U
    BY <2>1 DEF AreCounts
  <2>4. ExistsBijection(S(m - 1) \X ind[m], S(m))
    <3> QED BY <2>1, <2>3, IndicesNext
  <2> HIDE DEF S, Bad
  <2>5. IsFiniteSet(S(m - 1) \X ind[m]) /\ Cardinality(S(m - 1) \X ind[m]) = f[m - 1] * c[m]
    <3>1. PICK A, B : A = S(m - 1) /\ B = ind[m]
      OBVIOUS
    <3>2. IsFiniteSet(A \X B) /\ Cardinality(A \X B) = Cardinality(A) * Cardinality(B)
      BY <3>1, <2>2, <2>3, FS_Product
    <3> QED BY <3>1, <3>2, <2>2, <2>3, Zenon
  <2>6. IsFiniteSet(S(m)) /\ Cardinality(S(m)) = f[m - 1] * c[m]
    BY <2>4, <2>5, FS_Bijection
  <2>7. f[m] = f[m - 1] * c[m]
    BY <2>1 DEF IsProduct
  <2>8. QED
    BY <1>1, <1>3, <2>6, <2>7 DEF Bad
<1>4. QED
  BY <1>2, <1>3

\* Products of larger numbers are larger.
LEMMA ProductGrows ==
    ASSUME NEW a \in Nat, NEW b \in Nat, NEW c \in Nat, NEW d \in Nat, a <= b, c <= d
    PROVE  a * c <= b * d
<1>1. PICK x \in Nat, y \in Nat : b = a + x /\ d = c + y
  <2>1. b - a \in Nat /\ d - c \in Nat /\ b = a + (b - a) /\ d = c + (d - c)
    OBVIOUS
  <2>2. QED
    BY <2>1
<1>2. b * d = a * c + a * y + x * c + x * y
  BY <1>1
<1>3. \A i, j \in Nat : i * j \in Nat
  OBVIOUS
<1>4. a * c \in Nat /\ a * y \in Nat /\ x * c \in Nat /\ x * y \in Nat
  BY <1>3, <1>1
<1>5. QED
  BY <1>2, <1>4

\* So are the products of sequences of larger numbers.
LEMMA ProductsGrow ==
    ASSUME NEW len \in Nat, NEW f \in [0 .. len -> Nat], NEW g \in [0 .. len -> Nat], NEW c, NEW d,
           IsProduct(f, c, len), IsProduct(g, d, len),
           \A k \in 1 .. len : c[k] \in Nat /\ d[k] \in Nat /\ c[k] <= d[k]
    PROVE  f[len] <= g[len]
<1> DEFINE Bad == {n \in 0 .. len : ~(f[n] <= g[n])}
<1> SUFFICES ASSUME Bad # {} PROVE FALSE
  OBVIOUS
<1>1. PICK m \in Bad : \A k \in Bad : m <= k
  <2>1. Bad \in SUBSET Nat /\ Bad # {}
    OBVIOUS
  <2> HIDE DEF Bad
  <2> QED BY <2>1, LeastExists
<1>2. m \in 0 .. len /\ ~(f[m] <= g[m])
  BY <1>1
<1>3. m # 0
  BY <1>2 DEF IsProduct
<1>4. m \in 1 .. len /\ m - 1 \in 0 .. len /\ m - 1 \notin Bad
  BY <1>1, <1>3
<1>5. PICK x \in Nat, y \in Nat : x = f[m - 1] /\ y = g[m - 1] /\ x <= y
  BY <1>4
<1>6. PICK i \in Nat, j \in Nat : i = c[m] /\ j = d[m] /\ i <= j
  BY <1>4
<1>7. f[m] = x * i /\ g[m] = y * j
  BY <1>4, <1>5, <1>6, Zenon DEF IsProduct
<1>8. x * i <= y * j
  BY <1>5, <1>6, ProductGrows
<1>9. QED
  BY <1>2, <1>7, <1>8

\* A dimension has as many indices as getSize counts if it starts where that presumes,
\* and no more, or no less, if it starts above or below.
LEMMA CountIs ==
    ASSUME NEW lower \in Int, NEW upper \in Nat, NEW lang
    PROVE  /\ IsFiniteSet(lower .. upper) /\ Cardinality(lower .. upper) \in Nat
           /\ Count(upper, lang) \in Nat
           /\ lower >= Presumed(lang) => Cardinality(lower .. upper) <= Count(upper, lang)
           /\ lower <= Presumed(lang) => Count(upper, lang) <= Cardinality(lower .. upper)
<1>1. /\ IsFiniteSet(lower .. upper)
      /\ Cardinality(lower .. upper) = IF lower > upper THEN 0 ELSE upper - lower + 1
  BY FS_Interval
<1>2. QED
  BY <1>1 DEF Count, Presumed

LEMMA FirstIs ==
    ASSUME NEW dims \in Dims, NEW k \in 1 .. Len(dims), NEW lang
    PROVE  First(dims[k], lang) \in Int
<1>1. PICK S : S = [lower : Int \cup {NoBound}, upper : Upper]
  OBVIOUS
<1>2. dims \in Seq(S)
  BY <1>1 DEF Dims
<1>3. PICK dim \in S : dim = dims[k]
  BY <1>2
<1>4. dim.lower \in Int \cup {NoBound}
  BY <1>1
<1>5. QED
  BY <1>3, <1>4 DEF First

\* The same of the elements of an array.
LEMMA ElementsAre ==
    ASSUME NEW dims \in Dims, HasConstants(dims), NEW junk \in Nat, NEW lang
    PROVE  /\ Elements(dims, lang) \in Nat /\ ElemCount(dims, junk, lang) \in Nat
           /\ (\A k \in DOMAIN dims : First(dims[k], lang) >= Presumed(lang)) =>
                Elements(dims, lang) <= ElemCount(dims, junk, lang)
           /\ (\A k \in DOMAIN dims : First(dims[k], lang) <= Presumed(lang)) =>
                ElemCount(dims, junk, lang) <= Elements(dims, lang)
<1>1. PICK len \in Nat : len = Len(dims) /\ DOMAIN dims = 1 .. len
  BY DEF Dims
<1> DEFINE ind == [k \in 1 .. len |-> First(dims[k], lang) .. dims[k].upper]
           U == UNION {ind[k] : k \in 1 .. len}
           c == [k \in 1 .. len |-> Cardinality(ind[k])]
<1>2. PICK d \in [0 .. len -> Nat] : /\ d = UpperBounds(dims, junk, lang)
                                     /\ \A k \in 1 .. len : d[k] = Count(dims[k].upper, lang)
  BY <1>1, UpperBoundsAre DEF HasConstants
<1>3. PICK g \in [0 .. len -> Nat] : IsProduct(g, d, len) /\ ElemCount(dims, junk, lang) = g[len]
  BY <1>1, <1>2, ElemCountIs
<1>4. ASSUME NEW k \in 1 .. len
      PROVE  /\ ind[k] \subseteq U /\ IsFiniteSet(ind[k]) /\ c[k] = Cardinality(ind[k])
             /\ c[k] \in Nat /\ d[k] \in Nat
             /\ First(dims[k], lang) >= Presumed(lang) => c[k] <= d[k]
             /\ First(dims[k], lang) <= Presumed(lang) => d[k] <= c[k]
  <2>2. dims[k].upper \in Nat
    BY <1>1 DEF HasConstants
  <2>3. PICK lower \in Int : lower = First(dims[k], lang)
    BY <1>1, FirstIs
  <2>4. PICK upper \in Nat : upper = dims[k].upper
    BY <2>2
  <2>5. ind[k] = lower .. upper
    BY <2>3, <2>4
  <2>6. c[k] = Cardinality(lower .. upper)
    BY <2>5
  <2>7. ind[k] \subseteq U /\ c[k] = Cardinality(ind[k])
    OBVIOUS
  <2> HIDE DEF ind, U, c
  <2>8. d[k] = Count(upper, lang)
    BY <1>2, <2>4
  <2>9. QED
    BY <2>3, <2>5, <2>6, <2>7, <2>8, CountIs
<1> HIDE DEF ind, U, c
<1>5. PICK f \in [0 .. len -> Nat] : IsProduct(f, c, len)
  BY <1>4, ProductExists
<1>6. Cardinality(Indices(len, ind, U)) = f[len]
  <2>1. AreCounts(c, ind, U, len)
    BY <1>4 DEF AreCounts
  <2>2. f \in [0 .. len -> Nat]
    OBVIOUS
  <2>3. PICK i, u, e : i = ind /\ u = U /\ e = c
    OBVIOUS
  <2>4. AreCounts(e, i, u, len) /\ IsProduct(f, e, len)
    BY <2>1, <2>3, <1>5
  <2>5. Cardinality(Indices(len, i, u)) = f[len]
    BY <2>2, <2>4, IndicesAre
  <2>6. QED
    BY <2>3, <2>5
<1>7. Elements(dims, lang) = f[len]
  <2>1. Elements(dims, lang) = Cardinality(Indices(Len(dims), [k \in 1 .. Len(dims) |-> First(dims[k], lang) .. dims[k].upper],
          UNION {[k \in 1 .. Len(dims) |-> First(dims[k], lang) .. dims[k].upper][j] : j \in 1 .. Len(dims)}))
    BY Zenon DEF Elements, Indices
  <2>2. QED
    BY <1>1, <2>1, <1>6, Zenon DEF ind, U
<1>8. ASSUME \A k \in DOMAIN dims : First(dims[k], lang) >= Presumed(lang)
      PROVE  f[len] <= g[len]
  <2>1. \A k \in 1 .. len : c[k] \in Nat /\ d[k] \in Nat /\ c[k] <= d[k]
    BY <1>1, <1>4, <1>8
  <2>2. QED
    BY <2>1, <1>3, <1>5, ProductsGrow
<1>9. ASSUME \A k \in DOMAIN dims : First(dims[k], lang) <= Presumed(lang)
      PROVE  g[len] <= f[len]
  <2>1. \A k \in 1 .. len : d[k] \in Nat /\ c[k] \in Nat /\ d[k] <= c[k]
    BY <1>1, <1>4, <1>9
  <2>2. QED
    BY <2>1, <1>3, <1>5, ProductsGrow
<1>10. f[len] \in Nat /\ g[len] \in Nat
  OBVIOUS
<1>11. QED
  BY <1>3, <1>7, <1>8, <1>9, <1>10

-----------------------------------------------------------------------------
(* The size and the extent of a type *)

\* What the debug information says of a type.
LEMMA TypeIs ==
    ASSUME NEW u \in DOMAIN TypeDie
    PROVE  LET type == TypeDie[u] IN
           /\ type.tag \in {"sized", "named", "array", "unsized"}
           /\ type.tag = "sized" => type.size \in Nat
           /\ type.tag \in {"named", "array"} => type.of \in DOMAIN TypeDie
           /\ type.tag = "array" => type.dims \in Dims
<1>1. PICK type : type = TypeDie[u]
  OBVIOUS
<1>2. /\ type.tag \in {"sized", "named", "array", "unsized"}
      /\ type.tag = "sized" => type.size \in Nat
      /\ type.tag \in {"named", "array"} => type.of \in DOMAIN TypeDie
      /\ type.tag = "array" =>
           type.dims \in Seq([lower : Int \cup {NoBound}, upper : Int \cup {NoBound, NoConst}]) \ {<<>>}
  BY <1>1, TypeAssumption
<1>3. type.tag = "array" => type.dims \in Dims
  BY <1>2, Zenon DEF Dims, Upper
<1>4. QED
  BY <1>1, <1>2, <1>3

\* The types whose size is so many times that of another
Referring == {u \in DOMAIN TypeDie : TypeDie[u].tag = "named" \/ IsCounted(u)}
Referred == [u \in Referring |-> TypeDie[u].of]

LEMMA TypesAcyclic ==
    /\ Referring \in SUBSET (DOMAIN TypeDie) /\ Referred \in [Referring -> DOMAIN TypeDie]
    /\ \A u \in Referring : Referred[u] = TypeDie[u].of
    /\ Acyclic(DOMAIN TypeDie, Referring, Referred)
<1>1. ASSUME NEW u \in Referring
      PROVE  u \in DOMAIN TypeDie /\ TypeDie[u].tag \in {"named", "array"}
  BY DEF Referring, IsCounted
<1>2. ASSUME NEW u \in Referring PROVE TypeDie[u].of \in DOMAIN TypeDie
  BY <1>1, TypeIs
<1>3. Referred \in [Referring -> DOMAIN TypeDie] /\ \A u \in Referring : Referred[u] = TypeDie[u].of
  BY <1>2 DEF Referred
<1>4. ASSUME NEW S \in SUBSET (DOMAIN TypeDie), S # {}
      PROVE  \E u \in S : u \in Referring => Referred[u] \notin S
  <2>1. PICK u \in S : TypeDie[u].tag \in {"named", "array"} => TypeDie[u].of \notin S
    BY <1>4, TypeAssumption
  <2>2. QED
    BY <2>1, <1>1, <1>3
<1>5. Acyclic(DOMAIN TypeDie, Referring, Referred)
  BY <1>4, Zenon DEF Acyclic
<1>6. Referring \in SUBSET (DOMAIN TypeDie)
  BY DEF Referring
<1>7. QED
  BY <1>3, <1>5, <1>6

IsSize(f, junk, lang) == f = [u \in DOMAIN TypeDie |-> SizeOf(TypeDie[u], junk[u], f, lang)]

IsExtent(f, lang) == f = [u \in DOMAIN TypeDie |-> BytesOf(TypeDie[u], f, lang)]

LEMMA SizeIs ==
    ASSUME NEW t, NEW junk, NEW lang
    PROVE  Size(t, junk, lang) = IF t = NoType THEN 0 ELSE (CHOOSE f : IsSize(f, junk, lang))[t]
  BY Zenon DEF Size, IsSize

LEMMA ExtentIs ==
    ASSUME NEW t, NEW lang
    PROVE  Extent(t, lang) = (CHOOSE f : IsExtent(f, lang))[t]
  BY Zenon DEF Extent, IsExtent

\* The elements of an array of constant bounds, and of any.
LEMMA CountsAre ==
    ASSUME NEW u \in DOMAIN TypeDie, IsCounted(u), NEW junk \in [DOMAIN TypeDie -> Nat], NEW lang
    PROVE  LET dims == TypeDie[u].dims IN
           /\ ElemCount(dims, junk[u], lang) \in Nat
           /\ HasConstants(dims) =>
                /\ Elements(dims, lang) \in Nat
                /\ StartsAbove(u, lang) => Elements(dims, lang) <= ElemCount(dims, junk[u], lang)
                /\ StartsBelow(u, lang) => ElemCount(dims, junk[u], lang) <= Elements(dims, lang)
<1>1. PICK dims : dims = TypeDie[u].dims
  OBVIOUS
<1>2. dims \in Dims
  BY <1>1, TypeIs DEF IsCounted
<1>3. PICK n \in Nat : n = junk[u]
  OBVIOUS
<1>4. PICK f \in [0 .. Len(dims) -> Nat] : ElemCount(dims, n, lang) = f[Len(dims)]
  BY <1>2, <1>3, ElemCountIs
<1>5. Len(dims) \in 0 .. Len(dims)
  BY <1>2 DEF Dims
<1>6. ElemCount(dims, n, lang) \in Nat
  BY <1>4, <1>5
<1>7. ASSUME HasConstants(dims)
      PROVE  /\ Elements(dims, lang) \in Nat
             /\ StartsAbove(u, lang) => Elements(dims, lang) <= ElemCount(dims, n, lang)
             /\ StartsBelow(u, lang) => ElemCount(dims, n, lang) <= Elements(dims, lang)
  <2>1. Elements(dims, lang) \in Nat
    BY <1>2, <1>3, <1>7, ElementsAre
  <2>2. StartsAbove(u, lang) => \A k \in DOMAIN dims : First(dims[k], lang) >= Presumed(lang)
    BY <1>1 DEF StartsAbove
  <2>3. StartsBelow(u, lang) => \A k \in DOMAIN dims : First(dims[k], lang) <= Presumed(lang)
    BY <1>1 DEF StartsBelow
  <2>4. QED
    BY <2>1, <2>2, <2>3, <1>2, <1>3, <1>7, ElementsAre
<1>8. QED
  BY <1>1, <1>3, <1>6, <1>7

\* A function that gives every type its size
Sizes(f, junk, lang) == \A u \in DOMAIN TypeDie : f[u] = SizeOf(TypeDie[u], junk[u], f, lang)
Extents(g, lang) == \A u \in DOMAIN TypeDie : g[u] = BytesOf(TypeDie[u], g, lang)

\* There is one, and it is that of getSize.
LEMMA SizesAre ==
    ASSUME NEW junk \in [DOMAIN TypeDie -> Nat], NEW lang
    PROVE  \E f \in [DOMAIN TypeDie -> Nat] :
             /\ Sizes(f, junk, lang)
             /\ \A t \in DOMAIN TypeDie : t # NoType => Size(t, junk, lang) = f[t]
<1> DEFINE T == DOMAIN TypeDie
           Times(u) == IF TypeDie[u].tag = "named" THEN 1 ELSE ElemCount(TypeDie[u].dims, junk[u], lang)
           Alone(u) == IF TypeDie[u].tag = "sized" THEN TypeDie[u].size
                       ELSE IF TypeDie[u].tag = "array" THEN PtrSize ELSE 0
           M == [u \in Referring |-> Times(u)]
           K == [u \in Referring |-> 0]
           B == [u \in T |-> Alone(u)]
<1>1. ASSUME NEW u \in Referring PROVE Times(u) \in Nat
  <2>1. u \in T /\ (TypeDie[u].tag = "named" \/ IsCounted(u))
    BY DEF Referring
  <2>2. IsCounted(u) => ElemCount(TypeDie[u].dims, junk[u], lang) \in Nat
    BY <2>1, CountsAre
  <2>3. QED
    BY <2>1, <2>2
<1>2. ASSUME NEW u \in T PROVE Alone(u) \in Nat
  BY TypeIs DEF PtrSize
<1>3. M \in [Referring -> Nat] /\ K \in [Referring -> Nat] /\ B \in [T -> Nat]
  <2> HIDE DEF Times, Alone
  <2> QED BY <1>1, <1>2
<1>4. PICK f \in [T -> Nat] :
        \A u \in T : f[u] = IF u \in Referring THEN M[u] * f[Referred[u]] + K[u] ELSE B[u]
  <2> HIDE DEF T, M, K, B
  <2>0. Referring \in SUBSET T /\ Referred \in [Referring -> T] /\ Acyclic(T, Referring, Referred)
    BY TypesAcyclic DEF T
  <2>1. PICK f \in [T -> Nat] : Numbers(f, T, Referring, Referred, M, K, B)
    BY <1>3, <2>0, NumbersExist
  <2>2. \A u \in T : f[u] = IF u \in Referring THEN M[u] * f[Referred[u]] + K[u] ELSE B[u]
    BY <2>1, Zenon DEF Numbers
  <2>3. QED
    BY <2>2
<1>5. ASSUME NEW u \in T PROVE f[u] = SizeOf(TypeDie[u], junk[u], f, lang)
  <2>1. PICK type, n, k : type = TypeDie[u] /\ n = junk[u] /\ k = f[type.of]
    OBVIOUS
  <2>2. type.tag \in {"sized", "named", "array", "unsized"}
    BY <2>1, TypeIs
  <2>3. CASE u \in Referring
    <3>1. Referred[u] = type.of /\ M[u] = Times(u) /\ K[u] = 0 /\ f[Referred[u]] \in Nat
      BY <2>1, <2>3, TypesAcyclic
    <3>2. k \in Nat /\ f[u] = Times(u) * k + 0
      <4> HIDE DEF M, K, B, Times
      <4> QED BY <3>1, <2>1, <2>3, <1>4
    <3>3. Times(u) \in Nat
      BY <2>3, <1>1
    <3>4. f[u] = Times(u) * k
      <4>1. \A i, j \in Nat : i * j + 0 = i * j
        OBVIOUS
      <4> HIDE DEF Times
      <4> QED BY <3>2, <3>3, <4>1
    <3>5. CASE type.tag = "named"
      <4>1. Times(u) = 1 /\ SizeOf(type, n, f, lang) = k
        BY <2>1, <3>5 DEF SizeOf
      <4>2. 1 * k = k
        BY <3>2
      <4> HIDE DEF Times
      <4> QED BY <3>4, <4>1, <4>2, <2>1
    <3>6. CASE type.tag = "array"
      <4>1. type.dims[1].upper # NoBound
        BY <2>1, <2>3, <3>6 DEF Referring, IsCounted
      <4>2. SizeOf(type, n, f, lang) = ElemCount(type.dims, n, lang) * k
        BY <2>1, <3>6, <4>1 DEF SizeOf
      <4>3. Times(u) = ElemCount(type.dims, n, lang)
        BY <2>1, <3>6
      <4> HIDE DEF Times
      <4> QED BY <3>4, <4>2, <4>3, <2>1
    <3>7. QED
      BY <2>1, <2>3, <3>5, <3>6 DEF Referring, IsCounted
  <2>4. CASE u \notin Referring
    <3>1. f[u] = Alone(u)
      <4>1. B[u] = Alone(u)
        OBVIOUS
      <4> HIDE DEF M, K, B, Alone
      <4> QED BY <2>4, <1>4, <4>1
    <3>2. type.tag # "named" /\ (type.tag = "array" => type.dims[1].upper = NoBound)
      BY <2>1, <2>4 DEF Referring, IsCounted
    <3>3. SizeOf(type, n, f, lang) = Alone(u)
      BY <2>1, <2>2, <3>2 DEF SizeOf
    <3> HIDE DEF Alone
    <3>4. QED
      BY <3>1, <3>3, <2>1
  <2>5. QED
    BY <2>3, <2>4
<1>6. IsSize(f, junk, lang)
  <2>1. [u \in T |-> f[u]] = [u \in T |-> SizeOf(TypeDie[u], junk[u], f, lang)]
    BY <1>5, Zenon
  <2>2. QED
    BY <2>1 DEF IsSize
<1>7. ASSUME NEW g, IsSize(g, junk, lang) PROVE g = f
  <2>1. g = [u \in T |-> SizeOf(TypeDie[u], junk[u], g, lang)]
    BY <1>7 DEF IsSize
  <2>2. ASSUME NEW u \in T, u \in Referring => g[Referred[u]] = f[Referred[u]]
        PROVE  g[u] = f[u]
    <3>1. PICK type, n : type = TypeDie[u] /\ n = junk[u]
      OBVIOUS
    <3>2. type.tag \in {"sized", "named", "array", "unsized"}
      BY <3>1, TypeIs
    <3>3. u \in Referring => g[type.of] = f[type.of]
      BY <2>2, <3>1, TypesAcyclic
    <3>4. u \in Referring <=> (type.tag = "named" \/ (type.tag = "array" /\ type.dims[1].upper # NoBound))
      BY <3>1 DEF Referring, IsCounted
    <3>5. SizeOf(type, n, g, lang) = SizeOf(type, n, f, lang)
      <4>1. CASE type.tag \in {"sized", "unsized"}
        BY <4>1 DEF SizeOf
      <4>2. CASE type.tag = "named"
        BY <3>3, <3>4, <4>2 DEF SizeOf
      <4>3. CASE type.tag = "array"
        BY <3>3, <3>4, <4>3 DEF SizeOf
      <4>4. QED
        BY <3>2, <4>1, <4>2, <4>3
    <3>6. g[u] = SizeOf(type, n, g, lang)
      BY <2>1, <3>1, Zenon
    <3>7. f[u] = SizeOf(type, n, f, lang)
      BY <1>5, <3>1, Zenon
    <3>8. QED
      BY <3>5, <3>6, <3>7
  <2>3. PICK S : S = T
    OBVIOUS
  <2>4. IsOn(g, S) /\ IsOn(f, S)
    <3>1. g = [u \in T |-> g[u]] /\ f = [u \in T |-> f[u]]
      BY <2>1
    <3>2. QED
      BY <2>3, <3>1, Zenon DEF IsOn
  <2>5. Follows(g, f, S, Referring, Referred)
    BY <2>2, <2>3, Zenon DEF Follows
  <2>6. Referring \in SUBSET S /\ Referred \in [Referring -> S] /\ Acyclic(S, Referring, Referred)
    BY <2>3, TypesAcyclic
  <2>7. QED
    BY <2>4, <2>5, <2>6, SameNumbers
<1>8. (CHOOSE g : IsSize(g, junk, lang)) = f
  <2>1. IsSize(CHOOSE g : IsSize(g, junk, lang), junk, lang)
    BY <1>6, Zenon
  <2>2. QED
    BY <2>1, <1>7
<1>9. \A t \in T : t # NoType => Size(t, junk, lang) = f[t]
  BY <1>8, SizeIs
<1>10. Sizes(f, junk, lang)
  BY <1>5 DEF Sizes
<1>11. QED
  BY <1>9, <1>10

\* The same of the extents.
LEMMA ExtentsAre ==
    ASSUME NEW lang
    PROVE  \E f \in [DOMAIN TypeDie -> Nat] :
             Extents(f, lang) /\ \A t \in DOMAIN TypeDie : Extent(t, lang) = f[t]
<1> DEFINE T == DOMAIN TypeDie
           Times(u) == IF TypeDie[u].tag = "named" THEN 1
                       ELSE IF HasConstants(TypeDie[u].dims) THEN Elements(TypeDie[u].dims, lang) ELSE 0
           Alone(u) == IF TypeDie[u].tag = "sized" THEN TypeDie[u].size
                       ELSE IF TypeDie[u].tag = "array" THEN PtrSize ELSE 0
           M == [u \in Referring |-> Times(u)]
           K == [u \in Referring |-> 0]
           B == [u \in T |-> Alone(u)]
<1>1. ASSUME NEW u \in Referring PROVE Times(u) \in Nat
  <2>1. u \in T /\ (TypeDie[u].tag = "named" \/ IsCounted(u))
    BY DEF Referring
  <2>2. IsCounted(u) /\ HasConstants(TypeDie[u].dims) => Elements(TypeDie[u].dims, lang) \in Nat
    <3>1. PICK junk \in [DOMAIN TypeDie -> Nat] : TRUE
      BY [t \in DOMAIN TypeDie |-> 0] \in [DOMAIN TypeDie -> Nat]
    <3>2. QED
      BY <2>1, <3>1, CountsAre
  <2>3. QED
    BY <2>1, <2>2
<1>2. ASSUME NEW u \in T PROVE Alone(u) \in Nat
  BY TypeIs DEF PtrSize
<1>3. M \in [Referring -> Nat] /\ K \in [Referring -> Nat] /\ B \in [T -> Nat]
  <2> HIDE DEF Times, Alone
  <2> QED BY <1>1, <1>2
<1>4. PICK f \in [T -> Nat] :
        \A u \in T : f[u] = IF u \in Referring THEN M[u] * f[Referred[u]] + K[u] ELSE B[u]
  <2> HIDE DEF T, M, K, B
  <2>0. Referring \in SUBSET T /\ Referred \in [Referring -> T] /\ Acyclic(T, Referring, Referred)
    BY TypesAcyclic DEF T
  <2>1. PICK f \in [T -> Nat] : Numbers(f, T, Referring, Referred, M, K, B)
    BY <1>3, <2>0, NumbersExist
  <2>2. \A u \in T : f[u] = IF u \in Referring THEN M[u] * f[Referred[u]] + K[u] ELSE B[u]
    BY <2>1, Zenon DEF Numbers
  <2>3. QED
    BY <2>2
<1>5. ASSUME NEW u \in T PROVE f[u] = BytesOf(TypeDie[u], f, lang)
  <2>1. PICK type, k : type = TypeDie[u] /\ k = f[type.of]
    OBVIOUS
  <2>2. type.tag \in {"sized", "named", "array", "unsized"}
    BY <2>1, TypeIs
  <2>3. CASE u \in Referring
    <3>1. Referred[u] = type.of /\ M[u] = Times(u) /\ K[u] = 0 /\ f[Referred[u]] \in Nat
      BY <2>1, <2>3, TypesAcyclic
    <3>2. k \in Nat /\ f[u] = Times(u) * k + 0
      <4> HIDE DEF M, K, B, Times
      <4> QED BY <3>1, <2>1, <2>3, <1>4
    <3>3. Times(u) \in Nat
      BY <2>3, <1>1
    <3>4. f[u] = Times(u) * k
      <4>1. \A i, j \in Nat : i * j + 0 = i * j
        OBVIOUS
      <4> HIDE DEF Times
      <4> QED BY <3>2, <3>3, <4>1
    <3>5. CASE type.tag = "named"
      <4>1. Times(u) = 1 /\ BytesOf(type, f, lang) = k
        BY <2>1, <3>5 DEF BytesOf
      <4>2. 1 * k = k
        BY <3>2
      <4> HIDE DEF Times
      <4> QED BY <3>4, <4>1, <4>2, <2>1
    <3>6. CASE type.tag = "array"
      <4>1. type.dims[1].upper # NoBound
        BY <2>1, <2>3, <3>6 DEF Referring, IsCounted
      <4>2. CASE HasConstants(type.dims)
        <5>1. BytesOf(type, f, lang) = Elements(type.dims, lang) * k
          BY <2>1, <3>6, <4>1, <4>2 DEF BytesOf
        <5>2. Times(u) = Elements(type.dims, lang)
          BY <2>1, <3>6, <4>2
        <5> HIDE DEF Times
        <5> QED BY <3>4, <5>1, <5>2, <2>1
      <4>3. CASE ~HasConstants(type.dims)
        <5>1. BytesOf(type, f, lang) = 0
          BY <2>1, <3>6, <4>1, <4>3 DEF BytesOf
        <5>2. Times(u) = 0
          BY <2>1, <3>6, <4>3
        <5>3. 0 * k = 0
          BY <3>2
        <5> HIDE DEF Times
        <5> QED BY <3>4, <5>1, <5>2, <5>3, <2>1
      <4>4. QED
        BY <4>2, <4>3
    <3>7. QED
      BY <2>1, <2>3, <3>5, <3>6 DEF Referring, IsCounted
  <2>4. CASE u \notin Referring
    <3>1. f[u] = Alone(u)
      <4>1. B[u] = Alone(u)
        OBVIOUS
      <4> HIDE DEF M, K, B, Alone
      <4> QED BY <2>4, <1>4, <4>1
    <3>2. type.tag # "named" /\ (type.tag = "array" => type.dims[1].upper = NoBound)
      BY <2>1, <2>4 DEF Referring, IsCounted
    <3>3. BytesOf(type, f, lang) = Alone(u)
      BY <2>1, <2>2, <3>2 DEF BytesOf
    <3> HIDE DEF Alone
    <3>4. QED
      BY <3>1, <3>3, <2>1
  <2>5. QED
    BY <2>3, <2>4
<1>6. IsExtent(f, lang)
  <2>1. [u \in T |-> f[u]] = [u \in T |-> BytesOf(TypeDie[u], f, lang)]
    BY <1>5, Zenon
  <2>2. QED
    BY <2>1 DEF IsExtent
<1>7. ASSUME NEW g, IsExtent(g, lang) PROVE g = f
  <2>1. g = [u \in T |-> BytesOf(TypeDie[u], g, lang)]
    BY <1>7 DEF IsExtent
  <2>2. ASSUME NEW u \in T, u \in Referring => g[Referred[u]] = f[Referred[u]]
        PROVE  g[u] = f[u]
    <3>1. PICK type : type = TypeDie[u]
      OBVIOUS
    <3>2. type.tag \in {"sized", "named", "array", "unsized"}
      BY <3>1, TypeIs
    <3>3. u \in Referring => g[type.of] = f[type.of]
      BY <2>2, <3>1, TypesAcyclic
    <3>4. u \in Referring <=> (type.tag = "named" \/ (type.tag = "array" /\ type.dims[1].upper # NoBound))
      BY <3>1 DEF Referring, IsCounted
    <3>5. BytesOf(type, g, lang) = BytesOf(type, f, lang)
      <4>1. CASE type.tag \in {"sized", "unsized"}
        BY <4>1 DEF BytesOf
      <4>2. CASE type.tag = "named"
        BY <3>3, <3>4, <4>2 DEF BytesOf
      <4>3. CASE type.tag = "array"
        BY <3>3, <3>4, <4>3 DEF BytesOf
      <4>4. QED
        BY <3>2, <4>1, <4>2, <4>3
    <3>6. g[u] = BytesOf(type, g, lang)
      BY <2>1, <3>1, Zenon
    <3>7. f[u] = BytesOf(type, f, lang)
      BY <1>5, <3>1, Zenon
    <3>8. QED
      BY <3>5, <3>6, <3>7
  <2>3. PICK S : S = T
    OBVIOUS
  <2>4. IsOn(g, S) /\ IsOn(f, S)
    <3>1. g = [u \in T |-> g[u]] /\ f = [u \in T |-> f[u]]
      BY <2>1
    <3>2. QED
      BY <2>3, <3>1, Zenon DEF IsOn
  <2>5. Follows(g, f, S, Referring, Referred)
    BY <2>2, <2>3, Zenon DEF Follows
  <2>6. Referring \in SUBSET S /\ Referred \in [Referring -> S] /\ Acyclic(S, Referring, Referred)
    BY <2>3, TypesAcyclic
  <2>7. QED
    BY <2>4, <2>5, <2>6, SameNumbers
<1>8. (CHOOSE g : IsExtent(g, lang)) = f
  <2>1. IsExtent(CHOOSE g : IsExtent(g, lang), lang)
    BY <1>6, Zenon
  <2>2. QED
    BY <2>1, <1>7
<1>9. \A t \in T : Extent(t, lang) = f[t]
  BY <1>8, ExtentIs
<1>10. Extents(f, lang)
  BY <1>5 DEF Extents
<1>11. QED
  BY <1>9, <1>10

\* A type that is made of none that is larger in g than in f is not larger itself.
Grows(f, g, ts) == \A u \in ts : (TypeDie[u].tag \in {"named", "array"} => f[TypeDie[u].of] <= g[TypeDie[u].of])
                                   => f[u] <= g[u]

\* The types closed under what they are made of
Closed(ts) == \A u \in ts : TypeDie[u].tag \in {"named", "array"} => TypeDie[u].of \in ts

LEMMA AllGrow ==
    ASSUME NEW f, NEW g, NEW ts \in SUBSET (DOMAIN TypeDie), Closed(ts), Grows(f, g, ts), NEW t \in ts
    PROVE  f[t] <= g[t]
<1> DEFINE Bad == {u \in ts : ~(f[u] <= g[u])}
<1>1. Bad = {}
  <2> SUFFICES ASSUME Bad # {} PROVE FALSE
    OBVIOUS
  <2>1. Bad \in SUBSET (DOMAIN TypeDie)
    OBVIOUS
  <2>2. PICK u \in Bad : TypeDie[u].tag \in {"named", "array"} => TypeDie[u].of \notin Bad
    <3> HIDE DEF Bad
    <3> QED BY <2>1, TypeAssumption
  <2>3. u \in ts /\ ~(f[u] <= g[u])
    OBVIOUS
  <2>4. TypeDie[u].tag \in {"named", "array"} => f[TypeDie[u].of] <= g[TypeDie[u].of]
    BY <2>2, <2>3 DEF Closed
  <2>5. QED
    BY <2>3, <2>4 DEF Grows
<1>2. QED
  BY <1>1

\* One step, in either direction.
LEMMA StepsGrow ==
    ASSUME NEW junk \in [DOMAIN TypeDie -> Nat], NEW lang, NEW u \in DOMAIN TypeDie,
           NEW f \in [DOMAIN TypeDie -> Nat], Sizes(f, junk, lang),
           NEW g \in [DOMAIN TypeDie -> Nat], Extents(g, lang)
    PROVE  LET of == TypeDie[u].of
               refers == TypeDie[u].tag \in {"named", "array"}
           IN /\ StartsAbove(u, lang) /\ (refers => g[of] <= f[of]) => g[u] <= f[u]
              /\ StartsBelow(u, lang) /\ (refers => f[of] <= g[of]) => f[u] <= g[u]
<1>1. PICK type, of, n : type = TypeDie[u] /\ of = type.of /\ n = junk[u]
  OBVIOUS
<1>2. /\ type.tag \in {"sized", "named", "array", "unsized"}
      /\ type.tag \in {"named", "array"} => of \in DOMAIN TypeDie
  BY <1>1, TypeIs
<1>3. f[u] = SizeOf(type, n, f, lang) /\ g[u] = BytesOf(type, g, lang)
  BY <1>1, Zenon DEF Sizes, Extents
<1>4. f[u] \in Nat /\ g[u] \in Nat /\ (of \in DOMAIN TypeDie => f[of] \in Nat /\ g[of] \in Nat)
  OBVIOUS
<1>5. CASE type.tag \in {"sized", "unsized"} \/ (type.tag = "array" /\ type.dims[1].upper = NoBound)
  <2>1. SizeOf(type, n, f, lang) = BytesOf(type, g, lang)
    BY <1>2, <1>5 DEF SizeOf, BytesOf
  <2>2. f[u] = g[u]
    BY <1>3, <2>1
  <2>3. QED
    BY <1>4, <2>2
<1>6. CASE type.tag = "named"
  <2>1. f[u] = f[of] /\ g[u] = g[of]
    BY <1>1, <1>3, <1>6 DEF SizeOf, BytesOf
  <2>2. TypeDie[u].tag = "named" /\ TypeDie[u].of = of
    BY <1>1, <1>6
  <2>3. QED
    BY <2>1, <2>2
<1>7. CASE type.tag = "array" /\ type.dims[1].upper # NoBound
  <2>1. IsCounted(u)
    BY <1>1, <1>7 DEF IsCounted
  <2>2. PICK dims : dims = type.dims
    OBVIOUS
  <2>3. PICK a : a = ElemCount(dims, n, lang)
    OBVIOUS
  <2>4. a \in Nat
    BY <1>1, <2>1, <2>2, <2>3, CountsAre
  <2>5. StartsAbove(u, lang) \/ StartsBelow(u, lang) => HasConstants(dims)
    BY <1>1, <2>1, <2>2 DEF StartsAbove, StartsBelow
  <2>6. SUFFICES ASSUME HasConstants(dims)
                 PROVE  /\ StartsAbove(u, lang) /\ g[of] <= f[of] => g[u] <= f[u]
                        /\ StartsBelow(u, lang) /\ f[of] <= g[of] => f[u] <= g[u]
    BY <1>1, <1>7, <2>5
  <2>7. PICK b : b = Elements(dims, lang)
    OBVIOUS
  <2>8. /\ b \in Nat
        /\ StartsAbove(u, lang) => b <= a
        /\ StartsBelow(u, lang) => a <= b
    BY <1>1, <2>1, <2>2, <2>3, <2>6, <2>7, CountsAre
  <2>9. PICK x \in Nat, y \in Nat : x = f[of] /\ y = g[of]
    BY <1>2, <1>4, <1>7
  <2>10. SizeOf(type, n, f, lang) = a * x
    BY <1>1, <1>7, <2>2, <2>3, <2>9 DEF SizeOf
  <2>11. BytesOf(type, g, lang) = b * y
    BY <1>1, <1>7, <2>2, <2>6, <2>7, <2>9 DEF BytesOf
  <2>12. f[u] = a * x /\ g[u] = b * y
    BY <1>3, <2>10, <2>11
  <2>13. StartsAbove(u, lang) /\ y <= x => b * y <= a * x
    BY <2>4, <2>8, <2>9, ProductGrows
  <2>14. StartsBelow(u, lang) /\ x <= y => a * x <= b * y
    BY <2>4, <2>8, <2>9, ProductGrows
  <2>15. QED
    BY <2>9, <2>12, <2>13, <2>14
<1>8. QED
  BY <1>2, <1>5, <1>6, <1>7

\* The size of a type is no less, or no more, than its extent.
LEMMA SizesGrow ==
    ASSUME NEW junk \in [DOMAIN TypeDie -> Nat], NEW lang \in Lang,
           NEW f \in [DOMAIN TypeDie -> Nat], Sizes(f, junk, lang),
           NEW g \in [DOMAIN TypeDie -> Nat], Extents(g, lang), NEW t
    PROVE  /\ t \in Above[lang] => g[t] <= f[t]
           /\ t \in Below[lang] => f[t] <= g[t]
<1> DEFINE types1 == {u \in DOMAIN TypeDie : StartsAbove(u, lang)}
           types2 == {u \in DOMAIN TypeDie : StartsBelow(u, lang)}
<1>1. Above[lang] = MadeOf(types1) /\ Below[lang] = MadeOf(types2)
  BY DEF Above, Below
<1>2. ASSUME t \in Above[lang] PROVE g[t] <= f[t]
  <2>1. PICK ts \in SUBSET types1 : t \in ts /\ Closed(ts)
    BY <1>1, <1>2, Zenon DEF MadeOf, Closed
  <2>2. ts \in SUBSET (DOMAIN TypeDie)
    OBVIOUS
  <2>3. ASSUME NEW u \in ts, TypeDie[u].tag \in {"named", "array"} => g[TypeDie[u].of] <= f[TypeDie[u].of]
        PROVE  g[u] <= f[u]
    BY <2>3, StepsGrow
  <2>4. Grows(g, f, ts)
    BY <2>3 DEF Grows
  <2>5. QED
    BY <2>1, <2>2, <2>4, AllGrow
<1>3. ASSUME t \in Below[lang] PROVE f[t] <= g[t]
  <2>1. PICK ts \in SUBSET types2 : t \in ts /\ Closed(ts)
    BY <1>1, <1>3, Zenon DEF MadeOf, Closed
  <2>2. ts \in SUBSET (DOMAIN TypeDie)
    OBVIOUS
  <2>3. ASSUME NEW u \in ts, TypeDie[u].tag \in {"named", "array"} => f[TypeDie[u].of] <= g[TypeDie[u].of]
        PROVE  f[u] <= g[u]
    BY <2>3, StepsGrow
  <2>4. Grows(f, g, ts)
    BY <2>3 DEF Grows
  <2>5. QED
    BY <2>1, <2>2, <2>4, AllGrow
<1>4. QED
  BY <1>2, <1>3

-----------------------------------------------------------------------------
(* From the binary to the context *)

\* Elements of one size tile what is so many times that size.
LEMMA Multiple ==
    ASSUME NEW n \in Nat, NEW a \in Nat, a # 0
    PROVE  (n * a) % a = 0 /\ a % a = 0
<1>1. (n * a) % a = 0
  OBVIOUS
<1>2. a % a = 0
  OBVIOUS
<1>3. QED
  BY <1>1, <1>2

LEMMA LangIs ==
    ASSUME Tree, Walked, NEW d \in DOMAIN vars
    PROVE  LangOf(d) \in Lang
<1>1. d \in 1 .. Len(dies) /\ dies[d].tag \in {"var", "param"}
  BY VariableIs
<1>2. PICK n, p : n = Len(dies) /\ p = dies[d].parent
  OBVIOUS
<1>3. n \in Nat /\ Rooted(dies, n) /\ Nested(dies, n) /\ d \in 1 .. n
  BY <1>1, <1>2 DEF Walked, Rooted
<1>4. p \in 1 .. n
  BY <1>1, <1>2, <1>3 DEF Rooted, Nested
<1>5. PICK u : u = Unit(dies, p)
  OBVIOUS
<1>6. u \in 1 .. p
  BY <1>3, <1>4, <1>5, UnitAround
<1>7. LangOf(d) = dies[u].lang
  <2>1. InfoAt(dies, p).lang = LangOf(d)
    BY <1>1, <1>2, ScopeIs
  <2>2. InfoAt(dies, p).lang = dies[u].lang
    BY <1>5 DEF InfoAt
  <2>3. QED
    BY <2>1, <2>2
<1>8. u \in 1 .. Len(dies)
  BY <1>2, <1>4, <1>6
<1>9. QED
  BY <1>7, <1>8, ReadDieIs

\* A variable has no less, or no more, than the extent of its type, and its elements fill it.
LEMMA SizesFollow ==
    ASSUME Tree, Walked
    PROVE  SizeAndExtent
<1> SUFFICES ASSUME NEW d \in DOMAIN vars
             PROVE  LET t == dies[d].type
                        lang == LangOf(d)
                    IN /\ IsArray(dies[d]) /\ dies[d].tag = "param" => vars[d].size = PtrSize
                       /\ ~(IsArray(dies[d]) /\ dies[d].tag = "param") =>
                            /\ t \in Above[lang] => vars[d].size >= Extent(t, lang)
                            /\ t \in Below[lang] => vars[d].size <= Extent(t, lang)
                       /\ vars[d].typeSize # 0 /\ vars[d].size % vars[d].typeSize = 0
  BY Zenon DEF SizeAndExtent
<1>1. PICK die, lang, t, junk : die = dies[d] /\ lang = LangOf(d) /\ t = die.type /\ junk = die.junk
  OBVIOUS
<1>2. PICK size, elem : size = vars[d].size /\ elem = vars[d].typeSize
  OBVIOUS
<1>3. /\ size = GetSize(die, lang) /\ size # 0 /\ elem = GetTypeSize(die, lang)
      /\ d \in 1 .. Len(dies)
  BY <1>1, <1>2, VariableIs
<1>4. t \in DOMAIN TypeDie \cup {NoType} /\ junk \in [DOMAIN TypeDie -> Nat] /\ lang \in Lang
  BY <1>1, <1>3, ReadDieIs, LangIs
<1>5. PICK f \in [DOMAIN TypeDie -> Nat] :
        /\ Sizes(f, junk, lang)
        /\ \A u \in DOMAIN TypeDie : u # NoType => Size(u, junk, lang) = f[u]
  BY <1>4, SizesAre
<1>6. PICK g \in [DOMAIN TypeDie -> Nat] :
        Extents(g, lang) /\ \A u \in DOMAIN TypeDie : Extent(u, lang) = g[u]
  BY ExtentsAre
<1>7. CASE IsArray(die) /\ die.tag = "param"
  <2>1. size = PtrSize /\ elem = PtrSize
    BY <1>3, <1>7 DEF GetSize, GetTypeSize
  <2>2. size = 8 /\ elem = 8
    BY <2>1 DEF PtrSize
  <2>3. size % elem = 0
    BY <2>2, Multiple
  <2>4. QED
    BY <1>1, <1>2, <1>7, <2>1, <2>2, <2>3
<1>8. CASE ~(IsArray(die) /\ die.tag = "param")
  <2>1. size = Size(t, junk, lang)
    BY <1>1, <1>3, <1>8 DEF GetSize
  <2>2. t # NoType
    BY <2>1, <1>3, SizeIs
  <2>3. t \in DOMAIN TypeDie /\ size = f[t] /\ Extent(t, lang) = g[t] /\ f[t] \in Nat /\ g[t] \in Nat
    BY <2>1, <2>2, <1>4, <1>5, <1>6
  <2>4. /\ t \in Above[lang] => g[t] <= f[t]
        /\ t \in Below[lang] => f[t] <= g[t]
    BY <1>4, <1>5, <1>6, SizesGrow
  <2>5. /\ t \in Above[lang] => size >= Extent(t, lang)
        /\ t \in Below[lang] => size <= Extent(t, lang)
    BY <2>3, <2>4
  <2>6. elem # 0 /\ size % elem = 0
    <3>1. CASE IsArray(die) /\ TypeDie[t].dims[1].upper # NoBound
      <4>1. TypeDie[t].tag = "array" /\ die.tag # "param" /\ IsCounted(t)
        BY <1>1, <1>8, <3>1 DEF IsArray, IsCounted
      <4>2. PICK type, of, k : type = TypeDie[t] /\ of = type.of /\ k = junk[t]
        OBVIOUS
      <4>3. of \in DOMAIN TypeDie /\ of # NoType
        BY <2>3, <4>1, <4>2, TypeIs, TypeAssumption
      <4>4. elem = Size(of, junk, lang)
        BY <1>1, <1>3, <3>1, <4>1, <4>2 DEF GetTypeSize
      <4>5. elem = f[of] /\ elem \in Nat
        BY <4>3, <4>4, <1>5
      <4>6. PICK n \in Nat : n = ElemCount(type.dims, k, lang)
        BY <2>3, <4>1, <4>2, <1>4, CountsAre
      <4>7. SizeOf(type, k, f, lang) = n * f[of]
        BY <3>1, <4>1, <4>2, <4>6 DEF SizeOf
      <4>8. f[t] = SizeOf(type, k, f, lang)
        BY <2>3, <4>2, <1>5, Zenon DEF Sizes
      <4>9. size = n * elem
        BY <2>3, <4>5, <4>7, <4>8
      <4>10. elem # 0
        BY <4>5, <4>9, <1>3
      <4>11. QED
        BY <4>5, <4>9, <4>10, Multiple
    <3>2. CASE ~(IsArray(die) /\ TypeDie[t].dims[1].upper # NoBound)
      <4>1. elem = size
        BY <1>1, <1>3, <3>2 DEF GetTypeSize
      <4>2. size \in Nat
        BY <2>3
      <4>3. QED
        BY <4>1, <4>2, <1>3, Multiple
    <3>3. QED
      BY <3>1, <3>2
  <2>7. QED
    BY <1>1, <1>2, <1>8, <2>5, <2>6
<1>9. QED
  BY <1>7, <1>8

\* The variables of a context that has any are the known ones, each once and in place.
LEMMA ContextsFollow ==
    ASSUME AttributionInv, NEW c \in {tool, query}, c # Context
    PROVE  /\ phase # "loading" => {v.die : v \in c.vars} = {d \in 1 .. Len(dies) : Known(d)}
           /\ \A v, w \in c.vars : v.die = w.die => v = w
           /\ \A v \in c.vars :
                /\ PlacedBy(v, dies[v.die].loc)
                /\ v.parent # NoFunc => v.parent = Symbol(Innermost(v.die, {"func"}))
<1>1. Tree /\ Walked /\ Attributing /\ Loading /\ phase \in Phase
  BY DEF AttributionInv, DebugInv
<1>2. c = query => phase \in {"loading", "loaded"} /\ query.vars \subseteq tool.vars
  BY <1>1 DEF Loading
<1>3. c = tool => phase \in {"run", "saved", "loading", "loaded"}
  BY <1>1 DEF Attributing
<1>4. c.vars \subseteq tool.vars /\ (phase # "loading" => c.vars = tool.vars)
  BY <1>1, <1>2 DEF Loading
<1>5. Made(tool) /\ DiesOf(tool) = FuncVars(KeptFuncs) \cup Globals
  BY <1>1, <1>2, <1>3 DEF Attributing
<1>6. phase # "loading" => {v.die : v \in c.vars} = {d \in 1 .. Len(dies) : Known(d)}
  <2>1. DiesOf(tool) = {d \in 1 .. Len(dies) : Known(d)}
    BY <1>1, <1>5, KnownAre
  <2>2. QED
    BY <1>4, <2>1 DEF DiesOf
<1>7. \A v, w \in c.vars : v.die = w.die => v = w
  BY <1>4, <1>5 DEF Made
<1>8. ASSUME NEW v \in c.vars
      PROVE  /\ PlacedBy(v, dies[v.die].loc)
             /\ v.parent # NoFunc => v.parent = Symbol(Innermost(v.die, {"func"}))
  <2>1. MadeFor(v, v.die)
    BY <1>4, <1>5 DEF Made
  <2>2. QED
    BY <1>1, <2>1, PlaceIs
<1>9. QED
  BY <1>6, <1>7, <1>8

\* From the tree of DIEs to the context: the tool, and then the query, has exactly the
\* variables that the tree says can be known, each once, under its own function, at the
\* place that its DIE names, as far as that fits an int, and with a size that is no less
\* than the extent of its type where its arrays start above the index that getSize presumes
\* and no more where they start below (walkTree, getSize, LocInfo, toDbg).
THEOREM KnownExactly == Spec => []ExactlyTheKnown
<1>1. AttributionInv => ExactlyTheKnown
  <2> SUFFICES ASSUME AttributionInv PROVE ExactlyTheKnown
    OBVIOUS
  <2>1. ScopesAreEnclosing /\ SizeAndExtent
    BY ScopesFollow, SizesFollow DEF AttributionInv, DebugInv
  <2>2. QED
    BY <2>1, ContextsFollow, Zenon DEF ExactlyTheKnown, PlacedBy
<1>2. QED
  BY <1>1, AttributionInvariant, PTL
=============================================================================
