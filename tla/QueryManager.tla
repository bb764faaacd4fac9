---------------------------- MODULE QueryManager ----------------------------
(***************************************************************************)
(* A query over the event log (src/src/query/querymanager): a QueryContext *)
(* accepts or rejects events by thread and by function, and the access     *)
(* matrix of the accepted accesses is built in one pass over the log and   *)
(* merged.  Module Query composes it with Locality and AccessPattern.      *)
(*                                                                         *)
(* The events come in the order of the log, with the function on top of    *)
(* their thread's stack: module EventManager shows that they do.           *)
(***************************************************************************)
EXTENDS Integers, Sequences, FiniteSets, FiniteSetsExt

CONSTANTS Thread, Func,
          NoFunc,      \* topFuncInfo of an empty call stack
          Var,         \* ids of variables
          NoVar,       \* -1, the id given to an access without a variable
          Tag,         \* for each variable its name and line, or NoTag
          NoTag,       \* the line of the variable is not known
          MaxConfig, MaxEvents \* bounds: calls on the QueryContext, events

\* The keys of a std::set<int> and a std::map<int, AccessMatrixEntry>.
IdAssumption == Thread \subseteq Int /\ Var \subseteq Nat /\ NoVar \notin Var /\ DOMAIN Tag = Var

VARIABLES threadsEnabled, threads, funcsEnabled, funcs,  \* QueryContext
          entries,  \* AccessMatrix: for some variables [accessed, types], see Entry
          seen,     \* AccessMatrix::threads
          phase,    \* "config", "pass", "merged"
          configs, trace  \* history: the calls on the QueryContext; the events

ctxVars == <<threadsEnabled, threads, funcsEnabled, funcs>>
vars == <<ctxVars, entries, seen, phase, configs, trace>>

Type == {"Read", "Write", "Other"}
\* Only reads and writes have a varId.
Event == [type : Type, threadId : Thread, varId : Var \cup {NoVar}, top : Func \cup {NoFunc}]
         \ [type : {"Other"}, threadId : Thread, varId : Var, top : Func \cup {NoFunc}]

Init == /\ threadsEnabled = FALSE /\ threads = {}
        /\ funcsEnabled = FALSE /\ funcs = {}
        /\ entries = [v \in {} |-> <<>>] /\ seen = {}
        /\ phase = "config"
        /\ configs = <<>> /\ trace = <<>>
-----------------------------------------------------------------------------
(* QueryContext *)

Configure(call) == /\ phase = "config" /\ Len(configs) < MaxConfig
                   /\ configs' = Append(configs, call)
                   /\ UNCHANGED <<entries, seen, phase, trace>>

AcceptThread(t) == /\ Configure([op |-> "acceptThread", arg |-> t])
                   /\ threadsEnabled' = TRUE /\ threads' = threads \cup {t}
                   /\ UNCHANGED <<funcsEnabled, funcs>>

RejectThread(t) == /\ Configure([op |-> "rejectThread", arg |-> t])
                   /\ threadsEnabled' = TRUE /\ threads' = threads \ {t}
                   /\ UNCHANGED <<funcsEnabled, funcs>>

AcceptFunc(f) == /\ Configure([op |-> "acceptFunc", arg |-> f])
                 /\ funcsEnabled' = TRUE /\ funcs' = funcs \cup {f}
                 /\ UNCHANGED <<threadsEnabled, threads>>

RejectFunc(f) == /\ Configure([op |-> "rejectFunc", arg |-> f])
                 /\ funcsEnabled' = TRUE /\ funcs' = funcs \ {f}
                 /\ UNCHANGED <<threadsEnabled, threads>>

\* Variant of Accept: an event outside all functions passes every filter.
AcceptNoFunc(e) == /\ threadsEnabled => e.threadId \in threads
                   /\ funcsEnabled => e.top \in funcs \cup {NoFunc}

Accept(e) == /\ threadsEnabled => e.threadId \in threads
             /\ funcsEnabled => e.top \in funcs
-----------------------------------------------------------------------------
(* AccessMatrix *)

\* types is threadAccessTypes: the pairs of a thread and a type of its accesses.
Entry(old, e) == [accessed |-> old.accessed + 1,
                  types |-> old.types \cup {<<e.threadId, e.type>>}]

NewEntry == [accessed |-> 0, types |-> {}]

AddMemoryEvent(e) ==
    LET old == IF e.varId \in DOMAIN entries THEN entries[e.varId] ELSE NewEntry
    IN IF e.varId = NoVar THEN UNCHANGED <<entries, seen>>
       ELSE /\ entries' = [v \in DOMAIN entries \cup {e.varId} |->
                             IF v = e.varId THEN Entry(old, e) ELSE entries[v]]
            /\ seen' = seen \cup {e.threadId}

BeginPass == /\ phase = "config"
             /\ phase' = "pass"
             /\ UNCHANGED <<ctxVars, entries, seen, configs, trace>>

\* One round of getAccessMatrix.
Visit(e) == /\ phase = "pass" /\ Len(trace) < MaxEvents
            /\ trace' = Append(trace, e)
            /\ IF Accept(e) /\ e.type \in {"Read", "Write"}
               THEN AddMemoryEvent(e) ELSE UNCHANGED <<entries, seen>>
            /\ UNCHANGED <<ctxVars, phase, configs>>

\* The variables with an entry that share the tag of v, v included.
Repeating(v) == {u \in DOMAIN entries : Tag[u] = Tag[v]}

\* The entry of the smallest id of a tag; entries of unknown lines all stay.
Survives(v) == Tag[v] = NoTag \/ v = Min(Repeating(v))

\* merge(): the others are erased.  They are added up in first, which is a copy
\* of the entry that stays, so the matrix does not change with the sum.
Merge == /\ phase = "pass"
         /\ phase' = "merged"
         /\ entries' = [v \in {u \in DOMAIN entries : Survives(u)} |-> entries[v]]
         /\ UNCHANGED <<ctxVars, seen, configs, trace>>

-----------------------------------------------------------------------------
(* The table that str() prints: the titles of the columns, and one row of  *)
(* cells for each entry.  Widths and the text of a name are left out.      *)

AccessTypeStr(entry, t) ==
    LET isRead == <<t, "Read">> \in entry.types
        isWrite == <<t, "Write">> \in entry.types
    IN CASE isRead /\ isWrite -> "R/W"
         [] isRead /\ ~isWrite -> "R"
         [] ~isRead /\ isWrite -> "W"
         [] ~isRead /\ ~isWrite -> "-"

\* The order of std::set: the i-th thread has i - 1 smaller ones before it.
SeenInOrder == [i \in 1 .. Cardinality(seen) |->
                  CHOOSE t \in seen : Cardinality({u \in seen : u < t}) = i - 1]

Columns == <<"File", "Variable name", "Size", "Accessed">>
           \o [i \in DOMAIN SeenInOrder |-> <<"thread #", SeenInOrder[i]>>]

Row(v) == <<Tag[v], Tag[v], "size", entries[v].accessed>>
          \o [i \in DOMAIN SeenInOrder |-> AccessTypeStr(entries[v], SeenInOrder[i])]
-----------------------------------------------------------------------------
Next == \/ \E t \in Thread : AcceptThread(t) \/ RejectThread(t)
        \/ \E f \in Func : AcceptFunc(f) \/ RejectFunc(f)
        \/ BeginPass
        \/ \E e \in Event : Visit(e)
        \/ Merge

Spec == Init /\ [][Next]_vars
-----------------------------------------------------------------------------
TypeOK == /\ threads \subseteq Thread /\ funcs \subseteq Func
          /\ threadsEnabled \in BOOLEAN /\ funcsEnabled \in BOOLEAN
          /\ DOMAIN entries \subseteq Var
          /\ \A v \in DOMAIN entries :
               entries[v] \in [accessed : Nat \ {0}, types : SUBSET (Thread \X {"Read", "Write"})]
          /\ seen \subseteq Thread
          /\ phase \in {"config", "pass", "merged"}

\* Whether the calls on the QueryContext let an argument pass: none of them was of
\* this kind (thread or function), or the last one about the argument accepts it.
LetsPass(accept, reject, arg) ==
    LET about == {i \in 1 .. Len(configs) : configs[i].op \in {accept, reject}}
        named == {i \in about : configs[i].arg = arg}
    IN about = {} \/ (named # {} /\ configs[Max(named)].op = accept)

\* The accesses a query is about: to a known variable, by a thread and from within
\* a function that the calls on the QueryContext let pass.
Wanted == {i \in 1 .. Len(trace) :
             /\ trace[i].type \in {"Read", "Write"} /\ trace[i].varId # NoVar
             /\ LetsPass("acceptThread", "rejectThread", trace[i].threadId)
             /\ LetsPass("acceptFunc", "rejectFunc", trace[i].top)}

\* After the merge there is one entry for each known tag that was accessed, and an
\* entry for each accessed variable without one.
MergedByTag ==
    phase = "merged" =>
        LET accessed == {trace[i].varId : i \in Wanted}
        IN /\ \A v \in accessed : IF Tag[v] = NoTag THEN v \in DOMAIN entries
                                  ELSE \E u \in DOMAIN entries : Tag[u] = Tag[v]
           /\ \A u, v \in DOMAIN entries : u # v /\ Tag[u] = Tag[v] => Tag[u] = NoTag

\* What the table shows of the thread of column i.
ShownOf(v, i) == Row(v)[i] = LET isType(type) == \E j \in Wanted :
                                     /\ trace[j].varId = v /\ trace[j].type = type
                                     /\ trace[j].threadId = Columns[i][2]
                             IN IF isType("Read") THEN IF isType("Write") THEN "R/W" ELSE "R"
                                ELSE IF isType("Write") THEN "W" ELSE "-"

\* Each entry of the matrix counts the wanted accesses to its variable, whatever
\* the order of the calls on the QueryContext and of the events; before the merge
\* no variable is missing; the table has a column for just the threads with a
\* wanted access, and shows under each whether it read or wrote the variable of
\* the row; the merge leaves one entry for each name and line.
MatrixIsExact ==
    LET of(v) == {i \in Wanted : trace[i].varId = v}
    IN /\ \A v \in DOMAIN entries :
            /\ entries[v].accessed = Cardinality(of(v))
            /\ Len(Row(v)) = Len(Columns)
            /\ \A i \in 5 .. Len(Columns) : ShownOf(v, i)
       /\ phase = "pass" => DOMAIN entries = {trace[i].varId : i \in Wanted}
       /\ {Columns[i][2] : i \in 5 .. Len(Columns)} = {trace[i].threadId : i \in Wanted}
       /\ MergedByTag
=============================================================================
