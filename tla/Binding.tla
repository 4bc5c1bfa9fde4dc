------------------------------ MODULE Binding ------------------------------
(***************************************************************************)
(* The Python binding, from the first call to interpreter exit: _ffi.py    *)
(* finds, opens, declares and caches the library and initialises the Lean  *)
(* runtime on demand; the functions of __init__.py and compat.py that      *)
(* parse and dump, and the methods of types.py, take handles, use them and *)
(* give them up or wrap them; an atexit hook finalises the runtime.        *)
(*                                                                         *)
(* Threads switch between any two steps: every call into C releases the    *)
(* interpreter lock, which may be lost between any two bytecodes.  A call  *)
(* into C is one step, except l4yaml_initialize, of which begin and return *)
(* are two; what it does to reference counts is the subject of Handles.    *)
(* A library object is named by the thread that opened it; those of one    *)
(* file share one native library.                                          *)
(***************************************************************************)
EXTENDS Integers, Sequences, FiniteSets, SequencesExt

CONSTANTS
    Threads,
    Search,       \* the places _find_library tries, in order
    BuildPlace,   \* the one of them cmake writes
    Installed,    \* what may be in the places at first
    MaxItems,     \* bound on documents, elements and pairs
    None          \* no place, no thread, no wrapper

Places == Range(Search)
Files == {"missing", "broken", "old", "current"}

ASSUME NoneAssumption == None \notin Threads
ASSUME ThreadsAssumption == IsFiniteSet(Threads)
ASSUME InstalledAssumption == Installed \subseteq [Places -> Files]
ASSUME ItemsAssumption == MaxItems \in Nat

Kinds == {"result", "documents", "document", "value", "config", "limits"}
Wrapped == {"document", "value"}

VARIABLES
    files,     \* what each place holds
    cached,    \* _LIB
    declared,  \* the library objects whose signatures are set
    flag,      \* _INITIALIZED
    begun,     \* calls of l4yaml_initialize
    ready,     \* those that returned
    hooks,     \* registrations of l4yaml_finalize that have not run
    finals,    \* calls of l4yaml_finalize
    phase,     \* of the interpreter
    at,        \* where each thread is
    goal,      \* what it was called to do: "parse", "dump", "inspect" or "pool"
    lib,       \* the library object it works with
    file,      \* the place it found, then what was there when it opened it
    todo,      \* the calls into C it has left to do
    held,      \* its handles that no wrapper owns, by kind
    operand,   \* the kind of the wrapper it runs a method of or dumps
    wrappers   \* the kinds of which a wrapper is alive

runtime == <<flag, begun, ready, hooks, finals>>
vars == <<files, cached, declared, runtime, phase, at, goal, lib, file,
          todo, held, operand, wrappers>>

----------------------------------------------------------------------------
(* What calls are made of. *)

Op(op, kind, from) == [op |-> op, kind |-> kind, from |-> from]

\* A call into C that returns a handle, made from another handle or from text.
Take(kind, from) == Op("take", kind, from)
Use(kind) == Op("use", kind, kind)
Free(kind) == Op("free", kind, kind)
\* YamlValue(handle, lib) or YamlDocument(handle, lib)
Wrap(kind) == Op("wrap", kind, kind)
\* The handle becomes the application's.
Return(kind) == Op("return", kind, kind)

Repeat(n, program) ==
    [i \in 1 .. n * Len(program) |-> program[1 + ((i - 1) % Len(program))]]

\* Mutant: the exception leaves before the result is given up.
CheckFailedLeaks == <<Use("result")>>

\* The test, the message, the handle; then LimitError or ParseError.
CheckFailed == <<Use("result"), Free("result")>>

\* A preset that does not exist is found out after the library is ready.
BadPreset == <<>>

ParseFails == <<Take("result", "text")>> \o CheckFailed

Load ==
    <<Take("result", "text"), Use("result"), Take("value", "result"),
      Free("result"), Wrap("value")>>

LoadAll(n) ==
    <<Take("result", "text"), Use("result"), Take("documents", "result"),
      Use("documents")>>
    \o Repeat(n, <<Take("document", "documents"), Wrap("document")>>)
    \o <<Free("documents"), Free("result")>>

\* Mutant: the error path gives the array up twice, and not the result.
LoadConfiguredTwice(n) ==
    <<Take("result", "text"), Use("result"), Take("documents", "result"),
      Use("documents")>>
    \o IF n = 0 THEN <<Free("documents"), Free("documents")>>
       ELSE <<Take("document", "documents"), Take("value", "document"),
              Free("document"), Free("documents"), Free("result"), Wrap("value")>>

\* With limits given as text, the calls are the same.
LoadAllConfigured(n) == LoadAll(n)

\* The first of at least one document; no document is an error.
LoadConfigured(n) ==
    <<Take("result", "text"), Use("result"), Take("documents", "result"),
      Use("documents")>>
    \o IF n = 0 THEN <<Free("documents"), Free("result")>>
       ELSE <<Take("document", "documents"), Take("value", "document"),
              Free("document"), Free("documents"), Free("result"), Wrap("value")>>

DumpValue == <<Use("operand")>>

ParseLimits ==
    <<Take("config", "text"), Use("config"), Take("limits", "config"),
      Free("config"), Return("limits")>>

ParseLimitsFails ==
    <<Take("config", "text"), Use("config"), Free("config")>>

\* kind, style, as_str, tag, anchor, __len__, __repr__; a key that is not
\* there; every method that raises because the value is of another kind.
Inspect == <<Use("operand")>>

Child == <<Take("value", "operand"), Wrap("value")>>

\* as_list, iteration over a sequence, and __getitem__ of what is there
Elements(n) == Inspect \o Repeat(n, Child)

\* as_dict, items and raw_items
Pairs(n) == Inspect \o Repeat(n, Child \o Child)

\* keys, of which the wrappers die as the loop goes on
Keys(n) == Elements(n)

\* __contains__ of a key that is there
ContainsKey == <<Use("operand"), Take("value", "operand"), Free("value")>>

Root == Child

Parsing ==
    {BadPreset, ParseFails, Load, ParseLimits, ParseLimitsFails}
        \cup {LoadAll(n) : n \in 0..MaxItems}
        \cup {LoadAllConfigured(n) : n \in 0..MaxItems}
        \cup {LoadConfigured(n) : n \in 0..MaxItems}

Programs(g) ==
    CASE g = "parse" -> Parsing
      [] g = "dump" -> {DumpValue}
      [] g = "pool" -> {<<Use("pool")>>}

MethodsOf(kind) ==
    IF kind = "document" THEN {Root}
    ELSE {Inspect, ContainsKey}
            \cup {Elements(n) : n \in 0..MaxItems}
            \cup {Pairs(n) : n \in 0..MaxItems}
            \cup {Keys(n) : n \in 0..MaxItems}

----------------------------------------------------------------------------
(* The library. *)

Goto(t, place) == at' = [at EXCEPT ![t] = place]

\* The function returns, or an exception leaves it.
Leave(t) ==
    /\ Goto(t, "idle")
    /\ todo' = [todo EXCEPT ![t] = <<>>]
    /\ operand' = [operand EXCEPT ![t] = None]
    /\ goal' = [goal EXCEPT ![t] = None]
    /\ lib' = [lib EXCEPT ![t] = None]
    /\ file' = [file EXCEPT ![t] = None]

\* The first place that holds a file, whatever the file is worth.
FoundAt ==
    LET there == SelectSeq(Search, LAMBDA p : files[p] # "missing")
    IN  IF there = <<>> THEN None ELSE there[1]

Found == IF FoundAt = None THEN "missing" ELSE files[FoundAt]

\* A pool is made without initialising the runtime.
Loaded(t, l) ==
    /\ lib' = [lib EXCEPT ![t] = l]
    /\ Goto(t, IF goal[t] = "pool" THEN "ready" ELSE "test")

LoadCached(t) ==
    /\ at[t] = "load" /\ cached # None
    /\ Loaded(t, cached)
    /\ UNCHANGED <<files, cached, declared, runtime, phase, goal, file, todo,
                   held, operand, wrappers>>

FindLibrary(t) ==
    /\ at[t] = "load" /\ cached = None
    /\ file' = [file EXCEPT ![t] = FoundAt]
    /\ Goto(t, "open")
    /\ UNCHANGED <<files, cached, declared, runtime, phase, goal, lib, todo,
                   held, operand, wrappers>>

\* OSError: there was none, or it cannot be opened.
OpenFails(t) ==
    /\ at[t] = "open" /\ (file[t] # None => files[file[t]] = "broken")
    /\ Leave(t)
    /\ UNCHANGED <<files, cached, declared, runtime, phase, held, wrappers>>

\* Mutant: the library is cached before its signatures are set.
OpenPublishes(t) ==
    /\ at[t] = "open" /\ file[t] # None /\ files[file[t]] # "broken"
    /\ file' = [file EXCEPT ![t] = files[file[t]]]
    /\ lib' = [lib EXCEPT ![t] = t]
    /\ cached' = t
    /\ declared' = declared \ {t}
    /\ Goto(t, "declare")
    /\ UNCHANGED <<files, runtime, phase, goal, todo, held, operand, wrappers>>

Open(t) ==
    /\ at[t] = "open" /\ file[t] # None /\ files[file[t]] # "broken"
    /\ file' = [file EXCEPT ![t] = files[file[t]]]
    /\ lib' = [lib EXCEPT ![t] = t]
    /\ declared' = declared \ {t}
    /\ Goto(t, "declare")
    /\ UNCHANGED <<files, cached, runtime, phase, goal, todo, held, operand, wrappers>>

Declare(t) ==
    /\ at[t] = "declare" /\ file[t] = "current"
    /\ declared' = declared \cup {lib[t]}
    /\ Goto(t, "publish")
    /\ UNCHANGED <<files, cached, runtime, phase, goal, lib, file, todo, held,
                   operand, wrappers>>

\* A library that predates the scalar styles: OSError, before it is cached.
DeclareFails(t) ==
    /\ at[t] = "declare" /\ file[t] = "old"
    /\ Leave(t)
    /\ UNCHANGED <<files, cached, declared, runtime, phase, held, wrappers>>

Publish(t) ==
    /\ at[t] = "publish"
    /\ cached' = lib[t]
    /\ Loaded(t, lib[t])
    /\ file' = [file EXCEPT ![t] = None]
    /\ UNCHANGED <<files, declared, runtime, phase, goal, todo, held, operand,
                   wrappers>>

----------------------------------------------------------------------------
(* ensure_initialized. *)

\* Mutant: the hook is registered outside the `if`.
TestFlagRegisters(t) ==
    /\ at[t] = "test"
    /\ Goto(t, IF flag THEN "register" ELSE "initialize")
    /\ UNCHANGED <<files, cached, declared, runtime, phase, goal, lib, file, todo,
                   held, operand, wrappers>>

\* Mutant: the flag is kept on the library object.
TestFlagOfObject(t) ==
    /\ at[t] = "test"
    /\ Goto(t, IF flag /\ lib[t] = cached THEN "ready" ELSE "initialize")
    /\ UNCHANGED <<files, cached, declared, runtime, phase, goal, lib, file, todo,
                   held, operand, wrappers>>

TestFlag(t) ==
    /\ at[t] = "test"
    /\ Goto(t, IF flag THEN "ready" ELSE "initialize")
    /\ UNCHANGED <<files, cached, declared, runtime, phase, goal, lib, file, todo,
                   held, operand, wrappers>>

\* Mutant: the flag is set before the call.
InitializeFlagged(t) ==
    /\ at[t] = "initialize"
    /\ begun' = begun + 1
    /\ flag' = TRUE
    /\ Goto(t, "initializing")
    /\ UNCHANGED <<files, cached, declared, ready, hooks, finals, phase, goal,
                   lib, file, todo, held, operand, wrappers>>

Initialize(t) ==
    /\ at[t] = "initialize"
    /\ begun' = begun + 1
    /\ Goto(t, "initializing")
    /\ UNCHANGED <<files, cached, declared, flag, ready, hooks, finals, phase, goal,
                   lib, file, todo, held, operand, wrappers>>

Initialized(t) ==
    /\ at[t] = "initializing"
    /\ ready' = ready + 1
    /\ Goto(t, "register")
    /\ UNCHANGED <<files, cached, declared, flag, begun, hooks, finals, phase, goal,
                   lib, file, todo, held, operand, wrappers>>

Register(t) ==
    /\ at[t] = "register"
    /\ hooks' = hooks + 1
    /\ Goto(t, "set")
    /\ UNCHANGED <<files, cached, declared, flag, begun, ready, finals, phase, goal,
                   lib, file, todo, held, operand, wrappers>>

\* Mutant: without `global` the assignment makes a local variable.
SetFlagLocally(t) ==
    /\ at[t] = "set"
    /\ Goto(t, "ready")
    /\ UNCHANGED <<files, cached, declared, runtime, phase, goal, lib, file, todo,
                   held, operand, wrappers>>

SetFlag(t) ==
    /\ at[t] = "set"
    /\ flag' = TRUE
    /\ Goto(t, "ready")
    /\ UNCHANGED <<files, cached, declared, begun, ready, hooks, finals, phase, goal,
                   lib, file, todo, held, operand, wrappers>>

----------------------------------------------------------------------------
(* Calls. *)

\* A function that begins with ensure_initialized or _load_lib.
Begin(t, g, w) ==
    /\ phase = "running" /\ at[t] = "idle"
    /\ Goto(t, "load")
    /\ goal' = [goal EXCEPT ![t] = g]
    /\ operand' = [operand EXCEPT ![t] = w]
    /\ UNCHANGED <<files, cached, declared, runtime, phase, lib, file, todo, held,
                   wrappers>>

Parse(t) == Begin(t, "parse", None)

\* dump and dump_configured
Dump(t) == "value" \in wrappers /\ Begin(t, "dump", "value")

\* RuntimeError if it fails, which changes nothing.
InitPool(t) == Begin(t, "pool", None)

\* What the arguments and the text decide, once the library is ready.
Go(t) ==
    /\ at[t] = "ready"
    /\ \E program \in Programs(goal[t]) : todo' = [todo EXCEPT ![t] = program]
    /\ Goto(t, "call")
    /\ UNCHANGED <<files, cached, declared, runtime, phase, goal, lib, file, held,
                   operand, wrappers>>

\* A method calls into C at once, through the library object that made the
\* wrapper.
Method(t, w, program) ==
    /\ phase = "running" /\ at[t] = "idle"
    /\ Goto(t, "call")
    /\ goal' = [goal EXCEPT ![t] = "inspect"]
    /\ todo' = [todo EXCEPT ![t] = program]
    /\ operand' = [operand EXCEPT ![t] = w]
    /\ UNCHANGED <<files, cached, declared, runtime, phase, lib, file, held,
                   wrappers>>

Methods(t) ==
    \E w \in wrappers : \E program \in MethodsOf(w) : Method(t, w, program)

Now(t) == Head(todo[t])

Calling(t, op) == at[t] = "call" /\ todo[t] # <<>> /\ Now(t).op = op

Done(t) == todo' = [todo EXCEPT ![t] = Tail(@)]

CallTakes(t) ==
    /\ Calling(t, "take") /\ Done(t)
    /\ held' = [held EXCEPT ![t][Now(t).kind] = @ + 1]
    /\ UNCHANGED <<files, cached, declared, runtime, phase, at, goal, lib, file,
                   operand, wrappers>>

CallUses(t) ==
    /\ Calling(t, "use") /\ Done(t)
    /\ UNCHANGED <<files, cached, declared, runtime, phase, at, goal, lib, file,
                   held, operand, wrappers>>

\* l4yaml_free; a handle handed to the application is never freed.
CallGivesUp(t) ==
    /\ Calling(t, "free") \/ Calling(t, "return")
    /\ Done(t)
    /\ held' = [held EXCEPT ![t][Now(t).kind] = @ - 1]
    /\ UNCHANGED <<files, cached, declared, runtime, phase, at, goal, lib, file,
                   operand, wrappers>>

CallWraps(t) ==
    LET kind == Now(t).kind
    IN  /\ Calling(t, "wrap") /\ Done(t)
        /\ held' = [held EXCEPT ![t][kind] = @ - 1]
        /\ wrappers' = wrappers \cup {kind}
        /\ UNCHANGED <<files, cached, declared, runtime, phase, at, goal, lib, file,
                       operand>>

CallReturns(t) ==
    /\ at[t] = "call" /\ todo[t] = <<>>
    /\ Leave(t)
    /\ UNCHANGED <<files, cached, declared, runtime, phase, held, wrappers>>

----------------------------------------------------------------------------
(* Collection, the builder, exit. *)

\* __del__ of the last wrapper of a kind; no frame runs a method of it.
Drop(w) ==
    /\ \A t \in Threads : operand[t] # w
    /\ wrappers' = wrappers \ {w}

Collect ==
    /\ phase = "running"
    /\ \E w \in wrappers : Drop(w)
    /\ UNCHANGED <<files, cached, declared, runtime, phase, at, goal, lib, file,
                   todo, held, operand>>

\* cmake writes the library, when the one that would be found is no good.
Build ==
    /\ phase = "running" /\ cached = None
    /\ Found # "current" /\ files[BuildPlace] # "current"
    /\ \E f \in {"broken", "current"} \ {files[BuildPlace]} :
        files' = [files EXCEPT ![BuildPlace] = f]
    /\ UNCHANGED <<cached, declared, runtime, phase, at, goal, lib, file, todo, held,
                   operand, wrappers>>

\* The interpreter joins its threads before it runs the hooks.
Exit ==
    /\ phase = "running" /\ \A t \in Threads : at[t] = "idle"
    /\ phase' = "hooks"
    /\ UNCHANGED <<files, cached, declared, runtime, at, goal, lib, file, todo, held,
                   operand, wrappers>>

RunHook ==
    /\ phase = "hooks" /\ hooks > 0
    /\ hooks' = hooks - 1 /\ finals' = finals + 1
    /\ UNCHANGED <<files, cached, declared, flag, begun, ready, phase, at, goal, lib,
                   file, todo, held, operand, wrappers>>

\* The wrappers still alive are freed after the hooks.
TearDown ==
    /\ phase = "hooks" /\ hooks = 0
    /\ \/ /\ \E w \in wrappers : Drop(w)
          /\ UNCHANGED phase
       \/ /\ wrappers = {}
          /\ phase' = "gone"
          /\ UNCHANGED wrappers
    /\ UNCHANGED <<files, cached, declared, runtime, at, goal, lib, file, todo, held,
                   operand>>

----------------------------------------------------------------------------

Init ==
    /\ files \in Installed
    /\ cached = None /\ declared = {} /\ flag = FALSE
    /\ begun = 0 /\ ready = 0 /\ hooks = 0 /\ finals = 0
    /\ phase = "running"
    /\ at = [t \in Threads |-> "idle"]
    /\ goal = [t \in Threads |-> None]
    /\ lib = [t \in Threads |-> None]
    /\ file = [t \in Threads |-> None]
    /\ todo = [t \in Threads |-> <<>>]
    /\ held = [t \in Threads |-> [k \in Kinds |-> 0]]
    /\ operand = [t \in Threads |-> None]
    /\ wrappers = {}

\* What a thread that is in a call does next.
Step(t) ==
    /\ at[t] # "idle"
    /\ \/ LoadCached(t) \/ FindLibrary(t) \/ OpenFails(t) \/ Open(t)
       \/ Declare(t) \/ DeclareFails(t) \/ Publish(t)
       \/ TestFlag(t) \/ Initialize(t) \/ Initialized(t) \/ Register(t) \/ SetFlag(t)
       \/ Go(t) \/ CallTakes(t) \/ CallUses(t) \/ CallGivesUp(t) \/ CallWraps(t)
       \/ CallReturns(t)

Next ==
    \/ \E t \in Threads : Parse(t) \/ Dump(t) \/ InitPool(t) \/ Methods(t) \/ Step(t)
    \/ Collect \/ Build \/ Exit \/ RunHook \/ TearDown

\* Threads are scheduled, and l4yaml_initialize and the exported functions
\* return (they are total); nobody has to call, build or exit.
Fairness == \A t \in Threads : WF_vars(Step(t))

Spec == Init /\ [][Next]_vars /\ Fairness

----------------------------------------------------------------------------
(* Properties. *)

TypeOK ==
    /\ files \in [Places -> Files]
    /\ cached \in Threads \cup {None}
    /\ declared \subseteq Threads
    /\ flag \in BOOLEAN
    /\ {begun, ready, hooks, finals} \subseteq 0..Cardinality(Threads)
    /\ \A t \in Threads : held[t] \in [Kinds -> 0..1]
    /\ \A t \in Threads : lib[t] \in Threads \cup {None}
    /\ wrappers \subseteq Wrapped

\* No thread calls into a library object whose signatures are not set, though
\* a library may be found that is too old to set them all, be rebuilt, and be
\* opened and cached by several threads at once: without its restype a handle
\* would be cut to 32 bits (_load_lib).
DeclaredWhenUsed ==
    \A t \in Threads :
        (at[t] \notin {"idle", "load", "open", "declare"} /\ goal[t] # "inspect")
            => lib[t] \in declared

\* No thread parses, inspects or dumps before an l4yaml_initialize returned,
\* whichever thread began it; only a pool may be made earlier
\* (ensure_initialized).
ReadyWhenUsed ==
    \A t \in Threads : (at[t] = "call" /\ goal[t] # "pool") => ready > 0

\* On every path of every function, errors included, a handle is held whenever
\* it is passed to C and none is held once the function has returned
\* (__init__.py, compat.py, types.py).
HandlesGivenUp ==
    \A t \in Threads :
        /\ at[t] # "call" => \A k \in Kinds : held[t][k] = 0
        /\ (at[t] = "call" /\ todo[t] # <<>> /\ Now(t).from \in Kinds)
              => held[t][Now(t).from] > 0

\* When the interpreter is gone the runtime was finalised once for each time it
\* was initialised, if threads raced through ensure_initialized too.
Balanced == phase = "gone" => finals = begun

\* A thread that decides to initialise the runtime overlaps with the one that
\* does: no function is past ensure_initialized and no handle is alive, and only
\* such a thread initialises it again (ensure_initialized).
InitialisesAtFirst ==
    [][\A t \in Threads : (at[t] = "test" /\ at'[t] = "initialize") =>
        /\ \A u \in Threads : at[u] \in {"ready", "call"} => goal[u] = "pool"
        /\ wrappers = {}]_vars

\* Once the first library in the search order is a current one, whatever
\* earlier or concurrent calls found there, a function that is called returns
\* and leaves the runtime initialised.
Recovers ==
    \A t \in Threads :
        (at[t] = "load" /\ goal[t] # "pool" /\ Found = "current")
            ~> (at[t] = "idle" /\ flag)

=============================================================================
