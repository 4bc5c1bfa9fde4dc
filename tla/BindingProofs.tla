--------------------------- MODULE BindingProofs ---------------------------
(***************************************************************************)
(* For any number of threads and any search order: nothing is used before  *)
(* l4yaml_initialize has returned (ReadyWhenUsed), no library object       *)
(* without its signatures is called (DeclaredWhenUsed), and the runtime is *)
(* initialised again only by a thread that overlaps with the first         *)
(* (InitialisesAtFirst).  Every function gives up the handles it took and  *)
(* calls nothing with a handle it no longer has (HandlesGivenUp), the      *)
(* runtime is finalised as often as it was initialised (Balanced), and     *)
(* the model's variables keep their types and bounds (TypeOK).             *)
(***************************************************************************)
EXTENDS Binding, FiniteSetTheorems, TLAPS

Control == {"idle", "load", "open", "declare", "publish", "test", "initialize",
            "initializing", "register", "set", "ready", "call"}

\* What is common to the two invariants: where threads are, and what for.
Typed ==
    /\ at \in [Threads -> Control]
    /\ DOMAIN goal = Threads
    /\ DOMAIN lib = Threads
    /\ DOMAIN todo = Threads

\* The flag says that the runtime is ready; whoever is past ensure_initialized,
\* and every wrapper, got there through the flag.
RuntimeInv ==
    /\ Typed
    /\ ready \in Nat
    /\ flag => ready > 0
    /\ wrappers # {} => flag
    /\ \A t \in Threads :
        /\ at[t] \in {"register", "set"} => ready > 0
        /\ (at[t] \in {"ready", "call"} /\ goal[t] # "pool") => flag
        /\ (at[t] = "call" /\ goal[t] = "pool") => todo[t] \in {<<>>, <<Use("pool")>>}

\* A thread that still works on its library object has published no object:
\* nobody else calls through the one it opens.
LibraryInv ==
    /\ Typed
    /\ cached \in Threads \cup {None}
    /\ cached # None => cached \in declared
    /\ \A t \in Threads :
        /\ lib[t] \in Threads \cup {None}
        /\ at[t] \in {"declare", "publish"} => lib[t] = t
        /\ at[t] \notin {"idle", "call"} => goal[t] # "inspect"
        /\ (at[t] \notin {"idle", "load", "open", "declare"} /\ goal[t] # "inspect")
              => lib[t] \in declared
        /\ (cached = t \/ \E u \in Threads \ {t} : lib[u] = t)
              => cached # None /\ at[t] \notin {"open", "declare", "publish"}

----------------------------------------------------------------------------

LEMMA PoolProgram == Programs("pool") = {<<Use("pool")>>}
BY DEF Programs

LEMMA RuntimeInit == Init => RuntimeInv
BY DEF Init, RuntimeInv, Typed, Control

\* One lemma for the steps that look for, open and declare the library, one for
\* those of ensure_initialized, one for the calls, one for the rest.
LEMMA RuntimeLibrary ==
    ASSUME RuntimeInv, NEW t \in Threads,
           LoadCached(t) \/ FindLibrary(t) \/ OpenFails(t) \/ Open(t)
               \/ Declare(t) \/ DeclareFails(t) \/ Publish(t)
    PROVE  RuntimeInv'
<1>1. CASE LoadCached(t)
  BY <1>1 DEF RuntimeInv, Typed, Control, LoadCached, Loaded, Goto, runtime
<1>2. CASE FindLibrary(t)
  BY <1>2 DEF RuntimeInv, Typed, Control, FindLibrary, Goto, runtime
<1>3. CASE OpenFails(t)
  BY <1>3 DEF RuntimeInv, Typed, Control, OpenFails, Leave, Goto, runtime
<1>4. CASE Open(t)
  BY <1>4 DEF RuntimeInv, Typed, Control, Open, Goto, runtime
<1>5. CASE Declare(t)
  BY <1>5 DEF RuntimeInv, Typed, Control, Declare, Goto, runtime
<1>6. CASE DeclareFails(t)
  BY <1>6 DEF RuntimeInv, Typed, Control, DeclareFails, Leave, Goto, runtime
<1>7. CASE Publish(t)
  BY <1>7 DEF RuntimeInv, Typed, Control, Publish, Loaded, Goto, runtime
<1> QED BY <1>1, <1>2, <1>3, <1>4, <1>5, <1>6, <1>7

LEMMA RuntimeEnsure ==
    ASSUME RuntimeInv, NEW t \in Threads,
           TestFlag(t) \/ Initialize(t) \/ Initialized(t) \/ Register(t) \/ SetFlag(t)
    PROVE  RuntimeInv'
<1>1. CASE TestFlag(t)
  BY <1>1 DEF RuntimeInv, Typed, Control, TestFlag, Goto, runtime
<1>2. CASE Initialize(t)
  BY <1>2 DEF RuntimeInv, Typed, Control, Initialize, Goto
<1>3. CASE Initialized(t)
  BY <1>3 DEF RuntimeInv, Typed, Control, Initialized, Goto
<1>4. CASE Register(t)
  BY <1>4 DEF RuntimeInv, Typed, Control, Register, Goto
<1>5. CASE SetFlag(t)
  BY <1>5 DEF RuntimeInv, Typed, Control, SetFlag, Goto
<1> QED BY <1>1, <1>2, <1>3, <1>4, <1>5

LEMMA RuntimeCalls ==
    ASSUME RuntimeInv, NEW t \in Threads,
           Go(t) \/ CallTakes(t) \/ CallUses(t) \/ CallGivesUp(t) \/ CallWraps(t)
               \/ CallReturns(t)
    PROVE  RuntimeInv'
<1>a. ASSUME at[t] = "call", Done(t), UNCHANGED <<runtime, at, goal, lib>>,
             wrappers' # {} => wrappers # {} \/ flag
      PROVE  RuntimeInv'
  <2>1. goal[t] = "pool" => todo'[t] \in {<<>>, <<Use("pool")>>}
    <3> SUFFICES ASSUME goal[t] = "pool" PROVE todo'[t] \in {<<>>, <<Use("pool")>>}
      OBVIOUS
    <3>1. todo[t] \in {<<>>, <<Use("pool")>>}
      BY <1>a DEF RuntimeInv
    <3>2. todo'[t] = Tail(todo[t])
      BY <1>a DEF RuntimeInv, Typed, Done
    <3>3. Tail(<<>>) = <<>> /\ Tail(<<Use("pool")>>) = <<>>
      OBVIOUS
    <3> QED BY <3>1, <3>2, <3>3
  <2>2. DOMAIN todo' = Threads /\ \A u \in Threads \ {t} : todo'[u] = todo[u]
    BY <1>a DEF RuntimeInv, Typed, Done
  <2> QED BY <1>a, <2>1, <2>2 DEF RuntimeInv, Typed, runtime
<1>1. CASE Go(t)
  BY <1>1, PoolProgram DEF RuntimeInv, Typed, Control, Go, Goto, runtime
<1>2. CASE CallTakes(t)
  BY <1>2, <1>a DEF CallTakes, Calling
<1>3. CASE CallUses(t)
  BY <1>3, <1>a DEF CallUses, Calling
<1>4. CASE CallGivesUp(t)
  BY <1>4, <1>a DEF CallGivesUp, Calling
<1>5. CASE CallWraps(t)
  <2>1. goal[t] # "pool"
    BY <1>5 DEF CallWraps, Calling, Now, Use, Op, RuntimeInv
  <2>2. flag
    BY <1>5, <2>1 DEF CallWraps, Calling, RuntimeInv
  <2> QED BY <1>5, <2>2, <1>a DEF CallWraps, Calling
<1>6. CASE CallReturns(t)
  BY <1>6 DEF RuntimeInv, Typed, Control, CallReturns, Leave, Goto, runtime
<1> QED BY <1>1, <1>2, <1>3, <1>4, <1>5, <1>6

LEMMA RuntimeNext == RuntimeInv /\ [Next]_vars => RuntimeInv'
<1> SUFFICES ASSUME RuntimeInv, [Next]_vars PROVE RuntimeInv'
  OBVIOUS
<1>1. ASSUME NEW t \in Threads, Step(t) PROVE RuntimeInv'
  BY <1>1, RuntimeLibrary, RuntimeEnsure, RuntimeCalls DEF Step
<1>2. ASSUME NEW t \in Threads, NEW g, NEW w, Begin(t, g, w) PROVE RuntimeInv'
  BY <1>2 DEF RuntimeInv, Typed, Control, Begin, Goto, runtime
<1>3. ASSUME NEW t \in Threads, Methods(t) PROVE RuntimeInv'
  <2>1. PICK w \in wrappers : \E program \in MethodsOf(w) : Method(t, w, program)
    BY <1>3 DEF Methods
  <2>2. PICK program : Method(t, w, program)
    BY <2>1
  <2>3. flag
    BY <2>1 DEF RuntimeInv
  <2> QED BY <2>2, <2>3 DEF RuntimeInv, Typed, Control, Method, Goto, runtime
<1>4. CASE Collect
  BY <1>4 DEF RuntimeInv, Typed, Collect, Drop, runtime
<1>5. CASE Build
  BY <1>5 DEF RuntimeInv, Typed, Build, runtime
<1>6. CASE Exit
  BY <1>6 DEF RuntimeInv, Typed, Exit, runtime
<1>7. CASE RunHook
  BY <1>7 DEF RuntimeInv, Typed, RunHook
<1>8. CASE TearDown
  BY <1>8 DEF RuntimeInv, Typed, TearDown, Drop, runtime
<1>9. CASE UNCHANGED vars
  BY <1>9 DEF RuntimeInv, Typed, vars, runtime
<1> QED
  BY <1>1, <1>2, <1>3, <1>4, <1>5, <1>6, <1>7, <1>8, <1>9
  DEF Next, Parse, Dump, InitPool

\* Whatever threads do, no function parses, dumps or inspects before an
\* l4yaml_initialize has returned (ensure_initialized).
THEOREM RuntimeReady == Spec => []ReadyWhenUsed
<1>1. RuntimeInv => ReadyWhenUsed
  BY DEF RuntimeInv, ReadyWhenUsed
<1> QED BY RuntimeInit, RuntimeNext, <1>1, PTL DEF Spec

----------------------------------------------------------------------------

LEMMA LibraryInit == Init => LibraryInv
BY NoneAssumption DEF Init, LibraryInv, Typed, Control

LEMMA LibraryStep ==
    ASSUME LibraryInv, NEW t \in Threads, Step(t)
    PROVE  LibraryInv'
<1> USE NoneAssumption
<1>a. ASSUME UNCHANGED <<cached, declared, goal, lib>>, at' = at \/
                (/\ at[t] \notin {"idle", "load", "open", "declare", "call"}
                 /\ \E p \in Control \ {"open", "declare", "publish"} : Goto(t, p)),
             DOMAIN todo' = Threads
      PROVE  LibraryInv'
  BY <1>a DEF LibraryInv, Typed, Control, Goto
<1>b. ASSUME UNCHANGED <<cached, declared>>, Leave(t)
      PROVE  LibraryInv'
  BY <1>b DEF LibraryInv, Typed, Control, Leave, Goto
<1>1. CASE LoadCached(t)
  BY <1>1 DEF LibraryInv, Typed, Control, LoadCached, Loaded, Goto
<1>2. CASE FindLibrary(t)
  BY <1>2 DEF LibraryInv, Typed, Control, FindLibrary, Goto
<1>3. CASE OpenFails(t)
  BY <1>3, <1>b DEF OpenFails
<1>4. CASE Open(t)
  BY <1>4 DEF LibraryInv, Typed, Control, Open, Goto
<1>5. CASE Declare(t)
  BY <1>5 DEF LibraryInv, Typed, Control, Declare, Goto
<1>6. CASE DeclareFails(t)
  BY <1>6, <1>b DEF DeclareFails
<1>7. CASE Publish(t)
  <2>1. lib[t] = t /\ t # None /\ t \in declared
    BY <1>7 DEF LibraryInv, Publish, Typed, Control
  <2>2. /\ UNCHANGED <<declared, goal, todo>> /\ cached' = t
        /\ DOMAIN lib' = Threads /\ \A u \in Threads : lib'[u] = lib[u]
    BY <1>7, <2>1 DEF LibraryInv, Typed, Publish, Loaded
  <2>3. /\ at[t] = "publish" /\ at'[t] \in {"ready", "test"}
        /\ at' \in [Threads -> Control]
        /\ \A u \in Threads \ {t} : at'[u] = at[u]
    BY <1>7 DEF LibraryInv, Typed, Control, Publish, Loaded, Goto
  <2> QED BY <2>1, <2>2, <2>3 DEF LibraryInv, Typed
<1>8. CASE TestFlag(t) \/ Initialize(t) \/ Initialized(t) \/ Register(t) \/ SetFlag(t)
  <2>1. \E p \in Control \ {"open", "declare", "publish"} : Goto(t, p)
    BY <1>8 DEF TestFlag, Initialize, Initialized, Register, SetFlag, Control
  <2> QED
    BY <1>8, <2>1, <1>a
    DEF LibraryInv, Typed, TestFlag, Initialize, Initialized, Register, SetFlag
<1>9. CASE Go(t)
  BY <1>9, <1>a DEF LibraryInv, Typed, Go, Control
<1>10. CASE CallTakes(t) \/ CallUses(t) \/ CallGivesUp(t) \/ CallWraps(t)
  BY <1>10, <1>a
  DEF LibraryInv, Typed, CallTakes, CallUses, CallGivesUp, CallWraps, Calling, Done
<1>11. CASE CallReturns(t)
  BY <1>11, <1>b DEF CallReturns
<1> QED
  BY <1>1, <1>2, <1>3, <1>4, <1>5, <1>6, <1>7, <1>8, <1>9, <1>10, <1>11 DEF Step

LEMMA LibraryNext == LibraryInv /\ [Next]_vars => LibraryInv'
<1> SUFFICES ASSUME LibraryInv, [Next]_vars PROVE LibraryInv'
  OBVIOUS
<1>1. ASSUME NEW t \in Threads, Step(t) PROVE LibraryInv'
  BY <1>1, LibraryStep
<1>2. ASSUME NEW t \in Threads, NEW g \in {"parse", "dump", "pool"}, NEW w, Begin(t, g, w)
      PROVE  LibraryInv'
  BY <1>2 DEF LibraryInv, Typed, Control, Begin, Goto
<1>3. ASSUME NEW t \in Threads, Methods(t) PROVE LibraryInv'
  BY <1>3 DEF LibraryInv, Typed, Control, Methods, Method, Goto
<1>4. CASE Collect \/ Build \/ Exit \/ RunHook \/ TearDown \/ UNCHANGED vars
  BY <1>4 DEF LibraryInv, Typed, Collect, Build, Exit, RunHook, TearDown, vars
<1> QED
  BY <1>1, <1>2, <1>3, <1>4 DEF Next, Parse, Dump, InitPool

\* Whatever is found, rebuilt and opened meanwhile, no thread calls through a
\* library object whose signatures are not set (_load_lib).
THEOREM LibraryDeclared == Spec => []DeclaredWhenUsed
<1>1. LibraryInv => DeclaredWhenUsed
  BY DEF LibraryInv, DeclaredWhenUsed
<1> QED BY LibraryInit, LibraryNext, <1>1, PTL DEF Spec

----------------------------------------------------------------------------

\* Only TestFlag leads from the test to the initialisation.
LEMMA ToInitialize ==
    ASSUME RuntimeInv, [Next]_vars, NEW t \in Threads,
           at[t] = "test", at'[t] = "initialize"
    PROVE  ~flag
<1>1. ASSUME NEW u \in Threads, Step(u) PROVE ~flag
  <2>1. CASE TestFlag(u)
    BY <1>1, <2>1 DEF RuntimeInv, Typed, TestFlag, Goto
  <2>2. ASSUME NEW p, p # "initialize", Goto(u, p) PROVE FALSE
    BY <2>2 DEF RuntimeInv, Typed, Goto
  <2>3. ASSUME UNCHANGED at PROVE FALSE
    BY <2>3
  <2> QED
    BY <1>1, <2>1, <2>2, <2>3
    DEF Step, LoadCached, Loaded, FindLibrary, OpenFails, Leave, Open, Declare,
        DeclareFails, Publish, Initialize, Initialized, Register, SetFlag, Go,
        CallTakes, CallUses, CallGivesUp, CallWraps, CallReturns
<1>2. ASSUME NEW u \in Threads, NEW g, NEW w, Begin(u, g, w) PROVE FALSE
  BY <1>2 DEF RuntimeInv, Typed, Begin, Goto
<1>3. ASSUME NEW u \in Threads, Methods(u) PROVE FALSE
  BY <1>3 DEF RuntimeInv, Typed, Methods, Method, Goto
<1>4. CASE Collect \/ Build \/ Exit \/ RunHook \/ TearDown \/ UNCHANGED vars
  BY <1>4 DEF Collect, Build, Exit, RunHook, TearDown, vars
<1> QED
  BY <1>1, <1>2, <1>3, <1>4 DEF Next, Parse, Dump, InitPool

\* The runtime is initialised a second time only by a thread that tested the
\* flag before anything was parsed (ensure_initialized).
THEOREM InitialisedAtFirst == Spec => InitialisesAtFirst
<1>1. RuntimeInv /\ [Next]_vars =>
        [\A t \in Threads : (at[t] = "test" /\ at'[t] = "initialize") =>
            /\ \A u \in Threads : at[u] \in {"ready", "call"} => goal[u] = "pool"
            /\ wrappers = {}]_vars
  BY ToInitialize DEF RuntimeInv
<1> QED
  BY RuntimeInit, RuntimeNext, <1>1, PTL DEF Spec, InitialisesAtFirst

-----------------------------------------------------------------------------
(* Handles, finalisation and types.                                        *)

\* What a thread holds: no function has two handles of a kind at a time.
Having(S) == [k \in Kinds |-> IF k \in S THEN 1 ELSE 0]

\* A call leads from holding the kinds S to holding the kinds T.
Does(op, S, T) ==
    /\ op.from \in Kinds => op.from \in S
    /\ \/ /\ op.op = "take"
          /\ op.kind \in Kinds \ S /\ T = S \cup {op.kind}
       \/ /\ op.op = "use"
          /\ T = S
       \/ /\ op.op \in {"free", "return", "wrap"}
          /\ op.kind \in S /\ T = S \ {op.kind}
          /\ op.op = "wrap" => op.kind \in Wrapped

\* The kinds held before the first call, between any two, and after the last.
Certifies(h, p) ==
    /\ h \in Seq(SUBSET Kinds) /\ Len(h) = Len(p) + 1
    /\ \A i \in 1..Len(p) : Does(p[i], h[i], h[i + 1])

\* The calls of p, made with S in hand, can all be made and leave T in hand.
Runs(p, S, T) ==
    \E h : Certifies(h, p) /\ h[1] = S /\ h[Len(h)] = T

\* Calls are made of records; of those of a program nothing else is needed.
Calls == [op : {"take", "use", "free", "return", "wrap"},
          kind : Kinds \cup {"operand", "pool"},
          from : Kinds \cup {"text", "operand", "pool"}]
Program(p) == p \in Seq(Calls)

\* A program that begins and ends with nothing in hand.
Clean(p) == Program(p) /\ Runs(p, {}, {})

----------------------------------------------------------------------------
(* Programs. *)

\* The certificates of two programs are put end to end.
LEMMA RunsConcat ==
    ASSUME NEW p, NEW q, Program(p), Program(q), NEW S, NEW T, NEW U,
           Runs(p, S, T), Runs(q, T, U)
    PROVE  Program(p \o q) /\ Runs(p \o q, S, U)
<1>1. PICK h : Certifies(h, p) /\ h[1] = S /\ h[Len(h)] = T
  BY DEF Runs
<1>2. PICK g : Certifies(g, q) /\ g[1] = T /\ g[Len(g)] = U
  BY DEF Runs
<1> DEFINE m == Len(p)
           n == Len(q)
           c == [i \in 1..(m + n + 1) |-> IF i <= m + 1 THEN h[i] ELSE g[i - m]]
<1>3. /\ m \in Nat /\ n \in Nat /\ Len(p \o q) = m + n
      /\ \A i \in 1..m : (p \o q)[i] = p[i]
      /\ \A i \in (m + 1)..(m + n) : (p \o q)[i] = q[i - m]
      /\ Program(p \o q)
  BY DEF Program
<1>4. /\ h \in Seq(SUBSET Kinds) /\ Len(h) = m + 1
      /\ g \in Seq(SUBSET Kinds) /\ Len(g) = n + 1
      /\ \A i \in 1..m : Does(p[i], h[i], h[i + 1])
      /\ \A i \in 1..n : Does(q[i], g[i], g[i + 1])
      /\ h[m + 1] = g[1]
  BY <1>1, <1>2, <1>3 DEF Certifies
<1> HIDE DEF m, n
<1>5. c \in Seq(SUBSET Kinds) /\ Len(c) = m + n + 1
  <2>1. \A i \in 1..(m + n + 1) : c[i] \in SUBSET Kinds
    <3> SUFFICES ASSUME NEW i \in 1..(m + n + 1) PROVE c[i] \in SUBSET Kinds
      OBVIOUS
    <3>1. CASE i <= m + 1
      BY <3>1, <1>3, <1>4
    <3>2. CASE i > m + 1
      <4>1. i - m \in 1..Len(g) /\ c[i] = g[i - m]
        BY <3>2, <1>3, <1>4
      <4> QED BY <4>1, <1>4
    <3> QED BY <3>1, <3>2, <1>3
  <2>2. c \in [1..(m + n + 1) -> SUBSET Kinds]
    BY <2>1
  <2> HIDE DEF c
  <2> QED BY <2>2, <1>3
<1>6. /\ \A i \in 1..(m + 1) : c[i] = h[i]
      /\ \A i \in (m + 1)..(m + n + 1) : c[i] = g[i - m]
  BY <1>3, <1>4
<1> HIDE DEF c
<1>7. ASSUME NEW i \in 1..(m + n) PROVE Does((p \o q)[i], c[i], c[i + 1])
  <2>1. CASE i <= m
    <3>1. i \in 1..m /\ c[i] = h[i] /\ c[i + 1] = h[i + 1]
      BY <2>1, <1>3, <1>6
    <3> QED BY <3>1, <1>3, <1>4
  <2>2. CASE i > m
    <3>1. i \in (m + 1)..(m + n) /\ i - m \in 1..n /\ (i - m) + 1 = (i + 1) - m
      BY <2>2, <1>3
    <3>2. c[i] = g[i - m] /\ c[i + 1] = g[(i - m) + 1]
      BY <3>1, <1>3, <1>6
    <3> QED BY <3>1, <3>2, <1>3, <1>4
  <2> QED BY <2>1, <2>2, <1>3
<1>8. c[1] = S /\ c[Len(c)] = U
  BY <1>1, <1>2, <1>3, <1>4, <1>5, <1>6
<1>9. Certifies(c, p \o q)
  BY <1>3, <1>5, <1>7 DEF Certifies
<1> QED BY <1>3, <1>8, <1>9 DEF Runs

\* A program that gives back what it started with does so each time it is
\* repeated; the loops of the binding repeat two or four calls.
LEMMA RunsRepeat ==
    ASSUME NEW n \in Nat, NEW p, Program(p), Len(p) \in {2, 4}, NEW S, Runs(p, S, S)
    PROVE  Program(Repeat(n, p)) /\ Runs(Repeat(n, p), S, S)
<1>1. PICK h : Certifies(h, p) /\ h[1] = S /\ h[Len(h)] = S
  BY DEF Runs
<1> DEFINE m == Len(p)
           r == Repeat(n, p)
           c == [i \in 1..(n * m + 1) |-> h[1 + ((i - 1) % m)]]
<1>2. m \in {2, 4} /\ n * m \in Nat
  <2>1. CASE Len(p) = 2
    BY <2>1
  <2>2. CASE Len(p) = 4
    BY <2>2
  <2> QED BY <2>1, <2>2
<1>3. \A i \in Nat : /\ i % m \in 0..(m - 1)
                     /\ (i + 1) % m = (i % m) + 1 \/ (i % m = m - 1 /\ (i + 1) % m = 0)
  <2>1. CASE m = 2
    BY <2>1
  <2>2. CASE m = 4
    BY <2>2
  <2> QED BY <2>1, <2>2, <1>2
<1>3a. (n * m) % m = 0 /\ 0 % m = 0
  <2>1. CASE m = 2
    BY <2>1
  <2>2. CASE m = 4
    BY <2>2
  <2> QED BY <2>1, <2>2, <1>2
<1>4. /\ h \in Seq(SUBSET Kinds) /\ Len(h) = m + 1
      /\ \A i \in 1..m : Does(p[i], h[i], h[i + 1])
      /\ h[1] = S /\ h[m + 1] = S
  BY <1>1 DEF Certifies
<1>5. p \in Seq(Calls)
  BY DEF Program
<1>r. r = [i \in 1..(n * m) |-> p[1 + ((i - 1) % m)]]
  BY DEF Repeat
<1> HIDE DEF m, r
<1>6. r \in Seq(Calls) /\ Len(r) = n * m
  <2>1. ASSUME NEW i \in 1..(n * m) PROVE p[1 + ((i - 1) % m)] \in Calls
    <3>1. i - 1 \in Nat
      BY <1>2
    <3>2. (i - 1) % m \in 0..(m - 1)
      BY <3>1, <1>2, <1>3
    <3>3. 1 + ((i - 1) % m) \in 1..Len(p)
      BY <3>2, <1>2 DEF m
    <3> QED BY <3>3, <1>5
  <2>2. r \in [1..(n * m) -> Calls]
    BY <2>1, <1>r
  <2> QED BY <2>2, <1>2
<1>7. c \in Seq(SUBSET Kinds) /\ Len(c) = n * m + 1
  <2>1. ASSUME NEW i \in 1..(n * m + 1) PROVE h[1 + ((i - 1) % m)] \in SUBSET Kinds
    <3>1. i - 1 \in Nat
      BY <1>2
    <3>2. (i - 1) % m \in 0..(m - 1)
      BY <3>1, <1>2, <1>3
    <3>3. 1 + ((i - 1) % m) \in 1..Len(h)
      BY <3>2, <1>2, <1>4
    <3> QED BY <3>3, <1>4
  <2>2. c \in [1..(n * m + 1) -> SUBSET Kinds]
    BY <2>1
  <2> HIDE DEF c
  <2> QED BY <2>2, <1>2
<1>8. \A i \in 1..(n * m + 1) : c[i] = h[1 + ((i - 1) % m)]
  OBVIOUS
<1> HIDE DEF c
<1>9. ASSUME NEW i \in 1..(n * m) PROVE Does(r[i], c[i], c[i + 1])
  <2> DEFINE k == 1 + ((i - 1) % m)
  <2>1. i - 1 \in Nat /\ i + 1 \in 1..(n * m + 1) /\ i \in 1..(n * m + 1)
        /\ (i - 1) + 1 = i /\ (i + 1) - 1 = i
    BY <1>2
  <2>2. k \in 1..m /\ h[1 + (i % m)] = h[k + 1]
    <3> DEFINE q == (i - 1) % m
    <3>1. q \in 0..(m - 1) /\ (i % m = q + 1 \/ (q = m - 1 /\ i % m = 0))
      BY <2>1, <1>2, <1>3
    <3> HIDE DEF q
    <3>2. CASE i % m = q + 1
      BY <3>1, <3>2, <1>2 DEF q
    <3>3. CASE q = m - 1 /\ i % m = 0
      BY <3>3, <1>2, <1>4 DEF q
    <3> QED BY <3>1, <3>2, <3>3
  <2>3. r[i] = p[k] /\ c[i] = h[k] /\ c[i + 1] = h[1 + (i % m)]
    BY <2>1, <1>r, <1>8
  <2> QED BY <2>2, <2>3, <1>4
<1>10. c[1] = S /\ c[Len(c)] = S
  <2>1. 1 \in 1..(n * m + 1) /\ n * m + 1 \in 1..(n * m + 1) /\ (n * m + 1) - 1 = n * m
    BY <1>2
  <2> QED BY <2>1, <1>3a, <1>4, <1>7, <1>8
<1> QED
  BY <1>6, <1>7, <1>9, <1>10 DEF Program, Runs, Certifies, r

\* After the first call the rest of a program runs on.
LEMMA RunsOn ==
    ASSUME NEW p, Program(p), p # <<>>, NEW S, NEW U, Runs(p, S, U)
    PROVE  /\ Program(Tail(p))
           /\ \E T \in SUBSET Kinds : Does(Head(p), S, T) /\ Runs(Tail(p), T, U)
<1>1. PICK h : Certifies(h, p) /\ h[1] = S /\ h[Len(h)] = U
  BY DEF Runs
<1>2. /\ Len(p) \in Nat \ {0} /\ Len(Tail(p)) = Len(p) - 1 /\ Head(p) = p[1]
      /\ \A i \in 1..(Len(p) - 1) : Tail(p)[i] = p[i + 1]
      /\ Program(Tail(p))
  BY DEF Program
<1>3. /\ h \in Seq(SUBSET Kinds) /\ Len(h) = Len(p) + 1
      /\ \A i \in 1..Len(p) : Does(p[i], h[i], h[i + 1])
  BY <1>1 DEF Certifies
<1>4. /\ Tail(h) \in Seq(SUBSET Kinds) /\ Len(Tail(h)) = Len(p)
      /\ \A i \in 1..Len(p) : Tail(h)[i] = h[i + 1]
  BY <1>2, <1>3
<1>5. Certifies(Tail(h), Tail(p))
  <2>1. ASSUME NEW i \in 1..Len(Tail(p))
        PROVE  Does(Tail(p)[i], Tail(h)[i], Tail(h)[i + 1])
    <3>1. i \in 1..(Len(p) - 1) /\ i \in 1..Len(p) /\ i + 1 \in 1..Len(p)
      BY <1>2
    <3> QED BY <3>1, <1>2, <1>3, <1>4
  <2> QED BY <2>1, <1>2, <1>4 DEF Certifies
<1>6. Tail(h)[1] = h[2] /\ Tail(h)[Len(Tail(h))] = U /\ h[2] \in SUBSET Kinds
  BY <1>1, <1>2, <1>3, <1>4
<1>7. Does(Head(p), S, h[2])
  BY <1>1, <1>2, <1>3
<1> QED BY <1>2, <1>5, <1>6, <1>7 DEF Runs

LEMMA RunsEnd ==
    ASSUME NEW S, NEW U, Runs(<<>>, S, U) PROVE S = U
BY DEF Runs, Certifies

LEMMA RunsOne ==
    ASSUME NEW a \in Calls, NEW S \in SUBSET Kinds, NEW T \in SUBSET Kinds, Does(a, S, T)
    PROVE  Program(<<a>>) /\ Runs(<<a>>, S, T)
<1>1. Certifies(<<S, T>>, <<a>>)
  BY DEF Certifies
<1> QED BY <1>1 DEF Runs, Program

LEMMA RunsTwo ==
    ASSUME NEW a \in Calls, NEW b \in Calls, NEW S \in SUBSET Kinds,
           NEW T \in SUBSET Kinds, NEW U \in SUBSET Kinds, Does(a, S, T), Does(b, T, U)
    PROVE  Program(<<a, b>>) /\ Runs(<<a, b>>, S, U)
<1>1. Certifies(<<S, T, U>>, <<a, b>>)
  BY DEF Certifies
<1> QED BY <1>1 DEF Runs, Program

LEMMA RunsThree ==
    ASSUME NEW a \in Calls, NEW b \in Calls, NEW c \in Calls, NEW S \in SUBSET Kinds,
           NEW T \in SUBSET Kinds, NEW U \in SUBSET Kinds, NEW V \in SUBSET Kinds,
           Does(a, S, T), Does(b, T, U), Does(c, U, V)
    PROVE  Program(<<a, b, c>>) /\ Runs(<<a, b, c>>, S, V)
<1>1. Certifies(<<S, T, U, V>>, <<a, b, c>>)
  BY DEF Certifies
<1> QED BY <1>1 DEF Runs, Program

\* What each call does to what is held.
LEMMA TakeDoes ==
    ASSUME NEW kind \in Kinds, NEW from \in Kinds \cup {"text", "operand"},
           NEW S \in SUBSET Kinds, kind \notin S, from \in Kinds => from \in S
    PROVE  Take(kind, from) \in Calls /\ Does(Take(kind, from), S, S \cup {kind})
BY DEF Take, Op, Calls, Does

LEMMA UseDoes ==
    ASSUME NEW kind \in Kinds \cup {"operand", "pool"}, NEW S \in SUBSET Kinds,
           kind \in Kinds => kind \in S
    PROVE  Use(kind) \in Calls /\ Does(Use(kind), S, S)
BY DEF Use, Op, Calls, Does

LEMMA GiveUpDoes ==
    ASSUME NEW S \in SUBSET Kinds, NEW kind \in S
    PROVE  /\ Free(kind) \in Calls /\ Does(Free(kind), S, S \ {kind})
           /\ Return(kind) \in Calls /\ Does(Return(kind), S, S \ {kind})
           /\ kind \in Wrapped =>
                Wrap(kind) \in Calls /\ Does(Wrap(kind), S, S \ {kind})
BY DEF Free, Return, Wrap, Op, Calls, Does, Kinds, Wrapped

LEMMA KindsHeld ==
    /\ {"result", "documents", "document", "value", "config", "limits"} = Kinds
    /\ {"text", "operand", "pool"} \cap Kinds = {}
    /\ Wrapped = {"document", "value"}
BY DEF Kinds, Wrapped

LEMMA SimplePrograms ==
    /\ Clean(BadPreset) /\ Clean(Inspect) /\ Clean(<<Use("pool")>>)
    /\ Clean(Child) /\ Clean(ContainsKey)
<1> USE KindsHeld
<1>1. Clean(BadPreset)
  <2>1. Certifies(<<{}>>, <<>>) /\ <<{}>>[1] = {} /\ Len(<<{}>>) = 1
    BY DEF Certifies
  <2> QED BY <2>1 DEF BadPreset, Clean, Program, Runs
<1>2. Clean(Inspect)
  BY RunsOne, UseDoes DEF Inspect, Clean
<1>3. Clean(<<Use("pool")>>)
  BY RunsOne, UseDoes DEF Clean
<1>4. Take("value", "operand") \in Calls /\ Does(Take("value", "operand"), {}, {"value"})
  BY TakeDoes, {} \cup {"value"} = {"value"}
<1>5. Clean(Child)
  <2>1. Wrap("value") \in Calls /\ Does(Wrap("value"), {"value"}, {})
    BY GiveUpDoes, {"value"} \ {"value"} = {}
  <2> QED BY <1>4, <2>1, RunsTwo DEF Child, Clean
<1>6. Clean(ContainsKey)
  <2>1. Use("operand") \in Calls /\ Does(Use("operand"), {}, {})
    BY UseDoes
  <2>2. Free("value") \in Calls /\ Does(Free("value"), {"value"}, {})
    BY GiveUpDoes, {"value"} \ {"value"} = {}
  <2> QED BY <1>4, <2>1, <2>2, RunsThree DEF ContainsKey, Clean
<1> QED BY <1>1, <1>2, <1>3, <1>5, <1>6

\* The result of the parser is taken, asked for an error, and given up.
LEMMA Results ==
    /\ Program(CheckFailed) /\ Runs(CheckFailed, {"result"}, {})
    /\ Program(<<Take("result", "text"), Use("result")>>)
    /\ Runs(<<Take("result", "text"), Use("result")>>, {}, {"result"})
    /\ Clean(ParseFails)
<1> USE KindsHeld
<1>1. Take("result", "text") \in Calls /\ Does(Take("result", "text"), {}, {"result"})
  BY TakeDoes, {} \cup {"result"} = {"result"}
<1>2. Use("result") \in Calls /\ Does(Use("result"), {"result"}, {"result"})
  BY UseDoes
<1>3. Free("result") \in Calls /\ Does(Free("result"), {"result"}, {})
  BY GiveUpDoes, {"result"} \ {"result"} = {}
<1>4. Program(CheckFailed) /\ Runs(CheckFailed, {"result"}, {})
  BY <1>2, <1>3, RunsTwo DEF CheckFailed
<1>5. Program(<<Take("result", "text")>>) /\ Runs(<<Take("result", "text")>>, {}, {"result"})
  BY <1>1, RunsOne
<1> QED BY <1>1, <1>2, <1>4, <1>5, RunsTwo, RunsConcat DEF ParseFails, Clean

LEMMA LoadClean == Clean(Load)
<1> USE KindsHeld
<1> DEFINE p == <<Take("result", "text"), Use("result")>>
           q == <<Take("value", "result"), Free("result"), Wrap("value")>>
<1>1. /\ Take("value", "result") \in Calls
      /\ Does(Take("value", "result"), {"result"}, {"result", "value"})
  BY TakeDoes, {"result"} \cup {"value"} = {"result", "value"}
<1>2. Free("result") \in Calls /\ Does(Free("result"), {"result", "value"}, {"value"})
  BY GiveUpDoes, {"result", "value"} \ {"result"} = {"value"}
<1>3. Wrap("value") \in Calls /\ Does(Wrap("value"), {"value"}, {})
  BY GiveUpDoes, {"value"} \ {"value"} = {}
<1>4. Program(q) /\ Runs(q, {"result"}, {})
  BY <1>1, <1>2, <1>3, RunsThree
<1>5. Load = p \o q
  BY DEF Load
<1> QED BY <1>4, <1>5, Results, RunsConcat DEF Clean

LEMMA LimitsClean == Clean(ParseLimits) /\ Clean(ParseLimitsFails)
<1> USE KindsHeld
<1> DEFINE p == <<Take("config", "text"), Use("config"), Take("limits", "config")>>
           q == <<Free("config"), Return("limits")>>
<1>1. Take("config", "text") \in Calls /\ Does(Take("config", "text"), {}, {"config"})
  BY TakeDoes, {} \cup {"config"} = {"config"}
<1>2. Use("config") \in Calls /\ Does(Use("config"), {"config"}, {"config"})
  BY UseDoes
<1>3. /\ Take("limits", "config") \in Calls
      /\ Does(Take("limits", "config"), {"config"}, {"config", "limits"})
  BY TakeDoes, {"config"} \cup {"limits"} = {"config", "limits"}
<1>4. /\ Free("config") \in Calls
      /\ Does(Free("config"), {"config", "limits"}, {"limits"})
      /\ Does(Free("config"), {"config"}, {})
  BY GiveUpDoes, {"config", "limits"} \ {"config"} = {"limits"},
     {"config"} \ {"config"} = {}
<1>5. Return("limits") \in Calls /\ Does(Return("limits"), {"limits"}, {})
  BY GiveUpDoes, {"limits"} \ {"limits"} = {}
<1>6. Clean(ParseLimitsFails)
  BY <1>1, <1>2, <1>4, RunsThree DEF ParseLimitsFails, Clean
<1>7. Program(p) /\ Runs(p, {}, {"config", "limits"})
  BY <1>1, <1>2, <1>3, RunsThree
<1>8. Program(q) /\ Runs(q, {"config", "limits"}, {})
  BY <1>4, <1>5, RunsTwo
<1>9. ParseLimits = p \o q
  BY DEF ParseLimits
<1> QED BY <1>6, <1>7, <1>8, <1>9, RunsConcat DEF Clean

\* The documents of a stream: n is their number, and the array is given up
\* before the result it came from.
LEMMA DocumentsClean ==
    ASSUME NEW n \in Nat
    PROVE  Clean(LoadAll(n)) /\ Clean(LoadAllConfigured(n)) /\ Clean(LoadConfigured(n))
<1> USE KindsHeld
<1> DEFINE open == {"result", "documents"}
           parse == <<Take("result", "text"), Use("result")>>
           array == <<Take("documents", "result"), Use("documents")>>
           head == <<Take("result", "text"), Use("result"), Take("documents", "result"),
                     Use("documents")>>
           each == <<Take("document", "documents"), Wrap("document")>>
           close == <<Free("documents"), Free("result")>>
           first == <<Take("document", "documents"), Take("value", "document"),
                      Free("document")>>
           rest == <<Free("documents"), Free("result"), Wrap("value")>>
           root == <<Take("document", "documents"), Take("value", "document"),
                     Free("document"), Free("documents"), Free("result"), Wrap("value")>>
<1>1. Program(head) /\ Runs(head, {}, open)
  <2>1. /\ Take("documents", "result") \in Calls
        /\ Does(Take("documents", "result"), {"result"}, open)
    BY TakeDoes, {"result"} \cup {"documents"} = open
  <2>2. Use("documents") \in Calls /\ Does(Use("documents"), open, open)
    BY UseDoes
  <2>3. Program(array) /\ Runs(array, {"result"}, open)
    BY <2>1, <2>2, RunsTwo
  <2>4. head = parse \o array
    OBVIOUS
  <2>5. Program(parse) /\ Runs(parse, {}, {"result"})
    BY Results
  <2> HIDE DEF parse, array, head, open
  <2> QED BY <2>3, <2>4, <2>5, RunsConcat
<1>2. /\ Take("document", "documents") \in Calls
      /\ Does(Take("document", "documents"), open, open \cup {"document"})
  BY TakeDoes
<1>3. Program(each) /\ Runs(each, open, open)
  <2>1. /\ Wrap("document") \in Calls
        /\ Does(Wrap("document"), open \cup {"document"}, open)
    BY GiveUpDoes, (open \cup {"document"}) \ {"document"} = open
  <2> QED BY <1>2, <2>1, RunsTwo
<1>4. Program(close) /\ Runs(close, open, {})
  <2>1. Free("documents") \in Calls /\ Does(Free("documents"), open, {"result"})
    BY GiveUpDoes, open \ {"documents"} = {"result"}
  <2>2. Free("result") \in Calls /\ Does(Free("result"), {"result"}, {})
    BY GiveUpDoes, {"result"} \ {"result"} = {}
  <2> QED BY <2>1, <2>2, RunsTwo
<1>5. Program(Repeat(n, each)) /\ Runs(Repeat(n, each), open, open)
  <2>1. Len(each) \in {2, 4}
    OBVIOUS
  <2> HIDE DEF each, open
  <2> QED BY <1>3, <2>1, RunsRepeat
<1>6. Program(root) /\ Runs(root, open, {})
  <2>1. /\ Take("value", "document") \in Calls
        /\ Does(Take("value", "document"), open \cup {"document"},
                open \cup {"document", "value"})
    BY TakeDoes, (open \cup {"document"}) \cup {"value"} = open \cup {"document", "value"}
  <2>2. /\ Free("document") \in Calls
        /\ Does(Free("document"), open \cup {"document", "value"}, open \cup {"value"})
    BY GiveUpDoes, (open \cup {"document", "value"}) \ {"document"} = open \cup {"value"}
  <2>3. /\ Free("documents") \in Calls
        /\ Does(Free("documents"), open \cup {"value"}, {"result", "value"})
    BY GiveUpDoes, (open \cup {"value"}) \ {"documents"} = {"result", "value"}
  <2>4. Free("result") \in Calls /\ Does(Free("result"), {"result", "value"}, {"value"})
    BY GiveUpDoes, {"result", "value"} \ {"result"} = {"value"}
  <2>5. Wrap("value") \in Calls /\ Does(Wrap("value"), {"value"}, {})
    BY GiveUpDoes, {"value"} \ {"value"} = {}
  <2>6. Program(first) /\ Runs(first, open, open \cup {"value"})
    BY <1>2, <2>1, <2>2, RunsThree
  <2>7. Program(rest) /\ Runs(rest, open \cup {"value"}, {})
    BY <2>3, <2>4, <2>5, RunsThree
  <2>8. root = first \o rest
    OBVIOUS
  <2> HIDE DEF first, rest, root, open
  <2> QED BY <2>6, <2>7, <2>8, RunsConcat
<1>7. LoadAll(n) = (head \o Repeat(n, each)) \o close
  BY DEF LoadAll
<1>8. LoadConfigured(n) = head \o (IF n = 0 THEN close ELSE root)
  BY DEF LoadConfigured
<1> HIDE DEF open, head, each, close, root
<1>9. Program(head \o Repeat(n, each)) /\ Runs(head \o Repeat(n, each), {}, open)
  BY <1>1, <1>5, RunsConcat
<1>10. Clean(LoadAll(n))
  BY <1>4, <1>7, <1>9, RunsConcat DEF Clean
<1>11. Clean(LoadConfigured(n))
  BY <1>1, <1>4, <1>6, <1>8, RunsConcat DEF Clean
<1> QED BY <1>10, <1>11 DEF LoadAllConfigured

\* The elements, keys and pairs of a collection.
LEMMA ElementsClean ==
    ASSUME NEW n \in Nat
    PROVE  Clean(Elements(n)) /\ Clean(Keys(n)) /\ Clean(Pairs(n))
<1>1. Program(Child \o Child) /\ Runs(Child \o Child, {}, {})
  BY SimplePrograms, RunsConcat DEF Clean
<1>2. Len(Child) = 2 /\ Len(Child \o Child) = 4
  BY DEF Child
<1>3. Clean(Repeat(n, Child)) /\ Clean(Repeat(n, Child \o Child))
  BY <1>1, <1>2, SimplePrograms, RunsRepeat DEF Clean
<1> QED
  BY <1>3, SimplePrograms, RunsConcat DEF Clean, Elements, Keys, Pairs

\* Every function, on every path, ends with nothing in hand.
LEMMA AllClean ==
    /\ \A g \in {"parse", "dump", "pool"} : \A p \in Programs(g) : Clean(p)
    /\ \A w : \A p \in MethodsOf(w) : Clean(p)
<1>1. \A n \in 0..MaxItems : n \in Nat
  BY ItemsAssumption
<1>2. \A p \in Parsing : Clean(p)
  BY <1>1, SimplePrograms, Results, LoadClean, LimitsClean, DocumentsClean DEF Parsing
<1>3. \A w : \A p \in MethodsOf(w) : Clean(p)
  BY <1>1, SimplePrograms, ElementsClean DEF MethodsOf, Root
<1> QED BY <1>2, <1>3, SimplePrograms DEF Programs, DumpValue, Inspect

----------------------------------------------------------------------------
(* Handles. *)

\* What a thread has in hand is what the rest of its program gives up.
Owes(t) ==
    IF at[t] = "call"
    THEN /\ Program(todo[t])
         /\ \E S \in SUBSET Kinds : held[t] = Having(S) /\ Runs(todo[t], S, {})
    ELSE held[t] = Having({})

CallsInv ==
    /\ Typed
    /\ DOMAIN held = Threads
    /\ wrappers \subseteq Wrapped
    /\ \A t \in Threads :
        /\ at[t] \notin {"idle", "call"} => goal[t] \in {"parse", "dump", "pool"}
        /\ Owes(t)

LEMMA CallsInit == Init => CallsInv
BY DEF Init, CallsInv, Typed, Control, Owes, Having

LEMMA HavingMore ==
    ASSUME NEW S \in SUBSET Kinds, NEW k \in Kinds \ S
    PROVE  [Having(S) EXCEPT ![k] = @ + 1] = Having(S \cup {k})
<1>1. Having(S)[k] + 1 = 1
  BY DEF Having
<1> QED BY <1>1 DEF Having

LEMMA HavingLess ==
    ASSUME NEW S \in SUBSET Kinds, NEW k \in S
    PROVE  [Having(S) EXCEPT ![k] = @ - 1] = Having(S \ {k})
BY DEF Having

\* A step that leaves calls and handles alone.
LEMMA CallsElsewhere ==
    ASSUME CallsInv, NEW t \in Threads, UNCHANGED <<todo, held, wrappers>>,
           DOMAIN lib' = Threads, DOMAIN goal' = Threads,
           \A u \in Threads \ {t} : goal'[u] = goal[u],
           at[t] # "call", NEW p \in Control \ {"call"}, Goto(t, p),
           p # "idle" => goal'[t] \in {"parse", "dump", "pool"}
    PROVE  CallsInv'
<1>1. /\ at' \in [Threads -> Control] /\ at'[t] = p
      /\ \A u \in Threads \ {t} : at'[u] = at[u]
  BY DEF CallsInv, Typed, Goto
<1>2. \A u \in Threads : Owes(u)'
  BY <1>1 DEF CallsInv, Owes
<1> QED BY <1>1, <1>2 DEF CallsInv, Typed

LEMMA CallsLeave ==
    ASSUME CallsInv, NEW t \in Threads, UNCHANGED <<held, wrappers>>, Leave(t),
           held[t] = Having({})
    PROVE  CallsInv'
<1>1. /\ at' \in [Threads -> Control] /\ at'[t] = "idle"
      /\ DOMAIN goal' = Threads /\ DOMAIN lib' = Threads /\ DOMAIN todo' = Threads
      /\ \A u \in Threads \ {t} :
            at'[u] = at[u] /\ goal'[u] = goal[u] /\ todo'[u] = todo[u]
  BY DEF CallsInv, Typed, Leave, Goto, Control
<1> QED BY <1>1 DEF CallsInv, Typed, Owes

\* The next call of a thread is one that can be made.
LEMMA CallsDone ==
    ASSUME CallsInv, NEW t \in Threads, at[t] = "call", todo[t] # <<>>
    PROVE  \E S \in SUBSET Kinds : \E T \in SUBSET Kinds :
               /\ held[t] = Having(S) /\ Does(Now(t), S, T)
               /\ Program(Tail(todo[t])) /\ Runs(Tail(todo[t]), T, {})
<1>1. PICK S \in SUBSET Kinds : held[t] = Having(S) /\ Runs(todo[t], S, {})
  BY DEF CallsInv, Owes
<1>2. Program(todo[t])
  BY DEF CallsInv, Owes
<1> QED BY <1>1, <1>2, RunsOn DEF Now

LEMMA CallsMade ==
    ASSUME CallsInv, NEW t \in Threads,
           CallTakes(t) \/ CallUses(t) \/ CallGivesUp(t) \/ CallWraps(t)
    PROVE  CallsInv'
<1>1. at[t] = "call" /\ todo[t] # <<>> /\ Done(t) /\ UNCHANGED <<at, goal, lib>>
  BY DEF CallTakes, CallUses, CallGivesUp, CallWraps, Calling
<1>2. PICK S \in SUBSET Kinds, T \in SUBSET Kinds :
               /\ held[t] = Having(S) /\ Does(Now(t), S, T)
               /\ Program(Tail(todo[t])) /\ Runs(Tail(todo[t]), T, {})
  BY <1>1, CallsDone
<1>3. /\ DOMAIN held' = Threads /\ held'[t] = Having(T)
      /\ \A u \in Threads \ {t} : held'[u] = held[u]
      /\ wrappers' \subseteq Wrapped
  <2>1. CASE CallTakes(t)
    <3>1. Now(t).kind \in Kinds \ S /\ T = S \cup {Now(t).kind}
      BY <1>2, <2>1 DEF Does, CallTakes, Calling
    <3>2. held' = [held EXCEPT ![t] = [Having(S) EXCEPT ![Now(t).kind] = @ + 1]]
      BY <1>2, <2>1 DEF CallTakes
    <3> QED BY <3>1, <3>2, <2>1, HavingMore DEF CallsInv, CallTakes
  <2>2. CASE CallUses(t)
    BY <1>2, <2>2 DEF Does, CallUses, Calling, CallsInv
  <2>3. CASE CallGivesUp(t)
    <3>1. Now(t).kind \in S /\ T = S \ {Now(t).kind}
      BY <1>2, <2>3 DEF Does, CallGivesUp, Calling
    <3>2. held' = [held EXCEPT ![t] = [Having(S) EXCEPT ![Now(t).kind] = @ - 1]]
      BY <1>2, <2>3 DEF CallGivesUp
    <3> QED BY <3>1, <3>2, <2>3, HavingLess DEF CallsInv, CallGivesUp
  <2>4. CASE CallWraps(t)
    <3>1. Now(t).kind \in S /\ T = S \ {Now(t).kind} /\ Now(t).kind \in Wrapped
      BY <1>2, <2>4 DEF Does, CallWraps, Calling
    <3>2. held' = [held EXCEPT ![t] = [Having(S) EXCEPT ![Now(t).kind] = @ - 1]]
      BY <1>2, <2>4 DEF CallWraps
    <3> QED BY <3>1, <3>2, <2>4, HavingLess DEF CallsInv, CallWraps
  <2> QED BY <2>1, <2>2, <2>3, <2>4
<1>4. /\ DOMAIN todo' = Threads /\ todo'[t] = Tail(todo[t])
      /\ \A u \in Threads \ {t} : todo'[u] = todo[u]
  BY <1>1 DEF Done, CallsInv, Typed
<1> QED BY <1>1, <1>2, <1>3, <1>4 DEF CallsInv, Typed, Owes

LEMMA CallsNext == CallsInv /\ [Next]_vars => CallsInv'
<1> SUFFICES ASSUME CallsInv, [Next]_vars PROVE CallsInv'
  OBVIOUS
<1>a. ASSUME NEW t \in Threads, at[t] # "call" PROVE held[t] = Having({})
  BY <1>a DEF CallsInv, Owes
<1>b. ASSUME NEW t \in Threads PROVE at[t] \notin {"idle", "call"} =>
                                      goal[t] \in {"parse", "dump", "pool"}
  BY <1>b DEF CallsInv
<1>1. ASSUME NEW t \in Threads, Step(t) PROVE CallsInv'
  <2>1. CASE LoadCached(t) \/ FindLibrary(t) \/ Open(t) \/ Declare(t) \/ Publish(t)
               \/ TestFlag(t) \/ Initialize(t) \/ Initialized(t) \/ Register(t)
               \/ SetFlag(t)
    <3>1. /\ UNCHANGED <<todo, held, wrappers, goal>> /\ DOMAIN lib' = Threads
          /\ at[t] \notin {"call", "idle"}
      BY <2>1 DEF LoadCached, FindLibrary, Open, Declare, Publish, Loaded, TestFlag,
                  Initialize, Initialized, Register, SetFlag, CallsInv, Typed
    <3>2. PICK p \in Control \ {"call"} : Goto(t, p)
      BY <2>1 DEF LoadCached, FindLibrary, Open, Declare, Publish, Loaded, TestFlag,
                  Initialize, Initialized, Register, SetFlag, Control
    <3> QED BY <3>1, <3>2, <1>b, CallsElsewhere DEF CallsInv, Typed
  <2>2. CASE OpenFails(t) \/ DeclareFails(t)
    BY <2>2, <1>a, CallsLeave DEF OpenFails, DeclareFails
  <2>3. CASE Go(t)
    <3>1. PICK program \in Programs(goal[t]) : todo' = [todo EXCEPT ![t] = program]
      BY <2>3 DEF Go
    <3>2. Clean(program) /\ held[t] = Having({})
      BY <2>3, <3>1, <1>a, <1>b, AllClean DEF Go
    <3>3. Owes(t)'
      BY <2>3, <3>1, <3>2 DEF Go, Goto, Clean, Owes, CallsInv, Typed
    <3> QED BY <2>3, <3>1, <3>3 DEF Go, Goto, CallsInv, Typed, Control, Owes
  <2>4. CASE CallReturns(t)
    <3>1. PICK S \in SUBSET Kinds : held[t] = Having(S) /\ Runs(<<>>, S, {})
      BY <2>4 DEF CallReturns, CallsInv, Owes
    <3> QED BY <2>4, <3>1, RunsEnd, CallsLeave DEF CallReturns
  <2> QED BY <1>1, <2>1, <2>2, <2>3, <2>4, CallsMade DEF Step
<1>2. ASSUME NEW t \in Threads, NEW g \in {"parse", "dump", "pool"}, NEW w, Begin(t, g, w)
      PROVE  CallsInv'
  BY <1>2, CallsElsewhere DEF CallsInv, Typed, Control, Begin
<1>3. ASSUME NEW t \in Threads, NEW w, NEW program \in MethodsOf(w), Method(t, w, program)
      PROVE  CallsInv'
  <2>1. Clean(program) /\ held[t] = Having({})
    BY <1>3, <1>a, AllClean DEF Method
  <2>2. Owes(t)'
    BY <1>3, <2>1 DEF Method, Goto, Clean, Owes, CallsInv, Typed
  <2> QED BY <1>3, <2>2 DEF Method, Goto, CallsInv, Typed, Control, Owes
<1>4. CASE Collect \/ Build \/ Exit \/ RunHook \/ TearDown \/ UNCHANGED vars
  <2>1. UNCHANGED <<at, goal, lib, todo, held>> /\ wrappers' \subseteq wrappers
    BY <1>4 DEF Collect, Drop, Build, Exit, RunHook, TearDown, vars
  <2> QED BY <2>1 DEF CallsInv, Typed, Owes
<1> QED
  BY <1>1, <1>2, <1>3, <1>4 DEF Next, Parse, Dump, InitPool, Methods

\* Whatever the text holds and wherever a function of the binding stops, it has
\* every handle it calls with, and none when it has returned (__init__.py,
\* compat.py, types.py).
THEOREM CallsGiveUp == Spec => []HandlesGivenUp
<1>1. CallsInv => HandlesGivenUp
  <2> SUFFICES ASSUME CallsInv, NEW t \in Threads
               PROVE  /\ at[t] # "call" => \A k \in Kinds : held[t][k] = 0
                      /\ (at[t] = "call" /\ todo[t] # <<>> /\ Now(t).from \in Kinds)
                            => held[t][Now(t).from] > 0
    BY DEF HandlesGivenUp
  <2>1. at[t] # "call" => \A k \in Kinds : held[t][k] = 0
    BY DEF CallsInv, Owes, Having
  <2>2. ASSUME at[t] = "call", todo[t] # <<>>, Now(t).from \in Kinds
        PROVE  held[t][Now(t).from] > 0
    <3>1. PICK S \in SUBSET Kinds, T \in SUBSET Kinds :
            held[t] = Having(S) /\ Does(Now(t), S, T)
      BY <2>2, CallsDone
    <3>2. Now(t).from \in S
      BY <2>2, <3>1 DEF Does
    <3> QED BY <2>2, <3>1, <3>2 DEF Having
  <2> QED BY <2>1, <2>2
<1> QED BY CallsInit, CallsNext, <1>1, PTL DEF Spec

----------------------------------------------------------------------------
(* Initialisations and finalisations. *)

\* The number of threads that are at one of the places S.
Count(S) == Cardinality({t \in Threads : at[t] \in S})

\* Every initialisation that has begun is under way or has returned, and of
\* those that returned the hook is about to be registered, is registered, or
\* has run.  Before the flag is set, who began is still there; after, only who
\* has read it unset begins.
CountsInv ==
    /\ at \in [Threads -> Control]
    /\ flag \in BOOLEAN
    /\ begun \in Nat /\ ready \in Nat /\ hooks \in Nat /\ finals \in Nat
    /\ begun = ready + Count({"initializing"})
    /\ ready = hooks + finals + Count({"register"})
    /\ ~flag => begun = Count({"initializing", "register", "set"})
    /\ begun + Count({"initialize"}) <= Cardinality(Threads)
    /\ phase # "running" => \A t \in Threads : at[t] = "idle"
    /\ phase = "gone" => hooks = 0

LEMMA CountType ==
    ASSUME NEW S PROVE Count(S) \in Nat
<1>1. IsFiniteSet({t \in Threads : at[t] \in S})
  BY ThreadsAssumption, FS_Subset
<1> QED BY <1>1, FS_CardinalityType DEF Count

\* Where a thread goes changes the numbers at the places it leaves and enters.
LEMMA CountMoves ==
    ASSUME NEW S, at \in [Threads -> Control], NEW t \in Threads, NEW p \in Control,
           Goto(t, p)
    PROVE  /\ (at[t] \in S <=> p \in S) => Count(S)' = Count(S)
           /\ (at[t] \notin S /\ p \in S) => Count(S)' = Count(S) + 1
           /\ (at[t] \in S /\ p \notin S) => Count(S)' = Count(S) - 1
<1> DEFINE A == {u \in Threads : at[u] \in S}
           B == {u \in Threads : at'[u] \in S}
<1>1. at'[t] = p /\ \A u \in Threads \ {t} : at'[u] = at[u]
  BY DEF Goto
<1>2. IsFiniteSet(A) /\ Count(S) = Cardinality(A) /\ Count(S)' = Cardinality(B)
  BY ThreadsAssumption, FS_Subset DEF Count
<1>3. ASSUME at[t] \in S <=> p \in S PROVE A = B
  BY <1>1, <1>3
<1>4. ASSUME at[t] \notin S, p \in S PROVE Cardinality(B) = Cardinality(A) + 1
  <2>1. B = A \cup {t} /\ t \notin A
    BY <1>1, <1>4
  <2> HIDE DEF A, B
  <2> QED BY <1>2, <2>1, FS_AddElement
<1>5. ASSUME at[t] \in S, p \notin S PROVE Cardinality(B) = Cardinality(A) - 1
  <2>1. B = A \ {t} /\ t \in A
    BY <1>1, <1>5
  <2> HIDE DEF A, B
  <2> QED BY <1>2, <2>1, FS_RemoveElement
<1> QED BY <1>2, <1>3, <1>4, <1>5

\* A step away from ensure_initialized.
LEMMA CountsElsewhere ==
    ASSUME CountsInv, NEW t \in Threads, UNCHANGED <<runtime, phase>>, phase = "running",
           NEW p \in Control, Goto(t, p),
           {at[t], p} \cap {"initialize", "initializing", "register", "set"} = {}
    PROVE  CountsInv'
<1>1. /\ Count({"initialize"})' = Count({"initialize"})
      /\ Count({"initializing"})' = Count({"initializing"})
      /\ Count({"register"})' = Count({"register"})
      /\ Count({"initializing", "register", "set"})'
            = Count({"initializing", "register", "set"})
  BY CountMoves DEF CountsInv
<1>2. at' \in [Threads -> Control]
  BY DEF CountsInv, Goto
<1> QED BY <1>1, <1>2 DEF CountsInv, runtime

\* Threads at different places are different threads.
LEMMA CountApart ==
    ASSUME NEW where,
           NEW A, A = {t \in Threads : where[t] \in {"initialize"}},
           NEW B, B = {t \in Threads : where[t] \in {"initializing", "register", "set"}}
    PROVE  Cardinality(A) + Cardinality(B) <= Cardinality(Threads)
<1>1. A \cap B = {} /\ A \cup B \subseteq Threads
  OBVIOUS
<1>2. IsFiniteSet(A) /\ IsFiniteSet(B)
  BY ThreadsAssumption, FS_Subset
<1>4. Cardinality(A \cup B) = Cardinality(A) + Cardinality(B) - Cardinality(A \cap B)
  BY <1>2, FS_Union
<1>5. Cardinality(A \cup B) <= Cardinality(Threads)
  BY <1>1, ThreadsAssumption, FS_Subset
<1>6. Cardinality(A \cap B) = 0
  BY <1>1, FS_EmptySet
<1> QED BY <1>2, <1>4, <1>5, <1>6, FS_CardinalityType

LEMMA CountsInit == Init => CountsInv
<1> SUFFICES ASSUME Init PROVE CountsInv
  OBVIOUS
<1>1. ASSUME NEW S, "idle" \notin S PROVE Count(S) = 0
  <2>1. {t \in Threads : at[t] \in S} = {}
    BY <1>1 DEF Init
  <2> QED BY <2>1, FS_EmptySet DEF Count
<1>2. Cardinality(Threads) \in Nat
  BY ThreadsAssumption, FS_CardinalityType
<1>3. /\ Count({"initialize"}) = 0 /\ Count({"initializing"}) = 0
      /\ Count({"register"}) = 0 /\ Count({"initializing", "register", "set"}) = 0
  BY <1>1
<1>4. at \in [Threads -> Control]
  BY DEF Init, Control
<1>5. flag = FALSE /\ begun = 0 /\ ready = 0 /\ hooks = 0 /\ finals = 0 /\ phase = "running"
  BY DEF Init
<1>6. begun = ready + Count({"initializing"}) /\ ready = hooks + finals + Count({"register"})
  BY <1>3, <1>5
<1>7. /\ begun = Count({"initializing", "register", "set"})
      /\ begun + Count({"initialize"}) <= Cardinality(Threads)
  BY <1>2, <1>3, <1>5
<1>8. begun \in Nat /\ ready \in Nat /\ hooks \in Nat /\ finals \in Nat /\ flag \in BOOLEAN
  BY <1>5
<1>9. phase = "running"
  BY <1>5
<1>10. phase # "running" => \A t \in Threads : at[t] = "idle"
  BY <1>9
<1>11. phase = "gone" => hooks = 0
  BY <1>5
<1> QED BY <1>4, <1>8, <1>6, <1>7, <1>10, <1>11, Zenon DEF CountsInv

LEMMA CountsNext == CountsInv /\ [Next]_vars => CountsInv'
<1> SUFFICES ASSUME CountsInv, [Next]_vars PROVE CountsInv'
  OBVIOUS
<1>n. Cardinality(Threads) \in Nat
  BY ThreadsAssumption, FS_CardinalityType
<1>1. ASSUME NEW t \in Threads, Step(t) PROVE CountsInv'
  <2>0. at[t] # "idle" /\ phase = "running" /\ at \in [Threads -> Control]
    BY <1>1 DEF Step, CountsInv
  <2>1. CASE Initialize(t)
    <3>1. /\ Count({"initialize"})' = Count({"initialize"}) - 1
          /\ Count({"initializing"})' = Count({"initializing"}) + 1
          /\ Count({"register"})' = Count({"register"})
          /\ Count({"initializing", "register", "set"})'
                = Count({"initializing", "register", "set"}) + 1
      BY <2>0, <2>1, CountMoves DEF Initialize, Control
    <3>2. at' \in [Threads -> Control]
      BY <2>0, <2>1 DEF Initialize, Goto, Control
    <3> QED BY <1>n, <2>0, <2>1, <3>1, <3>2, CountType DEF CountsInv, Initialize
  <2>2. CASE Initialized(t)
    <3>1. /\ Count({"initialize"})' = Count({"initialize"})
          /\ Count({"initializing"})' = Count({"initializing"}) - 1
          /\ Count({"register"})' = Count({"register"}) + 1
          /\ Count({"initializing", "register", "set"})'
                = Count({"initializing", "register", "set"})
      BY <2>0, <2>2, CountMoves DEF Initialized, Control
    <3>2. at' \in [Threads -> Control]
      BY <2>0, <2>2 DEF Initialized, Goto, Control
    <3> QED BY <2>0, <2>2, <3>1, <3>2, CountType DEF CountsInv, Initialized
  <2>3. CASE Register(t)
    <3>1. /\ Count({"initialize"})' = Count({"initialize"})
          /\ Count({"initializing"})' = Count({"initializing"})
          /\ Count({"register"})' = Count({"register"}) - 1
          /\ Count({"initializing", "register", "set"})'
                = Count({"initializing", "register", "set"})
      BY <2>0, <2>3, CountMoves DEF Register, Control
    <3>2. at' \in [Threads -> Control]
      BY <2>0, <2>3 DEF Register, Goto, Control
    <3> QED BY <2>0, <2>3, <3>1, <3>2, CountType DEF CountsInv, Register
  <2>4. CASE SetFlag(t)
    <3>1. /\ Count({"initialize"})' = Count({"initialize"})
          /\ Count({"initializing"})' = Count({"initializing"})
          /\ Count({"register"})' = Count({"register"})
      BY <2>0, <2>4, CountMoves DEF SetFlag, Control
    <3>2. at' \in [Threads -> Control]
      BY <2>0, <2>4 DEF SetFlag, Goto, Control
    <3> QED BY <2>0, <2>4, <3>1, <3>2 DEF CountsInv, SetFlag
  <2>5. CASE TestFlag(t)
    <3>1. CASE flag
      BY <2>0, <2>5, <3>1, CountsElsewhere DEF TestFlag, Control
    <3>2. CASE ~flag
      <4>1. /\ Count({"initializing"})' = Count({"initializing"})
            /\ Count({"register"})' = Count({"register"})
            /\ Count({"initializing", "register", "set"})'
                  = Count({"initializing", "register", "set"})
        BY <2>0, <2>5, <3>2, CountMoves DEF TestFlag, Control
      <4>2. Count({"initialize"})' + Count({"initializing", "register", "set"})'
                <= Cardinality(Threads)
        BY CountApart DEF Count
      <4>4. Count({"initialize"})' \in Nat
        <5>1. Count({"initialize"})' = Count({"initialize"}) + 1
          BY <2>0, <2>5, <3>2, CountMoves DEF TestFlag, Control
        <5> QED BY <5>1, CountType
      <4>3. at' \in [Threads -> Control]
        BY <2>0, <2>5 DEF TestFlag, Goto, Control
      <4> QED
        BY <2>0, <2>5, <3>2, <4>1, <4>2, <4>3, <4>4 DEF CountsInv, TestFlag, runtime
    <3> QED BY <3>1, <3>2
  <2>6. CASE \/ LoadCached(t) \/ FindLibrary(t) \/ OpenFails(t) \/ Open(t)
             \/ Declare(t) \/ DeclareFails(t) \/ Publish(t) \/ Go(t) \/ CallReturns(t)
    <3>1. /\ UNCHANGED <<runtime, phase>>
          /\ at[t] \notin {"initialize", "initializing", "register", "set"}
      BY <2>6 DEF LoadCached, FindLibrary, OpenFails, Open, Declare, DeclareFails,
                  Publish, Go, CallReturns
    <3>2. PICK p \in Control \ {"initialize", "initializing", "register", "set"} :
            Goto(t, p)
      BY <2>6 DEF LoadCached, FindLibrary, OpenFails, Open, Declare, DeclareFails,
                  Publish, Go, CallReturns, Loaded, Leave, Control
    <3> QED BY <2>0, <3>1, <3>2, CountsElsewhere
  <2>7. CASE CallTakes(t) \/ CallUses(t) \/ CallGivesUp(t) \/ CallWraps(t)
    <3>1. UNCHANGED <<runtime, phase, at>>
      BY <2>7 DEF CallTakes, CallUses, CallGivesUp, CallWraps
    <3> QED BY <3>1 DEF CountsInv, runtime, Count
  <2> QED BY <1>1, <2>1, <2>2, <2>3, <2>4, <2>5, <2>6, <2>7 DEF Step
<1>2. ASSUME NEW t \in Threads, NEW g, NEW w, Begin(t, g, w) PROVE CountsInv'
  BY <1>2, CountsElsewhere DEF Begin, Control
<1>3. ASSUME NEW t \in Threads, NEW w, NEW program, Method(t, w, program)
      PROVE  CountsInv'
  BY <1>3, CountsElsewhere DEF Method, Control
<1>4. CASE Collect \/ Build \/ UNCHANGED vars
  <2>1. UNCHANGED <<runtime, phase, at>>
    BY <1>4 DEF Collect, Build, vars
  <2> QED BY <2>1 DEF CountsInv, runtime, Count
<1>5. CASE Exit
  BY <1>5 DEF CountsInv, Exit, runtime, Count
<1>6. CASE RunHook
  BY <1>6, CountType DEF CountsInv, RunHook, Count
<1>7. CASE TearDown
  BY <1>7 DEF CountsInv, TearDown, runtime, Count
<1> QED
  BY <1>1, <1>2, <1>3, <1>4, <1>5, <1>6, <1>7 DEF Next, Parse, Dump, InitPool, Methods

\* However many threads raced through ensure_initialized, l4yaml_finalize runs at
\* exit as often as l4yaml_initialize was called.
THEOREM FinalisedAsOften == Spec => []Balanced
<1>1. CountsInv => Balanced
  <2> SUFFICES ASSUME CountsInv, phase = "gone" PROVE finals = begun
    BY DEF Balanced
  <2>1. \A t \in Threads : at[t] = "idle"
    BY DEF CountsInv
  <2>2. /\ {t \in Threads : at[t] \in {"initializing"}} = {}
        /\ {t \in Threads : at[t] \in {"register"}} = {}
    BY <2>1
  <2>3. Count({"initializing"}) = 0 /\ Count({"register"}) = 0
    BY <2>2, FS_EmptySet DEF Count
  <2> QED BY <2>3 DEF CountsInv
<1> QED BY CountsInit, CountsNext, <1>1, PTL DEF Spec

----------------------------------------------------------------------------

\* The rest of the types.
TypesInv == files \in [Places -> Files] /\ declared \subseteq Threads

LEMMA TypesNext == TypesInv /\ LibraryInv /\ [Next]_vars => TypesInv'
<1> SUFFICES ASSUME TypesInv, LibraryInv, [Next]_vars PROVE TypesInv'
  OBVIOUS
<1>1. ASSUME NEW t \in Threads, Step(t) PROVE TypesInv'
  BY <1>1
  DEF Step, TypesInv, LibraryInv, LoadCached, FindLibrary, OpenFails, Open, Declare,
      DeclareFails, Publish, TestFlag, Initialize, Initialized, Register, SetFlag, Go,
      CallTakes, CallUses, CallGivesUp, CallWraps, CallReturns
<1>2. ASSUME NEW t \in Threads, NEW g, NEW w, Begin(t, g, w) PROVE TypesInv'
  BY <1>2 DEF Begin, TypesInv
<1>3. ASSUME NEW t \in Threads, Methods(t) PROVE TypesInv'
  BY <1>3 DEF Methods, Method, TypesInv
<1>4. CASE Build
  BY <1>4 DEF Build, TypesInv, Files
<1>5. CASE Collect \/ Exit \/ RunHook \/ TearDown \/ UNCHANGED vars
  BY <1>5 DEF Collect, Exit, RunHook, TearDown, vars, TypesInv
<1> QED BY <1>1, <1>2, <1>3, <1>4, <1>5 DEF Next, Parse, Dump, InitPool

\* No function holds two handles of a kind, and the runtime is initialised and
\* finalised at most once for each thread (ensure_initialized).
THEOREM TypeInvariant == Spec => []TypeOK
<1>1. Init => TypesInv
  BY InstalledAssumption DEF Init, TypesInv
<1>2. TypesInv /\ LibraryInv /\ CallsInv /\ CountsInv => TypeOK
  <2> SUFFICES ASSUME TypesInv, LibraryInv, CallsInv, CountsInv PROVE TypeOK
    OBVIOUS
  <2>1. {begun, ready, hooks, finals} \subseteq 0..Cardinality(Threads)
    <3> DEFINE N == Cardinality(Threads)
               i == Count({"initializing"})
               r == Count({"register"})
               e == Count({"initialize"})
    <3>1. N \in Nat /\ i \in Nat /\ r \in Nat /\ e \in Nat
      BY CountType, ThreadsAssumption, FS_CardinalityType
    <3>2. begun = ready + i /\ ready = hooks + finals + r /\ begun + e <= N
      BY DEF CountsInv
    <3>3. begun \in Nat /\ ready \in Nat /\ hooks \in Nat /\ finals \in Nat
      BY DEF CountsInv
    <3> HIDE DEF N, i, r, e
    <3>4. begun \in 0..N /\ ready \in 0..N /\ hooks \in 0..N /\ finals \in 0..N
      BY <3>1, <3>2, <3>3
    <3> QED
      BY <3>4 DEF N
  <2>2. \A t \in Threads : held[t] \in [Kinds -> 0..1]
    BY DEF CallsInv, Owes, Having
  <2> QED BY <2>1, <2>2 DEF TypesInv, LibraryInv, CallsInv, CountsInv, TypeOK
<1> QED
  BY <1>1, <1>2, LibraryInit, LibraryNext, CallsInit, CallsNext, CountsInit, CountsNext,
     TypesNext, PTL DEF Spec

=============================================================================
