------------------------------ MODULE Handles ------------------------------
(***************************************************************************)
(* The C interface and its two bindings: l4yaml_shim.c over the exported   *)
(* functions of FFI.lean, called by the wrappers of the Python binding     *)
(* (one heap, wrappers any thread may use) or of the Rust binding          *)
(* (wrappers confined to the thread that made them, strings returned as    *)
(* borrows).                                                               *)
(*                                                                         *)
(* Objects are immutable, reference-counted and refer to each other by     *)
(* Fields.  A call is the sequence of what it does to counts, to the       *)
(* thread's string holder and to the wrappers, left to do in todo; threads *)
(* interleave between any two of them, and between the two halves of a     *)
(* count's update, which is not atomic.  An Option is counted as its       *)
(* content; strings passed in as arguments live within the call and are    *)
(* left out, as are the pools, initialisation and finalisation.            *)
(***************************************************************************)
EXTENDS Integers, Sequences, FiniteSets, SequencesExt

CONSTANTS
    Threads,
    Wrappers,  \* the bindings' objects that own a handle
    Results,   \* what a parse returns: of one field if it succeeded, else none
    Arrays,    \* the document arrays
    Nodes,     \* values and documents
    Strings,
    Static,    \* the null value and the empty string of the library
    Fields(_), \* the objects each object refers to, in order
    Shared,    \* whether wrappers may be used by any thread (Python)
    Nothing    \* no object, no wrapper, no thread

Objects == Results \cup Arrays \cup Nodes \cup Strings

FieldSet(o) == {Fields(o)[i] : i \in DOMAIN Fields(o)}

\* The strings made by a call, and none of a parsed document's.
Formatted == Strings \ (Static \cup UNION {FieldSet(o) : o \in Objects})

ASSUME ObjectsAssumption ==
    /\ IsFiniteSet(Objects)
    /\ Static \subseteq Objects
    /\ \A o \in Objects : Fields(o) \in Seq(Objects)
    /\ \A r \in Results : Len(Fields(r)) <= 1
    /\ \A s \in Strings : Fields(s) = <<>>

\* What a static object refers to is static; an object refers only to objects
\* made before it.
ASSUME StaticAssumption == \A o \in Static : FieldSet(o) \subseteq Static
ASSUME AcyclicAssumption ==
    \A S \in SUBSET Objects : S # {} => \E o \in S : FieldSet(o) \cap S = {}

ASSUME CallersAssumption ==
    IsFiniteSet(Threads) /\ Threads # {} /\ IsFiniteSet(Wrappers)

ASSUME NothingAssumption ==
    Nothing \notin Objects \cup Wrappers \cup Threads

ASSUME SharedAssumption == Shared \in BOOLEAN

VARIABLES
    rc,       \* the reference count in each object's header, 0 once freed
    wrapper,  \* the object of each wrapper, Nothing before and after
    owner,    \* the thread that made the wrapper
    lent,     \* the string borrows whose lifetime has not ended (Rust)
    tls,      \* tls_last_string of each thread
    todo,     \* what is left to do of each thread's call
    using,    \* the wrapper whose method each thread runs
    reg       \* the count read by an update that has not written yet, or 0

vars == <<rc, wrapper, owner, lent, tls, todo, using, reg>>
caller == <<wrapper, owner, lent>>

----------------------------------------------------------------------------
(* What calls are made of. *)

Inc(o) == [op |-> "inc", obj |-> o, to |-> Nothing]
Dec(o) == [op |-> "dec", obj |-> o, to |-> Nothing]
\* The text of o: consumes a reference to o, makes a string, captures it.
Format(o) == [op |-> "format", obj |-> o, to |-> Nothing]
\* capture_string, and its assignment to tls_last_string.
Capture(s, w) == [op |-> "capture", obj |-> s, to |-> w]
Hold(s, w) == [op |-> "hold", obj |-> s, to |-> w]
\* The caller wraps the returned handle.
Wrap(o, w) == [op |-> "wrap", obj |-> o, to |-> w]

\* Mutant: an exported function borrows its argument, as `@&` reads.
InspectsBorrowed(v) == <<Inc(v)>>

\* Mutant: the reference to what is returned is not taken.
AccessesBorrowed(v, o) == <<Inc(v), Dec(v)>>

\* Mutant: the content is read out of the Option without a reference.
UnpackedBorrowed(o) == <<Dec(o)>>

\* An exported function consumes its argument: the shim adds a reference.
Inspect(v) == <<Inc(v), Dec(v)>>
Access(v, o) == <<Inc(v), Inc(o), Dec(v)>>
\* The content of an Option gets a reference before the Option's is given up.
Unpacked(o) == <<Inc(o), Dec(o)>>

\* Mutant: the holder is not tested.
CapturedUntested(t, s, w) == <<Dec(tls[t]), Hold(s, w)>>

\* Mutant: the holder is given up after it was assigned.
CapturedLate(t, s, w) ==
    <<Hold(s, w)>> \o (IF tls[t] = Nothing THEN <<>> ELSE <<Dec(s)>>)

Captured(t, s, w) ==
    (IF tls[t] = Nothing THEN <<>> ELSE <<Dec(tls[t])>>) \o <<Hold(s, w)>>

\* Mutant: an object referred to twice is given up once.
ReleasedOnce(o) ==
    [i \in 1..Cardinality(FieldSet(o)) |-> Dec(Fields(o)[i])]

Released(o) == [i \in DOMAIN Fields(o) |-> Dec(Fields(o)[i])]

\* The string the caller gets is a borrow in Rust and a copy in Python.
Lender(w) == IF Shared THEN Nothing ELSE w

----------------------------------------------------------------------------
(* Calls. *)

Idle(t) == todo[t] = <<>>

\* A Rust wrapper is neither Send nor Sync.
MayUse(t, w) == wrapper[w] # Nothing /\ (Shared \/ owner[w] = t)

Unused(w) ==
    /\ wrapper[w] = Nothing
    /\ \A t \in Threads : \A i \in DOMAIN todo[t] : todo[t][i].to # w

Begin(t, w, program) ==
    /\ todo' = [todo EXCEPT ![t] = program]
    /\ using' = [using EXCEPT ![t] = w]

Call(t, w, program) ==
    /\ Begin(t, w, program)
    /\ UNCHANGED <<rc, wrapper, owner, lent, tls, reg>>

\* kind, style, lengths, and a lookup, a tag or an anchor that is not there.
InspectValue(t, w) == Call(t, w, Inspect(wrapper[w]))

\* An element, a key or a value; the null value where there is none.
GetChild(t, w, o, n) ==
    /\ o \in Nodes \cap (FieldSet(wrapper[w]) \cup Static)
    /\ Call(t, w, Access(wrapper[w], o) \o <<Wrap(o, n)>>)

Lookup(t, w, o, n) ==
    /\ o \in Nodes \cap FieldSet(wrapper[w])
    /\ Call(t, w, Access(wrapper[w], o) \o Unpacked(o) \o <<Wrap(o, n)>>)

\* A scalar's content; the empty string of a collection.
GetText(t, w, s) ==
    /\ s \in Strings \cap (FieldSet(wrapper[w]) \cup Static)
    /\ Call(t, w, Access(wrapper[w], s) \o <<Capture(s, Lender(w))>>)

\* A tag or an anchor.
GetAttribute(t, w, s) ==
    /\ s \in Strings \cap FieldSet(wrapper[w])
    /\ Call(t, w, Access(wrapper[w], s) \o Unpacked(s)
                    \o <<Capture(s, Lender(w))>>)

Dump(t, w) == Call(t, w, <<Inc(wrapper[w]), Format(wrapper[w])>>)

\* __del__ and Drop: no method of the wrapper runs and no borrow is left.
Free(t, w) ==
    /\ \A u \in Threads : using[u] # w
    /\ \A b \in lent : b.wrapper # w
    /\ Begin(t, Nothing, <<Dec(wrapper[w])>>)
    /\ wrapper' = [wrapper EXCEPT ![w] = Nothing]
    /\ owner' = [owner EXCEPT ![w] = Nothing]
    /\ UNCHANGED <<rc, lent, tls, reg>>

\* The compiler ends a borrow after its last use.
EndBorrow(t, b) ==
    /\ owner[b.wrapper] = t
    /\ lent' = lent \ {b}
    /\ UNCHANGED <<rc, wrapper, owner, tls, todo, using, reg>>

----------------------------------------------------------------------------
(* Parsing: a result is allocated with its tree, unpacked and freed. *)

Reach[o \in Objects] == {o} \cup UNION {Reach[p] : p \in FieldSet(o)}

RefsFrom(S, o) ==
    Cardinality({e \in UNION {{p} \X DOMAIN Fields(p) : p \in S} :
                    Fields(e[1])[e[2]] = o})

Allocated(r) ==
    [o \in Objects |->
        IF o \in Static \/ o \notin Reach[r] THEN rc[o]
        ELSE RefsFrom(Reach[r], o) + IF o = r THEN 1 ELSE 0]

Parse(t, r, program) ==
    /\ \A o \in Reach[r] \ Static : rc[o] = 0
    /\ Begin(t, Nothing, Inspect(r) \o program)
    /\ rc' = Allocated(r)
    /\ UNCHANGED <<wrapper, owner, lent, tls, reg>>

\* load
Load(t, r, v, n) ==
    /\ Fields(r) = <<v>> /\ v \in Nodes
    /\ Unused(n)
    /\ Parse(t, r, Access(r, v) \o <<Dec(r), Wrap(v, n)>>)

\* load_all: Rust gives the result up before it reads the array, Python after.
LoadAll(t, r, a, ns) ==
    LET document(i) == Access(a, Fields(a)[i]) \o <<Wrap(Fields(a)[i], ns[i])>>
        documents == FlattenSeq([i \in DOMAIN Fields(a) |-> document(i)])
    IN  /\ Fields(r) = <<a>> /\ a \in Arrays
        /\ \A i \in DOMAIN ns : Unused(ns[i])
        /\ \A i, j \in DOMAIN ns : ns[i] = ns[j] => i = j
        /\ Parse(t, r, Access(r, a)
                         \o (IF Shared THEN <<>> ELSE <<Dec(r)>>)
                         \o Inspect(a) \o documents \o <<Dec(a)>>
                         \o (IF Shared THEN <<Dec(r)>> ELSE <<>>))

\* The error's message is copied before the result is freed.
LoadFails(t, r) ==
    /\ Fields(r) = <<>>
    /\ Parse(t, r, <<Inc(r), Format(r), Dec(r)>>)

----------------------------------------------------------------------------
(* Steps of a running call. *)

Continue(t, program) ==
    /\ todo' = [todo EXCEPT ![t] = program]
    /\ using' = [using EXCEPT ![t] = IF program = <<>> THEN Nothing ELSE @]

Doing(t, op) == ~Idle(t) /\ Head(todo[t]).op = op

Counts(t) == Doing(t, "inc") \/ Doing(t, "dec")

\* A freed object has no count to read.
ReadCount(t) ==
    /\ Counts(t) /\ reg[t] = 0
    /\ Head(todo[t]).obj \notin Static
    /\ reg' = [reg EXCEPT ![t] = rc[Head(todo[t]).obj]]
    /\ reg'[t] > 0
    /\ UNCHANGED <<rc, tls, todo, using, caller>>

CountStatic(t) ==
    /\ Counts(t) /\ Head(todo[t]).obj \in Static
    /\ Continue(t, Tail(todo[t]))
    /\ UNCHANGED <<rc, tls, reg, caller>>

Increment(t) ==
    /\ Doing(t, "inc") /\ reg[t] > 0
    /\ rc[Head(todo[t]).obj] > 0
    /\ rc' = [rc EXCEPT ![Head(todo[t]).obj] = reg[t] + 1]
    /\ reg' = [reg EXCEPT ![t] = 0]
    /\ Continue(t, Tail(todo[t]))
    /\ UNCHANGED <<tls, caller>>

\* The last reference frees the object and gives up those it holds.
Decrement(t) ==
    LET o == Head(todo[t]).obj
    IN  /\ Doing(t, "dec") /\ reg[t] > 0
        /\ rc[o] > 0
        /\ rc' = [rc EXCEPT ![o] = reg[t] - 1]
        /\ reg' = [reg EXCEPT ![t] = 0]
        /\ Continue(t, (IF reg[t] = 1 THEN Released(o) ELSE <<>>) \o Tail(todo[t]))
        /\ UNCHANGED <<tls, caller>>

\* Which of the strings that are not in memory it is makes no difference.
MakeString(t) ==
    LET o == Head(todo[t]).obj
        s == CHOOSE s \in Formatted : rc[s] = 0
    IN  /\ Doing(t, "format") /\ rc[o] > 0
        /\ \E f \in Formatted : rc[f] = 0
        /\ rc' = [rc EXCEPT ![s] = 1]
        /\ Continue(t, <<Dec(o), Capture(s, Nothing)>> \o Tail(todo[t]))
        /\ UNCHANGED <<tls, reg, caller>>

CaptureString(t) ==
    /\ Doing(t, "capture")
    /\ Continue(t, Captured(t, Head(todo[t]).obj, Head(todo[t]).to) \o Tail(todo[t]))
    /\ UNCHANGED <<rc, tls, reg, caller>>

HoldString(t) ==
    LET s == Head(todo[t]).obj
        w == Head(todo[t]).to
    IN  /\ Doing(t, "hold")
        /\ tls' = [tls EXCEPT ![t] = s]
        /\ lent' = IF w = Nothing THEN lent
                   ELSE lent \cup {[wrapper |-> w, text |-> s]}
        /\ Continue(t, Tail(todo[t]))
        /\ UNCHANGED <<rc, wrapper, owner, reg>>

WrapHandle(t) ==
    LET w == Head(todo[t]).to
    IN  /\ Doing(t, "wrap")
        /\ wrapper' = [wrapper EXCEPT ![w] = Head(todo[t]).obj]
        /\ owner' = [owner EXCEPT ![w] = t]
        /\ Continue(t, Tail(todo[t]))
        /\ UNCHANGED <<rc, lent, tls, reg>>

----------------------------------------------------------------------------

Init ==
    /\ rc = [o \in Objects |-> IF o \in Static THEN 1 ELSE 0]
    /\ wrapper = [w \in Wrappers |-> Nothing]
    /\ owner = [w \in Wrappers |-> Nothing]
    /\ lent = {}
    /\ tls = [t \in Threads |-> Nothing]
    /\ todo = [t \in Threads |-> <<>>]
    /\ using = [t \in Threads |-> Nothing]
    /\ reg = [t \in Threads |-> 0]

\* A thread that runs no call begins one.
Loads(t) ==
    /\ Idle(t)
    /\ \E r \in Results :
        \/ LoadFails(t, r)
        \/ \E v \in FieldSet(r), n \in Wrappers : Load(t, r, v, n)
        \/ \E a \in FieldSet(r) : \E ns \in [DOMAIN Fields(a) -> Wrappers] :
              LoadAll(t, r, a, ns)

Uses(t) ==
    /\ Idle(t)
    /\ \/ \E w \in Wrappers : MayUse(t, w) /\
          \/ InspectValue(t, w)
          \/ Dump(t, w)
          \/ Free(t, w)
          \/ \E s \in Strings : GetText(t, w, s) \/ GetAttribute(t, w, s)
          \/ \E n \in Wrappers : Unused(n) /\
                \E o \in Nodes : GetChild(t, w, o, n) \/ Lookup(t, w, o, n)
       \/ \E b \in lent : EndBorrow(t, b)

Step(t) ==
    \/ ReadCount(t) \/ CountStatic(t) \/ Increment(t) \/ Decrement(t)
    \/ MakeString(t) \/ CaptureString(t) \/ HoldString(t) \/ WrapHandle(t)

Next == \E t \in Threads : Loads(t) \/ Uses(t) \/ Step(t)

Spec == Init /\ [][Next]_vars

=============================================================================
