----------------------------- MODULE Ownership -----------------------------
(***************************************************************************)
(* What the C interface promises its callers (l4yaml.h, "Memory model" and *)
(* "String lifetime"), with every step atomic and nothing counted: objects *)
(* are allocated with all they refer to; a handle, a thread's last string  *)
(* and a borrowed string lead to objects in memory; what none of them      *)
(* leads to may be released at any moment, and nothing else ever is.       *)
(***************************************************************************)
EXTENDS Integers, Sequences

CONSTANTS
    Threads,
    Wrappers,  \* the handles callers have room for
    Objects,   \* the objects parsing and formatting allocate
    Static,    \* objects of the library itself, never released
    Fields(_), \* the objects each object refers to, in order
    Nothing    \* no object

VARIABLES
    heap,     \* the allocated objects
    wrapper,  \* the object of each handle
    last,     \* the last string given to each thread
    lent      \* the strings borrowed from handles

vars == <<heap, wrapper, last, lent>>

FieldSet(o) == {Fields(o)[i] : i \in DOMAIN Fields(o)}

\* What an object leads to; objects are immutable, so there is no cycle.
Reach[o \in Objects \cup Static] ==
    {o} \cup UNION {Reach[p] : p \in FieldSet(o)}

Reachable ==
    UNION {Reach[o] : o \in ({wrapper[w] : w \in Wrappers}
                               \cup {last[t] : t \in Threads}
                               \cup {b.text : b \in lent}) \ {Nothing}}

Init ==
    /\ heap = {}
    /\ wrapper = [w \in Wrappers |-> Nothing]
    /\ last = [t \in Threads |-> Nothing]
    /\ lent = {}

Allocate(o) ==
    /\ heap \cap Reach[o] = {}
    /\ heap' = heap \cup (Reach[o] \ Static)
    /\ UNCHANGED <<wrapper, last, lent>>

Release(o) ==
    /\ heap' = heap \ {o}
    /\ o \in heap \ Reachable
    /\ UNCHANGED <<wrapper, last, lent>>

Wrap(w, o) ==
    /\ wrapper[w] = Nothing /\ o \in heap \cup Static
    /\ wrapper' = [wrapper EXCEPT ![w] = o]
    /\ UNCHANGED <<heap, last, lent>>

Unwrap(w) ==
    /\ wrapper[w] # Nothing /\ \A b \in lent : b.wrapper # w
    /\ wrapper' = [wrapper EXCEPT ![w] = Nothing]
    /\ UNCHANGED <<heap, last, lent>>

\* A thread is given a string, borrowed from a handle or not.
Give(t, o) ==
    /\ last[t] = Nothing /\ o \in heap \cup Static
    /\ last' = [last EXCEPT ![t] = o]
    /\ \/ UNCHANGED lent
       \/ \E w \in Wrappers :
             /\ wrapper[w] # Nothing /\ o \in FieldSet(wrapper[w]) \cup Static
             /\ lent' = lent \cup {[wrapper |-> w, text |-> o]}
    /\ UNCHANGED <<heap, wrapper>>

GiveUp(t) ==
    /\ last' = [last EXCEPT ![t] = Nothing]
    /\ UNCHANGED <<heap, wrapper, lent>>

Return(b) == lent' = lent \ {b} /\ UNCHANGED <<heap, wrapper, last>>

Next ==
    \/ heap' # heap /\ \E o \in Objects : Allocate(o) \/ Release(o)
    \/ wrapper' # wrapper /\ \E w \in Wrappers :
           Unwrap(w) \/ \E o \in Objects \cup Static : Wrap(w, o)
    \/ last' # last /\ \E t \in Threads :
           GiveUp(t) \/ \E o \in Objects \cup Static : Give(t, o)
    \/ \E b \in lent : Return(b)

Spec == Init /\ [][Next]_vars

=============================================================================
