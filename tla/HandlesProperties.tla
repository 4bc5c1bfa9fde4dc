------------------------- MODULE HandlesProperties -------------------------
(***************************************************************************)
(* What the users of the C interface rely on, of every step of every call. *)
(***************************************************************************)
EXTENDS Handles

Live(o) == rc[o] > 0
Heap == {o \in Objects \ Static : Live(o)}

\* The holder still shows the string it is giving up while a call replaces it.
Replacing(t) == \E i \in DOMAIN todo[t] : todo[t][i].op = "hold"
Held(t) == IF Replacing(t) THEN Nothing ELSE tls[t]

TypeOK ==
    /\ rc \in [Objects -> Nat]
    /\ wrapper \in [Wrappers -> Objects \cup {Nothing}]
    /\ owner \in [Wrappers -> Threads \cup {Nothing}]
    /\ lent \subseteq [wrapper : Wrappers, text : Strings]
    /\ tls \in [Threads -> Strings \cup {Nothing}]
    /\ using \in [Threads -> Wrappers \cup {Nothing}]
    /\ reg \in [Threads -> Nat]
    /\ \A t \in Threads : \A i \in DOMAIN todo[t] :
          todo[t][i] \in
              [op : {"inc", "dec", "format", "capture", "hold", "wrap"},
               obj : Objects, to : Wrappers \cup {Nothing}]

(***************************************************************************)
(* The count of an object is the number of references to it: those of the  *)
(* wrappers, of the string holders, of the objects in memory, and those    *)
(* the running calls have taken and will give up or hand over.  A count    *)
(* too low frees an object in use, one too high never frees it.            *)
(***************************************************************************)
Counted ==
    LET heap == Heap
        ahead == UNION {{t} \X DOMAIN todo[t] : t \in Threads}
        Ahead(o) == {p \in ahead : todo[p[1]][p[2]].obj = o}
        ToAdd(o) == {p \in Ahead(o) : todo[p[1]][p[2]].op = "inc"}
    IN  \A o \in Objects \ Static :
            rc[o] + Cardinality(ToAdd(o)) =
                Cardinality(Ahead(o) \ ToAdd(o))
                + Cardinality({w \in Wrappers : wrapper[w] = o})
                + Cardinality({t \in Threads : Held(t) = o})
                + RefsFrom(heap, o)

\* l4yaml.h, "Memory model": a child handle holds its own reference, so its
\* object stays in memory whatever becomes of the handle it came from.
HandlesAlive == \A w \in Wrappers : wrapper[w] # Nothing => Live(wrapper[w])

\* No call touches a freed object, and no thread's last string is freed
\* before the thread is given another.
NoUseAfterFree ==
    \A t \in Threads :
        /\ todo[t] # <<>> => Live(Head(todo[t]).obj)
        /\ Held(t) # Nothing => Live(Held(t))

\* A string borrowed from a Rust value can be read as long as the value is
\* there, although the holder that kept it alive has been given other strings.
BorrowsAlive == \A b \in lent : Live(b.text)

\* When no call is running, what is in memory is what the wrappers and the
\* string holders lead to: every path, failures included, frees the rest.
NothingLeaks ==
    (\A t \in Threads : Idle(t)) =>
        Heap = (UNION {Reach[o] : o \in ({wrapper[w] : w \in Wrappers}
                                          \cup {tls[t] : t \in Threads}) \ {Nothing}})
               \ Static

(***************************************************************************)
(* Counting references in these steps does what the interface promises: an *)
(* object is released only when no handle, last string or borrow leads to  *)
(* it, a tree comes into memory as a whole, and handles and strings are    *)
(* given only to what is in memory.                                        *)
(***************************************************************************)
Memory == INSTANCE Ownership WITH
    Objects <- Objects \ Static,
    heap <- Heap,
    last <- [t \in Threads |-> Held(t)]

KeepsPromise == Memory!Spec

=============================================================================
