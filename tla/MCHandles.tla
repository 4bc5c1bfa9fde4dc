----------------------------- MODULE MCHandles -----------------------------
(***************************************************************************)
(* Two texts that parse and one that does not: `- &a x` with `- *a`, whose *)
(* value refers twice to one scalar, a stream of two documents, and an     *)
(* error.  A formatted string is free whenever a thread makes one: each    *)
(* thread holds one at most and only replaces it afterwards.               *)
(***************************************************************************)
EXTENDS HandlesProperties

CONSTANTS t1, t2, w1, w2,
          single, several, failed, docs, sequence, scalar, first, second,
          text, null, f1, f2, f3

MCFields(o) ==
    CASE o = single -> <<sequence>>
      [] o = sequence -> <<scalar, scalar>>
      [] o = scalar -> <<text>>
      [] o = several -> <<docs>>
      [] o = docs -> <<first, second>>
      [] OTHER -> <<>>

MCThreads == {t1, t2}
MCWrappers == {w1, w2}
MCResults == {single, several, failed}
MCArrays == {docs}
MCNodes == {sequence, scalar, first, second, null}
MCStrings == {text, f1, f2, f3}
MCStatic == {null}

\* Threads and wrappers are interchangeable.
Symmetry == Permutations(MCThreads) \cup Permutations(MCWrappers)

=============================================================================
