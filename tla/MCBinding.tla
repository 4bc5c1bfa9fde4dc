----------------------------- MODULE MCBinding -----------------------------
(***************************************************************************)
(* Instance of Binding: two threads and two places in the search order, of *)
(* which the second is the build directory.                                *)
(***************************************************************************)
EXTENDS Binding

MCSearch == <<"env", "out">>

\* L4YAML_LIB is unset, and nothing is built or a library that is too old is;
\* or it is set to a file that cannot be opened, which hides the one built.
MCInstalled ==
    {[env |-> "missing", out |-> "missing"],
     [env |-> "missing", out |-> "old"],
     [env |-> "broken", out |-> "current"]}

=============================================================================
