----------------------------- MODULE CompatText -----------------------------
(***************************************************************************)
(* Compat with the writers of Layout and a parser, which gives lines the   *)
(* structure their columns have: what the parameters of Compat stand for.  *)
(***************************************************************************)
EXTENDS Compat, Layout

CONSTANTS Read(_) \* the node a document's lines stand for, or Unreadable

SerializedText(v) == PythonLines(v, 0)

\* load(yaml_str, limits="unlimited"): each scalar has to be readable, too.
ParsedText(lines) ==
    IF \/ Read(lines) = Unreadable
       \/ \E y \in ScalarsOf(Read(lines)) : ReadBack(y) = Absent
    THEN Unreadable
    ELSE Reread(Read(lines))

DumpedText(n, cfg) == DumpLines(n, cfg, 0)

LoadedText(lines) ==
    IF Read(lines) = Unreadable THEN Unreadable ELSE ToPython(Read(lines))

\* The texts _quote_scalar writes so that they can be read back: between single
\* quotes it leaves apostrophes alone, and %, @ and ` it does not look for.
FaithfulText(v) ==
    \A p \in PythonScalars(v) : p.type = "str" =>
        /\ Quoting(p.text) = "single" => Halved(p.text) = p.text
        /\ Quoting(p.text) = "plain" => ~Unstartable(p.text)

=============================================================================
