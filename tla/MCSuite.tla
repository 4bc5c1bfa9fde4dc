------------------------------ MODULE MCSuite ------------------------------
(***************************************************************************)
(* Instance of SuiteProperties: two test files, of five lines and of two,  *)
(* and parsers that tell the texts apart.                                  *)
(***************************************************************************)
EXTENDS SuiteProperties

MCLine(indent, item, key, value) ==
    [indent |-> indent, item |-> item, key |-> key, value |-> value]

X == [inline |-> "x"]

MCLines ==
    {MCLine(0, FALSE, "", None), MCLine(6, FALSE, "", None),
     MCLine(0, FALSE, "---", None), MCLine(4, FALSE, "---", None),
     MCLine(0, TRUE, "yaml", X), MCLine(4, TRUE, "fail", "true"),
     MCLine(6, FALSE, "cosmetic", None),
     MCLine(2, FALSE, "fail", "true"), MCLine(2, FALSE, "yaml", Header),
     MCLine(2, FALSE, "other", Header),
     MCLine(2, FALSE, "tags", {"1.3-err", "flow"})}

MCIds == <<"6VJK", "9C9N">>
MCMaxLines == <<5, 2>>

\* Blank lines and lines of markers that unescaping removes.
MCInvisible(piece) == "key" \in DOMAIN piece /\ piece.key \in {"", "cosmetic"}

\* The lenient parser accepts what is on one line, and the slow one does not
\* answer to more.
MCAnswer(p, yaml) ==
    IF Len(yaml) = 1 THEN IF p = "strict" THEN "rejects" ELSE "accepts"
    ELSE IF p = "slow" THEN "slow" ELSE "rejects"

=============================================================================
