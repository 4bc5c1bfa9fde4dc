------------------------------ MODULE Scalars ------------------------------
(***************************************************************************)
(* Scalars on their way through compat.py and back: which Python value a   *)
(* plain scalar stands for, how a value is written, and how the dumper     *)
(* (Dump.lean) chooses the style it is written in the second time.         *)
(*                                                                         *)
(* A text is opaque: what the code asks of its characters is given by the  *)
(* constant operators, its words are compared as the code compares them.   *)
(* A Python scalar is its type and its canonical text, a YAML scalar its   *)
(* style and its content.                                                  *)
(***************************************************************************)

CONSTANTS
    Texts,
    IntOf(_),      \* the text of int(s, 0), or Absent for ValueError
    FloatOf(_),    \* the text of repr(float(s)), or Absent for ValueError
    First(_),      \* the first character, "digit" or "other"
    Special(_),    \* holds a character _quote_scalar looks for
    Breaks(_),     \* holds a line break (a tab, quoted like one, counts as one)
    SpaceEnds(_),  \* ends in a space
    Halved(_),     \* what '...' around the text reads back as, or Absent
    FlowUnsafe(_), \* holds a colon, or ends in `-` or a space
    BlockUnsafe(_),\* isPlainSafe's tests of all but the first character fail
    Rest(_),       \* the text without its first character
    Absent         \* no text

ASSUME AbsentAssumption == Absent \notin Texts

TrueWords == {"true", "True", "TRUE"}
FalseWords == {"false", "False", "FALSE"}
NullWords == {"null", "Null", "NULL", "~", ""}
PosInfWords == {".inf", ".Inf", ".INF", "+.inf", "+.Inf", "+.INF"}
NegInfWords == {"-.inf", "-.Inf", "-.INF"}
NanWords == {".nan", ".NaN", ".NAN"}

Python(type, text) == [type |-> type, text |-> text]
Str(s) == Python("str", s)

Yaml(style, content) == [style |-> style, content |-> content]

----------------------------------------------------------------------------
(* Reading. *)

LooksInt(s) == First(s) \in {"+", "-", "digit"} /\ IntOf(s) # Absent
LooksFloat(s) == First(s) \in {"+", "-", ".", "digit"} /\ FloatOf(s) # Absent

\* _coerce_scalar
Coerced(s) ==
    IF s \in NullWords THEN Python("null", "null")
    ELSE IF s \in TrueWords THEN Python("bool", "true")
    ELSE IF s \in FalseWords THEN Python("bool", "false")
    ELSE IF LooksInt(s) THEN Python("int", IntOf(s))
    ELSE IF s \in PosInfWords THEN Python("float", ".inf")
    ELSE IF s \in NegInfWords THEN Python("float", "-.inf")
    ELSE IF s \in NanWords THEN Python("float", ".nan")
    ELSE IF LooksFloat(s) THEN Python("float", FloatOf(s))
    ELSE Str(s)

\* _scalar_to_python: only a plain scalar is resolved.
ScalarToPython(y) ==
    IF y.style = "plain" THEN Coerced(y.content) ELSE Str(y.content)

----------------------------------------------------------------------------
(* Writing. *)

\* Mutant: only the words of null, true and false are looked for.
MisreadsWords(s) ==
    \/ s \in NullWords \cup TrueWords \cup FalseWords
    \/ IntOf(s) # Absent
    \/ FloatOf(s) # Absent

\* Would be taken for a null, a bool or a number.
Misreads(s) ==
    \/ s \in NullWords \cup TrueWords \cup FalseWords
    \/ s \in PosInfWords \cup NegInfWords \cup NanWords
    \/ IntOf(s) # Absent
    \/ FloatOf(s) # Absent

\* _quote_scalar: between single quotes nothing is escaped.
Quoting(s) ==
    IF Misreads(s) THEN "single"
    ELSE IF Special(s) THEN IF Breaks(s) THEN "double" ELSE "single"
    ELSE IF First(s) \in {"-", "?", " "} \/ SpaceEnds(s) THEN "single"
    ELSE "plain"

\* What _python_to_yaml writes for a value that is not a collection.
Written(p) == Yaml(IF p.type = "str" THEN Quoting(p.text) ELSE "plain", p.text)

\* No plain scalar starts so; of `...`, a document marker where a line begins,
\* nothing is said.
Unstartable(s) == First(s) \in {"%", "@", "backquote"}

\* What is read where y was written; Absent if nothing can be.
ReadBack(y) ==
    IF y.style = "single" /\ Halved(y.content) = Absent THEN Absent
    ELSE IF y.style = "single" THEN Yaml("single", Halved(y.content))
    ELSE IF y.style = "plain" /\ Unstartable(y.content) THEN Absent
    ELSE y

----------------------------------------------------------------------------
(* The dumper's choice. *)

ReservedWords ==
    {"true", "false", "null", "True", "False", "Null", "TRUE", "FALSE", "NULL",
     "yes", "no", "Yes", "No", "YES", "NO", "~"}

Indicators ==
    {"-", "?", ":", ",", "[", "]", "{", "}", "#", "&", "*", "!", "|", ">", "'",
     "quote", "%", "@", "backquote"}

PlainSafe(s, allowReserved) ==
    /\ s # ""
    /\ First(s) \notin Indicators \cup {" "}
    /\ ~BlockUnsafe(s)
    /\ allowReserved \/ s \notin ReservedWords

PlainSafePreserve(s, allowReserved) ==
    \/ PlainSafe(s, allowReserved)
    \/ First(s) = "-" /\ First(Rest(s)) # " " /\ PlainSafe(Rest(s), allowReserved)

\* chooseScalarStyle under `preserve`, in a block or in a flow collection; what
\* compat.py wrote has neither the literal nor the folded style.
Preserved(y, allowReserved, flow) ==
    CASE y.style = "double" -> "double"
      [] y.style = "single" -> IF Breaks(y.content) THEN "double" ELSE "single"
      [] y.style = "plain" ->
            IF /\ ~Breaks(y.content)
               /\ PlainSafePreserve(y.content, allowReserved)
               /\ flow => ~FlowUnsafe(y.content)
            THEN "plain" ELSE "double"

\* ... and under the other preferences.
Chosen(y, pref, allowReserved, flow) ==
    CASE pref = "preserve" -> Preserved(y, allowReserved, flow)
      [] pref = "doubleQuoted" -> "double"
      [] pref = "singleQuoted" -> IF Breaks(y.content) THEN "double" ELSE "single"
      [] pref = "auto" /\ Breaks(y.content) -> IF flow THEN "double" ELSE "literal"
      [] pref = "plain" \/ (pref = "auto" /\ ~Breaks(y.content)) ->
            IF /\ PlainSafe(y.content, allowReserved)
               /\ flow => ~FlowUnsafe(y.content)
            THEN "plain" ELSE "double"

\* What is read where the dumper wrote y: its single quotes are doubled inside.
Redumped(y, pref, allowReserved, flow) ==
    Yaml(Chosen(y, pref, allowReserved, flow), y.content)

=============================================================================
