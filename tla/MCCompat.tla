----------------------------- MODULE MCCompat -----------------------------
(***************************************************************************)
(* Instance of Compat: texts chosen for what the code asks of them, values *)
(* nested to three levels, and the structure YAML gives to lines.          *)
(***************************************************************************)
EXTENDS CompatText

----------------------------------------------------------------------------
(* Texts, by what Python and the dumper find in them. *)

T(int, float, first, special, tail) ==
    [int |-> int, float |-> float, first |-> first, special |-> special, tail |-> tail]

\* tail: what follows the first character that matters to a style
MCFacet(s) ==
    CASE s = "42" -> T("42", "42.0", "digit", FALSE, "")
      [] s = "-1" -> T("-1", "-1.0", "-", FALSE, "")
      [] s = "010" -> T(Absent, "10.0", "digit", FALSE, "")
      [] s = "1.5" -> T(Absent, "1.5", "digit", FALSE, "")
      [] s = "-1.5" -> T(Absent, "-1.5", "-", FALSE, "")
      [] s = "infinity" -> T(Absent, ".inf", "other", FALSE, "")
      [] s = ".inf" -> T(Absent, Absent, ".", FALSE, "")
      [] s = "-.inf" -> T(Absent, Absent, "-", FALSE, "")
      [] s = ".nan" -> T(Absent, Absent, ".", FALSE, "")
      [] s = "-x" -> T(Absent, Absent, "-", FALSE, "")
      [] s = "x " -> T(Absent, Absent, "other", FALSE, "space")
      [] s = "x-" -> T(Absent, Absent, "other", FALSE, "dash")
      [] s = "a: b" -> T(Absent, Absent, "other", TRUE, "colon")
      [] s = "a:b" -> T(Absent, Absent, "other", TRUE, "inner")
      [] s = "a\nb" -> T(Absent, Absent, "other", TRUE, "break")
      [] s = "it's" -> T(Absent, Absent, "other", TRUE, "odd")
      [] s = "a''b" -> T(Absent, Absent, "other", TRUE, "doubled")
      [] s = "%x" -> T(Absent, Absent, "%", FALSE, "")
      [] OTHER -> T(Absent, Absent, "other", FALSE, "")

MCTexts ==
    {"", "null", "true", "yes", "word", "42", "-1", "010", "1.5", "-1.5", "infinity",
     ".inf", "-.inf", ".nan", "-x", "x ", "x-", "a: b", "a:b", "a\nb", "it's", "a''b",
     "a'b", "%x", "k", "~"}

MCIntOf(s) == MCFacet(s).int
MCFloatOf(s) == MCFacet(s).float
MCFirst(s) == MCFacet(s).first
MCSpecial(s) == MCFacet(s).special
MCBreaks(s) == MCFacet(s).tail = "break"
MCSpaceEnds(s) == MCFacet(s).tail = "space"
MCHalved(s) ==
    CASE MCFacet(s).tail = "odd" -> Absent
      [] MCFacet(s).tail = "doubled" -> "a'b"
      [] OTHER -> s
MCFlowUnsafe(s) == MCFacet(s).tail \in {"colon", "inner", "dash", "space"}
MCBlockUnsafe(s) == MCFacet(s).tail \in {"colon", "break", "space"}
MCRest(s) ==
    CASE s = "-1" -> "1" [] s = "-1.5" -> "1.5" [] s = "-.inf" -> ".inf" [] OTHER -> "word"

----------------------------------------------------------------------------
(* The structure of lines, by YAML's rule for block collections: what is   *)
(* in a collection is right of it, except that a sequence may stand in the *)
(* column of the key before it.                                            *)

\* The marks of a line and their columns: a dash takes two.
Columns(l) ==
    [i \in DOMAIN l.marks |->
        [col |-> l.col + (IF i > 1 /\ l.marks[i - 1].mark = "key" THEN 100 ELSE 2 * (i - 1)),
         mark |-> l.marks[i]]]

Tokens(lines) == FlattenSeq([i \in DOMAIN lines |-> Columns(lines[i])])

\* The stretches of ts between its tokens of this mark and column.
Stretches(ts, starts) ==
    LET s == SetToSortSeq(starts \cup {Len(ts) + 1}, LAMBDA a, b : a < b)
    IN  [i \in 1..Len(s) - 1 |-> SubSeq(ts, s[i] + 1, s[i + 1] - 1)]

Right(ts, col) == \A i \in DOMAIN ts : ts[i].col > col

RECURSIVE Structure(_)

Structure(ts) ==
    IF ts = <<>> THEN ScalarNode(Yaml("plain", ""))
    ELSE LET first == ts[1]
             kind == first.mark.mark
             starts == {i \in DOMAIN ts : ts[i].col = first.col /\ ts[i].mark.mark = kind}
             inside == Stretches(ts, starts)
             nodes == [i \in DOMAIN inside |-> Structure(inside[i])]
             keys == SelectSeq(ts, LAMBDA t : t.col = first.col /\ t.mark.mark = "key")
             sits(s) == Right(s, first.col)
                        \/ (s[1].col = first.col /\ s[1].mark.mark = "dash"
                            /\ Right(Tail(s), first.col - 1))
         IN  CASE kind = "node" ->
                    IF Len(ts) = 1 THEN first.mark.node ELSE Unreadable
               [] kind = "dash" ->
                    IF (\A i \in DOMAIN inside : Right(inside[i], first.col))
                        /\ Unreadable \notin Range(nodes)
                    THEN Sequence("block", nodes) ELSE Unreadable
               [] kind = "key" ->
                    IF (\A i \in DOMAIN inside : inside[i] = <<>> \/ sits(inside[i]))
                        /\ Unreadable \notin Range(nodes)
                    THEN Mapping("block", [i \in DOMAIN nodes |->
                            <<ScalarNode(keys[i].mark.scalar), nodes[i]>>])
                    ELSE Unreadable
               [] OTHER -> Unreadable

MCRead(lines) == Structure(Tokens(lines))

----------------------------------------------------------------------------
(* Calls. *)

P(t, s) == [type |-> t, text |-> s]
L(items) == [type |-> "list", items |-> items]
D(pairs) == [type |-> "dict", pairs |-> pairs]

Values0 ==
    {Str(s) : s \in MCTexts}
        \cup {P("null", "null"), P("bool", "true"), P("int", "42"), P("int", "-1"),
              P("float", "1.5"), P("float", "-1.5"), P("float", ".inf"),
              P("float", "-.inf"), P("float", ".nan")}

Flat(v) == {L(<<v, Str("k")>>), D(<<<<v, P("int", "42")>>>>), D(<<<<Str("k"), v>>>>)}

One == P("int", "42")
Pair(v) == D(<<<<Str("k"), v>>, <<Str("word"), One>>>>)

Deep ==
    {L(<<>>), D(<<>>), Pair(One), L(<<Pair(One), Pair(L(<<One, One>>))>>),
     Pair(L(<<One, L(<<One>>)>>)), Pair(L(<<>>)), Pair(D(<<>>)),
     Pair(Pair(L(<<Pair(One)>>))), L(<<L(<<One>>), D(<<>>), Pair(D(<<<<One, L(<<>>)>>>>))>>),
     D(<<<<Str("k"), L(<<>>)>>>>), L(<<L(<<L(<<One, Str("42")>>)>>), One>>)}

Config(fields) == [parses |-> TRUE, mapping |-> TRUE, fields |-> fields]

NoConfig == Config(<<>>)

Layouts ==
    {Config([indent |-> Number(i), compactSequenceMap |-> Bool(c), omitEmpty |-> Bool(o),
             defaultStyle |-> Word(d)]) :
        i \in {0, 1, 2, 4}, c \in BOOLEAN, o \in BOOLEAN, d \in {"block", "flow"}}

OtherConfigs ==
    {[parses |-> FALSE, mapping |-> FALSE, fields |-> <<>>],
     [parses |-> TRUE, mapping |-> FALSE, fields |-> <<>>],
     NoConfig,
     Config([indent |-> Number(-1)]), Config([indent |-> Bool(TRUE)]),
     Config([sortKeys |-> Number(1)]), Config([lineWidth |-> Number(120)]),
     Config([scalarStyle |-> Word("auto")]), Config([scalarStyle |-> Word("preserved")]),
     Config([scalarStyle |-> Word("doubleQuoted"), indent |-> Number(4)]),
     Config([scalarStyle |-> Word("singleQuoted")]),
     Config([allowReservedPlain |-> Bool(FALSE)]),
     Config([unknown |-> Word("small"), indent |-> Number(4)]),
     Config([unknown |-> [type |-> "oversize"]])}

Call(docs, config) == [docs |-> docs, config |-> config]

MCCalls ==
    {Call(<<v>>, NoConfig) : v \in Values0 \cup UNION {Flat(v) : v \in Values0}}
        \cup {Call(<<v>>, c) : v \in Deep, c \in Layouts}
        \cup {Call(<<v>>, c) : v \in Values0, c \in OtherConfigs \cup {Config([defaultStyle |-> Word("flow")])}}
        \cup {Call(<<v, w>>, NoConfig) : v, w \in {Str("word"), Str("it's"), Pair(One), L(<<>>), One}}
        \cup {Call(<<One, Str("%x"), One>>, NoConfig), Call(<<One, Str("x"), Str("42")>>, NoConfig),
              Call(<<>>, NoConfig)}

=============================================================================
