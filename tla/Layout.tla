------------------------------ MODULE Layout ------------------------------
(***************************************************************************)
(* Where the two writers put things.  compat.py writes a Python value as   *)
(* block collections two columns apart (_dump_sequence, _dump_mapping);    *)
(* Dump.lean writes the value parsed from that as its configuration says.  *)
(*                                                                         *)
(* A text is a sequence of lines, a line the column it starts at and its   *)
(* marks: dashes and keys, then a scalar or a flow collection.  A Python   *)
(* list has items, a dict pairs; a YAML collection has its style too.      *)
(* Anchors, tags and comments do not come from Python values.              *)
(***************************************************************************)
EXTENDS Scalars, Integers, Sequences, SequencesExt

Dash == [mark |-> "dash"]
Key(y) == [mark |-> "key", scalar |-> y]
Inline(node) == [mark |-> "node", node |-> node]

Line(col, marks) == [col |-> col, marks |-> marks]

ScalarNode(y) == [kind |-> "scalar", scalar |-> y]
Sequence(style, items) == [kind |-> "sequence", style |-> style, items |-> items]
Mapping(style, pairs) == [kind |-> "mapping", style |-> style, pairs |-> pairs]

Contents(v) == IF v.type = "list" THEN v.items ELSE v.pairs
IsCollection(v) == v.type \in {"list", "dict"}
Nested(v) == IsCollection(v) /\ Contents(v) # <<>>

----------------------------------------------------------------------------
(* compat.py. *)

\* A scalar, `[]` or `{}`.
InlinePython(v) ==
    IF v.type = "list" THEN Inline(Sequence("flow", <<>>))
    ELSE IF v.type = "dict" THEN Inline(Mapping("flow", <<>>))
    ELSE Inline(ScalarNode(Written(v)))

RECURSIVE PythonLines(_, _)

\* Behind a dash or a key: on its line, or on lines of their own one level in.
Behind(mark, v, indent) ==
    IF Nested(v) THEN <<Line(2 * indent, <<mark>>)>> \o PythonLines(v, indent + 1)
    ELSE <<Line(2 * indent, <<mark, InlinePython(v)>>)>>

\* _python_to_yaml
PythonLines(v, indent) ==
    IF ~Nested(v) THEN <<Line(0, <<InlinePython(v)>>)>>
    ELSE FlattenSeq([i \in DOMAIN Contents(v) |->
            IF v.type = "list" THEN Behind(Dash, v.items[i], indent)
            ELSE Behind(Key(Written(v.pairs[i][1])), v.pairs[i][2], indent)])

----------------------------------------------------------------------------
(* Dump.lean. *)

IsEmpty(n) == n.kind # "scalar" /\ (IF n.kind = "sequence" THEN n.items ELSE n.pairs) = <<>>

IsInline(n) == n.kind = "scalar" \/ n.style = "flow"

RECURSIVE Flowing(_, _)

DumpedScalar(n, cfg, flow) ==
    ScalarNode(Redumped(n.scalar, cfg.scalarStyle, cfg.allowReservedPlain, flow))

\* All that is inside a flow collection is flow.
Flowing(n, cfg) ==
    CASE n.kind = "scalar" -> DumpedScalar(n, cfg, TRUE)
      [] n.kind = "sequence" ->
            Sequence("flow", [i \in DOMAIN n.items |-> Flowing(n.items[i], cfg)])
      [] n.kind = "mapping" ->
            Mapping("flow", [i \in DOMAIN n.pairs |->
                <<Flowing(n.pairs[i][1], cfg), Flowing(n.pairs[i][2], cfg)>>])

RECURSIVE DumpLines(_, _, _)

\* The first line of a value goes behind the mark, the others stay.
After(mark, lines, col) ==
    <<Line(col, <<mark>> \o lines[1].marks)>> \o Tail(lines)

Placed(mark, sameLine, n, cfg, depth) ==
    LET lines == DumpLines(n, cfg, depth + 1)
    IN  IF sameLine THEN After(mark, lines, depth * cfg.indent)
        ELSE <<Line(depth * cfg.indent, <<mark>>)>> \o lines

\* dumpBlockList: a mapping may start on the line of its dash.
BlockItem(n, cfg, depth) ==
    Placed(Dash,
           IsInline(n) \/ (cfg.compactSequenceMap /\ n.kind = "mapping"),
           n, cfg, depth)

\* dumpBlockPairs
BlockPair(key, n, cfg, depth) ==
    Placed(Key(DumpedScalar(key, cfg, FALSE).scalar), IsInline(n), n, cfg, depth)

Kept(pairs, cfg) ==
    SelectSeq(pairs, LAMBDA p : ~(cfg.omitEmpty /\ IsEmpty(p[2])))

BlockLines(n, cfg, depth) ==
    IF n.kind = "sequence"
    THEN FlattenSeq([i \in DOMAIN n.items |-> BlockItem(n.items[i], cfg, depth)])
    ELSE LET pairs == Kept(n.pairs, cfg)
         IN  FlattenSeq([i \in DOMAIN pairs |->
                BlockPair(pairs[i][1], pairs[i][2], cfg, depth)])

\* dumpValue
DumpLines(n, cfg, depth) ==
    IF n.kind = "scalar"
    THEN <<Line(depth * cfg.indent, <<Inline(DumpedScalar(n, cfg, FALSE))>>)>>
    ELSE IF n.style = "flow" \/ cfg.defaultStyle = "flow"
    THEN <<Line(depth * cfg.indent, <<Inline(Flowing(n, cfg))>>)>>
    ELSE IF BlockLines(n, cfg, depth) = <<>>
    THEN <<Line(depth * cfg.indent,
                <<Inline(IF n.kind = "sequence" THEN Sequence("flow", <<>>)
                         ELSE Mapping("flow", <<>>))>>)>>
    ELSE BlockLines(n, cfg, depth)

----------------------------------------------------------------------------
(* Nodes and values. *)

RECURSIVE ScalarsOf(_)

ScalarsOf(n) ==
    CASE n.kind = "scalar" -> {n.scalar}
      [] n.kind = "sequence" -> UNION {ScalarsOf(n.items[i]) : i \in DOMAIN n.items}
      [] n.kind = "mapping" ->
            UNION {ScalarsOf(n.pairs[i][1]) \cup ScalarsOf(n.pairs[i][2]) :
                        i \in DOMAIN n.pairs}

RECURSIVE Reread(_)

\* n with its scalars as they are read where _quote_scalar wrote them.
Reread(n) ==
    CASE n.kind = "scalar" -> ScalarNode(ReadBack(n.scalar))
      [] n.kind = "sequence" ->
            Sequence(n.style, [i \in DOMAIN n.items |-> Reread(n.items[i])])
      [] n.kind = "mapping" ->
            Mapping(n.style, [i \in DOMAIN n.pairs |->
                <<Reread(n.pairs[i][1]), Reread(n.pairs[i][2])>>])

RECURSIVE PythonScalars(_)

PythonScalars(v) ==
    CASE v.type = "list" -> UNION {PythonScalars(v.items[i]) : i \in DOMAIN v.items}
      [] v.type = "dict" ->
            UNION {{v.pairs[i][1]} \cup PythonScalars(v.pairs[i][2]) : i \in DOMAIN v.pairs}
      [] OTHER -> {v}

RECURSIVE ToPython(_)

ToPython(n) ==
    CASE n.kind = "scalar" -> ScalarToPython(n.scalar)
      [] n.kind = "sequence" ->
            [type |-> "list", items |-> [i \in DOMAIN n.items |-> ToPython(n.items[i])]]
      [] n.kind = "mapping" ->
            [type |-> "dict", pairs |-> [i \in DOMAIN n.pairs |->
                <<ScalarToPython(n.pairs[i][1].scalar), ToPython(n.pairs[i][2])>>]]

=============================================================================
