-------------------------- MODULE SuiteProperties --------------------------
(***************************************************************************)
(* What gen-suite-guards.py promises: it reads the test files as the suite *)
(* runner does, reads what they say, and its guards say what was observed. *)
(***************************************************************************)
EXTENDS SuiteGuards, FiniteSets

\* The types; nothing stays open when a file ends; only tests that are to fail
\* are asked about, and a run that is aborted has written nothing.
TypeOK ==
    /\ at \in {"read", "classify", "probe", "generate", "done", "aborted"}
    /\ current_field \in {"none", "yaml", "tree", "other"}
    /\ block_indent \in Nat /\ (current_field = "none" => block_indent = 0)
    /\ variant_counter = Len(cases) + (IF in_item THEN 1 ELSE 0)
    /\ text = <<>> => cases = <<>> /\ ~in_item /\ current_field = "none"
    /\ DOMAIN by_stage = Stages /\ DOMAIN output = Stages
    /\ up_variants \subseteq {Key(all_tests[i]) : i \in ToProbe}
    /\ at # "done" => output = [s \in Stages |-> Earlier]

----------------------------------------------------------------------------
(* The suite runner reads the same cases. *)

Unnamed(c) ==
    [tags |-> c.tags, expectFail |-> c.expect_fail, yaml |-> c.yaml, tree |-> c.tree,
     variant |-> c.variant]

UnnamedAll(cs) == [i \in DOMAIN cs |-> Unnamed(cs[i])]

Meta == INSTANCE SuiteMeta WITH
    lines <- text,
    st <- [cases |-> UnnamedAll(cases), current |-> Unnamed(current),
           inItem |-> in_item, field |-> current_field, blockIndent |-> block_indent],
    results <- UnnamedAll(all_tests)

\* Line by line, the script's parser is in the state the suite runner's parser
\* is in, and numbers variants as it does (parse_test_file, "Replicates the
\* Meta.lean state machine parser").
KeepsMeta == Meta!Spec

----------------------------------------------------------------------------
(* What a file says, without going through it line by line. *)

IsBlank(line) == line.key = ""

Blank == [key |-> ""]

IsHeader(line) == line.key \in {"yaml", "tree", "other"} /\ line.value = Header

\* The column of the content after the header on line h of t: of the first line
\* that is not blank, if that is content at all.
Width(t, h) ==
    LET filled == {i \in h + 1 .. Len(t) : ~IsBlank(t[i])}
        first == CHOOSE i \in filled : \A j \in filled : i <= j
    IN  IF filled = {} \/ t[first].indent < 4 THEN 4 ELSE t[first].indent

Reaches(t, h, i) ==
    \A j \in h + 1 .. i : IsBlank(t[j]) \/ t[j].indent >= Width(t, h)

\* The lines inside of block scalars.
Inside(t) ==
    LET inside[i \in DOMAIN t] ==
            \E h \in 1 .. i - 1 : IsHeader(t[h]) /\ ~inside[h] /\ Reaches(t, h, i)
    IN  {i \in DOMAIN t : inside[i]}

Outside(t) == DOMAIN t \ Inside(t)

\* A line of content: a newline, or what is right of this column and a newline.
Content(line, column) ==
    IF IsBlank(line) THEN Blank ELSE [line EXCEPT !.indent = @ - column]

Body(t, h) ==
    LET lines == {i \in h + 1 .. Len(t) : Reaches(t, h, i)}
    IN  [k \in 1 .. Cardinality(lines) |-> Content(t[h + k], Width(t, h))]

Items(t) == {i \in Outside(t) : t[i].item}

Rank(t, i) == Cardinality({k \in Items(t) : k <= i})

\* An item ends at the next one, or at a separator.
Ends(t, i, j) ==
    \E k \in i + 1 .. j : k \in Outside(t) /\ (t[k].item \/ t[k].key = "---")

LinesOf(t, i) == {j \in Outside(t) : i <= j /\ ~Ends(t, i, j)}

LastSetting(t, i, key) ==
    LET set == {j \in LinesOf(t, i) : t[j].key = key /\ t[j].value # None}
    IN  IF set = {} THEN 0 ELSE CHOOSE j \in set : \A k \in set : k <= j

YamlOf(t, i) ==
    LET j == LastSetting(t, i, "yaml")
    IN  IF j = 0 THEN <<>>
        ELSE IF t[j].value = Header THEN Body(t, j)
        ELSE <<t[j].value>>

FailsOf(t, i) ==
    LET j == LastSetting(t, i, "fail")
    IN  j # 0 /\ t[j].value = "true"

\* No block scalar starts with blank lines that have leading spaces: the first
\* of these, not the first content line, would set its column.
NoRaggedStart(t) ==
    \A h \in Outside(t) : IsHeader(t[h]) =>
        \A i \in h + 1 .. Len(t) :
            (\A j \in h + 1 .. i : IsBlank(t[j])) => t[i].indent = 0

\* Each item of a file, and nothing else, is a test: with the text of its own
\* yaml field, less the indentation of the field, and its own verdict, whatever
\* lines that look like fields, items or separators the text has.
CasesAsWritten ==
    NoRaggedStart(text) =>
        /\ Len(Finalized) = Cardinality(Items(text))
        /\ \A i \in Items(text) :
            LET n == Rank(text, i)
            IN  /\ Finalized[n].yaml = YamlOf(text, i)
                /\ Finalized[n].expect_fail = FailsOf(text, i)
                /\ Finalized[n].variant = n - 1

----------------------------------------------------------------------------

\* A guard for a test that is to fail expects what the built parser answered to
\* that very text, and every test that is not skipped has one guard, in one
\* stage (main, "the guards verify observed behavior rather than metadata").
GuardsHold ==
    at = "done" =>
        LET written == {s \in Stages : output[s] # Earlier}
            guards == {g \in Stages \X DOMAIN all_tests :
                            g[1] \in written /\ g[2] \in DOMAIN output[g[1]]}
            guard(g) == output[g[1]][g[2]]
        IN  written # {} =>
            /\ \A i \in DOMAIN all_tests : ~Skipped(all_tests[i]) =>
                 Cardinality({g \in guards : /\ guard(g).test = Key(all_tests[i])
                                             /\ guard(g).yaml = all_tests[i].yaml}) = 1
            /\ \A i \in ToProbe, g \in guards :
                 (parser # Missing /\ guard(g).test = Key(all_tests[i])) =>
                    guard(g).expects =
                        IF Answer(parser, all_tests[i].yaml) = "accepts" THEN "ok" ELSE "error"

=============================================================================
