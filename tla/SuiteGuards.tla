---------------------------- MODULE SuiteGuards ----------------------------
(***************************************************************************)
(* gen-suite-guards.py: reads the test files line by line, sorts the tests *)
(* into stages, asks the built parser (tryparse) about the tests that are  *)
(* to fail, and writes one file of guards per stage when all is known.     *)
(*                                                                         *)
(* A file's lines come one at a time, as records (see SuiteMeta); a name,  *)
(* a comment and the text of a guard's literal are left out.               *)
(***************************************************************************)
EXTENDS SequencesExt, Integers

CONSTANTS
    Ids,             \* the test files, in their order
    Lines,
    Header,          \* the value `|` of a line that opens a block scalar
    None,            \* the value of a line without `: `
    Include13,       \* YAML_1_3_INCLUDE
    Invisible(_),    \* a piece of text of which unescaping leaves whitespace
    Parsers,         \* the tryparse that may be built, and Missing
    Missing,
    Answer(_, _),    \* of a parser to a text: "accepts", "rejects", "slow"
    MaxLines         \* bounds the lines of each file

\* There are files, and the files of a directory have different names.
ASSUME IdsAssumption ==
    Ids \in Seq(STRING) /\ Ids # <<>> /\ \A i, j \in DOMAIN Ids : Ids[i] = Ids[j] => i = j

ASSUME LinesAssumption ==
    \A line \in Lines : line.indent \in Nat /\ line.item \in BOOLEAN

\* A line without a value is not named like a field: Meta.lean would give the
\* field an empty value, gen-suite-guards.py ignores the line.
ASSUME BareAssumption ==
    \A line \in Lines :
        line.value = None => line.key \notin {"tags", "fail", "yaml", "tree"}

VARIABLES
    at,              \* what main is doing
    file,            \* the number of the file being read
    text,            \* its lines so far
    cases, current, in_item, current_field, block_indent, variant_counter,
    all_tests,
    by_stage,        \* the tests of each stage, by their places in all_tests
    parser,          \* tryparse_bin
    probed,          \* the place of the last test that was asked about, or 0
    up_variants,
    output           \* L4YAML/Proofs/SuiteGuards: the guards of each stage

parse_vars == <<cases, current, in_item, current_field, block_indent, variant_counter>>
vars == <<at, file, text, parse_vars, all_tests, by_stage, parser, probed, up_variants, output>>

----------------------------------------------------------------------------
(* parse_test_file. *)

NoCase == [id |-> "", tags |-> {}, expect_fail |-> FALSE, yaml |-> <<>>, tree |-> <<>>,
           variant |-> 0]

InBlock == current_field # "none"

\* Mutant: a separator ends a block scalar too.
ContinuesToSeparator(line) ==
    /\ InBlock /\ line.key # "---"
    /\ \/ line.key = ""
       \/ block_indent > 0 /\ line.indent >= block_indent
       \/ block_indent = 0 /\ line.indent >= 4

\* Without a base, content is four columns in or more.
Continues(line) ==
    /\ InBlock
    /\ \/ line.key = ""
       \/ block_indent > 0 /\ line.indent >= block_indent
       \/ block_indent = 0 /\ line.indent >= 4

Read(line) ==
    /\ at = "read"
    /\ Len(text) < MaxLines[file]
    /\ text' = Append(text, line)
    /\ UNCHANGED <<at, file, all_tests, by_stage, parser, probed, up_variants, output>>

\* Mutant: every line of content is stripped of its own indentation.
BlockLineStripped(line) ==
    /\ Continues(line) /\ Read(line)
    /\ block_indent' = (IF line.key = "" THEN block_indent ELSE line.indent)
    /\ current' = IF current_field = "other" THEN current
                  ELSE [current EXCEPT ![current_field] =
                            Append(@, IF line.key = "" THEN [key |-> ""]
                                      ELSE [line EXCEPT !.indent = 0])]
    /\ UNCHANGED <<cases, in_item, current_field, variant_counter>>

\* process_block_line: the first line that has leading spaces sets the base.
BlockLine(line) ==
    /\ Continues(line) /\ Read(line)
    /\ block_indent' = (IF block_indent = 0 THEN line.indent ELSE block_indent)
    /\ current' = IF current_field = "other" THEN current
                  ELSE [current EXCEPT ![current_field] =
                            Append(@, IF line.key = "" THEN [key |-> ""]
                                      ELSE [line EXCEPT !.indent = @ - block_indent'])]
    /\ UNCHANGED <<cases, in_item, current_field, variant_counter>>

\* finalize_item
Finalized == IF in_item THEN Append(cases, current) ELSE cases

SeparatorLine(line) ==
    /\ ~Continues(line) /\ Read(line)
    /\ line.key = "---" /\ ~line.item
    /\ cases' = Finalized
    /\ current' = IF in_item THEN NoCase ELSE current
    /\ in_item' = FALSE /\ current_field' = "none" /\ block_indent' = 0
    /\ UNCHANGED variant_counter

\* process_key_value in the case c; a line without a colon changes nothing.
WithField(c, key, value) ==
    CASE value = None -> c
      [] key = "tags" /\ value # None -> [c EXCEPT !.tags = value]
      [] key = "fail" /\ value # None -> [c EXCEPT !.expect_fail = (value = "true")]
      [] key \in {"yaml", "tree"} /\ value # None ->
            [c EXCEPT ![key] = IF value = Header THEN <<>> ELSE <<value>>]
      [] OTHER -> c

Opened(line) ==
    IF line.key \in {"yaml", "tree", "other"} /\ line.value = Header THEN line.key ELSE "none"

\* Mutant: variants are not counted.
ItemLineUncounted(line) ==
    /\ ~Continues(line) /\ Read(line)
    /\ line.item
    /\ cases' = Finalized
    /\ current' = WithField([NoCase EXCEPT !.id = Ids[file], !.variant = variant_counter],
                            line.key, line.value)
    /\ current_field' = Opened(line)
    /\ in_item' = TRUE /\ block_indent' = 0
    /\ UNCHANGED variant_counter

ItemLine(line) ==
    /\ ~Continues(line) /\ Read(line)
    /\ line.item
    /\ cases' = Finalized
    /\ current' = WithField([NoCase EXCEPT !.id = Ids[file], !.variant = variant_counter],
                            line.key, line.value)
    /\ current_field' = Opened(line)
    /\ in_item' = TRUE /\ block_indent' = 0
    /\ variant_counter' = variant_counter + 1

FieldLine(line) ==
    /\ ~Continues(line) /\ Read(line)
    /\ ~line.item /\ line.key # "---"
    /\ current' = WithField(current, line.key, line.value)
    /\ current_field' = Opened(line)
    /\ block_indent' = 0
    /\ UNCHANGED <<cases, in_item, variant_counter>>

\* Mutant: the last item of a file is still open when the next file begins.
FreshInItem ==
    /\ cases' = <<>> /\ current' = NoCase /\ UNCHANGED in_item
    /\ current_field' = "none" /\ block_indent' = 0 /\ variant_counter' = 0

Fresh ==
    /\ cases' = <<>> /\ current' = NoCase /\ in_item' = FALSE
    /\ current_field' = "none" /\ block_indent' = 0 /\ variant_counter' = 0

\* The file ends: its cases get its name.
EndOfFile ==
    /\ at = "read"
    /\ all_tests' = all_tests \o [i \in DOMAIN Finalized |->
                                    [Finalized[i] EXCEPT !.id = Ids[file]]]
    /\ Fresh
    /\ text' = <<>>
    /\ file' = file + 1
    /\ at' = IF file = Len(Ids) THEN "classify" ELSE "read"
    /\ UNCHANGED <<by_stage, parser, probed, up_variants, output>>

----------------------------------------------------------------------------
(* Stages. *)

\* classify_stage
TagStage(tags) ==
    LET tagged(some) == tags \cap some # {}
    IN  IF tagged({"error"}) THEN "error"
        ELSE IF tagged({"anchor", "alias", "tag", "complex-key", "explicit-key"})
        THEN "advanced"
        ELSE IF tagged({"directive", "footer", "header", "document"}) THEN "document"
        ELSE IF tagged({"flow"}) THEN "flow"
        ELSE IF tagged({"scalar", "double", "single", "literal", "folded"}) THEN "scalar"
        ELSE "block"

Stages == {"scalar", "flow", "block", "document", "advanced", "error"}

\* should_skip
Skipped(tc) ==
    \/ \A i \in DOMAIN tc.yaml : Invisible(tc.yaml[i])
    \/ tc.tags \cap {"1.3-err", "1.3-mod"} # {} /\ tc.id \notin Include13

StageOf(tc) == IF tc.expect_fail THEN "error" ELSE TagStage(tc.tags)

Classify ==
    /\ at = "classify"
    /\ by_stage' = [s \in Stages |->
            {i \in DOMAIN all_tests : ~Skipped(all_tests[i]) /\ StageOf(all_tests[i]) = s}]
    /\ \E p \in Parsers : parser' = p /\ at' = IF p = Missing THEN "generate" ELSE "probe"
    /\ UNCHANGED <<file, text, parse_vars, all_tests, probed, up_variants, output>>

----------------------------------------------------------------------------
(* Asking the parser. *)

ToProbe == {i \in by_stage["error"] : all_tests[i].expect_fail}

\* Tests are asked about in their order.
IsNext(i) == i \in ToProbe /\ probed < i /\ \A j \in ToProbe : probed < j => i <= j

Key(tc) == <<tc.id, tc.variant>>

Probe ==
    /\ at = "probe"
    /\ \E i \in ToProbe :
        LET answer == Answer(parser, all_tests[i].yaml)
        IN  /\ IsNext(i) /\ answer # "slow"
            /\ up_variants' = up_variants \cup
                    (IF answer = "accepts" THEN {Key(all_tests[i])} ELSE {})
            /\ probed' = i
    /\ UNCHANGED <<at, file, text, parse_vars, all_tests, by_stage, parser, output>>

\* TimeoutExpired is not caught.
ProbeTimesOut ==
    /\ at = "probe"
    /\ \E i \in ToProbe : IsNext(i) /\ Answer(parser, all_tests[i].yaml) = "slow"
    /\ at' = "aborted"
    /\ UNCHANGED <<file, text, parse_vars, all_tests, by_stage, parser, probed, up_variants,
                   output>>

ProbingDone ==
    /\ at = "probe" /\ \A i \in ToProbe : i <= probed
    /\ at' = "generate"
    /\ UNCHANGED <<file, text, parse_vars, all_tests, by_stage, parser, probed, up_variants,
                   output>>

----------------------------------------------------------------------------
(* Writing. *)

\* generate_guard: the test, and the result its guard expects
Guard(tc) ==
    [test |-> Key(tc), yaml |-> tc.yaml,
     expects |-> IF tc.expect_fail /\ Key(tc) \notin up_variants THEN "error" ELSE "ok"]

Guards(stage) == [i \in by_stage[stage] |-> Guard(all_tests[i])]

\* A stage without guards is not written: what an earlier run wrote stays.
Generate ==
    /\ at = "generate"
    /\ output' = [s \in Stages |-> IF by_stage[s] = {} THEN output[s] ELSE Guards(s)]
    /\ at' = "done"
    /\ UNCHANGED <<file, text, parse_vars, all_tests, by_stage, parser, probed, up_variants>>

DryRun ==
    /\ at = "generate" /\ at' = "done"
    /\ UNCHANGED <<file, text, parse_vars, all_tests, by_stage, parser, probed, up_variants,
                   output>>

----------------------------------------------------------------------------

Earlier == <<[test |-> "earlier"]>>

Init ==
    /\ at = "read" /\ file = 1 /\ text = <<>>
    /\ cases = <<>> /\ current = NoCase /\ in_item = FALSE
    /\ current_field = "none" /\ block_indent = 0 /\ variant_counter = 0
    /\ all_tests = <<>>
    /\ by_stage = [s \in Stages |-> {}]
    /\ parser = Missing /\ probed = 0 /\ up_variants = {}
    /\ output = [s \in Stages |-> Earlier]

Next ==
    \/ \E line \in Lines :
            BlockLine(line) \/ SeparatorLine(line) \/ ItemLine(line) \/ FieldLine(line)
    \/ EndOfFile \/ Classify \/ Probe \/ ProbeTimesOut \/ ProbingDone \/ Generate \/ DryRun

Spec == Init /\ [][Next]_vars

=============================================================================
