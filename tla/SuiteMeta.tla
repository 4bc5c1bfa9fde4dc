----------------------------- MODULE SuiteMeta -----------------------------
(***************************************************************************)
(* The suite runner's parser of test files (Tests/SuiteRunner/Meta.lean):  *)
(* a fold of processLine over the lines of each file.  gen-suite-guards.py *)
(* says that it replicates this state machine.                             *)
(*                                                                         *)
(* A line has its leading spaces, whether it starts with `- `, a key and a *)
(* value; the key of a blank line is "", of a separator `---`.  A case's   *)
(* id, the name of its file, is left out.                                  *)
(***************************************************************************)
EXTENDS Integers, Sequences

CONSTANTS
    Lines,
    Header  \* the value `|` of a line that opens a block scalar

VARIABLES
    lines,      \* of the file being read, those read so far
    st,         \* ParseState
    results     \* the cases of the files read

metaVars == <<lines, st, results>>

NoCase == [tags |-> {}, expectFail |-> FALSE, yaml |-> <<>>, tree |-> <<>>, variant |-> 0]

Start == [cases |-> <<>>, current |-> NoCase, inItem |-> FALSE, field |-> "none",
          blockIndent |-> 0]

\* A line of block content: a newline, or what is left of it and a newline.
Content(line, indent) ==
    IF line.key = "" THEN [key |-> ""]
    ELSE [line EXCEPT !.indent = @ - indent]

ProcessBlockLine(s, line) ==
    LET base == IF s.blockIndent = 0 THEN line.indent ELSE s.blockIndent
        grown == [s EXCEPT !.blockIndent = base]
    IN  CASE s.field = "yaml" ->
                [grown EXCEPT !.current.yaml = Append(@, Content(line, base))]
          [] s.field = "tree" ->
                [grown EXCEPT !.current.tree = Append(@, Content(line, base))]
          [] OTHER -> grown

Closed(s) == [s EXCEPT !.field = "none", !.blockIndent = 0]

FinalizeItem(s) ==
    IF s.inItem THEN [Start EXCEPT !.cases = Append(s.cases, s.current)] ELSE Closed(s)

ProcessKeyValue(s, key, value) ==
    CASE key = "tags" -> [Closed(s) EXCEPT !.current.tags = value]
      [] key = "fail" -> [Closed(s) EXCEPT !.current.expectFail = (value = "true")]
      [] key \in {"yaml", "tree"} /\ value # Header ->
            [Closed(s) EXCEPT !.current[key] = <<value>>]
      [] key \in {"yaml", "tree"} /\ value = Header ->
            [Closed(s) EXCEPT !.current[key] = <<>>, !.field = key]
      [] key = "other" /\ value = Header -> [Closed(s) EXCEPT !.field = "other"]
      [] OTHER -> Closed(s)

ProcessListItem(s, line) ==
    LET done == FinalizeItem(s)
        item == [done EXCEPT !.inItem = TRUE,
                             !.current = [NoCase EXCEPT !.variant = Len(done.cases)]]
    IN  ProcessKeyValue(item, line.key, line.value)

\* A line is in the block scalar if it is blank or not left of its content,
\* which is four columns in or more.
InBlock(s, line) ==
    /\ s.field # "none"
    /\ \/ line.key = ""
       \/ s.blockIndent > 0 /\ line.indent >= s.blockIndent
       \/ s.blockIndent = 0 /\ line.indent >= 4

ProcessLine(s, line) ==
    IF InBlock(s, line) THEN ProcessBlockLine(s, line)
    ELSE IF line.key = "---" /\ ~line.item THEN FinalizeItem(Closed(s))
    ELSE IF line.item THEN ProcessListItem(Closed(s), line)
    ELSE ProcessKeyValue(Closed(s), line.key, line.value)

ReadLine ==
    \E line \in Lines :
        /\ lines' = Append(lines, line)
        /\ st' = ProcessLine(st, line)
        /\ UNCHANGED results

EndOfFile ==
    /\ results' = results \o FinalizeItem(st).cases
    /\ lines' = <<>> /\ st' = Start

Init == lines = <<>> /\ st = Start /\ results = <<>>

Next == ReadLine \/ EndOfFile

Spec == Init /\ [][Next]_metaVars

=============================================================================
