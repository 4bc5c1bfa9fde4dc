------------------------------ MODULE Scanner ------------------------------
(***************************************************************************)
(* The YAML tokenizer of L4YAML/Scanner (the pipeline behind scan,         *)
(* scanWithComments and parseYaml): a state machine that reads one lexeme  *)
(* at a time and keeps an indentation stack, a flow stack, a pending       *)
(* implicit ("simple") key with its stack, and the array of tokens.        *)
(*                                                                         *)
(* scanNextToken is modelled in the two halves the source splits it into:  *)
(* Preprocess (skipToContent, unwinding, saveSimpleKey) and one dispatch   *)
(* action per lexeme.  The text is chosen as it is read: every lexeme that *)
(* may follow, at every later position.  A lexeme is one column wide; the  *)
(* scanner only compares columns, so a column stands for a stretch of      *)
(* text.  "follow" holds the lexemes that may still come on the current    *)
(* line, which is what the scanner's look-ahead checks decide.             *)
(***************************************************************************)
EXTENDS Integers, Sequences, FiniteSets

CONSTANTS
    Lexemes,     \* the lexemes the text is made of
    Names,       \* anchor names
    NoName,      \* the name of a token that carries none
    MaxLine,     \* bound: last line of the text
    MaxCol,      \* bound: last column a lexeme may start at
    MaxTokens    \* bound: no lexeme is read once this many tokens exist

AllLexemes == {"---", "...", "%YAML", "%TAG", "%other", "[", "]", "{", "}",
               ",", "-", "?", ":", "&", "*", "!", "block", "quoted", "plain"}

ASSUME LexemesAssumption == Lexemes \subseteq AllLexemes
ASSUME NamesAssumption == NoName \notin Names
ASSUME BoundsAssumption ==
    MaxLine \in Nat /\ MaxCol \in Nat /\ MaxTokens \in Nat

VARIABLES
    phase,              \* which half of scanNextToken runs, or how the scan ended
    line, col, follow,  \* position, and what may follow on this line
    indents,            \* open block collections over the sentinel
    tokens,
    flowLevel, flowStack,
    simpleKey, simpleKeyStack, simpleKeyAllowed,
    needIndentCheck,
    explicitKeyLine,
    allowDirectives, seenYamlDirective, directivesPresent,
    definedAnchors

docVars == <<allowDirectives, seenYamlDirective, directivesPresent, definedAnchors>>
flowVars == <<flowLevel, flowStack, simpleKeyStack>>
vars == <<phase, line, col, follow, indents, tokens, flowVars, simpleKey,
          simpleKeyAllowed, needIndentCheck, explicitKeyLine, docVars>>

Structural == {"---", "...", "%YAML", "%TAG", "%other"}
Openers == {"[", "{"}
Closers == {"]", "}"}

NoLine == -1
Sentinel == [column |-> -1, isSequence |-> FALSE]
NoKey == [possible |-> FALSE, tokenIndex |-> 0, line |-> 0, col |-> 0, endLine |-> 0]

CurrentIndent == indents[Len(indents)].column
InFlow == flowLevel > 0
\* isInFlowSequence: the innermost flow collection is a `[`.
InFlowSequence == flowStack # <<>> /\ flowStack[Len(flowStack)]

TokenAt(v, n, l, c) == [val |-> v, name |-> n, line |-> l, col |-> c]
Emitted(v) == <<TokenAt(v, NoName, line, col)>>

Init ==
    /\ phase = "preprocess"
    /\ line = 0 /\ col = 0 /\ follow = Lexemes
    /\ indents = <<Sentinel>>
    /\ tokens = <<TokenAt("streamStart", NoName, 0, 0)>>
    /\ flowLevel = 0 /\ flowStack = <<>>
    /\ simpleKey = NoKey /\ simpleKeyStack = <<>> /\ simpleKeyAllowed = TRUE
    /\ needIndentCheck = TRUE
    /\ explicitKeyLine = NoLine
    /\ allowDirectives = TRUE /\ seenYamlDirective = FALSE
    /\ directivesPresent = FALSE
    /\ definedAnchors = {}

-----------------------------------------------------------------------------
(* Errors: the scan stops and its state is dropped with it.                *)

Fail(kind) ==
    /\ phase' = kind
    /\ UNCHANGED <<line, col, follow, indents, tokens, flowVars, simpleKey,
                   simpleKeyAllowed, needIndentCheck, explicitKeyLine, docVars>>

Running == {"preprocess", "dispatch"}
ErrorKinds ==
    {"tabInIndentation", "trailingContent", "unterminatedFlowCollection",
     "directiveWithoutDocument", "directiveAfterContent",
     "duplicateYamlDirective", "documentMarkerInFlow",
     "underIndentedFlowContent", "flowEndOutsideFlow", "invalidFlowEntry",
     "invalidImplicitKey", "sameLineExplicitValue",
     "misindentedExplicitValue", "undefinedAlias", "malformed"}

-----------------------------------------------------------------------------
(* Preprocessing                                                           *)

\* unwindIndents to column c leaves the first k entries.
UnwindsTo(k, c) ==
    /\ k = 1 \/ indents[k].column <= c
    /\ \A j \in (k + 1)..Len(indents) : indents[j].column > c

\* Mutant: the end one column before the content.
BlockEndsBefore(k, l, c) ==
    [i \in 1..(Len(indents) - k) |-> TokenAt("blockEnd", NoName, l, c - 1)]

BlockEnds(k, l, c) ==
    [i \in 1..(Len(indents) - k) |-> TokenAt("blockEnd", NoName, l, c)]

\* Where skipToContent may stop: further on this line, or on a later one.
ContentAt(l, c) ==
    \/ l = line /\ c >= col /\ follow # {}
    \/ l > line

\* Mutant: a scalar that ended on another line does not ask for the check.
ChecksNewLine(l) == ~InFlow /\ l > line

ChecksIndent(l) == ~InFlow /\ (needIndentCheck \/ l > line)

\* Mutant: only the first lexeme of a line is recorded.
SavesFirst(l) == (l > line /\ ~InFlowSequence) /\ ~(InFlow /\ explicitKeyLine = l)

\* saveSimpleKey records a key at the lexeme about to be dispatched.
SavesKey(l) ==
    /\ simpleKeyAllowed \/ (l > line /\ ~InFlowSequence)
    /\ ~(InFlow /\ explicitKeyLine = l)

\* Mutant: one slot, as if no mapping could start at the key.
Placeholder(l, c) == [i \in 1..1 |-> TokenAt("placeholder", NoName, l, c)]

Placeholders(l, c) == [i \in 1..2 |-> TokenAt("placeholder", NoName, l, c)]

Preprocess(l, c) ==
    /\ phase = "preprocess"
    /\ Len(tokens) < MaxTokens
    /\ ContentAt(l, c)
    /\ \E k \in 1..Len(indents) :
          /\ IF ChecksIndent(l) THEN UnwindsTo(k, c) ELSE k = Len(indents)
          /\ k < Len(indents) => c <= indents[k].column
          /\ indents' = SubSeq(indents, 1, k)
          /\ LET closed == tokens \o BlockEnds(k, l, c)
             IN  /\ tokens' = IF SavesKey(l) THEN closed \o Placeholders(l, c)
                                             ELSE closed
                 /\ simpleKey' =
                       IF SavesKey(l)
                       THEN [possible |-> TRUE, tokenIndex |-> Len(closed) + 1,
                             line |-> l, col |-> c, endLine |-> l]
                       ELSE simpleKey
    /\ phase' = "dispatch"
    /\ line' = l /\ col' = c
    /\ follow' = IF l > line THEN Lexemes ELSE follow
    /\ simpleKeyAllowed' = (simpleKeyAllowed \/ (l > line /\ ~InFlowSequence))
    /\ needIndentCheck' = (InFlow /\ (needIndentCheck \/ l > line))
    /\ UNCHANGED <<flowVars, explicitKeyLine, docVars>>

\* Content left of the block it closes, yet right of the one that remains.
\* The lexeme x found there is not dispatched.
BadDedent(l, c, x) ==
    /\ phase = "preprocess"
    /\ ContentAt(l, c) /\ ChecksIndent(l)
    /\ x \in IF l > line THEN Lexemes ELSE follow
    /\ \E k \in 1..(Len(indents) - 1) :
          UnwindsTo(k, c) /\ c > indents[k].column
    /\ phase' = "trailingContent"
    /\ line' = l /\ col' = c /\ follow' = {x}
    /\ UNCHANGED <<indents, tokens, flowVars, simpleKey, simpleKeyAllowed,
                   needIndentCheck, explicitKeyLine, docVars>>

\* A tab at column t where the indentation of line l would still be.
TabInIndentation(l, t) ==
    /\ phase = "preprocess"
    /\ ContentAt(l, t)
    /\ needIndentCheck \/ l > line
    /\ (~InFlow /\ CurrentIndent < 0) \/ t <= CurrentIndent
    /\ phase' = "tabInIndentation"
    /\ line' = l /\ col' = t
    /\ UNCHANGED <<follow, indents, tokens, flowVars, simpleKey,
                   simpleKeyAllowed, needIndentCheck, explicitKeyLine, docVars>>

\* scanLoop after scanNextToken returned none.
EndOfStream ==
    /\ phase = "preprocess"
    /\ ~InFlow /\ ~directivesPresent
    /\ phase' = "accepted"
    /\ tokens' = tokens \o BlockEnds(1, line, col) \o Emitted("streamEnd")
    /\ indents' = SubSeq(indents, 1, 1)
    /\ UNCHANGED <<line, col, follow, flowVars, simpleKey, simpleKeyAllowed,
                   needIndentCheck, explicitKeyLine, docVars>>

EndOfStreamFails ==
    /\ phase = "preprocess"
    /\ \/ InFlow /\ Fail("unterminatedFlowCollection")
       \/ ~InFlow /\ directivesPresent /\ Fail("directiveWithoutDocument")

-----------------------------------------------------------------------------
(* Dispatch: structural lexemes first.                                     *)

At(x) == phase = "dispatch" /\ x \in follow

\* dispatchStructural: flow content must be right of the enclosing block.
UnderIndented(x) ==
    InFlow /\ CurrentIndent >= 0 /\ col <= CurrentIndent /\ x \notin Closers

\* checkBlockFlowIndent: so must a flow collection that opens in a block.
OpensUnderIndented(x) ==
    ~InFlow /\ CurrentIndent >= 0 /\ col <= CurrentIndent /\ x \in Openers

\* The lexeme is consumed; n may follow it on the line.
Consume(n) ==
    /\ phase' = "preprocess"
    /\ line' = line /\ col' = col + 1 /\ follow' = n

UnderIndentedFlowContent ==
    \E x \in Lexemes :
        /\ At(x)
        /\ \/ UnderIndented(x)
           \/ x \notin Structural /\ ~directivesPresent /\ OpensUnderIndented(x)
        /\ Fail("underIndentedFlowContent")

MarkerInFlow ==
    \E x \in {"---", "..."} :
        /\ At(x) /\ ~UnderIndented(x) /\ col = 0 /\ InFlow
        /\ Fail("documentMarkerInFlow")

AtMarker(x) == At(x) /\ col = 0 /\ ~InFlow

\* Mutant: an anchor outlives its document.
KeepsAnchors == directivesPresent' = FALSE /\ UNCHANGED definedAnchors

NewDocument == directivesPresent' = FALSE /\ definedAnchors' = {}

\* What both markers do: close every block, drop the key, forget anchors.
CloseDocument(marker) ==
    /\ tokens' = tokens \o BlockEnds(1, line, col) \o Emitted(marker)
    /\ indents' = SubSeq(indents, 1, 1)
    /\ simpleKey' = NoKey
    /\ simpleKeyAllowed' = TRUE
    /\ NewDocument
    /\ UNCHANGED <<flowVars, needIndentCheck, explicitKeyLine>>

DocumentStart ==
    /\ AtMarker("---")
    /\ CloseDocument("documentStart")
    /\ allowDirectives' = FALSE
    /\ seenYamlDirective' = FALSE
    /\ Consume(Lexemes)

DocumentEnd ==
    /\ AtMarker("...")
    /\ ~directivesPresent
    /\ CloseDocument("documentEnd")
    /\ allowDirectives' = TRUE
    /\ UNCHANGED seenYamlDirective
    /\ Consume({})

AtDirective(x) == At(x) /\ col = 0 /\ ~UnderIndented(x)

Directive(v) ==
    /\ allowDirectives
    /\ directivesPresent' = TRUE
    /\ tokens' = tokens \o v
    /\ Consume({})
    /\ UNCHANGED <<indents, flowVars, simpleKey, simpleKeyAllowed,
                   needIndentCheck, explicitKeyLine, allowDirectives,
                   definedAnchors>>

YamlDirective ==
    /\ AtDirective("%YAML")
    /\ ~seenYamlDirective
    /\ seenYamlDirective' = TRUE
    /\ Directive(Emitted("versionDirective"))

TagDirective ==
    /\ AtDirective("%TAG")
    /\ Directive(Emitted("tagDirective"))
    /\ UNCHANGED seenYamlDirective

ReservedDirective ==
    /\ AtDirective("%other")
    /\ Directive(<<>>)
    /\ UNCHANGED seenYamlDirective

StructuralFails ==
    \/ AtMarker("...") /\ directivesPresent /\ Fail("directiveWithoutDocument")
    \/ \E x \in {"%YAML", "%TAG", "%other"} :
          AtDirective(x) /\ ~allowDirectives /\ Fail("directiveAfterContent")
    \/ /\ AtDirective("%YAML") /\ allowDirectives /\ seenYamlDirective
       /\ Fail("duplicateYamlDirective")

-----------------------------------------------------------------------------
(* Content: everything else; pending directives make it an error.          *)

Content(x) ==
    /\ At(x)
    /\ x \notin Structural
    /\ ~UnderIndented(x) /\ ~OpensUnderIndented(x)
    /\ ~directivesPresent

\* Mutant: directives are allowed anywhere in the document.
AllowsDirectives ==
    UNCHANGED <<allowDirectives, seenYamlDirective, directivesPresent>>

\* Content closes the directive block of the document.
InDocument ==
    /\ allowDirectives' = FALSE
    /\ UNCHANGED <<seenYamlDirective, directivesPresent>>

\* After a collection or quoted scalar that ends in a block, only `:` or a
\* line end; text that begins with `:` may turn out to be a plain scalar.
Trailing == Lexemes \cap {":", "plain"}

OrphanDirectives ==
    \E x \in Lexemes \ Structural :
        /\ At(x) /\ ~UnderIndented(x) /\ directivesPresent
        /\ Fail("directiveWithoutDocument")

\* Mutant: the outer key stays pending inside the collection.
PushesCopy ==
    simpleKeyStack' = Append(simpleKeyStack, simpleKey) /\ UNCHANGED simpleKey

PushesKey ==
    simpleKeyStack' = Append(simpleKeyStack, simpleKey) /\ simpleKey' = NoKey

\* `[` and `{`: the outer key waits on the stack.
FlowStart(x) ==
    /\ Content(x) /\ x \in Openers
    /\ tokens' = tokens \o Emitted(IF x = "[" THEN "flowSequenceStart"
                                              ELSE "flowMappingStart")
    /\ flowLevel' = flowLevel + 1
    /\ flowStack' = Append(flowStack, x = "[")
    /\ PushesKey
    /\ simpleKeyAllowed' = TRUE
    /\ Consume(Lexemes)
    /\ InDocument
    /\ UNCHANGED <<indents, needIndentCheck, explicitKeyLine, definedAnchors>>

\* Mutants: the key restored is not removed; the inner key stays pending.
RestoresKey ==
    simpleKey' = simpleKeyStack[Len(simpleKeyStack)] /\ UNCHANGED simpleKeyStack
DropsKey ==
    /\ UNCHANGED simpleKey
    /\ simpleKeyStack' = SubSeq(simpleKeyStack, 1, Len(simpleKeyStack) - 1)

PopsKey ==
    /\ simpleKey' = simpleKeyStack[Len(simpleKeyStack)]
    /\ simpleKeyStack' = SubSeq(simpleKeyStack, 1, Len(simpleKeyStack) - 1)

\* `]` and `}`: either closes the innermost flow collection, whichever opened
\* it, and the key saved there is pending again.
FlowEnd(x) ==
    /\ Content(x) /\ x \in Closers
    /\ InFlow
    /\ tokens' = tokens \o Emitted(IF x = "]" THEN "flowSequenceEnd"
                                              ELSE "flowMappingEnd")
    /\ flowLevel' = flowLevel - 1
    /\ flowStack' = SubSeq(flowStack, 1, Len(flowStack) - 1)
    /\ PopsKey
    /\ simpleKeyAllowed' = FALSE
    /\ Consume(IF flowLevel = 1 THEN Trailing ELSE Lexemes)
    /\ InDocument
    /\ UNCHANGED <<indents, needIndentCheck, explicitKeyLine, definedAnchors>>

\* lastRealTokenVal?: the last token, looking behind one placeholder pair.
LastReal ==
    LET n == Len(tokens)
        Reserved(i) == tokens[i].val = "placeholder"
    IN  tokens[IF ~Reserved(n) THEN n
               ELSE IF ~Reserved(n - 1) THEN n - 1 ELSE n - 2].val

EmptyEntry ==
    LastReal \in {"flowSequenceStart", "flowMappingStart", "flowEntry"}

FlowEntry ==
    /\ Content(",")
    /\ InFlow /\ ~EmptyEntry
    /\ tokens' = tokens \o Emitted("flowEntry")
    /\ simpleKeyAllowed' = TRUE
    /\ Consume(Lexemes)
    /\ InDocument
    /\ UNCHANGED <<indents, flowVars, simpleKey, needIndentCheck,
                   explicitKeyLine, definedAnchors>>

FlowFails ==
    \/ \E x \in Closers \cup {","} :
          Content(x) /\ ~InFlow /\ Fail("flowEndOutsideFlow")
    \/ Content(",") /\ InFlow /\ EmptyEntry /\ Fail("invalidFlowEntry")

-----------------------------------------------------------------------------
(* Block indicators                                                        *)

\* Mutant: an indicator at the block's own column opens another.
OpensAgain == ~InFlow /\ col >= CurrentIndent

\* pushSequenceIndent, pushMappingIndent: an indicator right of the current
\* block opens a new one, in block context only.
OpensBlock == ~InFlow /\ col > CurrentIndent

PushedIndents(isSeq) ==
    IF OpensBlock THEN Append(indents, [column |-> col, isSequence |-> isSeq])
                  ELSE indents

PushedTokens(start) ==
    IF OpensBlock THEN tokens \o Emitted(start) ELSE tokens

BlockEntry ==
    /\ Content("-") /\ ~InFlow
    /\ indents' = PushedIndents(TRUE)
    /\ tokens' = PushedTokens("blockSequenceStart") \o Emitted("blockEntry")
    /\ simpleKeyAllowed' = TRUE
    /\ Consume(Lexemes)
    /\ InDocument
    /\ UNCHANGED <<flowVars, simpleKey, needIndentCheck, explicitKeyLine,
                   definedAnchors>>

Key ==
    /\ Content("?")
    /\ indents' = PushedIndents(FALSE)
    /\ tokens' = PushedTokens("blockMappingStart") \o Emitted("key")
    /\ simpleKeyAllowed' = TRUE
    /\ explicitKeyLine' = line
    /\ simpleKey' = NoKey
    /\ Consume(Lexemes)
    /\ InDocument
    /\ UNCHANGED <<flowVars, needIndentCheck, definedAnchors>>

-----------------------------------------------------------------------------
(* The value indicator                                                     *)

Here == simpleKey.line = line /\ simpleKey.col = col

\* scanValueClearKey: below an explicit `?` line, a key recorded at the `:`
\* itself, or on the `?` line (in a block), is not an implicit key.
ClearedKey ==
    IF /\ explicitKeyLine # NoLine /\ line # explicitKeyLine
       /\ simpleKey.possible
       /\ Here \/ (simpleKey.line = explicitKeyLine /\ ~InFlow)
    THEN NoKey ELSE simpleKey

\* scanValueValidate: what forbids a value here, in the order it is looked at.
ValueFaults(key) ==
    LET explicit == explicitKeyLine # NoLine
        Fault(c, k) == [holds |-> c, kind |-> k]
    IN  <<Fault(key.possible /\ ~InFlow /\ key.line # line, "invalidImplicitKey"),
          Fault(key.possible /\ InFlowSequence /\ ~explicit /\ key.endLine # line,
                "invalidImplicitKey"),
          Fault(/\ key.possible /\ ~InFlow
                /\ indents[Len(indents)].isSequence
                /\ key.col = CurrentIndent, "trailingContent"),
          Fault(/\ key.possible /\ InFlow
                /\ tokens[key.tokenIndex - 1].val = "value"
                /\ tokens[key.tokenIndex - 1].line # line, "invalidFlowEntry"),
          Fault(explicit /\ ~key.possible /\ ~InFlow /\ line = explicitKeyLine,
                "sameLineExplicitValue"),
          Fault(/\ explicit /\ ~key.possible /\ ~InFlow
                /\ col # CurrentIndent, "misindentedExplicitValue")>>

\* Mutant: a mapping starts in a flow collection too.
OpensAnyMapping(key) == key.possible /\ key.col > CurrentIndent

\* scanValuePrepare: the pending key takes its placeholder slots.
OpensMapping(key) == key.possible /\ ~InFlow /\ key.col > CurrentIndent

\* Mutants: the key takes the position of the `:`; a slot too far.
ResolvedHere(key) ==
    LET keyed == [tokens EXCEPT ![key.tokenIndex + 1] = Emitted("key")[1]]
    IN  IF OpensMapping(key)
        THEN [keyed EXCEPT ![key.tokenIndex] = Emitted("blockMappingStart")[1]]
        ELSE keyed
ResolvedLate(key) ==
    LET mark(v) == TokenAt(v, NoName, key.line, key.col)
        keyed == [tokens EXCEPT ![key.tokenIndex + 2] = mark("key")]
    IN  IF OpensMapping(key)
        THEN [keyed EXCEPT ![key.tokenIndex + 1] = mark("blockMappingStart")]
        ELSE keyed

Resolved(key) ==
    LET mark(v) == TokenAt(v, NoName, key.line, key.col)
        keyed == [tokens EXCEPT ![key.tokenIndex + 1] = mark("key")]
    IN  IF OpensMapping(key)
        THEN [keyed EXCEPT ![key.tokenIndex] = mark("blockMappingStart")]
        ELSE keyed

PreparedTokens(key) ==
    IF key.possible THEN Resolved(key)
    ELSE IF explicitKeyLine # NoLine THEN tokens ELSE PushedTokens("blockMappingStart")

\* Mutant: the mapping a key opens is not remembered.
UnpreparedIndents(key) ==
    IF key.possible \/ explicitKeyLine # NoLine THEN indents
    ELSE PushedIndents(FALSE)

PreparedIndents(key) ==
    IF OpensMapping(key)
    THEN Append(indents, [column |-> key.col, isSequence |-> FALSE])
    ELSE IF key.possible \/ explicitKeyLine # NoLine THEN indents
    ELSE PushedIndents(FALSE)

Value ==
    /\ Content(":")
    /\ LET key == ClearedKey
       IN  /\ \A i \in DOMAIN ValueFaults(key) : ~ValueFaults(key)[i].holds
           /\ tokens' = PreparedTokens(key) \o Emitted("value")
           /\ indents' = PreparedIndents(key)
    /\ simpleKey' = NoKey
    /\ simpleKeyAllowed' = TRUE
    /\ explicitKeyLine' = NoLine
    /\ Consume(Lexemes)
    /\ InDocument
    /\ UNCHANGED <<flowVars, needIndentCheck, definedAnchors>>

ValueFails ==
    /\ Content(":")
    /\ LET faults == ValueFaults(ClearedKey)
       IN  \E i \in DOMAIN faults :
              /\ faults[i].holds
              /\ \A j \in 1..(i - 1) : ~faults[j].holds
              /\ Fail(faults[i].kind)

-----------------------------------------------------------------------------
(* Node properties and scalars                                             *)

\* A node on this line: its token, and no simple key may begin right after.
OneLineNode(token) ==
    /\ tokens' = Append(tokens, token)
    /\ simpleKeyAllowed' = FALSE
    /\ Consume(Lexemes)
    /\ InDocument
    /\ UNCHANGED <<indents, flowVars, simpleKey, needIndentCheck, explicitKeyLine>>

Anchor(n) ==
    /\ Content("&")
    /\ OneLineNode(TokenAt("anchor", n, line, col))
    /\ definedAnchors' = definedAnchors \cup {n}

Alias(n) ==
    /\ Content("*")
    /\ n \in definedAnchors
    /\ OneLineNode(TokenAt("alias", n, line, col))
    /\ UNCHANGED definedAnchors

UndefinedAlias ==
    Content("*") /\ Names \ definedAnchors # {} /\ Fail("undefinedAlias")

Tag ==
    /\ Content("!")
    /\ OneLineNode(TokenAt("tag", NoName, line, col))
    /\ UNCHANGED definedAnchors

\* A scalar that ends at (l, c), with n allowed after it.
ScalarTo(l, c, n) ==
    /\ phase' = "preprocess"
    /\ tokens' = tokens \o Emitted("scalar")
    /\ line' = l /\ col' = c /\ follow' = n
    /\ needIndentCheck' = (needIndentCheck \/ l > line)
    /\ InDocument
    /\ UNCHANGED <<indents, flowVars, explicitKeyLine, definedAnchors>>

\* `|` and `>`: the content is whole lines; the scan resumes at a line start.
BlockScalar(l) ==
    /\ Content("block")
    /\ l > line
    /\ simpleKey' = NoKey /\ simpleKeyAllowed' = TRUE
    /\ ScalarTo(l, 0, Lexemes)

\* A quoted scalar may span lines.  Each is right of the current block, except
\* below an escaped line break, where the column is not looked at.
QuotedScalar(l, c) ==
    /\ Content("quoted")
    /\ \/ l = line /\ c = col + 1
       \/ l > line /\ c >= 1
    /\ simpleKey' = IF simpleKey.possible THEN [simpleKey EXCEPT !.endLine = l]
                                          ELSE simpleKey
    /\ simpleKeyAllowed' = FALSE
    /\ ScalarTo(l, c, IF InFlow THEN Lexemes ELSE Trailing)

\* A plain scalar ends where its context ends it; a continuation line that is
\* not right of the current block ends it too, but not in a flow collection.
PlainEnd ==
    Lexemes \cap (IF InFlow THEN {":", ",", "[", "]", "{", "}"} ELSE {":"})

PlainScalar(l, c) ==
    /\ Content("plain")
    /\ \/ l = line /\ c = col + 1
       \/ l > line /\ c >= 1 /\ (InFlow \/ c > CurrentIndent + 1)
    /\ UNCHANGED simpleKey
    /\ simpleKeyAllowed' = FALSE
    /\ ScalarTo(l, c, PlainEnd)

\* Text no lexeme accepts: an unterminated scalar, a bad escape or tag, junk
\* after a directive, a marker or a closing quote, `-` in a flow collection, a
\* tab before `-` or after `?` or `:` in a block.
Malformed ==
    /\ \/ \E x \in Lexemes : Content(x)
       \/ AtMarker("...") /\ ~directivesPresent
       \/ \E x \in {"%YAML", "%TAG"} : AtDirective(x) /\ allowDirectives
    /\ Fail("malformed")

-----------------------------------------------------------------------------

Terminating ==
    /\ phase \notin Running
    /\ UNCHANGED vars

Lines == 0..MaxLine
Cols == 0..MaxCol

Preprocessing ==
    \/ \E l \in Lines, c \in Cols : Preprocess(l, c)
    \/ \E l \in Lines, c \in Cols, x \in Lexemes : BadDedent(l, c, x)
    \/ \E l \in Lines, t \in Cols : TabInIndentation(l, t)
    \/ EndOfStream
    \/ EndOfStreamFails

Structure ==
    \/ UnderIndentedFlowContent \/ MarkerInFlow
    \/ DocumentStart \/ DocumentEnd
    \/ YamlDirective \/ TagDirective \/ ReservedDirective
    \/ StructuralFails \/ OrphanDirectives

Indicators ==
    \/ \E x \in Openers : FlowStart(x)
    \/ \E x \in Closers : FlowEnd(x)
    \/ FlowEntry \/ FlowFails
    \/ BlockEntry \/ Key \/ Value \/ ValueFails

Nodes ==
    \/ \E n \in Names : Anchor(n) \/ Alias(n)
    \/ UndefinedAlias
    \/ Tag
    \/ \E l \in Lines : BlockScalar(l)
    \/ \E l \in Lines, c \in 0..(MaxCol + 1) : QuotedScalar(l, c) \/ PlainScalar(l, c)
    \/ Malformed

Next == Preprocessing \/ Structure \/ Indicators \/ Nodes \/ Terminating

Spec == Init /\ [][Next]_vars

-----------------------------------------------------------------------------
(* Properties                                                              *)

TokenVals ==
    {"streamStart", "streamEnd", "documentStart", "documentEnd",
     "versionDirective", "tagDirective", "blockSequenceStart",
     "blockMappingStart", "blockEnd", "flowSequenceStart", "flowSequenceEnd",
     "flowMappingStart", "flowMappingEnd", "flowEntry", "blockEntry", "key",
     "value", "anchor", "alias", "tag", "scalar", "placeholder"}

Tokens == [val : TokenVals, name : Names \cup {NoName}, line : Nat, col : Nat]
Indents == [column : Int, isSequence : BOOLEAN]
SimpleKeys == [possible : BOOLEAN, tokenIndex : Nat, line : Nat, col : Nat,
               endLine : Nat]

\* The type invariant of ScannerState (State.lean).
TypeOK ==
    /\ phase \in Running \cup {"accepted"} \cup ErrorKinds
    /\ line \in Nat /\ col \in Nat /\ follow \subseteq Lexemes
    /\ indents \in Seq(Indents)
    /\ tokens \in Seq(Tokens)
    /\ flowLevel \in Nat /\ flowStack \in Seq(BOOLEAN)
    /\ simpleKey \in SimpleKeys /\ simpleKeyStack \in Seq(SimpleKeys)
    /\ simpleKeyAllowed \in BOOLEAN /\ needIndentCheck \in BOOLEAN
    /\ explicitKeyLine \in Int
    /\ allowDirectives \in BOOLEAN /\ seenYamlDirective \in BOOLEAN
    /\ directivesPresent \in BOOLEAN
    /\ definedAnchors \subseteq Names

\* ScannerState.WellFormed: the sentinel is never popped, the three flow
\* stacks move together, and nested blocks are ever further right.
WellFormed ==
    /\ Len(indents) >= 1 /\ indents[1] = Sentinel
    /\ flowLevel = Len(flowStack)
    /\ Len(simpleKeyStack) = Len(flowStack)
    /\ \A i \in 1..(Len(indents) - 1) : indents[i].column < indents[i + 1].column

\* A pending key owns two placeholder slots of ts that carry its position.
Owns(key, ts) ==
    key.possible =>
        /\ key.tokenIndex \in 2..(Len(ts) - 1)
        /\ \A i \in {key.tokenIndex, key.tokenIndex + 1} :
              ts[i] = TokenAt("placeholder", NoName, key.line, key.col)

\* The slots of key1 lie before those of key2.
Before(key1, key2) ==
    key1.possible /\ key2.possible => key1.tokenIndex + 1 < key2.tokenIndex

\* Every key that `:` may still confirm, the one being scanned and those
\* waiting for their flow collection to close, owns its slots, and no two
\* share one: scanValuePrepare never writes over a token that was emitted
\* (SimpleKey.lean, "overwriting placeholder slots").
SlotsReserved ==
    /\ Owns(simpleKey, tokens)
    /\ \A i \in 1..Len(simpleKeyStack) :
          /\ Owns(simpleKeyStack[i], tokens)
          /\ Before(simpleKeyStack[i], simpleKey)
          /\ \A j \in (i + 1)..Len(simpleKeyStack) :
                Before(simpleKeyStack[i], simpleKeyStack[j])

\* scanValuePrepare: "Tokens are preserved or grown (never shifted)".  A step
\* changes a token only to turn a placeholder into a key or the start of the
\* key's mapping, at the same position.
KeepsTokens ==
    /\ Len(tokens) <= Len(tokens')
    /\ \A i \in 1..Len(tokens) :
          LET t == tokens[i]
              u == tokens'[i]
          IN  \/ u = t
              \/ /\ t.val = "placeholder" /\ u.val \in {"key", "blockMappingStart"}
                 /\ u = TokenAt(u.val, NoName, t.line, t.col)

TokensPreserved == [][KeepsTokens]_vars

=============================================================================
