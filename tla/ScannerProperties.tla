------------------------- MODULE ScannerProperties -------------------------
(***************************************************************************)
(* What the token array promises to the parser, as properties of the       *)
(* scanner's states.                                                       *)
(***************************************************************************)
EXTENDS Scanner

\* The parser reads the array without the slots no key has taken.
RealAt(i) == tokens[i].val # "placeholder"

\* Token j is the next the parser reads after token i.
Adjacent(i, j) ==
    /\ i < j /\ RealAt(i) /\ RealAt(j)
    /\ \A k \in (i + 1)..(j - 1) : ~RealAt(k)

BlockStarts == {"blockSequenceStart", "blockMappingStart"}
FlowStarts == {"flowSequenceStart", "flowMappingStart"}
FlowEnds == {"flowSequenceEnd", "flowMappingEnd"}
DirectiveTokens == {"versionDirective", "tagDirective"}
DocumentMarks == {"documentStart", "documentEnd"}

\* The collections a token sequence leaves open, outermost first, as the
\* tokens that opened them.  A close with nothing of its class on top stays
\* on the stack, where no open collection matches it.
Bracket(open, t) ==
    LET top == open[Len(open)].val
        outer == SubSeq(open, 1, Len(open) - 1)
        Pops(starts) == open # <<>> /\ top \in starts
    IN  CASE t.val \in BlockStarts \cup FlowStarts -> Append(open, t)
          [] t.val = "blockEnd" ->
                IF Pops(BlockStarts) THEN outer ELSE Append(open, t)
          [] t.val \in FlowEnds ->
                IF Pops(FlowStarts) THEN outer ELSE Append(open, t)
          [] OTHER -> open

\* Opened(ts)[i] is what the first i tokens leave open.
Opened(ts) ==
    LET open[i \in 0..Len(ts)] ==
            IF i = 0 THEN <<>> ELSE Bracket(open[i - 1], ts[i])
    IN  open
Unclosed(ts) == Opened(ts)[Len(ts)]

\* The collections the scanner's stacks say are open.
OpenBlocks ==
    [i \in 1..(Len(indents) - 1) |->
        IF indents[i + 1].isSequence THEN "blockSequenceStart"
                                     ELSE "blockMappingStart"]
FlowsFrom(i) ==
    [j \in 1..(Len(flowStack) - i + 1) |->
        IF flowStack[i + j - 1] THEN "flowSequenceStart" ELSE "flowMappingStart"]

Vals(ts) == [i \in DOMAIN ts |-> ts[i].val]

\* The bracket structure of the tokens is that of the two stacks, blocks
\* outside flows, even where a mapping start was put in front of tokens that
\* had been emitted; every open block starts at the column its indentation
\* entry says; an accepted text leaves nothing open (Scanner.lean, scan: "All
\* block collections are properly closed via unwindIndents").
OpenCollections ==
    LET open == Unclosed(tokens) IN
    /\ phase \in Running =>
          /\ Vals(open) = OpenBlocks \o FlowsFrom(1)
          /\ \A i \in 1..(Len(indents) - 1) : open[i].col = indents[i + 1].column
    /\ phase = "accepted" => open = <<>>

\* When a lexeme is dispatched, what follows the slots of the pending key is
\* complete, unless the key is of an earlier line of a block and no `:` can
\* confirm it any more, and what follows the slots of a stacked key leaves open exactly
\* the flow collections it waits for: a `:` never takes for its key something
\* that reaches out of the collection the `:` is in.
KeySpan ==
    LET After(key) == Vals(Unclosed(SubSeq(tokens, key.tokenIndex + 2, Len(tokens))))
    IN  phase = "dispatch" =>
          /\ simpleKey.possible /\ (InFlow \/ simpleKey.line = line) =>
                After(simpleKey) = <<>>
          /\ \A i \in DOMAIN simpleKeyStack :
                simpleKeyStack[i].possible =>
                    After(simpleKeyStack[i]) = FlowsFrom(i)

\* Every entry of a block collection is at the collection's column: a `-`, a
\* `?` or an implicit key whose innermost open collection is a block.
Aligned ==
    \A i \in DOMAIN tokens :
        tokens[i].val \in {"key", "blockEntry"} =>
            LET open == Opened(tokens)[i - 1]
                innermost == open[Len(open)]
            IN  open # <<>> /\ (innermost.val \in BlockStarts =>
                                    innermost.col = tokens[i].col)

\* Token positions never go back, although keys are inserted afterwards.
TokensInOrder ==
    \A i \in 1..(Len(tokens) - 1) :
        LET t == tokens[i]
            u == tokens[i + 1]
        IN  t.line < u.line \/ (t.line = u.line /\ t.col <= u.col)

\* An alias follows an anchor of its name in the same document
\* (definedAnchors: "Anchor names defined in the current document").
AliasScope ==
    \A i \in DOMAIN tokens : tokens[i].val = "alias" =>
        \E j \in 1..(i - 1) :
            /\ tokens[j].val = "anchor" /\ tokens[j].name = tokens[i].name
            /\ \A k \in j..i : tokens[k].val \notin DocumentMarks

\* Directives stand at the start of the stream or after `...`, belong to a
\* `---` that follows with only directives between, and hold one %YAML at
\* most (checkNoPendingDirectives, scanDirective, scanDocumentEnd).
DirectiveBlock ==
    \A i \in DOMAIN tokens : tokens[i].val \in DirectiveTokens =>
        /\ \E j \in 1..(i - 1) :
              /\ Adjacent(j, i)
              /\ tokens[j].val \in DirectiveTokens \cup {"streamStart", "documentEnd"}
        /\ \A j \in (i + 1)..Len(tokens) :
              Adjacent(i, j) => tokens[j].val \in DirectiveTokens \cup {"documentStart"}
        /\ phase = "accepted" => \E j \in (i + 1)..Len(tokens) : RealAt(j)
        /\ \A j \in (i + 1)..Len(tokens) :
              tokens[i].val = "versionDirective" /\ tokens[j].val = "versionDirective" =>
                  \E k \in i..j : tokens[k].val \in DocumentMarks

-----------------------------------------------------------------------------
(* Statements of the comments that the code does not keep.                 *)

\* saveSimpleKey: "In flow context, content on the `?` line is the explicit
\* key's node", which is why it is not recorded as a key.  The content after a
\* comma on that line is another entry's: in `[? a, b: c]` the key of `b: c`
\* is lost.
ExplicitKeyContent ==
    phase = "dispatch" /\ InFlow /\ explicitKeyLine = line /\ simpleKeyAllowed
        => LastReal # "flowEntry"

\* scanValueClearKey drops the key at a `:` "when an explicit `?` key is
\* pending".  The `?` whose line is remembered may be of an earlier document:
\* neither `---` nor `...` forgets it, and `:` is then measured against it.
PendingKeyInDocument ==
    phase = "dispatch" /\ explicitKeyLine # NoLine =>
        \A i \in DOMAIN tokens :
            tokens[i].val \in DocumentMarks => tokens[i].line <= explicitKeyLine

\* scanDoubleQuoted fails with "underIndentedScalar (continuation line below
\* current block indent)".  A continuation line below an escaped line break is
\* not checked: a scalar may end at or left of the column of its block.
QuotedInBlock ==
    [][ /\ phase = "dispatch" /\ phase' = "preprocess" /\ line' > line
        /\ col' <= CurrentIndent
        => tokens'[Len(tokens')].val # "scalar" \/ simpleKeyAllowed' ]_vars

\* scanDocumentStart and scanDocumentEnd unwind all indents at a marker at
\* column 0, so a marker closes whatever blocks are open.  preprocess rejects
\* it first when the outermost block is indented.
MarkerClosesBlocks ==
    phase = "trailingContent" /\ col = 0 => follow \cap {"---", "..."} = {}

=============================================================================
