------------------------ MODULE ScannerTokenProofs ------------------------
(***************************************************************************)
(* Theorems about what the token array promises to the parser, for every   *)
(* alphabet of lexemes, every set of names and every bound.                *)
(*                                                                         *)
(* A step changes the array in two ways only: it adds tokens at the end,   *)
(* and a `:` fills the slots of a pending key.  The first half of the      *)
(* module says, for every action, which tokens it adds and which slots it  *)
(* may fill; the theorems of the second half need nothing else of it.      *)
(***************************************************************************)
EXTENDS ScannerProperties, ScannerProofs

\* us is ts with tokens at (l, c) added, their values in vals.
Adds(ts, us, vals, l, c) ==
    /\ Len(ts) <= Len(us)
    /\ \A i \in (Len(ts) + 1)..Len(us) :
          us[i].val \in vals /\ us[i].line = l /\ us[i].col = c

\* A position at or after another.
NotBefore(l1, c1, l2, c2) == l1 < l2 \/ (l1 = l2 /\ c1 <= c2)

\* The slots at p and p + 1 are those of a key that `:` may still confirm.
Pending(p) ==
    \/ simpleKey.possible /\ simpleKey.tokenIndex = p
    \/ \E i \in 1..Len(simpleKeyStack) :
          simpleKeyStack[i].possible /\ simpleKeyStack[i].tokenIndex = p

\* No step but a fresh slot makes an index pending.
KeepsPending == \A p \in Nat : Pending(p)' => Pending(p)

\* Only the slots of a pending key change.
FillsPending ==
    \A i \in 1..Len(tokens) :
        tokens'[i] # tokens[i] => \E p \in Nat : Pending(p) /\ i \in {p, p + 1}

Ordinary == TokenVals \ (DirectiveTokens \cup DocumentMarks
                            \cup {"anchor", "alias", "streamStart", "streamEnd"})

\* What reading a content lexeme does to the array, the position and the keys.
Reads(vals) ==
    /\ ~directivesPresent /\ InDocument /\ phase' = "preprocess"
    /\ Adds(tokens, tokens', vals, line, col)
    /\ FillsPending /\ KeepsPending
    /\ NotBefore(line, col, line', col')

LEMMA OrdinaryVals ==
    /\ "blockSequenceStart" \in Ordinary /\ "blockMappingStart" \in Ordinary
    /\ "blockEnd" \in Ordinary /\ "blockEntry" \in Ordinary
    /\ "flowSequenceStart" \in Ordinary /\ "flowSequenceEnd" \in Ordinary
    /\ "flowMappingStart" \in Ordinary /\ "flowMappingEnd" \in Ordinary
    /\ "flowEntry" \in Ordinary /\ "key" \in Ordinary /\ "value" \in Ordinary
    /\ "tag" \in Ordinary /\ "scalar" \in Ordinary
    /\ Ordinary \subseteq TokenVals
BY DEF Ordinary, TokenVals, DirectiveTokens, DocumentMarks

LEMMA AddsNothing ==
    ASSUME NEW ts \in Seq(Tokens), NEW vals, NEW l, NEW c
    PROVE  Adds(ts, ts, vals, l, c)
BY DEF Adds

LEMMA AppendedLen ==
    ASSUME NEW s \in Seq(Tokens), NEW t \in Seq(Tokens)
    PROVE  /\ s \o t \in Seq(Tokens) /\ Len(s \o t) = Len(s) + Len(t)
           /\ Len(s) \in Nat /\ Len(t) \in Nat
OBVIOUS

LEMMA AddsOn ==
    ASSUME NEW ts \in Seq(Tokens), NEW us \in Seq(Tokens), NEW vs \in Seq(Tokens),
           NEW vals, NEW l, NEW c, Adds(ts, us, vals, l, c),
           \A i \in 1..Len(vs) :
              vs[i].val \in vals /\ vs[i].line = l /\ vs[i].col = c
    PROVE  us \o vs \in Seq(Tokens) /\ Adds(ts, us \o vs, vals, l, c)
<1>1. us \o vs \in Seq(Tokens) /\ Len(us \o vs) = Len(us) + Len(vs)
  OBVIOUS
<1>2. Len(ts) \in Nat /\ Len(us) \in Nat /\ Len(vs) \in Nat /\ Len(ts) <= Len(us)
  BY DEF Adds
<1>3. ASSUME NEW i \in (Len(ts) + 1)..Len(us \o vs)
      PROVE  LET t == (us \o vs)[i]
             IN  t.val \in vals /\ t.line = l /\ t.col = c
  <2>1. CASE i <= Len(us)
    <3>1. (us \o vs)[i] = us[i] /\ i \in (Len(ts) + 1)..Len(us)
      BY <1>1, <1>2, <2>1
    <3> QED
      BY <3>1 DEF Adds
  <2>2. CASE i > Len(us)
    <3>1. PICK j \in 1..Len(vs) : i = Len(us) + j
      <4>1. i - Len(us) \in 1..Len(vs) /\ i = Len(us) + (i - Len(us))
        BY <1>1, <1>2, <2>2
      <4> QED
        BY <4>1
    <3>2. (us \o vs)[i] = vs[j]
      BY <3>1, AppendedAt
    <3> QED
      BY <3>2
  <2> QED
    BY <1>1, <1>2, <2>1, <2>2
<1> QED
  BY <1>1, <1>2, <1>3 DEF Adds

LEMMA EmitsAdds ==
    ASSUME TypeOK, NEW vals, NEW v \in vals \cap TokenVals,
           NEW us \in Seq(Tokens), Adds(tokens, us, vals, line, col)
    PROVE  us \o Emitted(v) \in Seq(Tokens)
           /\ Adds(tokens, us \o Emitted(v), vals, line, col)
<1>1. /\ Emitted(v) \in Seq(Tokens) /\ Len(Emitted(v)) = 1
      /\ Emitted(v)[1] = TokenAt(v, NoName, line, col)
  BY EmittedType
<1>2. \A i \in 1..Len(Emitted(v)) :
         /\ Emitted(v)[i].val \in vals
         /\ Emitted(v)[i].line = line /\ Emitted(v)[i].col = col
  BY <1>1 DEF TokenAt
<1>3. tokens \in Seq(Tokens)
  BY DEF TypeOK
<1> QED
  BY <1>1, <1>2, <1>3, AddsOn

LEMMA BlockEndsAdds ==
    ASSUME TypeOK, NEW k \in 1..Len(indents), NEW l \in Nat, NEW c \in Nat,
           NEW vals, "blockEnd" \in vals
    PROVE  /\ tokens \o BlockEnds(k, l, c) \in Seq(Tokens)
           /\ Adds(tokens, tokens \o BlockEnds(k, l, c), vals, l, c)
           /\ k = Len(indents) => tokens \o BlockEnds(k, l, c) = tokens
<1>1. /\ tokens \in Seq(Tokens) /\ BlockEnds(k, l, c) \in Seq(Tokens)
      /\ Len(BlockEnds(k, l, c)) = Len(indents) - k
  BY BlockEndsType DEF TypeOK
<1>2. \A i \in 1..Len(BlockEnds(k, l, c)) :
         LET t == BlockEnds(k, l, c)[i]
         IN  t.val \in vals /\ t.line = l /\ t.col = c
  <2>1. \A i \in 1..(Len(indents) - k) :
           BlockEnds(k, l, c)[i] = TokenAt("blockEnd", NoName, l, c)
    BY DEF BlockEnds
  <2> QED
    BY <1>1, <2>1 DEF TokenAt
<1>3. Adds(tokens, tokens, vals, l, c)
  BY <1>1, AddsNothing
<1>4. ASSUME k = Len(indents) PROVE tokens \o BlockEnds(k, l, c) = tokens
  <2>1. Len(indents) \in Nat
    BY DEF TypeOK
  <2>2. Len(BlockEnds(k, l, c)) = 0
    BY <1>1, <1>4, <2>1
  <2>3. BlockEnds(k, l, c) = <<>>
    BY <1>1, <2>2
  <2> QED
    BY <1>1, <2>3
<1> QED
  BY <1>1, <1>2, <1>3, <1>4, AddsOn

LEMMA PlaceholdersAdd ==
    ASSUME NEW ts \in Seq(Tokens), NEW us \in Seq(Tokens), NEW l \in Nat,
           NEW c \in Nat, NEW vals, "placeholder" \in vals, Adds(ts, us, vals, l, c)
    PROVE  /\ us \o Placeholders(l, c) \in Seq(Tokens)
           /\ Adds(ts, us \o Placeholders(l, c), vals, l, c)
           /\ Adds(us, us \o Placeholders(l, c), {"placeholder"}, l, c)
<1>1. /\ Placeholders(l, c) \in Seq(Tokens)
      /\ \A i \in 1..Len(Placeholders(l, c)) :
            Placeholders(l, c)[i] = TokenAt("placeholder", NoName, l, c)
  BY PlaceholdersType
<1>2. \A i \in 1..Len(Placeholders(l, c)) :
         LET t == Placeholders(l, c)[i]
         IN  /\ t.val \in vals /\ t.val \in {"placeholder"}
             /\ t.line = l /\ t.col = c
  BY <1>1 DEF TokenAt
<1>3. Adds(us, us, {"placeholder"}, l, c)
  BY AddsNothing
<1> QED
  BY <1>1, <1>2, <1>3, AddsOn

-----------------------------------------------------------------------------
(* What each action does to the array.                                     *)

\* A step that leaves the tokens it found alone fills no slot.
LEMMA GrowsFills ==
    ASSUME Grows(tokens, tokens')
    PROVE  FillsPending
BY DEF Grows, FillsPending

\* A step that leaves the stack of keys alone, and keeps the slots of the
\* pending key or drops the key, makes no index pending.
LEMMA SameSlotsPending ==
    ASSUME simpleKeyStack' = simpleKeyStack,
           \/ ~simpleKey'.possible
           \/ /\ simpleKey'.possible = simpleKey.possible
              /\ simpleKey'.tokenIndex = simpleKey.tokenIndex
    PROVE  KeepsPending
BY DEF KeepsPending, Pending

\* A lexeme that is consumed moves one column on.
LEMMA ConsumeMoves ==
    ASSUME TypeOK, NEW n, Consume(n)
    PROVE  phase' = "preprocess" /\ NotBefore(line, col, line', col')
BY DEF TypeOK, Consume, NotBefore

LEMMA FlowStartReads ==
    ASSUME Shape, Shape', NEW x \in Openers, FlowStart(x)
    PROVE  Reads(Ordinary)
<1>1. /\ simpleKeyStack \in Seq(SimpleKeys) /\ simpleKey \in SimpleKeys
      /\ simpleKeyStack' = Append(simpleKeyStack, simpleKey)
      /\ tokens \in Seq(Tokens) /\ ~simpleKey'.possible
  BY DEF FlowStart, PushesKey, Shape, TypeOK, NoKey
<1>2. PICK v \in Ordinary : v \in TokenVals /\ tokens' = tokens \o Emitted(v)
  BY OrdinaryVals DEF FlowStart
<1>3. Adds(tokens, tokens', Ordinary, line, col)
  BY <1>1, <1>2, AddsNothing, EmitsAdds DEF Shape
<1>4. FillsPending
  <2>1. Grows(tokens, tokens)
    BY <1>1 DEF Grows
  <2> QED
    BY <1>1, <1>2, <2>1, EmitsGrows, GrowsFills
<1>5. KeepsPending
  <2>1. /\ Len(simpleKeyStack') = Len(simpleKeyStack) + 1
        /\ Len(simpleKeyStack) \in Nat
        /\ \A i \in 1..Len(simpleKeyStack) : simpleKeyStack'[i] = simpleKeyStack[i]
        /\ simpleKeyStack'[Len(simpleKeyStack) + 1] = simpleKey
    BY <1>1
  <2>2. ASSUME NEW i \in 1..Len(simpleKeyStack')
        PROVE  \/ simpleKeyStack'[i] = simpleKey
               \/ /\ i \in 1..Len(simpleKeyStack)
                  /\ simpleKeyStack'[i] = simpleKeyStack[i]
    BY <2>1
  <2> QED
    BY <1>1, <2>2 DEF KeepsPending, Pending
<1> QED
  BY <1>3, <1>4, <1>5, ConsumeMoves DEF FlowStart, Content, Reads, Shape

LEMMA FlowEndReads ==
    ASSUME Shape, Shape', NEW x \in Closers, FlowEnd(x)
    PROVE  Reads(Ordinary)
<1>1. /\ simpleKeyStack \in Seq(SimpleKeys) /\ Len(simpleKeyStack) \in Nat \ {0}
      /\ simpleKeyStack' = SubSeq(simpleKeyStack, 1, Len(simpleKeyStack) - 1)
      /\ simpleKey' = simpleKeyStack[Len(simpleKeyStack)]
      /\ tokens \in Seq(Tokens)
  BY DEF FlowEnd, PopsKey, Shape, TypeOK, WellFormed, InFlow
<1>2. PICK v \in Ordinary : v \in TokenVals /\ tokens' = tokens \o Emitted(v)
  BY OrdinaryVals DEF FlowEnd
<1>3. Adds(tokens, tokens', Ordinary, line, col)
  BY <1>1, <1>2, AddsNothing, EmitsAdds DEF Shape
<1>4. FillsPending
  <2>1. Grows(tokens, tokens)
    BY <1>1 DEF Grows
  <2> QED
    BY <1>1, <1>2, <2>1, EmitsGrows, GrowsFills
<1> DEFINE n == Len(simpleKeyStack)
<1>5. KeepsPending
  <2>1. n \in Nat \ {0} /\ n = Len(simpleKeyStack)
    BY <1>1
  <2> HIDE DEF n
  <2>2. n - 1 \in 0..n
    BY <2>1
  <2>3. Len(simpleKeyStack') = n - 1
    BY <1>1, <2>1, <2>2
  <2>4. ASSUME NEW i \in 1..(n - 1) PROVE simpleKeyStack'[i] = simpleKeyStack[i]
    BY <1>1, <2>1, <2>2
  <2>5. n \in 1..n /\ \A i \in 1..(n - 1) : i \in 1..n
    BY <2>1
  <2> QED
    BY <1>1, <2>1, <2>3, <2>4, <2>5 DEF KeepsPending, Pending
<1> QED
  BY <1>3, <1>4, <1>5, ConsumeMoves DEF FlowEnd, Content, Reads, Shape

LEMMA PushedAdds ==
    ASSUME TypeOK, NEW vals, NEW v \in vals \cap TokenVals
    PROVE  PushedTokens(v) \in Seq(Tokens)
           /\ Adds(tokens, PushedTokens(v), vals, line, col)
<1>1. tokens \in Seq(Tokens) /\ Adds(tokens, tokens, vals, line, col)
  BY AddsNothing DEF TypeOK
<1> QED
  BY <1>1, EmitsAdds DEF PushedTokens

LEMMA IndicatorReads ==
    ASSUME Shape, Shape', FlowEntry \/ BlockEntry \/ Key
    PROVE  Reads(Ordinary)
<1>1. PICK ts \in Seq(Tokens), v \in Ordinary :
         /\ tokens' = ts \o Emitted(v)
         /\ Adds(tokens, ts, Ordinary, line, col)
  <2>1. tokens \in Seq(Tokens) /\ Adds(tokens, tokens, Ordinary, line, col)
    BY AddsNothing DEF Shape, TypeOK
  <2>2. CASE FlowEntry
    BY <2>1, <2>2, OrdinaryVals DEF FlowEntry
  <2>3. CASE BlockEntry
    BY <2>3, OrdinaryVals, PushedAdds DEF BlockEntry, Shape
  <2>4. CASE Key
    BY <2>4, OrdinaryVals, PushedAdds DEF Key, Shape
  <2> QED
    BY <2>2, <2>3, <2>4
<1>2. Adds(tokens, tokens', Ordinary, line, col)
  BY <1>1, OrdinaryVals, EmitsAdds DEF Shape
<1>3. FillsPending
  BY IndicatorGrows, GrowsFills
<1>4. KeepsPending
  BY IndicatorGrows, SameSlotsPending
<1>5. \E n : Consume(n)
  BY DEF FlowEntry, BlockEntry, Key
<1>6. ~directivesPresent /\ InDocument
  BY DEF FlowEntry, BlockEntry, Key, Content
<1> QED
  BY <1>2, <1>3, <1>4, <1>5, <1>6, ConsumeMoves DEF Reads, Shape

LEMMA ScalarReads ==
    ASSUME Shape, Shape', NEW l \in Lines, NEW c \in 0..(MaxCol + 1),
           BlockScalar(l) \/ QuotedScalar(l, c) \/ PlainScalar(l, c)
    PROVE  Reads(Ordinary)
<1>1. PICK m, d, n : ScalarTo(m, d, n) /\ NotBefore(line, col, m, d)
  <2>1. l \in Nat /\ c \in Nat /\ line \in Nat /\ col \in Nat
    BY BoundsAssumption DEF Lines, Shape, TypeOK
  <2> QED
    BY <2>1 DEF BlockScalar, QuotedScalar, PlainScalar, NotBefore
<1>2. Adds(tokens, tokens', Ordinary, line, col)
  <2>1. tokens \in Seq(Tokens) /\ Adds(tokens, tokens, Ordinary, line, col)
    BY AddsNothing DEF Shape, TypeOK
  <2> QED
    BY <1>1, <2>1, OrdinaryVals, EmitsAdds DEF ScalarTo, Shape
<1>3. FillsPending
  BY ScalarsGrow, GrowsFills
<1>4. KeepsPending
  BY ScalarsGrow, SameSlotsPending
<1>5. ~directivesPresent
  BY DEF BlockScalar, QuotedScalar, PlainScalar, Content
<1> QED
  BY <1>1, <1>2, <1>3, <1>4, <1>5 DEF ScalarTo, Reads

\* An anchor, an alias or a tag: one token, of its value and name.
LEMMA NodeReads ==
    ASSUME Shape, Shape', NEW t \in Tokens, OneLineNode(t), ~directivesPresent,
           t.line = line, t.col = col
    PROVE  /\ Reads({t.val}) /\ Grows(tokens, tokens')
           /\ Len(tokens') = Len(tokens) + 1 /\ tokens'[Len(tokens) + 1] = t
<1>1. /\ tokens \in Seq(Tokens) /\ tokens' = Append(tokens, t)
      /\ simpleKey' = simpleKey /\ simpleKeyStack' = simpleKeyStack
  BY DEF OneLineNode, Shape, TypeOK, flowVars
<1>2. /\ Len(tokens') = Len(tokens) + 1 /\ tokens'[Len(tokens) + 1] = t
      /\ Grows(tokens, tokens') /\ Len(tokens) \in Nat
  BY <1>1 DEF Grows
<1>3. Adds(tokens, tokens', {t.val}, line, col)
  BY <1>2 DEF Adds
<1>4. FillsPending /\ KeepsPending
  BY <1>1, <1>2, GrowsFills, SameSlotsPending
<1> QED
  BY <1>2, <1>3, <1>4, ConsumeMoves DEF OneLineNode, Reads, Shape

\* The value indicator: the slots it fills are those of the pending key.
LEMMA ValueReads ==
    ASSUME Shape, Shape', SlotsReserved, Value
    PROVE  Reads(Ordinary)
<1> DEFINE key == ClearedKey
<1>1. /\ key \in SimpleKeys
      /\ key.possible => key = simpleKey
  BY DEF ClearedKey, NoKey, SimpleKeys, Shape, TypeOK
<1>2. /\ tokens' = PreparedTokens(key) \o Emitted("value")
      /\ ~simpleKey'.possible /\ simpleKeyStack' = simpleKeyStack
      /\ tokens \in Seq(Tokens) /\ tokens' \in Seq(Tokens)
  BY DEF Value, flowVars, NoKey, Shape, TypeOK
<1> HIDE DEF key
<1>3. Adds(tokens, tokens', Ordinary, line, col) /\ FillsPending
  <2>1. CASE ~key.possible
    <3>1. /\ PreparedTokens(key) \in Seq(Tokens)
          /\ Adds(tokens, PreparedTokens(key), Ordinary, line, col)
          /\ Grows(tokens, PreparedTokens(key))
      <4>1. Adds(tokens, tokens, Ordinary, line, col) /\ Grows(tokens, tokens)
        BY <1>2, AddsNothing DEF Grows
      <4> QED
        BY <1>2, <2>1, <4>1, PushedAdds, PushedGrows, OrdinaryVals
           DEF PreparedTokens, Shape
    <3>2. Adds(tokens, tokens', Ordinary, line, col)
      BY <1>2, <3>1, EmitsAdds, OrdinaryVals DEF Shape
    <3>3. Grows(tokens, tokens')
      BY <1>2, <3>1, EmitsGrows, ValsType
    <3> QED
      BY <3>2, <3>3, GrowsFills
  <2>2. CASE key.possible
    <3> DEFINE p == key.tokenIndex
               rs == Resolved(key)
    <3>1. /\ Len(tokens) \in Nat /\ p \in Nat
          /\ p >= 2 /\ p + 1 <= Len(tokens) /\ Pending(p)
      BY <1>1, <1>2, <2>2 DEF SlotsReserved, Owns, SimpleKeys, Pending
    <3>2. /\ rs \in Seq(Tokens) /\ Len(rs) = Len(tokens)
          /\ \A i \in 1..Len(tokens) : i # p /\ i # p + 1 => rs[i] = tokens[i]
      BY <1>1, <1>2, <3>1, ResolvedTokens
    <3>3. tokens' = rs \o Emitted("value")
      BY <1>2, <2>2 DEF PreparedTokens
    <3> HIDE DEF rs, p
    <3>4. Adds(tokens, rs, Ordinary, line, col)
      BY <3>1, <3>2 DEF Adds
    <3>5. Adds(tokens, tokens', Ordinary, line, col)
      BY <3>2, <3>3, <3>4, EmitsAdds, OrdinaryVals DEF Shape
    <3>6. Emitted("value") \in Seq(Tokens)
      BY EmittedType, ValsType DEF Shape
    <3>7. Grows(rs, tokens')
      BY <3>2, <3>3, <3>6, AppendedGrows
    <3>8. \A i \in 1..Len(tokens) : i # p /\ i # p + 1 => tokens'[i] = tokens[i]
      BY <3>2, <3>7 DEF Grows
    <3>9. FillsPending
      BY <3>1, <3>8 DEF FillsPending
    <3> QED
      BY <3>5, <3>9
  <2> QED
    BY <2>1, <2>2
<1>4. KeepsPending
  BY <1>2, SameSlotsPending
<1> QED
  BY <1>3, <1>4, ConsumeMoves DEF Value, Content, Reads, Shape

\* A step that neither reads a lexeme nor ends the stream.
Rests ==
    /\ UNCHANGED <<tokens, indents, flowVars, simpleKey, docVars>>
    /\ NotBefore(line, col, line', col')
    /\ phase' \in ErrorKinds \cup {phase}

\* Content that leaves the anchors alone.
ReadsOrdinary == Reads(Ordinary) /\ UNCHANGED definedAnchors

LEMMA RestsCases ==
    ASSUME Shape,
           \/ \E l \in Lines, c \in Cols, x \in Lexemes : BadDedent(l, c, x)
           \/ \E l \in Lines, c \in Cols : TabInIndentation(l, c)
           \/ Failures \/ Terminating \/ UNCHANGED vars
    PROVE  Rests
<1>1. line \in Nat /\ col \in Nat
  BY DEF Shape, TypeOK
<1>2. ASSUME NEW l \in Lines, NEW c \in Cols, NEW x, BadDedent(l, c, x)
      PROVE  Rests
  BY <1>1, <1>2 DEF BadDedent, ContentAt, Rests, NotBefore, ErrorKinds, flowVars, docVars
<1>3. ASSUME NEW l \in Lines, NEW c \in Cols, TabInIndentation(l, c)
      PROVE  Rests
  BY <1>1, <1>3
     DEF TabInIndentation, ContentAt, Rests, NotBefore, ErrorKinds, flowVars, docVars
<1>4. CASE Failures
  BY <1>1, <1>4, FailuresFail DEF Fail, Rests, NotBefore, flowVars, docVars
<1>5. CASE Terminating \/ UNCHANGED vars
  BY <1>1, <1>5 DEF Terminating, vars, Rests, NotBefore, flowVars, docVars
<1> QED
  BY <1>2, <1>3, <1>4, <1>5

\* The kinds of steps, as far as the tokens go.
LEMMA StepKinds ==
    ASSUME Shape, Shape', SlotsReserved, [Next]_vars
    PROVE  \/ Rests \/ ReadsOrdinary
           \/ \E l \in Lines, c \in Cols : Preprocess(l, c)
           \/ EndOfStream \/ DocumentStart \/ DocumentEnd
           \/ YamlDirective \/ TagDirective \/ ReservedDirective
           \/ \E n \in Names : Anchor(n) \/ Alias(n)
<1>1. CASE Preprocessing
  BY <1>1, RestsCases DEF Preprocessing, Failures
<1>2. CASE Structure
  BY <1>2, RestsCases DEF Structure, Failures
<1>3. CASE Indicators
  <2>1. ASSUME NEW x \in Openers, FlowStart(x) PROVE ReadsOrdinary
    BY <2>1, FlowStartReads DEF FlowStart, ReadsOrdinary
  <2>2. ASSUME NEW x \in Closers, FlowEnd(x) PROVE ReadsOrdinary
    BY <2>2, FlowEndReads DEF FlowEnd, ReadsOrdinary
  <2>3. CASE FlowEntry \/ BlockEntry \/ Key
    BY <2>3, IndicatorReads DEF FlowEntry, BlockEntry, Key, ReadsOrdinary
  <2>4. CASE Value
    BY <2>4, ValueReads DEF Value, ReadsOrdinary
  <2>5. CASE FlowFails \/ ValueFails
    BY <2>5, RestsCases DEF Failures
  <2> QED
    BY <1>3, <2>1, <2>2, <2>3, <2>4, <2>5 DEF Indicators
<1>4. CASE Nodes
  <2>1. CASE Tag
    <3> DEFINE t == TokenAt("tag", NoName, line, col)
    <3>1. t \in Tokens /\ t.val = "tag" /\ t.line = line /\ t.col = col
      BY ValsType DEF TokenAt, Tokens, Shape, TypeOK
    <3>2. OneLineNode(t) /\ ~directivesPresent /\ UNCHANGED definedAnchors
      BY <2>1 DEF Tag, Content
    <3> HIDE DEF t
    <3>3. Reads({"tag"})
      BY <3>1, <3>2, NodeReads
    <3> QED
      BY <3>2, <3>3, OrdinaryVals DEF Reads, Adds, ReadsOrdinary
  <2>2. ASSUME NEW l \in Lines, NEW c \in 0..(MaxCol + 1),
               BlockScalar(l) \/ QuotedScalar(l, c) \/ PlainScalar(l, c)
        PROVE  ReadsOrdinary
    BY <2>2, ScalarReads
       DEF BlockScalar, QuotedScalar, PlainScalar, ScalarTo, ReadsOrdinary
  <2>3. CASE UndefinedAlias \/ Malformed
    BY <2>3, RestsCases DEF Failures
  <2>4. 0 \in 0..(MaxCol + 1)
    BY BoundsAssumption
  <2> QED
    BY <1>4, <2>1, <2>2, <2>3, <2>4 DEF Nodes
<1>5. CASE Terminating \/ UNCHANGED vars
  BY <1>5, RestsCases
<1> QED
  BY <1>1, <1>2, <1>3, <1>4, <1>5 DEF Next

\* Preprocessing adds block ends, then the slots of a key, at the position of
\* the lexeme.
LEMMA PreprocessAdds ==
    ASSUME Shape, NEW l \in Lines, NEW c \in Cols, Preprocess(l, c)
    PROVE  /\ l \in Nat /\ c \in Nat /\ line' = l /\ col' = c
           /\ NotBefore(line, col, l, c)
           /\ Grows(tokens, tokens')
           /\ Adds(tokens, tokens', {"blockEnd", "placeholder"}, l, c)
           /\ Len(indents) = 1 => Adds(tokens, tokens', {"placeholder"}, l, c)
           /\ \A p \in Nat : Pending(p)' => Pending(p) \/ p > Len(tokens)
           /\ Len(indents') <= Len(indents)
<1>1. l \in Nat /\ c \in Nat /\ tokens \in Seq(Tokens) /\ Len(indents) \in Nat
  BY BoundsAssumption DEF Lines, Cols, Shape, TypeOK
<1>2. PICK k \in 1..Len(indents) :
         /\ indents' = SubSeq(indents, 1, k)
         /\ tokens' = IF SavesKey(l)
                      THEN (tokens \o BlockEnds(k, l, c)) \o Placeholders(l, c)
                      ELSE tokens \o BlockEnds(k, l, c)
         /\ simpleKey' =
               IF SavesKey(l)
               THEN [possible |-> TRUE,
                     tokenIndex |-> Len(tokens \o BlockEnds(k, l, c)) + 1,
                     line |-> l, col |-> c, endLine |-> l]
               ELSE simpleKey
  BY DEF Preprocess
<1> DEFINE closed == tokens \o BlockEnds(k, l, c)
           vals == {"blockEnd", "placeholder"}
<1>3. /\ closed \in Seq(Tokens) /\ Adds(tokens, closed, vals, l, c)
      /\ k = Len(indents) => closed = tokens
  BY <1>1, BlockEndsAdds DEF Shape
<1>4. /\ BlockEnds(k, l, c) \in Seq(Tokens) /\ Placeholders(l, c) \in Seq(Tokens)
      /\ Grows(tokens, closed) /\ Grows(closed, closed \o Placeholders(l, c))
      /\ closed \o Placeholders(l, c) \in Seq(Tokens)
  <2>1. BlockEnds(k, l, c) \in Seq(Tokens) /\ Placeholders(l, c) \in Seq(Tokens)
    BY <1>1, BlockEndsType, PlaceholdersType DEF Shape
  <2>2. Grows(tokens, closed)
    BY <1>1, <2>1, AppendedGrows
  <2> HIDE DEF closed
  <2>3. closed \o Placeholders(l, c) \in Seq(Tokens)
    BY <1>3, <2>1
  <2> QED
    BY <1>3, <2>1, <2>2, <2>3, AppendedGrows
<1>5. tokens' = IF SavesKey(l) THEN closed \o Placeholders(l, c) ELSE closed
  BY <1>2
<1>6. Len(closed) \in Nat /\ Len(tokens) \in Nat /\ Len(tokens) <= Len(closed)
  BY <1>1, <1>3, <1>4 DEF Grows
<1>7. \A p \in Nat : Pending(p)' => Pending(p) \/ p = Len(closed) + 1
  <2>1. simpleKeyStack' = simpleKeyStack
    BY DEF Preprocess, flowVars
  <2> QED
    BY <1>2, <2>1 DEF Pending
<1> HIDE DEF closed, vals
<1>8. Adds(tokens, tokens', vals, l, c) /\ Grows(tokens, tokens')
  <2>1. Adds(tokens, closed \o Placeholders(l, c), vals, l, c)
    BY <1>1, <1>3, PlaceholdersAdd DEF vals
  <2>2. Grows(tokens, closed \o Placeholders(l, c))
    BY <1>1, <1>3, <1>4, GrowsTransitive
  <2> QED
    BY <1>3, <1>4, <1>5, <2>1, <2>2
<1>9. ASSUME Len(indents) = 1 PROVE Adds(tokens, tokens', {"placeholder"}, l, c)
  <2>1. closed = tokens /\ Adds(tokens, tokens, {"placeholder"}, l, c)
    BY <1>1, <1>3, <1>9, AddsNothing
  <2>2. Adds(tokens, tokens \o Placeholders(l, c), {"placeholder"}, l, c)
    BY <1>1, <2>1, PlaceholdersAdd
  <2> QED
    BY <1>5, <2>1, <2>2
<1>10. Len(indents') <= Len(indents)
  BY <1>1, <1>2 DEF Shape, TypeOK
<1>11. line' = l /\ col' = c /\ NotBefore(line, col, l, c)
  BY DEF Preprocess, ContentAt, NotBefore
<1>12. \A p \in Nat : Pending(p)' => Pending(p) \/ p > Len(tokens)
  BY <1>6, <1>7
<1> QED
  BY <1>1, <1>8, <1>9, <1>10, <1>11, <1>12 DEF vals

\* A marker, and the end of the stream, add block ends and one token more.
ClosesWith(v) ==
    /\ Grows(tokens, tokens') /\ Len(tokens) < Len(tokens')
    /\ Adds(tokens, tokens', {"blockEnd", v}, line, col)
    /\ tokens'[Len(tokens')].val = v
    /\ Len(indents) = 1 => Len(tokens') = Len(tokens) + 1

LEMMA CloseAdds ==
    ASSUME Shape, Shape', NEW v \in TokenVals,
           tokens' = (tokens \o BlockEnds(1, line, col)) \o Emitted(v)
    PROVE  ClosesWith(v)
<1> DEFINE closed == tokens \o BlockEnds(1, line, col)
<1>1. /\ 1 \in 1..Len(indents) /\ line \in Nat /\ col \in Nat
      /\ tokens \in Seq(Tokens) /\ tokens' \in Seq(Tokens)
  BY DEF Shape, TypeOK, WellFormed
<1>2. /\ closed \in Seq(Tokens) /\ Adds(tokens, closed, {"blockEnd", v}, line, col)
      /\ 1 = Len(indents) => closed = tokens
  BY <1>1, BlockEndsAdds DEF Shape
<1>3. Grows(tokens, closed)
  BY <1>1, BlockEndsType, AppendedGrows DEF Shape
<1> HIDE DEF closed
<1>4. /\ Emitted(v) \in Seq(Tokens) /\ Len(Emitted(v)) = 1
      /\ Emitted(v)[1].val = v
  <2>1. TokenAt(v, NoName, line, col).val = v
    BY DEF TokenAt
  <2> QED
    BY <2>1, EmittedType DEF Shape
<1>5. tokens' = closed \o Emitted(v)
  BY DEF closed
<1>6. /\ Len(tokens') = Len(closed) + 1 /\ Len(closed) \in Nat /\ Len(tokens) \in Nat
      /\ Len(tokens) <= Len(closed)
      /\ tokens'[Len(closed) + 1] = Emitted(v)[1]
  <2>1. tokens'[Len(closed) + 1] = Emitted(v)[1]
    BY <1>2, <1>4, <1>5, AppendedAt
  <2>2. Len(tokens') = Len(closed) + 1
    BY <1>2, <1>4, <1>5, AppendedLen
  <2>3. Len(closed) \in Nat /\ Len(tokens) \in Nat /\ Len(tokens) <= Len(closed)
    BY <1>1, <1>2, <1>3 DEF Grows
  <2> QED
    BY <2>1, <2>2, <2>3
<1>7. Grows(tokens, tokens')
  BY <1>1, <1>2, <1>3, <1>4, <1>5, AppendedGrows, GrowsTransitive
<1>8. Adds(tokens, tokens', {"blockEnd", v}, line, col)
  BY <1>2, <1>5, EmitsAdds DEF Shape
<1>9. /\ Len(tokens) < Len(tokens') /\ tokens'[Len(tokens')].val = v
      /\ Len(indents) = 1 => Len(tokens') = Len(tokens) + 1
  <2>1. Len(tokens) < Len(tokens')
    BY <1>6
  <2>2. tokens'[Len(tokens')].val = v
    BY <1>4, <1>6
  <2>3. Len(indents) = 1 => Len(tokens') = Len(tokens) + 1
    BY <1>2, <1>6
  <2> QED
    BY <2>1, <2>2, <2>3
<1> QED
  BY <1>7, <1>8, <1>9 DEF ClosesWith

LEMMA MarkerCloses ==
    ASSUME Shape, Shape', NEW v \in DocumentMarks, CloseDocument(v)
    PROVE  ClosesWith(v) /\ simpleKey' = NoKey /\ simpleKeyStack' = simpleKeyStack
<1>1. v \in TokenVals
  BY ValsType DEF DocumentMarks
<1>2. tokens' = (tokens \o BlockEnds(1, line, col)) \o Emitted(v)
  BY DEF CloseDocument
<1> QED
  BY <1>1, <1>2, CloseAdds DEF CloseDocument, flowVars

LEMMA EndOfStreamCloses ==
    ASSUME Shape, Shape', EndOfStream
    PROVE  ClosesWith("streamEnd")
<1>1. tokens' = (tokens \o BlockEnds(1, line, col)) \o Emitted("streamEnd")
  BY DEF EndOfStream
<1> QED
  BY <1>1, ValsType, CloseAdds

\* A directive adds its token, or nothing when it is reserved.
LEMMA DirectiveAdds ==
    ASSUME Shape, Shape', YamlDirective \/ TagDirective \/ ReservedDirective
    PROVE  /\ Grows(tokens, tokens')
           /\ Adds(tokens, tokens', DirectiveTokens, line, col)
           /\ YamlDirective =>
                 /\ Adds(tokens, tokens', {"versionDirective"}, line, col)
                 /\ Len(tokens') = Len(tokens) + 1
           /\ TagDirective =>
                 /\ Adds(tokens, tokens', {"tagDirective"}, line, col)
                 /\ Len(tokens') = Len(tokens) + 1
           /\ ReservedDirective => tokens' = tokens
           /\ allowDirectives /\ UNCHANGED allowDirectives /\ directivesPresent'
           /\ Consume({})
           /\ UNCHANGED <<indents, flowVars, simpleKey, definedAnchors>>
<1>1. tokens \in Seq(Tokens) /\ Len(tokens) \in Nat
  BY DEF Shape, TypeOK
<1>2. Grows(tokens, tokens')
  BY DirectiveGrows
<1>3. ASSUME NEW v \in DirectiveTokens, tokens' = tokens \o Emitted(v)
      PROVE  /\ Adds(tokens, tokens', {v}, line, col)
             /\ Adds(tokens, tokens', DirectiveTokens, line, col)
             /\ Len(tokens') = Len(tokens) + 1
  <2>1. v \in TokenVals
    BY ValsType DEF DirectiveTokens
  <2>2. Adds(tokens, tokens', {v}, line, col)
    BY <1>1, <1>3, <2>1, AddsNothing, EmitsAdds DEF Shape
  <2>3. Emitted(v) \in Seq(Tokens) /\ Len(Emitted(v)) = 1
    BY <2>1, EmittedType DEF Shape
  <2>4. Len(tokens') = Len(tokens) + 1
    BY <1>1, <1>3, <2>3, AppendedLen
  <2>5. Adds(tokens, tokens', DirectiveTokens, line, col)
    BY <2>2 DEF Adds
  <2> QED
    BY <2>2, <2>4, <2>5
<1>4. /\ YamlDirective => tokens' = tokens \o Emitted("versionDirective")
      /\ TagDirective => tokens' = tokens \o Emitted("tagDirective")
      /\ ReservedDirective => tokens' = tokens
  BY <1>1 DEF YamlDirective, TagDirective, ReservedDirective, Directive
<1>5. /\ allowDirectives /\ UNCHANGED allowDirectives /\ directivesPresent'
      /\ Consume({})
      /\ UNCHANGED <<indents, flowVars, simpleKey, definedAnchors>>
  BY DEF YamlDirective, TagDirective, ReservedDirective, Directive
<1>6. "versionDirective" \in DirectiveTokens /\ "tagDirective" \in DirectiveTokens
  BY DEF DirectiveTokens
<1>7. Adds(tokens, tokens', DirectiveTokens, line, col)
  BY <1>1, <1>3, <1>4, <1>6, AddsNothing
<1> QED
  BY <1>2, <1>3, <1>4, <1>5, <1>6, <1>7

\* What a token is after a step: itself, or a filled slot at its position.
LEMMA TokenKept ==
    ASSUME KeepsTokens, NEW i \in 1..Len(tokens)
    PROVE  /\ tokens'[i].line = tokens[i].line /\ tokens'[i].col = tokens[i].col
           /\ \/ tokens'[i] = tokens[i]
              \/ /\ tokens[i].val = "placeholder"
                 /\ tokens'[i].val \in {"key", "blockMappingStart"}
<1>1. \/ tokens'[i] = tokens[i]
      \/ /\ tokens[i].val = "placeholder"
         /\ \E v \in {"key", "blockMappingStart"} :
               tokens'[i] = TokenAt(v, NoName, tokens[i].line, tokens[i].col)
  BY DEF KeepsTokens
<1>2. \A v, l, c : LET u == TokenAt(v, NoName, l, c)
                   IN  u.val = v /\ u.line = l /\ u.col = c
  BY DEF TokenAt
<1> QED
  BY <1>1, <1>2

-----------------------------------------------------------------------------
(* Token positions never go back.                                          *)

\* Neither do the scanner's: it stands at or after the last token.
LastInOrder ==
    NotBefore(tokens[Len(tokens)].line, tokens[Len(tokens)].col, line, col)

\* The tokens a step adds are at one position, between where the scanner was
\* and where it is.
LEMMA StepPlaces ==
    ASSUME Shape, Shape', SlotsReserved, [Next]_vars
    PROVE  \E l, c \in Nat :
              /\ NotBefore(line, col, l, c) /\ NotBefore(l, c, line', col')
              /\ Adds(tokens, tokens', TokenVals, l, c)
<1>1. /\ line \in Nat /\ col \in Nat /\ line' \in Nat /\ col' \in Nat
      /\ tokens \in Seq(Tokens) /\ tokens' \in Seq(Tokens)
  BY DEF Shape, TypeOK
<1>2. NotBefore(line, col, line, col)
  BY <1>1 DEF NotBefore
<1>3. \A vals, l, c : Adds(tokens, tokens', vals, l, c)
                         => Adds(tokens, tokens', TokenVals, l, c)
  <2>1. \A i \in 1..Len(tokens') : tokens'[i].val \in TokenVals
    <3>1. \A t \in Tokens : t.val \in TokenVals
      BY DEF Tokens
    <3> QED
      BY <1>1, <3>1
  <2>2. Len(tokens) \in Nat /\ Len(tokens') \in Nat
    BY <1>1
  <2> QED
    BY <2>1, <2>2 DEF Adds
<1>4. CASE Rests
  BY <1>1, <1>2, <1>4, AddsNothing DEF Rests
<1>5. CASE ReadsOrdinary
  BY <1>1, <1>2, <1>3, <1>5 DEF ReadsOrdinary, Reads
<1>6. ASSUME NEW l \in Lines, NEW c \in Cols, Preprocess(l, c)
      PROVE  \E m, d \in Nat :
                /\ NotBefore(line, col, m, d) /\ NotBefore(m, d, line', col')
                /\ Adds(tokens, tokens', TokenVals, m, d)
  <2>1. /\ l \in Nat /\ c \in Nat /\ line' = l /\ col' = c
        /\ NotBefore(line, col, l, c) /\ NotBefore(l, c, l, c)
        /\ Adds(tokens, tokens', TokenVals, l, c)
    BY <1>3, <1>6, PreprocessAdds DEF NotBefore
  <2> QED
    BY <2>1
<1>7. CASE EndOfStream
  <2>1. line' = line /\ col' = col
    BY <1>7 DEF EndOfStream
  <2> QED
    BY <1>1, <1>2, <1>3, <1>7, <2>1, EndOfStreamCloses DEF ClosesWith
<1>8. CASE DocumentStart \/ DocumentEnd
  <2>1. \E v \in DocumentMarks : \E n : CloseDocument(v) /\ Consume(n)
    BY <1>8 DEF DocumentStart, DocumentEnd, DocumentMarks
  <2> QED
    BY <1>1, <1>2, <1>3, <2>1, MarkerCloses, ConsumeMoves DEF ClosesWith, Shape
<1>9. CASE YamlDirective \/ TagDirective \/ ReservedDirective
  BY <1>1, <1>2, <1>3, <1>9, DirectiveAdds, ConsumeMoves DEF Shape
<1>10. ASSUME NEW n \in Names, Anchor(n) \/ Alias(n)
       PROVE  \E l, c \in Nat :
                 /\ NotBefore(line, col, l, c) /\ NotBefore(l, c, line', col')
                 /\ Adds(tokens, tokens', TokenVals, l, c)
  <2>1. \E t \in Tokens : /\ OneLineNode(t) /\ t.line = line /\ t.col = col
                          /\ ~directivesPresent
    BY <1>1, <1>10, ValsType DEF Anchor, Alias, Content, TokenAt, Tokens
  <2> QED
    BY <1>1, <1>2, <1>3, <2>1, NodeReads DEF Reads
<1> QED
  BY <1>4, <1>5, <1>6, <1>7, <1>8, <1>9, <1>10, StepKinds

LEMMA StepInOrder ==
    ASSUME Shape, Shape', Slots, TokensInOrder, LastInOrder, [Next]_vars
    PROVE  TokensInOrder' /\ LastInOrder'
<1>1. PICK l, c \in Nat :
         /\ NotBefore(line, col, l, c) /\ NotBefore(l, c, line', col')
         /\ Adds(tokens, tokens', TokenVals, l, c)
  BY StepPlaces DEF Slots
<1>2. KeepsTokens
  BY StepSlots
<1> DEFINE n == Len(tokens)
           m == Len(tokens')
<1>3. /\ n \in Nat /\ n >= 1 /\ m \in Nat /\ n <= m
      /\ line \in Nat /\ col \in Nat /\ line' \in Nat /\ col' \in Nat
      /\ \A i \in 1..n : tokens[i].line \in Nat /\ tokens[i].col \in Nat
  <2>1. \A t \in Tokens : t.line \in Nat /\ t.col \in Nat
    BY DEF Tokens
  <2>2. tokens \in Seq(Tokens) /\ tokens' \in Seq(Tokens)
    BY DEF Shape, TypeOK
  <2>3. \A i \in 1..n : tokens[i].line \in Nat /\ tokens[i].col \in Nat
    BY <2>1, <2>2
  <2> QED
    BY <1>1, <2>2, <2>3 DEF Shape, TypeOK, Slots, Adds
<1>4. \A i \in 1..n : tokens'[i].line = tokens[i].line /\ tokens'[i].col = tokens[i].col
  BY <1>2, TokenKept
<1>5. \A i \in (n + 1)..m : tokens'[i].line = l /\ tokens'[i].col = c
  BY <1>1 DEF Adds
<1>6. \A i \in 1..(n - 1) :
         NotBefore(tokens[i].line, tokens[i].col, tokens[i + 1].line, tokens[i + 1].col)
  BY DEF TokensInOrder, NotBefore
<1>7. NotBefore(tokens[n].line, tokens[n].col, line, col)
  BY DEF LastInOrder
<1> HIDE DEF n, m
<1>8. NotBefore(tokens'[n].line, tokens'[n].col, l, c)
  <2>1. n \in 1..n
    BY <1>3
  <2> QED
    BY <1>1, <1>3, <1>4, <1>7, <2>1 DEF NotBefore
<1>9. ASSUME NEW i \in 1..(m - 1)
      PROVE  NotBefore(tokens'[i].line, tokens'[i].col,
                       tokens'[i + 1].line, tokens'[i + 1].col)
  <2>1. CASE i < n
    <3>1. i \in 1..n /\ i + 1 \in 1..n /\ i \in 1..(n - 1)
      BY <1>3, <2>1
    <3> QED
      BY <1>4, <1>6, <3>1
  <2>2. CASE i = n
    <3>1. i + 1 \in (n + 1)..m
      BY <1>3, <2>2
    <3> QED
      BY <1>5, <1>8, <2>2, <3>1
  <2>3. CASE i > n
    <3>1. i \in (n + 1)..m /\ i + 1 \in (n + 1)..m
      BY <1>3, <2>3
    <3> QED
      BY <1>5, <3>1 DEF NotBefore
  <2> QED
    BY <1>3, <2>1, <2>2, <2>3
<1>10. NotBefore(tokens'[m].line, tokens'[m].col, line', col')
  <2>1. CASE m = n
    <3>1. n \in 1..n
      BY <1>3
    <3> QED
      BY <1>1, <1>3, <1>4, <1>8, <2>1, <3>1 DEF NotBefore
  <2>2. CASE m > n
    <3>1. m \in (n + 1)..m
      BY <1>3, <2>2
    <3> QED
      BY <1>1, <1>5, <3>1
  <2> QED
    BY <1>3, <2>1, <2>2
<1> QED
  BY <1>9, <1>10 DEF TokensInOrder, LastInOrder, NotBefore, n, m

\* Token positions never go back, although keys are inserted afterwards:
\* saveSimpleKey reserves their slots at the key's own position, and the
\* scanner never stands before the last token.
THEOREM OrderInvariant == Spec => []TokensInOrder
<1>1. Init => TokensInOrder /\ LastInOrder
  BY DEF Init, TokensInOrder, LastInOrder, NotBefore, TokenAt
<1>2. Spec => [](Shape /\ Slots /\ TokensInOrder /\ LastInOrder)
  BY <1>1, InitShape, StepShape, InitSlots, StepSlots, StepInOrder, PTL DEF Spec
<1> QED
  BY <1>2, PTL

-----------------------------------------------------------------------------
(* An alias follows an anchor of its name in its document.                 *)

\* The anchor token at j has name n, and no marker has followed it up to i.
InScope(n, j, i) ==
    /\ tokens[j].val = "anchor" /\ tokens[j].name = n
    /\ \A k \in j..i : tokens[k].val \notin DocumentMarks

\* definedAnchors holds only names an alias may still refer to.
AnchorsInScope ==
    \A n \in definedAnchors : \E j \in 1..Len(tokens) : InScope(n, j, Len(tokens))

LEMMA InScopeKept ==
    ASSUME KeepsTokens, Len(tokens) \in Nat, NEW n, NEW i \in 1..Len(tokens),
           NEW j \in 1..i, InScope(n, j, i)
    PROVE  InScope(n, j, i)'
<1>1. ASSUME NEW k \in 1..Len(tokens), tokens[k].val # "placeholder"
      PROVE  tokens'[k] = tokens[k]
  BY <1>1, TokenKept
<1>2. ASSUME NEW k \in j..i
      PROVE  tokens'[k].val \notin DocumentMarks
  <2>1. k \in 1..Len(tokens)
    OBVIOUS
  <2>2. \/ tokens'[k] = tokens[k]
        \/ tokens'[k].val \in {"key", "blockMappingStart"}
    BY <2>1, TokenKept
  <2> QED
    BY <2>2 DEF InScope, DocumentMarks
<1>3. tokens'[j] = tokens[j]
  BY <1>1 DEF InScope
<1> QED
  BY <1>2, <1>3 DEF InScope

\* An alias of before has its anchor.
LEMMA AliasKept ==
    ASSUME KeepsTokens, Len(tokens) \in Nat, DOMAIN tokens = 1..Len(tokens), AliasScope,
           NEW i \in 1..Len(tokens), tokens'[i].val = "alias"
    PROVE  \E j \in 1..(i - 1) : InScope(tokens[i].name, j, i)'
<1>1. tokens'[i] = tokens[i]
  BY TokenKept
<1>2. PICK j \in 1..(i - 1) : InScope(tokens[i].name, j, i)
  BY <1>1 DEF AliasScope, InScope
<1>3. j \in 1..i
  OBVIOUS
<1> QED
  BY <1>1, <1>2, <1>3, InScopeKept

\* A name of before is still in scope when no marker was added.
LEMMA AnchorKept ==
    ASSUME KeepsTokens, Len(tokens) \in Nat \ {0}, Len(tokens') \in Nat,
           AnchorsInScope, NEW vals, NEW l, NEW c,
           Adds(tokens, tokens', vals, l, c), vals \cap DocumentMarks = {},
           NEW n \in definedAnchors
    PROVE  \E j \in 1..Len(tokens) : InScope(n, j, Len(tokens))'
<1>1. PICK j \in 1..Len(tokens) : InScope(n, j, Len(tokens))
  BY DEF AnchorsInScope
<1>2. Len(tokens) \in 1..Len(tokens) /\ j \in 1..Len(tokens)
  OBVIOUS
<1>3. ASSUME NEW k \in j..Len(tokens')
      PROVE  tokens'[k].val \notin DocumentMarks
  <2>1. CASE k <= Len(tokens)
    <3>1. k \in 1..Len(tokens) /\ k \in j..Len(tokens)
      BY <2>1
    <3>2. \/ tokens'[k] = tokens[k]
          \/ tokens'[k].val \in {"key", "blockMappingStart"}
      BY <3>1, TokenKept
    <3> QED
      BY <1>1, <3>1, <3>2 DEF InScope, DocumentMarks
  <2>2. CASE k > Len(tokens)
    <3>1. k \in (Len(tokens) + 1)..Len(tokens')
      BY <2>2
    <3> QED
      BY <3>1 DEF Adds
  <2> QED
    BY <2>1, <2>2
<1>4. tokens'[j] = tokens[j]
  <2>1. tokens[j].val # "placeholder"
    BY <1>1 DEF InScope
  <2> QED
    BY <2>1, TokenKept
<1> QED
  BY <1>1, <1>3, <1>4 DEF InScope

\* Steps that add no alias, and no marker unless the anchors are forgotten.
LEMMA QuietScope ==
    ASSUME KeepsTokens, Len(tokens) \in Nat \ {0}, Len(tokens') \in Nat,
           DOMAIN tokens = 1..Len(tokens), DOMAIN tokens' = 1..Len(tokens'),
           AliasScope, AnchorsInScope, NEW vals, NEW l, NEW c,
           Adds(tokens, tokens', vals, l, c), "alias" \notin vals,
           \/ definedAnchors' = {}
           \/ vals \cap DocumentMarks = {} /\ definedAnchors' = definedAnchors
    PROVE  AliasScope' /\ AnchorsInScope'
<1>1. AliasScope'
  <2>1. ASSUME NEW i \in 1..Len(tokens'), tokens'[i].val = "alias"
        PROVE  \E j \in 1..(i - 1) : InScope(tokens[i].name, j, i)'
    <3>1. CASE i <= Len(tokens)
      BY <2>1, <3>1, AliasKept
    <3>2. CASE i > Len(tokens)
      <4>1. i \in (Len(tokens) + 1)..Len(tokens')
        BY <3>2
      <4> QED
        BY <2>1, <4>1 DEF Adds
    <3> QED
      BY <3>1, <3>2
  <2> QED
    BY <2>1 DEF AliasScope, InScope
<1>2. AnchorsInScope'
  <2>1. CASE definedAnchors' = {}
    BY <2>1 DEF AnchorsInScope
  <2>2. CASE vals \cap DocumentMarks = {} /\ definedAnchors' = definedAnchors
    <3>1. \A j \in 1..Len(tokens) : j \in 1..Len(tokens')
      BY DEF Adds
    <3>2. \A n \in definedAnchors :
             \E j \in 1..Len(tokens) : InScope(n, j, Len(tokens))'
      BY <2>2, AnchorKept
    <3> QED
      BY <2>2, <3>1, <3>2 DEF AnchorsInScope
  <2> QED
    BY <2>1, <2>2
<1> QED
  BY <1>1, <1>2

LEMMA StepScope ==
    ASSUME Shape, Shape', Slots, AliasScope, AnchorsInScope, [Next]_vars
    PROVE  AliasScope' /\ AnchorsInScope'
<1>1. KeepsTokens /\ SlotsReserved
  BY StepSlots DEF Slots
<1>2. /\ tokens \in Seq(Tokens) /\ Len(tokens) \in Nat \ {0}
      /\ tokens' \in Seq(Tokens) /\ Len(tokens') \in Nat
      /\ DOMAIN tokens = 1..Len(tokens) /\ DOMAIN tokens' = 1..Len(tokens')
      /\ line \in Nat /\ col \in Nat
  BY DEF Shape, TypeOK, Slots
<1>3. CASE Rests
  <2>1. /\ definedAnchors' = definedAnchors
        /\ Adds(tokens, tokens', {}, line, col)
    BY <1>2, <1>3, AddsNothing DEF Rests, docVars
  <2> QED
    BY <1>1, <1>2, <2>1, QuietScope
<1>4. CASE ReadsOrdinary
  <2>1. "alias" \notin Ordinary /\ Ordinary \cap DocumentMarks = {}
    BY DEF Ordinary
  <2> QED
    BY <1>1, <1>2, <1>4, <2>1, QuietScope DEF ReadsOrdinary, Reads
<1>5. ASSUME NEW l \in Lines, NEW c \in Cols, Preprocess(l, c)
      PROVE  AliasScope' /\ AnchorsInScope'
  <2> DEFINE vals == {"blockEnd", "placeholder"}
  <2>1. Adds(tokens, tokens', vals, l, c)
    BY <1>5, PreprocessAdds
  <2>2. "alias" \notin vals /\ vals \cap DocumentMarks = {}
    BY DEF DocumentMarks
  <2>3. definedAnchors' = definedAnchors
    BY <1>5 DEF Preprocess, docVars
  <2> QED
    BY <1>1, <1>2, <2>1, <2>2, <2>3, QuietScope
<1>6. CASE EndOfStream
  <2> DEFINE vals == {"blockEnd", "streamEnd"}
  <2>1. Adds(tokens, tokens', vals, line, col)
    BY <1>6, EndOfStreamCloses DEF ClosesWith
  <2>2. "alias" \notin vals /\ vals \cap DocumentMarks = {}
    BY DEF DocumentMarks
  <2>3. definedAnchors' = definedAnchors
    BY <1>6 DEF EndOfStream, docVars
  <2> QED
    BY <1>1, <1>2, <2>1, <2>2, <2>3, QuietScope
<1>7. CASE DocumentStart \/ DocumentEnd
  <2>1. PICK v \in DocumentMarks : CloseDocument(v)
    BY <1>7 DEF DocumentStart, DocumentEnd, DocumentMarks
  <2> DEFINE vals == {"blockEnd", v}
  <2>2. Adds(tokens, tokens', vals, line, col)
    BY <2>1, MarkerCloses DEF ClosesWith
  <2>3. "alias" \notin vals /\ definedAnchors' = {}
    BY <2>1 DEF DocumentMarks, CloseDocument, NewDocument
  <2> QED
    BY <1>1, <1>2, <2>2, <2>3, QuietScope
<1>8. CASE YamlDirective \/ TagDirective \/ ReservedDirective
  <2>1. /\ Adds(tokens, tokens', DirectiveTokens, line, col)
        /\ definedAnchors' = definedAnchors
    BY <1>8, DirectiveAdds
  <2>2. "alias" \notin DirectiveTokens /\ DirectiveTokens \cap DocumentMarks = {}
    BY DEF DirectiveTokens, DocumentMarks
  <2> QED
    BY <1>1, <1>2, <2>1, <2>2, QuietScope
<1>9. ASSUME NEW n \in Names, Anchor(n)
      PROVE  AliasScope' /\ AnchorsInScope'
  <2> DEFINE t == TokenAt("anchor", n, line, col)
  <2>1. /\ t \in Tokens /\ t.val = "anchor" /\ t.name = n
        /\ t.line = line /\ t.col = col
    BY <1>2, ValsType DEF TokenAt, Tokens
  <2>2. OneLineNode(t) /\ ~directivesPresent /\ definedAnchors' = definedAnchors \cup {n}
    BY <1>9 DEF Anchor, Content
  <2> HIDE DEF t
  <2>3. /\ Adds(tokens, tokens', {"anchor"}, line, col)
        /\ Len(tokens') = Len(tokens) + 1 /\ tokens'[Len(tokens) + 1] = t
    BY <2>1, <2>2, NodeReads DEF Reads
  <2>4. {"anchor"} \cap DocumentMarks = {}
    BY DEF DocumentMarks
  <2>5. ASSUME NEW i \in 1..Len(tokens'), tokens'[i].val = "alias"
        PROVE  \E j \in 1..(i - 1) : InScope(tokens[i].name, j, i)'
    <3>1. i \in 1..Len(tokens)
      BY <1>2, <2>1, <2>3, <2>5
    <3> QED
      BY <1>1, <1>2, <2>5, <3>1, AliasKept
  <2>6. ASSUME NEW m \in definedAnchors'
        PROVE  \E j \in 1..Len(tokens') : InScope(m, j, Len(tokens))'
    <3>1. CASE m = n
      <4>1. Len(tokens') \in 1..Len(tokens') /\ tokens'[Len(tokens')] = t
        BY <1>2, <2>3
      <4>2. InScope(n, Len(tokens), Len(tokens))'
        BY <1>2, <2>1, <4>1 DEF InScope, DocumentMarks
      <4> QED
        BY <3>1, <4>1, <4>2
    <3>2. CASE m \in definedAnchors
      <4>1. \E j \in 1..Len(tokens) : InScope(m, j, Len(tokens))'
        BY <1>1, <1>2, <2>3, <2>4, <3>2, AnchorKept
      <4>2. \A j \in 1..Len(tokens) : j \in 1..Len(tokens')
        BY <1>2, <2>3
      <4> QED
        BY <4>1, <4>2
    <3> QED
      BY <2>2, <3>1, <3>2
  <2> QED
    BY <1>2, <2>5, <2>6 DEF AliasScope, AnchorsInScope, InScope
<1>10. ASSUME NEW n \in Names, Alias(n)
       PROVE  AliasScope' /\ AnchorsInScope'
  <2> DEFINE t == TokenAt("alias", n, line, col)
  <2>1. /\ t \in Tokens /\ t.val = "alias" /\ t.name = n
        /\ t.line = line /\ t.col = col
    BY <1>2, ValsType DEF TokenAt, Tokens
  <2>2. /\ OneLineNode(t) /\ ~directivesPresent
        /\ n \in definedAnchors /\ definedAnchors' = definedAnchors
    BY <1>10 DEF Alias, Content
  <2> HIDE DEF t
  <2>3. /\ Adds(tokens, tokens', {"alias"}, line, col)
        /\ Len(tokens') = Len(tokens) + 1 /\ tokens'[Len(tokens) + 1] = t
    BY <2>1, <2>2, NodeReads DEF Reads
  <2>4. {"alias"} \cap DocumentMarks = {}
    BY DEF DocumentMarks
  <2>5. \A m \in definedAnchors :
           \E j \in 1..Len(tokens) : InScope(m, j, Len(tokens))'
    BY <1>1, <1>2, <2>3, <2>4, AnchorKept
  <2>6. ASSUME NEW i \in 1..Len(tokens'), tokens'[i].val = "alias"
        PROVE  \E j \in 1..(i - 1) : InScope(tokens[i].name, j, i)'
    <3>1. CASE i \in 1..Len(tokens)
      BY <1>1, <1>2, <2>6, <3>1, AliasKept
    <3>2. CASE i = Len(tokens')
      <4>1. tokens'[i].name = n /\ i - 1 = Len(tokens)
        BY <1>2, <2>1, <2>3, <3>2
      <4> QED
        BY <2>2, <2>5, <3>2, <4>1
    <3> QED
      BY <1>2, <2>3, <3>1, <3>2
  <2>7. \A j \in 1..Len(tokens) : j \in 1..Len(tokens')
    BY <1>2, <2>3
  <2> QED
    BY <1>2, <2>2, <2>5, <2>6, <2>7 DEF AliasScope, AnchorsInScope, InScope
<1> QED
  BY <1>1, <1>3, <1>4, <1>5, <1>6, <1>7, <1>8, <1>9, <1>10, StepKinds

\* An alias follows an anchor of its name in the same document: scanAlias
\* accepts only names of definedAnchors, which both markers empty.
THEOREM AliasInvariant == Spec => []AliasScope
<1>1. Init => AliasScope /\ AnchorsInScope
  BY DEF Init, AliasScope, AnchorsInScope, TokenAt
<1>2. Spec => [](Shape /\ Slots /\ AliasScope /\ AnchorsInScope)
  BY <1>1, InitShape, StepShape, InitSlots, StepSlots, StepScope, PTL DEF Spec
<1> QED
  BY <1>2, PTL

-----------------------------------------------------------------------------
(* Directives stand in front of a document start.                          *)

DirectiveAt(i) == tokens[i].val \in DirectiveTokens

\* Token r is the last the parser would read.
Newest(r) ==
    /\ r \in 1..Len(tokens) /\ RealAt(r)
    /\ \A k \in (r + 1)..Len(tokens) : ~RealAt(k)

\* While directives are allowed nothing is open, and the last token is one a
\* directive may follow.
MayDirect ==
    phase \in Running /\ allowDirectives =>
        /\ Len(indents) = 1 /\ ~InFlow
        /\ \E r \in 1..Len(tokens) :
              /\ Newest(r)
              /\ tokens[r].val \in DirectiveTokens \cup {"streamStart", "documentEnd"}

Waiting == directivesPresent => allowDirectives

\* With none pending, every directive has its document start, and the keys
\* still to be confirmed come after it.
Answered ==
    ~directivesPresent =>
        \A i \in 1..Len(tokens) : DirectiveAt(i) =>
            /\ \E k \in (i + 1)..Len(tokens) : tokens[k].val = "documentStart"
            /\ \A p \in Nat : Pending(p) =>
                  \E k \in (i + 1)..(p - 1) : tokens[k].val = "documentStart"

\* A version directive the scanner has forgotten is of an earlier document.
Forgotten ==
    ~seenYamlDirective =>
        \A i \in 1..Len(tokens) : tokens[i].val = "versionDirective" =>
            \E k \in (i + 1)..Len(tokens) : tokens[k].val \in DocumentMarks

Preceded ==
    \A i \in 1..Len(tokens) : DirectiveAt(i) =>
        \E j \in 1..(i - 1) :
            /\ Adjacent(j, i)
            /\ tokens[j].val \in DirectiveTokens \cup {"streamStart", "documentEnd"}

Followed ==
    \A i, j \in 1..Len(tokens) :
        DirectiveAt(i) /\ Adjacent(i, j) =>
            tokens[j].val \in DirectiveTokens \cup {"documentStart"}

OneVersion ==
    \A i, j \in 1..Len(tokens) :
        /\ i < j
        /\ tokens[i].val = "versionDirective" /\ tokens[j].val = "versionDirective"
        => \E k \in i..j : tokens[k].val \in DocumentMarks

Ended == phase = "accepted" => tokens[Len(tokens)].val = "streamEnd"

\* What the array says of directives, and the scanner's flags with it.
Arranged == Preceded /\ Followed /\ OneVersion
DirectivesInv ==
    MayDirect /\ Waiting /\ Answered /\ Forgotten /\ Arranged /\ Ended

\* The slots a step may fill lie behind a document start: with directives
\* pending it fills none.
FillsAfterStart == Grows(tokens, tokens') \/ (~directivesPresent /\ FillsPending)

\* Lengths and domains of the two arrays.
Sized ==
    /\ Len(tokens) \in Nat \ {0} /\ Len(tokens') \in Nat
    /\ Len(tokens) <= Len(tokens')
    /\ DOMAIN tokens = 1..Len(tokens) /\ DOMAIN tokens' = 1..Len(tokens')

LEMMA DirectiveKept ==
    ASSUME KeepsTokens, NEW i \in 1..Len(tokens)
    PROVE  /\ DirectiveAt(i)' <=> DirectiveAt(i)
           /\ RealAt(i) => tokens'[i] = tokens[i] /\ RealAt(i)'
           /\ DirectiveAt(i) => RealAt(i)
           /\ \A v \in DirectiveTokens \cup DocumentMarks :
                 tokens'[i].val = v <=> tokens[i].val = v
<1>1. \/ tokens'[i] = tokens[i]
      \/ /\ tokens[i].val = "placeholder"
         /\ tokens'[i].val \in {"key", "blockMappingStart"}
  BY TokenKept
<1> QED
  BY <1>1 DEF DirectiveAt, RealAt, DirectiveTokens, DocumentMarks

\* Around a directive the array stays as it is.
LEMMA AroundDirective ==
    ASSUME Sized, KeepsTokens, FillsAfterStart, Answered,
           NEW i \in 1..Len(tokens), DirectiveAt(i),
           NEW m \in 1..Len(tokens), tokens'[m] # tokens[m]
    PROVE  \E k \in (i + 1)..(m - 1) : RealAt(k) /\ RealAt(k)'
<1>1. ~directivesPresent /\ FillsPending
  BY DEF FillsAfterStart, Grows
<1>2. PICK p \in Nat : Pending(p) /\ m \in {p, p + 1}
  BY <1>1 DEF FillsPending
<1>3. PICK k \in (i + 1)..(p - 1) : tokens[k].val = "documentStart"
  BY <1>1, <1>2 DEF Answered
<1>4. k \in 1..Len(tokens) /\ k \in (i + 1)..(m - 1)
  BY <1>2, <1>3 DEF Sized
<1>5. RealAt(k)
  BY <1>3 DEF RealAt
<1> QED
  BY <1>4, <1>5, DirectiveKept

LEMMA FollowedKept ==
    ASSUME Sized, KeepsTokens, FillsAfterStart, Answered,
           NEW i \in 1..Len(tokens), DirectiveAt(i),
           NEW j \in 1..Len(tokens), Adjacent(i, j)'
    PROVE  Adjacent(i, j) /\ tokens'[j] = tokens[j]
<1>1. /\ i < j /\ RealAt(i)' /\ RealAt(j)'
      /\ \A k \in (i + 1)..(j - 1) : ~RealAt(k)'
  BY DEF Adjacent
<1>2. ASSUME NEW m \in i..j PROVE m \in 1..Len(tokens) /\ tokens'[m] = tokens[m]
  <2>1. m \in 1..Len(tokens)
    BY DEF Sized
  <2> SUFFICES ASSUME tokens'[m] # tokens[m] PROVE FALSE
    BY <2>1
  <2>2. PICK k \in (i + 1)..(m - 1) : RealAt(k)'
    BY <2>1, AroundDirective
  <2>3. k \in (i + 1)..(j - 1)
    OBVIOUS
  <2> QED
    BY <1>1, <2>2, <2>3
<1>3. i \in i..j /\ j \in i..j /\ \A k \in (i + 1)..(j - 1) : k \in i..j
  BY <1>1
<1> QED
  BY <1>1, <1>2, <1>3 DEF Adjacent, RealAt

LEMMA PrecededKept ==
    ASSUME Sized, KeepsTokens, FillsAfterStart, Answered,
           NEW i \in 1..Len(tokens), DirectiveAt(i),
           NEW j \in 1..(i - 1), Adjacent(j, i)
    PROVE  Adjacent(j, i)' /\ tokens'[j] = tokens[j]
<1>1. ASSUME NEW m \in j..i PROVE tokens'[m] = tokens[m]
  <2>1. m \in 1..Len(tokens)
    BY DEF Sized
  <2> SUFFICES ASSUME tokens'[m] # tokens[m] PROVE FALSE
    OBVIOUS
  <2>2. \E k \in (i + 1)..(m - 1) : TRUE
    BY <2>1, AroundDirective
  <2> QED
    BY <2>2
<1>2. i \in j..i /\ j \in j..i /\ \A k \in (j + 1)..(i - 1) : k \in j..i
  OBVIOUS
<1> QED
  BY <1>1, <1>2 DEF Adjacent, RealAt

\* Steps that add no directive; with directives pending they add nothing the
\* parser reads but a document start.
LEMMA ArrangedKept ==
    ASSUME Sized, KeepsTokens, FillsAfterStart, Answered, Arranged,
           NEW vals, NEW l, NEW c, Adds(tokens, tokens', vals, l, c),
           vals \cap DirectiveTokens = {},
           directivesPresent => vals \subseteq {"placeholder", "documentStart"}
    PROVE  Arranged'
<1>1. ASSUME NEW i \in 1..Len(tokens'), DirectiveAt(i)'
      PROVE  i \in 1..Len(tokens) /\ DirectiveAt(i)
  <2>1. CASE i \in 1..Len(tokens)
    BY <1>1, <2>1, DirectiveKept
  <2>2. CASE i \in (Len(tokens) + 1)..Len(tokens')
    BY <1>1, <2>2 DEF Adds, DirectiveAt
  <2> QED
    BY <2>1, <2>2 DEF Sized
<1>2. Preceded'
  <2>1. ASSUME NEW i \in 1..Len(tokens'), DirectiveAt(i)'
        PROVE  \E j \in 1..(i - 1) :
                  /\ Adjacent(j, i)'
                  /\ tokens'[j].val \in DirectiveTokens \cup {"streamStart", "documentEnd"}
    <3>1. i \in 1..Len(tokens) /\ DirectiveAt(i)
      BY <1>1, <2>1
    <3>2. PICK j \in 1..(i - 1) :
             /\ Adjacent(j, i)
             /\ tokens[j].val \in DirectiveTokens \cup {"streamStart", "documentEnd"}
      BY <3>1 DEF Arranged, Preceded
    <3> QED
      BY <3>1, <3>2, PrecededKept
  <2> QED
    BY <2>1 DEF Preceded
<1>3. Followed'
  <2>1. ASSUME NEW i \in 1..Len(tokens'), NEW j \in 1..Len(tokens'),
               DirectiveAt(i)', Adjacent(i, j)'
        PROVE  tokens'[j].val \in DirectiveTokens \cup {"documentStart"}
    <3>1. i \in 1..Len(tokens) /\ DirectiveAt(i)
      BY <1>1, <2>1
    <3>2. CASE j \in 1..Len(tokens)
      BY <2>1, <3>1, <3>2, FollowedKept DEF Arranged, Followed
    <3>3. CASE j \in (Len(tokens) + 1)..Len(tokens')
      <4>1. tokens'[j].val \in vals /\ tokens'[j].val # "placeholder"
        BY <2>1, <3>3 DEF Adds, Adjacent, RealAt
      <4>2. directivesPresent
        <5> SUFFICES ASSUME ~directivesPresent PROVE FALSE
          OBVIOUS
        <5>1. PICK k \in (i + 1)..Len(tokens) : tokens[k].val = "documentStart"
          BY <3>1 DEF Answered
        <5>2. k \in 1..Len(tokens) /\ k \in (i + 1)..(j - 1) /\ RealAt(k)
          BY <3>3, <5>1 DEF RealAt, Sized
        <5>3. RealAt(k)'
          BY <5>2, DirectiveKept
        <5> QED
          BY <2>1, <5>2, <5>3 DEF Adjacent
      <4> QED
        BY <4>1, <4>2
    <3> QED
      BY <3>2, <3>3 DEF Sized
  <2> QED
    BY <2>1 DEF Followed
<1>4. OneVersion'
  <2>1. ASSUME NEW i \in 1..Len(tokens'), NEW j \in 1..Len(tokens'), i < j,
               tokens'[i].val = "versionDirective", tokens'[j].val = "versionDirective"
        PROVE  \E k \in i..j : tokens'[k].val \in DocumentMarks
    <3>1. DirectiveAt(i)' /\ DirectiveAt(j)'
      BY <2>1 DEF DirectiveAt, DirectiveTokens
    <3>2. i \in 1..Len(tokens) /\ j \in 1..Len(tokens)
      BY <1>1, <3>1
    <3>3. tokens[i].val = "versionDirective" /\ tokens[j].val = "versionDirective"
      BY <2>1, <3>2, DirectiveKept DEF DirectiveTokens
    <3>4. PICK k \in i..j : tokens[k].val \in DocumentMarks
      BY <2>1, <3>2, <3>3 DEF Arranged, OneVersion
    <3>5. k \in 1..Len(tokens)
      BY <3>2
    <3> QED
      BY <3>4, <3>5, DirectiveKept
  <2> QED
    BY <2>1 DEF OneVersion
<1> QED
  BY <1>2, <1>3, <1>4 DEF Arranged

\* Directives still have their document start, and so do the keys.
LEMMA AnsweredKept ==
    ASSUME Sized, KeepsTokens, Answered, ~directivesPresent,
           NEW vals, NEW l, NEW c, Adds(tokens, tokens', vals, l, c),
           vals \cap DirectiveTokens = {},
           \A p \in Nat : Pending(p)' => Pending(p) \/ p > Len(tokens)
    PROVE  Answered'
<1> SUFFICES ASSUME NEW i \in 1..Len(tokens'), DirectiveAt(i)'
             PROVE  /\ \E k \in (i + 1)..Len(tokens') : tokens'[k].val = "documentStart"
                    /\ \A p \in Nat : Pending(p)' =>
                          \E k \in (i + 1)..(p - 1) : tokens'[k].val = "documentStart"
  BY DEF Answered
<1>1. i \in 1..Len(tokens)
  <2>1. CASE i \in (Len(tokens) + 1)..Len(tokens')
    BY <2>1 DEF Adds, DirectiveAt
  <2> QED
    BY <2>1 DEF Sized
<1>2. DirectiveAt(i)
  BY <1>1, DirectiveKept
<1>3. ASSUME NEW k \in (i + 1)..Len(tokens), tokens[k].val = "documentStart"
      PROVE  tokens'[k].val = "documentStart"
  <2>1. k \in 1..Len(tokens) /\ "documentStart" \in DocumentMarks
    BY DEF DocumentMarks
  <2> QED
    BY <1>3, <2>1, DirectiveKept
<1>4. PICK k \in (i + 1)..Len(tokens) : tokens[k].val = "documentStart"
  BY <1>1, <1>2 DEF Answered
<1>5. k \in (i + 1)..Len(tokens') /\ tokens'[k].val = "documentStart"
  BY <1>3, <1>4 DEF Sized
<1>6. ASSUME NEW p \in Nat, Pending(p)'
      PROVE  \E m \in (i + 1)..(p - 1) : tokens'[m].val = "documentStart"
  <2>1. CASE p > Len(tokens)
    <3>1. k \in (i + 1)..(p - 1)
      BY <1>1, <2>1 DEF Sized
    <3> QED
      BY <1>5, <3>1
  <2>2. CASE Pending(p) /\ p <= Len(tokens)
    <3>1. PICK m \in (i + 1)..(p - 1) : tokens[m].val = "documentStart"
      BY <1>1, <1>2, <2>2 DEF Answered
    <3>2. m \in (i + 1)..Len(tokens)
      BY <2>2 DEF Sized
    <3> QED
      BY <1>3, <3>1, <3>2
  <2> QED
    BY <1>6, <2>1, <2>2 DEF Sized
<1> QED
  BY <1>5, <1>6

LEMMA ForgottenKept ==
    ASSUME Sized, KeepsTokens, Forgotten,
           NEW vals, NEW l, NEW c, Adds(tokens, tokens', vals, l, c),
           \/ seenYamlDirective'
           \/ seenYamlDirective' = seenYamlDirective /\ "versionDirective" \notin vals
    PROVE  Forgotten'
<1> SUFFICES ASSUME ~seenYamlDirective', NEW i \in 1..Len(tokens'),
                    tokens'[i].val = "versionDirective"
             PROVE  \E k \in (i + 1)..Len(tokens') : tokens'[k].val \in DocumentMarks
  BY DEF Forgotten
<1>1. i \in 1..Len(tokens)
  <2>1. CASE i \in (Len(tokens) + 1)..Len(tokens')
    BY <2>1 DEF Adds
  <2> QED
    BY <2>1 DEF Sized
<1>2. tokens[i].val = "versionDirective"
  BY <1>1, DirectiveKept DEF DirectiveTokens
<1>3. PICK k \in (i + 1)..Len(tokens) : tokens[k].val \in DocumentMarks
  BY <1>1, <1>2 DEF Forgotten
<1>4. k \in 1..Len(tokens) /\ k \in (i + 1)..Len(tokens')
  BY DEF Sized
<1>5. tokens'[k].val \in DocumentMarks
  BY <1>3, <1>4, DirectiveKept
<1> QED
  BY <1>4, <1>5

LEMMA SizedSteps ==
    ASSUME Shape, Shape', Slots, KeepsTokens
    PROVE  Sized
BY DEF Shape, TypeOK, Slots, KeepsTokens, Sized

LEMMA RestsDirectives ==
    ASSUME DirectivesInv, Rests
    PROVE  DirectivesInv'
<1>1. /\ UNCHANGED <<tokens, indents, flowLevel, simpleKey, simpleKeyStack>>
      /\ UNCHANGED <<allowDirectives, seenYamlDirective, directivesPresent>>
      /\ phase' \in ErrorKinds \cup {phase}
  BY DEF Rests, flowVars, docVars
<1>2. ErrorKinds \cap (Running \cup {"accepted"}) = {}
  BY DEF ErrorKinds, Running
<1>3. MayDirect' /\ Ended'
  BY <1>1, <1>2 DEF DirectivesInv, MayDirect, Newest, RealAt, InFlow, Ended
<1>4. Waiting' /\ Answered' /\ Forgotten'
  BY <1>1 DEF DirectivesInv, Waiting, Answered, Forgotten, DirectiveAt, Pending
<1>5. Arranged'
  BY <1>1 DEF DirectivesInv, Arranged, Preceded, Followed, OneVersion,
              DirectiveAt, Adjacent, RealAt
<1> QED
  BY <1>3, <1>4, <1>5 DEF DirectivesInv

LEMMA ReadsDirectives ==
    ASSUME Sized, KeepsTokens, DirectivesInv, NEW vals, Reads(vals),
           vals \cap (DirectiveTokens \cup DocumentMarks) = {}
    PROVE  DirectivesInv'
<1>1. /\ ~directivesPresent /\ ~directivesPresent' /\ ~allowDirectives'
      /\ seenYamlDirective' = seenYamlDirective /\ phase' = "preprocess"
      /\ Adds(tokens, tokens', vals, line, col)
      /\ FillsPending /\ KeepsPending
  BY DEF Reads, InDocument
<1>2. vals \cap DirectiveTokens = {} /\ "versionDirective" \notin vals
  BY DEF DirectiveTokens
<1>3. Arranged'
  BY <1>1, <1>2, ArrangedKept DEF DirectivesInv, FillsAfterStart
<1>4. Answered'
  BY <1>1, <1>2, AnsweredKept DEF DirectivesInv, KeepsPending
<1>5. Forgotten'
  BY <1>1, <1>2, ForgottenKept DEF DirectivesInv
<1> QED
  BY <1>1, <1>3, <1>4, <1>5 DEF DirectivesInv, MayDirect, Waiting, Ended

LEMMA PreprocessDirectives ==
    ASSUME Shape, Shape', Sized, KeepsTokens, DirectivesInv,
           NEW l \in Lines, NEW c \in Cols, Preprocess(l, c)
    PROVE  DirectivesInv'
<1>1. /\ UNCHANGED <<flowLevel, allowDirectives, seenYamlDirective, directivesPresent>>
      /\ phase = "preprocess" /\ phase' = "dispatch"
  BY DEF Preprocess, flowVars, docVars
<1>2. /\ Grows(tokens, tokens') /\ Len(indents') <= Len(indents)
      /\ Adds(tokens, tokens', {"blockEnd", "placeholder"}, l, c)
      /\ Len(indents) = 1 => Adds(tokens, tokens', {"placeholder"}, l, c)
      /\ \A p \in Nat : Pending(p)' => Pending(p) \/ p > Len(tokens)
  BY PreprocessAdds
<1>3. Len(indents) \in Nat /\ Len(indents') \in Nat /\ Len(indents') >= 1
  BY DEF Shape, TypeOK, WellFormed
<1>4. allowDirectives => Len(indents) = 1
  BY <1>1 DEF DirectivesInv, MayDirect, Running
<1>5. /\ {"blockEnd", "placeholder"} \cap DirectiveTokens = {}
      /\ {"placeholder"} \cap DirectiveTokens = {}
  BY DEF DirectiveTokens
<1>6. Arranged'
  <2>1. CASE directivesPresent
    BY <1>2, <1>4, <1>5, <2>1, ArrangedKept DEF DirectivesInv, Waiting, FillsAfterStart
  <2>2. CASE ~directivesPresent
    BY <1>2, <1>5, <2>2, ArrangedKept DEF DirectivesInv, FillsAfterStart
  <2> QED
    BY <2>1, <2>2
<1>7. Answered'
  <2>1. CASE directivesPresent
    BY <1>1, <2>1 DEF Answered
  <2>2. CASE ~directivesPresent
    BY <1>2, <1>5, <2>2, AnsweredKept DEF DirectivesInv
  <2> QED
    BY <2>1, <2>2
<1>8. Forgotten'
  BY <1>1, <1>2, ForgottenKept DEF DirectivesInv
<1>9. MayDirect'
  <2> SUFFICES ASSUME allowDirectives
               PROVE  /\ Len(indents') = 1 /\ ~InFlow'
                      /\ \E r \in 1..Len(tokens') :
                            /\ Newest(r)'
                            /\ tokens'[r].val \in
                                  DirectiveTokens \cup {"streamStart", "documentEnd"}
    BY <1>1 DEF MayDirect
  <2>1. PICK r \in 1..Len(tokens) :
           /\ Newest(r)
           /\ tokens[r].val \in DirectiveTokens \cup {"streamStart", "documentEnd"}
    BY <1>1 DEF DirectivesInv, MayDirect, Running
  <2>2. tokens'[r] = tokens[r] /\ r \in 1..Len(tokens')
    BY <1>2 DEF Grows, Sized
  <2>3. ASSUME NEW k \in (r + 1)..Len(tokens') PROVE ~RealAt(k)'
    <3>1. CASE k \in (r + 1)..Len(tokens)
      <4>1. tokens'[k] = tokens[k]
        BY <1>2, <3>1 DEF Grows, Sized
      <4> QED
        BY <2>1, <3>1, <4>1 DEF Newest, RealAt
    <3>2. CASE k \in (Len(tokens) + 1)..Len(tokens')
      BY <1>2, <1>4, <3>2 DEF Adds, RealAt
    <3> QED
      BY <3>1, <3>2 DEF Sized
  <2>4. Newest(r)'
    BY <2>1, <2>2, <2>3 DEF Newest, RealAt
  <2>5. Len(indents') = 1 /\ ~InFlow'
    BY <1>1, <1>2, <1>3, <1>4 DEF DirectivesInv, MayDirect, Running, InFlow
  <2> QED
    BY <2>1, <2>2, <2>4, <2>5
<1>10. Waiting' /\ Ended'
  BY <1>1 DEF DirectivesInv, Waiting, Ended
<1> QED
  BY <1>6, <1>7, <1>8, <1>9, <1>10 DEF DirectivesInv

LEMMA EndOfStreamDirectives ==
    ASSUME Shape, Shape', Sized, KeepsTokens, DirectivesInv, EndOfStream
    PROVE  DirectivesInv'
<1> DEFINE vals == {"blockEnd", "streamEnd"}
<1>1. /\ UNCHANGED <<simpleKey, simpleKeyStack, seenYamlDirective, directivesPresent>>
      /\ ~directivesPresent /\ phase' = "accepted"
  BY DEF EndOfStream, flowVars, docVars
<1>2. /\ Grows(tokens, tokens') /\ Adds(tokens, tokens', vals, line, col)
      /\ tokens'[Len(tokens')].val = "streamEnd"
  BY EndOfStreamCloses DEF ClosesWith
<1>3. vals \cap DirectiveTokens = {} /\ "versionDirective" \notin vals
  BY DEF DirectiveTokens
<1>4. Arranged'
  BY <1>1, <1>2, <1>3, ArrangedKept DEF DirectivesInv, FillsAfterStart
<1>5. Answered'
  BY <1>1, <1>2, <1>3, AnsweredKept DEF DirectivesInv, Pending
<1>6. Forgotten'
  BY <1>1, <1>2, <1>3, ForgottenKept DEF DirectivesInv
<1>7. MayDirect' /\ Waiting' /\ Ended'
  BY <1>1, <1>2 DEF MayDirect, Waiting, Ended, Running
<1> QED
  BY <1>4, <1>5, <1>6, <1>7 DEF DirectivesInv

LEMMA MarkerDirectives ==
    ASSUME Shape, Shape', Sized, KeepsTokens, DirectivesInv,
           DocumentStart \/ DocumentEnd
    PROVE  DirectivesInv'
<1>1. PICK v \in DocumentMarks :
         /\ CloseDocument(v)
         /\ \/ DocumentStart /\ v = "documentStart"
            \/ DocumentEnd /\ v = "documentEnd"
  BY DEF DocumentStart, DocumentEnd, DocumentMarks
<1>2. /\ ClosesWith(v) /\ simpleKey' = NoKey /\ simpleKeyStack' = simpleKeyStack
  BY <1>1, MarkerCloses
<1>3. /\ phase = "dispatch" /\ ~InFlow /\ ~directivesPresent'
      /\ phase' = "preprocess" /\ flowLevel' = flowLevel /\ Len(indents') = 1
  <2>1. phase = "dispatch" /\ ~InFlow /\ phase' = "preprocess"
    BY DEF DocumentStart, DocumentEnd, AtMarker, At, Consume
  <2>2. flowLevel' = flowLevel /\ ~directivesPresent'
    BY <1>1 DEF CloseDocument, NewDocument, flowVars
  <2>3. Len(indents') = 1
    <3>1. indents \in Seq(Indents) /\ Len(indents) >= 1
      BY DEF Shape, TypeOK, WellFormed
    <3>2. indents' = SubSeq(indents, 1, 1)
      BY <1>1 DEF CloseDocument
    <3> QED
      BY <3>1, <3>2
  <2> QED
    BY <2>1, <2>2, <2>3
<1>n. PICK n \in Nat : n = Len(tokens')
  BY DEF Sized
<1>4. /\ n \in Nat \ {0} /\ n > Len(tokens) /\ tokens'[n].val = v
      /\ Grows(tokens, tokens')
      /\ Adds(tokens, tokens', {"blockEnd", v}, line, col)
      /\ Len(indents) = 1 => n = Len(tokens) + 1
  <2>1. /\ n > Len(tokens) /\ tokens'[n].val = v
        /\ Grows(tokens, tokens')
        /\ Adds(tokens, tokens', {"blockEnd", v}, line, col)
        /\ Len(indents) = 1 => n = Len(tokens) + 1
    BY <1>2, <1>n DEF ClosesWith
  <2>2. n # 0
    BY <2>1 DEF Sized
  <2> QED
    BY <2>1, <2>2
<1>5. \A p \in Nat : ~Pending(p)'
  <2>1. Len(simpleKeyStack) = 0
    BY <1>3 DEF Shape, TypeOK, WellFormed, InFlow
  <2> QED
    BY <1>2, <2>1 DEF Pending, NoKey
<1>6. {"blockEnd", v} \cap DirectiveTokens = {} /\ {v} \cap DirectiveTokens = {}
  BY DEF DirectiveTokens, DocumentMarks
<1>7. Arranged'
  <2>1. CASE directivesPresent
    <3>1. v = "documentStart"
      BY <1>1, <2>1 DEF DocumentEnd
    <3>2. n = Len(tokens) + 1
      BY <1>3, <1>4, <2>1 DEF DirectivesInv, Waiting, MayDirect, Running
    <3>3. Adds(tokens, tokens', {v}, line, col)
      BY <1>4, <1>n, <3>2 DEF Adds, Sized
    <3> QED
      BY <1>4, <1>6, <2>1, <3>1, <3>3, ArrangedKept DEF DirectivesInv, FillsAfterStart
  <2>2. CASE ~directivesPresent
    BY <1>4, <1>6, <2>2, ArrangedKept DEF DirectivesInv, FillsAfterStart
  <2> QED
    BY <2>1, <2>2
<1>8. ASSUME NEW i \in 1..n, DirectiveAt(i)'
      PROVE  i \in 1..Len(tokens)
  <2>1. CASE i \in (Len(tokens) + 1)..n
    BY <1>4, <1>6, <1>8, <1>n, <2>1 DEF Adds, DirectiveAt
  <2> QED
    BY <2>1 DEF Sized
<1>9. Answered'
  <2> SUFFICES ASSUME NEW i \in 1..n, DirectiveAt(i)'
               PROVE  \E k \in (i + 1)..n : tokens'[k].val = "documentStart"
    BY <1>5, <1>n DEF Answered
  <2>1. i \in 1..Len(tokens)
    BY <1>8
  <2>2. CASE v = "documentStart"
    <3>1. n \in (i + 1)..n
      BY <1>4, <2>1 DEF Sized
    <3> QED
      BY <1>4, <2>2, <3>1
  <2>3. CASE v # "documentStart"
    <3>1. ~directivesPresent
      BY <1>1, <2>3 DEF DocumentEnd
    <3>2. PICK k \in (i + 1)..Len(tokens) : tokens[k].val = "documentStart"
      BY <2>1, <3>1, DirectiveKept DEF DirectivesInv, Answered
    <3>3. k \in 1..Len(tokens) /\ k \in (i + 1)..n
      BY <1>4 DEF Sized
    <3>4. tokens'[k].val = "documentStart"
      BY <3>2, <3>3, DirectiveKept DEF DocumentMarks
    <3> QED
      BY <3>3, <3>4
  <2> QED
    BY <2>2, <2>3
<1>10. Forgotten'
  <2> SUFFICES ASSUME NEW i \in 1..n, tokens'[i].val = "versionDirective"
               PROVE  \E k \in (i + 1)..n : tokens'[k].val \in DocumentMarks
    BY <1>n DEF Forgotten
  <2>1. i \in 1..Len(tokens)
    BY <1>8 DEF DirectiveAt, DirectiveTokens
  <2>2. n \in (i + 1)..n
    BY <1>4, <2>1 DEF Sized
  <2> QED
    BY <1>4, <2>2
<1>11. MayDirect' /\ Waiting' /\ Ended'
  <2>1. CASE v = "documentEnd"
    <3>1. n \in 1..n /\ \A k \in (n + 1)..n : FALSE
      BY <1>4
    <3>2. Newest(n)'
      BY <1>4, <1>n, <2>1, <3>1 DEF Newest, RealAt
    <3> QED
      BY <1>3, <1>4, <1>n, <2>1, <3>1, <3>2 DEF MayDirect, Waiting, Ended, InFlow
  <2>2. CASE v # "documentEnd"
    <3>1. ~allowDirectives'
      BY <1>1, <2>2 DEF DocumentStart
    <3> QED
      BY <1>3, <3>1 DEF MayDirect, Waiting, Ended
  <2> QED
    BY <2>1, <2>2
<1> QED
  BY <1>7, <1>9, <1>10, <1>11 DEF DirectivesInv

LEMMA DirectiveDirectives ==
    ASSUME Shape, Shape', Sized, KeepsTokens, DirectivesInv,
           YamlDirective \/ TagDirective \/ ReservedDirective
    PROVE  DirectivesInv'
<1>1. /\ phase = "dispatch" /\ phase' = "preprocess"
      /\ allowDirectives /\ allowDirectives' /\ directivesPresent'
      /\ UNCHANGED <<indents, flowLevel>>
      /\ Grows(tokens, tokens')
      /\ Adds(tokens, tokens', DirectiveTokens, line, col)
  <2>1. phase = "dispatch"
    BY DEF YamlDirective, TagDirective, ReservedDirective, AtDirective, At
  <2>2. /\ allowDirectives /\ UNCHANGED allowDirectives /\ directivesPresent'
        /\ Consume({}) /\ UNCHANGED <<indents, flowVars>>
        /\ Grows(tokens, tokens')
        /\ Adds(tokens, tokens', DirectiveTokens, line, col)
    BY DirectiveAdds
  <2> QED
    BY <2>1, <2>2 DEF Consume, flowVars
<1> DEFINE n == Len(tokens)
<1>2. \/ tokens' = tokens /\ seenYamlDirective' = seenYamlDirective
      \/ /\ Len(tokens') = n + 1
         /\ \/ ~seenYamlDirective /\ seenYamlDirective'
            \/ /\ seenYamlDirective' = seenYamlDirective
               /\ Adds(tokens, tokens', {"tagDirective"}, line, col)
  BY DirectiveAdds DEF YamlDirective, TagDirective, ReservedDirective
<1>3. PICK r \in 1..n :
         /\ Newest(r)
         /\ tokens[r].val \in DirectiveTokens \cup {"streamStart", "documentEnd"}
  BY <1>1 DEF DirectivesInv, MayDirect, Running
<1>4. n \in Nat \ {0} /\ Len(tokens') \in Nat /\ n <= Len(tokens')
  BY DEF Sized
<1>5. \A i \in 1..n : tokens'[i] = tokens[i]
  BY <1>1 DEF Grows
<1>6. FillsAfterStart /\ Answered /\ Arranged
  BY <1>1 DEF FillsAfterStart, DirectivesInv
<1> HIDE DEF n
<1>n. n = Len(tokens)
  BY DEF n
<1>7. ASSUME NEW i \in (n + 1)..Len(tokens')
      PROVE  /\ i = n + 1 /\ i = Len(tokens')
             /\ tokens'[i].val \in DirectiveTokens
  <2>1. tokens'[i].val \in DirectiveTokens
    BY <1>1, <1>n DEF Adds
  <2> QED
    BY <1>2, <1>4, <1>n, <2>1
<1>8. Preceded'
  <2>1. ASSUME NEW i \in 1..Len(tokens'), DirectiveAt(i)'
        PROVE  \E j \in 1..(i - 1) :
                  /\ Adjacent(j, i)'
                  /\ tokens'[j].val \in DirectiveTokens \cup {"streamStart", "documentEnd"}
    <3>1. CASE i \in 1..n
      <4>1. DirectiveAt(i)
        BY <1>n, <2>1, <3>1, DirectiveKept
      <4>2. PICK j \in 1..(i - 1) :
               /\ Adjacent(j, i)
               /\ tokens[j].val \in DirectiveTokens \cup {"streamStart", "documentEnd"}
        BY <1>6, <1>n, <3>1, <4>1 DEF Arranged, Preceded
      <4> QED
        BY <1>6, <1>n, <3>1, <4>1, <4>2, PrecededKept
    <3>2. CASE i \in (n + 1)..Len(tokens')
      <4>1. i = n + 1 /\ r \in 1..(i - 1) /\ r < i
        BY <1>4, <1>7, <3>2
      <4>2. RealAt(r)' /\ RealAt(i)'
        BY <1>3, <1>5, <2>1 DEF Newest, RealAt, DirectiveAt, DirectiveTokens
      <4>3. \A k \in (r + 1)..(i - 1) : ~RealAt(k)'
        <5>1. \A k \in (r + 1)..(i - 1) : k \in (r + 1)..n /\ k \in 1..n
          BY <1>4, <4>1
        <5> QED
          BY <1>3, <1>5, <1>n, <5>1 DEF Newest, RealAt
      <4> QED
        BY <1>3, <1>5, <4>1, <4>2, <4>3 DEF Adjacent
    <3> QED
      BY <1>4, <3>1, <3>2
  <2> QED
    BY <2>1 DEF Preceded
<1>9. Followed'
  <2>1. ASSUME NEW i \in 1..Len(tokens'), NEW j \in 1..Len(tokens'),
               DirectiveAt(i)', Adjacent(i, j)'
        PROVE  tokens'[j].val \in DirectiveTokens \cup {"documentStart"}
    <3>1. CASE j \in 1..n
      <4>1. i \in 1..n
        BY <1>4, <2>1, <3>1 DEF Adjacent
      <4>2. DirectiveAt(i)
        BY <1>n, <2>1, <4>1, DirectiveKept
      <4> QED
        BY <1>6, <1>n, <2>1, <3>1, <4>1, <4>2, FollowedKept DEF Arranged, Followed
    <3>2. CASE j \in (n + 1)..Len(tokens')
      BY <1>7, <3>2
    <3> QED
      BY <1>4, <3>1, <3>2
  <2> QED
    BY <2>1 DEF Followed
<1>10. OneVersion'
  <2>1. ASSUME NEW i \in 1..Len(tokens'), NEW j \in 1..Len(tokens'), i < j,
               tokens'[i].val = "versionDirective", tokens'[j].val = "versionDirective"
        PROVE  \E k \in i..j : tokens'[k].val \in DocumentMarks
    <3>1. i \in 1..n
      <4>1. CASE i \in (n + 1)..Len(tokens')
        BY <1>4, <1>7, <2>1, <4>1
      <4> QED
        BY <1>4, <4>1
    <3>2. tokens[i].val = "versionDirective"
      BY <1>5, <2>1, <3>1
    <3>3. \A k \in 1..n : k \in 1..n /\ tokens'[k] = tokens[k]
      BY <1>5
    <3>4. CASE j \in 1..n
      <4>0. tokens[j].val = "versionDirective"
        BY <1>5, <2>1, <3>4
      <4>1. PICK k \in i..j : tokens[k].val \in DocumentMarks
        BY <1>6, <1>n, <2>1, <3>1, <3>2, <3>4, <4>0 DEF Arranged, OneVersion
      <4>2. k \in 1..n
        BY <1>4, <3>1, <3>4
      <4> QED
        BY <3>3, <4>1, <4>2
    <3>5. CASE j \in (n + 1)..Len(tokens')
      <4>1. ~Adds(tokens, tokens', {"tagDirective"}, line, col)
        BY <1>n, <2>1, <3>5 DEF Adds
      <4>2. tokens' # tokens
        BY <1>4, <1>n, <3>5
      <4>3. ~seenYamlDirective
        BY <1>2, <4>1, <4>2
      <4>4. PICK k \in (i + 1)..n : tokens[k].val \in DocumentMarks
        BY <1>n, <3>1, <3>2, <4>3 DEF DirectivesInv, Forgotten
      <4>5. k \in 1..n /\ k \in i..j
        BY <1>4, <3>1, <3>5
      <4> QED
        BY <3>3, <4>4, <4>5
    <3> QED
      BY <1>4, <3>4, <3>5
  <2> QED
    BY <2>1 DEF OneVersion
<1>11. Forgotten'
  <2>1. CASE seenYamlDirective'
    BY <2>1 DEF Forgotten
  <2>2. CASE seenYamlDirective' = seenYamlDirective /\ tokens' = tokens
    BY <2>2 DEF DirectivesInv, Forgotten
  <2>3. CASE /\ seenYamlDirective' = seenYamlDirective
             /\ Adds(tokens, tokens', {"tagDirective"}, line, col)
    BY <2>3, ForgottenKept DEF DirectivesInv
  <2> QED
    BY <1>2, <2>1, <2>2, <2>3
<1>12. MayDirect'
  <2>1. Len(indents') = 1 /\ ~InFlow'
    BY <1>1 DEF DirectivesInv, MayDirect, Running, InFlow
  <2>2. \E q \in 1..Len(tokens') :
           /\ Newest(q)'
           /\ tokens'[q].val \in DirectiveTokens \cup {"streamStart", "documentEnd"}
    <3>1. CASE tokens' = tokens
      BY <1>3, <1>n, <3>1 DEF Newest, RealAt
    <3>2. CASE Len(tokens') = n + 1
      <4>q. PICK q \in Nat : q = Len(tokens')
        BY <1>4
      <4>1. q \in (n + 1)..q /\ q \in 1..q /\ \A k \in (q + 1)..q : FALSE
        BY <1>4, <3>2, <4>q
      <4>2. tokens'[q].val \in DirectiveTokens
        BY <1>7, <4>q, <4>1
      <4>3. Newest(q)'
        BY <4>q, <4>1, <4>2 DEF Newest, RealAt, DirectiveTokens
      <4> QED
        BY <4>q, <4>1, <4>2, <4>3
    <3> QED
      BY <1>2, <3>1, <3>2
  <2> QED
    BY <2>1, <2>2 DEF MayDirect
<1>13. Waiting' /\ Answered' /\ Ended'
  BY <1>1 DEF Waiting, Answered, Ended
<1> QED
  BY <1>8, <1>9, <1>10, <1>11, <1>12, <1>13 DEF DirectivesInv, Arranged

LEMMA StepDirectives ==
    ASSUME Shape, Shape', Slots, DirectivesInv, [Next]_vars
    PROVE  DirectivesInv'
<1>1. KeepsTokens /\ SlotsReserved
  BY StepSlots DEF Slots
<1>2. Sized
  BY <1>1, SizedSteps
<1>3. CASE ReadsOrdinary
  <2>1. Ordinary \cap (DirectiveTokens \cup DocumentMarks) = {}
    BY DEF Ordinary
  <2> QED
    BY <1>1, <1>2, <1>3, <2>1, ReadsDirectives DEF ReadsOrdinary
<1>4. ASSUME NEW n \in Names, Anchor(n) \/ Alias(n)
      PROVE  DirectivesInv'
  <2>1. line \in Nat /\ col \in Nat
    BY DEF Shape, TypeOK
  <2>2. PICK t \in Tokens :
           /\ OneLineNode(t) /\ ~directivesPresent
           /\ t.line = line /\ t.col = col /\ t.val \in {"anchor", "alias"}
    BY <1>4, <2>1, ValsType DEF Anchor, Alias, Content, TokenAt, Tokens
  <2>3. Reads({t.val}) /\ {t.val} \cap (DirectiveTokens \cup DocumentMarks) = {}
    BY <2>2, NodeReads DEF DirectiveTokens, DocumentMarks
  <2> QED
    BY <1>1, <1>2, <2>3, ReadsDirectives
<1> QED
  BY <1>1, <1>2, <1>3, <1>4, StepKinds, RestsDirectives, PreprocessDirectives,
     EndOfStreamDirectives, MarkerDirectives, DirectiveDirectives

LEMMA InitDirectives == Init => DirectivesInv
<1> SUFFICES ASSUME Init PROVE DirectivesInv
  OBVIOUS
<1>1. /\ tokens = <<TokenAt("streamStart", NoName, 0, 0)>> /\ Len(tokens) = 1
      /\ tokens[1].val = "streamStart" /\ Len(indents) = 1 /\ flowLevel = 0
      /\ ~directivesPresent /\ phase = "preprocess"
  BY DEF Init, TokenAt
<1>2. \A i \in 1..Len(tokens) : i = 1 /\ ~DirectiveAt(i) /\ RealAt(i)
  BY <1>1 DEF DirectiveAt, DirectiveTokens, RealAt
<1>3. MayDirect
  <2>1. 1 \in 1..Len(tokens) /\ Newest(1)
    BY <1>1, <1>2 DEF Newest
  <2> QED
    BY <1>1, <2>1 DEF MayDirect, InFlow
<1>4. Answered /\ Forgotten /\ Arranged
  BY <1>1, <1>2 DEF Answered, Forgotten, Arranged, Preceded, Followed, OneVersion
<1> QED
  BY <1>1, <1>3, <1>4 DEF DirectivesInv, Waiting, Ended

\* What the parser reads of the directives follows from the invariant.
LEMMA ArrangedBlock ==
    ASSUME Shape, Slots, DirectivesInv
    PROVE  DirectiveBlock
<1>1. Len(tokens) \in Nat \ {0} /\ DOMAIN tokens = 1..Len(tokens)
  BY DEF Shape, TypeOK, Slots
<1>2. ASSUME NEW i \in 1..Len(tokens), DirectiveAt(i), phase = "accepted"
      PROVE  \E j \in (i + 1)..Len(tokens) : RealAt(j)
  <2>1. tokens[Len(tokens)].val = "streamEnd"
    BY <1>2 DEF DirectivesInv, Ended
  <2>2. i # Len(tokens) /\ RealAt(Len(tokens))
    <3>1. "streamEnd" # "placeholder" /\ "streamEnd" \notin DirectiveTokens
      BY DEF DirectiveTokens
    <3> QED
      BY <1>2, <2>1, <3>1 DEF DirectiveAt, RealAt
  <2>3. Len(tokens) \in (i + 1)..Len(tokens)
    <3>1. ASSUME NEW n \in Nat, i \in 1..n, i # n PROVE n \in (i + 1)..n
      BY <3>1
    <3> QED
      BY <1>1, <2>2, <3>1
  <2> QED
    BY <2>2, <2>3
<1>3. \A i \in 1..Len(tokens) : \A j \in (i + 1)..Len(tokens) :
         j \in 1..Len(tokens) /\ i < j
  BY <1>1
<1> QED
  BY <1>1, <1>2, <1>3
  DEF DirectivesInv, Arranged, Preceded, Followed, OneVersion, DirectiveBlock, DirectiveAt

\* Directives stand at the start of the stream or after `...`, belong to a
\* `---` that follows with only directives between, and hold one %YAML at most:
\* checkNoPendingDirectives, scanDirective and scanDocumentEnd reject every
\* other order, and no key filled in later comes between.
THEOREM DirectiveInvariant == Spec => []DirectiveBlock
<1>1. Spec => [](Shape /\ Slots /\ DirectivesInv)
  BY InitDirectives, InitShape, StepShape, InitSlots, StepSlots, StepDirectives,
     PTL DEF Spec
<1> QED
  BY <1>1, ArrangedBlock, PTL

=============================================================================
