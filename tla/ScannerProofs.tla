--------------------------- MODULE ScannerProofs ---------------------------
(***************************************************************************)
(* Theorems about Scanner, for every alphabet of lexemes and every bound.  *)
(***************************************************************************)
EXTENDS Scanner, TLAPS

\* Well-typed and well-formed: what every step needs of the one before.
Shape == TypeOK /\ WellFormed

LEMMA ValsType ==
    /\ "streamEnd" \in TokenVals /\ "placeholder" \in TokenVals
    /\ "documentStart" \in TokenVals /\ "documentEnd" \in TokenVals
    /\ "versionDirective" \in TokenVals /\ "tagDirective" \in TokenVals
    /\ "blockSequenceStart" \in TokenVals /\ "blockMappingStart" \in TokenVals
    /\ "blockEnd" \in TokenVals /\ "blockEntry" \in TokenVals
    /\ "flowSequenceStart" \in TokenVals /\ "flowSequenceEnd" \in TokenVals
    /\ "flowMappingStart" \in TokenVals /\ "flowMappingEnd" \in TokenVals
    /\ "flowEntry" \in TokenVals /\ "key" \in TokenVals /\ "value" \in TokenVals
    /\ "anchor" \in TokenVals /\ "alias" \in TokenVals /\ "tag" \in TokenVals
    /\ "scalar" \in TokenVals
BY DEF TokenVals

LEMMA EmittedType ==
    ASSUME TypeOK, NEW v \in TokenVals
    PROVE  /\ Emitted(v) \in Seq(Tokens)
           /\ Len(Emitted(v)) = 1
           /\ Emitted(v)[1] = TokenAt(v, NoName, line, col)
BY DEF TypeOK, Emitted, TokenAt, Tokens

\* A token emitted at the current position.
LEMMA Emits ==
    ASSUME TypeOK, NEW v \in TokenVals, NEW ts \in Seq(Tokens)
    PROVE  ts \o Emitted(v) \in Seq(Tokens)
BY EmittedType

LEMMA BlockEndsType ==
    ASSUME TypeOK, NEW k \in 1..Len(indents), NEW l \in Nat, NEW c \in Nat
    PROVE  /\ BlockEnds(k, l, c) \in Seq(Tokens)
           /\ Len(BlockEnds(k, l, c)) = Len(indents) - k
<1>1. Len(indents) - k \in Nat
  BY DEF TypeOK
<1>2. \A i \in 1..(Len(indents) - k) : BlockEnds(k, l, c)[i] \in Tokens
  BY ValsType DEF BlockEnds, TokenAt, Tokens
<1>3. DOMAIN BlockEnds(k, l, c) = 1..(Len(indents) - k)
  BY DEF BlockEnds
<1> QED
  BY <1>1, <1>2, <1>3, SMT DEF BlockEnds

LEMMA PlaceholdersType ==
    ASSUME NEW l \in Nat, NEW c \in Nat
    PROVE  /\ Placeholders(l, c) \in Seq(Tokens)
           /\ Len(Placeholders(l, c)) = 2
           /\ \A i \in 1..2 : Placeholders(l, c)[i] =
                                 TokenAt("placeholder", NoName, l, c)
<1>1. \A i \in 1..2 : Placeholders(l, c)[i] \in Tokens
  BY ValsType DEF Placeholders, TokenAt, Tokens
<1> QED
  BY <1>1, SMT DEF Placeholders

LEMMA FailShape ==
    ASSUME Shape, NEW kind \in ErrorKinds, Fail(kind)
    PROVE  Shape'
BY DEF Shape, TypeOK, WellFormed, Fail, flowVars, docVars

\* The part of TypeOK a consumed lexeme decides.
ReadingOK ==
    /\ phase \in Running \cup {"accepted"} \cup ErrorKinds
    /\ line \in Nat /\ col \in Nat /\ follow \subseteq Lexemes

LEMMA ConsumeType ==
    ASSUME TypeOK, NEW n \in SUBSET Lexemes, Consume(n)
    PROVE  ReadingOK'
<1>1. line \in Nat /\ col \in Nat
  BY DEF TypeOK
<1>2. phase' = "preprocess" /\ line' = line /\ col' = col + 1 /\ follow' = n
  BY DEF Consume
<1> QED
  BY <1>1, <1>2 DEF ReadingOK, Running

LEMMA InitShape == Init => Shape
<1> SUFFICES ASSUME Init PROVE Shape
  OBVIOUS
<1>1. TokenAt("streamStart", NoName, 0, 0) \in Tokens
  BY DEF TokenAt, Tokens, TokenVals
<1>2. Sentinel \in Indents /\ NoKey \in SimpleKeys
  BY DEF Sentinel, Indents, NoKey, SimpleKeys
<1>3. tokens \in Seq(Tokens) /\ indents \in Seq(Indents)
  BY <1>1, <1>2 DEF Init
<1>5. TypeOK
  <2>1. flowStack \in Seq(BOOLEAN) /\ simpleKeyStack \in Seq(SimpleKeys)
    BY DEF Init
  <2>2. ReadingOK /\ explicitKeyLine \in Int
    BY DEF Init, ReadingOK, Running, NoLine
  <2> QED
    BY <1>2, <1>3, <2>1, <2>2 DEF Init, TypeOK, ReadingOK
<1>4. WellFormed
  BY DEF Init, WellFormed
<1> QED
  BY <1>4, <1>5 DEF Shape

LEMMA PreprocessShape ==
    ASSUME Shape, NEW l \in Lines, NEW c \in Cols, Preprocess(l, c)
    PROVE  Shape'
<1>1. l \in Nat /\ c \in Nat
  BY BoundsAssumption DEF Lines, Cols
<1>2. PICK k \in 1..Len(indents) :
         /\ indents' = SubSeq(indents, 1, k)
         /\ tokens' = IF SavesKey(l)
                      THEN (tokens \o BlockEnds(k, l, c)) \o Placeholders(l, c)
                      ELSE tokens \o BlockEnds(k, l, c)
         /\ simpleKey' =
               IF SavesKey(l)
               THEN [possible |-> TRUE,
                     tokenIndex |-> Len(tokens \o BlockEnds(k, l, c)) + 1,
                     line |-> l, col |-> c, endLine |-> l]
               ELSE simpleKey
  BY DEF Preprocess
<1>3. /\ indents' \in Seq(Indents) /\ Len(indents') = k
      /\ \A i \in 1..k : indents'[i] = indents[i]
  BY <1>2 DEF Shape, TypeOK
<1>4. tokens \o BlockEnds(k, l, c) \in Seq(Tokens)
  BY <1>1, BlockEndsType DEF Shape, TypeOK
<1>5. tokens' \in Seq(Tokens)
  BY <1>1, <1>2, <1>4, PlaceholdersType
<1>6. simpleKey' \in SimpleKeys
  BY <1>1, <1>2, <1>4 DEF SimpleKeys, Shape, TypeOK
<1>7. TypeOK'
  BY <1>1, <1>3, <1>5, <1>6
  DEF Preprocess, Shape, TypeOK, Running, flowVars, docVars, InFlow
<1>8. WellFormed'
  <2>1. \A i \in 1..(k - 1) : indents'[i].column < indents'[i + 1].column
    <3>1. indents \in Seq(Indents)
      BY DEF Shape, TypeOK
    <3>2. \A i \in 1..(Len(indents) - 1) :
             indents[i].column < indents[i + 1].column
      BY DEF Shape, WellFormed
    <3> QED
      BY <1>3, <3>1, <3>2
  <2> QED
    BY <1>3, <2>1 DEF Preprocess, Shape, TypeOK, WellFormed, flowVars
<1> QED
  BY <1>7, <1>8 DEF Shape

LEMMA EndOfStreamShape ==
    ASSUME Shape, EndOfStream
    PROVE  Shape'
<1>1. 1 \in 1..Len(indents) /\ line \in Nat /\ col \in Nat
  BY DEF Shape, TypeOK, WellFormed
<1>2. BlockEnds(1, line, col) \in Seq(Tokens)
  BY <1>1, BlockEndsType DEF Shape
<1>3. tokens' \in Seq(Tokens)
  BY <1>2, Emits, ValsType DEF EndOfStream, Shape, TypeOK
<1>4. indents' \in Seq(Indents) /\ Len(indents') = 1 /\ indents'[1] = indents[1]
  BY <1>1 DEF EndOfStream, Shape, TypeOK
<1>5. TypeOK'
  BY <1>3, <1>4 DEF EndOfStream, Shape, TypeOK, flowVars, docVars
<1>6. WellFormed'
  BY <1>4 DEF EndOfStream, Shape, WellFormed, flowVars
<1> QED
  BY <1>5, <1>6 DEF Shape

LEMMA CloseDocumentShape ==
    ASSUME Shape, NEW v \in TokenVals, CloseDocument(v)
    PROVE  /\ tokens' \in Seq(Tokens) /\ indents' \in Seq(Indents)
           /\ simpleKey' \in SimpleKeys /\ WellFormed'
<1>1. 1 \in 1..Len(indents) /\ line \in Nat /\ col \in Nat
  BY DEF Shape, TypeOK, WellFormed
<1>2. BlockEnds(1, line, col) \in Seq(Tokens)
  BY <1>1, BlockEndsType DEF Shape
<1>3. tokens' \in Seq(Tokens)
  BY <1>2, Emits DEF CloseDocument, NewDocument, Shape, TypeOK
<1>4. indents' \in Seq(Indents) /\ Len(indents') = 1 /\ indents'[1] = indents[1]
  BY <1>1 DEF CloseDocument, NewDocument, Shape, TypeOK
<1>5. simpleKey' \in SimpleKeys
  BY DEF CloseDocument, NewDocument, NoKey, SimpleKeys
<1>6. WellFormed'
  BY <1>4 DEF CloseDocument, NewDocument, Shape, WellFormed, flowVars
<1> QED
  BY <1>3, <1>4, <1>5, <1>6

LEMMA MarkerShape ==
    ASSUME Shape, DocumentStart \/ DocumentEnd
    PROVE  Shape'
<1>1. PICK v \in TokenVals : CloseDocument(v)
  BY ValsType DEF DocumentStart, DocumentEnd
<1>2. /\ tokens' \in Seq(Tokens) /\ indents' \in Seq(Indents)
      /\ simpleKey' \in SimpleKeys /\ WellFormed'
  BY <1>1, CloseDocumentShape
<1>3. allowDirectives' \in BOOLEAN /\ seenYamlDirective' \in BOOLEAN
  BY DEF DocumentStart, DocumentEnd, Shape, TypeOK
<1>5. ReadingOK'
  BY ConsumeType DEF DocumentStart, DocumentEnd, Shape
<1>4. TypeOK'
  BY <1>1, <1>2, <1>3, <1>5
  DEF CloseDocument, NewDocument, ReadingOK, Shape, TypeOK, flowVars
<1> QED
  BY <1>2, <1>4 DEF Shape

LEMMA DirectiveShape ==
    ASSUME Shape, YamlDirective \/ TagDirective \/ ReservedDirective
    PROVE  Shape'
<1>1. PICK v \in Seq(Tokens) : Directive(v)
  <2>1. /\ Emitted("versionDirective") \in Seq(Tokens)
        /\ Emitted("tagDirective") \in Seq(Tokens)
        /\ <<>> \in Seq(Tokens)
    BY EmittedType, ValsType DEF Shape
  <2>2. CASE YamlDirective
    BY <2>1, <2>2 DEF YamlDirective
  <2>3. CASE TagDirective
    BY <2>1, <2>3 DEF TagDirective
  <2>4. CASE ReservedDirective
    BY <2>1, <2>4 DEF ReservedDirective
  <2> QED
    BY <2>2, <2>3, <2>4
<1>2. tokens' \in Seq(Tokens)
  BY <1>1 DEF Directive, Shape, TypeOK
<1>3. seenYamlDirective' \in BOOLEAN
  BY DEF YamlDirective, TagDirective, ReservedDirective, Shape, TypeOK
<1>6. ReadingOK'
  BY <1>1, ConsumeType DEF Directive, Shape
<1>4. TypeOK'
  BY <1>1, <1>2, <1>3, <1>6 DEF Directive, ReadingOK, Shape, TypeOK, flowVars
<1>5. WellFormed'
  BY <1>1 DEF Directive, Shape, WellFormed, flowVars
<1> QED
  BY <1>4, <1>5 DEF Shape

LEMMA FlowStartShape ==
    ASSUME Shape, NEW x \in Openers, FlowStart(x)
    PROVE  Shape'
<1>1. tokens' \in Seq(Tokens)
  BY Emits, ValsType DEF FlowStart, PushesKey, Shape, TypeOK
<1>2. /\ flowStack' \in Seq(BOOLEAN) /\ Len(flowStack') = Len(flowStack) + 1
      /\ simpleKeyStack' \in Seq(SimpleKeys)
      /\ Len(simpleKeyStack') = Len(simpleKeyStack) + 1
  <2>1. (x = "[") \in BOOLEAN
    OBVIOUS
  <2> QED
    BY <2>1 DEF FlowStart, PushesKey, Shape, TypeOK
<1>5. ReadingOK'
  BY ConsumeType DEF FlowStart, PushesKey, Shape
<1>6. flowLevel' \in Nat
  BY DEF FlowStart, PushesKey, Shape, TypeOK
<1>3. TypeOK'
  BY <1>1, <1>2, <1>5, <1>6
  DEF FlowStart, PushesKey, InDocument, ReadingOK, Shape, TypeOK, NoKey, SimpleKeys
<1>4. WellFormed'
  BY <1>2 DEF FlowStart, PushesKey, Shape, TypeOK, WellFormed
<1> QED
  BY <1>3, <1>4 DEF Shape

LEMMA FlowEndShape ==
    ASSUME Shape, NEW x \in Closers, FlowEnd(x)
    PROVE  Shape'
<1>1. tokens' \in Seq(Tokens)
  BY Emits, ValsType DEF FlowEnd, PopsKey, Shape, TypeOK
<1>2. flowLevel \in Nat \ {0} /\ Len(flowStack) = flowLevel
      /\ Len(simpleKeyStack) = flowLevel
  BY DEF FlowEnd, PopsKey, InFlow, Shape, TypeOK, WellFormed
<1>3. /\ flowStack' \in Seq(BOOLEAN) /\ Len(flowStack') = flowLevel - 1
      /\ simpleKeyStack' \in Seq(SimpleKeys)
      /\ Len(simpleKeyStack') = flowLevel - 1
      /\ simpleKey' \in SimpleKeys
  BY <1>2 DEF FlowEnd, PopsKey, Shape, TypeOK
<1>4. ReadingOK'
  BY ConsumeType DEF FlowEnd, PopsKey, Trailing, Shape
<1>7. flowLevel' \in Nat
  BY <1>2 DEF FlowEnd, PopsKey
<1>5. TypeOK'
  BY <1>1, <1>3, <1>4, <1>7 DEF FlowEnd, PopsKey, InDocument, ReadingOK, Shape, TypeOK
<1>6. WellFormed'
  BY <1>2, <1>3 DEF FlowEnd, PopsKey, Shape, WellFormed
<1> QED
  BY <1>5, <1>6 DEF Shape

LEMMA FlowEntryShape ==
    ASSUME Shape, FlowEntry
    PROVE  Shape'
<1>1. tokens' \in Seq(Tokens)
  BY Emits, ValsType DEF FlowEntry, Shape, TypeOK
<1>4. ReadingOK'
  BY ConsumeType DEF FlowEntry, Shape
<1>2. TypeOK'
  BY <1>1, <1>4 DEF FlowEntry, InDocument, ReadingOK, Shape, TypeOK, flowVars
<1>3. WellFormed'
  BY DEF FlowEntry, Shape, WellFormed, flowVars
<1> QED
  BY <1>2, <1>3 DEF Shape

\* An indentation entry right of the current block keeps the stack in shape.
LEMMA PushShape ==
    ASSUME Shape, NEW c \in Nat, NEW b \in BOOLEAN, c > CurrentIndent,
           indents' = Append(indents, [column |-> c, isSequence |-> b])
    PROVE  /\ indents' \in Seq(Indents)
           /\ Len(indents') >= 1 /\ indents'[1] = Sentinel
           /\ \A i \in 1..(Len(indents') - 1) :
                 indents'[i].column < indents'[i + 1].column
<1>1. /\ Len(indents) \in Nat \ {0} /\ indents \in Seq(Indents)
      /\ indents[1] = Sentinel /\ CurrentIndent = indents[Len(indents)].column
      /\ \A i \in 1..(Len(indents) - 1) : indents[i].column < indents[i + 1].column
  BY DEF Shape, TypeOK, WellFormed, CurrentIndent
<1>2. [column |-> c, isSequence |-> b] \in Indents
  BY DEF Indents
<1>3. /\ indents' \in Seq(Indents) /\ Len(indents') = Len(indents) + 1
      /\ \A i \in 1..Len(indents) : indents'[i] = indents[i]
      /\ indents'[Len(indents) + 1] = [column |-> c, isSequence |-> b]
  BY <1>1, <1>2
<1>4. ASSUME NEW i \in 1..(Len(indents') - 1)
      PROVE  indents'[i].column < indents'[i + 1].column
  <2>1. CASE i = Len(indents)
    BY <1>1, <1>3, <2>1
  <2>2. CASE i # Len(indents)
    BY <1>1, <1>3, <2>2
  <2> QED
    BY <2>1, <2>2
<1> QED
  BY <1>1, <1>3, <1>4

LEMMA PushedTokensType ==
    ASSUME TypeOK, NEW v \in TokenVals
    PROVE  PushedTokens(v) \in Seq(Tokens)
BY Emits DEF PushedTokens, TypeOK

LEMMA PushedIndentsShape ==
    ASSUME Shape, NEW b \in BOOLEAN, indents' = PushedIndents(b)
    PROVE  /\ indents' \in Seq(Indents)
           /\ Len(indents') >= 1 /\ indents'[1] = Sentinel
           /\ \A i \in 1..(Len(indents') - 1) :
                 indents'[i].column < indents'[i + 1].column
<1>1. CASE OpensBlock
  BY <1>1, PushShape DEF PushedIndents, OpensBlock, Shape, TypeOK
<1>2. CASE ~OpensBlock
  BY <1>2 DEF PushedIndents, Shape, TypeOK, WellFormed
<1> QED
  BY <1>1, <1>2

LEMMA BlockEntryShape ==
    ASSUME Shape, BlockEntry
    PROVE  Shape'
<1>1. tokens' \in Seq(Tokens)
  BY Emits, PushedTokensType, ValsType DEF BlockEntry, Shape
<1>2. /\ indents' \in Seq(Indents)
      /\ Len(indents') >= 1 /\ indents'[1] = Sentinel
      /\ \A i \in 1..(Len(indents') - 1) :
            indents'[i].column < indents'[i + 1].column
  BY PushedIndentsShape DEF BlockEntry
<1>5. ReadingOK'
  BY ConsumeType DEF BlockEntry, Shape
<1>3. TypeOK'
  BY <1>1, <1>2, <1>5
  DEF BlockEntry, InDocument, ReadingOK, Shape, TypeOK, flowVars
<1>4. WellFormed'
  BY <1>2 DEF BlockEntry, Shape, WellFormed, flowVars
<1> QED
  BY <1>3, <1>4 DEF Shape

LEMMA KeyShape ==
    ASSUME Shape, Key
    PROVE  Shape'
<1>1. tokens' \in Seq(Tokens)
  BY Emits, PushedTokensType, ValsType DEF Key, Shape
<1>2. /\ indents' \in Seq(Indents)
      /\ Len(indents') >= 1 /\ indents'[1] = Sentinel
      /\ \A i \in 1..(Len(indents') - 1) :
            indents'[i].column < indents'[i + 1].column
  BY PushedIndentsShape DEF Key
<1>5. ReadingOK'
  BY ConsumeType DEF Key, Shape
<1>6. explicitKeyLine' \in Int
  BY DEF Key, Shape, TypeOK
<1>3. TypeOK'
  BY <1>1, <1>2, <1>5, <1>6
  DEF Key, InDocument, ReadingOK, Shape, TypeOK, flowVars, NoKey, SimpleKeys
<1>4. WellFormed'
  BY <1>2 DEF Key, Shape, WellFormed, flowVars
<1> QED
  BY <1>3, <1>4 DEF Shape

\* Array.setIfInBounds keeps a sequence a sequence, in bounds or not.
LEMMA SetIfInBounds ==
    ASSUME NEW S, NEW s \in Seq(S), NEW i, NEW e \in S
    PROVE  /\ [s EXCEPT ![i] = e] \in Seq(S)
           /\ Len([s EXCEPT ![i] = e]) = Len(s)
<1>1. PICK n \in Nat : s \in [1..n -> S] /\ Len(s) = n
  OBVIOUS
<1>2. [s EXCEPT ![i] = e] \in [1..n -> S]
  BY <1>1
<1> QED
  BY <1>1, <1>2

\* What confirming a key does to the tokens and the indentation.
LEMMA PreparedShape ==
    ASSUME Shape, indents' = PreparedIndents(ClearedKey)
    PROVE  /\ PreparedTokens(ClearedKey) \in Seq(Tokens)
           /\ indents' \in Seq(Indents)
           /\ Len(indents') >= 1 /\ indents'[1] = Sentinel
           /\ \A i \in 1..(Len(indents') - 1) :
                 indents'[i].column < indents'[i + 1].column
<1> DEFINE key == ClearedKey
<1>1. key \in SimpleKeys
  BY DEF ClearedKey, NoKey, SimpleKeys, Shape, TypeOK
<1> HIDE DEF key
<1>2. Resolved(key) \in Seq(Tokens)
  <2>1. /\ TokenAt("key", NoName, key.line, key.col) \in Tokens
        /\ TokenAt("blockMappingStart", NoName, key.line, key.col) \in Tokens
    BY <1>1, ValsType DEF TokenAt, Tokens, SimpleKeys
  <2>2. tokens \in Seq(Tokens)
    BY DEF Shape, TypeOK
  <2> QED
    BY <2>1, <2>2, SetIfInBounds DEF Resolved
<1>3. PreparedTokens(key) \in Seq(Tokens)
  BY <1>2, PushedTokensType, ValsType DEF PreparedTokens, Shape, TypeOK
<1>4. CASE OpensMapping(key)
  <2>1. key.col \in Nat /\ key.col > CurrentIndent
    BY <1>1, <1>4 DEF OpensMapping, SimpleKeys
  <2>2. indents' = Append(indents, [column |-> key.col, isSequence |-> FALSE])
    BY <1>4 DEF PreparedIndents, key
  <2> QED
    BY <1>3, <2>1, <2>2, PushShape DEF key
<1>5. CASE ~OpensMapping(key) /\ (key.possible \/ explicitKeyLine # NoLine)
  BY <1>3, <1>5 DEF PreparedIndents, key, Shape, TypeOK, WellFormed
<1>6. CASE ~OpensMapping(key) /\ ~(key.possible \/ explicitKeyLine # NoLine)
  BY <1>3, <1>6, PushedIndentsShape DEF PreparedIndents, key
<1> QED
  BY <1>4, <1>5, <1>6

LEMMA ValueShape ==
    ASSUME Shape, Value
    PROVE  Shape'
<1>1. tokens' = PreparedTokens(ClearedKey) \o Emitted("value")
      /\ indents' = PreparedIndents(ClearedKey)
  BY DEF Value
<1>2. /\ PreparedTokens(ClearedKey) \in Seq(Tokens)
      /\ indents' \in Seq(Indents)
      /\ Len(indents') >= 1 /\ indents'[1] = Sentinel
      /\ \A i \in 1..(Len(indents') - 1) :
            indents'[i].column < indents'[i + 1].column
  BY <1>1, PreparedShape
<1>3. tokens' \in Seq(Tokens)
  BY <1>1, <1>2, Emits, ValsType DEF Shape
<1>4. ReadingOK'
  BY ConsumeType DEF Value, Shape
<1>5. simpleKey' \in SimpleKeys /\ explicitKeyLine' \in Int
  BY DEF Value, NoKey, SimpleKeys, NoLine
<1>6. TypeOK'
  BY <1>2, <1>3, <1>4, <1>5
  DEF Value, InDocument, ReadingOK, Shape, TypeOK, flowVars
<1>7. WellFormed'
  BY <1>2 DEF Value, Shape, WellFormed, flowVars
<1> QED
  BY <1>6, <1>7 DEF Shape

LEMMA OneLineNodeShape ==
    ASSUME Shape, NEW t \in Tokens, OneLineNode(t),
           definedAnchors' \in SUBSET Names
    PROVE  Shape'
<1>1. tokens' \in Seq(Tokens)
  BY DEF OneLineNode, Shape, TypeOK
<1>2. ReadingOK'
  BY ConsumeType DEF OneLineNode, Shape
<1>3. TypeOK'
  BY <1>1, <1>2
  DEF OneLineNode, InDocument, ReadingOK, Shape, TypeOK, flowVars
<1>4. WellFormed'
  BY DEF OneLineNode, Shape, WellFormed, flowVars
<1> QED
  BY <1>3, <1>4 DEF Shape

LEMMA PropertyShape ==
    ASSUME Shape, (\E n \in Names : Anchor(n) \/ Alias(n)) \/ Tag
    PROVE  Shape'
<1>1. line \in Nat /\ col \in Nat /\ definedAnchors \in SUBSET Names
  BY DEF Shape, TypeOK
<1>2. /\ \A n \in Names : /\ TokenAt("anchor", n, line, col) \in Tokens
                          /\ TokenAt("alias", n, line, col) \in Tokens
      /\ TokenAt("tag", NoName, line, col) \in Tokens
  BY <1>1, ValsType DEF TokenAt, Tokens
<1>3. definedAnchors' \in SUBSET Names
  BY <1>1 DEF Anchor, Alias, Tag
<1>4. \E t \in Tokens : OneLineNode(t)
  BY <1>2 DEF Anchor, Alias, Tag
<1> QED
  BY <1>3, <1>4, OneLineNodeShape

LEMMA ScalarShape ==
    ASSUME Shape, NEW l \in Nat, NEW c \in Nat, NEW n \in SUBSET Lexemes,
           ScalarTo(l, c, n), simpleKey' \in SimpleKeys,
           simpleKeyAllowed' \in BOOLEAN
    PROVE  Shape'
<1>1. tokens' \in Seq(Tokens)
  BY Emits, ValsType DEF ScalarTo, Shape, TypeOK
<1>2. ReadingOK'
  BY DEF ScalarTo, ReadingOK, Running
<1>3. needIndentCheck' \in BOOLEAN
  BY DEF ScalarTo
<1>4. TypeOK'
  BY <1>1, <1>2, <1>3
  DEF ScalarTo, InDocument, ReadingOK, Shape, TypeOK, flowVars
<1>5. WellFormed'
  BY DEF ScalarTo, Shape, WellFormed, flowVars
<1> QED
  BY <1>4, <1>5 DEF Shape

LEMMA ScalarsShape ==
    ASSUME Shape, NEW l \in Lines, NEW c \in 0..(MaxCol + 1),
           BlockScalar(l) \/ QuotedScalar(l, c) \/ PlainScalar(l, c)
    PROVE  Shape'
<1>1. l \in Nat /\ c \in Nat
  BY BoundsAssumption DEF Lines
<1>2. CASE BlockScalar(l)
  <2>1. simpleKey' \in SimpleKeys
    BY <1>2 DEF BlockScalar, NoKey, SimpleKeys
  <2> QED
    BY <1>1, <1>2, <2>1, ScalarShape DEF BlockScalar
<1>3. CASE QuotedScalar(l, c)
  <2>1. simpleKey' \in SimpleKeys
    BY <1>1, <1>3 DEF QuotedScalar, SimpleKeys, Shape, TypeOK
  <2>2. \E n \in SUBSET Lexemes : ScalarTo(l, c, n)
    BY <1>3 DEF QuotedScalar, Trailing
  <2> QED
    BY <1>1, <1>3, <2>1, <2>2, ScalarShape DEF QuotedScalar
<1>4. CASE PlainScalar(l, c)
  <2>1. simpleKey' \in SimpleKeys
    BY <1>4 DEF PlainScalar, Shape, TypeOK
  <2>2. \E n \in SUBSET Lexemes : ScalarTo(l, c, n)
    BY <1>4 DEF PlainScalar, PlainEnd
  <2> QED
    BY <1>1, <1>4, <2>1, <2>2, ScalarShape DEF PlainScalar
<1> QED
  BY <1>2, <1>3, <1>4

\* The errors of preprocessing record where they were met.
LEMMA PreprocessFailsShape ==
    ASSUME Shape, NEW l \in Lines, NEW c \in Cols,
           (\E x \in Lexemes : BadDedent(l, c, x)) \/ TabInIndentation(l, c)
    PROVE  Shape'
<1>1. l \in Nat /\ c \in Nat
  BY BoundsAssumption DEF Lines, Cols
<1>2. ReadingOK'
  BY <1>1 DEF BadDedent, TabInIndentation, ReadingOK, ErrorKinds, Shape, TypeOK
<1>3. TypeOK'
  BY <1>2
  DEF BadDedent, TabInIndentation, ReadingOK, Shape, TypeOK, flowVars, docVars
<1>4. WellFormed'
  BY DEF BadDedent, TabInIndentation, Shape, WellFormed, flowVars
<1> QED
  BY <1>3, <1>4 DEF Shape

\* The steps that end the scan and leave the rest of the state alone.
Failures ==
    \/ EndOfStreamFails \/ UnderIndentedFlowContent \/ MarkerInFlow
    \/ StructuralFails \/ OrphanDirectives \/ FlowFails \/ ValueFails
    \/ UndefinedAlias \/ Malformed

LEMMA FailuresFail ==
    ASSUME Failures
    PROVE  \E kind \in ErrorKinds : Fail(kind)
<1>1. CASE ValueFails
  BY <1>1 DEF ValueFails, ValueFaults, ErrorKinds
<1> QED
  BY <1>1
  DEF Failures, EndOfStreamFails, UnderIndentedFlowContent, MarkerInFlow,
      StructuralFails, OrphanDirectives, FlowFails, UndefinedAlias, Malformed,
      ErrorKinds

LEMMA StutterShape ==
    ASSUME Shape, UNCHANGED vars
    PROVE  Shape'
BY DEF Shape, TypeOK, WellFormed, vars, flowVars, docVars

LEMMA StepShape ==
    ASSUME Shape, [Next]_vars
    PROVE  Shape'
<1>1. CASE Preprocessing
  <2>1. CASE EndOfStreamFails
    BY <2>1, FailuresFail, FailShape DEF Failures
  <2> QED
    BY <1>1, <2>1, PreprocessShape, PreprocessFailsShape, EndOfStreamShape
    DEF Preprocessing
<1>2. CASE Structure
  <2>1. CASE Failures
    BY <2>1, FailuresFail, FailShape
  <2> QED
    BY <1>2, <2>1, MarkerShape, DirectiveShape DEF Structure, Failures
<1>3. CASE Indicators
  <2>1. CASE Failures
    BY <2>1, FailuresFail, FailShape
  <2> QED
    BY <1>3, <2>1, FlowStartShape, FlowEndShape, FlowEntryShape,
       BlockEntryShape, KeyShape, ValueShape DEF Indicators, Failures
<1>4. CASE Nodes
  <2>1. CASE Failures
    BY <2>1, FailuresFail, FailShape
  <2>2. CASE \E l \in Lines : BlockScalar(l)
    <3>1. 0 \in 0..(MaxCol + 1)
      BY BoundsAssumption
    <3> QED
      BY <2>2, <3>1, ScalarsShape
  <2> QED
    BY <1>4, <2>1, <2>2, PropertyShape, ScalarsShape DEF Nodes, Failures
<1>5. CASE Terminating \/ UNCHANGED vars
  BY <1>5, StutterShape DEF Terminating
<1> QED
  BY <1>1, <1>2, <1>3, <1>4, <1>5 DEF Next

\* Every reachable state of the scanner is well-typed and satisfies the
\* invariant State.lean documents as ScannerState.WellFormed, for every
\* alphabet of lexemes and every text.
THEOREM ShapeInvariant == Spec => [](TypeOK /\ WellFormed)
<1>1. Spec => []Shape
  BY InitShape, StepShape, PTL DEF Spec
<1> QED
  BY <1>1, PTL DEF Shape

\* The types State.lean gives the fields of ScannerState: positions and token
\* indexes are naturals although the scanner subtracts from both.
THEOREM TypeInvariant == Spec => []TypeOK
BY ShapeInvariant, PTL

-----------------------------------------------------------------------------
(* Placeholder slots.  The scanner writes into the middle of the token array *)
(* only where a pending key reserved the slots.                              *)

\* ts2 is ts with tokens appended.
Grows(ts, ts2) ==
    Len(ts) <= Len(ts2) /\ \A i \in 1..Len(ts) : ts2[i] = ts[i]

LEMMA AppendedGrows ==
    ASSUME NEW ts \in Seq(Tokens), NEW us \in Seq(Tokens)
    PROVE  Grows(ts, ts \o us)
BY DEF Grows

LEMMA GrowsTransitive ==
    ASSUME NEW ts \in Seq(Tokens), NEW us \in Seq(Tokens), NEW vs \in Seq(Tokens),
           Grows(ts, us), Grows(us, vs)
    PROVE  Grows(ts, vs)
BY DEF Grows

LEMMA OwnsGrows ==
    ASSUME NEW key \in SimpleKeys, NEW ts \in Seq(Tokens), NEW us \in Seq(Tokens),
           Owns(key, ts), Grows(ts, us)
    PROVE  Owns(key, us)
<1> SUFFICES ASSUME key.possible
             PROVE  /\ key.tokenIndex \in 2..(Len(us) - 1)
                    /\ \A i \in {key.tokenIndex, key.tokenIndex + 1} :
                          us[i] = TokenAt("placeholder", NoName, key.line, key.col)
  BY DEF Owns
<1>1. Len(ts) \in Nat /\ Len(us) \in Nat /\ Len(ts) <= Len(us)
  BY DEF Grows
<1>2. /\ key.tokenIndex \in 2..(Len(ts) - 1)
      /\ \A i \in {key.tokenIndex, key.tokenIndex + 1} :
            ts[i] = TokenAt("placeholder", NoName, key.line, key.col)
  BY DEF Owns
<1>3. \A i \in {key.tokenIndex, key.tokenIndex + 1} : us[i] = ts[i]
  <2>1. \A i \in {key.tokenIndex, key.tokenIndex + 1} : i \in 1..Len(ts)
    BY <1>1, <1>2
  <2> QED
    BY <2>1 DEF Grows
<1> QED
  BY <1>1, <1>2, <1>3

\* A step that only appends tokens, and keeps the slots of the pending key or
\* drops the key.
LEMMA SlotsKept ==
    ASSUME Shape, Shape', SlotsReserved,
           Grows(tokens, tokens'), simpleKeyStack' = simpleKeyStack,
           \/ ~simpleKey'.possible
           \/ /\ simpleKey'.possible = simpleKey.possible
              /\ simpleKey'.tokenIndex = simpleKey.tokenIndex
              /\ simpleKey'.line = simpleKey.line
              /\ simpleKey'.col = simpleKey.col
    PROVE  SlotsReserved'
<1>1. /\ tokens \in Seq(Tokens) /\ tokens' \in Seq(Tokens)
      /\ simpleKey \in SimpleKeys /\ simpleKey' \in SimpleKeys
      /\ \A i \in 1..Len(simpleKeyStack) : simpleKeyStack[i] \in SimpleKeys
  BY DEF Shape, TypeOK
<1>2. Owns(simpleKey', tokens')
  <2>1. Owns(simpleKey, tokens')
    BY <1>1, OwnsGrows DEF SlotsReserved
  <2> QED
    BY <2>1 DEF Owns
<1>3. ASSUME NEW i \in 1..Len(simpleKeyStack)
      PROVE  /\ Owns(simpleKeyStack[i], tokens')
             /\ Before(simpleKeyStack[i], simpleKey')
  <2>1. simpleKeyStack[i] \in SimpleKeys /\ Owns(simpleKeyStack[i], tokens)
    BY <1>1 DEF SlotsReserved
  <2>2. Owns(simpleKeyStack[i], tokens')
    BY <1>1, <2>1, OwnsGrows
  <2>3. Before(simpleKeyStack[i], simpleKey')
    BY DEF SlotsReserved, Before
  <2> QED
    BY <2>2, <2>3
<1> QED
  BY <1>2, <1>3 DEF SlotsReserved

\* Where the second part of a concatenation lies.
LEMMA AppendedAt ==
    ASSUME NEW s \in Seq(Tokens), NEW t \in Seq(Tokens), NEW i \in 1..Len(t)
    PROVE  (s \o t)[Len(s) + i] = t[i]
OBVIOUS

LEMMA PreprocessSlots ==
    ASSUME Shape, Shape', SlotsReserved, Len(tokens) >= 1,
           NEW l \in Lines, NEW c \in Cols, Preprocess(l, c)
    PROVE  SlotsReserved' /\ Grows(tokens, tokens')
<1>1. l \in Nat /\ c \in Nat /\ tokens \in Seq(Tokens) /\ tokens' \in Seq(Tokens)
  BY BoundsAssumption DEF Lines, Cols, Shape, TypeOK
<1>2. PICK closed \in Seq(Tokens) :
         /\ Grows(tokens, closed)
         /\ tokens' = IF SavesKey(l) THEN closed \o Placeholders(l, c) ELSE closed
         /\ simpleKey' =
               IF SavesKey(l)
               THEN [possible |-> TRUE, tokenIndex |-> Len(closed) + 1,
                     line |-> l, col |-> c, endLine |-> l]
               ELSE simpleKey
  <2>1. PICK k \in 1..Len(indents) :
           /\ tokens' = IF SavesKey(l)
                        THEN (tokens \o BlockEnds(k, l, c)) \o Placeholders(l, c)
                        ELSE tokens \o BlockEnds(k, l, c)
           /\ simpleKey' =
                 IF SavesKey(l)
                 THEN [possible |-> TRUE,
                       tokenIndex |-> Len(tokens \o BlockEnds(k, l, c)) + 1,
                       line |-> l, col |-> c, endLine |-> l]
                 ELSE simpleKey
    BY DEF Preprocess
  <2>2. BlockEnds(k, l, c) \in Seq(Tokens)
    BY <1>1, BlockEndsType DEF Shape
  <2>3. /\ tokens \o BlockEnds(k, l, c) \in Seq(Tokens)
        /\ Grows(tokens, tokens \o BlockEnds(k, l, c))
    BY <1>1, <2>2, AppendedGrows
  <2> QED
    BY <2>1, <2>3
<1>3. Placeholders(l, c) \in Seq(Tokens)
  BY <1>1, PlaceholdersType
<1>4. Grows(closed, tokens') /\ Grows(tokens, tokens')
  <2>1. Grows(closed, tokens')
    BY <1>2, <1>3, AppendedGrows DEF Grows
  <2> QED
    BY <1>1, <1>2, <2>1, GrowsTransitive
<1>5. simpleKeyStack' = simpleKeyStack
  BY DEF Preprocess, flowVars
<1>6. CASE ~SavesKey(l)
  BY <1>2, <1>4, <1>5, <1>6, SlotsKept
<1>7. CASE SavesKey(l)
  <2>1. /\ simpleKey' = [possible |-> TRUE, tokenIndex |-> Len(closed) + 1,
                         line |-> l, col |-> c, endLine |-> l]
        /\ tokens' = closed \o Placeholders(l, c)
    BY <1>2, <1>7
  <2>2. Len(tokens) \in Nat /\ Len(closed) \in Nat /\ Len(closed) >= 1
    BY <1>1, <1>2 DEF Grows
  <2>3. Len(tokens') = Len(closed) + 2
    <3>1. Len(Placeholders(l, c)) = 2
      BY <1>1, PlaceholdersType
    <3>2. Len(closed \o Placeholders(l, c)) = Len(closed) + Len(Placeholders(l, c))
      BY <1>3
    <3> QED
      BY <2>1, <3>1, <3>2
  <2>4. \A i \in {Len(closed) + 1, Len(closed) + 2} :
           tokens'[i] = TokenAt("placeholder", NoName, l, c)
    <3>1. /\ Len(Placeholders(l, c)) = 2
          /\ \A i \in 1..2 : Placeholders(l, c)[i] = TokenAt("placeholder", NoName, l, c)
      BY <1>1, PlaceholdersType
    <3>2. \A i \in 1..2 :
             (closed \o Placeholders(l, c))[Len(closed) + i] = Placeholders(l, c)[i]
      BY <1>3, <3>1, AppendedAt
    <3>3. 1 \in 1..2 /\ 2 \in 1..2
      OBVIOUS
    <3> QED
      BY <2>1, <3>1, <3>2, <3>3
  <2>5. Owns(simpleKey', tokens')
    BY <2>1, <2>2, <2>3, <2>4 DEF Owns
  <2>6. ASSUME NEW i \in 1..Len(simpleKeyStack)
        PROVE  /\ Owns(simpleKeyStack[i], tokens')
               /\ Before(simpleKeyStack[i], simpleKey')
    <3>1. simpleKeyStack[i] \in SimpleKeys /\ Owns(simpleKeyStack[i], tokens)
      <4>1. simpleKeyStack \in Seq(SimpleKeys)
        BY DEF Shape, TypeOK
      <4>2. Owns(simpleKeyStack[i], tokens)
        BY DEF SlotsReserved
      <4> QED
        BY <4>1, <4>2
    <3>2. Owns(simpleKeyStack[i], tokens')
      BY <1>1, <1>4, <3>1, OwnsGrows
    <3>3. Owns(simpleKeyStack[i], closed)
      BY <1>1, <1>2, <3>1, OwnsGrows
    <3>4. Before(simpleKeyStack[i], simpleKey')
      BY <2>1, <2>2, <3>1, <3>3 DEF Before, Owns, SimpleKeys
    <3> QED
      BY <3>2, <3>4
  <2>7. \A i \in 1..Len(simpleKeyStack) : \A j \in (i + 1)..Len(simpleKeyStack) :
           Before(simpleKeyStack[i], simpleKeyStack[j])
    BY DEF SlotsReserved
  <2> QED
    BY <1>4, <1>5, <2>5, <2>6, <2>7 DEF SlotsReserved
<1> QED
  BY <1>4, <1>6, <1>7

\* Steps that append tokens and leave the stack of keys alone.
LEMMA MarkerGrows ==
    ASSUME Shape, DocumentStart \/ DocumentEnd
    PROVE  /\ Grows(tokens, tokens') /\ ~simpleKey'.possible
           /\ simpleKeyStack' = simpleKeyStack
<1>1. PICK v \in TokenVals : CloseDocument(v)
  BY ValsType DEF DocumentStart, DocumentEnd
<1>2. 1 \in 1..Len(indents) /\ line \in Nat /\ col \in Nat
  BY DEF Shape, TypeOK, WellFormed
<1>3. tokens \in Seq(Tokens) /\ BlockEnds(1, line, col) \in Seq(Tokens)
      /\ Emitted(v) \in Seq(Tokens)
  BY <1>2, BlockEndsType, EmittedType DEF Shape, TypeOK
<1>4. tokens' = (tokens \o BlockEnds(1, line, col)) \o Emitted(v)
  BY <1>1 DEF CloseDocument, NewDocument
<1>5. Grows(tokens, tokens')
  <2>1. tokens \o BlockEnds(1, line, col) \in Seq(Tokens)
        /\ tokens' \in Seq(Tokens)
    BY <1>3, <1>4
  <2>2. Grows(tokens, tokens \o BlockEnds(1, line, col))
    BY <1>3, AppendedGrows
  <2>3. Grows(tokens \o BlockEnds(1, line, col), tokens')
    BY <1>3, <1>4, <2>1, AppendedGrows
  <2> QED
    BY <1>3, <2>1, <2>2, <2>3, GrowsTransitive
<1> QED
  BY <1>1, <1>5 DEF CloseDocument, NewDocument, NoKey, flowVars

LEMMA EndOfStreamGrows ==
    ASSUME Shape, EndOfStream
    PROVE  /\ Grows(tokens, tokens') /\ simpleKey' = simpleKey
           /\ simpleKeyStack' = simpleKeyStack
<1>2. 1 \in 1..Len(indents) /\ line \in Nat /\ col \in Nat
  BY DEF Shape, TypeOK, WellFormed
<1>3. tokens \in Seq(Tokens) /\ BlockEnds(1, line, col) \in Seq(Tokens)
      /\ Emitted("streamEnd") \in Seq(Tokens)
  BY <1>2, BlockEndsType, EmittedType, ValsType DEF Shape, TypeOK
<1>4. tokens' = (tokens \o BlockEnds(1, line, col)) \o Emitted("streamEnd")
  BY DEF EndOfStream
<1>5. Grows(tokens, tokens')
  <2>1. tokens \o BlockEnds(1, line, col) \in Seq(Tokens)
        /\ tokens' \in Seq(Tokens)
    BY <1>3, <1>4
  <2>2. Grows(tokens, tokens \o BlockEnds(1, line, col))
    BY <1>3, AppendedGrows
  <2>3. Grows(tokens \o BlockEnds(1, line, col), tokens')
    BY <1>3, <1>4, <2>1, AppendedGrows
  <2> QED
    BY <1>3, <2>1, <2>2, <2>3, GrowsTransitive
<1> QED
  BY <1>5 DEF EndOfStream, flowVars

\* A step that emits one token v after what it may have opened.
LEMMA EmitsGrows ==
    ASSUME Shape, NEW v \in TokenVals, NEW ts \in Seq(Tokens), Grows(tokens, ts),
           tokens' = ts \o Emitted(v)
    PROVE  Grows(tokens, tokens')
<1>1. tokens \in Seq(Tokens) /\ Emitted(v) \in Seq(Tokens)
      /\ tokens' \in Seq(Tokens)
  BY EmittedType DEF Shape, TypeOK
<1> QED
  BY <1>1, AppendedGrows, GrowsTransitive

LEMMA PushedGrows ==
    ASSUME Shape, NEW v \in TokenVals
    PROVE  PushedTokens(v) \in Seq(Tokens) /\ Grows(tokens, PushedTokens(v))
<1>1. tokens \in Seq(Tokens) /\ Emitted(v) \in Seq(Tokens)
  BY EmittedType DEF Shape, TypeOK
<1> QED
  BY <1>1, AppendedGrows DEF PushedTokens, Grows

LEMMA DirectiveGrows ==
    ASSUME Shape, YamlDirective \/ TagDirective \/ ReservedDirective
    PROVE  /\ Grows(tokens, tokens') /\ simpleKey' = simpleKey
           /\ simpleKeyStack' = simpleKeyStack
<1>1. /\ tokens \in Seq(Tokens) /\ <<>> \in Seq(Tokens)
      /\ Emitted("versionDirective") \in Seq(Tokens)
      /\ Emitted("tagDirective") \in Seq(Tokens)
  BY EmittedType, ValsType DEF Shape, TypeOK
<1>2. \E v \in {Emitted("versionDirective"), Emitted("tagDirective"), <<>>} :
         Directive(v)
  BY DEF YamlDirective, TagDirective, ReservedDirective
<1> QED
  BY <1>1, <1>2, AppendedGrows DEF Directive, flowVars

LEMMA IndicatorGrows ==
    ASSUME Shape, FlowEntry \/ BlockEntry \/ Key
    PROVE  /\ Grows(tokens, tokens')
           /\ simpleKey' = simpleKey \/ ~simpleKey'.possible
           /\ simpleKeyStack' = simpleKeyStack
<1>1. CASE FlowEntry
  <2>1. tokens \in Seq(Tokens) /\ Grows(tokens, tokens)
    BY DEF Shape, TypeOK, Grows
  <2> QED
    BY <1>1, <2>1, EmitsGrows, ValsType DEF FlowEntry, flowVars
<1>2. CASE BlockEntry
  BY <1>2, EmitsGrows, PushedGrows, ValsType DEF BlockEntry, flowVars
<1>3. CASE Key
  BY <1>3, EmitsGrows, PushedGrows, ValsType DEF Key, flowVars, NoKey
<1> QED
  BY <1>1, <1>2, <1>3

LEMMA PropertyGrows ==
    ASSUME Shape, Shape', (\E n \in Names : Anchor(n) \/ Alias(n)) \/ Tag
    PROVE  /\ Grows(tokens, tokens') /\ simpleKey' = simpleKey
           /\ simpleKeyStack' = simpleKeyStack
<1>1. PICK t : OneLineNode(t)
  BY DEF Anchor, Alias, Tag
<1> QED
  BY <1>1 DEF OneLineNode, Grows, Shape, TypeOK, flowVars

LEMMA ScalarsGrow ==
    ASSUME Shape, NEW l \in Lines, NEW c \in 0..(MaxCol + 1),
           BlockScalar(l) \/ QuotedScalar(l, c) \/ PlainScalar(l, c)
    PROVE  /\ Grows(tokens, tokens')
           /\ simpleKeyStack' = simpleKeyStack
           /\ \/ ~simpleKey'.possible
              \/ /\ simpleKey'.possible = simpleKey.possible
                 /\ simpleKey'.tokenIndex = simpleKey.tokenIndex
                 /\ simpleKey'.line = simpleKey.line
                 /\ simpleKey'.col = simpleKey.col
<1>1. PICK m, d, n : ScalarTo(m, d, n)
  BY DEF BlockScalar, QuotedScalar, PlainScalar
<1>2. Grows(tokens, tokens')
  BY <1>1, EmitsGrows, ValsType DEF ScalarTo, Grows, Shape, TypeOK
<1>3. simpleKeyStack' = simpleKeyStack
  BY <1>1 DEF ScalarTo, flowVars
<1>4. simpleKey \in SimpleKeys
  BY DEF Shape, TypeOK
<1>5. \/ simpleKey' = NoKey \/ simpleKey' = simpleKey
      \/ simpleKey' = [simpleKey EXCEPT !.endLine = l]
  BY DEF BlockScalar, QuotedScalar, PlainScalar
<1> QED
  BY <1>2, <1>3, <1>4, <1>5 DEF NoKey, SimpleKeys

LEMMA FlowStartSlots ==
    ASSUME Shape, Shape', SlotsReserved, NEW x \in Openers, FlowStart(x)
    PROVE  SlotsReserved' /\ Grows(tokens, tokens')
<1>1. Grows(tokens, tokens')
  <2>1. tokens \in Seq(Tokens) /\ Grows(tokens, tokens)
    BY DEF Shape, TypeOK, Grows
  <2> QED
    BY <2>1, EmitsGrows, ValsType DEF FlowStart, PushesKey
<1>2. /\ simpleKeyStack \in Seq(SimpleKeys) /\ simpleKey \in SimpleKeys
      /\ simpleKeyStack' = Append(simpleKeyStack, simpleKey)
      /\ tokens \in Seq(Tokens) /\ tokens' \in Seq(Tokens)
      /\ ~simpleKey'.possible
  BY DEF FlowStart, PushesKey, Shape, TypeOK, NoKey
<1>3. /\ Len(simpleKeyStack') = Len(simpleKeyStack) + 1
      /\ Len(simpleKeyStack) \in Nat
      /\ \A i \in 1..Len(simpleKeyStack) :
            simpleKeyStack'[i] = simpleKeyStack[i] /\ simpleKeyStack[i] \in SimpleKeys
      /\ simpleKeyStack'[Len(simpleKeyStack) + 1] = simpleKey
  BY <1>2
<1>4. ASSUME NEW i \in 1..Len(simpleKeyStack')
      PROVE  /\ Owns(simpleKeyStack'[i], tokens')
             /\ Before(simpleKeyStack'[i], simpleKey')
             /\ \A j \in (i + 1)..Len(simpleKeyStack') :
                   Before(simpleKeyStack'[i], simpleKeyStack'[j])
  <2>1. Before(simpleKeyStack'[i], simpleKey')
    BY <1>2 DEF Before
  <2>2. CASE i = Len(simpleKeyStack) + 1
    <3>1. Owns(simpleKey, tokens')
      BY <1>1, <1>2, OwnsGrows DEF SlotsReserved
    <3> QED
      BY <1>3, <2>1, <2>2, <3>1
  <2>3. CASE i \in 1..Len(simpleKeyStack)
    <3>1. Owns(simpleKeyStack[i], tokens')
      BY <1>1, <1>2, <1>3, <2>3, OwnsGrows DEF SlotsReserved
    <3>2. ASSUME NEW j \in (i + 1)..Len(simpleKeyStack')
          PROVE  Before(simpleKeyStack'[i], simpleKeyStack'[j])
      BY <1>3, <2>3 DEF SlotsReserved
    <3> QED
      BY <1>3, <2>1, <2>3, <3>1, <3>2
  <2> QED
    BY <1>3, <2>2, <2>3
<1> QED
  BY <1>1, <1>2, <1>4 DEF SlotsReserved, Owns

LEMMA FlowEndSlots ==
    ASSUME Shape, Shape', SlotsReserved, NEW x \in Closers, FlowEnd(x)
    PROVE  SlotsReserved' /\ Grows(tokens, tokens')
<1>1. Grows(tokens, tokens')
  <2>1. tokens \in Seq(Tokens) /\ Grows(tokens, tokens)
    BY DEF Shape, TypeOK, Grows
  <2> QED
    BY <2>1, EmitsGrows, ValsType DEF FlowEnd, PopsKey
<1> DEFINE n == Len(simpleKeyStack)
<1>2. /\ simpleKeyStack \in Seq(SimpleKeys) /\ n \in Nat \ {0}
      /\ simpleKeyStack' = SubSeq(simpleKeyStack, 1, n - 1)
      /\ simpleKey' = simpleKeyStack[n]
      /\ tokens \in Seq(Tokens) /\ tokens' \in Seq(Tokens)
  BY DEF FlowEnd, PopsKey, Shape, TypeOK, WellFormed, InFlow
<1> HIDE DEF n
<1>n. n = Len(simpleKeyStack)
  BY DEF n
<1>3. /\ Len(simpleKeyStack') = n - 1
      /\ \A i \in 1..(n - 1) : simpleKeyStack'[i] = simpleKeyStack[i]
      /\ \A i \in 1..n : simpleKeyStack[i] \in SimpleKeys
  <2>1. n - 1 \in 0..n
    BY <1>2
  <2>2. Len(simpleKeyStack') = n - 1
    BY <1>2, <1>n, <2>1
  <2>3. ASSUME NEW i \in 1..(n - 1) PROVE simpleKeyStack'[i] = simpleKeyStack[i]
    BY <1>2, <1>n, <2>1
  <2> QED
    BY <1>2, <1>n, <2>2, <2>3
<1>4. \A i \in 1..n : Owns(simpleKeyStack[i], tokens')
  BY <1>1, <1>2, <1>3, <1>n, OwnsGrows DEF SlotsReserved
<1>5. Owns(simpleKey', tokens')
  BY <1>2, <1>4
<1>6. \A i \in 1..n : \A j \in (i + 1)..n :
         Before(simpleKeyStack[i], simpleKeyStack[j])
  BY <1>n DEF SlotsReserved
<1>7. ASSUME NEW i \in 1..(n - 1)
      PROVE  /\ Owns(simpleKeyStack'[i], tokens')
             /\ Before(simpleKeyStack'[i], simpleKey')
             /\ \A j \in (i + 1)..(n - 1) :
                   Before(simpleKeyStack'[i], simpleKeyStack'[j])
  <2>1. i \in 1..n /\ n \in (i + 1)..n
    BY <1>2
  <2>2. Before(simpleKeyStack'[i], simpleKey')
    BY <1>2, <1>3, <1>6, <2>1
  <2>3. \A j \in (i + 1)..(n - 1) :
           /\ j \in (i + 1)..n
           /\ simpleKeyStack'[j] = simpleKeyStack[j]
    BY <1>2, <1>3
  <2> QED
    BY <1>3, <1>4, <1>6, <2>1, <2>2, <2>3
<1> QED
  BY <1>1, <1>3, <1>5, <1>7 DEF SlotsReserved

\* What scanValuePrepare does to the tokens when the key is confirmed.
LEMMA ResolvedTokens ==
    ASSUME NEW key \in SimpleKeys, tokens \in Seq(Tokens),
           key.tokenIndex >= 2, key.tokenIndex + 1 <= Len(tokens)
    PROVE  LET p == key.tokenIndex
               rs == Resolved(key)
           IN  /\ rs \in Seq(Tokens) /\ Len(rs) = Len(tokens)
               /\ \A i \in 1..Len(tokens) : i # p /\ i # p + 1 => rs[i] = tokens[i]
               /\ rs[p + 1] = TokenAt("key", NoName, key.line, key.col)
               /\ \/ rs[p] = tokens[p]
                  \/ rs[p] = TokenAt("blockMappingStart", NoName, key.line, key.col)
<1> DEFINE p == key.tokenIndex
           k == TokenAt("key", NoName, key.line, key.col)
           m == TokenAt("blockMappingStart", NoName, key.line, key.col)
           keyed == [tokens EXCEPT ![p + 1] = k]
<1>1. p \in Nat /\ Len(tokens) \in Nat /\ p \in 1..Len(tokens) /\ p + 1 \in 1..Len(tokens)
      /\ p # p + 1
  BY DEF SimpleKeys
<1>2. k \in Tokens /\ m \in Tokens
  BY ValsType DEF SimpleKeys, TokenAt, Tokens
<1> HIDE DEF k, m, p
<1>3. /\ keyed \in Seq(Tokens) /\ Len(keyed) = Len(tokens)
      /\ keyed[p + 1] = k
      /\ \A i \in 1..Len(tokens) : i # p + 1 => keyed[i] = tokens[i]
  BY <1>1, <1>2
<1>4. /\ [keyed EXCEPT ![p] = m] \in Seq(Tokens)
      /\ Len([keyed EXCEPT ![p] = m]) = Len(keyed)
      /\ [keyed EXCEPT ![p] = m][p] = m
      /\ \A i \in 1..Len(keyed) : i # p => [keyed EXCEPT ![p] = m][i] = keyed[i]
  <2> HIDE DEF keyed
  <2> QED
    BY <1>1, <1>2, <1>3
<1>5. Resolved(key) = keyed \/ Resolved(key) = [keyed EXCEPT ![p] = m]
  BY DEF Resolved, k, m, p
<1> HIDE DEF keyed
<1>6. CASE Resolved(key) = keyed
  BY <1>1, <1>3, <1>6 DEF k, m, p
<1>7. CASE Resolved(key) = [keyed EXCEPT ![p] = m]
  BY <1>1, <1>3, <1>4, <1>7 DEF k, m, p
<1> QED
  BY <1>5, <1>6, <1>7

\* Confirming a key rewrites its two slots at most, and no other key's.
LEMMA ValueSlots ==
    ASSUME Shape, Shape', SlotsReserved, Value
    PROVE  SlotsReserved' /\ KeepsTokens
<1> DEFINE key == ClearedKey
<1>1. /\ key \in SimpleKeys
      /\ key.possible => key = simpleKey
  BY DEF ClearedKey, NoKey, SimpleKeys, Shape, TypeOK
<1>2. /\ tokens' = PreparedTokens(key) \o Emitted("value")
      /\ ~simpleKey'.possible /\ simpleKeyStack' = simpleKeyStack
  BY DEF Value, flowVars, NoKey
<1> HIDE DEF key
<1>3. /\ tokens \in Seq(Tokens) /\ tokens' \in Seq(Tokens)
      /\ \A i \in 1..Len(simpleKeyStack) : simpleKeyStack[i] \in SimpleKeys
  BY DEF Shape, TypeOK
<1>4. CASE ~key.possible
  <2>1. PreparedTokens(key) \in Seq(Tokens) /\ Grows(tokens, PreparedTokens(key))
    BY <1>3, <1>4, PushedGrows, ValsType DEF PreparedTokens, Grows
  <2>2. Grows(tokens, tokens')
    BY <1>2, <2>1, EmitsGrows, ValsType
  <2>3. SlotsReserved'
    BY <1>2, <2>2, SlotsKept
  <2> QED
    BY <2>2, <2>3 DEF Grows, KeepsTokens
<1>5. CASE key.possible
  <2> DEFINE p == key.tokenIndex
             rs == Resolved(key)
  <2>1. /\ key = simpleKey
        /\ Len(tokens) \in Nat /\ p \in Nat
        /\ p >= 2 /\ p + 1 <= Len(tokens)
        /\ tokens[p] = TokenAt("placeholder", NoName, key.line, key.col)
        /\ tokens[p + 1] = TokenAt("placeholder", NoName, key.line, key.col)
    BY <1>1, <1>3, <1>5 DEF SlotsReserved, Owns, SimpleKeys
  <2>2. /\ rs \in Seq(Tokens) /\ Len(rs) = Len(tokens)
        /\ \A i \in 1..Len(tokens) : i # p /\ i # p + 1 => rs[i] = tokens[i]
        /\ rs[p + 1] = TokenAt("key", NoName, key.line, key.col)
        /\ \/ rs[p] = tokens[p]
           \/ rs[p] = TokenAt("blockMappingStart", NoName, key.line, key.col)
    BY <1>1, <1>3, <1>5, <2>1, ResolvedTokens
  <2> HIDE DEF rs
  <2>3. tokens' = rs \o Emitted("value")
    BY <1>2, <1>5 DEF PreparedTokens, rs
  <2>4. Grows(rs, tokens')
    <3>1. Emitted("value") \in Seq(Tokens)
      BY EmittedType, ValsType DEF Shape
    <3> QED
      BY <2>2, <2>3, <3>1, AppendedGrows
  <2>5. KeepsTokens
    <3>1. Len(tokens) <= Len(tokens')
      BY <2>2, <2>4 DEF Grows
    <3>2. ASSUME NEW i \in 1..Len(tokens)
          PROVE  \/ tokens'[i] = tokens[i]
                 \/ /\ tokens[i].val = "placeholder"
                    /\ tokens'[i].val \in {"key", "blockMappingStart"}
                    /\ tokens'[i] = TokenAt(tokens'[i].val, NoName, tokens[i].line, tokens[i].col)
      <4>1. tokens'[i] = rs[i]
        BY <2>2, <2>4 DEF Grows
      <4>2. CASE i # p /\ i # p + 1
        BY <2>2, <4>1, <4>2
      <4>3. CASE i = p
        BY <2>1, <2>2, <4>1, <4>3 DEF TokenAt
      <4>4. CASE i = p + 1
        BY <2>1, <2>2, <4>1, <4>4 DEF TokenAt
      <4> QED
        BY <4>2, <4>3, <4>4
    <3> QED
      BY <3>1, <3>2 DEF KeepsTokens
  <2>6. ASSUME NEW j \in 1..Len(simpleKeyStack)
        PROVE  Owns(simpleKeyStack[j], tokens')
    <3> DEFINE other == simpleKeyStack[j]
    <3> SUFFICES ASSUME other.possible
                 PROVE  Owns(other, tokens')
      BY DEF Owns
    <3>1. /\ other \in SimpleKeys /\ Owns(other, tokens)
          /\ other.tokenIndex + 1 < p
      <4>1. Owns(other, tokens) /\ Before(other, simpleKey)
        BY DEF SlotsReserved
      <4> QED
        BY <1>3, <1>5, <2>1, <4>1 DEF Before
    <3> HIDE DEF other
    <3>2. /\ other.tokenIndex \in 2..(Len(tokens) - 1)
          /\ \A i \in {other.tokenIndex, other.tokenIndex + 1} :
                tokens[i] = TokenAt("placeholder", NoName, other.line, other.col)
      BY <3>1 DEF Owns
    <3>3. \A i \in {other.tokenIndex, other.tokenIndex + 1} :
             i \in 1..Len(tokens) /\ i # p /\ i # p + 1
      <4>1. other.tokenIndex \in 2..(Len(tokens) - 1) /\ other.tokenIndex + 1 < p
        BY <3>1, <3>2
      <4> QED
        BY <2>1, <4>1, SMTT(20)
    <3>4. Owns(other, rs)
      BY <2>2, <3>2, <3>3 DEF Owns
    <3> QED
      BY <1>3, <2>2, <2>4, <3>1, <3>4, OwnsGrows
  <2>7. SlotsReserved'
    BY <1>2, <2>6 DEF SlotsReserved, Owns, Before
  <2> QED
    BY <2>5, <2>7
<1> QED
  BY <1>4, <1>5

\* The slots are reserved and the array is never empty.
Slots == SlotsReserved /\ Len(tokens) >= 1

LEMMA InitSlots == Init => Slots
BY DEF Init, Slots, SlotsReserved, Owns, Before, NoKey

\* A step that appends tokens, and leaves the stack of keys alone.
LEMMA GrowsSlots ==
    ASSUME Shape, Shape', SlotsReserved,
           Grows(tokens, tokens'), simpleKeyStack' = simpleKeyStack,
           \/ ~simpleKey'.possible
           \/ /\ simpleKey'.possible = simpleKey.possible
              /\ simpleKey'.tokenIndex = simpleKey.tokenIndex
              /\ simpleKey'.line = simpleKey.line
              /\ simpleKey'.col = simpleKey.col
    PROVE  SlotsReserved' /\ KeepsTokens
BY SlotsKept DEF Grows, KeepsTokens

\* No step shifts or loses a token, and the slots stay reserved.
LEMMA StepSlots ==
    ASSUME Shape, Shape', Slots, [Next]_vars
    PROVE  Slots' /\ KeepsTokens
<1> SUFFICES SlotsReserved' /\ KeepsTokens
  <2>1. Len(tokens) \in Nat /\ Len(tokens') \in Nat
    BY DEF Shape, TypeOK
  <2> QED
    BY <2>1 DEF KeepsTokens, Slots
<1>1. SlotsReserved /\ Len(tokens) >= 1
  BY DEF Slots
<1>2. ASSUME NEW l \in Lines, NEW c \in Cols, Preprocess(l, c)
      PROVE  SlotsReserved' /\ KeepsTokens
  BY <1>1, <1>2, PreprocessSlots DEF Grows, KeepsTokens
<1>3. ASSUME tokens' = tokens, simpleKey' = simpleKey,
             simpleKeyStack' = simpleKeyStack
      PROVE  SlotsReserved' /\ KeepsTokens
  <2>1. tokens \in Seq(Tokens) /\ Grows(tokens, tokens')
    BY <1>3 DEF Shape, TypeOK, Grows
  <2> QED
    BY <1>1, <1>3, <2>1, GrowsSlots
<1>4. CASE Preprocessing
  <2>1. CASE EndOfStream
    BY <1>1, <2>1, EndOfStreamGrows, GrowsSlots
  <2>2. CASE EndOfStreamFails
    BY <1>3, <2>2 DEF EndOfStreamFails, Fail, flowVars
  <2>3. ASSUME NEW l \in Lines, NEW c \in Cols, NEW x \in Lexemes,
               BadDedent(l, c, x)
        PROVE  SlotsReserved' /\ KeepsTokens
    BY <1>3, <2>3 DEF BadDedent, flowVars
  <2>4. ASSUME NEW l \in Lines, NEW c \in Cols, TabInIndentation(l, c)
        PROVE  SlotsReserved' /\ KeepsTokens
    BY <1>3, <2>4 DEF TabInIndentation, flowVars
  <2> QED
    BY <1>2, <1>4, <2>1, <2>2, <2>3, <2>4 DEF Preprocessing
<1>5. CASE Structure
  <2>1. CASE DocumentStart \/ DocumentEnd
    BY <1>1, <2>1, MarkerGrows, GrowsSlots
  <2>2. CASE YamlDirective \/ TagDirective \/ ReservedDirective
    BY <1>1, <2>2, DirectiveGrows, GrowsSlots
  <2>3. CASE UnderIndentedFlowContent \/ MarkerInFlow \/ StructuralFails \/ OrphanDirectives
    BY <1>3, <2>3
       DEF UnderIndentedFlowContent, MarkerInFlow, StructuralFails,
           OrphanDirectives, Fail, flowVars
  <2> QED
    BY <1>5, <2>1, <2>2, <2>3 DEF Structure
<1>6. CASE Indicators
  <2>1. ASSUME NEW x \in Openers, FlowStart(x)
        PROVE  SlotsReserved' /\ KeepsTokens
    BY <1>1, <2>1, FlowStartSlots DEF Grows, KeepsTokens
  <2>2. ASSUME NEW x \in Closers, FlowEnd(x)
        PROVE  SlotsReserved' /\ KeepsTokens
    BY <1>1, <2>2, FlowEndSlots DEF Grows, KeepsTokens
  <2>3. CASE FlowEntry \/ BlockEntry \/ Key
    BY <1>1, <2>3, IndicatorGrows, GrowsSlots
  <2>4. CASE Value
    BY <1>1, <2>4, ValueSlots
  <2>5. CASE FlowFails \/ ValueFails
    BY <1>3, <2>5 DEF FlowFails, ValueFails, Fail, flowVars
  <2> QED
    BY <1>6, <2>1, <2>2, <2>3, <2>4, <2>5 DEF Indicators
<1>7. CASE Nodes
  <2>1. CASE (\E n \in Names : Anchor(n) \/ Alias(n)) \/ Tag
    BY <1>1, <2>1, PropertyGrows, GrowsSlots
  <2>2. ASSUME NEW l \in Lines, NEW c \in 0..(MaxCol + 1),
               BlockScalar(l) \/ QuotedScalar(l, c) \/ PlainScalar(l, c)
        PROVE  SlotsReserved' /\ KeepsTokens
    BY <1>1, <2>2, ScalarsGrow, GrowsSlots
  <2>3. CASE UndefinedAlias \/ Malformed
    BY <1>3, <2>3 DEF UndefinedAlias, Malformed, Fail, flowVars
  <2>4. 0 \in 0..(MaxCol + 1)
    BY BoundsAssumption
  <2> QED
    BY <1>7, <2>1, <2>2, <2>3, <2>4 DEF Nodes
<1>8. CASE Terminating \/ UNCHANGED vars
  BY <1>3, <1>8 DEF Terminating, vars, flowVars
<1> QED
  BY <1>4, <1>5, <1>6, <1>7, <1>8 DEF Next

\* Every key that a `:` may still confirm owns its two placeholder slots, and
\* no two keys share one (scanValuePrepare "overwriting placeholder slots").
THEOREM SlotsInvariant == Spec => []SlotsReserved
<1>1. Spec => [](Shape /\ Slots)
  BY InitShape, StepShape, InitSlots, StepSlots, PTL DEF Spec
<1> QED
  BY <1>1, PTL DEF Slots

\* scanValuePrepare: "Tokens are preserved or grown (never shifted)", of every
\* step of the scanner.
THEOREM TokensNeverShift == Spec => TokensPreserved
<1>1. Spec => [](Shape /\ Slots)
  BY InitShape, StepShape, InitSlots, StepSlots, PTL DEF Spec
<1>2. Shape /\ Shape' /\ Slots /\ [Next]_vars => [KeepsTokens]_vars
  BY StepSlots
<1> QED
  BY <1>1, <1>2, PTL DEF Spec, TokensPreserved

=============================================================================
