------------------------- MODULE ScannerNestProofs -------------------------
(***************************************************************************)
(* Theorems about the nesting of the tokens, for every alphabet of         *)
(* lexemes, every set of names and every bound: the collections that the   *)
(* tokens leave open are those on the scanner's stacks, a key never takes  *)
(* in more or less than its collection holds, and entries are aligned.     *)
(***************************************************************************)
EXTENDS ScannerTokenProofs, WellFoundedInduction

-----------------------------------------------------------------------------
(* What position, flags and stacks say of the keys that may still come.    *)

\* A `:` may still confirm the pending key: in a block only on its line, and
\* only if no other key is saved before the `:`.
Live ==
    /\ simpleKey.possible
    /\ InFlow \/ (simpleKey.line = line /\ (phase = "dispatch" \/ ~simpleKeyAllowed))

\* The key that waits for the outermost flow collection.
Outer == simpleKeyStack[1]

\* A check of the indentation that is due may close blocks, but none that a
\* key waits in: the key is of an earlier line.
Due ==
    needIndentCheck =>
        /\ InFlow /\ Outer.possible => Outer.line < line
        /\ ~InFlow /\ ~simpleKeyAllowed /\ simpleKey.possible => simpleKey.line < line

\* What may follow on the line on which a key of an earlier line ended.
Confined ==
    ~InFlow /\ ~simpleKeyAllowed /\ simpleKey.possible /\ simpleKey.line # line
        => follow \subseteq {":", "plain"}

\* A lexeme in a block is dispatched right of its block, and its key is known.
Fresh ==
    phase = "dispatch" /\ ~InFlow =>
        /\ ~needIndentCheck
        /\ simpleKeyAllowed => simpleKey.possible /\ simpleKey.line = line

KeyBefore(key, l, c) == key.possible => NotBefore(key.line, key.col, l, c)
KeysBefore ==
    /\ KeyBefore(simpleKey, line, col)
    /\ \A j \in 1..Len(simpleKeyStack) : KeyBefore(simpleKeyStack[j], line, col)

RightOfBlock == ~needIndentCheck => CurrentIndent <= col
KeyRightOfBlock ==
    /\ ~InFlow /\ Live => CurrentIndent <= simpleKey.col
    /\ InFlow /\ Outer.possible => CurrentIndent <= Outer.col

KeysPlaced ==
    phase \in Running =>
        Due /\ Confined /\ Fresh /\ KeysBefore /\ RightOfBlock /\ KeyRightOfBlock

LEMMA PlacedTypes ==
    ASSUME Shape
    PROVE  /\ line \in Nat /\ col \in Nat /\ simpleKey \in SimpleKeys
           /\ simpleKey.line \in Nat /\ simpleKey.col \in Nat
           /\ simpleKey.tokenIndex \in Nat /\ simpleKey.possible \in BOOLEAN
           /\ simpleKeyStack \in Seq(SimpleKeys) /\ Len(simpleKeyStack) = flowLevel
           /\ Len(flowStack) = flowLevel /\ flowLevel \in Nat
           /\ flowStack \in Seq(BOOLEAN)
           /\ Len(indents) \in Nat \ {0} /\ indents \in Seq(Indents)
           /\ CurrentIndent \in Int
           /\ simpleKeyAllowed \in BOOLEAN /\ needIndentCheck \in BOOLEAN
           /\ \A i \in 1..Len(indents) : indents[i].column \in Int
<1>1. simpleKey \in SimpleKeys /\ \A k \in SimpleKeys :
         k.line \in Nat /\ k.col \in Nat /\ k.tokenIndex \in Nat /\ k.possible \in BOOLEAN
  BY DEF Shape, TypeOK, SimpleKeys
<1>2. Len(indents) \in Nat \ {0} /\ indents \in Seq(Indents)
  BY DEF Shape, TypeOK, WellFormed
<1>3. ASSUME NEW i \in 1..Len(indents) PROVE indents[i].column \in Int
  <2>1. indents[i] \in Indents
    BY <1>2
  <2> QED
    BY <2>1 DEF Indents
<1>4. CurrentIndent \in Int
  BY <1>2, <1>3 DEF CurrentIndent
<1> QED
  BY <1>1, <1>2, <1>3, <1>4 DEF Shape, TypeOK, WellFormed

LEMMA StackTypes ==
    ASSUME Shape, NEW j \in 1..Len(simpleKeyStack)
    PROVE  /\ simpleKeyStack[j] \in SimpleKeys
           /\ simpleKeyStack[j].line \in Nat /\ simpleKeyStack[j].col \in Nat
           /\ simpleKeyStack[j].tokenIndex \in Nat
           /\ simpleKeyStack[j].possible \in BOOLEAN
<1>1. simpleKeyStack[j] \in SimpleKeys
  BY PlacedTypes
<1> QED
  BY <1>1 DEF SimpleKeys

LEMMA OuterType ==
    ASSUME Shape, InFlow
    PROVE  Outer.tokenIndex \in Nat /\ Outer.possible \in BOOLEAN
<1>1. 1 \in 1..Len(simpleKeyStack)
  BY PlacedTypes DEF InFlow
<1> QED
  BY <1>1, StackTypes DEF Outer

LEMMA NextIndentType ==
    ASSUME Shape'
    PROVE  CurrentIndent' \in Int
<1>1. indents' \in Seq(Indents) /\ Len(indents') \in Nat \ {0}
  BY DEF Shape, TypeOK, WellFormed
<1>2. indents'[Len(indents')] \in Indents
  BY <1>1
<1> QED
  BY <1>2 DEF CurrentIndent, Indents

LEMMA NotBeforeMoves ==
    ASSUME NEW l1 \in Nat, NEW c1 \in Nat, NEW l2 \in Nat, NEW c2 \in Nat,
           NEW l3 \in Nat, NEW c3 \in Nat,
           NotBefore(l1, c1, l2, c2), NotBefore(l2, c2, l3, c3)
    PROVE  NotBefore(l1, c1, l3, c3)
BY DEF NotBefore

\* Keys stay before the position when it moves on.
LEMMA KeysBeforeMoves ==
    ASSUME Shape, KeysBefore, NEW l \in Nat, NEW c \in Nat, NotBefore(line, col, l, c)
    PROVE  /\ KeyBefore(simpleKey, l, c)
           /\ \A j \in 1..Len(simpleKeyStack) : KeyBefore(simpleKeyStack[j], l, c)
<1>1. KeyBefore(simpleKey, l, c)
  BY PlacedTypes, NotBeforeMoves DEF KeysBefore, KeyBefore
<1>2. ASSUME NEW j \in 1..Len(simpleKeyStack) PROVE KeyBefore(simpleKeyStack[j], l, c)
  BY PlacedTypes, StackTypes, NotBeforeMoves DEF KeysBefore, KeyBefore
<1> QED
  BY <1>1, <1>2

LEMMA InitPlaced == Init => KeysPlaced
<1> SUFFICES ASSUME Init PROVE KeysPlaced
  OBVIOUS
<1>1. ~simpleKey.possible /\ simpleKeyStack = <<>> /\ flowLevel = 0
  BY DEF Init, NoKey
<1>2. phase = "preprocess" /\ simpleKeyAllowed /\ needIndentCheck
  BY DEF Init
<1>3. Len(simpleKeyStack) = 0 /\ ~InFlow
  BY <1>1 DEF InFlow
<1> QED
  BY <1>1, <1>2, <1>3
     DEF KeysPlaced, Due, Confined, Fresh, KeysBefore, KeyBefore, RightOfBlock,
         KeyRightOfBlock, Live

LEMMA PreprocessPlaced ==
    ASSUME Shape, Shape', KeysPlaced, NEW l \in Lines, NEW c \in Cols, Preprocess(l, c)
    PROVE  KeysPlaced'
<1>1. /\ l \in Nat /\ c \in Nat /\ line' = l /\ col' = c
      /\ NotBefore(line, col, l, c) /\ phase \in Running /\ phase' = "dispatch"
  BY PreprocessAdds DEF Preprocess, Running
<1>2. PICK k \in 1..Len(indents) :
         /\ IF ChecksIndent(l) THEN UnwindsTo(k, c) ELSE k = Len(indents)
         /\ indents' = SubSeq(indents, 1, k)
         /\ simpleKey' = IF SavesKey(l)
                         THEN [possible |-> TRUE,
                               tokenIndex |-> Len(tokens \o BlockEnds(k, l, c)) + 1,
                               line |-> l, col |-> c, endLine |-> l]
                         ELSE simpleKey
  BY DEF Preprocess
<1>3. /\ simpleKeyAllowed' = (simpleKeyAllowed \/ (l > line /\ ~InFlowSequence))
      /\ needIndentCheck' = (InFlow /\ (needIndentCheck \/ l > line))
      /\ simpleKeyStack' = simpleKeyStack /\ flowLevel' = flowLevel
      /\ InFlow' = InFlow /\ l >= line /\ (l = line => c >= col)
  <2>1. /\ simpleKeyAllowed' = (simpleKeyAllowed \/ (l > line /\ ~InFlowSequence))
        /\ needIndentCheck' = (InFlow /\ (needIndentCheck \/ l > line))
        /\ simpleKeyStack' = simpleKeyStack /\ flowLevel' = flowLevel
    BY Zenon DEF Preprocess, flowVars
  <2>2. l >= line /\ (l = line => c >= col)
    BY <1>1, PlacedTypes DEF NotBefore
  <2> QED
    BY <2>1, <2>2 DEF InFlow
<1>4. KeysBefore /\ Due /\ Confined /\ Fresh /\ RightOfBlock /\ KeyRightOfBlock
  BY <1>1 DEF KeysPlaced
<1>5. ~InFlow => ~InFlowSequence /\ (SavesKey(l) <=> simpleKeyAllowed')
  <2>1. ASSUME ~InFlow PROVE ~InFlowSequence
    BY <2>1, PlacedTypes DEF InFlow, InFlowSequence
  <2> QED
    BY <1>3, <2>1 DEF SavesKey
<1>6. CurrentIndent' = indents[k].column /\ Len(indents') = k
  BY <1>2, PlacedTypes DEF CurrentIndent
<1>7. SavesKey(l) => simpleKey'.possible /\ simpleKey'.line = l /\ simpleKey'.col = c
  BY <1>2
<1>8. KeysBefore'
  BY <1>1, <1>2, <1>3, <1>4, <1>7, KeysBeforeMoves, PlacedTypes
     DEF KeysBefore, KeyBefore, NotBefore
<1>9. Due'
  <2>1. ASSUME needIndentCheck', InFlow', Outer'.possible PROVE Outer'.line < line'
    <3>1. InFlow /\ (needIndentCheck \/ l > line) /\ Outer' = Outer /\ Outer.possible
      BY <1>3, <2>1 DEF Outer
    <3>2. Outer.line \in Nat /\ Outer.line <= line
      <4>1. 1 \in 1..Len(simpleKeyStack)
        BY <3>1, PlacedTypes DEF InFlow
      <4> QED
        BY <1>4, <3>1, <4>1, StackTypes, PlacedTypes DEF Outer, KeysBefore, KeyBefore, NotBefore
    <3> QED
      BY <1>1, <1>3, <1>4, <3>1, <3>2, PlacedTypes DEF Due
  <2> QED
    BY <1>3, <2>1 DEF Due
<1>10. Confined'
  <2>1. ASSUME ~InFlow, ~simpleKeyAllowed', simpleKey'.possible, simpleKey'.line # l
        PROVE  follow' \subseteq {":", "plain"}
    <3>1. ~SavesKey(l) /\ simpleKey' = simpleKey /\ l = line /\ ~simpleKeyAllowed
      BY <1>1, <1>2, <1>3, <1>5, <2>1, PlacedTypes
    <3>2. follow' = follow
      BY <3>1, PlacedTypes DEF Preprocess
    <3> QED
      BY <1>4, <2>1, <3>1, <3>2 DEF Confined
  <2> QED
    BY <1>1, <1>3, <2>1 DEF Confined
<1>11. Fresh'
  BY <1>1, <1>3, <1>5, <1>7 DEF Fresh
<1>12. RightOfBlock'
  <2>1. ASSUME ~needIndentCheck' PROVE CurrentIndent' <= c
    <3>1. CASE ChecksIndent(l)
      <4>1. indents[1].column = -1
        BY DEF Shape, WellFormed, Sentinel
      <4> QED
        BY <1>1, <1>2, <1>6, <3>1, <4>1 DEF UnwindsTo
    <3>2. CASE ~ChecksIndent(l)
      <4>1. ~needIndentCheck /\ l = line /\ CurrentIndent' = CurrentIndent
        <5>1. ~needIndentCheck /\ ~(l > line)
          BY <1>3, <2>1, <3>2, PlacedTypes DEF ChecksIndent
        <5> QED
          BY <1>1, <1>2, <1>3, <1>6, <3>2, <5>1, PlacedTypes DEF CurrentIndent
      <4> QED
        BY <1>1, <1>3, <1>4, <4>1, PlacedTypes DEF RightOfBlock
    <3> QED
      BY <3>1, <3>2
  <2> QED
    BY <1>1, <2>1 DEF RightOfBlock
<1>13. KeyRightOfBlock'
  <2>1. ASSUME ~InFlow, Live' PROVE CurrentIndent' <= simpleKey'.col
    <3>1. CASE SavesKey(l)
      BY <1>1, <1>3, <1>7, <1>12, <2>1, <3>1 DEF RightOfBlock
    <3>2. CASE ~SavesKey(l)
      <4>1. /\ simpleKey' = simpleKey /\ l = line /\ ~simpleKeyAllowed
            /\ simpleKey.possible /\ simpleKey.line = line
        BY <1>1, <1>2, <1>3, <1>5, <2>1, <3>2, PlacedTypes DEF Live
      <4>2. ~needIndentCheck
        BY <1>4, <2>1, <4>1, PlacedTypes DEF Due
      <4>3. CurrentIndent' = CurrentIndent
        BY <1>1, <1>2, <1>6, <4>1, <4>2, PlacedTypes DEF ChecksIndent, CurrentIndent
      <4> QED
        BY <1>4, <2>1, <4>1, <4>3 DEF KeyRightOfBlock, Live
    <3> QED
      BY <3>1, <3>2
  <2>2. ASSUME InFlow, Outer'.possible PROVE CurrentIndent' <= Outer'.col
    <3>1. Outer' = Outer /\ CurrentIndent' = CurrentIndent
      BY <1>2, <1>3, <1>6, <2>2 DEF ChecksIndent, CurrentIndent, Outer
    <3> QED
      BY <1>4, <2>2, <3>1 DEF KeyRightOfBlock
  <2> QED
    BY <1>3, <2>1, <2>2 DEF KeyRightOfBlock
<1> QED
  BY <1>8, <1>9, <1>10, <1>11, <1>12, <1>13 DEF KeysPlaced

\* Tokens that neither open, close nor enter a collection.
Entries == {"key", "blockEntry"}
Leaves == TokenVals \ (BlockStarts \cup FlowStarts \cup FlowEnds \cup Entries
                          \cup {"blockEnd"})

\* A node, a directive or a comma: the collections stay, and so does the key
\* if any; a key that ends on a later line than it began confines the line.
AddsLeaf ==
    /\ phase = "dispatch" /\ phase' = "preprocess"
    /\ indents' = indents /\ UNCHANGED flowVars
    /\ tokens' = tokens \/ \E t \in Tokens : t.val \in Leaves /\ tokens' = Append(tokens, t)
    /\ NotBefore(line, col, line', col')
    /\ simpleKey'.possible =>
          /\ simpleKey.possible /\ simpleKey'.tokenIndex = simpleKey.tokenIndex
          /\ simpleKey'.line = simpleKey.line /\ simpleKey'.col = simpleKey.col
    /\ needIndentCheck' => needIndentCheck \/ line' > line
    /\ ~needIndentCheck' => ~needIndentCheck /\ line' = line
    /\ ~InFlow /\ ~simpleKeyAllowed' /\ simpleKey'.possible /\ simpleKey.line # line'
          => follow' \subseteq {":", "plain"}

LEMMA LeafPlaced ==
    ASSUME Shape, Shape', KeysPlaced, AddsLeaf
    PROVE  KeysPlaced'
<1>1. KeysBefore /\ Due /\ Confined /\ Fresh /\ RightOfBlock /\ KeyRightOfBlock
  BY DEF KeysPlaced, Running, AddsLeaf
<1>2. /\ simpleKeyStack' = simpleKeyStack /\ InFlow' = InFlow
      /\ CurrentIndent' = CurrentIndent /\ Outer' = Outer
  BY DEF flowVars, InFlow, CurrentIndent, Outer, AddsLeaf
<1>3. line' \in Nat /\ col' \in Nat /\ line <= line' /\ (line' = line => col <= col')
  BY PlacedTypes DEF NotBefore, Shape, TypeOK, AddsLeaf
<1>4. KeysBefore'
  <2>1. /\ KeyBefore(simpleKey, line', col')
        /\ \A j \in 1..Len(simpleKeyStack) : KeyBefore(simpleKeyStack[j], line', col')
    BY <1>1, <1>3, KeysBeforeMoves DEF AddsLeaf
  <2> QED
    BY <1>2, <2>1 DEF KeysBefore, KeyBefore, AddsLeaf
<1>5. simpleKey'.possible => simpleKey.line <= line
  BY <1>1, PlacedTypes DEF KeysBefore, KeyBefore, NotBefore, AddsLeaf
<1>6. InFlow /\ Outer.possible => Outer.line \in Nat /\ Outer.line <= line
  <2>1. InFlow => 1 \in 1..Len(simpleKeyStack)
    BY PlacedTypes DEF InFlow
  <2> QED
    BY <1>1, <2>1, StackTypes, PlacedTypes DEF Outer, KeysBefore, KeyBefore, NotBefore
<1>7. Due'
  <2>1. ASSUME needIndentCheck', InFlow, Outer.possible PROVE Outer.line < line'
    BY <1>1, <1>3, <1>6, <2>1, PlacedTypes DEF Due, AddsLeaf
  <2>2. ASSUME needIndentCheck', ~InFlow, simpleKey'.possible
        PROVE  simpleKey'.line < line'
    BY <1>1, <1>3, <1>5, <2>2, PlacedTypes DEF Fresh, AddsLeaf
  <2> QED
    BY <1>2, <2>1, <2>2 DEF Due
<1>8. Confined'
  BY <1>2 DEF Confined, AddsLeaf
<1>9. RightOfBlock'
  BY <1>1, <1>2, <1>3, PlacedTypes DEF RightOfBlock, AddsLeaf
<1>10. Live' => Live
  BY <1>2, <1>3, <1>5, PlacedTypes DEF Live, AddsLeaf
<1>11. KeyRightOfBlock'
  <2>1. Live' => simpleKey'.col = simpleKey.col
    BY DEF Live, AddsLeaf
  <2> QED
    BY <1>1, <1>2, <1>10, <2>1 DEF KeyRightOfBlock
<1> QED
  BY <1>4, <1>7, <1>8, <1>9, <1>11 DEF KeysPlaced, Fresh, AddsLeaf

\* An indicator or a marker: a key may follow at once.
LEMMA IndicatorPlaced ==
    ASSUME Shape, Shape', KeysPlaced, phase = "dispatch", simpleKeyAllowed',
           UNCHANGED <<flowVars, needIndentCheck>>, \E n : Consume(n),
           simpleKey' = NoKey \/ UNCHANGED simpleKey,
           IF InFlow THEN indents' = indents ELSE CurrentIndent' <= col
    PROVE  KeysPlaced'
<1>1. KeysBefore /\ Due /\ Confined /\ Fresh /\ RightOfBlock /\ KeyRightOfBlock
  BY DEF KeysPlaced, Running
<1>2. /\ simpleKeyStack' = simpleKeyStack /\ InFlow' = InFlow /\ Outer' = Outer
      /\ (InFlow => CurrentIndent' = CurrentIndent)
  BY DEF flowVars, InFlow, Outer, CurrentIndent
<1>3. phase' = "preprocess" /\ line' = line /\ col' = col + 1
  BY DEF Consume
<1>4. KeysBefore'
  <2>1. NotBefore(line, col, line', col') /\ line' \in Nat /\ col' \in Nat
    BY <1>3, PlacedTypes DEF NotBefore
  <2>2. /\ KeyBefore(simpleKey, line', col')
        /\ \A j \in 1..Len(simpleKeyStack) : KeyBefore(simpleKeyStack[j], line', col')
    BY <1>1, <2>1, KeysBeforeMoves
  <2> QED
    BY <1>2, <2>2 DEF KeysBefore, KeyBefore, NoKey
<1>5. Due'
  BY <1>1, <1>2, <1>3 DEF Due
<1>6. RightOfBlock'
  <2>1. CurrentIndent' \in Int /\ CurrentIndent \in Int /\ col \in Nat
    BY NextIndentType, PlacedTypes
  <2>2. ~needIndentCheck' => CurrentIndent' <= col
    BY <1>1, <1>2 DEF RightOfBlock
  <2> QED
    BY <1>3, <2>1, <2>2 DEF RightOfBlock
<1>7. KeyRightOfBlock'
  BY <1>1, <1>2, <1>3 DEF KeyRightOfBlock, Live
<1> QED
  BY <1>3, <1>4, <1>5, <1>6, <1>7 DEF KeysPlaced, Fresh, Confined

LEMMA FlowStartPlaced ==
    ASSUME Shape, Shape', KeysPlaced, NEW x \in Openers, FlowStart(x)
    PROVE  KeysPlaced'
<1>1. phase = "dispatch" /\ phase' = "preprocess" /\ line' = line /\ col' = col + 1
  BY DEF FlowStart, Content, At, Consume
<1>2. KeysBefore /\ Due /\ Confined /\ Fresh /\ RightOfBlock /\ KeyRightOfBlock
  BY <1>1 DEF KeysPlaced, Running
<1>3. /\ simpleKeyStack' = Append(simpleKeyStack, simpleKey) /\ ~simpleKey'.possible
      /\ flowLevel' = flowLevel + 1 /\ simpleKeyAllowed'
      /\ needIndentCheck' = needIndentCheck /\ CurrentIndent' = CurrentIndent
  BY DEF FlowStart, PushesKey, NoKey, CurrentIndent
<1>4. InFlow' /\ Outer' = IF InFlow THEN Outer ELSE simpleKey
  BY <1>3, PlacedTypes DEF InFlow, Outer
\* In a block the key pushed is one that a `:` on this line may confirm.
<1>5. ~InFlow /\ simpleKey.possible => Live /\ ~needIndentCheck
  <2>1. ASSUME ~InFlow, simpleKey.possible, simpleKey.line # line PROVE FALSE
    <3>1. ~simpleKeyAllowed
      BY <1>1, <1>2, <2>1 DEF Fresh
    <3>2. x \in follow /\ x \notin {":", "plain"}
      BY DEF FlowStart, Content, At, Openers
    <3> QED
      BY <1>2, <2>1, <3>1, <3>2 DEF Confined
  <2> QED
    BY <1>1, <1>2, <2>1 DEF Live, Fresh
<1>6. KeysBefore'
  <2>1. NotBefore(line, col, line', col') /\ line' \in Nat /\ col' \in Nat
    BY <1>1, PlacedTypes DEF NotBefore
  <2>2. /\ KeyBefore(simpleKey, line', col')
        /\ \A j \in 1..Len(simpleKeyStack) : KeyBefore(simpleKeyStack[j], line', col')
    BY <1>2, <2>1, KeysBeforeMoves
  <2>3. ASSUME NEW j \in 1..Len(simpleKeyStack')
        PROVE  \/ simpleKeyStack'[j] = simpleKey
               \/ /\ j \in 1..Len(simpleKeyStack)
                  /\ simpleKeyStack'[j] = simpleKeyStack[j]
    BY <1>3, PlacedTypes
  <2> QED
    BY <1>3, <2>2, <2>3 DEF KeysBefore, KeyBefore
<1>7. Due'
  BY <1>1, <1>2, <1>3, <1>4, <1>5 DEF Due
<1>8. RightOfBlock'
  BY <1>1, <1>2, <1>3, PlacedTypes DEF RightOfBlock
<1>9. KeyRightOfBlock'
  BY <1>2, <1>3, <1>4, <1>5 DEF KeyRightOfBlock
<1> QED
  BY <1>1, <1>3, <1>4, <1>6, <1>7, <1>8, <1>9 DEF KeysPlaced, Fresh, Confined

LEMMA FlowEndPlaced ==
    ASSUME Shape, Shape', KeysPlaced, NEW x \in Closers, FlowEnd(x)
    PROVE  KeysPlaced'
<1>1. /\ phase = "dispatch" /\ phase' = "preprocess" /\ line' = line /\ col' = col + 1
      /\ InFlow /\ flowLevel >= 1
  BY PlacedTypes DEF FlowEnd, Content, At, Consume, InFlow
<1>2. KeysBefore /\ Due /\ Confined /\ Fresh /\ RightOfBlock /\ KeyRightOfBlock
  BY <1>1 DEF KeysPlaced, Running
<1> DEFINE n == Len(simpleKeyStack)
<1>3. /\ n = flowLevel /\ n \in Nat /\ n >= 1 /\ n \in 1..n /\ n - 1 \in 0..n
      /\ \A j \in 1..(n - 1) : j \in 1..n
  BY <1>1, PlacedTypes
<1>4. /\ simpleKeyStack' = SubSeq(simpleKeyStack, 1, n - 1)
      /\ simpleKey' = simpleKeyStack[n]
      /\ flowLevel' = flowLevel - 1 /\ ~simpleKeyAllowed'
      /\ needIndentCheck' = needIndentCheck /\ CurrentIndent' = CurrentIndent
  BY DEF FlowEnd, PopsKey, CurrentIndent
<1> HIDE DEF n
<1>5. Len(simpleKeyStack') = n - 1 /\ \A j \in 1..(n - 1) : simpleKeyStack'[j] = simpleKeyStack[j]
  BY <1>3, <1>4, PlacedTypes
<1>6. /\ InFlow' => Outer' = Outer
      /\ ~InFlow' => simpleKey' = Outer
  <2>1. InFlow' => n - 1 >= 1 /\ 1 \in 1..(n - 1)
    BY <1>3, <1>4 DEF InFlow
  <2>2. ~InFlow' => n = 1
    BY <1>3, <1>4 DEF InFlow
  <2> QED
    BY <1>4, <1>5, <2>1, <2>2 DEF Outer
<1>7. KeysBefore'
  <2>1. NotBefore(line, col, line', col') /\ line' \in Nat /\ col' \in Nat
    BY <1>1, PlacedTypes DEF NotBefore
  <2>2. \A j \in 1..n : KeyBefore(simpleKeyStack[j], line', col')
    BY <1>2, <2>1, KeysBeforeMoves DEF n
  <2> QED
    BY <1>3, <1>4, <1>5, <2>2 DEF KeysBefore
<1>8. Due'
  BY <1>1, <1>2, <1>4, <1>6 DEF Due
<1>9. Confined'
  <2>1. ~InFlow' => flowLevel = 1
    BY <1>3, <1>4 DEF InFlow
  <2>2. flowLevel = 1 => follow' = Trailing
    BY DEF FlowEnd, Consume
  <2> QED
    BY <2>1, <2>2 DEF Confined, Trailing
<1>10. RightOfBlock'
  BY <1>1, <1>2, <1>4, PlacedTypes DEF RightOfBlock
<1>11. KeyRightOfBlock'
  BY <1>1, <1>2, <1>4, <1>6 DEF KeyRightOfBlock, Live
<1> QED
  BY <1>1, <1>7, <1>8, <1>9, <1>10, <1>11 DEF KeysPlaced, Fresh

LEMMA LeafVals ==
    /\ {"versionDirective", "tagDirective", "flowEntry", "value", "anchor",
        "alias", "tag", "scalar", "placeholder", "documentStart",
        "documentEnd", "streamEnd"} \subseteq Leaves
    /\ Leaves \subseteq TokenVals
BY DEF Leaves, TokenVals, BlockStarts, FlowStarts, FlowEnds, Entries

\* The pending key has its line, or only `:` and plain text may come.
LEMMA KeyOnLine ==
    ASSUME KeysPlaced, NEW x \in Lexemes \ {":", "plain"}, At(x), ~InFlow,
           simpleKey.possible
    PROVE  simpleKey.line = line
BY DEF KeysPlaced, Fresh, Confined, At, Running

LEMMA EmittedLeaf ==
    ASSUME Shape, NEW v \in Leaves, tokens' = tokens \o Emitted(v)
    PROVE  \E t \in Tokens : t.val \in Leaves /\ tokens' = Append(tokens, t)
<1> DEFINE t == TokenAt(v, NoName, line, col)
<1>1. t \in Tokens /\ t.val = v
  BY LeafVals, PlacedTypes DEF TokenAt, Tokens
<1>2. Emitted(v) = <<t>> /\ tokens \in Seq(Tokens)
  BY DEF Emitted, Shape, TypeOK
<1> HIDE DEF t
<1>3. tokens \o <<t>> = Append(tokens, t)
  BY <1>1, <1>2
<1> QED
  BY <1>1, <1>2, <1>3

LEMMA DirectiveLeaf ==
    ASSUME Shape, YamlDirective \/ TagDirective \/ ReservedDirective
    PROVE  AddsLeaf
<1>1. PICK v : v \in {Emitted("versionDirective"), Emitted("tagDirective"), <<>>} /\ Directive(v)
  BY DEF YamlDirective, TagDirective, ReservedDirective
<1>2. /\ phase' = "preprocess" /\ NotBefore(line, col, line', col') /\ line' = line
      /\ follow' = {}
  BY <1>1, ConsumeMoves DEF Directive, Consume, Shape
<1>3. tokens' = tokens \/ \E t \in Tokens : t.val \in Leaves /\ tokens' = Append(tokens, t)
  <2>1. tokens \o <<>> = tokens
    BY DEF Shape, TypeOK
  <2> QED
    BY <1>1, <2>1, LeafVals, EmittedLeaf DEF Directive
<1>4. phase = "dispatch"
  BY DEF YamlDirective, TagDirective, ReservedDirective, AtDirective, At
<1> QED
  BY <1>1, <1>2, <1>3, <1>4, PlacedTypes DEF AddsLeaf, Directive

LEMMA FlowEntryLeaf ==
    ASSUME Shape, FlowEntry
    PROVE  AddsLeaf
<1>1. phase' = "preprocess" /\ NotBefore(line, col, line', col') /\ line' = line
  BY ConsumeMoves DEF FlowEntry, Consume, Shape
<1>2. \E t \in Tokens : t.val \in Leaves /\ tokens' = Append(tokens, t)
  BY LeafVals, EmittedLeaf DEF FlowEntry
<1> QED
  BY <1>1, <1>2, PlacedTypes DEF AddsLeaf, FlowEntry, Content, At

LEMMA OneLineLeaf ==
    ASSUME Shape, KeysPlaced, NEW t \in Tokens, t.val \in Leaves, OneLineNode(t),
           NEW x \in Lexemes \ {":", "plain"}, At(x)
    PROVE  AddsLeaf
<1>1. phase' = "preprocess" /\ NotBefore(line, col, line', col') /\ line' = line
  BY ConsumeMoves DEF OneLineNode, Consume, Shape
<1>2. ~InFlow /\ simpleKey.possible => simpleKey.line = line
  BY KeyOnLine
<1> QED
  BY <1>1, <1>2, PlacedTypes DEF AddsLeaf, OneLineNode, At

LEMMA NodeLeaf ==
    ASSUME Shape, KeysPlaced, Tag \/ \E n \in Names : Anchor(n) \/ Alias(n)
    PROVE  AddsLeaf
<1>1. /\ TokenAt("tag", NoName, line, col) \in Tokens
      /\ \A n \in Names : /\ TokenAt("anchor", n, line, col) \in Tokens
                          /\ TokenAt("alias", n, line, col) \in Tokens
  BY ValsType, PlacedTypes DEF TokenAt, Tokens
<1>2. PICK t \in Tokens : t.val \in {"tag", "anchor", "alias"} /\ OneLineNode(t)
  BY <1>1 DEF Tag, Anchor, Alias, TokenAt
<1>3. PICK x \in {"!", "&", "*"} : At(x)
  BY DEF Tag, Anchor, Alias, Content
<1>4. x \in Lexemes \ {":", "plain"}
  BY <1>3 DEF At, Shape, TypeOK
<1> QED
  BY <1>2, <1>3, <1>4, LeafVals, OneLineLeaf

LEMMA ScalarLeaf ==
    ASSUME Shape, NEW l \in Lines, NEW c \in 0..(MaxCol + 1),
           BlockScalar(l) \/ QuotedScalar(l, c) \/ PlainScalar(l, c)
    PROVE  AddsLeaf
<1>1. l \in Nat /\ c \in Nat /\ line \in Nat /\ col \in Nat
  BY BoundsAssumption, PlacedTypes DEF Lines
<1>2. PICK d, n :
         /\ d \in Nat /\ ScalarTo(l, d, n) /\ NotBefore(line, col, l, d)
         /\ \/ simpleKey' = NoKey
            \/ InFlow \/ n \subseteq {":", "plain"}
  <2>1. CASE BlockScalar(l)
    <3>1. ScalarTo(l, 0, Lexemes) /\ NotBefore(line, col, l, 0)
      BY <1>1, <2>1 DEF BlockScalar, NotBefore
    <3> QED
      BY <2>1, <3>1 DEF BlockScalar
  <2>2. CASE QuotedScalar(l, c)
    <3>1. NotBefore(line, col, l, c)
      BY <1>1, <2>2 DEF QuotedScalar, NotBefore
    <3>2. \E n : ScalarTo(l, c, n) /\ (InFlow \/ n \subseteq {":", "plain"})
      BY <2>2 DEF QuotedScalar, Trailing
    <3> QED
      BY <1>1, <3>1, <3>2
  <2>3. CASE PlainScalar(l, c)
    <3>1. NotBefore(line, col, l, c)
      BY <1>1, <2>3 DEF PlainScalar, NotBefore
    <3>2. \E n : ScalarTo(l, c, n) /\ (InFlow \/ n \subseteq {":", "plain"})
      BY <2>3 DEF PlainScalar, PlainEnd
    <3> QED
      BY <1>1, <3>1, <3>2
  <2> QED
    BY <2>1, <2>2, <2>3
<1>3. \E t \in Tokens : t.val \in Leaves /\ tokens' = Append(tokens, t)
  BY <1>2, LeafVals, EmittedLeaf DEF ScalarTo
<1>4. simpleKey'.possible =>
          /\ simpleKey.possible /\ simpleKey'.tokenIndex = simpleKey.tokenIndex
          /\ simpleKey'.line = simpleKey.line /\ simpleKey'.col = simpleKey.col
  BY PlacedTypes DEF BlockScalar, QuotedScalar, PlainScalar, NoKey, SimpleKeys
<1>5. ~simpleKey'.possible \/ InFlow \/ n \subseteq {":", "plain"}
  BY <1>2 DEF NoKey
<1>6. phase = "dispatch"
  BY DEF BlockScalar, QuotedScalar, PlainScalar, Content, At
<1>7. /\ needIndentCheck' => needIndentCheck \/ line' > line
      /\ ~needIndentCheck' => ~needIndentCheck /\ line' = line
  <2>1. line' = l /\ needIndentCheck' = (needIndentCheck \/ l > line) /\ l >= line
    BY <1>1, <1>2 DEF ScalarTo, NotBefore
  <2>2. l > line \/ l = line
    BY <1>1, <2>1
  <2> QED
    BY <2>1, <2>2
<1> QED
  BY <1>2, <1>3, <1>4, <1>5, <1>6, <1>7, PlacedTypes DEF AddsLeaf, ScalarTo

LEMMA PushedRight ==
    ASSUME Shape, KeysPlaced, phase = "dispatch", NEW seq \in BOOLEAN,
           indents' = PushedIndents(seq)
    PROVE  IF InFlow THEN indents' = indents ELSE CurrentIndent' <= col
<1>1. ~InFlow => CurrentIndent <= col
  BY DEF KeysPlaced, Running, Fresh, RightOfBlock
<1>2. CASE OpensBlock
  <2>1. indents' = Append(indents, [column |-> col, isSequence |-> seq]) /\ ~InFlow
    BY <1>2 DEF PushedIndents, OpensBlock
  <2>2. CurrentIndent' = col
    BY <2>1, PlacedTypes DEF CurrentIndent
  <2> QED
    BY <2>1, <2>2, PlacedTypes
<1>3. CASE ~OpensBlock
  BY <1>1, <1>3 DEF PushedIndents, CurrentIndent
<1> QED
  BY <1>2, <1>3

LEMMA BlockIndicatorPlaced ==
    ASSUME Shape, Shape', KeysPlaced, BlockEntry \/ Key
    PROVE  KeysPlaced'
<1>1. phase = "dispatch" /\ \E seq \in BOOLEAN : indents' = PushedIndents(seq)
  BY DEF BlockEntry, Key, Content, At
<1>2. IF InFlow THEN indents' = indents ELSE CurrentIndent' <= col
  BY <1>1, PushedRight
<1> QED
  BY <1>1, <1>2, IndicatorPlaced DEF BlockEntry, Key

LEMMA MarkerPlaced ==
    ASSUME Shape, Shape', KeysPlaced, DocumentStart \/ DocumentEnd
    PROVE  KeysPlaced'
<1>1. /\ phase = "dispatch" /\ ~InFlow /\ indents' = SubSeq(indents, 1, 1)
      /\ simpleKeyAllowed' /\ UNCHANGED <<flowVars, needIndentCheck>>
      /\ simpleKey' = NoKey /\ \E n : Consume(n)
  BY DEF DocumentStart, DocumentEnd, AtMarker, At, CloseDocument
<1>2. CurrentIndent' = -1
  <2>1. indents[1].column = -1
    BY DEF Shape, WellFormed, Sentinel
  <2> QED
    BY <1>1, <2>1, PlacedTypes DEF CurrentIndent
<1> QED
  BY <1>1, <1>2, PlacedTypes, IndicatorPlaced

\* The key a `:` confirms in a block is of this line, at or left of the `:`.
LEMMA ConfirmedKey ==
    ASSUME Shape, KeysPlaced, Value
    PROVE  /\ phase = "dispatch"
           /\ ClearedKey.possible => ClearedKey = simpleKey /\ Live
           /\ ClearedKey.possible /\ ~InFlow =>
                 simpleKey.col <= col /\ CurrentIndent <= simpleKey.col
           /\ ~InFlow => CurrentIndent <= col
<1>1. phase = "dispatch" /\ \A i \in DOMAIN ValueFaults(ClearedKey) : ~ValueFaults(ClearedKey)[i].holds
  BY DEF Value, Content, At
<1>2. ~(ClearedKey.possible /\ ~InFlow /\ ClearedKey.line # line)
  <2> DEFINE key == ClearedKey
             late == key.possible /\ ~InFlow /\ key.line # line
             fault == [holds |-> late, kind |-> "invalidImplicitKey"]
  <2> HIDE DEF key
  <2>1. \E b, c, d, e, f : ValueFaults(key) = <<fault, b, c, d, e, f>>
    BY Zenon DEF ValueFaults
  <2>2. late => fault.holds
    OBVIOUS
  <2> HIDE DEF fault, late
  <2>3. 1 \in DOMAIN ValueFaults(key) /\ ValueFaults(key)[1] = fault
    BY <2>1
  <2>4. ~late
    BY <1>1, <2>2, <2>3 DEF key
  <2> QED
    BY <2>4 DEF late, key
<1>3. ClearedKey.possible => ClearedKey = simpleKey
  BY DEF ClearedKey, NoKey
<1>4. ClearedKey.possible => Live
  BY <1>1, <1>2, <1>3 DEF Live
<1>5. KeysBefore /\ KeyRightOfBlock /\ (~InFlow => CurrentIndent <= col)
  BY <1>1 DEF KeysPlaced, Running, Fresh, RightOfBlock
<1> QED
  BY <1>1, <1>2, <1>3, <1>4, <1>5, PlacedTypes
     DEF KeysBefore, KeyBefore, NotBefore, KeyRightOfBlock

LEMMA ValuePlaced ==
    ASSUME Shape, Shape', KeysPlaced, Value
    PROVE  KeysPlaced'
<1>1. /\ phase = "dispatch" /\ simpleKeyAllowed' /\ simpleKey' = NoKey
      /\ UNCHANGED <<flowVars, needIndentCheck>> /\ \E n : Consume(n)
  BY ConfirmedKey DEF Value
<1>2. IF InFlow THEN indents' = indents ELSE CurrentIndent' <= col
  <2>1. CASE OpensMapping(ClearedKey)
    <3>1. /\ indents' = Append(indents, [column |-> simpleKey.col, isSequence |-> FALSE])
          /\ ~InFlow /\ simpleKey.col <= col
      BY <2>1, ConfirmedKey DEF Value, PreparedIndents, OpensMapping
    <3>2. CurrentIndent' = simpleKey.col
      BY <3>1, PlacedTypes DEF CurrentIndent
    <3> QED
      BY <3>1, <3>2, PlacedTypes
  <2>2. CASE ~OpensMapping(ClearedKey)
    <3>1. indents' = indents \/ indents' = PushedIndents(FALSE)
      BY <2>2 DEF Value, PreparedIndents
    <3>2. indents' = indents => IF InFlow THEN indents' = indents ELSE CurrentIndent' <= col
      BY ConfirmedKey, PlacedTypes DEF CurrentIndent
    <3> QED
      BY <1>1, <3>1, <3>2, PushedRight
  <2> QED
    BY <2>1, <2>2
<1> QED
  BY <1>1, <1>2, IndicatorPlaced

\* A step that ends the scan, or does nothing.
Idle ==
    UNCHANGED tokens /\ (phase' \in ErrorKinds \/ UNCHANGED vars)

LEMMA StepActions ==
    ASSUME Shape, KeysPlaced, [Next]_vars
    PROVE  \/ Idle \/ AddsLeaf
           \/ \E l \in Lines, c \in Cols : Preprocess(l, c)
           \/ EndOfStream \/ DocumentStart \/ DocumentEnd
           \/ \E x \in Openers : FlowStart(x)
           \/ \E x \in Closers : FlowEnd(x)
           \/ BlockEntry \/ Key \/ Value
<1>1. ASSUME Failures PROVE Idle
  BY <1>1, FailuresFail DEF Fail, Idle
<1>2. CASE Preprocessing
  <2>1. ASSUME NEW l, NEW c, (\E x : BadDedent(l, c, x)) \/ TabInIndentation(l, c)
        PROVE  Idle
    BY <2>1 DEF BadDedent, TabInIndentation, Idle, ErrorKinds
  <2> QED
    BY <1>1, <1>2, <2>1 DEF Preprocessing, Failures
<1>3. CASE Structure
  BY <1>1, <1>3, DirectiveLeaf DEF Structure, Failures
<1>4. CASE Indicators
  BY <1>1, <1>4, FlowEntryLeaf DEF Indicators, Failures
<1>5. CASE Nodes
  <2>1. 0 \in 0..(MaxCol + 1)
    BY BoundsAssumption
  <2> QED
    BY <1>1, <1>5, <2>1, NodeLeaf, ScalarLeaf DEF Nodes, Failures
<1>6. CASE Terminating \/ UNCHANGED vars
  BY <1>6 DEF Terminating, Idle, vars
<1> QED
  BY <1>2, <1>3, <1>4, <1>5, <1>6 DEF Next

LEMMA IdlePlaced ==
    ASSUME KeysPlaced, Idle
    PROVE  KeysPlaced'
<1>1. CASE phase' \in ErrorKinds
  BY <1>1 DEF KeysPlaced, ErrorKinds, Running
<1>2. CASE UNCHANGED vars
  BY <1>2 DEF vars, flowVars, KeysPlaced, Due, Confined, Fresh, KeysBefore, KeyBefore,
              NotBefore, RightOfBlock, KeyRightOfBlock, Live, InFlow, Outer, CurrentIndent
<1> QED
  BY <1>1, <1>2 DEF Idle

LEMMA StepPlaced ==
    ASSUME Shape, Shape', KeysPlaced, [Next]_vars
    PROVE  KeysPlaced'
<1>1. EndOfStream => KeysPlaced'
  BY DEF EndOfStream, KeysPlaced, Running
<1> QED
  BY <1>1, StepActions, IdlePlaced, LeafPlaced, PreprocessPlaced, MarkerPlaced,
     FlowStartPlaced, FlowEndPlaced, BlockIndicatorPlaced, ValuePlaced

-----------------------------------------------------------------------------
(* The collections a sequence of tokens opens, token by token.             *)

LEMMA LeastNat ==
    ASSUME NEW S, S \subseteq Nat, S # {}
    PROVE  \E x \in S : \A y \in S : x <= y
<1>1. PICK x \in S : \A y \in S : ~(<<y, x>> \in OpToRel(<, Nat))
  BY WFMin, NatLessThanWellFounded
<1>2. \A y \in S : ~(y < x)
  BY <1>1 DEF OpToRel
<1> QED
  BY <1>2

\* R[i] is what the first i tokens of ts leave open.
IsRun(R, ts) ==
    /\ R = [i \in 0..Len(ts) |-> R[i]]
    /\ R[0] = <<>>
    /\ \A i \in 1..Len(ts) : R[i] = Bracket(R[i - 1], ts[i])

LEMMA OpenedIsRun ==
    ASSUME NEW ts, Len(ts) \in Nat, NEW R, IsRun(R, ts)
    PROVE  IsRun(Opened(ts), ts)
<1> DEFINE F(f) == [i \in 0..Len(ts) |-> IF i = 0 THEN <<>> ELSE Bracket(f[i - 1], ts[i])]
<1>1. Opened(ts) = CHOOSE f : f = F(f)
  BY DEF Opened
<1>2. R = F(R)
  BY DEF IsRun
<1>3. ASSUME NEW g, g = F(g)
      PROVE  IsRun(g, ts)
  <2>1. g[0] = <<>>
    BY <1>3
  <2>2. ASSUME NEW i \in 1..Len(ts) PROVE g[i] = Bracket(g[i - 1], ts[i])
    BY <1>3
  <2>3. g = [i \in 0..Len(ts) |-> g[i]]
    BY <1>3
  <2> QED
    BY <2>1, <2>2, <2>3 DEF IsRun
<1> HIDE DEF F
<1>4. Opened(ts) = F(Opened(ts))
  BY <1>1, <1>2
<1> QED
  BY <1>3, <1>4

\* A run goes on with the next token.
LEMMA RunGoesOn ==
    ASSUME NEW ts \in Seq(Tokens), NEW t \in Tokens, NEW R, IsRun(R, ts)
    PROVE  \E Q : IsRun(Q, Append(ts, t))
<1> DEFINE n == Len(ts)
           us == Append(ts, t)
           Q == [i \in 0..(n + 1) |-> IF i <= n THEN R[i] ELSE Bracket(R[n], t)]
<1>1. n \in Nat /\ Len(us) = n + 1 /\ us[n + 1] = t /\ \A i \in 1..n : us[i] = ts[i]
  OBVIOUS
<1>2. R[0] = <<>> /\ \A i \in 1..n : R[i] = Bracket(R[i - 1], ts[i])
  BY DEF IsRun
<1>3. \A i \in 0..n : Q[i] = R[i]
  BY <1>1
<1>4. Q[n + 1] = Bracket(R[n], t)
  BY <1>1
<1>5. Q = [i \in 0..(n + 1) |-> Q[i]]
  OBVIOUS
<1> HIDE DEF Q, us, n
<1>6. ASSUME NEW i \in 1..(n + 1) PROVE Q[i] = Bracket(Q[i - 1], us[i])
  <2>1. CASE i = n + 1
    <3>1. i - 1 = n /\ n \in 0..n
      BY <1>1, <2>1
    <3> QED
      BY <1>1, <1>3, <1>4, <2>1, <3>1
  <2>2. CASE i # n + 1
    <3>1. i \in 1..n /\ i \in 0..n /\ i - 1 \in 0..n
      BY <1>1, <2>2
    <3> QED
      BY <1>1, <1>2, <1>3, <3>1
  <2> QED
    BY <2>1, <2>2
<1>7. Q[0] = <<>>
  BY <1>1, <1>2, <1>3
<1>8. IsRun(Q, us)
  BY <1>1, <1>5, <1>6, <1>7 DEF IsRun
<1> QED
  BY <1>8 DEF us

LEMMA RunExists ==
    ASSUME NEW ts \in Seq(Tokens)
    PROVE  \E R : IsRun(R, ts)
<1> DEFINE S == {n \in Nat : \E us \in Seq(Tokens) : Len(us) = n /\ ~\E R : IsRun(R, us)}
<1>1. ASSUME S # {} PROVE FALSE
  <2>1. PICK n \in S : \A m \in S : n <= m
    BY <1>1, LeastNat
  <2>2. PICK us \in Seq(Tokens) : Len(us) = n /\ ~\E R : IsRun(R, us)
    BY <2>1
  <2>3. n # 0
    <3>1. ASSUME n = 0 PROVE IsRun([i \in 0..0 |-> <<>>], us)
      BY <2>2, <3>1 DEF IsRun
    <3> QED
      BY <2>2, <3>1
  <2> DEFINE vs == SubSeq(us, 1, n - 1)
             t == us[n]
  <2>4. n - 1 \in Nat /\ n - 1 < n /\ n - 1 \in 0..n /\ n \in 1..n
    BY <2>1, <2>3
  <2>5. vs \in Seq(Tokens) /\ Len(vs) = n - 1 /\ t \in Tokens
        /\ \A i \in 1..(n - 1) : vs[i] = us[i]
    BY <2>2, <2>4
  <2> HIDE DEF vs
  <2>6. us = Append(vs, t)
    BY <2>2, <2>4, <2>5
  <2>7. n - 1 \notin S
    BY <2>1, <2>4
  <2>8. PICK R : IsRun(R, vs)
    BY <2>4, <2>5, <2>7
  <2> HIDE DEF t
  <2> QED
    BY <2>2, <2>5, <2>6, <2>8, RunGoesOn
<1>2. Len(ts) \in Nat
  OBVIOUS
<1> QED
  BY <1>1, <1>2

LEMMA OpenedRun ==
    ASSUME NEW ts \in Seq(Tokens)
    PROVE  /\ Len(ts) \in Nat
           /\ Opened(ts)[0] = <<>>
           /\ \A i \in 1..Len(ts) : Opened(ts)[i] = Bracket(Opened(ts)[i - 1], ts[i])
<1>1. Len(ts) \in Nat
  OBVIOUS
<1>2. IsRun(Opened(ts), ts)
  BY <1>1, RunExists, OpenedIsRun
<1> QED
  BY <1>1, <1>2 DEF IsRun

\* Sequences with a common beginning open the same there; so does any function
\* that goes by the same steps.
LEMMA OpenedIs ==
    ASSUME NEW ts \in Seq(Tokens), NEW m \in 0..Len(ts), NEW R, R[0] = <<>>,
           \A i \in 1..m : R[i] = Bracket(R[i - 1], ts[i])
    PROVE  \A i \in 0..m : Opened(ts)[i] = R[i]
<1> DEFINE S == {i \in 0..m : Opened(ts)[i] # R[i]}
<1>1. ASSUME S # {} PROVE FALSE
  <2>1. S \subseteq Nat
    OBVIOUS
  <2>2. PICK n \in S : \A k \in S : n <= k
    BY <1>1, <2>1, LeastNat
  <2>3. n # 0
    BY <2>2, OpenedRun
  <2>4. n \in 1..m /\ n \in 1..Len(ts) /\ n - 1 \in 0..m /\ n - 1 < n
    BY <2>2, <2>3, OpenedRun
  <2>5. Opened(ts)[n - 1] = R[n - 1]
    BY <2>2, <2>4
  <2>6. Opened(ts)[n] = R[n]
    BY <2>4, <2>5, OpenedRun
  <2> QED
    BY <2>2, <2>6
<1> QED
  BY <1>1

LEMMA OpenedAgree ==
    ASSUME NEW ts \in Seq(Tokens), NEW us \in Seq(Tokens), NEW m \in Nat,
           m <= Len(ts), m <= Len(us), \A i \in 1..m : us[i] = ts[i]
    PROVE  \A i \in 0..m : Opened(us)[i] = Opened(ts)[i]
<1>1. /\ Opened(ts)[0] = <<>>
      /\ \A i \in 1..m : Opened(ts)[i] = Bracket(Opened(ts)[i - 1], us[i])
  BY OpenedRun
<1>2. m \in 0..Len(us)
  BY OpenedRun
<1> QED
  BY <1>1, <1>2, OpenedIs

-----------------------------------------------------------------------------
(* What appending tokens does to the open collections.                     *)

Starts == BlockStarts \cup FlowStarts

\* Open collections, each the token that opened it: nothing closed too much.
Stack(s) == s \in Seq(Tokens) /\ \A i \in 1..Len(s) : s[i].val \in Starts
Stacked(ts) == \A i \in 0..Len(ts) : Stack(Opened(ts)[i])

LEMMA SameSequence ==
    ASSUME NEW s \in Seq(Tokens), NEW u \in Seq(Tokens), Len(s) = Len(u),
           \A i \in 1..Len(s) : s[i] = u[i]
    PROVE  s = u
OBVIOUS

LEMMA Beginning ==
    ASSUME NEW s \in Seq(Tokens), NEW k \in 0..Len(s)
    PROVE  /\ SubSeq(s, 1, k) \in Seq(Tokens) /\ Len(SubSeq(s, 1, k)) = k
           /\ \A m \in 1..k : SubSeq(s, 1, k)[m] = s[m] /\ m \in 1..Len(s)
OBVIOUS

LEMMA TokenClasses ==
    ASSUME NEW t \in Tokens
    PROVE  /\ t.val \in Starts \cup Leaves \cup Entries \cup {"blockEnd"} \cup FlowEnds
           /\ t.val \in Starts => t.val \notin Leaves \cup Entries \cup {"blockEnd"} \cup FlowEnds
           /\ t.val \in Leaves \cup Entries => t.val \notin {"blockEnd"} \cup FlowEnds
BY DEF Tokens, Leaves, Entries, Starts, BlockStarts, FlowStarts, FlowEnds

LEMMA BracketOpens ==
    ASSUME NEW s, NEW t, t.val \in Starts
    PROVE  Bracket(s, t) = Append(s, t)
BY DEF Bracket, Starts, BlockStarts, FlowStarts, FlowEnds

LEMMA BracketLeaves ==
    ASSUME NEW s, NEW t, t.val \in Leaves \cup Entries
    PROVE  Bracket(s, t) = s
BY DEF Bracket, Leaves, Entries, BlockStarts, FlowStarts, FlowEnds

LEMMA BracketEnds ==
    ASSUME NEW s \in Seq(Tokens), NEW t, t.val = "blockEnd"
    PROVE  Bracket(s, t) = IF s # <<>> /\ s[Len(s)].val \in BlockStarts
                           THEN SubSeq(s, 1, Len(s) - 1) ELSE Append(s, t)
BY DEF Bracket, BlockStarts, FlowStarts, FlowEnds

LEMMA BracketFlowEnds ==
    ASSUME NEW s \in Seq(Tokens), NEW t, t.val \in FlowEnds
    PROVE  Bracket(s, t) = IF s # <<>> /\ s[Len(s)].val \in FlowStarts
                           THEN SubSeq(s, 1, Len(s) - 1) ELSE Append(s, t)
BY DEF Bracket, BlockStarts, FlowStarts, FlowEnds

\* us is ts with more tokens, none of which closes below depth e.
Above(ts, us, e) ==
    /\ Len(ts) <= Len(us)
    /\ \A i \in 1..Len(ts) : us[i] = ts[i]
    /\ \A i \in 0..Len(ts) : Opened(us)[i] = Opened(ts)[i]
    /\ \A i \in Len(ts)..Len(us) :
          /\ Stack(Opened(us)[i]) /\ e <= Len(Opened(us)[i])
          /\ \A m \in 1..e : Opened(us)[i][m] = Unclosed(ts)[m]

LEMMA AboveItself ==
    ASSUME NEW ts \in Seq(Tokens), NEW e \in Nat, Stacked(ts), e <= Len(Unclosed(ts))
    PROVE  Above(ts, ts, e)
BY OpenedRun DEF Above, Stacked, Unclosed

LEMMA AboveOn ==
    ASSUME NEW ts \in Seq(Tokens), NEW us \in Seq(Tokens), NEW vs \in Seq(Tokens),
           NEW e \in Nat, Above(ts, us, e), Above(us, vs, e)
    PROVE  Above(ts, vs, e)
<1>1. Len(ts) \in Nat /\ Len(us) \in Nat /\ Len(vs) \in Nat /\ Len(ts) <= Len(us) /\ Len(us) <= Len(vs)
  BY DEF Above
<1>2. \A i \in 1..Len(ts) : vs[i] = ts[i]
  BY <1>1 DEF Above
<1>3. \A i \in 0..Len(ts) : Opened(vs)[i] = Opened(ts)[i]
  BY <1>1 DEF Above
<1>4. ASSUME NEW i \in Len(ts)..Len(vs)
      PROVE  /\ Stack(Opened(vs)[i]) /\ e <= Len(Opened(vs)[i])
             /\ \A m \in 1..e : Opened(vs)[i][m] = Unclosed(ts)[m]
  <2>1. CASE i <= Len(us)
    <3>1. i \in Len(ts)..Len(us) /\ i \in 0..Len(us)
      BY <1>1, <2>1
    <3> QED
      BY <3>1 DEF Above
  <2>2. CASE ~(i <= Len(us))
    <3>1. i \in Len(us)..Len(vs) /\ Len(us) \in Len(ts)..Len(us)
      BY <1>1, <2>2
    <3>2. \A m \in 1..e : Unclosed(us)[m] = Unclosed(ts)[m]
      BY <3>1 DEF Above, Unclosed
    <3> QED
      BY <3>1, <3>2 DEF Above
  <2> QED
    BY <2>1, <2>2
<1> QED
  BY <1>1, <1>2, <1>3, <1>4 DEF Above

LEMMA AboveLower ==
    ASSUME NEW ts \in Seq(Tokens), NEW us \in Seq(Tokens), NEW e \in Nat, NEW f \in Nat,
           Above(ts, us, e), f <= e
    PROVE  Above(ts, us, f)
<1>1. ASSUME NEW i \in Len(ts)..Len(us)
      PROVE  /\ Stack(Opened(us)[i]) /\ f <= Len(Opened(us)[i])
             /\ \A m \in 1..f : Opened(us)[i][m] = Unclosed(ts)[m]
  <2>1. Stack(Opened(us)[i]) /\ e <= Len(Opened(us)[i]) /\ Len(Opened(us)[i]) \in Nat
    BY DEF Above, Stack
  <2>2. \A m \in 1..f : m \in 1..e
    OBVIOUS
  <2> QED
    BY <2>1, <2>2 DEF Above
<1> QED
  BY <1>1 DEF Above

LEMMA AboveStacked ==
    ASSUME NEW ts \in Seq(Tokens), NEW us \in Seq(Tokens), NEW e, Above(ts, us, e),
           Stacked(ts)
    PROVE  Stacked(us)
<1>1. Len(ts) \in Nat /\ Len(us) \in Nat /\ Len(ts) <= Len(us)
  BY DEF Above
<1>2. ASSUME NEW i \in 0..Len(us) PROVE Stack(Opened(us)[i])
  <2>1. i \in 0..Len(ts) \/ i \in Len(ts)..Len(us)
    BY <1>1
  <2> QED
    BY <2>1 DEF Above, Stacked
<1> QED
  BY <1>2 DEF Stacked

LEMMA Appended ==
    ASSUME NEW ts \in Seq(Tokens), NEW t \in Tokens
    PROVE  LET us == Append(ts, t) IN
           /\ us \in Seq(Tokens) /\ Len(us) = Len(ts) + 1 /\ us[Len(us)] = t
           /\ \A i \in 1..Len(ts) : us[i] = ts[i]
           /\ \A i \in 0..Len(ts) : Opened(us)[i] = Opened(ts)[i]
           /\ Unclosed(us) = Bracket(Unclosed(ts), t)
<1> DEFINE us == Append(ts, t)
<1>1. /\ us \in Seq(Tokens) /\ Len(us) = Len(ts) + 1 /\ us[Len(us)] = t
      /\ \A i \in 1..Len(ts) : us[i] = ts[i]
      /\ Len(ts) \in Nat /\ Len(ts) <= Len(us)
  OBVIOUS
<1> HIDE DEF us
<1>2. \A i \in 0..Len(ts) : Opened(us)[i] = Opened(ts)[i]
  <2> DEFINE n == Len(ts)
  <2>1. n \in Nat /\ n <= Len(ts) /\ n <= Len(us) /\ \A i \in 1..n : us[i] = ts[i]
    BY <1>1
  <2> HIDE DEF n
  <2>2. \A i \in 0..n : Opened(us)[i] = Opened(ts)[i]
    BY <1>1, <2>1, OpenedAgree
  <2> QED
    BY <2>2 DEF n
<1>3. /\ Len(us) \in 1..Len(us) /\ Len(us) - 1 = Len(ts) /\ Len(ts) \in 0..Len(ts)
  BY <1>1, OpenedRun
<1>4. Unclosed(us) = Bracket(Unclosed(ts), t)
  BY <1>1, <1>2, <1>3, OpenedRun DEF Unclosed
<1> QED
  BY <1>1, <1>2, <1>4 DEF us

LEMMA LastStack ==
    ASSUME NEW ts \in Seq(Tokens), Stacked(ts)
    PROVE  /\ Stack(Unclosed(ts)) /\ Unclosed(ts) \in Seq(Tokens)
           /\ Len(Unclosed(ts)) \in Nat
BY OpenedRun DEF Stacked, Unclosed, Stack

\* One more token, whose effect is to leave s open.
LEMMA AppendsOne ==
    ASSUME NEW ts \in Seq(Tokens), Stacked(ts), NEW t \in Tokens,
           NEW e \in Nat, e <= Len(Unclosed(ts)),
           LET s == Bracket(Unclosed(ts), t)
           IN  Stack(s) /\ e <= Len(s) /\ \A m \in 1..e : s[m] = Unclosed(ts)[m]
    PROVE  Above(ts, Append(ts, t), e)
<1> DEFINE us == Append(ts, t)
<1>1. /\ us \in Seq(Tokens) /\ Len(us) = Len(ts) + 1 /\ Len(ts) \in Nat
      /\ \A i \in 1..Len(ts) : us[i] = ts[i]
      /\ \A i \in 0..Len(ts) : Opened(us)[i] = Opened(ts)[i]
      /\ Unclosed(us) = Bracket(Unclosed(ts), t)
  BY Appended, OpenedRun
<1> HIDE DEF us
<1>2. ASSUME NEW i \in Len(ts)..Len(us)
      PROVE  /\ Stack(Opened(us)[i]) /\ e <= Len(Opened(us)[i])
             /\ \A m \in 1..e : Opened(us)[i][m] = Unclosed(ts)[m]
  <2>1. CASE i = Len(ts)
    <3>1. Opened(us)[i] = Unclosed(ts)
      BY <1>1, <2>1 DEF Unclosed
    <3> QED
      BY <3>1, LastStack
  <2>2. CASE i # Len(ts)
    <3>1. Opened(us)[i] = Unclosed(us)
      BY <1>1, <2>2 DEF Unclosed
    <3> QED
      BY <1>1, <3>1
  <2> QED
    BY <2>1, <2>2
<1>3. Above(ts, us, e)
  BY <1>1, <1>2 DEF Above
<1> QED
  BY <1>3 DEF us

\* A token that neither opens nor closes.
LEMMA AppendsLeaf ==
    ASSUME NEW ts \in Seq(Tokens), Stacked(ts), NEW t \in Tokens,
           t.val \in Leaves \cup Entries
    PROVE  /\ Append(ts, t) \in Seq(Tokens) /\ Unclosed(Append(ts, t)) = Unclosed(ts)
           /\ Above(ts, Append(ts, t), Len(Unclosed(ts)))
BY LastStack, BracketLeaves, Appended, AppendsOne

LEMMA AppendsStart ==
    ASSUME NEW ts \in Seq(Tokens), Stacked(ts), NEW t \in Tokens, t.val \in Starts
    PROVE  /\ Append(ts, t) \in Seq(Tokens)
           /\ Unclosed(Append(ts, t)) = Append(Unclosed(ts), t)
           /\ Above(ts, Append(ts, t), Len(Unclosed(ts)))
<1> DEFINE s == Unclosed(ts)
           u == Append(s, t)
<1>1. s \in Seq(Tokens) /\ Len(s) \in Nat /\ Stack(s)
  BY LastStack
<1> HIDE DEF s
<1>2. /\ u \in Seq(Tokens) /\ Len(u) = Len(s) + 1 /\ u[Len(s) + 1] = t
      /\ \A m \in 1..Len(s) : u[m] = s[m]
  BY <1>1
<1>3. Stack(u)
  <2>1. ASSUME NEW i \in 1..Len(u) PROVE u[i].val \in Starts
    <3>1. i \in 1..Len(s) \/ i = Len(s) + 1
      BY <1>1, <1>2
    <3> QED
      BY <1>1, <1>2, <3>1 DEF Stack
  <2> QED
    BY <1>2, <2>1 DEF Stack
<1>4. Bracket(s, t) = u
  BY BracketOpens
<1> HIDE DEF u
<1>5. Above(ts, Append(ts, t), Len(s))
  BY <1>1, <1>2, <1>3, <1>4, AppendsOne, SMTT(30) DEF s
<1> QED
  BY <1>4, <1>5, Appended DEF s, u

\* A token that closes the innermost collection.
LEMMA AppendsEnd ==
    ASSUME NEW ts \in Seq(Tokens), Stacked(ts), NEW t \in Tokens,
           Len(Unclosed(ts)) >= 1,
           \/ t.val = "blockEnd" /\ Unclosed(ts)[Len(Unclosed(ts))].val \in BlockStarts
           \/ t.val \in FlowEnds /\ Unclosed(ts)[Len(Unclosed(ts))].val \in FlowStarts
    PROVE  /\ Append(ts, t) \in Seq(Tokens)
           /\ Unclosed(Append(ts, t)) = SubSeq(Unclosed(ts), 1, Len(Unclosed(ts)) - 1)
           /\ Above(ts, Append(ts, t), Len(Unclosed(ts)) - 1)
<1> DEFINE s == Unclosed(ts)
           n == Len(s)
           u == SubSeq(s, 1, n - 1)
<1>1. s \in Seq(Tokens) /\ n \in Nat /\ n >= 1 /\ Stack(s)
      /\ n - 1 \in Nat /\ n - 1 <= n /\ n - 1 \in 0..n
  BY LastStack
<1>2. Bracket(s, t) = u
  BY <1>1, BracketEnds, BracketFlowEnds
<1> HIDE DEF s
<1>3. /\ u \in Seq(Tokens) /\ Len(u) = n - 1 /\ \A m \in 1..(n - 1) : u[m] = s[m]
      /\ \A m \in 1..(n - 1) : m \in 1..n
  BY <1>1, Beginning
<1>4. Stack(u)
  BY <1>1, <1>3 DEF Stack
<1> HIDE DEF u
<1>5. Above(ts, Append(ts, t), n - 1)
  <2> DEFINE e == n - 1
  <2>1. e \in Nat /\ e <= n /\ e <= Len(u) /\ \A m \in 1..e : u[m] = s[m]
    BY <1>1, <1>3
  <2> HIDE DEF e
  <2>2. Above(ts, Append(ts, t), e)
    BY <1>2, <1>4, <2>1, AppendsOne DEF s, n
  <2> QED
    BY <2>2 DEF e
<1> QED
  BY <1>2, <1>5, Appended DEF s, u, n

LEMMA Shorter ==
    ASSUME NEW s \in Seq(Tokens), NEW a \in 1..Len(s)
    PROVE  /\ SubSeq(s, 1, a) # <<>> /\ SubSeq(s, 1, a)[Len(SubSeq(s, 1, a))] = s[a]
           /\ SubSeq(SubSeq(s, 1, a), 1, Len(SubSeq(s, 1, a)) - 1) = SubSeq(s, 1, a - 1)
<1> DEFINE u == SubSeq(s, 1, a)
           v == SubSeq(u, 1, a - 1)
           w == SubSeq(s, 1, a - 1)
<1>1. a \in Nat /\ a >= 1 /\ a \in 0..Len(s) /\ a - 1 \in 0..Len(s) /\ a \in 1..a /\ Len(s) \in Nat
  OBVIOUS
<1>2. u \in Seq(Tokens) /\ Len(u) = a /\ \A m \in 1..a : u[m] = s[m]
  BY <1>1, Beginning
<1>3. w \in Seq(Tokens) /\ Len(w) = a - 1 /\ \A m \in 1..(a - 1) : w[m] = s[m]
  BY <1>1, Beginning
<1> HIDE DEF u, w
<1>4. v \in Seq(Tokens) /\ Len(v) = a - 1 /\ \A m \in 1..(a - 1) : v[m] = u[m]
  <2>1. a - 1 \in 0..Len(u)
    BY <1>1, <1>2
  <2> QED
    BY <1>2, <2>1, Beginning
<1> HIDE DEF v
<1>5. \A m \in 1..(a - 1) : m \in 1..a
  BY <1>1
<1>6. v = w
  BY <1>2, <1>3, <1>4, <1>5, SameSequence
<1>7. u # <<>> /\ u[Len(u)] = s[a] /\ SubSeq(u, 1, Len(u) - 1) = w
  BY <1>1, <1>2, <1>6 DEF v
<1> QED
  BY <1>7 DEF u, w

\* Ends of blocks close the innermost blocks.
LEMMA AppendsBlockEnds ==
    ASSUME NEW ts \in Seq(Tokens), Stacked(ts), NEW vs \in Seq(Tokens),
           Len(vs) <= Len(Unclosed(ts)),
           \A i \in 1..Len(vs) : vs[i].val = "blockEnd",
           \A m \in (Len(Unclosed(ts)) - Len(vs) + 1)..Len(Unclosed(ts)) :
              Unclosed(ts)[m].val \in BlockStarts
    PROVE  /\ ts \o vs \in Seq(Tokens)
           /\ Unclosed(ts \o vs) = SubSeq(Unclosed(ts), 1, Len(Unclosed(ts)) - Len(vs))
           /\ Above(ts, ts \o vs, Len(Unclosed(ts)) - Len(vs))
<1> DEFINE u == Unclosed(ts)
           q == Len(u)
           n == Len(ts)
           v == Len(vs)
           us == ts \o vs
           R == [i \in 0..(n + v) |-> IF i <= n THEN Opened(ts)[i] ELSE SubSeq(u, 1, q - (i - n))]
<1>1. /\ u \in Seq(Tokens) /\ q \in Nat /\ n \in Nat /\ v \in Nat /\ v <= q /\ Stack(u)
      /\ us \in Seq(Tokens) /\ Len(us) = n + v /\ n <= n + v
      /\ u = Opened(ts)[n]
  BY LastStack, OpenedRun DEF Unclosed
<1>2. /\ \A i \in 1..n : us[i] = ts[i]
      /\ \A i \in 1..v : us[n + i] = vs[i]
  OBVIOUS
<1>3. \A m \in (q - v + 1)..q : u[m].val \in BlockStarts
  OBVIOUS
<1>4. \A i \in 0..n : R[i] = Opened(ts)[i]
  BY <1>1
<1>5. \A i \in 0..v : R[n + i] = SubSeq(u, 1, q - i)
  <2>1. R[n + 0] = SubSeq(u, 1, q - 0)
    <3>1. n + 0 = n /\ q - 0 = q /\ n \in 0..n
      BY <1>1
    <3>2. SubSeq(u, 1, q) = u
      BY <1>1, Beginning, SameSequence
    <3> QED
      BY <1>1, <1>4, <3>1, <3>2
  <2>2. ASSUME NEW i \in 1..v PROVE R[n + i] = SubSeq(u, 1, q - i)
    <3>1. n + i \in 0..(n + v) /\ ~(n + i <= n) /\ (n + i) - n = i
      BY <1>1
    <3> QED
      BY <3>1
  <2>3. \A i \in 0..v : i = 0 \/ i \in 1..v
    BY <1>1
  <2> QED
    BY <2>1, <2>2, <2>3
<1> HIDE DEF R, u, q, n, v, us
<1>6. ASSUME NEW i \in 1..(n + v) PROVE R[i] = Bracket(R[i - 1], us[i])
  <2>1. CASE i <= n
    <3>1. i \in 1..n /\ i \in 0..n /\ i - 1 \in 0..n
      BY <1>1, <2>1
    <3> QED
      BY <1>2, <1>4, <3>1, OpenedRun DEF n
  <2>2. CASE ~(i <= n)
    <3>1. PICK j \in 1..v : i = n + j
      <4>1. i - n \in 1..v /\ i = n + (i - n)
        BY <1>1, <2>2
      <4> QED
        BY <4>1
    <3> DEFINE a == q - (j - 1)
    <3>2. /\ j - 1 \in 0..v /\ i - 1 = n + (j - 1) /\ j \in 0..v
          /\ a \in 1..q /\ a \in (q - v + 1)..q /\ a - 1 = q - j
      BY <1>1, <3>1
    <3>3. R[i - 1] = SubSeq(u, 1, a) /\ R[i] = SubSeq(u, 1, a - 1)
      BY <1>5, <3>1, <3>2
    <3>4. us[i].val = "blockEnd"
      BY <1>2, <3>1 DEF v
    <3>5. u[a].val \in BlockStarts
      BY <1>3, <3>2
    <3> HIDE DEF a
    <3>6. SubSeq(u, 1, a) \in Seq(Tokens)
      <4>1. a \in 0..Len(u)
        BY <1>1, <3>2 DEF q
      <4> QED
        BY <1>1, <4>1, Beginning
    <3>7. Bracket(SubSeq(u, 1, a), us[i]) = SubSeq(u, 1, a - 1)
      <4> DEFINE x == SubSeq(u, 1, a)
      <4>1. x # <<>> /\ x[Len(x)] = u[a] /\ SubSeq(x, 1, Len(x) - 1) = SubSeq(u, 1, a - 1)
        BY <1>1, <3>2, Shorter DEF q
      <4>2. x \in Seq(Tokens)
        BY <3>6
      <4> HIDE DEF x
      <4>3. Bracket(x, us[i]) = SubSeq(u, 1, a - 1)
        BY <3>4, <3>5, <4>1, <4>2, BracketEnds
      <4> QED
        BY <4>3 DEF x
    <3> QED
      BY <3>3, <3>7
  <2> QED
    BY <2>1, <2>2
<1>7. \A i \in 0..(n + v) : Opened(us)[i] = R[i]
  <2>1. R[0] = <<>>
    <3>1. Opened(ts)[0] = <<>>
      BY OpenedRun
    <3>2. 0 \in 0..n
      BY <1>1
    <3> QED
      BY <1>4, <3>1, <3>2
  <2>2. n + v \in 0..Len(us)
    BY <1>1
  <2> QED
    BY <1>1, <1>6, <2>1, <2>2, OpenedIs, ZenonT(30)
<1>8. Unclosed(us) = SubSeq(u, 1, q - v)
  <2>1. v \in 0..v /\ n + v \in 0..(n + v)
    BY <1>1
  <2>2. Opened(us)[n + v] = SubSeq(u, 1, q - v)
    BY <1>5, <1>7, <2>1
  <2> QED
    BY <1>1, <2>2 DEF Unclosed
<1>9. ASSUME NEW i \in n..(n + v)
      PROVE  /\ Stack(Opened(us)[i]) /\ q - v <= Len(Opened(us)[i])
             /\ \A m \in 1..(q - v) : Opened(us)[i][m] = u[m]
  <2>1. PICK j \in 0..v : i = n + j
    <3>1. i - n \in 0..v /\ i = n + (i - n)
      BY <1>1
    <3> QED
      BY <3>1
  <2> DEFINE s == SubSeq(u, 1, q - j)
  <2>2. q - j \in 0..q /\ q - v <= q - j /\ \A m \in 1..(q - v) : m \in 1..(q - j)
    BY <1>1, SMTT(30)
  <2>3. s \in Seq(Tokens) /\ Len(s) = q - j
        /\ \A m \in 1..(q - j) : s[m] = u[m] /\ m \in 1..q
    BY <1>1, <2>2, Beginning DEF q
  <2>4. Opened(us)[i] = s
    <3>1. i \in 0..(n + v)
      BY <1>1
    <3> QED
      BY <1>5, <1>7, <2>1, <3>1
  <2> HIDE DEF s
  <2>5. Stack(s)
    BY <1>1, <2>3 DEF Stack, q
  <2> QED
    BY <2>2, <2>3, <2>4, <2>5
<1>10. Above(ts, us, q - v)
  <2>1. \A i \in 0..n : Opened(us)[i] = Opened(ts)[i]
    BY <1>1, <1>4, <1>7
  <2> QED
    BY <1>1, <1>2, <1>9, <2>1 DEF Above, n, u
<1> QED
  BY <1>1, <1>8, <1>10 DEF u, q, v, us

-----------------------------------------------------------------------------
(* The tokens from the slots of a key on.                                  *)

\* At p the depth is d, and from there on nothing below it was closed.
Spans(ts, p, d) ==
    /\ Len(Opened(ts)[p - 1]) = d
    /\ \A i \in p..Len(ts) : d <= Len(Opened(ts)[i])
    /\ \A m \in 1..d : Opened(ts)[p - 1][m] = Unclosed(ts)[m]

LEMMA SpansOn ==
    ASSUME NEW ts \in Seq(Tokens), NEW us \in Seq(Tokens), NEW e \in Nat, Above(ts, us, e),
           NEW p \in 1..Len(ts), NEW d \in Nat, d <= e, Spans(ts, p, d)
    PROVE  Spans(us, p, d)
<1>1. /\ Len(ts) \in Nat /\ Len(us) \in Nat /\ Len(ts) <= Len(us) /\ p - 1 \in 0..Len(ts)
      /\ Len(us) \in Len(ts)..Len(us) /\ Opened(us)[p - 1] = Opened(ts)[p - 1]
  BY DEF Above
<1>2. \A m \in 1..d : Opened(us)[p - 1][m] = Unclosed(us)[m]
  <2>1. \A m \in 1..d : m \in 1..e
    OBVIOUS
  <2>2. \A m \in 1..e : Unclosed(us)[m] = Unclosed(ts)[m]
    BY <1>1 DEF Above, Unclosed
  <2> QED
    BY <1>1, <2>1, <2>2 DEF Spans
<1>3. ASSUME NEW i \in p..Len(us) PROVE d <= Len(Opened(us)[i])
  <2>1. CASE i <= Len(ts)
    <3>1. i \in p..Len(ts) /\ i \in 0..Len(ts)
      BY <1>1, <2>1
    <3> QED
      BY <3>1 DEF Spans, Above
  <2>2. CASE ~(i <= Len(ts))
    <3>1. i \in Len(ts)..Len(us)
      BY <1>1, <2>2
    <3>2. e <= Len(Opened(us)[i]) /\ Len(Opened(us)[i]) \in Nat
      BY <3>1 DEF Above, Stack
    <3> QED
      BY <3>2
  <2> QED
    BY <2>1, <2>2
<1> QED
  BY <1>1, <1>2, <1>3 DEF Spans

\* The collection b opened around what is above depth d.
Wrapped(s, d, b) ==
    [m \in 1..(Len(s) + 1) |-> IF m <= d THEN s[m] ELSE IF m = d + 1 THEN b ELSE s[m - 1]]

LEMMA WrappedType ==
    ASSUME NEW s, Stack(s), NEW d \in 0..Len(s), NEW b \in Tokens, b.val \in Starts
    PROVE  /\ Stack(Wrapped(s, d, b)) /\ Wrapped(s, d, b) \in Seq(Tokens)
           /\ Len(Wrapped(s, d, b)) = Len(s) + 1
           /\ \A m \in 1..d : Wrapped(s, d, b)[m] = s[m]
           /\ Wrapped(s, d, b)[d + 1] = b
           /\ \A m \in (d + 1)..Len(s) : Wrapped(s, d, b)[m + 1] = s[m]
<1> DEFINE w == Wrapped(s, d, b)
           n == Len(s)
<1>1. s \in Seq(Tokens) /\ n \in Nat /\ d \in Nat /\ d <= n
      /\ \A m \in 1..n : s[m] \in Tokens /\ s[m].val \in Starts
  BY DEF Stack
<1> HIDE DEF n
<1>2. \A m \in 1..(n + 1) : w[m] = IF m <= d THEN s[m] ELSE IF m = d + 1 THEN b ELSE s[m - 1]
  BY DEF Wrapped, n
<1>3. \A m \in 1..d : m \in 1..(n + 1) /\ m <= d
  BY <1>1
<1>4. d + 1 \in 1..(n + 1) /\ ~(d + 1 <= d)
  BY <1>1
<1>5. \A m \in (d + 1)..n : /\ m + 1 \in 1..(n + 1) /\ ~(m + 1 <= d) /\ m + 1 # d + 1
                            /\ (m + 1) - 1 = m
  BY <1>1
<1>6. \A m \in 1..d : w[m] = s[m]
  BY <1>2, <1>3
<1>7. w[d + 1] = b
  BY <1>2, <1>4
<1>8. \A m \in (d + 1)..n : w[m + 1] = s[m]
  BY <1>2, <1>5
<1>9. ASSUME NEW m \in 1..(n + 1)
      PROVE  w[m] \in Tokens /\ w[m].val \in Starts
  <2>1. m \in 1..d \/ m = d + 1 \/ (m - 1 \in (d + 1)..n /\ m = (m - 1) + 1)
    BY <1>1
  <2>2. (\A k \in 1..d : k \in 1..n) /\ (\A k \in (d + 1)..n : k \in 1..n)
    BY <1>1
  <2> QED
    BY <1>1, <1>6, <1>7, <1>8, <2>1, <2>2
<1>10. w \in [1..(n + 1) -> Tokens]
  <2>1. w = [m \in 1..(n + 1) |-> w[m]]
    BY DEF Wrapped, n
  <2> HIDE DEF w
  <2> QED
    BY <1>9, <2>1
<1> HIDE DEF w
<1>11. w \in Seq(Tokens) /\ Len(w) = n + 1
  BY <1>1, <1>10
<1>12. Stack(w)
  BY <1>9, <1>11 DEF Stack
<1> QED
  BY <1>6, <1>7, <1>8, <1>11, <1>12 DEF w, n

\* Two stacks that are wrapped alike.
IsWrap(u, s, d, b) ==
    /\ u \in Seq(Tokens) /\ Len(u) = Len(s) + 1 /\ u[d + 1] = b
    /\ \A m \in 1..d : u[m] = s[m]
    /\ \A m \in (d + 1)..Len(s) : u[m + 1] = s[m]

LEMMA IsWrapped ==
    ASSUME NEW s, Stack(s), NEW d \in 0..Len(s), NEW b \in Tokens, b.val \in Starts,
           NEW u, IsWrap(u, s, d, b)
    PROVE  u = Wrapped(s, d, b)
<1> DEFINE w == Wrapped(s, d, b)
           n == Len(s)
<1>1. /\ w \in Seq(Tokens) /\ Len(w) = n + 1
      /\ \A m \in 1..d : w[m] = s[m]
      /\ w[d + 1] = b
      /\ \A m \in (d + 1)..n : w[m + 1] = s[m]
      /\ n \in Nat /\ d \in Nat /\ d <= n
  BY WrappedType DEF Stack
<1>w. /\ u \in Seq(Tokens) /\ Len(u) = n + 1 /\ u[d + 1] = b
      /\ \A m \in 1..d : u[m] = s[m]
      /\ \A m \in (d + 1)..n : u[m + 1] = s[m]
  BY DEF IsWrap
<1> HIDE DEF w
<1>2. ASSUME NEW m \in 1..(n + 1) PROVE u[m] = w[m]
  <2>1. m \in 1..d \/ m = d + 1 \/ (m - 1 \in (d + 1)..n /\ m = (m - 1) + 1)
    BY <1>1
  <2>2. ASSUME m - 1 \in (d + 1)..n, m = (m - 1) + 1 PROVE u[m] = w[m]
    BY <1>1, <1>w, <2>2
  <2> QED
    BY <1>1, <1>w, <2>1, <2>2
<1>3. u = w
  BY <1>1, <1>w, <1>2, SameSequence
<1> QED
  BY <1>3 DEF w

\* What a token may do between two stacks.
LEMMA BracketCases ==
    ASSUME NEW s, Stack(s), NEW t \in Tokens, Stack(Bracket(s, t))
    PROVE  \/ t.val \in Starts /\ Bracket(s, t) = Append(s, t)
           \/ t.val \in Leaves \cup Entries /\ Bracket(s, t) = s
           \/ /\ s # <<>> /\ Bracket(s, t) = SubSeq(s, 1, Len(s) - 1)
              /\ \/ t.val = "blockEnd" /\ s[Len(s)].val \in BlockStarts
                 \/ t.val \in FlowEnds /\ s[Len(s)].val \in FlowStarts
<1>1. s \in Seq(Tokens)
  BY DEF Stack
<1>2. ASSUME Bracket(s, t) = Append(s, t) PROVE t.val \in Starts
  <2> DEFINE u == Append(s, t)
  <2>1. u \in Seq(Tokens) /\ Len(u) \in 1..Len(u) /\ u[Len(u)] = t
    BY <1>1
  <2> HIDE DEF u
  <2>2. Stack(u)
    BY <1>2 DEF u
  <2> QED
    BY <2>1, <2>2 DEF Stack
<1>3. CASE t.val \in Starts
  BY <1>3, BracketOpens
<1>4. CASE t.val \in Leaves \cup Entries
  BY <1>4, BracketLeaves
<1>5. CASE t.val = "blockEnd"
  <2>1. t.val \notin Starts
    BY <1>5, TokenClasses
  <2> QED
    BY <1>1, <1>2, <1>5, <2>1, BracketEnds
<1>6. CASE t.val \in FlowEnds
  <2>1. t.val \notin Starts
    BY <1>6, TokenClasses
  <2> QED
    BY <1>1, <1>2, <1>6, <2>1, BracketFlowEnds
<1> QED
  BY <1>3, <1>4, <1>5, <1>6, TokenClasses

LEMMA WrappedStep ==
    ASSUME NEW s, Stack(s), NEW t \in Tokens, Stack(Bracket(s, t)),
           NEW d \in Nat, d <= Len(s), d <= Len(Bracket(s, t)),
           NEW b \in Tokens, b.val \in Starts
    PROVE  Bracket(Wrapped(s, d, b), t) = Wrapped(Bracket(s, t), d, b)
<1> DEFINE w == Wrapped(s, d, b)
           n == Len(s)
<1>1. s \in Seq(Tokens) /\ n \in Nat /\ d \in 0..Len(s) /\ d <= n
  BY DEF Stack
<1>2. /\ w \in Seq(Tokens) /\ Len(w) = n + 1 /\ Stack(w)
      /\ \A m \in 1..d : w[m] = s[m]
      /\ w[d + 1] = b
      /\ \A m \in (d + 1)..n : w[m + 1] = s[m]
  BY <1>1, WrappedType
<1> HIDE DEF w
<1>3. CASE t.val \in Starts /\ Bracket(s, t) = Append(s, t)
  <2> DEFINE a == Append(s, t)
             u == Append(w, t)
  <2>1. /\ a \in Seq(Tokens) /\ Len(a) = n + 1 /\ a[n + 1] = t
        /\ \A m \in 1..n : a[m] = s[m]
    BY <1>1
  <2>2. /\ u \in Seq(Tokens) /\ Len(u) = n + 2 /\ u[n + 2] = t
        /\ \A m \in 1..(n + 1) : u[m] = w[m]
    BY <1>1, <1>2
  <2> HIDE DEF a, u, n
  <2>3. \A m \in 1..d : u[m] = a[m]
    <3>1. \A m \in 1..d : m \in 1..n /\ m \in 1..(n + 1)
      BY <1>1
    <3> QED
      BY <1>2, <2>1, <2>2, <3>1
  <2>4. u[d + 1] = b
    <3>1. d + 1 \in 1..(n + 1)
      BY <1>1
    <3> QED
      BY <1>2, <2>2, <3>1
  <2>5. ASSUME NEW m \in (d + 1)..(n + 1) PROVE u[m + 1] = a[m]
    <3>1. CASE m = n + 1
      <4>1. m + 1 = n + 2
        BY <1>1, <3>1
      <4> QED
        BY <2>1, <2>2, <3>1, <4>1
    <3>2. CASE m # n + 1
      <4>1. m \in (d + 1)..n /\ m \in 1..n /\ m + 1 \in 1..(n + 1)
        BY <1>1, <3>2
      <4> QED
        BY <1>2, <2>1, <2>2, <4>1
    <3> QED
      BY <3>1, <3>2
  <2>6. Stack(a) /\ d \in 0..Len(a) /\ Len(u) = Len(a) + 1
    BY <1>1, <1>3, <2>1, <2>2 DEF a
  <2>7. u = Wrapped(a, d, b)
    <3>1. \A m \in (d + 1)..Len(a) : u[m + 1] = a[m]
      BY <2>1, <2>5
    <3> QED
      <4>1. /\ u \in Seq(Tokens) /\ Stack(a) /\ d \in 0..Len(a) /\ Len(u) = Len(a) + 1
            /\ u[d + 1] = b
        BY <2>2, <2>3, <2>4, <2>6, <3>1
      <4>2. (\A m \in 1..d : u[m] = a[m]) /\ \A m \in (d + 1)..Len(a) : u[m + 1] = a[m]
        BY <2>2, <2>3, <2>4, <2>6, <3>1
      <4> QED
        <5>1. IsWrap(u, a, d, b)
          BY <4>1, <4>2 DEF IsWrap
        <5> QED
          BY <4>1, <5>1, IsWrapped
  <2>8. Bracket(w, t) = u
    BY <1>3, BracketOpens DEF u
  <2> QED
    BY <1>3, <2>7, <2>8 DEF a, w
<1>4. CASE t.val \in Leaves \cup Entries /\ Bracket(s, t) = s
  BY <1>4, BracketLeaves DEF w
<1>5. CASE /\ s # <<>> /\ Bracket(s, t) = SubSeq(s, 1, Len(s) - 1)
           /\ \/ t.val = "blockEnd" /\ s[Len(s)].val \in BlockStarts
              \/ t.val \in FlowEnds /\ s[Len(s)].val \in FlowStarts
  <2> DEFINE a == SubSeq(s, 1, n - 1)
             u == SubSeq(w, 1, n)
  <2>1. n >= 1 /\ n - 1 \in 0..n /\ n \in 0..Len(w)
    BY <1>1, <1>2, <1>5
  <2>2. a \in Seq(Tokens) /\ Len(a) = n - 1 /\ \A m \in 1..(n - 1) : a[m] = s[m]
    BY <1>1, <2>1, Beginning
  <2>3. u \in Seq(Tokens) /\ Len(u) = n /\ \A m \in 1..n : u[m] = w[m]
    BY <1>2, <2>1, Beginning
  <2>4. Bracket(s, t) = a
    BY <1>5
  <2> HIDE DEF a, u
  <2>5. d <= n - 1
    BY <2>2, <2>4
  <2>6. w[n + 1] = s[n] /\ n = (n + 1) - 1 /\ w # <<>>
    <3>1. n \in (d + 1)..n
      BY <1>1, <2>1, <2>5
    <3> QED
      BY <1>1, <1>2, <3>1
  <2>7. Bracket(w, t) = u
    <3>1. w[Len(w)] = s[Len(s)] /\ SubSeq(w, 1, Len(w) - 1) = u
      BY <1>1, <1>2, <2>6 DEF u
    <3> QED
      BY <1>2, <1>5, <2>6, <3>1, BracketEnds, BracketFlowEnds
  <2>8. \A m \in 1..d : u[m] = a[m]
    <3>1. \A m \in 1..d : m \in 1..n /\ m \in 1..(n - 1)
      BY <1>1, <2>5
    <3> QED
      BY <1>2, <2>2, <2>3, <3>1
  <2>9. u[d + 1] = b
    <3>1. d + 1 \in 1..n
      BY <1>1, <2>5
    <3> QED
      BY <1>2, <2>3, <3>1
  <2>10. \A m \in (d + 1)..(n - 1) : u[m + 1] = a[m]
    <3>1. \A m \in (d + 1)..(n - 1) : m + 1 \in 1..n /\ m \in (d + 1)..n /\ m \in 1..(n - 1)
      BY <1>1
    <3> QED
      BY <1>2, <2>2, <2>3, <3>1
  <2>11. Stack(a) /\ d \in 0..Len(a) /\ Len(u) = Len(a) + 1
    BY <1>1, <2>1, <2>2, <2>3, <2>4, <2>5
  <2>12. u = Wrapped(a, d, b)
    <3>1. \A m \in (d + 1)..Len(a) : u[m + 1] = a[m]
      BY <2>2, <2>10
    <3> QED
      <4>1. /\ u \in Seq(Tokens) /\ Stack(a) /\ d \in 0..Len(a) /\ Len(u) = Len(a) + 1
            /\ u[d + 1] = b
        BY <2>3, <2>8, <2>9, <2>11, <3>1
      <4>2. (\A m \in 1..d : u[m] = a[m]) /\ \A m \in (d + 1)..Len(a) : u[m + 1] = a[m]
        BY <2>3, <2>8, <2>9, <2>11, <3>1
      <4> QED
        <5>1. IsWrap(u, a, d, b)
          BY <4>1, <4>2 DEF IsWrap
        <5> QED
          BY <4>1, <5>1, IsWrapped
  <2> QED
    BY <2>4, <2>7, <2>12 DEF w
<1> QED
  BY <1>3, <1>4, <1>5, BracketCases

-----------------------------------------------------------------------------
(* Filling the slots of a key.                                             *)

\* A key in the second slot opens and closes nothing.
LEMMA KeyFills ==
    ASSUME NEW ts \in Seq(Tokens), NEW us \in Seq(Tokens), Len(us) = Len(ts),
           NEW q \in 1..Len(ts), \A i \in 1..Len(ts) : i # q => us[i] = ts[i],
           ts[q].val \in Leaves \cup Entries, us[q].val \in Leaves \cup Entries
    PROVE  \A i \in 0..Len(ts) : Opened(us)[i] = Opened(ts)[i]
<1> DEFINE R == Opened(ts)
           n == Len(ts)
<1>1. R[0] = <<>> /\ n \in Nat /\ n \in 0..Len(us)
  BY OpenedRun
<1>2. ASSUME NEW i \in 1..n PROVE R[i] = Bracket(R[i - 1], us[i])
  <2>1. R[i] = Bracket(R[i - 1], ts[i])
    BY OpenedRun
  <2>2. CASE i = q
    <3>1. Bracket(R[i - 1], ts[i]) = R[i - 1] /\ Bracket(R[i - 1], us[i]) = R[i - 1]
      BY <2>2, BracketLeaves
    <3> QED
      BY <2>1, <3>1
  <2>3. CASE i # q
    BY <2>1, <2>3
  <2> QED
    BY <2>2, <2>3
<1> HIDE DEF R, n
<1>3. \A i \in 0..n : Opened(us)[i] = R[i]
  BY <1>1, <1>2, OpenedIs
<1> QED
  BY <1>3 DEF R, n

\* A collection that starts in the first slot is opened around what follows.
LEMMA StartFills ==
    ASSUME NEW ts \in Seq(Tokens), NEW us \in Seq(Tokens), Len(us) = Len(ts),
           NEW p \in 1..Len(ts), \A i \in 1..Len(ts) : i # p => us[i] = ts[i],
           ts[p].val \in Leaves, us[p].val \in Starts,
           Stacked(ts), NEW d \in Nat, Spans(ts, p, d)
    PROVE  /\ \A i \in 0..(p - 1) : Opened(us)[i] = Opened(ts)[i]
           /\ \A i \in p..Len(ts) : Opened(us)[i] = Wrapped(Opened(ts)[i], d, us[p])
<1> DEFINE O == Opened(ts)
           n == Len(ts)
           b == us[p]
           R == [i \in 0..n |-> IF i < p THEN O[i] ELSE Wrapped(O[i], d, b)]
<1>1. /\ n \in Nat /\ p \in Nat /\ p >= 1 /\ p <= n /\ n \in 0..Len(us)
      /\ O[0] = <<>> /\ \A i \in 1..n : O[i] = Bracket(O[i - 1], ts[i])
  BY OpenedRun
<1>2. /\ \A i \in 0..n : Stack(O[i])
      /\ Len(O[p - 1]) = d /\ \A i \in p..n : d <= Len(O[i])
  BY DEF Stacked, Spans
<1>3. b \in Tokens /\ b.val \in Starts
  OBVIOUS
<1>4. \A i \in 0..(p - 1) : R[i] = O[i]
  BY <1>1
<1>5. \A i \in p..n : R[i] = Wrapped(O[i], d, b)
  BY <1>1
<1>6. \A i \in 1..n : ts[i] \in Tokens /\ us[i] \in Tokens /\ (i # p => us[i] = ts[i])
  BY DEF n
<1>7. ts[p].val \in Leaves
  OBVIOUS
<1>8. us[p] = b
  OBVIOUS
<1> HIDE DEF O, n, R, b
<1>9. R[p] = Bracket(R[p - 1], us[p])
  <2> DEFINE s == O[p - 1]
             u == Append(s, b)
  <2>1. p \in 1..n /\ p \in p..n /\ p - 1 \in 0..n /\ p - 1 \in 0..(p - 1) /\ p \in 0..n
    BY <1>1
  <2>2. O[p] = s
    BY <1>1, <1>7, <2>1, BracketLeaves
  <2>3. Stack(s) /\ Len(s) = d /\ s \in Seq(Tokens)
    BY <1>2, <2>1 DEF Stack
  <2>4. R[p] = Wrapped(s, d, b) /\ R[p - 1] = s
    BY <1>4, <1>5, <2>1, <2>2
  <2> HIDE DEF s
  <2>5. /\ u \in Seq(Tokens) /\ Len(u) = Len(s) + 1 /\ u[d + 1] = b
        /\ \A m \in 1..d : u[m] = s[m]
    BY <1>3, <2>3
  <2>6. Bracket(s, b) = u
    BY <1>3, BracketOpens
  <2> HIDE DEF u
  <2>7. u = Wrapped(s, d, b)
    <3>1. d \in 0..Len(s) /\ \A m \in (d + 1)..Len(s) : u[m + 1] = s[m]
      BY <2>3
    <3> QED
      <4>1. IsWrap(u, s, d, b)
        BY <2>5, <3>1 DEF IsWrap
      <4> QED
        BY <1>3, <2>3, <3>1, <4>1, IsWrapped
  <2> QED
    BY <1>8, <2>4, <2>6, <2>7
<1>10. ASSUME NEW i \in 1..n PROVE R[i] = Bracket(R[i - 1], us[i])
  <2>1. CASE i < p
    <3>1. i \in 0..(p - 1) /\ i - 1 \in 0..(p - 1) /\ i # p
      BY <1>1, <2>1
    <3> QED
      BY <1>1, <1>4, <1>6, <3>1
  <2>2. CASE i = p
    BY <1>9, <2>2
  <2>3. CASE i > p
    <3>1. i \in p..n /\ i - 1 \in p..n /\ i # p /\ i \in 0..n /\ i - 1 \in 0..n
      BY <1>1, <2>3
    <3>2. R[i] = Wrapped(O[i], d, b) /\ R[i - 1] = Wrapped(O[i - 1], d, b)
      BY <1>5, <3>1
    <3>3. us[i] = ts[i] /\ ts[i] \in Tokens /\ O[i] = Bracket(O[i - 1], ts[i])
      BY <1>1, <1>6, <3>1
    <3>4. Stack(O[i - 1]) /\ Stack(Bracket(O[i - 1], ts[i]))
          /\ d <= Len(O[i - 1]) /\ d <= Len(Bracket(O[i - 1], ts[i]))
      BY <1>2, <3>1, <3>3
    <3> QED
      BY <1>3, <3>2, <3>3, <3>4, WrappedStep
  <2> QED
    BY <1>1, <2>1, <2>2, <2>3
<1>11. \A i \in 0..n : Opened(us)[i] = R[i]
  <2>1. R[0] = <<>>
    BY <1>1, <1>4, SMTT(30)
  <2> QED
    BY <1>1, <1>10, <2>1, OpenedIs
<1>12. \A i \in 0..(p - 1) : Opened(us)[i] = O[i]
  BY <1>1, <1>4, <1>11
<1>13. \A i \in p..n : Opened(us)[i] = Wrapped(O[i], d, b)
  BY <1>1, <1>5, <1>11
<1> QED
  BY <1>12, <1>13 DEF O, n, b

\* The stacks stay stacks.
LEMMA StartStacked ==
    ASSUME NEW ts \in Seq(Tokens), NEW us \in Seq(Tokens), Len(us) = Len(ts),
           NEW p \in 1..Len(ts), \A i \in 1..Len(ts) : i # p => us[i] = ts[i],
           ts[p].val \in Leaves, us[p].val \in Starts,
           Stacked(ts), NEW d \in Nat, Spans(ts, p, d)
    PROVE  Stacked(us) /\ Unclosed(us) = Wrapped(Unclosed(ts), d, us[p])
<1>1. /\ \A i \in 0..(p - 1) : Opened(us)[i] = Opened(ts)[i]
      /\ \A i \in p..Len(ts) : Opened(us)[i] = Wrapped(Opened(ts)[i], d, us[p])
  BY StartFills
<1>2. Len(ts) \in Nat /\ us[p] \in Tokens
  OBVIOUS
<1>3. ASSUME NEW i \in 0..Len(us) PROVE Stack(Opened(us)[i])
  <2>1. i \in 0..Len(ts) /\ (i \in 0..(p - 1) \/ i \in p..Len(ts))
    BY <1>2
  <2>2. Stack(Opened(ts)[i])
    BY <2>1 DEF Stacked
  <2>3. CASE i \in p..Len(ts)
    <3>1. d \in 0..Len(Opened(ts)[i])
      BY <2>2, <2>3 DEF Spans, Stack
    <3> QED
      BY <1>1, <1>2, <2>2, <2>3, <3>1, WrappedType
  <2> QED
    BY <1>1, <2>1, <2>2, <2>3
<1>4. Len(ts) \in p..Len(ts)
  BY <1>2
<1> QED
  BY <1>1, <1>3, <1>4 DEF Stacked, Unclosed

-----------------------------------------------------------------------------
(* What a suffix of the tokens leaves open.                                *)

Dropped(s, d) == [m \in 1..(Len(s) - d) |-> s[m + d]]

LEMMA DroppedType ==
    ASSUME NEW s, Stack(s), NEW d \in 0..Len(s)
    PROVE  /\ Dropped(s, d) \in Seq(Tokens) /\ Len(Dropped(s, d)) = Len(s) - d
           /\ \A m \in 1..(Len(s) - d) : Dropped(s, d)[m] = s[m + d] /\ m + d \in 1..Len(s)
<1> DEFINE w == Dropped(s, d)
           n == Len(s)
<1>1. s \in Seq(Tokens) /\ n \in Nat /\ d \in Nat /\ d <= n
      /\ \A m \in 1..n : s[m] \in Tokens
  BY DEF Stack
<1> HIDE DEF n
<1>2. /\ \A m \in 1..(n - d) : w[m] = s[m + d]
      /\ w = [m \in 1..(n - d) |-> w[m]]
  BY DEF Dropped, n
<1>3. \A m \in 1..(n - d) : m + d \in 1..n
  BY <1>1
<1> HIDE DEF w
<1>4. w \in [1..(n - d) -> Tokens] /\ n - d \in Nat
  BY <1>1, <1>2, <1>3
<1>5. w \in Seq(Tokens) /\ Len(w) = n - d
  BY <1>4
<1> QED
  BY <1>2, <1>3, <1>5 DEF w, n

LEMMA DroppedStep ==
    ASSUME NEW s, Stack(s), NEW t \in Tokens, Stack(Bracket(s, t)),
           NEW d \in Nat, d <= Len(s), d <= Len(Bracket(s, t))
    PROVE  Bracket(Dropped(s, d), t) = Dropped(Bracket(s, t), d)
<1> DEFINE w == Dropped(s, d)
           n == Len(s)
           a == Bracket(s, t)
           v == Dropped(a, d)
<1>1. s \in Seq(Tokens) /\ n \in Nat /\ d \in 0..Len(s) /\ d <= n
  BY DEF Stack
<1>2. /\ w \in Seq(Tokens) /\ Len(w) = n - d
      /\ \A m \in 1..(n - d) : w[m] = s[m + d] /\ m + d \in 1..n
  BY <1>1, DroppedType
<1>3. a \in Seq(Tokens) /\ Len(a) \in Nat /\ d \in 0..Len(a)
  BY DEF Stack
<1>4. /\ v \in Seq(Tokens) /\ Len(v) = Len(a) - d
      /\ \A m \in 1..(Len(a) - d) : v[m] = a[m + d] /\ m + d \in 1..Len(a)
  BY <1>3, DroppedType
<1> HIDE DEF w, v
<1>5. CASE t.val \in Starts /\ a = Append(s, t)
  <2> DEFINE u == Append(w, t)
  <2>1. Len(a) = n + 1 /\ a[n + 1] = t /\ \A m \in 1..n : a[m] = s[m]
    BY <1>1, <1>5
  <2>2. /\ u \in Seq(Tokens) /\ Len(u) = (n - d) + 1 /\ u[(n - d) + 1] = t
        /\ \A m \in 1..(n - d) : u[m] = w[m]
    BY <1>1, <1>2
  <2>3. Bracket(w, t) = u
    BY <1>5, BracketOpens
  <2> HIDE DEF a, n, u
  <2>4. ASSUME NEW m \in 1..Len(u) PROVE u[m] = v[m]
    <3>1. m \in 1..(Len(a) - d)
      BY <1>1, <2>1, <2>2
    <3>2. CASE m = (n - d) + 1
      <4>1. m + d = n + 1
        BY <1>1, <3>2
      <4> QED
        BY <1>4, <2>1, <2>2, <3>1, <3>2, <4>1
    <3>3. CASE m # (n - d) + 1
      <4>1. m \in 1..(n - d)
        BY <1>1, <2>2, <3>3
      <4> QED
        BY <1>2, <1>4, <2>1, <2>2, <3>1, <4>1
    <3> QED
      BY <3>2, <3>3
  <2>5. Len(u) = Len(v)
    BY <1>1, <1>4, <2>1, <2>2
  <2> QED
    BY <1>4, <2>2, <2>3, <2>4, <2>5, SameSequence DEF v, w, a
<1>6. CASE t.val \in Leaves \cup Entries /\ a = s
  BY <1>6, BracketLeaves DEF v, w
<1>7. CASE /\ s # <<>> /\ a = SubSeq(s, 1, Len(s) - 1)
           /\ \/ t.val = "blockEnd" /\ s[Len(s)].val \in BlockStarts
              \/ t.val \in FlowEnds /\ s[Len(s)].val \in FlowStarts
  <2> DEFINE k == n - d
             u == SubSeq(w, 1, k - 1)
  <2>1. n >= 1 /\ n - 1 \in 0..Len(s)
    BY <1>1, <1>7
  <2>2. Len(a) = n - 1 /\ \A m \in 1..(n - 1) : a[m] = s[m]
    <3>1. SubSeq(s, 1, n - 1) = a
      BY <1>7
    <3> QED
      BY <1>1, <2>1, <3>1, Beginning
  <2>3. k \in Nat /\ k >= 1 /\ k - 1 \in 0..Len(w) /\ k = Len(w) /\ k + d = n /\ k \in 1..k
        /\ Len(a) - d = k - 1
    BY <1>1, <1>2, <1>3, <2>2
  <2>4. u \in Seq(Tokens) /\ Len(u) = k - 1 /\ \A m \in 1..(k - 1) : u[m] = w[m]
    BY <1>2, <2>3, Beginning
  <2>5. Bracket(w, t) = u
    <3>1. w # <<>> /\ w[Len(w)] = s[Len(s)]
      BY <1>2, <2>3
    <3> QED
      BY <1>2, <1>7, <2>3, <3>1, BracketEnds, BracketFlowEnds
  <2> HIDE DEF u, a, k, n
  <2>6. ASSUME NEW m \in 1..Len(u) PROVE u[m] = v[m]
    <3>1. m \in 1..(k - 1) /\ m \in 1..(n - d) /\ m + d \in 1..(n - 1) /\ m \in 1..(Len(a) - d)
      BY <1>1, <2>1, <2>3, <2>4 DEF k
    <3> QED
      BY <1>2, <1>4, <2>2, <2>4, <3>1
  <2>7. Len(u) = Len(v)
    BY <1>4, <2>3, <2>4
  <2> QED
    BY <1>4, <2>4, <2>5, <2>6, <2>7, SameSequence DEF v, w, a
<1> QED
  BY <1>5, <1>6, <1>7, BracketCases

\* What follows the slots of a key leaves open what is above its depth.
LEMMA SpanOpens ==
    ASSUME NEW ts \in Seq(Tokens), Stacked(ts), NEW d \in Nat,
           NEW p \in 1..(Len(ts) - 1), Spans(ts, p, d),
           ts[p].val \in Leaves, ts[p + 1].val \in Leaves
    PROVE  Unclosed(SubSeq(ts, p + 2, Len(ts))) = Dropped(Unclosed(ts), d)
<1> DEFINE n == Len(ts)
           q == p + 1
           us == SubSeq(ts, q + 1, n)
           O == Opened(ts)
           k == n - q
           R == [i \in 0..k |-> Dropped(O[q + i], d)]
<1>1. n \in Nat /\ p \in Nat /\ p >= 1 /\ q \in Nat /\ q >= 1 /\ q <= n /\ k \in Nat
  OBVIOUS
<1>2. us \in Seq(Tokens) /\ Len(us) = k /\ \A i \in 1..k : us[i] = ts[q + i]
  OBVIOUS
<1>3. O[0] = <<>> /\ \A i \in 1..n : O[i] = Bracket(O[i - 1], ts[i]) /\ ts[i] \in Tokens
  BY OpenedRun
<1>4. /\ \A i \in 0..n : Stack(O[i])
      /\ Len(O[p - 1]) = d /\ \A i \in p..n : d <= Len(O[i])
  BY DEF Stacked, Spans
<1>5. \A i \in 0..k : R[i] = Dropped(O[q + i], d)
  OBVIOUS
<1>6. ts[p].val \in Leaves /\ ts[q].val \in Leaves /\ p = q - 1
  OBVIOUS
<1> HIDE DEF n, us, O, R
<1>7. R[0] = <<>>
  <2>1. p \in 1..n /\ q \in 1..n /\ q + 0 = q /\ 0 \in 0..k /\ q \in 0..n
    BY <1>1
  <2>2. O[q] = O[p - 1]
    BY <1>3, <1>6, <2>1, BracketLeaves
  <2> DEFINE s == O[q]
  <2>3. Stack(s) /\ Len(s) = d
    BY <1>4, <2>1, <2>2
  <2> HIDE DEF s
  <2>4. Dropped(s, d) \in Seq(Tokens) /\ Len(Dropped(s, d)) = 0
    <3>1. d \in 0..Len(s) /\ Len(s) - d = 0
      BY <2>3
    <3> QED
      BY <2>3, <3>1, DroppedType
  <2> QED
    BY <1>5, <2>1, <2>4 DEF s
<1>8. ASSUME NEW i \in 1..k PROVE R[i] = Bracket(R[i - 1], us[i])
  <2> DEFINE j == q + i
  <2>1. /\ j \in 1..n /\ j \in p..n /\ j - 1 \in p..n /\ j \in 0..n /\ j - 1 \in 0..n
        /\ i \in 0..k /\ i - 1 \in 0..k /\ q + (i - 1) = j - 1
    BY <1>1
  <2>2. R[i] = Dropped(O[j], d) /\ R[i - 1] = Dropped(O[j - 1], d)
    BY <1>5, <2>1
  <2>3. us[i] = ts[j]
    BY <1>2
  <2> HIDE DEF j
  <2>4. ts[j] \in Tokens /\ O[j] = Bracket(O[j - 1], ts[j])
    BY <1>3, <2>1
  <2>5. Stack(O[j - 1]) /\ Stack(Bracket(O[j - 1], ts[j]))
        /\ d <= Len(O[j - 1]) /\ d <= Len(Bracket(O[j - 1], ts[j]))
    BY <1>4, <2>1, <2>4
  <2> QED
    BY <2>2, <2>3, <2>4, <2>5, DroppedStep
<1>9. \A i \in 0..k : Opened(us)[i] = R[i]
  <2>1. k \in 0..Len(us)
    BY <1>1, <1>2
  <2> HIDE DEF k
  <2> QED
    BY <1>1, <1>2, <1>7, <1>8, <2>1, OpenedIs, ZenonT(30)
<1>10. Unclosed(us) = Dropped(O[n], d)
  <2>1. k \in 0..k /\ q + k = n
    BY <1>1
  <2> QED
    BY <1>2, <1>5, <1>9, <2>1 DEF Unclosed
<1>11. us = SubSeq(ts, p + 2, n)
  <2>1. q + 1 = p + 2
    BY <1>1
  <2> QED
    BY <2>1 DEF us
<1> QED
  BY <1>10, <1>11 DEF O, n, Unclosed

-----------------------------------------------------------------------------
(* The open collections are those on the scanner's stacks.                 *)

BlockVal(isSeq) == IF isSeq THEN "blockSequenceStart" ELSE "blockMappingStart"
FlowVal(isSeq) == IF isSeq THEN "flowSequenceStart" ELSE "flowMappingStart"

Matches(s, ind, flows) ==
    /\ Stack(s) /\ Len(s) = Len(ind) - 1 + Len(flows)
    /\ \A i \in 1..(Len(ind) - 1) :
          s[i].val = BlockVal(ind[i + 1].isSequence) /\ s[i].col = ind[i + 1].column
    /\ \A j \in 1..Len(flows) : s[Len(ind) - 1 + j].val = FlowVal(flows[j])

Blocks == Len(indents) - 1
Depth == Blocks + flowLevel

\* A key that may still come reaches from its slots to the innermost
\* collection, a stacked key to the flow collection it waits for.
Spanned ==
    /\ Live => Spans(tokens, simpleKey.tokenIndex, Depth)
    /\ \A j \in 1..Len(simpleKeyStack) :
          simpleKeyStack[j].possible =>
              Spans(tokens, simpleKeyStack[j].tokenIndex, Blocks + (j - 1))

Nested ==
    /\ Stacked(tokens)
    /\ phase \in Running => Matches(Unclosed(tokens), indents, flowStack) /\ Spanned
    /\ phase = "accepted" => Unclosed(tokens) = <<>>

LEMMA DepthTypes ==
    ASSUME Shape
    PROVE  /\ Blocks \in Nat /\ Depth \in Nat /\ Len(indents) = Blocks + 1
           /\ tokens \in Seq(Tokens) /\ Len(tokens) \in Nat
           /\ flowLevel \in Nat /\ Len(flowStack) = flowLevel /\ Depth = Blocks + flowLevel
BY PlacedTypes DEF Blocks, Depth, Shape, TypeOK

LEMMA MatchesDepth ==
    ASSUME Shape, Matches(Unclosed(tokens), indents, flowStack)
    PROVE  Len(Unclosed(tokens)) = Depth
BY DepthTypes DEF Matches, Blocks

LEMMA StackAppend ==
    ASSUME NEW s, Stack(s), NEW t \in Tokens, t.val \in Starts
    PROVE  /\ Stack(Append(s, t)) /\ Len(Append(s, t)) = Len(s) + 1 /\ Len(s) \in Nat
           /\ \A m \in 1..Len(s) : Append(s, t)[m] = s[m]
           /\ Append(s, t)[Len(s) + 1] = t
<1> DEFINE u == Append(s, t)
           n == Len(s)
<1>1. s \in Seq(Tokens) /\ n \in Nat /\ \A i \in 1..n : s[i].val \in Starts
  BY DEF Stack
<1>2. /\ u \in Seq(Tokens) /\ Len(u) = n + 1 /\ u[n + 1] = t
      /\ \A m \in 1..n : u[m] = s[m]
  BY <1>1
<1> HIDE DEF u, n
<1>3. ASSUME NEW i \in 1..Len(u) PROVE u[i].val \in Starts
  <2>1. i \in 1..n \/ i = n + 1
    BY <1>1, <1>2
  <2> QED
    BY <1>1, <1>2, <2>1
<1>4. Stack(u)
  BY <1>2, <1>3 DEF Stack
<1> QED
  BY <1>1, <1>2, <1>4 DEF u, n

LEMMA StackBeginning ==
    ASSUME NEW s, Stack(s), NEW k \in 0..Len(s)
    PROVE  /\ Stack(SubSeq(s, 1, k)) /\ Len(SubSeq(s, 1, k)) = k
           /\ \A m \in 1..k : SubSeq(s, 1, k)[m] = s[m] /\ m \in 1..Len(s)
<1> DEFINE u == SubSeq(s, 1, k)
<1>1. u \in Seq(Tokens) /\ Len(u) = k /\ \A m \in 1..k : u[m] = s[m] /\ m \in 1..Len(s)
  BY Beginning DEF Stack
<1> HIDE DEF u
<1>2. Stack(u)
  BY <1>1 DEF Stack
<1> QED
  BY <1>1, <1>2 DEF u

\* A block opens.
LEMMA MatchesBlock ==
    ASSUME NEW s, NEW ind \in Seq(Indents), NEW flows, Len(flows) = 0, Len(ind) >= 1,
           Matches(s, ind, flows), NEW isSeq \in BOOLEAN, NEW c,
           NEW t \in Tokens, t.val = BlockVal(isSeq), t.col = c, c \in Nat
    PROVE  Matches(Append(s, t), Append(ind, [column |-> c, isSequence |-> isSeq]), flows)
<1> DEFINE u == Append(s, t)
           e == [column |-> c, isSequence |-> isSeq]
           jnd == Append(ind, e)
           n == Len(ind)
<1>1. Stack(s) /\ Len(s) = n - 1 /\ n \in Nat /\ n >= 1
  BY DEF Matches
<1>2. \A i \in 1..(n - 1) : s[i].val = BlockVal(ind[i + 1].isSequence) /\ s[i].col = ind[i + 1].column
  BY DEF Matches
<1>3. t.val \in Starts
  BY DEF BlockVal, Starts, BlockStarts
<1>4. Stack(u) /\ Len(u) = n /\ (\A m \in 1..(n - 1) : u[m] = s[m]) /\ u[n] = t
  <2>1. (n - 1) + 1 = n
    BY <1>1
  <2> QED
    BY <1>1, <1>3, <2>1, StackAppend
<1>5. e.column = c /\ e.isSequence = isSeq /\ e \in Indents
  BY DEF Indents
<1> HIDE DEF e
<1>6. Len(jnd) = n + 1 /\ jnd[n + 1] = e /\ \A i \in 1..n : jnd[i] = ind[i]
  BY <1>5
<1> HIDE DEF jnd, u, n
<1>7. ASSUME NEW i \in 1..(Len(jnd) - 1)
      PROVE  u[i].val = BlockVal(jnd[i + 1].isSequence) /\ u[i].col = jnd[i + 1].column
  <2>1. CASE i = n
    BY <1>4, <1>5, <1>6, <2>1
  <2>2. CASE i # n
    <3>1. i \in 1..(n - 1) /\ i + 1 \in 1..n
      BY <1>1, <1>6, <2>2
    <3> QED
      BY <1>2, <1>4, <1>6, <3>1
  <2> QED
    BY <2>1, <2>2
<1>8. Len(u) = Len(jnd) - 1 + Len(flows)
  BY <1>1, <1>4, <1>6
<1>9. Matches(u, jnd, flows)
  BY <1>4, <1>7, <1>8 DEF Matches
<1> QED
  BY <1>9 DEF u, jnd, e

\* Blocks are closed, innermost first.
LEMMA MatchesUnwound ==
    ASSUME NEW s, NEW ind \in Seq(Indents), NEW flows, Len(flows) = 0,
           Matches(s, ind, flows), NEW k \in 1..Len(ind)
    PROVE  Matches(SubSeq(s, 1, k - 1), SubSeq(ind, 1, k), flows)
<1> DEFINE u == SubSeq(s, 1, k - 1)
           jnd == SubSeq(ind, 1, k)
           n == Len(ind)
<1>1. Stack(s) /\ Len(s) = n - 1 /\ n \in Nat /\ k \in Nat /\ k >= 1 /\ k <= n /\ k - 1 \in 0..Len(s)
  BY DEF Matches
<1>2. \A i \in 1..(n - 1) : s[i].val = BlockVal(ind[i + 1].isSequence) /\ s[i].col = ind[i + 1].column
  BY DEF Matches
<1>3. Stack(u) /\ Len(u) = k - 1 /\ \A m \in 1..(k - 1) : u[m] = s[m]
  BY <1>1, StackBeginning
<1>4. Len(jnd) = k /\ \A i \in 1..k : jnd[i] = ind[i]
  BY <1>1
<1> HIDE DEF u, jnd, n
<1>5. ASSUME NEW i \in 1..(k - 1)
      PROVE  u[i].val = BlockVal(jnd[i + 1].isSequence) /\ u[i].col = jnd[i + 1].column
  <2>1. i \in 1..(n - 1) /\ i + 1 \in 1..k
    BY <1>1
  <2> QED
    BY <1>2, <1>3, <1>4, <2>1
<1>6. Matches(u, jnd, flows)
  BY <1>1, <1>3, <1>4, <1>5 DEF Matches
<1> QED
  BY <1>6 DEF u, jnd

\* A flow collection opens.
LEMMA MatchesFlow ==
    ASSUME NEW s, NEW ind \in Seq(Indents), Len(ind) >= 1, NEW flows \in Seq(BOOLEAN),
           Matches(s, ind, flows), NEW isSeq \in BOOLEAN,
           NEW t \in Tokens, t.val = FlowVal(isSeq)
    PROVE  Matches(Append(s, t), ind, Append(flows, isSeq))
<1> DEFINE u == Append(s, t)
           fs == Append(flows, isSeq)
           b == Len(ind) - 1
           f == Len(flows)
<1>1. Stack(s) /\ Len(s) = b + f /\ b \in Nat /\ f \in Nat
  BY DEF Matches
<1>2. /\ \A i \in 1..b : s[i].val = BlockVal(ind[i + 1].isSequence) /\ s[i].col = ind[i + 1].column
      /\ \A j \in 1..f : s[b + j].val = FlowVal(flows[j])
  BY DEF Matches
<1>3. t.val \in Starts
  BY DEF FlowVal, Starts, FlowStarts
<1>4. Stack(u) /\ Len(u) = (b + f) + 1 /\ (\A m \in 1..(b + f) : u[m] = s[m]) /\ u[(b + f) + 1] = t
  BY <1>1, <1>3, StackAppend
<1>5. Len(fs) = f + 1 /\ fs[f + 1] = isSeq /\ \A j \in 1..f : fs[j] = flows[j]
  OBVIOUS
<1> HIDE DEF u, fs, f
<1>6. ASSUME NEW j \in 1..Len(fs) PROVE u[b + j].val = FlowVal(fs[j])
  <2>1. CASE j = f + 1
    <3>1. b + j = (b + f) + 1
      BY <1>1, <2>1
    <3> QED
      BY <1>4, <1>5, <2>1, <3>1
  <2>2. CASE j # f + 1
    <3>1. j \in 1..f /\ b + j \in 1..(b + f)
      BY <1>1, <1>5, <2>2
    <3> QED
      BY <1>2, <1>4, <1>5, <3>1
  <2> QED
    BY <2>1, <2>2
<1>7. \A i \in 1..b : u[i] = s[i]
  <2>1. \A i \in 1..b : i \in 1..(b + f)
    BY <1>1
  <2> QED
    BY <1>4, <2>1
<1>8. Len(u) = b + Len(fs)
  BY <1>1, <1>4, <1>5
<1>9. Matches(u, ind, fs)
  BY <1>2, <1>4, <1>6, <1>7, <1>8 DEF Matches
<1> QED
  BY <1>9 DEF u, fs

\* The innermost flow collection closes.
LEMMA MatchesFlowEnd ==
    ASSUME NEW s, NEW ind \in Seq(Indents), Len(ind) >= 1, NEW flows \in Seq(BOOLEAN),
           Matches(s, ind, flows), Len(flows) >= 1
    PROVE  /\ Matches(SubSeq(s, 1, Len(s) - 1), ind, SubSeq(flows, 1, Len(flows) - 1))
           /\ s[Len(s)].val \in FlowStarts /\ Len(s) >= 1
<1> DEFINE u == SubSeq(s, 1, Len(s) - 1)
           fs == SubSeq(flows, 1, Len(flows) - 1)
           b == Len(ind) - 1
           f == Len(flows)
<1>1. Stack(s) /\ Len(s) = b + f /\ b \in Nat /\ f \in Nat /\ f >= 1 /\ f \in 1..f
      /\ Len(s) - 1 \in 0..Len(s) /\ f - 1 \in 0..f /\ Len(s) - 1 = b + (f - 1)
      /\ Len(s) >= 1
  BY DEF Matches
<1>2. /\ \A i \in 1..b : s[i].val = BlockVal(ind[i + 1].isSequence) /\ s[i].col = ind[i + 1].column
      /\ \A j \in 1..f : s[b + j].val = FlowVal(flows[j])
  BY DEF Matches
<1>3. Stack(u) /\ Len(u) = b + (f - 1) /\ \A m \in 1..(b + (f - 1)) : u[m] = s[m]
  BY <1>1, StackBeginning
<1>4. Len(fs) = f - 1 /\ \A j \in 1..(f - 1) : fs[j] = flows[j]
  <2> DEFINE k == f - 1
  <2>1. k \in 0..Len(flows)
    BY <1>1
  <2> HIDE DEF k
  <2>2. Len(SubSeq(flows, 1, k)) = k
    BY <2>1
  <2>3. \A j \in 1..k : SubSeq(flows, 1, k)[j] = flows[j]
    BY <2>1
  <2> QED
    BY <2>2, <2>3 DEF k
<1>5. s[Len(s)].val \in FlowStarts
  <2>1. s[b + f].val = FlowVal(flows[f])
    BY <1>1, <1>2
  <2> QED
    BY <1>1, <2>1 DEF FlowVal, FlowStarts
<1> HIDE DEF u, fs, f, b
<1>6. ASSUME NEW j \in 1..(f - 1) PROVE u[b + j].val = FlowVal(fs[j])
  <2>1. j \in 1..f /\ b + j \in 1..(b + (f - 1))
    BY <1>1
  <2> QED
    BY <1>2, <1>3, <1>4, <2>1
<1>7. \A i \in 1..b : u[i] = s[i]
  <2>1. \A i \in 1..b : i \in 1..(b + (f - 1))
    BY <1>1
  <2> QED
    BY <1>3, <2>1
<1>8. Matches(u, ind, fs)
  BY <1>2, <1>3, <1>4, <1>6, <1>7 DEF Matches, b
<1> QED
  BY <1>1, <1>5, <1>8 DEF u, fs, f

LEMMA KeySpansOn ==
    ASSUME Shape, Shape', Slots, NEW e \in Nat, Above(tokens, tokens', e),
           NEW d \in Nat, d <= e
    PROVE  /\ simpleKey.possible /\ Spans(tokens, simpleKey.tokenIndex, d)
                 => Spans(tokens', simpleKey.tokenIndex, d)
           /\ \A j \in 1..Len(simpleKeyStack) :
                 simpleKeyStack[j].possible /\ Spans(tokens, simpleKeyStack[j].tokenIndex, d)
                     => Spans(tokens', simpleKeyStack[j].tokenIndex, d)
<1>1. tokens \in Seq(Tokens) /\ tokens' \in Seq(Tokens)
  BY DEF Shape, TypeOK
<1>2. ASSUME NEW key, Owns(key, tokens), key.possible, Spans(tokens, key.tokenIndex, d)
      PROVE  Spans(tokens', key.tokenIndex, d)
  <2>1. key.tokenIndex \in 1..Len(tokens)
    BY <1>1, <1>2 DEF Owns
  <2> QED
    BY <1>1, <1>2, <2>1, SpansOn
<1>3. Owns(simpleKey, tokens) /\ \A j \in 1..Len(simpleKeyStack) : Owns(simpleKeyStack[j], tokens)
  BY DEF Slots, SlotsReserved
<1> QED
  BY <1>2, <1>3

LEMMA StackSpansOn ==
    ASSUME Shape, Shape', Slots, Spanned, NEW e \in Nat, Above(tokens, tokens', e),
           Depth - 1 <= e
    PROVE  \A j \in 1..Len(simpleKeyStack) :
              simpleKeyStack[j].possible =>
                  Spans(tokens', simpleKeyStack[j].tokenIndex, Blocks + (j - 1))
<1> SUFFICES ASSUME NEW j \in 1..Len(simpleKeyStack), simpleKeyStack[j].possible
             PROVE  Spans(tokens', simpleKeyStack[j].tokenIndex, Blocks + (j - 1))
  OBVIOUS
<1>1. j \in 1..flowLevel /\ Blocks \in Nat /\ flowLevel \in Nat /\ Depth = Blocks + flowLevel
  BY DepthTypes, PlacedTypes
<1>2. Blocks + (j - 1) \in Nat /\ Blocks + (j - 1) <= e
  BY <1>1
<1> QED
  BY <1>2, KeySpansOn DEF Spanned

\* A step that keeps the collections and stacks.
LEMMA NestedKept ==
    ASSUME Shape, Shape', Slots, Nested, phase \in Running, phase' \in Running,
           Above(tokens, tokens', Depth), Unclosed(tokens') = Unclosed(tokens),
           indents' = indents, UNCHANGED flowVars,
           Live' => Live /\ simpleKey'.tokenIndex = simpleKey.tokenIndex
    PROVE  Nested'
<1>1. Stacked(tokens) /\ Matches(Unclosed(tokens), indents, flowStack) /\ Spanned
  BY DEF Nested
<1>2. /\ Depth \in Nat /\ Blocks' = Blocks /\ Depth' = Depth
      /\ flowStack' = flowStack /\ simpleKeyStack' = simpleKeyStack
      /\ tokens \in Seq(Tokens) /\ tokens' \in Seq(Tokens) /\ Depth - 1 <= Depth
  BY DepthTypes DEF Blocks, Depth, flowVars, Shape, TypeOK
<1>3. Live' => Spans(tokens', simpleKey'.tokenIndex, Depth)
  BY <1>1, <1>2, KeySpansOn DEF Spanned, Live
<1>4. Spanned'
  BY <1>1, <1>2, <1>3, StackSpansOn DEF Spanned
<1>5. Stacked(tokens')
  BY <1>1, <1>2, AboveStacked
<1>6. Matches(Unclosed(tokens'), indents', flowStack')
  BY <1>1, <1>2
<1> QED
  BY <1>4, <1>5, <1>6 DEF Nested, Running

-----------------------------------------------------------------------------
(* Every step keeps the collections and the stacks together.               *)

LEMMA InitNested == Init => Nested
<1> SUFFICES ASSUME Init PROVE Nested
  OBVIOUS
<1> DEFINE t == TokenAt("streamStart", NoName, 0, 0)
<1>1. /\ tokens = <<t>> /\ indents = <<Sentinel>> /\ flowStack = <<>> /\ phase = "preprocess"
      /\ ~simpleKey.possible /\ simpleKeyStack = <<>>
  BY DEF Init, NoKey
<1>2. t \in Tokens /\ t.val \in Leaves
  BY DEF TokenAt, Tokens, TokenVals, Leaves, BlockStarts, FlowStarts, FlowEnds, Entries
<1> HIDE DEF t
<1>3. /\ tokens \in Seq(Tokens) /\ Len(tokens) = 1 /\ tokens[1] = t
      /\ Len(indents) = 1 /\ Len(flowStack) = 0 /\ Len(simpleKeyStack) = 0
  BY <1>1, <1>2
<1>4. Opened(tokens)[0] = <<>> /\ Opened(tokens)[1] = <<>>
  <2>1. 1 \in 1..Len(tokens) /\ 1 - 1 = 0
    BY <1>3
  <2>2. Opened(tokens)[1] = Bracket(Opened(tokens)[0], t)
    BY <1>3, <2>1, OpenedRun
  <2> QED
    BY <1>2, <1>3, <2>2, OpenedRun, BracketLeaves
<1>5. Stack(<<>>) /\ Len(<<>>) = 0
  BY DEF Stack
<1>6. Stacked(tokens) /\ Unclosed(tokens) = <<>>
  <2>1. \A i \in 0..Len(tokens) : i = 0 \/ i = 1
    BY <1>3
  <2> QED
    BY <1>3, <1>4, <1>5, <2>1 DEF Stacked, Unclosed
<1>7. Matches(<<>>, indents, flowStack)
  BY <1>3, <1>5 DEF Matches
<1>8. Spanned
  BY <1>1, <1>3 DEF Spanned, Live
<1> QED
  BY <1>6, <1>7, <1>8 DEF Nested

LEMMA IdleNested ==
    ASSUME Nested, Idle
    PROVE  Nested'
<1>1. CASE phase' \in ErrorKinds
  BY <1>1 DEF Nested, ErrorKinds, Running, Idle
<1>2. CASE UNCHANGED vars
  BY <1>2 DEF vars, flowVars, Nested, Spanned, Live, InFlow, Depth, Blocks
<1> QED
  BY <1>1, <1>2 DEF Idle

\* A node makes no other key pending.
LEMMA LeafLive ==
    ASSUME Shape, Shape', KeysPlaced, AddsLeaf
    PROVE  Live' => Live /\ simpleKey'.tokenIndex = simpleKey.tokenIndex
<1>1. InFlow' = InFlow
  BY DEF InFlow, flowVars, AddsLeaf
<1>2. line' \in Nat /\ col' \in Nat /\ line <= line'
  BY PlacedTypes DEF AddsLeaf, NotBefore, Shape, TypeOK
<1>3. simpleKey'.possible => simpleKey.line <= line
  BY PlacedTypes DEF KeysPlaced, Running, KeysBefore, KeyBefore, NotBefore, AddsLeaf
<1> QED
  BY <1>1, <1>2, <1>3, PlacedTypes DEF Live, AddsLeaf

LEMMA LeafNested ==
    ASSUME Shape, Shape', Slots, Nested, KeysPlaced, AddsLeaf
    PROVE  Nested'
<1>1. phase \in Running /\ phase' \in Running /\ indents' = indents /\ UNCHANGED flowVars
  BY DEF AddsLeaf, Running
<1>2. /\ Stacked(tokens) /\ Matches(Unclosed(tokens), indents, flowStack)
      /\ tokens \in Seq(Tokens) /\ Depth \in Nat /\ Len(Unclosed(tokens)) = Depth
  BY <1>1, DepthTypes, MatchesDepth DEF Nested
<1>3. Above(tokens, tokens', Depth) /\ Unclosed(tokens') = Unclosed(tokens)
  <2>1. CASE tokens' = tokens
    BY <1>2, <2>1, AboveItself
  <2>2. ASSUME NEW t \in Tokens, t.val \in Leaves, tokens' = Append(tokens, t)
        PROVE  Above(tokens, tokens', Depth) /\ Unclosed(tokens') = Unclosed(tokens)
    BY <1>2, <2>2, AppendsLeaf
  <2> QED
    BY <2>1, <2>2 DEF AddsLeaf
<1>4. Live' => Live /\ simpleKey'.tokenIndex = simpleKey.tokenIndex
  BY LeafLive
<1> QED
  BY <1>1, <1>2, <1>3, <1>4, NestedKept

LEMMA EmitsOne ==
    ASSUME Shape, NEW ts \in Seq(Tokens), NEW v \in TokenVals
    PROVE  LET t == TokenAt(v, NoName, line, col) IN
           t \in Tokens /\ t.val = v /\ t.col = col /\ ts \o Emitted(v) = Append(ts, t)
<1> DEFINE t == TokenAt(v, NoName, line, col)
<1>1. t \in Tokens /\ t.val = v /\ t.col = col
  BY PlacedTypes DEF TokenAt, Tokens
<1>2. Emitted(v) = <<t>>
  BY DEF Emitted
<1> HIDE DEF t
<1>3. ts \o <<t>> = Append(ts, t)
  BY <1>1
<1> QED
  BY <1>1, <1>2, <1>3 DEF t

\* In a block the key pushed is one that a `:` on this line may confirm.
LEMMA PushedLive ==
    ASSUME Shape, KeysPlaced, NEW x \in Openers, FlowStart(x), simpleKey.possible
    PROVE  Live
<1>1. phase = "dispatch"
  BY DEF FlowStart, Content, At
<1>2. x \in Lexemes \ {":", "plain"} /\ At(x)
  BY DEF FlowStart, Content, At, Openers, Shape, TypeOK
<1> QED
  BY <1>1, <1>2, KeyOnLine DEF Live

LEMMA FlowStartNested ==
    ASSUME Shape, Shape', Slots, Nested, KeysPlaced, NEW x \in Openers, FlowStart(x)
    PROVE  Nested'
<1> DEFINE seq == x = "["
           t == TokenAt(FlowVal(seq), NoName, line, col)
<1>1. /\ phase = "dispatch" /\ phase' = "preprocess" /\ indents' = indents
      /\ simpleKeyStack' = Append(simpleKeyStack, simpleKey) /\ ~simpleKey'.possible
      /\ flowLevel' = flowLevel + 1 /\ flowStack' = Append(flowStack, seq)
      /\ tokens' = tokens \o Emitted(FlowVal(seq))
  BY DEF FlowStart, Content, At, Consume, PushesKey, NoKey, FlowVal
<1>2. seq \in BOOLEAN /\ FlowVal(seq) \in TokenVals /\ FlowVal(seq) \in Starts
  BY ValsType DEF FlowVal, Starts, FlowStarts
<1>3. /\ Stacked(tokens) /\ Matches(Unclosed(tokens), indents, flowStack) /\ Spanned
      /\ tokens \in Seq(Tokens) /\ tokens' \in Seq(Tokens)
      /\ Depth \in Nat /\ Len(Unclosed(tokens)) = Depth
  BY <1>1, DepthTypes, MatchesDepth DEF Nested, Running, Shape, TypeOK
<1> HIDE DEF seq
<1>4. t \in Tokens /\ t.val = FlowVal(seq) /\ tokens' = Append(tokens, t)
  BY <1>1, <1>2, <1>3, EmitsOne
<1> HIDE DEF t
<1>5. Above(tokens, tokens', Depth) /\ Unclosed(tokens') = Append(Unclosed(tokens), t)
  BY <1>2, <1>3, <1>4, AppendsStart
<1>6. Matches(Unclosed(tokens'), indents', flowStack')
  <2>1. Len(indents) >= 1 /\ indents \in Seq(Indents) /\ flowStack \in Seq(BOOLEAN)
    BY PlacedTypes
  <2>2. Matches(Append(Unclosed(tokens), t), indents, Append(flowStack, seq))
    BY <1>2, <1>3, <1>4, <2>1, MatchesFlow
  <2> QED
    BY <1>1, <1>5, <2>2
<1>7. simpleKey.possible => Live
  BY PushedLive
<1>8. Spanned'
  <2>1. ~Live' /\ Blocks' = Blocks
    BY <1>1 DEF Live, Blocks
  <2>2. ASSUME NEW j \in 1..Len(simpleKeyStack'), simpleKeyStack'[j].possible
        PROVE  Spans(tokens', simpleKeyStack'[j].tokenIndex, Blocks + (j - 1))
    <3>1. \/ j = flowLevel + 1 /\ simpleKeyStack'[j] = simpleKey
          \/ j \in 1..Len(simpleKeyStack) /\ simpleKeyStack'[j] = simpleKeyStack[j]
      BY <1>1, PlacedTypes
    <3>2. CASE j = flowLevel + 1 /\ simpleKeyStack'[j] = simpleKey
      <4>1. Blocks + (j - 1) = Depth
        BY <3>2, DepthTypes
      <4> QED
        BY <1>3, <1>5, <1>7, <2>2, <3>2, <4>1, KeySpansOn DEF Spanned
    <3>3. CASE j \in 1..Len(simpleKeyStack) /\ simpleKeyStack'[j] = simpleKeyStack[j]
      <4>1. Depth - 1 <= Depth
        BY <1>3
      <4> QED
        BY <1>3, <1>5, <2>2, <3>3, <4>1, StackSpansOn
    <3> QED
      BY <3>1, <3>2, <3>3
  <2> QED
    BY <2>1, <2>2 DEF Spanned
<1>9. Stacked(tokens')
  BY <1>3, <1>5, AboveStacked
<1> QED
  BY <1>1, <1>6, <1>8, <1>9 DEF Nested

LEMMA FlowEndNested ==
    ASSUME Shape, Shape', Slots, Nested, NEW x \in Closers, FlowEnd(x)
    PROVE  Nested'
<1> DEFINE v == IF x = "]" THEN "flowSequenceEnd" ELSE "flowMappingEnd"
           t == TokenAt(v, NoName, line, col)
           n == Len(simpleKeyStack)
           O == Unclosed(tokens)
           e == Depth - 1
<1>1. /\ phase = "dispatch" /\ phase' = "preprocess" /\ indents' = indents
      /\ simpleKeyStack' = SubSeq(simpleKeyStack, 1, n - 1)
      /\ simpleKey' = simpleKeyStack[n]
      /\ flowLevel' = flowLevel - 1
      /\ flowStack' = SubSeq(flowStack, 1, Len(flowStack) - 1)
      /\ tokens' = tokens \o Emitted(v) /\ InFlow
  BY DEF FlowEnd, Content, At, Consume, PopsKey
<1>2. v \in TokenVals /\ v \in FlowEnds
  BY ValsType DEF FlowEnds
<1>3. /\ Stacked(tokens) /\ Matches(O, indents, flowStack) /\ Spanned
      /\ tokens \in Seq(Tokens) /\ tokens' \in Seq(Tokens)
      /\ Depth \in Nat /\ Len(O) = Depth
  BY <1>1, DepthTypes, MatchesDepth DEF Nested, Running, Shape, TypeOK
<1>4. /\ n = flowLevel /\ n \in Nat /\ n >= 1 /\ n \in 1..n /\ n - 1 \in 0..n
      /\ Len(flowStack) >= 1 /\ Len(indents) >= 1 /\ indents \in Seq(Indents)
      /\ flowStack \in Seq(BOOLEAN) /\ e \in Nat /\ Depth - 1 <= e /\ Blocks \in Nat
      /\ Blocks + (n - 1) = e
  <2>1. flowLevel >= 1 /\ n = flowLevel /\ flowLevel \in Nat /\ Len(flowStack) = flowLevel
    BY <1>1, PlacedTypes DEF InFlow
  <2>2. Len(indents) >= 1 /\ indents \in Seq(Indents) /\ flowStack \in Seq(BOOLEAN)
    BY PlacedTypes
  <2>3. Blocks \in Nat /\ Depth = Blocks + flowLevel
    BY DepthTypes
  <2> QED
    BY <2>1, <2>2, <2>3
<1> HIDE DEF v
<1>5. t \in Tokens /\ t.val = v /\ tokens' = Append(tokens, t)
  BY <1>1, <1>2, <1>3, EmitsOne
<1> HIDE DEF t, O, n
<1>6. /\ Matches(SubSeq(O, 1, Len(O) - 1), indents, SubSeq(flowStack, 1, Len(flowStack) - 1))
      /\ O[Len(O)].val \in FlowStarts /\ Len(O) >= 1
  BY <1>3, <1>4, MatchesFlowEnd
<1>7. Above(tokens, tokens', Len(O) - 1) /\ Unclosed(tokens') = SubSeq(O, 1, Len(O) - 1)
  BY <1>2, <1>3, <1>5, <1>6, AppendsEnd DEF O
<1>8. Above(tokens, tokens', e)
  BY <1>3, <1>7
<1> HIDE DEF e
<1>9. Blocks' = Blocks /\ Depth' = e
  <2>1. Blocks' = Blocks
    BY <1>1 DEF Blocks
  <2> QED
    BY <1>1, <1>4, <2>1 DEF Depth
<1>10. Spanned'
  <2>1. \A j \in 1..n : simpleKeyStack[j].possible =>
           Spans(tokens', simpleKeyStack[j].tokenIndex, Blocks + (j - 1))
    BY <1>3, <1>4, <1>8, StackSpansOn DEF n
  <2>2. Len(simpleKeyStack') = n - 1
        /\ \A j \in 1..(n - 1) : simpleKeyStack'[j] = simpleKeyStack[j] /\ j \in 1..n
    <3> DEFINE k == n - 1
    <3>1. simpleKeyStack \in Seq(SimpleKeys) /\ k \in 0..Len(simpleKeyStack) /\ k <= n
      BY <1>4, PlacedTypes DEF n
    <3>2. simpleKeyStack' = SubSeq(simpleKeyStack, 1, k)
      BY <1>1
    <3> HIDE DEF k
    <3>3. Len(simpleKeyStack') = k /\ \A j \in 1..k : simpleKeyStack'[j] = simpleKeyStack[j]
      BY <3>1, <3>2
    <3>4. \A j \in 1..k : j \in 1..n
      BY <1>4, <3>1
    <3> QED
      BY <3>3, <3>4 DEF k
  <2>3. Live' => simpleKeyStack[n].possible
    BY <1>1 DEF Live
  <2>4. Live' => Spans(tokens', simpleKey'.tokenIndex, Depth')
    BY <1>1, <1>4, <1>9, <2>1, <2>3
  <2> QED
    BY <1>9, <2>1, <2>2, <2>4 DEF Spanned
<1>11. Stacked(tokens')
  BY <1>3, <1>8, AboveStacked
<1>12. Matches(Unclosed(tokens'), indents', flowStack')
  BY <1>1, <1>6, <1>7
<1> QED
  BY <1>1, <1>10, <1>11, <1>12 DEF Nested

\* An indicator: ps are the tokens in front of it, which open the new block.
LEMMA IndicatorNested ==
    ASSUME Shape, Shape', Slots, phase' = "preprocess", UNCHANGED flowVars, ~Live',
           NEW ps \in Seq(Tokens), Stacked(ps), Len(tokens) <= Len(ps),
           Matches(Unclosed(ps), indents', flowStack),
           Len(indents) <= Len(indents'), InFlow => indents' = indents,
           \A j \in 1..Len(simpleKeyStack) :
              simpleKeyStack[j].possible =>
                  Spans(ps, simpleKeyStack[j].tokenIndex, Blocks + (j - 1)),
           NEW t \in Tokens, t.val \in Leaves \cup Entries, tokens' = Append(ps, t)
    PROVE  Nested'
<1> DEFINE e == Len(Unclosed(ps))
<1>1. /\ Above(ps, tokens', e) /\ Unclosed(tokens') = Unclosed(ps) /\ e \in Nat
      /\ tokens' \in Seq(Tokens)
  BY AppendsLeaf, LastStack
<1>2. e = Len(indents') - 1 + flowLevel
  BY PlacedTypes DEF Matches
<1> HIDE DEF e
<1>3. Len(indents) \in Nat /\ Len(indents') \in Nat /\ Blocks \in Nat /\ Len(indents) = Blocks + 1
      /\ flowLevel \in Nat /\ Len(simpleKeyStack) = flowLevel
      /\ simpleKeyStack' = simpleKeyStack /\ flowStack' = flowStack
  BY PlacedTypes, DepthTypes, SMTT(30) DEF flowVars, Shape, TypeOK
<1>4. ASSUME NEW j \in 1..Len(simpleKeyStack), simpleKeyStack[j].possible
      PROVE  Spans(tokens', simpleKeyStack[j].tokenIndex, Blocks' + (j - 1))
  <2> DEFINE d == Blocks + (j - 1)
             p == simpleKeyStack[j].tokenIndex
  <2>1. d \in Nat /\ d <= e
    BY <1>2, <1>3
  <2>2. p \in 2..(Len(tokens) - 1)
    BY <1>4 DEF Slots, SlotsReserved, Owns
  <2>3. p \in 1..Len(ps)
    <3>1. Len(tokens) \in Nat /\ Len(ps) \in Nat
      BY DepthTypes
    <3> QED
      BY <2>2, <3>1
  <2>4. Spans(ps, p, d)
    BY <1>4
  <2>5. Blocks' = Blocks
    <3>1. InFlow
      BY <1>3 DEF InFlow
    <3> QED
      BY <3>1 DEF Blocks
  <2> HIDE DEF d, p
  <2>6. Spans(tokens', p, d)
    BY <1>1, <2>1, <2>3, <2>4, SpansOn
  <2> QED
    BY <2>5, <2>6 DEF d, p
<1>5. Spanned'
  BY <1>3, <1>4 DEF Spanned
<1>6. Stacked(tokens')
  BY <1>1, AboveStacked
<1> QED
  BY <1>1, <1>3, <1>5, <1>6 DEF Nested

\* An indicator right of the current block opens one.
LEMMA PushedNested ==
    ASSUME Shape, Slots, Nested, phase = "dispatch", NEW seq \in BOOLEAN
    PROVE  LET ps == PushedTokens(BlockVal(seq)) IN
           /\ ps \in Seq(Tokens) /\ Stacked(ps) /\ Len(tokens) <= Len(ps)
           /\ Matches(Unclosed(ps), PushedIndents(seq), flowStack)
           /\ Len(indents) <= Len(PushedIndents(seq))
           /\ InFlow => PushedIndents(seq) = indents /\ ps = tokens
<1> DEFINE ps == PushedTokens(BlockVal(seq))
           t == TokenAt(BlockVal(seq), NoName, line, col)
           O == Unclosed(tokens)
<1>1. /\ Stacked(tokens) /\ Matches(O, indents, flowStack)
      /\ tokens \in Seq(Tokens) /\ Len(tokens) \in Nat
      /\ indents \in Seq(Indents) /\ Len(indents) \in Nat /\ Len(indents) >= 1
      /\ col \in Nat /\ flowLevel \in Nat /\ Len(flowStack) = flowLevel
  BY DepthTypes, PlacedTypes DEF Nested, Running
<1>2. BlockVal(seq) \in TokenVals /\ BlockVal(seq) \in Starts
  BY ValsType DEF BlockVal, Starts, BlockStarts
<1>3. t \in Tokens /\ t.val = BlockVal(seq) /\ t.col = col
      /\ tokens \o Emitted(BlockVal(seq)) = Append(tokens, t)
  BY <1>1, <1>2, EmitsOne
<1> HIDE DEF t, O
<1>4. CASE OpensBlock
  <2>1. ps = Append(tokens, t) /\ ~InFlow
        /\ PushedIndents(seq) = Append(indents, [column |-> col, isSequence |-> seq])
    BY <1>3, <1>4 DEF PushedTokens, PushedIndents, OpensBlock
  <2>2. ps \in Seq(Tokens) /\ Unclosed(ps) = Append(O, t) /\ Above(tokens, ps, Len(O)) /\ Len(O) \in Nat
    BY <1>1, <1>2, <1>3, <2>1, AppendsStart, LastStack DEF O
  <2>3. Stacked(ps) /\ Len(tokens) <= Len(ps)
    <3>1. Stacked(ps)
      BY <1>1, <2>2, AboveStacked
    <3> QED
      BY <2>2, <3>1 DEF Above
  <2>4. Len(flowStack) = 0
    BY <1>1, <2>1 DEF InFlow
  <2>5. Matches(Append(O, t), Append(indents, [column |-> col, isSequence |-> seq]), flowStack)
    BY <1>1, <1>3, <2>4, MatchesBlock
  <2>6. Len(indents) <= Len(PushedIndents(seq))
    <3>1. [column |-> col, isSequence |-> seq] \in Indents
      BY <1>1 DEF Indents
    <3> QED
      BY <1>1, <2>1, <3>1
  <2> QED
    BY <2>1, <2>2, <2>3, <2>5, <2>6
<1>5. CASE ~OpensBlock
  <2>1. ps = tokens /\ PushedIndents(seq) = indents
    BY <1>5 DEF PushedTokens, PushedIndents
  <2> QED
    BY <1>1, <2>1 DEF O
<1> QED
  BY <1>4, <1>5

LEMMA BlockIndicatorNested ==
    ASSUME Shape, Shape', Slots, Nested, BlockEntry \/ Key
    PROVE  Nested'
<1>1. PICK seq \in BOOLEAN, v \in Entries :
         /\ indents' = PushedIndents(seq)
         /\ tokens' = PushedTokens(BlockVal(seq)) \o Emitted(v)
  BY DEF BlockEntry, Key, BlockVal, Entries
<1>2. phase = "dispatch" /\ phase' = "preprocess" /\ UNCHANGED flowVars
  BY DEF BlockEntry, Key, Content, At, Consume
<1>3. ~Live'
  <2>1. CASE BlockEntry
    <3>1. ~InFlow' /\ simpleKeyAllowed'
      BY <1>2, <2>1 DEF BlockEntry, InFlow, flowVars
    <3> QED
      BY <1>2, <3>1 DEF Live
  <2>2. CASE Key
    BY <2>2 DEF Key, Live, NoKey
  <2> QED
    BY <2>1, <2>2
<1> DEFINE ps == PushedTokens(BlockVal(seq))
           t == TokenAt(v, NoName, line, col)
<1>4. /\ ps \in Seq(Tokens) /\ Stacked(ps) /\ Len(tokens) <= Len(ps)
      /\ Matches(Unclosed(ps), indents', flowStack)
      /\ Len(indents) <= Len(indents')
      /\ InFlow => indents' = indents /\ ps = tokens
  BY <1>1, <1>2, PushedNested
<1> HIDE DEF ps
<1>5. t \in Tokens /\ t.val \in Leaves \cup Entries /\ tokens' = Append(ps, t)
  <2>1. v \in TokenVals
    BY ValsType DEF Entries
  <2> QED
    BY <1>1, <1>4, <2>1, EmitsOne DEF ps
<1> HIDE DEF t
<1>6. ASSUME NEW j \in 1..Len(simpleKeyStack), simpleKeyStack[j].possible
      PROVE  Spans(ps, simpleKeyStack[j].tokenIndex, Blocks + (j - 1))
  <2>1. InFlow
    BY PlacedTypes DEF InFlow
  <2>2. Spanned
    BY <1>2 DEF Nested, Running
  <2> QED
    BY <1>4, <1>6, <2>1, <2>2 DEF Spanned
<1> QED
  BY <1>2, <1>3, <1>4, <1>5, <1>6, IndicatorNested

LEMMA SpansLike ==
    ASSUME NEW ts \in Seq(Tokens), NEW us \in Seq(Tokens), Len(us) = Len(ts),
           \A i \in 0..Len(ts) : Opened(us)[i] = Opened(ts)[i],
           NEW p \in 1..Len(ts), NEW d, Spans(ts, p, d)
    PROVE  Spans(us, p, d)
<1>1. Len(ts) \in Nat /\ p - 1 \in 0..Len(ts) /\ Len(ts) \in 0..Len(ts)
      /\ \A i \in p..Len(ts) : i \in 0..Len(ts)
  OBVIOUS
<1> QED
  BY <1>1 DEF Spans, Unclosed

\* The innermost collection opened around nothing.
LEMMA WrappedTop ==
    ASSUME NEW s, Stack(s), NEW b \in Tokens, b.val \in Starts
    PROVE  Wrapped(s, Len(s), b) = Append(s, b)
<1> DEFINE u == Append(s, b)
           d == Len(s)
<1>1. /\ u \in Seq(Tokens) /\ Len(u) = Len(s) + 1 /\ d \in 0..Len(s)
      /\ \A m \in 1..d : u[m] = s[m]
      /\ u[d + 1] = b
  BY StackAppend DEF Stack
<1> HIDE DEF u, d
<1>2. \A m \in (d + 1)..Len(s) : u[m + 1] = s[m]
  BY <1>1 DEF d
<1>3. IsWrap(u, s, d, b)
  BY <1>1, <1>2 DEF IsWrap
<1>4. u = Wrapped(s, d, b)
  BY <1>1, <1>3, IsWrapped
<1> QED
  BY <1>4 DEF u, d

\* The tokens with the pending key in its second slot, and the start of the
\* mapping that may take the first.
Keyed ==
    [tokens EXCEPT ![simpleKey.tokenIndex + 1] =
        TokenAt("key", NoName, simpleKey.line, simpleKey.col)]
MappingStart == TokenAt("blockMappingStart", NoName, simpleKey.line, simpleKey.col)
Mapped == [Keyed EXCEPT ![simpleKey.tokenIndex] = MappingStart]

LEMMA KeyedOpens ==
    ASSUME Shape, Slots, simpleKey.possible
    PROVE  LET p == simpleKey.tokenIndex IN
           /\ p \in 1..Len(tokens) /\ p + 1 \in 1..Len(tokens) /\ p # p + 1
           /\ tokens[p].val \in Leaves /\ tokens[p + 1].val \in Leaves
           /\ Keyed \in Seq(Tokens) /\ Len(Keyed) = Len(tokens)
           /\ Keyed[p + 1].val = "key" /\ Keyed[p + 1].col = simpleKey.col
           /\ \A i \in 1..Len(tokens) : i # p + 1 => Keyed[i] = tokens[i]
           /\ \A i \in 0..Len(tokens) : Opened(Keyed)[i] = Opened(tokens)[i]
<1> DEFINE p == simpleKey.tokenIndex
           q == p + 1
           k == TokenAt("key", NoName, simpleKey.line, simpleKey.col)
<1>1. tokens \in Seq(Tokens) /\ Len(tokens) \in Nat
      /\ p \in 2..(Len(tokens) - 1) /\ tokens[p].val = "placeholder"
      /\ tokens[q].val = "placeholder"
  BY DepthTypes DEF Slots, SlotsReserved, Owns, TokenAt
<1>2. k \in Tokens /\ k.val = "key" /\ k.col = simpleKey.col
  BY PlacedTypes, ValsType DEF TokenAt, Tokens
<1>3. Keyed = [tokens EXCEPT ![q] = k]
  BY DEF Keyed
<1> HIDE DEF k
<1>4. p \in 1..Len(tokens) /\ q \in 1..Len(tokens) /\ p # q
  BY <1>1
<1> HIDE DEF q
<1>5. /\ Keyed \in Seq(Tokens) /\ Len(Keyed) = Len(tokens) /\ Keyed[q] = k
      /\ \A i \in 1..Len(tokens) : i # q => Keyed[i] = tokens[i]
  BY <1>1, <1>2, <1>3, <1>4
<1>6. tokens[q].val \in Leaves \cup Entries /\ Keyed[q].val \in Leaves \cup Entries
  BY <1>1, <1>2, <1>5, LeafVals DEF Entries
<1>7. \A i \in 0..Len(tokens) : Opened(Keyed)[i] = Opened(tokens)[i]
  BY <1>1, <1>4, <1>5, <1>6, KeyFills
<1> QED
  BY <1>1, <1>2, <1>4, <1>5, <1>7, LeafVals DEF q

LEMMA MappedOpens ==
    ASSUME Shape, Slots, simpleKey.possible
    PROVE  LET p == simpleKey.tokenIndex IN
           /\ Mapped \in Seq(Tokens) /\ Len(Mapped) = Len(Keyed)
           /\ p \in 1..Len(Keyed) /\ Keyed[p].val \in Leaves
           /\ Mapped[p] = MappingStart /\ MappingStart \in Tokens
           /\ MappingStart.val = "blockMappingStart" /\ MappingStart.val \in Starts
           /\ MappingStart.col = simpleKey.col
           /\ \A i \in 1..Len(Keyed) : i # p => Mapped[i] = Keyed[i]
<1> DEFINE p == simpleKey.tokenIndex
<1>1. /\ Keyed \in Seq(Tokens) /\ p \in 1..Len(Keyed) /\ Keyed[p].val \in Leaves
  BY KeyedOpens
<1>2. /\ MappingStart \in Tokens /\ MappingStart.val = "blockMappingStart"
      /\ MappingStart.col = simpleKey.col
  BY PlacedTypes, ValsType DEF TokenAt, Tokens, MappingStart
<1>3. MappingStart.val \in Starts
  BY <1>2 DEF Starts, BlockStarts
<1> HIDE DEF p
<1>4. Mapped = [Keyed EXCEPT ![p] = MappingStart]
  BY DEF Mapped, p
<1>5. /\ Mapped \in Seq(Tokens) /\ Len(Mapped) = Len(Keyed) /\ Mapped[p] = MappingStart
      /\ \A i \in 1..Len(Keyed) : i # p => Mapped[i] = Keyed[i]
  BY <1>1, <1>2, <1>4
<1> QED
  BY <1>1, <1>2, <1>3, <1>5 DEF p

\* The key a `:` confirms is the pending one, and the tokens are these.
LEMMA ResolvedIs ==
    ASSUME Shape, KeysPlaced, Value, ClearedKey.possible
    PROVE  /\ ClearedKey = simpleKey /\ Live /\ simpleKey.possible
           /\ Resolved(ClearedKey) = IF OpensMapping(ClearedKey) THEN Mapped ELSE Keyed
<1>1. ClearedKey = simpleKey /\ Live /\ simpleKey.possible
  BY ConfirmedKey
<1>2. Resolved(simpleKey) = IF OpensMapping(simpleKey) THEN Mapped ELSE Keyed
  BY DEF Resolved, Mapped, Keyed, MappingStart
<1> QED
  BY <1>1, <1>2

\* The tokens once a `:` has confirmed the pending key.
LEMMA ResolvedNested ==
    ASSUME Shape, Slots, Nested, KeysPlaced, Value, ClearedKey.possible
    PROVE  LET ps == Resolved(ClearedKey) IN
           /\ ps \in Seq(Tokens) /\ Stacked(ps) /\ Len(ps) = Len(tokens)
           /\ Matches(Unclosed(ps), indents', flowStack)
           /\ Len(indents) <= Len(indents')
           /\ InFlow => /\ indents' = indents
                        /\ \A i \in 0..Len(tokens) : Opened(ps)[i] = Opened(tokens)[i]
<1> DEFINE key == ClearedKey
           p == simpleKey.tokenIndex
           O == Unclosed(tokens)
           m == MappingStart
<1>1. key = simpleKey /\ Live /\ key.possible /\ phase = "dispatch"
  BY ResolvedIs, ConfirmedKey
<1>2. Resolved(key) = IF OpensMapping(key) THEN Mapped ELSE Keyed
  BY ResolvedIs
<1> HIDE DEF key
<1>3. /\ tokens \in Seq(Tokens) /\ Len(tokens) \in Nat /\ Depth \in Nat
      /\ simpleKey.col \in Nat /\ indents \in Seq(Indents) /\ Len(indents) >= 1
      /\ Len(indents) \in Nat
  BY DepthTypes, PlacedTypes
<1>4. /\ Stacked(tokens) /\ Matches(O, indents, flowStack) /\ Spans(tokens, p, Depth)
      /\ Len(O) = Depth /\ Stack(O)
  BY <1>1, <1>3, MatchesDepth, LastStack DEF Nested, Spanned, Running
<1>5. /\ Keyed \in Seq(Tokens) /\ Len(Keyed) = Len(tokens)
      /\ \A i \in 0..Len(tokens) : Opened(Keyed)[i] = Opened(tokens)[i]
      /\ p \in 1..Len(tokens)
  BY <1>1, KeyedOpens
<1> HIDE DEF p, O
<1>6. Stacked(Keyed) /\ Unclosed(Keyed) = O
  <2>1. Len(tokens) \in 0..Len(tokens)
    BY <1>3
  <2> QED
    BY <1>4, <1>5, <2>1 DEF Stacked, Unclosed, O
<1>7. CASE ~OpensMapping(key)
  <2>1. indents' = indents
    BY <1>1, <1>7 DEF Value, PreparedIndents, key
  <2> QED
    BY <1>2, <1>3, <1>4, <1>5, <1>6, <1>7, <2>1 DEF key
<1>8. CASE OpensMapping(key)
  <2>1. /\ Mapped \in Seq(Tokens) /\ Len(Mapped) = Len(Keyed) /\ p \in 1..Len(Keyed)
        /\ Keyed[p].val \in Leaves /\ Mapped[p] = m /\ m \in Tokens
        /\ m.val = "blockMappingStart" /\ m.val \in Starts /\ m.col = simpleKey.col
        /\ \A i \in 1..Len(Keyed) : i # p => Mapped[i] = Keyed[i]
    BY <1>1, MappedOpens DEF p
  <2> HIDE DEF m
  <2>2. Spans(Keyed, p, Depth)
    BY <1>3, <1>4, <1>5, SpansLike
  <2>3. Stacked(Mapped) /\ Unclosed(Mapped) = Wrapped(O, Depth, m)
    <3>1. Mapped[p].val \in Starts
      BY <2>1
    <3> QED
      BY <1>3, <1>5, <1>6, <2>1, <2>2, <3>1, StartStacked
  <2>4. Unclosed(Mapped) = Append(O, m)
    BY <1>4, <2>1, <2>3, WrappedTop
  <2>5. /\ indents' = Append(indents, [column |-> simpleKey.col, isSequence |-> FALSE])
        /\ ~InFlow
    BY <1>1, <1>8 DEF Value, PreparedIndents, OpensMapping, key
  <2>6. Len(flowStack) = 0
    BY <2>5, PlacedTypes DEF InFlow
  <2>7. m.val = BlockVal(FALSE)
    BY <2>1 DEF BlockVal
  <2>8. Matches(Append(O, m), Append(indents, [column |-> simpleKey.col, isSequence |-> FALSE]), flowStack)
    BY <1>3, <1>4, <2>1, <2>6, <2>7, MatchesBlock
  <2>9. Len(indents) <= Len(indents')
    <3>1. [column |-> simpleKey.col, isSequence |-> FALSE] \in Indents
      BY <1>3 DEF Indents
    <3> QED
      BY <1>3, <2>5, <3>1
  <2> QED
    BY <1>2, <1>5, <1>8, <2>1, <2>3, <2>4, <2>5, <2>8, <2>9 DEF key
<1> QED
  BY <1>7, <1>8

LEMMA ValueNested ==
    ASSUME Shape, Shape', Slots, Nested, KeysPlaced, Value
    PROVE  Nested'
<1> DEFINE ps == PreparedTokens(ClearedKey)
           t == TokenAt("value", NoName, line, col)
<1>1. /\ phase = "dispatch" /\ phase' = "preprocess" /\ UNCHANGED flowVars /\ ~Live'
      /\ tokens' = ps \o Emitted("value") /\ indents' = PreparedIndents(ClearedKey)
  BY ConfirmedKey DEF Value, Consume, Live, NoKey
<1>2. /\ Stacked(tokens) /\ Matches(Unclosed(tokens), indents, flowStack) /\ Spanned
      /\ tokens \in Seq(Tokens) /\ Len(tokens) \in Nat /\ Len(indents) \in Nat
  BY <1>1, DepthTypes, PlacedTypes DEF Nested, Running
<1>3. /\ ps \in Seq(Tokens) /\ Stacked(ps) /\ Len(tokens) <= Len(ps)
      /\ Matches(Unclosed(ps), indents', flowStack)
      /\ Len(indents) <= Len(indents')
      /\ InFlow => /\ indents' = indents /\ Len(ps) = Len(tokens)
                   /\ \A i \in 0..Len(tokens) : Opened(ps)[i] = Opened(tokens)[i]
  <2>1. CASE ClearedKey.possible
    <3>1. ps = Resolved(ClearedKey)
      BY <2>1 DEF PreparedTokens
    <3> HIDE DEF ps
    <3> QED
      BY <1>2, <2>1, <3>1, ResolvedNested
  <2>2. CASE ~ClearedKey.possible /\ explicitKeyLine # NoLine
    <3>1. ps = tokens /\ indents' = indents
      BY <1>1, <2>2 DEF PreparedTokens, PreparedIndents, OpensMapping
    <3> QED
      BY <1>2, <3>1
  <2>3. CASE ~ClearedKey.possible /\ explicitKeyLine = NoLine
    <3>1. ps = PushedTokens(BlockVal(FALSE)) /\ indents' = PushedIndents(FALSE)
      BY <1>1, <2>3 DEF PreparedTokens, PreparedIndents, OpensMapping, BlockVal
    <3> HIDE DEF ps
    <3> QED
      BY <1>1, <3>1, PushedNested
  <2> QED
    BY <2>1, <2>2, <2>3
<1> HIDE DEF ps
<1>4. t \in Tokens /\ t.val \in Leaves \cup Entries /\ tokens' = Append(ps, t)
  BY <1>1, <1>3, EmitsOne, ValsType, LeafVals
<1> HIDE DEF t
<1>5. ASSUME NEW j \in 1..Len(simpleKeyStack), simpleKeyStack[j].possible
      PROVE  Spans(ps, simpleKeyStack[j].tokenIndex, Blocks + (j - 1))
  <2> DEFINE p == simpleKeyStack[j].tokenIndex
             d == Blocks + (j - 1)
  <2>1. InFlow
    BY PlacedTypes DEF InFlow
  <2>2. Spans(tokens, p, d)
    BY <1>2, <1>5 DEF Spanned
  <2>3. p \in 1..Len(tokens)
    BY <1>2, <1>5 DEF Slots, SlotsReserved, Owns
  <2> HIDE DEF p, d
  <2>4. Spans(ps, p, d)
    BY <1>2, <1>3, <2>1, <2>2, <2>3, SpansLike
  <2> QED
    BY <2>4 DEF p, d
<1>6. InFlow => indents' = indents
  BY <1>3
<1> QED
  BY <1>1, <1>3, <1>4, <1>5, <1>6, IndicatorNested

\* The ends of the blocks above entry k of the indentation stack.
LEMMA ClosesBlocks ==
    ASSUME Shape, Stacked(tokens), Matches(Unclosed(tokens), indents, flowStack),
           NEW l \in Nat, NEW c \in Nat, NEW k \in 1..Len(indents),
           InFlow => k = Len(indents)
    PROVE  LET us == tokens \o BlockEnds(k, l, c) IN
           /\ us \in Seq(Tokens) /\ Stacked(us) /\ Len(tokens) <= Len(us)
           /\ Matches(Unclosed(us), SubSeq(indents, 1, k), flowStack)
           /\ Above(tokens, us, k - 1 + flowLevel)
<1> DEFINE vs == BlockEnds(k, l, c)
           us == tokens \o vs
           O == Unclosed(tokens)
           n == Len(indents)
<1>1. /\ tokens \in Seq(Tokens) /\ n \in Nat /\ k \in Nat /\ k >= 1 /\ k <= n
      /\ indents \in Seq(Indents) /\ n >= 1
      /\ flowLevel \in Nat /\ Len(flowStack) = flowLevel
      /\ Len(O) = n - 1 + flowLevel
  <2>1. Len(O) = n - 1 + Len(flowStack)
    BY DEF Matches
  <2>2. tokens \in Seq(Tokens) /\ indents \in Seq(Indents) /\ n \in Nat \ {0}
        /\ flowLevel \in Nat /\ Len(flowStack) = flowLevel
    BY DepthTypes, PlacedTypes
  <2> HIDE DEF O, n
  <2>3. k \in 1..n
    BY DEF n
  <2> QED
    BY <2>1, <2>2, <2>3
<1>2. vs \in Seq(Tokens) /\ Len(vs) = n - k /\ \A i \in 1..Len(vs) : vs[i].val = "blockEnd"
  <2>1. vs \in Seq(Tokens) /\ Len(vs) = n - k
    BY BlockEndsType DEF Shape
  <2> QED
    BY <2>1 DEF BlockEnds, TokenAt
<1>3. Len(vs) <= Len(O) /\ Len(O) - Len(vs) = k - 1 + flowLevel
  BY <1>1, <1>2
<1>4. ASSUME NEW m \in (Len(O) - Len(vs) + 1)..Len(O) PROVE O[m].val \in BlockStarts
  <2>1. ~InFlow /\ flowLevel = 0
    <3>1. n # k
      BY <1>1, <1>2
    <3> QED
      BY <1>1, <3>1 DEF InFlow
  <2>2. m \in 1..(n - 1)
    BY <1>1, <1>3, <2>1
  <2>3. O[m].val = BlockVal(indents[m + 1].isSequence)
    BY <2>2 DEF Matches
  <2> QED
    BY <2>3 DEF BlockVal, BlockStarts
<1> HIDE DEF vs
<1>5. /\ us \in Seq(Tokens)
      /\ Unclosed(us) = SubSeq(O, 1, Len(O) - Len(vs))
      /\ Above(tokens, us, Len(O) - Len(vs))
  BY <1>1, <1>2, <1>3, <1>4, AppendsBlockEnds
<1>6. Stacked(us) /\ Len(tokens) <= Len(us)
  <2> HIDE DEF us, O
  <2>1. Stacked(us)
    BY <1>1, <1>5, AboveStacked
  <2> QED
    BY <1>5, <2>1 DEF Above
<1>7. Matches(Unclosed(us), SubSeq(indents, 1, k), flowStack)
  <2> HIDE DEF us, O
  <2>1. CASE InFlow
    <3>1. k = n /\ SubSeq(indents, 1, k) = indents
      BY <1>1, <2>1
    <3>2. Stack(O) /\ O \in Seq(Tokens) /\ Len(O) \in Nat
      BY <1>1, LastStack DEF O
    <3>3. SubSeq(O, 1, Len(O)) = O
      BY <3>2
    <3>4. Len(O) - Len(vs) = Len(O)
      BY <1>1, <1>2, <3>1, <3>2
    <3> QED
      BY <1>5, <3>1, <3>3, <3>4 DEF O
  <2>2. CASE ~InFlow
    <3>1. Len(flowStack) = 0 /\ Len(O) - Len(vs) = k - 1
      BY <1>1, <1>3, <2>2 DEF InFlow
    <3>2. Matches(SubSeq(O, 1, k - 1), SubSeq(indents, 1, k), flowStack)
      BY <1>1, <3>1, MatchesUnwound DEF O
    <3> QED
      BY <1>5, <3>1, <3>2
  <2> QED
    BY <2>1, <2>2
<1>8. Above(tokens, us, k - 1 + flowLevel)
  BY <1>3, <1>5
<1> QED
  BY <1>5, <1>6, <1>7, <1>8 DEF us, vs

\* A marker and the end of the stream close everything.
LEMMA ClosingNested ==
    ASSUME Shape, Shape', Nested, phase \in Running, ~InFlow, UNCHANGED flowVars,
           NEW v \in Leaves, indents' = SubSeq(indents, 1, 1),
           tokens' = tokens \o BlockEnds(1, line, col) \o Emitted(v),
           phase' \in Running => simpleKey' = NoKey
    PROVE  Nested'
<1> DEFINE us == tokens \o BlockEnds(1, line, col)
           t == TokenAt(v, NoName, line, col)
<1>1. /\ Stacked(tokens) /\ Matches(Unclosed(tokens), indents, flowStack)
      /\ line \in Nat /\ col \in Nat /\ 1 \in 1..Len(indents)
      /\ flowLevel = 0 /\ Len(flowStack) = 0 /\ Len(simpleKeyStack) = 0
  BY PlacedTypes DEF Nested, InFlow
<1>2. us \in Seq(Tokens) /\ Stacked(us) /\ Matches(Unclosed(us), SubSeq(indents, 1, 1), flowStack)
  BY <1>1, ClosesBlocks
<1> HIDE DEF us
<1>3. t \in Tokens /\ t.val = v /\ tokens' = Append(us, t)
  <2>1. v \in TokenVals
    BY LeafVals
  <2> QED
    BY <1>2, <2>1, EmitsOne DEF us
<1> HIDE DEF t
<1>4. Unclosed(tokens') = Unclosed(us) /\ Stacked(tokens')
  <2>1. /\ tokens' \in Seq(Tokens) /\ Unclosed(tokens') = Unclosed(us)
        /\ Above(us, tokens', Len(Unclosed(us)))
    BY <1>2, <1>3, AppendsLeaf
  <2> QED
    BY <1>2, <2>1, AboveStacked
<1>5. Matches(Unclosed(tokens'), indents', flowStack')
  <2>1. flowStack' = flowStack
    BY DEF flowVars
  <2> QED
    BY <1>2, <1>4, <2>1
<1>6. Unclosed(tokens') = <<>>
  <2>1. Len(indents') = 1 /\ Len(flowStack') = 0
    BY <1>1, PlacedTypes DEF flowVars
  <2>2. Len(Unclosed(tokens')) = 0
    BY <1>5, <2>1 DEF Matches
  <2>3. Unclosed(tokens') \in Seq(Tokens)
    BY <1>2, <1>4, LastStack
  <2> HIDE DEF Unclosed
  <2> QED
    BY <2>2, <2>3
<1>7. phase' \in Running => Spanned'
  <2>1. Len(simpleKeyStack') = 0
    BY <1>1 DEF flowVars
  <2> QED
    BY <2>1 DEF Spanned, Live, NoKey
<1> QED
  BY <1>4, <1>5, <1>6, <1>7 DEF Nested

LEMMA CloseNested ==
    ASSUME Shape, Shape', Nested, EndOfStream \/ DocumentStart \/ DocumentEnd
    PROVE  Nested'
<1>1. PICK v \in Leaves :
         /\ indents' = SubSeq(indents, 1, 1)
         /\ tokens' = tokens \o BlockEnds(1, line, col) \o Emitted(v)
  BY LeafVals DEF EndOfStream, DocumentStart, DocumentEnd, CloseDocument
<1>2. phase \in Running /\ ~InFlow /\ UNCHANGED flowVars
  BY DEF EndOfStream, DocumentStart, DocumentEnd, CloseDocument, AtMarker, At, Running
<1>3. phase' \in Running => simpleKey' = NoKey
  BY DEF EndOfStream, DocumentStart, DocumentEnd, CloseDocument, Running
<1> QED
  BY <1>1, <1>2, <1>3, ClosingNested

LEMMA Joined ==
    ASSUME NEW ts \in Seq(Tokens), NEW ps \in Seq(Tokens)
    PROVE  /\ Len(ts) \in Nat /\ ts \o ps \in Seq(Tokens)
           /\ Len(ts \o ps) = Len(ts) + Len(ps)
           /\ \A i \in 1..Len(ts) : (ts \o ps)[i] = ts[i]
           /\ \A i \in 1..Len(ps) : (ts \o ps)[Len(ts) + i] = ps[i]
OBVIOUS

LEMMA TwoAppended ==
    ASSUME NEW ts \in Seq(Tokens), NEW ps \in Seq(Tokens), NEW v \in Tokens,
           Len(ps) = 2, ps[1] = v, ps[2] = v
    PROVE  ts \o ps = Append(Append(ts, v), v)
<1> DEFINE n == Len(ts)
           us == ts \o ps
           ts1 == Append(ts, v)
           ws == Append(ts1, v)
<1>1. /\ n \in Nat /\ us \in Seq(Tokens) /\ Len(us) = n + 2
      /\ \A i \in 1..n : us[i] = ts[i]
      /\ us[n + 1] = v /\ us[n + 2] = v
  <2>1. 1 \in 1..Len(ps) /\ 2 \in 1..Len(ps)
    OBVIOUS
  <2>2. /\ n \in Nat /\ us \in Seq(Tokens) /\ Len(us) = n + Len(ps)
        /\ \A i \in 1..n : us[i] = ts[i]
        /\ \A i \in 1..Len(ps) : us[n + i] = ps[i]
    BY Joined
  <2> HIDE DEF us, n
  <2> QED
    BY <2>1, <2>2
<1>2. ts1 \in Seq(Tokens) /\ Len(ts1) = n + 1 /\ ts1[n + 1] = v /\ \A i \in 1..n : ts1[i] = ts[i]
  OBVIOUS
<1> HIDE DEF ts1, us, n
<1>3. /\ ws \in Seq(Tokens) /\ Len(ws) = n + 2 /\ ws[n + 2] = v
      /\ \A i \in 1..(n + 1) : ws[i] = ts1[i]
  BY <1>1, <1>2
<1> HIDE DEF ws
<1>4. ASSUME NEW i \in 1..Len(us) PROVE us[i] = ws[i]
  <2>1. CASE i \in 1..n
    <3>1. i \in 1..(n + 1)
      BY <1>1, <2>1
    <3> QED
      BY <1>1, <1>2, <1>3, <2>1, <3>1
  <2>2. CASE i = n + 1
    <3>1. n + 1 \in 1..(n + 1)
      BY <1>1
    <3> QED
      BY <1>1, <1>2, <1>3, <2>2, <3>1
  <2>3. CASE i = n + 2
    BY <1>1, <1>3, <2>3
  <2> QED
    BY <1>1, <2>1, <2>2, <2>3
<1>5. us = ws
  BY <1>1, <1>3, <1>4, SameSequence
<1> QED
  BY <1>5 DEF us, ws, ts1

\* Slots that begin where a key is saved.
LEMMA SlotsSpan ==
    ASSUME NEW ts \in Seq(Tokens), Stacked(ts), NEW l \in Nat, NEW c \in Nat
    PROVE  LET us == ts \o Placeholders(l, c) IN
           /\ us \in Seq(Tokens) /\ Unclosed(us) = Unclosed(ts)
           /\ Above(ts, us, Len(Unclosed(ts)))
           /\ Spans(us, Len(ts) + 1, Len(Unclosed(ts)))
<1> DEFINE v == TokenAt("placeholder", NoName, l, c)
           ts1 == Append(ts, v)
           us == ts \o Placeholders(l, c)
           e == Len(Unclosed(ts))
<1>1. v \in Tokens /\ v.val \in Leaves
  BY LeafVals, ValsType DEF TokenAt, Tokens
<1>2. us = Append(ts1, v)
  <2> DEFINE ps == Placeholders(l, c)
  <2>1. ps \in Seq(Tokens) /\ Len(ps) = 2 /\ ps[1] = v /\ ps[2] = v
    BY PlaceholdersType
  <2> HIDE DEF ps, v
  <2>2. ts \o ps = Append(ts1, v)
    BY <1>1, <2>1, TwoAppended
  <2> QED
    BY <2>2 DEF ps
<1> HIDE DEF v, us
<1>3. /\ ts1 \in Seq(Tokens) /\ Unclosed(ts1) = Unclosed(ts) /\ Above(ts, ts1, e) /\ e \in Nat
  BY <1>1, AppendsLeaf, LastStack
<1>4. Stacked(ts1)
  BY <1>3, AboveStacked
<1> HIDE DEF ts1
<1>5. us \in Seq(Tokens) /\ Unclosed(us) = Unclosed(ts) /\ Above(ts1, us, e)
  BY <1>1, <1>2, <1>3, <1>4, AppendsLeaf
<1>6. Above(ts, us, e)
  BY <1>3, <1>5, AboveOn
<1>7. Spans(us, Len(ts) + 1, e)
  <2>1. Len(ts) \in Nat /\ Len(ts) \in 0..Len(ts) /\ (Len(ts) + 1) - 1 = Len(ts)
        /\ \A i \in (Len(ts) + 1)..Len(us) : i \in Len(ts)..Len(us)
    BY <1>5
  <2>2. Opened(us)[Len(ts)] = Unclosed(ts)
    BY <1>6, <2>1 DEF Above, Unclosed
  <2> QED
    BY <1>5, <1>6, <2>1, <2>2 DEF Spans, Above
<1> QED
  BY <1>5, <1>6, <1>7 DEF us, e

\* In a flow collection no block is closed.
LEMMA FlowKeepsBlocks ==
    ASSUME Shape, NEW l \in Lines, NEW c \in Cols, Preprocess(l, c), InFlow
    PROVE  Blocks' = Blocks
<1>1. indents' = SubSeq(indents, 1, Len(indents))
  BY DEF Preprocess, ChecksIndent
<1> QED
  BY <1>1, PlacedTypes DEF Blocks

\* A key that is kept is of this line, and no block is closed.
LEMMA KeptKey ==
    ASSUME Shape, KeysPlaced, NEW l \in Lines, NEW c \in Cols, Preprocess(l, c),
           Live', ~SavesKey(l)
    PROVE  Live /\ indents' = indents /\ simpleKey' = simpleKey
<1>1. /\ simpleKey' = simpleKey /\ simpleKey.possible /\ InFlow' = InFlow /\ line' = l
      /\ Due /\ l \in Nat /\ (l = line \/ l > line)
  BY PreprocessAdds, PlacedTypes
     DEF Preprocess, Live, InFlow, flowVars, KeysPlaced, Running, ContentAt
<1>2. ~ChecksIndent(l) => indents' = indents
  <2>1. ASSUME ~ChecksIndent(l) PROVE indents' = SubSeq(indents, 1, Len(indents))
    BY <2>1 DEF Preprocess
  <2> QED
    BY <2>1, PlacedTypes
<1>3. CASE InFlow
  BY <1>1, <1>2, <1>3 DEF Live, ChecksIndent
<1>4. CASE ~InFlow
  <2>1. simpleKey.line = l
    BY <1>1, <1>4 DEF Live
  <2>2. ~simpleKeyAllowed /\ ~(l > line)
    <3>1. ~InFlowSequence
      BY <1>4, PlacedTypes DEF InFlow, InFlowSequence
    <3> QED
      BY <1>4, <3>1 DEF SavesKey
  <2>3. l = line /\ ~needIndentCheck
    BY <1>1, <1>4, <2>1, <2>2, PlacedTypes DEF Due
  <2> QED
    BY <1>1, <1>2, <1>4, <2>1, <2>2, <2>3 DEF Live, ChecksIndent
<1> QED
  BY <1>3, <1>4

LEMMA PreprocessNested ==
    ASSUME Shape, Shape', Slots, Nested, KeysPlaced, NEW l \in Lines, NEW c \in Cols,
           Preprocess(l, c)
    PROVE  Nested'
<1>1. /\ l \in Nat /\ c \in Nat /\ line' = l /\ phase \in Running /\ phase' = "dispatch"
      /\ UNCHANGED flowVars /\ (l = line \/ l > line)
  BY PreprocessAdds, PlacedTypes DEF Preprocess, Running, ContentAt
<1>2. PICK k \in 1..Len(indents) :
         /\ IF ChecksIndent(l) THEN UnwindsTo(k, c) ELSE k = Len(indents)
         /\ indents' = SubSeq(indents, 1, k)
         /\ tokens' = IF SavesKey(l)
                      THEN (tokens \o BlockEnds(k, l, c)) \o Placeholders(l, c)
                      ELSE tokens \o BlockEnds(k, l, c)
         /\ simpleKey' = IF SavesKey(l)
                         THEN [possible |-> TRUE,
                               tokenIndex |-> Len(tokens \o BlockEnds(k, l, c)) + 1,
                               line |-> l, col |-> c, endLine |-> l]
                         ELSE simpleKey
  BY DEF Preprocess
<1> DEFINE us == tokens \o BlockEnds(k, l, c)
           e == k - 1 + flowLevel
<1>3. /\ Stacked(tokens) /\ Matches(Unclosed(tokens), indents, flowStack) /\ Spanned
      /\ KeysBefore /\ Due
  BY <1>1 DEF Nested, KeysPlaced
<1>4. InFlow => k = Len(indents)
  BY <1>2 DEF ChecksIndent
<1>5. /\ us \in Seq(Tokens) /\ Stacked(us)
      /\ Matches(Unclosed(us), indents', flowStack) /\ Above(tokens, us, e)
  BY <1>1, <1>2, <1>3, <1>4, ClosesBlocks
<1>6. /\ Len(indents') = k /\ Blocks' = k - 1 /\ Depth' = e /\ e \in Nat
      /\ flowStack' = flowStack /\ flowLevel' = flowLevel /\ simpleKeyStack' = simpleKeyStack
      /\ Len(flowStack) = flowLevel /\ flowLevel \in Nat
      /\ tokens \in Seq(Tokens) /\ tokens' \in Seq(Tokens) /\ InFlow' = InFlow
      /\ Len(indents) = Blocks + 1 /\ Depth = Blocks + flowLevel /\ Blocks \in Nat
  <2>1. Len(indents') = k
    BY <1>2, PlacedTypes
  <2>2. /\ flowStack' = flowStack /\ flowLevel' = flowLevel /\ simpleKeyStack' = simpleKeyStack
        /\ InFlow' = InFlow
    BY <1>1 DEF flowVars, InFlow
  <2>3. /\ Len(flowStack) = flowLevel /\ flowLevel \in Nat /\ tokens \in Seq(Tokens)
        /\ Len(indents) = Blocks + 1 /\ Depth = Blocks + flowLevel /\ Blocks \in Nat
    BY DepthTypes
  <2>4. Blocks' = k - 1 /\ Depth' = e
    BY <2>1, <2>2 DEF Blocks, Depth
  <2>5. tokens' \in Seq(Tokens)
    BY DEF Shape, TypeOK
  <2>6. e \in Nat
    BY <2>3
  <2> QED
    BY <2>1, <2>2, <2>3, <2>4, <2>5, <2>6
<1>7. Len(Unclosed(us)) = e
  BY <1>5, <1>6 DEF Matches
<1>8. tokens' = IF SavesKey(l) THEN us \o Placeholders(l, c) ELSE us
  BY <1>2
<1>9. SavesKey(l) => simpleKey'.tokenIndex = Len(us) + 1
  BY <1>2
<1>10. ~SavesKey(l) => simpleKey' = simpleKey
  BY <1>2
<1> HIDE DEF us, e
<1>11. /\ Above(tokens, tokens', e) /\ Unclosed(tokens') = Unclosed(us)
       /\ SavesKey(l) => Spans(tokens', Len(us) + 1, e)
  <2>1. CASE SavesKey(l)
    <3> DEFINE ws == us \o Placeholders(l, c)
    <3>1. /\ ws \in Seq(Tokens) /\ Unclosed(ws) = Unclosed(us) /\ Above(us, ws, e)
          /\ Spans(ws, Len(us) + 1, e)
      BY <1>1, <1>5, <1>7, SlotsSpan
    <3> HIDE DEF ws
    <3>2. Above(tokens, ws, e)
      BY <1>5, <1>6, <3>1, AboveOn
    <3>3. tokens' = ws
      BY <1>8, <2>1 DEF ws
    <3> QED
      BY <3>1, <3>2, <3>3
  <2>2. CASE ~SavesKey(l)
    BY <1>5, <1>8, <2>2
  <2> QED
    BY <2>1, <2>2
<1>12. Live' /\ ~SavesKey(l) => Live /\ k = Len(indents)
  BY <1>6, KeptKey
<1>13. Live' => Spans(tokens', simpleKey'.tokenIndex, Depth')
  <2>1. CASE SavesKey(l)
    BY <1>6, <1>9, <1>11, <2>1
  <2>2. ASSUME ~SavesKey(l), Live' PROVE Spans(tokens', simpleKey'.tokenIndex, Depth')
    <3>1. Live /\ e = Depth /\ simpleKey' = simpleKey
      BY <1>6, <1>10, <1>12, <2>2 DEF e
    <3> QED
      BY <1>3, <1>6, <1>11, <3>1, KeySpansOn DEF Spanned, Live
  <2> QED
    BY <2>1, <2>2
<1>14. ASSUME NEW j \in 1..Len(simpleKeyStack), simpleKeyStack[j].possible
       PROVE  Spans(tokens', simpleKeyStack[j].tokenIndex, Blocks' + (j - 1))
  <2>1. InFlow
    BY PlacedTypes DEF InFlow
  <2>2. k = Len(indents) /\ Blocks' = Blocks /\ Depth - 1 <= e
    BY <1>4, <1>6, <2>1 DEF e
  <2> QED
    BY <1>3, <1>6, <1>11, <1>14, <2>2, StackSpansOn
<1>15. Spanned'
  BY <1>6, <1>13, <1>14 DEF Spanned
<1>16. Stacked(tokens')
  BY <1>3, <1>6, <1>11, AboveStacked
<1>17. Matches(Unclosed(tokens'), indents', flowStack')
  BY <1>5, <1>6, <1>11
<1> QED
  BY <1>1, <1>15, <1>16, <1>17 DEF Nested

LEMMA StepNested ==
    ASSUME Shape, Shape', Slots, KeysPlaced, Nested, [Next]_vars
    PROVE  Nested'
BY StepActions, IdleNested, LeafNested, PreprocessNested, CloseNested, FlowStartNested,
   FlowEndNested, BlockIndicatorNested, ValueNested

NestInv == Shape /\ Slots /\ KeysPlaced /\ Nested

LEMMA NestInvariant == Spec => []NestInv
<1>1. Init => NestInv
  BY InitShape, InitSlots, InitPlaced, InitNested DEF NestInv
<1>2. NestInv /\ [Next]_vars => NestInv'
  BY StepShape, StepSlots, StepPlaced, StepNested DEF NestInv
<1> QED
  BY <1>1, <1>2, PTL DEF Spec

-----------------------------------------------------------------------------
(* What the invariant says of the tokens.                                  *)

LEMMA SameVals ==
    ASSUME NEW s \in Seq(Starts), NEW u \in Seq(Starts), Len(s) = Len(u),
           \A i \in 1..Len(s) : s[i] = u[i]
    PROVE  s = u
OBVIOUS

LEMMA JoinedVals ==
    ASSUME NEW s \in Seq(Starts), NEW u \in Seq(Starts)
    PROVE  /\ s \o u \in Seq(Starts) /\ Len(s \o u) = Len(s) + Len(u)
           /\ \A i \in 1..Len(s) : (s \o u)[i] = s[i]
           /\ \A i \in 1..Len(u) : (s \o u)[Len(s) + i] = u[i]
OBVIOUS

LEMMA ValsOf ==
    ASSUME NEW s, Stack(s)
    PROVE  /\ Vals(s) \in Seq(Starts) /\ Len(Vals(s)) = Len(s) /\ Len(s) \in Nat
           /\ \A i \in 1..Len(s) : Vals(s)[i] = s[i].val
<1> DEFINE n == Len(s)
           w == Vals(s)
<1>1. s \in Seq(Tokens) /\ n \in Nat /\ DOMAIN s = 1..n /\ \A i \in 1..n : s[i].val \in Starts
  BY DEF Stack
<1>2. w = [i \in 1..n |-> s[i].val]
  BY <1>1 DEF Vals
<1> HIDE DEF w, n
<1>3. w \in [1..n -> Starts]
  BY <1>1, <1>2
<1>4. w \in Seq(Starts) /\ Len(w) = n
  BY <1>1, <1>3
<1> QED
  BY <1>1, <1>2, <1>4 DEF w, n

LEMMA FlowsOf ==
    ASSUME Shape, NEW j \in 1..(flowLevel + 1)
    PROVE  /\ FlowsFrom(j) \in Seq(Starts) /\ Len(FlowsFrom(j)) = flowLevel - j + 1
           /\ \A i \in 1..(flowLevel - j + 1) :
                 FlowsFrom(j)[i] = FlowVal(flowStack[j + i - 1])
<1> DEFINE n == flowLevel - j + 1
           w == FlowsFrom(j)
<1>1. n \in Nat /\ Len(flowStack) = flowLevel
  BY PlacedTypes
<1>2. w = [i \in 1..n |-> FlowVal(flowStack[j + i - 1])]
  BY <1>1 DEF FlowsFrom, FlowVal
<1> HIDE DEF w, n
<1>3. \A i \in 1..n : FlowVal(flowStack[j + i - 1]) \in Starts
  BY DEF FlowVal, Starts, FlowStarts
<1>4. w \in [1..n -> Starts]
  BY <1>2, <1>3
<1>5. w \in Seq(Starts) /\ Len(w) = n
  BY <1>1, <1>4
<1> QED
  BY <1>2, <1>5 DEF w, n

LEMMA BlocksOf ==
    ASSUME Shape
    PROVE  /\ OpenBlocks \in Seq(Starts) /\ Len(OpenBlocks) = Blocks
           /\ \A i \in 1..Blocks : OpenBlocks[i] = BlockVal(indents[i + 1].isSequence)
<1> DEFINE w == OpenBlocks
<1>1. Blocks \in Nat /\ w = [i \in 1..Blocks |-> BlockVal(indents[i + 1].isSequence)]
  BY DepthTypes DEF Blocks, OpenBlocks, BlockVal
<1> HIDE DEF w
<1>2. \A i \in 1..Blocks : BlockVal(indents[i + 1].isSequence) \in Starts
  BY DEF BlockVal, Starts, BlockStarts
<1>3. w \in [1..Blocks -> Starts]
  BY <1>1, <1>2
<1>4. w \in Seq(Starts) /\ Len(w) = Blocks
  BY <1>1, <1>3
<1> QED
  BY <1>1, <1>4 DEF w

LEMMA NestOpens == NestInv => OpenCollections
<1> SUFFICES ASSUME NestInv PROVE OpenCollections
  OBVIOUS
<1> DEFINE O == Unclosed(tokens)
<1>1. Shape /\ Nested
  BY DEF NestInv
<1>2. phase = "accepted" => O = <<>>
  BY <1>1 DEF Nested
<1>3. ASSUME phase \in Running
      PROVE  /\ Vals(O) = OpenBlocks \o FlowsFrom(1)
             /\ \A i \in 1..(Len(indents) - 1) : O[i].col = indents[i + 1].column
  <2>1. Matches(O, indents, flowStack)
    BY <1>1, <1>3 DEF Nested
  <2> HIDE DEF O
  <2>2. /\ Stack(O) /\ Len(O) = Blocks + flowLevel
        /\ \A i \in 1..Blocks : O[i].val = BlockVal(indents[i + 1].isSequence)
                                /\ O[i].col = indents[i + 1].column
        /\ \A j \in 1..flowLevel : O[Blocks + j].val = FlowVal(flowStack[j])
        /\ Blocks \in Nat /\ flowLevel \in Nat
    BY <1>1, <2>1, DepthTypes DEF Matches, Blocks
  <2>3. Vals(O) \in Seq(Starts) /\ Len(Vals(O)) = Blocks + flowLevel
        /\ \A i \in 1..(Blocks + flowLevel) : Vals(O)[i] = O[i].val
    BY <2>2, ValsOf
  <2>4. /\ FlowsFrom(1) \in Seq(Starts) /\ Len(FlowsFrom(1)) = flowLevel
        /\ \A j \in 1..flowLevel : FlowsFrom(1)[j] = FlowVal(flowStack[j])
    <3>1. 1 \in 1..(flowLevel + 1) /\ flowLevel - 1 + 1 = flowLevel
          /\ \A j \in 1..flowLevel : 1 + j - 1 = j
      BY <2>2
    <3> QED
      BY <1>1, <3>1, FlowsOf
  <2>5. /\ OpenBlocks \in Seq(Starts) /\ Len(OpenBlocks) = Blocks
        /\ \A i \in 1..Blocks : OpenBlocks[i] = BlockVal(indents[i + 1].isSequence)
    BY <1>1, BlocksOf
  <2> DEFINE A == OpenBlocks
             B == FlowsFrom(1)
             w == Vals(O)
             b == Blocks
             f == flowLevel
  <2> HIDE DEF A, B, w, b, f
  <2>6. /\ A \in Seq(Starts) /\ Len(A) = b /\ B \in Seq(Starts) /\ Len(B) = f
        /\ w \in Seq(Starts) /\ Len(w) = b + f /\ b \in Nat /\ f \in Nat
        /\ \A i \in 1..b : i \in 1..(b + f) /\ w[i] = A[i]
        /\ \A j \in 1..f : b + j \in 1..(b + f) /\ w[b + j] = B[j]
    <3>1. /\ \A i \in 1..b : i \in 1..(b + f)
          /\ \A j \in 1..f : b + j \in 1..(b + f)
      BY <2>2 DEF b, f
    <3> QED
      BY <2>2, <2>3, <2>4, <2>5, <3>1 DEF A, B, w, b, f
  <2>7. A \o B \in Seq(Starts) /\ Len(A \o B) = b + f
        /\ (\A i \in 1..b : (A \o B)[i] = A[i])
        /\ (\A j \in 1..f : (A \o B)[b + j] = B[j])
    BY <2>6, JoinedVals
  <2>8. ASSUME NEW i \in 1..Len(w) PROVE w[i] = (A \o B)[i]
    <3>1. i \in 1..b \/ (i - b \in 1..f /\ i = b + (i - b))
      BY <2>6
    <3>2. CASE i \in 1..b
      BY <2>6, <2>7, <3>2
    <3>3. ASSUME NEW j \in 1..f, i = b + j PROVE w[i] = (A \o B)[i]
      BY <2>6, <2>7, <3>3
    <3> QED
      BY <3>1, <3>2, <3>3
  <2>9. w = A \o B
    BY <2>6, <2>7, <2>8, SameVals
  <2> QED
    BY <2>2, <2>9 DEF A, B, w, Blocks
<1> QED
  BY <1>2, <1>3 DEF OpenCollections

LEMMA NestSpans == NestInv => KeySpan
<1> SUFFICES ASSUME NestInv, phase = "dispatch" PROVE KeySpan
  BY DEF KeySpan
<1> DEFINE O == Unclosed(tokens)
           After(p) == Unclosed(SubSeq(tokens, p + 2, Len(tokens)))
<1>1. Shape /\ Slots /\ Stacked(tokens) /\ Matches(O, indents, flowStack) /\ Spanned
  BY DEF NestInv, Nested, Running
<1>2. Len(O) = Depth /\ Stack(O)
  BY <1>1, MatchesDepth DEF Matches
<1>3. /\ Blocks \in Nat /\ flowLevel \in Nat /\ Depth = Blocks + flowLevel
      /\ tokens \in Seq(Tokens) /\ Len(tokens) \in Nat /\ Len(simpleKeyStack) = flowLevel
      /\ simpleKeyStack \in Seq(SimpleKeys) /\ Len(flowStack) = flowLevel
  BY <1>1, DepthTypes, PlacedTypes
<1>4. \A j \in 1..flowLevel : O[Blocks + j].val = FlowVal(flowStack[j])
  BY <1>1, <1>3 DEF Matches, Blocks
<1>5. ASSUME NEW key, Owns(key, tokens), key.possible, NEW d \in Nat,
             Spans(tokens, key.tokenIndex, d)
      PROVE  After(key.tokenIndex) = Dropped(O, d)
  <2> DEFINE p == key.tokenIndex
  <2>1. /\ p \in 2..(Len(tokens) - 1) /\ tokens[p].val = "placeholder"
        /\ tokens[p + 1].val = "placeholder"
    BY <1>5 DEF Owns, TokenAt
  <2>2. Spans(tokens, p, d)
    BY <1>5
  <2> HIDE DEF p
  <2>3. p \in 1..(Len(tokens) - 1) /\ tokens[p].val \in Leaves /\ tokens[p + 1].val \in Leaves
    BY <1>3, <2>1, LeafVals
  <2>4. After(p) = Dropped(O, d)
    BY <1>1, <1>3, <2>2, <2>3, SpanOpens
  <2> QED
    BY <2>4 DEF p
<1> HIDE DEF O, After
<1>6. ASSUME simpleKey.possible, InFlow \/ simpleKey.line = line
      PROVE  Vals(After(simpleKey.tokenIndex)) = <<>>
  <2>1. Spans(tokens, simpleKey.tokenIndex, Depth) /\ Owns(simpleKey, tokens)
    BY <1>1, <1>6 DEF Spanned, Live, Slots, SlotsReserved
  <2>2. After(simpleKey.tokenIndex) = Dropped(O, Depth)
    BY <1>3, <1>5, <1>6, <2>1
  <2> DEFINE s == Dropped(O, Depth)
  <2>3. s \in Seq(Tokens) /\ Len(s) = 0
    BY <1>2, <1>3, DroppedType
  <2> HIDE DEF s
  <2>4. Stack(s)
    BY <2>3 DEF Stack
  <2>5. Vals(s) \in Seq(Starts) /\ Len(Vals(s)) = 0
    BY <2>3, <2>4, ValsOf
  <2> HIDE DEF Vals
  <2>6. Vals(s) = <<>>
    BY <2>5
  <2> QED
    BY <2>2, <2>6 DEF s
<1>7. ASSUME NEW j \in 1..Len(simpleKeyStack), simpleKeyStack[j].possible
      PROVE  Vals(After(simpleKeyStack[j].tokenIndex)) = FlowsFrom(j)
  <2> DEFINE d == Blocks + (j - 1)
             s == Dropped(O, d)
             n == flowLevel - j + 1
  <2>1. Spans(tokens, simpleKeyStack[j].tokenIndex, d) /\ Owns(simpleKeyStack[j], tokens)
    BY <1>1, <1>7 DEF Spanned, Slots, SlotsReserved
  <2>2. /\ d \in Nat /\ d \in 0..Len(O) /\ n \in Nat /\ Len(O) - d = n
        /\ j \in 1..(flowLevel + 1)
        /\ \A i \in 1..n : j + i - 1 \in 1..flowLevel /\ i + d = Blocks + (j + i - 1)
    BY <1>2, <1>3
  <2> HIDE DEF d
  <2>3. After(simpleKeyStack[j].tokenIndex) = s
    BY <1>5, <1>7, <2>1, <2>2
  <2>4. s \in Seq(Tokens) /\ Len(s) = n /\ \A i \in 1..n : s[i] = O[i + d] /\ i + d \in 1..Len(O)
    BY <1>2, <2>2, DroppedType
  <2> HIDE DEF s, n
  <2>5. Stack(s)
    BY <1>2, <2>4 DEF Stack
  <2>6. /\ Vals(s) \in Seq(Starts) /\ Len(Vals(s)) = n
        /\ \A i \in 1..n : Vals(s)[i] = s[i].val
    BY <2>4, <2>5, ValsOf
  <2>7. /\ FlowsFrom(j) \in Seq(Starts) /\ Len(FlowsFrom(j)) = n
        /\ \A i \in 1..n : FlowsFrom(j)[i] = FlowVal(flowStack[j + i - 1])
    BY <1>1, <2>2, FlowsOf DEF n
  <2>8. ASSUME NEW i \in 1..n PROVE Vals(s)[i] = FlowsFrom(j)[i]
    <3>1. s[i] = O[Blocks + (j + i - 1)] /\ j + i - 1 \in 1..flowLevel
      BY <2>2, <2>4
    <3>2. s[i].val = FlowVal(flowStack[j + i - 1])
      BY <1>4, <3>1
    <3> QED
      BY <2>6, <2>7, <3>2
  <2> HIDE DEF Vals, FlowsFrom
  <2>9. Vals(s) = FlowsFrom(j)
    BY <2>6, <2>7, <2>8, SameVals
  <2> QED
    BY <2>3, <2>9
<1>8. DOMAIN simpleKeyStack = 1..Len(simpleKeyStack)
  BY <1>3
<1> QED
  BY <1>6, <1>7, <1>8 DEF KeySpan, After

\* For every text: the collections that the tokens leave open are those on the
\* indentation and flow stacks, where they say, even after mapping starts were
\* put in front of tokens that had been emitted, and none is left open in a
\* text that is accepted.
THEOREM OpenInvariant == Spec => []OpenCollections
BY NestInvariant, NestOpens, PTL

\* For every text: when a lexeme is dispatched, what follows the slots of a key
\* that a `:` may confirm leaves open exactly what that `:` must be inside of.
THEOREM SpanInvariant == Spec => []KeySpan
BY NestInvariant, NestSpans, PTL


-----------------------------------------------------------------------------
(* Entries stand at the column of their block.                             *)

\* The innermost of the open collections s takes an entry at column c.
Takes(s, c) == s # <<>> /\ (s[Len(s)].val \in BlockStarts => s[Len(s)].col = c)
AlignedBy(ts) ==
    \A i \in 1..Len(ts) : ts[i].val \in Entries => Takes(Opened(ts)[i - 1], ts[i].col)

\* No entry behind the slots at p is of the collection at depth d: no other
\* entry moves into the mapping that the key of these slots may open.
Quiet(ts, p, d) ==
    \A i \in (p + 2)..Len(ts) : ts[i].val \in Entries => Len(Opened(ts)[i - 1]) # d

EntriesAligned ==
    /\ AlignedBy(tokens)
    /\ phase \in Running =>
          /\ ~InFlow /\ Live => Quiet(tokens, simpleKey.tokenIndex, Depth)
          /\ InFlow /\ Outer.possible => Quiet(tokens, Outer.tokenIndex, Blocks)

\* The tokens after those of ts that are entries.
Enters(ts, us, i) == i \in (Len(ts) + 1)..Len(us) /\ us[i].val \in Entries

LEMMA GrownOpens ==
    ASSUME NEW ts \in Seq(Tokens), NEW us \in Seq(Tokens), Grows(ts, us)
    PROVE  /\ Len(ts) \in Nat /\ Len(us) \in Nat /\ Len(ts) <= Len(us)
           /\ \A i \in 1..Len(ts) : us[i] = ts[i] /\ i - 1 \in 0..Len(ts)
           /\ \A i \in 0..Len(ts) : Opened(us)[i] = Opened(ts)[i]
<1> DEFINE n == Len(ts)
<1>1. n \in Nat /\ n <= Len(ts) /\ n <= Len(us) /\ \A i \in 1..n : us[i] = ts[i]
  BY OpenedRun DEF Grows
<1> HIDE DEF n
<1>2. \A i \in 0..n : Opened(us)[i] = Opened(ts)[i]
  BY <1>1, OpenedAgree
<1>3. \A i \in 1..n : i - 1 \in 0..n
  BY <1>1
<1> QED
  BY <1>1, <1>2, <1>3, OpenedRun DEF n

LEMMA AlignedOn ==
    ASSUME NEW ts \in Seq(Tokens), NEW us \in Seq(Tokens), Grows(ts, us), AlignedBy(ts),
           \A i : Enters(ts, us, i) => Takes(Opened(us)[i - 1], us[i].col)
    PROVE  AlignedBy(us)
<1> SUFFICES ASSUME NEW i \in 1..Len(us), us[i].val \in Entries
             PROVE  Takes(Opened(us)[i - 1], us[i].col)
  BY DEF AlignedBy
<1>1. i \in 1..Len(ts) \/ Enters(ts, us, i)
  BY GrownOpens DEF Enters
<1>2. ASSUME i \in 1..Len(ts) PROVE Takes(Opened(us)[i - 1], us[i].col)
  BY <1>2, GrownOpens DEF AlignedBy
<1> QED
  BY <1>1, <1>2

LEMMA QuietOn ==
    ASSUME NEW ts \in Seq(Tokens), NEW us \in Seq(Tokens), Grows(ts, us),
           NEW p \in Nat, NEW d, Quiet(ts, p, d),
           \A i : Enters(ts, us, i) => Len(Opened(us)[i - 1]) # d
    PROVE  Quiet(us, p, d)
<1> SUFFICES ASSUME NEW i \in (p + 2)..Len(us), us[i].val \in Entries
             PROVE  Len(Opened(us)[i - 1]) # d
  BY DEF Quiet
<1>1. (i \in 1..Len(ts) /\ i \in (p + 2)..Len(ts)) \/ Enters(ts, us, i)
  BY GrownOpens DEF Enters
<1>2. ASSUME i \in 1..Len(ts), i \in (p + 2)..Len(ts)
      PROVE  Len(Opened(us)[i - 1]) # d
  BY <1>2, GrownOpens DEF Quiet
<1> QED
  BY <1>1, <1>2

\* A step that adds no entry keeps those there are.
LEMMA NoEntries ==
    ASSUME NEW ts \in Seq(Tokens), NEW us \in Seq(Tokens), Grows(ts, us),
           \A i \in (Len(ts) + 1)..Len(us) : us[i].val \notin Entries
    PROVE  /\ AlignedBy(ts) => AlignedBy(us)
           /\ \A p \in Nat : \A d : Quiet(ts, p, d) => Quiet(us, p, d)
<1>1. \A i : ~Enters(ts, us, i)
  BY DEF Enters
<1> QED
  BY <1>1, AlignedOn, QuietOn

LEMMA AppendGrows ==
    ASSUME NEW ts \in Seq(Tokens), NEW t \in Tokens
    PROVE  /\ Grows(ts, Append(ts, t)) /\ Len(ts) \in Nat /\ Append(ts, t) \in Seq(Tokens)
           /\ Len(Append(ts, t)) = Len(ts) + 1 /\ Append(ts, t)[Len(ts) + 1] = t
           /\ \A i \in (Len(ts) + 1)..Len(Append(ts, t)) : i = Len(ts) + 1
BY DEF Grows

\* One entry more.
LEMMA EntryAppended ==
    ASSUME NEW ts \in Seq(Tokens), NEW t \in Tokens
    PROVE  /\ AlignedBy(ts) /\ Takes(Unclosed(ts), t.col) => AlignedBy(Append(ts, t))
           /\ \A p \in Nat : \A d : Quiet(ts, p, d) /\ Len(Unclosed(ts)) # d
                                        => Quiet(Append(ts, t), p, d)
<1> DEFINE us == Append(ts, t)
           n == Len(ts)
<1>1. /\ Grows(ts, us) /\ n \in Nat /\ us \in Seq(Tokens) /\ us[n + 1] = t
      /\ \A i \in (n + 1)..Len(us) : i = n + 1
  BY AppendGrows
<1>2. Opened(us)[n] = Unclosed(ts)
  BY Appended, OpenedRun DEF Unclosed
<1> HIDE DEF us, n
<1>3. \A i : Enters(ts, us, i) => Opened(us)[i - 1] = Unclosed(ts) /\ us[i] = t
  BY <1>1, <1>2 DEF Enters, n
<1>4. AlignedBy(ts) /\ Takes(Unclosed(ts), t.col) => AlignedBy(us)
  BY <1>1, <1>3, AlignedOn
<1>5. \A p \in Nat : \A d : Quiet(ts, p, d) /\ Len(Unclosed(ts)) # d => Quiet(us, p, d)
  BY <1>1, <1>3, QuietOn
<1> QED
  BY <1>4, <1>5 DEF us

\* What the stacks say of the innermost collection.
LEMMA MatchesTakes ==
    ASSUME NEW s, NEW ind \in Seq(Indents), Len(ind) >= 1, ind[1] = Sentinel,
           NEW flows \in Seq(BOOLEAN), Matches(s, ind, flows), NEW c \in Nat,
           Len(flows) = 0 => ind[Len(ind)].column = c
    PROVE  Takes(s, c)
<1>1. CASE Len(flows) = 0
  <2> DEFINE n == Len(ind)
  <2>1. n \in Nat /\ n >= 1 /\ n # 1
    BY <1>1 DEF Sentinel
  <2> HIDE DEF n
  <2>2. n - 1 \in 1..(n - 1) /\ (n - 1) + 1 = n
    BY <2>1
  <2>3. Len(s) = n - 1 /\ s[n - 1].col = ind[n].column /\ Stack(s)
    BY <1>1, <2>1, <2>2 DEF Matches, n
  <2>4. s # <<>>
    BY <2>1, <2>3
  <2>5. s[Len(s)].col = c
    BY <1>1, <2>3 DEF n
  <2> QED
    BY <2>4, <2>5 DEF Takes
<1>2. CASE Len(flows) # 0
  <2>1. Len(flows) >= 1
    BY <1>2
  <2>2. s[Len(s)].val \in FlowStarts /\ Len(s) >= 1
    BY <2>1, MatchesFlowEnd
  <2> QED
    BY <2>2 DEF Takes, FlowStarts, BlockStarts
<1> QED
  BY <1>1, <1>2

LEMMA StartsNoEntry == Starts \cap Entries = {} /\ Leaves \cap Entries = {} /\ FlowEnds \cap Entries = {}
BY DEF Starts, BlockStarts, FlowStarts, FlowEnds, Entries, Leaves

LEMMA OneNoEntry ==
    ASSUME NEW ts \in Seq(Tokens), NEW t \in Tokens, t.val \notin Entries
    PROVE  /\ Grows(ts, Append(ts, t))
           /\ \A i \in (Len(ts) + 1)..Len(Append(ts, t)) : Append(ts, t)[i].val \notin Entries
BY AppendGrows

LEMMA LeafAligned ==
    ASSUME Shape, Shape', KeysPlaced, EntriesAligned, AddsLeaf
    PROVE  EntriesAligned'
<1>1. /\ phase \in Running /\ indents' = indents /\ UNCHANGED flowVars
      /\ tokens \in Seq(Tokens) /\ tokens' \in Seq(Tokens)
  BY DEF AddsLeaf, Running, Shape, TypeOK
<1>2. /\ AlignedBy(tokens')
      /\ \A p \in Nat : \A d : Quiet(tokens, p, d) => Quiet(tokens', p, d)
  <2>1. CASE tokens' = tokens
    BY <2>1 DEF EntriesAligned
  <2>2. ASSUME NEW t \in Tokens, t.val \in Leaves, tokens' = Append(tokens, t)
        PROVE  <1>2
    <3>1. t.val \notin Entries
      BY <2>2, StartsNoEntry
    <3> QED
      BY <1>1, <2>2, <3>1, OneNoEntry, NoEntries DEF EntriesAligned
  <2> QED
    BY <2>1, <2>2 DEF AddsLeaf
<1>3. /\ InFlow' = InFlow /\ Blocks' = Blocks /\ Depth' = Depth /\ Outer' = Outer
  BY <1>1 DEF InFlow, Blocks, Depth, Outer, flowVars
<1>4. Live' => Live /\ simpleKey'.tokenIndex = simpleKey.tokenIndex
  BY LeafLive
<1>5. simpleKey.tokenIndex \in Nat /\ (InFlow => Outer.tokenIndex \in Nat)
  BY PlacedTypes, OuterType
<1>6. ~InFlow /\ Live' => Quiet(tokens', simpleKey'.tokenIndex, Depth)
  BY <1>1, <1>2, <1>4, <1>5 DEF EntriesAligned
<1>7. InFlow /\ Outer.possible => Quiet(tokens', Outer.tokenIndex, Blocks)
  BY <1>1, <1>2, <1>5 DEF EntriesAligned
<1> QED
  BY <1>2, <1>3, <1>6, <1>7 DEF EntriesAligned

\* The slots of a key that is saved are the last tokens.
LEMMA SavedLast ==
    ASSUME Shape, NEW l \in Lines, NEW c \in Cols, Preprocess(l, c), SavesKey(l)
    PROVE  simpleKey'.tokenIndex \in Nat /\ simpleKey'.tokenIndex + 1 = Len(tokens')
<1>1. PICK k \in 1..Len(indents) :
         /\ tokens' = (tokens \o BlockEnds(k, l, c)) \o Placeholders(l, c)
         /\ simpleKey' = [possible |-> TRUE,
                          tokenIndex |-> Len(tokens \o BlockEnds(k, l, c)) + 1,
                          line |-> l, col |-> c, endLine |-> l]
  BY DEF Preprocess
<1> DEFINE us == tokens \o BlockEnds(k, l, c)
           ps == Placeholders(l, c)
<1>2. l \in Nat /\ c \in Nat
  BY PreprocessAdds
<1>3. us \in Seq(Tokens) /\ ps \in Seq(Tokens) /\ Len(ps) = 2
  <2>1. BlockEnds(k, l, c) \in Seq(Tokens)
    BY <1>2, BlockEndsType DEF Shape
  <2> QED
    BY <1>2, <2>1, PlaceholdersType, DepthTypes, Joined
<1>4. tokens' = us \o ps /\ simpleKey'.tokenIndex = Len(us) + 1
  BY <1>1
<1> HIDE DEF us, ps
<1>5. Len(tokens') = Len(us) + Len(ps) /\ Len(us) \in Nat
  BY <1>3, <1>4, Joined
<1> QED
  BY <1>3, <1>4, <1>5

LEMMA PreprocessAligned ==
    ASSUME Shape, Shape', KeysPlaced, EntriesAligned, NEW l \in Lines, NEW c \in Cols,
           Preprocess(l, c)
    PROVE  EntriesAligned'
<1>1. /\ phase \in Running /\ UNCHANGED flowVars /\ InFlow' = InFlow /\ Outer' = Outer
      /\ tokens \in Seq(Tokens) /\ tokens' \in Seq(Tokens)
      /\ Grows(tokens, tokens') /\ Adds(tokens, tokens', {"blockEnd", "placeholder"}, l, c)
  BY PreprocessAdds DEF Preprocess, Running, Shape, TypeOK, flowVars, InFlow, Outer
<1>2. /\ AlignedBy(tokens')
      /\ \A p \in Nat : \A d : Quiet(tokens, p, d) => Quiet(tokens', p, d)
  <2>1. \A i \in (Len(tokens) + 1)..Len(tokens') : tokens'[i].val \notin Entries
    BY <1>1 DEF Adds, Entries
  <2> QED
    BY <1>1, <2>1, NoEntries DEF EntriesAligned
<1>3. simpleKey.tokenIndex \in Nat /\ (InFlow => Outer.tokenIndex \in Nat)
  BY PlacedTypes, OuterType
<1>4. ASSUME ~InFlow, Live' PROVE Quiet(tokens', simpleKey'.tokenIndex, Depth')
  <2>1. CASE SavesKey(l)
    <3>1. simpleKey'.tokenIndex \in Nat /\ simpleKey'.tokenIndex + 1 = Len(tokens')
      BY <2>1, SavedLast
    <3>2. (simpleKey'.tokenIndex + 2)..Len(tokens') = {}
      BY <3>1
    <3> QED
      BY <3>2 DEF Quiet
  <2>2. CASE ~SavesKey(l)
    <3>1. Live /\ indents' = indents /\ simpleKey' = simpleKey
      BY <1>4, <2>2, KeptKey
    <3>2. Depth' = Depth
      BY <1>1, <3>1 DEF Depth, Blocks, flowVars
    <3> QED
      BY <1>1, <1>2, <1>3, <1>4, <3>1, <3>2 DEF EntriesAligned
  <2> QED
    BY <2>1, <2>2
<1>5. ASSUME InFlow, Outer.possible PROVE Quiet(tokens', Outer.tokenIndex, Blocks')
  <2>1. Blocks' = Blocks
    BY <1>5, FlowKeepsBlocks
  <2> QED
    BY <1>1, <1>2, <1>3, <1>5, <2>1 DEF EntriesAligned
<1> QED
  BY <1>1, <1>2, <1>4, <1>5 DEF EntriesAligned

LEMMA CloseAligned ==
    ASSUME Shape, Shape', EntriesAligned, EndOfStream \/ DocumentStart \/ DocumentEnd
    PROVE  EntriesAligned'
<1>1. PICK v \in Leaves : ClosesWith(v)
  BY MarkerCloses, EndOfStreamCloses, LeafVals
     DEF DocumentStart, DocumentEnd, DocumentMarks
<1>2. /\ tokens \in Seq(Tokens) /\ tokens' \in Seq(Tokens)
      /\ ~InFlow /\ UNCHANGED flowVars /\ (phase' \in Running => simpleKey' = NoKey)
  BY DEF Shape, TypeOK, EndOfStream, DocumentStart, DocumentEnd, CloseDocument, AtMarker, Running
<1>3. AlignedBy(tokens')
  <2>1. \A i \in (Len(tokens) + 1)..Len(tokens') : tokens'[i].val \notin Entries
    BY <1>1, StartsNoEntry DEF ClosesWith, Adds, Entries
  <2> QED
    BY <1>1, <1>2, <2>1, NoEntries DEF ClosesWith, EntriesAligned
<1>4. ~InFlow' /\ (phase' \in Running => ~Live')
  BY <1>2 DEF InFlow, flowVars, Live, NoKey
<1> QED
  BY <1>3, <1>4 DEF EntriesAligned

LEMMA IdleAligned ==
    ASSUME EntriesAligned, Idle
    PROVE  EntriesAligned'
<1>1. CASE phase' \in ErrorKinds
  BY <1>1 DEF EntriesAligned, ErrorKinds, Running, Idle
<1>2. CASE UNCHANGED vars
  BY <1>2 DEF vars, flowVars, EntriesAligned, Live, InFlow, Depth, Blocks, Outer
<1> QED
  BY <1>1, <1>2 DEF Idle

LEMMA FlowStartAligned ==
    ASSUME Shape, Shape', KeysPlaced, EntriesAligned, NEW x \in Openers, FlowStart(x)
    PROVE  EntriesAligned'
<1>1. /\ phase = "dispatch" /\ indents' = indents
      /\ simpleKeyStack' = Append(simpleKeyStack, simpleKey)
      /\ flowLevel' = flowLevel + 1
      /\ \E v \in FlowStarts : tokens' = tokens \o Emitted(v)
  BY DEF FlowStart, Content, At, PushesKey, FlowStarts
<1>2. /\ tokens \in Seq(Tokens) /\ tokens' \in Seq(Tokens) /\ flowLevel \in Nat
      /\ simpleKeyStack \in Seq(SimpleKeys) /\ Len(simpleKeyStack) = flowLevel
      /\ simpleKey \in SimpleKeys /\ simpleKey.tokenIndex \in Nat
  BY PlacedTypes DEF Shape, TypeOK
<1>3. /\ AlignedBy(tokens')
      /\ \A p \in Nat : \A d : Quiet(tokens, p, d) => Quiet(tokens', p, d)
  <2>1. PICK v \in FlowStarts : tokens' = tokens \o Emitted(v)
    BY <1>1
  <2>2. v \in TokenVals /\ v \notin Entries
    BY ValsType DEF FlowStarts, Entries
  <2>3. PICK t \in Tokens : t.val = v /\ tokens' = Append(tokens, t)
    BY <1>2, <2>1, <2>2, EmitsOne
  <2> QED
    BY <1>2, <2>2, <2>3, OneNoEntry, NoEntries DEF EntriesAligned
<1>4. InFlow' /\ Blocks' = Blocks
  BY <1>1, <1>2 DEF InFlow, Blocks
<1>5. CASE InFlow
  <2>1. Outer' = Outer
    BY <1>1, <1>2, <1>5 DEF InFlow, Outer
  <2>2. Outer.possible => Quiet(tokens', Outer.tokenIndex, Blocks)
    BY <1>1, <1>3, <1>5, OuterType DEF EntriesAligned, Running
  <2> QED
    BY <1>3, <1>4, <2>1, <2>2 DEF EntriesAligned
<1>6. CASE ~InFlow
  <2>1. flowLevel = 0 /\ Depth = Blocks
    BY <1>2, <1>6, DepthTypes DEF InFlow
  <2>2. Outer' = simpleKey
    BY <1>1, <1>2, <2>1 DEF Outer
  <2>3. simpleKey.possible => Live
    BY <1>1, PushedLive
  <2>4. simpleKey.possible => Quiet(tokens', simpleKey.tokenIndex, Blocks)
    BY <1>1, <1>2, <1>3, <1>6, <2>1, <2>3 DEF EntriesAligned, Running
  <2> QED
    BY <1>3, <1>4, <2>2, <2>4 DEF EntriesAligned
<1> QED
  BY <1>5, <1>6

LEMMA FlowEndAligned ==
    ASSUME Shape, Shape', EntriesAligned, NEW x \in Closers, FlowEnd(x)
    PROVE  EntriesAligned'
<1> DEFINE n == Len(simpleKeyStack)
<1>1. /\ phase = "dispatch" /\ indents' = indents /\ InFlow
      /\ simpleKeyStack' = SubSeq(simpleKeyStack, 1, n - 1)
      /\ simpleKey' = simpleKeyStack[n]
      /\ flowLevel' = flowLevel - 1
      /\ \E v \in FlowEnds : tokens' = tokens \o Emitted(v)
  BY DEF FlowEnd, Content, At, PopsKey, FlowEnds
<1>2. /\ tokens \in Seq(Tokens) /\ tokens' \in Seq(Tokens) /\ flowLevel \in Nat
      /\ simpleKeyStack \in Seq(SimpleKeys) /\ n = flowLevel
  BY PlacedTypes DEF Shape, TypeOK
<1>3. /\ AlignedBy(tokens')
      /\ \A p \in Nat : \A d : Quiet(tokens, p, d) => Quiet(tokens', p, d)
  <2>1. PICK v \in FlowEnds : tokens' = tokens \o Emitted(v)
    BY <1>1
  <2>2. v \in TokenVals /\ v \notin Entries
    BY ValsType DEF FlowEnds, Entries
  <2>3. PICK t \in Tokens : t.val = v /\ tokens' = Append(tokens, t)
    BY <1>2, <2>1, <2>2, EmitsOne
  <2> QED
    BY <1>2, <2>2, <2>3, OneNoEntry, NoEntries DEF EntriesAligned
<1>4. Blocks' = Blocks /\ Blocks \in Nat
  BY <1>1, DepthTypes DEF Blocks
<1>5. Outer.possible => Quiet(tokens', Outer.tokenIndex, Blocks)
  BY <1>1, <1>3, OuterType DEF EntriesAligned, Running
<1>6. CASE flowLevel = 1
  <2>1. ~InFlow' /\ simpleKey' = Outer /\ Depth' = Blocks
    BY <1>1, <1>2, <1>4, <1>6 DEF InFlow, Outer, Depth
  <2>2. Live' => Outer.possible
    BY <2>1 DEF Live
  <2> QED
    BY <1>3, <1>5, <2>1, <2>2 DEF EntriesAligned
<1>7. CASE flowLevel # 1
  <2> DEFINE k == n - 1
  <2>1. k \in 0..Len(simpleKeyStack) /\ 1 \in 1..k /\ flowLevel' > 0
    BY <1>1, <1>2, <1>7 DEF InFlow
  <2>2. simpleKeyStack' = SubSeq(simpleKeyStack, 1, k)
    BY <1>1
  <2> HIDE DEF k, n
  <2>3. InFlow' /\ Outer' = Outer
    BY <1>2, <2>1, <2>2 DEF InFlow, Outer
  <2> QED
    BY <1>3, <1>4, <1>5, <2>3 DEF EntriesAligned
<1> QED
  BY <1>6, <1>7

\* An indicator right of the current block opens a block at its column.
LEMMA PushedColumn ==
    ASSUME Shape, KeysPlaced, phase = "dispatch", NEW seq \in BOOLEAN, ~InFlow
    PROVE  /\ PushedIndents(seq) \in Seq(Indents)
           /\ PushedIndents(seq)[Len(PushedIndents(seq))].column = col
<1>1. CurrentIndent <= col
  BY DEF KeysPlaced, Running, Fresh, RightOfBlock
<1>2. CASE OpensBlock
  <2> DEFINE e == [column |-> col, isSequence |-> seq]
  <2>1. PushedIndents(seq) = Append(indents, e) /\ e \in Indents /\ e.column = col
    BY <1>2, PlacedTypes DEF PushedIndents, Indents
  <2> HIDE DEF e
  <2> QED
    BY <2>1, PlacedTypes
<1>3. CASE ~OpensBlock
  <2>1. CurrentIndent = col
    BY <1>1, <1>3, PlacedTypes DEF OpensBlock
  <2> QED
    BY <1>3, <2>1, PlacedTypes DEF PushedIndents, CurrentIndent
<1> QED
  BY <1>2, <1>3

\* The token that opens the block is no entry.
LEMMA PushedAligned ==
    ASSUME Shape, EntriesAligned, NEW seq \in BOOLEAN
    PROVE  AlignedBy(PushedTokens(BlockVal(seq)))
<1>1. tokens \in Seq(Tokens)
  BY DepthTypes
<1>2. BlockVal(seq) \in TokenVals /\ BlockVal(seq) \notin Entries
  BY ValsType DEF BlockVal, Entries
<1>3. PICK t \in Tokens : t.val = BlockVal(seq) /\ tokens \o Emitted(BlockVal(seq)) = Append(tokens, t)
  BY <1>1, <1>2, EmitsOne
<1>4. AlignedBy(tokens \o Emitted(BlockVal(seq)))
  <2> DEFINE us == Append(tokens, t)
  <2>1. /\ us \in Seq(Tokens) /\ Grows(tokens, us)
        /\ \A i \in (Len(tokens) + 1)..Len(us) : us[i].val \notin Entries
    BY <1>1, <1>2, <1>3, OneNoEntry, AppendGrows
  <2> HIDE DEF us
  <2>2. AlignedBy(us)
    BY <1>1, <2>1, NoEntries DEF EntriesAligned
  <2> QED
    BY <1>3, <2>2 DEF us
<1> QED
  BY <1>4 DEF PushedTokens, EntriesAligned

LEMMA BlockIndicatorAligned ==
    ASSUME Shape, Shape', Nested, KeysPlaced, Slots, EntriesAligned, BlockEntry \/ Key
    PROVE  EntriesAligned'
<1>1. PICK seq \in BOOLEAN, v \in Entries :
         /\ indents' = PushedIndents(seq)
         /\ tokens' = PushedTokens(BlockVal(seq)) \o Emitted(v)
  BY DEF BlockEntry, Key, BlockVal, Entries
<1>2. phase = "dispatch" /\ UNCHANGED flowVars
  BY DEF BlockEntry, Key, Content, At
<1> DEFINE ps == PushedTokens(BlockVal(seq))
           t == TokenAt(v, NoName, line, col)
<1>3. /\ ps \in Seq(Tokens) /\ Matches(Unclosed(ps), indents', flowStack)
      /\ InFlow => indents' = indents /\ ps = tokens
  BY <1>1, <1>2, PushedNested
<1>4. AlignedBy(ps)
  BY PushedAligned
<1> HIDE DEF ps
<1>5. t \in Tokens /\ t.col = col /\ tokens' = Append(ps, t)
  <2>1. v \in TokenVals
    BY ValsType DEF Entries
  <2> QED
    BY <1>1, <1>3, <2>1, EmitsOne DEF ps
<1> HIDE DEF t
<1>6. Takes(Unclosed(ps), col)
  <2>1. /\ indents' \in Seq(Indents) /\ Len(indents') >= 1 /\ indents'[1] = Sentinel
        /\ flowStack \in Seq(BOOLEAN) /\ col \in Nat
    BY PlacedTypes DEF Shape, TypeOK, WellFormed
  <2>2. Len(flowStack) = 0 => indents'[Len(indents')].column = col
    <3>1. Len(flowStack) = 0 => ~InFlow
      BY PlacedTypes DEF InFlow
    <3> QED
      BY <1>1, <1>2, <3>1, PushedColumn
  <2> QED
    BY <1>3, <2>1, <2>2, MatchesTakes
<1>7. AlignedBy(tokens')
  BY <1>3, <1>4, <1>5, <1>6, EntryAppended
<1>8. /\ Outer' = Outer /\ InFlow' = InFlow
      /\ InFlow => Blocks' = Blocks
  BY <1>2, <1>3 DEF Outer, InFlow, flowVars, Blocks
<1>9. ~InFlow => ~Live'
  <2>1. CASE BlockEntry
    BY <1>8, <2>1 DEF BlockEntry, Live, Consume
  <2>2. CASE Key
    BY <2>2 DEF Key, Live, NoKey
  <2> QED
    BY <2>1, <2>2
<1>10. ASSUME InFlow, Outer.possible PROVE Quiet(tokens', Outer.tokenIndex, Blocks)
  <2>1. Outer.tokenIndex \in Nat /\ Quiet(tokens, Outer.tokenIndex, Blocks)
    BY <1>2, <1>10, OuterType DEF EntriesAligned, Running
  <2>2. Len(Unclosed(tokens)) # Blocks
    <3>1. Len(Unclosed(tokens)) = Depth
      BY <1>2, MatchesDepth DEF Nested, Running
    <3> QED
      BY <1>10, <3>1, DepthTypes DEF InFlow
  <2>3. ps = tokens
    BY <1>3, <1>10
  <2> QED
    BY <1>3, <1>5, <2>1, <2>2, <2>3, EntryAppended
<1> QED
  BY <1>7, <1>8, <1>9, <1>10 DEF EntriesAligned

\* The tokens with the key in its second slot, but for that entry.
LEMMA KeyedAligned ==
    ASSUME Shape, Slots, EntriesAligned, simpleKey.possible
    PROVE  LET p == simpleKey.tokenIndex IN
           /\ \A i \in 1..Len(Keyed) :
                 i # p + 1 /\ Keyed[i].val \in Entries => Takes(Opened(Keyed)[i - 1], Keyed[i].col)
           /\ \A d : Quiet(tokens, p, d) => Quiet(Keyed, p, d)
           /\ \A q \in Nat : \A d : Quiet(tokens, q, d) /\ Len(Opened(tokens)[p]) # d
                                        => Quiet(Keyed, q, d)
<1> DEFINE p == simpleKey.tokenIndex
           n == Len(tokens)
<1>1. /\ Len(Keyed) = n /\ n \in Nat /\ p \in Nat /\ p >= 1
      /\ \A i \in 1..n : i # p + 1 => Keyed[i] = tokens[i]
      /\ \A i \in 0..n : Opened(Keyed)[i] = Opened(tokens)[i]
  BY KeyedOpens, DepthTypes, PlacedTypes
<1> HIDE DEF p, n
<1>2. \A i \in 1..n : i - 1 \in 0..n
  BY <1>1
<1>3. ASSUME NEW i \in 1..n, i # p + 1, Keyed[i].val \in Entries
      PROVE  Takes(Opened(Keyed)[i - 1], Keyed[i].col)
  <2>1. Takes(Opened(tokens)[i - 1], tokens[i].col)
    BY <1>1, <1>3 DEF EntriesAligned, AlignedBy, n
  <2> QED
    BY <1>1, <1>2, <1>3, <2>1
<1>4. ASSUME NEW d, Quiet(tokens, p, d) PROVE Quiet(Keyed, p, d)
  <2> SUFFICES ASSUME NEW i \in (p + 2)..n, Keyed[i].val \in Entries
               PROVE  Len(Opened(Keyed)[i - 1]) # d
    BY <1>1 DEF Quiet
  <2>1. i \in 1..n /\ i # p + 1
    BY <1>1
  <2>2. Keyed[i] = tokens[i] /\ Opened(Keyed)[i - 1] = Opened(tokens)[i - 1]
    BY <1>1, <1>2, <2>1
  <2> QED
    BY <1>4, <2>2 DEF Quiet, n
<1>5. ASSUME NEW q \in Nat, NEW d, Quiet(tokens, q, d), Len(Opened(tokens)[p]) # d
      PROVE  Quiet(Keyed, q, d)
  <2> SUFFICES ASSUME NEW i \in (q + 2)..n, Keyed[i].val \in Entries
               PROVE  Len(Opened(Keyed)[i - 1]) # d
    BY <1>1 DEF Quiet
  <2>1. i \in 1..n
    BY <1>1
  <2>2. Opened(Keyed)[i - 1] = Opened(tokens)[i - 1]
    BY <1>1, <1>2, <2>1
  <2>3. CASE i = p + 1
    <3>1. i - 1 = p
      BY <1>1, <2>3
    <3> QED
      BY <1>5, <2>2, <3>1
  <2>4. CASE i # p + 1
    <3>1. Keyed[i] = tokens[i]
      BY <1>1, <2>1, <2>4
    <3> QED
      BY <1>5, <2>2, <3>1 DEF Quiet, n
  <2> QED
    BY <2>3, <2>4
<1> QED
  BY <1>1, <1>3, <1>4, <1>5 DEF p, n

\* An entry inside the collection opened around what is above depth d.
LEMMA WrappedTakes ==
    ASSUME NEW s, Stack(s), NEW d \in Nat, d <= Len(s), Len(s) # d,
           NEW b \in Tokens, b.val \in Starts, NEW c, Takes(s, c)
    PROVE  Takes(Wrapped(s, d, b), c)
<1> DEFINE w == Wrapped(s, d, b)
           n == Len(s)
<1>1. n \in Nat /\ d \in 0..n /\ n \in (d + 1)..n
  BY DEF Stack
<1>2. w \in Seq(Tokens) /\ Len(w) = n + 1 /\ w[n + 1] = s[n]
  BY <1>1, WrappedType
<1> HIDE DEF w, n
<1>3. w # <<>> /\ w[Len(w)] = s[n]
  BY <1>1, <1>2
<1>4. s[n].val \in BlockStarts => s[n].col = c
  BY DEF Takes, n
<1> QED
  BY <1>3, <1>4 DEF Takes, w

LEMMA MappedAligned ==
    ASSUME Shape, Slots, EntriesAligned, simpleKey.possible, Stacked(tokens),
           NEW d \in Nat, Spans(tokens, simpleKey.tokenIndex, d),
           Quiet(tokens, simpleKey.tokenIndex, d)
    PROVE  AlignedBy(Mapped)
<1> DEFINE p == simpleKey.tokenIndex
           n == Len(tokens)
           m == MappingStart
           K == Opened(Keyed)
<1>1. /\ tokens \in Seq(Tokens) /\ n \in Nat /\ Keyed \in Seq(Tokens) /\ Len(Keyed) = n
      /\ p \in 1..n /\ Keyed[p + 1].col = simpleKey.col
      /\ \A i \in 0..n : K[i] = Opened(tokens)[i]
  BY KeyedOpens, DepthTypes
<1>2. /\ Mapped \in Seq(Tokens) /\ Len(Mapped) = n /\ Keyed[p].val \in Leaves
      /\ Mapped[p] = m /\ m \in Tokens /\ m.val = "blockMappingStart" /\ m.val \in Starts
      /\ m.col = simpleKey.col
      /\ \A i \in 1..n : i # p => Mapped[i] = Keyed[i]
  BY <1>1, MappedOpens
<1>3. /\ \A i \in 1..n : i # p + 1 /\ Keyed[i].val \in Entries => Takes(K[i - 1], Keyed[i].col)
      /\ Quiet(Keyed, p, d)
  BY <1>1, KeyedAligned
<1> HIDE DEF m
<1>4. Stacked(Keyed) /\ Spans(Keyed, p, d)
  <2>1. Spans(Keyed, p, d)
    BY <1>1, SpansLike
  <2> QED
    BY <1>1, <2>1 DEF Stacked
<1>5. /\ \A i \in 0..(p - 1) : Opened(Mapped)[i] = K[i]
      /\ \A i \in p..n : Opened(Mapped)[i] = Wrapped(K[i], d, m)
  <2>1. Len(Mapped) = Len(Keyed) /\ p \in 1..Len(Keyed) /\ Mapped[p].val \in Starts
        /\ \A i \in 1..Len(Keyed) : i # p => Mapped[i] = Keyed[i]
    BY <1>1, <1>2
  <2> HIDE DEF p, n
  <2>2. /\ \A i \in 0..(p - 1) : Opened(Mapped)[i] = Opened(Keyed)[i]
        /\ \A i \in p..Len(Keyed) : Opened(Mapped)[i] = Wrapped(Opened(Keyed)[i], d, Mapped[p])
    <3>1. Keyed \in Seq(Tokens) /\ Mapped \in Seq(Tokens) /\ Stacked(Keyed) /\ Spans(Keyed, p, d)
          /\ Keyed[p].val \in Leaves
      BY <1>1, <1>2, <1>4
    <3> QED
      BY <2>1, <3>1, StartFills
  <2> QED
    BY <1>1, <1>2, <2>2
<1>6. \A i \in p..n : Stack(K[i]) /\ d <= Len(K[i]) /\ Len(K[i]) \in Nat
  BY <1>1, <1>4 DEF Stacked, Spans, Stack
<1>7. Len(K[p]) = d
  <2>1. K[p] = Bracket(K[p - 1], Keyed[p])
    BY <1>1, OpenedRun
  <2>2. Len(K[p - 1]) = d
    BY <1>4 DEF Spans
  <2> QED
    BY <1>2, <2>1, <2>2, BracketLeaves
<1> HIDE DEF p, n, K
<1> SUFFICES ASSUME NEW i \in 1..n, Mapped[i].val \in Entries
             PROVE  Takes(Opened(Mapped)[i - 1], Mapped[i].col)
  BY <1>2 DEF AlignedBy
<1>8. i # p
  BY <1>2 DEF Entries
<1>9. Mapped[i] = Keyed[i]
  BY <1>2, <1>8
<1>10. CASE i < p
  <2>1. i - 1 \in 0..(p - 1) /\ i # p + 1
    BY <1>1, <1>10
  <2> QED
    BY <1>3, <1>5, <1>9, <2>1
<1>11. CASE i = p + 1
  <2> DEFINE w == Append(K[p], m)
  <2>1. i - 1 = p /\ p \in p..n
    BY <1>1, <1>11
  <2>2. Opened(Mapped)[p] = w
    BY <1>2, <1>5, <1>6, <1>7, <2>1, WrappedTop
  <2>3. Stack(w) /\ Len(w) = d + 1 /\ w[d + 1] = m
    BY <1>2, <1>6, <1>7, <2>1, StackAppend, SMTT(30)
  <2> HIDE DEF w
  <2>4. w # <<>> /\ w[Len(w)] = m
    BY <2>3
  <2> QED
    BY <1>1, <1>2, <1>9, <1>11, <2>1, <2>2, <2>4 DEF Takes
<1>12. CASE i > p + 1
  <2>1. i - 1 \in p..n /\ i \in (p + 2)..n /\ i # p + 1
    BY <1>1, <1>12
  <2>2. Len(K[i - 1]) # d
    BY <1>1, <1>3, <1>9, <2>1 DEF Quiet, K
  <2>3. Takes(K[i - 1], Keyed[i].col)
    BY <1>3, <1>9, <2>1
  <2>4. Takes(Wrapped(K[i - 1], d, m), Keyed[i].col)
    BY <1>2, <1>6, <2>1, <2>2, <2>3, WrappedTakes
  <2> QED
    BY <1>5, <1>9, <2>1, <2>4
<1> QED
  BY <1>1, <1>8, <1>10, <1>11, <1>12

\* What is open at the slots of a key is still open when the key is complete.
LEMMA SpanTop ==
    ASSUME NEW ts \in Seq(Tokens), Stacked(ts), NEW p \in 1..Len(ts),
           ts[p].val \in Leaves, Spans(ts, p, Len(Unclosed(ts)))
    PROVE  Opened(ts)[p] = Unclosed(ts)
<1> DEFINE s == Opened(ts)[p - 1]
           u == Unclosed(ts)
<1>1. Opened(ts)[p] = s
  BY OpenedRun, BracketLeaves
<1>2. p - 1 \in 0..Len(ts)
  BY OpenedRun
<1>3. s \in Seq(Tokens) /\ u \in Seq(Tokens)
  BY <1>2, LastStack DEF Stacked, Stack
<1>4. Len(s) = Len(u) /\ \A m \in 1..Len(u) : s[m] = u[m]
  BY DEF Spans
<1> HIDE DEF s, u
<1>5. s = u
  BY <1>3, <1>4, SameSequence
<1> QED
  BY <1>1, <1>5 DEF u

LEMMA ResolvedAligned ==
    ASSUME Shape, Slots, Nested, KeysPlaced, EntriesAligned, Value, ClearedKey.possible
    PROVE  LET ps == Resolved(ClearedKey) IN
           /\ AlignedBy(ps)
           /\ InFlow /\ Outer.possible => Quiet(ps, Outer.tokenIndex, Blocks)
<1> DEFINE p == simpleKey.tokenIndex
           O == Unclosed(tokens)
<1>1. /\ ClearedKey = simpleKey /\ Live /\ simpleKey.possible /\ phase \in Running
      /\ Resolved(ClearedKey) = IF OpensMapping(simpleKey) THEN Mapped ELSE Keyed
  BY ResolvedIs, ConfirmedKey DEF Running
<1>2. /\ Stacked(tokens) /\ Matches(O, indents, flowStack) /\ Spans(tokens, p, Depth)
      /\ Len(O) = Depth /\ Depth \in Nat /\ tokens \in Seq(Tokens)
  BY <1>1, MatchesDepth, DepthTypes DEF Nested, Spanned
<1>3. p \in 1..Len(tokens) /\ tokens[p].val \in Leaves
  BY <1>1, KeyedOpens
<1>4. CASE OpensMapping(simpleKey)
  <2>1. ~InFlow
    BY <1>4 DEF OpensMapping
  <2>2. Quiet(tokens, p, Depth)
    BY <1>1, <2>1 DEF EntriesAligned
  <2> HIDE DEF O
  <2>3. AlignedBy(Mapped)
    BY <1>1, <1>2, <2>2, MappedAligned
  <2> QED
    BY <1>1, <1>4, <2>1, <2>3
<1>5. CASE ~OpensMapping(simpleKey)
  <2>1. Opened(tokens)[p] = O
    <3> HIDE DEF p
    <3> QED
      BY <1>2, <1>3, SpanTop
  <2> HIDE DEF O
  <2>2. Takes(O, simpleKey.col)
    <3>1. /\ indents \in Seq(Indents) /\ Len(indents) >= 1 /\ indents[1] = Sentinel
          /\ flowStack \in Seq(BOOLEAN) /\ simpleKey.col \in Nat
      BY PlacedTypes DEF Shape, WellFormed
    <3>2. Len(flowStack) = 0 => indents[Len(indents)].column = simpleKey.col
      <4>1. ASSUME ~InFlow PROVE CurrentIndent = simpleKey.col
        <5>1. CurrentIndent <= simpleKey.col
          BY <1>1, <4>1, ConfirmedKey
        <5>2. ~(simpleKey.col > CurrentIndent)
          BY <1>1, <1>5, <4>1 DEF OpensMapping
        <5> QED
          BY <5>1, <5>2, PlacedTypes
      <4>2. Len(flowStack) = 0 => ~InFlow
        BY PlacedTypes DEF InFlow
      <4> QED
        BY <4>1, <4>2 DEF CurrentIndent
    <3> QED
      BY <1>2, <3>1, <3>2, MatchesTakes
  <2>3. AlignedBy(Keyed)
    <3> SUFFICES ASSUME NEW i \in 1..Len(Keyed), Keyed[i].val \in Entries
                 PROVE  Takes(Opened(Keyed)[i - 1], Keyed[i].col)
      BY DEF AlignedBy
    <3>1. CASE i = p + 1
      <4>1. i - 1 = p /\ p \in 0..Len(tokens)
        BY <1>2, <1>3, <3>1
      <4>2. Opened(Keyed)[p] = O /\ Keyed[p + 1].col = simpleKey.col
        BY <1>1, <2>1, <4>1, KeyedOpens
      <4> QED
        BY <2>2, <3>1, <4>1, <4>2
    <3>2. CASE i # p + 1
      BY <1>1, <3>2, KeyedAligned
    <3> QED
      BY <3>1, <3>2
  <2>4. ASSUME InFlow, Outer.possible PROVE Quiet(Keyed, Outer.tokenIndex, Blocks)
    <3>1. Outer.tokenIndex \in Nat /\ Quiet(tokens, Outer.tokenIndex, Blocks)
      BY <1>1, <2>4, OuterType DEF EntriesAligned
    <3>2. Len(Opened(tokens)[p]) # Blocks
      BY <1>2, <2>1, <2>4, DepthTypes DEF InFlow
    <3> QED
      BY <1>1, <3>1, <3>2, KeyedAligned
  <2> QED
    BY <1>1, <1>5, <2>3, <2>4
<1> QED
  BY <1>4, <1>5

LEMMA ValueAligned ==
    ASSUME Shape, Shape', Slots, Nested, KeysPlaced, EntriesAligned, Value
    PROVE  EntriesAligned'
<1> DEFINE ps == PreparedTokens(ClearedKey)
           t == TokenAt("value", NoName, line, col)
<1>1. /\ phase = "dispatch" /\ UNCHANGED flowVars /\ ~Live'
      /\ tokens' = ps \o Emitted("value") /\ indents' = PreparedIndents(ClearedKey)
  BY ConfirmedKey DEF Value, Live, NoKey
<1>2. /\ ps \in Seq(Tokens) /\ AlignedBy(ps)
      /\ InFlow => indents' = indents
      /\ InFlow /\ Outer.possible => Quiet(ps, Outer.tokenIndex, Blocks)
  <2>1. CASE ClearedKey.possible
    <3>1. ps = Resolved(ClearedKey)
      BY <2>1 DEF PreparedTokens
    <3> HIDE DEF ps
    <3> QED
      BY <2>1, <3>1, ResolvedNested, ResolvedAligned
  <2>2. CASE ~ClearedKey.possible /\ explicitKeyLine # NoLine
    <3>1. ps = tokens /\ indents' = indents
      BY <1>1, <2>2 DEF PreparedTokens, PreparedIndents, OpensMapping
    <3> QED
      BY <1>1, <3>1, DepthTypes DEF EntriesAligned, Running
  <2>3. CASE ~ClearedKey.possible /\ explicitKeyLine = NoLine
    <3>1. ps = PushedTokens(BlockVal(FALSE)) /\ indents' = PushedIndents(FALSE)
      BY <1>1, <2>3 DEF PreparedTokens, PreparedIndents, OpensMapping, BlockVal
    <3> HIDE DEF ps
    <3>2. ps \in Seq(Tokens) /\ (InFlow => indents' = indents /\ ps = tokens)
      BY <1>1, <3>1, PushedNested
    <3>3. AlignedBy(ps)
      BY <3>1, PushedAligned
    <3> QED
      BY <1>1, <3>2, <3>3 DEF EntriesAligned, Running
  <2> QED
    BY <2>1, <2>2, <2>3
<1> HIDE DEF ps
<1>3. t \in Tokens /\ t.val \notin Entries /\ tokens' = Append(ps, t) /\ tokens' \in Seq(Tokens)
  <2>1. "value" \in TokenVals /\ "value" \notin Entries
    BY LeafVals DEF Entries
  <2> QED
    BY <1>1, <1>2, <2>1, EmitsOne DEF Shape, TypeOK
<1> HIDE DEF t
<1>4. /\ AlignedBy(tokens')
      /\ \A q \in Nat : \A d : Quiet(ps, q, d) => Quiet(tokens', q, d)
  BY <1>2, <1>3, OneNoEntry, NoEntries
<1>5. /\ Outer' = Outer /\ InFlow' = InFlow /\ (InFlow => Blocks' = Blocks)
  BY <1>1, <1>2 DEF Outer, InFlow, flowVars, Blocks
<1>6. InFlow /\ Outer.possible => Quiet(tokens', Outer.tokenIndex, Blocks)
  BY <1>2, <1>4, OuterType
<1> QED
  BY <1>1, <1>4, <1>5, <1>6 DEF EntriesAligned

LEMMA InitAligned == Init => EntriesAligned
<1> SUFFICES ASSUME Init PROVE EntriesAligned
  OBVIOUS
<1>1. ~Live /\ ~InFlow
  BY DEF Init, NoKey, Live, InFlow
<1>2. Len(tokens) = 1 /\ tokens[1].val = "streamStart"
  BY DEF Init, TokenAt
<1>3. AlignedBy(tokens)
  <2>1. \A i \in 1..Len(tokens) : i = 1
    BY <1>2
  <2> QED
    BY <1>2, <2>1 DEF AlignedBy, Entries
<1> QED
  BY <1>1, <1>3 DEF EntriesAligned

AlignInv == NestInv /\ EntriesAligned

LEMMA StepAligned ==
    ASSUME NestInv, Shape', EntriesAligned, [Next]_vars
    PROVE  EntriesAligned'
BY StepActions, IdleAligned, LeafAligned, PreprocessAligned, CloseAligned, FlowStartAligned,
   FlowEndAligned, BlockIndicatorAligned, ValueAligned DEF NestInv

\* Every entry of a block collection stands at the collection's column, even
\* a key whose mapping was put in front of tokens emitted before it was known:
\* Aligned in every state, for every alphabet, names and bounds.
THEOREM AlignedInvariant == Spec => []Aligned
<1>1. Init => AlignInv
  BY InitShape, InitSlots, InitPlaced, InitNested, InitAligned DEF AlignInv, NestInv
<1>2. AlignInv /\ [Next]_vars => AlignInv'
  <2>1. NestInv /\ [Next]_vars => NestInv'
    BY StepShape, StepSlots, StepPlaced, StepNested DEF NestInv
  <2> QED
    BY <2>1, StepAligned DEF AlignInv, NestInv
<1>3. AlignInv => Aligned
  <2> SUFFICES ASSUME AlignInv PROVE Aligned
    OBVIOUS
  <2>1. tokens \in Seq(Tokens) /\ DOMAIN tokens = 1..Len(tokens)
    BY DepthTypes DEF AlignInv, NestInv
  <2>2. ASSUME NEW i \in DOMAIN tokens, tokens[i].val \in {"key", "blockEntry"}
        PROVE  Takes(Opened(tokens)[i - 1], tokens[i].col)
    BY <2>1, <2>2 DEF AlignInv, EntriesAligned, AlignedBy, Entries
  <2> QED
    BY <2>2 DEF Aligned, Takes
<1> QED
  BY <1>1, <1>2, <1>3, PTL DEF Spec

=============================================================================
