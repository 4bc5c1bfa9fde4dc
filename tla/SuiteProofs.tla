---------------------------- MODULE SuiteProofs ----------------------------
(***************************************************************************)
(* For all files: gen-suite-guards.py reads them as the suite runner does. *)
(* Every step of the script is a step of Meta.lean's state machine on the  *)
(* same line, or none; and what it reads is what the text of the file      *)
(* says, taken as a whole.                                                 *)
(***************************************************************************)
EXTENDS SuiteProperties, FiniteSetTheorems, WellFoundedInduction, TLAPS

Values == {line.value : line \in Lines}

\* What the text of a test is made of: a value on the line of the key, or lines.
Stripped(line, indent) == [line EXCEPT !.indent = @ - indent]
Pieces == Values \cup {Blank} \cup {Stripped(line, i) : line \in Lines, i \in Nat}

Names == {""} \cup {Ids[i] : i \in Nat}
TagSets == Values \cup {{}}

Cases ==
    [id : Names, tags : TagSets, expect_fail : BOOLEAN,
     yaml : Seq(Pieces), tree : Seq(Pieces), variant : Nat]

Runner == [tags : TagSets, expectFail : BOOLEAN, yaml : Seq(Pieces),
           tree : Seq(Pieces), variant : Nat]

\* The counter of variants, which the script keeps, is the number of cases the
\* suite runner would have when it closes the open one.
ParseInv ==
    /\ file \in Nat
    /\ cases \in Seq(Cases) /\ all_tests \in Seq(Cases) /\ current \in Cases
    /\ in_item \in BOOLEAN
    /\ current_field \in {"none", "yaml", "tree", "other"}
    /\ block_indent \in Nat
    /\ variant_counter = Len(cases) + (IF in_item THEN 1 ELSE 0)

----------------------------------------------------------------------------
(* Cases without their ids. *)

LEMMA UnnamedType ==
    ASSUME NEW cs \in Seq(Cases)
    PROVE  /\ UnnamedAll(cs) \in Seq(Runner) /\ Len(UnnamedAll(cs)) = Len(cs)
           /\ \A i \in 1..Len(cs) : UnnamedAll(cs)[i] = Unnamed(cs[i])
<1>1. \A c \in Cases : Unnamed(c) \in Runner
  BY DEF Unnamed, Cases, Runner
<1>2. DOMAIN cs = 1..Len(cs) /\ Len(cs) \in Nat /\ \A i \in 1..Len(cs) : cs[i] \in Cases
  OBVIOUS
<1>3. UnnamedAll(cs) = [i \in 1..Len(cs) |-> Unnamed(cs[i])]
  BY <1>2 DEF UnnamedAll
<1>4. \A i \in 1..Len(cs) : Unnamed(cs[i]) \in Runner
  BY <1>1, <1>2
<1> QED BY <1>2, <1>3, <1>4

LEMMA UnnamedAppend ==
    ASSUME NEW cs \in Seq(Cases), NEW c \in Cases
    PROVE  UnnamedAll(Append(cs, c)) = Append(UnnamedAll(cs), Unnamed(c))
<1> DEFINE d == Append(cs, c)
<1>1. /\ d \in Seq(Cases) /\ Len(d) = Len(cs) + 1 /\ d[Len(cs) + 1] = c
      /\ \A i \in 1..Len(cs) : d[i] = cs[i]
  OBVIOUS
<1>2. Unnamed(c) \in Runner
  BY DEF Unnamed, Cases, Runner
<1> DEFINE u == UnnamedAll(cs)
           v == UnnamedAll(d)
           w == Append(u, Unnamed(c))
<1> HIDE DEF d
<1>3. /\ u \in Seq(Runner) /\ Len(u) = Len(cs) /\ v \in Seq(Runner) /\ Len(v) = Len(d)
      /\ \A i \in 1..Len(cs) : u[i] = Unnamed(cs[i])
      /\ \A i \in 1..Len(d) : v[i] = Unnamed(d[i])
  BY <1>1, UnnamedType
<1> HIDE DEF u, v
<1>4. w \in Seq(Runner) /\ Len(w) = Len(u) + 1 /\ w[Len(u) + 1] = Unnamed(c)
      /\ \A i \in 1..Len(u) : w[i] = u[i]
  BY <1>2, <1>3
<1> HIDE DEF w
<1>5. \A i \in 1..Len(v) : v[i] = w[i]
  BY <1>1, <1>3, <1>4
<1>6. v = w
  BY <1>1, <1>3, <1>4, <1>5
<1> QED BY <1>6 DEF v, w, u, d

LEMMA ConcatLen ==
    ASSUME NEW S, NEW u \in Seq(S), NEW v \in Seq(S)
    PROVE  u \o v \in Seq(S) /\ Len(u \o v) = Len(u) + Len(v)
OBVIOUS

LEMMA ConcatLeft ==
    ASSUME NEW S, NEW u \in Seq(S), NEW v \in Seq(S), NEW i \in 1..Len(u)
    PROVE  (u \o v)[i] = u[i]
OBVIOUS

LEMMA ConcatRight ==
    ASSUME NEW S, NEW u \in Seq(S), NEW v \in Seq(S),
           NEW i \in Len(u) + 1 .. Len(u) + Len(v)
    PROVE  (u \o v)[i] = v[i - Len(u)]
OBVIOUS

LEMMA UnnamedConcat ==
    ASSUME NEW cs \in Seq(Cases), NEW ds \in Seq(Cases)
    PROVE  UnnamedAll(cs \o ds) = UnnamedAll(cs) \o UnnamedAll(ds)
<1> DEFINE e == cs \o ds
           u == UnnamedAll(cs)
           v == UnnamedAll(ds)
           x == UnnamedAll(e)
           w == u \o v
<1>1. /\ e \in Seq(Cases) /\ Len(e) = Len(cs) + Len(ds)
      /\ \A i \in 1..Len(cs) : e[i] = cs[i]
      /\ \A i \in Len(cs) + 1 .. Len(cs) + Len(ds) : e[i] = ds[i - Len(cs)]
  OBVIOUS
<1> HIDE DEF e
<1>2. /\ u \in Seq(Runner) /\ Len(u) = Len(cs) /\ \A i \in 1..Len(cs) : u[i] = Unnamed(cs[i])
      /\ v \in Seq(Runner) /\ Len(v) = Len(ds) /\ \A i \in 1..Len(ds) : v[i] = Unnamed(ds[i])
      /\ x \in Seq(Runner) /\ Len(x) = Len(e) /\ \A i \in 1..Len(e) : x[i] = Unnamed(e[i])
  BY <1>1, UnnamedType
<1> HIDE DEF u, v, x
<1>3. /\ w \in Seq(Runner) /\ Len(w) = Len(u) + Len(v)
      /\ \A i \in 1..Len(u) : w[i] = u[i]
      /\ \A i \in Len(u) + 1 .. Len(u) + Len(v) : w[i] = v[i - Len(u)]
  BY <1>2, ConcatLen, ConcatLeft, ConcatRight
<1> HIDE DEF w
<1>4. ASSUME NEW i \in 1..Len(x) PROVE x[i] = w[i]
  <2>1. CASE i <= Len(cs)
    BY <2>1, <1>1, <1>2, <1>3
  <2>2. CASE i > Len(cs)
    <3>1. i \in Len(cs) + 1 .. Len(cs) + Len(ds) /\ i - Len(cs) \in 1..Len(ds)
      BY <2>2, <1>1, <1>2
    <3> QED BY <3>1, <1>1, <1>2, <1>3
  <2> QED BY <2>1, <2>2, <1>2
<1>5. x = w
  BY <1>1, <1>2, <1>3, <1>4
<1> QED BY <1>5 DEF x, w, u, v, e

----------------------------------------------------------------------------
(* The state of the suite runner's parser. *)

St == [cases |-> UnnamedAll(cases), current |-> Unnamed(current), inItem |-> in_item,
       field |-> current_field, blockIndent |-> block_indent]

\* What a state of the runner is made of, field by field.
State(cs, c, inItem, field, indent) ==
    [cases |-> cs, current |-> c, inItem |-> inItem, field |-> field,
     blockIndent |-> indent]

LEMMA PieceType ==
    ASSUME NEW line \in Lines, NEW i \in Nat
    PROVE  Stripped(line, i) \in Pieces /\ Blank \in Pieces
BY DEF Pieces

LEMMA PieceAppended ==
    ASSUME NEW c \in Cases, NEW piece \in Pieces
    PROVE  /\ [c EXCEPT !.yaml = Append(@, piece)] \in Cases
           /\ [c EXCEPT !.tree = Append(@, piece)] \in Cases
           /\ Unnamed([c EXCEPT !.yaml = Append(@, piece)])
                = [Unnamed(c) EXCEPT !.yaml = Append(@, piece)]
           /\ Unnamed([c EXCEPT !.tree = Append(@, piece)])
                = [Unnamed(c) EXCEPT !.tree = Append(@, piece)]
<1>1. Append(c.yaml, piece) \in Seq(Pieces) /\ Append(c.tree, piece) \in Seq(Pieces)
  BY DEF Cases
<1>2. /\ [c EXCEPT !.yaml = Append(@, piece)] \in Cases
      /\ [c EXCEPT !.tree = Append(@, piece)] \in Cases
  BY <1>1 DEF Cases
<1>3. c = [id |-> c.id, tags |-> c.tags, expect_fail |-> c.expect_fail,
            yaml |-> c.yaml, tree |-> c.tree, variant |-> c.variant]
  BY DEF Cases
<1>4. /\ Unnamed([c EXCEPT !.yaml = Append(@, piece)])
           = [tags |-> c.tags, expectFail |-> c.expect_fail, yaml |-> Append(c.yaml, piece),
              tree |-> c.tree, variant |-> c.variant]
      /\ Unnamed([c EXCEPT !.tree = Append(@, piece)])
           = [tags |-> c.tags, expectFail |-> c.expect_fail, yaml |-> c.yaml,
              tree |-> Append(c.tree, piece), variant |-> c.variant]
  BY <1>3 DEF Unnamed
<1>5. /\ [Unnamed(c) EXCEPT !.yaml = Append(@, piece)]
           = [tags |-> c.tags, expectFail |-> c.expect_fail, yaml |-> Append(c.yaml, piece),
              tree |-> c.tree, variant |-> c.variant]
      /\ [Unnamed(c) EXCEPT !.tree = Append(@, piece)]
           = [tags |-> c.tags, expectFail |-> c.expect_fail, yaml |-> c.yaml,
              tree |-> Append(c.tree, piece), variant |-> c.variant]
  <2>1. Unnamed(c) = [tags |-> c.tags, expectFail |-> c.expect_fail, yaml |-> c.yaml,
                      tree |-> c.tree, variant |-> c.variant]
    BY DEF Unnamed
  <2> DEFINE more == Append(c.yaml, piece)
             deep == Append(c.tree, piece)
  <2> HIDE DEF more, deep
  <2>2. [Unnamed(c) EXCEPT !.yaml = more]
           = [tags |-> c.tags, expectFail |-> c.expect_fail, yaml |-> more,
              tree |-> c.tree, variant |-> c.variant]
    BY <2>1
  <2>3. [Unnamed(c) EXCEPT !.tree = deep]
           = [tags |-> c.tags, expectFail |-> c.expect_fail, yaml |-> c.yaml,
              tree |-> deep, variant |-> c.variant]
    BY <2>1
  <2>4. Unnamed(c).yaml = c.yaml /\ Unnamed(c).tree = c.tree
    BY <2>1
  <2> QED BY <2>2, <2>3, <2>4 DEF more, deep
<1> QED BY <1>2, <1>4, <1>5

LEMMA ContinuesInBlock ==
    ASSUME ParseInv, NEW line \in Lines
    PROVE  Continues(line) <=> Meta!InBlock(St, line)
<1>1. St.field = current_field /\ St.blockIndent = block_indent
  BY DEF St
<1> QED BY <1>1 DEF Continues, InBlock, Meta!InBlock

LEMMA BlockLineKeeps ==
    ASSUME ParseInv, NEW line \in Lines, BlockLine(line)
    PROVE  ParseInv' /\ St' = Meta!ProcessLine(St, line)
<1> DEFINE base == IF block_indent = 0 THEN line.indent ELSE block_indent
           piece == IF line.key = "" THEN Blank ELSE Stripped(line, base)
<1>0. base \in Nat
  BY LinesAssumption DEF ParseInv
<1>1. /\ block_indent' = base /\ base \in Nat
      /\ UNCHANGED <<file, cases, in_item, current_field, variant_counter, all_tests>>
      /\ current_field # "none"
      /\ Meta!InBlock(St, line)
  <2>1. Continues(line) /\ block_indent' = base
    BY DEF BlockLine
  <2>2. UNCHANGED <<file, cases, in_item, current_field, variant_counter, all_tests>>
    BY DEF BlockLine, Read
  <2> QED BY <1>0, <2>1, <2>2, ContinuesInBlock DEF Continues, InBlock
<1>2. current' = IF current_field = "other" THEN current
                 ELSE [current EXCEPT ![current_field] = Append(@, piece)]
  BY <1>1 DEF BlockLine, Blank, Stripped
<1>3. piece = Meta!Content(line, base)
  BY DEF Meta!Content, Blank, Stripped
<1>4. piece \in Pieces
  BY <1>1, PieceType
<1> HIDE DEF piece
<1>5. current \in Cases /\ current' \in Cases
  <2>1. CASE current_field = "yaml"
    <3>1. current' = [current EXCEPT !.yaml = Append(@, piece)]
      BY <2>1, <1>2
    <3> QED BY <3>1, <1>4, PieceAppended DEF ParseInv
  <2>2. CASE current_field = "tree"
    <3>1. current' = [current EXCEPT !.tree = Append(@, piece)]
      BY <2>2, <1>2
    <3> QED BY <3>1, <1>4, PieceAppended DEF ParseInv
  <2>3. CASE current_field = "other"
    BY <2>3, <1>2 DEF ParseInv
  <2> QED BY <1>1, <2>1, <2>2, <2>3 DEF ParseInv
<1>6. Unnamed(current') =
        IF current_field = "yaml"
        THEN [Unnamed(current) EXCEPT !.yaml = Append(@, piece)]
        ELSE IF current_field = "tree"
        THEN [Unnamed(current) EXCEPT !.tree = Append(@, piece)]
        ELSE Unnamed(current)
  <2>1. CASE current_field = "yaml"
    <3>1. current' = [current EXCEPT !.yaml = Append(@, piece)]
      BY <2>1, <1>2
    <3> QED BY <3>1, <2>1, <1>4, <1>5, PieceAppended
  <2>2. CASE current_field = "tree"
    <3>1. current' = [current EXCEPT !.tree = Append(@, piece)]
      BY <2>2, <1>2
    <3> QED BY <3>1, <2>2, <1>4, <1>5, PieceAppended
  <2>3. CASE current_field = "other"
    BY <2>3, <1>2
  <2> QED BY <1>1, <2>1, <2>2, <2>3 DEF ParseInv
<1>7. Meta!ProcessLine(St, line) = Meta!ProcessBlockLine(St, line)
  BY <1>1 DEF Meta!ProcessLine
<1>8. Meta!ProcessBlockLine(St, line) =
        State(UnnamedAll(cases), Unnamed(current'), in_item, current_field, base)
  <2> DEFINE c == Unnamed(current)
             cs == UnnamedAll(cases)
  <2>1. /\ St = [cases |-> cs, current |-> c, inItem |-> in_item, field |-> current_field,
                 blockIndent |-> block_indent]
        /\ DOMAIN c = {"tags", "expectFail", "yaml", "tree", "variant"}
    BY DEF St, Unnamed
  <2> HIDE DEF c, cs, piece, base
  <2>2. CASE current_field = "yaml"
    <3>1. Unnamed(current') = [c EXCEPT !.yaml = Append(@, piece)]
      BY <2>2, <1>6 DEF c
    <3>2. Meta!ProcessBlockLine(St, line) =
            State(cs, [c EXCEPT !.yaml = Append(@, piece)], in_item, current_field, base)
      BY <2>1, <2>2, <1>3 DEF Meta!ProcessBlockLine, State, base
    <3> QED BY <3>1, <3>2 DEF cs
  <2>3. CASE current_field = "tree"
    <3>1. Unnamed(current') = [c EXCEPT !.tree = Append(@, piece)]
      BY <2>3, <1>6 DEF c
    <3>2. Meta!ProcessBlockLine(St, line) =
            State(cs, [c EXCEPT !.tree = Append(@, piece)], in_item, current_field, base)
      BY <2>1, <2>3, <1>3 DEF Meta!ProcessBlockLine, State, base
    <3> QED BY <3>1, <3>2 DEF cs
  <2>4. CASE current_field = "other"
    BY <2>1, <2>4, <1>6 DEF Meta!ProcessBlockLine, State, base, c, cs
  <2> QED BY <1>1, <2>2, <2>3, <2>4 DEF ParseInv
<1>9. St' = State(UnnamedAll(cases), Unnamed(current'), in_item, current_field, base)
  BY <1>1 DEF St, State
<1>10. ParseInv'
  BY <1>1, <1>5 DEF ParseInv
<1> QED BY <1>7, <1>8, <1>9, <1>10

\* A field of a case is set, or a block scalar opened; a line without a value
\* does neither.
LEMMA FieldSet ==
    ASSUME NEW c \in Cases, NEW line \in Lines
    PROVE  WithField(c, line.key, line.value) \in Cases
<1> DEFINE key == line.key
           value == line.value
           d == WithField(c, key, value)
<1>0. value \in Values /\ value \in TagSets /\ value \in Pieces
  BY DEF Values, TagSets, Pieces
<1>1. <<>> \in Seq(Pieces) /\ <<value>> \in Seq(Pieces)
  BY <1>0
<1>2. CASE key = "tags" /\ value # None
  <2>1. d = [c EXCEPT !.tags = value]
    BY <1>2 DEF WithField
  <2> QED BY <2>1, <1>0 DEF Cases
<1>3. CASE key = "fail" /\ value # None
  <2>1. d = [c EXCEPT !.expect_fail = (value = "true")]
    BY <1>3 DEF WithField
  <2> QED BY <2>1 DEF Cases
<1>4. CASE key = "yaml" /\ value # None
  <2>1. d = [c EXCEPT !.yaml = IF value = Header THEN <<>> ELSE <<value>>]
    BY <1>4 DEF WithField
  <2>2. (IF value = Header THEN <<>> ELSE <<value>>) \in Seq(Pieces)
    BY <1>1
  <2> QED BY <2>1, <2>2 DEF Cases
<1>5. CASE key = "tree" /\ value # None
  <2>1. d = [c EXCEPT !.tree = IF value = Header THEN <<>> ELSE <<value>>]
    BY <1>5 DEF WithField
  <2>2. (IF value = Header THEN <<>> ELSE <<value>>) \in Seq(Pieces)
    BY <1>1
  <2> QED BY <2>1, <2>2 DEF Cases
<1>6. CASE value = None \/ key \notin {"tags", "fail", "yaml", "tree"}
  <2>1. d = c
    BY <1>6 DEF WithField
  <2> QED BY <2>1
<1> QED BY <1>2, <1>3, <1>4, <1>5, <1>6

LEMMA ClosedState ==
    ASSUME NEW cs, NEW c, NEW inItem, NEW f, NEW b
    PROVE  Meta!Closed(State(cs, c, inItem, f, b)) = State(cs, c, inItem, "none", 0)
<1> DEFINE s == State(cs, c, inItem, f, b)
           t == [s EXCEPT !.field = "none"]
<1>1. s = [cases |-> cs, current |-> c, inItem |-> inItem, field |-> f, blockIndent |-> b]
  BY DEF State
<1> HIDE DEF s
<1>2. /\ Meta!Closed(s) = [t EXCEPT !.blockIndent = 0]
      /\ t = State(cs, c, inItem, "none", b)
  BY <1>1 DEF Meta!Closed, State
<1> HIDE DEF t
<1>3. [t EXCEPT !.blockIndent = 0] = State(cs, c, inItem, "none", 0)
  BY <1>2 DEF State
<1> QED BY <1>2, <1>3 DEF s

Emptied(c, key) == [c EXCEPT ![key] = <<>>]

\* A block scalar is opened: its field is empty.
LEMMA HeaderState ==
    ASSUME NEW cs, NEW c, NEW inItem, NEW f, NEW b, NEW key \in {"yaml", "tree"}
    PROVE  Meta!ProcessKeyValue(State(cs, c, inItem, f, b), key, Header)
             = State(cs, Emptied(c, key), inItem, key, 0)
<1> DEFINE s == Meta!Closed(State(cs, c, inItem, f, b))
           empty == [c EXCEPT ![key] = <<>>]
           t == [s EXCEPT !.current = empty]
<1>1. s = [cases |-> cs, current |-> c, inItem |-> inItem, field |-> "none", blockIndent |-> 0]
  BY ClosedState DEF State
<1>2. Meta!ProcessKeyValue(State(cs, c, inItem, f, b), key, Header)
        = [s EXCEPT !.current[key] = <<>>, !.field = key]
  BY DEF Meta!ProcessKeyValue
<1> HIDE DEF s
<1>3. [s EXCEPT !.current[key] = <<>>, !.field = key] = [t EXCEPT !.field = key]
  BY <1>1
<1> HIDE DEF empty
<1>4. t = [cases |-> cs, current |-> empty, inItem |-> inItem, field |-> "none",
           blockIndent |-> 0]
  BY <1>1
<1> HIDE DEF t
<1>5. [t EXCEPT !.field = key] = State(cs, empty, inItem, key, 0)
  BY <1>4 DEF State
<1> QED BY <1>2, <1>3, <1>5 DEF empty, Emptied

LEMMA FieldLineKeeps ==
    ASSUME NEW c \in Cases, NEW line \in Lines, NEW cs, NEW inItem, NEW f, NEW b
    PROVE  Meta!ProcessKeyValue(State(cs, Unnamed(c), inItem, f, b), line.key, line.value)
             = State(cs, Unnamed(WithField(c, line.key, line.value)), inItem,
                     Opened(line), 0)
<1> DEFINE key == line.key
           value == line.value
           d == WithField(c, key, value)
           u == Unnamed(c)
           s == State(cs, u, inItem, f, b)
           m == Meta!ProcessKeyValue(s, key, value)
<1>0. /\ c = [id |-> c.id, tags |-> c.tags, expect_fail |-> c.expect_fail,
               yaml |-> c.yaml, tree |-> c.tree, variant |-> c.variant]
      /\ u = [tags |-> c.tags, expectFail |-> c.expect_fail, yaml |-> c.yaml,
               tree |-> c.tree, variant |-> c.variant]
  BY DEF Cases, Unnamed
<1>1. Meta!Closed(s) = State(cs, u, inItem, "none", 0)
  BY ClosedState
<1>a. value = None => key \notin {"tags", "fail", "yaml", "tree"}
  BY BareAssumption
<1> HIDE DEF u, s
<1>2. CASE key = "tags"
  <2>1. d = [c EXCEPT !.tags = value] /\ Opened(line) = "none"
    BY <1>2, <1>a DEF WithField, Opened
  <2>2. m = State(cs, [u EXCEPT !.tags = value], inItem, "none", 0)
    BY <1>1, <1>2 DEF Meta!ProcessKeyValue, State
  <2>3. Unnamed(d) = [u EXCEPT !.tags = value]
    BY <2>1, <1>0 DEF Unnamed
  <2> QED BY <2>1, <2>2, <2>3 DEF s, u
<1>3. CASE key = "fail"
  <2>1. d = [c EXCEPT !.expect_fail = (value = "true")] /\ Opened(line) = "none"
    BY <1>3, <1>a DEF WithField, Opened
  <2>2. m = State(cs, [u EXCEPT !.expectFail = (value = "true")], inItem, "none", 0)
    BY <1>1, <1>3 DEF Meta!ProcessKeyValue, State
  <2>3. Unnamed(d) = [u EXCEPT !.expectFail = (value = "true")]
    BY <2>1, <1>0 DEF Unnamed
  <2> QED BY <2>1, <2>2, <2>3 DEF s, u
<1>4. CASE key = "yaml"
  <2> DEFINE text1 == IF value = Header THEN <<>> ELSE <<value>>
             field == IF value = Header THEN "yaml" ELSE "none"
  <2>1. d = [c EXCEPT !.yaml = text1] /\ Opened(line) = field
    BY <1>4, <1>a DEF WithField, Opened
  <2>2. m = State(cs, [u EXCEPT !.yaml = text1], inItem, field, 0)
    <3>1. CASE value = Header
      <4>1. m = State(cs, Emptied(u, key), inItem, key, 0)
        BY <1>4, <3>1, HeaderState DEF s
      <4>2. Emptied(u, key) = [u EXCEPT !.yaml = <<>>]
        BY <1>4 DEF Emptied
      <4> QED BY <4>1, <4>2, <3>1, <1>4
    <3>2. CASE value # Header
      <4>1. m = [Meta!Closed(s) EXCEPT !.current[key] = <<value>>]
        BY <1>4, <3>2 DEF Meta!ProcessKeyValue
      <4> QED BY <4>1, <3>2, <1>1, <1>4 DEF State
    <3> QED BY <3>1, <3>2
  <2> HIDE DEF text1
  <2>3. Unnamed(d) = [u EXCEPT !.yaml = text1]
    BY <2>1, <1>0 DEF Unnamed
  <2> QED BY <2>1, <2>2, <2>3 DEF s, u
<1>5. CASE key = "tree"
  <2> DEFINE text1 == IF value = Header THEN <<>> ELSE <<value>>
             field == IF value = Header THEN "tree" ELSE "none"
  <2>1. d = [c EXCEPT !.tree = text1] /\ Opened(line) = field
    BY <1>5, <1>a DEF WithField, Opened
  <2>2. m = State(cs, [u EXCEPT !.tree = text1], inItem, field, 0)
    <3>1. CASE value = Header
      <4>1. m = State(cs, Emptied(u, key), inItem, key, 0)
        BY <1>5, <3>1, HeaderState DEF s
      <4>2. Emptied(u, key) = [u EXCEPT !.tree = <<>>]
        BY <1>5 DEF Emptied
      <4> QED BY <4>1, <4>2, <3>1, <1>5
    <3>2. CASE value # Header
      <4>1. m = [Meta!Closed(s) EXCEPT !.current[key] = <<value>>]
        BY <1>5, <3>2 DEF Meta!ProcessKeyValue
      <4> QED BY <4>1, <3>2, <1>1, <1>5 DEF State
    <3> QED BY <3>1, <3>2
  <2> HIDE DEF text1
  <2>3. Unnamed(d) = [u EXCEPT !.tree = text1]
    BY <2>1, <1>0 DEF Unnamed
  <2> QED BY <2>1, <2>2, <2>3 DEF s, u
<1>6. CASE key \notin {"tags", "fail", "yaml", "tree"}
  <2> DEFINE field == IF key = "other" /\ value = Header THEN "other" ELSE "none"
  <2>1. d = c /\ Opened(line) = field
    BY <1>6 DEF WithField, Opened
  <2>2. m = State(cs, u, inItem, field, 0)
    BY <1>1, <1>6 DEF Meta!ProcessKeyValue, State
  <2> QED BY <2>1, <2>2 DEF s, u
<1> QED BY <1>2, <1>3, <1>4, <1>5, <1>6 DEF s, u

LEMMA StateOfParser ==
    St = State(UnnamedAll(cases), Unnamed(current), in_item, current_field, block_indent)
BY DEF St, State

LEMMA CaseSet ==
    ASSUME NEW S, NEW u \in Seq(S), NEW x \in S
    PROVE  Append(u, x) \in Seq(S) /\ Len(Append(u, x)) = Len(u) + 1
OBVIOUS

\* The updates of a record that the two parsers make, by name.
Recased(s, cs) == [s EXCEPT !.cases = cs]
OpenedWith(s, now, c) == [s EXCEPT !.inItem = now, !.current = c]
Numbered(c, n) == [c EXCEPT !.variant = n]
Named(c, id, n) == [c EXCEPT !.id = id, !.variant = n]

LEMMA StateRecased ==
    ASSUME NEW cs, NEW ds, NEW c, NEW inItem, NEW f, NEW b
    PROVE  Recased(State(cs, c, inItem, f, b), ds) = State(ds, c, inItem, f, b)
BY DEF State, Recased

LEMMA StateOpened ==
    ASSUME NEW cs, NEW c, NEW d, NEW inItem, NEW now, NEW f, NEW b
    PROVE  OpenedWith(State(cs, c, inItem, f, b), now, d) = State(cs, d, now, f, b)
<1> DEFINE s == State(cs, c, inItem, f, b)
           t == [s EXCEPT !.inItem = now]
<1>1. OpenedWith(s, now, d) = [t EXCEPT !.current = d]
  BY DEF State, OpenedWith
<1>2. t = State(cs, c, now, f, b)
  BY DEF State
<1> HIDE DEF t
<1>3. [t EXCEPT !.current = d] = State(cs, d, now, f, b)
  BY <1>2 DEF State
<1> QED BY <1>1, <1>3

LEMMA CaseNumbered ==
    ASSUME NEW tags, NEW fail, NEW yaml, NEW tree, NEW m, NEW n
    PROVE  Numbered([tags |-> tags, expectFail |-> fail, yaml |-> yaml, tree |-> tree,
                     variant |-> m], n)
             = [tags |-> tags, expectFail |-> fail, yaml |-> yaml, tree |-> tree,
                variant |-> n]
BY DEF Numbered

LEMMA CaseNamed ==
    ASSUME NEW i, NEW tags, NEW fail, NEW yaml, NEW tree, NEW m, NEW id, NEW n
    PROVE  Named([id |-> i, tags |-> tags, expect_fail |-> fail, yaml |-> yaml,
                  tree |-> tree, variant |-> m], id, n)
             = [id |-> id, tags |-> tags, expect_fail |-> fail, yaml |-> yaml,
                tree |-> tree, variant |-> n]
<1> DEFINE c == [id |-> i, tags |-> tags, expect_fail |-> fail, yaml |-> yaml,
                 tree |-> tree, variant |-> m]
           d == [c EXCEPT !.id = id]
<1>1. Named(c, id, n) = [d EXCEPT !.variant = n]
  BY DEF Named
<1>2. d = [id |-> id, tags |-> tags, expect_fail |-> fail, yaml |-> yaml,
           tree |-> tree, variant |-> m]
  OBVIOUS
<1> HIDE DEF d
<1>3. [d EXCEPT !.variant = n]
        = [id |-> id, tags |-> tags, expect_fail |-> fail, yaml |-> yaml,
           tree |-> tree, variant |-> n]
  BY <1>2
<1> QED BY <1>1, <1>3

\* The open case is added to the others, and its number is the counter.
LEMMA FinalizedCases ==
    ASSUME ParseInv
    PROVE  /\ Finalized \in Seq(Cases)
           /\ Len(Finalized) = variant_counter
           /\ variant_counter \in Nat
           /\ UnnamedAll(Finalized)
                = IF in_item THEN Append(UnnamedAll(cases), Unnamed(current))
                  ELSE UnnamedAll(cases)
<1>1. /\ cases \in Seq(Cases) /\ current \in Cases /\ in_item \in BOOLEAN
      /\ variant_counter = Len(cases) + (IF in_item THEN 1 ELSE 0)
  BY DEF ParseInv
<1>2. Len(cases) \in Nat
  BY <1>1
<1>3. CASE in_item
  <2>1. Finalized = Append(cases, current)
    BY <1>3 DEF Finalized
  <2> QED BY <2>1, <1>1, <1>2, <1>3, CaseSet, UnnamedAppend
<1>4. CASE ~in_item
  <2>1. Finalized = cases
    BY <1>4 DEF Finalized
  <2> QED BY <2>1, <1>1, <1>2, <1>4
<1> QED BY <1>1, <1>3, <1>4

LEMMA FinalizedState ==
    ASSUME ParseInv, NEW f, NEW b
    PROVE  Meta!FinalizeItem(State(UnnamedAll(cases), Unnamed(current), in_item, f, b))
             = State(UnnamedAll(Finalized), IF in_item THEN Meta!NoCase ELSE Unnamed(current),
                     FALSE, "none", 0)
<1> DEFINE s == State(UnnamedAll(cases), Unnamed(current), in_item, f, b)
<1>1. /\ s.inItem = in_item /\ in_item \in BOOLEAN
      /\ s.cases = UnnamedAll(cases) /\ s.current = Unnamed(current)
  BY DEF State, ParseInv
<1>2. Meta!Closed(s) = State(UnnamedAll(cases), Unnamed(current), in_item, "none", 0)
  BY ClosedState
<1> HIDE DEF s
<1>3. CASE in_item
  <2> DEFINE cs == Append(s.cases, s.current)
  <2>1. Meta!FinalizeItem(s) = [Meta!Start EXCEPT !.cases = cs]
    BY <1>1, <1>3 DEF Meta!FinalizeItem
  <2>2. cs = UnnamedAll(Finalized)
    BY <1>1, <1>3, FinalizedCases
  <2> HIDE DEF cs
  <2>3. Meta!Start = State(<<>>, Meta!NoCase, FALSE, "none", 0)
    BY DEF Meta!Start, State
  <2>4. [Meta!Start EXCEPT !.cases = cs] = State(cs, Meta!NoCase, FALSE, "none", 0)
    <3>1. [Meta!Start EXCEPT !.cases = cs] = Recased(Meta!Start, cs)
      BY DEF Recased
    <3> DEFINE no == FALSE
    <3> HIDE DEF no
    <3>2. Recased(State(<<>>, Meta!NoCase, no, "none", 0), cs)
            = State(cs, Meta!NoCase, no, "none", 0)
      BY StateRecased
    <3> QED BY <3>1, <3>2, <2>3, Zenon DEF no
  <2> QED BY <1>3, <2>1, <2>2, <2>4 DEF s
<1>4. CASE ~in_item
  <2>1. Meta!FinalizeItem(s) = Meta!Closed(s)
    BY <1>1, <1>4 DEF Meta!FinalizeItem
  <2>2. UnnamedAll(Finalized) = UnnamedAll(cases) /\ in_item = FALSE
    BY <1>1, <1>4, FinalizedCases
  <2> QED BY <1>2, <1>4, <2>1, <2>2 DEF s
<1> QED BY <1>1, <1>3, <1>4

LEMMA NoCaseState ==
    NoCase \in Cases /\ Unnamed(NoCase) = Meta!NoCase
<1>1. <<>> \in Seq(Pieces) /\ {} \in TagSets /\ "" \in Names
  BY DEF TagSets, Names
<1> QED BY <1>1 DEF NoCase, Cases, Unnamed, Meta!NoCase

LEMMA FieldLineStep ==
    ASSUME ParseInv, NEW line \in Lines, FieldLine(line)
    PROVE  ParseInv' /\ St' = Meta!ProcessLine(St, line)
<1>1. /\ UNCHANGED <<file, cases, in_item, variant_counter, all_tests>>
      /\ current' = WithField(current, line.key, line.value)
      /\ current_field' = Opened(line) /\ block_indent' = 0
      /\ ~line.item /\ line.key # "---" /\ ~Continues(line)
  BY DEF FieldLine, Read
<1>2. Meta!ProcessLine(St, line) = Meta!ProcessKeyValue(Meta!Closed(St), line.key, line.value)
  BY <1>1, ContinuesInBlock DEF Meta!ProcessLine
<1>3. Meta!Closed(St) = State(UnnamedAll(cases), Unnamed(current), in_item, "none", 0)
  BY StateOfParser, ClosedState
<1>4. current \in Cases
  BY DEF ParseInv
<1>5. Meta!ProcessLine(St, line)
        = State(UnnamedAll(cases), Unnamed(current'), in_item, Opened(line), 0)
  BY <1>1, <1>2, <1>3, <1>4, FieldLineKeeps
<1>6. St' = State(UnnamedAll(cases), Unnamed(current'), in_item, Opened(line), 0)
  BY <1>1 DEF St, State
<1>7. current' \in Cases
  BY <1>1, <1>4, FieldSet
<1>8. Opened(line) \in {"none", "yaml", "tree", "other"}
  BY DEF Opened
<1>9. ParseInv'
  BY <1>1, <1>7, <1>8 DEF ParseInv
<1> QED BY <1>5, <1>6, <1>9

LEMMA SeparatorLineStep ==
    ASSUME ParseInv, NEW line \in Lines, SeparatorLine(line)
    PROVE  ParseInv' /\ St' = Meta!ProcessLine(St, line)
<1> DEFINE c == IF in_item THEN NoCase ELSE current
<1>1. /\ UNCHANGED <<file, variant_counter, all_tests>>
      /\ cases' = Finalized /\ current' = c /\ in_item' = FALSE
      /\ current_field' = "none" /\ block_indent' = 0
      /\ ~line.item /\ line.key = "---" /\ ~Continues(line)
  BY DEF SeparatorLine, Read
<1>2. Meta!ProcessLine(St, line) = Meta!FinalizeItem(Meta!Closed(St))
  BY <1>1, ContinuesInBlock DEF Meta!ProcessLine
<1>3. Meta!Closed(St) = State(UnnamedAll(cases), Unnamed(current), in_item, "none", 0)
  BY StateOfParser, ClosedState
<1>4. c \in Cases /\ Unnamed(c) = IF in_item THEN Meta!NoCase ELSE Unnamed(current)
  BY NoCaseState DEF ParseInv
<1> HIDE DEF c
<1>5. Meta!ProcessLine(St, line) = State(UnnamedAll(Finalized), Unnamed(c), FALSE, "none", 0)
  BY <1>2, <1>3, <1>4, FinalizedState
<1>6. St' = State(UnnamedAll(Finalized), Unnamed(c), FALSE, "none", 0)
  BY <1>1 DEF St, State
<1>7. variant_counter' = Len(cases')
  BY <1>1, FinalizedCases
<1>8. ParseInv'
  <2>1. Finalized \in Seq(Cases) /\ Len(Finalized) \in Nat
    BY FinalizedCases
  <2>2. (Len(cases) + (IF in_item THEN 1 ELSE 0))' = Len(cases')
    BY <1>1, <2>1
  <2> QED BY <1>1, <1>4, <1>7, <2>1, <2>2 DEF ParseInv
<1> QED BY <1>5, <1>6, <1>8

\* The case of an item before its first field.
NewCase == [NoCase EXCEPT !.id = Ids[file], !.variant = variant_counter]

LEMMA NewCaseType ==
    ASSUME ParseInv
    PROVE  /\ NewCase = [id |-> Ids[file], tags |-> {}, expect_fail |-> FALSE, yaml |-> <<>>,
                         tree |-> <<>>, variant |-> variant_counter]
           /\ NewCase \in Cases
<1>1. NewCase = [id |-> Ids[file], tags |-> {}, expect_fail |-> FALSE, yaml |-> <<>>,
                 tree |-> <<>>, variant |-> variant_counter]
  <2>1. NewCase = Named(NoCase, Ids[file], variant_counter)
    BY DEF Named, NewCase
  <2> DEFINE anonymous == ""
             id == Ids[file]
             no == FALSE
             none == {}
             zero == 0
             nil == <<>>
  <2>2. NoCase = [id |-> anonymous, tags |-> none, expect_fail |-> no, yaml |-> nil,
                  tree |-> nil, variant |-> zero]
    BY DEF NoCase
  <2> HIDE DEF anonymous, id, no, none, zero, nil
  <2>3. Named([id |-> anonymous, tags |-> none, expect_fail |-> no, yaml |-> nil,
               tree |-> nil, variant |-> zero], id, variant_counter)
          = [id |-> id, tags |-> none, expect_fail |-> no, yaml |-> nil, tree |-> nil,
             variant |-> variant_counter]
    BY CaseNamed
  <2> QED BY <2>1, <2>2, <2>3, Zenon DEF id, no, none, nil
<1>2. Ids[file] \in Names
  BY DEF ParseInv, Names
<1>3. <<>> \in Seq(Pieces) /\ {} \in TagSets /\ variant_counter \in Nat
  BY FinalizedCases DEF TagSets
<1> QED BY <1>1, <1>2, <1>3 DEF Cases

LEMMA ItemLineStep ==
    ASSUME ParseInv, NEW line \in Lines, ItemLine(line)
    PROVE  ParseInv' /\ St' = Meta!ProcessLine(St, line)
<1> DEFINE c == WithField(NewCase, line.key, line.value)
           cs == UnnamedAll(Finalized)
           done == Meta!FinalizeItem(Meta!Closed(St))
           fresh == [Meta!NoCase EXCEPT !.variant = Len(cs)]
           item == OpenedWith(done, TRUE, fresh)
<1>1. /\ UNCHANGED <<file, all_tests>>
      /\ cases' = Finalized /\ current' = c /\ in_item' = TRUE
      /\ current_field' = Opened(line) /\ block_indent' = 0
      /\ variant_counter' = variant_counter + 1
      /\ line.item /\ ~Continues(line)
  BY DEF ItemLine, Read, NewCase
<1>2. Meta!ProcessLine(St, line) = Meta!ProcessListItem(Meta!Closed(St), line)
  BY <1>1, ContinuesInBlock DEF Meta!ProcessLine
<1>3. /\ Finalized \in Seq(Cases) /\ Len(Finalized) = variant_counter
      /\ Len(cs) = variant_counter /\ variant_counter \in Nat
  BY FinalizedCases, UnnamedType
<1>4. Meta!Closed(St) = State(UnnamedAll(cases), Unnamed(current), in_item, "none", 0)
  BY StateOfParser, ClosedState
<1>5. PICK old : done = State(cs, old, FALSE, "none", 0)
  BY <1>4, FinalizedState
<1>6. Unnamed(NewCase) = fresh
  <2>1. fresh = Numbered(Meta!NoCase, variant_counter)
    BY <1>3 DEF Numbered
  <2>2. fresh = [tags |-> {}, expectFail |-> FALSE, yaml |-> <<>>, tree |-> <<>>,
                 variant |-> variant_counter]
    <3>1. Meta!NoCase = [tags |-> {}, expectFail |-> FALSE, yaml |-> <<>>, tree |-> <<>>,
                         variant |-> 0]
      BY DEF Meta!NoCase
    <3> DEFINE no == FALSE
               none == {}
               zero == 0
               nil == <<>>
    <3> HIDE DEF no, none, zero, nil
    <3>2. Numbered([tags |-> none, expectFail |-> no, yaml |-> nil, tree |-> nil,
                    variant |-> zero], variant_counter)
            = [tags |-> none, expectFail |-> no, yaml |-> nil, tree |-> nil,
               variant |-> variant_counter]
      BY CaseNumbered
    <3> QED BY <2>1, <3>1, <3>2, Zenon DEF no, none, zero, nil
  <2>3. NewCase = [id |-> Ids[file], tags |-> {}, expect_fail |-> FALSE, yaml |-> <<>>,
                   tree |-> <<>>, variant |-> variant_counter]
    BY NewCaseType
  <2> QED BY <2>2, <2>3 DEF Unnamed
<1>7. Meta!ProcessListItem(Meta!Closed(St), line) = Meta!ProcessKeyValue(item, line.key, line.value)
  BY <1>5 DEF State, Meta!ProcessListItem, OpenedWith
<1>8. item = State(cs, Unnamed(NewCase), TRUE, "none", 0)
  <2> HIDE DEF done, cs, fresh
  <2> DEFINE no == FALSE
             yes == TRUE
  <2> HIDE DEF no, yes
  <2>1. OpenedWith(State(cs, old, no, "none", 0), yes, fresh)
          = State(cs, fresh, yes, "none", 0)
    BY StateOpened
  <2> QED BY <1>5, <1>6, <2>1, Zenon DEF no, yes
<1> HIDE DEF item
<1>9. Meta!ProcessLine(St, line) = State(cs, Unnamed(c), TRUE, Opened(line), 0)
  <2>1. NewCase \in Cases
    BY NewCaseType
  <2> QED BY <1>2, <1>7, <1>8, <2>1, FieldLineKeeps
<1>10. c \in Cases
  BY NewCaseType, FieldSet
<1> HIDE DEF c
<1>11. St' = State(cs, Unnamed(c), TRUE, Opened(line), 0)
  BY <1>1 DEF St, State
<1>12. Opened(line) \in {"none", "yaml", "tree", "other"}
  BY DEF Opened
<1>13. ParseInv'
  BY <1>1, <1>3, <1>10, <1>12 DEF ParseInv
<1> QED BY <1>9, <1>11, <1>13

----------------------------------------------------------------------------
(* The end of a file, and the rest of the program. *)

WithName(cs, id) == [i \in DOMAIN cs |-> [cs[i] EXCEPT !.id = id]]

LEMMA NameLeftOut ==
    ASSUME NEW cs \in Seq(Cases), NEW id \in Names
    PROVE  WithName(cs, id) \in Seq(Cases) /\ UnnamedAll(WithName(cs, id)) = UnnamedAll(cs)
<1>1. ASSUME NEW c \in Cases
      PROVE  [c EXCEPT !.id = id] \in Cases /\ Unnamed([c EXCEPT !.id = id]) = Unnamed(c)
  BY DEF Cases, Unnamed
<1> DEFINE one(c) == [c EXCEPT !.id = id]
           ds == WithName(cs, id)
<1>2. DOMAIN cs = 1..Len(cs) /\ Len(cs) \in Nat /\ \A i \in 1..Len(cs) : cs[i] \in Cases
  OBVIOUS
<1>3. \A i \in 1..Len(cs) : one(cs[i]) \in Cases /\ Unnamed(one(cs[i])) = Unnamed(cs[i])
  BY <1>1, <1>2
<1>4. ds = [i \in 1..Len(cs) |-> one(cs[i])]
  BY <1>2 DEF WithName
<1> HIDE DEF one
<1>5. ds \in Seq(Cases) /\ Len(ds) = Len(cs) /\ \A i \in 1..Len(cs) : ds[i] = one(cs[i])
  BY <1>2, <1>3, <1>4
<1> HIDE DEF ds
<1> DEFINE u == UnnamedAll(ds)
           v == UnnamedAll(cs)
<1>6. /\ u \in Seq(Runner) /\ Len(u) = Len(ds) /\ \A i \in 1..Len(ds) : u[i] = Unnamed(ds[i])
      /\ v \in Seq(Runner) /\ Len(v) = Len(cs) /\ \A i \in 1..Len(cs) : v[i] = Unnamed(cs[i])
  BY <1>5, UnnamedType
<1> HIDE DEF u, v
<1>7. u = v
  BY <1>3, <1>5, <1>6
<1> QED BY <1>5, <1>7 DEF u, v, ds

LEMMA EndOfFileStep ==
    ASSUME ParseInv, EndOfFile
    PROVE  /\ ParseInv' /\ text' = <<>> /\ St' = Meta!Start
           /\ UnnamedAll(all_tests')
                = UnnamedAll(all_tests) \o Meta!FinalizeItem(St).cases
<1> DEFINE named == WithName(Finalized, Ids[file])
<1>1. /\ all_tests' = all_tests \o named
      /\ cases' = <<>> /\ current' = NoCase /\ in_item' = FALSE
      /\ current_field' = "none" /\ block_indent' = 0 /\ variant_counter' = 0
      /\ text' = <<>> /\ file' = file + 1
  BY DEF EndOfFile, Fresh, WithName
<1>2. /\ all_tests \in Seq(Cases) /\ file \in Nat /\ Ids[file] \in Names
      /\ Finalized \in Seq(Cases)
  BY FinalizedCases DEF ParseInv, Names
<1>3. named \in Seq(Cases) /\ UnnamedAll(named) = UnnamedAll(Finalized)
  BY <1>2, NameLeftOut
<1> HIDE DEF named
<1>4. all_tests' \in Seq(Cases)
  BY <1>1, <1>2, <1>3, ConcatLen
<1>5. UnnamedAll(all_tests') = UnnamedAll(all_tests) \o UnnamedAll(Finalized)
  BY <1>1, <1>2, <1>3, UnnamedConcat
<1>6. Meta!FinalizeItem(St).cases = UnnamedAll(Finalized)
  BY StateOfParser, FinalizedState DEF State
<1>7. ParseInv'
  <2>1. <<>> \in Seq(Cases) /\ Len(<<>>) = 0
    OBVIOUS
  <2>2. (variant_counter = Len(cases) + (IF in_item THEN 1 ELSE 0))'
    BY <1>1, <2>1
  <2>3. /\ file' \in Nat /\ in_item' \in BOOLEAN /\ block_indent' \in Nat
        /\ current_field' \in {"none", "yaml", "tree", "other"}
    <3>1. file' \in Nat
      BY <1>1, <1>2
    <3>2. in_item' \in BOOLEAN
      BY <1>1, Zenon
    <3> QED BY <1>1, <3>1, <3>2
  <2>4. cases' \in Seq(Cases) /\ current' \in Cases
    BY <1>1, <2>1, NoCaseState
  <2> QED BY <1>4, <2>2, <2>3, <2>4, Zenon DEF ParseInv
<1>8. UnnamedAll(<<>>) = <<>>
  BY DEF UnnamedAll
<1>9. St' = Meta!Start
  BY <1>1, <1>8, NoCaseState DEF St, Meta!Start
<1> QED BY <1>1, <1>5, <1>6, <1>7, <1>9

\* What reading the files changes.
parsed == <<file, text, parse_vars, all_tests>>

LEMMA RestStep ==
    ASSUME ParseInv, UNCHANGED parsed
    PROVE  ParseInv' /\ UNCHANGED <<text, St, UnnamedAll(all_tests)>>
BY DEF ParseInv, parsed, parse_vars, St

LEMMA InitMeta == Init => ParseInv /\ Meta!Init
<1> SUFFICES ASSUME Init PROVE ParseInv /\ Meta!Init
  OBVIOUS
<1>1. /\ text = <<>> /\ file = 1 /\ all_tests = <<>> /\ cases = <<>> /\ current = NoCase
      /\ in_item = FALSE /\ current_field = "none" /\ block_indent = 0
      /\ variant_counter = 0
  BY DEF Init
<1>2. UnnamedAll(<<>>) = <<>>
  BY DEF UnnamedAll
<1>3. St = Meta!Start
  BY <1>1, <1>2, NoCaseState DEF St, Meta!Start
<1>4. Meta!Init
  BY <1>1, <1>2, <1>3 DEF Meta!Init, St
<1>5. <<>> \in Seq(Cases) /\ Len(<<>>) = 0
  OBVIOUS
<1>6. variant_counter = Len(cases) + (IF in_item THEN 1 ELSE 0)
  BY <1>1, <1>5
<1>7. /\ file \in Nat /\ in_item \in BOOLEAN /\ block_indent \in Nat
      /\ current_field \in {"none", "yaml", "tree", "other"}
  BY <1>1
<1>8. cases \in Seq(Cases) /\ all_tests \in Seq(Cases) /\ current \in Cases
  BY <1>1, <1>5, NoCaseState
<1>9. ParseInv
  BY <1>6, <1>7, <1>8, Zenon DEF ParseInv
<1> QED BY <1>4, <1>9

LEMMA LineStep ==
    ASSUME NEW line \in Lines, Read(line), St' = Meta!ProcessLine(St, line)
    PROVE  Meta!ReadLine
BY DEF Read, Meta!ReadLine, St

LEMMA StepMeta ==
    ParseInv /\ [Next]_vars => ParseInv' /\ [Meta!Next]_(Meta!metaVars)
<1> SUFFICES ASSUME ParseInv, [Next]_vars
             PROVE  ParseInv' /\ [Meta!Next]_(Meta!metaVars)
  OBVIOUS
<1>1. ASSUME NEW line \in Lines, BlockLine(line) PROVE ParseInv' /\ Meta!ReadLine
  BY <1>1, BlockLineKeeps, LineStep DEF BlockLine
<1>2. ASSUME NEW line \in Lines, SeparatorLine(line) PROVE ParseInv' /\ Meta!ReadLine
  BY <1>2, SeparatorLineStep, LineStep DEF SeparatorLine
<1>3. ASSUME NEW line \in Lines, ItemLine(line) PROVE ParseInv' /\ Meta!ReadLine
  BY <1>3, ItemLineStep, LineStep DEF ItemLine
<1>4. ASSUME NEW line \in Lines, FieldLine(line) PROVE ParseInv' /\ Meta!ReadLine
  BY <1>4, FieldLineStep, LineStep DEF FieldLine
<1>5. CASE EndOfFile
  BY <1>5, EndOfFileStep DEF Meta!Next, Meta!EndOfFile, St
<1>6. ASSUME UNCHANGED parsed PROVE ParseInv' /\ UNCHANGED Meta!metaVars
  BY <1>6, RestStep DEF Meta!metaVars, St
<1>7. CASE Classify \/ Probe \/ ProbeTimesOut \/ ProbingDone \/ Generate \/ DryRun
  <2>1. UNCHANGED parsed
    BY <1>7 DEF parsed, Classify, Probe, ProbeTimesOut, ProbingDone, Generate, DryRun
  <2> QED BY <1>6, <2>1
<1>8. CASE UNCHANGED vars
  <2>1. UNCHANGED parsed
    BY <1>8 DEF vars, parsed
  <2> QED BY <1>6, <2>1
<1> QED BY <1>1, <1>2, <1>3, <1>4, <1>5, <1>7, <1>8 DEF Next, Meta!Next

\* The script's parser is, line by line, in the state the suite runner's parser
\* is in, for all files of lines of any kind.
THEOREM ReadsAsRunner == Spec => KeepsMeta
<1>1. Init => ParseInv /\ Meta!Init
  BY InitMeta
<1>2. ParseInv /\ [Next]_vars => ParseInv' /\ [Meta!Next]_(Meta!metaVars)
  BY StepMeta
<1> QED BY <1>1, <1>2, PTL DEF Spec, KeepsMeta, Meta!Spec

----------------------------------------------------------------------------
(* The guards. *)

\* Tests are told apart by their file and their number in it.
KeysInv ==
    /\ at = "read" => file \in 1..Len(Ids)
    /\ \A i \in 1..Len(cases) : cases[i].variant = i - 1
    /\ in_item => current.variant = Len(cases)
    /\ \A i \in 1..Len(all_tests) :
          \E k \in 1..Len(Ids) : k < file /\ all_tests[i].id = Ids[k]
    /\ \A i, j \in 1..Len(all_tests) : Key(all_tests[i]) = Key(all_tests[j]) => i = j

\* Each test that is not skipped is in the one stage that is its own.
Sorted ==
    [s \in Stages |->
        {i \in DOMAIN all_tests : ~Skipped(all_tests[i]) /\ StageOf(all_tests[i]) = s}]

StageInv ==
    /\ at \in {"read", "classify", "probe", "generate", "done", "aborted"}
    /\ at \in {"read", "classify"} =>
          by_stage = [s \in Stages |-> {}] /\ probed = 0 /\ up_variants = {}
    /\ at \notin {"read", "classify"} => by_stage = Sorted

\* What has been learnt of the tests that were asked about, and that all were.
ProbeInv ==
    /\ probed \in Nat
    /\ \A key : key \in up_variants <=>
          \E i \in ToProbe : /\ i <= probed /\ key = Key(all_tests[i])
                             /\ Answer(parser, all_tests[i].yaml) = "accepts"
    /\ at \in {"generate", "done"} /\ parser # Missing => \A i \in ToProbe : i <= probed

Written == [s \in Stages |-> IF by_stage[s] = {} THEN Earlier ELSE Guards(s)]

OutputInv ==
    /\ at # "done" => output = [s \in Stages |-> Earlier]
    /\ at = "done" => output = [s \in Stages |-> Earlier] \/ output = Written

GuardsInv == ParseInv /\ KeysInv /\ StageInv /\ ProbeInv /\ OutputInv

LEMMA SetVariant ==
    ASSUME NEW c \in Cases, NEW key, NEW value
    PROVE  WithField(c, key, value).variant = c.variant
BY DEF WithField, Cases

LEMMA KeysRead ==
    ASSUME ParseInv, KeysInv, NEW line \in Lines,
           BlockLine(line) \/ SeparatorLine(line) \/ ItemLine(line) \/ FieldLine(line)
    PROVE  KeysInv'
<1>1. /\ UNCHANGED <<at, file, all_tests>>
      /\ cases \in Seq(Cases) /\ current \in Cases
      /\ variant_counter = Len(cases) + (IF in_item THEN 1 ELSE 0)
  BY DEF BlockLine, SeparatorLine, ItemLine, FieldLine, Read, ParseInv
<1>2. /\ \A i \in 1..Len(Finalized) : Finalized[i].variant = i - 1
      /\ Len(Finalized) = variant_counter
  <2>1. CASE in_item
    <3>1. Finalized = Append(cases, current) /\ current.variant = Len(cases)
      BY <2>1 DEF Finalized, KeysInv
    <3> QED BY <1>1, <2>1, <3>1, FinalizedCases DEF KeysInv
  <2>2. CASE ~in_item
    BY <2>2, FinalizedCases DEF Finalized, KeysInv
  <2> QED BY <2>1, <2>2
<1>3. /\ \A i \in 1..Len(cases') : cases'[i].variant = i - 1
      /\ in_item' => current'.variant = Len(cases')
  <2>1. CASE BlockLine(line)
    <3>1. UNCHANGED <<cases, in_item>> /\ current'.variant = current.variant
      BY <1>1, <2>1 DEF BlockLine, Cases, Continues, InBlock, ParseInv
    <3> QED BY <3>1 DEF KeysInv
  <2>2. CASE SeparatorLine(line)
    BY <1>2, <2>2 DEF SeparatorLine
  <2>3. CASE ItemLine(line)
    <3>1. cases' = Finalized /\ current' = WithField(NewCase, line.key, line.value)
      BY <2>3 DEF ItemLine, NewCase
    <3>2. NewCase \in Cases /\ NewCase.variant = variant_counter
      BY NewCaseType
    <3> QED BY <1>2, <3>1, <3>2, SetVariant
  <2>4. CASE FieldLine(line)
    <3>1. UNCHANGED <<cases, in_item>> /\ current'.variant = current.variant
      BY <1>1, <2>4, SetVariant DEF FieldLine
    <3> QED BY <3>1 DEF KeysInv
  <2> QED BY <2>1, <2>2, <2>3, <2>4
<1>4. KeysInv'
  BY <1>1, <1>3 DEF KeysInv, Key
<1> QED BY <1>4

LEMMA KeysEndOfFile ==
    ASSUME ParseInv, KeysInv, EndOfFile
    PROVE  KeysInv'
<1> DEFINE named == WithName(Finalized, Ids[file])
           n == Len(all_tests)
           more == all_tests \o named
<1>1. /\ at = "read" /\ all_tests' = more
      /\ cases' = <<>> /\ in_item' = FALSE /\ file' = file + 1
      /\ at' = IF file = Len(Ids) THEN "classify" ELSE "read"
  BY DEF EndOfFile, Fresh, WithName
<1>2. /\ all_tests \in Seq(Cases) /\ file \in 1..Len(Ids) /\ Len(Ids) \in Nat
      /\ Ids[file] \in Names /\ n \in Nat
  <2>1. all_tests \in Seq(Cases) /\ file \in Nat /\ Ids[file] \in Names
    BY DEF ParseInv, Names
  <2>2. Len(Ids) \in Nat
    BY IdsAssumption
  <2>3. file \in 1..Len(Ids)
    BY <1>1 DEF KeysInv
  <2> QED BY <2>1, <2>2, <2>3
<1>3. /\ Finalized \in Seq(Cases)
      /\ \A i \in 1..Len(Finalized) : Finalized[i].variant = i - 1
  <2>1. cases \in Seq(Cases) /\ current \in Cases
    BY DEF ParseInv
  <2>2. CASE in_item
    <3>1. Finalized = Append(cases, current) /\ current.variant = Len(cases)
      BY <2>2 DEF Finalized, KeysInv
    <3> QED BY <2>1, <3>1, FinalizedCases DEF KeysInv
  <2>3. CASE ~in_item
    BY <2>3, FinalizedCases DEF Finalized, KeysInv
  <2> QED BY <2>2, <2>3
<1>4. /\ named \in Seq(Cases) /\ Len(named) = Len(Finalized)
      /\ \A i \in 1..Len(named) : named[i].id = Ids[file] /\ named[i].variant = i - 1
  <2>1. named \in Seq(Cases)
    BY <1>2, <1>3, NameLeftOut
  <2>2. named = [i \in DOMAIN Finalized |-> [Finalized[i] EXCEPT !.id = Ids[file]]]
    BY DEF WithName
  <2>3. DOMAIN Finalized = 1..Len(Finalized) /\ Len(Finalized) \in Nat
        /\ \A i \in 1..Len(Finalized) : Finalized[i] \in Cases
    BY <1>3
  <2>4. ASSUME NEW c \in Cases
        PROVE  [c EXCEPT !.id = Ids[file]].id = Ids[file]
               /\ [c EXCEPT !.id = Ids[file]].variant = c.variant
    BY DEF Cases
  <2> HIDE DEF named
  <2>5. Len(named) = Len(Finalized)
    BY <2>1, <2>2, <2>3
  <2> QED BY <1>3, <2>1, <2>2, <2>3, <2>4, <2>5
<1> HIDE DEF named
<1>5. /\ Len(more) = n + Len(named) /\ Len(named) \in Nat
      /\ \A i \in 1..n : more[i] = all_tests[i]
      /\ \A i \in n + 1 .. n + Len(named) : more[i] = named[i - n]
  <2>1. Len(more) = n + Len(named) /\ Len(named) \in Nat
    BY <1>2, <1>4, ConcatLen
  <2>2. \A i \in 1..n : more[i] = all_tests[i]
    BY <1>2, <1>4, ConcatLeft
  <2>3. \A i \in n + 1 .. n + Len(named) : more[i] = named[i - n]
    BY <1>2, <1>4, ConcatRight
  <2> QED BY <2>1, <2>2, <2>3
<1> HIDE DEF more, n
<1>6. \A i \in n + 1 .. n + Len(named) :
         more[i].id = Ids[file] /\ more[i].variant = i - n - 1
  <2> SUFFICES ASSUME NEW i \in n + 1 .. n + Len(named)
               PROVE  more[i].id = Ids[file] /\ more[i].variant = i - n - 1
    OBVIOUS
  <2>1. i - n \in 1..Len(named)
    BY <1>2, <1>5
  <2> QED BY <2>1, <1>4, <1>5
<1>7. \A i \in 1..n : \E k \in 1..Len(Ids) : k < file /\ more[i].id = Ids[k]
  BY <1>5 DEF KeysInv, n
<1>8. \A i \in 1..Len(more) :
          \E k \in 1..Len(Ids) : k < file + 1 /\ more[i].id = Ids[k]
  BY <1>2, <1>5, <1>6, <1>7
<1>9. ASSUME NEW i \in 1..Len(more), NEW j \in 1..Len(more),
             more[i].id = more[j].id, more[i].variant = more[j].variant
      PROVE  i = j
  <2>1. CASE i \in 1..n /\ j \in 1..n
    BY <1>5, <1>9, <2>1 DEF KeysInv, Key, n
  <2>2. CASE i \notin 1..n /\ j \notin 1..n
    <3>1. i \in n + 1 .. n + Len(named) /\ j \in n + 1 .. n + Len(named)
      BY <1>2, <1>5, <2>2
    <3>2. more[i].variant = i - n - 1 /\ more[j].variant = j - n - 1
      BY <1>6, <3>1
    <3>3. i - n - 1 = j - n - 1
      BY <1>9, <3>2
    <3>4. n \in Nat /\ i \in Int /\ j \in Int
      BY <1>2, <1>5, <3>1
    <3> QED BY <3>3, <3>4
  <2>3. CASE i \in 1..n /\ j \notin 1..n
    <3>1. PICK k \in 1..Len(Ids) : k < file /\ more[i].id = Ids[k]
      BY <1>7, <2>3
    <3>2. Ids[k] = Ids[file]
      <4>1. j \in n + 1 .. n + Len(named)
        BY <1>2, <1>5, <2>3
      <4> QED BY <1>6, <1>9, <3>1, <4>1
    <3> QED BY <1>2, <3>1, <3>2, IdsAssumption
  <2>4. CASE i \notin 1..n /\ j \in 1..n
    <3>1. PICK k \in 1..Len(Ids) : k < file /\ more[j].id = Ids[k]
      BY <1>7, <2>4
    <3>2. Ids[k] = Ids[file]
      <4>1. i \in n + 1 .. n + Len(named)
        BY <1>2, <1>5, <2>4
      <4> QED BY <1>6, <1>9, <3>1, <4>1
    <3> QED BY <1>2, <3>1, <3>2, IdsAssumption
  <2> QED BY <2>1, <2>2, <2>3, <2>4
<1>10. \A i, j \in 1..Len(more) : Key(more[i]) = Key(more[j]) => i = j
  BY <1>9 DEF Key
<1>11. at' = "read" => file' \in 1..Len(Ids)
  BY <1>1, <1>2
<1>12. KeysInv'
  <2>1. \A i \in 1..Len(cases') : cases'[i].variant = i - 1
    BY <1>1
  <2>2. /\ \A i \in 1..Len(all_tests') :
              \E k \in 1..Len(Ids) : k < file' /\ all_tests'[i].id = Ids[k]
        /\ \A i, j \in 1..Len(all_tests') : Key(all_tests'[i]) = Key(all_tests'[j]) => i = j
    BY <1>1, <1>8, <1>10
  <2>3. ~in_item'
    BY <1>1
  <2> QED BY <1>11, <2>1, <2>2, <2>3, Zenon DEF KeysInv, Key
<1> QED BY <1>12

LEMMA StageStep ==
    ASSUME ParseInv, StageInv, ProbeInv, OutputInv, Next
    PROVE  StageInv' /\ ProbeInv' /\ OutputInv'
<1>1. CASE at = "read" /\ UNCHANGED <<by_stage, parser, probed, up_variants, output>>
           /\ at' \in {"read", "classify"}
  <2>1. /\ by_stage = [s \in Stages |-> {}] /\ probed = 0 /\ up_variants = {}
        /\ output = [s \in Stages |-> Earlier]
    BY <1>1 DEF StageInv, OutputInv
  <2>2. ToProbe' = {}
    BY <1>1, <2>1 DEF ToProbe, Stages
  <2> QED BY <1>1, <2>1, <2>2 DEF StageInv, ProbeInv, OutputInv
<1>2. ASSUME NEW line \in Lines,
             BlockLine(line) \/ SeparatorLine(line) \/ ItemLine(line) \/ FieldLine(line)
      PROVE  StageInv' /\ ProbeInv' /\ OutputInv'
  BY <1>1, <1>2 DEF BlockLine, SeparatorLine, ItemLine, FieldLine, Read
<1>3. CASE EndOfFile
  BY <1>1, <1>3 DEF EndOfFile
<1>4. CASE Classify
  <2>1. /\ at = "classify" /\ UNCHANGED <<all_tests, probed, up_variants, output>>
        /\ by_stage' = Sorted /\ at' = IF parser' = Missing THEN "generate" ELSE "probe"
    BY <1>4 DEF Classify, Sorted
  <2>2. probed = 0 /\ up_variants = {} /\ output = [s \in Stages |-> Earlier]
    BY <2>1 DEF StageInv, OutputInv
  <2>3. Sorted' = Sorted
    BY <2>1 DEF Sorted
  <2>4. ToProbe' \subseteq DOMAIN all_tests
    BY <2>1 DEF ToProbe, Sorted, Stages
  <2>5. \A i \in ToProbe' : i \in Nat /\ i > 0
    <3>1. DOMAIN all_tests = 1..Len(all_tests) /\ Len(all_tests) \in Nat
      BY DEF ParseInv
    <3> QED BY <2>4, <3>1
  <2>6. StageInv'
    BY <2>1, <2>3 DEF StageInv
  <2>7. ProbeInv'
    BY <2>1, <2>2, <2>5 DEF ProbeInv
  <2>8. OutputInv'
    BY <2>1, <2>2 DEF OutputInv
  <2> QED BY <2>6, <2>7, <2>8
<1>5. ASSUME UNCHANGED <<all_tests, by_stage, parser, output>>, at = "probe",
             at' \in {"probe", "generate", "aborted"}
      PROVE  StageInv' /\ OutputInv' /\ ToProbe' = ToProbe
  BY <1>5 DEF StageInv, OutputInv, Sorted, ToProbe
<1>6. CASE Probe
  <2>1. /\ UNCHANGED <<at, all_tests, by_stage, parser, output>> /\ at = "probe"
    BY <1>6 DEF Probe
  <2>2. StageInv' /\ OutputInv' /\ ToProbe' = ToProbe
    BY <1>5, <2>1
  <2>3. PICK i \in ToProbe :
           /\ IsNext(i) /\ probed' = i
           /\ up_variants' = up_variants \cup
                 (IF Answer(parser, all_tests[i].yaml) = "accepts" THEN {Key(all_tests[i])}
                  ELSE {})
    BY <1>6 DEF Probe
  <2>4. /\ \A j \in ToProbe : j \in Nat
        /\ probed \in Nat /\ probed < i
        /\ \A j \in ToProbe : probed < j => i <= j
    <3>1. ToProbe \subseteq DOMAIN all_tests
      BY <2>1 DEF ToProbe, StageInv, Sorted, Stages
    <3>2. DOMAIN all_tests = 1..Len(all_tests)
      BY DEF ParseInv
    <3> QED BY <2>3, <3>1, <3>2 DEF IsNext, ProbeInv
  <2>5. \A j \in ToProbe : j <= i <=> (j <= probed \/ j = i)
    BY <2>3, <2>4
  <2> DEFINE accepted(j) == Answer(parser, all_tests[j].yaml) = "accepts"
             key(j) == Key(all_tests[j])
  <2>6. \A k : k \in up_variants <=>
                 \E j \in ToProbe : j <= probed /\ k = key(j) /\ accepted(j)
    BY DEF ProbeInv
  <2>7. \A k : k \in up_variants' <=> (k \in up_variants \/ (accepted(i) /\ k = key(i)))
    BY <2>3
  <2> HIDE DEF accepted, key
  <2>8. \A k : k \in up_variants' <=>
                 \E j \in ToProbe : j <= i /\ k = key(j) /\ accepted(j)
    BY <2>3, <2>5, <2>6, <2>7
  <2>9. ProbeInv'
    BY <2>1, <2>2, <2>3, <2>4, <2>8 DEF ProbeInv, accepted, key
  <2> QED BY <2>2, <2>9
<1>7. CASE ProbeTimesOut
  <2>1. /\ UNCHANGED <<all_tests, by_stage, parser, probed, up_variants, output>>
        /\ at = "probe" /\ at' = "aborted"
    BY <1>7 DEF ProbeTimesOut
  <2>2. StageInv' /\ OutputInv' /\ ToProbe' = ToProbe
    BY <1>5, <2>1
  <2> QED BY <2>1, <2>2 DEF ProbeInv
<1>8. CASE ProbingDone
  <2>1. /\ UNCHANGED <<all_tests, by_stage, parser, probed, up_variants, output>>
        /\ at = "probe" /\ at' = "generate" /\ \A i \in ToProbe : i <= probed
    BY <1>8 DEF ProbingDone
  <2>2. StageInv' /\ OutputInv' /\ ToProbe' = ToProbe
    BY <1>5, <2>1
  <2> QED BY <2>1, <2>2 DEF ProbeInv
<1>9. CASE Generate \/ DryRun
  <2>1. /\ UNCHANGED <<all_tests, by_stage, parser, probed, up_variants>>
        /\ at = "generate" /\ at' = "done"
    BY <1>9 DEF Generate, DryRun
  <2>2. StageInv' /\ ProbeInv'
    BY <2>1 DEF StageInv, ProbeInv, Sorted, ToProbe
  <2>3. output = [s \in Stages |-> Earlier]
    BY <2>1 DEF OutputInv
  <2>4. output' = output \/ output' = Written
    BY <1>9, <2>3 DEF Generate, DryRun, Written
  <2>5. Written' = Written
    BY <2>1 DEF Written, Guards, Guard
  <2>6. OutputInv'
    BY <2>1, <2>3, <2>4, <2>5 DEF OutputInv
  <2> QED BY <2>2, <2>6
<1> QED BY <1>2, <1>3, <1>4, <1>6, <1>7, <1>8, <1>9 DEF Next

LEMMA InitGuards == Init => GuardsInv
<1> SUFFICES ASSUME Init PROVE GuardsInv
  OBVIOUS
<1>1. ParseInv
  BY InitMeta
<1>2. KeysInv
  <2>1. Len(<<>>) = 0 /\ 1 \in 1..Len(Ids)
    BY IdsAssumption
  <2> QED BY <2>1 DEF Init, KeysInv
<1>3. StageInv /\ OutputInv
  BY DEF Init, StageInv, OutputInv
<1>4. ToProbe = {}
  BY DEF Init, ToProbe, Stages
<1>5. ProbeInv
  BY <1>4 DEF Init, ProbeInv
<1> QED BY <1>1, <1>2, <1>3, <1>5 DEF GuardsInv

LEMMA StepGuards == GuardsInv /\ [Next]_vars => GuardsInv'
<1> SUFFICES ASSUME GuardsInv, [Next]_vars PROVE GuardsInv'
  OBVIOUS
<1>0. ParseInv /\ KeysInv /\ StageInv /\ ProbeInv /\ OutputInv
  BY DEF GuardsInv
<1>1. ParseInv'
  BY <1>0, StepMeta
<1>2. CASE Next
  <2>1. StageInv' /\ ProbeInv' /\ OutputInv'
    BY <1>0, <1>2, StageStep
  <2>2. ASSUME EndOfFile PROVE KeysInv'
    BY <1>0, <2>2, KeysEndOfFile
  <2>3. ASSUME Classify \/ Probe \/ ProbeTimesOut \/ ProbingDone \/ Generate \/ DryRun
        PROVE  KeysInv'
    <3>1. UNCHANGED <<file, cases, in_item, current, all_tests>> /\ at' # "read"
      BY <2>3 DEF Classify, Probe, ProbeTimesOut, ProbingDone, Generate, DryRun, parse_vars
    <3> QED BY <1>0, <3>1 DEF KeysInv, Key
  <2>4. ASSUME NEW line \in Lines,
               BlockLine(line) \/ SeparatorLine(line) \/ ItemLine(line) \/ FieldLine(line)
        PROVE  KeysInv'
    BY <1>0, <2>4, KeysRead
  <2>5. KeysInv'
    BY <1>2, <2>2, <2>3, <2>4 DEF Next
  <2> QED BY <1>1, <2>1, <2>5 DEF GuardsInv
<1>3. CASE UNCHANGED vars
  <2>1. UNCHANGED <<at, file, cases, in_item, current, all_tests, by_stage, parser, probed,
                    up_variants, output>>
    BY <1>3 DEF vars, parse_vars
  <2>2. KeysInv'
    BY <1>0, <2>1 DEF KeysInv
  <2>3. StageInv'
    BY <1>0, <2>1 DEF StageInv, Sorted
  <2>4. ProbeInv'
    BY <1>0, <2>1 DEF ProbeInv, ToProbe
  <2>5. Written' = Written
    BY <2>1 DEF Written, Guards, Guard
  <2>6. OutputInv'
    BY <1>0, <2>1, <2>5 DEF OutputInv
  <2> QED BY <1>1, <2>2, <2>3, <2>4, <2>6 DEF GuardsInv
<1> QED BY <1>2, <1>3

LEMMA OneGuard ==
    ASSUME NEW x, NEW S, \A y : y \in S <=> y = x
    PROVE  Cardinality(S) = 1
<1>1. S = {x}
  OBVIOUS
<1> QED BY <1>1, FS_Singleton

LEMMA StagesOfTests ==
    ASSUME NEW tc
    PROVE  StageOf(tc) \in Stages
BY DEF StageOf, TagStage, Stages

\* A guard is never what an earlier run wrote.
LEMMA GuardsAreNew ==
    ASSUME NEW s \in Stages, by_stage[s] # {}
    PROVE  Guards(s) # Earlier
<1> SUFFICES ASSUME Guards(s) = Earlier PROVE FALSE
  OBVIOUS
<1>1. DOMAIN Guards(s) = by_stage[s] /\ DOMAIN Earlier = {1}
  BY DEF Guards, Earlier
<1>2. 1 \in by_stage[s]
  BY <1>1
<1>3. Guards(s)[1] = Guard(all_tests[1]) /\ Earlier[1] = [test |-> "earlier"]
  BY <1>2 DEF Guards, Earlier
<1>4. "yaml" \in DOMAIN Guard(all_tests[1]) /\ "yaml" \notin DOMAIN [test |-> "earlier"]
  BY DEF Guard
<1> QED BY <1>3, <1>4

\* All guards are those of the tests of one stage each.
LEMMA GuardsFollow == GuardsInv => GuardsHold
<1> SUFFICES ASSUME GuardsInv, at = "done" PROVE GuardsHold
  BY DEF GuardsHold
<1> DEFINE written == {s \in Stages : output[s] # Earlier}
           guards == {g \in Stages \X DOMAIN all_tests :
                        g[1] \in written /\ g[2] \in DOMAIN output[g[1]]}
           guard(g) == output[g[1]][g[2]]
<1> SUFFICES ASSUME written # {}
             PROVE  /\ \A i \in DOMAIN all_tests : ~Skipped(all_tests[i]) =>
                         Cardinality({g \in guards : /\ guard(g).test = Key(all_tests[i])
                                                     /\ guard(g).yaml = all_tests[i].yaml}) = 1
                    /\ \A i \in ToProbe, g \in guards :
                         (parser # Missing /\ guard(g).test = Key(all_tests[i])) =>
                            guard(g).expects =
                                IF Answer(parser, all_tests[i].yaml) = "accepts"
                                THEN "ok" ELSE "error"
  BY DEF GuardsHold
<1>1. /\ all_tests \in Seq(Cases)
      /\ \A i, j \in 1..Len(all_tests) : Key(all_tests[i]) = Key(all_tests[j]) => i = j
      /\ by_stage = Sorted
      /\ output = [s \in Stages |-> Earlier] \/ output = Written
      /\ ProbeInv
  BY DEF GuardsInv, ParseInv, KeysInv, StageInv, OutputInv
<1>2. DOMAIN all_tests = 1..Len(all_tests)
  BY <1>1
<1>3. output = Written
  <2>1. output # [s \in Stages |-> Earlier]
    OBVIOUS
  <2> QED BY <1>1, <2>1
<1>4. \A s \in Stages : output[s] = IF by_stage[s] = {} THEN Earlier ELSE Guards(s)
  BY <1>3 DEF Written
<1>5. \A s \in Stages : s \in written <=> by_stage[s] # {}
  BY <1>4, GuardsAreNew
<1>6. \A s \in written : s \in Stages /\ output[s] = Guards(s)
  BY <1>4, <1>5
<1> HIDE DEF written
<1>7. \A s \in Stages, i \in DOMAIN all_tests :
         i \in by_stage[s] <=> ~Skipped(all_tests[i]) /\ StageOf(all_tests[i]) = s
  BY <1>1 DEF Sorted
<1>8. \A s \in Stages : by_stage[s] \subseteq DOMAIN all_tests
  BY <1>1 DEF Sorted
<1>9. ASSUME NEW g \in Stages \X DOMAIN all_tests
      PROVE  g \in guards <=> ~Skipped(all_tests[g[2]]) /\ StageOf(all_tests[g[2]]) = g[1]
  <2>1. g[1] \in Stages /\ g[2] \in DOMAIN all_tests
    BY <1>9
  <2>2. DOMAIN Guards(g[1]) = by_stage[g[1]]
    BY DEF Guards
  <2>3. g \in guards <=> g[1] \in written /\ g[2] \in by_stage[g[1]]
    BY <1>6, <2>2
  <2>4. g \in guards <=> g[2] \in by_stage[g[1]]
    BY <1>5, <2>1, <2>3
  <2> QED BY <1>7, <2>1, <2>4
<1>10. ASSUME NEW g \in guards
       PROVE  guard(g) = Guard(all_tests[g[2]]) /\ g[1] \in Stages /\ g[2] \in DOMAIN all_tests
  <2>1. g[1] \in Stages /\ g[2] \in DOMAIN all_tests /\ g[1] \in written
        /\ g[2] \in DOMAIN output[g[1]]
    OBVIOUS
  <2>2. output[g[1]] = Guards(g[1])
    BY <1>6, <2>1
  <2> QED BY <2>1, <2>2 DEF Guards
<1>11. \A tc : Guard(tc).test = Key(tc) /\ Guard(tc).yaml = tc.yaml
               /\ Guard(tc).expects = IF tc.expect_fail /\ Key(tc) \notin up_variants
                                      THEN "error" ELSE "ok"
  BY DEF Guard
<1> HIDE DEF guards, guard
<1>12. ASSUME NEW i \in DOMAIN all_tests, ~Skipped(all_tests[i])
       PROVE  Cardinality({g \in guards : /\ guard(g).test = Key(all_tests[i])
                                          /\ guard(g).yaml = all_tests[i].yaml}) = 1
  <2> DEFINE own == <<StageOf(all_tests[i]), i>>
             S == {g \in guards : /\ guard(g).test = Key(all_tests[i])
                                  /\ guard(g).yaml = all_tests[i].yaml}
  <2>1. own \in guards
    BY <1>9, <1>12, StagesOfTests
  <2>2. own \in S
    BY <1>10, <1>11, <2>1
  <2>3. ASSUME NEW g \in S PROVE g = own
    <3>1. g \in guards /\ guard(g).test = Key(all_tests[i])
      OBVIOUS
    <3>2. /\ guard(g) = Guard(all_tests[g[2]]) /\ g[1] \in Stages /\ g[2] \in DOMAIN all_tests
      BY <1>10, <3>1
    <3>3. g[2] = i
      BY <1>1, <1>2, <1>11, <3>1, <3>2
    <3>4. g \in Stages \X DOMAIN all_tests
      BY <3>1 DEF guards
    <3>5. g[1] = StageOf(all_tests[i])
      BY <1>9, <3>1, <3>3, <3>4
    <3> QED BY <3>3, <3>4, <3>5
  <2> HIDE DEF S, own
  <2>4. \A y : y \in S <=> y = own
    BY <2>2, <2>3
  <2>5. Cardinality(S) = 1
    BY <2>4, OneGuard
  <2> QED BY <2>5 DEF S
<1>13. ASSUME NEW i \in ToProbe, NEW g \in guards, parser # Missing,
              guard(g).test = Key(all_tests[i])
       PROVE  guard(g).expects =
                 IF Answer(parser, all_tests[i].yaml) = "accepts" THEN "ok" ELSE "error"
  <2>1. i \in DOMAIN all_tests /\ all_tests[i].expect_fail
    BY <1>8 DEF ToProbe, Stages
  <2>2. guard(g) = Guard(all_tests[g[2]]) /\ g[2] \in DOMAIN all_tests
    BY <1>10
  <2>3. g[2] = i
    BY <1>1, <1>2, <1>11, <1>13, <2>1, <2>2
  <2>4. Key(all_tests[i]) \in up_variants
          <=> Answer(parser, all_tests[i].yaml) = "accepts"
    <3>1. \A j \in ToProbe : j \in DOMAIN all_tests /\ j <= probed
      BY <1>1, <1>8, <1>13 DEF ProbeInv, ToProbe, Stages
    <3>2. \A j \in ToProbe : Key(all_tests[i]) = Key(all_tests[j]) => i = j
      BY <1>1, <1>2, <2>1, <3>1
    <3> QED BY <1>1, <3>1, <3>2 DEF ProbeInv
  <2> QED BY <1>11, <2>1, <2>2, <2>3, <2>4
<1> QED BY <1>12, <1>13

\* Every test that is not skipped has one guard, and a guard for a test that is
\* to fail expects what the parser answered to it.
THEOREM GuardsAsObserved == Spec => []GuardsHold
<1>1. Init => GuardsInv
  BY InitGuards
<1>2. GuardsInv /\ [Next]_vars => GuardsInv'
  BY StepGuards
<1>3. GuardsInv => GuardsHold
  BY GuardsFollow
<1> QED BY <1>1, <1>2, <1>3, PTL DEF Spec

\* Nothing is open before the first line.
TextInv ==
    /\ text \in Seq(Lines)
    /\ current_field = "none" => block_indent = 0
    /\ text = <<>> => cases = <<>> /\ ~in_item /\ current_field = "none"

LEMMA AppendedText ==
    ASSUME NEW S, NEW u \in Seq(S), NEW x \in S
    PROVE  Append(u, x) \in Seq(S) /\ Append(u, x) # <<>>
<1>1. Append(u, x) \in Seq(S) /\ Len(Append(u, x)) > 0
  OBVIOUS
<1>2. Len(<<>>) = 0
  OBVIOUS
<1> QED BY <1>1, <1>2

LEMMA StepText == TextInv /\ [Next]_vars => TextInv'
<1> SUFFICES ASSUME TextInv, [Next]_vars PROVE TextInv'
  OBVIOUS
<1>1. ASSUME NEW line \in Lines,
             BlockLine(line) \/ SeparatorLine(line) \/ ItemLine(line) \/ FieldLine(line)
      PROVE  TextInv'
  <2>1. text' = Append(text, line)
    BY <1>1 DEF BlockLine, SeparatorLine, ItemLine, FieldLine, Read
  <2>2. text' \in Seq(Lines) /\ text' # <<>>
    BY <2>1, AppendedText DEF TextInv
  <2>3. current_field' = "none" => block_indent' = 0
    BY <1>1 DEF BlockLine, SeparatorLine, ItemLine, FieldLine, Continues, InBlock
  <2> QED BY <2>2, <2>3 DEF TextInv
<1>2. CASE EndOfFile
  BY <1>2 DEF EndOfFile, Fresh, TextInv
<1>3. CASE UNCHANGED parsed
  BY <1>3 DEF parsed, parse_vars, TextInv
<1>4. CASE Classify \/ Probe \/ ProbeTimesOut \/ ProbingDone \/ Generate \/ DryRun
  BY <1>3, <1>4 DEF parsed, Classify, Probe, ProbeTimesOut, ProbingDone, Generate, DryRun
<1>5. CASE UNCHANGED vars
  BY <1>3, <1>5 DEF vars, parsed
<1> QED BY <1>1, <1>2, <1>4, <1>5 DEF Next

\* The types; nothing stays open when a file ends, and a run that is aborted
\* has written nothing.
THEOREM TypeInvariant == Spec => []TypeOK
<1>1. Init => GuardsInv /\ TextInv
  <2>1. Init => TextInv
    BY DEF Init, TextInv
  <2> QED BY <2>1, InitGuards
<1>2. GuardsInv /\ TextInv /\ [Next]_vars => GuardsInv' /\ TextInv'
  BY StepGuards, StepText
<1>3. GuardsInv /\ TextInv => TypeOK
  <2> SUFFICES ASSUME GuardsInv, TextInv PROVE TypeOK
    OBVIOUS
  <2>1. ParseInv /\ StageInv /\ ProbeInv /\ OutputInv
    BY DEF GuardsInv
  <2>2. DOMAIN by_stage = Stages
    BY <2>1 DEF StageInv, Sorted
  <2>3. DOMAIN output = Stages /\ (at # "done" => output = [s \in Stages |-> Earlier])
    BY <2>1 DEF OutputInv, Written
  <2>4. up_variants \subseteq {Key(all_tests[i]) : i \in ToProbe}
    BY <2>1 DEF ProbeInv
  <2> QED BY <2>1, <2>2, <2>3, <2>4 DEF TypeOK, ParseInv, StageInv, TextInv
<1> QED BY <1>1, <1>2, <1>3, PTL DEF Spec

----------------------------------------------------------------------------
(* What the parser knows of the text read so far.                          *)

Filled(t, h) == \E i \in h + 1 .. Len(t) : ~IsBlank(t[i])

OpenBlock(t, h) == h \in Outside(t) /\ IsHeader(t[h]) /\ Reaches(t, h, Len(t))

OpenItem(t, i) == i \in Items(t) /\ ~Ends(t, i, Len(t))

Says(t, c, i) ==
    /\ c.yaml = YamlOf(t, i) /\ c.expect_fail = FailsOf(t, i)
    /\ c.variant = Rank(t, i) - 1

\* A block scalar is open for the parser if one is in the text, and the column of
\* its content is known when there is content.
BlockIs(t, field, indent) ==
    /\ field # "none" => \E h : OpenBlock(t, h)
    /\ \A h : OpenBlock(t, h) =>
          field = t[h].key /\ indent = IF Filled(t, h) THEN Width(t, h) ELSE 0

\* Items that have ended are cases, the one that has not is the current case.
ItemsAre(t, cs, c, open) ==
    /\ Len(cs) + (IF open THEN 1 ELSE 0) = Cardinality(Items(t))
    /\ open => \E i : OpenItem(t, i)
    /\ \A i : OpenItem(t, i) => open /\ Rank(t, i) = Len(cs) + 1 /\ Says(t, c, i)
    /\ \A i \in Items(t) : ~OpenItem(t, i) =>
          Rank(t, i) \in 1..Len(cs) /\ Says(t, cs[Rank(t, i)], i)

CasesInv ==
    /\ ParseInv /\ text \in Seq(Lines)
    /\ NoRaggedStart(text) =>
          /\ BlockIs(text, current_field, block_indent)
          /\ ItemsAre(text, cases, current, in_item)

----------------------------------------------------------------------------
(* A text and the same with one more line.                                 *)

LEMMA LeastNat ==
    ASSUME NEW S, S \subseteq Nat, S # {}
    PROVE  \E x \in S : \A y \in S : x <= y
<1>1. PICK x \in S : \A y \in S : ~(<<y, x>> \in OpToRel(<, Nat))
  BY WFMin, NatLessThanWellFounded
<1>2. \A y \in S : ~(y < x)
  BY <1>1 DEF OpToRel
<1> QED
  BY <1>2

Extends(t, line, u) ==
    /\ t \in Seq(Lines) /\ u \in Seq(Lines) /\ line \in Lines
    /\ Len(t) \in Nat /\ Len(u) = Len(t) + 1
    /\ DOMAIN t = 1..Len(t) /\ DOMAIN u = 1..Len(u)
    /\ u[Len(t) + 1] = line
    /\ \A i \in 1..Len(t) : u[i] = t[i]

LEMMA AppendExtends ==
    ASSUME NEW t \in Seq(Lines), NEW line \in Lines
    PROVE  Extends(t, line, Append(t, line))
<1> DEFINE u == Append(t, line)
<1>1. u \in Seq(Lines) /\ Len(u) = Len(t) + 1
  OBVIOUS
<1>2. u[Len(t) + 1] = line /\ \A i \in 1..Len(t) : u[i] = t[i]
  OBVIOUS
<1>3. Len(t) \in Nat /\ DOMAIN t = 1..Len(t)
  OBVIOUS
<1> HIDE DEF u
<1>4. DOMAIN u = 1..Len(u)
  BY <1>1
<1> QED
  BY <1>1, <1>2, <1>3, <1>4 DEF Extends, u

LEMMA LineTyped ==
    ASSUME NEW t \in Seq(Lines), NEW i \in 1..Len(t)
    PROVE  t[i] \in Lines /\ t[i].indent \in Nat /\ t[i].item \in BOOLEAN
<1>1. t[i] \in Lines
  OBVIOUS
<1> QED
  BY <1>1, LinesAssumption

LEMMA FirstFilled ==
    ASSUME NEW t \in Seq(Lines), NEW h \in Nat, NEW i \in h + 1 .. Len(t),
           ~IsBlank(t[i]), \A j \in h + 1 .. i - 1 : IsBlank(t[j])
    PROVE  Width(t, h) = IF t[i].indent < 4 THEN 4 ELSE t[i].indent
<1> DEFINE F == {k \in h + 1 .. Len(t) : ~IsBlank(t[k])}
           P(k) == k \in F /\ \A j \in F : k <= j
           f == CHOOSE k : P(k)
<1>1. Len(t) \in Nat /\ i \in Nat /\ i \in F
  OBVIOUS
<1>2. \A j \in F : j \in h + 1 .. Len(t) /\ j \in Nat /\ ~IsBlank(t[j])
  BY <1>1
<1>3. P(i)
  BY <1>1, <1>2
<1>4. P(f)
  BY <1>3
<1> HIDE DEF f
<1>5. f = i
  <2>1. f <= i /\ i <= f
    BY <1>3, <1>4
  <2> QED
    BY <1>2, <1>3, <1>4, <2>1
<1>6. (CHOOSE k \in F : \A j \in F : k <= j) = f
  BY DEF f
<1>7. F # {}
  BY <1>1
<1> HIDE DEF F
<1>8. Width(t, h) = IF t[CHOOSE k \in F : \A j \in F : k <= j].indent < 4 THEN 4
                    ELSE t[CHOOSE k \in F : \A j \in F : k <= j].indent
  BY <1>7 DEF Width, F
<1> QED
  BY <1>5, <1>6, <1>8

LEMMA HasFirst ==
    ASSUME NEW t \in Seq(Lines), NEW h \in Nat, Filled(t, h)
    PROVE  \E i \in h + 1 .. Len(t) :
              ~IsBlank(t[i]) /\ \A j \in h + 1 .. i - 1 : IsBlank(t[j])
<1> DEFINE F == {k \in h + 1 .. Len(t) : ~IsBlank(t[k])}
<1>1. F \subseteq Nat /\ F # {}
  BY DEF Filled
<1>s. \A k : k \in F <=> k \in h + 1 .. Len(t) /\ ~IsBlank(t[k])
  OBVIOUS
<1> HIDE DEF F
<1>2. PICK i \in F : \A j \in F : i <= j
  BY <1>1, LeastNat
<1>3. i \in h + 1 .. Len(t) /\ ~IsBlank(t[i]) /\ Len(t) \in Nat
  BY <1>2, <1>s
<1>4. \A j \in h + 1 .. i - 1 : j \notin F /\ j \in h + 1 .. Len(t)
  BY <1>2, <1>3
<1> QED
  BY <1>3, <1>4, <1>s

LEMMA WidthUnfilled ==
    ASSUME NEW t, NEW h, ~Filled(t, h)
    PROVE  Width(t, h) = 4
<1> DEFINE F == {k \in h + 1 .. Len(t) : ~IsBlank(t[k])}
<1>1. F = {}
  BY DEF Filled
<1> QED
  BY <1>1 DEF Width

LEMMA WidthTyped ==
    ASSUME NEW t \in Seq(Lines), NEW h \in Nat
    PROVE  Width(t, h) \in Nat /\ Width(t, h) >= 4
<1>1. CASE ~Filled(t, h)
  BY <1>1, WidthUnfilled
<1>2. CASE Filled(t, h)
  <2>1. PICK i \in h + 1 .. Len(t) : ~IsBlank(t[i]) /\ \A j \in h + 1 .. i - 1 : IsBlank(t[j])
    BY <1>2, HasFirst
  <2>2. i \in 1..Len(t)
    OBVIOUS
  <2>3. t[i].indent \in Nat
    BY <2>2, LineTyped
  <2> QED
    BY <2>1, <2>3, FirstFilled
<1> QED
  BY <1>1, <1>2

LEMMA WidthKept ==
    ASSUME NEW t, NEW line, NEW u, Extends(t, line, u), NEW h \in Nat, Filled(t, h)
    PROVE  Width(u, h) = Width(t, h)
<1>1. PICK i \in h + 1 .. Len(t) : ~IsBlank(t[i]) /\ \A j \in h + 1 .. i - 1 : IsBlank(t[j])
  BY HasFirst DEF Extends
<1>2. /\ i \in h + 1 .. Len(u) /\ u[i] = t[i]
      /\ \A j \in h + 1 .. i - 1 : u[j] = t[j]
  BY DEF Extends
<1>3. Width(t, h) = IF t[i].indent < 4 THEN 4 ELSE t[i].indent
  BY <1>1, FirstFilled DEF Extends
<1>4. Width(u, h) = IF u[i].indent < 4 THEN 4 ELSE u[i].indent
  BY <1>1, <1>2, FirstFilled DEF Extends
<1> QED
  BY <1>2, <1>3, <1>4

LEMMA WidthNew ==
    ASSUME NEW t, NEW line, NEW u, Extends(t, line, u), NEW h \in 0..Len(t),
           ~Filled(t, h), ~IsBlank(line)
    PROVE  Width(u, h) = IF line.indent < 4 THEN 4 ELSE line.indent
<1> DEFINE i == Len(t) + 1
<1>1. /\ i \in h + 1 .. Len(u) /\ u[i] = line /\ h \in Nat /\ i - 1 = Len(t)
      /\ \A j \in h + 1 .. Len(t) : u[j] = t[j]
  BY DEF Extends
<1>2. \A j \in h + 1 .. Len(t) : IsBlank(t[j])
  BY DEF Filled
<1> HIDE DEF i
<1> QED
  BY <1>1, <1>2, FirstFilled DEF Extends

LEMMA FilledNew ==
    ASSUME NEW t, NEW line, NEW u, Extends(t, line, u), NEW h \in 0..Len(t)
    PROVE  Filled(u, h) <=> Filled(t, h) \/ ~IsBlank(line)
BY DEF Extends, Filled

LEMMA ReachesKept ==
    ASSUME NEW t, NEW line, NEW u, Extends(t, line, u), NEW h \in Nat, NEW i \in 0..Len(t)
    PROVE  Reaches(u, h, i) <=> Reaches(t, h, i)
<1>1. \A j \in h + 1 .. i : u[j] = t[j] /\ j \in h + 1 .. Len(t)
  BY DEF Extends
<1>2. CASE Filled(t, h)
  BY <1>1, <1>2, WidthKept DEF Reaches
<1>3. CASE ~Filled(t, h)
  BY <1>1, <1>3 DEF Reaches, Filled
<1> QED
  BY <1>2, <1>3

LEMMA ReachesLess ==
    ASSUME NEW t, NEW h \in Nat, NEW i \in Nat, NEW j \in Nat, j <= i, Reaches(t, h, i)
    PROVE  Reaches(t, h, j)
BY DEF Reaches

LEMMA ReachesNew ==
    ASSUME NEW t, NEW line, NEW u, Extends(t, line, u), NEW h \in 0..Len(t)
    PROVE  Reaches(u, h, Len(t) + 1) <=>
              Reaches(t, h, Len(t)) /\ (IsBlank(line) \/ line.indent >= Width(u, h))
<1>1. Reaches(u, h, Len(t)) <=> Reaches(t, h, Len(t))
  BY ReachesKept DEF Extends
<1>2. /\ Len(t) \in Nat /\ u[Len(t) + 1] = line
      /\ \A j : j \in h + 1 .. Len(t) + 1 <=> j \in h + 1 .. Len(t) \/ j = Len(t) + 1
  BY DEF Extends
<1>3. Reaches(u, h, Len(t) + 1) <=>
          Reaches(u, h, Len(t)) /\ (IsBlank(line) \/ line.indent >= Width(u, h))
  BY <1>2 DEF Reaches
<1> QED
  BY <1>1, <1>3

----------------------------------------------------------------------------
(* The lines inside of block scalars.                                      *)

\* The recursive function that Inside takes its lines from, for k of them.
InsideUpTo(t, k, f) ==
    f = [i \in 1..k |->
            \E h \in 1 .. i - 1 : IsHeader(t[h]) /\ ~f[h] /\ Reaches(t, h, i)]

LEMMA InsideExists ==
    ASSUME NEW t, NEW n \in Nat
    PROVE  \E f : InsideUpTo(t, n, f)
<1> DEFINE S == {k \in 0..n : ~\E f : InsideUpTo(t, k, f)}
<1>s. \A k : k \in S <=> k \in 0..n /\ ~\E f : InsideUpTo(t, k, f)
  OBVIOUS
<1> HIDE DEF S
<1>1. ASSUME S # {} PROVE FALSE
  <2>1. PICK k \in S : \A j \in S : k <= j
    <3>1. S \subseteq Nat
      BY <1>s
    <3> QED
      BY <1>1, <3>1, LeastNat
  <2>2. k \in 0..n /\ k \in Nat /\ ~\E f : InsideUpTo(t, k, f)
    BY <1>s
  <2>3. CASE k = 0
    <3> DEFINE f == [i \in 1..0 |-> TRUE]
    <3>1. 1..0 = {}
      OBVIOUS
    <3>2. InsideUpTo(t, 0, f)
      BY <3>1 DEF InsideUpTo
    <3> QED
      BY <2>2, <2>3, <3>2
  <2>4. CASE k # 0
    <3>1. k - 1 \in 0..n /\ k - 1 < k /\ k - 1 \in Nat
      BY <2>2, <2>4
    <3>2. k - 1 \notin S
      BY <2>1, <2>2, <3>1
    <3>3. PICK g : InsideUpTo(t, k - 1, g)
      BY <1>s, <3>1, <3>2
    <3> DEFINE Q(i) == \E h \in 1 .. i - 1 : IsHeader(t[h]) /\ ~g[h] /\ Reaches(t, h, i)
               f == [i \in 1..k |-> IF i < k THEN g[i] ELSE Q(k)]
               e == [i \in 1..k |->
                        \E h \in 1 .. i - 1 : IsHeader(t[h]) /\ ~f[h] /\ Reaches(t, h, i)]
    <3>4. \A i \in 1 .. k - 1 : g[i] = Q(i)
      BY <3>3 DEF InsideUpTo
    <3>5. \A i \in 1..k : i < k => f[i] = g[i]
      OBVIOUS
    <3>6. f[k] = Q(k)
      <4>1. k \in 1..k /\ ~(k < k)
        BY <2>2, <2>4
      <4> HIDE DEF Q
      <4> QED
        BY <4>1
    <3>7. \A i \in 1..k : f[i] = Q(i)
      <4> SUFFICES ASSUME NEW i \in 1..k PROVE f[i] = Q(i)
        OBVIOUS
      <4>1. i < k => i \in 1 .. k - 1
        BY <2>2
      <4>2. i < k \/ i = k
        BY <2>2
      <4> HIDE DEF f, Q
      <4> QED
        BY <3>4, <3>5, <3>6, <4>1, <4>2
    <3>8. f = [i \in 1..k |-> f[i]]
      OBVIOUS
    <3> HIDE DEF f
    <3>9. \A i \in 1..k : \A h \in 1 .. i - 1 : f[h] = g[h]
      BY <2>2, <3>5
    <3>10. \A i \in 1..k : f[i] = \E h \in 1 .. i - 1 :
                IsHeader(t[h]) /\ ~f[h] /\ Reaches(t, h, i)
      BY <3>7, <3>9
    <3>11. f = e
      BY <3>8, <3>10
    <3>12. InsideUpTo(t, k, f)
      BY <3>11 DEF InsideUpTo
    <3> QED
      BY <2>2, <3>12
  <2> QED
    BY <2>3, <2>4
<1>2. n \notin S /\ n \in 0..n
  BY <1>1
<1> QED
  BY <1>s, <1>2

LEMMA InsideIs ==
    ASSUME NEW t \in Seq(Lines), NEW i \in 1..Len(t)
    PROVE  i \in Inside(t) <=>
              \E h \in 1 .. i - 1 : IsHeader(t[h]) /\ h \in Outside(t) /\ Reaches(t, h, i)
<1> DEFINE n == Len(t)
           F == CHOOSE f : InsideUpTo(t, n, f)
<1>1. n \in Nat /\ DOMAIN t = 1..n
  OBVIOUS
<1>2. InsideUpTo(t, n, F)
  BY <1>1, InsideExists
<1>3. Inside(t) = {k \in 1..n : F[k]}
  BY <1>1 DEF Inside, InsideUpTo
<1> HIDE DEF F
<1>4. \A k \in 1..n : F[k] = \E h \in 1 .. k - 1 :
          IsHeader(t[h]) /\ ~F[h] /\ Reaches(t, h, k)
  BY <1>2 DEF InsideUpTo
<1>5. \A h \in 1 .. i - 1 : h \in 1..n
  BY <1>1
<1>6. \A h \in 1..n : h \in Outside(t) <=> ~F[h]
  BY <1>1, <1>3 DEF Outside
<1> HIDE DEF n
<1>7. i \in Inside(t) <=> F[i]
  BY <1>3 DEF n
<1>8. F[i] = \E h \in 1 .. i - 1 : IsHeader(t[h]) /\ ~F[h] /\ Reaches(t, h, i)
  BY <1>4 DEF n
<1> QED
  BY <1>5, <1>6, <1>7, <1>8

LEMMA OutsideIs ==
    ASSUME NEW t \in Seq(Lines)
    PROVE  /\ Outside(t) \subseteq 1..Len(t) /\ Inside(t) \subseteq 1..Len(t)
           /\ \A i \in 1..Len(t) : i \in Outside(t) <=> i \notin Inside(t)
<1>1. DOMAIN t = 1..Len(t)
  OBVIOUS
<1>2. Inside(t) \subseteq DOMAIN t
  BY DEF Inside
<1> QED
  BY <1>1, <1>2 DEF Outside

LEMMA InsideKept ==
    ASSUME NEW t, NEW line, NEW u, Extends(t, line, u), NEW i \in 1..Len(t)
    PROVE  /\ i \in Inside(u) <=> i \in Inside(t)
           /\ i \in Outside(u) <=> i \in Outside(t)
<1> DEFINE n == Len(t)
           S == {k \in 1..n : ~(k \in Inside(u) <=> k \in Inside(t))}
<1>1. t \in Seq(Lines) /\ u \in Seq(Lines) /\ n \in Nat /\ Len(u) = n + 1
  BY DEF Extends
<1>s. \A k : k \in S <=> k \in 1..n /\ ~(k \in Inside(u) <=> k \in Inside(t))
  OBVIOUS
<1>2. \A k \in 1..n : k \in 1..Len(u)
  BY <1>1
<1> HIDE DEF S, n
<1>3. ASSUME S # {} PROVE FALSE
  <2>1. PICK k \in S : \A j \in S : k <= j
    <3>1. S \subseteq Nat
      BY <1>1, <1>s
    <3> QED
      BY <1>3, <3>1, LeastNat
  <2>2. k \in 1..n /\ k \in Nat /\ k \in 0..n
    BY <1>1, <1>s, <2>1
  <2>3. ASSUME NEW h \in 1 .. k - 1
        PROVE  /\ h \in Outside(u) <=> h \in Outside(t)
               /\ Reaches(u, h, k) <=> Reaches(t, h, k)
               /\ u[h] = t[h]
    <3>1. h \in 1..n /\ h \in Nat /\ ~(k <= h)
      BY <1>1, <2>2
    <3>2. h \notin S
      BY <2>1, <3>1
    <3>3. h \in Outside(u) <=> h \in Outside(t)
      BY <1>1, <1>2, <1>s, <3>1, <3>2, OutsideIs DEF n
    <3>4. Reaches(u, h, k) <=> Reaches(t, h, k)
      BY <2>2, <3>1, ReachesKept DEF n
    <3>5. u[h] = t[h]
      BY <3>1 DEF Extends, n
    <3> QED
      BY <3>3, <3>4, <3>5
  <2>4. k \in Inside(t) <=>
           \E h \in 1 .. k - 1 : IsHeader(t[h]) /\ h \in Outside(t) /\ Reaches(t, h, k)
    BY <1>1, <2>2, InsideIs DEF n
  <2>5. k \in Inside(u) <=>
           \E h \in 1 .. k - 1 : IsHeader(u[h]) /\ h \in Outside(u) /\ Reaches(u, h, k)
    BY <1>1, <1>2, <2>2, InsideIs
  <2>6. k \in Inside(u) <=> k \in Inside(t)
    BY <2>3, <2>4, <2>5
  <2> QED
    BY <1>s, <2>1, <2>6
<1>4. i \in Inside(u) <=> i \in Inside(t)
  BY <1>3, <1>s DEF n
<1> QED
  BY <1>1, <1>2, <1>4, OutsideIs DEF n

\* The new line is in the block scalar that is open, if it is not left of it.
InBlockOf(u, line, h) == IsBlank(line) \/ line.indent >= Width(u, h)

LEMMA InsideNew ==
    ASSUME NEW t, NEW line, NEW u, Extends(t, line, u)
    PROVE  Len(t) + 1 \in Inside(u) <=> \E h : OpenBlock(t, h) /\ InBlockOf(u, line, h)
<1> DEFINE n == Len(t)
<1>1. /\ t \in Seq(Lines) /\ u \in Seq(Lines) /\ n \in Nat /\ Len(u) = n + 1
      /\ n + 1 \in 1..Len(u) /\ (n + 1) - 1 = n
      /\ \A h \in 1..n : u[h] = t[h] /\ h \in 0..n
  BY DEF Extends
<1>2. n + 1 \in Inside(u) <=>
         \E h \in 1 .. n : IsHeader(u[h]) /\ h \in Outside(u) /\ Reaches(u, h, n + 1)
  <2> HIDE DEF n
  <2> QED
    BY <1>1, InsideIs
<1>3. ASSUME NEW h \in 1..n
      PROVE  (IsHeader(u[h]) /\ h \in Outside(u) /\ Reaches(u, h, n + 1))
                <=> OpenBlock(t, h) /\ InBlockOf(u, line, h)
  <2>1. h \in Outside(u) <=> h \in Outside(t)
    BY InsideKept
  <2>2. Reaches(u, h, n + 1) <=> Reaches(t, h, n) /\ InBlockOf(u, line, h)
    BY <1>1, ReachesNew DEF InBlockOf
  <2>3. u[h] = t[h]
    BY <1>1
  <2> HIDE DEF n
  <2> QED
    BY <2>1, <2>2, <2>3 DEF OpenBlock, n
<1>4. \A h : OpenBlock(t, h) => h \in 1..n
  BY <1>1, OutsideIs DEF OpenBlock
<1> HIDE DEF n
<1>5. n + 1 \in Inside(u) <=> \E h : OpenBlock(t, h) /\ InBlockOf(u, line, h)
  BY <1>2, <1>3, <1>4
<1> QED
  BY <1>5 DEF n

LEMMA OpenIsOne ==
    ASSUME NEW t \in Seq(Lines), NEW h, NEW k, OpenBlock(t, h), OpenBlock(t, k)
    PROVE  h = k
<1>1. /\ h \in 1..Len(t) /\ k \in 1..Len(t) /\ Len(t) \in Nat
      /\ h \in Outside(t) /\ k \in Outside(t)
  BY OutsideIs DEF OpenBlock
<1>2. ASSUME NEW a \in 1..Len(t), NEW b \in 1..Len(t), a < b,
             OpenBlock(t, a), OpenBlock(t, b)
      PROVE  FALSE
  <2>1. a \in 1 .. b - 1 /\ a \in Nat /\ b \in Nat /\ b <= Len(t)
    BY <1>1, <1>2
  <2>2. Reaches(t, a, b)
    BY <1>1, <1>2, <2>1, ReachesLess DEF OpenBlock
  <2>3. b \in Inside(t)
    BY <1>2, <2>1, <2>2, InsideIs DEF OpenBlock
  <2> QED
    BY <1>2, <2>3, OutsideIs DEF OpenBlock
<1> QED
  BY <1>1, <1>2

\* The last line of an open block is its header or in it: what is outside of it
\* is not behind it.
LEMMA OpenIsLast ==
    ASSUME NEW t \in Seq(Lines), NEW h, OpenBlock(t, h), NEW i \in Outside(t)
    PROVE  i <= h
<1>1. h \in 1..Len(t) /\ i \in 1..Len(t) /\ Len(t) \in Nat
  BY OutsideIs DEF OpenBlock
<1>2. ASSUME h < i PROVE FALSE
  <2>1. h \in 1 .. i - 1 /\ i <= Len(t) /\ h \in Nat /\ i \in Nat
    BY <1>1, <1>2
  <2>2. Reaches(t, h, i)
    BY <1>1, <2>1, ReachesLess DEF OpenBlock
  <2>3. i \in Inside(t)
    BY <1>1, <2>1, <2>2, InsideIs DEF OpenBlock
  <2> QED
    BY <1>1, <2>3, OutsideIs
<1> QED
  BY <1>1, <1>2

\* A block stays open if the new line is in it.
LEMMA OpenKept ==
    ASSUME NEW t, NEW line, NEW u, Extends(t, line, u), NEW h \in 1..Len(t)
    PROVE  OpenBlock(u, h) <=> OpenBlock(t, h) /\ InBlockOf(u, line, h)
<1>1. h \in Outside(u) <=> h \in Outside(t)
  BY InsideKept
<1>2. Reaches(u, h, Len(t) + 1) <=> Reaches(t, h, Len(t)) /\ InBlockOf(u, line, h)
  <2>1. h \in 0..Len(t)
    OBVIOUS
  <2> QED
    BY <2>1, ReachesNew DEF InBlockOf
<1>3. u[h] = t[h] /\ Len(u) = Len(t) + 1
  BY DEF Extends
<1> QED
  BY <1>1, <1>2, <1>3 DEF OpenBlock

\* A header outside of a block opens one.
LEMMA OpenNew ==
    ASSUME NEW t, NEW line, NEW u, Extends(t, line, u)
    PROVE  OpenBlock(u, Len(t) + 1) <=> Len(t) + 1 \notin Inside(u) /\ IsHeader(line)
<1> DEFINE n == Len(t)
<1>1. /\ u \in Seq(Lines) /\ n \in Nat /\ Len(u) = n + 1 /\ u[n + 1] = line
      /\ n + 1 \in 1..Len(u)
  BY DEF Extends
<1>2. Reaches(u, n + 1, n + 1)
  BY <1>1 DEF Reaches
<1>3. n + 1 \in Outside(u) <=> n + 1 \notin Inside(u)
  <2> HIDE DEF n
  <2> QED
    BY <1>1, OutsideIs
<1> HIDE DEF n
<1>4. OpenBlock(u, n + 1) <=> n + 1 \notin Inside(u) /\ IsHeader(line)
  BY <1>1, <1>2, <1>3 DEF OpenBlock
<1> QED
  BY <1>4 DEF n

LEMMA NoRaggedKept ==
    ASSUME NEW t, NEW line, NEW u, Extends(t, line, u), NoRaggedStart(u)
    PROVE  NoRaggedStart(t)
<1> SUFFICES ASSUME NEW h \in Outside(t), IsHeader(t[h]), NEW i \in h + 1 .. Len(t),
                    \A j \in h + 1 .. i : IsBlank(t[j])
             PROVE  t[i].indent = 0
  BY DEF NoRaggedStart
<1>1. h \in 1..Len(t)
  BY OutsideIs DEF Extends
<1>2. h \in Outside(u) /\ u[h] = t[h]
  BY <1>1, InsideKept DEF Extends
<1>3. i \in h + 1 .. Len(u) /\ \A j \in h + 1 .. i : u[j] = t[j]
  BY <1>1 DEF Extends
<1>4. u[i].indent = 0
  BY <1>2, <1>3 DEF NoRaggedStart
<1>5. u[i] = t[i]
  BY <1>1, <1>3
<1> QED
  BY <1>4, <1>5

----------------------------------------------------------------------------
(* The block scalar that is open.                                          *)

LEMMA OpenTyped ==
    ASSUME NEW t \in Seq(Lines), NEW h, OpenBlock(t, h)
    PROVE  /\ h \in 1..Len(t) /\ h \in Nat /\ h \in 0..Len(t)
           /\ t[h].key \in {"yaml", "tree", "other"} /\ t[h].value = Header
BY OutsideIs DEF OpenBlock, IsHeader

\* The parser's test, with the column it keeps.
InBlockFor(field, indent, line) ==
    /\ field # "none"
    /\ \/ IsBlank(line)
       \/ indent > 0 /\ line.indent >= indent
       \/ indent = 0 /\ line.indent >= 4

LEMMA BlockTest ==
    ASSUME NEW t, NEW line, NEW u, Extends(t, line, u), NEW field, NEW indent,
           BlockIs(t, field, indent)
    PROVE  InBlockFor(field, indent, line) <=> Len(t) + 1 \in Inside(u)
<1>1. t \in Seq(Lines) /\ u \in Seq(Lines) /\ line.indent \in Nat
  BY LinesAssumption DEF Extends
<1>2. Len(t) + 1 \in Inside(u) <=> \E h : OpenBlock(t, h) /\ InBlockOf(u, line, h)
  BY InsideNew
<1>3. CASE ~\E h : OpenBlock(t, h)
  BY <1>2, <1>3 DEF BlockIs, InBlockFor
<1>4. ASSUME NEW h, OpenBlock(t, h)
      PROVE  InBlockFor(field, indent, line) <=> Len(t) + 1 \in Inside(u)
  <2>1. /\ h \in Nat /\ h \in 0..Len(t) /\ field # "none"
        /\ indent = IF Filled(t, h) THEN Width(t, h) ELSE 0
    BY <1>1, <1>4, OpenTyped DEF BlockIs
  <2>2. Len(t) + 1 \in Inside(u) <=> InBlockOf(u, line, h)
    BY <1>1, <1>2, <1>4, OpenIsOne
  <2>3. CASE Filled(t, h)
    <3>1. Width(u, h) = indent
      BY <2>1, <2>3, WidthKept
    <3>2. indent \in Nat /\ indent >= 4
      BY <1>1, <2>1, <2>3, WidthTyped
    <3> QED
      BY <2>1, <2>2, <3>1, <3>2 DEF InBlockOf, InBlockFor
  <2>4. CASE ~Filled(t, h)
    <3>1. ~IsBlank(line) => Width(u, h) = IF line.indent < 4 THEN 4 ELSE line.indent
      BY <2>1, <2>4, WidthNew
    <3> QED
      BY <1>1, <2>1, <2>2, <2>4, <3>1 DEF InBlockOf, InBlockFor
  <2> QED
    BY <2>3, <2>4
<1> QED
  BY <1>3, <1>4

Column(indent, line) == IF indent = 0 THEN line.indent ELSE indent

\* The block scalar at h goes on, at this column.
GoesOn(t, line, u, h, field, column) ==
    /\ OpenBlock(t, h) /\ OpenBlock(u, h) /\ field = t[h].key
    /\ ~IsBlank(line) => Width(u, h) = column

\* A line of content: the column is known as soon as there is one.
LEMMA BlockGoesOn ==
    ASSUME NEW t, NEW line, NEW u, Extends(t, line, u), NEW field, NEW indent,
           BlockIs(t, field, indent), Len(t) + 1 \in Inside(u), NoRaggedStart(u)
    PROVE  /\ BlockIs(u, field, Column(indent, line))
           /\ \E h : GoesOn(t, line, u, h, field, Column(indent, line))
<1> DEFINE now == Column(indent, line)
           n == Len(t)
<1>1. /\ t \in Seq(Lines) /\ u \in Seq(Lines) /\ line.indent \in Nat
      /\ n \in Nat /\ Len(u) = n + 1 /\ u[n + 1] = line
      /\ \A i \in 1..n : u[i] = t[i]
  BY LinesAssumption DEF Extends
<1>2. PICK h : OpenBlock(t, h) /\ InBlockOf(u, line, h)
  BY InsideNew
<1>3. /\ h \in 1..n /\ h \in Nat /\ h \in 0..n
      /\ t[h].key \in {"yaml", "tree", "other"} /\ t[h].value = Header
  BY <1>1, <1>2, OpenTyped
<1>4. field = t[h].key /\ indent = IF Filled(t, h) THEN Width(t, h) ELSE 0
  BY <1>2 DEF BlockIs
<1>5. OpenBlock(u, h) /\ u[h] = t[h]
  BY <1>1, <1>2, <1>3, OpenKept
<1>6. Filled(u, h) <=> Filled(t, h) \/ ~IsBlank(line)
  BY <1>3, FilledNew
<1>7. now = IF Filled(u, h) THEN Width(u, h) ELSE 0
  <2>0. now = IF indent = 0 THEN line.indent ELSE indent
    BY DEF Column
  <2> HIDE DEF now
  <2>1. CASE Filled(t, h)
    <3>1. Width(u, h) = Width(t, h) /\ Width(t, h) \in Nat /\ Width(t, h) >= 4
      BY <1>1, <1>3, <2>1, WidthKept, WidthTyped
    <3> QED
      BY <1>4, <1>6, <2>0, <2>1, <3>1
  <2>2. CASE ~Filled(t, h) /\ ~IsBlank(line)
    <3>1. Width(u, h) = IF line.indent < 4 THEN 4 ELSE line.indent
      BY <1>3, <2>2, WidthNew
    <3>2. line.indent >= Width(u, h)
      BY <1>2, <2>2 DEF InBlockOf
    <3> QED
      BY <1>1, <1>4, <1>6, <2>0, <2>2, <3>1, <3>2
  <2>3. CASE ~Filled(t, h) /\ IsBlank(line)
    <3>1. \A j \in h + 1 .. n + 1 : IsBlank(u[j])
      <4>1. \A j \in h + 1 .. n + 1 : j = n + 1 \/ (j \in h + 1 .. n /\ j \in 1..n)
        BY <1>1, <1>3
      <4> QED
        BY <1>1, <2>3, <4>1 DEF Filled
    <3>2. h \in Outside(u) /\ IsHeader(u[h]) /\ n + 1 \in h + 1 .. Len(u)
      BY <1>1, <1>3, <1>5 DEF OpenBlock
    <3>3. u[n + 1].indent = 0
      BY <3>1, <3>2 DEF NoRaggedStart
    <3> QED
      BY <1>1, <1>4, <1>6, <2>0, <2>3, <3>3
  <2> QED
    BY <2>1, <2>2, <2>3
<1>8. ~IsBlank(line) => Width(u, h) = now
  BY <1>6, <1>7
<1>9. BlockIs(u, field, now)
  <2>1. \A k : OpenBlock(u, k) => k = h
    BY <1>1, <1>5, OpenIsOne
  <2> HIDE DEF now
  <2> QED
    BY <1>4, <1>5, <1>7, <2>1 DEF BlockIs
<1> QED
  BY <1>2, <1>4, <1>5, <1>8, <1>9 DEF GoesOn

\* Any other line ends the block scalar, and a header opens one.
LEMMA BlockEnds ==
    ASSUME NEW t, NEW line, NEW u, Extends(t, line, u), Len(t) + 1 \notin Inside(u)
    PROVE  /\ BlockIs(u, IF IsHeader(line) THEN line.key ELSE "none", 0)
           /\ \A h \in 1..Len(t) : ~OpenBlock(u, h)
<1> DEFINE n == Len(t)
<1>1. /\ u \in Seq(Lines) /\ n \in Nat /\ Len(u) = n + 1 /\ u[n + 1] = line
  BY DEF Extends
<1>2. \A h \in 1..n : ~OpenBlock(u, h)
  BY InsideNew, OpenKept
<1>3. \A h : OpenBlock(u, h) => h = n + 1 /\ IsHeader(line)
  <2> SUFFICES ASSUME NEW h, OpenBlock(u, h) PROVE h = n + 1 /\ IsHeader(line)
    OBVIOUS
  <2>1. h \in 1..Len(u)
    BY <1>1, OpenTyped
  <2>2. h = n + 1
    BY <1>1, <1>2, <2>1
  <2> QED
    BY <2>2, OpenNew
<1>4. IsHeader(line) => OpenBlock(u, n + 1)
  BY OpenNew
<1>5. ~Filled(u, n + 1)
  BY <1>1 DEF Filled
<1> HIDE DEF n
<1>6. BlockIs(u, IF IsHeader(line) THEN line.key ELSE "none", 0)
  <2> DEFINE field == IF IsHeader(line) THEN line.key ELSE "none"
  <2>1. field # "none" => IsHeader(line)
    OBVIOUS
  <2>2. IsHeader(line) => field = line.key
    OBVIOUS
  <2> HIDE DEF field
  <2>3. \A h : OpenBlock(u, h) =>
           field = u[h].key /\ 0 = IF Filled(u, h) THEN Width(u, h) ELSE 0
    BY <1>1, <1>3, <1>5, <2>2
  <2>4. BlockIs(u, field, 0)
    BY <1>4, <2>1, <2>3 DEF BlockIs
  <2> QED
    BY <2>4 DEF field
<1> QED
  BY <1>2, <1>6 DEF n

----------------------------------------------------------------------------
(* The items, and the lines that are theirs.                               *)

LEMMA ItemsAreLines ==
    ASSUME NEW t \in Seq(Lines)
    PROVE  Items(t) \subseteq 1..Len(t) /\ Items(t) \subseteq Outside(t)
BY OutsideIs DEF Items

LEMMA ItemsNew ==
    ASSUME NEW t, NEW line, NEW u, Extends(t, line, u)
    PROVE  /\ \A i \in 1..Len(t) : i \in Items(u) <=> i \in Items(t)
           /\ Len(t) + 1 \in Items(u) <=> Len(t) + 1 \notin Inside(u) /\ line.item
           /\ Items(u) = IF Len(t) + 1 \in Items(u) THEN Items(t) \cup {Len(t) + 1} ELSE Items(t)
<1> DEFINE n == Len(t)
<1>1. /\ t \in Seq(Lines) /\ u \in Seq(Lines) /\ n \in Nat /\ Len(u) = n + 1
      /\ u[n + 1] = line /\ n + 1 \in 1..Len(u) /\ n + 1 \notin 1..n
      /\ \A i : i \in 1..Len(u) <=> i \in 1..n \/ i = n + 1
      /\ \A i \in 1..n : u[i] = t[i]
  BY DEF Extends
<1>2. \A i \in 1..n : i \in Outside(u) <=> i \in Outside(t)
  BY InsideKept
<1> HIDE DEF n
<1>3. n + 1 \in Outside(u) <=> n + 1 \notin Inside(u)
  BY <1>1, OutsideIs
<1>4. \A i \in 1..n : i \in Items(u) <=> i \in Items(t)
  BY <1>1, <1>2 DEF Items
<1>5. n + 1 \in Items(u) <=> n + 1 \notin Inside(u) /\ line.item
  BY <1>1, <1>3 DEF Items
<1>6. Items(t) \subseteq 1..n /\ Items(u) \subseteq 1..Len(u)
  BY <1>1, ItemsAreLines DEF n
<1>7. Items(u) = IF n + 1 \in Items(u) THEN Items(t) \cup {n + 1} ELSE Items(t)
  <2>1. \A i : i \in Items(u) <=> i \in Items(t) \/ (i = n + 1 /\ n + 1 \in Items(u))
    BY <1>1, <1>4, <1>6
  <2>2. CASE n + 1 \in Items(u)
    BY <2>1, <2>2
  <2>3. CASE n + 1 \notin Items(u)
    BY <2>1, <2>3
  <2> QED
    BY <2>2, <2>3
<1> QED
  BY <1>4, <1>5, <1>7 DEF n

LEMMA ItemsCounted ==
    ASSUME NEW t, NEW line, NEW u, Extends(t, line, u)
    PROVE  /\ Cardinality(Items(t)) \in Nat
           /\ Cardinality(Items(u)) = Cardinality(Items(t))
                                        + (IF Len(t) + 1 \in Items(u) THEN 1 ELSE 0)
           /\ \A i \in 1..Len(t) : Rank(u, i) = Rank(t, i)
           /\ Len(t) + 1 \in Items(u) =>
                 Rank(u, Len(t) + 1) = Cardinality(Items(t)) + 1
<1> DEFINE n == Len(t)
<1>1. /\ n \in Nat /\ Items(t) \subseteq 1..n /\ n + 1 \notin Items(t)
      /\ t \in Seq(Lines)
  <2>1. t \in Seq(Lines) /\ n \in Nat
    BY DEF Extends
  <2> QED
    BY <2>1, ItemsAreLines
<1>2. IsFiniteSet(Items(t)) /\ Cardinality(Items(t)) \in Nat
  <2>1. IsFiniteSet(1..n)
    BY <1>1, FS_Interval
  <2> QED
    BY <1>1, <2>1, FS_Subset, FS_CardinalityType
<1>3. Cardinality(Items(t) \cup {n + 1}) = Cardinality(Items(t)) + 1
  BY <1>1, <1>2, FS_AddElement
<1>4. Items(u) = IF n + 1 \in Items(u) THEN Items(t) \cup {n + 1} ELSE Items(t)
  BY ItemsNew
<1>5. Cardinality(Items(u)) = Cardinality(Items(t)) + (IF n + 1 \in Items(u) THEN 1 ELSE 0)
  <2>1. CASE n + 1 \in Items(u)
    BY <1>3, <1>4, <2>1
  <2>2. CASE n + 1 \notin Items(u)
    <3>1. Items(u) = Items(t)
      BY <1>4, <2>2
    <3> QED
      BY <1>2, <2>2, <3>1
  <2> QED
    BY <2>1, <2>2
<1>6. ASSUME NEW i \in 1..n PROVE Rank(u, i) = Rank(t, i)
  <2>1. {k \in Items(u) : k <= i} = {k \in Items(t) : k <= i}
    BY <1>1, <1>4
  <2> QED
    BY <2>1 DEF Rank
<1>7. ASSUME n + 1 \in Items(u) PROVE Rank(u, n + 1) = Cardinality(Items(t)) + 1
  <2>1. {k \in Items(u) : k <= n + 1} = Items(t) \cup {n + 1}
    BY <1>1, <1>4, <1>7
  <2> QED
    BY <1>3, <2>1 DEF Rank
<1> QED
  BY <1>2, <1>5, <1>6, <1>7

\* A line outside of blocks that ends items.
Final(line) == line.item \/ line.key = "---"

LEMMA EndsIs ==
    ASSUME NEW t, NEW i, NEW j
    PROVE  Ends(t, i, j) <=> \E k \in i + 1 .. j : k \in Outside(t) /\ Final(t[k])
BY DEF Ends, Final

LEMMA EndsNew ==
    ASSUME NEW t, NEW line, NEW u, Extends(t, line, u), NEW i \in 1..Len(t)
    PROVE  /\ \A j \in 1..Len(t) : Ends(u, i, j) <=> Ends(t, i, j)
           /\ Ends(u, i, Len(t) + 1) <=>
                 Ends(t, i, Len(t)) \/ (Len(t) + 1 \notin Inside(u) /\ Final(line))
<1> DEFINE n == Len(t)
<1>1. /\ u \in Seq(Lines) /\ n \in Nat /\ Len(u) = n + 1
      /\ u[n + 1] = line /\ n + 1 \in 1..Len(u) /\ i \in 1..n
      /\ \A k \in i + 1 .. n : k \in 1..n
      /\ \A k : k \in i + 1 .. n + 1 <=> k \in i + 1 .. n \/ k = n + 1
      /\ \A k \in 1..n : u[k] = t[k]
  BY DEF Extends
<1>2. \A k \in 1..n : k \in Outside(u) <=> k \in Outside(t)
  BY InsideKept
<1> HIDE DEF n
<1>3. n + 1 \in Outside(u) <=> n + 1 \notin Inside(u)
  BY <1>1, OutsideIs
<1>4. \A k \in 1..n : (k \in Outside(u) /\ Final(u[k])) <=> (k \in Outside(t) /\ Final(t[k]))
  BY <1>1, <1>2
<1>5. ASSUME NEW j \in 1..n PROVE Ends(u, i, j) <=> Ends(t, i, j)
  <2>1. \A k \in i + 1 .. j : k \in 1..n
    BY <1>1
  <2> QED
    BY <1>4, <2>1, EndsIs
<1>6. Ends(u, i, n + 1) <=> Ends(t, i, n) \/ (n + 1 \notin Inside(u) /\ Final(line))
  <2>1. Ends(u, i, n + 1) <=> (\E k \in i + 1 .. n : k \in Outside(u) /\ Final(u[k]))
                              \/ (n + 1 \in Outside(u) /\ Final(u[n + 1]))
    BY <1>1, EndsIs
  <2>2. (\E k \in i + 1 .. n : k \in Outside(u) /\ Final(u[k])) <=> Ends(t, i, n)
    BY <1>1, <1>4, EndsIs
  <2> QED
    BY <1>1, <1>3, <2>1, <2>2
<1> QED
  BY <1>5, <1>6 DEF n

LEMMA OpenItemNew ==
    ASSUME NEW t, NEW line, NEW u, Extends(t, line, u)
    PROVE  /\ \A i \in 1..Len(t) : OpenItem(u, i) <=>
                 OpenItem(t, i) /\ (Len(t) + 1 \in Inside(u) \/ ~Final(line))
           /\ OpenItem(u, Len(t) + 1) <=> Len(t) + 1 \notin Inside(u) /\ line.item
<1> DEFINE n == Len(t)
<1>1. n \in Nat /\ Len(u) = n + 1
  BY DEF Extends
<1>2. ~Ends(u, n + 1, n + 1)
  BY <1>1 DEF Ends
<1>3. n + 1 \in Items(u) <=> n + 1 \notin Inside(u) /\ line.item
  BY ItemsNew
<1>4. \A i \in 1..n : i \in Items(u) <=> i \in Items(t)
  BY ItemsNew
<1>5. \A i \in 1..n : Ends(u, i, n + 1) <=>
         Ends(t, i, n) \/ (n + 1 \notin Inside(u) /\ Final(line))
  BY EndsNew
<1> HIDE DEF n
<1>6. \A i \in 1..n : OpenItem(u, i) <=>
         OpenItem(t, i) /\ (n + 1 \in Inside(u) \/ ~Final(line))
  BY <1>1, <1>4, <1>5 DEF OpenItem, n
<1>7. OpenItem(u, n + 1) <=> n + 1 \notin Inside(u) /\ line.item
  BY <1>1, <1>2, <1>3 DEF OpenItem
<1> QED
  BY <1>6, <1>7 DEF n

----------------------------------------------------------------------------
(* The lines that set a field of an item.                                  *)

Sets(line, key) == line.key = key /\ line.value # None

Setting(t, i, key) == {j \in LinesOf(t, i) : Sets(t[j], key)}

Newest(S) == CHOOSE j \in S : \A k \in S : k <= j

LEMMA LastSettingIs ==
    ASSUME NEW t, NEW i, NEW key
    PROVE  LastSetting(t, i, key) =
              IF Setting(t, i, key) = {} THEN 0 ELSE Newest(Setting(t, i, key))
BY DEF LastSetting, Setting, Sets, Newest

LEMMA NewestIs ==
    ASSUME NEW S, S \subseteq Nat, NEW m \in S, \A k \in S : k <= m
    PROVE  Newest(S) = m
<1> DEFINE f == Newest(S)
<1>1. f \in S /\ \A k \in S : k <= f
  BY DEF Newest
<1> HIDE DEF f
<1>2. f = m
  BY <1>1
<1> QED
  BY <1>2 DEF f

LEMMA GreatestNat ==
    ASSUME NEW n \in Nat, NEW S, S \subseteq 0..n, S # {}
    PROVE  \E m \in S : \A k \in S : k <= m
<1> DEFINE B == {b \in 0..n : \A k \in S : k <= b}
<1>s. \A b : b \in B <=> b \in 0..n /\ \A k \in S : k <= b
  OBVIOUS
<1>1. n \in B /\ B \subseteq Nat
  OBVIOUS
<1> HIDE DEF B
<1>2. PICK m \in B : \A b \in B : m <= b
  BY <1>1, LeastNat
<1>3. m \in 0..n /\ \A k \in S : k <= m
  BY <1>2, <1>s
<1>4. ASSUME m \notin S PROVE FALSE
  <2>1. \A k \in S : k <= m - 1 /\ m - 1 >= 0
    <3> SUFFICES ASSUME NEW k \in S PROVE k <= m - 1 /\ m - 1 >= 0
      OBVIOUS
    <3>1. k \in 0..n /\ k <= m /\ k # m
      BY <1>3, <1>4
    <3> QED
      BY <1>3, <3>1
  <2>2. m - 1 \in 0..n
    <3>1. m \in Int /\ 0 <= m /\ m <= n
      BY <1>3
    <3>2. m - 1 >= 0
      BY <2>1
    <3> QED
      BY <3>1, <3>2
  <2>3. m - 1 \in B
    BY <1>s, <2>1, <2>2
  <2> QED
    BY <1>2, <1>3, <2>3
<1> QED
  BY <1>3, <1>4

LEMMA LinesOfTyped ==
    ASSUME NEW t \in Seq(Lines), NEW i, NEW key
    PROVE  /\ LinesOf(t, i) \subseteq 1..Len(t)
           /\ LinesOf(t, i) \subseteq Outside(t)
           /\ Setting(t, i, key) \subseteq LinesOf(t, i)
BY OutsideIs DEF LinesOf, Setting

LEMMA LastSettingTyped ==
    ASSUME NEW t \in Seq(Lines), NEW i, NEW key
    PROVE  \/ LastSetting(t, i, key) = 0 /\ Setting(t, i, key) = {}
           \/ LastSetting(t, i, key) \in Setting(t, i, key)
<1> DEFINE S == Setting(t, i, key)
<1>1. LastSetting(t, i, key) = IF S = {} THEN 0 ELSE Newest(S)
  BY LastSettingIs
<1>2. Len(t) \in Nat /\ S \subseteq 0..Len(t) /\ S \subseteq Nat
  <2>1. S \subseteq 1..Len(t)
    BY LinesOfTyped
  <2> HIDE DEF S
  <2> QED
    BY <2>1
<1> HIDE DEF S
<1>3. ASSUME S # {} PROVE Newest(S) \in S
  <2>1. PICK m \in S : \A k \in S : k <= m
    BY <1>2, <1>3, GreatestNat
  <2> QED
    BY <1>2, <2>1, NewestIs
<1>4. (LastSetting(t, i, key) = 0 /\ S = {}) \/ LastSetting(t, i, key) \in S
  BY <1>1, <1>3
<1> QED
  BY <1>4 DEF S

\* The new line is one of the open item's, or of the item that it starts.
LEMMA LinesOfNew ==
    ASSUME NEW t, NEW line, NEW u, Extends(t, line, u), NEW i \in 1..Len(t), i \in Items(t)
    PROVE  \A j : j \in LinesOf(u, i) <=>
              \/ j \in LinesOf(t, i)
              \/ j = Len(t) + 1 /\ j \notin Inside(u) /\ OpenItem(u, i)
<1> DEFINE n == Len(t)
<1>1. /\ t \in Seq(Lines) /\ u \in Seq(Lines) /\ n \in Nat /\ Len(u) = n + 1
      /\ n + 1 \in 1..Len(u) /\ i <= n + 1 /\ n + 1 \notin 1..n
      /\ \A k : k \in 1..Len(u) <=> k \in 1..n \/ k = n + 1
  BY DEF Extends
<1>2. \A j \in 1..n : j \in Outside(u) <=> j \in Outside(t)
  BY InsideKept
<1>3. \A j \in 1..n : Ends(u, i, j) <=> Ends(t, i, j)
  BY EndsNew
<1>4. i \in Items(u)
  BY ItemsNew
<1> HIDE DEF n
<1>5. n + 1 \in Outside(u) <=> n + 1 \notin Inside(u)
  BY <1>1, OutsideIs
<1>6. \A j \in 1..n : j \in LinesOf(u, i) <=> j \in LinesOf(t, i)
  BY <1>2, <1>3 DEF LinesOf
<1>7. n + 1 \in LinesOf(u, i) <=> n + 1 \notin Inside(u) /\ OpenItem(u, i)
  BY <1>1, <1>4, <1>5 DEF LinesOf, OpenItem
<1>8. LinesOf(t, i) \subseteq 1..n /\ LinesOf(u, i) \subseteq 1..Len(u)
  BY <1>1, LinesOfTyped DEF n
<1>9. \A j : j \in LinesOf(u, i) <=>
         j \in LinesOf(t, i) \/ (j = n + 1 /\ j \notin Inside(u) /\ OpenItem(u, i))
  BY <1>1, <1>6, <1>7, <1>8
<1> QED
  BY <1>9 DEF n

LEMMA LinesOfStarted ==
    ASSUME NEW t, NEW line, NEW u, Extends(t, line, u), Len(t) + 1 \in Items(u)
    PROVE  LinesOf(u, Len(t) + 1) = {Len(t) + 1}
<1>1. /\ u \in Seq(Lines) /\ Len(t) \in Nat /\ Len(u) = Len(t) + 1
      /\ \A j \in 1..Len(u) : Len(t) + 1 <= j <=> j = Len(t) + 1
  BY DEF Extends
<1>2. ~Ends(u, Len(t) + 1, Len(t) + 1) /\ Len(t) + 1 \in Outside(u)
  BY <1>1 DEF Ends, Items
<1>3. \A j \in Outside(u) : j \in 1..Len(u)
  BY <1>1, OutsideIs
<1> QED
  BY <1>1, <1>2, <1>3 DEF LinesOf

LEMMA SettingKept ==
    ASSUME NEW t, NEW line, NEW u, Extends(t, line, u), NEW i \in Items(t), NEW key,
           Len(t) + 1 \in Inside(u) \/ ~OpenItem(u, i) \/ ~Sets(line, key)
    PROVE  LastSetting(u, i, key) = LastSetting(t, i, key)
<1>1. /\ t \in Seq(Lines) /\ u[Len(t) + 1] = line
      /\ \A j \in 1..Len(t) : u[j] = t[j]
  BY DEF Extends
<1>2. i \in 1..Len(t) /\ LinesOf(t, i) \subseteq 1..Len(t)
  BY <1>1, ItemsAreLines, LinesOfTyped
<1>3. \A j : j \in LinesOf(u, i) <=>
         j \in LinesOf(t, i) \/ (j = Len(t) + 1 /\ j \notin Inside(u) /\ OpenItem(u, i))
  BY <1>2, LinesOfNew
<1>4. \A j : j \in Setting(u, i, key) <=> j \in Setting(t, i, key)
  BY <1>1, <1>2, <1>3 DEF Setting
<1>5. Setting(u, i, key) = Setting(t, i, key)
  BY <1>4
<1> QED
  BY <1>5, LastSettingIs

LEMMA SettingNew ==
    ASSUME NEW t, NEW line, NEW u, Extends(t, line, u), NEW i, NEW key, OpenItem(u, i),
           Len(t) + 1 \notin Inside(u), Sets(line, key)
    PROVE  LastSetting(u, i, key) = Len(t) + 1
<1> DEFINE m == Len(t) + 1
           S == Setting(u, i, key)
<1>1. u \in Seq(Lines) /\ Len(u) = m /\ m \in 1..Len(u) /\ m \in Nat /\ u[m] = line
  BY DEF Extends
<1>2. S \subseteq 1..m /\ i \in 1..m
  <2>1. S \subseteq 1..Len(u) /\ i \in 1..Len(u)
    BY <1>1, LinesOfTyped, ItemsAreLines DEF OpenItem
  <2> HIDE DEF S, m
  <2> QED
    BY <1>1, <2>1
<1>3. m \in S
  <2>1. m \in Outside(u)
    BY <1>1, OutsideIs
  <2> HIDE DEF m
  <2>2. i <= m /\ ~Ends(u, i, m)
    BY <1>1, <1>2 DEF OpenItem
  <2> QED
    BY <1>1, <2>1, <2>2 DEF LinesOf, Setting
<1> HIDE DEF S, m
<1>4. Newest(S) = m
  <2>1. S \subseteq Nat /\ \A k \in S : k <= m
    BY <1>1, <1>2
  <2> QED
    BY <1>3, <2>1, NewestIs
<1>5. LastSetting(u, i, key) = IF S = {} THEN 0 ELSE Newest(S)
  BY LastSettingIs DEF S
<1> QED
  BY <1>3, <1>4, <1>5 DEF m

LEMMA SettingStarted ==
    ASSUME NEW t, NEW line, NEW u, Extends(t, line, u), Len(t) + 1 \in Items(u), NEW key,
           ~Sets(line, key)
    PROVE  LastSetting(u, Len(t) + 1, key) = 0
<1>1. LinesOf(u, Len(t) + 1) = {Len(t) + 1}
  BY LinesOfStarted
<1>2. u[Len(t) + 1] = line
  BY DEF Extends
<1>3. Setting(u, Len(t) + 1, key) = {}
  BY <1>1, <1>2 DEF Setting
<1> QED
  BY <1>3, LastSettingIs

----------------------------------------------------------------------------
(* The text of a block scalar.                                             *)

LinesIn(t, h) == {i \in h + 1 .. Len(t) : Reaches(t, h, i)}

\* Line k of the block scalar.
Piece(t, h, k) == Content(t[h + k], Width(t, h))

LEMMA PieceKept ==
    ASSUME NEW t, NEW line, NEW u, Extends(t, line, u), NEW h \in 0..Len(t),
           NEW k \in 1 .. Len(t) - h
    PROVE  Piece(u, h, k) = Piece(t, h, k)
<1>1. /\ Len(t) \in Nat /\ h \in Nat /\ h + k \in h + 1 .. Len(t) /\ u[h + k] = t[h + k]
  BY DEF Extends
<1>2. CASE Filled(t, h)
  <2>1. Width(u, h) = Width(t, h)
    BY <1>1, <1>2, WidthKept
  <2> QED
    BY <1>1, <2>1 DEF Piece
<1>3. CASE ~Filled(t, h)
  <2>1. IsBlank(t[h + k])
    BY <1>1, <1>3 DEF Filled
  <2> QED
    BY <1>1, <2>1 DEF Piece, Content
<1> QED
  BY <1>2, <1>3

LEMMA BodyIs ==
    ASSUME NEW t, NEW h
    PROVE  Body(t, h) = [k \in 1 .. Cardinality(LinesIn(t, h)) |-> Piece(t, h, k)]
BY DEF Body, LinesIn, Piece

LEMMA LinesInCounted ==
    ASSUME NEW t \in Seq(Lines), NEW h \in 0..Len(t)
    PROVE  Cardinality(LinesIn(t, h)) \in 0 .. Len(t) - h
<1> DEFINE A == h + 1 .. Len(t)
           S == LinesIn(t, h)
<1>1. h \in Int /\ h + 1 \in Int /\ Len(t) \in Int /\ h + 1 <= Len(t) + 1
  OBVIOUS
<1>2. IsFiniteSet(A) /\ Cardinality(A) = Len(t) - h
  <2>1. Cardinality(A) = IF h + 1 > Len(t) THEN 0 ELSE Len(t) - (h + 1) + 1
    BY <1>1, FS_Interval
  <2>2. IsFiniteSet(A)
    BY <1>1, FS_Interval
  <2> HIDE DEF A
  <2> QED
    BY <1>1, <2>1, <2>2
<1>3. S \subseteq A
  BY DEF LinesIn
<1> HIDE DEF A, S
<1>4. IsFiniteSet(S) /\ Cardinality(S) <= Cardinality(A)
  BY <1>2, <1>3, FS_Subset
<1>5. Cardinality(S) \in Nat
  BY <1>4, FS_CardinalityType
<1> QED
  BY <1>1, <1>2, <1>4, <1>5 DEF S

\* A line that is not in it leaves a block scalar as it is.
LEMMA BodyKept ==
    ASSUME NEW t, NEW line, NEW u, Extends(t, line, u), NEW h \in 1..Len(t),
           ~Reaches(u, h, Len(t) + 1)
    PROVE  Body(u, h) = Body(t, h)
<1>1. /\ t \in Seq(Lines) /\ Len(t) \in Nat /\ Len(u) = Len(t) + 1 /\ h \in Nat
      /\ h \in 0..Len(t)
      /\ \A i : i \in h + 1 .. Len(u) <=> i \in h + 1 .. Len(t) \/ i = Len(t) + 1
      /\ \A i \in h + 1 .. Len(t) : i \in 0..Len(t)
      /\ Len(t) + 1 \notin h + 1 .. Len(t)
  BY DEF Extends
<1>2. \A i \in 0..Len(t) : Reaches(u, h, i) <=> Reaches(t, h, i)
  BY <1>1, ReachesKept
<1>3. \A i : i \in LinesIn(u, h) <=> i \in LinesIn(t, h)
  BY <1>1, <1>2 DEF LinesIn
<1>4. LinesIn(u, h) = LinesIn(t, h)
  BY <1>3
<1> DEFINE m == Cardinality(LinesIn(t, h))
<1>5. m \in 0 .. Len(t) - h
  BY <1>1, LinesInCounted
<1> HIDE DEF m
<1>6. \A k \in 1..m : k \in 1 .. Len(t) - h
  BY <1>1, <1>5
<1>7. \A k \in 1..m : Piece(u, h, k) = Piece(t, h, k)
  BY <1>1, <1>6, PieceKept
<1>8. [k \in 1..m |-> Piece(u, h, k)] = [k \in 1..m |-> Piece(t, h, k)]
  BY <1>7
<1> QED
  BY <1>4, <1>8, BodyIs DEF m

IsList(f, m) == f = [k \in 1..m |-> f[k]]

LEMMA EmptyList ==
    ASSUME NEW f, IsList(f, 0)
    PROVE  f = <<>>
<1>1. f \in [1..0 -> {}]
  BY DEF IsList
<1>2. f \in Seq({}) /\ Len(f) = 0
  BY <1>1
<1> QED
  BY <1>2

LEMMA AppendFunction ==
    ASSUME NEW m \in Nat, NEW f, IsList(f, m), NEW g, IsList(g, m + 1),
           \A k \in 1..m : g[k] = f[k]
    PROVE  g = Append(f, g[m + 1])
<1> DEFINE S == {g[k] : k \in 1 .. m + 1}
           x == g[m + 1]
           a == Append(f, x)
<1>1. m + 1 \in Nat /\ \A k \in 1..m : k \in 1 .. m + 1
  OBVIOUS
<1>2. x \in S /\ \A k \in 1..m : f[k] \in S
  BY <1>1
<1>3. \A k \in 1 .. m + 1 : g[k] \in S
  OBVIOUS
<1> HIDE DEF S, x
<1>4. f \in [1..m -> S] /\ g \in [1 .. m + 1 -> S]
  BY <1>2, <1>3 DEF IsList
<1>5. f \in Seq(S) /\ g \in Seq(S) /\ Len(f) = m /\ Len(g) = m + 1
  BY <1>1, <1>4
<1>6. a \in Seq(S) /\ Len(a) = m + 1 /\ a[m + 1] = x /\ \A k \in 1..m : a[k] = f[k]
  BY <1>2, <1>5
<1> HIDE DEF a
<1>7. \A k \in 1 .. m + 1 : g[k] = a[k]
  <2>1. \A k \in 1 .. m + 1 : k \in 1..m \/ k = m + 1
    OBVIOUS
  <2> QED
    BY <1>6, <2>1 DEF x
<1>8. g = a
  BY <1>5, <1>6, <1>7
<1> QED
  BY <1>8 DEF a, x

\* Of a block scalar that is open, all lines behind the header are the text.
LEMMA OpenBody ==
    ASSUME NEW t \in Seq(Lines), NEW h \in 0..Len(t), Reaches(t, h, Len(t))
    PROVE  Body(t, h) = [k \in 1 .. Len(t) - h |-> Piece(t, h, k)]
<1>1. LinesIn(t, h) = h + 1 .. Len(t)
  <2>1. \A i \in h + 1 .. Len(t) : i \in Nat /\ i <= Len(t) /\ Len(t) \in Nat /\ h \in Nat
    OBVIOUS
  <2>2. \A i \in h + 1 .. Len(t) : Reaches(t, h, i)
    BY <2>1, ReachesLess
  <2> QED
    BY <2>2 DEF LinesIn
<1>2. h + 1 \in Int /\ Len(t) \in Int /\ h \in Int /\ h <= Len(t)
  OBVIOUS
<1> DEFINE c == Cardinality(h + 1 .. Len(t))
<1>3. c = IF h + 1 > Len(t) THEN 0 ELSE Len(t) - (h + 1) + 1
  BY <1>2, FS_Interval
<1> HIDE DEF c
<1>4. c = Len(t) - h
  BY <1>2, <1>3
<1> QED
  BY <1>1, <1>4, BodyIs DEF c

LEMMA BodyGrown ==
    ASSUME NEW t, NEW line, NEW u, Extends(t, line, u), NEW h \in 1..Len(t),
           Reaches(t, h, Len(t)), Reaches(u, h, Len(t) + 1)
    PROVE  Body(u, h) = Append(Body(t, h), Content(line, Width(u, h)))
<1> DEFINE m == Len(t) - h
           f == Body(t, h)
           g == Body(u, h)
<1>1. /\ t \in Seq(Lines) /\ u \in Seq(Lines) /\ Len(t) \in Nat /\ Len(u) = Len(t) + 1
      /\ h \in 0..Len(t) /\ h \in 0..Len(u) /\ m \in Nat /\ Len(u) - h = m + 1
      /\ u[Len(t) + 1] = line /\ h + (m + 1) = Len(t) + 1
  BY DEF Extends
<1>2. f = [k \in 1..m |-> Piece(t, h, k)]
  BY <1>1, OpenBody
<1>3. g = [k \in 1 .. m + 1 |-> Piece(u, h, k)]
  BY <1>1, OpenBody
<1>4. \A k \in 1..m : Piece(u, h, k) = Piece(t, h, k)
  BY <1>1, PieceKept
<1>5. Piece(u, h, m + 1) = Content(line, Width(u, h))
  BY <1>1 DEF Piece
<1>6. m + 1 \in 1 .. m + 1 /\ \A k \in 1..m : k \in 1 .. m + 1
  BY <1>1
<1> HIDE DEF f, g, m
<1>7. g[m + 1] = Content(line, Width(u, h))
  BY <1>3, <1>5, <1>6
<1>8. \A k \in 1..m : g[k] = f[k]
  BY <1>2, <1>3, <1>4, <1>6
<1>9. IsList(f, m) /\ IsList(g, m + 1)
  BY <1>2, <1>3 DEF IsList
<1>10. g = Append(f, g[m + 1])
  BY <1>1, <1>8, <1>9, AppendFunction
<1> QED
  BY <1>7, <1>10 DEF f, g

----------------------------------------------------------------------------
(* What an item says, when a line is added.                                *)

TextAt(t, j) ==
    IF j = 0 THEN <<>> ELSE IF t[j].value = Header THEN Body(t, j) ELSE <<t[j].value>>

LEMMA YamlIs ==
    ASSUME NEW t, NEW i
    PROVE  YamlOf(t, i) = TextAt(t, LastSetting(t, i, "yaml"))
BY DEF YamlOf, TextAt

\* An open block scalar is one of the open item's, if it is of any.
LEMMA OpenOwner ==
    ASSUME NEW t \in Seq(Lines), NEW h, OpenBlock(t, h), NEW i \in Items(t)
    PROVE  h \in LinesOf(t, i) <=> OpenItem(t, i)
<1>1. /\ h \in 1..Len(t) /\ h \in Outside(t) /\ i \in 1..Len(t) /\ i \in Outside(t)
      /\ Len(t) \in Nat
  BY OpenTyped, ItemsAreLines DEF OpenBlock
<1>2. i <= h
  BY <1>1, OpenIsLast
<1>3. \A k \in i + 1 .. Len(t) : k \in Outside(t) => k \in i + 1 .. h
  <2> SUFFICES ASSUME NEW k \in i + 1 .. Len(t), k \in Outside(t) PROVE k \in i + 1 .. h
    OBVIOUS
  <2>1. k <= h
    BY OpenIsLast
  <2> QED
    BY <1>1, <2>1
<1>4. \A k \in i + 1 .. h : k \in i + 1 .. Len(t)
  BY <1>1
<1>5. Ends(t, i, Len(t)) <=> Ends(t, i, h)
  BY <1>3, <1>4, EndsIs
<1> QED
  BY <1>1, <1>2, <1>5 DEF LinesOf, OpenItem

LEMMA OpenIsSetting ==
    ASSUME NEW t \in Seq(Lines), NEW h, OpenBlock(t, h), t[h].key = "yaml",
           NEW i, OpenItem(t, i)
    PROVE  LastSetting(t, i, "yaml") = h
<1> DEFINE S == Setting(t, i, "yaml")
<1>1. /\ h \in 1..Len(t) /\ t[h] \in Lines /\ t[h].value # None
  <2>1. h \in 1..Len(t) /\ t[h] \in Lines
    BY OpenTyped, LineTyped
  <2> QED
    BY <2>1, BareAssumption
<1>2. h \in LinesOf(t, i)
  BY OpenOwner DEF OpenItem
<1>3. h \in S
  BY <1>1, <1>2 DEF Setting, Sets
<1>4. S \subseteq Outside(t) /\ S \subseteq 1..Len(t)
  <2>1. LinesOf(t, i) \subseteq 1..Len(t) /\ LinesOf(t, i) \subseteq Outside(t)
        /\ S \subseteq LinesOf(t, i)
    BY LinesOfTyped
  <2> QED
    BY <2>1
<1> HIDE DEF S
<1>5. S \subseteq Nat /\ \A k \in S : k <= h
  BY <1>4, OpenIsLast
<1>6. Newest(S) = h
  BY <1>3, <1>5, NewestIs
<1>7. LastSetting(t, i, "yaml") = IF S = {} THEN 0 ELSE Newest(S)
  BY LastSettingIs DEF S
<1> QED
  BY <1>3, <1>6, <1>7

LEMMA FailsKept ==
    ASSUME NEW t, NEW line, NEW u, Extends(t, line, u), NEW i \in Items(t),
           Len(t) + 1 \in Inside(u) \/ ~OpenItem(u, i) \/ ~Sets(line, "fail")
    PROVE  FailsOf(u, i) = FailsOf(t, i)
<1> DEFINE j == LastSetting(t, i, "fail")
<1>1. LastSetting(u, i, "fail") = j
  BY SettingKept
<1>2. j = 0 \/ (j \in 1..Len(t) /\ u[j] = t[j])
  <2>1. t \in Seq(Lines)
    BY DEF Extends
  <2>2. j = 0 \/ j \in Setting(t, i, "fail")
    BY <2>1, LastSettingTyped
  <2>3. Setting(t, i, "fail") \subseteq 1..Len(t)
    BY <2>1, LinesOfTyped
  <2> QED
    BY <2>2, <2>3 DEF Extends
<1> QED
  BY <1>1, <1>2 DEF FailsOf

LEMMA FailsNew ==
    ASSUME NEW t, NEW line, NEW u, Extends(t, line, u), NEW i, OpenItem(u, i),
           Len(t) + 1 \notin Inside(u), Sets(line, "fail")
    PROVE  FailsOf(u, i) = (line.value = "true")
<1>1. LastSetting(u, i, "fail") = Len(t) + 1
  BY SettingNew
<1>2. u[Len(t) + 1] = line /\ Len(t) + 1 # 0
  BY DEF Extends
<1> QED
  BY <1>1, <1>2 DEF FailsOf

LEMMA YamlKept ==
    ASSUME NEW t, NEW line, NEW u, Extends(t, line, u), NEW i \in Items(t),
           Len(t) + 1 \in Inside(u) \/ ~OpenItem(u, i) \/ ~Sets(line, "yaml"),
           LastSetting(t, i, "yaml") # 0 =>
              ~OpenBlock(u, LastSetting(t, i, "yaml"))
    PROVE  YamlOf(u, i) = YamlOf(t, i)
<1> DEFINE j == LastSetting(t, i, "yaml")
<1>1. LastSetting(u, i, "yaml") = j
  BY SettingKept
<1>2. t \in Seq(Lines) /\ Len(u) = Len(t) + 1
  BY DEF Extends
<1>3. j = 0 \/ (j \in 1..Len(t) /\ u[j] = t[j] /\ j \in Outside(t) /\ t[j].key = "yaml")
  <2>1. j = 0 \/ j \in Setting(t, i, "yaml")
    BY <1>2, LastSettingTyped
  <2>2. Setting(t, i, "yaml") \subseteq 1..Len(t) /\ Setting(t, i, "yaml") \subseteq Outside(t)
    BY <1>2, LinesOfTyped
  <2>3. j \in Setting(t, i, "yaml") => t[j].key = "yaml"
    BY DEF Setting, Sets
  <2> QED
    BY <2>1, <2>2, <2>3 DEF Extends
<1>4. ASSUME j # 0, t[j].value = Header PROVE Body(u, j) = Body(t, j)
  <2>1. IsHeader(u[j]) /\ j \in Outside(u) /\ j \in 1..Len(t)
    BY <1>3, <1>4, InsideKept DEF IsHeader
  <2>2. ~Reaches(u, j, Len(t) + 1)
    BY <1>2, <1>4, <2>1 DEF OpenBlock
  <2> QED
    BY <2>1, <2>2, BodyKept
<1>5. TextAt(u, j) = TextAt(t, j)
  BY <1>3, <1>4 DEF TextAt
<1> QED
  BY <1>1, <1>5, YamlIs

LEMMA YamlNew ==
    ASSUME NEW t, NEW line, NEW u, Extends(t, line, u), NEW i, OpenItem(u, i),
           Len(t) + 1 \notin Inside(u), Sets(line, "yaml")
    PROVE  YamlOf(u, i) = IF line.value = Header THEN <<>> ELSE <<line.value>>
<1> DEFINE m == Len(t) + 1
<1>1. LastSetting(u, i, "yaml") = m
  BY SettingNew
<1>2. u[m] = line /\ m # 0 /\ m \in Nat /\ u \in Seq(Lines) /\ Len(u) = m /\ m \in 0..Len(u)
  BY DEF Extends
<1>3. Body(u, m) = <<>>
  <2>1. Reaches(u, m, Len(u))
    BY <1>2 DEF Reaches
  <2>2. Body(u, m) = [k \in 1 .. Len(u) - m |-> Piece(u, m, k)]
    BY <1>2, <2>1, OpenBody
  <2>3. Len(u) - m = 0
    BY <1>2
  <2>4. IsList(Body(u, m), 0)
    BY <2>2, <2>3 DEF IsList
  <2> QED
    BY <2>4, EmptyList
<1> HIDE DEF m
<1>4. TextAt(u, m) = IF line.value = Header THEN <<>> ELSE <<line.value>>
  BY <1>2, <1>3 DEF TextAt
<1> QED
  BY <1>1, <1>4, YamlIs

\* A line of a block scalar is a line of the open item's text, if the block
\* scalar is its yaml field, and of no other.
LEMMA YamlGrown ==
    ASSUME NEW t, NEW line, NEW u, Extends(t, line, u), NEW h, OpenBlock(t, h),
           OpenBlock(u, h), Len(t) + 1 \in Inside(u), NEW i \in Items(t)
    PROVE  YamlOf(u, i) = IF OpenItem(t, i) /\ t[h].key = "yaml"
                          THEN Append(YamlOf(t, i), Content(line, Width(u, h)))
                          ELSE YamlOf(t, i)
<1>1. /\ t \in Seq(Lines) /\ u \in Seq(Lines) /\ Len(u) = Len(t) + 1
      /\ \A k \in 1..Len(t) : u[k] = t[k]
  BY DEF Extends
<1>2. h \in 1..Len(t) /\ t[h].value = Header /\ h # 0 /\ u[h] = t[h]
  BY <1>1, OpenTyped
<1> DEFINE j == LastSetting(t, i, "yaml")
<1>3. CASE OpenItem(t, i) /\ t[h].key = "yaml"
  <2>1. j = h /\ LastSetting(u, i, "yaml") = h
    BY <1>1, <1>3, OpenIsSetting, SettingKept
  <2>2. Body(u, h) = Append(Body(t, h), Content(line, Width(u, h)))
    BY <1>1, <1>2, BodyGrown DEF OpenBlock
  <2>3. TextAt(u, h) = Body(u, h) /\ TextAt(t, h) = Body(t, h)
    BY <1>2 DEF TextAt
  <2> QED
    BY <1>3, <2>1, <2>2, <2>3, YamlIs
<1>4. CASE ~(OpenItem(t, i) /\ t[h].key = "yaml")
  <2>1. j # h
    <3>1. j = 0 \/ j \in Setting(t, i, "yaml")
      BY <1>1, LastSettingTyped
    <3>2. j \in Setting(t, i, "yaml") => j \in LinesOf(t, i) /\ t[j].key = "yaml"
      BY DEF Setting, Sets
    <3>3. h \in LinesOf(t, i) <=> OpenItem(t, i)
      BY <1>1, OpenOwner
    <3> QED
      BY <1>2, <1>4, <3>1, <3>2, <3>3
  <2>2. ~OpenBlock(u, j)
    BY <1>1, <2>1, OpenIsOne
  <2>3. YamlOf(u, i) = YamlOf(t, i)
    BY <2>2, YamlKept
  <2> QED
    BY <1>4, <2>3
<1> QED
  BY <1>3, <1>4

\* The item that the new line starts says nothing but what that line says.
LEMMA SaysStarted ==
    ASSUME NEW t, NEW line, NEW u, Extends(t, line, u), Len(t) + 1 \in Items(u)
    PROVE  /\ ~Sets(line, "yaml") => YamlOf(u, Len(t) + 1) = <<>>
           /\ ~Sets(line, "fail") => FailsOf(u, Len(t) + 1) = FALSE
<1>1. ASSUME ~Sets(line, "yaml") PROVE YamlOf(u, Len(t) + 1) = <<>>
  <2>1. LastSetting(u, Len(t) + 1, "yaml") = 0
    BY <1>1, SettingStarted
  <2> QED
    BY <2>1, YamlIs DEF TextAt
<1>2. ASSUME ~Sets(line, "fail") PROVE FailsOf(u, Len(t) + 1) = FALSE
  <2>1. LastSetting(u, Len(t) + 1, "fail") = 0
    BY <1>2, SettingStarted
  <2> QED
    BY <2>1 DEF FailsOf
<1> QED
  BY <1>1, <1>2

----------------------------------------------------------------------------
(* The cases, when a line is added.                                        *)

LEMMA SaysKept ==
    ASSUME NEW t, NEW line, NEW u, Extends(t, line, u), NEW i \in Items(t), NEW c,
           Says(t, c, i), ~OpenItem(u, i), Len(t) + 1 \notin Inside(u)
    PROVE  Says(u, c, i)
<1>1. t \in Seq(Lines)
  BY DEF Extends
<1>2. i \in 1..Len(t)
  BY <1>1, ItemsAreLines
<1>3. Rank(u, i) = Rank(t, i)
  BY <1>2, ItemsCounted
<1>4. FailsOf(u, i) = FailsOf(t, i)
  BY FailsKept
<1>5. YamlOf(u, i) = YamlOf(t, i)
  <2> DEFINE j == LastSetting(t, i, "yaml")
  <2>1. j = 0 \/ j \in 1..Len(t)
    <3>1. j = 0 \/ j \in Setting(t, i, "yaml")
      BY <1>1, LastSettingTyped
    <3>2. Setting(t, i, "yaml") \subseteq 1..Len(t)
      BY <1>1, LinesOfTyped
    <3> QED
      BY <3>1, <3>2
  <2>2. j # 0 => ~OpenBlock(u, j)
    BY <2>1, BlockEnds
  <2> QED
    BY <2>2, YamlKept
<1> QED
  BY <1>3, <1>4, <1>5 DEF Says

\* What a line makes of the text and of the verdict.
YamlAfter(yaml, line) ==
    IF Sets(line, "yaml") THEN IF line.value = Header THEN <<>> ELSE <<line.value>> ELSE yaml

FailAfter(fails, line) == IF Sets(line, "fail") THEN line.value = "true" ELSE fails

LEMMA SaysNew ==
    ASSUME NEW t, NEW line, NEW u, Extends(t, line, u), NEW i \in Items(t), NEW c, NEW d,
           Says(t, c, i), OpenItem(u, i), Len(t) + 1 \notin Inside(u),
           d.yaml = YamlAfter(c.yaml, line), d.variant = c.variant,
           d.expect_fail = FailAfter(c.expect_fail, line)
    PROVE  Says(u, d, i)
<1>1. t \in Seq(Lines)
  BY DEF Extends
<1>2. i \in 1..Len(t)
  BY <1>1, ItemsAreLines
<1>3. Rank(u, i) = Rank(t, i)
  BY <1>2, ItemsCounted
<1>4. FailsOf(u, i) = FailAfter(FailsOf(t, i), line)
  BY FailsKept, FailsNew DEF FailAfter
<1>5. YamlOf(u, i) = YamlAfter(YamlOf(t, i), line)
  <2> DEFINE j == LastSetting(t, i, "yaml")
  <2>1. j = 0 \/ j \in 1..Len(t)
    <3>1. j = 0 \/ j \in Setting(t, i, "yaml")
      BY <1>1, LastSettingTyped
    <3>2. Setting(t, i, "yaml") \subseteq 1..Len(t)
      BY <1>1, LinesOfTyped
    <3> QED
      BY <3>1, <3>2
  <2>2. j # 0 => ~OpenBlock(u, j)
    BY <2>1, BlockEnds
  <2>3. ~Sets(line, "yaml") => YamlOf(u, i) = YamlOf(t, i)
    BY <2>2, YamlKept
  <2>4. Sets(line, "yaml") =>
           YamlOf(u, i) = IF line.value = Header THEN <<>> ELSE <<line.value>>
    BY YamlNew
  <2> QED
    BY <2>3, <2>4 DEF YamlAfter
<1> QED
  BY <1>3, <1>4, <1>5 DEF Says

\* A line of a block scalar.
LEMMA ItemsGrown ==
    ASSUME NEW t, NEW line, NEW u, Extends(t, line, u), NEW cs, NEW c, NEW d,
           NEW open, ItemsAre(t, cs, c, open), Len(t) + 1 \in Inside(u),
           NEW h, OpenBlock(t, h), OpenBlock(u, h),
           d.variant = c.variant, d.expect_fail = c.expect_fail,
           d.yaml = IF t[h].key = "yaml" THEN Append(c.yaml, Content(line, Width(u, h)))
                    ELSE c.yaml
    PROVE  ItemsAre(u, cs, d, open)
<1>1. t \in Seq(Lines)
  BY DEF Extends
<1>2. Len(t) + 1 \notin Items(u)
  BY ItemsNew
<1>3. Items(u) = Items(t) /\ \A i \in Items(t) : i \in 1..Len(t)
  BY <1>1, <1>2, ItemsNew, ItemsAreLines
<1>4. Cardinality(Items(u)) = Cardinality(Items(t))
  BY <1>3
<1>5. \A i \in Items(t) : Rank(u, i) = Rank(t, i)
  BY <1>3, ItemsCounted
<1>6. \A i \in Items(t) : OpenItem(u, i) <=> OpenItem(t, i)
  BY <1>3, OpenItemNew
<1>7. \A i \in Items(t) : FailsOf(u, i) = FailsOf(t, i)
  BY FailsKept
<1>8. \A i : (OpenItem(u, i) => i \in Items(t)) /\ (OpenItem(t, i) => i \in Items(t))
  BY <1>3 DEF OpenItem
<1>9. ASSUME NEW i \in Items(t), OpenItem(t, i) PROVE Says(u, d, i)
  <2>1. Says(t, c, i)
    BY <1>9 DEF ItemsAre
  <2>2. YamlOf(u, i) = IF t[h].key = "yaml"
                       THEN Append(YamlOf(t, i), Content(line, Width(u, h)))
                       ELSE YamlOf(t, i)
    BY <1>9, YamlGrown
  <2> QED
    BY <1>5, <1>7, <2>1, <2>2 DEF Says
<1>10. ASSUME NEW i \in Items(t), ~OpenItem(t, i), NEW x, Says(t, x, i) PROVE Says(u, x, i)
  <2>1. YamlOf(u, i) = YamlOf(t, i)
    BY <1>10, YamlGrown
  <2> QED
    BY <1>5, <1>7, <1>10, <2>1 DEF Says
<1>11. Len(cs) + (IF open THEN 1 ELSE 0) = Cardinality(Items(u))
  BY <1>4 DEF ItemsAre
<1>12. open => \E i : OpenItem(u, i)
  BY <1>6, <1>8 DEF ItemsAre
<1>13. \A i : OpenItem(u, i) => open /\ Rank(u, i) = Len(cs) + 1 /\ Says(u, d, i)
  BY <1>5, <1>6, <1>8, <1>9 DEF ItemsAre
<1>14. \A i \in Items(u) : ~OpenItem(u, i) =>
          Rank(u, i) \in 1..Len(cs) /\ Says(u, cs[Rank(u, i)], i)
  BY <1>3, <1>5, <1>6, <1>10 DEF ItemsAre
<1> QED
  BY <1>11, <1>12, <1>13, <1>14 DEF ItemsAre

\* A line of fields.
LEMMA ItemsFielded ==
    ASSUME NEW t, NEW line, NEW u, Extends(t, line, u), NEW cs, NEW c, NEW d,
           NEW open, ItemsAre(t, cs, c, open), Len(t) + 1 \notin Inside(u), ~Final(line),
           d.yaml = YamlAfter(c.yaml, line), d.variant = c.variant,
           d.expect_fail = FailAfter(c.expect_fail, line)
    PROVE  ItemsAre(u, cs, d, open)
<1>1. t \in Seq(Lines)
  BY DEF Extends
<1>2. Len(t) + 1 \notin Items(u)
  BY ItemsNew DEF Final
<1>3. Items(u) = Items(t) /\ \A i \in Items(t) : i \in 1..Len(t)
  BY <1>1, <1>2, ItemsNew, ItemsAreLines
<1>4. Cardinality(Items(u)) = Cardinality(Items(t))
  BY <1>3
<1>5. \A i \in Items(t) : Rank(u, i) = Rank(t, i)
  BY <1>3, ItemsCounted
<1>6. \A i \in Items(t) : OpenItem(u, i) <=> OpenItem(t, i)
  BY <1>3, OpenItemNew
<1>8. \A i : (OpenItem(u, i) => i \in Items(t)) /\ (OpenItem(t, i) => i \in Items(t))
  BY <1>3 DEF OpenItem
<1>9. ASSUME NEW i \in Items(t), OpenItem(t, i) PROVE Says(u, d, i)
  <2>1. Says(t, c, i) /\ OpenItem(u, i)
    BY <1>6, <1>9 DEF ItemsAre
  <2> QED
    BY <2>1, SaysNew
<1>10. ASSUME NEW i \in Items(t), ~OpenItem(t, i), NEW x, Says(t, x, i) PROVE Says(u, x, i)
  BY <1>6, <1>10, SaysKept
<1>11. Len(cs) + (IF open THEN 1 ELSE 0) = Cardinality(Items(u))
  BY <1>4 DEF ItemsAre
<1>12. open => \E i : OpenItem(u, i)
  BY <1>6, <1>8 DEF ItemsAre
<1>13. \A i : OpenItem(u, i) => open /\ Rank(u, i) = Len(cs) + 1 /\ Says(u, d, i)
  BY <1>5, <1>6, <1>8, <1>9 DEF ItemsAre
<1>14. \A i \in Items(u) : ~OpenItem(u, i) =>
          Rank(u, i) \in 1..Len(cs) /\ Says(u, cs[Rank(u, i)], i)
  BY <1>3, <1>5, <1>6, <1>10 DEF ItemsAre
<1> QED
  BY <1>11, <1>12, <1>13, <1>14 DEF ItemsAre

Closing(cs, c, open) == IF open THEN Append(cs, c) ELSE cs

LEMMA ClosingIs ==
    ASSUME NEW cs \in Seq(Cases), NEW c \in Cases, NEW open \in BOOLEAN
    PROVE  /\ Len(Closing(cs, c, open)) = Len(cs) + (IF open THEN 1 ELSE 0)
           /\ \A k \in 1..Len(cs) : Closing(cs, c, open)[k] = cs[k]
           /\ open => Closing(cs, c, open)[Len(cs) + 1] = c
<1>1. /\ Len(Append(cs, c)) = Len(cs) + 1 /\ Append(cs, c)[Len(cs) + 1] = c
      /\ \A k \in 1..Len(cs) : Append(cs, c)[k] = cs[k]
  OBVIOUS
<1>2. Len(cs) \in Nat
  OBVIOUS
<1> DEFINE a == Append(cs, c)
<1> HIDE DEF a
<1>3. Closing(cs, c, open) = IF open THEN a ELSE cs
  BY DEF Closing, a
<1>4. /\ Len(a) = Len(cs) + 1 /\ a[Len(cs) + 1] = c
      /\ \A k \in 1..Len(cs) : a[k] = cs[k]
  BY <1>1 DEF a
<1> QED
  BY <1>2, <1>3, <1>4

\* All items that are in the text are cases.
AllClosed(t, cs, u) ==
    /\ Len(cs) = Cardinality(Items(t))
    /\ \A i \in Items(t) : Rank(u, i) \in 1..Len(cs) /\ Says(u, cs[Rank(u, i)], i)

LEMMA NowClosed ==
    ASSUME NEW t \in Seq(Lines), NEW cs \in Seq(Cases), NEW c \in Cases,
           NEW open \in BOOLEAN, ItemsAre(t, cs, c, open)
    PROVE  AllClosed(t, Closing(cs, c, open), t)
<1> DEFINE fin == Closing(cs, c, open)
<1>1. /\ Len(fin) = Len(cs) + (IF open THEN 1 ELSE 0) /\ Len(cs) \in Nat
      /\ \A k \in 1..Len(cs) : fin[k] = cs[k]
      /\ open => fin[Len(cs) + 1] = c
  BY ClosingIs
<1> HIDE DEF fin
<1>2. Len(fin) = Cardinality(Items(t))
  BY <1>1 DEF ItemsAre
<1>3. ASSUME NEW i \in Items(t), OpenItem(t, i)
      PROVE  Rank(t, i) \in 1..Len(fin) /\ Says(t, fin[Rank(t, i)], i)
  <2>1. open /\ Rank(t, i) = Len(cs) + 1 /\ Says(t, c, i)
    BY <1>3 DEF ItemsAre
  <2> QED
    BY <1>1, <2>1
<1>4. ASSUME NEW i \in Items(t), ~OpenItem(t, i)
      PROVE  Rank(t, i) \in 1..Len(fin) /\ Says(t, fin[Rank(t, i)], i)
  <2>1. Rank(t, i) \in 1..Len(cs) /\ Says(t, cs[Rank(t, i)], i)
    BY <1>4 DEF ItemsAre
  <2>2. Rank(t, i) \in 1..Len(fin) /\ fin[Rank(t, i)] = cs[Rank(t, i)]
    BY <1>1, <2>1
  <2> QED
    BY <2>1, <2>2
<1>5. AllClosed(t, fin, t)
  BY <1>2, <1>3, <1>4 DEF AllClosed
<1> QED
  BY <1>5 DEF fin

LEMMA StayClosed ==
    ASSUME NEW t, NEW line, NEW u, Extends(t, line, u), NEW cs, AllClosed(t, cs, t),
           Len(t) + 1 \notin Inside(u), Final(line)
    PROVE  /\ AllClosed(t, cs, u)
           /\ \A i \in Items(t) : ~OpenItem(u, i) /\ i \in 1..Len(t)
<1>1. t \in Seq(Lines)
  BY DEF Extends
<1>2. \A i \in Items(t) : i \in 1..Len(t)
  BY <1>1, ItemsAreLines
<1>3. \A i \in Items(t) : ~OpenItem(u, i)
  BY <1>2, OpenItemNew
<1>4. \A i \in Items(t) : Rank(u, i) = Rank(t, i)
  BY <1>2, ItemsCounted
<1>5. ASSUME NEW i \in Items(t)
      PROVE  Rank(u, i) \in 1..Len(cs) /\ Says(u, cs[Rank(u, i)], i)
  <2>1. Rank(t, i) \in 1..Len(cs) /\ Says(t, cs[Rank(t, i)], i)
    BY DEF AllClosed
  <2>2. Says(u, cs[Rank(t, i)], i)
    BY <1>3, <2>1, SaysKept
  <2> QED
    BY <1>4, <2>1, <2>2
<1> QED
  BY <1>2, <1>3, <1>5 DEF AllClosed

\* A separator.
LEMMA ItemsSeparated ==
    ASSUME NEW t, NEW line, NEW u, Extends(t, line, u), NEW cs, AllClosed(t, cs, t),
           Len(cs) \in Nat, NEW d, Len(t) + 1 \notin Inside(u), Final(line), ~line.item
    PROVE  ItemsAre(u, cs, d, FALSE)
<1>1. Len(t) + 1 \notin Items(u)
  BY ItemsNew
<1>2. Items(u) = Items(t)
  BY <1>1, ItemsNew
<1>3. AllClosed(t, cs, u) /\ \A i \in Items(t) : ~OpenItem(u, i)
  BY StayClosed
<1>4. \A i : ~OpenItem(u, i)
  BY <1>2, <1>3 DEF OpenItem
<1>5. Len(cs) + 0 = Cardinality(Items(u))
  BY <1>2, <1>3 DEF AllClosed
<1> QED
  BY <1>2, <1>3, <1>4, <1>5 DEF ItemsAre, AllClosed

\* A line that starts an item.
LEMMA ItemsStarted ==
    ASSUME NEW t, NEW line, NEW u, Extends(t, line, u), NEW cs, AllClosed(t, cs, t),
           Len(cs) \in Nat, NEW d, Len(t) + 1 \notin Inside(u), line.item,
           d.yaml = YamlAfter(<<>>, line), d.expect_fail = FailAfter(FALSE, line),
           d.variant = Len(cs)
    PROVE  ItemsAre(u, cs, d, TRUE)
<1> DEFINE m == Len(t) + 1
<1>1. m \in Items(u) /\ Items(u) = Items(t) \cup {m} /\ OpenItem(u, m) /\ Final(line)
  BY ItemsNew, OpenItemNew DEF Final
<1>2. AllClosed(t, cs, u) /\ \A i \in Items(t) : ~OpenItem(u, i)
  BY <1>1, StayClosed
<1>3. /\ Cardinality(Items(u)) = Cardinality(Items(t)) + 1
      /\ Rank(u, m) = Cardinality(Items(t)) + 1
  BY <1>1, ItemsCounted
<1>4. Len(cs) = Cardinality(Items(t))
  BY DEF AllClosed
<1>5. YamlOf(u, m) = YamlAfter(<<>>, line)
  BY <1>1, YamlNew, SaysStarted DEF YamlAfter
<1>6. FailsOf(u, m) = FailAfter(FALSE, line)
  BY <1>1, FailsNew, SaysStarted DEF FailAfter
<1> HIDE DEF m
<1>7. Says(u, d, m)
  BY <1>3, <1>4, <1>5, <1>6 DEF Says
<1>8. \A i : OpenItem(u, i) => i = m
  BY <1>1, <1>2 DEF OpenItem
<1>9. \A i \in Items(u) : ~OpenItem(u, i) => i \in Items(t)
  BY <1>1
<1>10. Len(cs) + 1 = Cardinality(Items(u)) /\ Rank(u, m) = Len(cs) + 1
  BY <1>3, <1>4
<1>11. \A i : OpenItem(u, i) => Rank(u, i) = Len(cs) + 1 /\ Says(u, d, i)
  BY <1>7, <1>8, <1>10
<1>12. \A i \in Items(u) : ~OpenItem(u, i) =>
          Rank(u, i) \in 1..Len(cs) /\ Says(u, cs[Rank(u, i)], i)
  BY <1>2, <1>9 DEF AllClosed
<1> QED
  BY <1>1, <1>10, <1>11, <1>12 DEF ItemsAre

----------------------------------------------------------------------------
(* The steps of the parser.                                                *)

LEMMA FieldSays ==
    ASSUME NEW c \in Cases, NEW line \in Lines
    PROVE  /\ WithField(c, line.key, line.value).yaml = YamlAfter(c.yaml, line)
           /\ WithField(c, line.key, line.value).expect_fail = FailAfter(c.expect_fail, line)
           /\ WithField(c, line.key, line.value).variant = c.variant
<1> DEFINE key == line.key
           value == line.value
           d == WithField(c, key, value)
<1>1. CASE key = "tags" /\ value # None
  <2>1. d = [c EXCEPT !.tags = value]
    BY <1>1 DEF WithField
  <2>2. d.yaml = c.yaml /\ d.expect_fail = c.expect_fail /\ d.variant = c.variant
    BY <2>1 DEF Cases
  <2> QED
    BY <1>1, <2>2 DEF YamlAfter, FailAfter, Sets
<1>2. CASE key = "fail" /\ value # None
  <2>1. d = [c EXCEPT !.expect_fail = (value = "true")]
    BY <1>2 DEF WithField
  <2>2. d.yaml = c.yaml /\ d.expect_fail = (value = "true") /\ d.variant = c.variant
    BY <2>1 DEF Cases
  <2> QED
    BY <1>2, <2>2 DEF YamlAfter, FailAfter, Sets
<1>3. CASE key = "yaml" /\ value # None
  <2> DEFINE y == IF value = Header THEN <<>> ELSE <<value>>
  <2>1. d = [c EXCEPT !.yaml = y]
    BY <1>3 DEF WithField
  <2>2. YamlAfter(c.yaml, line) = y
    BY <1>3 DEF YamlAfter, Sets
  <2> HIDE DEF y
  <2>3. d.yaml = y /\ d.expect_fail = c.expect_fail /\ d.variant = c.variant
    BY <2>1 DEF Cases
  <2> QED
    BY <1>3, <2>2, <2>3 DEF FailAfter, Sets
<1>4. CASE key = "tree" /\ value # None
  <2> DEFINE y == IF value = Header THEN <<>> ELSE <<value>>
  <2>1. d = [c EXCEPT !.tree = y]
    BY <1>4 DEF WithField
  <2> HIDE DEF y
  <2>2. d.yaml = c.yaml /\ d.expect_fail = c.expect_fail /\ d.variant = c.variant
    BY <2>1 DEF Cases
  <2> QED
    BY <1>4, <2>2 DEF YamlAfter, FailAfter, Sets
<1>5. CASE value = None \/ key \notin {"tags", "fail", "yaml", "tree"}
  <2>1. d = c
    BY <1>5 DEF WithField
  <2> QED
    BY <1>5, <2>1 DEF YamlAfter, FailAfter, Sets
<1> QED
  BY <1>1, <1>2, <1>3, <1>4, <1>5

LEMMA PieceSays ==
    ASSUME NEW c \in Cases, NEW piece, NEW key \in {"yaml", "tree"}
    PROVE  /\ [c EXCEPT ![key] = Append(@, piece)].variant = c.variant
           /\ [c EXCEPT ![key] = Append(@, piece)].expect_fail = c.expect_fail
           /\ [c EXCEPT ![key] = Append(@, piece)].yaml =
                 IF key = "yaml" THEN Append(c.yaml, piece) ELSE c.yaml
<1>1. c.yaml = c["yaml"] /\ c.tree = c["tree"]
  OBVIOUS
<1>2. CASE key = "yaml"
  <2> DEFINE y == Append(c.yaml, piece)
             d == [c EXCEPT !.yaml = y]
  <2>1. [c EXCEPT ![key] = Append(@, piece)] = d
    BY <1>2
  <2> HIDE DEF y
  <2>2. d.variant = c.variant /\ d.expect_fail = c.expect_fail /\ d.yaml = y
    BY DEF Cases
  <2> QED
    BY <1>2, <2>1, <2>2 DEF y
<1>3. CASE key = "tree"
  <2> DEFINE y == Append(c.tree, piece)
             d == [c EXCEPT !.tree = y]
  <2>1. [c EXCEPT ![key] = Append(@, piece)] = d
    BY <1>3
  <2> HIDE DEF y
  <2>2. d.variant = c.variant /\ d.expect_fail = c.expect_fail /\ d.yaml = c.yaml
    BY DEF Cases
  <2> QED
    BY <1>3, <2>1, <2>2
<1> QED
  BY <1>2, <1>3

LEMMA ContinuesIs ==
    ASSUME NEW line
    PROVE  Continues(line) <=> InBlockFor(current_field, block_indent, line)
BY Zenon DEF Continues, InBlock, InBlockFor, IsBlank

LEMMA OpenedIs ==
    ASSUME NEW line
    PROVE  Opened(line) = IF IsHeader(line) THEN line.key ELSE "none"
BY DEF Opened, IsHeader

\* What is known before a line when what follows is not ragged after it.
LEMMA LineRead ==
    ASSUME CasesInv, NEW line \in Lines, Read(line)
    PROVE  /\ Extends(text, line, text')
           /\ text' \in Seq(Lines)
           /\ NoRaggedStart(text') =>
                 /\ BlockIs(text, current_field, block_indent)
                 /\ ItemsAre(text, cases, current, in_item)
                 /\ Continues(line) <=> Len(text) + 1 \in Inside(text')
<1>1. text' = Append(text, line)
  BY DEF Read
<1>2. Extends(text, line, text')
  BY <1>1, AppendExtends DEF CasesInv
<1>3. text' \in Seq(Lines)
  BY <1>2 DEF Extends
<1>4. ASSUME NoRaggedStart(text')
      PROVE  /\ BlockIs(text, current_field, block_indent)
             /\ ItemsAre(text, cases, current, in_item)
             /\ Continues(line) <=> Len(text) + 1 \in Inside(text')
  <2>1. NoRaggedStart(text)
    BY <1>2, <1>4, NoRaggedKept
  <2>2. /\ BlockIs(text, current_field, block_indent)
        /\ ItemsAre(text, cases, current, in_item)
    BY <2>1 DEF CasesInv
  <2>3. Continues(line) <=> Len(text) + 1 \in Inside(text')
    BY <1>2, <2>2, BlockTest, ContinuesIs
  <2> QED
    BY <2>2, <2>3
<1> QED
  BY <1>2, <1>3, <1>4

LEMMA BlockLineCases ==
    ASSUME CasesInv, NEW line \in Lines, BlockLine(line)
    PROVE  NoRaggedStart(text') =>
              /\ BlockIs(text', current_field', block_indent')
              /\ ItemsAre(text', cases', current', in_item')
<1> SUFFICES ASSUME NoRaggedStart(text')
             PROVE  /\ BlockIs(text', current_field', block_indent')
                    /\ ItemsAre(text', cases', current', in_item')
  OBVIOUS
<1> DEFINE now == Column(block_indent, line)
           piece == IF line.key = "" THEN [key |-> ""]
                    ELSE [line EXCEPT !.indent = @ - block_indent']
<1>1. Read(line) /\ Continues(line)
  BY DEF BlockLine
<1>2. /\ UNCHANGED <<cases, in_item, current_field>> /\ block_indent' = now
      /\ current' = IF current_field = "other" THEN current
                    ELSE [current EXCEPT ![current_field] = Append(@, piece)]
  BY Zenon DEF BlockLine, Column
<1>3. piece = Content(line, now)
  BY <1>2, Zenon DEF Content, IsBlank, Blank
<1>4. /\ Extends(text, line, text')
      /\ BlockIs(text, current_field, block_indent)
      /\ ItemsAre(text, cases, current, in_item)
      /\ Len(text) + 1 \in Inside(text')
  BY <1>1, LineRead
<1>5. BlockIs(text', current_field, now)
  BY <1>4, BlockGoesOn
<1>g. PICK h : GoesOn(text, line, text', h, current_field, now)
  BY <1>4, BlockGoesOn
<1>6. /\ OpenBlock(text, h) /\ OpenBlock(text', h) /\ current_field = text[h].key
      /\ ~IsBlank(line) => Width(text', h) = now
  BY <1>g DEF GoesOn
<1> HIDE DEF now, piece
<1>7. piece = Content(line, Width(text', h))
  BY <1>3, <1>6 DEF Content
<1>8. current \in Cases /\ current_field \in {"yaml", "tree", "other"}
  <2>1. text \in Seq(Lines)
    BY DEF CasesInv
  <2>2. text[h].key \in {"yaml", "tree", "other"}
    BY <1>6, <2>1, OpenTyped
  <2> QED
    BY <1>6, <2>2 DEF CasesInv, ParseInv
<1>9. /\ current'.variant = current.variant /\ current'.expect_fail = current.expect_fail
      /\ current'.yaml = IF text[h].key = "yaml" THEN Append(current.yaml, piece)
                         ELSE current.yaml
  <2>1. CASE current_field = "other"
    BY <1>2, <1>6, <2>1
  <2>2. CASE current_field \in {"yaml", "tree"}
    <3>1. current' = [current EXCEPT ![current_field] = Append(@, piece)]
      BY <1>2, <2>2
    <3> QED
      BY <1>6, <1>8, <2>2, <3>1, PieceSays
  <2> QED
    BY <1>8, <2>1, <2>2
<1>10. ItemsAre(text', cases, current', in_item)
  BY <1>4, <1>6, <1>7, <1>9, ItemsGrown
<1> QED
  BY <1>2, <1>5, <1>10

LEMMA FieldLineCases ==
    ASSUME CasesInv, NEW line \in Lines, FieldLine(line)
    PROVE  NoRaggedStart(text') =>
              /\ BlockIs(text', current_field', block_indent')
              /\ ItemsAre(text', cases', current', in_item')
<1> SUFFICES ASSUME NoRaggedStart(text')
             PROVE  /\ BlockIs(text', current_field', block_indent')
                    /\ ItemsAre(text', cases', current', in_item')
  OBVIOUS
<1>1. /\ Read(line) /\ ~Continues(line) /\ UNCHANGED <<cases, in_item>>
      /\ current' = WithField(current, line.key, line.value)
      /\ current_field' = Opened(line) /\ block_indent' = 0 /\ ~Final(line)
  BY DEF FieldLine, Final
<1>2. /\ Extends(text, line, text')
      /\ ItemsAre(text, cases, current, in_item)
      /\ Len(text) + 1 \notin Inside(text')
  BY <1>1, LineRead
<1>3. BlockIs(text', Opened(line), 0)
  BY <1>2, BlockEnds, OpenedIs
<1>4. current \in Cases
  BY DEF CasesInv, ParseInv
<1>5. /\ current'.yaml = YamlAfter(current.yaml, line)
      /\ current'.expect_fail = FailAfter(current.expect_fail, line)
      /\ current'.variant = current.variant
  BY <1>1, <1>4, FieldSays
<1>6. ItemsAre(text', cases, current', in_item)
  BY <1>1, <1>2, <1>5, ItemsFielded
<1> QED
  BY <1>1, <1>3, <1>6

LEMMA FinalizedClosed ==
    ASSUME CasesInv, ItemsAre(text, cases, current, in_item)
    PROVE  AllClosed(text, Finalized, text) /\ Len(Finalized) \in Nat
<1>1. Finalized = Closing(cases, current, in_item)
  BY DEF Finalized, Closing
<1>2. AllClosed(text, Closing(cases, current, in_item), text)
  BY NowClosed DEF CasesInv, ParseInv
<1>3. Finalized \in Seq(Cases)
  BY FinalizedCases DEF CasesInv
<1> QED
  BY <1>1, <1>2, <1>3

LEMMA SeparatorLineCases ==
    ASSUME CasesInv, NEW line \in Lines, SeparatorLine(line)
    PROVE  NoRaggedStart(text') =>
              /\ BlockIs(text', current_field', block_indent')
              /\ ItemsAre(text', cases', current', in_item')
<1> SUFFICES ASSUME NoRaggedStart(text')
             PROVE  /\ BlockIs(text', current_field', block_indent')
                    /\ ItemsAre(text', cases', current', in_item')
  OBVIOUS
<1>1. /\ Read(line) /\ ~Continues(line) /\ cases' = Finalized /\ in_item' = FALSE
      /\ current_field' = "none" /\ block_indent' = 0
      /\ Final(line) /\ ~line.item /\ ~IsHeader(line)
  BY DEF SeparatorLine, Final, IsHeader
<1>2. /\ Extends(text, line, text')
      /\ ItemsAre(text, cases, current, in_item)
      /\ Len(text) + 1 \notin Inside(text')
  BY <1>1, LineRead
<1>3. BlockIs(text', "none", 0)
  BY <1>1, <1>2, BlockEnds
<1>4. AllClosed(text, Finalized, text) /\ Len(Finalized) \in Nat
  BY <1>2, FinalizedClosed
<1>5. ItemsAre(text', Finalized, current', FALSE)
  BY <1>1, <1>2, <1>4, ItemsSeparated
<1> QED
  BY <1>1, <1>3, <1>5

LEMMA ItemLineCases ==
    ASSUME CasesInv, NEW line \in Lines, ItemLine(line)
    PROVE  NoRaggedStart(text') =>
              /\ BlockIs(text', current_field', block_indent')
              /\ ItemsAre(text', cases', current', in_item')
<1> SUFFICES ASSUME NoRaggedStart(text')
             PROVE  /\ BlockIs(text', current_field', block_indent')
                    /\ ItemsAre(text', cases', current', in_item')
  OBVIOUS
<1>1. /\ Read(line) /\ ~Continues(line) /\ cases' = Finalized /\ in_item' = TRUE
      /\ current' = WithField(NewCase, line.key, line.value)
      /\ current_field' = Opened(line) /\ block_indent' = 0 /\ line.item
  BY DEF ItemLine, NewCase
<1>2. /\ Extends(text, line, text')
      /\ ItemsAre(text, cases, current, in_item)
      /\ Len(text) + 1 \notin Inside(text')
  BY <1>1, LineRead
<1>3. BlockIs(text', Opened(line), 0)
  BY <1>2, BlockEnds, OpenedIs
<1>4. AllClosed(text, Finalized, text) /\ Len(Finalized) \in Nat
  BY <1>2, FinalizedClosed
<1>5. /\ NewCase \in Cases /\ NewCase.yaml = <<>> /\ NewCase.expect_fail = FALSE
      /\ NewCase.variant = variant_counter
  BY NewCaseType DEF CasesInv
<1>6. variant_counter = Len(Finalized)
  BY FinalizedCases DEF CasesInv
<1>7. /\ current'.yaml = YamlAfter(<<>>, line)
      /\ current'.expect_fail = FailAfter(FALSE, line)
      /\ current'.variant = Len(Finalized)
  BY <1>1, <1>5, <1>6, FieldSays
<1>8. ItemsAre(text', Finalized, current', TRUE)
  BY <1>1, <1>2, <1>4, <1>7, ItemsStarted
<1> QED
  BY <1>1, <1>3, <1>8

\* Nothing is in a file of which no line has been read.
LEMMA NothingRead ==
    ASSUME NEW c
    PROVE  BlockIs(<<>>, "none", 0) /\ ItemsAre(<<>>, <<>>, c, FALSE)
<1>1. <<>> \in Seq(Lines) /\ Len(<<>>) = 0 /\ 1..0 = {}
  OBVIOUS
<1>2. Outside(<<>>) = {} /\ Items(<<>>) = {}
  BY <1>1, OutsideIs DEF Items
<1>3. Cardinality(Items(<<>>)) = 0
  BY <1>2, FS_EmptySet
<1>4. \A h : ~OpenBlock(<<>>, h) /\ ~OpenItem(<<>>, h)
  BY <1>2 DEF OpenBlock, OpenItem
<1>5. BlockIs(<<>>, "none", 0)
  BY <1>4 DEF BlockIs
<1>6. ItemsAre(<<>>, <<>>, c, FALSE)
  BY <1>1, <1>2, <1>3, <1>4 DEF ItemsAre
<1> QED
  BY <1>5, <1>6

LEMMA InitCases == Init => CasesInv
<1> SUFFICES ASSUME Init PROVE CasesInv
  OBVIOUS
<1>1. /\ text = <<>> /\ cases = <<>> /\ in_item = FALSE
      /\ current_field = "none" /\ block_indent = 0
  BY DEF Init
<1>2. ParseInv /\ text \in Seq(Lines)
  BY <1>1, InitMeta
<1>3. BlockIs(text, current_field, block_indent) /\ ItemsAre(text, cases, current, in_item)
  BY <1>1, NothingRead
<1> QED
  BY <1>2, <1>3 DEF CasesInv

LEMMA StepCases == CasesInv /\ [Next]_vars => CasesInv'
<1> SUFFICES ASSUME CasesInv, [Next]_vars PROVE CasesInv'
  OBVIOUS
<1>0. ParseInv'
  BY StepMeta DEF CasesInv
<1>1. ASSUME NEW line \in Lines,
             BlockLine(line) \/ SeparatorLine(line) \/ ItemLine(line) \/ FieldLine(line)
      PROVE  CasesInv'
  <2>1. Read(line)
    BY <1>1 DEF BlockLine, SeparatorLine, ItemLine, FieldLine
  <2>2. text' \in Seq(Lines)
    BY <2>1, LineRead
  <2>3. NoRaggedStart(text') =>
           /\ BlockIs(text', current_field', block_indent')
           /\ ItemsAre(text', cases', current', in_item')
    BY <1>1, BlockLineCases, SeparatorLineCases, ItemLineCases, FieldLineCases
  <2> QED
    BY <1>0, <2>2, <2>3 DEF CasesInv
<1>2. CASE EndOfFile
  <2>1. /\ text' = <<>> /\ cases' = <<>> /\ in_item' = FALSE
        /\ current_field' = "none" /\ block_indent' = 0
    BY <1>2 DEF EndOfFile, Fresh
  <2>2. BlockIs(<<>>, "none", 0) /\ ItemsAre(<<>>, <<>>, current', FALSE)
    BY NothingRead
  <2>3. BlockIs(text', current_field', block_indent')
        /\ ItemsAre(text', cases', current', in_item')
    BY <2>1, <2>2
  <2> QED
    BY <1>0, <2>1, <2>3 DEF CasesInv
<1>3. CASE UNCHANGED parsed
  <2>1. UNCHANGED <<text, cases, current, in_item, current_field, block_indent>>
    BY <1>3 DEF parsed, parse_vars
  <2> QED
    BY <1>0, <2>1 DEF CasesInv
<1>4. CASE Classify \/ Probe \/ ProbeTimesOut \/ ProbingDone \/ Generate \/ DryRun
  BY <1>3, <1>4 DEF parsed, Classify, Probe, ProbeTimesOut, ProbingDone, Generate, DryRun
<1>5. CASE UNCHANGED vars
  BY <1>3, <1>5 DEF vars, parsed
<1> QED
  BY <1>1, <1>2, <1>4, <1>5 DEF Next

LEMMA CasesFollow == CasesInv => CasesAsWritten
<1> SUFFICES ASSUME CasesInv, NoRaggedStart(text) PROVE CasesAsWritten
  BY DEF CasesAsWritten
<1>1. AllClosed(text, Finalized, text)
  BY FinalizedClosed DEF CasesInv
<1>2. Len(Finalized) = Cardinality(Items(text))
  BY <1>1 DEF AllClosed
<1>3. \A i \in Items(text) : Says(text, Finalized[Rank(text, i)], i)
  BY <1>1 DEF AllClosed
<1> QED
  BY <1>2, <1>3 DEF CasesAsWritten, Says

\* Each item of a file is a test with its own text, verdict and number, in
\* whatever order a file has items, fields, separators, blank lines and block
\* scalars whose lines look like these.
THEOREM CasesAreWritten == Spec => []CasesAsWritten
<1>1. Init => CasesInv
  BY InitCases
<1>2. CasesInv /\ [Next]_vars => CasesInv'
  BY StepCases
<1>3. CasesInv => CasesAsWritten
  BY CasesFollow
<1> QED
  BY <1>1, <1>2, <1>3, PTL DEF Spec

=============================================================================
