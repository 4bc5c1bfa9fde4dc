--------------------------- MODULE HandlesProofs ---------------------------
(***************************************************************************)
(* What the theorems about the counting of references rest on: counting in *)
(* sequences of effects, what objects lead to, the inductive invariant     *)
(* HandlesInv, and that the calls on an object keep it.  No wrapper is     *)
(* used by two threads, as in the Rust binding or in a Python process of   *)
(* one thread; objects, threads and wrappers are any.                      *)
(***************************************************************************)
EXTENDS HandlesProperties, FiniteSetTheorems, TLAPS

Confined == ~Shared \/ \A t, u \in Threads : t = u

Effects == [op : {"inc", "dec", "format", "capture", "hold", "wrap"},
            obj : Objects, to : Wrappers \cup {Nothing}]

-----------------------------------------------------------------------------
(* Counting effects.                                                       *)

Count(s, X) == Cardinality({i \in 1..Len(s) : s[i] \in X})

LEMMA CountType ==
    ASSUME NEW s \in Seq(Effects), NEW X
    PROVE  /\ Count(s, X) \in Nat
           /\ IsFiniteSet({i \in 1..Len(s) : s[i] \in X})
           /\ Count(s, X) = 0 <=> \A i \in 1..Len(s) : s[i] \notin X
<1> DEFINE I == {i \in 1..Len(s) : s[i] \in X}
<1>1. IsFiniteSet(1..Len(s)) /\ I \in SUBSET (1..Len(s))
  BY FS_Interval
<1>2. IsFiniteSet(I)
  BY <1>1, FS_Subset
<1>3. Cardinality(I) \in Nat /\ (Cardinality(I) = 0 <=> I = {})
  BY <1>2, FS_CardinalityType, FS_EmptySet
<1> QED
  BY <1>2, <1>3 DEF Count

LEMMA CountConcat ==
    ASSUME NEW a \in Seq(Effects), NEW b \in Seq(Effects), NEW X
    PROVE  a \o b \in Seq(Effects) /\ Count(a \o b, X) = Count(a, X) + Count(b, X)
<1> DEFINE s == a \o b
           m == Len(a)
           n == Len(b)
           A == {i \in 1..m : a[i] \in X}
           B == {i \in 1..n : b[i] \in X}
           S == {i \in 1..Len(s) : s[i] \in X}
           D == {i \in (m + 1)..(m + n) : s[i] \in X}
           f == [i \in B |-> m + i]
<1>1. /\ m \in Nat /\ n \in Nat /\ s \in Seq(Effects) /\ Len(s) = m + n
      /\ \A i \in 1..m : s[i] = a[i]
      /\ \A i \in 1..n : s[m + i] = b[i]
  OBVIOUS
<1>2. IsFiniteSet(A) /\ IsFiniteSet(B) /\ Cardinality(A) \in Nat /\ Cardinality(B) \in Nat
  BY CountType DEF Count
<1> HIDE DEF s, m, n
<1>3. S = A \cup D /\ A \cap D = {}
  BY <1>1
<1>4. f \in Bijection(B, D)
  <2>1. \A i \in B : m + i \in D
    BY <1>1
  <2>2. \A k \in D : k - m \in B /\ m + (k - m) = k
    <3> SUFFICES ASSUME NEW k \in D PROVE k - m \in B /\ m + (k - m) = k
      OBVIOUS
    <3>1. k - m \in 1..n /\ m + (k - m) = k
      BY <1>1
    <3> QED
      BY <1>1, <3>1
  <2>3. \A i, j \in B : m + i = m + j => i = j
    BY <1>1
  <2>4. f \in [B -> D] /\ \A i \in B : f[i] = m + i
    BY <2>1
  <2> HIDE DEF f, B, D
  <2> QED
    BY <2>2, <2>3, <2>4 DEF Bijection, Injection, Surjection, IsInjective
<1>5. IsFiniteSet(D) /\ Cardinality(D) = Cardinality(B)
  <2>1. ExistsBijection(B, D)
    BY <1>4 DEF ExistsBijection
  <2> HIDE DEF B, D
  <2> QED
    BY <1>2, <2>1, FS_Bijection
<1>6. Cardinality(S) = Cardinality(A) + Cardinality(D)
  <2> HIDE DEF A, D, S
  <2>1. Cardinality(A \cap D) = 0
    BY <1>3, FS_EmptySet
  <2>2. Cardinality(A \cup D) = Cardinality(A) + Cardinality(D) - Cardinality(A \cap D)
    BY <1>2, <1>5, FS_Union
  <2> QED
    BY <1>2, <1>3, <1>5, <2>1, <2>2
<1> QED
  BY <1>1, <1>5, <1>6 DEF Count, s, m, n

LEMMA CountOne ==
    ASSUME NEW e \in Effects, NEW X
    PROVE  <<e>> \in Seq(Effects) /\ Count(<<e>>, X) = IF e \in X THEN 1 ELSE 0
<1>1. {i \in 1..Len(<<e>>) : <<e>>[i] \in X} = IF e \in X THEN {1} ELSE {}
  OBVIOUS
<1>2. Cardinality({1}) = 1 /\ Cardinality({}) = 0
  BY FS_Singleton, FS_EmptySet
<1> QED
  BY <1>1, <1>2 DEF Count

LEMMA CountCons ==
    ASSUME NEW e \in Effects, NEW s \in Seq(Effects), NEW X
    PROVE  /\ <<e>> \o s \in Seq(Effects)
           /\ Count(<<e>> \o s, X) = Count(s, X) + IF e \in X THEN 1 ELSE 0
<1> DEFINE a == <<e>>
<1>1. a \in Seq(Effects) /\ Count(a, X) = IF e \in X THEN 1 ELSE 0
  BY CountOne
<1> HIDE DEF a
<1>2. a \o s \in Seq(Effects) /\ Count(a \o s, X) = Count(a, X) + Count(s, X)
  BY <1>1, CountConcat
<1>3. Count(s, X) \in Nat
  BY CountType
<1> QED
  BY <1>1, <1>2, <1>3 DEF a

LEMMA HeadTail ==
    ASSUME NEW s \in Seq(Effects), s # <<>>
    PROVE  /\ Head(s) \in Effects /\ Head(s) = s[1] /\ Tail(s) \in Seq(Effects)
           /\ s = <<Head(s)>> \o Tail(s)
           /\ Len(Tail(s)) = Len(s) - 1 /\ Len(s) \in Nat \ {0}
           /\ \A i \in 1..Len(Tail(s)) : Tail(s)[i] = s[i + 1]
  OBVIOUS

LEMMA CountTail ==
    ASSUME NEW s \in Seq(Effects), s # <<>>, NEW X
    PROVE  /\ Tail(s) \in Seq(Effects)
           /\ Count(s, X) = Count(Tail(s), X) + IF Head(s) \in X THEN 1 ELSE 0
<1> DEFINE e == Head(s)
           r == Tail(s)
<1>1. e \in Effects /\ r \in Seq(Effects) /\ s = <<e>> \o r
  BY HeadTail
<1> HIDE DEF e, r
<1>2. Count(<<e>> \o r, X) = Count(r, X) + IF e \in X THEN 1 ELSE 0
  BY <1>1, CountCons
<1> QED
  BY <1>1, <1>2 DEF e, r

-----------------------------------------------------------------------------
(* What a call has of an object: the references it will give up, hand over *)
(* or keep, without those it has yet to take.                              *)

Takes(o) == {e \in Effects : e.op = "inc" /\ e.obj = o}
Gives(o) == {e \in Effects : e.op # "inc" /\ e.obj = o}
Net(s, o) == Count(s, Gives(o)) - Count(s, Takes(o))

Weight(e, o) == IF e.obj # o THEN 0 ELSE IF e.op = "inc" THEN -1 ELSE 1

LEMMA NetType ==
    ASSUME NEW s \in Seq(Effects), NEW o
    PROVE  Net(s, o) \in Int
<1>1. Count(s, Gives(o)) \in Nat /\ Count(s, Takes(o)) \in Nat
  BY CountType
<1> QED
  BY <1>1 DEF Net

LEMMA NetEmpty ==
    ASSUME NEW o
    PROVE  Net(<<>>, o) = 0
<1> DEFINE s == <<>>
<1>1. s \in Seq(Effects) /\ \A X : \A i \in 1..Len(s) : s[i] \notin X
  OBVIOUS
<1> HIDE DEF s
<1>2. Count(s, Gives(o)) = 0 /\ Count(s, Takes(o)) = 0
  BY <1>1, CountType
<1> QED
  BY <1>2 DEF Net, s

LEMMA NetConcat ==
    ASSUME NEW a \in Seq(Effects), NEW b \in Seq(Effects), NEW o
    PROVE  a \o b \in Seq(Effects) /\ Net(a \o b, o) = Net(a, o) + Net(b, o)
<1>1. /\ a \o b \in Seq(Effects)
      /\ Count(a \o b, Gives(o)) = Count(a, Gives(o)) + Count(b, Gives(o))
      /\ Count(a \o b, Takes(o)) = Count(a, Takes(o)) + Count(b, Takes(o))
  BY CountConcat
<1>2. /\ Count(a, Gives(o)) \in Nat /\ Count(b, Gives(o)) \in Nat
      /\ Count(a, Takes(o)) \in Nat /\ Count(b, Takes(o)) \in Nat
  BY CountType
<1> QED
  BY <1>1, <1>2 DEF Net

LEMMA NetCons ==
    ASSUME NEW e \in Effects, NEW s \in Seq(Effects), NEW o
    PROVE  /\ <<e>> \o s \in Seq(Effects)
           /\ Net(<<e>> \o s, o) = Net(s, o) + Weight(e, o)
<1>1. /\ <<e>> \o s \in Seq(Effects)
      /\ Count(<<e>> \o s, Gives(o)) = Count(s, Gives(o)) + IF e \in Gives(o) THEN 1 ELSE 0
      /\ Count(<<e>> \o s, Takes(o)) = Count(s, Takes(o)) + IF e \in Takes(o) THEN 1 ELSE 0
  BY CountCons
<1>2. Count(s, Gives(o)) \in Nat /\ Count(s, Takes(o)) \in Nat
  BY CountType
<1>3. /\ e \in Gives(o) <=> e.op # "inc" /\ e.obj = o
      /\ e \in Takes(o) <=> e.op = "inc" /\ e.obj = o
  BY DEF Gives, Takes
<1> QED
  BY <1>1, <1>2, <1>3 DEF Net, Weight

LEMMA NetTail ==
    ASSUME NEW s \in Seq(Effects), s # <<>>, NEW o
    PROVE  Net(s, o) = Net(Tail(s), o) + Weight(Head(s), o)
<1> DEFINE e == Head(s)
           r == Tail(s)
<1>1. e \in Effects /\ r \in Seq(Effects) /\ s = <<e>> \o r
  BY HeadTail
<1> HIDE DEF e, r
<1>2. Net(<<e>> \o r, o) = Net(r, o) + Weight(e, o)
  BY <1>1, NetCons
<1> QED
  BY <1>1, <1>2 DEF e, r

LEMMA NetNone ==
    ASSUME NEW s \in Seq(Effects), NEW o, \A i \in 1..Len(s) : s[i].obj # o
    PROVE  Net(s, o) = 0
<1>1. \A i \in 1..Len(s) : s[i] \notin Gives(o) /\ s[i] \notin Takes(o)
  BY DEF Gives, Takes
<1>2. Count(s, Gives(o)) = 0 /\ Count(s, Takes(o)) = 0
  BY <1>1, CountType
<1> QED
  BY <1>2 DEF Net

\* A program that takes nothing has what it gives.
LEMMA NetGives ==
    ASSUME NEW s \in Seq(Effects), NEW o, \A i \in 1..Len(s) : s[i].op # "inc"
    PROVE  Net(s, o) = Count(s, Gives(o)) /\ Net(s, o) >= 0
<1>1. \A i \in 1..Len(s) : s[i] \notin Takes(o)
  BY DEF Takes
<1>2. Count(s, Takes(o)) = 0 /\ Count(s, Gives(o)) \in Nat
  BY <1>1, CountType
<1> QED
  BY <1>2 DEF Net

-----------------------------------------------------------------------------
(* What is left of a program.                                              *)

Rest(s, i) == SubSeq(s, i, Len(s))

LEMMA RestType ==
    ASSUME NEW s \in Seq(Effects), NEW i \in 1..(Len(s) + 1)
    PROVE  /\ Rest(s, i) \in Seq(Effects) /\ Len(Rest(s, i)) = Len(s) - i + 1
           /\ \A k \in 1..(Len(s) - i + 1) : Rest(s, i)[k] = s[i + k - 1]
BY DEF Rest

LEMMA SameEffects ==
    ASSUME NEW a \in Seq(Effects), NEW b \in Seq(Effects), Len(a) = Len(b),
           \A i \in 1..Len(a) : a[i] = b[i]
    PROVE  a = b
OBVIOUS

LEMMA RestTail ==
    ASSUME NEW s \in Seq(Effects), s # <<>>, NEW i \in 1..Len(s)
    PROVE  Rest(Tail(s), i) = Rest(s, i + 1)
<1> DEFINE r == Tail(s)
           n == Len(s)
<1>1. /\ r \in Seq(Effects) /\ Len(r) = n - 1 /\ n \in Nat
      /\ \A k \in 1..(n - 1) : r[k] = s[k + 1]
  BY HeadTail
<1> HIDE DEF r
<1>2. i \in 1..(Len(r) + 1) /\ i + 1 \in 1..(n + 1)
  BY <1>1
<1>3. /\ Rest(r, i) \in Seq(Effects) /\ Len(Rest(r, i)) = n - i
      /\ \A k \in 1..(n - i) : Rest(r, i)[k] = r[i + k - 1]
  BY <1>1, <1>2, RestType
<1> DEFINE j == i + 1
<1>j. j \in 1..(n + 1) /\ n - j + 1 = n - i /\ \A k \in 1..(n - i) : j + k - 1 = i + k
  BY <1>1
<1> HIDE DEF j
<1>4. /\ Rest(s, j) \in Seq(Effects) /\ Len(Rest(s, j)) = n - i
      /\ \A k \in 1..(n - i) : Rest(s, j)[k] = s[i + k]
  <2>1. /\ Rest(s, j) \in Seq(Effects) /\ Len(Rest(s, j)) = n - j + 1
        /\ \A k \in 1..(n - j + 1) : Rest(s, j)[k] = s[j + k - 1]
    BY <1>j, RestType
  <2> QED
    BY <1>j, <2>1
<1>5. ASSUME NEW k \in 1..(n - i) PROVE r[i + k - 1] = s[i + k]
  <2>1. i + k - 1 \in 1..(n - 1) /\ (i + k - 1) + 1 = i + k
    BY <1>1
  <2> QED
    BY <1>1, <2>1
<1>6. Rest(r, i) = Rest(s, j)
  BY <1>3, <1>4, <1>5, SameEffects
<1> QED
  BY <1>6 DEF r, j

LEMMA RestConcat ==
    ASSUME NEW a \in Seq(Effects), NEW b \in Seq(Effects), NEW i \in 1..(Len(a) + 1)
    PROVE  Rest(a \o b, i) = Rest(a, i) \o b
<1> DEFINE s == a \o b
           c == Rest(a, i)
           m == Len(a)
           n == Len(b)
<1>1. /\ m \in Nat /\ n \in Nat /\ s \in Seq(Effects) /\ Len(s) = m + n
      /\ \A k \in 1..m : s[k] = a[k]
      /\ \A k \in 1..n : s[m + k] = b[k]
  OBVIOUS
<1>2. /\ c \in Seq(Effects) /\ Len(c) = m - i + 1
      /\ \A k \in 1..(m - i + 1) : c[k] = a[i + k - 1]
  BY RestType
<1> HIDE DEF s, c
<1>3. i \in 1..(Len(s) + 1) /\ i \in Nat /\ i >= 1 /\ i <= m + 1
  BY <1>1
<1>4. /\ Rest(s, i) \in Seq(Effects) /\ Len(Rest(s, i)) = m + n - i + 1
      /\ \A k \in 1..(m + n - i + 1) : Rest(s, i)[k] = s[i + k - 1]
  <2>1. /\ Rest(s, i) \in Seq(Effects) /\ Len(Rest(s, i)) = Len(s) - i + 1
        /\ \A k \in 1..(Len(s) - i + 1) : Rest(s, i)[k] = s[i + k - 1]
    BY <1>1, <1>3, RestType
  <2> QED
    BY <1>1, <2>1
<1> HIDE DEF m
<1> DEFINE d == c \o b
<1>5. /\ d \in Seq(Effects) /\ Len(d) = (m - i + 1) + n
      /\ \A k \in 1..(m - i + 1) : d[k] = c[k]
      /\ \A k \in 1..n : d[(m - i + 1) + k] = b[k]
  <2>1. /\ d \in Seq(Effects) /\ Len(d) = Len(c) + n
        /\ \A k \in 1..Len(c) : d[k] = c[k]
        /\ \A k \in 1..n : d[Len(c) + k] = b[k]
    <3>1. c \in Seq(Effects)
      BY <1>2
    <3> QED
      BY <3>1
  <2> HIDE DEF d, n
  <2> QED
    BY <1>2, <2>1
<1> HIDE DEF d, n
<1>6. ASSUME NEW k \in 1..(m + n - i + 1) PROVE Rest(s, i)[k] = d[k]
  <2>1. CASE k <= m - i + 1
    <3>1. k \in 1..(m - i + 1) /\ i + k - 1 \in 1..m
      BY <1>1, <1>3, <2>1
    <3> QED
      BY <1>1, <1>2, <1>4, <1>5, <3>1
  <2>2. CASE k > m - i + 1
    <3> DEFINE j == k - (m - i + 1)
    <3>1. j \in 1..n /\ i + k - 1 = m + j /\ (m - i + 1) + j = k
      BY <1>1, <1>3, <2>2
    <3> HIDE DEF j
    <3>2. s[i + k - 1] = b[j] /\ d[k] = b[j]
      BY <1>1, <1>5, <3>1
    <3> QED
      BY <1>4, <3>2
  <2> QED
    BY <1>1, <1>3, <2>1, <2>2
<1>7. Rest(s, i) = d
  <2>1. Len(d) = m + n - i + 1
    BY <1>1, <1>3, <1>5
  <2> QED
    BY <1>4, <1>5, <1>6, <2>1, SameEffects
<1> QED
  BY <1>7 DEF s, c, d

-----------------------------------------------------------------------------
(* Programs that take references only to what they hold, or to what the    *)
(* object v that runs them or an object they hold refers to, and that give *)
(* up no more than they took.                                              *)

Leads(p, q) == q = p \/ q \in FieldSet(p)
Sound(s, v) ==
    /\ \A o \in Objects : Net(s, o) >= 0
    /\ s # <<>> /\ s[1].op = "inc" /\ s[1].obj \notin Static =>
          \E p \in Objects : (p = v \/ Net(s, p) >= 1) /\ Leads(p, s[1].obj)
Legal(s, v) == \A i \in 1..(Len(s) + 1) : Sound(Rest(s, i), v)

LEMMA LegalNow ==
    ASSUME NEW s \in Seq(Effects), NEW v, Legal(s, v)
    PROVE  Sound(s, v)
<1>1. 1 \in 1..(Len(s) + 1) /\ Rest(s, 1) = s
  BY DEF Rest
<1> QED
  BY <1>1 DEF Legal

LEMMA LegalEmpty ==
    ASSUME NEW v
    PROVE  Legal(<<>>, v)
<1>1. ASSUME NEW i \in 1..(Len(<<>>) + 1) PROVE Rest(<<>>, i) = <<>>
  BY DEF Rest
<1>2. Sound(<<>>, v)
  BY NetEmpty DEF Sound
<1> QED
  BY <1>1, <1>2 DEF Legal

LEMMA LegalTail ==
    ASSUME NEW s \in Seq(Effects), s # <<>>, NEW v, Legal(s, v)
    PROVE  Legal(Tail(s), v)
<1> SUFFICES ASSUME NEW i \in 1..(Len(Tail(s)) + 1) PROVE Sound(Rest(Tail(s), i), v)
  BY DEF Legal
<1>1. i \in 1..Len(s) /\ i + 1 \in 1..(Len(s) + 1)
  BY HeadTail
<1> QED
  BY <1>1, RestTail DEF Legal

LEMMA LegalCons ==
    ASSUME NEW e \in Effects, NEW s \in Seq(Effects), NEW v, Legal(s, v),
           Sound(<<e>> \o s, v)
    PROVE  Legal(<<e>> \o s, v)
<1> DEFINE u == <<e>> \o s
<1>1. u \in Seq(Effects) /\ u # <<>> /\ Tail(u) = s /\ Len(u) = Len(s) + 1 /\ Rest(u, 1) = u
  BY DEF Rest
<1>2. Sound(u, v)
  OBVIOUS
<1> HIDE DEF u
<1>3. ASSUME NEW i \in 1..(Len(u) + 1) PROVE Sound(Rest(u, i), v)
  <2>1. CASE i = 1
    BY <1>1, <1>2, <2>1
  <2>2. CASE i # 1
    <3> DEFINE j == i - 1
    <3>1. j \in 1..Len(u) /\ j + 1 = i /\ j \in 1..(Len(s) + 1)
      BY <1>1, <2>2
    <3> HIDE DEF j
    <3>2. Rest(s, j) = Rest(u, i)
      BY <1>1, <3>1, RestTail
    <3> QED
      BY <3>1, <3>2 DEF Legal
  <2> QED
    BY <2>1, <2>2
<1> QED
  BY <1>3 DEF Legal, u

LEMMA WeightType ==
    ASSUME NEW e, NEW o
    PROVE  /\ Weight(e, o) \in {-1, 0, 1}
           /\ e.op # "inc" => Weight(e, o) >= 0
           /\ e.op # "inc" /\ e.obj = o => Weight(e, o) = 1
           /\ e.op = "inc" /\ e.obj = o => Weight(e, o) = -1
           /\ e.obj # o => Weight(e, o) = 0
BY DEF Weight

\* A program may end with giving up or handing over.
LEMMA LegalGives ==
    ASSUME NEW e \in Effects, e.op # "inc", NEW s \in Seq(Effects), NEW v, Legal(s, v)
    PROVE  Legal(<<e>> \o s, v)
<1> DEFINE u == <<e>> \o s
<1>1. u \in Seq(Effects) /\ u[1] = e
  OBVIOUS
<1>2. ASSUME NEW o \in Objects PROVE Net(u, o) >= 0
  <2>1. Net(s, o) >= 0 /\ Net(s, o) \in Int
    BY LegalNow, NetType DEF Sound
  <2>2. Net(u, o) = Net(s, o) + Weight(e, o)
    BY NetCons
  <2> QED
    BY <2>1, <2>2, WeightType
<1> HIDE DEF u
<1>3. Sound(u, v)
  BY <1>1, <1>2 DEF Sound
<1> QED
  BY <1>3, LegalCons DEF u

\* Why a reference to q may be taken before s is run.
Grants(s, v, q) ==
    \/ q \in Static
    \/ v \in Objects /\ Leads(v, q)
    \/ Net(s, q) >= 2
    \/ \E p \in Objects : p # q /\ Net(s, p) >= 1 /\ q \in FieldSet(p)

LEMMA LegalTakes ==
    ASSUME NEW q \in Objects, NEW s \in Seq(Effects), NEW v, Legal(s, v),
           Net(s, q) >= 1, Grants(s, v, q)
    PROVE  Legal(<<Inc(q)>> \o s, v)
<1> DEFINE e == Inc(q)
           u == <<e>> \o s
<1>1. e \in Effects /\ e.op = "inc" /\ e.obj = q
  BY DEF Inc, Effects
<1> HIDE DEF e
<1>2. u \in Seq(Effects) /\ u[1] = e
  BY <1>1
<1>3. \A o : Net(u, o) = Net(s, o) + Weight(e, o) /\ Net(s, o) \in Int
  BY <1>1, NetCons, NetType
<1> HIDE DEF u
<1>4. ASSUME NEW o \in Objects PROVE Net(u, o) >= 0
  <2>1. Net(s, o) >= 0 /\ (o = q => Net(s, o) >= 1)
    BY LegalNow DEF Sound
  <2>2. Weight(e, o) = IF o = q THEN -1 ELSE 0
    BY <1>1 DEF Weight
  <2> QED
    BY <1>3, <2>1, <2>2
<1>5. ASSUME q \notin Static
      PROVE  \E p \in Objects : (p = v \/ Net(u, p) >= 1) /\ Leads(p, q)
  <2>1. CASE v \in Objects /\ Leads(v, q)
    BY <2>1
  <2>2. CASE Net(s, q) >= 2
    <3>1. Net(u, q) = Net(s, q) - 1 /\ Net(s, q) \in Int
      BY <1>1, <1>3, WeightType
    <3> QED
      BY <2>2, <3>1 DEF Leads
  <2>3. CASE \E p \in Objects : p # q /\ Net(s, p) >= 1 /\ q \in FieldSet(p)
    <3>1. PICK p \in Objects : p # q /\ Net(s, p) >= 1 /\ q \in FieldSet(p)
      BY <2>3
    <3>2. Net(u, p) = Net(s, p) + 0 /\ Net(s, p) \in Int
      BY <1>1, <1>3, <3>1, WeightType
    <3> QED
      BY <3>1, <3>2 DEF Leads
  <2> QED
    BY <1>5, <2>1, <2>2, <2>3 DEF Grants
<1>6. Sound(u, v)
  BY <1>1, <1>2, <1>4, <1>5 DEF Sound
<1> QED
  BY <1>1, <1>6, LegalCons DEF u, e

\* Giving up any number of references before s.
LEMMA LegalReleases ==
    ASSUME NEW a \in Seq(Effects), \A i \in 1..Len(a) : a[i].op # "inc",
           NEW s \in Seq(Effects), NEW v, Legal(s, v)
    PROVE  Legal(a \o s, v)
<1> DEFINE u == a \o s
           m == Len(a)
           n == Len(s)
<1>1. u \in Seq(Effects) /\ Len(u) = m + n /\ m \in Nat /\ n \in Nat
  OBVIOUS
<1>2. \A k \in 1..n : u[m + k] = s[k]
  OBVIOUS
<1> HIDE DEF u
<1>3. ASSUME NEW i \in 1..(m + n + 1) PROVE Sound(Rest(u, i), v)
  <2>1. CASE i <= m
    <3> DEFINE c == Rest(a, i)
    <3>1. i \in 1..(m + 1) /\ m - i + 1 \in Nat \ {0}
      BY <1>1, <2>1
    <3>2. /\ c \in Seq(Effects) /\ Len(c) = m - i + 1
          /\ \A k \in 1..(m - i + 1) : c[k] = a[i + k - 1]
      BY <3>1, RestType
    <3> HIDE DEF c
    <3>3. \A k \in 1..Len(c) : c[k].op # "inc"
      <4>1. \A k \in 1..(m - i + 1) : i + k - 1 \in 1..m
        BY <1>1, <3>1
      <4> QED
        BY <3>2, <4>1
    <3>4. Rest(u, i) = c \o s
      BY <3>1, RestConcat DEF u, c
    <3>5. ASSUME NEW o \in Objects PROVE Net(c \o s, o) >= 0
      <4>1. Net(c, o) >= 0 /\ Net(s, o) >= 0
        BY <3>2, <3>3, NetGives, LegalNow DEF Sound
      <4>2. Net(c \o s, o) = Net(c, o) + Net(s, o) /\ Net(c, o) \in Int /\ Net(s, o) \in Int
        BY <3>2, NetConcat, NetType
      <4> QED
        BY <4>1, <4>2
    <3>6. (c \o s)[1] = c[1] /\ 1 \in 1..Len(c)
      BY <3>1, <3>2
    <3> QED
      BY <3>3, <3>4, <3>5, <3>6 DEF Sound
  <2>2. CASE i > m
    <3> DEFINE j == i - m
    <3>1. j \in 1..(n + 1) /\ i = m + j /\ m + n - i + 1 = n - j + 1
      BY <1>1, <2>2
    <3> HIDE DEF j
    <3>2. /\ Rest(s, j) \in Seq(Effects) /\ Len(Rest(s, j)) = n - j + 1
          /\ \A k \in 1..(n - j + 1) : Rest(s, j)[k] = s[j + k - 1]
      BY <3>1, RestType
    <3>3. /\ Rest(u, i) \in Seq(Effects) /\ Len(Rest(u, i)) = n - j + 1
          /\ \A k \in 1..(n - j + 1) : Rest(u, i)[k] = u[i + k - 1]
      <4>1. i \in 1..(Len(u) + 1)
        BY <1>1
      <4>2. /\ Rest(u, i) \in Seq(Effects) /\ Len(Rest(u, i)) = Len(u) - i + 1
            /\ \A k \in 1..(Len(u) - i + 1) : Rest(u, i)[k] = u[i + k - 1]
        BY <1>1, <4>1, RestType
      <4> QED
        BY <1>1, <3>1, <4>2
    <3>4. ASSUME NEW k \in 1..(n - j + 1) PROVE u[i + k - 1] = s[j + k - 1]
      <4>1. j + k - 1 \in 1..n /\ i + k - 1 = m + (j + k - 1)
        BY <1>1, <3>1
      <4> QED
        BY <1>2, <4>1
    <3>5. Rest(u, i) = Rest(s, j)
      <4> DEFINE x == Rest(u, i)
                 y == Rest(s, j)
      <4>1. \A k \in 1..(n - j + 1) : x[k] = y[k]
        BY <3>2, <3>3, <3>4
      <4>2. x \in Seq(Effects) /\ y \in Seq(Effects) /\ Len(x) = Len(y) /\ Len(x) = n - j + 1
        BY <3>2, <3>3
      <4> HIDE DEF x, y
      <4>3. x = y
        BY <4>1, <4>2, SameEffects
      <4> QED
        BY <4>3 DEF x, y
    <3>6. Sound(Rest(s, j), v)
      <4>1. j \in 1..(Len(s) + 1)
        BY <3>1
      <4> QED
        BY <4>1, Zenon DEF Legal
    <3> QED
      BY <3>5, <3>6
  <2> QED
    BY <1>1, <2>1, <2>2
<1> QED
  BY <1>1, <1>3 DEF Legal, u

-----------------------------------------------------------------------------
(* What objects refer to.                                                  *)

LEMMA FieldTypes ==
    ASSUME NEW o \in Objects
    PROVE  /\ Fields(o) \in Seq(Objects) /\ Len(Fields(o)) \in Nat
           /\ DOMAIN Fields(o) = 1..Len(Fields(o))
           /\ FieldSet(o) \subseteq Objects /\ o \notin FieldSet(o)
           /\ \A p : p \in FieldSet(o) <=> \E i \in 1..Len(Fields(o)) : Fields(o)[i] = p
<1>1. Fields(o) \in Seq(Objects)
  BY ObjectsAssumption
<1>2. /\ Len(Fields(o)) \in Nat /\ DOMAIN Fields(o) = 1..Len(Fields(o))
      /\ \A i \in 1..Len(Fields(o)) : Fields(o)[i] \in Objects
  BY <1>1
<1>3. /\ FieldSet(o) \subseteq Objects
      /\ \A p : p \in FieldSet(o) <=> \E i \in 1..Len(Fields(o)) : Fields(o)[i] = p
  BY <1>2 DEF FieldSet
<1>4. o \notin FieldSet(o)
  <2>1. {o} \in SUBSET Objects /\ {o} # {}
    OBVIOUS
  <2> QED
    BY <2>1, AcyclicAssumption
<1> QED
  BY <1>1, <1>2, <1>3, <1>4

\* Reach is a recursive function: the least closed sets satisfy its equation.
LEMMA ReachStep ==
    /\ Reach = [o \in Objects |-> {o} \cup UNION {Reach[p] : p \in FieldSet(o)}]
<1> DEFINE Closed(S) == \A p \in S : FieldSet(p) \subseteq S
           f == [o \in Objects |-> {q \in Objects : \A S \in SUBSET Objects :
                                        o \in S /\ Closed(S) => q \in S}]
           g == [o \in Objects |-> {o} \cup UNION {f[p] : p \in FieldSet(o)}]
<1>1. \A o \in Objects : \A q : q \in f[o] <=>
          q \in Objects /\ \A S \in SUBSET Objects : o \in S /\ Closed(S) => q \in S
  OBVIOUS
<1>2. \A o \in Objects : f[o] \in SUBSET Objects /\ o \in f[o] /\ Closed(f[o])
  <2> SUFFICES ASSUME NEW o \in Objects
               PROVE  f[o] \in SUBSET Objects /\ o \in f[o] /\ Closed(f[o])
    OBVIOUS
  <2>1. f[o] \in SUBSET Objects /\ o \in f[o]
    OBVIOUS
  <2>2. ASSUME NEW p \in f[o], NEW q \in FieldSet(p) PROVE q \in f[o]
    <3>1. p \in Objects /\ q \in Objects
      BY <2>1, FieldTypes
    <3>2. ASSUME NEW S \in SUBSET Objects, o \in S, Closed(S) PROVE q \in S
      <4>1. p \in S
        BY <1>1, <3>2
      <4> QED
        BY <3>2, <4>1
    <3> HIDE DEF f
    <3> QED
      BY <1>1, <3>1, <3>2
  <2> HIDE DEF f
  <2> QED
    BY <2>1, <2>2
<1>3. \A o \in Objects, S \in SUBSET Objects : o \in S /\ Closed(S) => f[o] \subseteq S
  BY <1>1
<1>f. f = [o \in Objects |-> f[o]]
  OBVIOUS
<1> HIDE DEF f
<1>4. ASSUME NEW o \in Objects PROVE f[o] = {o} \cup UNION {f[p] : p \in FieldSet(o)}
  <2> DEFINE U == {o} \cup UNION {f[p] : p \in FieldSet(o)}
  <2>1. U \subseteq f[o]
    <3> SUFFICES ASSUME NEW p \in FieldSet(o) PROVE f[p] \subseteq f[o]
      BY <1>2
    <3>1. p \in Objects /\ p \in f[o]
      BY <1>2, FieldTypes
    <3> QED
      BY <1>2, <1>3, <3>1
  <2>2. U \in SUBSET Objects /\ o \in U
    BY <1>2, FieldTypes
  <2>3. ASSUME NEW q \in U PROVE FieldSet(q) \subseteq U
    <3>1. CASE q = o
      <4>1. \A p \in FieldSet(o) : p \in Objects /\ p \in f[p]
        BY <1>2, FieldTypes
      <4> QED
        BY <3>1, <4>1
    <3>2. CASE q # o
      <4>1. PICK p \in FieldSet(o) : q \in f[p]
        BY <3>2
      <4>2. p \in Objects
        BY FieldTypes
      <4>3. FieldSet(q) \subseteq f[p]
        BY <1>2, <4>1, <4>2
      <4> QED
        BY <4>3
    <3> QED
      BY <3>1, <3>2
  <2>4. Closed(U)
    BY <2>3
  <2> HIDE DEF U
  <2>5. f[o] \subseteq U
    BY <1>3, <2>2, <2>4
  <2> QED
    BY <2>1, <2>5 DEF U
<1>5. f = g
  BY <1>4, <1>f
<1> DEFINE P(h) == h = [o \in Objects |-> {o} \cup UNION {h[p] : p \in FieldSet(o)}]
<1>6. P(f)
  BY <1>5
<1>7. Reach = CHOOSE h : P(h)
  BY DEF Reach
<1> HIDE DEF P
<1>8. P(Reach)
  BY <1>6, <1>7
<1> QED
  BY <1>8 DEF P

LEMMA ReachIs ==
    ASSUME NEW o \in Objects
    PROVE  /\ o \in Reach[o]
           /\ \A p \in FieldSet(o) : Reach[p] \subseteq Reach[o]
           /\ \A q \in Reach[o] : q = o \/ \E p \in FieldSet(o) : q \in Reach[p]
<1>1. Reach[o] = {o} \cup UNION {Reach[p] : p \in FieldSet(o)}
  BY ReachStep
<1> QED
  BY <1>1

LEMMA ReachClosed ==
    ASSUME NEW o \in Objects
    PROVE  /\ Reach[o] \subseteq Objects
           /\ \A p \in Reach[o] : FieldSet(p) \subseteq Reach[o]
           /\ \A p \in Reach[o] : p = o \/ \E q \in Reach[o] : p \in FieldSet(q)
<1> DEFINE Fine(x) == /\ Reach[x] \subseteq Objects
                      /\ \A p \in Reach[x] : FieldSet(p) \subseteq Reach[x]
                      /\ \A p \in Reach[x] : p = x \/ \E q \in Reach[x] : p \in FieldSet(q)
           S == {x \in Objects : ~Fine(x)}
<1>1. SUFFICES ASSUME S # {} PROVE FALSE
  BY <1>1
<1>2. PICK x \in S : FieldSet(x) \cap S = {}
  <2>1. S \in SUBSET Objects
    OBVIOUS
  <2> HIDE DEF S
  <2> QED
    BY <1>1, <2>1, AcyclicAssumption
<1>3. x \in Objects /\ ~Fine(x)
  OBVIOUS
<1>4. \A p \in FieldSet(x) : p \in Objects /\ Fine(p) /\ p \in Reach[p]
  BY <1>2, <1>3, FieldTypes, ReachIs
<1>5. /\ x \in Reach[x]
      /\ \A p \in FieldSet(x) : Reach[p] \subseteq Reach[x]
      /\ \A q \in Reach[x] : q = x \/ \E p \in FieldSet(x) : q \in Reach[p]
  BY <1>3, ReachIs
<1> HIDE DEF S
<1>6. Reach[x] \subseteq Objects
  BY <1>3, <1>4, <1>5
<1>7. ASSUME NEW p \in Reach[x] PROVE FieldSet(p) \subseteq Reach[x]
  <2>1. CASE p = x
    BY <1>4, <1>5, <2>1
  <2>2. CASE p # x
    BY <1>4, <1>5, <2>2
  <2> QED
    BY <2>1, <2>2
<1>8. ASSUME NEW p \in Reach[x], p # x PROVE \E q \in Reach[x] : p \in FieldSet(q)
  <2>1. PICK y \in FieldSet(x) : p \in Reach[y]
    BY <1>5, <1>8
  <2>2. p = y \/ \E q \in Reach[y] : p \in FieldSet(q)
    BY <1>4, <2>1
  <2> QED
    BY <1>5, <2>1, <2>2
<1> QED
  BY <1>3, <1>6, <1>7, <1>8

-----------------------------------------------------------------------------
(* References from objects to objects.                                     *)

Refs(S, o) ==
    {e \in UNION {{p} \X DOMAIN Fields(p) : p \in S} : Fields(e[1])[e[2]] = o}

LEMMA RefsIs ==
    ASSUME NEW S \in SUBSET Objects, NEW o
    PROVE  /\ RefsFrom(S, o) = Cardinality(Refs(S, o))
           /\ \A e : e \in Refs(S, o) <=>
                 \E p \in S : \E i \in 1..Len(Fields(p)) : e = <<p, i>> /\ Fields(p)[i] = o
<1>1. RefsFrom(S, o) = Cardinality(Refs(S, o))
  BY DEF RefsFrom, Refs
<1>2. \A p \in S : DOMAIN Fields(p) = 1..Len(Fields(p))
  BY FieldTypes
<1>3. ASSUME NEW e, e \in Refs(S, o)
      PROVE  \E p \in S : \E i \in 1..Len(Fields(p)) : e = <<p, i>> /\ Fields(p)[i] = o
  <2>1. PICK p \in S : e \in {p} \X DOMAIN Fields(p)
    BY <1>3 DEF Refs
  <2>2. e = <<p, e[2]>> /\ e[2] \in 1..Len(Fields(p)) /\ e[1] = p
    BY <1>2, <2>1
  <2>3. Fields(p)[e[2]] = o
    BY <1>3, <2>2 DEF Refs
  <2> QED
    BY <2>2, <2>3
<1>4. ASSUME NEW p \in S, NEW i \in 1..Len(Fields(p)), Fields(p)[i] = o
      PROVE  <<p, i>> \in Refs(S, o)
  <2>1. <<p, i>> \in {p} \X DOMAIN Fields(p)
    BY <1>2
  <2>2. <<p, i>>[1] = p /\ <<p, i>>[2] = i
    OBVIOUS
  <2> QED
    BY <1>4, <2>1, <2>2 DEF Refs
<1> QED
  BY <1>1, <1>3, <1>4

\* The references to o of one object are those it gives up when it is freed.
LEMMA RefsOne ==
    ASSUME NEW p \in Objects, NEW o \in Objects
    PROVE  /\ Released(p) \in Seq(Effects)
           /\ Len(Released(p)) = Len(Fields(p))
           /\ \A i \in 1..Len(Fields(p)) : Released(p)[i] = Dec(Fields(p)[i])
           /\ IsFiniteSet(Refs({p}, o))
           /\ RefsFrom({p}, o) = Net(Released(p), o)
<1> DEFINE s == Released(p)
           n == Len(Fields(p))
           I == {i \in 1..Len(s) : s[i] \in Gives(o)}
           f == [i \in I |-> <<p, i>>]
<1>1. /\ n \in Nat /\ DOMAIN Fields(p) = 1..n
      /\ \A i \in 1..n : Fields(p)[i] \in Objects
  BY FieldTypes
<1>2. s = [i \in 1..n |-> Dec(Fields(p)[i])]
  BY <1>1 DEF Released
<1>3. \A q \in Objects : Dec(q) \in Effects /\ Dec(q).op = "dec" /\ Dec(q).obj = q
  BY DEF Dec, Effects
<1>4. /\ s \in Seq(Effects) /\ Len(s) = n
      /\ \A i \in 1..n : s[i] = Dec(Fields(p)[i])
  <2> HIDE DEF s, n
  <2>1. \A i \in 1..n : Dec(Fields(p)[i]) \in Effects
    BY <1>1, <1>3
  <2> QED
    BY <1>1, <1>2, <2>1
<1> HIDE DEF s, n
<1>5. \A i \in 1..n : s[i].op # "inc" /\ (s[i] \in Gives(o) <=> Fields(p)[i] = o)
  <2> SUFFICES ASSUME NEW i \in 1..n
               PROVE  s[i].op # "inc" /\ (s[i] \in Gives(o) <=> Fields(p)[i] = o)
    OBVIOUS
  <2> DEFINE q == Fields(p)[i]
  <2>1. q \in Objects /\ s[i] = Dec(q)
    BY <1>1, <1>4
  <2> HIDE DEF q
  <2>2. Dec(q) \in Effects /\ Dec(q).op = "dec" /\ Dec(q).obj = q
    BY <1>3, <2>1
  <2>3. s[i].op # "inc" /\ (s[i] \in Gives(o) <=> q = o)
    BY <2>1, <2>2 DEF Gives
  <2> QED
    BY <2>3 DEF q
<1>6. f \in Bijection(I, Refs({p}, o))
  <2>1. \A e : e \in Refs({p}, o) <=> \E i \in 1..n : e = <<p, i>> /\ Fields(p)[i] = o
    <3> DEFINE T == {p}
    <3>1. T \in SUBSET Objects /\ \A x : x \in T <=> x = p
      OBVIOUS
    <3> HIDE DEF T
    <3>2. \A e : e \in Refs(T, o) <=> \E x \in T : \E i \in 1..Len(Fields(x)) :
                                          e = <<x, i>> /\ Fields(x)[i] = o
      BY <3>1, RefsIs
    <3>3. \A e : e \in Refs(T, o) <=> \E i \in 1..n : e = <<p, i>> /\ Fields(p)[i] = o
      BY <3>1, <3>2 DEF n
    <3> QED
      BY <3>3 DEF T
  <2>2. \A i \in I : <<p, i>> \in Refs({p}, o)
    BY <1>4, <1>5, <2>1
  <2>3. \A e \in Refs({p}, o) : \E i \in I : e = <<p, i>>
    BY <1>4, <1>5, <2>1
  <2>4. f \in [I -> Refs({p}, o)] /\ \A i \in I : f[i] = <<p, i>>
    BY <2>2
  <2>5. \A i, j \in I : <<p, i>> = <<p, j>> => i = j
    OBVIOUS
  <2> HIDE DEF f, I
  <2>6. f \in Injection(I, Refs({p}, o))
    BY <2>4, <2>5 DEF Injection, IsInjective
  <2>7. f \in Surjection(I, Refs({p}, o))
    BY <2>3, <2>4 DEF Surjection
  <2> QED
    BY <2>6, <2>7 DEF Bijection
<1>7. IsFiniteSet(I) /\ Count(s, Gives(o)) = Cardinality(I)
  BY <1>4, CountType DEF Count
<1>8. ExistsBijection(I, Refs({p}, o))
  BY <1>6 DEF ExistsBijection
<1> HIDE DEF f, I
<1>9. IsFiniteSet(Refs({p}, o)) /\ Cardinality(Refs({p}, o)) = Count(s, Gives(o))
  BY <1>7, <1>8, FS_Bijection
<1>10. Net(s, o) = Count(s, Gives(o))
  BY <1>4, <1>5, NetGives
<1>11. RefsFrom({p}, o) = Cardinality(Refs({p}, o))
  BY RefsIs
<1> QED
  BY <1>4, <1>9, <1>10, <1>11 DEF s, n

LEMMA RefsType ==
    ASSUME NEW S \in SUBSET Objects, NEW o \in Objects
    PROVE  /\ IsFiniteSet(Refs(S, o)) /\ RefsFrom(S, o) \in Nat
           /\ RefsFrom(S, o) = 0 <=> \A p \in S : o \notin FieldSet(p)
<1> DEFINE f == [p \in S |-> Refs({p}, o)]
           T == {Refs({p}, o) : p \in S}
<1>1. IsFiniteSet(S)
  BY ObjectsAssumption, FS_Subset
<1>2. f \in Surjection(S, T)
  BY DEF Surjection
<1>3. IsFiniteSet(T)
  <2> HIDE DEF f, T
  <2> QED
    BY <1>1, <1>2, FS_Surjection
<1>4. \A R \in T : IsFiniteSet(R)
  BY RefsOne
<1>5. IsFiniteSet(UNION T)
  <2> HIDE DEF T
  <2> QED
    BY <1>3, <1>4, FS_UNION
<1>6. Refs(S, o) \subseteq UNION T
  <2>1. ASSUME NEW e, e \in Refs(S, o) PROVE \E p \in S : e \in Refs({p}, o)
    <3>1. PICK p \in S : \E i \in 1..Len(Fields(p)) : e = <<p, i>> /\ Fields(p)[i] = o
      BY <2>1, RefsIs
    <3>2. {p} \in SUBSET Objects /\ p \in {p}
      OBVIOUS
    <3>3. e \in Refs({p}, o)
      BY <3>1, <3>2, RefsIs
    <3> QED
      BY <3>3
  <2> QED
    BY <2>1
<1>7. IsFiniteSet(Refs(S, o))
  <2> HIDE DEF T
  <2> QED
    BY <1>5, <1>6, FS_Subset
<1>8. RefsFrom(S, o) \in Nat /\ (RefsFrom(S, o) = 0 <=> Refs(S, o) = {})
  <2>1. RefsFrom(S, o) = Cardinality(Refs(S, o))
    BY RefsIs
  <2>2. Cardinality(Refs(S, o)) \in Nat /\ (Cardinality(Refs(S, o)) = 0 <=> Refs(S, o) = {})
    BY <1>7, FS_CardinalityType, FS_EmptySet
  <2> QED
    BY <2>1, <2>2
<1>9. Refs(S, o) = {} <=> \A p \in S : o \notin FieldSet(p)
  <2>1. \A p \in S : o \in FieldSet(p) <=> \E i \in 1..Len(Fields(p)) : Fields(p)[i] = o
    BY FieldTypes
  <2> QED
    BY <2>1, RefsIs
<1> QED
  BY <1>7, <1>8, <1>9

LEMMA RefsUnion ==
    ASSUME NEW S \in SUBSET Objects, NEW T \in SUBSET Objects, S \cap T = {},
           NEW o \in Objects
    PROVE  RefsFrom(S \cup T, o) = RefsFrom(S, o) + RefsFrom(T, o)
<1> DEFINE A == Refs(S, o)
           B == Refs(T, o)
<1>1. Refs(S \cup T, o) = A \cup B /\ A \cap B = {}
  <2>1. \A e : e \in Refs(S \cup T, o) <=> e \in A \/ e \in B
    <3> DEFINE U == S \cup T
               Ref(p, e) == \E i \in 1..Len(Fields(p)) : e = <<p, i>> /\ Fields(p)[i] = o
    <3>1. U \in SUBSET Objects
      OBVIOUS
    <3> HIDE DEF U
    <3>2. /\ \A e : e \in Refs(U, o) <=> \E p \in U : Ref(p, e)
          /\ \A e : e \in A <=> \E p \in S : Ref(p, e)
          /\ \A e : e \in B <=> \E p \in T : Ref(p, e)
      BY <3>1, RefsIs
    <3> HIDE DEF Ref, A, B
    <3> QED
      BY <3>2 DEF U
  <2>2. ASSUME NEW e, e \in A, e \in B PROVE FALSE
    <3>1. e[1] \in S /\ e[1] \in T
      BY <2>2, RefsIs
    <3> QED
      BY <3>1
  <2> HIDE DEF A, B
  <2> QED
    BY <2>1, <2>2
<1>2. IsFiniteSet(A) /\ IsFiniteSet(B)
  BY RefsType
<1>3. /\ RefsFrom(S \cup T, o) = Cardinality(Refs(S \cup T, o))
      /\ RefsFrom(S, o) = Cardinality(A) /\ RefsFrom(T, o) = Cardinality(B)
  BY RefsIs
<1> HIDE DEF A, B
<1>4. Cardinality(A \cap B) = 0 /\ Cardinality(A) \in Nat /\ Cardinality(B) \in Nat
  BY <1>1, <1>2, FS_EmptySet, FS_CardinalityType
<1>5. Cardinality(A \cup B) = Cardinality(A) + Cardinality(B) - Cardinality(A \cap B)
  BY <1>2, FS_Union
<1> QED
  BY <1>1, <1>3, <1>4, <1>5

-----------------------------------------------------------------------------
(* The invariant.                                                          *)

Types ==
    /\ rc \in [Objects -> Nat]
    /\ wrapper \in [Wrappers -> Objects \cup {Nothing}]
    /\ owner \in [Wrappers -> Threads \cup {Nothing}]
    /\ lent \subseteq [wrapper : Wrappers, text : Strings]
    /\ tls \in [Threads -> Strings \cup {Nothing}]
    /\ todo \in [Threads -> Seq(Effects)]
    /\ using \in [Threads -> Wrappers \cup {Nothing}]
    /\ reg \in [Threads -> Nat]

\* The object whose method a thread runs.
Serves(t) == IF using[t] = Nothing THEN Nothing ELSE wrapper[using[t]]
Serving ==
    \A t \in Threads : /\ using[t] # Nothing => wrapper[using[t]] # Nothing
                       /\ todo[t] = <<>> => using[t] = Nothing
Owned == \A w \in Wrappers : wrapper[w] # Nothing => owner[w] \in Threads

\* A handle goes to a wrapper that is waiting for it and for no other.
WrapsTo(w) == {e \in Effects : e.op = "wrap" /\ e.to = w}
Wrapping ==
    \A w \in Wrappers, t \in Threads :
        /\ Count(todo[t], WrapsTo(w)) <= 1
        /\ Count(todo[t], WrapsTo(w)) # 0 =>
              /\ wrapper[w] = Nothing
              /\ \A u \in Threads : u # t => Count(todo[u], WrapsTo(w)) = 0

\* A call returns at most one string, lent by the object that has it.
Texts == {e \in Effects : e.op \in {"format", "capture", "hold"}}
Fits(e, w) ==
    /\ e.op = "wrap" => e.to # Nothing
    /\ e.op \in {"capture", "hold"} =>
          /\ e.obj \in Strings
          /\ e.to # Nothing =>
                e.to = w /\ e.obj \in FieldSet(wrapper[w]) \cup Static
Texting ==
    \A t \in Threads : /\ Count(todo[t], Texts) <= 1
                       /\ \A i \in 1..Len(todo[t]) : Fits(todo[t][i], using[t])
Borrows ==
    \A b \in lent : /\ wrapper[b.wrapper] # Nothing
                    /\ b.text \in FieldSet(wrapper[b.wrapper]) \cup Static

Books == Types /\ Serving /\ Owned /\ Wrapping /\ Texting /\ Borrows

StaticKept == \A o \in Static : rc[o] = 1
Updating ==
    \A t \in Threads : reg[t] > 0 =>
        /\ Counts(t) /\ Head(todo[t]).obj \notin Static
        /\ reg[t] = rc[Head(todo[t]).obj]
CallsLegal == \A t \in Threads : Legal(todo[t], Serves(t))
MentionsLive == \A t \in Threads : \A i \in 1..Len(todo[t]) : Live(todo[t][i].obj)

\* Each object is of one thread, which alone counts its references.
Homes(home) ==
    /\ home \in [Objects -> Threads]
    /\ \A t \in Threads : \A i \in 1..Len(todo[t]) :
          todo[t][i].obj \notin Static => home[todo[t][i].obj] = t
    /\ \A w \in Wrappers : wrapper[w] \in Objects \ Static => home[wrapper[w]] = owner[w]
    /\ \A t \in Threads : Held(t) \in Objects \ Static => home[Held(t)] = t
    /\ \A o \in Heap : \A p \in FieldSet(o) \ Static : home[p] = home[o]

Wrappings(o) == Cardinality({w \in Wrappers : wrapper[w] = o})
Holdings(o) == Cardinality({t \in Threads : Held(t) = o})
Even(home) ==
    \A o \in Objects \ Static :
        rc[o] = Net(todo[home[o]], o) + Wrappings(o) + Holdings(o) + RefsFrom(Heap, o)

Accounts(home) == StaticKept /\ Updating /\ CallsLegal /\ MentionsLive /\ Homes(home) /\ Even(home)

HandlesInv == Books /\ \E home : Accounts(home)

LEMMA Distinct ==
    /\ \A w \in Wrappers : w # Nothing
    /\ \A o \in Objects : o # Nothing
    /\ \A t \in Threads : t # Nothing
    /\ Strings \subseteq Objects /\ Static \subseteq Objects
BY NothingAssumption, ObjectsAssumption DEF Objects

LEMMA Amounts ==
    ASSUME NEW o
    PROVE  /\ Wrappings(o) \in Nat /\ (Wrappings(o) = 0 <=> \A w \in Wrappers : wrapper[w] # o)
           /\ Holdings(o) \in Nat /\ (Holdings(o) = 0 <=> \A t \in Threads : Held(t) # o)
           /\ IsFiniteSet({w \in Wrappers : wrapper[w] = o})
           /\ IsFiniteSet({t \in Threads : Held(t) = o})
<1> DEFINE W == {w \in Wrappers : wrapper[w] = o}
           T == {t \in Threads : Held(t) = o}
<1>1. IsFiniteSet(W) /\ IsFiniteSet(T)
  BY CallersAssumption, FS_Subset
<1>2. Cardinality(W) \in Nat /\ (Cardinality(W) = 0 <=> W = {})
  BY <1>1, FS_CardinalityType, FS_EmptySet
<1>3. Cardinality(T) \in Nat /\ (Cardinality(T) = 0 <=> T = {})
  BY <1>1, FS_CardinalityType, FS_EmptySet
<1> QED
  BY <1>1, <1>2, <1>3 DEF Wrappings, Holdings

\* Whatever is referred to is in memory, and what is not is nowhere.
LEMMA Referred ==
    ASSUME Books, NEW home, Accounts(home), NEW o \in Objects
    PROVE  /\ \A w \in Wrappers : wrapper[w] = o => Live(o)
           /\ \A t \in Threads : Held(t) = o => Live(o)
           /\ \A p \in Objects : Live(p) /\ o \in FieldSet(p) => Live(o)
           /\ o \notin Static => /\ Net(todo[home[o]], o) >= 0
                                 /\ Net(todo[home[o]], o) \in Int
                                 /\ RefsFrom(Heap, o) \in Nat
                                 /\ ~Live(o) => /\ Net(todo[home[o]], o) = 0
                                                /\ RefsFrom(Heap, o) = 0
<1>1. CASE o \in Static
  BY <1>1 DEF Accounts, StaticKept, Live
<1>2. CASE o \notin Static
  <2> DEFINE t == home[o]
             n == Net(todo[t], o)
             r == RefsFrom(Heap, o)
  <2>1. t \in Threads /\ todo[t] \in Seq(Effects)
    BY DEF Accounts, Homes, Books, Types
  <2>2. n \in Int /\ n >= 0
    BY <2>1, NetType, LegalNow DEF Accounts, CallsLegal, Sound
  <2>3. Heap \in SUBSET Objects
    BY DEF Heap
  <2>4. r \in Nat /\ (r = 0 <=> \A p \in Heap : o \notin FieldSet(p))
    BY <2>3, RefsType
  <2>5. rc[o] = n + Wrappings(o) + Holdings(o) + r /\ rc[o] \in Nat
    BY <1>2 DEF Accounts, Even, Books, Types
  <2> HIDE DEF n, r, t
  <2>6. Wrappings(o) \in Nat /\ Holdings(o) \in Nat
    BY Amounts
  <2>7. ~Live(o) => n = 0 /\ Wrappings(o) = 0 /\ Holdings(o) = 0 /\ r = 0
    BY <2>2, <2>4, <2>5, <2>6 DEF Live
  <2>8. \A p \in Objects : Live(p) /\ o \in FieldSet(p) => p \in Heap
    BY <1>2, StaticAssumption DEF Heap
  <2>9. /\ \A w \in Wrappers : wrapper[w] = o => Live(o)
        /\ \A u \in Threads : Held(u) = o => Live(o)
    BY <2>7, Amounts
  <2> QED
    BY <2>2, <2>4, <2>7, <2>8, <2>9 DEF n, r, t
<1> QED
  BY <1>1, <1>2

-----------------------------------------------------------------------------
(* Beginning a call on an object.                                          *)

\* What the program p of a call by wrapper w has to be like.
Proper(p, w) ==
    /\ p \in Seq(Effects)
    /\ \A u \in Wrappers : /\ Count(p, WrapsTo(u)) <= 1
                           /\ Count(p, WrapsTo(u)) # 0 => Unused(u)
    /\ Count(p, Texts) <= 1
    /\ \A i \in 1..Len(p) : p[i].op # "hold" /\ Fits(p[i], w)

\* No wrapper is waited for twice.
LEMMA UnusedNowhere ==
    ASSUME Types, NEW w \in Wrappers, Unused(w), NEW t \in Threads
    PROVE  wrapper[w] = Nothing /\ Count(todo[t], WrapsTo(w)) = 0
<1>1. todo[t] \in Seq(Effects) /\ DOMAIN todo[t] = 1..Len(todo[t])
  BY DEF Types
<1>2. \A i \in 1..Len(todo[t]) : todo[t][i] \notin WrapsTo(w)
  BY <1>1 DEF Unused, WrapsTo
<1> QED
  BY <1>1, <1>2, CountType DEF Unused

LEMMA BeginBooks ==
    ASSUME Books, NEW t \in Threads, Idle(t), NEW w \in Wrappers \cup {Nothing},
           w # Nothing => wrapper[w] # Nothing,
           NEW p, p # <<>>, Proper(p, w), Begin(t, w, p), rc' \in [Objects -> Nat],
           UNCHANGED <<wrapper, owner, lent, tls, reg>>
    PROVE  Books'
<1>1. /\ p \in Seq(Effects) /\ todo' = [todo EXCEPT ![t] = p]
      /\ using' = [using EXCEPT ![t] = w]
  BY DEF Proper, Begin
<1>2. /\ todo' \in [Threads -> Seq(Effects)] /\ using' \in [Threads -> Wrappers \cup {Nothing}]
      /\ todo'[t] = p /\ \A u \in Threads : u # t => todo'[u] = todo[u]
      /\ using'[t] = w /\ \A u \in Threads : u # t => using'[u] = using[u]
  BY <1>1 DEF Books, Types
<1>3. Types'
  BY <1>2 DEF Books, Types
<1>4. Serving'
  BY <1>2 DEF Books, Serving
<1>5. Owned' /\ Borrows'
  BY DEF Books, Owned, Borrows
<1>6. Wrapping'
  <2> SUFFICES ASSUME NEW v \in Wrappers, NEW u \in Threads
               PROVE  /\ Count(todo'[u], WrapsTo(v)) <= 1
                      /\ Count(todo'[u], WrapsTo(v)) # 0 =>
                            /\ wrapper'[v] = Nothing
                            /\ \A x \in Threads : x # u => Count(todo'[x], WrapsTo(v)) = 0
    BY DEF Wrapping, WrapsTo, Count
  <2>1. \A x \in Threads \ {t} : todo'[x] = todo[x]
    BY <1>2
  <2>2. CASE Count(p, WrapsTo(v)) # 0
    <3>1. wrapper[v] = Nothing /\ \A x \in Threads : Count(todo[x], WrapsTo(v)) = 0
      BY <2>2, UnusedNowhere DEF Proper, Books
    <3>2. Count(p, WrapsTo(v)) <= 1
      BY DEF Proper
    <3>3. CASE u = t
      BY <1>2, <3>1, <3>2, <3>3
    <3>4. CASE u # t
      <4>1. todo'[u] = todo[u]
        BY <1>2, <3>4
      <4>2. Count(todo'[u], WrapsTo(v)) = 0
        BY <3>1, <4>1
      <4> QED
        BY <4>2
    <3> QED
      BY <3>3, <3>4
  <2>3. CASE Count(p, WrapsTo(v)) = 0
    <3>1. /\ Count(todo[u], WrapsTo(v)) <= 1
          /\ Count(todo[u], WrapsTo(v)) # 0 =>
                /\ wrapper[v] = Nothing
                /\ \A x \in Threads : x # u => Count(todo[x], WrapsTo(v)) = 0
      BY DEF Books, Wrapping
    <3>2. CASE u = t
      BY <1>2, <2>3, <3>2
    <3>3. CASE u # t
      BY <1>2, <2>3, <3>1, <3>3
    <3> QED
      BY <3>2, <3>3
  <2> QED
    BY <2>2, <2>3
<1>7. Texting'
  <2> SUFFICES ASSUME NEW u \in Threads
               PROVE  /\ Count(todo'[u], Texts) <= 1
                      /\ \A i \in 1..Len(todo'[u]) : Fits(todo'[u][i], using'[u])
    BY DEF Texting, Texts, Count, Fits, Effects
  <2>1. CASE u = t
    BY <1>2, <2>1 DEF Proper
  <2>2. CASE u # t
    BY <1>2, <2>2 DEF Books, Texting
  <2> QED
    BY <2>1, <2>2
<1> QED
  BY <1>3, <1>4, <1>5, <1>6, <1>7 DEF Books

LEMMA HeldKept ==
    ASSUME Types, NEW u \in Threads, UNCHANGED tls,
           todo'[u] = todo[u]
        \/ /\ todo'[u] \in Seq(Effects)
           /\ \A i \in 1..Len(todo[u]) : todo[u][i].op # "hold"
           /\ \A i \in 1..Len(todo'[u]) : todo'[u][i].op # "hold"
    PROVE  Held(u)' = Held(u)
<1>1. CASE todo'[u] = todo[u]
  BY <1>1 DEF Held, Replacing
<1>2. CASE todo'[u] # todo[u]
  <2>1. /\ todo[u] \in Seq(Effects) /\ DOMAIN todo[u] = 1..Len(todo[u])
        /\ DOMAIN todo'[u] = 1..Len(todo'[u])
    BY <1>2 DEF Types
  <2>2. ~Replacing(u) /\ ~Replacing(u)'
    BY <1>2, <2>1 DEF Replacing
  <2> QED
    BY <2>2 DEF Held
<1> QED
  BY <1>1, <1>2

\* No thread is given another string.
LastKept == \A u \in Threads : Held(u)' = Held(u)

\* A call on the object of a wrapper of this thread that names this object and
\* those it refers to, and takes as much as it gives.
Modest(p, v) ==
    /\ Legal(p, v)
    /\ \A o \in Objects : Net(p, o) = 0
    /\ \A i \in 1..Len(p) : p[i].obj \in {v} \cup FieldSet(v) \cup Static

LEMMA OwnUser ==
    ASSUME Confined, Books, NEW t \in Threads, NEW w \in Wrappers, MayUse(t, w)
    PROVE  wrapper[w] \in Objects /\ owner[w] = t
BY DEF Confined, Books, Types, Owned, MayUse

LEMMA CallKeeps ==
    ASSUME Confined, HandlesInv, NEW t \in Threads, Idle(t), NEW w \in Wrappers, MayUse(t, w),
           NEW p, p # <<>>, Proper(p, w), Modest(p, wrapper[w]), Call(t, w, p)
    PROVE  HandlesInv' /\ LastKept
<1> DEFINE v == wrapper[w]
<1>1. /\ UNCHANGED <<rc, wrapper, owner, lent, tls, reg>> /\ Begin(t, w, p)
      /\ todo' = [todo EXCEPT ![t] = p] /\ using' = [using EXCEPT ![t] = w]
  BY DEF Call, Begin
<1>2. Books /\ Types
  BY DEF HandlesInv, Books
<1>3. PICK home : Accounts(home)
  BY DEF HandlesInv
<1>4. v \in Objects /\ owner[w] = t
  BY <1>2, OwnUser
<1>5. Books'
  BY <1>1, <1>2, <1>4, BeginBooks DEF Types, MayUse
<1>6. /\ p \in Seq(Effects) /\ todo[t] = <<>>
      /\ todo'[t] = p /\ \A u \in Threads : u # t => todo'[u] = todo[u]
      /\ using'[t] = w /\ \A u \in Threads : u # t => using'[u] = using[u]
  BY <1>1, <1>2 DEF Proper, Types, Idle
<1>7. \A u \in Threads : Held(u)' = Held(u)
  <2> SUFFICES ASSUME NEW u \in Threads PROVE Held(u)' = Held(u)
    OBVIOUS
  <2>1. CASE u = t
    <3>1. Len(todo[t]) = 0 /\ \A i \in 1..Len(p) : p[i].op # "hold"
      BY <1>6 DEF Proper
    <3> QED
      BY <1>1, <1>2, <1>6, <2>1, <3>1, HeldKept
  <2>2. CASE u # t
    BY <1>1, <1>2, <1>6, <2>2, HeldKept
  <2> QED
    BY <2>1, <2>2
<1>8. \A o \in Objects : Live(o)' = Live(o)
  BY <1>1 DEF Live
<1>9. Heap' = Heap
  BY <1>1 DEF Heap, Live
<1>10. StaticKept'
  BY <1>1, <1>3 DEF Accounts, StaticKept
<1>11. Updating'
  <2>1. ASSUME NEW u \in Threads, reg'[u] > 0 PROVE u # t
    BY <1>1, <1>3, <1>6, <2>1 DEF Accounts, Updating, Counts, Doing, Idle
  <2> QED
    BY <1>1, <1>3, <1>6, <2>1 DEF Accounts, Updating, Counts, Doing, Idle
<1>12. CallsLegal'
  <2> SUFFICES ASSUME NEW u \in Threads PROVE Legal(todo'[u], Serves(u)')
    BY DEF CallsLegal, Legal, Sound, Rest, Net, Count, Gives, Takes, Effects, Leads
  <2>1. CASE u = t
    <3>1. Serves(t)' = v
      BY <1>1, <1>6, Distinct DEF Serves
    <3> QED
      BY <1>6, <2>1, <3>1 DEF Modest
  <2>2. CASE u # t
    <3>1. Serves(u)' = Serves(u)
      BY <1>1, <1>6, <2>2 DEF Serves
    <3> QED
      BY <1>3, <1>6, <2>2, <3>1 DEF Accounts, CallsLegal
  <2> QED
    BY <2>1, <2>2
<1>13. \A i \in 1..Len(p) : p[i].obj \in Objects /\ Live(p[i].obj)
  <2>1. Live(v) /\ \A o \in FieldSet(v) : o \in Objects /\ Live(o)
    BY <1>2, <1>3, <1>4, Referred, FieldTypes
  <2>2. \A o \in Static : o \in Objects /\ Live(o)
    BY <1>3, Distinct DEF Accounts, StaticKept, Live
  <2> QED
    BY <1>4, <2>1, <2>2 DEF Modest
<1>14. MentionsLive'
  <2> SUFFICES ASSUME NEW u \in Threads, NEW i \in 1..Len(todo'[u])
               PROVE  Live(todo'[u][i].obj)
    BY <1>1 DEF MentionsLive, Live
  <2> QED
    BY <1>3, <1>6, <1>13 DEF Accounts, MentionsLive
<1>15. Homes(home)'
  <2>1. ASSUME NEW i \in 1..Len(p), p[i].obj \notin Static PROVE home[p[i].obj] = t
    <3>1. p[i].obj \in {v} \cup FieldSet(v)
      BY <2>1 DEF Modest
    <3>2. v \notin Static
      BY <2>1, <3>1, <1>4, StaticAssumption
    <3>3. v \in Heap /\ home[v] = t
      BY <1>2, <1>3, <1>4, <3>2, Referred DEF Accounts, Homes, Heap
    <3>4. \A o \in FieldSet(v) \ Static : home[o] = home[v]
      BY <1>3, <3>3 DEF Accounts, Homes
    <3> QED
      BY <2>1, <3>1, <3>3, <3>4
  <2>2. ASSUME NEW u \in Threads, NEW i \in 1..Len(todo'[u]), todo'[u][i].obj \notin Static
        PROVE  home[todo'[u][i].obj] = u
    BY <1>3, <1>6, <2>1, <2>2 DEF Accounts, Homes
  <2>3. \A u \in Threads : Held(u)' \in Objects \ Static => home[Held(u)'] = u
    BY <1>3, <1>7 DEF Accounts, Homes
  <2> QED
    BY <1>1, <1>3, <1>9, <2>2, <2>3 DEF Accounts, Homes
<1>16. Even(home)'
  <2> SUFFICES ASSUME NEW o \in Objects \ Static
               PROVE  rc[o] = Net(todo'[home[o]], o) + Wrappings(o) + Holdings(o) + RefsFrom(Heap, o)
    <3>1. \A o : Wrappings(o)' = Wrappings(o)
      BY <1>1 DEF Wrappings
    <3>2. \A o : Holdings(o)' = Holdings(o)
      BY <1>7 DEF Holdings
    <3> QED
      BY <1>1, <1>9, <3>1, <3>2 DEF Even, Net, Count, Gives, Takes, Effects, RefsFrom
  <2>1. Net(todo'[home[o]], o) = Net(todo[home[o]], o)
    <3>1. home[o] \in Threads
      BY <1>3 DEF Accounts, Homes
    <3>2. Net(p, o) = 0 /\ Net(<<>>, o) = 0
      BY NetEmpty DEF Modest
    <3> QED
      BY <1>6, <3>1, <3>2
  <2> QED
    BY <1>3, <2>1 DEF Accounts, Even
<1>17. Accounts(home)'
  BY <1>10, <1>11, <1>12, <1>14, <1>15, <1>16 DEF Accounts
<1> QED
  BY <1>5, <1>7, <1>17 DEF HandlesInv, LastKept

-----------------------------------------------------------------------------
(* The calls' programs.                                                    *)

LEMMA EffectTypes ==
    ASSUME NEW o \in Objects, NEW w \in Wrappers \cup {Nothing}
    PROVE  /\ Inc(o) \in Effects /\ Inc(o).op = "inc" /\ Inc(o).obj = o
           /\ Dec(o) \in Effects /\ Dec(o).op = "dec" /\ Dec(o).obj = o
           /\ Format(o) \in Effects /\ Format(o).op = "format" /\ Format(o).obj = o
           /\ Capture(o, w) \in Effects /\ Capture(o, w).op = "capture"
           /\ Capture(o, w).obj = o /\ Capture(o, w).to = w
           /\ Hold(o, w) \in Effects /\ Hold(o, w).op = "hold"
           /\ Hold(o, w).obj = o /\ Hold(o, w).to = w
           /\ Wrap(o, w) \in Effects /\ Wrap(o, w).op = "wrap"
           /\ Wrap(o, w).obj = o /\ Wrap(o, w).to = w
BY DEF Inc, Dec, Format, Capture, Hold, Wrap, Effects

LEMMA IncDec ==
    ASSUME NEW o \in Objects
    PROVE  /\ Inc(o) \in Effects /\ Inc(o).op = "inc" /\ Inc(o).obj = o
           /\ Dec(o) \in Effects /\ Dec(o).op = "dec" /\ Dec(o).obj = o
BY DEF Inc, Dec, Effects

LEMMA ConcatAssoc ==
    ASSUME NEW a \in Seq(Effects), NEW b \in Seq(Effects), NEW c \in Seq(Effects)
    PROVE  (a \o b) \o c = a \o (b \o c)
OBVIOUS

LEMMA ConcatIs ==
    ASSUME NEW a \in Seq(Effects), NEW b \in Seq(Effects)
    PROVE  /\ a \o b \in Seq(Effects) /\ Len(a \o b) = Len(a) + Len(b)
           /\ Len(a) \in Nat /\ Len(b) \in Nat
           /\ \A i \in 1..Len(a) : (a \o b)[i] = a[i]
           /\ \A i \in 1..Len(b) : (a \o b)[Len(a) + i] = b[i]
OBVIOUS

LEMMA NotEmpty ==
    ASSUME NEW s, Len(s) \in Nat \ {0}
    PROVE  s # <<>>
<1>1. Len(<<>>) = 0
  OBVIOUS
<1>2. ASSUME s = <<>> PROVE FALSE
  <2>1. Len(s) = Len(<<>>)
    BY <1>2
  <2> QED
    BY <1>1, <2>1
<1> QED
  BY <1>2

LEMMA Pair ==
    ASSUME NEW a \in Effects, NEW b \in Effects
    PROVE  <<a>> \o <<b>> = <<a, b>>
<1> DEFINE u == <<a>> \o <<b>>
           v == <<a, b>>
<1>1. u \in Seq(Effects) /\ Len(u) = 2 /\ u[1] = a /\ u[2] = b
  OBVIOUS
<1>2. v \in Seq(Effects) /\ Len(v) = 2 /\ v[1] = a /\ v[2] = b
  OBVIOUS
<1> HIDE DEF u, v
<1>3. \A i \in 1..2 : i = 1 \/ i = 2
  OBVIOUS
<1>4. u = v
  BY <1>1, <1>2, <1>3, SameEffects
<1> QED
  BY <1>4 DEF u, v

LEMMA ConcatEmpty ==
    ASSUME NEW a \in Seq(Effects)
    PROVE  a \o <<>> = a /\ <<>> \o a = a
OBVIOUS

\* A reference to x is taken, whose holder is known, and given up.
LEMMA InspectLegal ==
    ASSUME NEW s \in Seq(Effects), NEW v, Legal(s, v), NEW x \in Objects,
           x \in Static \/ x = v \/ Net(s, x) >= 1
    PROVE  /\ Inspect(x) \in Seq(Effects) /\ Inspect(x) \o s \in Seq(Effects)
           /\ Legal(Inspect(x) \o s, v)
           /\ \A o : Net(Inspect(x), o) = 0
           /\ \A o : Net(Inspect(x) \o s, o) = Net(s, o)
<1> DEFINE a == <<Dec(x)>> \o s
           b == <<Inc(x)>> \o a
<1>1. /\ Inc(x) \in Effects /\ Inc(x).op = "inc" /\ Inc(x).obj = x
      /\ Dec(x) \in Effects /\ Dec(x).op = "dec" /\ Dec(x).obj = x
  BY IncDec
<1>2. /\ a \in Seq(Effects) /\ Legal(a, v)
      /\ \A o : Net(a, o) = Net(s, o) + Weight(Dec(x), o) /\ Net(s, o) \in Int
  BY <1>1, LegalGives, NetCons, NetType
<1>3. Inspect(x) \in Seq(Effects) /\ Inspect(x) \o s = b
  BY <1>1 DEF Inspect
<1> HIDE DEF a
<1>4. Net(s, x) >= 0
  BY LegalNow DEF Sound
<1>5. Net(a, x) >= 1 /\ (Net(s, x) >= 1 => Net(a, x) >= 2)
  BY <1>1, <1>2, <1>4, WeightType
<1>6. Grants(a, v, x)
  BY <1>5 DEF Grants, Leads
<1>7. b \in Seq(Effects) /\ Legal(b, v)
  BY <1>1, <1>2, <1>5, <1>6, LegalTakes, NetCons
<1>8. ASSUME NEW o PROVE Net(b, o) = Net(s, o)
  <2>1. Net(b, o) = Net(a, o) + Weight(Inc(x), o)
    BY <1>1, <1>2, NetCons
  <2>2. Weight(Inc(x), o) = 0 - Weight(Dec(x), o) /\ Weight(Dec(x), o) \in Int
    BY <1>1 DEF Weight
  <2> QED
    BY <1>2, <2>1, <2>2
<1> HIDE DEF b
<1>9. ASSUME NEW o PROVE Net(Inspect(x), o) = 0
  <2>1. Net(Inspect(x) \o s, o) = Net(Inspect(x), o) + Net(s, o)
    BY <1>3, NetConcat
  <2>2. Net(Inspect(x), o) \in Int /\ Net(s, o) \in Int
    BY <1>3, NetType
  <2> QED
    BY <1>3, <1>8, <2>1, <2>2
<1> QED
  BY <1>3, <1>7, <1>8, <1>9

LEMMA UnpackedIs == \A o : Unpacked(o) = Inspect(o)
BY DEF Unpacked, Inspect

\* Of an object that is held, one that it refers to is taken.
LEMMA AccessLegal ==
    ASSUME NEW s \in Seq(Effects), NEW v, Legal(s, v), NEW x \in Objects,
           x \in Static \/ x = v \/ Net(s, x) >= 1,
           NEW o \in FieldSet(x) \cup Static, Net(s, o) >= 1
    PROVE  /\ Access(x, o) \in Seq(Effects) /\ Access(x, o) \o s \in Seq(Effects)
           /\ Legal(Access(x, o) \o s, v)
           /\ \A q : Net(Access(x, o) \o s, q) = Net(s, q) - (IF q = o THEN 1 ELSE 0)
<1> DEFINE a == <<Dec(x)>> \o s
           b == <<Inc(o)>> \o a
           c == <<Inc(x)>> \o b
<1>0. o \in Objects
  BY FieldTypes, Distinct
<1>1. /\ Inc(x) \in Effects /\ Inc(x).op = "inc" /\ Inc(x).obj = x
      /\ Dec(x) \in Effects /\ Dec(x).op = "dec" /\ Dec(x).obj = x
      /\ Inc(o) \in Effects /\ Inc(o).op = "inc" /\ Inc(o).obj = o
  BY <1>0, IncDec
<1>2. /\ a \in Seq(Effects) /\ Legal(a, v)
      /\ \A q : Net(a, q) = Net(s, q) + Weight(Dec(x), q) /\ Net(s, q) \in Int
  BY <1>1, LegalGives, NetCons, NetType
<1>3. Access(x, o) \in Seq(Effects) /\ Access(x, o) \o s = c
  BY <1>1 DEF Access
<1> HIDE DEF a
<1>4. Net(s, x) >= 0 /\ Weight(Dec(x), x) = 1 /\ Weight(Dec(x), o) >= 0
      /\ Weight(Dec(x), x) \in Int /\ Weight(Dec(x), o) \in Int
  BY <1>1, LegalNow DEF Sound, Weight
<1>5. Net(a, x) >= 1 /\ Net(a, o) >= 1 /\ Net(a, x) = Net(s, x) + 1
  BY <1>2, <1>4
<1>6. Grants(a, v, o)
  <2>1. CASE o \in Static
    BY <2>1 DEF Grants
  <2>2. CASE o \in FieldSet(x)
    <3>1. x # o
      BY <2>2, FieldTypes
    <3> QED
      BY <1>5, <2>2, <3>1 DEF Grants
  <2> QED
    BY <2>1, <2>2
<1>7. b \in Seq(Effects) /\ Legal(b, v)
  BY <1>0, <1>1, <1>2, <1>5, <1>6, LegalTakes, NetCons
<1>8. \A q : Net(b, q) = Net(a, q) + Weight(Inc(o), q)
  BY <1>1, <1>2, NetCons
<1> HIDE DEF b
<1>9. Net(b, x) >= 1 /\ Grants(b, v, x)
  <2>1. CASE x = o
    <3>1. o \in Static
      BY <2>1, FieldTypes
    <3>2. Net(a, o) >= 2
      BY <1>2, <1>4, <1>5, <2>1
    <3>3. Net(b, o) = Net(a, o) - 1 /\ Net(a, o) \in Int
      BY <1>1, <1>2, <1>8, NetType, WeightType
    <3> QED
      BY <2>1, <3>1, <3>2, <3>3 DEF Grants
  <2>2. CASE x # o
    <3>1. Net(b, x) = Net(a, x) + 0 /\ Net(a, x) \in Int /\ Net(s, x) \in Int
      BY <1>1, <1>2, <1>8, <2>2, NetType, WeightType
    <3>2. Net(b, x) >= 1 /\ (Net(s, x) >= 1 => Net(b, x) >= 2)
      BY <1>5, <3>1
    <3> QED
      BY <3>2 DEF Grants, Leads
  <2> QED
    BY <2>1, <2>2
<1>10. c \in Seq(Effects) /\ Legal(c, v)
  BY <1>1, <1>7, <1>9, LegalTakes, NetCons
<1>11. ASSUME NEW q PROVE Net(c, q) = Net(s, q) - (IF q = o THEN 1 ELSE 0)
  <2>1. Net(c, q) = Net(b, q) + Weight(Inc(x), q)
    BY <1>1, <1>7, NetCons
  <2>2. /\ Weight(Inc(x), q) = 0 - Weight(Dec(x), q) /\ Weight(Dec(x), q) \in Int
        /\ Weight(Inc(o), q) = 0 - (IF q = o THEN 1 ELSE 0)
    BY <1>1 DEF Weight
  <2>3. Net(a, q) = Net(s, q) + Weight(Dec(x), q) /\ Net(s, q) \in Int
    BY <1>2
  <2>4. Net(b, q) = Net(a, q) + Weight(Inc(o), q)
    BY <1>8
  <2> QED
    BY <2>1, <2>2, <2>3, <2>4
<1> QED
  BY <1>3, <1>10, <1>11

\* A last effect that gives up or hands over.
LEMMA LastLegal ==
    ASSUME NEW e \in Effects, e.op # "inc", NEW v
    PROVE  /\ <<e>> \in Seq(Effects) /\ Legal(<<e>>, v)
           /\ \A o : Net(<<e>>, o) = IF o = e.obj THEN 1 ELSE 0
<1> DEFINE s == <<>>
<1>1. s \in Seq(Effects) /\ <<e>> \o s = <<e>> /\ Legal(s, v)
  BY LegalEmpty
<1>2. \A o : Net(s, o) = 0
  BY NetEmpty
<1> HIDE DEF s
<1>3. Legal(<<e>> \o s, v)
  BY <1>1, LegalGives
<1>4. ASSUME NEW o PROVE Net(<<e>> \o s, o) = IF o = e.obj THEN 1 ELSE 0
  <2>1. Net(<<e>> \o s, o) = Net(s, o) + Weight(e, o)
    BY <1>1, NetCons
  <2>2. Weight(e, o) = IF o = e.obj THEN 1 ELSE 0
    BY DEF Weight
  <2> QED
    BY <1>2, <2>1, <2>2
<1> DEFINE u == <<e>> \o s
<1>5. Legal(u, v) /\ u = <<e>> /\ \A o : Net(u, o) = IF o = e.obj THEN 1 ELSE 0
  BY <1>1, <1>3, <1>4
<1>6. <<e>> \in Seq(Effects)
  OBVIOUS
<1> HIDE DEF u
<1> QED
  BY <1>5, <1>6

\* Programs that only count.
Plain(a) == a \in Seq(Effects) /\ \A i \in 1..Len(a) : a[i].op \in {"inc", "dec"}

LEMMA PlainConcat ==
    ASSUME NEW a, NEW b, Plain(a), Plain(b)
    PROVE  Plain(a \o b)
<1> DEFINE s == a \o b
<1>1. /\ a \in Seq(Effects) /\ b \in Seq(Effects)
      /\ \A i \in 1..Len(a) : a[i].op \in {"inc", "dec"}
      /\ \A i \in 1..Len(b) : b[i].op \in {"inc", "dec"}
  BY DEF Plain
<1>2. /\ s \in Seq(Effects) /\ Len(s) = Len(a) + Len(b)
      /\ \A i \in 1..Len(a) : s[i] = a[i]
      /\ \A i \in 1..Len(b) : s[Len(a) + i] = b[i]
      /\ Len(a) \in Nat /\ Len(b) \in Nat
  BY <1>1
<1> HIDE DEF s
<1>3. ASSUME NEW i \in 1..Len(s) PROVE s[i].op \in {"inc", "dec"}
  <2>1. CASE i <= Len(a)
    <3>1. i \in 1..Len(a)
      BY <1>2, <2>1
    <3> QED
      BY <1>1, <1>2, <3>1
  <2>2. CASE i > Len(a)
    <3>1. i - Len(a) \in 1..Len(b) /\ Len(a) + (i - Len(a)) = i
      BY <1>2, <2>2
    <3>2. s[Len(a) + (i - Len(a))] = b[i - Len(a)]
      BY <1>2, <3>1
    <3> QED
      BY <1>1, <3>1, <3>2
  <2> QED
    BY <1>2, <2>1, <2>2
<1> QED
  BY <1>2, <1>3 DEF Plain, s

LEMMA PlainPrograms ==
    ASSUME NEW x \in Objects, NEW o \in Objects
    PROVE  /\ Plain(Inspect(x)) /\ Plain(Access(x, o)) /\ Plain(<<Dec(x)>>) /\ Plain(<<Inc(x)>>)
           /\ Len(Inspect(x)) = 2 /\ Len(Access(x, o)) = 3
<1>1. /\ Inc(x) \in Effects /\ Inc(x).op = "inc" /\ Dec(x) \in Effects /\ Dec(x).op = "dec"
      /\ Inc(o) \in Effects /\ Inc(o).op = "inc"
  BY IncDec
<1>2. ASSUME NEW a \in Effects, NEW b \in Effects, NEW c \in Effects,
             a.op \in {"inc", "dec"}, b.op \in {"inc", "dec"}, c.op \in {"inc", "dec"}
      PROVE  Plain(<<a, b>>) /\ Plain(<<a, b, c>>) /\ Plain(<<a>>)
  BY <1>2 DEF Plain
<1> QED
  BY <1>1, <1>2 DEF Inspect, Access

LEMMA PlainCounts ==
    ASSUME NEW a, Plain(a)
    PROVE  /\ \A w : Count(a, WrapsTo(w)) = 0
           /\ Count(a, Texts) = 0
           /\ \A i \in 1..Len(a) : \A w : a[i].op # "hold" /\ Fits(a[i], w)
<1>1. a \in Seq(Effects) /\ \A i \in 1..Len(a) : a[i].op \in {"inc", "dec"}
  BY DEF Plain
<1>2. ASSUME NEW w PROVE Count(a, WrapsTo(w)) = 0
  <2>1. \A i \in 1..Len(a) : a[i] \notin WrapsTo(w)
    BY <1>1 DEF WrapsTo
  <2> QED
    BY <1>1, <2>1, CountType
<1>3. Count(a, Texts) = 0
  <2>1. \A i \in 1..Len(a) : a[i] \notin Texts
    BY <1>1 DEF Texts
  <2> QED
    BY <1>1, <2>1, CountType
<1> QED
  BY <1>1, <1>2, <1>3 DEF Fits

LEMMA ProperPlain ==
    ASSUME NEW a, Plain(a), NEW w
    PROVE  Proper(a, w)
<1>1. a \in Seq(Effects)
  BY DEF Plain
<1>2. \A u \in Wrappers : Count(a, WrapsTo(u)) = 0
  BY PlainCounts
<1>3. Count(a, Texts) = 0
  BY PlainCounts
<1>4. \A i \in 1..Len(a) : a[i].op # "hold" /\ Fits(a[i], w)
  BY PlainCounts
<1> QED
  BY <1>1, <1>2, <1>3, <1>4 DEF Proper

\* One effect more.
LEMMA ProperOn ==
    ASSUME NEW a, NEW w, Proper(a, w), NEW e \in Effects, e.op # "hold", Fits(e, w),
           e.op = "wrap" => \A u \in Wrappers : u = e.to => Unused(u) /\ Count(a, WrapsTo(u)) = 0,
           e \in Texts => Count(a, Texts) = 0
    PROVE  Proper(a \o <<e>>, w)
<1> DEFINE b == <<e>>
           s == a \o b
<1>1. /\ a \in Seq(Effects) /\ b \in Seq(Effects) /\ Len(b) = 1 /\ b[1] = e
      /\ \A u \in Wrappers : /\ Count(a, WrapsTo(u)) <= 1
                             /\ Count(a, WrapsTo(u)) # 0 => Unused(u)
      /\ Count(a, Texts) <= 1
      /\ \A i \in 1..Len(a) : a[i].op # "hold" /\ Fits(a[i], w)
  BY DEF Proper
<1>2. \A X : /\ Count(b, X) = IF e \in X THEN 1 ELSE 0
             /\ Count(s, X) = Count(a, X) + Count(b, X) /\ Count(a, X) \in Nat
  <2> SUFFICES ASSUME NEW X
               PROVE  /\ Count(b, X) = IF e \in X THEN 1 ELSE 0
                      /\ Count(s, X) = Count(a, X) + Count(b, X) /\ Count(a, X) \in Nat
    OBVIOUS
  <2>1. Count(b, X) = IF e \in X THEN 1 ELSE 0
    BY CountOne
  <2> HIDE DEF b
  <2>2. a \in Seq(Effects) /\ b \in Seq(Effects)
    BY <1>1
  <2>3. Count(s, X) = Count(a, X) + Count(b, X)
    BY <2>2, CountConcat
  <2>4. Count(a, X) \in Nat
    BY <2>2, CountType
  <2> QED
    BY <2>1, <2>3, <2>4
<1>3. /\ s \in Seq(Effects) /\ Len(s) = Len(a) + 1 /\ s[Len(a) + 1] = e
      /\ \A i \in 1..Len(a) : s[i] = a[i]
      /\ Len(a) \in Nat
  BY <1>1
<1> HIDE DEF s, b
<1>4. ASSUME NEW i \in 1..Len(s) PROVE s[i].op # "hold" /\ Fits(s[i], w)
  <2>1. i \in 1..Len(a) \/ i = Len(a) + 1
    BY <1>3
  <2> QED
    BY <1>1, <1>3, <2>1
<1>5. ASSUME NEW u \in Wrappers
      PROVE  Count(s, WrapsTo(u)) <= 1 /\ (Count(s, WrapsTo(u)) # 0 => Unused(u))
  <2>1. e \in WrapsTo(u) => Unused(u) /\ Count(a, WrapsTo(u)) = 0
    BY DEF WrapsTo
  <2>2. Count(s, WrapsTo(u)) = Count(a, WrapsTo(u)) + IF e \in WrapsTo(u) THEN 1 ELSE 0
    BY <1>2
  <2> QED
    BY <1>1, <1>2, <2>1, <2>2
<1>6. Count(s, Texts) <= 1
  <2>1. Count(s, Texts) = Count(a, Texts) + IF e \in Texts THEN 1 ELSE 0
    BY <1>2
  <2> QED
    BY <1>1, <1>2, <2>1
<1> QED
  BY <1>3, <1>4, <1>5, <1>6 DEF Proper, s, b

LEMMA ProperLast ==
    ASSUME NEW a, Plain(a), NEW w, NEW e \in Effects, e.op # "hold", Fits(e, w),
           e.op = "wrap" => Unused(e.to)
    PROVE  Proper(a \o <<e>>, w)
<1>1. Proper(a, w) /\ Count(a, Texts) = 0 /\ \A u : Count(a, WrapsTo(u)) = 0
  BY ProperPlain, PlainCounts
<1>2. e.op = "wrap" => \A u \in Wrappers : u = e.to => Unused(u) /\ Count(a, WrapsTo(u)) = 0
  BY <1>1
<1>3. e \in Texts => Count(a, Texts) = 0
  BY <1>1
<1> QED
  BY <1>1, <1>2, <1>3, ProperOn

\* A reference to what v leads to is taken and handed over.
LEMMA ModestAccess ==
    ASSUME NEW v \in Objects, NEW o \in FieldSet(v) \cup Static, NEW e \in Effects,
           e.op # "inc", e.obj = o
    PROVE  /\ Plain(Access(v, o)) /\ Modest(Access(v, o) \o <<e>>, v)
           /\ Access(v, o) \o <<e>> # <<>>
           /\ o \in Objects
<1> DEFINE s == <<e>>
           a == Access(v, o)
           p == a \o s
<1>1. /\ s \in Seq(Effects) /\ Legal(s, v)
      /\ \A q : Net(s, q) = IF q = o THEN 1 ELSE 0
  BY LastLegal
<1>2. o \in Objects
  BY FieldTypes, Distinct
<1>3. Net(s, o) >= 1
  BY <1>1
<1>s. Len(s) = 1 /\ s[1] = e
  OBVIOUS
<1> HIDE DEF s
<1>4. /\ a \in Seq(Effects) /\ p \in Seq(Effects) /\ Legal(p, v)
      /\ \A q : Net(p, q) = Net(s, q) - (IF q = o THEN 1 ELSE 0)
  BY <1>1, <1>3, AccessLegal
<1>5. Plain(a) /\ Len(a) = 3
  BY <1>2, PlainPrograms
<1>6. \A q : Net(p, q) = 0
  BY <1>1, <1>4
<1>7. a[1].obj = v /\ a[2].obj = o /\ a[3].obj = v
  BY <1>2, IncDec DEF Access
<1> HIDE DEF a
<1>8. Len(p) = 4 /\ p[1] = a[1] /\ p[2] = a[2] /\ p[3] = a[3] /\ p[4] = e
  <2>1. /\ Len(p) = Len(a) + Len(s)
        /\ \A i \in 1..Len(a) : p[i] = a[i]
        /\ \A i \in 1..Len(s) : p[Len(a) + i] = s[i]
    BY <1>1, <1>4, ConcatIs
  <2> HIDE DEF p
  <2>2. Len(p) = 4 /\ \A i \in 1..3 : p[i] = a[i]
    BY <1>5, <1>s, <2>1
  <2>3. p[3 + 1] = s[1]
    BY <1>5, <1>s, <2>1
  <2> QED
    BY <1>s, <2>2, <2>3
<1> HIDE DEF p
<1>9. \A i \in 1..Len(p) : p[i].obj \in {v} \cup FieldSet(v) \cup Static
  <2>1. \A i \in 1..4 : i = 1 \/ i = 2 \/ i = 3 \/ i = 4
    OBVIOUS
  <2> QED
    BY <1>7, <1>8, <2>1
<1>10. p # <<>>
  <2>1. Len(p) \in Nat \ {0}
    BY <1>8
  <2> QED
    BY <2>1, NotEmpty
<1>11. Modest(p, v)
  BY <1>4, <1>6, <1>9 DEF Modest
<1> QED
  BY <1>2, <1>5, <1>10, <1>11 DEF a, s, p

\* The same where the content of an Option is taken and the Option given up.
LEMMA ModestUnpacked ==
    ASSUME NEW v \in Objects, NEW o \in FieldSet(v), NEW e \in Effects,
           e.op # "inc", e.obj = o
    PROVE  /\ Plain(Access(v, o) \o Unpacked(o))
           /\ Modest(Access(v, o) \o Unpacked(o) \o <<e>>, v)
           /\ Access(v, o) \o Unpacked(o) \o <<e>> # <<>>
           /\ o \in Objects
<1> DEFINE s == <<e>>
           a == Access(v, o)
           b == Unpacked(o)
           r == b \o s
           p == a \o r
<1>1. /\ s \in Seq(Effects) /\ Legal(s, v)
      /\ \A q : Net(s, q) = IF q = o THEN 1 ELSE 0
  BY LastLegal
<1>2. o \in Objects
  BY FieldTypes
<1>3. Net(s, o) >= 1
  BY <1>1
<1>s. Len(s) = 1 /\ s[1] = e
  OBVIOUS
<1> HIDE DEF s
<1>4. /\ b \in Seq(Effects) /\ r \in Seq(Effects) /\ Legal(r, v)
      /\ \A q : Net(r, q) = Net(s, q)
  BY <1>1, <1>2, <1>3, InspectLegal, UnpackedIs
<1>5. Net(r, o) >= 1
  BY <1>3, <1>4
<1> HIDE DEF r
<1>6. /\ a \in Seq(Effects) /\ p \in Seq(Effects) /\ Legal(p, v)
      /\ \A q : Net(p, q) = Net(r, q) - (IF q = o THEN 1 ELSE 0)
  BY <1>4, <1>5, AccessLegal
<1>7. \A q : Net(p, q) = 0
  BY <1>1, <1>4, <1>6
<1>8. Plain(a) /\ Len(a) = 3 /\ Plain(b) /\ Len(b) = 2
  BY <1>2, PlainPrograms, UnpackedIs
<1>9. a[1].obj = v /\ a[2].obj = o /\ a[3].obj = v /\ b[1].obj = o /\ b[2].obj = o
  BY <1>2, IncDec DEF Access, Unpacked
<1> HIDE DEF a, b
<1>10. /\ Len(r) = 3 /\ r[1] = b[1] /\ r[2] = b[2] /\ r[3] = e
  <2>1. /\ Len(r) = Len(b) + Len(s)
        /\ \A i \in 1..Len(b) : r[i] = b[i]
        /\ \A i \in 1..Len(s) : r[Len(b) + i] = s[i]
    BY <1>1, <1>4, ConcatIs DEF r
  <2>2. Len(r) = 3 /\ \A i \in 1..2 : r[i] = b[i]
    BY <1>8, <1>s, <2>1
  <2>3. r[2 + 1] = s[1]
    BY <1>8, <1>s, <2>1
  <2> QED
    BY <1>s, <2>2, <2>3
<1>11. /\ Len(p) = 6 /\ p[1] = a[1] /\ p[2] = a[2] /\ p[3] = a[3]
       /\ p[4] = r[1] /\ p[5] = r[2] /\ p[6] = r[3]
  <2>1. /\ Len(p) = Len(a) + Len(r)
        /\ \A i \in 1..Len(a) : p[i] = a[i]
        /\ \A i \in 1..Len(r) : p[Len(a) + i] = r[i]
    BY <1>4, <1>6, ConcatIs
  <2> HIDE DEF p
  <2>2. Len(p) = 6 /\ \A i \in 1..3 : p[i] = a[i] /\ p[3 + i] = r[i]
    BY <1>8, <1>10, <2>1
  <2>3. p[3 + 1] = r[1] /\ p[3 + 2] = r[2] /\ p[3 + 3] = r[3]
    BY <2>2
  <2> QED
    BY <2>2, <2>3
<1>12. p = a \o b \o s
  BY <1>1, <1>4, <1>6, ConcatAssoc DEF r
<1> HIDE DEF p
<1>13. \A i \in 1..Len(p) : p[i].obj \in {v} \cup FieldSet(v) \cup Static
  <2>1. \A i \in 1..6 : i = 1 \/ i = 2 \/ i = 3 \/ i = 4 \/ i = 5 \/ i = 6
    OBVIOUS
  <2> QED
    BY <1>9, <1>10, <1>11, <2>1
<1>14. p # <<>>
  <2>1. Len(p) \in Nat \ {0}
    BY <1>11
  <2> QED
    BY <2>1, NotEmpty
<1>15. Modest(p, v)
  BY <1>6, <1>7, <1>13 DEF Modest
<1>16. Plain(a \o b)
  BY <1>8, PlainConcat
<1> QED
  BY <1>2, <1>12, <1>14, <1>15, <1>16 DEF a, b, s

LEMMA InspectKeeps ==
    ASSUME Confined, HandlesInv, NEW t \in Threads, Idle(t), NEW w \in Wrappers, MayUse(t, w),
           InspectValue(t, w)
    PROVE  HandlesInv' /\ LastKept
<1> DEFINE v == wrapper[w]
           p == Inspect(v)
<1>1. v \in Objects
  BY DEF HandlesInv, Books, Types, MayUse
<1>2. Call(t, w, p)
  BY DEF InspectValue
<1>3. Plain(p) /\ Len(p) = 2
  BY <1>1, PlainPrograms
<1>4. p[1].obj = v /\ p[2].obj = v
  BY <1>1, IncDec DEF Inspect
<1>5. Legal(p, v) /\ \A o : Net(p, o) = 0
  <2> DEFINE s == <<>>
  <2>1. s \in Seq(Effects) /\ Legal(s, v)
    BY LegalEmpty
  <2>2. \A a \in Seq(Effects) : a \o s = a
    BY ConcatEmpty
  <2> HIDE DEF s, v
  <2> QED
    <3>1. p \in Seq(Effects) /\ Legal(p \o s, v) /\ \A o : Net(p, o) = 0
      BY <1>1, <2>1, InspectLegal
    <3> QED
      BY <2>2, <3>1
<1> HIDE DEF p
<1>6. Modest(p, v)
  <2>1. \A i \in 1..2 : i = 1 \/ i = 2
    OBVIOUS
  <2> QED
    BY <1>3, <1>4, <1>5, <2>1 DEF Modest
<1>7. p # <<>>
  BY <1>3, NotEmpty
<1> QED
  BY <1>2, <1>3, <1>6, <1>7, ProperPlain, CallKeeps

LEMMA GetChildKeeps ==
    ASSUME Confined, HandlesInv, NEW t \in Threads, Idle(t), NEW w \in Wrappers, MayUse(t, w),
           NEW o \in Nodes, NEW n \in Wrappers, Unused(n), GetChild(t, w, o, n)
    PROVE  HandlesInv' /\ LastKept
<1> DEFINE v == wrapper[w]
           e == Wrap(o, n)
           p == Access(v, o) \o <<e>>
<1>1. v \in Objects /\ n # Nothing /\ o \in Objects
  BY Distinct DEF HandlesInv, Books, Types, MayUse, Objects
<1>2. Call(t, w, p) /\ o \in FieldSet(v) \cup Static
  BY DEF GetChild
<1>3. e \in Effects /\ e.op = "wrap" /\ e.obj = o /\ e.to = n
  BY <1>1, EffectTypes
<1> HIDE DEF v, e
<1>4. Plain(Access(v, o)) /\ Modest(p, v) /\ p # <<>>
  BY <1>1, <1>2, <1>3, ModestAccess
<1>5. Fits(e, w)
  BY <1>1, <1>3 DEF Fits
<1>6. Proper(p, w)
  BY <1>3, <1>4, <1>5, ProperLast
<1> HIDE DEF p
<1> QED
  BY <1>2, <1>4, <1>6, CallKeeps DEF v

LEMMA LookupKeeps ==
    ASSUME Confined, HandlesInv, NEW t \in Threads, Idle(t), NEW w \in Wrappers, MayUse(t, w),
           NEW o \in Nodes, NEW n \in Wrappers, Unused(n), Lookup(t, w, o, n)
    PROVE  HandlesInv' /\ LastKept
<1> DEFINE v == wrapper[w]
           e == Wrap(o, n)
           p == Access(v, o) \o Unpacked(o) \o <<e>>
<1>1. v \in Objects /\ n # Nothing /\ o \in Objects
  BY Distinct DEF HandlesInv, Books, Types, MayUse, Objects
<1>2. Call(t, w, p) /\ o \in FieldSet(v)
  BY DEF Lookup
<1>3. e \in Effects /\ e.op = "wrap" /\ e.obj = o /\ e.to = n
  BY <1>1, EffectTypes
<1> HIDE DEF v, e
<1>4. Plain(Access(v, o) \o Unpacked(o)) /\ Modest(p, v) /\ p # <<>>
  BY <1>1, <1>2, <1>3, ModestUnpacked
<1>5. Fits(e, w)
  BY <1>1, <1>3 DEF Fits
<1>6. Proper(p, w)
  BY <1>3, <1>4, <1>5, ProperLast
<1> HIDE DEF p
<1> QED
  BY <1>2, <1>4, <1>6, CallKeeps DEF v

LEMMA GetTextKeeps ==
    ASSUME Confined, HandlesInv, NEW t \in Threads, Idle(t), NEW w \in Wrappers, MayUse(t, w),
           NEW s \in Strings, GetText(t, w, s)
    PROVE  HandlesInv' /\ LastKept
<1> DEFINE v == wrapper[w]
           b == Lender(w)
           e == Capture(s, b)
           p == Access(v, s) \o <<e>>
<1>1. /\ v \in Objects /\ s \in Objects
      /\ b \in Wrappers \cup {Nothing} /\ (b # Nothing => b = w)
  BY DEF HandlesInv, Books, Types, MayUse, Objects, Lender
<1>2. Call(t, w, p) /\ s \in FieldSet(v) \cup Static
  BY DEF GetText
<1>3. e \in Effects /\ e.op = "capture" /\ e.obj = s /\ e.to = b
  BY <1>1, EffectTypes
<1>4. Fits(e, w)
  BY <1>1, <1>2, <1>3 DEF Fits
<1> HIDE DEF v, b, e
<1>5. Plain(Access(v, s)) /\ Modest(p, v) /\ p # <<>>
  BY <1>1, <1>2, <1>3, ModestAccess
<1>6. Proper(p, w)
  BY <1>3, <1>4, <1>5, ProperLast
<1> HIDE DEF p
<1> QED
  BY <1>2, <1>5, <1>6, CallKeeps DEF v

LEMMA GetAttributeKeeps ==
    ASSUME Confined, HandlesInv, NEW t \in Threads, Idle(t), NEW w \in Wrappers, MayUse(t, w),
           NEW s \in Strings, GetAttribute(t, w, s)
    PROVE  HandlesInv' /\ LastKept
<1> DEFINE v == wrapper[w]
           b == Lender(w)
           e == Capture(s, b)
           p == Access(v, s) \o Unpacked(s) \o <<e>>
<1>1. /\ v \in Objects /\ s \in Objects
      /\ b \in Wrappers \cup {Nothing} /\ (b # Nothing => b = w)
  BY DEF HandlesInv, Books, Types, MayUse, Objects, Lender
<1>2. Call(t, w, p) /\ s \in FieldSet(v)
  BY DEF GetAttribute
<1>3. e \in Effects /\ e.op = "capture" /\ e.obj = s /\ e.to = b
  BY <1>1, EffectTypes
<1>4. Fits(e, w)
  BY <1>1, <1>2, <1>3 DEF Fits
<1> HIDE DEF v, b, e
<1>5. Plain(Access(v, s) \o Unpacked(s)) /\ Modest(p, v) /\ p # <<>>
  BY <1>1, <1>2, <1>3, ModestUnpacked
<1>6. Proper(p, w)
  BY <1>3, <1>4, <1>5, ProperLast
<1> HIDE DEF p
<1> QED
  BY <1>2, <1>5, <1>6, CallKeeps DEF v

LEMMA DumpKeeps ==
    ASSUME Confined, HandlesInv, NEW t \in Threads, Idle(t), NEW w \in Wrappers, MayUse(t, w),
           Dump(t, w)
    PROVE  HandlesInv' /\ LastKept
<1> DEFINE v == wrapper[w]
           a == <<Inc(v)>>
           e == Format(v)
           s == <<e>>
           p == a \o s
<1>1. v \in Objects
  BY DEF HandlesInv, Books, Types, MayUse
<1>2. Call(t, w, p)
  <2>1. p = <<Inc(v), Format(v)>>
    BY <1>1, EffectTypes, Pair
  <2> QED
    BY <2>1 DEF Dump
<1>3. /\ e \in Effects /\ e.op = "format" /\ e.obj = v
      /\ Inc(v) \in Effects /\ Inc(v).op = "inc" /\ Inc(v).obj = v
  BY <1>1, EffectTypes
<1>4. p[1].obj = v /\ p[2].obj = v /\ Len(p) = 2
  BY <1>3
<1>5. Fits(e, w)
  BY <1>3 DEF Fits
<1> HIDE DEF v, e
<1>6. /\ s \in Seq(Effects) /\ Legal(s, v)
      /\ \A q : Net(s, q) = IF q = v THEN 1 ELSE 0
  BY <1>3, LastLegal
<1> HIDE DEF s
<1>7. p \in Seq(Effects) /\ Legal(p, v) /\ \A q : Net(p, q) = 0
  <2>1. Net(s, v) >= 1
    BY <1>6
  <2>2. Grants(s, v, v)
    BY <1>1 DEF Grants, Leads
  <2>3. \A q : p \in Seq(Effects) /\ Net(p, q) = Net(s, q) + Weight(Inc(v), q)
    BY <1>3, <1>6, NetCons
  <2>4. \A q : Weight(Inc(v), q) = IF q = v THEN -1 ELSE 0
    BY <1>3 DEF Weight
  <2> QED
    BY <1>1, <1>6, <2>1, <2>2, <2>3, <2>4, LegalTakes
<1>8. Proper(p, w)
  <2>1. Plain(a)
    BY <1>1, PlainPrograms
  <2> HIDE DEF a
  <2> QED
    BY <1>3, <1>5, <2>1, ProperLast DEF s
<1> HIDE DEF p
<1>9. Modest(p, v)
  <2>1. \A i \in 1..2 : i = 1 \/ i = 2
    OBVIOUS
  <2>2. \A i \in 1..Len(p) : p[i].obj \in {v} \cup FieldSet(v) \cup Static
    BY <1>4, <2>1
  <2>3. \A o \in Objects : Net(p, o) = 0
    BY <1>7
  <2> QED
    BY <1>7, <2>2, <2>3, Zenon DEF Modest
<1>10. p # <<>>
  <2>1. Len(p) \in Nat \ {0}
    BY <1>4
  <2> QED
    BY <2>1, NotEmpty, Zenon
<1> QED
  BY <1>2, <1>8, <1>9, <1>10, CallKeeps DEF v

-----------------------------------------------------------------------------
(* What a step of a running call keeps.                                    *)

\* A call goes on with s.
LEMMA GoesOn ==
    ASSUME Types, NEW t \in Threads, NEW s \in Seq(Effects), Continue(t, s)
    PROVE  /\ todo' \in [Threads -> Seq(Effects)]
           /\ using' \in [Threads -> Wrappers \cup {Nothing}]
           /\ todo'[t] = s /\ \A u \in Threads : u # t => todo'[u] = todo[u]
           /\ \A u \in Threads : u # t => using'[u] = using[u]
           /\ using'[t] = IF s = <<>> THEN Nothing ELSE using[t]
BY DEF Types, Continue

LEMMA GoesOnBooks ==
    ASSUME Books, NEW t \in Threads, NEW s \in Seq(Effects), Continue(t, s),
           rc' \in [Objects -> Nat], reg' \in [Threads -> Nat],
           tls' \in [Threads -> Strings \cup {Nothing}],
           UNCHANGED <<wrapper, owner>>, lent' \subseteq [wrapper : Wrappers, text : Strings],
           \A b \in lent' : b \in lent \/ /\ wrapper[b.wrapper] # Nothing
                                          /\ b.text \in FieldSet(wrapper[b.wrapper]) \cup Static,
           \A w \in Wrappers : Count(s, WrapsTo(w)) <= Count(todo[t], WrapsTo(w)),
           Count(s, Texts) <= 1,
           \A i \in 1..Len(s) : Fits(s[i], using[t])
    PROVE  Books'
<1>1. Types /\ Serving /\ Owned /\ Wrapping /\ Texting /\ Borrows
  BY DEF Books
<1>2. /\ todo' \in [Threads -> Seq(Effects)]
      /\ using' \in [Threads -> Wrappers \cup {Nothing}]
      /\ todo'[t] = s /\ \A u \in Threads : u # t => todo'[u] = todo[u]
      /\ \A u \in Threads : u # t => using'[u] = using[u]
      /\ using'[t] = IF s = <<>> THEN Nothing ELSE using[t]
  BY <1>1, GoesOn
<1>3. Types'
  BY <1>1, <1>2 DEF Types
<1>4. Serving'
  BY <1>1, <1>2 DEF Serving
<1>5. Owned'
  BY <1>1 DEF Owned
<1>6. Borrows'
  BY <1>1 DEF Borrows
<1>7. Wrapping'
  <2> SUFFICES ASSUME NEW v \in Wrappers, NEW u \in Threads
               PROVE  /\ Count(todo'[u], WrapsTo(v)) <= 1
                      /\ Count(todo'[u], WrapsTo(v)) # 0 =>
                            /\ wrapper'[v] = Nothing
                            /\ \A x \in Threads : x # u => Count(todo'[x], WrapsTo(v)) = 0
    BY DEF Wrapping, WrapsTo, Count
  <2> DEFINE C(x) == Count(todo[x], WrapsTo(v))
             D(x) == Count(todo'[x], WrapsTo(v))
  <2>1. \A x \in Threads : C(x) \in Nat /\ D(x) \in Nat
    BY <1>1, <1>2, CountType DEF Types
  <2>2. \A x \in Threads : D(x) <= C(x)
    <3> SUFFICES ASSUME NEW x \in Threads PROVE D(x) <= C(x)
      OBVIOUS
    <3>1. CASE x = t
      BY <1>2, <3>1
    <3>2. CASE x # t
      BY <1>2, <2>1, <3>2
    <3> QED
      BY <3>1, <3>2
  <2>3. /\ C(u) <= 1
        /\ C(u) # 0 => wrapper[v] = Nothing /\ \A x \in Threads : x # u => C(x) = 0
    BY <1>1 DEF Wrapping
  <2> HIDE DEF C, D
  <2>4. /\ D(u) <= 1
        /\ D(u) # 0 => wrapper'[v] = Nothing /\ \A x \in Threads : x # u => D(x) = 0
    BY <2>1, <2>2, <2>3
  <2> QED
    BY <2>4 DEF D
<1>8. Texting'
  <2> SUFFICES ASSUME NEW u \in Threads
               PROVE  /\ Count(todo'[u], Texts) <= 1
                      /\ \A i \in 1..Len(todo'[u]) : Fits(todo'[u][i], using'[u])
    BY DEF Texting, Texts, Count, Fits, Effects
  <2>1. CASE u = t
    <3>1. CASE s = <<>>
      BY <1>2, <2>1, <3>1
    <3>2. CASE s # <<>>
      BY <1>2, <2>1, <3>2
    <3> QED
      BY <3>1, <3>2
  <2>2. CASE u # t
    BY <1>1, <1>2, <2>2 DEF Texting
  <2> QED
    BY <2>1, <2>2
<1> QED
  BY <1>3, <1>4, <1>5, <1>6, <1>7, <1>8 DEF Books

LEMMA GoesOnLegal ==
    ASSUME Types, CallsLegal, NEW t \in Threads, NEW s \in Seq(Effects), Continue(t, s),
           Legal(s, Serves(t)),
           \A u \in Threads : using[u] # Nothing => wrapper'[using[u]] = wrapper[using[u]]
    PROVE  CallsLegal'
<1>1. /\ todo'[t] = s /\ \A u \in Threads : u # t => todo'[u] = todo[u]
      /\ \A u \in Threads : u # t => using'[u] = using[u]
      /\ using'[t] = IF s = <<>> THEN Nothing ELSE using[t]
  BY GoesOn
<1> SUFFICES ASSUME NEW u \in Threads PROVE Legal(todo'[u], Serves(u)')
  BY DEF CallsLegal, Legal, Sound, Rest, Net, Count, Gives, Takes, Effects, Leads
<1>2. CASE u # t
  <2>1. Serves(u)' = Serves(u)
    BY <1>1, <1>2 DEF Serves
  <2> QED
    BY <1>1, <1>2, <2>1 DEF CallsLegal
<1>3. CASE u = t /\ s = <<>>
  BY <1>1, <1>3, LegalEmpty
<1>4. CASE u = t /\ s # <<>>
  <2>1. Serves(u)' = Serves(u)
    BY <1>1, <1>4 DEF Serves
  <2> QED
    BY <1>1, <1>4, <2>1
<1> QED
  BY <1>2, <1>3, <1>4

\* Threads other than t do not notice what is done to objects of t.
LEMMA OthersKeep ==
    ASSUME Types, NEW home, Accounts(home), NEW t \in Threads, reg'[t] = 0,
           \A u \in Threads : u # t => todo'[u] = todo[u] /\ reg'[u] = reg[u],
           \A q \in Objects : Live(q) /\ (q \in Static \/ home[q] # t) => rc'[q] = rc[q]
    PROVE  /\ Updating'
           /\ \A u \in Threads : u # t => \A i \in 1..Len(todo'[u]) : rc'[todo'[u][i].obj] > 0
<1>1. ASSUME NEW u \in Threads, u # t, NEW i \in 1..Len(todo[u])
      PROVE  LET q == todo[u][i].obj IN q \in Objects /\ Live(q) /\ rc'[q] = rc[q]
  <2> DEFINE q == todo[u][i].obj
  <2>1. q \in Objects
    <3>1. todo[u] \in Seq(Effects)
      BY DEF Types
    <3>2. todo[u][i] \in Effects
      BY <3>1
    <3> QED
      BY <3>2 DEF Effects
  <2>2. Live(q) /\ (q \notin Static => home[q] = u)
    BY DEF Accounts, MentionsLive, Homes
  <2> HIDE DEF q
  <2>3. rc'[q] = rc[q]
    BY <1>1, <2>1, <2>2
  <2> QED
    BY <2>1, <2>2, <2>3 DEF q
<1>2. Updating'
  <2> SUFFICES ASSUME NEW u \in Threads, reg'[u] > 0
               PROVE  /\ Counts(u)' /\ Head(todo'[u]).obj \notin Static
                      /\ reg'[u] = rc'[Head(todo'[u]).obj]
    BY DEF Updating
  <2>1. u # t
    OBVIOUS
  <2>2. /\ Counts(u) /\ Head(todo[u]).obj \notin Static
        /\ reg[u] = rc[Head(todo[u]).obj]
    BY <2>1 DEF Accounts, Updating
  <2>3. todo[u] # <<>> /\ todo[u] \in Seq(Effects)
    BY <2>2 DEF Counts, Doing, Idle, Types
  <2>4. 1 \in 1..Len(todo[u]) /\ Head(todo[u]) = todo[u][1]
    BY <2>3, HeadTail
  <2>5. rc'[Head(todo[u]).obj] = rc[Head(todo[u]).obj]
    BY <1>1, <2>1, <2>4
  <2> QED
    BY <2>1, <2>2, <2>5 DEF Counts, Doing, Idle
<1>3. ASSUME NEW u \in Threads, u # t, NEW i \in 1..Len(todo'[u])
      PROVE  rc'[todo'[u][i].obj] > 0
  <2>1. todo'[u] = todo[u]
    BY <1>3
  <2>2. i \in 1..Len(todo[u]) /\ todo'[u][i] = todo[u][i]
    BY <2>1
  <2>3. rc[todo[u][i].obj] > 0 /\ rc'[todo[u][i].obj] = rc[todo[u][i].obj]
    BY <1>1, <1>3, <2>2 DEF Live
  <2> QED
    BY <2>2, <2>3
<1> QED
  BY <1>2, <1>3

\* Whether the string in the holder is being replaced.
Holds(s) == \E i \in 1..Len(s) : s[i].op = "hold"

LEMMA HeldIs ==
    ASSUME Types, NEW t \in Threads
    PROVE  Held(t) = IF Holds(todo[t]) THEN Nothing ELSE tls[t]
<1>1. DOMAIN todo[t] = 1..Len(todo[t])
  BY DEF Types
<1> QED
  BY <1>1 DEF Held, Replacing, Holds

LEMMA HoldsConcat ==
    ASSUME NEW a \in Seq(Effects), NEW b \in Seq(Effects)
    PROVE  Holds(a \o b) <=> Holds(a) \/ Holds(b)
<1> DEFINE s == a \o b
<1>1. /\ Len(s) = Len(a) + Len(b) /\ Len(a) \in Nat /\ Len(b) \in Nat
      /\ \A i \in 1..Len(a) : s[i] = a[i]
      /\ \A i \in 1..Len(b) : s[Len(a) + i] = b[i]
  BY ConcatIs
<1> HIDE DEF s
<1>2. ASSUME NEW i \in 1..Len(s)
      PROVE  i \in 1..Len(a) \/ (i - Len(a) \in 1..Len(b) /\ Len(a) + (i - Len(a)) = i)
  BY <1>1
<1>3. ASSUME Holds(s) PROVE Holds(a) \/ Holds(b)
  <2>1. PICK i \in 1..Len(s) : s[i].op = "hold"
    BY <1>3 DEF Holds
  <2>2. CASE i \in 1..Len(a)
    BY <1>1, <2>1, <2>2 DEF Holds
  <2>3. CASE i - Len(a) \in 1..Len(b) /\ Len(a) + (i - Len(a)) = i
    <3>1. s[Len(a) + (i - Len(a))] = b[i - Len(a)]
      BY <1>1, <2>3
    <3> QED
      BY <2>1, <2>3, <3>1 DEF Holds
  <2> QED
    BY <1>2, <2>2, <2>3
<1>4. ASSUME Holds(a) PROVE Holds(s)
  <2>1. PICK i \in 1..Len(a) : a[i].op = "hold"
    BY <1>4 DEF Holds
  <2>2. i \in 1..Len(s) /\ s[i] = a[i]
    BY <1>1
  <2> QED
    BY <2>1, <2>2 DEF Holds
<1>5. ASSUME Holds(b) PROVE Holds(s)
  <2>1. PICK i \in 1..Len(b) : b[i].op = "hold"
    BY <1>5 DEF Holds
  <2>2. Len(a) + i \in 1..Len(s) /\ s[Len(a) + i] = b[i]
    BY <1>1
  <2> QED
    BY <2>1, <2>2 DEF Holds
<1> QED
  BY <1>3, <1>4, <1>5 DEF s

LEMMA HoldsOne ==
    ASSUME NEW e \in Effects
    PROVE  <<e>> \in Seq(Effects) /\ (Holds(<<e>>) <=> e.op = "hold")
<1>1. <<e>> \in Seq(Effects) /\ Len(<<e>>) = 1 /\ <<e>>[1] = e
  OBVIOUS
<1> QED
  BY <1>1 DEF Holds

=============================================================================
