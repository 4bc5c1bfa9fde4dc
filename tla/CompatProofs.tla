---------------------------- MODULE CompatProofs ----------------------------
(***************************************************************************)
(* What is written comes back.  A Python string stays a string, for every  *)
(* text, with int(), float() and all tests of characters arbitrary; the    *)
(* configuration that is accepted is the one that is used, whatever it     *)
(* holds; and a stream is split into the documents it was joined from,     *)
(* whatever their lines, so that it loads back if each document does.      *)
(***************************************************************************)
EXTENDS Compat, Scalars, FiniteSetTheorems, WellFoundedInduction, TLAPS

-----------------------------------------------------------------------------
(* The configuration.                                                      *)

LEMMA KnownFields ==
    /\ DOMAIN DefaultDumpConfig = IntFields \cup BoolFields \cup DOMAIN Words
    /\ DOMAIN Fidelity \subseteq DOMAIN DefaultDumpConfig
    /\ IntFields \cap BoolFields = {} /\ IntFields \cap DOMAIN Words = {}
    /\ BoolFields \cap DOMAIN Words = {}
BY DEF DefaultDumpConfig, IntFields, BoolFields, Words, Fidelity

\* The two readers agree on every known field.
LEMMA ReadersAgree ==
    ASSUME NEW f \in DOMAIN DefaultDumpConfig, NEW v, Valid(f, v)
    PROVE  FromYaml(f, v)
BY KnownFields DEF Valid, FromYaml

LEMMA FidelityReadable ==
    ASSUME NEW f \in DOMAIN Fidelity
    PROVE  FromYaml(f, Fidelity[f]) /\ Fidelity[f].type # "oversize"
<1>1. CASE f = "scalarStyle"
  BY <1>1 DEF Fidelity, Word, FromYaml, IntFields, BoolFields, Words
<1>2. CASE f = "allowReservedPlain"
  BY <1>2 DEF Fidelity, Bool, FromYaml, IntFields, BoolFields, Words
<1> QED
  BY <1>1, <1>2 DEF Fidelity

LEMMA MergedFields ==
    ASSUME NEW user
    PROVE  /\ DOMAIN Merged(user) = DOMAIN user \cup DOMAIN Fidelity
           /\ \A f \in DOMAIN user : Merged(user)[f] = user[f]
           /\ \A f \in DOMAIN Fidelity \ DOMAIN user : Merged(user)[f] = Fidelity[f]
BY DEF Merged

LEMMA UsedDomain ==
    ASSUME NEW config
    PROVE  DOMAIN Used(config) = DOMAIN DefaultDumpConfig
BY DEF Used, ParseConfig

\* Every field of an accepted configuration is used, and the settings that keep
\* types where it is silent.
LEMMA UsedIs ==
    ASSUME NEW config, ConfigAccepted(config), WithinLimits(config.fields)
    PROVE  \A f \in DOMAIN DefaultDumpConfig :
              Used(config)[f] =
                 IF f \in DOMAIN config.fields THEN config.fields[f]
                 ELSE IF f \in DOMAIN Fidelity THEN Fidelity[f]
                 ELSE DefaultDumpConfig[f]
<1> DEFINE user == config.fields
           m == Merged(user)
<1>1. /\ DOMAIN m = DOMAIN user \cup DOMAIN Fidelity
      /\ \A f \in DOMAIN user : m[f] = user[f]
      /\ \A f \in DOMAIN Fidelity \ DOMAIN user : m[f] = Fidelity[f]
  BY MergedFields
<1> HIDE DEF m
<1>2. WithinLimits(m)
  BY <1>1, FidelityReadable DEF WithinLimits
<1>3. \A f \in DOMAIN m \cap DOMAIN DefaultDumpConfig : FromYaml(f, m[f])
  <2> SUFFICES ASSUME NEW f \in DOMAIN m \cap DOMAIN DefaultDumpConfig
               PROVE  FromYaml(f, m[f])
    OBVIOUS
  <2>1. CASE f \in DOMAIN user
    <3>1. Valid(f, user[f])
      BY <2>1 DEF ConfigAccepted
    <3> QED
      BY <1>1, <2>1, <3>1, ReadersAgree
  <2>2. CASE f \notin DOMAIN user
    BY <1>1, <2>2, FidelityReadable
  <2> QED
    BY <2>1, <2>2
<1>4. Used(config) = ParseConfig(m)
  BY DEF Used, m
<1>5. Used(config) = [f \in DOMAIN DefaultDumpConfig |->
                         IF f \in DOMAIN m THEN m[f] ELSE DefaultDumpConfig[f]]
  BY <1>2, <1>3, <1>4 DEF ParseConfig
<1> QED
  BY <1>1, <1>5

-----------------------------------------------------------------------------
(* A stream is split where it was joined.                                  *)

LEMMA LeastNat ==
    ASSUME NEW S, S \subseteq Nat, S # {}
    PROVE  \E x \in S : \A y \in S : x <= y
<1>1. PICK x \in S : \A y \in S : ~(<<y, x>> \in OpToRel(<, Nat))
  BY WFMin, NatLessThanWellFounded
<1>2. \A y \in S : ~(y < x)
  BY <1>1 DEF OpToRel
<1> QED
  BY <1>2

Ascends(s, n) == \A i, j \in 1..n : i < j => s[i] < s[j]

\* There is one ascending sequence of the elements of a set.
LEMMA AscentUnique ==
    ASSUME NEW S, S \subseteq Nat, NEW n \in Nat, IsFiniteSet(S), Cardinality(S) = n,
           NEW a \in [1..n -> S], Ascends(a, n), NEW b \in [1..n -> S], Ascends(b, n)
    PROVE  a = b
<1>1. ASSUME NEW s \in [1..n -> S], Ascends(s, n), NEW x \in S
      PROVE  \E i \in 1..n : s[i] = x
  <2>1. s \in Injection(1..n, S)
    <3>1. \A i, j \in 1..n : s[i] = s[j] => i = j
      <4> SUFFICES ASSUME NEW i \in 1..n, NEW j \in 1..n, s[i] = s[j], i < j PROVE FALSE
        OBVIOUS
      <4>1. s[i] < s[j] /\ s[i] \in Nat
        BY <1>1 DEF Ascends
      <4> QED
        BY <4>1
    <3> QED
      BY <1>1, <3>1 DEF Injection, IsInjective
  <2>2. Cardinality(1..n) = n
    BY FS_Interval
  <2>3. s \in Surjection(1..n, S)
    BY <2>1, <2>2, FS_Injection
  <2> QED
    BY <1>1, <2>3 DEF Surjection
<1> DEFINE D == {i \in 1..n : a[i] # b[i]}
<1>2. ASSUME D # {} PROVE FALSE
  <2>1. PICK i \in D : \A j \in D : i <= j
    <3>1. D \subseteq Nat
      OBVIOUS
    <3> HIDE DEF D
    <3> QED
      BY <1>2, <3>1, LeastNat
  <2>2. i \in 1..n /\ a[i] # b[i] /\ \A j \in 1..n : j < i => a[j] = b[j]
    BY <2>1
  <2> HIDE DEF D
  <2>3. ASSUME NEW s \in [1..n -> S], Ascends(s, n), NEW u \in [1..n -> S], Ascends(u, n),
               \A j \in 1..n : j < i => s[j] = u[j]
        PROVE  ~(s[i] < u[i])
    <3> SUFFICES ASSUME s[i] < u[i] PROVE FALSE
      OBVIOUS
    <3>1. s[i] \in S /\ u[i] \in S /\ s[i] \in Nat /\ u[i] \in Nat
      BY <2>2
    <3>2. PICK j \in 1..n : u[j] = s[i]
      BY <1>1, <2>3, <3>1
    <3>3. CASE j < i
      <4>1. s[j] = s[i] /\ s[j] < s[i]
        BY <2>2, <2>3, <3>2, <3>3 DEF Ascends
      <4> QED
        BY <3>1, <4>1
    <3>4. CASE j = i
      BY <3>1, <3>2, <3>4
    <3>5. CASE i < j
      <4>1. u[i] < u[j]
        BY <2>2, <2>3, <3>5 DEF Ascends
      <4> QED
        BY <3>1, <3>2, <4>1
    <3> QED
      BY <2>2, <3>3, <3>4, <3>5
  <2>4. ~(a[i] < b[i]) /\ ~(b[i] < a[i])
    BY <2>2, <2>3
  <2>5. a[i] \in Nat /\ b[i] \in Nat
    BY <2>2
  <2> QED
    BY <2>2, <2>4, <2>5
<1>3. \A i \in 1..n : a[i] = b[i]
  BY <1>2
<1> QED
  BY <1>3

LEMMA InOrderIs ==
    ASSUME NEW S, S \subseteq Nat, NEW n \in Nat, NEW e \in [1..n -> S], Ascends(e, n),
           \A x \in S : \E i \in 1..n : e[i] = x
    PROVE  InOrder(S) = e
<1>1. \A i, j \in 1..n : e[i] = e[j] => i = j
  <2> SUFFICES ASSUME NEW i \in 1..n, NEW j \in 1..n, e[i] = e[j], i < j PROVE FALSE
    OBVIOUS
  <2>1. e[i] < e[j] /\ e[i] \in Nat
    BY DEF Ascends
  <2> QED
    BY <2>1
<1>2. e \in Bijection(1..n, S)
  BY <1>1 DEF Bijection, Injection, Surjection, IsInjective
<1>3. IsFiniteSet(1..n) /\ Cardinality(1..n) = n
  BY FS_Interval
<1>4. IsFiniteSet(S) /\ Cardinality(S) = n
  BY <1>2, <1>3, FS_Bijection DEF ExistsBijection
<1> DEFINE P(s) == s \in [1..n -> S] /\ Ascends(s, n)
<1>5. InOrder(S) = CHOOSE s : P(s)
  BY <1>4 DEF InOrder, Ascends
<1>6. P(e)
  OBVIOUS
<1>7. P(CHOOSE s : P(s))
  BY <1>6
<1> QED
  BY <1>4, <1>5, <1>7, AscentUnique

\* FlattenSeq is a recursive function: sequences of concatenations of every
\* length satisfy its equation.
LEMMA FlattenIs ==
    ASSUME NEW L, NEW q \in Seq(Seq(L)), Len(q) # 0
    PROVE  \E f : /\ FlattenSeq(q) = f[Len(q)]
                  /\ f[1] = q[1]
                  /\ \A i \in 1..Len(q) : i # 1 => f[i] = f[i - 1] \o q[i]
<1> DEFINE n == Len(q)
           P(k, f) == f = [i \in 1..k |-> IF i = 1 THEN q[i] ELSE f[i - 1] \o q[i]]
<1>1. n \in Nat \ {0}
  OBVIOUS
<1> HIDE DEF P
<1> DEFINE S == {k \in 1..n : ~\E f : P(k, f)}
<1>s. \A k : k \in S <=> k \in 1..n /\ ~\E f : P(k, f)
  OBVIOUS
<1> HIDE DEF S
<1>2. ASSUME S # {} PROVE FALSE
  <2>1. PICK k \in S : \A j \in S : k <= j
    <3>1. S \subseteq Nat
      BY <1>1, <1>s
    <3> QED
      BY <1>2, <3>1, LeastNat
  <2>2. k \in 1..n /\ ~\E f : P(k, f)
    BY <1>s
  <2>3. CASE k = 1
    <3> DEFINE f == [i \in 1..1 |-> q[1]]
    <3>1. \A i \in 1..1 : i = 1
      OBVIOUS
    <3>2. P(1, f)
      BY <3>1 DEF P
    <3> QED
      BY <2>2, <2>3, <3>2
  <2>4. CASE k # 1
    <3>1. k - 1 \in 1..n /\ k - 1 < k /\ k \in Nat /\ n \in Nat
      BY <1>1, <2>2, <2>4
    <3>2. k - 1 \notin S
      BY <2>1, <3>1
    <3>3. PICK g : P(k - 1, g)
      BY <1>s, <3>1, <3>2
    <3>4. \A i \in 1..(k - 1) : g[i] = IF i = 1 THEN q[i] ELSE g[i - 1] \o q[i]
      BY <3>3 DEF P
    <3> DEFINE f == [i \in 1..k |-> IF i < k THEN g[i] ELSE g[k - 1] \o q[k]]
               h == [i \in 1..k |-> IF i = 1 THEN q[i] ELSE f[i - 1] \o q[i]]
    <3>5. ASSUME NEW i \in 1..k PROVE f[i] = h[i]
      <4>1. CASE i < k
        <5>1. i \in 1..(k - 1) /\ f[i] = g[i]
          BY <3>1, <4>1
        <5>2. i # 1 => i - 1 \in 1..k /\ i - 1 < k
          BY <3>1, <4>1
        <5>3. i # 1 => f[i - 1] = g[i - 1]
          BY <5>2
        <5> HIDE DEF f
        <5> QED
          BY <3>4, <5>1, <5>3
      <4>2. CASE i = k
        <5>1. k - 1 \in 1..k /\ k - 1 < k /\ ~(k < k)
          BY <2>4, <3>1
        <5>2. k \in 1..k
          BY <3>1
        <5>3. f[k - 1] = g[k - 1] /\ f[k] = g[k - 1] \o q[k]
          BY <5>1, <5>2
        <5> HIDE DEF f
        <5> QED
          BY <2>4, <4>2, <5>3
      <4> QED
        BY <3>1, <4>1, <4>2
    <3>6. f = h
      <4>1. f = [i \in 1..k |-> f[i]] /\ h = [i \in 1..k |-> h[i]]
        OBVIOUS
      <4> HIDE DEF f, h
      <4> QED
        BY <3>5, <4>1
    <3> HIDE DEF f
    <3>7. P(k, f)
      BY <3>6 DEF P
    <3> QED
      BY <2>2, <3>7
  <2> QED
    BY <2>3, <2>4
<1>3. \E f : P(n, f)
  <2>1. n \notin S /\ n \in 1..n
    BY <1>1, <1>2
  <2> QED
    BY <1>s, <2>1
<1> DEFINE F == CHOOSE f : P(n, f)
<1>4. FlattenSeq(q) = F[n]
  BY <1>1 DEF FlattenSeq, P
<1>5. P(n, F)
  BY <1>3
<1> HIDE DEF F
<1>6. \A i \in 1..n : F[i] = IF i = 1 THEN q[i] ELSE F[i - 1] \o q[i]
  BY <1>5 DEF P
<1>7. 1 \in 1..n
  BY <1>1
<1> HIDE DEF n, P
<1>8. F[1] = q[1] /\ \A i \in 1..n : i # 1 => F[i] = F[i - 1] \o q[i]
  BY <1>6, <1>7
<1> QED
  BY <1>4, <1>8 DEF n

\* Where the i-th chunk begins in what the first ones are joined to, f[i].
Start(f, i) == IF i = 1 THEN 0 ELSE Len(f[i - 1]) + 1

\* f[k] holds the first k chunks of q, a separator between two and no others.
Holds(f, q, k) ==
    /\ \A i \in 1..k : Len(f[i]) \in Nat /\ Len(f[i]) = Start(f, i) + Len(q[i])
    /\ \A i, j \in 1..k : i < j => Len(f[i]) < Len(f[j])
    /\ \A i \in 1..k : \A j \in 1..Len(q[i]) : f[k][Start(f, i) + j] = q[i][j]
    /\ \A i \in 1..(k - 1) : f[k][Len(f[i]) + 1] = SeparatorLine
    /\ \A p \in 1..Len(f[k]) : f[k][p] = SeparatorLine =>
          \E i \in 1..(k - 1) : p = Len(f[i]) + 1

LEMMA HoldsFirst ==
    ASSUME NEW M, NEW q, NEW f, q[1] \in Seq(M), f[1] = q[1],
           \A j \in 1..Len(q[1]) : q[1][j] # SeparatorLine
    PROVE  Holds(f, q, 1)
<1> DEFINE c == q[1]
<1>1. c \in Seq(M) /\ f[1] = c /\ Len(c) \in Nat
  OBVIOUS
<1>2. Start(f, 1) = 0 /\ 1..(1 - 1) = {} /\ \A i \in 1..1 : i = 1
  BY DEF Start
<1>3. \A j \in 1..Len(c) : c[0 + j] = c[j] /\ c[j] # SeparatorLine
  OBVIOUS
<1> HIDE DEF c
<1> QED
  BY <1>1, <1>2, <1>3 DEF Holds, c

\* One more chunk after a separator.
LEMMA SeparatedIs ==
    ASSUME NEW M, NEW x \in M, NEW g \in Seq(M), NEW c \in Seq(M), NEW h,
           h = g \o (<<x>> \o c)
    PROVE  /\ h \in Seq(M) /\ Len(h) = (Len(g) + 1) + Len(c)
           /\ Len(g) \in Nat /\ Len(c) \in Nat
           /\ \A p \in 1..Len(g) : h[p] = g[p]
           /\ h[Len(g) + 1] = x
           /\ \A j \in 1..Len(c) : h[(Len(g) + 1) + j] = c[j]
<1> DEFINE d == <<x>> \o c
<1>1. /\ d \in Seq(M) /\ Len(d) = 1 + Len(c) /\ d[1] = x
      /\ \A j \in 1..Len(c) : d[1 + j] = c[j]
      /\ Len(g) \in Nat /\ Len(c) \in Nat
  OBVIOUS
<1>2. h = g \o d
  OBVIOUS
<1> HIDE DEF d
<1>3. /\ h \in Seq(M) /\ Len(h) = Len(g) + Len(d)
      /\ \A p \in 1..Len(g) : h[p] = g[p]
      /\ \A p \in 1..Len(d) : h[Len(g) + p] = d[p]
  BY <1>1, <1>2
<1>4. /\ 1 \in 1..Len(d)
      /\ \A j \in 1..Len(c) : 1 + j \in 1..Len(d) /\ Len(g) + (1 + j) = (Len(g) + 1) + j
  BY <1>1
<1>5. h[Len(g) + 1] = x
  BY <1>1, <1>3, <1>4
<1>6. \A j \in 1..Len(c) : h[(Len(g) + 1) + j] = c[j]
  BY <1>1, <1>3, <1>4
<1>7. Len(h) = (Len(g) + 1) + Len(c)
  BY <1>1, <1>3
<1> QED
  BY <1>1, <1>3, <1>5, <1>6, <1>7

LEMMA HoldsNext ==
    ASSUME NEW M, SeparatorLine \in M, NEW q, NEW f, NEW k \in Nat, k > 1,
           q[k] \in Seq(M), \A j \in 1..Len(q[k]) : q[k][j] # SeparatorLine,
           f[k - 1] \in Seq(M), f[k] = f[k - 1] \o (<<SeparatorLine>> \o q[k]),
           Holds(f, q, k - 1)
    PROVE  f[k] \in Seq(M) /\ Holds(f, q, k)
<1> DEFINE c == q[k]
           g == f[k - 1]
           h == f[k]
           m == Len(g)
           n == Len(c)
<1>2. /\ h \in Seq(M) /\ Len(h) = (m + 1) + n /\ m \in Nat /\ n \in Nat
      /\ \A p \in 1..m : h[p] = g[p]
      /\ h[m + 1] = SeparatorLine
      /\ \A j \in 1..n : h[(m + 1) + j] = c[j]
  <2>1. h = g \o (<<SeparatorLine>> \o c) /\ g \in Seq(M) /\ c \in Seq(M)
    OBVIOUS
  <2> HIDE DEF h, g, c
  <2> QED
    BY <2>1, SeparatedIs
<1>1. m \in Nat /\ n \in Nat
  BY <1>2
<1>3. /\ Len(h) = m + 1 + n /\ h[m + 1] = SeparatorLine
      /\ \A j \in 1..n : h[m + 1 + j] = c[j]
  BY <1>2
<1>4. /\ Start(f, k) = m + 1 /\ k - 1 \in Nat /\ k - 1 \in 1..(k - 1)
      /\ \A i \in 1..k : i = k \/ i \in 1..(k - 1)
      /\ \A i \in 1..(k - 1) :
            i \in 1..k /\ i < k /\ (i = k - 1 \/ i \in 1..((k - 1) - 1))
      /\ \A i \in 1..((k - 1) - 1) : i \in 1..(k - 1) /\ i < k - 1
  BY DEF Start
<1>5. \A i \in 1..(k - 1) : Len(f[i]) \in Nat /\ Len(f[i]) <= m
  <2> SUFFICES ASSUME NEW i \in 1..(k - 1) PROVE Len(f[i]) \in Nat /\ Len(f[i]) <= m
    OBVIOUS
  <2>1. Len(f[i]) \in Nat
    BY DEF Holds
  <2>2. CASE i = k - 1
    BY <1>1, <2>2
  <2>3. CASE i < k - 1
    <3>1. Len(f[i]) < Len(f[k - 1])
      BY <1>4, <2>3 DEF Holds
    <3> QED
      BY <1>1, <2>1, <3>1
  <2> QED
    BY <2>1, <2>2, <2>3
<1>6. \A i \in 1..k : Len(f[i]) \in Nat /\ Len(f[i]) = Start(f, i) + Len(q[i])
  <2> SUFFICES ASSUME NEW i \in 1..k
               PROVE  Len(f[i]) \in Nat /\ Len(f[i]) = Start(f, i) + Len(q[i])
    OBVIOUS
  <2>1. CASE i = k
    <3>1. Len(h) = (m + 1) + n /\ Start(f, k) = m + 1
      BY <1>2, <1>4
    <3>2. Len(h) \in Nat
      <4>1. h \in Seq(M)
        BY <1>2
      <4> HIDE DEF h
      <4> QED
        BY <4>1
    <3> HIDE DEF m
    <3> QED
      BY <2>1, <3>1, <3>2
  <2>2. CASE i \in 1..(k - 1)
    BY <2>2 DEF Holds
  <2> QED
    BY <1>4, <2>1, <2>2
<1>7. \A i, j \in 1..k : i < j => Len(f[i]) < Len(f[j])
  <2> SUFFICES ASSUME NEW i \in 1..k, NEW j \in 1..k, i < j PROVE Len(f[i]) < Len(f[j])
    OBVIOUS
  <2>1. i \in 1..(k - 1)
    OBVIOUS
  <2>2. CASE j = k
    <3>1. Len(f[i]) \in Nat /\ Len(f[i]) <= m
      BY <1>5, <2>1
    <3>2. Len(h) = (m + 1) + n /\ m \in Nat /\ n \in Nat
      BY <1>2
    <3> HIDE DEF m, n
    <3>3. Len(f[i]) < Len(h)
      <4> HIDE DEF h
      <4> QED
        BY <3>1, <3>2
    <3> QED
      BY <2>2, <3>3
  <2>3. CASE j \in 1..(k - 1)
    BY <2>1, <2>3 DEF Holds
  <2> QED
    BY <1>4, <2>2, <2>3
<1>8. \A i \in 1..k : \A j \in 1..Len(q[i]) : f[k][Start(f, i) + j] = q[i][j]
  <2> SUFFICES ASSUME NEW i \in 1..k, NEW j \in 1..Len(q[i])
               PROVE  f[k][Start(f, i) + j] = q[i][j]
    OBVIOUS
  <2>1. CASE i = k
    BY <1>3, <1>4, <2>1
  <2>2. CASE i \in 1..(k - 1)
    <3>1. /\ Len(f[i]) = Start(f, i) + Len(q[i]) /\ g[Start(f, i) + j] = q[i][j]
          /\ Len(f[i]) \in Nat /\ Len(f[i]) <= m
      BY <1>5, <2>2 DEF Holds
    <3>2. Start(f, i) \in Nat
      <4>1. CASE i = 1
        BY <4>1 DEF Start
      <4>2. CASE i # 1
        <5>1. i - 1 \in 1..(k - 1)
          BY <2>2, <4>2
        <5>2. Len(f[i - 1]) \in Nat
          BY <1>5, <5>1
        <5> QED
          BY <4>2, <5>2 DEF Start
      <4> QED
        BY <4>1, <4>2
    <3> DEFINE a == Start(f, i)
               b == Len(q[i])
    <3>3. a \in Nat /\ b \in Int /\ j \in 1..b /\ a + b <= m
      BY <3>1, <3>2
    <3> HIDE DEF a, b, m
    <3>4. a + j \in 1..m
      BY <1>1, <3>3
    <3> QED
      BY <1>2, <3>1, <3>4 DEF a
  <2> QED
    BY <1>4, <2>1, <2>2
<1>9. \A i \in 1..(k - 1) : f[k][Len(f[i]) + 1] = SeparatorLine
  <2> SUFFICES ASSUME NEW i \in 1..(k - 1) PROVE h[Len(f[i]) + 1] = SeparatorLine
    OBVIOUS
  <2>1. CASE i = k - 1
    BY <1>3, <2>1
  <2>2. CASE i \in 1..((k - 1) - 1)
    <3>1. g[Len(f[i]) + 1] = SeparatorLine
      BY <2>2 DEF Holds
    <3>2. Len(f[i]) \in Nat /\ Len(f[i]) < m
      BY <1>4, <1>5, <2>2 DEF Holds
    <3>3. Len(f[i]) + 1 \in 1..m
      BY <1>1, <3>2
    <3> QED
      BY <1>2, <3>1, <3>3
  <2> QED
    BY <1>4, <2>1, <2>2
<1>10. \A p \in 1..Len(f[k]) : f[k][p] = SeparatorLine =>
          \E i \in 1..(k - 1) : p = Len(f[i]) + 1
  <2> SUFFICES ASSUME NEW p \in 1..Len(h), h[p] = SeparatorLine
               PROVE  \E i \in 1..(k - 1) : p = Len(f[i]) + 1
    OBVIOUS
  <2>1. CASE p \in 1..m
    <3>1. g[p] = SeparatorLine
      BY <1>2, <2>1
    <3>2. PICK i \in 1..((k - 1) - 1) : p = Len(f[i]) + 1
      BY <2>1, <3>1 DEF Holds
    <3> QED
      BY <1>4, <3>2
  <2>2. CASE p = m + 1
    BY <1>4, <2>2
  <2>3. CASE p > m + 1
    <3> DEFINE j == p - (m + 1)
    <3>1. j \in 1..n /\ m + 1 + j = p
      <4>1. p \in Nat /\ p <= (m + 1) + n
        <5>1. Len(h) = (m + 1) + n /\ p \in 1..Len(h)
          BY <1>2
        <5> HIDE DEF h, m, n
        <5> QED
          BY <1>1, <5>1
      <4> HIDE DEF m, n
      <4> QED
        BY <1>1, <2>3, <4>1
    <3> HIDE DEF j
    <3>2. h[p] = c[j] /\ c[j] # SeparatorLine
      BY <1>3, <3>1
    <3> QED
      BY <3>2
  <2>4. p \in Nat /\ p >= 1 /\ m \in Nat
    BY <1>1, <1>2
  <2> HIDE DEF m
  <2> QED
    BY <2>1, <2>2, <2>3, <2>4
<1> QED
  BY <1>2, <1>6, <1>7, <1>8, <1>9, <1>10 DEF Holds

\* What a stream of these chunks is concatenated from.
Pieces(q) ==
    [i \in DOMAIN q |-> (IF i = 1 THEN <<>> ELSE <<SeparatorLine>>) \o q[i]]

\* Every piece is q's chunk, after a separator when it is not the first.
LEMMA PiecesAre ==
    ASSUME NEW L, NEW q \in Seq(Seq(L))
    PROVE  /\ Pieces(q) \in Seq(Seq(L \cup {SeparatorLine})) /\ Len(Pieces(q)) = Len(q)
           /\ \A i \in 1..Len(q) :
                /\ q[i] \in Seq(L \cup {SeparatorLine})
                /\ i = 1 => Pieces(q)[i] = q[i]
                /\ i # 1 => Pieces(q)[i] = <<SeparatorLine>> \o q[i]
<1> DEFINE M == L \cup {SeparatorLine}
           d == Pieces(q)
<1>1. ASSUME NEW i \in 1..Len(q)
      PROVE  /\ q[i] \in Seq(M) /\ d[i] \in Seq(M)
             /\ i = 1 => d[i] = q[i]
             /\ i # 1 => d[i] = <<SeparatorLine>> \o q[i]
  <2> DEFINE c == q[i]
  <2>1. c \in Seq(M)
    <3>1. c \in Seq(L)
      OBVIOUS
    <3> HIDE DEF c
    <3> QED
      BY <3>1
  <2>2. d[i] = (IF i = 1 THEN <<>> ELSE <<SeparatorLine>>) \o c
    <3>1. i \in DOMAIN q
      OBVIOUS
    <3> QED
      BY <3>1 DEF Pieces
  <2>3. <<>> \o c = c /\ <<SeparatorLine>> \o c \in Seq(M)
    <3>1. SeparatorLine \in M
      OBVIOUS
    <3> HIDE DEF c, M
    <3>2. <<SeparatorLine>> \in Seq(M)
      BY <3>1
    <3> QED
      BY <2>1, <3>2
  <2> HIDE DEF c, M
  <2> QED
    BY <2>1, <2>2, <2>3 DEF c
<1>2. DOMAIN d = 1..Len(q) /\ Len(q) \in Nat /\ d = [i \in DOMAIN d |-> d[i]]
  BY DEF Pieces
<1> HIDE DEF M, d
<1>3. d \in Seq(Seq(M)) /\ Len(d) = Len(q)
  <2> DEFINE T == Seq(M)
             n == Len(q)
  <2>1. d \in [1..n -> T] /\ n \in Nat
    BY <1>1, <1>2
  <2> HIDE DEF T, n
  <2>2. d \in Seq(T) /\ Len(d) = n
    BY <2>1
  <2> QED
    BY <2>2 DEF T, n
<1> QED
  BY <1>1, <1>3 DEF M, d

\* What is joined is f[n], for some f all of whose f[k] hold their chunks.
LEMMA JoinedHolds ==
    ASSUME NEW L, NEW q \in Seq(Seq(L)), Len(q) # 0,
           \A i \in 1..Len(q) : \A j \in 1..Len(q[i]) : q[i][j] # SeparatorLine
    PROVE  \E f : /\ Joined(q) = f[Len(q)]
                  /\ \A k \in 1..Len(q) :
                        f[k] \in Seq(L \cup {SeparatorLine}) /\ Holds(f, q, k)
<1> DEFINE n == Len(q)
           M == L \cup {SeparatorLine}
           d == Pieces(q)
<1>1. n \in Nat \ {0} /\ SeparatorLine \in M
  OBVIOUS
<1>2. Joined(q) = FlattenSeq(d)
  BY DEF Joined, Pieces
<1>3. /\ d \in Seq(Seq(M)) /\ Len(d) = n
      /\ \A i \in 1..n : /\ q[i] \in Seq(M)
                         /\ i = 1 => d[i] = q[i]
                         /\ i # 1 => d[i] = <<SeparatorLine>> \o q[i]
  <2> HIDE DEF M, n
  <2> QED
    BY PiecesAre DEF M, n
<1>4. \A i \in 1..n : \A j \in 1..Len(q[i]) : q[i][j] # SeparatorLine
  OBVIOUS
<1> HIDE DEF d, M
<1>5. PICK f : /\ FlattenSeq(d) = f[n] /\ f[1] = d[1]
               /\ \A i \in 1..n : i # 1 => f[i] = f[i - 1] \o d[i]
  <2>1. Len(d) = n /\ Len(d) # 0 /\ d \in Seq(Seq(M))
    BY <1>1, <1>3
  <2> HIDE DEF n
  <2>2. \E f : /\ FlattenSeq(d) = f[Len(d)] /\ f[1] = d[1]
               /\ \A i \in 1..Len(d) : i # 1 => f[i] = f[i - 1] \o d[i]
    BY <2>1, FlattenIs
  <2> QED
    BY <2>1, <2>2
<1> HIDE DEF n
<1> DEFINE S == {k \in 1..n : ~(f[k] \in Seq(M) /\ Holds(f, q, k))}
<1>s. \A k : k \in S <=> k \in 1..n /\ ~(f[k] \in Seq(M) /\ Holds(f, q, k))
  OBVIOUS
<1> HIDE DEF S
<1>6. ASSUME S # {} PROVE FALSE
  <2>1. PICK k \in S : \A j \in S : k <= j
    <3>1. S \subseteq Nat
      BY <1>1, <1>s
    <3> QED
      BY <1>6, <3>1, LeastNat
  <2>2. k \in 1..n /\ ~(f[k] \in Seq(M) /\ Holds(f, q, k)) /\ k \in Nat /\ n \in Nat
    BY <1>1, <1>s
  <2>3. CASE k = 1
    <3>1. /\ q[1] \in Seq(M) /\ f[1] = q[1]
          /\ \A j \in 1..Len(q[1]) : q[1][j] # SeparatorLine
      BY <1>3, <1>4, <1>5, <2>2, <2>3
    <3>2. Holds(f, q, 1)
      BY <3>1, HoldsFirst
    <3> QED
      BY <2>2, <2>3, <3>1, <3>2
  <2>4. CASE k # 1
    <3>1. k > 1 /\ k - 1 \in 1..n /\ ~(k <= k - 1)
      BY <2>2, <2>4
    <3>2. k - 1 \notin S
      BY <2>1, <3>1
    <3>3. f[k - 1] \in Seq(M) /\ Holds(f, q, k - 1)
      BY <1>s, <3>1, <3>2
    <3>4. /\ q[k] \in Seq(M) /\ \A j \in 1..Len(q[k]) : q[k][j] # SeparatorLine
          /\ f[k] = f[k - 1] \o (<<SeparatorLine>> \o q[k])
      BY <1>3, <1>4, <1>5, <2>2, <2>4
    <3>5. f[k] \in Seq(M) /\ Holds(f, q, k)
      BY <1>1, <2>2, <3>1, <3>3, <3>4, HoldsNext
    <3> QED
      BY <2>2, <3>5
  <2> QED
    BY <2>3, <2>4
<1>7. \A k \in 1..n : f[k] \in Seq(M) /\ Holds(f, q, k)
  BY <1>6, <1>s
<1> QED
  BY <1>2, <1>5, <1>7 DEF n, M

LEMMA SubSeqIs ==
    ASSUME NEW L, NEW M, NEW s \in Seq(M), NEW c \in Seq(L), NEW a \in Nat,
           a + Len(c) <= Len(s), \A j \in 1..Len(c) : s[a + j] = c[j]
    PROVE  SubSeq(s, a + 1, a + Len(c)) = c
<1> DEFINE d == SubSeq(s, a + 1, a + Len(c))
           k == Len(c)
<1>1. k \in Nat /\ c = [j \in 1..k |-> c[j]]
  OBVIOUS
<1>2. d = [j \in 1..k |-> s[a + j]]
  <2>1. d = [j \in 1..((a + k) - (a + 1) + 1) |-> s[j + (a + 1) - 1]]
    OBVIOUS
  <2>2. (a + k) - (a + 1) + 1 = k /\ \A j \in 1..k : j + (a + 1) - 1 = a + j
    BY <1>1
  <2> HIDE DEF d, k
  <2> QED
    BY <2>1, <2>2
<1> HIDE DEF d, k
<1> QED
  BY <1>1, <1>2 DEF d, k

LEMMA JoinedSplits ==
    ASSUME NEW L, NEW q \in Seq(Seq(L)),
           \A i \in 1..Len(q) : /\ Len(q[i]) # 0
                                /\ \A j \in 1..Len(q[i]) : q[i][j] # SeparatorLine
    PROVE  Split(Joined(q)) = q
<1> DEFINE n == Len(q)
           M == L \cup {SeparatorLine}
<1>1. n \in Nat /\ DOMAIN q = 1..n /\ q = [i \in 1..n |-> q[i]]
  OBVIOUS
<1>2. ASSUME NEW i \in 1..n PROVE q[i] \in Seq(L) /\ Len(q[i]) \in Nat \ {0}
  <2>1. q[i] \in Seq(L)
    OBVIOUS
  <2> QED
    BY <2>1
<1>3. CASE n = 0
  <2>1. q = <<>>
    BY <1>3
  <2>2. Joined(q) = <<>>
    <3>1. Joined(q) = FlattenSeq(Pieces(q))
      BY DEF Joined, Pieces
    <3>2. DOMAIN Pieces(q) = {} /\ Pieces(q) = <<>>
      BY <2>1 DEF Pieces
    <3>3. FlattenSeq(<<>>) = <<>>
      BY DEF FlattenSeq
    <3> QED
      BY <3>1, <3>2, <3>3
  <2>3. Split(<<>>) = <<>>
    BY DEF Split
  <2> QED
    BY <2>1, <2>2, <2>3
<1>4. CASE n # 0
  <2>1. PICK f : /\ Joined(q) = f[n]
                 /\ \A k \in 1..n : f[k] \in Seq(M) /\ Holds(f, q, k)
    BY <1>4, JoinedHolds
  <2> DEFINE s == f[n]
             e == [i \in 1..n |-> Len(f[i]) + 1]
             E == Ends(s)
  <2>2. n \in 1..n /\ s \in Seq(M) /\ Holds(f, q, n)
    BY <1>1, <1>4, <2>1
  <2> HIDE DEF n
  <2>3. /\ \A i \in 1..n : Len(f[i]) \in Nat /\ Len(f[i]) = Start(f, i) + Len(q[i])
        /\ \A i, j \in 1..n : i < j => Len(f[i]) < Len(f[j])
        /\ \A i \in 1..n : \A j \in 1..Len(q[i]) : s[Start(f, i) + j] = q[i][j]
        /\ \A i \in 1..(n - 1) : s[Len(f[i]) + 1] = SeparatorLine
        /\ \A p \in 1..Len(s) : s[p] = SeparatorLine =>
              \E i \in 1..(n - 1) : p = Len(f[i]) + 1
    BY <2>2 DEF Holds
  <2>4. DOMAIN s = 1..Len(s) /\ Len(s) \in Nat
    BY <2>2
  <2>5. \A i \in 1..n : /\ e[i] = Len(f[i]) + 1 /\ Len(f[i]) <= Len(s)
                        /\ i = n \/ (i \in 1..(n - 1) /\ Len(f[i]) < Len(s))
    <3> SUFFICES ASSUME NEW i \in 1..n
                 PROVE  /\ e[i] = Len(f[i]) + 1 /\ Len(f[i]) <= Len(s)
                        /\ i = n \/ (i \in 1..(n - 1) /\ Len(f[i]) < Len(s))
      OBVIOUS
    <3>1. i = n \/ (i \in 1..(n - 1) /\ i < n)
      BY <1>1
    <3>2. i < n => Len(f[i]) < Len(f[n])
      BY <2>2, <2>3
    <3> QED
      BY <2>3, <2>4, <3>1, <3>2
  <2>6. /\ E \subseteq Nat /\ e \in [1..n -> E] /\ Ascends(e, n)
        /\ \A x \in E : \E i \in 1..n : e[i] = x
    <3>1. \A x : x \in E <=> (x \in 1..Len(s) /\ s[x] = SeparatorLine) \/ x = Len(s) + 1
      BY <2>4 DEF Ends
    <3> HIDE DEF E
    <3>2. ASSUME NEW i \in 1..n PROVE e[i] \in E
      <4>1. CASE i = n
        BY <2>5, <3>1, <4>1
      <4>2. CASE i \in 1..(n - 1) /\ Len(f[i]) < Len(s)
        <5>1. /\ s[Len(f[i]) + 1] = SeparatorLine
              /\ Len(f[i]) \in Nat /\ e[i] = Len(f[i]) + 1
          BY <2>3, <2>5, <4>2
        <5>2. Len(f[i]) + 1 \in 1..Len(s)
          BY <2>4, <4>2, <5>1
        <5> QED
          BY <3>1, <5>1, <5>2
      <4> QED
        BY <2>5, <4>1, <4>2
    <3>3. ASSUME NEW x \in E PROVE \E i \in 1..n : e[i] = x
      <4>1. CASE x = Len(s) + 1
        BY <2>2, <2>5, <4>1
      <4>2. CASE x \in 1..Len(s) /\ s[x] = SeparatorLine
        <5>1. PICK i \in 1..(n - 1) : x = Len(f[i]) + 1
          BY <2>3, <4>2
        <5>2. i \in 1..n
          BY <1>1
        <5> QED
          BY <2>5, <5>1, <5>2
      <4> QED
        BY <3>1, <4>1, <4>2
    <3>4. E \subseteq Nat
      BY <2>4, <3>1
    <3>5. Ascends(e, n)
      <4> SUFFICES ASSUME NEW i \in 1..n, NEW j \in 1..n, i < j PROVE e[i] < e[j]
        BY DEF Ascends
      <4>1. Len(f[i]) < Len(f[j]) /\ Len(f[i]) \in Nat /\ Len(f[j]) \in Nat
        BY <2>3
      <4>2. e[i] = Len(f[i]) + 1 /\ e[j] = Len(f[j]) + 1
        BY <2>5
      <4> HIDE DEF e
      <4> QED
        BY <4>1, <4>2
    <3> QED
      BY <3>2, <3>3, <3>4, <3>5
  <2>7. e = [i \in 1..n |-> e[i]]
    OBVIOUS
  <2> HIDE DEF e, E
  <2>8. InOrder(E) = e
    BY <1>1, <2>6, InOrderIs
  <2>9. s # <<>>
    <3>1. Len(q[n]) \in Nat \ {0} /\ Len(s) = Start(f, n) + Len(q[n])
      BY <1>2, <2>2, <2>3 DEF n
    <3>2. Start(f, n) \in Nat
      <4>1. n # 1 => n - 1 \in 1..n
        BY <1>1, <1>4
      <4>2. n # 1 => Len(f[n - 1]) \in Nat
        BY <2>3, <4>1
      <4> QED
        BY <4>2 DEF Start
    <3>3. Len(s) # 0
      BY <2>4, <3>1, <3>2
    <3> QED
      BY <3>3
  <2> DEFINE begin(i) == IF i = 1 THEN 1 ELSE e[i - 1] + 1
  <2>10. Split(s) = [i \in 1..n |-> SubSeq(s, begin(i), e[i] - 1)]
    <3>1. DOMAIN e = 1..n
      BY <2>6
    <3> QED
      BY <2>8, <2>9, <3>1 DEF Split, E
  <2>11. ASSUME NEW i \in 1..n PROVE SubSeq(s, begin(i), e[i] - 1) = q[i]
    <3>1. begin(i) = Start(f, i) + 1 /\ Start(f, i) \in Nat
      <4>1. i # 1 => i - 1 \in 1..n
        BY <1>1
      <4>2. i # 1 => e[i - 1] = Len(f[i - 1]) + 1 /\ Len(f[i - 1]) \in Nat
        BY <2>3, <2>5, <4>1
      <4> QED
        BY <4>2 DEF Start
    <3> HIDE DEF begin
    <3> DEFINE a == Start(f, i)
               c == q[i]
               k == Len(c)
    <3>2. c \in Seq(L) /\ k \in Nat
      BY <1>2 DEF n
    <3>3. e[i] - 1 = a + k /\ a \in Nat
      <4>1. e[i] = Len(f[i]) + 1 /\ Len(f[i]) = Start(f, i) + Len(q[i])
        BY <2>3, <2>5
      <4>2. Len(q[i]) \in Nat
        BY <3>2
      <4> QED
        BY <3>1, <4>1, <4>2
    <3>4. \A j \in 1..k : s[a + j] = c[j]
      BY <2>3
    <3>5. a + k <= Len(s)
      BY <2>3, <2>5
    <3> HIDE DEF a, c, s
    <3>6. SubSeq(s, a + 1, a + k) = c
      BY <2>2, <3>2, <3>3, <3>4, <3>5, SubSeqIs
    <3> QED
      BY <3>1, <3>3, <3>6 DEF a, c
  <2>12. Split(s) = q
    BY <1>1, <2>10, <2>11
  <2> QED
    BY <2>1, <2>12
<1> QED
  BY <1>3, <1>4

-----------------------------------------------------------------------------
(* A call.                                                                 *)

Understood(c, i) == Parsed(Serialized(c.docs[i])) # Unreadable

\* What the dumper can make of a call's documents.
Chunks(c) == {Chunk(c, i) : i \in {j \in DOMAIN c.docs : Understood(c, j)}}

\* The chunks made so far are the dumps of the first documents, in their order.
PartsInv ==
    /\ parts \in Seq(Chunks(call)) /\ Len(parts) <= Len(call.docs)
    /\ \A i \in 1..Len(parts) : parts[i] = Chunk(call, i) /\ Understood(call, i)
    /\ parts # <<>> => ConfigAccepted(call.config)

\* Each stage works on what the one before it made of the next document.
StageInv ==
    /\ at \in {"parse", "config", "dump"} =>
          /\ Len(parts) < Len(call.docs)
          /\ text = Serialized(call.docs[Len(parts) + 1])
    /\ at \in {"config", "dump"} => node = Parsed(text) /\ node # Unreadable
    /\ at = "dump" \/ parts # <<>> =>
          ConfigAccepted(call.config) /\ settings = Used(call.config)

\* The stream is empty until it is all that was made.
StreamInv ==
    /\ at \in {"serialize", "parse", "config", "dump"} => stream = <<>>
    /\ at = "written" \/ stream # <<>> =>
          stream = Joined(parts) /\ Len(parts) = Len(call.docs)

\* An exception ends the call; without a stream it is about a document.
RaisedInv ==
    /\ raised \in {"none", "ParseError", "ConfigError", "UnboundLocalError"}
    /\ raised # "none" => at = "over"
    /\ raised = "ParseError" /\ stream = <<>> =>
          \E i \in DOMAIN call.docs : ~Understood(call, i)

CompatInv ==
    /\ call \in Calls /\ at \in Stages
    /\ DOMAIN settings = DOMAIN DefaultDumpConfig
    /\ PartsInv /\ StageInv /\ StreamInv /\ RaisedInv

LEMMA DocsTyped ==
    ASSUME NEW c \in Calls
    PROVE  /\ Len(c.docs) \in Nat /\ DOMAIN c.docs = 1..Len(c.docs)
           /\ \A i \in DOMAIN c.docs : c.docs[i] # Unreadable
<1> DEFINE d == c.docs
           T == ToSet(d)
<1>1. d \in Seq(T) /\ Unreadable \notin T
  BY CallsAssumption
<1>2. \A i \in DOMAIN d : d[i] \in T
  BY DEF ToSet
<1> HIDE DEF d, T
<1>3. Len(d) \in Nat /\ DOMAIN d = 1..Len(d) /\ \A i \in DOMAIN d : d[i] # Unreadable
  BY <1>1, <1>2
<1> QED
  BY <1>3 DEF d

LEMMA CompatInvInit == Init => CompatInv
<1> SUFFICES ASSUME Init PROVE CompatInv
  OBVIOUS
<1> USE DEF Init
<1>1. parts = <<>> /\ Len(parts) = 0 /\ 1..Len(parts) = {} /\ parts \in Seq(Chunks(call))
  OBVIOUS
<1>2. PartsInv
  BY <1>1, DocsTyped DEF PartsInv
<1>3. StageInv /\ StreamInv /\ RaisedInv
  BY <1>1 DEF StageInv, StreamInv, RaisedInv
<1> QED
  BY <1>2, <1>3 DEF CompatInv, Stages

\* What a stage leaves alone.
LEMMA PartsKept ==
    ASSUME PartsInv, UNCHANGED <<call, parts>>
    PROVE  PartsInv'
BY DEF PartsInv

LEMMA CompatInvNext == CompatInv /\ [Next]_vars => CompatInv'
<1> SUFFICES ASSUME CompatInv, [Next]_vars PROVE CompatInv'
  OBVIOUS
<1> DEFINE n == Len(call.docs)
<1>1. call \in Calls /\ n \in Nat /\ DOMAIN call.docs = 1..n
  BY DocsTyped DEF CompatInv
<1>2. PartsInv /\ StageInv /\ StreamInv /\ RaisedInv
  BY DEF CompatInv
<1>3. /\ Len(parts) \in Nat /\ parts \in Seq(Chunks(call))
      /\ parts = <<>> <=> Len(parts) = 0
  BY <1>2 DEF PartsInv
<1>4. DOMAIN settings = DOMAIN DefaultDumpConfig /\ at \in Stages
  BY DEF CompatInv
<1>5. Stages = {"serialize", "parse", "config", "dump", "written", "over"}
  BY DEF Stages
<1> USE <1>1
<1> HIDE DEF n
<1>a. CASE Serialize
  <2>1. PartsInv'
    BY <1>2, <1>a, PartsKept DEF Serialize
  <2>2. StageInv'
    BY <1>2, <1>a DEF Serialize, StageInv, Document
  <2>3. StreamInv' /\ RaisedInv'
    BY <1>2, <1>a DEF Serialize, StreamInv, RaisedInv, Understood
  <2> QED
    BY <1>4, <1>5, <1>a, <2>1, <2>2, <2>3 DEF CompatInv, Serialize
<1>b. CASE Parse
  <2>1. PartsInv'
    BY <1>2, <1>b, PartsKept DEF Parse
  <2>2. StageInv'
    BY <1>2, <1>b DEF Parse, StageInv
  <2>3. StreamInv' /\ RaisedInv'
    BY <1>2, <1>b DEF Parse, StreamInv, RaisedInv, Understood
  <2> QED
    BY <1>4, <1>5, <1>b, <2>1, <2>2, <2>3 DEF CompatInv, Parse
<1>c. CASE ParseFails
  <2>1. PartsInv'
    BY <1>2, <1>c, PartsKept DEF ParseFails
  <2>2. StageInv'
    BY <1>2, <1>c DEF ParseFails, Raise, StageInv
  <2>3. ~Understood(call, Len(parts) + 1) /\ Len(parts) + 1 \in DOMAIN call.docs
    BY <1>2, <1>3, <1>c DEF ParseFails, StageInv, Understood, n
  <2>4. StreamInv'
    BY <1>2, <1>c DEF ParseFails, Raise, StreamInv
  <2>5. RaisedInv'
    BY <1>2, <1>c, <2>3 DEF ParseFails, Raise, RaisedInv
  <2> QED
    BY <1>4, <1>5, <1>c, <2>1, <2>2, <2>4, <2>5 DEF CompatInv, ParseFails, Raise
<1>d. CASE Configure
  <2>1. PartsInv'
    BY <1>2, <1>d, PartsKept DEF Configure
  <2>2. StageInv'
    BY <1>2, <1>d DEF Configure, StageInv
  <2>3. StreamInv' /\ RaisedInv'
    BY <1>2, <1>d DEF Configure, StreamInv, RaisedInv, Understood
  <2>4. DOMAIN settings' = DOMAIN DefaultDumpConfig
    BY <1>d, UsedDomain DEF Configure
  <2> QED
    BY <1>5, <1>d, <2>1, <2>2, <2>3, <2>4 DEF CompatInv, Configure
<1>e. CASE ConfigFails
  <2>1. PartsInv'
    BY <1>2, <1>e, PartsKept DEF ConfigFails
  <2>2. StageInv'
    BY <1>2, <1>e DEF ConfigFails, Raise, StageInv
  <2>3. StreamInv' /\ RaisedInv'
    BY <1>2, <1>e DEF ConfigFails, Raise, StreamInv, RaisedInv, Understood
  <2> QED
    BY <1>4, <1>5, <1>e, <2>1, <2>2, <2>3 DEF CompatInv, ConfigFails, Raise
<1>f. CASE DumpConfigured
  <2> DEFINE x == Dumped(node, Settings(settings))
             k == Len(parts) + 1
  <2>1. x = Chunk(call, k) /\ k \in 1..n /\ Understood(call, k)
    BY <1>2, <1>3, <1>f DEF DumpConfigured, StageInv, Chunk, Understood, n
  <2>2. x \in Chunks(call)
    BY <2>1 DEF Chunks
  <2>3. parts' = Append(parts, x)
    BY <1>f DEF DumpConfigured
  <2> HIDE DEF x
  <2>4. /\ parts' \in Seq(Chunks(call)) /\ Len(parts') = k /\ parts' # <<>>
        /\ \A i \in 1..k : parts'[i] = IF i = k THEN x ELSE parts[i]
    BY <1>3, <2>2, <2>3
  <2>5. PartsInv'
    <3>1. \A i \in 1..k : i = k \/ i \in 1..Len(parts)
      BY <1>3
    <3>2. \A i \in 1..k : parts'[i] = Chunk(call, i) /\ Understood(call, i)
      BY <1>2, <2>1, <2>4, <3>1 DEF PartsInv
    <3>3. ConfigAccepted(call.config)
      BY <1>2, <1>f DEF DumpConfigured, StageInv
    <3>4. call' = call /\ k <= Len(call.docs)
      BY <1>f, <2>1 DEF DumpConfigured, n
    <3> HIDE DEF k
    <3> QED
      BY <2>4, <3>2, <3>3, <3>4 DEF PartsInv
  <2>6. StageInv'
    BY <1>2, <1>f DEF DumpConfigured, StageInv
  <2>7. StreamInv' /\ RaisedInv'
    BY <1>2, <1>f DEF DumpConfigured, StreamInv, RaisedInv, Understood
  <2> QED
    BY <1>4, <1>5, <1>f, <2>5, <2>6, <2>7 DEF CompatInv, DumpConfigured
<1>g. CASE Write
  <2>1. PartsInv'
    BY <1>2, <1>g, PartsKept DEF Write
  <2>2. StageInv'
    BY <1>2, <1>g DEF Write, StageInv
  <2>3. StreamInv'
    BY <1>2, <1>g DEF Write, StreamInv
  <2>4. RaisedInv'
    BY <1>2, <1>g DEF Write, RaisedInv
  <2> QED
    BY <1>4, <1>5, <1>g, <2>1, <2>2, <2>3, <2>4 DEF CompatInv, Write
<1>h. ASSUME at = "written", at' = "over",
             UNCHANGED <<call, text, node, settings, parts, stream>>,
             raised' \in {"none", "ParseError", "ConfigError", "UnboundLocalError"},
             raised' = "ParseError" => stream # <<>>
      PROVE  CompatInv'
  <2>1. PartsInv'
    BY <1>2, <1>h, PartsKept
  <2>2. StageInv'
    BY <1>2, <1>h DEF StageInv
  <2>3. StreamInv'
    BY <1>2, <1>h DEF StreamInv
  <2>4. RaisedInv'
    BY <1>h DEF RaisedInv
  <2> QED
    BY <1>4, <1>5, <1>h, <2>1, <2>2, <2>3, <2>4 DEF CompatInv
<1>i. CASE SafeLoadAll \/ SafeLoad \/ SafeLoadLimited
  <2>1. /\ at = "written" /\ at' = "over" /\ raised' = raised
        /\ UNCHANGED <<call, text, node, settings, parts, stream>>
    BY <1>i DEF SafeLoadAll, SafeLoad, SafeLoadLimited, Load
  <2>2. raised = "none"
    BY <1>2, <2>1 DEF RaisedInv
  <2> QED
    BY <1>h, <2>1, <2>2
<1>j. CASE SafeLoadFails
  <2>1. /\ at = "written" /\ at' = "over" /\ raised' = "ParseError"
        /\ UNCHANGED <<call, text, node, settings, parts, stream>>
        /\ ~StreamLegible \/ Len(Documents) > 1
    BY <1>j DEF SafeLoadFails, Raise
  <2>2. ASSUME stream = <<>> PROVE FALSE
    <3>1. Documents = <<>>
      BY <2>2 DEF Documents, Split
    <3>2. DOMAIN Documents = {} /\ Len(Documents) = 0
      BY <3>1
    <3>3. DOMAIN Values = {}
      BY <3>2 DEF Values
    <3> QED
      BY <2>1, <3>2, <3>3 DEF StreamLegible
  <2> QED
    BY <1>h, <2>1, <2>2
<1>k. CASE SafeLoadLimitedFails
  <2>1. /\ at = "written" /\ at' = "over" /\ raised' = "UnboundLocalError"
        /\ UNCHANGED <<call, text, node, settings, parts, stream>>
    BY <1>k DEF SafeLoadLimitedFails, Raise
  <2> QED
    BY <1>h, <2>1
<1>l. CASE UNCHANGED vars
  <2>1. UNCHANGED <<call, at, text, node, settings, parts, stream, raised>>
    BY <1>l DEF vars
  <2> QED
    BY <2>1, <1>2, <1>4 DEF CompatInv, PartsInv, StageInv, StreamInv, RaisedInv
<1> QED
  BY <1>a, <1>b, <1>c, <1>d, <1>e, <1>f, <1>g, <1>i, <1>j, <1>k, <1>l DEF Next

LEMMA CompatInvariant == Spec => []CompatInv
BY CompatInvInit, CompatInvNext, PTL DEF Spec

\* Every call stays within its types, whatever the documents, and no document
\* is dumped twice (safe_dump_all).
THEOREM TypeInvariant == Spec => []TypeOK
<1>1. CompatInv => TypeOK
  BY DEF CompatInv, PartsInv, RaisedInv, TypeOK
<1> QED
  BY <1>1, CompatInvariant, PTL

\* Whatever the fields of an accepted configuration and their values, those are
\* the settings the dumper uses, with those that keep types where the user is
\* silent (_fidelity_config, dumpWithYamlConfig).
THEOREM ConfigUsed == Spec => []ConfigEffective
<1>1. CompatInv => ConfigEffective
  <2> SUFFICES ASSUME CompatInv, at = "dump", WithinLimits(call.config.fields)
               PROVE  \A f \in DOMAIN settings :
                        settings[f] =
                           IF f \in DOMAIN call.config.fields THEN call.config.fields[f]
                           ELSE IF f \in DOMAIN Fidelity THEN Fidelity[f]
                           ELSE DefaultDumpConfig[f]
    BY DEF ConfigEffective
  <2>1. ConfigAccepted(call.config) /\ settings = Used(call.config)
    BY DEF CompatInv, StageInv
  <2>2. DOMAIN settings = DOMAIN DefaultDumpConfig
    BY DEF CompatInv
  <2> QED
    BY <2>1, <2>2, UsedIs
<1> QED
  BY <1>1, CompatInvariant, PTL

\* The chunks of a call have lines, and none of them is a separator.
LEMMA PartsSplit ==
    ASSUME CompatInv, parts # <<>> => Contained(Settings(settings))
    PROVE  Split(Joined(parts)) = parts
<1> DEFINE q == parts
           L == UNION {ToSet(x) : x \in Chunks(call)}
<1>1. /\ call \in Calls /\ q \in Seq(Chunks(call))
      /\ \A i \in 1..Len(q) : q[i] = Chunk(call, i) /\ Understood(call, i)
      /\ Len(q) <= Len(call.docs)
  BY DEF CompatInv, PartsInv
<1>2. Len(q) \in Nat /\ Len(call.docs) \in Nat /\ DOMAIN call.docs = 1..Len(call.docs)
  BY <1>1, DocsTyped
<1>3. ASSUME NEW i \in 1..Len(q) PROVE q[i] \in Chunks(call) /\ IsChunk(q[i])
  <2>1. q # <<>>
    BY <1>2
  <2>2. ConfigAccepted(call.config) /\ settings = Used(call.config)
    BY <2>1 DEF CompatInv, StageInv
  <2>3. i \in DOMAIN call.docs
    BY <1>1, <1>2
  <2>4. IsChunk(Chunk(call, i))
    BY <1>1, <2>1, <2>2, <2>3, ChunksAssumption DEF Understood
  <2>5. Chunk(call, i) \in Chunks(call)
    BY <1>1, <2>3 DEF Chunks
  <2> QED
    BY <1>1, <2>4, <2>5
<1>4. ASSUME NEW i \in 1..Len(q)
      PROVE  /\ q[i] \in Seq(L) /\ Len(q[i]) # 0
             /\ \A j \in 1..Len(q[i]) : q[i][j] # SeparatorLine
  <2> DEFINE c == q[i]
  <2>1. c \in Seq(ToSet(c)) /\ c # <<>> /\ SeparatorLine \notin ToSet(c)
    BY <1>3 DEF IsChunk
  <2>2. ToSet(c) \subseteq L
    BY <1>3
  <2>3. DOMAIN c = 1..Len(c)
    BY <2>1
  <2>4. \A j \in 1..Len(c) : c[j] \in ToSet(c)
    BY <2>3 DEF ToSet
  <2> HIDE DEF c, L
  <2>5. c \in Seq(L) /\ Len(c) # 0
    BY <2>1, <2>2
  <2> QED
    BY <2>1, <2>4, <2>5 DEF c
<1>5. q \in Seq(Seq(L))
  <2>1. DOMAIN q = 1..Len(q) /\ q = [i \in 1..Len(q) |-> q[i]]
    BY <1>1
  <2> DEFINE T == Seq(L)
             n == Len(q)
  <2>2. q \in [1..n -> T] /\ n \in Nat
    BY <1>2, <1>4, <2>1
  <2> HIDE DEF T, n, q
  <2>3. q \in Seq(T)
    BY <2>2
  <2> QED
    BY <2>3 DEF T
<1> HIDE DEF q, L
<1>6. Split(Joined(q)) = q
  BY <1>4, <1>5, JoinedSplits
<1> QED
  BY <1>6 DEF q

\* The stream is nothing or all the documents, and is read as the documents it
\* was joined from, whatever their lines, but for a literal scalar's in the first
\* column (safe_dump_all).
THEOREM StreamWhole == Spec => []AllOrNothing
<1>1. CompatInv => AllOrNothing
  <2> SUFFICES ASSUME CompatInv, stream # <<>>
               PROVE  /\ Len(parts) = Len(call.docs)
                      /\ Contained(Settings(settings)) => Documents = parts
    BY DEF AllOrNothing
  <2>1. stream = Joined(parts) /\ Len(parts) = Len(call.docs)
    BY DEF CompatInv, StreamInv
  <2> QED
    BY <2>1, PartsSplit DEF Documents
<1> QED
  BY <1>1, CompatInvariant, PTL

\* A document on its own comes back: it can be parsed as it is first written,
\* and what is then written under settings that keep types loads as the
\* document it was.
EachRoundTrips ==
    \A c \in Calls : \A i \in DOMAIN c.docs : Faithful(c.docs[i]) =>
        /\ Understood(c, i)
        /\ ConfigAccepted(c.config) /\ Keeps(Settings(Used(c.config)))
              => Loaded(Chunk(c, i)) = c.docs[i]

\* If each document comes back on its own, so does every stream of them: none
\* is lost, split, joined to its neighbour or moved by what stands around it,
\* and nothing is raised by the way (safe_dump_all, safe_load_all).
THEOREM StreamsRoundTrip == EachRoundTrips => (Spec => []RoundTrips)
<1> SUFFICES ASSUME EachRoundTrips PROVE Spec => []RoundTrips
  OBVIOUS
<1>1. CompatInv => RoundTrips
  <2> SUFFICES ASSUME CompatInv, \A i \in DOMAIN call.docs : Faithful(call.docs[i])
               PROVE  /\ (at = "written" /\ (parts # <<>> => Keeps(Settings(settings))))
                           => StreamLegible /\ Values = call.docs
                      /\ raised = "ParseError" => stream # <<>>
    BY DEF RoundTrips
  <2>1. call \in Calls /\ PartsInv /\ StageInv /\ StreamInv /\ RaisedInv
    BY DEF CompatInv
  <2>2. \A i \in DOMAIN call.docs :
           /\ Understood(call, i)
           /\ ConfigAccepted(call.config) /\ Keeps(Settings(Used(call.config)))
                => Loaded(Chunk(call, i)) = call.docs[i]
    BY <2>1 DEF EachRoundTrips
  <2>3. ASSUME at = "written", parts # <<>> => Keeps(Settings(settings))
        PROVE  StreamLegible /\ Values = call.docs
    <3> DEFINE n == Len(call.docs)
    <3>1. Documents = parts /\ Len(parts) = n
      BY <2>1, <2>3, PartsSplit DEF StreamInv, Documents, Keeps, Contained
    <3>2. /\ n \in Nat /\ DOMAIN call.docs = 1..n /\ DOMAIN parts = 1..n
          /\ call.docs = [i \in 1..n |-> call.docs[i]]
          /\ \A i \in 1..n : call.docs[i] # Unreadable
      <4>1. n \in Nat /\ DOMAIN call.docs = 1..n
            /\ \A i \in 1..n : call.docs[i] # Unreadable
        BY <2>1, DocsTyped
      <4>2. DOMAIN parts = 1..n
        BY <2>1, <3>1 DEF PartsInv
      <4>3. call.docs = [i \in 1..n |-> call.docs[i]]
        <5> DEFINE d == call.docs
        <5>1. d \in Seq(ToSet(d))
          BY <2>1, CallsAssumption
        <5> HIDE DEF d
        <5>2. d = [i \in 1..Len(d) |-> d[i]]
          BY <5>1
        <5> QED
          BY <5>2 DEF d
      <4> QED
        BY <4>1, <4>2, <4>3
    <3>3. ASSUME NEW i \in 1..n PROVE Loaded(parts[i]) = call.docs[i]
      <4>1. parts # <<>>
        BY <3>2
      <4>2. ConfigAccepted(call.config) /\ settings = Used(call.config)
        BY <2>1, <4>1 DEF StageInv
      <4>3. parts[i] = Chunk(call, i)
        BY <2>1, <3>1 DEF PartsInv
      <4> QED
        BY <2>2, <2>3, <3>2, <4>1, <4>2, <4>3
    <3>4. Values = [i \in 1..n |-> Loaded(parts[i])]
      BY <3>1, <3>2 DEF Values
    <3> HIDE DEF n
    <3>5. Values = call.docs
      BY <3>2, <3>3, <3>4
    <3>6. StreamLegible
      BY <3>2, <3>5 DEF StreamLegible
    <3> QED
      BY <3>5, <3>6
  <2>4. raised = "ParseError" => stream # <<>>
    BY <2>1, <2>2 DEF RaisedInv
  <2> QED
    BY <2>3, <2>4
<1> QED
  BY <1>1, CompatInvariant, PTL

-----------------------------------------------------------------------------
(* A Python string stays a string, for every text: what _quote_scalar      *)
(* leaves plain is not resolved to something else, and what it quotes is   *)
(* quoted again by a dumper that is set to preserve.                       *)


\* What is left plain is none of the words, and neither int() nor float() takes
\* it: the two functions of compat.py agree on what a number is.
THEOREM PlainStaysString ==
    ASSUME NEW s, Quoting(s) = "plain"
    PROVE  Coerced(s) = Str(s)
<1>1. ~Misreads(s)
  BY DEF Quoting
<1> QED
  BY <1>1 DEF Misreads, Coerced, LooksInt, LooksFloat

\* The styles of a string, and what the dumper makes of them when it is to
\* preserve: plain is the only one that it may change, to a quoted one.
LEMMA QuotedStaysQuoted ==
    ASSUME NEW y, y.style \in {"single", "double"}, NEW allowReserved, NEW flow
    PROVE  Preserved(y, allowReserved, flow) \in {"single", "double"}
BY DEF Preserved

LEMMA PlainOrDouble ==
    ASSUME NEW y, y.style = "plain", NEW allowReserved, NEW flow
    PROVE  Preserved(y, allowReserved, flow) \in {"plain", "double"}
BY DEF Preserved

LEMMA WrittenString ==
    ASSUME NEW s
    PROVE  /\ Written(Str(s)) = Yaml(Quoting(s), s)
           /\ Quoting(s) \in {"plain", "single", "double"}
BY DEF Written, Str, Python, Quoting

LEMMA ReadBackStyle ==
    ASSUME NEW style, NEW s, ReadBack(Yaml(style, s)) # Absent
    PROVE  /\ ReadBack(Yaml(style, s)).style = style
           /\ style = "plain" => ReadBack(Yaml(style, s)).content = s
BY DEF ReadBack, Yaml

\* A string that can be read back at all loads as a string after safe_dump: it
\* is written, parsed, dumped by a dumper that preserves styles, in a block or
\* a flow collection, with reserved words allowed or not, and parsed again.  A
\* text may lose an apostrophe on the way, never its type.
THEOREM StringsStayStrings ==
    ASSUME NEW s, NEW allowReserved, NEW flow,
           ReadBack(Written(Str(s))) # Absent
    PROVE  ScalarToPython(Redumped(ReadBack(Written(Str(s))),
                                   "preserve", allowReserved, flow)).type = "str"
<1> DEFINE y == ReadBack(Written(Str(s)))
<1> DEFINE again == Redumped(y, "preserve", allowReserved, flow)
<1>1. /\ y.style = Quoting(s)
      /\ Quoting(s) = "plain" => y.content = s
      /\ Quoting(s) \in {"plain", "single", "double"}
  BY WrittenString, ReadBackStyle
<1>2. again = Yaml(Preserved(y, allowReserved, flow), y.content)
  BY DEF Redumped, Chosen
<1>3. CASE Quoting(s) = "plain"
  <2>1. again.style \in {"plain", "double"} /\ again.content = s
    BY <1>1, <1>2, <1>3, PlainOrDouble DEF Yaml
  <2>2. Coerced(s).type = "str"
    BY <1>3, PlainStaysString DEF Str, Python
  <2> QED BY <2>1, <2>2 DEF ScalarToPython, Str, Python
<1>4. CASE Quoting(s) \in {"single", "double"}
  <2>1. again.style \in {"single", "double"}
    BY <1>1, <1>2, <1>4, QuotedStaysQuoted DEF Yaml
  <2> QED BY <2>1 DEF ScalarToPython, Str, Python
<1> QED BY <1>1, <1>3, <1>4

=============================================================================
