------------------------- MODULE HandlesStepProofs -------------------------
(***************************************************************************)
(* Each step keeps the invariant of HandlesProofs: those that count, those *)
(* that hand over, and the calls that allocate.  With no wrapper used by   *)
(* two threads, counts are right, no call uses what was freed, handles and *)
(* borrows last, nothing leaks and every step is one the interface         *)
(* promises, for any objects, threads and wrappers.                        *)
(***************************************************************************)
EXTENDS HandlesProofs, WellFoundedInduction

LEMMA LeastNat ==
    ASSUME NEW S, S \subseteq Nat, S # {}
    PROVE  \E x \in S : \A y \in S : x <= y
<1>1. PICK x \in S : \A y \in S : ~(<<y, x>> \in OpToRel(<, Nat))
  BY WFMin, NatLessThanWellFounded
<1>2. \A y \in S : ~(y < x)
  BY <1>1 DEF OpToRel
<1> QED
  BY <1>2

\* A program says nothing of what it has no part of.
LEMMA NetMentions ==
    ASSUME NEW s \in Seq(Effects), NEW o, Net(s, o) # 0
    PROVE  \E i \in 1..Len(s) : s[i].obj = o
BY NetNone

\* What comes of a program from its i-th effect on.
LEMMA NetRest ==
    ASSUME NEW s \in Seq(Effects), NEW i \in 1..Len(s), NEW o,
           \A k \in 1..Len(s) : k < i => s[k].obj # o
    PROVE  Net(Rest(s, i), o) = Net(s, o)
<1> DEFINE a == SubSeq(s, 1, i - 1)
           b == Rest(s, i)
           n == Len(s)
<1>1. n \in Nat /\ i \in Nat /\ i >= 1 /\ i <= n /\ i \in 1..(n + 1)
  OBVIOUS
<1>2. a \in Seq(Effects) /\ Len(a) = i - 1 /\ \A k \in 1..(i - 1) : a[k] = s[k]
  OBVIOUS
<1>3. b \in Seq(Effects) /\ Len(b) = n - i + 1 /\ \A k \in 1..(n - i + 1) : b[k] = s[i + k - 1]
  BY <1>1, RestType
<1> HIDE DEF a, b
<1>4. /\ a \o b \in Seq(Effects) /\ Len(a \o b) = Len(a) + Len(b)
      /\ \A k \in 1..Len(a) : (a \o b)[k] = a[k]
      /\ \A k \in 1..Len(b) : (a \o b)[Len(a) + k] = b[k]
  BY <1>2, <1>3, ConcatIs
<1> DEFINE u == a \o b
<1>5. /\ u \in Seq(Effects) /\ Len(u) = n
      /\ \A k \in 1..(i - 1) : u[k] = a[k]
      /\ \A k \in 1..(n - i + 1) : u[(i - 1) + k] = b[k]
  BY <1>1, <1>2, <1>3, <1>4
<1> HIDE DEF u
<1>6. ASSUME NEW k \in 1..n PROVE u[k] = s[k]
  <2>1. CASE k < i
    <3>1. k \in 1..(i - 1)
      BY <1>1, <2>1
    <3> QED
      BY <1>2, <1>5, <3>1
  <2>2. CASE k >= i
    <3> DEFINE j == k - i + 1
    <3>1. j \in 1..(n - i + 1) /\ (i - 1) + j = k /\ i + j - 1 = k
      BY <1>1, <2>2
    <3> HIDE DEF j
    <3>2. u[(i - 1) + j] = b[j] /\ b[j] = s[i + j - 1]
      BY <1>3, <1>5, <3>1
    <3> QED
      BY <3>1, <3>2
  <2> QED
    BY <1>1, <2>1, <2>2
<1> HIDE DEF n
<1>7. u = s
  BY <1>5, <1>6, SameEffects DEF n
<1>8. Net(s, o) = Net(a, o) + Net(b, o)
  <2>1. Net(u, o) = Net(a, o) + Net(b, o)
    BY <1>2, <1>3, NetConcat DEF u
  <2> QED
    BY <1>7, <2>1
<1>9. Net(a, o) = 0
  <2>1. \A k \in 1..Len(a) : a[k].obj # o
    <3> SUFFICES ASSUME NEW k \in 1..Len(a) PROVE a[k].obj # o
      OBVIOUS
    <3>1. k \in 1..(i - 1)
      BY <1>2
    <3>2. k \in 1..n /\ k < i /\ a[k] = s[k]
      BY <1>1, <1>2, <3>1
    <3> QED
      BY <3>2 DEF n
  <2> QED
    BY <1>2, <2>1, NetNone
<1>10. Net(b, o) \in Int
  BY <1>3, NetType
<1> QED
  BY <1>8, <1>9, <1>10 DEF b

\* An object of which a program has no reference is named in it only if v, or an
\* object the program names, leads to it.
LEMMA NamedBecause ==
    ASSUME NEW s \in Seq(Effects), NEW v, Legal(s, v), NEW q \in Objects \ Static,
           Net(s, q) = 0, NEW j \in 1..Len(s), s[j].obj = q
    PROVE  \/ v = q
           \/ \E p \in Objects : /\ q \in FieldSet(p)
                                 /\ p = v \/ \E k \in 1..Len(s) : s[k].obj = p
<1> DEFINE I == {i \in 1..Len(s) : s[i].obj = q}
<1>1. PICK i \in I : \A k \in I : i <= k
  <2>1. I \subseteq Nat /\ I # {}
    OBVIOUS
  <2> HIDE DEF I
  <2> QED
    BY <2>1, LeastNat
<1>2. i \in 1..Len(s) /\ s[i].obj = q
  OBVIOUS
<1>3. \A k \in 1..Len(s) : k < i => s[k].obj # q
  BY <1>1, <1>2
<1> HIDE DEF I
<1> DEFINE r == Rest(s, i)
           n == Len(s)
<1>4. n \in Nat /\ i \in 1..(n + 1) /\ 1 \in 1..(n - i + 1) /\ i + 1 - 1 = i
  BY <1>2
<1>5. r \in Seq(Effects) /\ Len(r) = n - i + 1 /\ \A k \in 1..(n - i + 1) : r[k] = s[i + k - 1]
  BY <1>4, RestType
<1>6. Net(r, q) = 0
  BY <1>2, <1>3, NetRest
<1>7. Legal(r, v)
  <2> SUFFICES ASSUME NEW k \in 1..(Len(r) + 1) PROVE Sound(Rest(r, k), v)
    BY DEF Legal
  <2> DEFINE m == i + k - 1
  <2> HIDE DEF r
  <2>1. m \in 1..(n + 1) /\ k \in 1..(n - i + 2)
    BY <1>2, <1>4, <1>5
  <2>4. Len(r) - k + 1 = n - m + 1
    BY <1>2, <1>4, <1>5, <2>1
  <2> HIDE DEF m
  <2>2. /\ Rest(r, k) \in Seq(Effects) /\ Len(Rest(r, k)) = Len(r) - k + 1
        /\ \A x \in 1..(Len(r) - k + 1) : Rest(r, k)[x] = r[k + x - 1]
    <3>1. r \in Seq(Effects) /\ k \in 1..(Len(r) + 1)
      BY <1>5
    <3> HIDE DEF n
    <3> QED
      BY <3>1 DEF Rest
  <2>3. /\ Rest(s, m) \in Seq(Effects) /\ Len(Rest(s, m)) = n - m + 1
        /\ \A x \in 1..(n - m + 1) : Rest(s, m)[x] = s[m + x - 1]
    BY <2>1, RestType
  <2> HIDE DEF n
  <2>5. ASSUME NEW x \in 1..(n - m + 1) PROVE Rest(r, k)[x] = Rest(s, m)[x]
    <3> DEFINE y == k + x - 1
    <3>1. y \in 1..(n - i + 1) /\ i + y - 1 = m + x - 1
      BY <1>2, <1>4, <2>1 DEF m
    <3>2. Rest(r, k)[x] = r[y] /\ Rest(s, m)[x] = s[m + x - 1]
      BY <2>2, <2>3, <2>4
    <3> HIDE DEF y
    <3>3. r[y] = s[i + y - 1]
      BY <1>5, <3>1
    <3> QED
      BY <3>1, <3>2, <3>3
  <2>6. Rest(r, k) = Rest(s, m)
    BY <2>2, <2>3, <2>4, <2>5, SameEffects
  <2>7. Sound(Rest(s, m), v)
    BY <2>1 DEF Legal, n
  <2> QED
    BY <2>6, <2>7
<1>8. r # <<>> /\ r[1].obj = q /\ Head(r) = r[1]
  <2>1. Len(r) \in Nat \ {0} /\ r[1] = s[i]
    BY <1>4, <1>5
  <2>2. r # <<>>
    BY <2>1, NotEmpty
  <2> HIDE DEF r
  <2> QED
    BY <1>2, <1>5, <2>1, <2>2, HeadTail
<1>9. \A k \in 1..Len(r) : \E m \in 1..n : s[m] = r[k]
  <2> SUFFICES ASSUME NEW k \in 1..Len(r) PROVE \E m \in 1..n : s[m] = r[k]
    OBVIOUS
  <2>1. k \in 1..(n - i + 1)
    BY <1>5
  <2>2. i + k - 1 \in 1..n
    BY <1>2, <1>4, <2>1
  <2> QED
    BY <1>5, <2>1, <2>2
<1> HIDE DEF r, n
<1>10. r[1].op = "inc"
  <2> SUFFICES ASSUME r[1].op # "inc" PROVE FALSE
    OBVIOUS
  <2>1. Net(r, q) = Net(Tail(r), q) + 1
    BY <1>5, <1>8, NetTail, WeightType
  <2>2. Tail(r) \in Seq(Effects) /\ Legal(Tail(r), v)
    BY <1>5, <1>7, <1>8, HeadTail, LegalTail
  <2>3. Net(Tail(r), q) >= 0 /\ Net(Tail(r), q) \in Int
    BY <2>2, LegalNow, NetType DEF Sound
  <2> QED
    BY <1>6, <2>1, <2>3
<1>11. PICK p \in Objects : (p = v \/ Net(r, p) >= 1) /\ Leads(p, q)
  BY <1>5, <1>7, <1>8, <1>10, LegalNow DEF Sound
<1>12. CASE p = v
  BY <1>11, <1>12 DEF Leads
<1>13. CASE p # v
  <2>1. Net(r, p) >= 1 /\ Net(r, p) # 0
    BY <1>11, <1>13
  <2>2. p # q /\ q \in FieldSet(p)
    BY <1>6, <1>11, <2>1 DEF Leads
  <2>3. \E k \in 1..Len(r) : r[k].obj = p
    BY <1>5, <2>1, NetMentions
  <2> QED
    BY <1>9, <2>2, <2>3 DEF n
<1> QED
  BY <1>12, <1>13

-----------------------------------------------------------------------------
(* What a thread does to what is its own.                                  *)

Mine(home, t, o) == o \notin Static => home[o] = t

LEMMA RefsSame ==
    ASSUME NEW S \in SUBSET Objects, NEW T \in SUBSET Objects, NEW o \in Objects,
           \A p \in Objects : o \in FieldSet(p) => (p \in S <=> p \in T)
    PROVE  RefsFrom(S, o) = RefsFrom(T, o)
<1>1. \A p \in Objects : o \in FieldSet(p) <=> \E i \in 1..Len(Fields(p)) : Fields(p)[i] = o
  BY FieldTypes
<1>r. /\ \A e : e \in Refs(S, o) <=>
            \E p \in S : \E i \in 1..Len(Fields(p)) : e = <<p, i>> /\ Fields(p)[i] = o
      /\ \A e : e \in Refs(T, o) <=>
            \E p \in T : \E i \in 1..Len(Fields(p)) : e = <<p, i>> /\ Fields(p)[i] = o
  BY RefsIs
<1>2. ASSUME NEW e, e \in Refs(S, o) PROVE e \in Refs(T, o)
  <2>1. PICK p \in S : \E i \in 1..Len(Fields(p)) : e = <<p, i>> /\ Fields(p)[i] = o
    BY <1>2, <1>r
  <2>2. p \in T
    <3>1. p \in Objects /\ o \in FieldSet(p)
      BY <1>1, <2>1
    <3> QED
      BY <2>1, <3>1
  <2> QED
    BY <1>r, <2>1, <2>2
<1>3. ASSUME NEW e, e \in Refs(T, o) PROVE e \in Refs(S, o)
  <2>1. PICK p \in T : \E i \in 1..Len(Fields(p)) : e = <<p, i>> /\ Fields(p)[i] = o
    BY <1>3, <1>r
  <2>2. p \in S
    <3>1. p \in Objects /\ o \in FieldSet(p)
      BY <1>1, <2>1
    <3> QED
      BY <2>1, <3>1
  <2> QED
    BY <1>r, <2>1, <2>2
<1>4. Refs(S, o) = Refs(T, o)
  BY <1>2, <1>3
<1> QED
  BY <1>4, RefsIs

\* Of what it does to counts.
CountsMine(home, t) ==
    /\ rc' \in [Objects -> Nat]
    /\ \A q \in Objects : q \in Static \/ home[q] # t => rc'[q] = rc[q]
    /\ \A q \in Objects \ Static : rc'[q] > 0 /\ ~Live(q) =>
          \A p \in FieldSet(q) : Mine(home, t, p)

\* Of what it does to wrappers and to its holder.
HoldsMine(home, t) ==
    /\ \A w \in Wrappers :
          \/ wrapper'[w] = wrapper[w] /\ owner'[w] = owner[w]
          \/ /\ wrapper[w] # Nothing => Mine(home, t, wrapper[w])
             /\ wrapper'[w] # Nothing => /\ wrapper'[w] \in Objects /\ owner'[w] = t
                                         /\ Mine(home, t, wrapper'[w])
    /\ Held(t)' # Nothing => Mine(home, t, Held(t)')

\* Of what is left of its call.
NamesMine(home, t) ==
    \A i \in 1..Len(todo'[t]) : rc'[todo'[t][i].obj] > 0 /\ Mine(home, t, todo'[t][i].obj)

\* Of counts and references.
EvenMine(home, t) ==
    \A o \in Objects \ Static : home[o] = t =>
        rc'[o] = Net(todo'[t], o) + Wrappings(o)' + Holdings(o)' + RefsFrom(Heap', o)

LEMMA ThreadKeeps ==
    ASSUME Books, NEW home, Accounts(home), NEW t \in Threads, reg'[t] = 0, todo'[t] \in Seq(Effects),
           \A u \in Threads : u # t => todo'[u] = todo[u] /\ reg'[u] = reg[u] /\ tls'[u] = tls[u],
           CallsLegal', CountsMine(home, t), HoldsMine(home, t), NamesMine(home, t),
           EvenMine(home, t)
    PROVE  Accounts(home)'
<1>1. Types /\ StaticKept /\ Homes(home) /\ Even(home)
  BY DEF Books, Accounts
<1>2. /\ home \in [Objects -> Threads]
      /\ \A u \in Threads : \A i \in 1..Len(todo[u]) : Mine(home, u, todo[u][i].obj)
      /\ \A w \in Wrappers : wrapper[w] \in Objects \ Static => home[wrapper[w]] = owner[w]
      /\ \A u \in Threads : Held(u) \in Objects \ Static => home[Held(u)] = u
      /\ \A o \in Heap : \A p \in FieldSet(o) \ Static : home[p] = home[o]
  BY <1>1 DEF Homes, Mine
<1>3. /\ rc' \in [Objects -> Nat] /\ rc \in [Objects -> Nat]
      /\ \A q \in Objects : q \in Static \/ home[q] # t => rc'[q] = rc[q]
      /\ \A q \in Objects \ Static : rc'[q] > 0 /\ ~Live(q) =>
            \A p \in FieldSet(q) : Mine(home, t, p)
  BY <1>1 DEF CountsMine, Types
<1>4. /\ Updating'
      /\ \A u \in Threads : u # t => \A i \in 1..Len(todo'[u]) : rc'[todo'[u][i].obj] > 0
  BY <1>1, <1>3, OthersKeep
<1>5. StaticKept'
  BY <1>1, <1>3, Distinct DEF StaticKept
<1>6. MentionsLive'
  BY <1>4 DEF NamesMine, MentionsLive, Live
<1>7. \A u \in Threads : u # t => Held(u)' = Held(u)
  BY DEF Held, Replacing
<1>8. /\ \A w \in Wrappers :
            \/ wrapper'[w] = wrapper[w] /\ owner'[w] = owner[w]
            \/ /\ wrapper[w] # Nothing => Mine(home, t, wrapper[w])
               /\ wrapper'[w] # Nothing => /\ wrapper'[w] \in Objects /\ owner'[w] = t
                                           /\ Mine(home, t, wrapper'[w])
      /\ Held(t)' # Nothing => Mine(home, t, Held(t)')
  BY DEF HoldsMine
<1>9. Homes(home)'
  <2>1. \A u \in Threads : \A i \in 1..Len(todo'[u]) :
            todo'[u][i].obj \notin Static => home[todo'[u][i].obj] = u
    <3> SUFFICES ASSUME NEW u \in Threads, NEW i \in 1..Len(todo'[u]),
                        todo'[u][i].obj \notin Static
                 PROVE  home[todo'[u][i].obj] = u
      OBVIOUS
    <3>1. CASE u = t
      BY <3>1 DEF NamesMine, Mine
    <3>2. CASE u # t
      BY <1>2, <3>2 DEF Mine
    <3> QED
      BY <3>1, <3>2
  <2>2. \A w \in Wrappers : wrapper'[w] \in Objects \ Static => home[wrapper'[w]] = owner'[w]
    BY <1>2, <1>8, Distinct DEF Mine
  <2>3. \A u \in Threads : Held(u)' \in Objects \ Static => home[Held(u)'] = u
    BY <1>2, <1>7, <1>8, Distinct DEF Mine
  <2>4. ASSUME NEW o \in Heap', NEW p \in FieldSet(o) \ Static PROVE home[p] = home[o]
    <3>1. o \in Objects \ Static /\ rc'[o] > 0
      BY DEF Heap, Live
    <3>2. CASE Live(o)
      <4>1. o \in Heap
        BY <3>1, <3>2 DEF Heap
      <4> QED
        BY <1>2, <4>1
    <3>3. CASE ~Live(o)
      <4>1. rc'[o] # rc[o]
        BY <3>1, <3>3 DEF Live
      <4>2. home[o] = t /\ Mine(home, t, p)
        BY <1>3, <3>1, <3>3, <4>1
      <4> QED
        BY <4>2 DEF Mine
    <3> QED
      BY <3>2, <3>3
  <2> QED
    BY <1>2, <2>1, <2>2, <2>3, <2>4 DEF Homes
<1>10. Even(home)'
  <2> SUFFICES ASSUME NEW o \in Objects \ Static
               PROVE  rc'[o] = Net(todo'[home[o]], o) + Wrappings(o)' + Holdings(o)' + RefsFrom(Heap', o)
    BY DEF Even, Net, Count, Gives, Takes, Effects, RefsFrom
  <2>1. CASE home[o] = t
    BY <2>1 DEF EvenMine
  <2>2. CASE home[o] # t
    <3>1. home[o] \in Threads /\ todo'[home[o]] = todo[home[o]]
      BY <1>2, <2>2
    <3>2. rc'[o] = rc[o]
      BY <1>3, <2>2
    <3>3. Wrappings(o)' = Wrappings(o)
      <4>1. \A w \in Wrappers : wrapper'[w] = o <=> wrapper[w] = o
        BY <1>8, <2>2, Distinct DEF Mine
      <4> QED
        BY <4>1 DEF Wrappings
    <3>4. Holdings(o)' = Holdings(o)
      <4>1. ASSUME NEW u \in Threads PROVE Held(u)' = o <=> Held(u) = o
        <5>1. CASE u = t
          <6>1. Held(t) # o
            BY <1>2, <2>2
          <6>2. Held(t)' # o
            BY <1>8, <2>2, Distinct DEF Mine
          <6> QED
            BY <5>1, <6>1, <6>2
        <5>2. CASE u # t
          BY <1>7, <5>2
        <5> QED
          BY <5>1, <5>2
      <4> QED
        BY <4>1 DEF Holdings
    <3>5. RefsFrom(Heap', o) = RefsFrom(Heap, o)
      <4>1. ASSUME NEW p \in Objects, o \in FieldSet(p) PROVE p \in Heap' <=> p \in Heap
        <5>1. CASE p \in Static
          BY <5>1 DEF Heap
        <5>2. CASE p \notin Static /\ home[p] # t
          <6>1. rc'[p] = rc[p]
            BY <1>3, <5>2
          <6> QED
            BY <6>1 DEF Heap, Live
        <5>3. CASE p \notin Static /\ home[p] = t
          <6>1. p \notin Heap
            BY <1>2, <2>2, <4>1, <5>3
          <6>2. p \notin Heap'
            <7>1. ~Live(p)
              BY <5>3, <6>1 DEF Heap
            <7>2. ~Mine(home, t, o)
              BY <2>2 DEF Mine
            <7>3. ~(rc'[p] > 0)
              BY <1>3, <4>1, <5>3, <7>1, <7>2
            <7> QED
              BY <7>3 DEF Heap, Live
          <6> QED
            BY <6>1, <6>2
        <5> QED
          BY <5>1, <5>2, <5>3
      <4>2. Heap \in SUBSET Objects /\ Heap' \in SUBSET Objects
        BY DEF Heap
      <4> QED
        BY <4>1, <4>2, RefsSame
    <3> QED
      BY <1>1, <3>1, <3>2, <3>3, <3>4, <3>5 DEF Even
  <2> QED
    BY <2>1, <2>2
<1> QED
  BY <1>4, <1>5, <1>6, <1>9, <1>10 DEF Accounts

\* An object that is not in memory may be any thread's.
Rehomed(home, H, t) == [o \in Objects |-> IF o \in H THEN t ELSE home[o]]

LEMMA Rehome ==
    ASSUME Books, NEW home, Accounts(home), NEW t \in Threads, NEW H \in SUBSET Objects,
           \A o \in H : ~Live(o)
    PROVE  Accounts(Rehomed(home, H, t))
<1> DEFINE h == Rehomed(home, H, t)
<1>1. Types /\ StaticKept /\ MentionsLive /\ Homes(home) /\ Even(home)
  BY DEF Books, Accounts
<1>2. /\ home \in [Objects -> Threads] /\ h \in [Objects -> Threads]
      /\ \A o \in Objects : h[o] = IF o \in H THEN t ELSE home[o]
  BY <1>1 DEF Homes, Rehomed
<1> HIDE DEF h
<1>3. \A o \in Objects : Live(o) => h[o] = home[o]
  BY <1>2
<1>4. Homes(h)
  <2>1. ASSUME NEW u \in Threads, NEW i \in 1..Len(todo[u]), todo[u][i].obj \notin Static
        PROVE  h[todo[u][i].obj] = u
    <3>1. todo[u] \in Seq(Effects)
      BY <1>1 DEF Types
    <3>2. todo[u][i] \in Effects
      BY <3>1
    <3>3. todo[u][i].obj \in Objects /\ Live(todo[u][i].obj)
      BY <1>1, <3>2 DEF MentionsLive, Effects
    <3> QED
      BY <1>1, <1>3, <2>1, <3>3 DEF Homes
  <2>2. ASSUME NEW w \in Wrappers, wrapper[w] \in Objects \ Static PROVE h[wrapper[w]] = owner[w]
    <3>1. Live(wrapper[w])
      BY <2>2, Referred
    <3> QED
      BY <1>1, <1>3, <2>2, <3>1 DEF Homes
  <2>3. ASSUME NEW u \in Threads, Held(u) \in Objects \ Static PROVE h[Held(u)] = u
    <3>1. Live(Held(u))
      BY <2>3, Referred
    <3> QED
      BY <1>1, <1>3, <2>3, <3>1 DEF Homes
  <2>4. ASSUME NEW o \in Heap, NEW p \in FieldSet(o) \ Static PROVE h[p] = h[o]
    <3>1. o \in Objects /\ Live(o)
      BY DEF Heap
    <3>2. p \in Objects
      BY <3>1, FieldTypes
    <3>3. Live(p)
      BY <3>1, <3>2, Referred
    <3> QED
      BY <1>1, <1>3, <3>1, <3>2, <3>3 DEF Homes
  <2> QED
    BY <1>2, <2>1, <2>2, <2>3, <2>4 DEF Homes
<1>5. Even(h)
  <2> SUFFICES ASSUME NEW o \in Objects \ Static
               PROVE  rc[o] = Net(todo[h[o]], o) + Wrappings(o) + Holdings(o) + RefsFrom(Heap, o)
    BY DEF Even
  <2>1. rc[o] = Net(todo[home[o]], o) + Wrappings(o) + Holdings(o) + RefsFrom(Heap, o)
    BY <1>1 DEF Even
  <2>2. CASE Live(o)
    BY <1>3, <2>1, <2>2
  <2>3. CASE ~Live(o)
    <3>1. h[o] \in Threads /\ todo[h[o]] \in Seq(Effects)
      BY <1>1, <1>2 DEF Types
    <3>2. \A i \in 1..Len(todo[h[o]]) : todo[h[o]][i].obj # o
      BY <1>1, <2>3, <3>1 DEF MentionsLive
    <3>3. Net(todo[h[o]], o) = 0
      BY <3>1, <3>2, NetNone
    <3>4. Net(todo[home[o]], o) = 0
      BY <2>3, Referred
    <3> QED
      BY <2>1, <3>3, <3>4
  <2> QED
    BY <2>2, <2>3
<1> QED
  BY <1>4, <1>5 DEF Accounts, h

-----------------------------------------------------------------------------
(* The first effect of what is left of a call.                             *)

LEMMA FirstOf ==
    ASSUME Books, NEW home, Accounts(home), NEW t \in Threads, todo[t] # <<>>
    PROVE  /\ todo[t] \in Seq(Effects) /\ Tail(todo[t]) \in Seq(Effects)
           /\ Head(todo[t]) \in Effects /\ Head(todo[t]).obj \in Objects
           /\ Live(Head(todo[t]).obj) /\ Mine(home, t, Head(todo[t]).obj)
           /\ Fits(Head(todo[t]), using[t])
           /\ Legal(Tail(todo[t]), Serves(t))
           /\ \A i \in 1..Len(Tail(todo[t])) :
                 /\ Tail(todo[t])[i] \in Effects /\ Tail(todo[t])[i].obj \in Objects
                 /\ Live(Tail(todo[t])[i].obj) /\ Mine(home, t, Tail(todo[t])[i].obj)
                 /\ Fits(Tail(todo[t])[i], using[t])
           /\ \A o : /\ Net(todo[t], o) = Net(Tail(todo[t]), o) + Weight(Head(todo[t]), o)
                     /\ Net(Tail(todo[t]), o) \in Int
           /\ \A X : /\ Count(todo[t], X) = Count(Tail(todo[t]), X)
                                            + IF Head(todo[t]) \in X THEN 1 ELSE 0
                     /\ Count(Tail(todo[t]), X) \in Nat
           /\ Holds(todo[t]) <=> Head(todo[t]).op = "hold" \/ Holds(Tail(todo[t]))
<1> DEFINE s == todo[t]
           e == Head(s)
           r == Tail(s)
<1>1. Types /\ Texting /\ MentionsLive /\ CallsLegal /\ Homes(home)
  BY DEF Books, Accounts
<1>2. s \in Seq(Effects) /\ s # <<>> /\ Legal(s, Serves(t))
  BY <1>1 DEF Types, CallsLegal
<1>3. /\ e \in Effects /\ e = s[1] /\ r \in Seq(Effects) /\ s = <<e>> \o r
      /\ Len(r) = Len(s) - 1 /\ Len(s) \in Nat \ {0}
      /\ \A i \in 1..Len(r) : r[i] = s[i + 1]
  BY <1>2, HeadTail
<1>4. \A i \in 1..Len(s) : /\ s[i] \in Effects /\ s[i].obj \in Objects /\ Live(s[i].obj)
                           /\ Mine(home, t, s[i].obj) /\ Fits(s[i], using[t])
  <2> SUFFICES ASSUME NEW i \in 1..Len(s)
               PROVE  /\ s[i] \in Effects /\ s[i].obj \in Objects /\ Live(s[i].obj)
                      /\ Mine(home, t, s[i].obj) /\ Fits(s[i], using[t])
    OBVIOUS
  <2>1. s[i] \in Effects
    BY <1>2
  <2>2. s[i].obj \in Objects
    BY <2>1 DEF Effects
  <2> QED
    BY <1>1, <2>1, <2>2 DEF MentionsLive, Homes, Mine, Texting
<1>5. Legal(r, Serves(t))
  BY <1>2, LegalTail
<1>6. \A o : Net(s, o) = Net(r, o) + Weight(e, o) /\ Net(r, o) \in Int
  BY <1>2, <1>3, NetTail, NetType
<1>7. \A X : /\ Count(s, X) = Count(r, X) + IF e \in X THEN 1 ELSE 0
             /\ Count(r, X) \in Nat
  BY <1>2, <1>3, CountTail, CountType
<1> HIDE DEF e, r
<1>8. Holds(s) <=> e.op = "hold" \/ Holds(r)
  <2> DEFINE b == <<e>>
  <2>1. b \in Seq(Effects) /\ (Holds(b) <=> e.op = "hold")
    BY <1>3, HoldsOne
  <2>2. s = b \o r
    BY <1>3
  <2> HIDE DEF b, s
  <2> QED
    BY <1>3, <2>1, <2>2, HoldsConcat
<1>9. \A i \in 1..Len(r) : i + 1 \in 1..Len(s)
  BY <1>3
<1>10. 1 \in 1..Len(s)
  BY <1>3
<1>11. \A i \in 1..Len(r) :
          /\ r[i] \in Effects /\ r[i].obj \in Objects /\ Live(r[i].obj)
          /\ Mine(home, t, r[i].obj) /\ Fits(r[i], using[t])
  BY <1>3, <1>4, <1>9
<1>12. e.obj \in Objects /\ Live(e.obj) /\ Mine(home, t, e.obj) /\ Fits(e, using[t])
  BY <1>3, <1>4, <1>10
<1> QED
  BY <1>2, <1>3, <1>5, <1>6, <1>7, <1>8, <1>11, <1>12 DEF e, r

\* What a count's update, or its beginning, keeps: a is what it adds to the call.
LEMMA CountingKeeps ==
    ASSUME Books, NEW home, Accounts(home), NEW t \in Threads, todo[t] # <<>>,
           Head(todo[t]).op \in {"inc", "dec"},
           NEW a \in Seq(Effects),
           \A i \in 1..Len(a) : a[i].op = "dec" /\ rc'[a[i].obj] > 0 /\ Mine(home, t, a[i].obj),
           Continue(t, a \o Tail(todo[t])), reg' \in [Threads -> Nat], reg'[t] = 0,
           \A u \in Threads : u # t => reg'[u] = reg[u],
           UNCHANGED <<wrapper, owner, lent, tls>>, CountsMine(home, t),
           \A i \in 1..Len(Tail(todo[t])) : rc'[Tail(todo[t])[i].obj] > 0,
           \A o \in Objects \ Static : home[o] = t =>
               rc'[o] = rc[o] - Weight(Head(todo[t]), o) + Net(a, o)
                        + RefsFrom(Heap', o) - RefsFrom(Heap, o)
    PROVE  Books' /\ Accounts(home)'
<1> DEFINE r == Tail(todo[t])
           e == Head(todo[t])
           s == a \o r
<1>1. Types /\ Texting /\ Homes(home) /\ Even(home) /\ CallsLegal
  BY DEF Books, Accounts
<1>2. /\ todo[t] \in Seq(Effects) /\ r \in Seq(Effects) /\ Legal(r, Serves(t))
      /\ e \in Effects /\ e.obj \in Objects
      /\ \A i \in 1..Len(r) :
            Mine(home, t, r[i].obj) /\ Fits(r[i], using[t])
      /\ \A o : Net(todo[t], o) = Net(r, o) + Weight(e, o) /\ Net(r, o) \in Int
      /\ \A X : /\ Count(todo[t], X) = Count(r, X) + IF e \in X THEN 1 ELSE 0
                /\ Count(r, X) \in Nat
      /\ Holds(todo[t]) <=> e.op = "hold" \/ Holds(r)
  BY FirstOf
<1>3. Plain(a)
  BY DEF Plain
<1>4. /\ \A w : Count(a, WrapsTo(w)) = 0
      /\ Count(a, Texts) = 0
      /\ \A i \in 1..Len(a) : \A w : a[i].op # "hold" /\ Fits(a[i], w)
  BY <1>3, PlainCounts
<1> HIDE DEF e, r
<1>5. /\ s \in Seq(Effects) /\ Len(s) = Len(a) + Len(r)
      /\ \A i \in 1..Len(a) : s[i] = a[i]
      /\ \A i \in 1..Len(r) : s[Len(a) + i] = r[i]
      /\ Len(a) \in Nat /\ Len(r) \in Nat
  BY <1>2, ConcatIs
<1>6. \A X : Count(s, X) = Count(a, X) + Count(r, X)
  BY <1>2, CountConcat
<1>7. \A o : Net(s, o) = Net(a, o) + Net(r, o) /\ Net(a, o) \in Int
  BY <1>2, NetConcat, NetType
<1>8. Holds(s) <=> Holds(r)
  <2>1. ~Holds(a)
    BY <1>4 DEF Holds
  <2> QED
    BY <1>2, <2>1, HoldsConcat
<1>9. Legal(s, Serves(t))
  <2>1. \A i \in 1..Len(a) : a[i].op # "inc"
    OBVIOUS
  <2> QED
    BY <1>2, <2>1, LegalReleases
<1>10. Continue(t, s)
  BY DEF r
<1>s. ASSUME NEW i \in 1..Len(s)
      PROVE  i \in 1..Len(a) \/ (i - Len(a) \in 1..Len(r) /\ Len(a) + (i - Len(a)) = i)
  BY <1>5
<1>t. \A i \in 1..Len(r) : rc'[r[i].obj] > 0
  BY DEF r
<1> HIDE DEF s
<1>11. \A i \in 1..Len(s) :
          rc'[s[i].obj] > 0 /\ Mine(home, t, s[i].obj) /\ Fits(s[i], using[t])
  <2> SUFFICES ASSUME NEW i \in 1..Len(s)
               PROVE  rc'[s[i].obj] > 0 /\ Mine(home, t, s[i].obj) /\ Fits(s[i], using[t])
    OBVIOUS
  <2>1. CASE i \in 1..Len(a)
    BY <1>4, <1>5, <2>1
  <2>2. CASE i - Len(a) \in 1..Len(r) /\ Len(a) + (i - Len(a)) = i
    <3>1. s[Len(a) + (i - Len(a))] = r[i - Len(a)]
      BY <1>5, <2>2
    <3> QED
      BY <1>2, <1>t, <2>2, <3>1
  <2> QED
    BY <1>s, <2>1, <2>2
<1>12. /\ todo'[t] = s /\ todo' \in [Threads -> Seq(Effects)]
       /\ \A u \in Threads : u # t => todo'[u] = todo[u]
  BY <1>1, <1>5, <1>10, GoesOn
<1>13. Books'
  <2>1. ASSUME NEW w \in Wrappers PROVE Count(s, WrapsTo(w)) <= Count(todo[t], WrapsTo(w))
    <3>1. /\ Count(s, WrapsTo(w)) = Count(a, WrapsTo(w)) + Count(r, WrapsTo(w))
          /\ Count(a, WrapsTo(w)) = 0 /\ Count(r, WrapsTo(w)) \in Nat
          /\ Count(todo[t], WrapsTo(w)) = Count(r, WrapsTo(w)) + IF e \in WrapsTo(w) THEN 1 ELSE 0
      BY <1>2, <1>4, <1>6
    <3> QED
      BY <3>1
  <2>2. Count(s, Texts) <= 1
    <3>1. Count(todo[t], Texts) <= 1
      BY <1>1 DEF Texting
    <3> QED
      BY <1>2, <1>4, <1>6, <3>1
  <2> QED
    BY <1>1, <1>5, <1>10, <1>11, <2>1, <2>2, GoesOnBooks DEF CountsMine, Types
<1>14. CallsLegal'
  BY <1>1, <1>5, <1>9, <1>10, GoesOnLegal
<1>15. Types'
  BY <1>13 DEF Books
<1>16. Held(t)' = Held(t)
  <2>1. Held(t) = IF Holds(todo[t]) THEN Nothing ELSE tls[t]
    BY <1>1, HeldIs
  <2>2. Held(t)' = IF Holds(todo'[t]) THEN Nothing ELSE tls'[t]
    <3>1. DOMAIN todo'[t] = 1..Len(todo'[t])
      BY <1>12
    <3> QED
      BY <3>1 DEF Held, Replacing, Holds
  <2>3. e.op # "hold"
    BY DEF e
  <2> QED
    BY <1>2, <1>8, <1>12, <2>1, <2>2, <2>3
<1>17. HoldsMine(home, t)
  <2>1. ASSUME Held(t) # Nothing PROVE Mine(home, t, Held(t))
    <3>1. Held(t) \in Strings
      BY <1>1, <2>1 DEF Held, Types
    <3> QED
      BY <1>1, <3>1, Distinct DEF Homes, Mine
  <2> QED
    BY <1>16, <2>1 DEF HoldsMine
<1>18. NamesMine(home, t)
  BY <1>11, <1>12 DEF NamesMine
<1>19. EvenMine(home, t)
  <2> SUFFICES ASSUME NEW o \in Objects \ Static, home[o] = t
               PROVE  rc'[o] = Net(todo'[t], o) + Wrappings(o)' + Holdings(o)' + RefsFrom(Heap', o)
    BY DEF EvenMine
  <2>1. Wrappings(o)' = Wrappings(o)
    BY DEF Wrappings
  <2>2. Holdings(o)' = Holdings(o)
    <3>1. \A u \in Threads : u # t => Held(u)' = Held(u)
      BY <1>12 DEF Held, Replacing
    <3>2. \A u \in Threads : Held(u)' = Held(u)
      BY <1>16, <3>1
    <3> QED
      BY <3>2 DEF Holdings
  <2>3. rc[o] = Net(todo[t], o) + Wrappings(o) + Holdings(o) + RefsFrom(Heap, o)
    BY <1>1 DEF Even
  <2>4. rc'[o] = rc[o] - Weight(e, o) + Net(a, o) + RefsFrom(Heap', o) - RefsFrom(Heap, o)
    BY DEF e
  <2>5. Heap \in SUBSET Objects /\ Heap' \in SUBSET Objects
    BY DEF Heap
  <2>6. /\ RefsFrom(Heap, o) \in Int /\ RefsFrom(Heap', o) \in Int /\ Weight(e, o) \in Int
        /\ Wrappings(o) \in Int /\ Holdings(o) \in Int
    <3>1. RefsFrom(Heap, o) \in Int /\ RefsFrom(Heap', o) \in Int
      <4>1. RefsFrom(Heap, o) \in Nat
        BY <2>5, RefsType
      <4>2. RefsFrom(Heap', o) \in Nat
        BY <2>5, RefsType
      <4> QED
        BY <4>1, <4>2
    <3>2. Weight(e, o) \in Int
      BY WeightType
    <3>3. Wrappings(o) \in Int /\ Holdings(o) \in Int
      <4>1. Wrappings(o) \in Nat /\ Holdings(o) \in Nat
        BY Amounts
      <4> QED
        BY <4>1
    <3> QED
      BY <3>1, <3>2, <3>3
  <2>7. /\ Net(s, o) = Net(a, o) + Net(r, o) /\ Net(todo[t], o) = Net(r, o) + Weight(e, o)
        /\ Net(a, o) \in Int /\ Net(r, o) \in Int
    BY <1>2, <1>7
  <2> DEFINE R0 == RefsFrom(Heap, o)
             R1 == RefsFrom(Heap', o)
             W == Wrappings(o)
             H == Holdings(o)
  <2>8. rc'[o] = Net(s, o) + W + H + R1
    <3> DEFINE k == Weight(e, o)
               A == Net(a, o)
               N == Net(r, o)
    <3>1. rc[o] = (N + k) + W + H + R0 /\ rc'[o] = rc[o] - k + A + R1 - R0
      BY <2>3, <2>4, <2>7
    <3>2. /\ R0 \in Int /\ R1 \in Int /\ W \in Int /\ H \in Int /\ k \in Int
          /\ A \in Int /\ N \in Int
      BY <2>6, <2>7
    <3> HIDE DEF R0, R1, W, H, k, A, N
    <3>3. rc'[o] = (A + N) + W + H + R1
      BY <3>1, <3>2
    <3> QED
      BY <2>7, <3>3 DEF A, N
  <2> QED
    BY <1>12, <2>1, <2>2, <2>8
<1>20. Accounts(home)'
  BY <1>12, <1>14, <1>17, <1>18, <1>19, ThreadKeeps
<1> QED
  BY <1>13, <1>20

-----------------------------------------------------------------------------
(* Steps that count.                                                       *)

LEMMA StillKeeps ==
    ASSUME HandlesInv, UNCHANGED <<rc, wrapper, owner, tls, todo, using>>,
           reg' \in [Threads -> Nat], lent' \subseteq lent, Updating'
    PROVE  HandlesInv'
<1>1. Books
  BY DEF HandlesInv
<1>2. PICK home : Accounts(home)
  BY DEF HandlesInv
<1>3. Books'
  <2>1. Types'
    BY <1>1 DEF Books, Types
  <2>2. Serving' /\ Owned' /\ Borrows'
    BY <1>1 DEF Books, Serving, Owned, Borrows
  <2>3. Wrapping'
    BY <1>1 DEF Books, Wrapping, WrapsTo, Count
  <2>4. Texting'
    BY <1>1 DEF Books, Texting, Texts, Count, Fits
  <2> QED
    BY <2>1, <2>2, <2>3, <2>4 DEF Books
<1>4. Accounts(home)'
  <2>1. /\ \A o : Live(o)' = Live(o)
        /\ Heap' = Heap
        /\ \A u : Held(u)' = Held(u) /\ Serves(u)' = Serves(u)
    BY DEF Live, Heap, Held, Replacing, Serves
  <2>2. StaticKept'
    BY <1>2 DEF Accounts, StaticKept
  <2>3. CallsLegal'
    <3> SUFFICES ASSUME NEW u \in Threads PROVE Legal(todo'[u], Serves(u)')
      BY DEF CallsLegal, Legal, Sound, Rest, Net, Count, Gives, Takes, Effects, Leads
    <3> QED
      BY <1>2, <2>1 DEF Accounts, CallsLegal
  <2>4. MentionsLive'
    BY <1>2 DEF Accounts, MentionsLive, Live
  <2>5. Homes(home)'
    BY <1>2, <2>1 DEF Accounts, Homes
  <2>6. Even(home)'
    <3>1. \A o : Wrappings(o)' = Wrappings(o) /\ Holdings(o)' = Holdings(o)
      BY <2>1 DEF Wrappings, Holdings
    <3> QED
      BY <1>2, <2>1, <3>1 DEF Accounts, Even, Net, Count, Gives, Takes, RefsFrom
  <2> QED
    BY <2>2, <2>3, <2>4, <2>5, <2>6 DEF Accounts
<1> QED
  BY <1>3, <1>4 DEF HandlesInv

LEMMA EndBorrowKeeps ==
    ASSUME HandlesInv, NEW t \in Threads, NEW b \in lent, EndBorrow(t, b)
    PROVE  HandlesInv'
<1>1. UNCHANGED <<rc, wrapper, owner, tls, todo, using, reg>> /\ lent' \subseteq lent
  BY DEF EndBorrow
<1>2. Updating'
  <2>1. Updating
    BY DEF HandlesInv, Accounts
  <2> QED
    BY <1>1, <2>1 DEF Updating, Counts, Doing, Idle
<1>3. reg' \in [Threads -> Nat]
  BY <1>1 DEF HandlesInv, Books, Types
<1> QED
  BY <1>1, <1>2, <1>3, StillKeeps

LEMMA ReadCountKeeps ==
    ASSUME HandlesInv, NEW t \in Threads, ReadCount(t)
    PROVE  HandlesInv'
<1>1. Books
  BY DEF HandlesInv
<1>2. PICK home : Accounts(home)
  BY DEF HandlesInv
<1>3. /\ UNCHANGED <<rc, wrapper, owner, lent, tls, todo, using>>
      /\ Counts(t) /\ Head(todo[t]).obj \notin Static /\ todo[t] # <<>>
      /\ reg' = [reg EXCEPT ![t] = rc[Head(todo[t]).obj]]
  BY DEF ReadCount, caller, Counts, Doing, Idle
<1>4. Head(todo[t]).obj \in Objects
  BY <1>1, <1>2, <1>3, FirstOf
<1>5. rc[Head(todo[t]).obj] \in Nat
  BY <1>1, <1>4 DEF Books, Types
<1>6. /\ reg' \in [Threads -> Nat] /\ reg'[t] = rc[Head(todo[t]).obj]
      /\ \A u \in Threads : u # t => reg'[u] = reg[u]
  BY <1>1, <1>3, <1>5 DEF Books, Types
<1>7. Updating'
  <2> SUFFICES ASSUME NEW u \in Threads, reg'[u] > 0
               PROVE  /\ Counts(u)' /\ Head(todo'[u]).obj \notin Static
                      /\ reg'[u] = rc'[Head(todo'[u]).obj]
    BY DEF Updating
  <2>1. CASE u = t
    BY <1>3, <1>6, <2>1 DEF Counts, Doing, Idle
  <2>2. CASE u # t
    BY <1>2, <1>3, <1>6, <2>2 DEF Accounts, Updating, Counts, Doing, Idle
  <2> QED
    BY <2>1, <2>2
<1> QED
  BY <1>3, <1>6, <1>7, StillKeeps

LEMMA CountStaticKeeps ==
    ASSUME HandlesInv, NEW t \in Threads, CountStatic(t)
    PROVE  HandlesInv'
<1> DEFINE e == Head(todo[t])
           r == Tail(todo[t])
           a == <<>>
<1>1. Books /\ Types
  BY DEF HandlesInv, Books
<1>2. PICK home : Accounts(home)
  BY DEF HandlesInv
<1>3. /\ UNCHANGED <<rc, tls, reg, wrapper, owner, lent>>
      /\ e.op \in {"inc", "dec"} /\ e.obj \in Static /\ todo[t] # <<>>
      /\ Continue(t, r)
  BY DEF CountStatic, caller, Counts, Doing, Idle
<1>4. reg'[t] = 0 /\ reg' \in [Threads -> Nat] /\ \A u \in Threads : u # t => reg'[u] = reg[u]
  BY <1>1, <1>2, <1>3 DEF Types, Accounts, Updating
<1>5. /\ r \in Seq(Effects)
      /\ \A i \in 1..Len(r) : Live(r[i].obj)
  BY <1>1, <1>2, <1>3, FirstOf
<1> HIDE DEF r
<1>6. a \in Seq(Effects) /\ Len(a) = 0 /\ a \o r = r /\ \A o : Net(a, o) = 0
  BY <1>5, NetEmpty
<1> HIDE DEF a
<1>7. CountsMine(home, t)
  BY <1>1, <1>3 DEF CountsMine, Live, Types
<1>8. \A i \in 1..Len(a) : a[i].op = "dec" /\ rc'[a[i].obj] > 0 /\ Mine(home, t, a[i].obj)
  BY <1>6
<1>9. ASSUME NEW o \in Objects \ Static
      PROVE  rc'[o] = rc[o] - Weight(e, o) + Net(a, o) + RefsFrom(Heap', o) - RefsFrom(Heap, o)
  <2>1. Heap' = Heap
    BY <1>3 DEF Heap, Live
  <2>2. RefsFrom(Heap, o) \in Nat
    <3>1. Heap \in SUBSET Objects
      BY DEF Heap
    <3> QED
      BY <3>1, RefsType
  <2>3. Weight(e, o) = 0
    BY <1>3, WeightType
  <2>4. rc'[o] = rc[o] /\ rc[o] \in Nat
    BY <1>1, <1>3 DEF Types
  <2> HIDE DEF e
  <2> QED
    BY <1>6, <2>1, <2>2, <2>3, <2>4
<1>10. \A i \in 1..Len(r) : rc'[r[i].obj] > 0
  BY <1>3, <1>5 DEF Live
<1>11. Continue(t, a \o r)
  BY <1>3, <1>6
<1>12. UNCHANGED <<wrapper, owner, lent, tls>>
  BY <1>3
<1>13. Books' /\ Accounts(home)'
  BY <1>1, <1>2, <1>3, <1>4, <1>6, <1>7, <1>8, <1>9, <1>10, <1>11, <1>12, CountingKeeps DEF e, r
<1> QED
  BY <1>13 DEF HandlesInv

LEMMA IncrementKeeps ==
    ASSUME HandlesInv, NEW t \in Threads, Increment(t)
    PROVE  HandlesInv'
<1> DEFINE e == Head(todo[t])
           r == Tail(todo[t])
           a == <<>>
           q == e.obj
<1>1. Books /\ Types
  BY DEF HandlesInv, Books
<1>2. PICK home : Accounts(home)
  BY DEF HandlesInv
<1>3. /\ UNCHANGED <<tls, wrapper, owner, lent>>
      /\ e.op = "inc" /\ todo[t] # <<>> /\ reg[t] > 0
      /\ rc' = [rc EXCEPT ![q] = reg[t] + 1] /\ reg' = [reg EXCEPT ![t] = 0]
      /\ Continue(t, r)
  BY DEF Increment, caller, Doing, Idle
<1>4. reg'[t] = 0 /\ reg' \in [Threads -> Nat] /\ \A u \in Threads : u # t => reg'[u] = reg[u]
  BY <1>1, <1>3 DEF Types
<1>5. /\ r \in Seq(Effects) /\ q \in Objects /\ Live(q) /\ Mine(home, t, q)
      /\ \A i \in 1..Len(r) : r[i].obj \in Objects /\ Live(r[i].obj)
  BY <1>1, <1>2, <1>3, FirstOf
<1>6. q \notin Static /\ home[q] = t /\ reg[t] = rc[q] /\ rc[q] \in Nat
  BY <1>1, <1>2, <1>3, <1>5 DEF Accounts, Updating, Mine, Types
<1>w. \A o : Weight(e, o) = IF o = q THEN -1 ELSE 0
  BY <1>3 DEF Weight
<1> HIDE DEF r, e, q
<1>7. a \in Seq(Effects) /\ Len(a) = 0 /\ a \o r = r /\ \A o : Net(a, o) = 0
  BY <1>5, NetEmpty
<1> HIDE DEF a
<1>8. /\ rc' \in [Objects -> Nat] /\ rc \in [Objects -> Nat] /\ rc'[q] = rc[q] + 1
      /\ \A o \in Objects : o # q => rc'[o] = rc[o]
  BY <1>1, <1>3, <1>5, <1>6 DEF Types
<1>9. \A o \in Objects : Live(o)' <=> Live(o)
  BY <1>5, <1>6, <1>8 DEF Live
<1>10. CountsMine(home, t)
  BY <1>5, <1>6, <1>8 DEF CountsMine, Live
<1>11. \A i \in 1..Len(a) : a[i].op = "dec" /\ rc'[a[i].obj] > 0 /\ Mine(home, t, a[i].obj)
  BY <1>7
<1>12. ASSUME NEW o \in Objects \ Static
       PROVE  rc'[o] = rc[o] - Weight(e, o) + Net(a, o) + RefsFrom(Heap', o) - RefsFrom(Heap, o)
  <2>1. Heap' = Heap
    BY <1>9 DEF Heap
  <2>2. RefsFrom(Heap, o) \in Nat
    <3>1. Heap \in SUBSET Objects
      BY DEF Heap
    <3> QED
      BY <3>1, RefsType
  <2>3. rc'[o] = rc[o] - Weight(e, o) /\ rc[o] \in Nat /\ Weight(e, o) \in Int
    BY <1>8, <1>w
  <2> QED
    BY <1>7, <2>1, <2>2, <2>3
<1>13. \A i \in 1..Len(r) : rc'[r[i].obj] > 0
  BY <1>5, <1>9 DEF Live
<1>14. Continue(t, a \o r)
  BY <1>3, <1>7
<1>15. UNCHANGED <<wrapper, owner, lent, tls>>
  BY <1>3
<1>16. Books' /\ Accounts(home)'
  BY <1>1, <1>2, <1>3, <1>4, <1>7, <1>10, <1>11, <1>12, <1>13, <1>14, <1>15, CountingKeeps DEF e, r
<1> QED
  BY <1>16 DEF HandlesInv

\* Other references to the object remain.
LEMMA DecrementKeeps ==
    ASSUME HandlesInv, NEW t \in Threads, Decrement(t), reg[t] # 1
    PROVE  HandlesInv'
<1> DEFINE e == Head(todo[t])
           r == Tail(todo[t])
           a == <<>>
           q == e.obj
<1>1. Books /\ Types
  BY DEF HandlesInv, Books
<1>2. PICK home : Accounts(home)
  BY DEF HandlesInv
<1>3. /\ UNCHANGED <<tls, wrapper, owner, lent>>
      /\ e.op = "dec" /\ todo[t] # <<>> /\ reg[t] > 0
      /\ rc' = [rc EXCEPT ![q] = reg[t] - 1] /\ reg' = [reg EXCEPT ![t] = 0]
      /\ Continue(t, a \o r)
  BY DEF Decrement, caller, Doing, Idle
<1>4. reg'[t] = 0 /\ reg' \in [Threads -> Nat] /\ \A u \in Threads : u # t => reg'[u] = reg[u]
  BY <1>1, <1>3 DEF Types
<1>5. /\ r \in Seq(Effects) /\ q \in Objects /\ Live(q) /\ Mine(home, t, q)
      /\ \A i \in 1..Len(r) : r[i].obj \in Objects /\ Live(r[i].obj)
  BY <1>1, <1>2, <1>3, FirstOf
<1>6. q \notin Static /\ home[q] = t /\ reg[t] = rc[q] /\ rc[q] \in Nat /\ rc[q] > 1
  BY <1>1, <1>2, <1>3, <1>5 DEF Accounts, Updating, Mine, Types
<1>w. \A o : Weight(e, o) = IF o = q THEN 1 ELSE 0
  BY <1>3 DEF Weight
<1> HIDE DEF r, e, q
<1>7. a \in Seq(Effects) /\ Len(a) = 0 /\ \A o : Net(a, o) = 0
  BY NetEmpty
<1> HIDE DEF a
<1>8. /\ rc' \in [Objects -> Nat] /\ rc \in [Objects -> Nat] /\ rc'[q] = rc[q] - 1
      /\ \A o \in Objects : o # q => rc'[o] = rc[o]
  BY <1>1, <1>3, <1>5, <1>6 DEF Types
<1>9. \A o \in Objects : Live(o)' <=> Live(o)
  BY <1>5, <1>6, <1>8 DEF Live
<1>10. CountsMine(home, t)
  BY <1>5, <1>6, <1>8 DEF CountsMine, Live
<1>11. \A i \in 1..Len(a) : a[i].op = "dec" /\ rc'[a[i].obj] > 0 /\ Mine(home, t, a[i].obj)
  BY <1>7
<1>12. ASSUME NEW o \in Objects \ Static
       PROVE  rc'[o] = rc[o] - Weight(e, o) + Net(a, o) + RefsFrom(Heap', o) - RefsFrom(Heap, o)
  <2>1. Heap' = Heap
    BY <1>9 DEF Heap
  <2>2. RefsFrom(Heap, o) \in Nat
    <3>1. Heap \in SUBSET Objects
      BY DEF Heap
    <3> QED
      BY <3>1, RefsType
  <2>3. rc'[o] = rc[o] - Weight(e, o) /\ rc[o] \in Nat /\ Weight(e, o) \in Int
    BY <1>8, <1>w
  <2> QED
    BY <1>7, <2>1, <2>2, <2>3
<1>13. \A i \in 1..Len(r) : rc'[r[i].obj] > 0
  BY <1>5, <1>9 DEF Live
<1>15. UNCHANGED <<wrapper, owner, lent, tls>>
  BY <1>3
<1>16. Books' /\ Accounts(home)'
  BY <1>1, <1>2, <1>3, <1>4, <1>7, <1>10, <1>11, <1>12, <1>13, <1>15, CountingKeeps DEF e, r
<1> QED
  BY <1>16 DEF HandlesInv

\* The last reference to an object is given up: there is no other to it.
LEMMA LastReference ==
    ASSUME Books, NEW home, Accounts(home), NEW t \in Threads, Decrement(t), reg[t] = 1,
           NEW q, q = Head(todo[t]).obj
    PROVE  /\ q \in Heap /\ todo[t] # <<>> /\ Net(Tail(todo[t]), q) = 0
           /\ Wrappings(q) = 0 /\ Holdings(q) = 0 /\ RefsFrom(Heap, q) = 0
<1> DEFINE e == Head(todo[t])
           r == Tail(todo[t])
<1>1. Books /\ Types /\ Accounts(home)
  BY DEF Books
<1>2. e.op = "dec" /\ todo[t] # <<>> /\ reg[t] > 0
  BY DEF Decrement, Doing, Idle
<1>3. /\ r \in Seq(Effects) /\ q \in Objects /\ Live(q) /\ Mine(home, t, q)
      /\ Legal(r, Serves(t))
      /\ \A o : Net(todo[t], o) = Net(r, o) + Weight(e, o) /\ Net(r, o) \in Int
  BY <1>1, <1>2, FirstOf
<1>4. q \in Objects \ Static /\ home[q] = t /\ rc[q] = 1
  BY <1>1, <1>2, <1>3 DEF Accounts, Updating, Mine, Types
<1>5. \A o : Weight(e, o) = IF o = q THEN 1 ELSE 0
  BY <1>2 DEF Weight
<1>6. q \in Heap /\ Heap \in SUBSET Objects
  BY <1>3, <1>4 DEF Heap
<1> HIDE DEF r, e
<1>7. rc[q] = Net(todo[t], q) + Wrappings(q) + Holdings(q) + RefsFrom(Heap, q)
  BY <1>1, <1>4 DEF Accounts, Even
<1>8. Net(todo[t], q) = Net(r, q) + 1 /\ Net(r, q) \in Int /\ Net(r, q) >= 0
  BY <1>3, <1>5, LegalNow DEF Sound
<1>9. Wrappings(q) \in Nat /\ Holdings(q) \in Nat
  BY Amounts
<1>10. RefsFrom(Heap, q) \in Nat
  BY <1>3, <1>6, RefsType
<1> DEFINE W == Wrappings(q)
           H == Holdings(q)
           R == RefsFrom(Heap, q)
           N == Net(r, q)
<1>11. 1 = N + 1 + W + H + R /\ N \in Int /\ N >= 0 /\ W \in Nat /\ H \in Nat /\ R \in Nat
  BY <1>4, <1>7, <1>8, <1>9, <1>10
<1> HIDE DEF W, H, R, N
<1>12. N = 0 /\ W = 0 /\ R = 0 /\ H = 0
  BY <1>11
<1> QED
  BY <1>2, <1>6, <1>12 DEF W, R, N, H, r

\* Nothing that is left to do names the object.
LEMMA ReleaseKeeps ==
    ASSUME HandlesInv, NEW t \in Threads, Decrement(t), reg[t] = 1
    PROVE  HandlesInv'
<1> DEFINE e == Head(todo[t])
           r == Tail(todo[t])
           q == e.obj
           a == Released(q)
<1>1. Books /\ Types
  BY DEF HandlesInv, Books
<1>2. PICK home : Accounts(home)
  BY DEF HandlesInv
<1>3. /\ UNCHANGED <<tls, wrapper, owner, lent>>
      /\ e.op = "dec" /\ todo[t] # <<>> /\ reg[t] > 0
      /\ rc' = [rc EXCEPT ![q] = 0] /\ reg' = [reg EXCEPT ![t] = 0]
      /\ Continue(t, a \o r)
  BY DEF Decrement, caller, Doing, Idle
<1>4. reg'[t] = 0 /\ reg' \in [Threads -> Nat] /\ \A u \in Threads : u # t => reg'[u] = reg[u]
  BY <1>1, <1>3 DEF Types
<1>5. /\ r \in Seq(Effects) /\ q \in Objects /\ Live(q) /\ Mine(home, t, q)
      /\ Legal(r, Serves(t))
      /\ \A i \in 1..Len(r) : r[i].obj \in Objects /\ Live(r[i].obj)
      /\ \A o : Net(todo[t], o) = Net(r, o) + Weight(e, o) /\ Net(r, o) \in Int
  BY <1>1, <1>2, <1>3, FirstOf
<1>6. q \in Objects \ Static /\ home[q] = t /\ rc[q] = 1
  BY <1>1, <1>2, <1>3, <1>5 DEF Accounts, Updating, Mine, Types
<1>w. \A o : Weight(e, o) = IF o = q THEN 1 ELSE 0
  BY <1>3 DEF Weight
<1> HIDE DEF r, e, q, a
<1>7. /\ rc' \in [Objects -> Nat] /\ rc \in [Objects -> Nat] /\ rc'[q] = 0
      /\ \A o \in Objects : o # q => rc'[o] = rc[o]
  BY <1>1, <1>3, <1>5 DEF Types
<1>8. q \in Heap /\ Heap \in SUBSET Objects
  BY <1>5, <1>6 DEF Heap
<1>9. Net(r, q) = 0 /\ Wrappings(q) = 0 /\ RefsFrom(Heap, q) = 0
  BY <1>1, <1>2, LastReference DEF q, e, r
<1>10. \A p \in Objects : Live(p) => q \notin FieldSet(p)
  <2>1. \A p \in Heap : q \notin FieldSet(p)
    BY <1>5, <1>8, <1>9, RefsType
  <2> QED
    BY <1>6, <2>1, StaticAssumption DEF Heap
<1>11. \A w \in Wrappers : wrapper[w] # q
  BY <1>9, Amounts
<1>12. Serves(t) # q /\ (Serves(t) \in Objects => Live(Serves(t)))
  <2>1. CASE using[t] = Nothing
    BY <1>5, <2>1, Distinct DEF Serves
  <2>2. CASE using[t] # Nothing
    <3>1. using[t] \in Wrappers /\ Serves(t) = wrapper[using[t]]
      BY <1>1, <2>2 DEF Types, Serves
    <3> QED
      BY <1>1, <1>2, <1>11, <3>1, Referred
  <2> QED
    BY <2>1, <2>2
<1>13. \A i \in 1..Len(r) : r[i].obj # q
  <2> SUFFICES ASSUME NEW j \in 1..Len(r), r[j].obj = q PROVE FALSE
    OBVIOUS
  <2>1. \/ Serves(t) = q
        \/ \E p \in Objects : /\ q \in FieldSet(p)
                              /\ p = Serves(t) \/ \E k \in 1..Len(r) : r[k].obj = p
    BY <1>5, <1>6, <1>9, NamedBecause
  <2> QED
    BY <1>5, <1>10, <1>12, <2>1
<1>14. \A i \in 1..Len(r) : rc'[r[i].obj] > 0
  BY <1>5, <1>7, <1>13 DEF Live
<1>15. /\ a \in Seq(Effects) /\ Len(a) = Len(Fields(q))
       /\ \A i \in 1..Len(Fields(q)) : a[i] = Dec(Fields(q)[i])
       /\ \A o \in Objects : RefsFrom({q}, o) = Net(a, o)
  BY <1>5, RefsOne DEF a
<1>16. \A p \in FieldSet(q) : p \in Objects /\ rc'[p] > 0 /\ Mine(home, t, p)
  <2> SUFFICES ASSUME NEW p \in FieldSet(q)
               PROVE  p \in Objects /\ rc'[p] > 0 /\ Mine(home, t, p)
    OBVIOUS
  <2>1. p \in Objects /\ p # q
    BY <1>5, FieldTypes
  <2>2. Live(p)
    BY <1>1, <1>2, <1>5, <2>1, Referred
  <2>3. Mine(home, t, p)
    BY <1>2, <1>6, <1>8 DEF Accounts, Homes, Mine
  <2> QED
    BY <1>7, <2>1, <2>2, <2>3 DEF Live
<1>17. \A i \in 1..Len(a) : a[i].op = "dec" /\ rc'[a[i].obj] > 0 /\ Mine(home, t, a[i].obj)
  <2> SUFFICES ASSUME NEW i \in 1..Len(a)
               PROVE  a[i].op = "dec" /\ rc'[a[i].obj] > 0 /\ Mine(home, t, a[i].obj)
    OBVIOUS
  <2> DEFINE p == Fields(q)[i]
  <2>1. p \in FieldSet(q) /\ a[i] = Dec(p)
    BY <1>5, <1>15, FieldTypes
  <2> HIDE DEF p
  <2>2. p \in Objects
    BY <1>16, <2>1
  <2> QED
    BY <1>16, <2>1, <2>2, IncDec
<1>18. CountsMine(home, t)
  BY <1>5, <1>6, <1>7, <1>16 DEF CountsMine, Live
<1>19. Heap' = Heap \ {q}
  BY <1>5, <1>7 DEF Heap, Live
<1>20. ASSUME NEW o \in Objects \ Static
       PROVE  rc'[o] = rc[o] - Weight(e, o) + Net(a, o) + RefsFrom(Heap', o) - RefsFrom(Heap, o)
  <2> DEFINE S == Heap \ {q}
             T == {q}
  <2>1. S \in SUBSET Objects /\ T \in SUBSET Objects /\ S \cap T = {} /\ S \cup T = Heap
    BY <1>8
  <2> HIDE DEF S, T
  <2>2. RefsFrom(S \cup T, o) = RefsFrom(S, o) + RefsFrom(T, o)
    BY <2>1, RefsUnion
  <2>3. RefsFrom(S, o) \in Nat /\ RefsFrom(T, o) \in Nat
    BY <2>1, RefsType
  <2>4. RefsFrom(Heap, o) = RefsFrom(Heap', o) + Net(a, o)
        /\ RefsFrom(Heap', o) \in Nat /\ Net(a, o) \in Nat
    BY <1>15, <1>19, <2>1, <2>2, <2>3 DEF S, T
  <2>5. rc'[o] = rc[o] - Weight(e, o) /\ rc[o] \in Nat /\ Weight(e, o) \in Int
    BY <1>6, <1>7, <1>w
  <2> QED
    BY <2>4, <2>5
<1>21. UNCHANGED <<wrapper, owner, lent, tls>>
  BY <1>3
<1>22. Books' /\ Accounts(home)'
  BY <1>1, <1>2, <1>3, <1>4, <1>14, <1>15, <1>17, <1>18, <1>20, <1>21, CountingKeeps DEF e, r
<1> QED
  BY <1>22 DEF HandlesInv

-----------------------------------------------------------------------------
(* Steps that hand over.                                                   *)

Among(s, x) == \E i \in 1..Len(s) : s[i] = x

LEMMA ConsIs ==
    ASSUME NEW e \in Effects, NEW r \in Seq(Effects)
    PROVE  /\ <<e>> \o r \in Seq(Effects) /\ <<e>> \o r # <<>>
           /\ \A i \in 1..Len(<<e>> \o r) :
                 (<<e>> \o r)[i] = e \/ Among(r, (<<e>> \o r)[i])
           /\ \A o : Net(<<e>> \o r, o) = Net(r, o) + Weight(e, o)
           /\ \A X : Count(<<e>> \o r, X) = Count(r, X) + IF e \in X THEN 1 ELSE 0
           /\ Holds(<<e>> \o r) <=> e.op = "hold" \/ Holds(r)
<1> DEFINE b == <<e>>
           s == b \o r
<1>1. b \in Seq(Effects) /\ Len(b) = 1 /\ b[1] = e /\ (Holds(b) <=> e.op = "hold")
  BY HoldsOne
<1>2. \A o : Net(s, o) = Net(r, o) + Weight(e, o)
  BY NetCons
<1>3. \A X : Count(s, X) = Count(r, X) + IF e \in X THEN 1 ELSE 0
  BY CountCons
<1> HIDE DEF b
<1>4. Holds(s) <=> e.op = "hold" \/ Holds(r)
  BY <1>1, HoldsConcat
<1>5. /\ s \in Seq(Effects) /\ Len(s) = Len(b) + Len(r) /\ Len(r) \in Nat
      /\ \A i \in 1..Len(b) : s[i] = b[i]
      /\ \A i \in 1..Len(r) : s[Len(b) + i] = r[i]
  BY <1>1, ConcatIs
<1> HIDE DEF s
<1>6. ASSUME NEW i \in 1..Len(s) PROVE s[i] = e \/ Among(r, s[i])
  <2>1. CASE i = 1
    BY <1>1, <1>5, <2>1
  <2>2. CASE i # 1
    <3>1. i - 1 \in 1..Len(r) /\ 1 + (i - 1) = i
      BY <1>1, <1>5, <2>2
    <3>2. s[1 + (i - 1)] = r[i - 1]
      BY <1>1, <1>5, <3>1
    <3> QED
      BY <3>1, <3>2 DEF Among
  <2> QED
    BY <2>1, <2>2
<1>7. s # <<>>
  <2>1. Len(s) \in Nat \ {0}
    BY <1>1, <1>5
  <2> QED
    BY <2>1, NotEmpty
<1> QED
  BY <1>2, <1>3, <1>4, <1>5, <1>6, <1>7 DEF s, b

\* How many places of a function have a value, when one place changes.
Places(f, T, o) == Cardinality({u \in T : f[u] = o})
Is(x, o) == IF x = o THEN 1 ELSE 0

LEMMA Fibers ==
    ASSUME NEW T, IsFiniteSet(T), NEW f, NEW g, NEW k \in T,
           \A u \in T : u # k => g[u] = f[u], NEW o
    PROVE  /\ Places(f, T, o) \in Nat
           /\ Places(g, T, o) = Places(f, T, o) - Is(f[k], o) + Is(g[k], o)
<1> DEFINE B == {u \in T : u # k /\ f[u] = o}
           F == {u \in T : f[u] = o}
           G == {u \in T : g[u] = o}
<1>1. B \subseteq T /\ k \notin B
  OBVIOUS
<1>2. F = IF f[k] = o THEN B \cup {k} ELSE B
  OBVIOUS
<1>3. G = IF g[k] = o THEN B \cup {k} ELSE B
  OBVIOUS
<1> HIDE DEF B, F, G
<1>4. IsFiniteSet(B)
  BY <1>1, FS_Subset
<1>5. Cardinality(B) \in Nat /\ Cardinality(B \cup {k}) = Cardinality(B) + 1
  BY <1>1, <1>4, FS_CardinalityType, FS_AddElement
<1>6. Cardinality(F) = Cardinality(B) + IF f[k] = o THEN 1 ELSE 0
  BY <1>2, <1>5
<1>7. Cardinality(G) = Cardinality(B) + IF g[k] = o THEN 1 ELSE 0
  BY <1>3, <1>5
<1> QED
  BY <1>5, <1>6, <1>7 DEF Places, Is, F, G

LEMMA HoldingsStep ==
    ASSUME NEW t \in Threads, \A u \in Threads : u # t => Held(u)' = Held(u), NEW o
    PROVE  /\ Holdings(o) \in Nat
           /\ Holdings(o)' = Holdings(o) - Is(Held(t), o) + Is(Held(t)', o)
<1> DEFINE f == [u \in Threads |-> Held(u)]
           g == [u \in Threads |-> Held(u)']
<1>1. /\ Places(f, Threads, o) \in Nat
      /\ Places(g, Threads, o) = Places(f, Threads, o) - Is(f[t], o) + Is(g[t], o)
  <2>1. \A u \in Threads : u # t => g[u] = f[u]
    OBVIOUS
  <2> HIDE DEF f, g
  <2> QED
    BY <2>1, CallersAssumption, Fibers
<1>2. /\ {u \in Threads : f[u] = o} = {u \in Threads : Held(u) = o}
      /\ {u \in Threads : g[u] = o} = {u \in Threads : Held(u)' = o}
      /\ f[t] = Held(t) /\ g[t] = Held(t)'
  OBVIOUS
<1> QED
  BY <1>1, <1>2 DEF Holdings, Places

LEMMA WrappingsStep ==
    ASSUME NEW w \in Wrappers, \A u \in Wrappers : u # w => wrapper'[u] = wrapper[u], NEW o
    PROVE  /\ Wrappings(o) \in Nat
           /\ Wrappings(o)' = Wrappings(o) - Is(wrapper[w], o) + Is(wrapper'[w], o)
<1>1. /\ Places(wrapper, Wrappers, o) \in Nat
      /\ Places(wrapper', Wrappers, o)
         = Places(wrapper, Wrappers, o) - Is(wrapper[w], o) + Is(wrapper'[w], o)
  <2> DEFINE f == wrapper
             g == wrapper'
             T == Wrappers
  <2>1. w \in T /\ IsFiniteSet(T) /\ \A u \in T : u # w => g[u] = f[u]
    BY CallersAssumption
  <2> HIDE DEF f, g, T
  <2>2. Places(f, T, o) \in Nat
    BY <2>1, Fibers
  <2>3. Places(g, T, o) = Places(f, T, o) - Is(f[w], o) + Is(g[w], o)
    BY <2>1, Fibers
  <2> QED
    BY <2>2, <2>3 DEF f, g, T
<1> QED
  BY <1>1 DEF Wrappings, Places

\* What a step that replaces what is left of the call by s keeps.
LEMMA GoesOnKeeps ==
    ASSUME Books, NEW home, Accounts(home), NEW t \in Threads, reg[t] = 0,
           NEW s \in Seq(Effects), Continue(t, s), UNCHANGED <<wrapper, owner, reg>>,
           tls' \in [Threads -> Strings \cup {Nothing}],
           \A u \in Threads : u # t => tls'[u] = tls[u],
           lent' \subseteq [wrapper : Wrappers, text : Strings],
           \A b \in lent' : b \in lent \/ /\ wrapper[b.wrapper] # Nothing
                                          /\ b.text \in FieldSet(wrapper[b.wrapper]) \cup Static,
           CountsMine(home, t),
           \A i \in 1..Len(s) : rc'[s[i].obj] > 0 /\ Mine(home, t, s[i].obj) /\ Fits(s[i], using[t]),
           \A w \in Wrappers : Count(s, WrapsTo(w)) <= Count(todo[t], WrapsTo(w)),
           Count(s, Texts) <= 1, Legal(s, Serves(t)),
           Held(t)' # Nothing => Mine(home, t, Held(t)'),
           EvenMine(home, t)
    PROVE  Books' /\ Accounts(home)'
<1>1. Types /\ CallsLegal
  BY DEF Books, Accounts
<1>2. Books'
  BY <1>1, GoesOnBooks DEF CountsMine, Types
<1>3. CallsLegal'
  BY <1>1, GoesOnLegal
<1>4. /\ todo'[t] = s /\ todo' \in [Threads -> Seq(Effects)]
      /\ \A u \in Threads : u # t => todo'[u] = todo[u]
  BY <1>1, GoesOn
<1>5. HoldsMine(home, t)
  BY DEF HoldsMine
<1>6. NamesMine(home, t)
  BY <1>4 DEF NamesMine
<1>7. Accounts(home)'
  BY <1>3, <1>4, <1>5, <1>6, ThreadKeeps
<1> QED
  BY <1>2, <1>7

LEMMA TextOnce ==
    ASSUME Books, NEW home, Accounts(home), NEW t \in Threads, todo[t] # <<>>,
           Head(todo[t]) \in Texts
    PROVE  /\ Count(Tail(todo[t]), Texts) = 0
           /\ ~Holds(Tail(todo[t]))
           /\ Held(t) = IF Head(todo[t]).op = "hold" THEN Nothing ELSE tls[t]
<1> DEFINE e == Head(todo[t])
           r == Tail(todo[t])
<1>1. /\ r \in Seq(Effects) /\ \A i \in 1..Len(r) : r[i] \in Effects
      /\ Count(todo[t], Texts) = Count(r, Texts) + IF e \in Texts THEN 1 ELSE 0
      /\ Count(r, Texts) \in Nat
      /\ Holds(todo[t]) <=> e.op = "hold" \/ Holds(r)
  BY FirstOf
<1>2. Count(todo[t], Texts) <= 1
  BY DEF Books, Texting
<1>3. e \in Texts
  OBVIOUS
<1> HIDE DEF e, r
<1>4. Count(r, Texts) = 0
  BY <1>1, <1>2, <1>3
<1>5. ~Holds(r)
  <2>1. \A i \in 1..Len(r) : r[i] \notin Texts
    BY <1>1, <1>4, CountType
  <2>2. \A i \in 1..Len(r) : r[i].op # "hold"
    BY <1>1, <2>1 DEF Texts
  <2> QED
    BY <2>2 DEF Holds
<1>6. Held(t) = IF e.op = "hold" THEN Nothing ELSE tls[t]
  BY <1>1, <1>5, HeldIs DEF Books
<1> QED
  BY <1>4, <1>5, <1>6 DEF e, r

LEMMA NoneRead ==
    ASSUME Books, NEW home, Accounts(home), NEW t \in Threads, todo[t] # <<>>,
           Head(todo[t]).op \notin {"inc", "dec"}
    PROVE  reg[t] = 0
BY DEF Books, Types, Accounts, Updating, Counts, Doing, Idle

LEMMA HeldNext ==
    ASSUME Types, NEW t \in Threads, NEW s \in Seq(Effects), todo'[t] = s
    PROVE  Held(t)' = IF Holds(s) THEN Nothing ELSE tls'[t]
<1>1. DOMAIN todo'[t] = 1..Len(todo'[t])
  OBVIOUS
<1> QED
  BY <1>1 DEF Held, Replacing, Holds

LEMMA HoldStringKeeps ==
    ASSUME HandlesInv, NEW t \in Threads, HoldString(t)
    PROVE  HandlesInv'
<1> DEFINE e == Head(todo[t])
           r == Tail(todo[t])
           x == e.obj
           w == e.to
<1>1. Books /\ Types
  BY DEF HandlesInv, Books
<1>2. PICK home : Accounts(home)
  BY DEF HandlesInv
<1>3. /\ UNCHANGED <<rc, wrapper, owner, reg>>
      /\ e.op = "hold" /\ todo[t] # <<>>
      /\ tls' = [tls EXCEPT ![t] = x]
      /\ lent' = IF w = Nothing THEN lent ELSE lent \cup {[wrapper |-> w, text |-> x]}
      /\ Continue(t, r)
  BY DEF HoldString, Doing, Idle
<1>4. /\ todo[t] \in Seq(Effects) /\ r \in Seq(Effects)
      /\ e \in Effects /\ x \in Objects /\ Live(x) /\ Mine(home, t, x)
      /\ Fits(e, using[t]) /\ Legal(r, Serves(t))
      /\ \A i \in 1..Len(r) : /\ r[i].obj \in Objects /\ Live(r[i].obj)
                              /\ Mine(home, t, r[i].obj) /\ Fits(r[i], using[t])
      /\ \A o : Net(todo[t], o) = Net(r, o) + Weight(e, o) /\ Net(r, o) \in Int
      /\ \A X : /\ Count(todo[t], X) = Count(r, X) + IF e \in X THEN 1 ELSE 0
                /\ Count(r, X) \in Nat
  BY <1>1, <1>2, <1>3, FirstOf
<1>5. Head(todo[t]) \in Texts
  BY <1>3, <1>4 DEF Texts
<1>6. Count(r, Texts) = 0 /\ ~Holds(r) /\ Held(t) = Nothing
  BY <1>1, <1>2, <1>3, <1>5, TextOnce
<1>7. reg[t] = 0
  <2>1. e.op \notin {"inc", "dec"}
    BY <1>3
  <2> QED
    BY <1>1, <1>2, <1>3, <2>1, NoneRead
<1>8. w \in Wrappers \cup {Nothing}
  BY <1>4 DEF Effects
<1> HIDE DEF e, r, x, w
<1>9. x \in Strings /\ (w # Nothing => w = using[t] /\ x \in FieldSet(wrapper[w]) \cup Static)
  BY <1>3, <1>4 DEF Fits, x, w
<1>10. /\ todo'[t] = r /\ \A u \in Threads : u # t => todo'[u] = todo[u]
  BY <1>1, <1>3, <1>4, GoesOn
<1>11. /\ tls' \in [Threads -> Strings \cup {Nothing}] /\ tls'[t] = x
       /\ \A u \in Threads : u # t => tls'[u] = tls[u]
  BY <1>1, <1>3, <1>9 DEF Types
<1>12. Held(t)' = x /\ \A u \in Threads : u # t => Held(u)' = Held(u)
  <2>1. Held(t)' = x
    BY <1>1, <1>4, <1>6, <1>10, <1>11, HeldNext
  <2>2. \A u \in Threads : u # t => Held(u)' = Held(u)
    BY <1>10, <1>11 DEF Held, Replacing
  <2> QED
    BY <2>1, <2>2
<1>13. /\ lent' \subseteq [wrapper : Wrappers, text : Strings]
       /\ \A b \in lent' : b \in lent \/ /\ wrapper[b.wrapper] # Nothing
                                         /\ b.text \in FieldSet(wrapper[b.wrapper]) \cup Static
  <2>1. CASE w = Nothing
    BY <1>1, <1>3, <2>1 DEF Types
  <2>2. CASE w # Nothing
    <3> DEFINE b == [wrapper |-> w, text |-> x]
    <3>1. b \in [wrapper : Wrappers, text : Strings] /\ b.wrapper = w /\ b.text = x
      BY <1>8, <1>9, <2>2
    <3>2. wrapper[w] # Nothing
      BY <1>1, <1>9, <2>2 DEF Books, Serving
    <3>3. lent' = lent \cup {b}
      BY <1>3, <2>2
    <3> HIDE DEF b
    <3> QED
      BY <1>1, <1>9, <2>2, <3>1, <3>2, <3>3 DEF Types
  <2> QED
    BY <2>1, <2>2
<1>14. CountsMine(home, t)
  BY <1>1, <1>3 DEF CountsMine, Types, Live
<1>15. \A i \in 1..Len(r) : rc'[r[i].obj] > 0 /\ Mine(home, t, r[i].obj) /\ Fits(r[i], using[t])
  BY <1>3, <1>4 DEF Live
<1>16. \A u \in Wrappers : Count(r, WrapsTo(u)) <= Count(todo[t], WrapsTo(u))
  <2> SUFFICES ASSUME NEW u \in Wrappers
               PROVE  Count(r, WrapsTo(u)) <= Count(todo[t], WrapsTo(u))
    OBVIOUS
  <2> QED
    BY <1>4
<1>17. EvenMine(home, t)
  <2> SUFFICES ASSUME NEW o \in Objects \ Static, home[o] = t
               PROVE  rc'[o] = Net(todo'[t], o) + Wrappings(o)' + Holdings(o)' + RefsFrom(Heap', o)
    BY DEF EvenMine
  <2>1. Wrappings(o)' = Wrappings(o) /\ Heap' = Heap
    BY <1>3 DEF Wrappings, Heap, Live
  <2>2. Holdings(o)' = Holdings(o) - Is(Held(t), o) + Is(Held(t)', o) /\ Holdings(o) \in Nat
    BY <1>12, HoldingsStep
  <2>3. rc[o] = Net(todo[t], o) + Wrappings(o) + Holdings(o) + RefsFrom(Heap, o)
    BY <1>2 DEF Accounts, Even
  <2>4. Is(Held(t), o) = 0 /\ Is(Held(t)', o) = Weight(e, o) /\ Weight(e, o) \in {0, 1}
    BY <1>3, <1>6, <1>12, Distinct DEF Is, Weight, x
  <2>5. RefsFrom(Heap, o) \in Nat /\ Wrappings(o) \in Nat
    <3>1. Heap \in SUBSET Objects
      BY DEF Heap
    <3> QED
      BY <3>1, RefsType, Amounts
  <2>6. Net(todo[t], o) = Net(r, o) + Weight(e, o) /\ Net(r, o) \in Int
    BY <1>4
  <2>7. Holdings(o)' = Holdings(o) + Weight(e, o) /\ rc'[o] = rc[o] /\ todo'[t] = r
    BY <1>3, <1>10, <2>2, <2>4
  <2> DEFINE R == RefsFrom(Heap, o)
             W == Wrappings(o)
             H == Holdings(o)
             k == Weight(e, o)
             N == Net(r, o)
  <2>8. R \in Nat /\ W \in Nat /\ H \in Nat /\ k \in {0, 1} /\ N \in Int /\ rc[o] = N + k + W + H + R
    BY <2>2, <2>3, <2>4, <2>5, <2>6
  <2> HIDE DEF R, W, H, k, N
  <2>9. rc[o] = N + W + (H + k) + R
    BY <2>8
  <2> QED
    BY <2>1, <2>7, <2>9 DEF R, W, H, k, N
<1>18. Continue(t, r) /\ UNCHANGED <<wrapper, owner, reg>> /\ Count(r, Texts) <= 1
       /\ Legal(r, Serves(t)) /\ r \in Seq(Effects)
  BY <1>3, <1>4, <1>6
<1>19. Held(t)' # Nothing => Mine(home, t, Held(t)')
  BY <1>4, <1>12
<1>20. Books' /\ Accounts(home)'
  BY <1>1, <1>2, <1>7, <1>11, <1>13, <1>14, <1>15, <1>16, <1>17, <1>18, <1>19, GoesOnKeeps
<1> QED
  BY <1>20 DEF HandlesInv

LEMMA CaptureStringKeeps ==
    ASSUME HandlesInv, NEW t \in Threads, CaptureString(t)
    PROVE  HandlesInv'
<1> DEFINE e == Head(todo[t])
           r == Tail(todo[t])
           x == e.obj
           w == e.to
           h == Hold(x, w)
           y == tls[t]
           d == Dec(y)
           b == <<h>> \o r
           c == <<d>> \o b
           s == IF y = Nothing THEN b ELSE c
<1>1. Books /\ Types
  BY DEF HandlesInv, Books
<1>2. PICK home : Accounts(home)
  BY DEF HandlesInv
<1>3. /\ UNCHANGED <<rc, wrapper, owner, reg, tls, lent>>
      /\ e.op = "capture" /\ todo[t] # <<>>
      /\ Continue(t, Captured(t, x, w) \o r)
  BY DEF CaptureString, caller, Doing, Idle
<1>4. /\ todo[t] \in Seq(Effects) /\ r \in Seq(Effects)
      /\ e \in Effects /\ x \in Objects /\ Live(x) /\ Mine(home, t, x)
      /\ Fits(e, using[t]) /\ Legal(r, Serves(t))
      /\ \A i \in 1..Len(r) : /\ r[i].obj \in Objects /\ Live(r[i].obj)
                              /\ Mine(home, t, r[i].obj) /\ Fits(r[i], using[t])
      /\ \A o : Net(todo[t], o) = Net(r, o) + Weight(e, o) /\ Net(r, o) \in Int
      /\ \A X : /\ Count(todo[t], X) = Count(r, X) + IF e \in X THEN 1 ELSE 0
                /\ Count(r, X) \in Nat
  BY <1>1, <1>2, <1>3, FirstOf
<1>5. Head(todo[t]) \in Texts
  BY <1>3, <1>4 DEF Texts
<1>6. Count(r, Texts) = 0 /\ ~Holds(r) /\ Held(t) = y
  BY <1>1, <1>2, <1>3, <1>5, TextOnce
<1>7. reg[t] = 0
  <2>1. e.op \notin {"inc", "dec"}
    BY <1>3
  <2> QED
    BY <1>1, <1>2, <1>3, <2>1, NoneRead
<1>8. w \in Wrappers \cup {Nothing}
  BY <1>4 DEF Effects
<1>9. h \in Effects /\ h.op = "hold" /\ h.obj = x /\ h.to = w
  BY <1>4, <1>8, EffectTypes
<1>10. Fits(h, using[t])
  BY <1>3, <1>4, <1>9 DEF Fits
<1>11. y \in Strings \cup {Nothing}
  BY <1>1 DEF Types
<1>12. y # Nothing => /\ y \in Objects /\ Live(y) /\ Mine(home, t, y)
                      /\ d \in Effects /\ d.op = "dec" /\ d.obj = y
  <2> SUFFICES ASSUME y # Nothing
               PROVE  /\ y \in Objects /\ Live(y) /\ Mine(home, t, y)
                      /\ d \in Effects /\ d.op = "dec" /\ d.obj = y
    OBVIOUS
  <2>1. y \in Objects
    BY <1>11, Distinct
  <2>2. Live(y)
    BY <1>1, <1>2, <1>6, <2>1, Referred
  <2>3. Mine(home, t, y)
    BY <1>2, <1>6, <2>1 DEF Accounts, Homes, Mine
  <2> QED
    BY <2>1, <2>2, <2>3, IncDec
<1>c. Continue(t, s)
  <2> DEFINE p == <<d>>
             q == <<h>>
  <2>1. Captured(t, x, w) = IF y = Nothing THEN <<>> \o q ELSE p \o q
    BY DEF Captured
  <2>2. q \in Seq(Effects)
    BY <1>9
  <2>3. y # Nothing => p \in Seq(Effects)
    BY <1>12
  <2> HIDE DEF p, q
  <2>4. <<>> \o q = q
    BY <2>2, ConcatEmpty
  <2>5. ASSUME y # Nothing PROVE (p \o q) \o r = p \o (q \o r)
    <3>1. p \in Seq(Effects) /\ q \in Seq(Effects) /\ r \in Seq(Effects)
      BY <1>4, <2>2, <2>3, <2>5
    <3> HIDE DEF y, r
    <3> QED
      BY <3>1, ConcatAssoc
  <2>6. Captured(t, x, w) \o r = IF y = Nothing THEN q \o r ELSE p \o (q \o r)
    BY <2>1, <2>4, <2>5
  <2> QED
    BY <1>3, <2>6 DEF p, q
<1>w. Weight(h, y) \in Int /\ \A o : Weight(h, o) = Weight(e, o)
  BY <1>3, <1>9 DEF Weight, x
<1> HIDE DEF e, r, x, w, h, y, d
<1>13. /\ b \in Seq(Effects)
       /\ \A i \in 1..Len(b) : b[i] = h \/ Among(r, b[i])
       /\ \A o : Net(b, o) = Net(r, o) + Weight(h, o)
       /\ \A X : Count(b, X) = Count(r, X) + IF h \in X THEN 1 ELSE 0
       /\ Holds(b)
  BY <1>4, <1>9, ConsIs
<1> HIDE DEF b
<1>14. y # Nothing =>
       /\ c \in Seq(Effects)
       /\ \A i \in 1..Len(c) : c[i] = d \/ Among(b, c[i])
       /\ \A o : Net(c, o) = Net(b, o) + Weight(d, o)
       /\ \A X : Count(c, X) = Count(b, X) + IF d \in X THEN 1 ELSE 0
       /\ Holds(c)
  BY <1>12, <1>13, ConsIs
<1>15. Legal(b, Serves(t)) /\ (y # Nothing => Legal(c, Serves(t)))
  <2>1. Legal(b, Serves(t))
    BY <1>4, <1>9, LegalGives DEF b
  <2>2. y # Nothing => Legal(c, Serves(t))
    BY <1>12, <1>13, <2>1, LegalGives
  <2> QED
    BY <2>1, <2>2
<1> HIDE DEF c
<1>16. /\ s \in Seq(Effects) /\ Holds(s) /\ Legal(s, Serves(t))
       /\ \A i \in 1..Len(s) : \/ s[i] = h \/ Among(r, s[i])
                               \/ y # Nothing /\ s[i] = d
       /\ \A X : d \notin X => Count(s, X) = Count(r, X) + IF h \in X THEN 1 ELSE 0
  <2>1. CASE y = Nothing
    <3>1. s = b
      BY <2>1
    <3> HIDE DEF s
    <3> QED
      BY <1>13, <1>15, <3>1
  <2>2. CASE y # Nothing
    <3>1. s = c
      BY <2>2
    <3>2. \A X : d \notin X => Count(c, X) = Count(r, X) + IF h \in X THEN 1 ELSE 0
      <4> SUFFICES ASSUME NEW X, d \notin X
                   PROVE  Count(c, X) = Count(r, X) + IF h \in X THEN 1 ELSE 0
        OBVIOUS
      <4>1. /\ Count(c, X) = Count(b, X) + 0
            /\ Count(b, X) = Count(r, X) + IF h \in X THEN 1 ELSE 0
            /\ Count(r, X) \in Nat
        BY <1>4, <1>13, <1>14, <2>2
      <4> QED
        BY <4>1
    <3> HIDE DEF s
    <3>3. \A i \in 1..Len(c) : c[i] = d \/ c[i] = h \/ Among(r, c[i])
      BY <1>13, <1>14, <2>2 DEF Among
    <3> QED
      BY <1>14, <1>15, <2>2, <3>1, <3>2, <3>3
  <2> QED
    BY <2>1, <2>2
<1>17. \A o \in Objects : Net(s, o) = Net(todo[t], o) + Is(y, o)
  <2> SUFFICES ASSUME NEW o \in Objects PROVE Net(s, o) = Net(todo[t], o) + Is(y, o)
    OBVIOUS
  <2>1. Net(b, o) = Net(todo[t], o) /\ Net(b, o) \in Int
    BY <1>4, <1>13, <1>w, NetType
  <2>2. CASE y = Nothing
    <3>1. Is(y, o) = 0
      BY <2>2, Distinct DEF Is
    <3> QED
      BY <2>1, <2>2, <3>1
  <2>3. CASE y # Nothing
    <3>1. Weight(d, o) = Is(y, o) /\ s = c
      BY <1>12, <2>3 DEF Weight, Is
    <3> HIDE DEF s
    <3> QED
      BY <1>14, <2>1, <2>3, <3>1
  <2> QED
    BY <2>2, <2>3
<1> HIDE DEF s
<1>18. /\ todo'[t] = s /\ \A u \in Threads : u # t => todo'[u] = todo[u]
  BY <1>1, <1>c, <1>16, GoesOn
<1>19. Held(t)' = Nothing /\ \A u \in Threads : u # t => Held(u)' = Held(u)
  <2>1. Held(t)' = Nothing
    BY <1>1, <1>16, <1>18, HeldNext
  <2>2. \A u \in Threads : u # t => Held(u)' = Held(u)
    BY <1>3, <1>18 DEF Held, Replacing
  <2> QED
    BY <2>1, <2>2
<1>20. CountsMine(home, t)
  BY <1>1, <1>3 DEF CountsMine, Types, Live
<1>21. \A i \in 1..Len(s) : rc'[s[i].obj] > 0 /\ Mine(home, t, s[i].obj) /\ Fits(s[i], using[t])
  <2> SUFFICES ASSUME NEW i \in 1..Len(s)
               PROVE  Live(s[i].obj) /\ Mine(home, t, s[i].obj) /\ Fits(s[i], using[t])
    BY <1>3 DEF Live
  <2>1. CASE s[i] = h
    BY <1>4, <1>9, <1>10, <2>1
  <2>2. CASE y # Nothing /\ s[i] = d
    BY <1>12, <2>2 DEF Fits
  <2>3. CASE Among(r, s[i])
    <3>1. PICK j \in 1..Len(r) : r[j] = s[i]
      BY <2>3 DEF Among
    <3> QED
      BY <1>4, <3>1
  <2> QED
    BY <1>16, <2>1, <2>2, <2>3
<1>22. \A u \in Wrappers : Count(s, WrapsTo(u)) <= Count(todo[t], WrapsTo(u))
  <2> SUFFICES ASSUME NEW u \in Wrappers
               PROVE  Count(s, WrapsTo(u)) <= Count(todo[t], WrapsTo(u))
    OBVIOUS
  <2>1. h \notin WrapsTo(u)
    BY <1>9 DEF WrapsTo
  <2>2. d \notin WrapsTo(u)
    BY DEF WrapsTo, d, Dec
  <2>3. Count(s, WrapsTo(u)) = Count(r, WrapsTo(u)) + 0
    BY <1>16, <2>1, <2>2
  <2>4. /\ Count(todo[t], WrapsTo(u)) = Count(r, WrapsTo(u)) + IF e \in WrapsTo(u) THEN 1 ELSE 0
        /\ Count(r, WrapsTo(u)) \in Nat
    BY <1>4
  <2> QED
    BY <2>3, <2>4
<1>23. Count(s, Texts) <= 1
  <2>1. d \notin Texts
    BY DEF Texts, d, Dec
  <2>2. Count(s, Texts) = Count(r, Texts) + IF h \in Texts THEN 1 ELSE 0
    BY <1>16, <2>1
  <2> QED
    BY <1>6, <2>2
<1>24. EvenMine(home, t)
  <2> SUFFICES ASSUME NEW o \in Objects \ Static, home[o] = t
               PROVE  rc'[o] = Net(todo'[t], o) + Wrappings(o)' + Holdings(o)' + RefsFrom(Heap', o)
    BY DEF EvenMine
  <2>1. Wrappings(o)' = Wrappings(o) /\ Heap' = Heap
    BY <1>3 DEF Wrappings, Heap, Live
  <2>2. Holdings(o)' = Holdings(o) - Is(Held(t), o) + Is(Held(t)', o) /\ Holdings(o) \in Nat
    BY <1>19, HoldingsStep
  <2>3. rc[o] = Net(todo[t], o) + Wrappings(o) + Holdings(o) + RefsFrom(Heap, o)
    BY <1>2 DEF Accounts, Even
  <2>4. Is(Held(t), o) = Is(y, o) /\ Is(Held(t)', o) = 0 /\ Is(y, o) \in {0, 1}
    BY <1>6, <1>19, Distinct DEF Is
  <2>5. RefsFrom(Heap, o) \in Nat /\ Wrappings(o) \in Nat
    <3>1. Heap \in SUBSET Objects
      BY DEF Heap
    <3> QED
      BY <3>1, RefsType, Amounts
  <2>6. Net(todo'[t], o) = Net(todo[t], o) + Is(y, o) /\ Net(todo[t], o) \in Int
    BY <1>4, <1>17, <1>18, NetType
  <2>7. Holdings(o)' = Holdings(o) - Is(y, o) /\ rc'[o] = rc[o]
    BY <1>3, <2>2, <2>4
  <2> DEFINE R == RefsFrom(Heap, o)
             W == Wrappings(o)
             H == Holdings(o)
             k == Is(y, o)
             N == Net(todo[t], o)
  <2>8. R \in Nat /\ W \in Nat /\ H \in Nat /\ k \in {0, 1} /\ N \in Int /\ rc[o] = N + W + H + R
    BY <2>2, <2>3, <2>4, <2>5, <2>6
  <2> HIDE DEF R, W, H, k, N
  <2>9. rc[o] = (N + k) + W + (H - k) + R
    BY <2>8
  <2> QED
    BY <2>1, <2>6, <2>7, <2>9 DEF R, W, H, k, N
<1>25. UNCHANGED <<wrapper, owner, reg>> /\ tls' \in [Threads -> Strings \cup {Nothing}]
       /\ (\A u \in Threads : u # t => tls'[u] = tls[u])
       /\ lent' \subseteq [wrapper : Wrappers, text : Strings] /\ lent' = lent
  BY <1>1, <1>3 DEF Types
<1>26. Books' /\ Accounts(home)'
  BY <1>1, <1>2, <1>7, <1>c, <1>16, <1>19, <1>20, <1>21, <1>22, <1>23, <1>24, <1>25, GoesOnKeeps
<1> QED
  BY <1>26 DEF HandlesInv

\* Fits, after a step that changes wrappers.
FitsNext(e, w) ==
    /\ e.op = "wrap" => e.to # Nothing
    /\ e.op \in {"capture", "hold"} =>
          /\ e.obj \in Strings
          /\ e.to # Nothing =>
                e.to = w /\ e.obj \in FieldSet(wrapper'[w]) \cup Static

LEMMA FitsStays ==
    ASSUME NEW e, NEW w, Fits(e, w), w # Nothing => wrapper'[w] = wrapper[w]
    PROVE  FitsNext(e, w)
BY DEF Fits, FitsNext

LEMMA TextingNext ==
    ASSUME \A u \in Threads : /\ Count(todo'[u], Texts) <= 1
                              /\ \A i \in 1..Len(todo'[u]) : FitsNext(todo'[u][i], using'[u])
    PROVE  Texting'
BY DEF Texting, Texts, Count, Effects, Fits, FitsNext

LEMMA WrapHandleKeeps ==
    ASSUME HandlesInv, NEW t \in Threads, WrapHandle(t)
    PROVE  HandlesInv'
<1> DEFINE e == Head(todo[t])
           r == Tail(todo[t])
           x == e.obj
           w == e.to
<1>1. /\ Books /\ Types /\ Serving /\ Owned /\ Wrapping /\ Texting /\ Borrows
  BY DEF HandlesInv, Books
<1>2. PICK home : Accounts(home)
  BY DEF HandlesInv
<1>3. /\ UNCHANGED <<rc, lent, tls, reg>>
      /\ e.op = "wrap" /\ todo[t] # <<>>
      /\ wrapper' = [wrapper EXCEPT ![w] = x] /\ owner' = [owner EXCEPT ![w] = t]
      /\ Continue(t, r)
  BY DEF WrapHandle, Doing, Idle
<1>4. /\ todo[t] \in Seq(Effects) /\ r \in Seq(Effects)
      /\ e \in Effects /\ x \in Objects /\ Live(x) /\ Mine(home, t, x)
      /\ Fits(e, using[t]) /\ Legal(r, Serves(t))
      /\ \A i \in 1..Len(r) : /\ r[i].obj \in Objects /\ Live(r[i].obj)
                              /\ Mine(home, t, r[i].obj) /\ Fits(r[i], using[t])
      /\ \A o : Net(todo[t], o) = Net(r, o) + Weight(e, o) /\ Net(r, o) \in Int
      /\ \A X : /\ Count(todo[t], X) = Count(r, X) + IF e \in X THEN 1 ELSE 0
                /\ Count(r, X) \in Nat
      /\ Holds(todo[t]) <=> e.op = "hold" \/ Holds(r)
  BY <1>1, <1>2, <1>3, FirstOf
<1>5. reg[t] = 0
  <2>1. e.op \notin {"inc", "dec"}
    BY <1>3
  <2> QED
    BY <1>1, <1>2, <1>3, <2>1, NoneRead
<1>6. w \in Wrappers
  BY <1>3, <1>4 DEF Effects, Fits
<1>w. \A o \in Objects : Weight(e, o) = Is(x, o) /\ Is(x, o) \in {0, 1} /\ Is(Nothing, o) = 0
  BY <1>3, Distinct DEF Weight, Is
<1>7. e \in WrapsTo(w)
  BY <1>3, <1>4 DEF WrapsTo
<1> HIDE DEF e, r, x, w
<1>8. /\ Count(r, WrapsTo(w)) = 0 /\ wrapper[w] = Nothing
      /\ \A u \in Threads : u # t => Count(todo[u], WrapsTo(w)) = 0
  <2>1. Count(todo[t], WrapsTo(w)) = Count(r, WrapsTo(w)) + 1 /\ Count(r, WrapsTo(w)) \in Nat
    BY <1>4, <1>7
  <2>2. Count(todo[t], WrapsTo(w)) <= 1 /\ Count(todo[t], WrapsTo(w)) # 0
    BY <1>1, <1>6, <2>1 DEF Wrapping
  <2> QED
    BY <1>1, <1>6, <2>1, <2>2 DEF Wrapping
<1>9. /\ todo' \in [Threads -> Seq(Effects)]
      /\ using' \in [Threads -> Wrappers \cup {Nothing}]
      /\ todo'[t] = r /\ \A u \in Threads : u # t => todo'[u] = todo[u]
      /\ \A u \in Threads : u # t => using'[u] = using[u]
      /\ using'[t] = IF r = <<>> THEN Nothing ELSE using[t]
  BY <1>1, <1>3, <1>4, GoesOn
<1>10. /\ wrapper' \in [Wrappers -> Objects \cup {Nothing}] /\ wrapper'[w] = x
       /\ \A v \in Wrappers : v # w => wrapper'[v] = wrapper[v]
       /\ owner' \in [Wrappers -> Threads \cup {Nothing}] /\ owner'[w] = t
       /\ \A v \in Wrappers : v # w => owner'[v] = owner[v]
  BY <1>1, <1>3, <1>4, <1>6 DEF Types
<1>11. \A v \in Wrappers : wrapper[v] # Nothing => wrapper'[v] = wrapper[v]
  BY <1>8, <1>10
<1>12. \A u \in Threads : using[u] # Nothing => using[u] \in Wrappers /\ wrapper[using[u]] # Nothing
  BY <1>1 DEF Serving, Types
<1>13. Books'
  <2>1. Types'
    BY <1>1, <1>3, <1>9, <1>10 DEF Types
  <2>2. Serving'
    <3> SUFFICES ASSUME NEW u \in Threads
                 PROVE  /\ using'[u] # Nothing => wrapper'[using'[u]] # Nothing
                        /\ todo'[u] = <<>> => using'[u] = Nothing
      BY DEF Serving
    <3>1. using'[u] # Nothing => using'[u] = using[u]
      BY <1>9
    <3>2. todo'[u] = <<>> => using'[u] = Nothing
      BY <1>1, <1>9 DEF Serving
    <3> QED
      BY <1>11, <1>12, <3>1, <3>2
  <2>3. Owned'
    BY <1>1, <1>10 DEF Owned
  <2>4. Borrows'
    <3>1. \A b \in lent : b.wrapper \in Wrappers
      BY <1>1 DEF Types
    <3> QED
      BY <1>1, <1>3, <1>11, <3>1 DEF Borrows
  <2>5. Wrapping'
    <3> SUFFICES ASSUME NEW v \in Wrappers, NEW u \in Threads
                 PROVE  /\ Count(todo'[u], WrapsTo(v)) <= 1
                        /\ Count(todo'[u], WrapsTo(v)) # 0 =>
                              /\ wrapper'[v] = Nothing
                              /\ \A y \in Threads : y # u => Count(todo'[y], WrapsTo(v)) = 0
      BY DEF Wrapping, WrapsTo, Count
    <3> DEFINE C(y) == Count(todo[y], WrapsTo(v))
               D(y) == Count(todo'[y], WrapsTo(v))
    <3>1. \A y \in Threads : C(y) \in Nat /\ D(y) \in Nat
      BY <1>1, <1>9, CountType DEF Types
    <3>2. \A y \in Threads : D(y) <= C(y) /\ (v = w => D(y) = 0)
      <4> SUFFICES ASSUME NEW y \in Threads PROVE D(y) <= C(y) /\ (v = w => D(y) = 0)
        OBVIOUS
      <4>1. CASE y = t
        <5>1. /\ Count(todo[t], WrapsTo(v)) = Count(r, WrapsTo(v)) + IF e \in WrapsTo(v) THEN 1 ELSE 0
              /\ Count(r, WrapsTo(v)) \in Nat
          BY <1>4
        <5> QED
          BY <1>8, <1>9, <4>1, <5>1
      <4>2. CASE y # t
        BY <1>8, <1>9, <3>1, <4>2
      <4> QED
        BY <4>1, <4>2
    <3>3. /\ C(u) <= 1
          /\ C(u) # 0 => wrapper[v] = Nothing /\ \A y \in Threads : y # u => C(y) = 0
      BY <1>1 DEF Wrapping
    <3> HIDE DEF C, D
    <3>4. /\ D(u) <= 1
          /\ D(u) # 0 => wrapper'[v] = Nothing /\ \A y \in Threads : y # u => D(y) = 0
      BY <1>10, <3>1, <3>2, <3>3
    <3> QED
      BY <3>4 DEF D
  <2>6. Texting'
    <3> SUFFICES ASSUME NEW u \in Threads
                 PROVE  /\ Count(todo'[u], Texts) <= 1
                        /\ \A i \in 1..Len(todo'[u]) : FitsNext(todo'[u][i], using'[u])
      BY TextingNext
    <3>1. Count(todo'[u], Texts) <= 1
      <4>1. CASE u = t
        <5>1. /\ Count(todo[t], Texts) = Count(r, Texts) + IF e \in Texts THEN 1 ELSE 0
              /\ Count(r, Texts) \in Nat
          BY <1>4
        <5>2. Count(todo[t], Texts) <= 1
          BY <1>1 DEF Texting
        <5> QED
          BY <1>9, <4>1, <5>1, <5>2
      <4>2. CASE u # t
        BY <1>1, <1>9, <4>2 DEF Texting
      <4> QED
        BY <4>1, <4>2
    <3>2. ASSUME NEW i \in 1..Len(todo'[u]) PROVE FitsNext(todo'[u][i], using'[u])
      <4>1. Fits(todo'[u][i], using[u])
        BY <1>1, <1>4, <1>9 DEF Texting
      <4>2. using'[u] = using[u]
        BY <1>9
      <4> QED
        BY <1>11, <1>12, <4>1, <4>2, FitsStays
    <3> QED
      BY <3>1, <3>2
  <2> QED
    BY <2>1, <2>2, <2>3, <2>4, <2>5, <2>6 DEF Books
<1>14. CallsLegal'
  BY <1>1, <1>2, <1>3, <1>4, <1>11, <1>12, GoesOnLegal DEF Accounts
<1>15. CountsMine(home, t)
  BY <1>1, <1>3 DEF CountsMine, Types, Live
<1>16. /\ Held(t)' = Held(t) /\ \A u \in Threads : u # t => Held(u)' = Held(u)
  <2>1. Held(t)' = IF Holds(r) THEN Nothing ELSE tls'[t]
    BY <1>1, <1>4, <1>9, HeldNext
  <2>2. Held(t) = IF Holds(todo[t]) THEN Nothing ELSE tls[t]
    BY <1>1, HeldIs
  <2>3. Holds(todo[t]) <=> Holds(r)
    BY <1>3, <1>4
  <2> QED
    BY <1>3, <1>9, <2>1, <2>2, <2>3 DEF Held, Replacing
<1>17. HoldsMine(home, t)
  <2>1. ASSUME Held(t) # Nothing PROVE Mine(home, t, Held(t))
    <3>1. Held(t) \in Strings
      BY <1>1, <2>1 DEF Held, Types
    <3> QED
      BY <1>2, <3>1, Distinct DEF Accounts, Homes, Mine
  <2> QED
    BY <1>4, <1>8, <1>10, <1>16, <2>1 DEF HoldsMine
<1>18. NamesMine(home, t)
  BY <1>3, <1>4, <1>9 DEF NamesMine, Live
<1>19. EvenMine(home, t)
  <2> SUFFICES ASSUME NEW o \in Objects \ Static, home[o] = t
               PROVE  rc'[o] = Net(todo'[t], o) + Wrappings(o)' + Holdings(o)' + RefsFrom(Heap', o)
    BY DEF EvenMine
  <2>1. Holdings(o)' = Holdings(o) /\ Heap' = Heap
    <3>1. \A u \in Threads : Held(u)' = Held(u)
      BY <1>16
    <3> QED
      BY <1>3, <3>1 DEF Holdings, Heap, Live
  <2>2. Wrappings(o)' = Wrappings(o) - Is(wrapper[w], o) + Is(wrapper'[w], o) /\ Wrappings(o) \in Nat
    BY <1>6, <1>10, WrappingsStep
  <2>3. rc[o] = Net(todo[t], o) + Wrappings(o) + Holdings(o) + RefsFrom(Heap, o)
    BY <1>2 DEF Accounts, Even
  <2>4. Is(wrapper[w], o) = 0 /\ Is(wrapper'[w], o) = Weight(e, o) /\ Weight(e, o) \in {0, 1}
    BY <1>8, <1>10, <1>w
  <2>5. RefsFrom(Heap, o) \in Nat /\ Holdings(o) \in Nat
    <3>1. Heap \in SUBSET Objects
      BY DEF Heap
    <3> QED
      BY <3>1, RefsType, Amounts
  <2>6. Net(todo[t], o) = Net(r, o) + Weight(e, o) /\ Net(r, o) \in Int
    BY <1>4
  <2>7. Wrappings(o)' = Wrappings(o) + Weight(e, o) /\ rc'[o] = rc[o] /\ todo'[t] = r
    BY <1>3, <1>9, <2>2, <2>4
  <2> DEFINE R == RefsFrom(Heap, o)
             W == Wrappings(o)
             H == Holdings(o)
             k == Weight(e, o)
             N == Net(r, o)
  <2>8. R \in Nat /\ W \in Nat /\ H \in Nat /\ k \in {0, 1} /\ N \in Int /\ rc[o] = N + k + W + H + R
    BY <2>2, <2>3, <2>4, <2>5, <2>6
  <2> HIDE DEF R, W, H, k, N
  <2>9. rc[o] = N + (W + k) + H + R
    BY <2>8
  <2> QED
    BY <2>1, <2>7, <2>9 DEF R, W, H, k, N
<1>20. Accounts(home)'
  BY <1>1, <1>2, <1>3, <1>4, <1>5, <1>9, <1>14, <1>15, <1>17, <1>18, <1>19, ThreadKeeps
<1> QED
  BY <1>13, <1>20 DEF HandlesInv

\* The string that is made is the thread's: nothing led to it before.
LEMMA MakeStringKeeps ==
    ASSUME HandlesInv, NEW t \in Threads, MakeString(t)
    PROVE  HandlesInv'
<1> DEFINE e == Head(todo[t])
           r == Tail(todo[t])
           x == e.obj
           f == CHOOSE f \in Formatted : rc[f] = 0
           d == Dec(x)
           k == Capture(f, Nothing)
           b == <<k>> \o r
           s == <<d>> \o b
           H == {f}
           Fresh(g) == g \in Formatted /\ rc[g] = 0
<1>1. Books /\ Types
  BY DEF HandlesInv, Books
<1>f. f \in Formatted /\ rc[f] = 0
  <2>1. \E g \in Formatted : rc[g] = 0
    BY DEF MakeString
  <2> QED
    BY <2>1
<1>g. f \in Strings /\ f \in Objects \ Static /\ ~Live(f) /\ FieldSet(f) = {}
  <2>1. f \in Strings /\ f \in Objects \ Static /\ ~Live(f)
    BY <1>f, Distinct DEF Formatted, Live
  <2>2. Fields(f) = <<>>
    BY <2>1, ObjectsAssumption
  <2>3. DOMAIN Fields(f) = {}
    BY <2>2
  <2> QED
    BY <2>1, <2>3 DEF FieldSet
<1>3. /\ UNCHANGED <<wrapper, owner, reg, tls, lent>>
      /\ e.op = "format" /\ todo[t] # <<>>
      /\ rc' = [rc EXCEPT ![f] = 1]
      /\ Continue(t, <<d, k>> \o r)
  BY DEF MakeString, caller, Doing, Idle
<1> HIDE DEF f
<1>2. PICK home : Accounts(home) /\ home[f] = t
  <2>1. PICK old : Accounts(old)
    BY DEF HandlesInv
  <2>2. Accounts(Rehomed(old, H, t))
    BY <1>1, <1>g, <2>1, Rehome
  <2>3. Rehomed(old, H, t)[f] = t
    BY <1>g DEF Rehomed
  <2> QED
    BY <2>2, <2>3
<1>4. /\ todo[t] \in Seq(Effects) /\ r \in Seq(Effects)
      /\ e \in Effects /\ x \in Objects /\ Live(x) /\ Mine(home, t, x)
      /\ Legal(r, Serves(t))
      /\ \A i \in 1..Len(r) : /\ r[i].obj \in Objects /\ Live(r[i].obj)
                              /\ Mine(home, t, r[i].obj) /\ Fits(r[i], using[t])
      /\ \A o : Net(todo[t], o) = Net(r, o) + Weight(e, o) /\ Net(r, o) \in Int
      /\ \A X : /\ Count(todo[t], X) = Count(r, X) + IF e \in X THEN 1 ELSE 0
                /\ Count(r, X) \in Nat
  BY <1>1, <1>2, <1>3, FirstOf
<1>5. Head(todo[t]) \in Texts
  BY <1>3, <1>4 DEF Texts
<1>6. Count(r, Texts) = 0 /\ ~Holds(r) /\ Held(t) = tls[t]
  BY <1>1, <1>2, <1>3, <1>5, TextOnce
<1>7. reg[t] = 0
  <2>1. e.op \notin {"inc", "dec"}
    BY <1>3
  <2> QED
    BY <1>1, <1>2, <1>3, <2>1, NoneRead
<1>8. d \in Effects /\ d.op = "dec" /\ d.obj = x
  BY <1>4, IncDec
<1>9. k \in Effects /\ k.op = "capture" /\ k.obj = f /\ k.to = Nothing
  BY <1>g, EffectTypes
<1>c. Continue(t, s)
  <2> DEFINE p == <<d>>
             q == <<k>>
  <2>1. p \o q = <<d, k>> /\ p \in Seq(Effects) /\ q \in Seq(Effects)
    BY <1>8, <1>9, Pair
  <2> HIDE DEF p, q
  <2>2. (p \o q) \o r = p \o (q \o r)
    BY <1>4, <2>1, ConcatAssoc
  <2> QED
    BY <1>3, <2>1, <2>2 DEF p, q
<1>w. \A o \in Objects : /\ Weight(d, o) = Weight(e, o) /\ Weight(e, o) \in {0, 1}
                         /\ Weight(k, o) = Is(f, o) /\ Is(f, o) \in {0, 1}
  BY <1>3, <1>8, <1>9 DEF Weight, Is
<1> HIDE DEF e, r, x, d, k
<1>13. /\ b \in Seq(Effects)
       /\ \A i \in 1..Len(b) : b[i] = k \/ Among(r, b[i])
       /\ \A o : Net(b, o) = Net(r, o) + Weight(k, o)
       /\ \A X : Count(b, X) = Count(r, X) + IF k \in X THEN 1 ELSE 0
       /\ ~Holds(b)
  BY <1>4, <1>6, <1>9, ConsIs
<1>14. Legal(b, Serves(t))
  BY <1>4, <1>9, LegalGives
<1> HIDE DEF b
<1>15. /\ s \in Seq(Effects)
       /\ \A i \in 1..Len(s) : s[i] = d \/ Among(b, s[i])
       /\ \A o : Net(s, o) = Net(b, o) + Weight(d, o)
       /\ \A X : Count(s, X) = Count(b, X) + IF d \in X THEN 1 ELSE 0
       /\ ~Holds(s)
  BY <1>8, <1>13, ConsIs
<1>16. Legal(s, Serves(t))
  BY <1>8, <1>13, <1>14, LegalGives
<1> HIDE DEF s
<1>17. \A i \in 1..Len(s) : s[i] = d \/ s[i] = k \/ Among(r, s[i])
  BY <1>13, <1>15 DEF Among
<1>18. /\ todo'[t] = s /\ \A u \in Threads : u # t => todo'[u] = todo[u]
  BY <1>1, <1>c, <1>15, GoesOn
<1>19. /\ rc' \in [Objects -> Nat] /\ rc \in [Objects -> Nat] /\ rc'[f] = 1 /\ rc[f] = 0
       /\ \A o \in Objects : o # f => rc'[o] = rc[o]
  BY <1>1, <1>3, <1>f, <1>g DEF Types
<1>20. CountsMine(home, t)
  BY <1>2, <1>g, <1>19 DEF CountsMine, Live
<1>21. Held(t)' = Held(t) /\ \A u \in Threads : u # t => Held(u)' = Held(u)
  <2>1. Held(t)' = tls'[t]
    BY <1>1, <1>15, <1>18, HeldNext
  <2> QED
    BY <1>3, <1>6, <1>18, <2>1 DEF Held, Replacing
<1>22. Held(t)' # Nothing => Mine(home, t, Held(t)')
  <2>1. ASSUME Held(t) # Nothing PROVE Mine(home, t, Held(t))
    <3>1. Held(t) \in Strings
      BY <1>1, <2>1 DEF Held, Types
    <3> QED
      BY <1>2, <3>1, Distinct DEF Accounts, Homes, Mine
  <2> QED
    BY <1>21, <2>1
<1>23. \A i \in 1..Len(s) : rc'[s[i].obj] > 0 /\ Mine(home, t, s[i].obj) /\ Fits(s[i], using[t])
  <2> SUFFICES ASSUME NEW i \in 1..Len(s)
               PROVE  rc'[s[i].obj] > 0 /\ Mine(home, t, s[i].obj) /\ Fits(s[i], using[t])
    OBVIOUS
  <2>l. \A o \in Objects : Live(o) => rc'[o] > 0
    BY <1>19 DEF Live
  <2>1. CASE s[i] = d
    BY <1>4, <1>8, <2>1, <2>l DEF Fits
  <2>2. CASE s[i] = k
    BY <1>2, <1>9, <1>g, <1>19, <2>2 DEF Fits, Mine
  <2>3. CASE Among(r, s[i])
    <3>1. PICK j \in 1..Len(r) : r[j] = s[i]
      BY <2>3 DEF Among
    <3> QED
      BY <1>4, <2>l, <3>1
  <2> QED
    BY <1>17, <2>1, <2>2, <2>3
<1>24. \A u \in Wrappers : Count(s, WrapsTo(u)) <= Count(todo[t], WrapsTo(u))
  <2> SUFFICES ASSUME NEW u \in Wrappers
               PROVE  Count(s, WrapsTo(u)) <= Count(todo[t], WrapsTo(u))
    OBVIOUS
  <2>1. k \notin WrapsTo(u) /\ d \notin WrapsTo(u)
    BY <1>8, <1>9 DEF WrapsTo
  <2>2. /\ Count(s, WrapsTo(u)) = Count(b, WrapsTo(u)) + IF d \in WrapsTo(u) THEN 1 ELSE 0
        /\ Count(b, WrapsTo(u)) = Count(r, WrapsTo(u)) + IF k \in WrapsTo(u) THEN 1 ELSE 0
        /\ Count(todo[t], WrapsTo(u)) = Count(r, WrapsTo(u)) + IF e \in WrapsTo(u) THEN 1 ELSE 0
        /\ Count(r, WrapsTo(u)) \in Nat
    BY <1>4, <1>13, <1>15
  <2> QED
    BY <2>1, <2>2
<1>25. Count(s, Texts) <= 1
  <2>1. d \notin Texts
    BY <1>8 DEF Texts
  <2>2. /\ Count(s, Texts) = Count(b, Texts) + IF d \in Texts THEN 1 ELSE 0
        /\ Count(b, Texts) = Count(r, Texts) + IF k \in Texts THEN 1 ELSE 0
    BY <1>13, <1>15
  <2> QED
    BY <1>6, <2>1, <2>2
<1>26. EvenMine(home, t)
  <2> SUFFICES ASSUME NEW o \in Objects \ Static, home[o] = t
               PROVE  rc'[o] = Net(todo'[t], o) + Wrappings(o)' + Holdings(o)' + RefsFrom(Heap', o)
    BY DEF EvenMine
  <2>1. Wrappings(o)' = Wrappings(o) /\ Holdings(o)' = Holdings(o)
    <3>1. \A u \in Threads : Held(u)' = Held(u)
      BY <1>21
    <3> QED
      BY <1>3, <3>1 DEF Wrappings, Holdings
  <2>2. RefsFrom(Heap', o) = RefsFrom(Heap, o) /\ RefsFrom(Heap, o) \in Nat
    <3>1. Heap \in SUBSET Objects /\ Heap' \in SUBSET Objects
      BY DEF Heap
    <3>2. ASSUME NEW p \in Objects, o \in FieldSet(p) PROVE p \in Heap' <=> p \in Heap
      <4>1. p # f
        BY <1>g, <3>2
      <4> QED
        BY <1>19, <4>1 DEF Heap, Live
    <3>3. RefsFrom(Heap, o) \in Nat
      BY <3>1, RefsType
    <3> QED
      BY <3>1, <3>2, <3>3, RefsSame
  <2>3. rc[o] = Net(todo[t], o) + Wrappings(o) + Holdings(o) + RefsFrom(Heap, o)
    BY <1>2 DEF Accounts, Even
  <2>4. rc'[o] = rc[o] + Is(f, o) /\ rc[o] \in Nat
    BY <1>19 DEF Is
  <2>5. Wrappings(o) \in Nat /\ Holdings(o) \in Nat
    BY Amounts
  <2>6. /\ Net(todo[t], o) = Net(r, o) + Weight(e, o) /\ Net(r, o) \in Int
        /\ Net(s, o) = Net(b, o) + Weight(d, o) /\ Net(b, o) = Net(r, o) + Weight(k, o)
    BY <1>4, <1>13, <1>15
  <2>7. Net(s, o) = Net(todo[t], o) + Is(f, o) /\ Net(todo[t], o) \in Int /\ Is(f, o) \in {0, 1}
    <3>1. Weight(d, o) = Weight(e, o) /\ Weight(e, o) \in {0, 1} /\ Weight(k, o) = Is(f, o)
          /\ Is(f, o) \in {0, 1}
      BY <1>w
    <3> QED
      BY <2>6, <3>1
  <2> DEFINE R == RefsFrom(Heap, o)
             W == Wrappings(o)
             G == Holdings(o)
             j == Is(f, o)
             N == Net(todo[t], o)
  <2>8. R \in Nat /\ W \in Nat /\ G \in Nat /\ j \in {0, 1} /\ N \in Int /\ rc[o] = N + W + G + R
    BY <2>2, <2>3, <2>5, <2>7
  <2> HIDE DEF R, W, G, j, N
  <2>9. rc[o] + j = (N + j) + W + G + R
    BY <2>8
  <2> QED
    BY <1>18, <2>1, <2>2, <2>4, <2>7, <2>9 DEF R, W, G, j, N
<1>27. UNCHANGED <<wrapper, owner, reg>> /\ tls' \in [Threads -> Strings \cup {Nothing}]
       /\ (\A u \in Threads : u # t => tls'[u] = tls[u])
       /\ lent' \subseteq [wrapper : Wrappers, text : Strings] /\ lent' = lent
  BY <1>1, <1>3 DEF Types
<1>28. Books' /\ Accounts(home)'
  BY <1>1, <1>2, <1>7, <1>c, <1>15, <1>16, <1>20, <1>22, <1>23, <1>24, <1>25, <1>26, <1>27, GoesOnKeeps
<1> QED
  BY <1>28 DEF HandlesInv

-----------------------------------------------------------------------------
(* Calls that do not run on an object.                                     *)

\* The reference of a wrapper that goes passes to the call that gives it up.
LEMMA FreeKeeps ==
    ASSUME Confined, HandlesInv, NEW t \in Threads, Idle(t), NEW w \in Wrappers, MayUse(t, w),
           Free(t, w)
    PROVE  HandlesInv' /\ LastKept
<1> DEFINE v == wrapper[w]
           d == Dec(v)
           p == <<d>>
<1>1. Books /\ Types /\ Serving /\ Owned /\ Wrapping /\ Texting /\ Borrows
  BY DEF HandlesInv, Books
<1>2. PICK home : Accounts(home)
  BY DEF HandlesInv
<1>3. /\ UNCHANGED <<rc, lent, tls, reg>>
      /\ \A u \in Threads : using[u] # w
      /\ \A b \in lent : b.wrapper # w
      /\ todo' = [todo EXCEPT ![t] = p] /\ using' = [using EXCEPT ![t] = Nothing]
      /\ wrapper' = [wrapper EXCEPT ![w] = Nothing]
      /\ owner' = [owner EXCEPT ![w] = Nothing]
  BY DEF Free, Begin
<1>4. v \in Objects /\ owner[w] = t /\ todo[t] = <<>>
  BY <1>1, OwnUser DEF Idle
<1>5. Live(v) /\ Mine(home, t, v)
  BY <1>1, <1>2, <1>4, Referred DEF Accounts, Homes, Mine
<1>6. d \in Effects /\ d.op = "dec" /\ d.obj = v
  BY <1>4, IncDec
<1> HIDE DEF d
<1>7. /\ p \in Seq(Effects) /\ Len(p) = 1 /\ p[1] = d /\ p # <<>>
  BY <1>6
<1>8. Legal(p, Nothing) /\ \A o : Net(p, o) = IF o = v THEN 1 ELSE 0
  BY <1>6, LastLegal
<1>9. ~Holds(p)
  BY <1>6, HoldsOne
<1>10. \A X : d \notin X => Count(p, X) = 0
  BY <1>6, CountOne
<1> HIDE DEF p, v
<1>11. /\ todo' \in [Threads -> Seq(Effects)] /\ using' \in [Threads -> Wrappers \cup {Nothing}]
       /\ todo'[t] = p /\ \A u \in Threads : u # t => todo'[u] = todo[u]
       /\ using'[t] = Nothing /\ \A u \in Threads : u # t => using'[u] = using[u]
  BY <1>1, <1>3, <1>7 DEF Types
<1>12. /\ wrapper' \in [Wrappers -> Objects \cup {Nothing}] /\ wrapper'[w] = Nothing
       /\ \A x \in Wrappers : x # w => wrapper'[x] = wrapper[x]
       /\ owner' \in [Wrappers -> Threads \cup {Nothing}] /\ owner'[w] = Nothing
       /\ \A x \in Wrappers : x # w => owner'[x] = owner[x]
  BY <1>1, <1>3 DEF Types
<1>13. \A u \in Threads : using[u] # Nothing =>
          /\ using[u] \in Wrappers /\ wrapper[using[u]] # Nothing
          /\ wrapper'[using[u]] = wrapper[using[u]]
  BY <1>1, <1>3, <1>12 DEF Serving, Types
<1>14. Books'
  <2>1. Types'
    BY <1>1, <1>3, <1>11, <1>12 DEF Types
  <2>2. Serving'
    <3> SUFFICES ASSUME NEW u \in Threads
                 PROVE  /\ using'[u] # Nothing => wrapper'[using'[u]] # Nothing
                        /\ todo'[u] = <<>> => using'[u] = Nothing
      BY DEF Serving
    <3>1. CASE u = t
      BY <1>7, <1>11, <3>1
    <3>2. CASE u # t
      BY <1>1, <1>11, <1>13, <3>2 DEF Serving
    <3> QED
      BY <3>1, <3>2
  <2>3. Owned'
    BY <1>1, <1>12 DEF Owned
  <2>4. Borrows'
    <3>1. \A b \in lent : b.wrapper \in Wrappers /\ b.wrapper # w
      BY <1>1, <1>3 DEF Types
    <3> QED
      BY <1>1, <1>3, <1>12, <3>1 DEF Borrows
  <2>5. Wrapping'
    <3> SUFFICES ASSUME NEW x \in Wrappers, NEW u \in Threads
                 PROVE  /\ Count(todo'[u], WrapsTo(x)) <= 1
                        /\ Count(todo'[u], WrapsTo(x)) # 0 =>
                              /\ wrapper'[x] = Nothing
                              /\ \A y \in Threads : y # u => Count(todo'[y], WrapsTo(x)) = 0
      BY DEF Wrapping, WrapsTo, Count
    <3> DEFINE C(y) == Count(todo[y], WrapsTo(x))
               D(y) == Count(todo'[y], WrapsTo(x))
    <3>1. \A y \in Threads : C(y) \in Nat /\ D(y) \in Nat
      BY <1>1, <1>11, CountType DEF Types
    <3>2. \A y \in Threads : D(y) <= C(y)
      <4> SUFFICES ASSUME NEW y \in Threads PROVE D(y) <= C(y)
        OBVIOUS
      <4>1. CASE y = t
        <5>1. d \notin WrapsTo(x)
          BY <1>6 DEF WrapsTo
        <5>2. Count(p, WrapsTo(x)) = 0
          BY <1>10, <5>1
        <5> QED
          BY <1>11, <3>1, <4>1, <5>2
      <4>2. CASE y # t
        BY <1>11, <3>1, <4>2
      <4> QED
        BY <4>1, <4>2
    <3>3. /\ C(u) <= 1
          /\ C(u) # 0 => wrapper[x] = Nothing /\ \A y \in Threads : y # u => C(y) = 0
      BY <1>1 DEF Wrapping
    <3> HIDE DEF C, D
    <3>4. /\ D(u) <= 1
          /\ D(u) # 0 => wrapper'[x] = Nothing /\ \A y \in Threads : y # u => D(y) = 0
      BY <1>12, <3>1, <3>2, <3>3
    <3> QED
      BY <3>4 DEF D
  <2>6. Texting'
    <3> SUFFICES ASSUME NEW u \in Threads
                 PROVE  /\ Count(todo'[u], Texts) <= 1
                        /\ \A i \in 1..Len(todo'[u]) : FitsNext(todo'[u][i], using'[u])
      BY TextingNext
    <3>1. CASE u = t
      <4>1. Count(p, Texts) = 0
        <5>1. d \notin Texts
          BY <1>6 DEF Texts
        <5> QED
          BY <1>10, <5>1
      <4>2. FitsNext(d, Nothing)
        BY <1>6 DEF FitsNext
      <4>3. \A i \in 1..Len(p) : p[i] = d
        BY <1>7
      <4> QED
        BY <1>11, <3>1, <4>1, <4>2, <4>3
    <3>2. CASE u # t
      <4>1. ASSUME NEW i \in 1..Len(todo'[u]) PROVE FitsNext(todo'[u][i], using'[u])
        <5>1. Fits(todo'[u][i], using[u]) /\ using'[u] = using[u]
          BY <1>1, <1>11, <3>2 DEF Texting
        <5> QED
          BY <1>13, <5>1, FitsStays
      <4> QED
        BY <1>1, <1>11, <3>2, <4>1 DEF Texting
    <3> QED
      BY <3>1, <3>2
  <2> QED
    BY <2>1, <2>2, <2>3, <2>4, <2>5, <2>6 DEF Books
<1>15. CallsLegal'
  <2> SUFFICES ASSUME NEW u \in Threads PROVE Legal(todo'[u], Serves(u)')
    BY DEF CallsLegal, Legal, Sound, Rest, Net, Count, Gives, Takes, Effects, Leads
  <2>1. CASE u = t
    <3>1. Serves(t)' = Nothing
      BY <1>11 DEF Serves
    <3> QED
      BY <1>8, <1>11, <2>1, <3>1
  <2>2. CASE u # t
    <3>1. Serves(u)' = Serves(u)
      BY <1>11, <1>13, <2>2 DEF Serves
    <3> QED
      BY <1>2, <1>11, <2>2, <3>1 DEF Accounts, CallsLegal
  <2> QED
    BY <2>1, <2>2
<1>16. CountsMine(home, t)
  BY <1>1, <1>3 DEF CountsMine, Types, Live
<1>17. Held(t)' = Held(t) /\ \A u \in Threads : u # t => Held(u)' = Held(u)
  <2>1. Held(t)' = IF Holds(p) THEN Nothing ELSE tls'[t]
    BY <1>1, <1>7, <1>11, HeldNext
  <2>2. Held(t) = tls[t]
    <3>1. ~Holds(todo[t])
      BY <1>4 DEF Holds
    <3> QED
      BY <1>1, <3>1, HeldIs
  <2> QED
    BY <1>3, <1>9, <1>11, <2>1, <2>2 DEF Held, Replacing
<1>18. HoldsMine(home, t)
  <2>1. ASSUME Held(t) # Nothing PROVE Mine(home, t, Held(t))
    <3>1. Held(t) \in Strings
      BY <1>1, <2>1 DEF Held, Types
    <3> QED
      BY <1>2, <3>1, Distinct DEF Accounts, Homes, Mine
  <2> QED
    BY <1>5, <1>12, <1>17, <2>1 DEF HoldsMine, v
<1>19. NamesMine(home, t)
  <2>1. \A i \in 1..Len(p) : p[i] = d
    BY <1>7
  <2> QED
    BY <1>3, <1>5, <1>6, <1>11, <2>1 DEF NamesMine, Live
<1>20. EvenMine(home, t)
  <2> SUFFICES ASSUME NEW o \in Objects \ Static, home[o] = t
               PROVE  rc'[o] = Net(todo'[t], o) + Wrappings(o)' + Holdings(o)' + RefsFrom(Heap', o)
    BY DEF EvenMine
  <2>1. Holdings(o)' = Holdings(o) /\ Heap' = Heap
    <3>1. \A u \in Threads : Held(u)' = Held(u)
      BY <1>17
    <3> QED
      BY <1>3, <3>1 DEF Holdings, Heap, Live
  <2>2. Wrappings(o)' = Wrappings(o) - Is(wrapper[w], o) + Is(wrapper'[w], o) /\ Wrappings(o) \in Nat
    BY <1>12, WrappingsStep
  <2>3. rc[o] = Net(todo[t], o) + Wrappings(o) + Holdings(o) + RefsFrom(Heap, o)
    BY <1>2 DEF Accounts, Even
  <2>4. Is(wrapper'[w], o) = 0 /\ Is(wrapper[w], o) = Net(p, o) /\ Net(p, o) \in {0, 1}
    BY <1>8, <1>12, Distinct DEF Is, v
  <2>5. RefsFrom(Heap, o) \in Nat /\ Holdings(o) \in Nat
    <3>1. Heap \in SUBSET Objects
      BY DEF Heap
    <3> QED
      BY <3>1, RefsType, Amounts
  <2>6. Net(todo[t], o) = 0
    BY <1>4, NetEmpty
  <2>7. Wrappings(o)' = Wrappings(o) - Net(p, o) /\ rc'[o] = rc[o] /\ todo'[t] = p
    BY <1>3, <1>11, <2>2, <2>4
  <2> DEFINE R == RefsFrom(Heap, o)
             W == Wrappings(o)
             H == Holdings(o)
             k == Net(p, o)
  <2>8. R \in Nat /\ W \in Nat /\ H \in Nat /\ k \in {0, 1} /\ rc[o] = W + H + R
    BY <2>2, <2>3, <2>4, <2>5, <2>6
  <2> HIDE DEF R, W, H, k
  <2>9. rc[o] = k + (W - k) + H + R
    BY <2>8
  <2> QED
    BY <2>1, <2>7, <2>9 DEF R, W, H, k
<1>21. reg'[t] = 0 /\ \A u \in Threads : u # t => reg'[u] = reg[u] /\ tls'[u] = tls[u]
  <2>1. reg[t] = 0
    BY <1>1, <1>2, <1>4 DEF Accounts, Updating, Counts, Doing, Idle, Types
  <2> QED
    BY <1>3, <2>1
<1>22. Accounts(home)'
  BY <1>1, <1>2, <1>7, <1>11, <1>15, <1>16, <1>18, <1>19, <1>20, <1>21, ThreadKeeps
<1> QED
  <2>1. LastKept
    BY <1>17 DEF LastKept
  <2> QED
    BY <1>14, <1>22, <2>1 DEF HandlesInv

-----------------------------------------------------------------------------
(* Calls that allocate.                                                    *)

\* A call on nothing that names objects of the tree S and holds the reference to r.
Rooted(s, r) ==
    /\ Legal(s, Nothing)
    /\ \A o \in Objects \ Static : Net(s, o) = Is(r, o)
    /\ \A i \in 1..Len(s) : s[i].obj \in Reach[r] \cup Static

\* The tree of r comes into memory, and nothing else changes for the callers.
Grown(r) ==
    /\ Heap \cap Reach[r] = {} /\ Heap' = Heap \cup (Reach[r] \ Static)
    /\ LastKept /\ UNCHANGED <<wrapper, lent>>

\* The tree that is allocated is the thread's: nothing led to it before.
LEMMA ParseKeeps ==
    ASSUME HandlesInv, NEW t \in Threads, Idle(t), NEW r \in Results, NEW p,
           Parse(t, r, p), Proper(Inspect(r) \o p, Nothing), Rooted(Inspect(r) \o p, r),
           Inspect(r) \o p # <<>>
    PROVE  HandlesInv' /\ Grown(r)
<1> DEFINE s == Inspect(r) \o p
           H == Reach[r] \ Static
<1>1. Books /\ Types
  BY DEF HandlesInv, Books
<1>2. PICK old : Accounts(old)
  BY DEF HandlesInv
<1>3. r \in Objects /\ Reach[r] \in SUBSET Objects /\ r \in Reach[r]
  BY ReachClosed, ReachIs DEF Objects
<1>4. /\ \A o \in H : rc[o] = 0
      /\ Begin(t, Nothing, s) /\ rc' = Allocated(r)
      /\ UNCHANGED <<wrapper, owner, lent, tls, reg>>
  BY DEF Parse
<1>5. Proper(s, Nothing) /\ Rooted(s, r) /\ s # <<>> /\ s \in Seq(Effects)
  BY DEF Proper
<1> HIDE DEF s
<1>6. H \in SUBSET Objects /\ H \cap Static = {} /\ \A o \in H : ~Live(o)
  BY <1>3, <1>4 DEF Live
<1> DEFINE home == Rehomed(old, H, t)
<1>7. Accounts(home)
  <2> HIDE DEF H
  <2> QED
    BY <1>1, <1>2, <1>6, Rehome
<1>8. /\ \A o \in H : home[o] = t
      /\ home \in [Objects -> Threads]
  BY <1>6, <1>7 DEF Rehomed, Accounts, Homes
<1> HIDE DEF home
<1>9. /\ todo \in [Threads -> Seq(Effects)]
      /\ todo'[t] = s /\ \A u \in Threads : u # t => todo'[u] = todo[u]
      /\ using'[t] = Nothing /\ \A u \in Threads : u # t => using'[u] = using[u]
      /\ todo[t] = <<>>
  BY <1>1, <1>4 DEF Begin, Types, Idle
<1>10. reg'[t] = 0 /\ \A u \in Threads : u # t => reg'[u] = reg[u] /\ tls'[u] = tls[u]
  <2>1. ~Counts(t)
    BY <1>9 DEF Counts, Doing, Idle
  <2>2. ~(reg[t] > 0) /\ reg[t] \in Nat
    BY <1>1, <1>7, <2>1 DEF Accounts, Updating, Types
  <2> QED
    BY <1>4, <2>2
<1>11. /\ rc' \in [Objects -> Nat]
       /\ \A o \in Objects : o \notin H => rc'[o] = rc[o]
       /\ \A o \in H : rc'[o] = RefsFrom(Reach[r], o) + Is(r, o)
  <2>1. rc' = [o \in Objects |-> IF o \in Static \/ o \notin Reach[r] THEN rc[o]
                                 ELSE RefsFrom(Reach[r], o) + IF o = r THEN 1 ELSE 0]
    BY <1>4 DEF Allocated
  <2>2. \A o \in Objects : RefsFrom(Reach[r], o) \in Nat /\ rc[o] \in Nat
    BY <1>1, <1>3, RefsType DEF Types
  <2>3. \A o \in Objects : o \notin H => rc'[o] = rc[o]
    BY <2>1
  <2>4. \A o \in H : rc'[o] = RefsFrom(Reach[r], o) + Is(r, o)
    BY <2>1, <1>6 DEF Is
  <2>5. \A o \in Objects : rc'[o] \in Nat
    BY <2>2, <2>3, <2>4 DEF Is
  <2> QED
    BY <2>1, <2>3, <2>4, <2>5
<1>12. \A o \in H : rc'[o] > 0
  <2> SUFFICES ASSUME NEW o \in H PROVE rc'[o] > 0
    OBVIOUS
  <2>1. RefsFrom(Reach[r], o) \in Nat
    BY <1>3, <1>6, RefsType
  <2>2. CASE o = r
    BY <1>11, <2>1, <2>2 DEF Is
  <2>3. CASE o # r
    <3>1. \E q \in Reach[r] : o \in FieldSet(q)
      BY <1>3, <2>3, ReachClosed
    <3>2. RefsFrom(Reach[r], o) # 0
      BY <1>3, <1>6, <3>1, RefsType
    <3> QED
      BY <1>11, <2>1, <3>2 DEF Is
  <2> QED
    BY <2>2, <2>3
<1>13. \A q \in H : FieldSet(q) \subseteq Reach[r]
  BY <1>3, ReachClosed
<1>14. Books'
  <2>1. Nothing \in Wrappers \cup {Nothing} /\ rc' \in [Objects -> Nat]
    BY <1>11
  <2> QED
    BY <1>1, <1>4, <1>5, <2>1, BeginBooks
<1>15. CallsLegal'
  <2> SUFFICES ASSUME NEW u \in Threads PROVE Legal(todo'[u], Serves(u)')
    BY DEF CallsLegal, Legal, Sound, Rest, Net, Count, Gives, Takes, Effects, Leads
  <2>1. CASE u = t
    <3>1. Serves(t)' = Nothing
      BY <1>9 DEF Serves
    <3> QED
      BY <1>5, <1>9, <2>1, <3>1 DEF Rooted
  <2>2. CASE u # t
    <3>1. Serves(u)' = Serves(u)
      BY <1>4, <1>9, <2>2 DEF Serves
    <3> QED
      BY <1>7, <1>9, <2>2, <3>1 DEF Accounts, CallsLegal
  <2> QED
    BY <2>1, <2>2
<1>16. CountsMine(home, t)
  <2>1. \A q \in Objects : q \in Static \/ home[q] # t => rc'[q] = rc[q]
    BY <1>6, <1>8, <1>11
  <2>2. ASSUME NEW q \in Objects \ Static, rc'[q] > 0, ~Live(q), NEW o \in FieldSet(q)
        PROVE  Mine(home, t, o)
    <3>1. q \in H
      BY <1>11, <2>2 DEF Live
    <3> QED
      BY <1>8, <1>13, <2>2, <3>1 DEF Mine
  <2> QED
    BY <1>11, <2>1, <2>2 DEF CountsMine
<1>17. \A u \in Threads : Held(u)' = Held(u)
  <2> SUFFICES ASSUME NEW u \in Threads PROVE Held(u)' = Held(u)
    OBVIOUS
  <2>1. CASE u = t
    <3>1. Len(todo[t]) = 0 /\ \A i \in 1..Len(s) : s[i].op # "hold"
      BY <1>5, <1>9 DEF Proper
    <3> QED
      BY <1>1, <1>4, <1>5, <1>9, <2>1, <3>1, HeldKept
  <2>2. CASE u # t
    BY <1>1, <1>4, <1>9, <2>2, HeldKept
  <2> QED
    BY <2>1, <2>2
<1>18. HoldsMine(home, t)
  <2>1. ASSUME Held(t) # Nothing PROVE Mine(home, t, Held(t))
    <3>1. Held(t) \in Strings
      BY <1>1, <2>1 DEF Held, Types
    <3> QED
      BY <1>7, <3>1, Distinct DEF Accounts, Homes, Mine
  <2> QED
    BY <1>4, <1>17, <2>1 DEF HoldsMine
<1>19. NamesMine(home, t)
  <2> SUFFICES ASSUME NEW i \in 1..Len(s)
               PROVE  rc'[s[i].obj] > 0 /\ Mine(home, t, s[i].obj)
    BY <1>9 DEF NamesMine
  <2>1. s[i].obj \in Static \/ s[i].obj \in H
    BY <1>5 DEF Rooted
  <2>2. CASE s[i].obj \in Static
    <3>1. rc[s[i].obj] = 1 /\ rc'[s[i].obj] = rc[s[i].obj]
      BY <1>7, <1>11, <2>2, Distinct DEF Accounts, StaticKept
    <3> QED
      BY <2>2, <3>1 DEF Mine
  <2>3. CASE s[i].obj \in H
    BY <1>8, <1>12, <2>3 DEF Mine
  <2> QED
    BY <2>1, <2>2, <2>3
<1>20. EvenMine(home, t)
  <2> SUFFICES ASSUME NEW o \in Objects \ Static, home[o] = t
               PROVE  rc'[o] = Net(todo'[t], o) + Wrappings(o)' + Holdings(o)' + RefsFrom(Heap', o)
    BY DEF EvenMine
  <2>1. Wrappings(o)' = Wrappings(o) /\ Holdings(o)' = Holdings(o)
    BY <1>4, <1>17 DEF Wrappings, Holdings
  <2>2. Heap' = Heap \cup H /\ Heap \cap H = {} /\ Heap \in SUBSET Objects
    <3>1. \A q \in Objects : q \notin H => (Live(q)' <=> Live(q))
      BY <1>11 DEF Live
    <3>2. \A q \in H : Live(q)' /\ ~Live(q)
      BY <1>6, <1>12 DEF Live
    <3> QED
      BY <1>6, <3>1, <3>2 DEF Heap
  <2>3. RefsFrom(Heap', o) = RefsFrom(Heap, o) + RefsFrom(H, o)
    <3> HIDE DEF H
    <3> QED
      BY <1>6, <2>2, RefsUnion
  <2>4. RefsFrom(Heap, o) \in Nat /\ RefsFrom(H, o) \in Nat
    <3> HIDE DEF H
    <3> QED
      BY <1>6, <2>2, RefsType
  <2>5. Net(todo'[t], o) = Is(r, o) /\ Net(todo[t], o) = 0
    BY <1>5, <1>9, NetEmpty DEF Rooted
  <2>6. Wrappings(o) \in Nat /\ Holdings(o) \in Nat
    BY Amounts
  <2>7. CASE o \in H
    <3>1. ~Live(o)
      BY <1>6, <2>7
    <3>2. RefsFrom(Heap, o) = 0
      BY <1>1, <1>7, <3>1, Referred
    <3>3. Wrappings(o) = 0
      <4>1. \A w \in Wrappers : wrapper[w] # o
        BY <1>1, <1>7, <3>1, Referred
      <4> QED
        BY <4>1, Amounts
    <3>4. Holdings(o) = 0
      <4>1. \A u \in Threads : Held(u) # o
        BY <1>1, <1>7, <3>1, Referred
      <4> QED
        BY <4>1, Amounts
    <3>5. RefsFrom(H, o) = RefsFrom(Reach[r], o)
      <4>1. \A q \in Objects : o \in FieldSet(q) => (q \in H <=> q \in Reach[r])
        BY StaticAssumption
      <4> HIDE DEF H
      <4> QED
        BY <1>3, <1>6, <4>1, RefsSame
    <3>6. Is(r, o) \in Nat
      BY DEF Is
    <3> QED
      BY <1>11, <2>1, <2>3, <2>4, <2>5, <2>7, <3>2, <3>3, <3>4, <3>5, <3>6
  <2>8. CASE o \notin H
    <3>1. rc'[o] = rc[o] /\ Is(r, o) = 0
      BY <1>3, <1>11, <2>8 DEF Is
    <3>2. RefsFrom(H, o) = 0
      <4>1. \A q \in H : o \notin FieldSet(q)
        BY <1>13, <2>8
      <4> HIDE DEF H
      <4> QED
        BY <1>6, <4>1, RefsType
    <3>3. rc[o] = Net(todo[t], o) + Wrappings(o) + Holdings(o) + RefsFrom(Heap, o)
      BY <1>7 DEF Accounts, Even
    <3> QED
      BY <2>1, <2>3, <2>4, <2>5, <2>6, <3>1, <3>2, <3>3
  <2> QED
    BY <2>7, <2>8
<1>22. Heap' = Heap \cup H /\ Heap \cap Reach[r] = {}
  <2>1. \A q \in Objects : q \notin H => (Live(q)' <=> Live(q))
    BY <1>11 DEF Live
  <2>2. \A q \in H : Live(q)' /\ ~Live(q)
    BY <1>6, <1>12 DEF Live
  <2> QED
    BY <1>6, <2>1, <2>2 DEF Heap
<1>23. Grown(r)
  BY <1>4, <1>17, <1>22 DEF Grown, LastKept
<1>21. Accounts(home)'
  <2>1. todo'[t] \in Seq(Effects)
    BY <1>5, <1>9
  <2> QED
    BY <1>1, <1>7, <1>9, <1>10, <1>15, <1>16, <1>18, <1>19, <1>20, <2>1, ThreadKeeps
<1> QED
  BY <1>14, <1>21, <1>23 DEF HandlesInv

-----------------------------------------------------------------------------
(* The programs of those calls, from their ends.                           *)

Draft(s, r) ==
    /\ Proper(s, Nothing) /\ Legal(s, Nothing)
    /\ \A i \in 1..Len(s) : s[i].obj \in Reach[r] \cup Static

LEMMA DraftRooted ==
    ASSUME NEW s, NEW r, Draft(s, r), \A o \in Objects \ Static : Net(s, o) = Is(r, o)
    PROVE  Proper(s, Nothing) /\ Rooted(s, r)
BY DEF Draft, Rooted

LEMMA DraftFront ==
    ASSUME NEW s, NEW r, Draft(s, r), NEW a, Plain(a), Legal(a \o s, Nothing),
           \A i \in 1..Len(a) : a[i].obj \in Reach[r] \cup Static
    PROVE  /\ Draft(a \o s, r)
           /\ \A w : Count(a \o s, WrapsTo(w)) = Count(s, WrapsTo(w))
           /\ Count(a \o s, Texts) = Count(s, Texts)
<1> DEFINE z == a \o s
<1>1. /\ s \in Seq(Effects) /\ a \in Seq(Effects)
      /\ \A i \in 1..Len(s) : /\ s[i].op # "hold" /\ Fits(s[i], Nothing)
                              /\ s[i].obj \in Reach[r] \cup Static
      /\ \A u \in Wrappers : /\ Count(s, WrapsTo(u)) <= 1
                             /\ Count(s, WrapsTo(u)) # 0 => Unused(u)
      /\ Count(s, Texts) <= 1
  BY DEF Draft, Proper, Plain
<1>2. /\ \A w : Count(a, WrapsTo(w)) = 0
      /\ Count(a, Texts) = 0
      /\ \A i \in 1..Len(a) : a[i].op # "hold" /\ Fits(a[i], Nothing)
  BY PlainCounts
<1>3. \A w : Count(z, WrapsTo(w)) = Count(s, WrapsTo(w))
  <2> SUFFICES ASSUME NEW w PROVE Count(z, WrapsTo(w)) = Count(s, WrapsTo(w))
    OBVIOUS
  <2>1. Count(z, WrapsTo(w)) = Count(a, WrapsTo(w)) + Count(s, WrapsTo(w))
    BY <1>1, CountConcat
  <2>2. Count(s, WrapsTo(w)) \in Nat
    BY <1>1, CountType
  <2> QED
    BY <1>2, <2>1, <2>2
<1>4. Count(z, Texts) = Count(s, Texts)
  <2>1. Count(z, Texts) = Count(a, Texts) + Count(s, Texts)
    BY <1>1, CountConcat
  <2>2. Count(s, Texts) \in Nat
    BY <1>1, CountType
  <2> QED
    BY <1>2, <2>1, <2>2
<1>5. /\ z \in Seq(Effects) /\ Len(z) = Len(a) + Len(s)
      /\ Len(a) \in Nat /\ Len(s) \in Nat
      /\ \A i \in 1..Len(a) : z[i] = a[i]
      /\ \A i \in 1..Len(s) : z[Len(a) + i] = s[i]
  BY <1>1, ConcatIs
<1>6. Legal(z, Nothing)
  OBVIOUS
<1> HIDE DEF z
<1>7. ASSUME NEW i \in 1..Len(z)
      PROVE  /\ z[i].op # "hold" /\ Fits(z[i], Nothing)
             /\ z[i].obj \in Reach[r] \cup Static
  <2>1. CASE i <= Len(a)
    <3>1. i \in 1..Len(a)
      BY <1>5, <2>1
    <3> QED
      BY <1>2, <1>5, <3>1
  <2>2. CASE i > Len(a)
    <3>1. i - Len(a) \in 1..Len(s) /\ Len(a) + (i - Len(a)) = i
      BY <1>5, <2>2
    <3>2. z[Len(a) + (i - Len(a))] = s[i - Len(a)]
      BY <1>5, <3>1
    <3> QED
      BY <1>1, <3>1, <3>2
  <2> QED
    BY <1>5, <2>1, <2>2
<1>8. Proper(z, Nothing)
  BY <1>1, <1>3, <1>4, <1>5, <1>7 DEF Proper
<1> QED
  BY <1>3, <1>4, <1>6, <1>7, <1>8 DEF Draft, z

\* One effect that gives up or hands over more.
LEMMA DraftCons ==
    ASSUME NEW s, NEW r, Draft(s, r), NEW e \in Effects, e.op \in {"dec", "format", "wrap"},
           e.op = "wrap" => /\ e.to \in Wrappers /\ Unused(e.to)
                            /\ Count(s, WrapsTo(e.to)) = 0,
           e.op = "format" => Count(s, Texts) = 0,
           e.obj \in Reach[r]
    PROVE  /\ Draft(<<e>> \o s, r)
           /\ \A o : Net(<<e>> \o s, o) = Net(s, o) + Is(e.obj, o)
           /\ \A w : e.op # "wrap" \/ e.to # w =>
                 Count(<<e>> \o s, WrapsTo(w)) = Count(s, WrapsTo(w))
           /\ e.op # "format" => Count(<<e>> \o s, Texts) = Count(s, Texts)
<1> DEFINE z == <<e>> \o s
<1>1. /\ s \in Seq(Effects) /\ Legal(s, Nothing)
      /\ \A i \in 1..Len(s) : /\ s[i].op # "hold" /\ Fits(s[i], Nothing)
                              /\ s[i].obj \in Reach[r] \cup Static
      /\ \A u \in Wrappers : /\ Count(s, WrapsTo(u)) <= 1
                             /\ Count(s, WrapsTo(u)) # 0 => Unused(u)
      /\ Count(s, Texts) <= 1
  BY DEF Draft, Proper
<1>2. /\ z \in Seq(Effects)
      /\ \A i \in 1..Len(z) : z[i] = e \/ Among(s, z[i])
      /\ \A o : Net(z, o) = Net(s, o) + Weight(e, o)
  BY <1>1, ConsIs
<1>3. \A X : Count(z, X) = Count(s, X) + IF e \in X THEN 1 ELSE 0
  BY <1>1, ConsIs
<1>4. Legal(z, Nothing)
  BY <1>1, LegalGives
<1> HIDE DEF z
<1>5. \A o : Weight(e, o) = Is(e.obj, o)
  BY DEF Weight, Is
<1>6. Fits(e, Nothing) /\ e.op # "hold"
  BY Distinct DEF Fits
<1>7. ASSUME NEW i \in 1..Len(z)
      PROVE  z[i].op # "hold" /\ Fits(z[i], Nothing) /\ z[i].obj \in Reach[r] \cup Static
  BY <1>1, <1>2, <1>6 DEF Among
<1>8. \A X : Count(s, X) \in Nat
  BY <1>1, CountType
<1>9. ASSUME NEW w, e.op # "wrap" \/ e.to # w
      PROVE  Count(z, WrapsTo(w)) = Count(s, WrapsTo(w))
  <2>1. e \notin WrapsTo(w)
    BY <1>9 DEF WrapsTo
  <2>2. Count(z, WrapsTo(w)) = Count(s, WrapsTo(w)) + 0
    BY <1>3, <2>1
  <2> QED
    BY <1>8, <2>2
<1>10. ASSUME e.op # "format" PROVE Count(z, Texts) = Count(s, Texts)
  <2>1. e \notin Texts
    BY <1>10 DEF Texts
  <2>2. Count(z, Texts) = Count(s, Texts) + 0
    BY <1>3, <2>1
  <2> QED
    BY <1>8, <2>2
<1>11. ASSUME NEW u \in Wrappers
       PROVE  Count(z, WrapsTo(u)) <= 1 /\ (Count(z, WrapsTo(u)) # 0 => Unused(u))
  <2>1. CASE e.op # "wrap" \/ e.to # u
    BY <1>1, <1>9, <2>1
  <2>2. CASE e.op = "wrap" /\ e.to = u
    <3>1. e \in WrapsTo(u)
      BY <2>2 DEF WrapsTo
    <3>2. Count(z, WrapsTo(u)) = 1
      BY <1>3, <2>2, <3>1
    <3> QED
      BY <2>2, <3>2
  <2> QED
    BY <2>1, <2>2
<1>12. Count(z, Texts) <= 1
  <2>1. CASE e.op # "format"
    BY <1>1, <1>10, <2>1
  <2>2. CASE e.op = "format"
    <3>1. e \in Texts
      BY <2>2 DEF Texts
    <3> QED
      BY <1>3, <2>2, <3>1
  <2> QED
    BY <2>1, <2>2
<1>13. Draft(z, r)
  BY <1>2, <1>4, <1>7, <1>11, <1>12 DEF Draft, Proper
<1> QED
  BY <1>2, <1>5, <1>9, <1>10, <1>13 DEF z

LEMMA DraftInspect ==
    ASSUME NEW s, NEW r, Draft(s, r), NEW x \in Objects, x \in Reach[r], Net(s, x) >= 1
    PROVE  /\ Draft(Inspect(x) \o s, r) /\ Inspect(x) \o s # <<>>
           /\ \A o : Net(Inspect(x) \o s, o) = Net(s, o)
           /\ \A w : Count(Inspect(x) \o s, WrapsTo(w)) = Count(s, WrapsTo(w))
           /\ Count(Inspect(x) \o s, Texts) = Count(s, Texts)
<1> DEFINE a == Inspect(x)
<1>1. s \in Seq(Effects) /\ Legal(s, Nothing)
  BY DEF Draft, Proper
<1>2. /\ a \in Seq(Effects) /\ Legal(a \o s, Nothing)
      /\ \A o : Net(a \o s, o) = Net(s, o)
  BY <1>1, InspectLegal
<1>3. Plain(a) /\ Len(a) = 2
  BY PlainPrograms
<1>4. \A i \in 1..Len(a) : a[i].obj = x
  <2>1. /\ Inc(x) \in Effects /\ Inc(x).obj = x
        /\ Dec(x) \in Effects /\ Dec(x).obj = x
    BY IncDec
  <2>2. a[1] = Inc(x) /\ a[2] = Dec(x)
    BY DEF Inspect
  <2> QED
    BY <1>3, <2>1, <2>2
<1> HIDE DEF a
<1>5. a \o s # <<>>
  <2>1. Len(a \o s) \in Nat \ {0}
    BY <1>1, <1>2, <1>3, ConcatIs
  <2> QED
    BY <2>1, NotEmpty
<1> QED
  BY <1>2, <1>3, <1>4, <1>5, DraftFront DEF a

LEMMA DraftAccess ==
    ASSUME NEW s, NEW r, Draft(s, r), NEW x \in Objects, x \in Reach[r], Net(s, x) >= 1,
           NEW o \in FieldSet(x), o \in Reach[r], Net(s, o) >= 1
    PROVE  /\ Draft(Access(x, o) \o s, r)
           /\ \A q : Net(Access(x, o) \o s, q) = Net(s, q) - Is(o, q)
           /\ \A w : Count(Access(x, o) \o s, WrapsTo(w)) = Count(s, WrapsTo(w))
           /\ Count(Access(x, o) \o s, Texts) = Count(s, Texts)
<1> DEFINE a == Access(x, o)
<1>1. s \in Seq(Effects) /\ Legal(s, Nothing) /\ o \in Objects
  BY FieldTypes DEF Draft, Proper
<1>2. /\ a \in Seq(Effects) /\ Legal(a \o s, Nothing)
      /\ \A q : Net(a \o s, q) = Net(s, q) - (IF q = o THEN 1 ELSE 0)
  BY <1>1, AccessLegal
<1>3. Plain(a) /\ Len(a) = 3
  BY <1>1, PlainPrograms
<1>4. \A i \in 1..Len(a) : a[i].obj \in {x, o}
  <2>1. /\ Inc(x) \in Effects /\ Inc(x).obj = x
        /\ Inc(o) \in Effects /\ Inc(o).obj = o
        /\ Dec(x) \in Effects /\ Dec(x).obj = x
    BY <1>1, IncDec
  <2>2. a[1] = Inc(x) /\ a[2] = Inc(o) /\ a[3] = Dec(x)
    BY DEF Access
  <2> QED
    BY <1>3, <2>1, <2>2
<1> HIDE DEF a
<1>5. \A q : Net(a \o s, q) = Net(s, q) - Is(o, q)
  BY <1>2 DEF Is
<1> QED
  BY <1>2, <1>3, <1>4, <1>5, DraftFront DEF a

\* The last effect of a call.
LEMMA DraftLast ==
    ASSUME NEW r, NEW e \in Effects, e.op \in {"dec", "wrap"}, e.obj \in Reach[r],
           e.op = "wrap" => e.to \in Wrappers /\ Unused(e.to)
    PROVE  /\ Draft(<<e>>, r)
           /\ \A o : Net(<<e>>, o) = Is(e.obj, o)
           /\ \A w : e.op # "wrap" => Count(<<e>>, WrapsTo(w)) = 0
           /\ Count(<<e>>, Texts) = 0
<1> DEFINE s == <<>>
<1>1. s \in Seq(Effects) /\ Plain(s) /\ Len(s) = 0
  BY DEF Plain
<1>2. <<e>> \o s = <<e>>
  OBVIOUS
<1>3. Legal(s, Nothing) /\ \A o : Net(s, o) = 0
  BY LegalEmpty, NetEmpty
<1> HIDE DEF s
<1>4. Count(s, Texts) = 0 /\ \A w : Count(s, WrapsTo(w)) = 0
  BY <1>1, PlainCounts
<1>5. Draft(s, r)
  BY <1>1, <1>3, ProperPlain DEF Draft
<1>6. /\ Draft(<<e>> \o s, r)
      /\ \A o : Net(<<e>> \o s, o) = Net(s, o) + Is(e.obj, o)
      /\ \A w : e.op # "wrap" \/ e.to # w =>
            Count(<<e>> \o s, WrapsTo(w)) = Count(s, WrapsTo(w))
      /\ e.op # "format" => Count(<<e>> \o s, Texts) = Count(s, Texts)
  BY <1>4, <1>5, DraftCons
<1> DEFINE z == <<e>> \o s
<1> HIDE DEF z
<1>7. \A o : Net(z, o) = Is(e.obj, o)
  <2>1. \A o : Is(e.obj, o) \in Int
    BY DEF Is
  <2> QED
    BY <1>3, <1>6, <2>1 DEF z
<1>8. Draft(z, r) /\ Count(z, Texts) = 0
  BY <1>4, <1>6 DEF z
<1>9. \A w : e.op # "wrap" => Count(z, WrapsTo(w)) = 0
  BY <1>4, <1>6 DEF z
<1> QED
  BY <1>2, <1>7, <1>8, <1>9 DEF z

\* load
LEMMA LoadKeeps ==
    ASSUME HandlesInv, NEW t \in Threads, Idle(t), NEW r \in Results, NEW v \in FieldSet(r),
           NEW n \in Wrappers, Load(t, r, v, n)
    PROVE  HandlesInv' /\ Grown(r)
<1> DEFINE e == Wrap(v, n)
           d == Dec(r)
           w == <<e>>
           l == <<d>> \o w
           m == Access(r, v) \o l
           z == Inspect(r) \o m
<1>1. /\ r \in Objects /\ v \in Objects /\ r \in Reach[r] /\ v \in Reach[r] /\ r # v
  BY ReachIs, ReachClosed, FieldTypes DEF Objects
<1>2. /\ e \in Effects /\ e.op = "wrap" /\ e.obj = v /\ e.to = n
      /\ d \in Effects /\ d.op = "dec" /\ d.obj = r
  BY <1>1, EffectTypes
<1>3. Unused(n) /\ Parse(t, r, m)
  <2>1. l = <<d, e>>
    BY <1>2, Pair
  <2> QED
    BY <2>1 DEF Load
<1> HIDE DEF e, d
<1>4. Draft(w, r) /\ Count(w, Texts) = 0 /\ \A o : Net(w, o) = Is(v, o)
  BY <1>1, <1>2, <1>3, DraftLast
<1> HIDE DEF w
<1>5. Draft(l, r) /\ \A o : Net(l, o) = Is(v, o) + Is(r, o)
  BY <1>1, <1>2, <1>4, DraftCons
<1> HIDE DEF l
<1>6. Draft(m, r) /\ \A o : Net(m, o) = Is(r, o)
  <2>1. Net(l, r) >= 1 /\ Net(l, v) >= 1
    BY <1>1, <1>5 DEF Is
  <2>2. Draft(m, r) /\ \A q : Net(m, q) = Net(l, q) - Is(v, q)
    BY <1>1, <1>5, <2>1, DraftAccess
  <2>3. \A q : Is(v, q) \in Int /\ Is(r, q) \in Int
    BY DEF Is
  <2> HIDE DEF m
  <2>4. ASSUME NEW q PROVE Net(m, q) = Is(r, q)
    BY <1>5, <2>2, <2>3
  <2> QED
    BY <2>2, <2>4
<1> HIDE DEF m
<1>7. Draft(z, r) /\ z # <<>> /\ \A o : Net(z, o) = Is(r, o)
  <2>1. Net(m, r) >= 1
    BY <1>6 DEF Is
  <2> QED
    BY <1>1, <1>6, <2>1, DraftInspect
<1>8. Proper(z, Nothing) /\ Rooted(z, r)
  <2> HIDE DEF z
  <2> QED
    BY <1>7, DraftRooted
<1> QED
  BY <1>3, <1>7, <1>8, ParseKeeps

\* load, of what is no YAML
LEMMA LoadFailsKeeps ==
    ASSUME HandlesInv, NEW t \in Threads, Idle(t), NEW r \in Results, LoadFails(t, r)
    PROVE  HandlesInv' /\ Grown(r)
<1> DEFINE i == Inc(r)
           e == Format(r)
           d == Dec(r)
           w == <<d>>
           l == <<e>> \o w
           a == <<i>>
           m == a \o l
           z == Inspect(r) \o m
<1>1. r \in Objects /\ r \in Reach[r]
  BY ReachIs DEF Objects
<1>2. /\ i \in Effects /\ i.op = "inc" /\ i.obj = r
      /\ e \in Effects /\ e.op = "format" /\ e.obj = r
      /\ d \in Effects /\ d.op = "dec" /\ d.obj = r
  BY <1>1, EffectTypes
<1>3. Parse(t, r, m)
  <2>1. m = <<i, e, d>>
    <3> HIDE DEF i, e, d
    <3>1. l = <<e, d>>
      BY <1>2, Pair
    <3> DEFINE x == <<e, d>>
               y == <<i, e, d>>
               u == <<i>> \o x
    <3>2. /\ u \in Seq(Effects) /\ Len(u) = 3
          /\ u[1] = i /\ u[2] = e /\ u[3] = d
      BY <1>2
    <3>3. /\ y \in Seq(Effects) /\ Len(y) = 3
          /\ y[1] = i /\ y[2] = e /\ y[3] = d
      BY <1>2
    <3> HIDE DEF u, y
    <3>4. \A k \in 1..Len(u) : u[k] = y[k]
      <4>1. \A k \in 1..3 : k = 1 \/ k = 2 \/ k = 3
        OBVIOUS
      <4> QED
        BY <3>2, <3>3, <4>1
    <3>5. u = y
      BY <3>2, <3>3, <3>4, SameEffects
    <3> QED
      BY <3>1, <3>5 DEF u, y
  <2> QED
    BY <2>1 DEF LoadFails
<1>4. Plain(a) /\ \A k \in 1..Len(a) : a[k].obj = r
  <2>1. Plain(<<Inc(r)>>)
    BY <1>1, PlainPrograms
  <2> QED
    BY <1>2, <2>1
<1>i. i = Inc(r)
  OBVIOUS
<1> HIDE DEF i, e, d
<1>5. Draft(w, r) /\ Count(w, Texts) = 0 /\ \A o : Net(w, o) = Is(r, o)
  BY <1>1, <1>2, DraftLast
<1> HIDE DEF w
<1>6. Draft(l, r) /\ \A o : Net(l, o) = Is(r, o) + Is(r, o)
  BY <1>1, <1>2, <1>5, DraftCons
<1>7. l \in Seq(Effects) /\ Legal(l, Nothing)
  BY <1>6 DEF Draft, Proper
<1> HIDE DEF l
<1>8. Legal(m, Nothing) /\ \A o : Net(m, o) = Is(r, o)
  <2>1. Net(l, r) = 2
    BY <1>6 DEF Is
  <2>2. Net(l, r) >= 1 /\ Grants(l, Nothing, r)
    BY <2>1 DEF Grants
  <2>3. Legal(<<Inc(r)>> \o l, Nothing)
    BY <1>1, <1>7, <2>2, LegalTakes
  <2>4. \A o : Net(m, o) = Net(l, o) + Weight(i, o)
    BY <1>2, <1>7, NetCons
  <2>5. \A o : Is(r, o) \in Int /\ Weight(i, o) = 0 - Is(r, o)
    BY <1>2 DEF Weight, Is
  <2> HIDE DEF m
  <2>6. ASSUME NEW o PROVE Net(m, o) = Is(r, o)
    BY <1>6, <2>4, <2>5
  <2> QED
    BY <1>i, <2>3, <2>6 DEF m
<1> HIDE DEF a
<1>9. Draft(m, r)
  BY <1>1, <1>4, <1>6, <1>8, DraftFront
<1> HIDE DEF m
<1>10. Draft(z, r) /\ z # <<>> /\ \A o : Net(z, o) = Is(r, o)
  <2>1. Net(m, r) >= 1
    BY <1>8 DEF Is
  <2> QED
    BY <1>1, <1>8, <1>9, <2>1, DraftInspect
<1>11. Proper(z, Nothing) /\ Rooted(z, r)
  <2> HIDE DEF z
  <2> QED
    BY <1>10, DraftRooted
<1> QED
  BY <1>3, <1>10, <1>11, ParseKeeps

-----------------------------------------------------------------------------
(* load_all.                                                               *)

\* FlattenSeq is a recursive function: sequences of concatenations of every
\* length satisfy its equation.
LEMMA FlattenIs ==
    ASSUME NEW q \in Seq(Seq(Effects)), Len(q) # 0
    PROVE  \E f : /\ FlattenSeq(q) = f[Len(q)]
                  /\ f[1] = q[1]
                  /\ \A i \in 1..Len(q) : i # 1 => f[i] = f[i - 1] \o q[i]
<1> DEFINE n == Len(q)
           P(k, f) == f = [i \in 1..k |-> IF i = 1 THEN q[i] ELSE f[i - 1] \o q[i]]
<1>1. n \in Nat \ {0}
  OBVIOUS
<1> HIDE DEF P
<1> DEFINE S == {k \in 1..n : ~\E f : P(k, f)}
<1>s. \A k : k \in S <=> k \in 1..n /\ ~\E f : P(k, f)
  OBVIOUS
<1> HIDE DEF S
<1>2. ASSUME S # {} PROVE FALSE
  <2>1. PICK k \in S : \A j \in S : k <= j
    <3>1. S \subseteq Nat
      BY <1>1, <1>s
    <3> QED
      BY <1>2, <3>1, LeastNat
  <2>2. k \in 1..n /\ ~\E f : P(k, f)
    BY <1>s
  <2>3. CASE k = 1
    <3> DEFINE f == [i \in 1..1 |-> q[1]]
    <3>1. \A i \in 1..1 : i = 1
      OBVIOUS
    <3>2. P(1, f)
      BY <3>1 DEF P
    <3> QED
      BY <2>2, <2>3, <3>2
  <2>4. CASE k # 1
    <3>1. k - 1 \in 1..n /\ k - 1 < k /\ k \in Nat /\ n \in Nat
      BY <1>1, <2>2, <2>4
    <3>2. k - 1 \notin S
      BY <2>1, <3>1
    <3>3. PICK g : P(k - 1, g)
      BY <1>s, <3>1, <3>2
    <3>4. \A i \in 1..(k - 1) : g[i] = IF i = 1 THEN q[i] ELSE g[i - 1] \o q[i]
      BY <3>3 DEF P
    <3> DEFINE f == [i \in 1..k |-> IF i < k THEN g[i] ELSE g[k - 1] \o q[k]]
               h == [i \in 1..k |-> IF i = 1 THEN q[i] ELSE f[i - 1] \o q[i]]
    <3>5. ASSUME NEW i \in 1..k PROVE f[i] = h[i]
      <4>1. CASE i < k
        <5>1. i \in 1..(k - 1) /\ f[i] = g[i]
          BY <3>1, <4>1
        <5>2. i # 1 => i - 1 \in 1..k /\ i - 1 < k
          BY <3>1, <4>1
        <5>3. i # 1 => f[i - 1] = g[i - 1]
          BY <5>2
        <5> HIDE DEF f
        <5> QED
          BY <3>4, <5>1, <5>3
      <4>2. CASE i = k
        <5>1. k - 1 \in 1..k /\ k - 1 < k /\ ~(k < k)
          BY <2>4, <3>1
        <5>2. k \in 1..k
          BY <3>1
        <5>3. f[k - 1] = g[k - 1] /\ f[k] = g[k - 1] \o q[k]
          BY <5>1, <5>2
        <5> HIDE DEF f
        <5> QED
          BY <2>4, <4>2, <5>3
      <4> QED
        BY <3>1, <4>1, <4>2
    <3>6. f = h
      <4>1. f = [i \in 1..k |-> f[i]] /\ h = [i \in 1..k |-> h[i]]
        OBVIOUS
      <4> HIDE DEF f, h
      <4> QED
        BY <3>5, <4>1
    <3> HIDE DEF f
    <3>7. P(k, f)
      BY <3>6 DEF P
    <3> QED
      BY <2>2, <3>7
  <2> QED
    BY <2>3, <2>4
<1>3. \E f : P(n, f)
  <2>1. n \notin S /\ n \in 1..n
    BY <1>1, <1>2
  <2> QED
    BY <1>s, <2>1
<1> DEFINE F == CHOOSE f : P(n, f)
<1>4. FlattenSeq(q) = F[n]
  BY <1>1 DEF FlattenSeq, P
<1>5. P(n, F)
  BY <1>3
<1> HIDE DEF F
<1>6. \A i \in 1..n : F[i] = IF i = 1 THEN q[i] ELSE F[i - 1] \o q[i]
  BY <1>5 DEF P
<1>7. 1 \in 1..n
  BY <1>1
<1> HIDE DEF n, P
<1>8. F[1] = q[1] /\ \A i \in 1..n : i # 1 => F[i] = F[i - 1] \o q[i]
  BY <1>6, <1>7
<1> QED
  BY <1>4, <1>8 DEF n

Document(a, ns, i) == Access(a, Fields(a)[i]) \o <<Wrap(Fields(a)[i], ns[i])>>

\* What may follow the first k documents of a: Python still has the result r.
Kept(r, o) == IF Shared THEN Is(r, o) ELSE 0
Ready(z, r, a, ns, k) ==
    /\ Draft(z, r) /\ Count(z, Texts) = 0
    /\ \A o : Net(z, o) = Is(a, o) + Kept(r, o)
    /\ \A i \in 1..k : Count(z, WrapsTo(ns[i])) = 0

Awaiting(a, ns) ==
    /\ ns \in [DOMAIN Fields(a) -> Wrappers]
    /\ \A i \in DOMAIN ns : Unused(ns[i])
    /\ \A i, j \in DOMAIN ns : ns[i] = ns[j] => i = j

LEMMA DocumentReady ==
    ASSUME NEW r \in Objects, NEW a \in Reach[r], NEW ns, Awaiting(a, ns),
           NEW k \in 1..Len(Fields(a)), NEW z, Ready(z, r, a, ns, k)
    PROVE  /\ Document(a, ns, k) \in Seq(Effects)
           /\ Ready(Document(a, ns, k) \o z, r, a, ns, k - 1)
<1> DEFINE v == Fields(a)[k]
           n == ns[k]
           e == Wrap(v, n)
           w == <<e>>
           l == w \o z
           x == Access(a, v)
           m == x \o l
<1>1. /\ a \in Objects /\ v \in FieldSet(a) /\ v \in Objects /\ a # v /\ v \in Reach[r]
      /\ k \in DOMAIN Fields(a) /\ Len(Fields(a)) \in Nat /\ DOMAIN Fields(a) = 1..Len(Fields(a))
  <2>1. a \in Objects /\ FieldSet(a) \subseteq Reach[r]
    BY ReachClosed
  <2>2. /\ Len(Fields(a)) \in Nat /\ DOMAIN Fields(a) = 1..Len(Fields(a))
        /\ v \in FieldSet(a) /\ a \notin FieldSet(a) /\ FieldSet(a) \subseteq Objects
    BY <2>1, FieldTypes
  <2> QED
    BY <2>1, <2>2
<1>2. /\ n \in Wrappers /\ Unused(n)
      /\ \A i \in 1..Len(Fields(a)) : ns[i] = n => i = k
  BY <1>1 DEF Awaiting
<1>3. /\ Draft(z, r) /\ Count(z, Texts) = 0 /\ Count(z, WrapsTo(n)) = 0
      /\ \A o : Net(z, o) = Is(a, o) + Kept(r, o)
      /\ \A q, o : Is(q, o) \in {0, 1} /\ Kept(q, o) \in {0, 1}
  <2>1. k \in 1..k
    BY <1>1
  <2>2. \A q, o : Is(q, o) \in {0, 1} /\ Kept(q, o) \in {0, 1}
    BY DEF Is, Kept
  <2> QED
    BY <2>1, <2>2 DEF Ready
<1>4. e \in Effects /\ e.op = "wrap" /\ e.obj = v /\ e.to = n /\ x \in Seq(Effects)
  <2>1. Plain(x) /\ n \in Wrappers \cup {Nothing}
    BY <1>1, <1>2, PlainPrograms
  <2>2. e \in Effects /\ e.op = "wrap" /\ e.obj = v /\ e.to = n
    <3> HIDE DEF v, n
    <3> QED
      BY <1>1, <2>1, EffectTypes
  <2> QED
    BY <2>1, <2>2 DEF Plain
<1>5. z \in Seq(Effects) /\ w \in Seq(Effects) /\ Document(a, ns, k) = x \o w
  BY <1>3, <1>4 DEF Document, Draft, Proper
<1>6. Document(a, ns, k) \o z = m /\ Document(a, ns, k) \in Seq(Effects)
  <2> HIDE DEF w, x
  <2>1. (x \o w) \o z = x \o (w \o z)
    BY <1>4, <1>5, ConcatAssoc
  <2>2. x \o w \in Seq(Effects)
    BY <1>4, <1>5, ConcatIs
  <2> QED
    BY <1>5, <2>1, <2>2
<1> HIDE DEF v, n, e
<1>7. /\ Draft(l, r) /\ Count(l, Texts) = 0
      /\ \A o : Net(l, o) = Is(a, o) + Kept(r, o) + Is(v, o)
      /\ \A u : u # n => Count(l, WrapsTo(u)) = Count(z, WrapsTo(u))
  BY <1>1, <1>2, <1>3, <1>4, DraftCons
<1> HIDE DEF l
<1>8. Net(l, a) >= 1 /\ Net(l, v) >= 1
  <2>1. /\ Net(l, a) = Is(a, a) + Kept(r, a) + Is(v, a)
        /\ Net(l, v) = Is(a, v) + Kept(r, v) + Is(v, v)
    BY <1>7
  <2>2. Is(a, a) = 1 /\ Is(v, v) = 1
    BY DEF Is
  <2>3. /\ Kept(r, a) \in {0, 1} /\ Kept(r, v) \in {0, 1}
        /\ Is(v, a) \in {0, 1} /\ Is(a, v) \in {0, 1}
    BY <1>3
  <2> QED
    BY <2>1, <2>2, <2>3
<1>9. /\ Draft(m, r) /\ Count(m, Texts) = 0
      /\ \A o : Net(m, o) = Net(l, o) - Is(v, o)
      /\ \A u : Count(m, WrapsTo(u)) = Count(l, WrapsTo(u))
  BY <1>1, <1>7, <1>8, DraftAccess
<1> HIDE DEF m
<1>10. \A o : Net(m, o) = Is(a, o) + Kept(r, o)
  <2>1. \A o : Is(a, o) \in Int /\ Is(v, o) \in Int /\ Kept(r, o) \in Int
    BY <1>3
  <2>2. ASSUME NEW o PROVE Net(m, o) = Is(a, o) + Kept(r, o)
    BY <1>7, <1>9, <2>1
  <2> QED
    BY <2>2
<1>11. ASSUME NEW i \in 1..(k - 1) PROVE Count(m, WrapsTo(ns[i])) = 0
  <2>1. i \in 1..k /\ i \in 1..Len(Fields(a)) /\ i # k
    BY <1>1
  <2>2. ns[i] # n
    BY <1>2, <2>1
  <2>3. Count(z, WrapsTo(ns[i])) = 0
    BY <2>1 DEF Ready
  <2> QED
    BY <1>7, <1>9, <2>2, <2>3
<1>12. Ready(m, r, a, ns, k - 1)
  BY <1>9, <1>10, <1>11 DEF Ready
<1> QED
  BY <1>6, <1>12

LEMMA DocumentsReady ==
    ASSUME NEW r \in Objects, NEW a \in Reach[r], NEW ns, Awaiting(a, ns),
           NEW z, Ready(z, r, a, ns, Len(Fields(a))),
           NEW q, q = [i \in DOMAIN Fields(a) |-> Document(a, ns, i)]
    PROVE  /\ FlattenSeq(q) \in Seq(Effects)
           /\ Ready(FlattenSeq(q) \o z, r, a, ns, 0)
<1> DEFINE n == Len(Fields(a))
<1>1. /\ a \in Objects /\ n \in Nat /\ DOMAIN Fields(a) = 1..n
  BY ReachClosed, FieldTypes
<1>2. \A i \in 1..n : Document(a, ns, i) \in Seq(Effects)
  <2>1. ASSUME NEW i \in 1..n PROVE Document(a, ns, i) \in Seq(Effects)
    <3>1. Fields(a)[i] \in Objects
      BY <1>1, FieldTypes
    <3>2. ns[i] \in Wrappers
      BY <1>1 DEF Awaiting
    <3>3. /\ Access(a, Fields(a)[i]) \in Seq(Effects)
          /\ <<Wrap(Fields(a)[i], ns[i])>> \in Seq(Effects)
      <4> DEFINE v == Fields(a)[i]
                 w == ns[i]
      <4>1. v \in Objects /\ w \in Wrappers \cup {Nothing}
        BY <3>1, <3>2
      <4> HIDE DEF v, w
      <4>2. Plain(Access(a, v)) /\ Wrap(v, w) \in Effects
        BY <1>1, <4>1, PlainPrograms, EffectTypes
      <4> QED
        BY <4>2 DEF Plain, v, w
    <3> QED
      BY <3>3, ConcatIs DEF Document
  <2> QED
    BY <2>1
<1>3. /\ q \in Seq(Seq(Effects)) /\ Len(q) = n
      /\ \A i \in 1..n : q[i] = Document(a, ns, i)
  BY <1>1, <1>2
<1>4. CASE n = 0
  <2>1. FlattenSeq(q) = q
    BY <1>3, <1>4 DEF FlattenSeq
  <2>2. q = <<>>
    BY <1>3, <1>4
  <2>3. z \in Seq(Effects) /\ Ready(z, r, a, ns, 0)
    BY <1>4 DEF Ready, Draft, Proper
  <2> QED
    <3>1. <<>> \o z = z
      BY <2>3, ConcatEmpty
    <3>2. FlattenSeq(q) = <<>> /\ FlattenSeq(q) \o z = z
      BY <2>1, <2>2, <3>1
    <3> QED
      BY <2>3, <3>2
<1>5. CASE n # 0
  <2> HIDE DEF n
  <2>q. q \in Seq(Seq(Effects)) /\ Len(q) = n /\ Len(q) # 0
    BY <1>3, <1>5
  <2>f. PICK f : /\ FlattenSeq(q) = f[Len(q)]
                 /\ f[1] = q[1]
                 /\ \A i \in 1..Len(q) : i # 1 => f[i] = f[i - 1] \o q[i]
    BY <2>q, FlattenIs
  <2>1. /\ FlattenSeq(q) = f[n] /\ f[1] = q[1]
        /\ \A i \in 1..n : i # 1 => f[i] = f[i - 1] \o q[i]
    BY <2>q, <2>f
  <2> DEFINE P(k) == /\ f[k] \in Seq(Effects)
                     /\ \A y : Ready(y, r, a, ns, k) => Ready(f[k] \o y, r, a, ns, 0)
             S == {k \in 1..n : ~P(k)}
  <2>s. \A k : k \in S <=> k \in 1..n /\ ~P(k)
    OBVIOUS
  <2>2. ASSUME S # {} PROVE FALSE
    <3>1. PICK k \in S : \A j \in S : k <= j
      <4>1. S \subseteq Nat
        BY <1>1
      <4> HIDE DEF S
      <4> QED
        BY <2>2, <4>1, LeastNat
    <3>2. k \in 1..n /\ ~P(k)
      BY <2>s
    <3> HIDE DEF S
    <3> DEFINE d == Document(a, ns, k)
    <3>3. /\ d \in Seq(Effects) /\ q[k] = d
          /\ \A y : Ready(y, r, a, ns, k) => Ready(d \o y, r, a, ns, k - 1)
      <4>1. k \in 1..Len(Fields(a))
        BY <3>2 DEF n
      <4> QED
        BY <1>2, <1>3, <3>2, <4>1, DocumentReady
    <3> HIDE DEF d
    <3>4. CASE k = 1
      <4>1. 1 - 1 = 0
        OBVIOUS
      <4>2. f[1] = d
        BY <2>1, <3>3, <3>4
      <4> QED
        BY <3>2, <3>3, <3>4, <4>1, <4>2
    <3>5. CASE k # 1
      <4>1. k - 1 \in 1..n /\ k - 1 < k /\ k \in Nat
        BY <1>1, <3>2, <3>5
      <4>2. k - 1 \notin S
        BY <3>1, <4>1
      <4>3. P(k - 1)
        BY <2>s, <4>1, <4>2
      <4>4. f[k] = f[k - 1] \o d /\ f[k - 1] \in Seq(Effects)
        BY <2>1, <3>2, <3>3, <3>5, <4>3
      <4>5. f[k] \in Seq(Effects)
        BY <3>3, <4>4, ConcatIs
      <4>6. ASSUME NEW y, Ready(y, r, a, ns, k) PROVE Ready(f[k] \o y, r, a, ns, 0)
        <5>1. y \in Seq(Effects)
          BY <4>6 DEF Ready, Draft, Proper
        <5>2. (f[k - 1] \o d) \o y = f[k - 1] \o (d \o y)
          <6> DEFINE g == f[k - 1]
          <6>1. g \in Seq(Effects) /\ d \in Seq(Effects)
            BY <3>3, <4>4
          <6> HIDE DEF g
          <6>2. (g \o d) \o y = g \o (d \o y)
            BY <5>1, <6>1, ConcatAssoc
          <6> QED
            BY <6>2 DEF g
        <5>3. Ready(d \o y, r, a, ns, k - 1)
          BY <3>3, <4>6
        <5>4. Ready(f[k - 1] \o (d \o y), r, a, ns, 0)
          BY <4>3, <5>3
        <5> QED
          BY <4>4, <5>2, <5>4
      <4> QED
        BY <3>2, <4>5, <4>6
    <3> QED
      BY <3>4, <3>5
  <2>3. P(n)
    <3>1. n \in 1..n
      BY <1>1, <1>5
    <3> HIDE DEF S, P
    <3> QED
      BY <2>2, <2>s, <3>1
  <2> QED
    BY <2>1, <2>3 DEF n
<1> QED
  BY <1>4, <1>5

\* The six parts of the program, as the call writes them and from its end.
Parts(x, e, i, f, w, y) == x \o e \o i \o f \o w \o y
Nested(x, e, i, f, w, y) == x \o (e \o (i \o (f \o (w \o y))))

LEMMA Concats ==
    /\ \A a, b, c \in Seq(Effects) : (a \o b) \o c = a \o (b \o c)
    /\ \A a, b \in Seq(Effects) : a \o b \in Seq(Effects)
BY ConcatAssoc, ConcatIs

LEMMA Regrouped ==
    ASSUME NEW x \in Seq(Effects), NEW e \in Seq(Effects), NEW i \in Seq(Effects),
           NEW f \in Seq(Effects), NEW w \in Seq(Effects), NEW y \in Seq(Effects)
    PROVE  Parts(x, e, i, f, w, y) = Nested(x, e, i, f, w, y)
<1> DEFINE J(a, b) == a \o b
<1>1. /\ \A a, b, c \in Seq(Effects) : J(J(a, b), c) = J(a, J(b, c))
      /\ \A a, b \in Seq(Effects) : J(a, b) \in Seq(Effects)
  BY Concats
<1> HIDE DEF J
<1> DEFINE xe == J(x, e)
           xi == J(xe, i)
           xf == J(xi, f)
           wy == J(w, y)
           fw == J(f, wy)
           iw == J(i, fw)
<1>2. xe \in Seq(Effects) /\ wy \in Seq(Effects)
  BY <1>1
<1>3. xi \in Seq(Effects) /\ fw \in Seq(Effects)
  <2> HIDE DEF xe, wy
  <2> QED
    BY <1>1, <1>2
<1>4. xf \in Seq(Effects) /\ iw \in Seq(Effects)
  <2> HIDE DEF xi, fw
  <2> QED
    BY <1>1, <1>3
<1>5. J(J(xf, w), y) = J(xf, wy)
  <2> HIDE DEF xf
  <2> QED
    BY <1>1, <1>4
<1>6. J(xf, wy) = J(xi, fw)
  <2> HIDE DEF xi, wy
  <2> QED
    BY <1>1, <1>2, <1>3
<1>7. J(xi, fw) = J(xe, iw)
  <2> HIDE DEF xe, fw
  <2> QED
    BY <1>1, <1>2, <1>3
<1>8. J(xe, iw) = J(x, J(e, iw))
  <2> HIDE DEF iw
  <2> QED
    BY <1>1, <1>4
<1>9. J(J(xf, w), y) = J(x, J(e, iw))
  BY <1>5, <1>6, <1>7, <1>8
<1> QED
  BY <1>9 DEF J, Parts, Nested

LEMMA LoadAllKeeps ==
    ASSUME Confined, HandlesInv, NEW t \in Threads, Idle(t), NEW r \in Results,
           NEW a \in FieldSet(r), NEW ns \in [DOMAIN Fields(a) -> Wrappers],
           LoadAll(t, r, a, ns)
    PROVE  HandlesInv' /\ Grown(r)
<1> DEFINE d == Dec(r)
           x == Access(r, a)
           e == IF Shared THEN <<>> ELSE <<d>>
           y == IF Shared THEN <<d>> ELSE <<>>
           w == <<Dec(a)>>
           q == [i \in DOMAIN Fields(a) |-> Document(a, ns, i)]
           f == FlattenSeq(q)
           i == Inspect(a)
           c == w \o y
           g == f \o c
           h == i \o g
           l == e \o h
           m == x \o l
           z == Inspect(r) \o m
<1>1. /\ r \in Objects /\ a \in Objects /\ r \in Reach[r] /\ a \in Reach[r] /\ r # a
  BY ReachIs, ReachClosed, FieldTypes DEF Objects
<1>2. /\ Awaiting(a, ns)
      /\ Parse(t, r, x \o e \o i \o f \o w \o y)
  BY DEF LoadAll, Awaiting, Document
<1>3. /\ d \in Effects /\ d.op = "dec" /\ d.obj = r
      /\ Dec(a) \in Effects /\ Dec(a).op = "dec" /\ Dec(a).obj = a
  BY <1>1, IncDec
<1>e. /\ \A s \in Seq(Effects) : <<>> \o s = s /\ s \o <<>> = s
      /\ <<>> \in Seq(Effects) /\ <<d>> \in Seq(Effects) /\ w \in Seq(Effects)
  BY <1>3, ConcatEmpty
<1>i. \A o : Is(a, o) \in Int /\ Is(r, o) \in Int
  BY DEF Is
<1>k. \A o : Kept(r, o) = IF Shared THEN Is(r, o) ELSE 0
  BY DEF Kept
<1>4. Ready(c, r, a, ns, Len(Fields(a)))
  <2>1. CASE Shared
    <3> DEFINE b == <<d>>
    <3>1. /\ Draft(b, r) /\ Count(b, Texts) = 0
          /\ \A o : Net(b, o) = Is(r, o)
          /\ \A n : Count(b, WrapsTo(n)) = 0
      BY <1>1, <1>3, DraftLast
    <3>2. c = w \o b
      BY <2>1
    <3> HIDE DEF b, c, d
    <3>3. /\ Draft(c, r) /\ Count(c, Texts) = 0
          /\ \A o : Net(c, o) = Net(b, o) + Is(a, o)
          /\ \A n : Count(c, WrapsTo(n)) = 0
      BY <1>1, <1>3, <3>1, <3>2, DraftCons
    <3>4. ASSUME NEW o PROVE Net(c, o) = Is(a, o) + Kept(r, o)
      BY <1>i, <1>k, <2>1, <3>1, <3>3
    <3> QED
      BY <3>3, <3>4 DEF Ready
  <2>2. CASE ~Shared
    <3>1. c = w
      BY <1>e, <2>2
    <3> HIDE DEF c
    <3>2. /\ Draft(c, r) /\ Count(c, Texts) = 0
          /\ \A o : Net(c, o) = Is(a, o)
          /\ \A n : Count(c, WrapsTo(n)) = 0
      BY <1>1, <1>3, <3>1, DraftLast
    <3>4. ASSUME NEW o PROVE Net(c, o) = Is(a, o) + Kept(r, o)
      BY <1>i, <1>k, <2>2, <3>2
    <3> QED
      BY <3>2, <3>4 DEF Ready
  <2> QED
    BY <2>1, <2>2
<1>5. f \in Seq(Effects) /\ Ready(g, r, a, ns, 0)
  <2> HIDE DEF c
  <2>1. q = [k \in DOMAIN Fields(a) |-> Document(a, ns, k)]
    OBVIOUS
  <2> HIDE DEF q
  <2> QED
    BY <1>1, <1>2, <1>4, <2>1, DocumentsReady
<1>6. /\ x \in Seq(Effects) /\ e \in Seq(Effects) /\ i \in Seq(Effects)
      /\ w \in Seq(Effects) /\ y \in Seq(Effects)
  <2>1. x \in Seq(Effects) /\ i \in Seq(Effects)
    BY <1>1, <1>3, PlainPrograms DEF Plain
  <2> QED
    BY <1>e, <2>1
<1>7. x \o e \o i \o f \o w \o y = m
  <2>2. Parts(x, e, i, f, w, y) = Nested(x, e, i, f, w, y)
    <3> HIDE DEF x, d, i, f, w, e, y
    <3> QED
      BY <1>5, <1>6, Regrouped
  <2> HIDE DEF x, d, i, f, w, e, y
  <2> QED
    BY <2>2 DEF Parts, Nested
<1>8. Parse(t, r, m)
  <2> HIDE DEF x, d, i, f, w, m, e, y
  <2> QED
    BY <1>2, <1>7
<1> HIDE DEF g
<1>9. /\ Draft(g, r) /\ \A o : Net(g, o) = Is(a, o) + Kept(r, o)
      /\ Count(g, Texts) = 0
  BY <1>5 DEF Ready
<1>10. Draft(h, r) /\ Count(h, Texts) = 0 /\ \A o : Net(h, o) = Is(a, o) + Kept(r, o)
  <2>1. Net(g, a) >= 1
    <3>1. Net(g, a) = Is(a, a) + Kept(r, a)
      BY <1>9
    <3>2. Is(a, a) = 1 /\ Kept(r, a) \in {0, 1}
      BY DEF Is, Kept
    <3> QED
      BY <3>1, <3>2
  <2>2. /\ Draft(h, r) /\ Count(h, Texts) = Count(g, Texts)
        /\ \A o : Net(h, o) = Net(g, o)
    BY <1>1, <1>9, <2>1, DraftInspect
  <2> HIDE DEF h
  <2> QED
    BY <1>9, <2>2
<1> HIDE DEF h, d
<1>11. Draft(l, r) /\ \A o : Net(l, o) = Is(a, o) + Is(r, o)
  <2>1. CASE Shared
    <3>1. h \in Seq(Effects)
      BY <1>10 DEF Draft, Proper
    <3>2. l = h
      BY <1>e, <2>1, <3>1
    <3> HIDE DEF l
    <3> QED
      BY <1>10, <1>k, <2>1, <3>2
  <2>2. CASE ~Shared
    <3>1. l = <<d>> \o h
      BY <2>2
    <3> HIDE DEF l
    <3>2. Draft(l, r) /\ \A o : Net(l, o) = Net(h, o) + Is(r, o)
      BY <1>1, <1>3, <1>10, <3>1, DraftCons
    <3>3. ASSUME NEW o PROVE Net(l, o) = Is(a, o) + Is(r, o)
      BY <1>10, <1>i, <1>k, <2>2, <3>2
    <3> QED
      BY <3>2, <3>3
  <2> QED
    BY <2>1, <2>2
<1> HIDE DEF l
<1>12. Draft(m, r) /\ \A o : Net(m, o) = Is(r, o)
  <2>1. Net(l, r) >= 1 /\ Net(l, a) >= 1
    BY <1>1, <1>11 DEF Is
  <2>2. Draft(m, r) /\ \A o : Net(m, o) = Net(l, o) - Is(a, o)
    BY <1>1, <1>11, <2>1, DraftAccess
  <2> HIDE DEF m
  <2>4. ASSUME NEW o PROVE Net(m, o) = Is(r, o)
    BY <1>11, <1>i, <2>2
  <2> QED
    BY <2>2, <2>4
<1> HIDE DEF m
<1>13. Draft(z, r) /\ z # <<>> /\ \A o : Net(z, o) = Is(r, o)
  <2>1. Net(m, r) >= 1
    BY <1>12 DEF Is
  <2> QED
    BY <1>1, <1>12, <2>1, DraftInspect
<1>14. Proper(z, Nothing) /\ Rooted(z, r)
  <2> HIDE DEF z
  <2> QED
    BY <1>13, DraftRooted
<1> QED
  BY <1>8, <1>13, <1>14, ParseKeeps

-----------------------------------------------------------------------------
(* The invariant holds.                                                    *)

LEMMA HandlesBegin ==
    ASSUME Init
    PROVE  HandlesInv
<1> DEFINE s == <<>>
<1>1. /\ rc = [o \in Objects |-> IF o \in Static THEN 1 ELSE 0]
      /\ wrapper = [w \in Wrappers |-> Nothing]
      /\ owner = [w \in Wrappers |-> Nothing]
      /\ lent = {}
      /\ tls = [t \in Threads |-> Nothing]
      /\ todo = [t \in Threads |-> s]
      /\ using = [t \in Threads |-> Nothing]
      /\ reg = [t \in Threads |-> 0]
  BY DEF Init
<1>2. /\ s \in Seq(Effects) /\ Len(s) = 0 /\ Legal(s, Nothing)
      /\ \A o : Net(s, o) = 0
  BY LegalEmpty, NetEmpty
<1> HIDE DEF s
<1>3. \A X : Count(s, X) = 0
  <2>1. ASSUME NEW X PROVE Count(s, X) = 0
    <3>1. \A i \in 1..Len(s) : s[i] \notin X
      BY <1>2
    <3> QED
      BY <1>2, <3>1, CountType
  <2> QED
    BY <2>1
<1>4. \A t \in Threads : Held(t) = Nothing /\ Serves(t) = Nothing
  BY <1>1 DEF Held, Serves
<1>5. Heap = {}
  BY <1>1, Distinct DEF Heap, Live
<1>6. Books
  <2>1. Types
    BY <1>1, <1>2 DEF Types
  <2>2. Serving /\ Owned /\ Borrows
    BY <1>1 DEF Serving, Owned, Borrows
  <2>3. Wrapping
    BY <1>1, <1>3 DEF Wrapping
  <2>4. Texting
    BY <1>1, <1>2, <1>3 DEF Texting
  <2> QED
    BY <2>1, <2>2, <2>3, <2>4 DEF Books
<1>7. PICK t \in Threads : TRUE
  BY CallersAssumption
<1> DEFINE home == [o \in Objects |-> t]
<1>8. StaticKept /\ Updating
  BY <1>1, Distinct DEF StaticKept, Updating
<1>9. CallsLegal
  BY <1>1, <1>2, <1>4 DEF CallsLegal
<1>10. MentionsLive
  BY <1>1, <1>2 DEF MentionsLive
<1>11. Homes(home)
  <2>1. \A u \in Threads : Len(todo[u]) = 0
    BY <1>1, <1>2
  <2> QED
    BY <1>1, <1>4, <1>5, <2>1, Distinct DEF Homes
<1>12. Even(home)
  <2> SUFFICES ASSUME NEW o \in Objects \ Static
               PROVE  rc[o] = Net(todo[home[o]], o) + Wrappings(o) + Holdings(o) + RefsFrom(Heap, o)
    BY DEF Even
  <2>1. rc[o] = 0 /\ Net(todo[home[o]], o) = 0
    BY <1>1, <1>2
  <2>2. Wrappings(o) = 0
    BY <1>1, Amounts, Distinct
  <2>3. Holdings(o) = 0
    BY <1>4, Amounts, Distinct
  <2>4. RefsFrom(Heap, o) = 0
    BY <1>5, RefsType
  <2> QED
    BY <2>1, <2>2, <2>3, <2>4
<1> HIDE DEF home
<1> QED
  BY <1>6, <1>8, <1>9, <1>10, <1>11, <1>12 DEF HandlesInv, Accounts

LEMMA HandlesStays ==
    ASSUME Confined, HandlesInv, [Next]_vars
    PROVE  HandlesInv'
<1>1. CASE UNCHANGED vars
  <2>1. /\ UNCHANGED <<rc, wrapper, owner, tls, todo, using>>
        /\ reg' = reg /\ lent' = lent
    BY <1>1 DEF vars
  <2>2. reg \in [Threads -> Nat] /\ Updating
    BY DEF HandlesInv, Books, Types, Accounts
  <2>3. Updating'
    BY <2>1, <2>2 DEF Updating, Counts, Doing, Idle
  <2> QED
    BY <2>1, <2>2, <2>3, StillKeeps
<1>2. ASSUME NEW t \in Threads, Loads(t) PROVE HandlesInv'
  <2>1. PICK r \in Results :
           \/ LoadFails(t, r)
           \/ \E v \in FieldSet(r), n \in Wrappers : Load(t, r, v, n)
           \/ \E a \in FieldSet(r) : \E ns \in [DOMAIN Fields(a) -> Wrappers] :
                 LoadAll(t, r, a, ns)
    BY <1>2 DEF Loads
  <2>2. Idle(t)
    BY <1>2 DEF Loads
  <2>3. CASE LoadFails(t, r)
    BY <2>2, <2>3, LoadFailsKeeps
  <2>4. ASSUME NEW v \in FieldSet(r), NEW n \in Wrappers, Load(t, r, v, n) PROVE HandlesInv'
    BY <2>2, <2>4, LoadKeeps
  <2>5. ASSUME NEW a \in FieldSet(r), NEW ns \in [DOMAIN Fields(a) -> Wrappers],
               LoadAll(t, r, a, ns)
        PROVE  HandlesInv'
    BY <2>2, <2>5, LoadAllKeeps
  <2> QED
    BY <2>1, <2>3, <2>4, <2>5
<1>3. ASSUME NEW t \in Threads, Uses(t) PROVE HandlesInv'
  <2>1. Idle(t)
    BY <1>3 DEF Uses
  <2>2. CASE \E b \in lent : EndBorrow(t, b)
    BY <2>2, EndBorrowKeeps
  <2>3. ASSUME NEW w \in Wrappers, MayUse(t, w),
               \/ InspectValue(t, w)
               \/ Dump(t, w)
               \/ Free(t, w)
               \/ \E s \in Strings : GetText(t, w, s) \/ GetAttribute(t, w, s)
               \/ \E n \in Wrappers : Unused(n) /\
                     \E o \in Nodes : GetChild(t, w, o, n) \/ Lookup(t, w, o, n)
        PROVE  HandlesInv'
    <3>1. CASE InspectValue(t, w)
      BY <2>1, <2>3, <3>1, InspectKeeps
    <3>2. CASE Dump(t, w)
      BY <2>1, <2>3, <3>2, DumpKeeps
    <3>3. CASE Free(t, w)
      BY <2>1, <2>3, <3>3, FreeKeeps
    <3>4. ASSUME NEW s \in Strings, GetText(t, w, s) PROVE HandlesInv'
      BY <2>1, <2>3, <3>4, GetTextKeeps
    <3>5. ASSUME NEW s \in Strings, GetAttribute(t, w, s) PROVE HandlesInv'
      BY <2>1, <2>3, <3>5, GetAttributeKeeps
    <3>6. ASSUME NEW n \in Wrappers, Unused(n), NEW o \in Nodes, GetChild(t, w, o, n)
          PROVE  HandlesInv'
      BY <2>1, <2>3, <3>6, GetChildKeeps
    <3>7. ASSUME NEW n \in Wrappers, Unused(n), NEW o \in Nodes, Lookup(t, w, o, n)
          PROVE  HandlesInv'
      BY <2>1, <2>3, <3>7, LookupKeeps
    <3> QED
      BY <2>3, <3>1, <3>2, <3>3, <3>4, <3>5, <3>6, <3>7
  <2> QED
    BY <1>3, <2>2, <2>3 DEF Uses
<1>4. ASSUME NEW t \in Threads, Step(t) PROVE HandlesInv'
  <2>1. CASE ReadCount(t)
    BY <2>1, ReadCountKeeps
  <2>2. CASE CountStatic(t)
    BY <2>2, CountStaticKeeps
  <2>3. CASE Increment(t)
    BY <2>3, IncrementKeeps
  <2>4. CASE Decrement(t)
    BY <2>4, DecrementKeeps, ReleaseKeeps
  <2>5. CASE MakeString(t)
    BY <2>5, MakeStringKeeps
  <2>6. CASE CaptureString(t)
    BY <2>6, CaptureStringKeeps
  <2>7. CASE HoldString(t)
    BY <2>7, HoldStringKeeps
  <2>8. CASE WrapHandle(t)
    BY <2>8, WrapHandleKeeps
  <2> QED
    BY <1>4, <2>1, <2>2, <2>3, <2>4, <2>5, <2>6, <2>7, <2>8 DEF Step
<1> QED
  BY <1>1, <1>2, <1>3, <1>4 DEF Next

-----------------------------------------------------------------------------
(* What it implies.                                                        *)

LEMMA TypesImply ==
    ASSUME HandlesInv
    PROVE  TypeOK
<1>1. Types
  BY DEF HandlesInv, Books
<1>2. ASSUME NEW t \in Threads, NEW i \in DOMAIN todo[t]
      PROVE  todo[t][i] \in Effects
  BY <1>1 DEF Types
<1> QED
  BY <1>1, <1>2 DEF TypeOK, Types, Effects

LEMMA NoUseImplied ==
    ASSUME HandlesInv
    PROVE  NoUseAfterFree
<1>1. Books /\ Types
  BY DEF HandlesInv, Books
<1>2. PICK home : Accounts(home)
  BY DEF HandlesInv
<1> SUFFICES ASSUME NEW t \in Threads
             PROVE  /\ todo[t] # <<>> => Live(Head(todo[t]).obj)
                    /\ Held(t) # Nothing => Live(Held(t))
  BY DEF NoUseAfterFree
<1>3. ASSUME todo[t] # <<>> PROVE Live(Head(todo[t]).obj)
  BY <1>1, <1>2, <1>3, FirstOf
<1>4. ASSUME Held(t) # Nothing PROVE Live(Held(t))
  <2>1. Held(t) \in Objects
    BY <1>1, <1>4, Distinct DEF Held, Types
  <2> QED
    BY <1>1, <1>2, <2>1, Referred
<1> QED
  BY <1>3, <1>4

LEMMA BorrowsImplied ==
    ASSUME HandlesInv
    PROVE  BorrowsAlive
<1>1. Books /\ Types /\ Borrows
  BY DEF HandlesInv, Books
<1>2. PICK home : Accounts(home)
  BY DEF HandlesInv
<1> SUFFICES ASSUME NEW b \in lent PROVE Live(b.text)
  BY DEF BorrowsAlive
<1> DEFINE v == wrapper[b.wrapper]
<1>3. /\ b.wrapper \in Wrappers /\ v \in Objects
      /\ b.text \in FieldSet(v) \cup Static
  BY <1>1 DEF Types, Borrows
<1>4. CASE b.text \in Static
  BY <1>2, <1>4 DEF Accounts, StaticKept, Live
<1>5. CASE b.text \in FieldSet(v)
  <2>1. Live(v)
    BY <1>1, <1>2, <1>3, Referred
  <2>2. b.text \in Objects
    BY <1>3, <1>5, FieldTypes
  <2> HIDE DEF v
  <2> QED
    BY <1>1, <1>2, <1>3, <1>5, <2>1, <2>2, Referred
<1> QED
  BY <1>3, <1>4, <1>5

\* The places of a thread's call, among those of all calls.
LEMMA PlacesOf ==
    ASSUME NEW s \in Seq(Effects), NEW t, NEW X, NEW P,
           \A p : p \in P <=> \E i \in 1..Len(s) : p = <<t, i>> /\ s[i] \in X
    PROVE  Cardinality(P) = Count(s, X)
<1> DEFINE I == {i \in 1..Len(s) : s[i] \in X}
           f == [i \in I |-> <<t, i>>]
<1>1. IsFiniteSet(I) /\ Count(s, X) = Cardinality(I)
  BY CountType DEF Count
<1>2. \A i : i \in I <=> i \in 1..Len(s) /\ s[i] \in X
  OBVIOUS
<1> HIDE DEF I
<1>3. f \in [I -> P] /\ \A i \in I : f[i] = <<t, i>>
  BY <1>2
<1>4. \A p \in P : \E i \in I : f[i] = p
  BY <1>2, <1>3
<1>5. \A i, j \in I : f[i] = f[j] => i = j
  BY <1>3
<1> HIDE DEF f
<1>6. f \in Bijection(I, P)
  BY <1>3, <1>4, <1>5 DEF Bijection, Injection, Surjection, IsInjective
<1>7. ExistsBijection(I, P)
  BY <1>6 DEF ExistsBijection
<1> QED
  BY <1>1, <1>7, FS_Bijection

LEMMA CountedImplied ==
    ASSUME HandlesInv
    PROVE  Counted
<1>1. Books /\ Types
  BY DEF HandlesInv, Books
<1>2. PICK home : Accounts(home)
  BY DEF HandlesInv
<1> DEFINE ahead == UNION {{t} \X DOMAIN todo[t] : t \in Threads}
           Ahead(o) == {p \in ahead : todo[p[1]][p[2]].obj = o}
           ToAdd(o) == {p \in Ahead(o) : todo[p[1]][p[2]].op = "inc"}
<1> SUFFICES ASSUME NEW o \in Objects \ Static
             PROVE  rc[o] + Cardinality(ToAdd(o)) =
                        Cardinality(Ahead(o) \ ToAdd(o)) + Wrappings(o) + Holdings(o)
                        + RefsFrom(Heap, o)
  BY DEF Counted, Wrappings, Holdings
<1> DEFINE h == home[o]
           s == todo[h]
<1>3. h \in Threads /\ s \in Seq(Effects)
  BY <1>1, <1>2 DEF Accounts, Homes, Types
<1>4. \A p : p \in ahead <=> \E t \in Threads : \E i \in 1..Len(todo[t]) : p = <<t, i>>
  <2>1. \A t \in Threads : DOMAIN todo[t] = 1..Len(todo[t])
    BY <1>1 DEF Types
  <2> QED
    BY <2>1
<1> HIDE DEF ahead
<1>5. ASSUME NEW t \in Threads, NEW i \in 1..Len(todo[t]), todo[t][i].obj = o PROVE t = h
  BY <1>2, <1>5 DEF Accounts, Homes
<1>6. \A p : p \in Ahead(o) <=> \E i \in 1..Len(s) : p = <<h, i>> /\ s[i].obj = o
  <2> SUFFICES ASSUME NEW p
               PROVE  p \in Ahead(o) <=> \E i \in 1..Len(s) : p = <<h, i>> /\ s[i].obj = o
    OBVIOUS
  <2>1. ASSUME p \in Ahead(o) PROVE \E i \in 1..Len(s) : p = <<h, i>> /\ s[i].obj = o
    <3>0. p \in ahead
      BY <2>1
    <3>t. PICK t \in Threads : \E i \in 1..Len(todo[t]) : p = <<t, i>>
      BY <1>4, <3>0
    <3>1. PICK i \in 1..Len(todo[t]) : p = <<t, i>>
      BY <3>t
    <3>2. todo[t][i].obj = o
      BY <2>1, <3>1
    <3> QED
      BY <1>5, <3>1, <3>2
  <2>2. ASSUME NEW i \in 1..Len(s), p = <<h, i>>, s[i].obj = o PROVE p \in Ahead(o)
    <3>1. p \in ahead
      BY <1>3, <1>4, <2>2
    <3> QED
      BY <2>2, <3>1
  <2> QED
    BY <2>1, <2>2
<1>7. \A i \in 1..Len(s) : s[i] \in Effects
  BY <1>3
<1> HIDE DEF s, h
<1>8. \A p : p \in ToAdd(o) <=> \E i \in 1..Len(s) : p = <<h, i>> /\ s[i] \in Takes(o)
  BY <1>6, <1>7 DEF Takes, s
<1>9. \A p : p \in Ahead(o) \ ToAdd(o) <=> \E i \in 1..Len(s) : p = <<h, i>> /\ s[i] \in Gives(o)
  BY <1>6, <1>7 DEF Gives, s
<1>10. Cardinality(ToAdd(o)) = Count(s, Takes(o))
  <2> DEFINE G == ToAdd(o)
             X == Takes(o)
  <2>1. \A p : p \in G <=> \E i \in 1..Len(s) : p = <<h, i>> /\ s[i] \in X
    BY <1>8
  <2> HIDE DEF G, X
  <2>2. s \in Seq(Effects)
    BY <1>3
  <2>3. Cardinality(G) = Count(s, X)
    BY <2>1, <2>2, PlacesOf
  <2> QED
    BY <2>3 DEF G, X
<1>11. Cardinality(Ahead(o) \ ToAdd(o)) = Count(s, Gives(o))
  <2> DEFINE G == Ahead(o) \ ToAdd(o)
             X == Gives(o)
  <2>1. \A p : p \in G <=> \E i \in 1..Len(s) : p = <<h, i>> /\ s[i] \in X
    BY <1>9
  <2> HIDE DEF G, X
  <2>2. s \in Seq(Effects)
    BY <1>3
  <2>3. Cardinality(G) = Count(s, X)
    BY <2>1, <2>2, PlacesOf
  <2> QED
    BY <2>3 DEF G, X
<1>12. Count(s, Takes(o)) \in Nat /\ Count(s, Gives(o)) \in Nat
  BY <1>3, CountType
<1>13. rc[o] = Count(s, Gives(o)) - Count(s, Takes(o)) + Wrappings(o) + Holdings(o)
               + RefsFrom(Heap, o)
  BY <1>2 DEF Accounts, Even, Net, s, h
<1>14. Wrappings(o) \in Nat /\ Holdings(o) \in Nat /\ RefsFrom(Heap, o) \in Nat
  BY <1>1, <1>2, Amounts, Referred
<1> HIDE DEF Ahead, ToAdd
<1> QED
  BY <1>10, <1>11, <1>12, <1>13, <1>14

-----------------------------------------------------------------------------
(* What is in memory when no call runs.                                    *)

\* What an object leads to does not refer to it.
LEMMA ReachesNoReferrer ==
    ASSUME NEW p \in Objects, NEW o \in FieldSet(p)
    PROVE  o \in Objects /\ p \notin Reach[o]
<1>1. o \in Objects
  BY FieldTypes
<1>2. ASSUME p \in Reach[o] PROVE FALSE
  <2> DEFINE S == {x \in Objects : x \in Reach[o] /\ p \in Reach[x]}
  <2>s. \A x : x \in S <=> x \in Objects /\ x \in Reach[o] /\ p \in Reach[x]
    OBVIOUS
  <2>1. S \in SUBSET Objects
    OBVIOUS
  <2> HIDE DEF S
  <2>2. o \in S
    BY <1>1, <1>2, <2>s, ReachIs
  <2>3. PICK x \in S : FieldSet(x) \cap S = {}
    BY <2>1, <2>2, AcyclicAssumption
  <2>4. x \in Objects /\ x \in Reach[o] /\ p \in Reach[x]
    BY <2>s
  <2>5. CASE x = p
    BY <2>2, <2>3, <2>5
  <2>6. CASE x # p
    <3>1. PICK y \in FieldSet(x) : p \in Reach[y]
      BY <2>4, <2>6, ReachIs
    <3>2. y \in Objects /\ y \in Reach[o]
      BY <1>1, <2>4, <3>1, ReachClosed, FieldTypes
    <3> QED
      BY <2>3, <2>s, <3>1, <3>2
  <2> QED
    BY <2>5, <2>6
<1> QED
  BY <1>1, <1>2

\* What leads to an object leads to more than the object.
LEMMA ReferrerReachesMore ==
    ASSUME NEW p \in Objects, NEW o \in FieldSet(p)
    PROVE  /\ Cardinality(Reach[o]) \in Nat /\ Cardinality(Reach[p]) \in Nat
           /\ Cardinality(Reach[o]) < Cardinality(Reach[p])
           /\ Cardinality(Reach[p]) <= Cardinality(Objects)
           /\ Cardinality(Objects) \in Nat
<1>1. IsFiniteSet(Objects)
  BY ObjectsAssumption
<1>2. o \in Objects /\ p \notin Reach[o]
  BY ReachesNoReferrer
<1>3. Reach[o] \subseteq Objects /\ Reach[p] \subseteq Objects
  BY <1>2, ReachClosed
<1>4. Reach[o] \subseteq Reach[p] /\ p \in Reach[p]
  BY ReachIs
<1> DEFINE A == Reach[o]
           B == Reach[p]
<1> HIDE DEF A, B
<1>5. A \subseteq B /\ A # B /\ A \subseteq Objects /\ B \subseteq Objects
  BY <1>2, <1>3, <1>4 DEF A, B
<1>6. IsFiniteSet(A) /\ IsFiniteSet(B) /\ Cardinality(B) <= Cardinality(Objects)
  BY <1>1, <1>5, FS_Subset
<1>8. Cardinality(A) \in Nat /\ Cardinality(B) \in Nat /\ Cardinality(Objects) \in Nat
  BY <1>1, <1>6, FS_CardinalityType
<1>7. Cardinality(A) < Cardinality(B)
  <2>1. A \in SUBSET B
    BY <1>5
  <2>2. Cardinality(A) <= Cardinality(B) /\ Cardinality(A) # Cardinality(B)
    BY <1>5, <1>6, <2>1, FS_Subset
  <2> QED
    BY <1>8, <2>2
<1> QED
  BY <1>6, <1>7, <1>8 DEF A, B

\* Of objects there is one that none of them refers to.
LEMMA FirstReferrer ==
    ASSUME NEW S \in SUBSET Objects, S # {}
    PROVE  \E o \in S : \A p \in S : o \notin FieldSet(p)
<1> SUFFICES ASSUME \A o \in S : \E p \in S : o \in FieldSet(p) PROVE FALSE
  OBVIOUS
<1> DEFINE N == Cardinality(Objects)
           Lacks(o) == N - Cardinality(Reach[o])
           D == {Lacks(o) : o \in S}
<1>1. ASSUME NEW o \in S
      PROVE  /\ Lacks(o) \in Nat
             /\ \E p \in S : Lacks(p) < Lacks(o)
  <2>1. PICK p \in S : o \in FieldSet(p)
    OBVIOUS
  <2>2. /\ Cardinality(Reach[o]) \in Nat /\ Cardinality(Reach[p]) \in Nat
        /\ Cardinality(Reach[o]) < Cardinality(Reach[p])
        /\ Cardinality(Reach[p]) <= N
        /\ N \in Nat
    BY <2>1, ReferrerReachesMore
  <2> HIDE DEF N
  <2> QED
    BY <2>2
<1> HIDE DEF Lacks
<1>2. D \subseteq Nat /\ D # {}
  BY <1>1
<1>3. PICK d \in D : \A e \in D : d <= e
  <2> HIDE DEF D
  <2> QED
    BY <1>2, LeastNat
<1>4. PICK o \in S : d = Lacks(o)
  OBVIOUS
<1>5. PICK p \in S : Lacks(p) < Lacks(o)
  BY <1>1
<1>6. Lacks(p) \in D /\ Lacks(p) \in Nat /\ Lacks(o) \in Nat
  BY <1>1
<1> HIDE DEF D
<1>7. Lacks(o) <= Lacks(p)
  BY <1>3, <1>4, <1>6
<1> DEFINE x == Lacks(o)
           y == Lacks(p)
<1>8. x \in Nat /\ y \in Nat /\ y < x /\ x <= y
  BY <1>5, <1>6, <1>7
<1> HIDE DEF x, y
<1> QED
  BY <1>8

\* What is in memory leads to what is in memory.
LEMMA ReachLive ==
    ASSUME Books, NEW home, Accounts(home), NEW o \in Objects, Live(o), NEW q \in Reach[o]
    PROVE  q \in Objects /\ Live(q)
<1>1. Reach[o] \subseteq Objects
  BY ReachClosed
<1> DEFINE S == {x \in Objects : Live(x) /\ \E y \in Reach[x] : ~Live(y)}
<1>s. \A x : x \in S <=> x \in Objects /\ Live(x) /\ \E y \in Reach[x] : ~Live(y)
  OBVIOUS
<1>2. S \in SUBSET Objects
  OBVIOUS
<1> HIDE DEF S
<1>3. ASSUME S # {} PROVE FALSE
  <2>1. PICK x \in S : FieldSet(x) \cap S = {}
    BY <1>2, <1>3, AcyclicAssumption
  <2>2. PICK y \in Reach[x] : ~Live(y)
    BY <1>s
  <2>3. x \in Objects /\ Live(x) /\ y # x
    BY <1>s, <2>2
  <2>4. PICK z \in FieldSet(x) : y \in Reach[z]
    BY <2>3, ReachIs
  <2>5. z \in Objects /\ Live(z)
    BY <2>3, <2>4, FieldTypes, Referred
  <2> QED
    BY <1>s, <2>1, <2>2, <2>4, <2>5
<1> QED
  BY <1>1, <1>3, <1>s

LEMMA NothingLeaksImplied ==
    ASSUME HandlesInv
    PROVE  NothingLeaks
<1>1. Books /\ Types
  BY DEF HandlesInv, Books
<1>2. PICK home : Accounts(home)
  BY DEF HandlesInv
<1> DEFINE Roots == ({wrapper[w] : w \in Wrappers} \cup {tls[t] : t \in Threads}) \ {Nothing}
           Led == (UNION {Reach[o] : o \in Roots}) \ Static
<1> SUFFICES ASSUME \A t \in Threads : Idle(t)
             PROVE  Heap = Led
  BY DEF NothingLeaks
<1>3. \A t \in Threads : Held(t) = tls[t] /\ todo[t] = <<>>
  <2> SUFFICES ASSUME NEW t \in Threads PROVE Held(t) = tls[t] /\ todo[t] = <<>>
    OBVIOUS
  <2>1. todo[t] = <<>>
    BY DEF Idle
  <2>2. ~Replacing(t)
    BY <2>1 DEF Replacing
  <2> QED
    BY <2>1, <2>2 DEF Held
<1>4. ASSUME NEW o \in Roots PROVE o \in Objects /\ Live(o)
  <2>1. o # Nothing
    OBVIOUS
  <2>2. CASE \E w \in Wrappers : wrapper[w] = o
    <3>1. o \in Objects
      BY <1>1, <2>1, <2>2 DEF Types
    <3> QED
      BY <1>1, <1>2, <2>2, <3>1, Referred
  <2>3. CASE \E t \in Threads : tls[t] = o
    <3>1. o \in Objects
      BY <1>1, <2>1, <2>3, Distinct DEF Types
    <3> QED
      BY <1>1, <1>2, <1>3, <2>3, <3>1, Referred
  <2> QED
    BY <2>2, <2>3
<1>5. \A o : (\E w \in Wrappers : wrapper[w] = o) \/ (\E t \in Threads : tls[t] = o)
             => o = Nothing \/ o \in Roots
  OBVIOUS
<1> HIDE DEF Roots
<1>6. \A q : q \in Led <=> q \notin Static /\ \E o \in Roots : q \in Reach[o]
  <2> SUFFICES ASSUME NEW q
               PROVE  q \in Led <=> q \notin Static /\ \E o \in Roots : q \in Reach[o]
    OBVIOUS
  <2> DEFINE U == {Reach[o] : o \in Roots}
  <2>1. \A x : x \in U <=> \E o \in Roots : x = Reach[o]
    OBVIOUS
  <2>2. q \in Led <=> q \in UNION U /\ q \notin Static
    OBVIOUS
  <2> HIDE DEF U, Led
  <2>3. q \in UNION U <=> \E x : x \in U /\ q \in x
    OBVIOUS
  <2> QED
    BY <2>1, <2>2, <2>3
<1> HIDE DEF Led
<1>7. ASSUME NEW q \in Led PROVE q \in Heap
  <2>1. PICK o \in Roots : q \in Reach[o]
    BY <1>6
  <2>2. q \in Objects /\ Live(q)
    BY <1>1, <1>2, <1>4, <2>1, ReachLive
  <2> QED
    BY <1>6, <2>2 DEF Heap
<1>8. Heap \subseteq Led
  <2> DEFINE S == Heap \ Led
  <2>1. S \in SUBSET Objects /\ \A o : o \in S <=> o \in Heap /\ o \notin Led
    BY DEF Heap
  <2> HIDE DEF S
  <2>2. ASSUME S # {} PROVE FALSE
    <3>1. PICK o \in S : \A p \in S : o \notin FieldSet(p)
      BY <2>1, <2>2, FirstReferrer
    <3>2. o \in Objects /\ o \notin Static /\ Live(o) /\ o # Nothing /\ o \notin Led
      BY <2>1, <3>1, Distinct DEF Heap
    <3>3. o \notin Roots
      BY <1>6, <3>2, ReachIs
    <3>4. Wrappings(o) = 0
      <4>1. \A w \in Wrappers : wrapper[w] # o
        BY <1>5, <3>2, <3>3
      <4> QED
        BY <4>1, Amounts
    <3>5. Holdings(o) = 0
      <4>1. \A t \in Threads : Held(t) # o
        BY <1>3, <1>5, <3>2, <3>3
      <4> QED
        BY <4>1, Amounts
    <3>6. RefsFrom(Heap, o) = 0
      <4>1. ASSUME NEW p \in Heap, o \in FieldSet(p) PROVE FALSE
        <5>1. p \in Objects /\ p \in Led
          BY <2>1, <3>1, <4>1 DEF Heap
        <5>2. PICK x \in Roots : p \in Reach[x]
          BY <1>6, <5>1
        <5>3. o \in Reach[x]
          BY <1>4, <4>1, <5>2, ReachClosed
        <5> QED
          BY <1>6, <3>2, <5>3
      <4>2. Heap \in SUBSET Objects
        BY DEF Heap
      <4> QED
        BY <3>2, <4>1, <4>2, RefsType
    <3>7. Net(todo[home[o]], o) = 0
      <4>1. home[o] \in Threads
        BY <1>2, <3>2 DEF Accounts, Homes
      <4> QED
        BY <1>3, <4>1, NetEmpty
    <3>8. rc[o] = Net(todo[home[o]], o) + Wrappings(o) + Holdings(o) + RefsFrom(Heap, o)
      BY <1>2, <3>2 DEF Accounts, Even
    <3> QED
      BY <3>2, <3>4, <3>5, <3>6, <3>7, <3>8 DEF Live
  <2> QED
    BY <2>1, <2>2
<1> QED
  BY <1>7, <1>8

-----------------------------------------------------------------------------
(* With no wrapper used by two threads (Rust, or Python with one thread),  *)
(* every reachable state of every instance has the properties that         *)
(* HandlesConfined checks of one.                                          *)

LEMMA HandlesInvariant ==
    ASSUME Confined
    PROVE  Spec => []HandlesInv
<1>1. Init => HandlesInv
  BY HandlesBegin
<1>2. HandlesInv /\ [Next]_vars => HandlesInv'
  BY HandlesStays
<1> QED
  BY <1>1, <1>2, PTL DEF Spec

\* Every variable keeps its type.
THEOREM HandlesTyped ==
    ASSUME Confined
    PROVE  Spec => []TypeOK
<1>1. HandlesInv => TypeOK
  BY TypesImply
<1> QED
  BY <1>1, HandlesInvariant, PTL

\* The count in an object's header is the number of references there are to it:
\* no interleaving of the halves of the counts' updates loses one.
THEOREM CountsRight ==
    ASSUME Confined
    PROVE  Spec => []Counted
<1>1. HandlesInv => Counted
  BY CountedImplied
<1> QED
  BY <1>1, HandlesInvariant, PTL

\* A child handle holds its own reference: the object of a wrapper is in memory
\* whatever becomes of the handle it came from.  This is what two threads that
\* use one wrapper can break.
THEOREM HandlesLast ==
    ASSUME Confined
    PROVE  Spec => []HandlesAlive
<1>1. HandlesInv => HandlesAlive
  <2> SUFFICES ASSUME HandlesInv, NEW w \in Wrappers, wrapper[w] # Nothing
               PROVE  Live(wrapper[w])
    BY DEF HandlesAlive
  <2>1. Books /\ \E home : Accounts(home)
    BY DEF HandlesInv
  <2>2. wrapper[w] \in Objects
    BY <2>1 DEF Books, Types
  <2> QED
    BY <2>1, <2>2, Referred
<1> QED
  BY <1>1, HandlesInvariant, PTL

\* No call touches a freed object, and no thread's last string is freed before
\* the thread is given another.
THEOREM NoFreedObject ==
    ASSUME Confined
    PROVE  Spec => []NoUseAfterFree
<1>1. HandlesInv => NoUseAfterFree
  BY NoUseImplied
<1> QED
  BY <1>1, HandlesInvariant, PTL

\* A string borrowed from a Rust value is in memory as long as the borrow lasts.
THEOREM BorrowsLast ==
    ASSUME Confined
    PROVE  Spec => []BorrowsAlive
<1>1. HandlesInv => BorrowsAlive
  BY BorrowsImplied
<1> QED
  BY <1>1, HandlesInvariant, PTL

\* When no call is running, what is in memory is what the wrappers and the
\* string holders lead to.
THEOREM NoLeak ==
    ASSUME Confined
    PROVE  Spec => []NothingLeaks
<1>1. HandlesInv => NothingLeaks
  BY NothingLeaksImplied
<1> QED
  BY <1>1, HandlesInvariant, PTL

-----------------------------------------------------------------------------
(* The counting of references implements the interface's promise.          *)

LEMMA SameReach ==
    /\ \A o : Memory!FieldSet(o) = FieldSet(o)
    /\ (Objects \ Static) \cup Static = Objects
    /\ Memory!Reach = Reach
<1>1. \A o : Memory!FieldSet(o) = FieldSet(o)
  BY DEF Memory!FieldSet, FieldSet
<1>2. (Objects \ Static) \cup Static = Objects
  BY Distinct
<1> DEFINE P(h) == h = [o \in Objects |-> {o} \cup UNION {h[p] : p \in FieldSet(o)}]
<1>3. Memory!Reach = CHOOSE h : P(h)
  BY <1>1, <1>2 DEF Memory!Reach
<1>4. Reach = CHOOSE h : P(h)
  BY DEF Reach
<1> QED
  BY <1>1, <1>2, <1>3, <1>4

\* What a static object leads to is static.
LEMMA StaticReach ==
    ASSUME NEW o \in Static
    PROVE  Reach[o] \subseteq Static
<1> DEFINE S == {x \in Static : ~(Reach[x] \subseteq Static)}
<1>s. \A x : x \in S <=> x \in Static /\ ~(Reach[x] \subseteq Static)
  OBVIOUS
<1>1. S \in SUBSET Objects
  BY Distinct
<1> HIDE DEF S
<1>2. ASSUME S # {} PROVE FALSE
  <2>1. PICK x \in S : FieldSet(x) \cap S = {}
    BY <1>1, <1>2, AcyclicAssumption
  <2>2. x \in Static /\ x \in Objects
    BY <1>s, <2>1, Distinct
  <2>3. PICK y \in Reach[x] : y \notin Static
    BY <1>s, <2>1
  <2>4. PICK z \in FieldSet(x) : y \in Reach[z]
    BY <2>2, <2>3, ReachIs
  <2>5. z \in Static
    BY <2>2, <2>4, StaticAssumption
  <2> QED
    BY <1>s, <2>1, <2>3, <2>4, <2>5
<1> QED
  BY <1>2, <1>s

Lasts == [t \in Threads |-> Held(t)]

\* The interface's steps, of the objects and their counts.
Promised == Memory!Next \/ UNCHANGED Memory!vars

LEMMA StaysPromised ==
    ASSUME Heap' = Heap, UNCHANGED <<wrapper, lent>>, LastKept
    PROVE  Promised
<1>1. Lasts' = Lasts
  BY DEF Lasts, LastKept
<1> QED
  BY <1>1 DEF Promised, Memory!vars, Lasts

LEMMA GrownPromised ==
    ASSUME NEW r \in Objects, Grown(r)
    PROVE  Promised
<1>1. Lasts' = Lasts
  BY DEF Lasts, LastKept, Grown
<1>2. CASE Heap' = Heap
  BY <1>1, <1>2 DEF Grown, Promised, Memory!vars, Lasts
<1>3. CASE Heap' # Heap
  <2>1. r \notin Static
    BY <1>3, StaticReach DEF Grown
  <2>2. Memory!Allocate(r)
    BY <1>1, SameReach DEF Grown, Memory!Allocate, Lasts
  <2> QED
    BY <1>3, <2>1, <2>2 DEF Promised, Memory!Next
<1> QED
  BY <1>2, <1>3

\* No thread is given a string by a step that counts.
LEMMA HeldGoesOn ==
    ASSUME Types, NEW t \in Threads, todo[t] # <<>>, Head(todo[t]) \in Effects,
           NEW s \in Seq(Effects), todo'[t] = s, \A u \in Threads : u # t => todo'[u] = todo[u],
           Holds(s) <=> Holds(todo[t]), UNCHANGED tls
    PROVE  LastKept
<1>1. Held(t)' = Held(t)
  BY HeldIs, HeldNext
<1>2. ASSUME NEW u \in Threads, u # t PROVE Held(u)' = Held(u)
  BY <1>2 DEF Held, Replacing
<1> QED
  BY <1>1, <1>2 DEF LastKept

LEMMA CountingHeld ==
    ASSUME HandlesInv, NEW t \in Threads, Counts(t), Continue(t, Tail(todo[t])), UNCHANGED tls
    PROVE  LastKept
<1> DEFINE e == Head(todo[t])
           r == Tail(todo[t])
<1>1. Books /\ Types
  BY DEF HandlesInv, Books
<1>2. PICK home : Accounts(home)
  BY DEF HandlesInv
<1>3. todo[t] # <<>> /\ e.op \in {"inc", "dec"}
  BY DEF Counts, Doing, Idle
<1>4. /\ r \in Seq(Effects) /\ e \in Effects
      /\ Holds(todo[t]) <=> e.op = "hold" \/ Holds(r)
  BY <1>1, <1>2, <1>3, FirstOf
<1>5. Holds(r) <=> Holds(todo[t])
  BY <1>3, <1>4
<1>6. todo'[t] = r /\ \A u \in Threads : u # t => todo'[u] = todo[u]
  BY <1>1, <1>4, GoesOn
<1> QED
  BY <1>1, <1>3, <1>4, <1>5, <1>6, HeldGoesOn

LEMMA ReadCountPromised ==
    ASSUME NEW t \in Threads, ReadCount(t)
    PROVE  Promised
<1>1. UNCHANGED <<rc, tls, todo, wrapper, lent>>
  BY DEF ReadCount, caller
<1>2. Heap' = Heap /\ LastKept
  BY <1>1 DEF Heap, Live, LastKept, Held, Replacing
<1> QED
  BY <1>1, <1>2, StaysPromised

LEMMA CountStaticPromised ==
    ASSUME HandlesInv, NEW t \in Threads, CountStatic(t)
    PROVE  Promised
<1>1. UNCHANGED <<rc, tls, wrapper, lent>> /\ Counts(t) /\ Continue(t, Tail(todo[t]))
  BY DEF CountStatic, caller
<1>2. Heap' = Heap
  BY <1>1 DEF Heap, Live
<1>3. LastKept
  BY <1>1, CountingHeld
<1> QED
  BY <1>1, <1>2, <1>3, StaysPromised

LEMMA IncrementPromised ==
    ASSUME HandlesInv, NEW t \in Threads, Increment(t)
    PROVE  Promised
<1> DEFINE q == Head(todo[t]).obj
<1>1. /\ UNCHANGED <<tls, wrapper, lent>> /\ Counts(t) /\ Continue(t, Tail(todo[t]))
      /\ rc[q] > 0 /\ rc' = [rc EXCEPT ![q] = reg[t] + 1]
  BY DEF Increment, caller, Counts
<1>2. rc \in [Objects -> Nat] /\ reg[t] \in Nat
  BY DEF HandlesInv, Books, Types
<1> HIDE DEF q
<1>3. \A o \in Objects : rc'[o] = rc[o] \/ (rc'[o] > 0 /\ rc[o] > 0)
  BY <1>1, <1>2
<1>4. Heap' = Heap
  BY <1>3 DEF Heap, Live
<1>5. LastKept
  BY <1>1, CountingHeld
<1> QED
  BY <1>1, <1>4, <1>5, StaysPromised

\* Nothing leads to an object whose last reference is given up.
LEMMA LastUnreachable ==
    ASSUME Books, NEW home, Accounts(home), NEW q \in Heap,
           Wrappings(q) = 0, Holdings(q) = 0, RefsFrom(Heap, q) = 0
    PROVE  q \notin Memory!Reachable
<1>1. Types /\ Borrows
  BY DEF Books
<1>2. q \in Objects \ Static /\ Heap \in SUBSET Objects
  BY DEF Heap
<1>3. /\ \A w \in Wrappers : wrapper[w] # q
      /\ \A t \in Threads : Held(t) # q
      /\ \A p \in Heap : q \notin FieldSet(p)
  BY <1>2, Amounts, RefsType
<1>4. ASSUME NEW p \in Objects, Live(p) PROVE q \notin FieldSet(p)
  BY <1>2, <1>3, <1>4, StaticAssumption DEF Heap
<1> DEFINE Root(o) == /\ o \in Objects /\ Live(o) /\ o # q
<1>5. ASSUME NEW o, Root(o) PROVE q \notin Reach[o]
  <2>1. SUFFICES ASSUME q \in Reach[o] PROVE FALSE
    OBVIOUS
  <2>2. PICK p \in Reach[o] : q \in FieldSet(p)
    BY <1>5, <2>1, ReachClosed
  <2>3. p \in Objects /\ Live(p)
    BY <1>5, ReachLive
  <2> QED
    BY <1>4, <2>2, <2>3
<1>6. ASSUME NEW w \in Wrappers, wrapper[w] # Nothing PROVE Root(wrapper[w])
  <2>1. wrapper[w] \in Objects
    BY <1>1, <1>6 DEF Types
  <2> QED
    BY <1>3, <2>1, Referred
<1>7. ASSUME NEW t \in Threads, Held(t) # Nothing PROVE Root(Held(t))
  <2>1. Held(t) \in Objects
    BY <1>1, <1>7, Distinct DEF Held, Types
  <2> QED
    BY <1>3, <2>1, Referred
<1>8. ASSUME NEW b \in lent PROVE Root(b.text)
  <2>1. b.wrapper \in Wrappers /\ b.text \in Objects
    BY <1>1, Distinct DEF Types
  <2>2. Live(b.text)
    BY BorrowsImplied DEF HandlesInv, BorrowsAlive
  <2>3. wrapper[b.wrapper] # Nothing /\ b.text \in FieldSet(wrapper[b.wrapper]) \cup Static
    BY <1>1 DEF Borrows
  <2>4. Root(wrapper[b.wrapper])
    BY <1>6, <2>1, <2>3
  <2> QED
    BY <1>2, <1>4, <2>1, <2>2, <2>3, <2>4
<1> HIDE DEF Root
<1>9. \A o \in ({wrapper[w] : w \in Wrappers} \cup {Lasts[t] : t \in Threads}
                   \cup {b.text : b \in lent}) \ {Nothing} : Root(o)
  BY <1>6, <1>7, <1>8 DEF Lasts
<1> QED
  BY <1>5, <1>9, SameReach DEF Memory!Reachable, Lasts

LEMMA DecrementPromised ==
    ASSUME HandlesInv, NEW t \in Threads, Decrement(t), reg[t] # 1
    PROVE  Promised
<1> DEFINE q == Head(todo[t]).obj
           r == Tail(todo[t])
<1>1. /\ UNCHANGED <<tls, wrapper, lent>> /\ Counts(t) /\ Continue(t, <<>> \o r)
      /\ rc[q] > 0 /\ rc' = [rc EXCEPT ![q] = reg[t] - 1] /\ reg[t] > 0 /\ todo[t] # <<>>
  BY DEF Decrement, caller, Counts, Doing, Idle
<1>2. Books /\ Types /\ rc \in [Objects -> Nat] /\ reg[t] \in Nat
  BY DEF HandlesInv, Books, Types
<1>3. PICK home : Accounts(home)
  BY DEF HandlesInv
<1>4. r \in Seq(Effects)
  BY <1>1, <1>2, <1>3, FirstOf
<1>5. Continue(t, r)
  BY <1>1, <1>4
<1> HIDE DEF q
<1>6. \A o \in Objects : rc'[o] = rc[o] \/ (rc'[o] > 0 /\ rc[o] > 0)
  BY <1>1, <1>2
<1>7. Heap' = Heap
  BY <1>6 DEF Heap, Live
<1>8. LastKept
  BY <1>1, <1>5, CountingHeld
<1> QED
  BY <1>1, <1>7, <1>8, StaysPromised

LEMMA ReleasePromised ==
    ASSUME HandlesInv, NEW t \in Threads, Decrement(t), reg[t] = 1
    PROVE  Promised
<1> DEFINE e == Head(todo[t])
           r == Tail(todo[t])
           q == e.obj
           a == Released(q)
           s == a \o r
<1>1. Books /\ Types
  BY DEF HandlesInv, Books
<1>2. PICK home : Accounts(home)
  BY DEF HandlesInv
<1>3. /\ UNCHANGED <<tls, wrapper, lent>>
      /\ e.op = "dec" /\ todo[t] # <<>>
      /\ rc' = [rc EXCEPT ![q] = 0]
      /\ Continue(t, s)
  BY DEF Decrement, caller, Doing, Idle
<1>4. /\ r \in Seq(Effects) /\ q \in Objects /\ e \in Effects
      /\ Holds(todo[t]) <=> e.op = "hold" \/ Holds(r)
  BY <1>1, <1>2, <1>3, FirstOf
<1>5. q \in Heap /\ Wrappings(q) = 0 /\ Holdings(q) = 0 /\ RefsFrom(Heap, q) = 0
  BY <1>1, <1>2, LastReference
<1>6. /\ a \in Seq(Effects) /\ Len(a) = Len(Fields(q))
      /\ \A i \in 1..Len(Fields(q)) : a[i] = Dec(Fields(q)[i])
  BY <1>4, RefsOne
<1>7. ~Holds(a)
  <2>1. \A o : Dec(o).op = "dec"
    BY DEF Dec
  <2> QED
    BY <1>6, <2>1 DEF Holds
<1>8. rc \in [Objects -> Nat]
  BY <1>1 DEF Types
<1> HIDE DEF q, a
<1>9. Heap' = Heap \ {q}
  BY <1>3, <1>4, <1>8 DEF Heap, Live
<1> HIDE DEF r, e
<1>10. s \in Seq(Effects) /\ (Holds(s) <=> Holds(todo[t]))
  <2>1. s \in Seq(Effects)
    BY <1>4, <1>6, ConcatIs
  <2>2. Holds(s) <=> Holds(a) \/ Holds(r)
    BY <1>4, <1>6, HoldsConcat
  <2> QED
    BY <1>3, <1>4, <1>7, <2>1, <2>2
<1> HIDE DEF s
<1>11. todo'[t] = s /\ \A u \in Threads : u # t => todo'[u] = todo[u]
  BY <1>1, <1>3, <1>10, GoesOn
<1>12. LastKept
  BY <1>1, <1>3, <1>4, <1>10, <1>11, HeldGoesOn DEF e
<1>13. Lasts' = Lasts
  BY <1>12 DEF Lasts, LastKept
<1>14. q \notin Memory!Reachable
  BY <1>1, <1>2, <1>5, LastUnreachable
<1>15. Memory!Release(q)
  BY <1>3, <1>5, <1>9, <1>13, <1>14 DEF Memory!Release, Lasts
<1>16. q \in Objects \ Static /\ Heap' # Heap
  BY <1>5, <1>9 DEF Heap
<1> QED
  BY <1>15, <1>16 DEF Promised, Memory!Next

LEMMA MakeStringPromised ==
    ASSUME HandlesInv, NEW t \in Threads, MakeString(t)
    PROVE  Promised
<1> DEFINE e == Head(todo[t])
           r == Tail(todo[t])
           x == e.obj
           f == CHOOSE f \in Formatted : rc[f] = 0
           d == Dec(x)
           k == Capture(f, Nothing)
           b == <<k>> \o r
           s == <<d>> \o b
<1>1. Books /\ Types
  BY DEF HandlesInv, Books
<1>2. PICK home : Accounts(home)
  BY DEF HandlesInv
<1>f. f \in Formatted /\ rc[f] = 0
  <2>1. \E g \in Formatted : rc[g] = 0
    BY DEF MakeString
  <2> QED
    BY <2>1
<1>g. f \in Strings /\ f \in Objects \ Static /\ ~Live(f) /\ FieldSet(f) = {}
  <2>1. f \in Strings /\ f \in Objects \ Static /\ ~Live(f)
    BY <1>f, Distinct DEF Formatted, Live
  <2>2. Fields(f) = <<>>
    BY <2>1, ObjectsAssumption
  <2>3. DOMAIN Fields(f) = {}
    BY <2>2
  <2> QED
    BY <2>1, <2>3 DEF FieldSet
<1>3. /\ UNCHANGED <<wrapper, tls, lent>>
      /\ e.op = "format" /\ todo[t] # <<>>
      /\ rc' = [rc EXCEPT ![f] = 1]
      /\ Continue(t, <<d, k>> \o r)
  BY DEF MakeString, caller, Doing, Idle
<1> HIDE DEF f
<1>4. /\ r \in Seq(Effects) /\ e \in Effects /\ x \in Objects
      /\ Holds(todo[t]) <=> e.op = "hold" \/ Holds(r)
  BY <1>1, <1>2, <1>3, FirstOf
<1>5. e \in Texts
  BY <1>3, <1>4 DEF Texts
<1>6. ~Holds(r) /\ Held(t) = tls[t]
  BY <1>1, <1>2, <1>3, <1>5, TextOnce
<1>7. d \in Effects /\ d.op = "dec" /\ k \in Effects /\ k.op = "capture"
  BY <1>4, <1>g, EffectTypes, IncDec
<1>c. Continue(t, s)
  <2> DEFINE p == <<d>>
             q == <<k>>
  <2>1. p \o q = <<d, k>> /\ p \in Seq(Effects) /\ q \in Seq(Effects)
    BY <1>7, Pair
  <2> HIDE DEF p, q
  <2>2. (p \o q) \o r = p \o (q \o r)
    BY <1>4, <2>1, ConcatAssoc
  <2> QED
    BY <1>3, <2>1, <2>2 DEF p, q
<1> HIDE DEF d, k, e, r, x
<1>8. b \in Seq(Effects) /\ ~Holds(b)
  BY <1>4, <1>6, <1>7, ConsIs DEF r
<1> HIDE DEF b
<1>9. s \in Seq(Effects) /\ ~Holds(s)
  BY <1>7, <1>8, ConsIs
<1> HIDE DEF s
<1>10. todo'[t] = s /\ \A u \in Threads : u # t => todo'[u] = todo[u]
  BY <1>1, <1>c, <1>9, GoesOn
<1>11. LastKept
  <2>1. Holds(s) <=> Holds(todo[t])
    BY <1>3, <1>4, <1>6, <1>9 DEF r
  <2> QED
    BY <1>1, <1>3, <1>4, <1>9, <1>10, <2>1, HeldGoesOn DEF e
<1>12. rc \in [Objects -> Nat]
  BY <1>1 DEF Types
<1>13. Heap' = Heap \cup {f} /\ f \notin Heap
  BY <1>3, <1>g, <1>12 DEF Heap, Live
<1>14. Reach[f] = {f}
  BY <1>g, ReachIs
<1>15. Grown(f)
  BY <1>3, <1>g, <1>11, <1>13, <1>14 DEF Grown
<1> QED
  BY <1>15, <1>g, GrownPromised

LEMMA CaptureStringPromised ==
    ASSUME HandlesInv, NEW t \in Threads, CaptureString(t)
    PROVE  Promised
<1> DEFINE e == Head(todo[t])
           r == Tail(todo[t])
           x == e.obj
           w == e.to
           h == Hold(x, w)
           y == tls[t]
           d == Dec(y)
           b == <<h>> \o r
           c == <<d>> \o b
           s == IF y = Nothing THEN b ELSE c
<1>1. Books /\ Types
  BY DEF HandlesInv, Books
<1>2. PICK home : Accounts(home)
  BY DEF HandlesInv
<1>3. /\ UNCHANGED <<rc, wrapper, tls, lent>>
      /\ e.op = "capture" /\ todo[t] # <<>>
      /\ Continue(t, Captured(t, x, w) \o r)
  BY DEF CaptureString, caller, Doing, Idle
<1>4. r \in Seq(Effects) /\ e \in Effects /\ x \in Objects
  BY <1>1, <1>2, <1>3, FirstOf
<1>5. w \in Wrappers \cup {Nothing}
  BY <1>4 DEF Effects
<1>6. h \in Effects /\ h.op = "hold"
  BY <1>4, <1>5, EffectTypes
<1>7. y # Nothing => d \in Effects
  <2>1. y \in Strings \cup {Nothing}
    BY <1>1 DEF Types
  <2> QED
    BY <2>1, IncDec, Distinct
<1>8. Continue(t, s)
  <2> DEFINE p == <<d>>
             q == <<h>>
  <2>1. Captured(t, x, w) = IF y = Nothing THEN <<>> \o q ELSE p \o q
    BY DEF Captured
  <2>2. q \in Seq(Effects)
    BY <1>6
  <2>3. y # Nothing => p \in Seq(Effects)
    BY <1>7
  <2> HIDE DEF p, q
  <2>4. <<>> \o q = q
    BY <2>2, ConcatEmpty
  <2>5. ASSUME y # Nothing PROVE (p \o q) \o r = p \o (q \o r)
    <3>1. p \in Seq(Effects) /\ q \in Seq(Effects) /\ r \in Seq(Effects)
      BY <1>4, <2>2, <2>3, <2>5
    <3> HIDE DEF y, r
    <3> QED
      BY <3>1, ConcatAssoc
  <2>6. Captured(t, x, w) \o r = IF y = Nothing THEN q \o r ELSE p \o (q \o r)
    BY <2>1, <2>4, <2>5
  <2> QED
    BY <1>3, <2>6 DEF p, q
<1> HIDE DEF e, r, x, w, h, y, d
<1>9. b \in Seq(Effects) /\ Holds(b)
  BY <1>4, <1>6, ConsIs
<1> HIDE DEF b
<1>10. y # Nothing => c \in Seq(Effects) /\ Holds(c)
  BY <1>7, <1>9, ConsIs
<1> HIDE DEF c
<1>11. s \in Seq(Effects) /\ Holds(s)
  BY <1>9, <1>10
<1> HIDE DEF s
<1>12. todo'[t] = s /\ \A u \in Threads : u # t => todo'[u] = todo[u]
  BY <1>1, <1>8, <1>11, GoesOn
<1>13. Held(t)' = Nothing
  BY <1>1, <1>11, <1>12, HeldNext
<1>14. \A u \in Threads : u # t => Held(u)' = Held(u)
  BY <1>3, <1>12 DEF Held, Replacing
<1>15. Lasts' = [Lasts EXCEPT ![t] = Nothing]
  BY <1>13, <1>14 DEF Lasts
<1>16. Heap' = Heap
  BY <1>3 DEF Heap, Live
<1>17. Memory!GiveUp(t)
  BY <1>3, <1>15, <1>16 DEF Memory!GiveUp, Lasts
<1>18. CASE Lasts' = Lasts
  BY <1>3, <1>16, <1>18 DEF Promised, Memory!vars, Lasts
<1>19. CASE Lasts' # Lasts
  BY <1>17, <1>19 DEF Promised, Memory!Next, Lasts
<1> QED
  BY <1>18, <1>19

LEMMA HoldStringPromised ==
    ASSUME HandlesInv, NEW t \in Threads, HoldString(t)
    PROVE  Promised
<1> DEFINE e == Head(todo[t])
           r == Tail(todo[t])
           x == e.obj
           w == e.to
<1>1. Books /\ Types
  BY DEF HandlesInv, Books
<1>2. PICK home : Accounts(home)
  BY DEF HandlesInv
<1>3. /\ UNCHANGED <<rc, wrapper>>
      /\ e.op = "hold" /\ todo[t] # <<>>
      /\ tls' = [tls EXCEPT ![t] = x]
      /\ lent' = IF w = Nothing THEN lent ELSE lent \cup {[wrapper |-> w, text |-> x]}
      /\ Continue(t, r)
  BY DEF HoldString, Doing, Idle
<1>4. /\ r \in Seq(Effects) /\ e \in Effects /\ x \in Objects /\ Live(x)
      /\ Fits(e, using[t])
  BY <1>1, <1>2, <1>3, FirstOf
<1>5. Head(todo[t]) \in Texts
  BY <1>3, <1>4 DEF Texts
<1>6. ~Holds(r) /\ Held(t) = Nothing
  BY <1>1, <1>2, <1>3, <1>5, TextOnce
<1>7. w \in Wrappers \cup {Nothing}
  BY <1>4 DEF Effects
<1> HIDE DEF e, r, x, w
<1>8. x \in Strings /\ (w # Nothing => w = using[t] /\ x \in FieldSet(wrapper[w]) \cup Static)
  BY <1>3, <1>4 DEF Fits, x, w
<1>9. todo'[t] = r /\ \A u \in Threads : u # t => todo'[u] = todo[u]
  BY <1>1, <1>3, <1>4, GoesOn
<1>10. tls'[t] = x /\ \A u \in Threads : u # t => tls'[u] = tls[u]
  BY <1>1, <1>3 DEF Types
<1>11. Held(t)' = x
  BY <1>1, <1>4, <1>6, <1>9, <1>10, HeldNext
<1>12. \A u \in Threads : u # t => Held(u)' = Held(u)
  BY <1>9, <1>10 DEF Held, Replacing
<1>13. Lasts[t] = Nothing /\ Lasts' = [Lasts EXCEPT ![t] = x]
  BY <1>6, <1>11, <1>12 DEF Lasts
<1>14. Heap' = Heap /\ x \in Heap \cup Static
  BY <1>3, <1>4 DEF Heap, Live
<1>15. \/ UNCHANGED lent
       \/ \E v \in Wrappers :
             /\ wrapper[v] # Nothing /\ x \in FieldSet(wrapper[v]) \cup Static
             /\ lent' = lent \cup {[wrapper |-> v, text |-> x]}
  <2>1. CASE w = Nothing
    BY <1>3, <2>1
  <2>2. CASE w # Nothing
    <3>1. w \in Wrappers /\ wrapper[w] # Nothing
      BY <1>1, <1>7, <1>8, <2>2 DEF Books, Serving
    <3>2. lent' = lent \cup {[wrapper |-> w, text |-> x]}
      BY <1>3, <2>2
    <3> QED
      BY <1>8, <2>2, <3>1, <3>2
  <2> QED
    BY <2>1, <2>2
<1>16. Memory!Give(t, x)
  BY <1>3, <1>13, <1>14, <1>15, SameReach DEF Memory!Give, Lasts
<1>17. Lasts' # Lasts /\ x \in (Objects \ Static) \cup Static
  BY <1>4, <1>6, <1>11, Distinct DEF Lasts
<1> QED
  BY <1>16, <1>17 DEF Promised, Memory!Next, Lasts

LEMMA WrapHandlePromised ==
    ASSUME HandlesInv, NEW t \in Threads, WrapHandle(t)
    PROVE  Promised
<1> DEFINE e == Head(todo[t])
           r == Tail(todo[t])
           x == e.obj
           w == e.to
<1>1. Books /\ Types /\ Wrapping
  BY DEF HandlesInv, Books
<1>2. PICK home : Accounts(home)
  BY DEF HandlesInv
<1>3. /\ UNCHANGED <<rc, lent, tls>>
      /\ e.op = "wrap" /\ todo[t] # <<>>
      /\ wrapper' = [wrapper EXCEPT ![w] = x]
      /\ Continue(t, r)
  BY DEF WrapHandle, Doing, Idle
<1>4. /\ r \in Seq(Effects) /\ e \in Effects /\ x \in Objects /\ Live(x)
      /\ Fits(e, using[t])
      /\ \A X : /\ Count(todo[t], X) = Count(r, X) + IF e \in X THEN 1 ELSE 0
                /\ Count(r, X) \in Nat
      /\ Holds(todo[t]) <=> e.op = "hold" \/ Holds(r)
  BY <1>1, <1>2, <1>3, FirstOf
<1>5. w \in Wrappers
  BY <1>3, <1>4 DEF Effects, Fits
<1>6. e \in WrapsTo(w)
  BY <1>3, <1>4 DEF WrapsTo
<1> HIDE DEF e, r, x, w
<1>7. Count(todo[t], WrapsTo(w)) # 0
  BY <1>4, <1>6
<1>8. wrapper[w] = Nothing
  BY <1>1, <1>5, <1>7 DEF Wrapping
<1>9. todo'[t] = r /\ \A u \in Threads : u # t => todo'[u] = todo[u]
  BY <1>1, <1>3, <1>4, GoesOn
<1>10. LastKept
  <2>1. Holds(r) <=> Holds(todo[t])
    BY <1>3, <1>4
  <2> QED
    BY <1>1, <1>3, <1>4, <1>9, <2>1, HeldGoesOn DEF e
<1>11. Lasts' = Lasts
  BY <1>10 DEF Lasts, LastKept
<1>12. Heap' = Heap /\ x \in Heap \cup Static
  BY <1>3, <1>4 DEF Heap, Live
<1>13. Memory!Wrap(w, x)
  BY <1>3, <1>8, <1>11, <1>12 DEF Memory!Wrap, Lasts
<1>14. wrapper' # wrapper
  BY <1>1, <1>3, <1>4, <1>5, <1>8, Distinct DEF Types
<1>15. x \in (Objects \ Static) \cup Static
  BY <1>4
<1> QED
  BY <1>5, <1>13, <1>14, <1>15 DEF Promised, Memory!Next

LEMMA FreePromised ==
    ASSUME HandlesInv, NEW t \in Threads, NEW w \in Wrappers, MayUse(t, w), Free(t, w), LastKept
    PROVE  Promised
<1>1. /\ UNCHANGED <<rc, lent>> /\ \A b \in lent : b.wrapper # w
      /\ wrapper' = [wrapper EXCEPT ![w] = Nothing]
  BY DEF Free
<1>2. wrapper[w] # Nothing /\ wrapper \in [Wrappers -> Objects \cup {Nothing}]
  BY DEF MayUse, HandlesInv, Books, Types
<1>3. Lasts' = Lasts
  BY DEF Lasts, LastKept
<1>4. Heap' = Heap
  BY <1>1 DEF Heap, Live
<1>5. Memory!Unwrap(w)
  BY <1>1, <1>2, <1>3, <1>4 DEF Memory!Unwrap, Lasts
<1>6. wrapper' # wrapper
  BY <1>1, <1>2
<1> QED
  BY <1>5, <1>6 DEF Promised, Memory!Next

LEMMA EndBorrowPromised ==
    ASSUME NEW t \in Threads, NEW b \in lent, EndBorrow(t, b)
    PROVE  Promised
<1>1. lent' = lent \ {b} /\ UNCHANGED <<rc, wrapper, tls, todo>>
  BY DEF EndBorrow
<1>2. Heap' = Heap /\ Lasts' = Lasts
  BY <1>1 DEF Heap, Live, Lasts, Held, Replacing
<1>3. Memory!Return(b)
  BY <1>1, <1>2 DEF Memory!Return, Lasts
<1> QED
  BY <1>3 DEF Promised, Memory!Next

LEMMA CallPromised ==
    ASSUME NEW t \in Threads, NEW w, NEW p, Call(t, w, p), LastKept
    PROVE  Promised
<1>1. UNCHANGED <<rc, wrapper, lent>>
  BY DEF Call
<1>2. Heap' = Heap
  BY <1>1 DEF Heap, Live
<1> QED
  BY <1>1, <1>2, StaysPromised

LEMMA StepsPromised ==
    ASSUME Confined, HandlesInv, [Next]_vars
    PROVE  Promised
<1>1. CASE UNCHANGED vars
  <2>1. UNCHANGED <<rc, wrapper, lent, tls, todo>>
    BY <1>1 DEF vars
  <2>2. Heap' = Heap /\ LastKept
    BY <2>1 DEF Heap, Live, LastKept, Held, Replacing
  <2> QED
    BY <2>1, <2>2, StaysPromised
<1>2. ASSUME NEW t \in Threads, Loads(t) PROVE Promised
  <2>1. PICK r \in Results :
           \/ LoadFails(t, r)
           \/ \E v \in FieldSet(r), n \in Wrappers : Load(t, r, v, n)
           \/ \E a \in FieldSet(r) : \E ns \in [DOMAIN Fields(a) -> Wrappers] :
                 LoadAll(t, r, a, ns)
    BY <1>2 DEF Loads
  <2>2. Idle(t) /\ r \in Objects
    BY <1>2 DEF Loads, Objects
  <2>3. CASE LoadFails(t, r)
    BY <2>2, <2>3, LoadFailsKeeps, GrownPromised
  <2>4. ASSUME NEW v \in FieldSet(r), NEW n \in Wrappers, Load(t, r, v, n) PROVE Promised
    BY <2>2, <2>4, LoadKeeps, GrownPromised
  <2>5. ASSUME NEW a \in FieldSet(r), NEW ns \in [DOMAIN Fields(a) -> Wrappers],
               LoadAll(t, r, a, ns)
        PROVE  Promised
    BY <2>2, <2>5, LoadAllKeeps, GrownPromised
  <2> QED
    BY <2>1, <2>3, <2>4, <2>5
<1>3. ASSUME NEW t \in Threads, Uses(t) PROVE Promised
  <2>1. Idle(t)
    BY <1>3 DEF Uses
  <2>2. CASE \E b \in lent : EndBorrow(t, b)
    BY <2>2, EndBorrowPromised
  <2>3. ASSUME NEW w \in Wrappers, MayUse(t, w),
               \/ InspectValue(t, w)
               \/ Dump(t, w)
               \/ Free(t, w)
               \/ \E s \in Strings : GetText(t, w, s) \/ GetAttribute(t, w, s)
               \/ \E n \in Wrappers : Unused(n) /\
                     \E o \in Nodes : GetChild(t, w, o, n) \/ Lookup(t, w, o, n)
        PROVE  Promised
    <3>1. CASE InspectValue(t, w)
      <4>1. LastKept
        BY <2>1, <2>3, <3>1, InspectKeeps
      <4> QED
        BY <3>1, <4>1, CallPromised DEF InspectValue
    <3>2. CASE Dump(t, w)
      <4>1. LastKept
        BY <2>1, <2>3, <3>2, DumpKeeps
      <4> QED
        BY <3>2, <4>1, CallPromised DEF Dump
    <3>3. CASE Free(t, w)
      <4>1. LastKept
        BY <2>1, <2>3, <3>3, FreeKeeps
      <4> QED
        BY <2>3, <3>3, <4>1, FreePromised
    <3>4. ASSUME NEW s \in Strings, GetText(t, w, s) PROVE Promised
      <4>1. LastKept
        BY <2>1, <2>3, <3>4, GetTextKeeps
      <4> QED
        BY <3>4, <4>1, CallPromised DEF GetText
    <3>5. ASSUME NEW s \in Strings, GetAttribute(t, w, s) PROVE Promised
      <4>1. LastKept
        BY <2>1, <2>3, <3>5, GetAttributeKeeps
      <4> QED
        BY <3>5, <4>1, CallPromised DEF GetAttribute
    <3>6. ASSUME NEW n \in Wrappers, Unused(n), NEW o \in Nodes, GetChild(t, w, o, n)
          PROVE  Promised
      <4>1. LastKept
        BY <2>1, <2>3, <3>6, GetChildKeeps
      <4> QED
        BY <3>6, <4>1, CallPromised DEF GetChild
    <3>7. ASSUME NEW n \in Wrappers, Unused(n), NEW o \in Nodes, Lookup(t, w, o, n)
          PROVE  Promised
      <4>1. LastKept
        BY <2>1, <2>3, <3>7, LookupKeeps
      <4> QED
        BY <3>7, <4>1, CallPromised DEF Lookup
    <3> QED
      BY <2>3, <3>1, <3>2, <3>3, <3>4, <3>5, <3>6, <3>7
  <2> QED
    BY <1>3, <2>2, <2>3 DEF Uses
<1>4. ASSUME NEW t \in Threads, Step(t) PROVE Promised
  <2>1. CASE ReadCount(t)
    BY <2>1, ReadCountPromised
  <2>2. CASE CountStatic(t)
    BY <2>2, CountStaticPromised
  <2>3. CASE Increment(t)
    BY <2>3, IncrementPromised
  <2>4. CASE Decrement(t)
    BY <2>4, DecrementPromised, ReleasePromised
  <2>5. CASE MakeString(t)
    BY <2>5, MakeStringPromised
  <2>6. CASE CaptureString(t)
    BY <2>6, CaptureStringPromised
  <2>7. CASE HoldString(t)
    BY <2>7, HoldStringPromised
  <2>8. CASE WrapHandle(t)
    BY <2>8, WrapHandlePromised
  <2> QED
    BY <1>4, <2>1, <2>2, <2>3, <2>4, <2>5, <2>6, <2>7, <2>8 DEF Step
<1> QED
  BY <1>1, <1>2, <1>3, <1>4 DEF Next

\* Counting references does what the interface promises: an object is released
\* only when no handle, last string or borrow leads to it.
THEOREM PromiseKept ==
    ASSUME Confined
    PROVE  Spec => KeepsPromise
<1>1. Init => Memory!Init
  <2> SUFFICES ASSUME Init PROVE Memory!Init
    OBVIOUS
  <2>1. Heap = {}
    BY Distinct DEF Init, Heap, Live
  <2>2. \A t \in Threads : Held(t) = Nothing
    BY DEF Init, Held
  <2> QED
    BY <2>1, <2>2 DEF Init, Memory!Init
<1>2. HandlesInv /\ [Next]_vars => [Memory!Next]_(Memory!vars)
  BY StepsPromised DEF Promised
<1> QED
  BY <1>1, <1>2, HandlesInvariant, PTL DEF Spec, KeepsPromise, Memory!Spec

=============================================================================
