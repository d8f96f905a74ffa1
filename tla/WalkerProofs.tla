---------------------------- MODULE WalkerProofs ----------------------------
(***************************************************************************)
(* Type correctness of the tree walker, and the safety properties that     *)
(* follow from the same invariant: the stack of scopes and the stack of    *)
(* calls are in step with the walk, and breaking cycles never cuts a chain *)
(* of a scope that is still on the stack.  Then, with an invariant of its  *)
(* own, that arrays and objects are never shared, nor inside of            *)
(* themselves.                                                             *)
(***************************************************************************)
EXTENDS WalkerProperties, HeapProofs, SequenceTheorems, TLAPS

-----------------------------------------------------------------------------
(* What entries stand for.  Gathered is a recursive function over the      *)
(* places of the entries.                                                  *)

Joined(s, t) == s \o t

GatheredUpTo(f, entries, of, n) ==
  f = [i \in 0..n |-> IF i = 0 THEN <<>> ELSE Joined(f[i - 1], of[entries[i]])]

LEMMA GatherExists ==
  ASSUME NEW entries, NEW of, NEW n \in Nat
  PROVE  \E f : GatheredUpTo(f, entries, of, n)
<1> DEFINE T == {m \in Nat : \E f : GatheredUpTo(f, entries, of, m)}
<1>1. 0 \in T
  <2>1. GatheredUpTo([i \in 0..0 |-> <<>>], entries, of, 0)
    BY DEF GatheredUpTo
  <2> QED
    BY <2>1
<1>2. ASSUME NEW m \in T PROVE m + 1 \in T
  <2>1. PICK f : GatheredUpTo(f, entries, of, m)
    OBVIOUS
  <2> DEFINE last == Joined(f[m], of[entries[m + 1]])
             g == [i \in 0..(m + 1) |-> IF i = m + 1 THEN last ELSE f[i]]
  <2>2. ASSUME NEW i \in 0..(m + 1)
        PROVE  g[i] = IF i = 0 THEN <<>> ELSE Joined(g[i - 1], of[entries[i]])
    <3>1. CASE i = m + 1
      <4>1. i # 0 /\ g[i - 1] = f[m] /\ g[i] = last /\ entries[i] = entries[m + 1]
        BY <3>1
      <4> HIDE DEF g
      <4> QED
        BY <4>1, Zenon
    <3>2. CASE i \in 0..m
      <4>1. g[i] = f[i] /\ (i # 0 => g[i - 1] = f[i - 1])
        BY <3>2
      <4>2. f[i] = IF i = 0 THEN <<>> ELSE Joined(f[i - 1], of[entries[i]])
        BY <2>1, <3>2 DEF GatheredUpTo
      <4> QED
        BY <4>1, <4>2
    <3> QED
      BY <3>1, <3>2
  <2>3. GatheredUpTo(g, entries, of, m + 1)
    <3> HIDE DEF last
    <3>1. g = [i \in 0..(m + 1) |-> g[i]]
      OBVIOUS
    <3> HIDE DEF g
    <3> QED
      BY <2>2, <3>1, Zenon DEF GatheredUpTo
  <2> QED
    BY <2>3
<1> HIDE DEF T
<1>3. T = Nat
  BY <1>1, <1>2, EveryNatural DEF T
<1> QED
  BY <1>3 DEF T

LEMMA GatheredByGather ==
  ASSUME NEW entries, NEW of, Len(entries) \in Nat
  PROVE  \E f : /\ GatheredUpTo(f, entries, of, Len(entries))
                /\ Gathered(entries, of) = f[Len(entries)]
<1> DEFINE f == CHOOSE f : GatheredUpTo(f, entries, of, Len(entries))
<1>1. GatheredUpTo(f, entries, of, Len(entries))
  BY GatherExists
<1>2. Gathered(entries, of) = f[Len(entries)]
  BY DEF Gathered, GatheredUpTo, Joined
<1> QED
  BY <1>1, <1>2

LEMMA GatherStep ==
  ASSUME NEW f, NEW entries, NEW of, NEW n \in Nat, GatheredUpTo(f, entries, of, n)
  PROVE  /\ f[0] = <<>>
         /\ \A k \in Nat : k + 1 <= n => f[k + 1] = Joined(f[k], of[entries[k + 1]])
<1> DEFINE Body(i) == IF i = 0 THEN <<>> ELSE Joined(f[i - 1], of[entries[i]])
<1>1. \A i \in 0..n : f[i] = Body(i)
  BY DEF GatheredUpTo
<1>2. f[0] = Body(0)
  BY <1>1
<1>3. ASSUME NEW k \in Nat, k + 1 <= n
      PROVE  f[k + 1] = Body(k + 1) /\ (k + 1) - 1 = k /\ k + 1 # 0
  <2> HIDE DEF Body
  <2>1. k + 1 \in 0..n
    BY <1>3
  <2> QED
    BY <1>1, <2>1
<1> QED
  BY <1>2, <1>3

LEMMA GatherUnique ==
  ASSUME NEW f, NEW g, NEW s, NEW t, NEW of, NEW m \in Nat, NEW n \in Nat, m <= n,
         GatheredUpTo(f, s, of, m), GatheredUpTo(g, t, of, n),
         \A i \in 1..m : s[i] = t[i]
  PROVE  f[m] = g[m]
<1> DEFINE T == {k \in Nat : k <= m => f[k] = g[k]}
<1>1. 0 \in T
  <2>1. f[0] = <<>> /\ g[0] = <<>>
    BY GatherStep
  <2> QED
    BY <2>1
<1>2. ASSUME NEW k \in T PROVE k + 1 \in T
  <2> SUFFICES ASSUME k + 1 <= m PROVE f[k + 1] = g[k + 1]
    OBVIOUS
  <2>1. f[k] = g[k] /\ s[k + 1] = t[k + 1]
    OBVIOUS
  <2>2. f[k + 1] = Joined(f[k], of[s[k + 1]])
    BY GatherStep
  <2>3. g[k + 1] = Joined(g[k], of[t[k + 1]])
    BY GatherStep, k + 1 <= n
  <2> QED
    BY <2>1, <2>2, <2>3
<1> HIDE DEF T
<1>3. T = Nat
  BY <1>1, <1>2, EveryNatural DEF T
<1> QED
  BY <1>3 DEF T

LEMMA GatheredNone == ASSUME NEW of PROVE Gathered(<<>>, of) = <<>>
<1>1. PICK f : GatheredUpTo(f, <<>>, of, 0) /\ Gathered(<<>>, of) = f[0]
  BY GatheredByGather
<1> QED
  BY <1>1 DEF GatheredUpTo

LEMMA GatheredAppend ==
  ASSUME NEW T, NEW e \in Seq(T), NEW x \in T, NEW of
  PROVE  Gathered(Append(e, x), of) = Gathered(e, of) \o of[x]
<1> DEFINE t == Append(e, x)
           n == Len(e)
<1>1. /\ n \in Nat /\ Len(t) = n + 1 /\ t[n + 1] = x
      /\ \A i \in 1..n : e[i] = t[i]
  OBVIOUS
<1> HIDE DEF t
<1>2. PICK f : GatheredUpTo(f, e, of, n) /\ Gathered(e, of) = f[n]
  BY GatheredByGather, <1>1
<1>3. PICK g : GatheredUpTo(g, t, of, n + 1) /\ Gathered(t, of) = g[n + 1]
  BY GatheredByGather, <1>1
<1> HIDE DEF n
<1>4. f[n] = g[n]
  BY <1>1, <1>2, <1>3, GatherUnique, n <= n + 1, n + 1 \in Nat
<1>5. g[n + 1] = Joined(g[n], of[t[n + 1]])
  <2>1. n + 1 \in Nat /\ n + 1 <= n + 1
    BY <1>1
  <2> QED
    BY <1>1, <1>3, <2>1, GatherStep
<1> QED
  BY <1>1, <1>2, <1>3, <1>4, <1>5 DEF t, n, Joined

(* Every sequence is empty or ends in an element.                          *)
LEMMA EndsInElement ==
  ASSUME NEW T, NEW e \in Seq(T), e # <<>>
  PROVE  /\ Front(e) \in Seq(T) /\ Last(e) \in T
         /\ e = Append(Front(e), Last(e))
         /\ Len(Front(e)) = Len(e) - 1 /\ Len(e) \in Nat \ {0}
         /\ \A i \in 1..(Len(e) - 1) : Front(e)[i] = e[i]
<1> DEFINE n == Len(e) - 1
<1>1. n \in Nat /\ Len(e) = n + 1 /\ n <= Len(e)
  OBVIOUS
<1>2. Front(e) = SubSeq(e, 1, n) /\ Last(e) = e[n + 1]
  BY <1>1 DEF Front, Last
<1> HIDE DEF n
<1>3. /\ SubSeq(e, 1, n) \in Seq(T) /\ Len(SubSeq(e, 1, n)) = n
      /\ \A i \in 1..n : SubSeq(e, 1, n)[i] = e[i]
  BY <1>1
<1>4. e[n + 1] \in T
  BY <1>1
<1> DEFINE front == SubSeq(e, 1, n)
           t == Append(front, e[n + 1])
<1> HIDE DEF front
<1>5. t \in Seq(T) /\ Len(t) = n + 1 /\ t[n + 1] = e[n + 1] /\ \A i \in 1..n : t[i] = e[i]
  BY <1>1, <1>3, <1>4 DEF front
<1> HIDE DEF t
<1>6. e = t
  <2>1. \A i \in 1..Len(e) : e[i] = t[i]
    BY <1>1, <1>5
  <2> QED
    BY <1>1, <1>5, <2>1, SeqEqual
<1> QED
  BY <1>1, <1>2, <1>3, <1>4, <1>6 DEF t, front, n

(* Induction on the length of sequences over T, for a set of them.         *)
LEMMA AppendInduction ==
  ASSUME NEW T, NEW P, <<>> \in P,
         \A e \in Seq(T) : \A x \in T : e \in P => Append(e, x) \in P
  PROVE  Seq(T) \subseteq P
<1> DEFINE N == {n \in Nat : \A e \in Seq(T) : Len(e) = n => e \in P}
<1>1. 0 \in N
  BY EmptySeq
<1>2. ASSUME NEW n \in N PROVE n + 1 \in N
  <2> SUFFICES ASSUME NEW e \in Seq(T), Len(e) = n + 1 PROVE e \in P
    OBVIOUS
  <2>1. e # <<>>
    OBVIOUS
  <2>2. /\ Front(e) \in Seq(T) /\ Last(e) \in T
        /\ e = Append(Front(e), Last(e))
        /\ Len(Front(e)) = Len(e) - 1
    BY <2>1, EndsInElement
  <2>3. Len(Front(e)) = n
    BY <2>2
  <2>4. Front(e) \in P
    BY <2>2, <2>3
  <2> QED
    BY <2>2, <2>4
<1> HIDE DEF N
<1>3. N = Nat
  BY <1>1, <1>2, EveryNatural DEF N
<1>4. \A e \in Seq(T) : Len(e) \in Nat
  OBVIOUS
<1> QED
  BY <1>3, <1>4 DEF N

(* Nothing in front of or behind a sequence.                               *)
LEMMA ConcatNothing ==
  ASSUME NEW S, NEW s \in Seq(S) PROVE s \o <<>> = s /\ <<>> \o s = s
BY ConcatEmptySeq

LEMMA GatheredType ==
  ASSUME NEW T, NEW S, NEW of \in [T -> Seq(S)], NEW e \in Seq(T)
  PROVE  Gathered(e, of) \in Seq(S)
<1> DEFINE P == {d \in Seq(T) : Gathered(d, of) \in Seq(S)}
<1>1. <<>> \in P
  BY GatheredNone, EmptySeq
<1>2. ASSUME NEW d \in Seq(T), NEW x \in T, d \in P PROVE Append(d, x) \in P
  <2>1. Gathered(Append(d, x), of) = Gathered(d, of) \o of[x]
    BY GatheredAppend
  <2>2. Gathered(d, of) \in Seq(S) /\ of[x] \in Seq(S) /\ Append(d, x) \in Seq(T)
    BY <1>2
  <2>3. Gathered(d, of) \o of[x] \in Seq(S)
    BY <2>2
  <2> QED
    BY <2>1, <2>2, <2>3
<1> HIDE DEF P
<1> QED
  BY <1>1, <1>2, AppendInduction DEF P

LEMMA GatheredConcat ==
  ASSUME NEW T, NEW S, NEW of \in [T -> Seq(S)], NEW e \in Seq(T), NEW f \in Seq(T)
  PROVE  Gathered(e \o f, of) = Gathered(e, of) \o Gathered(f, of)
<1> DEFINE P == {d \in Seq(T) : Gathered(e \o d, of) = Gathered(e, of) \o Gathered(d, of)}
<1>1. <<>> \in P
  <2>1. e \o <<>> = e /\ Gathered(<<>>, of) = <<>> /\ <<>> \in Seq(T)
    BY ConcatNothing, GatheredNone, EmptySeq
  <2>2. Gathered(e, of) \o <<>> = Gathered(e, of)
    BY GatheredType, ConcatNothing
  <2> QED
    BY <2>1, <2>2, Zenon
<1>2. ASSUME NEW d \in Seq(T), NEW x \in T, d \in P PROVE Append(d, x) \in P
  <2>1. e \o Append(d, x) = Append(e \o d, x) /\ e \o d \in Seq(T)
    OBVIOUS
  <2>2. Gathered(Append(e \o d, x), of) = Gathered(e \o d, of) \o of[x]
    BY <2>1, GatheredAppend
  <2>3. Gathered(Append(d, x), of) = Gathered(d, of) \o of[x]
    BY GatheredAppend
  <2>4. Gathered(e, of) \in Seq(S) /\ Gathered(d, of) \in Seq(S) /\ of[x] \in Seq(S)
    BY GatheredType
  <2>5. Append(d, x) \in Seq(T)
    OBVIOUS
  <2>6. (Gathered(e, of) \o Gathered(d, of)) \o of[x] = Gathered(e, of) \o (Gathered(d, of) \o of[x])
    BY <2>4, ConcatAssociative
  <2>7. Gathered(e \o d, of) = Gathered(e, of) \o Gathered(d, of)
    BY <1>2
  <2> QED
    BY <2>1, <2>2, <2>3, <2>4, <2>6, <2>7, <2>5, Zenon
<1> HIDE DEF P
<1> QED
  BY <1>1, <1>2, AppendInduction DEF P

(* Gathering from what was gathered.                                       *)
Stands(of, T, S) == of \in [T -> Seq(S)]

LEMMA GatheredTwice ==
  ASSUME NEW T, NEW S, NEW of, Stands(of, T, S), NEW f, Stands(f, T, T),
         NEW g, Stands(g, T, S), \A x \in T : Gathered(f[x], of) = g[x],
         NEW e \in Seq(T)
  PROVE  Gathered(Gathered(e, f), of) = Gathered(e, g)
<1> DEFINE P == {d \in Seq(T) : Gathered(Gathered(d, f), of) = Gathered(d, g)}
<1>1. of \in [T -> Seq(S)] /\ f \in [T -> Seq(T)] /\ g \in [T -> Seq(S)]
  BY DEF Stands
<1>2. <<>> \in P
  <2>1. Gathered(<<>>, f) = <<>> /\ Gathered(<<>>, of) = <<>> /\ Gathered(<<>>, g) = <<>>
        /\ <<>> \in Seq(T)
    BY GatheredNone, EmptySeq
  <2> QED
    BY <2>1
<1>3. ASSUME NEW d \in Seq(T), NEW x \in T, d \in P PROVE Append(d, x) \in P
  <2>1. Gathered(Append(d, x), f) = Gathered(d, f) \o f[x]
    BY GatheredAppend
  <2>2. Gathered(Append(d, x), g) = Gathered(d, g) \o g[x]
    BY GatheredAppend
  <2>3. Gathered(d, f) \in Seq(T) /\ f[x] \in Seq(T)
    BY <1>1, GatheredType
  <2>4. Append(d, x) \in Seq(T)
    OBVIOUS
  <2>5. Gathered(Gathered(d, f) \o f[x], of) = Gathered(Gathered(d, f), of) \o Gathered(f[x], of)
    <3>1. \A e1, e2 \in Seq(T) : Gathered(e1 \o e2, of) = Gathered(e1, of) \o Gathered(e2, of)
      BY <1>1, GatheredConcat
    <3> QED
      BY <2>3, <3>1
  <2>6. Gathered(Gathered(d, f), of) = Gathered(d, g) /\ Gathered(f[x], of) = g[x]
    BY <1>3
  <2> QED
    BY <2>1, <2>2, <2>3, <2>5, <2>6, <2>4, Zenon
<1> HIDE DEF P
<1> QED
  BY <1>2, <1>3, AppendInduction DEF P

(* Two functions that agree on the entries.                                *)
LEMMA GatheredSame ==
  ASSUME NEW T, NEW f, NEW g, NEW e \in Seq(T), \A i \in 1..Len(e) : f[e[i]] = g[e[i]]
  PROVE  Gathered(e, f) = Gathered(e, g)
<1> DEFINE P == {d \in Seq(T) : (\A i \in 1..Len(d) : f[d[i]] = g[d[i]]) =>
                                   Gathered(d, f) = Gathered(d, g)}
<1>1. <<>> \in P
  BY GatheredNone, EmptySeq
<1>2. ASSUME NEW d \in Seq(T), NEW x \in T, d \in P PROVE Append(d, x) \in P
  <2> DEFINE t == Append(d, x)
  <2>1. /\ t \in Seq(T) /\ Len(t) = Len(d) + 1 /\ t[Len(d) + 1] = x /\ Len(d) \in Nat
        /\ \A i \in 1..Len(d) : t[i] = d[i]
    OBVIOUS
  <2>2. Gathered(t, f) = Gathered(d, f) \o f[x] /\ Gathered(t, g) = Gathered(d, g) \o g[x]
    BY GatheredAppend
  <2> HIDE DEF t
  <2>3. ASSUME \A i \in 1..Len(t) : f[t[i]] = g[t[i]] PROVE Gathered(t, f) = Gathered(t, g)
    <3>1. \A i \in 1..Len(d) : f[d[i]] = g[d[i]]
      BY <2>1, <2>3
    <3>2. f[x] = g[x]
      BY <2>1, <2>3
    <3>3. Gathered(d, f) = Gathered(d, g)
      BY <1>2, <3>1
    <3> QED
      BY <2>2, <3>2, <3>3, Zenon
  <2> QED
    BY <2>1, <2>3 DEF t
<1> HIDE DEF P
<1>3. e \in P
  BY <1>1, <1>2, AppendInduction
<1> QED
  BY <1>3 DEF P

(* Functions that give equally long sequences for every entry.             *)
LEMMA GatheredLength ==
  ASSUME NEW T, NEW S, NEW R, NEW f, Stands(f, T, S), NEW g, Stands(g, T, R),
         NEW e \in Seq(T), \A i \in 1..Len(e) : Len(f[e[i]]) = Len(g[e[i]])
  PROVE  Len(Gathered(e, f)) = Len(Gathered(e, g))
<1> f \in [T -> Seq(S)]
  BY DEF Stands
<1> g \in [T -> Seq(R)]
  BY DEF Stands
<1> DEFINE P == {d \in Seq(T) : (\A i \in 1..Len(d) : Len(f[d[i]]) = Len(g[d[i]])) =>
                                   Len(Gathered(d, f)) = Len(Gathered(d, g))}
<1>1. <<>> \in P
  BY GatheredNone, EmptySeq
<1>2. ASSUME NEW d \in Seq(T), NEW x \in T, d \in P PROVE Append(d, x) \in P
  <2> DEFINE t == Append(d, x)
  <2>1. /\ t \in Seq(T) /\ Len(t) = Len(d) + 1 /\ t[Len(d) + 1] = x /\ Len(d) \in Nat
        /\ \A i \in 1..Len(d) : i \in 1..Len(t) /\ t[i] = d[i]
        /\ Len(d) + 1 \in 1..Len(t)
    OBVIOUS
  <2>2. Gathered(t, f) = Gathered(d, f) \o f[x] /\ Gathered(t, g) = Gathered(d, g) \o g[x]
    BY GatheredAppend
  <2>3. Gathered(d, f) \in Seq(S) /\ f[x] \in Seq(S) /\ Gathered(d, g) \in Seq(R) /\ g[x] \in Seq(R)
    BY GatheredType
  <2> HIDE DEF t
  <2>4. Len(Gathered(t, f)) = Len(Gathered(d, f)) + Len(f[x])
    BY <2>2, <2>3, ConcatProperties
  <2>5. Len(Gathered(t, g)) = Len(Gathered(d, g)) + Len(g[x])
    BY <2>2, <2>3, ConcatProperties
  <2>6. ASSUME \A i \in 1..Len(t) : Len(f[t[i]]) = Len(g[t[i]])
        PROVE  Len(Gathered(t, f)) = Len(Gathered(t, g))
    <3>1. \A i \in 1..Len(d) : Len(f[d[i]]) = Len(g[d[i]])
      BY <2>1, <2>6
    <3>2. Len(f[x]) = Len(g[x])
      BY <2>1, <2>6
    <3>3. Len(Gathered(d, f)) = Len(Gathered(d, g))
      BY <1>2, <3>1
    <3> QED
      BY <2>4, <2>5, <3>2, <3>3
  <2> QED
    BY <2>1, <2>6 DEF t
<1> HIDE DEF P
<1>3. e \in P
  BY <1>1, <1>2, AppendInduction
<1> QED
  BY <1>3 DEF P

-----------------------------------------------------------------------------
(* Copies.                                                                 *)

(* SetToSeq lists every element of a finite set.                           *)
LEMMA ListedOnce ==
  ASSUME NEW S, IsFiniteSet(S)
  PROVE  /\ SetToSeq(S) \in Seq(S)
         /\ \A x \in S : \E i \in DOMAIN SetToSeq(S) : SetToSeq(S)[i] = x
         /\ \A i, j \in DOMAIN SetToSeq(S) : SetToSeq(S)[i] = SetToSeq(S)[j] => i = j
<1> DEFINE n == Cardinality(S)
           q == SetToSeq(S)
<1>1. n \in Nat /\ ExistsBijection(1..n, S)
  BY FS_CardinalityType
<1>2. \E f \in [1..n -> S] : IsInjective(f)
  BY <1>1 DEF ExistsBijection, Bijection, Injection
<1>3. q \in [1..n -> S] /\ IsInjective(q)
  BY <1>2 DEF SetToSeq
<1> HIDE DEF q
<1>4. q \in Injection(1..n, S)
  BY <1>3 DEF Injection
<1>5. Cardinality(1..n) = n
  BY <1>1, FS_Interval
<1>6. q \in Surjection(1..n, S)
  BY <1>1, <1>4, <1>5, FS_Injection
<1> QED
  BY <1>1, <1>3, <1>6 DEF q, Surjection, IsInjective

(* The elements of two sequences in a row. *)
LEMMA ConcatParts ==
  ASSUME NEW S, NEW s \in Seq(S), NEW t \in Seq(S)
  PROVE  LET both == s \o t
         IN  /\ \A c \in 1..Len(s) : both[c] = s[c]
             /\ \A c \in 1..Len(both) : c <= Len(s) => both[c] = s[c]
             /\ \A c \in 1..Len(both) : ~ (c <= Len(s)) =>
                  c - Len(s) \in 1..Len(t) /\ both[c] = t[c - Len(s)]
<1> DEFINE a == Len(s)
           b == Len(t)
           both == s \o t
<1>1. /\ a \in Nat /\ b \in Nat
      /\ Len(both) = a + b
      /\ \A c \in 1..(a + b) : both[c] = IF c <= a THEN s[c] ELSE t[c - a]
  BY ConcatProperties
<1> HIDE DEF a, b, both
<1>2. \A c \in 1..a : both[c] = s[c]
  BY <1>1
<1>3. \A c \in 1..Len(both) : c <= a => both[c] = s[c]
  BY <1>1
<1>4. \A c \in 1..Len(both) : ~ (c <= a) => c - a \in 1..b /\ both[c] = t[c - a]
  BY <1>1
<1> QED
  BY <1>2, <1>3, <1>4 DEF a, b, both

LEMMA AppendedParts ==
  ASSUME NEW S, NEW s \in Seq(S), NEW t \in Seq(S)
  PROVE  LET both == s \o t
         IN  /\ \A c \in 1..Len(s) : both[c] = s[c]
             /\ \A c \in Nat : c - Len(s) \in 1..Len(t) => both[c] = t[c - Len(s)]
<1> DEFINE both == s \o t
<1>1. Len(s) \in Nat /\ Len(t) \in Nat
  OBVIOUS
<1>2. \A c \in 1..(Len(s) + Len(t)) : both[c] = IF c <= Len(s) THEN s[c] ELSE t[c - Len(s)]
  BY ConcatProperties
<1> HIDE DEF both
<1> QED
  BY <1>1, <1>2 DEF both

Added(w, h, arrays, objects, g) ==
  /\ g \in Heap /\ Extends(h, g) /\ g.scopes = h.scopes
  /\ Len(g.arrays) = Len(h.arrays) + Len(arrays)
  /\ Len(g.objects) = Len(h.objects) + Len(objects)
  /\ (/\ \A i \in 1..Len(arrays) : Vals(w, g, arrays[i])
      /\ \A i \in 1..Len(objects) : Vals(w, g, objects[i])) =>
       HeapGood(w, g) /\ Grows(h, g)

(* Cells that are added to a heap, and that only hold what exists then.    *)
LEMMA AddCells ==
  ASSUME NEW w, NEW h, HeapGood(w, h), NEW arrays \in Seq(Seq(Json)), NEW objects \in Seq(Vars),
         NEW g, g = [h EXCEPT !.arrays = @ \o arrays, !.objects = @ \o objects]
  PROVE  Added(w, h, arrays, objects, g)
<1> DEFINE newA == h.arrays \o arrays
           newO == h.objects \o objects
<1>1. g = [h EXCEPT !.arrays = newA, !.objects = newO]
  OBVIOUS
<1>2. h \in Heap /\ h.arrays \in Seq(Seq(Json)) /\ h.objects \in Seq(Vars)
  BY DEF HeapGood, Heap
<1>3. /\ newA \in Seq(Seq(Json)) /\ Len(newA) = Len(h.arrays) + Len(arrays)
      /\ \A c \in 1..(Len(h.arrays) + Len(arrays)) :
           newA[c] = IF c <= Len(h.arrays) THEN h.arrays[c] ELSE arrays[c - Len(h.arrays)]
  BY <1>2, ConcatProperties
<1>4. /\ newO \in Seq(Vars) /\ Len(newO) = Len(h.objects) + Len(objects)
      /\ \A c \in 1..(Len(h.objects) + Len(objects)) :
           newO[c] = IF c <= Len(h.objects) THEN h.objects[c] ELSE objects[c - Len(h.objects)]
  BY <1>2, ConcatProperties
<1>5. /\ Len(arrays) \in Nat /\ Len(objects) \in Nat
      /\ Len(h.arrays) \in Nat /\ Len(h.objects) \in Nat
  BY <1>2
<1> HIDE DEF newA, newO
<1>6. /\ \A c \in 1..Len(h.arrays) : newA[c] = h.arrays[c]
      /\ \A c \in 1..Len(newA) : c <= Len(h.arrays) => newA[c] = h.arrays[c]
      /\ \A c \in 1..Len(newA) : ~ (c <= Len(h.arrays)) =>
           c - Len(h.arrays) \in 1..Len(arrays) /\ newA[c] = arrays[c - Len(h.arrays)]
  BY <1>2, ConcatParts DEF newA
<1>7. /\ \A c \in 1..Len(h.objects) : newO[c] = h.objects[c]
      /\ \A c \in 1..Len(newO) : c <= Len(h.objects) => newO[c] = h.objects[c]
      /\ \A c \in 1..Len(newO) : ~ (c <= Len(h.objects)) =>
           c - Len(h.objects) \in 1..Len(objects) /\ newO[c] = objects[c - Len(h.objects)]
  BY <1>2, ConcatParts DEF newO
<1>8. g \in Heap /\ g.scopes = h.scopes /\ g.arrays = newA /\ g.objects = newO
  BY <1>2, <1>3, <1>4, <1>1 DEF Heap
<1>9. Extends(h, g)
  BY <1>2, <1>3, <1>4, <1>5, <1>8, HeapKnown DEF Extends
<1>10. ASSUME \A i \in 1..Len(arrays) : Vals(w, g, arrays[i]),
             \A i \in 1..Len(objects) : Vals(w, g, objects[i])
      PROVE  HeapGood(w, g) /\ Grows(h, g)
  <2>1. \A f : Vals(w, h, f) => Vals(w, g, f)
    BY <1>2, <1>8, <1>9, ValsKept
  <2>2. ASSUME NEW c \in 1..Len(g.arrays) PROVE Vals(w, g, g.arrays[c])
    <3>1. CASE c <= Len(h.arrays)
      <4>1. c \in 1..Len(h.arrays) /\ g.arrays[c] = h.arrays[c]
        BY <1>3, <1>5, <1>8, <1>6, <2>2, <3>1
      <4> QED
        BY <2>1, <4>1 DEF HeapGood
    <3>2. CASE ~ (c <= Len(h.arrays))
      <4>1. c - Len(h.arrays) \in 1..Len(arrays) /\ g.arrays[c] = arrays[c - Len(h.arrays)]
        BY <1>8, <1>6, <2>2, <3>2
      <4> QED
        BY <1>10, <4>1
    <3> QED
      BY <3>1, <3>2
  <2>3. ASSUME NEW c \in 1..Len(g.objects) PROVE Vals(w, g, g.objects[c])
    <3>1. CASE c <= Len(h.objects)
      <4>1. c \in 1..Len(h.objects) /\ g.objects[c] = h.objects[c]
        BY <1>4, <1>5, <1>8, <1>7, <2>3, <3>1
      <4> QED
        BY <2>1, <4>1 DEF HeapGood
    <3>2. CASE ~ (c <= Len(h.objects))
      <4>1. c - Len(h.objects) \in 1..Len(objects) /\ g.objects[c] = objects[c - Len(h.objects)]
        BY <1>8, <1>7, <2>3, <3>2
      <4> QED
        BY <1>10, <4>1
    <3> QED
      BY <3>1, <3>2
  <2>4. ScopesGood(w, g, g.scopes)
    BY <1>8, <2>1 DEF HeapGood, ScopesGood
  <2>5. HeapGood(w, g)
    BY <1>8, <2>2, <2>3, <2>4 DEF HeapGood
  <2>6. /\ \A c \in 1..Len(h.arrays) : g.arrays[c] = h.arrays[c]
        /\ \A c \in 1..Len(h.objects) : g.objects[c] = h.objects[c]
    BY <1>8, <1>6, <1>7
  <2>7. Grows(h, g)
    BY <1>2, <1>8, <1>9, <2>6, HeapKnown DEF Grows
  <2> QED
    BY <2>5, <2>7
<1> QED
  BY <1>3, <1>4, <1>8, <1>9, <1>10 DEF Added

(* An array or object, and what a cell of the heap holds.                  *)
IsContainer(v) == v.type \in {"Array", "Object"}

Items(h, c) == IF c.type = "Array" THEN h.arrays[c.ref] ELSE h.objects[c.ref]

(* What a copy consists of: every cell that is new stands for one that the *)
(* value reaches, no two for the same, and holds what that one holds, with *)
(* the new cells in place of the old.  The old cells stay as they were.    *)
CopyOf(h, v, g, value) ==
  LET fresh == Cells(g) \ Cells(h)
  IN  /\ \A c \in Cells(h) : c \in Cells(g) /\ Items(g, c) = Items(h, c)
      /\ \E from \in [fresh -> Reachable(h, {v})] :
           /\ \A c, d \in fresh : from[c] = from[d] => c = d
           /\ \A c \in fresh :
                /\ DOMAIN Items(g, c) = DOMAIN Items(h, from[c])
                /\ \A k \in DOMAIN Items(g, c) :
                     IsContainer(Items(g, c)[k]) =>
                       Items(g, c)[k] \in fresh /\ from[Items(g, c)[k]] = Items(h, from[c])[k]
           /\ IsContainer(value) => value \in fresh /\ from[value] = v

(* A copy has cells of its own: the heap stays good, the scopes are not    *)
(* touched, and the copy is a value of the new heap.                       *)
LEMMA CopyMade ==
  ASSUME NEW w, NEW h, HeapGood(w, h), NEW v, Val(w, h, v)
  PROVE  LET copied == CopyJson(h, v)
         IN  /\ HeapGood(w, copied.heap) /\ Grows(h, copied.heap)
             /\ copied.heap.scopes = h.scopes
             /\ Val(w, copied.heap, copied.value)
             /\ CopyOf(h, v, copied.heap, copied.value)
<1> DEFINE cells    == Reachable(h, {v})
           refs(type) == {c.ref : c \in {d \in cells : d.type = type}}
           arrays   == SetToSeq(refs("Array"))
           objects  == SetToSeq(refs("Object"))
           at(q, ref) == CHOOSE i \in DOMAIN q : q[i] = ref
           copy(u)  == CASE u.type = "Array"  -> ArrayJson(Len(h.arrays) + at(arrays, u.ref))
                         [] u.type = "Object" -> ObjectJson(Len(h.objects) + at(objects, u.ref))
                         [] OTHER             -> u
           copies(f) == [k \in DOMAIN f |-> copy(f[k])]
           newA == [i \in DOMAIN arrays |-> copies(h.arrays[arrays[i]])]
           newO == [i \in DOMAIN objects |-> copies(h.objects[objects[i]])]
           g == [h EXCEPT !.arrays = @ \o newA, !.objects = @ \o newO]
<1>1. CopyJson(h, v) = [heap |-> g, value |-> copy(v)]
  BY DEF CopyJson
<1>2. /\ cells \subseteq Cells(h)
      /\ ContainersIn({v}) \subseteq cells
      /\ \A c \in cells : ContainersIn(Contents(h, c)) \subseteq cells
  <2>1. \A u \in {v} : Val(w, h, u)
    OBVIOUS
  <2> QED
    BY <2>1, ReachableSmallest
<1> HIDE DEF cells
<1>3. h \in Heap /\ Len(h.arrays) \in Nat /\ Len(h.objects) \in Nat
  BY HeapKnown DEF HeapGood
<1>4. /\ refs("Array") \subseteq 1..Len(h.arrays) /\ refs("Object") \subseteq 1..Len(h.objects)
      /\ \A r \in refs("Array") : ArrayJson(r) \in cells
      /\ \A r \in refs("Object") : ObjectJson(r) \in cells
      /\ \A u \in cells : /\ u.type = "Array" => u.ref \in refs("Array")
                          /\ u.type = "Object" => u.ref \in refs("Object")
  BY <1>2, CellsAreCells
<1>5. IsFiniteSet(refs("Array")) /\ IsFiniteSet(refs("Object"))
  <2>1. 0 \in Int /\ 1 \in Int /\ Len(h.arrays) \in Int /\ Len(h.objects) \in Int
    BY <1>3
  <2>2. IsFiniteSet(1..Len(h.arrays)) /\ IsFiniteSet(1..Len(h.objects))
    BY <2>1, FS_Interval
  <2> HIDE DEF refs
  <2> QED
    BY <1>4, <2>2, FS_Subset
<1>6. /\ arrays \in Seq(refs("Array"))
      /\ \A r \in refs("Array") : \E i \in DOMAIN arrays : arrays[i] = r
      /\ objects \in Seq(refs("Object"))
      /\ \A r \in refs("Object") : \E i \in DOMAIN objects : objects[i] = r
      /\ \A i, j \in DOMAIN arrays : arrays[i] = arrays[j] => i = j
      /\ \A i, j \in DOMAIN objects : objects[i] = objects[j] => i = j
  BY <1>5, ListedOnce
<1> HIDE DEF refs, arrays, objects
<1>7. /\ Len(arrays) \in Nat /\ DOMAIN arrays = 1..Len(arrays)
      /\ \A i \in 1..Len(arrays) : arrays[i] \in refs("Array")
      /\ Len(objects) \in Nat /\ DOMAIN objects = 1..Len(objects)
      /\ \A i \in 1..Len(objects) : objects[i] \in refs("Object")
  BY <1>6
<1>8. /\ \A r \in refs("Array") : at(arrays, r) \in 1..Len(arrays) /\ arrays[at(arrays, r)] = r
      /\ \A r \in refs("Object") : at(objects, r) \in 1..Len(objects) /\ objects[at(objects, r)] = r
  BY <1>6, <1>7
<1> HIDE DEF at
<1> DEFINE Inner(u) == Val(w, h, u) /\ (u.type \in {"Array", "Object"} => u \in cells)
<1>9. ASSUME NEW u, Inner(u)
      PROVE  /\ copy(u) \in Json
             /\ copy(u).type = u.type
             /\ u.type = "Array" => /\ copy(u) = ArrayJson(copy(u).ref)
                                    /\ copy(u).ref \in 1..(Len(h.arrays) + Len(arrays))
             /\ u.type = "Object" => /\ copy(u) = ObjectJson(copy(u).ref)
                                     /\ copy(u).ref \in 1..(Len(h.objects) + Len(objects))
             /\ u.type \notin {"Array", "Object"} => copy(u) = u
  <2>1. CASE u.type = "Array"
    <3> DEFINE k == Len(h.arrays) + at(arrays, u.ref)
    <3>1. k \in 1..(Len(h.arrays) + Len(arrays)) /\ k \in Nat
      BY <1>3, <1>4, <1>7, <1>8, <1>9, <2>1
    <3>2. copy(u) = ArrayJson(k)
      BY <2>1
    <3> HIDE DEF k, copy
    <3>3. ArrayJson(k) \in Json /\ ArrayJson(k).type = "Array" /\ ArrayJson(k).ref = k
      BY <3>1 DEF ArrayJson, Json, JsonType, Text
    <3> QED
      BY <2>1, <3>1, <3>2, <3>3
  <2>2. CASE u.type = "Object"
    <3> DEFINE k == Len(h.objects) + at(objects, u.ref)
    <3>1. k \in 1..(Len(h.objects) + Len(objects)) /\ k \in Nat
      BY <1>3, <1>4, <1>7, <1>8, <1>9, <2>2
    <3>2. copy(u) = ObjectJson(k)
      BY <2>2
    <3> HIDE DEF k, copy
    <3>3. ObjectJson(k) \in Json /\ ObjectJson(k).type = "Object" /\ ObjectJson(k).ref = k
      BY <3>1 DEF ObjectJson, Json, JsonType, Text
    <3> QED
      BY <2>2, <3>1, <3>2, <3>3
  <2>3. CASE u.type \notin {"Array", "Object"}
    <3>1. copy(u) = u
      BY <2>3
    <3> HIDE DEF copy
    <3> QED
      BY <1>9, <2>3, <3>1 DEF Val
  <2> QED
    BY <2>1, <2>2, <2>3
<1> HIDE DEF copy
<1>10. /\ \A c \in 1..Len(h.arrays) : ArrayJson(c) \in cells =>
            \A k \in DOMAIN h.arrays[c] : Inner(h.arrays[c][k])
       /\ \A c \in 1..Len(h.objects) : ObjectJson(c) \in cells =>
            \A k \in DOMAIN h.objects[c] : Inner(h.objects[c][k])
       /\ Inner(v)
  <2>1. ASSUME NEW c \in cells, NEW u \in Contents(h, c) PROVE Inner(u)
    <3>1. Val(w, h, u)
      BY <1>2, <2>1, CellsVal
    <3>2. u \in Json
      BY <3>1 DEF Val
    <3> QED
      BY <1>2, <2>1, <3>1, <3>2 DEF ContainersIn
  <2>2. ASSUME NEW c \in 1..Len(h.arrays), ArrayJson(c) \in cells, NEW k \in DOMAIN h.arrays[c]
        PROVE  h.arrays[c][k] \in Contents(h, ArrayJson(c))
    BY <2>2, CellsAreCells DEF Contents, Range
  <2>3. ASSUME NEW c \in 1..Len(h.objects), ObjectJson(c) \in cells, NEW k \in DOMAIN h.objects[c]
        PROVE  h.objects[c][k] \in Contents(h, ObjectJson(c))
    BY <2>3, CellsAreCells DEF Contents, Range
  <2>4. Inner(v)
    BY <1>2 DEF ContainersIn, Val
  <2> HIDE DEF Inner
  <2> QED
    BY <2>1, <2>2, <2>3, <2>4
<1>11. ASSUME NEW i \in 1..Len(arrays)
       PROVE  /\ newA[i] \in Seq(Json)
              /\ \A k \in DOMAIN newA[i] : \E u : Inner(u) /\ newA[i][k] = copy(u)
  <2> DEFINE old == h.arrays[arrays[i]]
  <2>1. arrays[i] \in 1..Len(h.arrays) /\ ArrayJson(arrays[i]) \in cells
    BY <1>4, <1>7
  <2>2. old \in Seq(Json) /\ Len(old) \in Nat /\ DOMAIN old = 1..Len(old)
    BY <1>3, <2>1, HeapKnown
  <2>3. \A k \in DOMAIN old : Inner(old[k])
    BY <1>10, <2>1
  <2>4. newA[i] = [k \in 1..Len(old) |-> copy(old[k])]
    BY <1>7, <2>2
  <2> HIDE DEF old, newA, Inner
  <2>5. newA[i] \in [1..Len(old) -> Json]
    BY <1>9, <2>2, <2>3, <2>4
  <2>6. newA[i] \in Seq(Json)
    BY <2>2, <2>5, FunctionIsSeq
  <2> QED
    BY <2>2, <2>3, <2>4, <2>6
<1>12. ASSUME NEW i \in 1..Len(objects)
       PROVE  /\ newO[i] \in Vars
              /\ \A k \in DOMAIN newO[i] : \E u : Inner(u) /\ newO[i][k] = copy(u)
  <2> DEFINE old == h.objects[objects[i]]
  <2>1. objects[i] \in 1..Len(h.objects) /\ ObjectJson(objects[i]) \in cells
    BY <1>4, <1>7
  <2>2. old \in Vars
    BY <1>3, <2>1, HeapKnown
  <2>3. \A k \in DOMAIN old : Inner(old[k])
    BY <1>10, <2>1
  <2>4. newO[i] = [k \in DOMAIN old |-> copy(old[k])]
    BY <1>7
  <2> HIDE DEF old, newO, Inner
  <2>5. DOMAIN old \in SUBSET Text
    BY <2>2 DEF Vars
  <2>6. newO[i] \in [DOMAIN old -> Json]
    BY <1>9, <2>3, <2>4
  <2>7. newO[i] \in Vars
    BY <2>5, <2>6 DEF Vars
  <2> QED
    BY <2>3, <2>4, <2>7
<1>13. newA \in Seq(Seq(Json)) /\ Len(newA) = Len(arrays)
  <2>1. newA \in [1..Len(arrays) -> Seq(Json)]
    BY <1>7, <1>11
  <2> HIDE DEF newA
  <2> QED
    BY <1>7, <2>1, FunctionIsSeq
<1>14. newO \in Seq(Vars) /\ Len(newO) = Len(objects)
  <2>1. newO \in [1..Len(objects) -> Vars]
    BY <1>7, <1>12
  <2> HIDE DEF newO
  <2> QED
    BY <1>7, <2>1, FunctionIsSeq
<1> HIDE DEF newA, newO
<1>15. /\ g \in Heap /\ Extends(h, g) /\ g.scopes = h.scopes
       /\ Len(g.arrays) = Len(h.arrays) + Len(arrays)
       /\ Len(g.objects) = Len(h.objects) + Len(objects)
       /\ (/\ \A i \in 1..Len(arrays) : Vals(w, g, newA[i])
           /\ \A i \in 1..Len(objects) : Vals(w, g, newO[i])) =>
            HeapGood(w, g) /\ Grows(h, g)
  <2>1. g = [h EXCEPT !.arrays = @ \o newA, !.objects = @ \o newO]
    OBVIOUS
  <2> HIDE DEF g
  <2>2. Added(w, h, newA, newO, g)
    BY <1>13, <1>14, <2>1, AddCells
  <2> QED
    BY <1>13, <1>14, <2>2 DEF Added
<1>16. /\ \A c \in 1..Len(h.arrays) : g.arrays[c] = h.arrays[c]
       /\ \A c \in Nat : c - Len(h.arrays) \in 1..Len(arrays) => g.arrays[c] = newA[c - Len(h.arrays)]
       /\ \A c \in 1..Len(h.objects) : g.objects[c] = h.objects[c]
       /\ \A c \in Nat : c - Len(h.objects) \in 1..Len(objects) => g.objects[c] = newO[c - Len(h.objects)]
  <2>1. /\ h.arrays \in Seq(Seq(Json)) /\ h.objects \in Seq(Vars)
        /\ g.arrays = h.arrays \o newA /\ g.objects = h.objects \o newO
    BY <1>3, <1>13, <1>14 DEF Heap
  <2>2. Len(newA) = Len(arrays) /\ Len(newO) = Len(objects)
    BY <1>13, <1>14
  <2> HIDE DEF g, newA, newO
  <2>3. /\ \A c \in 1..Len(h.arrays) : g.arrays[c] = h.arrays[c]
        /\ \A c \in Nat : c - Len(h.arrays) \in 1..Len(newA) => g.arrays[c] = newA[c - Len(h.arrays)]
    BY <1>13, <2>1, AppendedParts
  <2>4. /\ \A c \in 1..Len(h.objects) : g.objects[c] = h.objects[c]
        /\ \A c \in Nat : c - Len(h.objects) \in 1..Len(newO) => g.objects[c] = newO[c - Len(h.objects)]
    BY <1>14, <2>1, AppendedParts
  <2> QED
    BY <2>2, <2>3, <2>4
<1> HIDE DEF g
<1>17. ASSUME NEW u, Inner(u) PROVE Val(w, g, copy(u))
  <2>1. Val(w, h, u)
    BY <1>17
  <2> HIDE DEF Inner
  <2>2. CASE u.type \in {"Array", "Object"}
    BY <1>9, <1>15, <1>17, <2>2 DEF Val
  <2>3. CASE u.type \notin {"Array", "Object"}
    <3>1. copy(u) = u
      BY <1>9, <1>17, <2>3
    <3> QED
      BY <1>3, <1>15, <2>1, <3>1, ValKept
  <2> QED
    BY <2>2, <2>3
<1>18. HeapGood(w, g) /\ Grows(h, g)
  BY <1>11, <1>12, <1>15, <1>17 DEF Vals
<1>19. Val(w, g, copy(v))
  BY <1>10, <1>17
<1> DEFINE fresh == Cells(g) \ Cells(h)
           from == [c \in fresh |-> IF c.type = "Array" THEN ArrayJson(arrays[c.ref - Len(h.arrays)])
                                                       ELSE ObjectJson(objects[c.ref - Len(h.objects)])]
<1>20. ASSUME NEW c \in fresh
       PROVE  \/ /\ c.type = "Array" /\ c = ArrayJson(c.ref)
                 /\ c.ref - Len(h.arrays) \in 1..Len(arrays) /\ c.ref \in Nat
                 /\ from[c] = ArrayJson(arrays[c.ref - Len(h.arrays)])
              \/ /\ c.type = "Object" /\ c = ObjectJson(c.ref)
                 /\ c.ref - Len(h.objects) \in 1..Len(objects) /\ c.ref \in Nat
                 /\ from[c] = ObjectJson(objects[c.ref - Len(h.objects)])
  <2>1. CASE c.type = "Array" /\ c.ref \in 1..Len(g.arrays) /\ c = ArrayJson(c.ref)
    <3>1. c.ref \notin 1..Len(h.arrays)
      BY <1>20, <2>1, CellsAreCells
    <3>2. c.ref \in Nat /\ c.ref - Len(h.arrays) \in 1..Len(arrays)
      BY <1>3, <1>7, <1>15, <2>1, <3>1
    <3> QED
      BY <1>20, <2>1, <3>2
  <2>2. CASE c.type = "Object" /\ c.ref \in 1..Len(g.objects) /\ c = ObjectJson(c.ref)
    <3>1. c.ref \notin 1..Len(h.objects)
      BY <1>20, <2>2, CellsAreCells
    <3>2. c.ref \in Nat /\ c.ref - Len(h.objects) \in 1..Len(objects)
      BY <1>3, <1>7, <1>15, <2>2, <3>1
    <3> QED
      BY <1>20, <2>2, <3>2
  <2> QED
    BY <1>20, <2>1, <2>2, CellsAreCells
<1>21. from \in [fresh -> cells]
  <2>1. \A c \in fresh : from[c] \in cells
    BY <1>4, <1>7, <1>20
  <2> QED
    BY <2>1
<1> HIDE DEF fresh, from
<1>22. ASSUME NEW c \in fresh, NEW d \in fresh, from[c] = from[d] PROVE c = d
  <2>1. /\ \A i, j : ArrayJson(i) = ArrayJson(j) => i = j
        /\ \A i, j : ObjectJson(i) = ObjectJson(j) => i = j
        /\ \A i, j : ArrayJson(i) # ObjectJson(j)
    BY DEF ArrayJson, ObjectJson
  <2>2. CASE c.type = "Array" /\ d.type = "Array"
    <3>1. /\ arrays[c.ref - Len(h.arrays)] = arrays[d.ref - Len(h.arrays)]
          /\ c.ref - Len(h.arrays) \in 1..Len(arrays) /\ d.ref - Len(h.arrays) \in 1..Len(arrays)
          /\ c.ref \in Nat /\ d.ref \in Nat /\ c = ArrayJson(c.ref) /\ d = ArrayJson(d.ref)
      BY <1>20, <1>22, <2>1, <2>2
    <3>2. c.ref - Len(h.arrays) = d.ref - Len(h.arrays)
      BY <1>6, <1>7, <3>1
    <3>3. c.ref = d.ref
      BY <1>3, <3>1, <3>2
    <3> QED
      BY <3>1, <3>3
  <2>3. CASE c.type = "Object" /\ d.type = "Object"
    <3>1. /\ objects[c.ref - Len(h.objects)] = objects[d.ref - Len(h.objects)]
          /\ c.ref - Len(h.objects) \in 1..Len(objects) /\ d.ref - Len(h.objects) \in 1..Len(objects)
          /\ c.ref \in Nat /\ d.ref \in Nat /\ c = ObjectJson(c.ref) /\ d = ObjectJson(d.ref)
      BY <1>20, <1>22, <2>1, <2>3
    <3>2. c.ref - Len(h.objects) = d.ref - Len(h.objects)
      BY <1>6, <1>7, <3>1
    <3>3. c.ref = d.ref
      BY <1>3, <3>1, <3>2
    <3> QED
      BY <3>1, <3>3
  <2> QED
    BY <1>20, <1>22, <2>1, <2>2, <2>3
<1>23. /\ \A j : ArrayJson(j).type = "Array" /\ ArrayJson(j).ref = j
       /\ \A j : ObjectJson(j).type = "Object" /\ ObjectJson(j).ref = j
  BY DEF ArrayJson, ObjectJson
<1>24. ASSUME NEW u, Inner(u), IsContainer(copy(u)) PROVE copy(u) \in fresh /\ from[copy(u)] = u
  <2>1. Val(w, h, u) /\ copy(u).type = u.type
    BY <1>9, <1>24
  <2>2. CASE u.type = "Array"
    <3> DEFINE i == at(arrays, u.ref)
    <3>1. u \in cells /\ u = ArrayJson(u.ref) /\ u.ref \in refs("Array")
      BY <1>4, <1>24, <2>1, <2>2 DEF Val
    <3>2. i \in 1..Len(arrays) /\ arrays[i] = u.ref
      BY <1>8, <3>1
    <3>3. copy(u) = ArrayJson(Len(h.arrays) + i)
      BY <2>2 DEF copy
    <3> HIDE DEF i
    <3>4. /\ copy(u).type = "Array" /\ copy(u).ref = Len(h.arrays) + i
      BY <1>23, <3>3
    <3>5. /\ Len(h.arrays) + i \in 1..Len(g.arrays) /\ ~ (Len(h.arrays) + i \in 1..Len(h.arrays))
          /\ (Len(h.arrays) + i) - Len(h.arrays) = i
      BY <1>3, <1>7, <1>15, <3>2
    <3>6. copy(u) \in fresh
      BY <3>3, <3>4, <3>5, CellsAreCells DEF fresh
    <3> QED
      BY <3>1, <3>2, <3>4, <3>5, <3>6 DEF from
  <2>3. CASE u.type = "Object"
    <3> DEFINE i == at(objects, u.ref)
    <3>1. u \in cells /\ u = ObjectJson(u.ref) /\ u.ref \in refs("Object")
      BY <1>4, <1>24, <2>1, <2>3 DEF Val
    <3>2. i \in 1..Len(objects) /\ objects[i] = u.ref
      BY <1>8, <3>1
    <3>3. copy(u) = ObjectJson(Len(h.objects) + i)
      BY <2>3 DEF copy
    <3> HIDE DEF i
    <3>4. /\ copy(u).type = "Object" /\ copy(u).ref = Len(h.objects) + i
      BY <1>23, <3>3
    <3>5. /\ Len(h.objects) + i \in 1..Len(g.objects) /\ ~ (Len(h.objects) + i \in 1..Len(h.objects))
          /\ (Len(h.objects) + i) - Len(h.objects) = i
      BY <1>3, <1>7, <1>15, <3>2
    <3>6. copy(u) \in fresh
      BY <3>3, <3>4, <3>5, CellsAreCells DEF fresh
    <3> QED
      BY <3>1, <3>2, <3>4, <3>5, <3>6 DEF from
  <2> QED
    BY <1>24, <2>1, <2>2, <2>3 DEF IsContainer
<1>25. ASSUME NEW c \in fresh
       PROVE  /\ DOMAIN Items(g, c) = DOMAIN Items(h, from[c])
              /\ \A k \in DOMAIN Items(g, c) : /\ Inner(Items(h, from[c])[k])
                                               /\ Items(g, c)[k] = copy(Items(h, from[c])[k])
  <2>1. CASE c.type = "Array"
    <3> DEFINE i == c.ref - Len(h.arrays)
    <3>1. i \in 1..Len(arrays) /\ c.ref \in Nat /\ from[c] = ArrayJson(arrays[i])
      BY <1>20, <2>1
    <3>2. /\ arrays[i] \in 1..Len(h.arrays) /\ ArrayJson(arrays[i]) \in cells
          /\ Items(h, from[c]) = h.arrays[arrays[i]]
      BY <1>4, <1>7, <3>1, CellsAreCells DEF Items
    <3>3. Items(g, c) = newA[i]
      BY <1>16, <2>1, <3>1 DEF Items
    <3>4. newA[i] = copies(h.arrays[arrays[i]])
      BY <1>7, <3>1 DEF newA
    <3> HIDE DEF i, Inner
    <3> QED
      BY <1>10, <3>2, <3>3, <3>4
  <2>2. CASE c.type = "Object"
    <3> DEFINE i == c.ref - Len(h.objects)
    <3>1. i \in 1..Len(objects) /\ c.ref \in Nat /\ from[c] = ObjectJson(objects[i])
      BY <1>20, <2>2
    <3>2. /\ objects[i] \in 1..Len(h.objects) /\ ObjectJson(objects[i]) \in cells
          /\ Items(h, from[c]) = h.objects[objects[i]]
      <4>1. objects[i] \in 1..Len(h.objects) /\ ObjectJson(objects[i]) \in cells
        BY <1>4, <1>7, <3>1
      <4>2. ~ (from[c].type = "Array") /\ from[c].ref = objects[i]
        BY <1>23, <3>1
      <4> QED
        BY <4>1, <4>2 DEF Items
    <3>3. Items(g, c) = newO[i]
      BY <1>16, <2>2, <3>1 DEF Items
    <3>4. newO[i] = copies(h.objects[objects[i]])
      BY <1>7, <3>1 DEF newO
    <3> HIDE DEF i, Inner
    <3> QED
      BY <1>10, <3>2, <3>3, <3>4
  <2> QED
    BY <1>20, <2>1, <2>2
<1>26. ASSUME NEW c \in Cells(h) PROVE c \in Cells(g) /\ Items(g, c) = Items(h, c)
  <2>1. CASE c.type = "Array" /\ c.ref \in 1..Len(h.arrays) /\ c = ArrayJson(c.ref)
    <3>1. c.ref \in 1..Len(g.arrays)
      BY <1>3, <1>7, <1>15, <2>1
    <3> QED
      BY <1>16, <2>1, <3>1, CellsAreCells DEF Items
  <2>2. CASE c.type = "Object" /\ c.ref \in 1..Len(h.objects) /\ c = ObjectJson(c.ref)
    <3>1. c.ref \in 1..Len(g.objects)
      BY <1>3, <1>7, <1>15, <2>2
    <3> QED
      BY <1>16, <2>2, <3>1, CellsAreCells DEF Items
  <2> QED
    BY <2>1, <2>2, CellsAreCells
<1>27. CopyOf(h, v, g, copy(v))
  <2> HIDE DEF Inner
  <2>1. \A c \in fresh : \A k \in DOMAIN Items(g, c) : IsContainer(Items(g, c)[k]) =>
          Items(g, c)[k] \in fresh /\ from[Items(g, c)[k]] = Items(h, from[c])[k]
    BY <1>24, <1>25
  <2>2. IsContainer(copy(v)) => copy(v) \in fresh /\ from[copy(v)] = v
    BY <1>10, <1>24
  <2> QED
    BY <1>21, <1>22, <1>25, <1>26, <2>1, <2>2 DEF CopyOf, fresh, cells
<1> QED
  BY <1>1, <1>15, <1>18, <1>19, <1>27

LEMMA CopyGood ==
  ASSUME NEW w, NEW h, HeapGood(w, h), NEW v, Val(w, h, v)
  PROVE  LET copied == CopyJson(h, v)
         IN  /\ HeapGood(w, copied.heap) /\ Grows(h, copied.heap)
             /\ copied.heap.scopes = h.scopes
             /\ Val(w, copied.heap, copied.value)
  BY CopyMade

(* CopyAll is a recursive function over the places of the values.          *)
CopiedOneMore(before, v) ==
  LET one == CopyJson(before.heap, v)
  IN  [heap |-> one.heap, values |-> Append(before.values, one.value)]

CopiedUpTo(f, h, vs, n) ==
  f = [i \in 0..n |-> IF i = 0 THEN [heap |-> h, values |-> <<>>] ELSE CopiedOneMore(f[i - 1], vs[i])]

LEMMA CopiedExists ==
  ASSUME NEW h, NEW vs, NEW n \in Nat
  PROVE  \E f : CopiedUpTo(f, h, vs, n)
<1> DEFINE T == {m \in Nat : \E f : CopiedUpTo(f, h, vs, m)}
           none == [heap |-> h, values |-> <<>>]
<1>1. 0 \in T
  <2>1. CopiedUpTo([i \in 0..0 |-> none], h, vs, 0)
    BY DEF CopiedUpTo
  <2> QED
    BY <2>1
<1> HIDE DEF none
<1>2. ASSUME NEW m \in T PROVE m + 1 \in T
  <2>1. PICK f : CopiedUpTo(f, h, vs, m)
    OBVIOUS
  <2> DEFINE last == CopiedOneMore(f[m], vs[m + 1])
             g == [i \in 0..(m + 1) |-> IF i = m + 1 THEN last ELSE f[i]]
  <2>2. ASSUME NEW i \in 0..(m + 1)
        PROVE  g[i] = IF i = 0 THEN none ELSE CopiedOneMore(g[i - 1], vs[i])
    <3>1. CASE i = m + 1
      <4>1. i # 0 /\ g[i - 1] = f[m] /\ g[i] = last /\ vs[i] = vs[m + 1]
        BY <3>1
      <4> HIDE DEF g
      <4> QED
        BY <4>1, Zenon
    <3>2. CASE i \in 0..m
      <4>1. g[i] = f[i] /\ (i # 0 => g[i - 1] = f[i - 1])
        BY <3>2
      <4>2. f[i] = IF i = 0 THEN none ELSE CopiedOneMore(f[i - 1], vs[i])
        BY <2>1, <3>2 DEF CopiedUpTo, none
      <4> QED
        BY <4>1, <4>2
    <3> QED
      BY <3>1, <3>2
  <2>3. CopiedUpTo(g, h, vs, m + 1)
    <3> HIDE DEF last
    <3>1. g = [i \in 0..(m + 1) |-> g[i]]
      OBVIOUS
    <3> HIDE DEF g
    <3> QED
      BY <2>2, <3>1, Zenon DEF CopiedUpTo, none
  <2> QED
    BY <2>3
<1> HIDE DEF T
<1>3. T = Nat
  BY <1>1, <1>2, EveryNatural DEF T
<1> QED
  BY <1>3 DEF T

LEMMA CopiedStep ==
  ASSUME NEW f, NEW h, NEW vs, NEW n \in Nat, CopiedUpTo(f, h, vs, n)
  PROVE  /\ f[0] = [heap |-> h, values |-> <<>>]
         /\ \A k \in Nat : k + 1 <= n => f[k + 1] = CopiedOneMore(f[k], vs[k + 1])
<1> DEFINE none == [heap |-> h, values |-> <<>>]
           Body(i) == IF i = 0 THEN none ELSE CopiedOneMore(f[i - 1], vs[i])
<1>1. \A i \in 0..n : f[i] = Body(i)
  BY DEF CopiedUpTo
<1> HIDE DEF none
<1>2. f[0] = Body(0)
  BY <1>1
<1>3. ASSUME NEW k \in Nat, k + 1 <= n
      PROVE  f[k + 1] = Body(k + 1) /\ (k + 1) - 1 = k /\ k + 1 # 0
  <2> HIDE DEF Body
  <2>1. k + 1 \in 0..n
    BY <1>3
  <2> QED
    BY <1>1, <2>1
<1> QED
  BY <1>2, <1>3 DEF none

(* A heap g that came from h by making copies. *)
Copied(w, h, g) ==
  HeapGood(w, g) /\ Grows(h, g) /\ g.scopes = h.scopes

LEMMA CopyAllGood ==
  ASSUME NEW w, NEW h, HeapGood(w, h), NEW vs, Len(vs) \in Nat,
         \A i \in 1..Len(vs) : Val(w, h, vs[i])
  PROVE  LET items == CopyAll(h, vs)
         IN  /\ Copied(w, h, items.heap)
             /\ items.values \in Seq(Json) /\ Len(items.values) = Len(vs)
             /\ Vals(w, items.heap, items.values)
<1> DEFINE n == Len(vs)
           made == CHOOSE f : CopiedUpTo(f, h, vs, n)
           Fine(m) == /\ Copied(w, h, made[m].heap)
                      /\ made[m].values \in Seq(Json) /\ Len(made[m].values) = m
                      /\ Vals(w, made[m].heap, made[m].values)
           T == {m \in Nat : m <= n => Fine(m)}
<1>1. CopiedUpTo(made, h, vs, n)
  BY CopiedExists
<1>2. CopyAll(h, vs) = made[n]
  BY DEF CopyAll, CopiedUpTo, CopiedOneMore
<1> HIDE DEF made
<1>3. /\ made[0] = [heap |-> h, values |-> <<>>]
      /\ \A k \in Nat : k + 1 <= n => made[k + 1] = CopiedOneMore(made[k], vs[k + 1])
  BY <1>1, CopiedStep
<1>4. h \in Heap
  BY DEF HeapGood
<1>5. 0 \in T
  <2>1. made[0] = [heap |-> h, values |-> <<>>]
    BY <1>1, CopiedStep
  <2>2. made[0].heap = h /\ made[0].values = <<>>
    BY <2>1
  <2>3. Copied(w, h, h)
    BY <1>4, GrowsItself DEF Copied
  <2>4. /\ made[0].values \in Seq(Json) /\ Len(made[0].values) = 0
        /\ Vals(w, made[0].heap, made[0].values)
    BY <2>2 DEF Vals
  <2> QED
    BY <2>2, <2>3, <2>4
<1>6. ASSUME NEW m \in T PROVE m + 1 \in T
  <2> SUFFICES ASSUME m + 1 <= n PROVE Fine(m + 1)
    BY <1>6
  <2> DEFINE before == made[m]
             one    == CopyJson(before.heap, vs[m + 1])
  <2>1. m \in Nat /\ m <= n /\ m + 1 \in 1..n /\ Fine(m)
    BY <1>6
  <2>2. made[m + 1] = CopiedOneMore(before, vs[m + 1])
    BY <1>3, <2>1
  <2>3. made[m + 1].heap = one.heap /\ made[m + 1].values = Append(before.values, one.value)
    BY <2>2 DEF CopiedOneMore
  <2>4. HeapGood(w, before.heap) /\ Grows(h, before.heap) /\ before.heap.scopes = h.scopes
    BY <2>1 DEF Copied
  <2>5. before.heap \in Heap /\ Extends(h, before.heap)
    BY <2>4 DEF HeapGood, Grows
  <2>6. Val(w, before.heap, vs[m + 1])
    BY <1>4, <2>1, <2>5, ValKept
  <2>7. /\ HeapGood(w, one.heap) /\ Grows(before.heap, one.heap)
        /\ one.heap.scopes = before.heap.scopes
        /\ Val(w, one.heap, one.value)
    BY <2>4, <2>6, CopyGood
  <2> HIDE DEF one
  <2>8. one.heap \in Heap /\ Extends(before.heap, one.heap)
    BY <2>7 DEF HeapGood, Grows
  <2>9. Copied(w, h, one.heap)
    BY <1>4, <2>4, <2>5, <2>7, <2>8, GrowsOn DEF Copied
  <2>10. /\ before.values \in Seq(Json) /\ Len(before.values) = m
         /\ Vals(w, one.heap, before.values)
    BY <2>1, <2>5, <2>8, ValsKept
  <2>11. one.value \in Json
    BY <2>7 DEF Val
  <2> HIDE DEF before, Fine
  <2>12. /\ Append(before.values, one.value) \in Seq(Json)
         /\ Len(Append(before.values, one.value)) = m + 1
         /\ \A k \in DOMAIN Append(before.values, one.value) :
              \/ k \in DOMAIN before.values /\ Append(before.values, one.value)[k] = before.values[k]
              \/ Append(before.values, one.value)[k] = one.value
    BY <2>10, <2>11
  <2>13. Vals(w, one.heap, Append(before.values, one.value))
    BY <2>7, <2>10, <2>12 DEF Vals
  <2> QED
    BY <2>3, <2>9, <2>12, <2>13 DEF Fine
<1> HIDE DEF T, Fine
<1>7. T = Nat
  BY <1>5, <1>6, EveryNatural DEF T
<1>8. Fine(n)
  BY <1>7 DEF T
<1> QED
  BY <1>2, <1>8 DEF Fine

-----------------------------------------------------------------------------
(* The inductive invariant.                                                *)

World ==
  [functions |-> {n \in DOMAIN Nodes : Nodes[n].class = "FunctionStatment"}, flagged |-> FALSE]

PlaceRecord ==
  [kind : {"none", "dangling", "Scope", "Array", "Object"}, ref : Nat, key : Text, index : Nat]

OperandRecord == [value : Json, place : PlaceRecord]

(* What a pointer leads to is there, as long as an array that grew did not *)
(* move its elements.                                                      *)
PlaceFits(h, place) ==
  /\ place.kind = "Scope" =>
       place.ref \in 1..Len(h.scopes) /\ place.key \in DOMAIN h.scopes[place.ref].vars
  /\ place.kind = "Array" =>
       place.ref \in 1..Len(h.arrays) /\ place.index + 1 <= Len(h.arrays[place.ref])
  /\ place.kind = "Object" =>
       place.ref \in 1..Len(h.objects) /\ place.key \in DOMAIN h.objects[place.ref]

ArgsGood(w, h, operands) ==
  /\ operands \in Seq(OperandRecord)
  /\ \A i \in 1..Len(operands) : Val(w, h, operands[i].value) /\ PlaceFits(h, operands[i].place)

(* A scope that was entered is younger than all that were on the stack     *)
(* then, and its parent is the one below it.                               *)
EnvsGood(h, e, places) ==
  /\ e \in Seq(Nat) /\ \A i \in 1..Len(e) : e[i] <= Len(h.scopes)
  /\ Len(e) = Len(places)
  /\ \A i \in 1..Len(e) :
       places[i] = "own" =>
         /\ e[i] # 0
         /\ \A j \in 1..(i - 1) : e[j] < e[i]
         /\ h.scopes[e[i]].parent = IF i = 1 THEN 0 ELSE e[i - 1]

WalkInv ==
  /\ program \in Program
  /\ status \in {"walking", "returned", "thrown", "undefined"}
  /\ dfs \in Seq(Entry)
  /\ HeapGood(World, heap)
  /\ ArgsGood(World, heap, args)
  /\ Val(World, heap, result)
  /\ calls = Gathered(dfs, OpenCalls)
  /\ EnvsGood(heap, envs, Gathered(dfs, Places))

-----------------------------------------------------------------------------
(* The graph.                                                              *)

LEMMA NodesKnown ==
  ASSUME program \in Program
  PROVE  /\ Len(Nodes) \in Nat \ {0} /\ DOMAIN Nodes = 1..Len(Nodes)
         /\ \A n \in DOMAIN Nodes : NodeOK(n, Nodes)
BY GraphAssumption DEF GraphOK, Nodes

LEMMA ChildrenKnown ==
  ASSUME program \in Program, NEW n \in DOMAIN Nodes
  PROVE  /\ Nodes[n].children \in Seq(DOMAIN Nodes)
         /\ Nodes[n].str \in Text /\ Nodes[n].int \in Int
         /\ \A i \in 1..Len(Nodes[n].children) : Nodes[n].children[i] \in 1..(n - 1)
<1>1. NodeOK(n, Nodes) /\ DOMAIN Nodes = 1..Len(Nodes) /\ Len(Nodes) \in Nat
  BY NodesKnown
<1>2. /\ Nodes[n].children \in Seq(1..(n - 1)) /\ Nodes[n].str \in Text /\ Nodes[n].int \in Int
  BY <1>1 DEF NodeOK
<1>3. 1..(n - 1) \subseteq DOMAIN Nodes
  BY <1>1
<1> DEFINE kids == Nodes[n].children
<1>4. kids \in Seq(1..(n - 1))
  BY <1>2
<1> HIDE DEF kids
<1>5. kids \in Seq(DOMAIN Nodes) /\ \A i \in 1..Len(kids) : kids[i] \in 1..(n - 1)
  BY <1>3, <1>4
<1> QED
  BY <1>2, <1>5 DEF kids

LEMMA TopKnown ==
  ASSUME program \in Program, dfs \in Seq(Entry), dfs # <<>>
  PROVE  /\ Top \in Entry /\ Top.node \in DOMAIN Nodes /\ Top.pre \in BOOLEAN
         /\ [node |-> Top.node, pre |-> FALSE] \in Entry
         /\ Front(dfs) \in Seq(Entry) /\ dfs = Append(Front(dfs), Top)
         /\ Walked.children \in Seq(DOMAIN Nodes)
<1>1. /\ Front(dfs) \in Seq(Entry) /\ Top \in Entry /\ dfs = Append(Front(dfs), Top)
  BY EndsInElement DEF Top
<1>2. Top.node \in DOMAIN Nodes /\ Top.pre \in BOOLEAN
  <2> DEFINE top == Top
  <2>1. top \in [node : DOMAIN Nodes, pre : BOOLEAN]
    BY <1>1 DEF Entry
  <2> HIDE DEF top
  <2>2. top.node \in DOMAIN Nodes /\ top.pre \in BOOLEAN
    BY <2>1
  <2> QED
    BY <2>2 DEF top
<1>3. [node |-> Top.node, pre |-> FALSE] \in Entry
  BY <1>2 DEF Entry
<1>4. Walked.children \in Seq(DOMAIN Nodes)
  BY <1>1, <1>2, ChildrenKnown DEF Walked
<1> QED
  BY <1>1, <1>2, <1>3, <1>4

(* What goes by the program stays as it is.                                *)
LEMMA ProgramSame ==
  ASSUME program' = program
  PROVE  /\ Nodes' = Nodes /\ World' = World /\ Entry' = Entry
         /\ Places' = Places /\ OpenCalls' = OpenCalls
BY DEF Nodes, World, Entry, Places, OpenCalls

(* What a step has to establish.                                           *)
LEMMA InvKept ==
  ASSUME WalkInv, program' = program,
         status' \in {"walking", "returned", "thrown", "undefined"},
         dfs' \in Seq(Entry), HeapGood(World, heap'), ArgsGood(World, heap', args'),
         Val(World, heap', result'), calls' = Gathered(dfs', OpenCalls),
         EnvsGood(heap', envs', Gathered(dfs', Places))
  PROVE  WalkInv'
<1>1. /\ World' = World /\ Entry' = Entry /\ Places' = Places /\ OpenCalls' = OpenCalls
  BY ProgramSame
<1>2. program \in Program
  BY DEF WalkInv
<1> QED
  BY <1>1, <1>2 DEF WalkInv

-----------------------------------------------------------------------------
(* What entries stand for, as the walk goes down and comes back.           *)

LEMMA StandsFor ==
  /\ Places \in [Entry -> Seq({"own", "borrowed"})]
  /\ OpenCalls \in [Entry -> Seq(DOMAIN Nodes)]
  /\ \A x \in Entry : x.pre => Places[x] = <<>> /\ OpenCalls[x] = <<>>
  /\ \A x \in Entry : ~ x.pre =>
       /\ Nodes[x.node].class = "Scope" => Places[x] = <<"own">> /\ OpenCalls[x] = <<>>
       /\ Nodes[x.node].class = "FunctionScope" =>
            Places[x] = <<"borrowed", "own">> /\ OpenCalls[x] = <<x.node>>
       /\ Nodes[x.node].class \notin {"Scope", "FunctionScope"} =>
            Places[x] = <<>> /\ OpenCalls[x] = <<>>
<1>1. <<>> \in Seq({"own", "borrowed"}) /\ <<"own">> \in Seq({"own", "borrowed"})
      /\ <<"borrowed", "own">> \in Seq({"own", "borrowed"})
  OBVIOUS
<1>2. \A x \in Entry : x.node \in DOMAIN Nodes /\ x.pre \in BOOLEAN
  BY DEF Entry
<1>3. \A x \in Entry : <<>> \in Seq(DOMAIN Nodes) /\ <<x.node>> \in Seq(DOMAIN Nodes)
  BY <1>2
<1>4. Places \in [Entry -> Seq({"own", "borrowed"})]
  BY <1>1 DEF Places
<1>5. OpenCalls \in [Entry -> Seq(DOMAIN Nodes)]
  BY <1>3 DEF OpenCalls
<1>6. \A x \in Entry : x.pre => Places[x] = <<>> /\ OpenCalls[x] = <<>>
  BY DEF Places, OpenCalls
<1>7. ASSUME NEW x \in Entry, ~ x.pre
      PROVE  /\ Nodes[x.node].class = "Scope" => Places[x] = <<"own">> /\ OpenCalls[x] = <<>>
             /\ Nodes[x.node].class = "FunctionScope" =>
                  Places[x] = <<"borrowed", "own">> /\ OpenCalls[x] = <<x.node>>
             /\ Nodes[x.node].class \notin {"Scope", "FunctionScope"} =>
                  Places[x] = <<>> /\ OpenCalls[x] = <<>>
  BY <1>7 DEF Places, OpenCalls
<1> QED
  BY <1>4, <1>5, <1>6, <1>7

LEMMA GatheredNothing ==
  ASSUME NEW T, NEW e \in Seq(T), NEW of, \A i \in 1..Len(e) : of[e[i]] = <<>>
  PROVE  Gathered(e, of) = <<>>
<1> DEFINE nothing == [x \in T |-> <<>>]
           P == {d \in Seq(T) : Gathered(d, nothing) = <<>>}
<1>1. <<>> \in P
  BY GatheredNone, EmptySeq
<1>2. ASSUME NEW d \in Seq(T), NEW x \in T, d \in P PROVE Append(d, x) \in P
  <2>1. Gathered(Append(d, x), nothing) = Gathered(d, nothing) \o nothing[x]
    BY GatheredAppend
  <2>2. Gathered(d, nothing) = <<>> /\ nothing[x] = <<>> /\ Append(d, x) \in Seq(T)
    BY <1>2
  <2>3. <<>> \o <<>> = <<>>
    OBVIOUS
  <2> HIDE DEF nothing
  <2> QED
    BY <2>1, <2>2, <2>3
<1> HIDE DEF P
<1>3. Seq(T) \subseteq P
  BY <1>1, <1>2, AppendInduction
<1>4. Gathered(e, nothing) = <<>>
  BY <1>3 DEF P
<1>5. \A i \in 1..Len(e) : of[e[i]] = nothing[e[i]]
  OBVIOUS
<1> HIDE DEF nothing
<1>6. Gathered(e, of) = Gathered(e, nothing)
  BY <1>5, GatheredSame
<1> QED
  BY <1>4, <1>6

(* What is scheduled has not been entered, so it stands for nothing.       *)
LEMMA ScheduledNothing ==
  ASSUME NEW ids \in Seq(DOMAIN Nodes), NEW of,
         \A x \in Entry : x.pre => of[x] = <<>>
  PROVE  Scheduled(ids) \in Seq(Entry) /\ Gathered(Scheduled(ids), of) = <<>>
<1> DEFINE s == Scheduled(ids)
<1>1. s \in Seq(Entry) /\ \A i \in 1..Len(s) : s[i].pre
  <2>1. Len(ids) \in Nat /\ \A i \in 1..Len(ids) : ids[Len(ids) + 1 - i] \in DOMAIN Nodes
    OBVIOUS
  <2> DEFINE one(i) == [node |-> ids[Len(ids) + 1 - i], pre |-> TRUE]
  <2>2. \A i \in 1..Len(ids) : one(i) \in Entry /\ one(i).pre
    BY <2>1 DEF Entry
  <2>3. s = [i \in 1..Len(ids) |-> one(i)]
    BY DEF Scheduled
  <2> HIDE DEF one, s
  <2>4. s \in [1..Len(ids) -> Entry]
    BY <2>2, <2>3
  <2>5. s \in Seq(Entry) /\ Len(s) = Len(ids)
    BY <2>1, <2>4, FunctionIsSeq
  <2> QED
    BY <2>2, <2>3, <2>5
<1> HIDE DEF s
<1> QED
  BY <1>1, GatheredNothing DEF s

LEMMA GatheredThenNothing ==
  ASSUME NEW T, NEW S, NEW of \in [T -> Seq(S)], NEW e \in Seq(T),
         NEW s \in Seq(T), Gathered(s, of) = <<>>
  PROVE  Gathered(e \o s, of) = Gathered(e, of)
<1>1. Gathered(e \o s, of) = Gathered(e, of) \o Gathered(s, of)
  BY GatheredConcat
<1>2. Gathered(e, of) \in Seq(S)
  BY GatheredType
<1> QED
  BY <1>1, <1>2, ConcatNothing

LEMMA Descended ==
  ASSUME program \in Program, dfs \in Seq(Entry), dfs # <<>>, Top.pre,
         NEW ids \in Seq(DOMAIN Nodes), Descend(ids),
         NEW R, NEW of \in [Entry -> Seq(R)], \A x \in Entry : x.pre => of[x] = <<>>
  PROVE  /\ dfs' \in Seq(Entry)
         /\ Gathered(dfs', of) = Gathered(dfs, of) \o of[[node |-> Top.node, pre |-> FALSE]]
<1> DEFINE e == Front(dfs)
           x == [node |-> Top.node, pre |-> FALSE]
           s == Scheduled(ids)
<1>1. /\ Top \in Entry /\ e \in Seq(Entry) /\ dfs = Append(e, Top) /\ x \in Entry
      /\ dfs' = Append(e, x) \o s
  BY TopKnown DEF Descend, Entered
<1>2. s \in Seq(Entry) /\ Gathered(s, of) = <<>>
  BY ScheduledNothing
<1> HIDE DEF e, x, s
<1> DEFINE a == Append(e, x)
<1>3. a \in Seq(Entry) /\ Gathered(a, of) = Gathered(e, of) \o of[x] /\ dfs' = a \o s
  BY <1>1, GatheredAppend
<1> HIDE DEF a
<1>4. dfs' \in Seq(Entry)
  BY <1>2, <1>3
<1>5. Gathered(dfs', of) = Gathered(a, of)
  <2>1. a \in Seq(Entry) /\ s \in Seq(Entry) /\ Gathered(s, of) = <<>>
        /\ of \in [Entry -> Seq(R)]
    BY <1>2, <1>3
  <2>2. Gathered(a \o s, of) = Gathered(a, of)
    BY ONLY <2>1, GatheredThenNothing
  <2> QED
    BY <1>3, <2>2
<1>6. Gathered(dfs, of) = Gathered(e, of) \o of[Top] /\ of[Top] = <<>> /\ Gathered(e, of) \in Seq(R)
  BY <1>1, GatheredAppend, GatheredType
<1>7. Gathered(dfs, of) = Gathered(e, of)
  BY <1>6, ConcatNothing
<1> QED
  BY <1>3, <1>4, <1>5, <1>7 DEF x

LEMMA Ascended ==
  ASSUME program \in Program, dfs \in Seq(Entry), dfs # <<>>, Ascend,
         NEW of
  PROVE  /\ dfs' \in Seq(Entry)
         /\ Gathered(dfs, of) = Gathered(dfs', of) \o of[Top]
<1>1. /\ Top \in Entry /\ Front(dfs) \in Seq(Entry) /\ dfs = Append(Front(dfs), Top)
      /\ dfs' = Front(dfs)
  BY TopKnown DEF Ascend
<1>2. Gathered(Append(Front(dfs), Top), of) = Gathered(Front(dfs), of) \o of[Top]
  BY <1>1, GatheredAppend
<1> QED
  BY <1>1, <1>2

-----------------------------------------------------------------------------
(* Operands.                                                               *)

LEMMA PlaceKept ==
  ASSUME NEW h \in Heap, NEW g \in Heap, Grows(h, g), NEW place \in PlaceRecord, PlaceFits(h, place)
  PROVE  PlaceFits(g, place)
<1>1. /\ Len(h.scopes) \in Nat /\ Len(h.arrays) \in Nat /\ Len(h.objects) \in Nat
      /\ Len(g.scopes) \in Nat /\ Len(g.arrays) \in Nat /\ Len(g.objects) \in Nat
      /\ \A c \in 1..Len(h.arrays) : Len(h.arrays[c]) \in Nat
      /\ \A c \in 1..Len(g.arrays) : Len(g.arrays[c]) \in Nat
  BY HeapKnown
<1>2. /\ Len(g.scopes) >= Len(h.scopes) /\ Len(g.arrays) >= Len(h.arrays)
      /\ Len(g.objects) >= Len(h.objects)
  BY DEF Grows, Extends
<1>3. place.ref \in Nat /\ place.index \in Nat
  BY DEF PlaceRecord
<1>4. ASSUME place.kind = "Scope"
      PROVE  place.ref \in 1..Len(g.scopes) /\ place.key \in DOMAIN g.scopes[place.ref].vars
  BY <1>1, <1>2, <1>4 DEF PlaceFits, Grows
<1>5. ASSUME place.kind = "Array"
      PROVE  place.ref \in 1..Len(g.arrays) /\ place.index + 1 <= Len(g.arrays[place.ref])
  <2>1. place.ref \in 1..Len(h.arrays) /\ place.index + 1 <= Len(h.arrays[place.ref])
    BY <1>5 DEF PlaceFits
  <2>2. place.ref \in 1..Len(g.arrays)
    BY <1>1, <1>2, <2>1
  <2>3. Len(h.arrays[place.ref]) <= Len(g.arrays[place.ref])
    BY <2>1 DEF Grows
  <2>4. Len(h.arrays[place.ref]) \in Nat /\ Len(g.arrays[place.ref]) \in Nat
    BY <1>1, <2>1, <2>2
  <2> QED
    BY <1>3, <2>1, <2>2, <2>3, <2>4
<1>6. ASSUME place.kind = "Object"
      PROVE  place.ref \in 1..Len(g.objects) /\ place.key \in DOMAIN g.objects[place.ref]
  BY <1>1, <1>2, <1>6 DEF PlaceFits, Grows
<1> QED
  BY <1>4, <1>5, <1>6 DEF PlaceFits

LEMMA ArgsKept ==
  ASSUME NEW w, NEW h \in Heap, NEW g \in Heap, Grows(h, g), NEW a, ArgsGood(w, h, a)
  PROVE  ArgsGood(w, g, a)
<1>1. Extends(h, g)
  BY DEF Grows
<1>2. \A i \in 1..Len(a) : a[i] \in OperandRecord
  BY DEF ArgsGood
<1>3. \A i \in 1..Len(a) : a[i].place \in PlaceRecord
  BY <1>2 DEF OperandRecord
<1>4. \A i \in 1..Len(a) : PlaceFits(g, a[i].place)
  BY <1>3, PlaceKept DEF ArgsGood
<1>5. \A i \in 1..Len(a) : Val(w, g, a[i].value)
  BY <1>1, ValKept DEF ArgsGood
<1> QED
  BY <1>4, <1>5 DEF ArgsGood

LEMMA ArgsPopped ==
  ASSUME NEW w, NEW h, NEW a, ArgsGood(w, h, a), NEW n \in Nat, n <= Len(a)
  PROVE  ArgsGood(w, h, SubSeq(a, 1, Len(a) - n))
<1> DEFINE b == SubSeq(a, 1, Len(a) - n)
<1>1. a \in Seq(OperandRecord)
  BY DEF ArgsGood
<1>2. b \in Seq(OperandRecord) /\ Len(b) = Len(a) - n /\ Len(a) \in Nat
  BY <1>1
<1>3. \A i \in 1..(Len(a) - n) : b[i] = a[i]
  BY <1>1
<1> HIDE DEF b
<1>4. \A i \in 1..Len(b) : i \in 1..Len(a) /\ b[i] = a[i]
  BY <1>2, <1>3
<1>5. ArgsGood(w, h, b)
  BY <1>2, <1>4 DEF ArgsGood
<1> QED
  BY <1>5 DEF b

LEMMA ArgsPushed ==
  ASSUME NEW w, NEW h, NEW a, ArgsGood(w, h, a),
         NEW o \in OperandRecord, Val(w, h, o.value), PlaceFits(h, o.place)
  PROVE  ArgsGood(w, h, Append(a, o))
<1> DEFINE b == Append(a, o)
<1>1. a \in Seq(OperandRecord)
  BY DEF ArgsGood
<1>2. b \in Seq(OperandRecord) /\ Len(b) = Len(a) + 1 /\ Len(a) \in Nat
  BY <1>1
<1>3. \A i \in 1..Len(b) : (i \in 1..Len(a) /\ b[i] = a[i]) \/ b[i] = o
  BY <1>1
<1> HIDE DEF b
<1>4. \A i \in 1..Len(b) : Val(w, h, b[i].value) /\ PlaceFits(h, b[i].place)
  BY <1>3 DEF ArgsGood
<1>5. ArgsGood(w, h, b)
  BY <1>2, <1>4 DEF ArgsGood
<1> QED
  BY <1>5 DEF b

LEMMA TemporaryGood ==
  ASSUME NEW w, NEW h, NEW v, Val(w, h, v)
  PROVE  /\ Temporary(v) \in OperandRecord /\ Val(w, h, Temporary(v).value)
         /\ PlaceFits(h, Temporary(v).place)
<1>1. v \in Json
  BY DEF Val
<1>2. NoPlace \in PlaceRecord /\ NoPlace.kind = "none"
  BY DEF NoPlace, Place, PlaceRecord, Text
<1>3. Temporary(v) \in OperandRecord /\ Temporary(v).value = v /\ Temporary(v).place = NoPlace
  BY <1>1, <1>2 DEF Temporary, OperandRecord
<1> QED
  BY <1>2, <1>3 DEF PlaceFits

LEMMA PointersGood ==
  ASSUME NEW w, NEW h \in Heap
  PROVE  /\ \A s \in 1..Len(h.scopes) : \A x \in DOMAIN h.scopes[s].vars : x \in Text =>
              /\ ToVariable(s, x) \in OperandRecord /\ Val(w, h, ToVariable(s, x).value)
              /\ PlaceFits(h, ToVariable(s, x).place)
         /\ \A c \in 1..Len(h.arrays) : \A i \in Nat : i + 1 <= Len(h.arrays[c]) =>
              /\ ToElement(c, i) \in OperandRecord /\ Val(w, h, ToElement(c, i).value)
              /\ PlaceFits(h, ToElement(c, i).place)
         /\ \A c \in 1..Len(h.objects) : \A k \in DOMAIN h.objects[c] : k \in Text =>
              /\ ToField(c, k) \in OperandRecord /\ Val(w, h, ToField(c, k).value)
              /\ PlaceFits(h, ToField(c, k).place)
<1>1. NullJson \in Json /\ Val(w, h, NullJson)
  BY NullVal DEF Val
<1>2. ASSUME NEW kind \in {"Scope", "Array", "Object"}, NEW ref \in Nat, NEW key \in Text,
             NEW index \in Nat, PlaceFits(h, Place(kind, ref, key, index))
      PROVE  LET o == [value |-> NullJson, place |-> Place(kind, ref, key, index)]
             IN  /\ o \in OperandRecord /\ Val(w, h, o.value) /\ PlaceFits(h, o.place)
  BY <1>1, <1>2 DEF Place, PlaceRecord, OperandRecord
<1>3. ASSUME NEW s \in 1..Len(h.scopes), NEW x \in DOMAIN h.scopes[s].vars, x \in Text
      PROVE  /\ ToVariable(s, x) \in OperandRecord /\ Val(w, h, ToVariable(s, x).value)
             /\ PlaceFits(h, ToVariable(s, x).place)
  <2>1. s \in Nat /\ PlaceFits(h, Place("Scope", s, x, 0))
    BY DEF PlaceFits, Place
  <2> QED
    BY <1>2, <1>3, <2>1 DEF ToVariable
<1>4. ASSUME NEW c \in 1..Len(h.arrays), NEW i \in Nat, i + 1 <= Len(h.arrays[c])
      PROVE  /\ ToElement(c, i) \in OperandRecord /\ Val(w, h, ToElement(c, i).value)
             /\ PlaceFits(h, ToElement(c, i).place)
  <2>1. c \in Nat /\ "" \in Text /\ PlaceFits(h, Place("Array", c, "", i))
    BY <1>4 DEF PlaceFits, Place, Text
  <2> QED
    BY <1>2, <2>1 DEF ToElement
<1>5. ASSUME NEW c \in 1..Len(h.objects), NEW k \in DOMAIN h.objects[c], k \in Text
      PROVE  /\ ToField(c, k) \in OperandRecord /\ Val(w, h, ToField(c, k).value)
             /\ PlaceFits(h, ToField(c, k).place)
  <2>1. c \in Nat /\ PlaceFits(h, Place("Object", c, k, 0))
    BY DEF PlaceFits, Place
  <2> QED
    BY <1>2, <1>5, <2>1 DEF ToField
<1> QED
  BY <1>3, <1>4, <1>5

(* What an operand that is there leads to exists. *)
LEMMA GetGood ==
  ASSUME NEW w, HeapGood(w, heap), NEW o \in OperandRecord, Val(w, heap, o.value),
         PlaceFits(heap, o.place), Valid(o)
  PROVE  Val(w, heap, Get(o))
<1>1. heap \in Heap /\ o.place \in PlaceRecord
  BY DEF HeapGood, OperandRecord
<1>2. o.place.kind \in {"none", "Scope", "Array", "Object"} /\ o.place.index \in Nat
  BY <1>1 DEF Valid, PlaceRecord
<1>3. CASE o.place.kind = "none"
  BY <1>3 DEF Get
<1>4. CASE o.place.kind = "Scope"
  <2>1. o.place.ref \in 1..Len(heap.scopes) /\ o.place.key \in DOMAIN heap.scopes[o.place.ref].vars
    BY <1>4 DEF PlaceFits
  <2>2. Vals(w, heap, heap.scopes[o.place.ref].vars)
    BY <2>1 DEF HeapGood, ScopesGood
  <2>3. Get(o) = heap.scopes[o.place.ref].vars[o.place.key]
    BY <1>4 DEF Get
  <2> QED
    BY <2>1, <2>2, <2>3 DEF Vals
<1>5. CASE o.place.kind = "Array"
  <2>1. o.place.ref \in 1..Len(heap.arrays) /\ o.place.index + 1 <= Len(heap.arrays[o.place.ref])
    BY <1>5 DEF PlaceFits
  <2>2. Vals(w, heap, heap.arrays[o.place.ref])
    BY <2>1 DEF HeapGood
  <2>3. o.place.index + 1 \in DOMAIN heap.arrays[o.place.ref]
    BY <1>1, <1>2, <2>1, HeapKnown
  <2>4. Get(o) = heap.arrays[o.place.ref][o.place.index + 1]
    BY <1>5 DEF Get
  <2> QED
    BY <2>2, <2>3, <2>4 DEF Vals
<1>6. CASE o.place.kind = "Object"
  <2>1. o.place.ref \in 1..Len(heap.objects) /\ o.place.key \in DOMAIN heap.objects[o.place.ref]
    BY <1>6 DEF PlaceFits
  <2>2. Vals(w, heap, heap.objects[o.place.ref])
    BY <2>1 DEF HeapGood
  <2>3. Get(o) = heap.objects[o.place.ref][o.place.key]
    BY <1>6 DEF Get
  <2> QED
    BY <2>1, <2>2, <2>3 DEF Vals
<1> QED
  BY <1>2, <1>3, <1>4, <1>5, <1>6

LEMMA OperandGood ==
  ASSUME NEW w, HeapGood(w, heap), ArgsGood(w, heap, args), NEW n \in Nat, ValidOperands(n),
         NEW i \in 0..(n - 1)
  PROVE  /\ n <= Len(args) /\ Len(args) - i \in 1..Len(args)
         /\ Operand(i) \in OperandRecord /\ PlaceFits(heap, Operand(i).place)
         /\ Operand(i).place.kind \in {"none", "Scope", "Array", "Object"}
         /\ Val(w, heap, Get(Operand(i)))
<1>1. args \in Seq(OperandRecord) /\ Len(args) >= n /\ Valid(Operand(i))
  BY DEF ArgsGood, ValidOperands
<1>2. Len(args) \in Nat /\ Len(args) - i \in 1..Len(args)
  BY <1>1
<1>3. /\ Operand(i) \in OperandRecord /\ PlaceFits(heap, Operand(i).place)
      /\ Val(w, heap, Operand(i).value)
  BY <1>1, <1>2 DEF Operand, ArgsGood
<1>4. Operand(i).place.kind \in {"none", "Scope", "Array", "Object"}
  BY <1>1 DEF Valid
<1>5. Val(w, heap, Get(Operand(i)))
  BY <1>1, <1>3, GetGood
<1> QED
  BY <1>1, <1>2, <1>3, <1>4, <1>5

LEMMA AfterGrowthGood ==
  ASSUME NEW w, NEW h, NEW a, ArgsGood(w, h, a), NEW cell
  PROVE  ArgsGood(w, h, AfterGrowth(a, cell))
<1> DEFINE b == AfterGrowth(a, cell)
           stays(o) == ~ (o.place.kind = "Array" /\ o.place.ref = cell)
<1>1. a \in Seq(OperandRecord) /\ Len(a) \in Nat /\ DOMAIN a = 1..Len(a)
  BY DEF ArgsGood
<1>2. ASSUME NEW o \in OperandRecord
      PROVE  LET gone == [o EXCEPT !.place.kind = "dangling"]
             IN  gone \in OperandRecord /\ gone.value = o.value /\ gone.place.kind = "dangling"
  BY DEF OperandRecord, PlaceRecord
<1>3. b = [i \in 1..Len(a) |-> IF stays(a[i]) THEN a[i] ELSE [a[i] EXCEPT !.place.kind = "dangling"]]
  BY <1>1 DEF AfterGrowth
<1>4. \A i \in 1..Len(a) : a[i] \in OperandRecord
  BY <1>1
<1> HIDE DEF b, stays
<1>5. b \in [1..Len(a) -> OperandRecord]
  BY <1>2, <1>3, <1>4
<1>6. b \in Seq(OperandRecord) /\ Len(b) = Len(a)
  BY <1>1, <1>5, FunctionIsSeq
<1>7. \A i \in 1..Len(a) : b[i] = a[i] \/ (b[i].value = a[i].value /\ b[i].place.kind = "dangling")
  BY <1>2, <1>3, <1>4
<1>8. \A i \in 1..Len(b) : Val(w, h, b[i].value) /\ PlaceFits(h, b[i].place)
  BY <1>6, <1>7 DEF ArgsGood, PlaceFits
<1>9. ArgsGood(w, h, b)
  BY <1>6, <1>8 DEF ArgsGood
<1> QED
  BY <1>9 DEF b

-----------------------------------------------------------------------------
(* The stack of scopes.                                                    *)

LEMMA EnvsKept ==
  ASSUME NEW h \in Heap, NEW g \in Heap, Extends(h, g), SameParents(h, g),
         NEW e, NEW places, EnvsGood(h, e, places)
  PROVE  EnvsGood(g, e, places)
<1>1. Len(h.scopes) \in Nat /\ Len(g.scopes) \in Nat /\ Len(g.scopes) >= Len(h.scopes)
  BY HeapKnown DEF Extends
<1>2. e \in Seq(Nat) /\ Len(e) = Len(places) /\ \A i \in 1..Len(e) : e[i] <= Len(h.scopes)
  BY DEF EnvsGood
<1>3. \A i \in 1..Len(e) : e[i] \in Nat /\ e[i] <= Len(g.scopes)
  BY <1>1, <1>2
<1>4. ASSUME NEW i \in 1..Len(e), places[i] = "own"
      PROVE  /\ e[i] # 0
             /\ \A j \in 1..(i - 1) : e[j] < e[i]
             /\ g.scopes[e[i]].parent = IF i = 1 THEN 0 ELSE e[i - 1]
  <2>1. /\ e[i] # 0
        /\ \A j \in 1..(i - 1) : e[j] < e[i]
        /\ h.scopes[e[i]].parent = IF i = 1 THEN 0 ELSE e[i - 1]
    BY <1>4 DEF EnvsGood
  <2>2. e[i] \in 1..Len(h.scopes)
    BY <1>1, <1>2, <1>3, <2>1
  <2>3. g.scopes[e[i]].parent = h.scopes[e[i]].parent
    BY <2>2 DEF SameParents
  <2> QED
    BY <2>1, <2>3
<1> QED
  BY <1>2, <1>3, <1>4 DEF EnvsGood

(* A scope or a closure on top. *)
LEMMA EnvsAppended ==
  ASSUME NEW h, NEW e, NEW S, NEW places \in Seq(S), EnvsGood(h, e, places), Len(h.scopes) \in Nat,
         NEW n \in 0..Len(h.scopes), NEW kind \in S,
         kind = "own" =>
           /\ n # 0
           /\ \A j \in 1..Len(e) : e[j] < n
           /\ h.scopes[n].parent = IF e = <<>> THEN 0 ELSE Last(e)
  PROVE  EnvsGood(h, Append(e, n), Append(places, kind))
<1> DEFINE f == Append(e, n)
           q == Append(places, kind)
           m == Len(e)
<1>1. e \in Seq(Nat) /\ Len(e) = Len(places) /\ m \in Nat /\ n \in Nat
      /\ \A i \in 1..m : e[i] <= Len(h.scopes)
  BY DEF EnvsGood
<1>2. /\ f \in Seq(Nat) /\ Len(f) = m + 1 /\ Len(q) = m + 1
      /\ f[m + 1] = n /\ q[m + 1] = kind
  BY <1>1
<1>3. \A i \in 1..m : f[i] = e[i] /\ q[i] = places[i]
  BY <1>1
<1>4. e = <<>> <=> m = 0
  BY <1>1
<1>5. m # 0 => Last(e) = e[m]
  BY DEF Last
<1> HIDE DEF f, q
<1>6. \A i \in 1..(m + 1) : f[i] <= Len(h.scopes)
  <2>1. \A i \in 1..(m + 1) : i \in 1..m \/ i = m + 1
    BY <1>1
  <2>2. n <= Len(h.scopes)
    OBVIOUS
  <2>3. \A i \in 1..m : f[i] <= Len(h.scopes)
    BY <1>1, <1>3
  <2> QED
    BY <1>2, <2>1, <2>2, <2>3
<1>7. ASSUME NEW i \in 1..(m + 1), q[i] = "own"
      PROVE  /\ f[i] # 0
             /\ \A j \in 1..(i - 1) : f[j] < f[i]
             /\ h.scopes[f[i]].parent = IF i = 1 THEN 0 ELSE f[i - 1]
  <2>1. CASE i \in 1..m
    <3>1. f[i] = e[i] /\ places[i] = "own" /\ \A j \in 1..(i - 1) : j \in 1..m /\ f[j] = e[j]
      BY <1>3, <1>7, <2>1, <1>1
    <3>2. i # 1 => f[i - 1] = e[i - 1]
      BY <3>1, <2>1, <1>1
    <3> QED
      BY <2>1, <3>1, <3>2 DEF EnvsGood
  <2>2. CASE i = m + 1
    <3>1. kind = "own" /\ f[i] = n
      BY <1>2, <1>7, <2>2
    <3>2. \A j \in 1..(i - 1) : f[j] = e[j] /\ j \in 1..m
      BY <1>1, <1>3, <2>2
    <3>3. i # 1 => f[i - 1] = Last(e) /\ e # <<>>
      BY <1>1, <1>3, <1>4, <1>5, <2>2
    <3>4. i = 1 => e = <<>>
      BY <1>1, <1>4, <2>2
    <3> QED
      BY <3>1, <3>2, <3>3, <3>4
  <2> QED
    BY <1>1, <2>1, <2>2
<1>8. EnvsGood(h, f, q)
  BY <1>2, <1>6, <1>7 DEF EnvsGood
<1> QED
  BY <1>8 DEF f, q

(* What is left when the top goes away. *)
LEMMA EnvsFront ==
  ASSUME NEW h, NEW e, NEW S, NEW places \in Seq(S), NEW kind \in S,
         EnvsGood(h, e, Append(places, kind))
  PROVE  /\ e # <<>> /\ Len(e) \in Nat \ {0}
         /\ Last(e) = e[Len(e)] /\ Last(e) \in Nat /\ Last(e) <= Len(h.scopes)
         /\ Front(e) \in Seq(Nat) /\ Len(Front(e)) = Len(e) - 1
         /\ \A i \in 1..(Len(e) - 1) : Front(e)[i] = e[i]
         /\ EnvsGood(h, Front(e), places)
         /\ kind = "own" => Last(e) # 0 /\ \A i \in 1..(Len(e) - 1) : e[i] < Last(e)
<1> DEFINE q == Append(places, kind)
           m == Len(places)
           f == Front(e)
<1>1. /\ Len(q) = m + 1 /\ m \in Nat /\ q[m + 1] = kind
      /\ \A i \in 1..m : q[i] = places[i]
  OBVIOUS
<1>2. e \in Seq(Nat) /\ Len(e) = m + 1 /\ \A i \in 1..(m + 1) : e[i] <= Len(h.scopes)
  BY <1>1 DEF EnvsGood
<1>3. e # <<>>
  BY <1>1, <1>2
<1>4. /\ f \in Seq(Nat) /\ Last(e) \in Nat /\ Len(f) = m /\ \A i \in 1..m : f[i] = e[i]
  <2>1. /\ f \in Seq(Nat) /\ Last(e) \in Nat /\ Len(f) = Len(e) - 1
        /\ \A i \in 1..(Len(e) - 1) : f[i] = e[i]
    BY <1>2, <1>3, EndsInElement
  <2>2. Len(e) - 1 = m
    BY <1>1, <1>2
  <2> QED
    BY <2>1, <2>2
<1>5. Last(e) = e[m + 1]
  BY <1>2 DEF Last
<1>6. \A i \in 1..(m + 1) : q[i] = "own" =>
        /\ e[i] # 0
        /\ \A j \in 1..(i - 1) : e[j] < e[i]
        /\ h.scopes[e[i]].parent = IF i = 1 THEN 0 ELSE e[i - 1]
  BY <1>2 DEF EnvsGood
<1> HIDE DEF q, f, m
<1>7. ASSUME NEW i \in 1..m, places[i] = "own"
      PROVE  /\ f[i] # 0
             /\ \A j \in 1..(i - 1) : f[j] < f[i]
             /\ h.scopes[f[i]].parent = IF i = 1 THEN 0 ELSE f[i - 1]
  <2>1. /\ i \in 1..(m + 1) /\ q[i] = "own" /\ f[i] = e[i]
        /\ \A j \in 1..(i - 1) : f[j] = e[j]
    BY <1>1, <1>4, <1>7
  <2>2. i # 1 => f[i - 1] = e[i - 1]
    BY <1>1, <1>4
  <2> QED
    BY <1>6, <2>1, <2>2
<1>8. EnvsGood(h, f, places)
  <2>1. \A i \in 1..m : f[i] <= Len(h.scopes)
    BY <1>1, <1>2, <1>4
  <2> QED
    BY <1>4, <1>7, <2>1 DEF EnvsGood, m
<1>9. kind = "own" => Last(e) # 0 /\ \A i \in 1..m : e[i] < Last(e)
  <2> SUFFICES ASSUME kind = "own" PROVE Last(e) # 0 /\ \A i \in 1..m : e[i] < Last(e)
    OBVIOUS
  <2>1. m + 1 \in 1..(m + 1) /\ q[m + 1] = "own" /\ (m + 1) - 1 = m
    BY <1>1
  <2>2. e[m + 1] # 0 /\ \A j \in 1..((m + 1) - 1) : e[j] < e[m + 1]
    BY <1>6, <2>1
  <2> QED
    BY <1>5, <2>1, <2>2
<1>10. Len(e) = m + 1 /\ Len(e) \in Nat \ {0} /\ Len(e) - 1 = m
  BY <1>1, <1>2
<1>11. Last(e) <= Len(h.scopes)
  BY <1>1, <1>2, <1>5
<1> QED
  BY <1>3, <1>4, <1>5, <1>8, <1>9, <1>10, <1>11 DEF f

(* Nothing that the scopes of e can see is cut. *)
Unharmed(h, e, g) ==
  \A i \in 1..Len(e) : \A s \in 1..e[i] : g.scopes[s].parent = h.scopes[s].parent

(* A scope is left: breakCycles and popScope.                              *)
LEMMA LeaveGood ==
  ASSUME NEW w, NEW h, HeapGood(w, h), NEW e, NEW S, NEW places \in Seq(S), "own" \in S,
         EnvsGood(h, e, Append(places, "own"))
  PROVE  LET left == LeaveScope([heap |-> h, envs |-> e])
         IN  /\ HeapGood(w, left.heap) /\ Grows(h, left.heap)
             /\ Len(left.heap.scopes) = Len(h.scopes)
             /\ left.envs = Front(e)
             /\ EnvsGood(left.heap, left.envs, places)
             /\ Unharmed(h, left.envs, left.heap)
<1> DEFINE dying == Last(e)
           g == BreakCycles(h, dying)
           f == Front(e)
<1>1. /\ dying \in Nat /\ dying <= Len(h.scopes) /\ dying # 0
      /\ f \in Seq(Nat) /\ Len(f) = Len(e) - 1 /\ Len(e) \in Nat \ {0}
      /\ EnvsGood(h, f, places)
      /\ \A i \in 1..(Len(e) - 1) : f[i] = e[i] /\ e[i] < dying
  BY EnvsFront
<1>2. h \in Heap /\ Len(h.scopes) \in Nat /\ ScopesGood(w, h, h.scopes)
  BY HeapKnown DEF HeapGood
<1>3. dying \in 1..Len(h.scopes)
  BY <1>1, <1>2
<1>4. LeaveScope([heap |-> h, envs |-> e]) = [heap |-> g, envs |-> f]
  BY <1>1 DEF LeaveScope
<1>5. /\ HeapGood(w, g) /\ Extends(h, g) /\ Len(g.scopes) = Len(h.scopes)
      /\ \A s \in 1..Len(h.scopes) :
           \/ g.scopes[s].parent = h.scopes[s].parent
           \/ h.scopes[s].parent = dying /\ g.scopes[s].parent = 0
  BY <1>3, BreakCyclesGood
<1>6. Grows(h, g)
  BY <1>3, BreakHeap
<1>7. g \in Heap
  BY <1>5 DEF HeapGood
<1>8. \A s \in 1..Len(h.scopes) : h.scopes[s].parent \in 0..(s - 1)
  BY <1>2, ParentsKnown DEF ScopesGood
<1> HIDE DEF g, f, dying
<1>9. \A s \in 1..dying : g.scopes[s].parent = h.scopes[s].parent
  <2> SUFFICES ASSUME NEW s \in 1..dying PROVE g.scopes[s].parent = h.scopes[s].parent
    OBVIOUS
  <2>1. s \in 1..Len(h.scopes) /\ s \in Nat
    BY <1>2, <1>3
  <2>2. h.scopes[s].parent \in 0..(s - 1)
    BY <1>8, <2>1
  <2>3. h.scopes[s].parent # dying
    BY <1>1, <2>1, <2>2
  <2> QED
    BY <1>5, <2>1, <2>3
<1>10. \A i \in 1..Len(f) : f[i] \in Nat /\ f[i] < dying
  BY <1>1
<1>11. Unharmed(h, f, g)
  BY <1>1, <1>9, <1>10 DEF Unharmed
<1>12. EnvsGood(g, f, places)
  <2>1. /\ f \in Seq(Nat) /\ Len(f) = Len(places) /\ \A i \in 1..Len(f) : f[i] <= Len(g.scopes)
    BY <1>1, <1>5 DEF EnvsGood
  <2>2. ASSUME NEW i \in 1..Len(f), places[i] = "own"
        PROVE  /\ f[i] # 0
               /\ \A j \in 1..(i - 1) : f[j] < f[i]
               /\ g.scopes[f[i]].parent = IF i = 1 THEN 0 ELSE f[i - 1]
    <3>1. /\ f[i] # 0
          /\ \A j \in 1..(i - 1) : f[j] < f[i]
          /\ h.scopes[f[i]].parent = IF i = 1 THEN 0 ELSE f[i - 1]
      BY <1>1, <2>2 DEF EnvsGood
    <3>2. f[i] \in 1..dying
      BY <1>1, <1>10, <3>1
    <3>3. g.scopes[f[i]].parent = h.scopes[f[i]].parent
      BY <1>9, <3>2
    <3> QED
      BY <3>1, <3>3
  <2> QED
    BY <2>1, <2>2 DEF EnvsGood
<1>13. /\ LeaveScope([heap |-> h, envs |-> e]).heap = g
       /\ LeaveScope([heap |-> h, envs |-> e]).envs = f
  BY <1>4
<1> QED
  BY <1>5, <1>6, <1>11, <1>12, <1>13 DEF f

-----------------------------------------------------------------------------
(* A goto leaves several scopes, one after the other.                      *)

LeftUpTo(f, n) ==
  f = [i \in 0..n |-> IF i = 0 THEN [heap |-> heap, envs |-> envs] ELSE LeaveScope(f[i - 1])]

LEMMA LeftExists ==
  ASSUME NEW n \in Nat
  PROVE  \E f : LeftUpTo(f, n)
<1> DEFINE T == {m \in Nat : \E f : LeftUpTo(f, m)}
           first == [heap |-> heap, envs |-> envs]
<1>1. 0 \in T
  <2>1. LeftUpTo([i \in 0..0 |-> first], 0)
    BY DEF LeftUpTo
  <2> QED
    BY <2>1
<1> HIDE DEF first
<1>2. ASSUME NEW m \in T PROVE m + 1 \in T
  <2>1. PICK f : LeftUpTo(f, m)
    OBVIOUS
  <2> DEFINE last == LeaveScope(f[m])
             g == [i \in 0..(m + 1) |-> IF i = m + 1 THEN last ELSE f[i]]
  <2>2. ASSUME NEW i \in 0..(m + 1)
        PROVE  g[i] = IF i = 0 THEN first ELSE LeaveScope(g[i - 1])
    <3>1. CASE i = m + 1
      <4>1. i # 0 /\ g[i - 1] = f[m] /\ g[i] = last
        BY <3>1
      <4> HIDE DEF g
      <4> QED
        BY <4>1, Zenon
    <3>2. CASE i \in 0..m
      <4>1. g[i] = f[i] /\ (i # 0 => g[i - 1] = f[i - 1])
        BY <3>2
      <4>2. f[i] = IF i = 0 THEN first ELSE LeaveScope(f[i - 1])
        BY <2>1, <3>2 DEF LeftUpTo, first
      <4> QED
        BY <4>1, <4>2
    <3> QED
      BY <3>1, <3>2
  <2>3. LeftUpTo(g, m + 1)
    <3> HIDE DEF last
    <3>1. g = [i \in 0..(m + 1) |-> g[i]]
      OBVIOUS
    <3> HIDE DEF g
    <3> QED
      BY <2>2, <3>1, Zenon DEF LeftUpTo, first
  <2> QED
    BY <2>3
<1> HIDE DEF T
<1>3. T = Nat
  BY <1>1, <1>2, EveryNatural DEF T
<1> QED
  BY <1>3 DEF T

LEMMA LeftStep ==
  ASSUME NEW f, NEW n \in Nat, LeftUpTo(f, n)
  PROVE  /\ f[0] = [heap |-> heap, envs |-> envs]
         /\ \A k \in Nat : k + 1 <= n => f[k + 1] = LeaveScope(f[k])
<1> DEFINE first == [heap |-> heap, envs |-> envs]
           Body(i) == IF i = 0 THEN first ELSE LeaveScope(f[i - 1])
<1>1. \A i \in 0..n : f[i] = Body(i)
  BY DEF LeftUpTo
<1> HIDE DEF first
<1>2. f[0] = Body(0)
  BY <1>1
<1>3. ASSUME NEW k \in Nat, k + 1 <= n
      PROVE  f[k + 1] = Body(k + 1) /\ (k + 1) - 1 = k /\ k + 1 # 0
  <2> HIDE DEF Body
  <2>1. k + 1 \in 0..n
    BY <1>3
  <2> QED
    BY <1>1, <2>1
<1> QED
  BY <1>2, <1>3 DEF first

Owns(n) == [i \in 1..n |-> "own"]

LEMMA OwnsKnown ==
  /\ Owns(0) = <<>>
  /\ \A n \in Nat : Owns(n) \in Seq({"own"}) /\ Len(Owns(n)) = n
  /\ \A n \in Nat : Owns(n + 1) = Append(Owns(n), "own")
  /\ \A q \in Seq({"own"}) : q = Owns(Len(q))
<1>1. ASSUME NEW n \in Nat PROVE Owns(n) \in Seq({"own"}) /\ Len(Owns(n)) = n
  <2>1. Owns(n) \in [1..n -> {"own"}]
    BY DEF Owns
  <2> QED
    BY <2>1, FunctionIsSeq
<1>2. ASSUME NEW q \in Seq({"own"}) PROVE q = Owns(Len(q))
  <2>1. Owns(Len(q)) \in Seq({"own"}) /\ Len(Owns(Len(q))) = Len(q)
    BY <1>1
  <2>2. \A i \in 1..Len(q) : q[i] = "own" /\ Owns(Len(q))[i] = "own"
    BY DEF Owns
  <2> HIDE DEF Owns
  <2> QED
    BY <2>1, <2>2
<1>3. ASSUME NEW n \in Nat PROVE Owns(n + 1) = Append(Owns(n), "own")
  <2> DEFINE q == Append(Owns(n), "own")
  <2>1. q \in Seq({"own"}) /\ Len(q) = n + 1
    BY <1>1
  <2> HIDE DEF q
  <2>2. q = Owns(Len(q))
    BY <1>2, <2>1
  <2> QED
    BY <2>1, <2>2 DEF q
<1>4. Owns(0) = <<>>
  <2>1. Owns(0) \in Seq({"own"}) /\ Len(Owns(0)) = 0
    BY <1>1
  <2> QED
    BY <2>1
<1> QED
  BY <1>1, <1>2, <1>3, <1>4

LEMMA LeaveScopesGood ==
  ASSUME NEW w, HeapGood(w, heap), NEW S, "own" \in S, NEW lower \in Seq(S), NEW n \in Nat,
         EnvsGood(heap, envs, lower \o Owns(n))
  PROVE  LET left == LeaveScopes(n)
         IN  /\ HeapGood(w, left.heap) /\ Grows(heap, left.heap)
             /\ EnvsGood(left.heap, left.envs, lower)
             /\ Unharmed(heap, left.envs, left.heap)
<1> DEFINE left == CHOOSE f : LeftUpTo(f, n)
           Fine(m) == /\ HeapGood(w, left[m].heap) /\ Grows(heap, left[m].heap)
                      /\ Len(left[m].heap.scopes) = Len(heap.scopes)
                      /\ EnvsGood(left[m].heap, left[m].envs, lower \o Owns(n - m))
                      /\ Unharmed(heap, left[m].envs, left[m].heap)
           T == {m \in Nat : m <= n => Fine(m)}
<1>1. LeftUpTo(left, n)
  BY LeftExists
<1>2. LeaveScopes(n) = left[n]
  BY DEF LeaveScopes, LeftUpTo
<1> HIDE DEF left
<1>3. /\ left[0] = [heap |-> heap, envs |-> envs]
      /\ \A k \in Nat : k + 1 <= n => left[k + 1] = LeaveScope(left[k])
  BY <1>1, LeftStep
<1>4. 0 \in T
  <2>1. left[0].heap = heap /\ left[0].envs = envs /\ n - 0 = n
    BY <1>3
  <2>2. Grows(heap, heap)
    BY GrowsItself DEF HeapGood
  <2>3. Unharmed(heap, envs, heap)
    BY DEF Unharmed
  <2> QED
    BY <2>1, <2>2, <2>3
<1>5. ASSUME NEW m \in T PROVE m + 1 \in T
  <2> SUFFICES ASSUME m + 1 <= n PROVE Fine(m + 1)
    BY <1>5
  <2> DEFINE h == left[m].heap
             e == left[m].envs
             k == n - (m + 1)
             rest == lower \o Owns(k)
             next == LeaveScope([heap |-> h, envs |-> e])
  <2>1. m \in Nat /\ m <= n /\ k \in Nat /\ n - m = k + 1
    BY <1>5
  <2>2. /\ HeapGood(w, h) /\ Grows(heap, h) /\ Unharmed(heap, e, h)
        /\ Len(h.scopes) = Len(heap.scopes)
        /\ EnvsGood(h, e, lower \o Owns(n - m))
    BY <1>5, <2>1
  <2>3. Owns(k + 1) = Append(Owns(k), "own") /\ Owns(k) \in Seq(S)
    <3>1. Owns(k) \in Seq({"own"})
      BY <2>1, OwnsKnown
    <3>2. Owns(k + 1) = Append(Owns(k), "own")
      BY <2>1, OwnsKnown
    <3> HIDE DEF k
    <3> QED
      BY <3>1, <3>2
  <2> HIDE DEF k
  <2>4. rest \in Seq(S)
    BY <2>3
  <2>5. lower \o Append(Owns(k), "own") = Append(rest, "own")
    BY <2>3
  <2>6. EnvsGood(h, e, Append(rest, "own"))
    BY <2>1, <2>2, <2>3, <2>5
  <2> HIDE DEF rest
  <2>7. /\ HeapGood(w, next.heap) /\ Grows(h, next.heap)
        /\ Len(next.heap.scopes) = Len(h.scopes)
        /\ next.envs = Front(e)
        /\ EnvsGood(next.heap, next.envs, rest)
        /\ Unharmed(h, next.envs, next.heap)
    BY <2>2, <2>4, <2>6, LeaveGood
  <2>8. left[m + 1] = next
    <3>1. left[m + 1] = LeaveScope(left[m])
      BY <1>3, <2>1
    <3> QED
      BY <3>1 DEF LeaveScope
  <2> HIDE DEF next
  <2>9. Len(Front(e)) = Len(e) - 1 /\ Len(e) \in Nat
        /\ \A i \in 1..(Len(e) - 1) : Front(e)[i] = e[i]
    <3>1. e \in Seq(Nat) /\ Len(e) = Len(Append(rest, "own"))
      BY <2>6 DEF EnvsGood
    <3>2. e # <<>>
      BY <2>4, <3>1
    <3> QED
      BY <3>1, <3>2, EndsInElement
  <2>10. Unharmed(heap, next.envs, next.heap)
    <3> DEFINE f == next.envs
    <3>1. Len(f) = Len(e) - 1 /\ \A i \in 1..Len(f) : i \in 1..Len(e) /\ f[i] = e[i]
      BY <2>7, <2>9
    <3>2. \A i \in 1..Len(f) : \A s \in 1..f[i] : next.heap.scopes[s].parent = h.scopes[s].parent
      BY <2>7 DEF Unharmed
    <3>3. \A i \in 1..Len(e) : \A s \in 1..e[i] : h.scopes[s].parent = heap.scopes[s].parent
      BY <2>2 DEF Unharmed
    <3> HIDE DEF f, e, h
    <3>4. Unharmed(heap, f, next.heap)
      BY <3>1, <3>2, <3>3 DEF Unharmed
    <3> QED
      BY <3>4 DEF f
  <2>11. heap \in Heap /\ h \in Heap /\ next.heap \in Heap
    BY <2>2, <2>7 DEF HeapGood
  <2> HIDE DEF h, e
  <2>12. Grows(heap, next.heap)
    BY <2>2, <2>7, <2>11, GrowsOn
  <2> QED
    BY <2>2, <2>7, <2>8, <2>10, <2>12 DEF k, rest
<1> HIDE DEF T
<1>6. T = Nat
  BY <1>4, <1>5, EveryNatural DEF T
<1>7. Fine(n)
  BY <1>6 DEF T
<1>8. lower \o Owns(n - n) = lower
  <2>1. n - n = 0 /\ Owns(0) = <<>>
    BY OwnsKnown
  <2>2. lower \o <<>> = lower
    OBVIOUS
  <2> QED
    BY <2>1, <2>2
<1> QED
  BY <1>2, <1>7, <1>8

-----------------------------------------------------------------------------
(* Cutting the walk back: a goto to its loop, a return to its call.        *)

LEMMA SplitAt ==
  ASSUME NEW T, NEW e \in Seq(T), NEW k \in 0..Len(e), NEW n \in k..Len(e)
  PROVE  /\ SubSeq(e, 1, k) \in Seq(T) /\ SubSeq(e, k + 1, n) \in Seq(T)
         /\ SubSeq(e, 1, k) \o SubSeq(e, k + 1, n) = SubSeq(e, 1, n)
         /\ SubSeq(e, 1, n) \in Seq(T) /\ SubSeq(e, 1, Len(e)) = e
         /\ SubSeq(e, n + 1, n) = <<>>
<1>1. Len(e) \in Nat /\ k \in Nat /\ n \in Nat
  OBVIOUS
<1>2. 1 \in 1..(Len(e) + 1) /\ k \in (1 - 1)..Len(e)
  BY <1>1
<1>3. SubSeq(e, 1, k) \o SubSeq(e, k + 1, n) = SubSeq(e, 1, n)
  BY <1>2, ConcatAdjacentSubSeq
<1>4. SubSeq(e, 1, Len(e)) = e
  BY SubSeqFull
<1>5. SubSeq(e, 1, k) \in Seq(T) /\ SubSeq(e, 1, n) \in Seq(T)
  BY <1>1
<1>6. SubSeq(e, k + 1, n) \in Seq(T)
  <2>1. \A i \in (k + 1)..n : e[i] \in T
    BY <1>1
  <2>2. k + 1 \in Int /\ n \in Int
    BY <1>1
  <2> QED
    BY ONLY <2>1, <2>2, SubSeqProperties
<1>7. SubSeq(e, n + 1, n) = <<>>
  BY <1>1, SubSeqEmpty
<1> QED
  BY <1>3, <1>4, <1>5, <1>6, <1>7

LEMMA NearestKnown ==
  ASSUME dfs \in Seq(Entry), NEW node
  PROVE  Nearest(node) \in 0..Len(dfs)
<1> DEFINE I == {i \in 1..Len(dfs) : dfs[i].node = node}
<1>1. Nearest(node) = IF I # {} THEN Max(I) ELSE 0
  BY DEF Nearest, SelectLastInSeq
<1>2. Len(dfs) \in Nat /\ I \in SUBSET (0..Len(dfs))
  OBVIOUS
<1> HIDE DEF I
<1>3. I # {} => Max(I) \in I
  BY <1>2, LargestElement DEF Max
<1>4. CASE I = {}
  BY <1>1, <1>2, <1>4
<1>5. CASE I # {}
  <2>1. Nearest(node) = Max(I) /\ Max(I) \in I
    BY <1>1, <1>3, <1>5
  <2> QED
    BY <1>2, <2>1
<1> QED
  BY <1>4, <1>5

LEMMA WaysKnown ==
  /\ WayDown \in [Entry -> Seq(Entry)] /\ WayBack \in [Entry -> Seq(Entry)]
  /\ OpenScopes \in [Entry -> Seq(Entry)]
<1>1. \A x \in Entry : <<x>> \in Seq(Entry) /\ <<>> \in Seq(Entry)
  OBVIOUS
<1> QED
  BY <1>1 DEF WayDown, WayBack, OpenScopes

LEMMA GatheredOne ==
  ASSUME NEW T, NEW x \in T, NEW S, NEW of \in [T -> Seq(S)]
  PROVE  Gathered(<<x>>, of) = of[x]
<1>1. <<>> \in Seq(T) /\ Append(<<>>, x) = <<x>> /\ of[x] \in Seq(S)
  OBVIOUS
<1>2. Gathered(Append(<<>>, x), of) = Gathered(<<>>, of) \o of[x]
  BY <1>1, GatheredAppend
<1>3. <<>> \o of[x] = of[x]
  BY <1>1, ConcatNothing
<1> QED
  BY <1>1, <1>2, <1>3, GatheredNone

(* What stays of some entries when those on their way back, or those on    *)
(* their way down, are taken out.                                          *)
LEMMA WaysGathered ==
  ASSUME NEW R, NEW of \in [Entry -> Seq(R)], \A x \in Entry : x.pre => of[x] = <<>>,
         NEW e \in Seq(Entry)
  PROVE  /\ Gathered(e, WayDown) \in Seq(Entry) /\ Gathered(e, WayBack) \in Seq(Entry)
         /\ Gathered(Gathered(e, WayDown), of) = <<>>
         /\ Gathered(Gathered(e, WayBack), of) = Gathered(e, of)
<1>1. Gathered(e, WayDown) \in Seq(Entry) /\ Gathered(e, WayBack) \in Seq(Entry)
  BY WaysKnown, GatheredType
<1> DEFINE nothing == [x \in Entry |-> <<>>]
<1>2. nothing \in [Entry -> Seq(R)]
  OBVIOUS
<1>3. \A x \in Entry : nothing[x] = <<>>
  OBVIOUS
<1> HIDE DEF nothing
<1>4. ASSUME NEW x \in Entry PROVE Gathered(WayDown[x], of) = nothing[x]
  <2>1. CASE x.pre
    <3>1. WayDown[x] = <<x>>
      BY <2>1 DEF WayDown
    <3> QED
      BY <1>3, <2>1, <3>1, GatheredOne
  <2>2. CASE ~ x.pre
    <3>1. WayDown[x] = <<>>
      BY <2>2 DEF WayDown
    <3> QED
      BY <1>3, <3>1, GatheredNone
  <2> QED
    BY <2>1, <2>2
<1>5. ASSUME NEW x \in Entry PROVE Gathered(WayBack[x], of) = of[x]
  <2>1. CASE x.pre
    <3>1. WayBack[x] = <<>>
      BY <2>1 DEF WayBack
    <3> QED
      BY <2>1, <3>1, GatheredNone
  <2>2. CASE ~ x.pre
    <3>1. WayBack[x] = <<x>>
      BY <2>2 DEF WayBack
    <3> QED
      BY <3>1, GatheredOne
  <2> QED
    BY <2>1, <2>2
<1>6. Gathered(Gathered(e, WayDown), of) = Gathered(e, nothing)
  <2>1. Stands(of, Entry, R) /\ Stands(WayDown, Entry, Entry) /\ Stands(nothing, Entry, R)
    BY <1>2, WaysKnown DEF Stands
  <2> QED
    BY <1>4, <2>1, GatheredTwice
<1>7. Gathered(e, nothing) = <<>>
  BY <1>3, GatheredNothing
<1>8. Gathered(Gathered(e, WayBack), of) = Gathered(e, of)
  <2>1. Stands(of, Entry, R) /\ Stands(WayBack, Entry, Entry)
    BY WaysKnown DEF Stands
  <2> QED
    BY <1>5, <2>1, GatheredTwice
<1> QED
  BY <1>1, <1>6, <1>7, <1>8

LEMMA GotoSplit ==
  ASSUME program \in Program, dfs \in Seq(Entry), dfs # <<>>, NEW loop \in 0..Len(dfs),
         NEW R, NEW of \in [Entry -> Seq(R)], of[Top] = <<>>
  PROVE  /\ SubSeq(dfs, 1, loop) \in Seq(Entry)
         /\ SubSeq(dfs, loop + 1, Len(dfs) - 1) \in Seq(Entry)
         /\ Gathered(dfs, of) = Gathered(SubSeq(dfs, 1, loop), of)
                                  \o Gathered(SubSeq(dfs, loop + 1, Len(dfs) - 1), of)
<1> DEFINE n == Len(dfs) - 1
           lower == SubSeq(dfs, 1, loop)
           above == SubSeq(dfs, loop + 1, n)
<1>1. Len(dfs) \in Nat \ {0} /\ n \in Nat /\ n <= Len(dfs) /\ loop \in Nat
  BY EndsInElement
<1>2. Front(dfs) \in Seq(Entry) /\ dfs = Append(Front(dfs), Top) /\ Top \in Entry
  BY TopKnown
<1>3. CASE loop <= n
  <2>1. n \in loop..Len(dfs)
    BY <1>1, <1>3
  <2>2. lower \in Seq(Entry) /\ above \in Seq(Entry)
    BY <2>1, SplitAt
  <2>3. lower \o above = SubSeq(dfs, 1, n)
    <3> HIDE DEF n
    <3>1. SubSeq(dfs, 1, loop) \o SubSeq(dfs, loop + 1, n) = SubSeq(dfs, 1, n)
      BY ONLY <2>1, SplitAt, dfs \in Seq(Entry), loop \in 0..Len(dfs)
    <3> QED
      BY <3>1
  <2>4. lower \in Seq(Entry) /\ above \in Seq(Entry) /\ lower \o above = SubSeq(dfs, 1, n)
    BY <2>2, <2>3
  <2>5. Front(dfs) = SubSeq(dfs, 1, n)
    BY DEF Front
  <2> HIDE DEF lower, above
  <2>6. Gathered(Append(Front(dfs), Top), of) = Gathered(Front(dfs), of) \o of[Top]
    BY <1>2, GatheredAppend
  <2>7. Gathered(Front(dfs), of) \in Seq(R)
    BY <1>2, GatheredType
  <2>8. Gathered(dfs, of) = Gathered(Front(dfs), of)
    BY <1>2, <2>6, <2>7, ConcatNothing
  <2>9. Gathered(lower \o above, of) = Gathered(lower, of) \o Gathered(above, of)
    BY ONLY <2>4, GatheredConcat, of \in [Entry -> Seq(R)]
  <2> QED
    BY <2>4, <2>5, <2>8, <2>9 DEF lower, above
<1>4. CASE loop = Len(dfs)
  <2>1. lower = dfs
    BY <1>4, SubSeqFull
  <2>2. above = <<>>
    <3>1. n < loop + 1 /\ loop + 1 \in Int /\ n \in Int
      BY <1>1, <1>4
    <3> QED
      BY <3>1, SubSeqEmpty
  <2>3. Gathered(dfs, of) \in Seq(R)
    BY GatheredType
  <2>4. Gathered(dfs, of) \o <<>> = Gathered(dfs, of)
    BY <2>3, ConcatNothing
  <2>5. Gathered(<<>>, of) = <<>> /\ <<>> \in Seq(Entry)
    BY GatheredNone
  <2> QED
    BY <2>1, <2>2, <2>4, <2>5
<1> QED
  BY <1>1, <1>3, <1>4

LEMMA GatheredBesides ==
  ASSUME NEW T, NEW S, NEW of \in [T -> Seq(S)], NEW a \in Seq(T), NEW b \in Seq(T), NEW c \in Seq(T),
         Gathered(b, of) = <<>>, Gathered(c, of) = <<>>
  PROVE  (a \o b) \o c \in Seq(T) /\ Gathered((a \o b) \o c, of) = Gathered(a, of)
<1> DEFINE ab == a \o b
<1>1. ab \in Seq(T)
  OBVIOUS
<1>2. Gathered(ab, of) = Gathered(a, of)
  BY GatheredThenNothing
<1> HIDE DEF ab
<1>3. ab \o c \in Seq(T)
  BY <1>1
<1>4. Gathered(ab \o c, of) = Gathered(ab, of)
  BY <1>1, GatheredThenNothing
<1> QED
  BY <1>2, <1>3, <1>4 DEF ab

LEMMA GotoGathered ==
  ASSUME program \in Program, dfs \in Seq(Entry), dfs # <<>>, NEW loop \in 0..Len(dfs),
         NEW ids \in Seq(DOMAIN Nodes),
         NEW R, NEW of \in [Entry -> Seq(R)], \A x \in Entry : x.pre => of[x] = <<>>, of[Top] = <<>>,
         dfs' = SubSeq(dfs, 1, loop)
                  \o Gathered(SubSeq(dfs, loop + 1, Len(dfs) - 1), WayDown) \o Scheduled(ids)
  PROVE  dfs' \in Seq(Entry) /\ Gathered(dfs', of) = Gathered(SubSeq(dfs, 1, loop), of)
<1> DEFINE lower == SubSeq(dfs, 1, loop)
           above == SubSeq(dfs, loop + 1, Len(dfs) - 1)
           stays == Gathered(above, WayDown)
           s     == Scheduled(ids)
<1>1. lower \in Seq(Entry) /\ above \in Seq(Entry)
  BY GotoSplit
<1>2. stays \in Seq(Entry) /\ Gathered(stays, of) = <<>>
  BY <1>1, WaysGathered
<1>3. s \in Seq(Entry) /\ Gathered(s, of) = <<>>
  BY ScheduledNothing
<1>4. dfs' = (lower \o stays) \o s
  OBVIOUS
<1> HIDE DEF lower, above, stays, s
<1>5. (lower \o stays) \o s \in Seq(Entry)
  BY <1>1, <1>2, <1>3
<1>6. Gathered((lower \o stays) \o s, of) = Gathered(lower, of)
  BY ONLY <1>1, <1>2, <1>3, of \in [Entry -> Seq(R)], GatheredBesides
<1> QED
  BY <1>4, <1>5, <1>6 DEF lower

LEMMA ReturnGathered ==
  ASSUME program \in Program, dfs \in Seq(Entry), dfs # <<>>, NEW call \in 0..Len(dfs),
         NEW ids \in Seq(DOMAIN Nodes),
         NEW R, NEW of \in [Entry -> Seq(R)], \A x \in Entry : x.pre => of[x] = <<>>,
         of[Top] = <<>>, of[[node |-> Top.node, pre |-> FALSE]] = <<>>,
         dfs' = SubSeq(dfs, 1, call)
                  \o Gathered(SubSeq(Entered, call + 1, Len(dfs)), WayBack) \o Scheduled(ids)
  PROVE  dfs' \in Seq(Entry) /\ Gathered(dfs', of) = Gathered(dfs, of)
<1> DEFINE n     == Len(dfs)
           e     == Entered
           x     == [node |-> Top.node, pre |-> FALSE]
           lower == SubSeq(dfs, 1, call)
           above == SubSeq(e, call + 1, n)
           stays == Gathered(above, WayBack)
           s     == Scheduled(ids)
<1>1. /\ Front(dfs) \in Seq(Entry) /\ dfs = Append(Front(dfs), Top) /\ Top \in Entry
      /\ x \in Entry /\ e = Append(Front(dfs), x)
  BY TopKnown DEF Entered
<1>2. /\ n \in Nat \ {0} /\ Len(Front(dfs)) = n - 1
      /\ \A i \in 1..(n - 1) : Front(dfs)[i] = dfs[i]
  BY EndsInElement
<1> HIDE DEF x, e, n
<1>3. e \in Seq(Entry) /\ Len(e) = n /\ \A i \in 1..(n - 1) : e[i] = Front(dfs)[i]
  BY <1>1, <1>2
<1>4. Gathered(e, of) = Gathered(dfs, of)
  <2>1. /\ Gathered(Append(Front(dfs), Top), of) = Gathered(Front(dfs), of) \o of[Top]
        /\ Gathered(Append(Front(dfs), x), of) = Gathered(Front(dfs), of) \o of[x]
    BY <1>1, GatheredAppend
  <2>2. of[Top] = of[x]
    BY DEF x
  <2> QED
    BY <1>1, <2>1, <2>2
<1>5. /\ lower \in Seq(Entry) /\ above \in Seq(Entry)
      /\ Gathered(dfs, of) = Gathered(lower, of) \o Gathered(above, of)
  <2>1. CASE call < n
    <3>1. call \in 0..Len(e) /\ n \in call..Len(e)
      BY <1>2, <1>3, <2>1 DEF n
    <3>2. lower = SubSeq(e, 1, call)
      <4>1. call \in 0..(n - 1)
        BY <1>2, <2>1 DEF n
      <4>2. \A i \in 1..call : dfs[i] = e[i]
        BY <1>2, <1>3, <4>1
      <4>3. lower = [i \in 1..call |-> dfs[i]] /\ SubSeq(e, 1, call) = [i \in 1..call |-> e[i]]
        BY <1>2, <4>1
      <4> QED
        BY <4>2, <4>3
    <3>3. SubSeq(e, 1, call) \in Seq(Entry)
      BY <1>3, <3>1, SplitAt
    <3>4. above \in Seq(Entry)
      BY <1>3, <3>1, SplitAt
    <3>5. SubSeq(e, 1, call) \o above = SubSeq(e, 1, n)
      <4>1. e \in Seq(Entry)
        BY <1>3
      <4>2. SubSeq(e, 1, call) \o SubSeq(e, call + 1, n) = SubSeq(e, 1, n)
        BY ONLY <3>1, <4>1, SplitAt
      <4> QED
        BY <4>2
    <3>6. SubSeq(e, 1, n) = e
      BY <1>3, SubSeqFull
    <3> HIDE DEF lower, above
    <3>7. Gathered(lower \o above, of) = Gathered(lower, of) \o Gathered(above, of)
      <4>1. lower \in Seq(Entry) /\ above \in Seq(Entry)
        BY <3>2, <3>3, <3>4
      <4> QED
        BY ONLY <4>1, GatheredConcat, of \in [Entry -> Seq(R)]
    <3> QED
      BY <1>4, <3>2, <3>3, <3>4, <3>5, <3>6, <3>7
  <2>2. CASE call = n
    <3>1. lower = dfs
      BY <2>2, SubSeqFull DEF n
    <3>2. above = <<>>
      <4>1. n < call + 1 /\ call + 1 \in Int /\ n \in Int
        BY <1>2, <2>2
      <4> QED
        BY <4>1, SubSeqEmpty
    <3>3. Gathered(dfs, of) \in Seq(R)
      BY GatheredType
    <3>4. Gathered(dfs, of) \o <<>> = Gathered(dfs, of)
      BY <3>3, ConcatNothing
    <3>5. Gathered(<<>>, of) = <<>> /\ <<>> \in Seq(Entry)
      BY GatheredNone
    <3> QED
      BY <3>1, <3>2, <3>4, <3>5
  <2> QED
    BY SMTT(30), <1>2, <2>1, <2>2 DEF n
<1>6. stays \in Seq(Entry) /\ Gathered(stays, of) = Gathered(above, of)
  BY <1>5, WaysGathered
<1>7. s \in Seq(Entry) /\ Gathered(s, of) = <<>>
  BY ScheduledNothing
<1>8. dfs' = (lower \o stays) \o s
  BY DEF n, e
<1> HIDE DEF lower, above, stays, s
<1> DEFINE both == lower \o stays
<1>9. both \in Seq(Entry)
  BY <1>5, <1>6
<1>10. Gathered(lower \o stays, of) = Gathered(lower, of) \o Gathered(stays, of)
  BY ONLY <1>5, <1>6, GatheredConcat, of \in [Entry -> Seq(R)]
<1>11. Gathered(both, of) = Gathered(dfs, of)
  BY <1>5, <1>6, <1>10
<1> HIDE DEF both
<1>12. Gathered(both \o s, of) = Gathered(both, of)
  BY ONLY <1>7, <1>9, GatheredThenNothing, of \in [Entry -> Seq(R)]
<1>13. both \o s \in Seq(Entry)
  BY <1>7, <1>9
<1> QED
  BY <1>8, <1>11, <1>12, <1>13 DEF both

-----------------------------------------------------------------------------
(* The steps.                                                              *)

(* After a step the invariant holds, and no chain that can still be seen   *)
(* was cut.                                                                *)
StepSafe == WalkInv' /\ (SameParents(heap, heap') \/ Unharmed(heap, envs', heap'))

Plain(class) == class \notin {"Scope", "FunctionScope"}

LEMMA DownPlain ==
  ASSUME WalkInv, dfs # <<>>, Top.pre, NEW ids \in Seq(DOMAIN Nodes), Descend(ids), Plain(Walked.class)
  PROVE  /\ dfs' \in Seq(Entry)
         /\ Gathered(dfs', Places) = Gathered(dfs, Places)
         /\ Gathered(dfs', OpenCalls) = Gathered(dfs, OpenCalls)
<1> DEFINE x == [node |-> Top.node, pre |-> FALSE]
<1>1. program \in Program /\ dfs \in Seq(Entry)
  BY DEF WalkInv
<1>2. x \in Entry /\ ~ x.pre /\ x.node = Top.node
  BY <1>1, TopKnown
<1>3. Places[x] = <<>> /\ OpenCalls[x] = <<>>
  BY <1>2, StandsFor DEF Plain, Walked
<1>4. /\ dfs' \in Seq(Entry)
      /\ Gathered(dfs', Places) = Gathered(dfs, Places) \o Places[x]
  BY <1>1, StandsFor, Descended
<1>5. Gathered(dfs', OpenCalls) = Gathered(dfs, OpenCalls) \o OpenCalls[x]
  BY <1>1, StandsFor, Descended
<1>6. Gathered(dfs, Places) \in Seq({"own", "borrowed"})
  BY <1>1, StandsFor, GatheredType
<1>7. Gathered(dfs, OpenCalls) \in Seq(DOMAIN Nodes)
  BY <1>1, StandsFor, GatheredType
<1> HIDE DEF x
<1> QED
  BY <1>3, <1>4, <1>5, <1>6, <1>7, ConcatNothing

LEMMA UpPlain ==
  ASSUME WalkInv, dfs # <<>>, ~ Top.pre, Ascend, Plain(Walked.class)
  PROVE  /\ dfs' \in Seq(Entry)
         /\ Gathered(dfs', Places) = Gathered(dfs, Places)
         /\ Gathered(dfs', OpenCalls) = Gathered(dfs, OpenCalls)
<1>1. program \in Program /\ dfs \in Seq(Entry)
  BY DEF WalkInv
<1>2. Top \in Entry
  BY <1>1, TopKnown
<1>3. Places[Top] = <<>> /\ OpenCalls[Top] = <<>>
  BY <1>2, StandsFor DEF Plain, Walked
<1>4. /\ dfs' \in Seq(Entry)
      /\ Gathered(dfs, Places) = Gathered(dfs', Places) \o Places[Top]
      /\ Gathered(dfs, OpenCalls) = Gathered(dfs', OpenCalls) \o OpenCalls[Top]
  BY <1>1, Ascended
<1>5. Gathered(dfs', Places) \in Seq({"own", "borrowed"})
  BY <1>4, StandsFor, GatheredType
<1>6. Gathered(dfs', OpenCalls) \in Seq(DOMAIN Nodes)
  BY <1>4, StandsFor, GatheredType
<1> QED
  BY <1>3, <1>4, <1>5, <1>6, ConcatNothing

(* A step that neither enters nor leaves a scope or a call. *)
LEMMA PlainKept ==
  ASSUME WalkInv, program' = program, status' = status,
         dfs' \in Seq(Entry), Gathered(dfs', Places) = Gathered(dfs, Places),
         Gathered(dfs', OpenCalls) = Gathered(dfs, OpenCalls),
         envs' = envs, calls' = calls, result' = result,
         HeapGood(World, heap'), Grows(heap, heap'), SameParents(heap, heap'),
         ArgsGood(World, heap', args')
  PROVE  StepSafe
<1>1. heap \in Heap /\ heap' \in Heap /\ Extends(heap, heap')
  BY DEF WalkInv, HeapGood, Grows
<1>2. Val(World, heap', result')
  BY <1>1, ValKept DEF WalkInv
<1>3. EnvsGood(heap', envs', Gathered(dfs', Places))
  BY <1>1, EnvsKept DEF WalkInv
<1>4. calls' = Gathered(dfs', OpenCalls) /\ status' \in {"walking", "returned", "thrown", "undefined"}
  BY DEF WalkInv
<1>5. WalkInv'
  BY <1>2, <1>3, <1>4, InvKept
<1> QED
  BY <1>5 DEF StepSafe

(* A step that leaves the heap as it is, too. *)
LEMMA HeapSame ==
  ASSUME WalkInv, UNCHANGED heap
  PROVE  /\ HeapGood(World, heap') /\ Grows(heap, heap') /\ SameParents(heap, heap')
         /\ ArgsGood(World, heap', args)
<1>1. heap' = heap /\ HeapGood(World, heap) /\ ArgsGood(World, heap, args)
  BY DEF WalkInv
<1>2. heap \in Heap
  BY <1>1 DEF HeapGood
<1> QED
  BY <1>1, <1>2, GrowsItself

LEMMA PreOrdinarySafe ==
  ASSUME WalkInv, PreOrdinary PROVE StepSafe
<1>1. /\ dfs # <<>> /\ Top.pre /\ Descend(Walked.children) /\ Plain(Walked.class)
      /\ UNCHANGED <<program, status, envs, calls, args, heap, output, result>>
  BY DEF PreOrdinary, Down, At, Ordinary, Plain
<1>2. Walked.children \in Seq(DOMAIN Nodes)
  BY <1>1, TopKnown DEF WalkInv
<1>3. /\ dfs' \in Seq(Entry) /\ Gathered(dfs', Places) = Gathered(dfs, Places)
      /\ Gathered(dfs', OpenCalls) = Gathered(dfs, OpenCalls)
  BY <1>1, <1>2, DownPlain
<1> QED
  BY <1>1, <1>3, HeapSame, PlainKept

LEMMA PostWithoutHandlerSafe ==
  ASSUME WalkInv, PostWithoutHandler PROVE StepSafe
<1>1. /\ dfs # <<>> /\ ~ Top.pre /\ Ascend /\ Plain(Walked.class)
      /\ UNCHANGED <<program, status, envs, calls, args, heap, output, result>>
  BY DEF PostWithoutHandler, Back, At, Plain
<1>2. /\ dfs' \in Seq(Entry) /\ Gathered(dfs', Places) = Gathered(dfs, Places)
      /\ Gathered(dfs', OpenCalls) = Gathered(dfs, OpenCalls)
  BY <1>1, UpPlain
<1> QED
  BY <1>1, <1>2, HeapSame, PlainKept

LEMMA PostLiteralSafe ==
  ASSUME WalkInv, PostLiteral PROVE StepSafe
<1> DEFINE v == IF Walked.class = "F" THEN IntJson(Walked.int) ELSE StringJson(Walked.str)
<1>1. /\ dfs # <<>> /\ ~ Top.pre /\ Ascend /\ Plain(Walked.class)
      /\ args' = Append(args, Temporary(v))
      /\ UNCHANGED <<program, status, envs, calls, heap, output, result>>
  BY DEF PostLiteral, Back, At, Plain
<1>2. /\ dfs' \in Seq(Entry) /\ Gathered(dfs', Places) = Gathered(dfs, Places)
      /\ Gathered(dfs', OpenCalls) = Gathered(dfs, OpenCalls)
  BY <1>1, UpPlain
<1>3. v \in Json /\ v.type \in {"Int", "String"}
  <2>1. Top.node \in DOMAIN Nodes
    BY <1>1, TopKnown DEF WalkInv
  <2>2. Walked.str \in Text /\ Walked.int \in Int
    BY <2>1, ChildrenKnown DEF WalkInv, Walked
  <2> QED
    BY <2>2, ScalarTyped
<1> HIDE DEF v
<1>4. Val(World, heap, v)
  BY <1>3, ScalarGood
<1>5. ArgsGood(World, heap, Append(args, Temporary(v)))
  BY <1>4, TemporaryGood, ArgsPushed DEF WalkInv
<1>6. /\ HeapGood(World, heap') /\ Grows(heap, heap') /\ SameParents(heap, heap')
      /\ ArgsGood(World, heap', args')
  BY <1>1, <1>5, HeapSame
<1> QED
  BY <1>1, <1>2, <1>6, PlainKept

(* The operands below those a step takes. *)
LEMMA Popping ==
  ASSUME WalkInv, NEW n \in Nat, n <= Len(args), NEW g \in Heap, Grows(heap, g)
  PROVE  /\ ArgsGood(World, g, Popped(n))
         /\ \A v : Val(World, g, v) => ArgsGood(World, g, Append(Popped(n), Temporary(v)))
<1>1. heap \in Heap /\ ArgsGood(World, heap, args)
  BY DEF WalkInv, HeapGood
<1>2. ArgsGood(World, g, args)
  BY <1>1, ArgsKept
<1>3. ArgsGood(World, g, Popped(n))
  BY <1>2, ArgsPopped DEF Popped
<1> QED
  BY <1>3, TemporaryGood, ArgsPushed

LEMMA Operands ==
  ASSUME WalkInv, NEW n \in Nat, ValidOperands(n)
  PROVE  /\ n <= Len(args)
         /\ \A i \in 0..(n - 1) :
              /\ Operand(i) \in OperandRecord /\ PlaceFits(heap, Operand(i).place)
              /\ Operand(i).place.kind \in {"none", "Scope", "Array", "Object"}
              /\ Val(World, heap, Get(Operand(i)))
BY OperandGood DEF WalkInv, ValidOperands

LEMMA PostPrintSafe ==
  ASSUME WalkInv, PostPrint PROVE StepSafe
<1>1. /\ dfs # <<>> /\ ~ Top.pre /\ Ascend /\ Plain(Walked.class) /\ ValidOperands(1)
      /\ args' = Popped(1)
      /\ UNCHANGED <<program, status, envs, calls, heap, result>>
  BY DEF PostPrint, Back, At, Plain, Defined
<1>2. /\ dfs' \in Seq(Entry) /\ Gathered(dfs', Places) = Gathered(dfs, Places)
      /\ Gathered(dfs', OpenCalls) = Gathered(dfs, OpenCalls)
  BY <1>1, UpPlain
<1>3. /\ HeapGood(World, heap') /\ Grows(heap, heap') /\ SameParents(heap, heap')
  BY <1>1, HeapSame
<1>4. 1 <= Len(args) /\ heap' \in Heap
  BY <1>1, <1>3 DEF ValidOperands, HeapGood
<1>5. ArgsGood(World, heap', args')
  BY <1>1, <1>3, <1>4, Popping
<1> QED
  BY <1>1, <1>2, <1>3, <1>5, PlainKept

LEMMA PostBinExprSafe ==
  ASSUME WalkInv, PostBinExpr PROVE StepSafe
<1> DEFINE l == Get(Operand(1))
           r == Get(Operand(0))
           v == IF Walked.str \in ArithmeticOps
                THEN Arithmetic(Walked.str, l, r)
                ELSE Compare(Walked.str, heap.arrays, heap.objects, l, r)
<1>1. /\ dfs # <<>> /\ ~ Top.pre /\ Ascend /\ Plain(Walked.class) /\ BinExprDefined
      /\ args' = Append(Popped(2), Temporary(v))
      /\ UNCHANGED <<program, status, envs, calls, heap, result>>
  BY DEF PostBinExpr, Back, At, Plain, Defined
<1>2. /\ dfs' \in Seq(Entry) /\ Gathered(dfs', Places) = Gathered(dfs, Places)
      /\ Gathered(dfs', OpenCalls) = Gathered(dfs, OpenCalls)
  BY <1>1, UpPlain
<1>3. /\ HeapGood(World, heap') /\ Grows(heap, heap') /\ SameParents(heap, heap')
  BY <1>1, HeapSame
<1>4. ValidOperands(2)
  BY <1>1 DEF BinExprDefined
<1>5. 2 <= Len(args) /\ Val(World, heap, l) /\ Val(World, heap, r)
  BY <1>4, Operands
<1>6. l \in Json /\ r \in Json
  BY <1>5 DEF Val
<1>7. v \in Json /\ v.type \in {"Int", "Null", "Bool"}
  <2>1. Walked.str \in ArithmeticOps => ArithmeticDefined(Walked.str, l, r)
    BY <1>1 DEF BinExprDefined
  <2> HIDE DEF l, r
  <2>2. CASE Walked.str \in ArithmeticOps
    <3>1. Walked.str \in {"ADD", "SUB", "MUL", "DIV"} /\ ArithmeticDefined(Walked.str, l, r)
      BY <2>1, <2>2 DEF ArithmeticOps
    <3>2. Arithmetic(Walked.str, l, r) \in Json /\ Arithmetic(Walked.str, l, r).type \in {"Int", "Null"}
      BY <1>6, <3>1, ArithmeticTyped
    <3> QED
      BY <2>2, <3>2
  <2>3. CASE Walked.str \notin ArithmeticOps
    BY <2>3, CompareTyped
  <2> QED
    BY <2>2, <2>3
<1> HIDE DEF v
<1>8. heap' \in Heap /\ Val(World, heap', v)
  BY <1>3, <1>7, ScalarGood DEF HeapGood
<1>9. ArgsGood(World, heap', args')
  BY <1>1, <1>3, <1>5, <1>8, Popping
<1> QED
  BY <1>1, <1>2, <1>3, <1>9, PlainKept

-----------------------------------------------------------------------------
(* How many operands a condition pops.                                     *)

CountFits(f, m) ==
  f = [n \in 1..m |->
         IF Nodes[n].class = "MemberExpression"
         THEN f[Nodes[n].children[1]] + f[Nodes[n].children[2]]
         ELSE 1]

LEMMA CountExists ==
  ASSUME program \in Program, NEW m \in Nat, m <= Len(Nodes)
  PROVE  \E f : CountFits(f, m) /\ \A n \in 1..m : f[n] \in Nat
<1> DEFINE Fine(k) == \E f : CountFits(f, k) /\ \A n \in 1..k : f[n] \in Nat
           T == {k \in Nat : k <= Len(Nodes) => Fine(k)}
<1>1. 0 \in T
  <2>1. CountFits([n \in 1..0 |-> 1], 0)
    BY DEF CountFits
  <2> QED
    BY <2>1
<1>2. ASSUME NEW k \in T PROVE k + 1 \in T
  <2> SUFFICES ASSUME k + 1 <= Len(Nodes) PROVE Fine(k + 1)
    BY <1>2
  <2>1. k \in Nat /\ Len(Nodes) \in Nat /\ DOMAIN Nodes = 1..Len(Nodes)
    BY NodesKnown
  <2>2. PICK f : CountFits(f, k) /\ \A n \in 1..k : f[n] \in Nat
    BY <2>1
  <2> DEFINE of(h, n) == IF Nodes[n].class = "MemberExpression"
                         THEN h[Nodes[n].children[1]] + h[Nodes[n].children[2]]
                         ELSE 1
             g == [n \in 1..(k + 1) |-> IF n = k + 1 THEN of(f, k + 1) ELSE f[n]]
  <2>3. \A n \in 1..(k + 1) : Nodes[n].class = "MemberExpression" =>
          Nodes[n].children[1] \in 1..(n - 1) /\ Nodes[n].children[2] \in 1..(n - 1)
    <3> SUFFICES ASSUME NEW n \in 1..(k + 1), Nodes[n].class = "MemberExpression"
                 PROVE  Nodes[n].children[1] \in 1..(n - 1) /\ Nodes[n].children[2] \in 1..(n - 1)
      OBVIOUS
    <3>1. n \in DOMAIN Nodes
      BY <2>1
    <3>2. NodeOK(n, Nodes)
      BY <3>1, NodesKnown
    <3>3. Len(Nodes[n].children) = 2
      BY <3>2 DEF NodeOK
    <3> QED
      BY <3>1, <3>3, ChildrenKnown
  <2>4. \A n \in 1..k : g[n] = f[n] /\ g[n] \in Nat
    BY <2>1, <2>2
  <2>5. \A n \in 1..k : f[n] = of(f, n)
    BY <2>2 DEF CountFits
  <2>6. \A n \in 1..(k + 1) : of(g, n) = of(f, n) /\ of(f, n) \in Nat
    <3> SUFFICES ASSUME NEW n \in 1..(k + 1) PROVE of(g, n) = of(f, n) /\ of(f, n) \in Nat
      OBVIOUS
    <3> HIDE DEF g
    <3>1. CASE Nodes[n].class = "MemberExpression"
      <4> DEFINE a == Nodes[n].children[1]
                 b == Nodes[n].children[2]
      <4>1. 1..(n - 1) \subseteq 1..k
        BY <2>1
      <4>2. a \in 1..k /\ b \in 1..k
        BY <2>3, <3>1, <4>1
      <4>3. of(g, n) = g[a] + g[b] /\ of(f, n) = f[a] + f[b]
        BY <3>1
      <4> HIDE DEF a, b, of
      <4> QED
        BY <2>2, <2>4, <4>2, <4>3
    <3>2. CASE Nodes[n].class # "MemberExpression"
      BY <3>2
    <3> QED
      BY <3>1, <3>2
  <2>7. \A n \in 1..(k + 1) : g[n] = of(g, n) /\ g[n] \in Nat
    <3>1. g[k + 1] = of(f, k + 1)
      BY <2>1
    <3> HIDE DEF g, of
    <3> QED
      BY <2>1, <2>4, <2>5, <2>6, <3>1
  <2>8. g = [n \in 1..(k + 1) |-> of(g, n)]
    <3>1. g = [n \in 1..(k + 1) |-> g[n]]
      OBVIOUS
    <3> HIDE DEF g, of
    <3> QED
      BY <2>7, <3>1
  <2>9. CountFits(g, k + 1)
    <3> HIDE DEF g
    <3> QED
      BY <2>8, Zenon DEF CountFits
  <2> HIDE DEF g, of
  <2> QED
    BY <2>7, <2>9
<1> HIDE DEF T
<1>3. T = Nat
  BY <1>1, <1>2, EveryNatural DEF T
<1> QED
  BY <1>3 DEF T

LEMMA OperandsOfTyped ==
  ASSUME program \in Program, NEW node \in DOMAIN Nodes
  PROVE  OperandsOf(node) \in Nat
<1> DEFINE count == CHOOSE f : CountFits(f, Len(Nodes))
<1>1. Len(Nodes) \in Nat /\ DOMAIN Nodes = 1..Len(Nodes)
  BY NodesKnown
<1>2. \E f : CountFits(f, Len(Nodes))
  BY <1>1, CountExists
<1>3. CountFits(count, Len(Nodes))
  BY <1>2
<1>4. OperandsOf(node) = count[node]
  BY <1>1 DEF OperandsOf, CountFits
<1> HIDE DEF count
<1> DEFINE of(n) == IF Nodes[n].class = "MemberExpression"
                    THEN count[Nodes[n].children[1]] + count[Nodes[n].children[2]]
                    ELSE 1
           T == {k \in Nat : \A n \in 1..Len(Nodes) : n <= k => count[n] \in Nat}
<1>5. \A n \in 1..Len(Nodes) : count[n] = of(n)
  BY <1>3 DEF CountFits
<1>6. 0 \in T
  OBVIOUS
<1>7. ASSUME NEW k \in T PROVE k + 1 \in T
  <2> SUFFICES ASSUME NEW n \in 1..Len(Nodes), n <= k + 1 PROVE count[n] \in Nat
    OBVIOUS
  <2>1. CASE Nodes[n].class = "MemberExpression"
    <3>1. NodeOK(n, Nodes)
      BY <1>1, NodesKnown
    <3>2. Len(Nodes[n].children) = 2
      BY <2>1, <3>1 DEF NodeOK
    <3>3. Nodes[n].children[1] \in 1..(n - 1) /\ Nodes[n].children[2] \in 1..(n - 1)
      BY SMTT(30), <1>1, <3>2, ChildrenKnown
    <3>4. \A c \in 1..(n - 1) : c \in 1..Len(Nodes) /\ c <= k
      BY <1>1
    <3>5. count[Nodes[n].children[1]] \in Nat /\ count[Nodes[n].children[2]] \in Nat
      BY <3>3, <3>4
    <3> QED
      BY <1>5, <2>1, <3>5
  <2>2. CASE Nodes[n].class # "MemberExpression"
    BY <1>5, <2>2
  <2> QED
    BY <2>1, <2>2
<1> HIDE DEF T
<1>8. T = Nat
  BY <1>6, <1>7, EveryNatural DEF T
<1>9. Len(Nodes) \in T /\ node \in 1..Len(Nodes) /\ node <= Len(Nodes)
  BY <1>1, <1>8
<1> QED
  BY <1>4, <1>9 DEF T

LEMMA PreIfSafe ==
  ASSUME WalkInv, PreIf PROVE StepSafe
<1>1. /\ dfs # <<>> /\ Top.pre /\ Walked.class = "IfStatment" /\ ConditionDefined(Walked)
      /\ Descend(Branches(Walked))
      /\ args' = IF args = <<>> THEN args ELSE Popped(OperandsOf(Walked.condition))
      /\ UNCHANGED <<program, status, envs, calls, heap, output, result>>
  BY DEF PreIf, Down, At, Defined
<1>2. program \in Program /\ Top.node \in DOMAIN Nodes /\ Walked.children \in Seq(DOMAIN Nodes)
  BY <1>1, TopKnown DEF WalkInv
<1>3. Walked.condition \in DOMAIN Nodes /\ Walked.children # <<>>
  BY <1>1, <1>2, NodesKnown DEF NodeOK, Walked
<1>4. Branches(Walked) \in Seq(DOMAIN Nodes)
  <2> DEFINE kids == Walked.children
  <2>1. kids \in Seq(DOMAIN Nodes) /\ kids # <<>>
    BY <1>2, <1>3
  <2>2. \/ Branches(Walked) = <<>> \/ Branches(Walked) = kids
        \/ Branches(Walked) = <<kids[1]>> \/ Branches(Walked) = Tail(kids)
    BY DEF Branches
  <2> HIDE DEF kids
  <2>3. kids[1] \in DOMAIN Nodes /\ Tail(kids) \in Seq(DOMAIN Nodes)
    BY <2>1
  <2> DEFINE D == DOMAIN Nodes
  <2>4. kids \in Seq(D) /\ kids[1] \in D /\ Tail(kids) \in Seq(D)
    BY <2>1, <2>3
  <2> HIDE DEF D
  <2>5. <<>> \in Seq(D) /\ <<kids[1]>> \in Seq(D)
    BY <2>4
  <2>6. Branches(Walked) \in Seq(D)
    BY <2>2, <2>4, <2>5
  <2> QED
    BY <2>6 DEF D
<1>5. /\ dfs' \in Seq(Entry) /\ Gathered(dfs', Places) = Gathered(dfs, Places)
      /\ Gathered(dfs', OpenCalls) = Gathered(dfs, OpenCalls)
  <2>1. Plain(Walked.class)
    BY <1>1 DEF Plain
  <2> QED
    BY <1>1, <1>4, <2>1, DownPlain
<1>6. /\ HeapGood(World, heap') /\ Grows(heap, heap') /\ SameParents(heap, heap')
      /\ ArgsGood(World, heap', args)
  BY <1>1, HeapSame
<1>7. ArgsGood(World, heap', args')
  <2>1. CASE args = <<>>
    BY <1>1, <1>6, <2>1
  <2>2. CASE args # <<>>
    <3>1. OperandsOf(Walked.condition) \in Nat
      BY <1>2, <1>3, OperandsOfTyped
    <3>2. OperandsOf(Walked.condition) <= Len(args)
      BY <1>1, <2>2, <3>1, Operands DEF ConditionDefined
    <3>3. heap' \in Heap
      BY <1>6 DEF HeapGood
    <3> QED
      BY <1>1, <1>6, <2>2, <3>1, <3>2, <3>3, Popping
  <2> QED
    BY <2>1, <2>2
<1> QED
  BY <1>1, <1>5, <1>6, <1>7, PlainKept

(* The top of a stack of scopes that is not empty was entered.             *)
LEMMA EndsInOwn ==
  ASSUME NEW e \in Seq(Entry), Gathered(e, Places) # <<>>
  PROVE  Gathered(e, Places)[Len(Gathered(e, Places))] = "own"
<1> DEFINE K == {"own", "borrowed"}
           ends(q) == q # <<>> => q[Len(q)] = "own"
           P == {d \in Seq(Entry) : ends(Gathered(d, Places))}
<1>1. <<>> \in P
  BY GatheredNone, EmptySeq
<1>2. ASSUME NEW d \in Seq(Entry), NEW x \in Entry, d \in P PROVE Append(d, x) \in P
  <2> DEFINE q == Gathered(d, Places)
  <2>1. Gathered(Append(d, x), Places) = q \o Places[x] /\ Append(d, x) \in Seq(Entry)
    BY GatheredAppend
  <2>2. q \in Seq(K) /\ ends(q)
    BY <1>2, StandsFor, GatheredType
  <2>3. Places[x] \in {<<>>, <<"own">>, <<"borrowed", "own">>}
    BY DEF Places
  <2> HIDE DEF q, P
  <2>4. ends(q \o Places[x])
    <3>1. CASE Places[x] = <<>>
      <4>1. q \o Places[x] = q
        BY <2>2, <3>1, ConcatNothing
      <4> QED
        BY <2>2, <4>1
    <3>2. CASE Places[x] = <<"own">>
      <4>1. q \o <<"own">> = Append(q, "own")
        BY <2>2
      <4>2. Len(Append(q, "own")) = Len(q) + 1 /\ Append(q, "own")[Len(q) + 1] = "own"
        BY <2>2
      <4> QED
        BY <3>2, <4>1, <4>2
    <3>3. CASE Places[x] = <<"borrowed", "own">>
      <4>1. q \o <<"borrowed", "own">> = Append(Append(q, "borrowed"), "own")
        BY <2>2
      <4> DEFINE r == Append(q, "borrowed")
      <4>2. r \in Seq(K)
        BY <2>2
      <4> HIDE DEF r
      <4>3. Len(Append(r, "own")) = Len(r) + 1 /\ Append(r, "own")[Len(r) + 1] = "own"
        BY <4>2
      <4> QED
        BY <3>3, <4>1, <4>3 DEF r
    <3> QED
      BY <2>3, <3>1, <3>2, <3>3
  <2> QED
    BY <2>1, <2>4 DEF P
<1> HIDE DEF P
<1>3. Seq(Entry) \subseteq P
  BY <1>1, <1>2, AppendInduction
<1> QED
  BY <1>3 DEF P

LEMMA CurrentScopeKnown ==
  ASSUME WalkInv
  PROVE  /\ CurrentScope \in 0..Len(heap.scopes)
         /\ envs # <<>> => CurrentScope \in 1..Len(heap.scopes)
         /\ CurrentScope = IF envs = <<>> THEN 0 ELSE Last(envs)
         /\ \A i \in 1..Len(envs) : envs[i] \in 0..Len(heap.scopes)
<1> DEFINE q == Gathered(dfs, Places)
           n == Len(envs)
<1>1. EnvsGood(heap, envs, q) /\ dfs \in Seq(Entry) /\ Len(heap.scopes) \in Nat
  BY HeapKnown DEF WalkInv, HeapGood
<1>2. q \in Seq({"own", "borrowed"})
  BY <1>1, StandsFor, GatheredType
<1>3. envs \in Seq(Nat) /\ n = Len(q) /\ n \in Nat /\ \A i \in 1..n : envs[i] <= Len(heap.scopes)
  BY <1>1 DEF EnvsGood
<1>4. ASSUME envs # <<>> PROVE CurrentScope \in 1..Len(heap.scopes)
  <2>1. n # 0
    BY <1>3, <1>4
  <2>2. q # <<>>
    BY <1>2, <1>3, <2>1
  <2>3. q[n] = "own" /\ n \in 1..n
    BY <1>1, <1>3, <2>1, <2>2, EndsInOwn
  <2>4. envs[n] # 0 /\ envs[n] \in Nat /\ envs[n] <= Len(heap.scopes)
    BY <1>1, <1>3, <2>3 DEF EnvsGood
  <2>5. CurrentScope = envs[n]
    BY <1>4 DEF CurrentScope, Last
  <2> QED
    BY <1>1, <2>4, <2>5
<1>5. envs = <<>> => CurrentScope = 0
  BY DEF CurrentScope
<1> HIDE DEF q
<1> QED
  BY <1>1, <1>3, <1>4, <1>5 DEF CurrentScope

LEMMA WorldUnflagged == ~ World.flagged
BY DEF World

LEMMA PreFunctionStatmentSafe ==
  ASSUME WalkInv, PreFunctionStatment PROVE StepSafe
<1> DEFINE v == FunctionJson(Top.node, CurrentScope)
<1>1. /\ dfs # <<>> /\ Top.pre /\ Walked.class = "FunctionStatment" /\ envs # <<>> /\ Descend(<<>>)
      /\ heap' = [heap EXCEPT !.scopes = Bind(@, CurrentScope, Walked.str, v)]
      /\ UNCHANGED <<program, status, envs, calls, args, output, result>>
  BY DEF PreFunctionStatment, Down, At, Defined
<1>2. Top.node \in DOMAIN Nodes /\ Nodes[Top.node].class = "FunctionStatment" /\ program \in Program
  BY <1>1, TopKnown DEF WalkInv, Walked
<1>3. CurrentScope \in 1..Len(heap.scopes) /\ HeapGood(World, heap) /\ Len(heap.scopes) \in Nat
  BY <1>1, CurrentScopeKnown, HeapKnown DEF WalkInv, HeapGood
<1>4. Walked.str \in Text /\ Top.node \in Nat
  BY <1>2, ChildrenKnown, NodesKnown DEF Walked
<1>5. Top.node \in World.functions
  BY <1>2 DEF World
<1>6. Val(World, heap, v)
  <2>1. v \in Json
    <3>1. \A n, ref \in Nat : FunctionJson(n, ref) \in Json
      BY DEF FunctionJson, Json, JsonType, Text
    <3>2. CurrentScope \in Nat
      BY <1>3
    <3> QED
      BY <1>4, <3>1, <3>2
  <2>2. v.type = "Function" /\ v.n = Top.node /\ v.ref = CurrentScope
    BY DEF FunctionJson
  <2> QED
    BY <1>3, <1>5, <2>1, <2>2 DEF Val
<1> HIDE DEF v
<1>7. HeapGood(World, heap') /\ Grows(heap, heap') /\ SameParents(heap, heap')
  BY <1>1, <1>3, <1>4, <1>6, BindHeap, WorldUnflagged
<1>8. ArgsGood(World, heap', args')
  BY <1>1, <1>7, ArgsKept DEF WalkInv, HeapGood
<1>9. /\ dfs' \in Seq(Entry) /\ Gathered(dfs', Places) = Gathered(dfs, Places)
      /\ Gathered(dfs', OpenCalls) = Gathered(dfs, OpenCalls)
  <2>1. Plain(Walked.class) /\ <<>> \in Seq(DOMAIN Nodes)
    BY <1>1 DEF Plain
  <2> QED
    BY <1>1, <2>1, DownPlain
<1> QED
  BY <1>1, <1>7, <1>8, <1>9, PlainKept

LEMMA PostVaribleSafe ==
  ASSUME WalkInv, PostVarible PROVE StepSafe
<1> DEFINE x     == Walked.str
           owner == Owner(heap.scopes, CurrentScope, x)
           s     == IF owner = 0 THEN CurrentScope ELSE owner
<1>1. /\ dfs # <<>> /\ ~ Top.pre /\ Plain(Walked.class) /\ Ascend /\ envs # <<>>
      /\ args' = Append(args, ToVariable(s, x))
      /\ heap' = [heap EXCEPT !.scopes = Touch(@, CurrentScope, x)]
      /\ UNCHANGED <<program, status, envs, calls, output, result>>
  BY DEF PostVarible, Back, At, Defined, Plain
<1>2. Top.node \in DOMAIN Nodes /\ program \in Program
  BY <1>1, TopKnown DEF WalkInv
<1>3. /\ CurrentScope \in 1..Len(heap.scopes) /\ HeapGood(World, heap) /\ Len(heap.scopes) \in Nat
      /\ heap \in Heap /\ heap.scopes \in Seq(ScopeRecord) /\ OlderParents(heap.scopes)
  BY <1>1, CurrentScopeKnown, HeapKnown DEF WalkInv, HeapGood, ScopesGood
<1>4. x \in Text
  BY <1>2, ChildrenKnown DEF Walked
<1> HIDE DEF x
<1>5. owner \in 0..Len(heap.scopes) /\ (owner # 0 => x \in DOMAIN heap.scopes[owner].vars)
  BY <1>3, OwnerFound
<1>6. /\ HeapGood(World, heap') /\ Grows(heap, heap') /\ SameParents(heap, heap')
      /\ s \in 1..Len(heap'.scopes) /\ x \in DOMAIN heap'.scopes[s].vars
  <2>1. CASE owner = 0
    <3>1. heap' = [heap EXCEPT !.scopes = Bind(@, CurrentScope, x, NullJson)]
      BY <1>1, <2>1 DEF Touch
    <3>2. Val(World, heap, NullJson)
      BY NullVal
    <3>3. /\ HeapGood(World, heap') /\ Grows(heap, heap') /\ SameParents(heap, heap')
          /\ x \in DOMAIN heap'.scopes[CurrentScope].vars
      BY <1>3, <1>4, <3>1, <3>2, BindHeap, WorldUnflagged
    <3>4. Len(heap'.scopes) \in Nat /\ Len(heap'.scopes) >= Len(heap.scopes)
      BY <3>3, HeapKnown DEF HeapGood, Grows, Extends
    <3>5. s = CurrentScope
      BY <2>1
    <3> HIDE DEF s, owner
    <3> QED
      BY <1>3, <3>3, <3>4, <3>5
  <2>2. CASE owner # 0
    <3>1. heap' = [heap EXCEPT !.scopes = heap.scopes]
      BY <1>1, <2>2 DEF Touch
    <3>2. heap' = heap
      BY <1>3, <3>1 DEF Heap
    <3>3. /\ HeapGood(World, heap') /\ Grows(heap, heap') /\ SameParents(heap, heap')
      BY <3>2, HeapSame
    <3>4. s = owner
      BY <2>2
    <3> HIDE DEF s, owner
    <3> QED
      BY <1>3, <1>5, <2>2, <3>2, <3>3, <3>4
  <2> QED
    BY <2>1, <2>2
<1> HIDE DEF s
<1>7. ArgsGood(World, heap', args')
  <2>1. heap' \in Heap /\ heap \in Heap
    BY <1>3, <1>6 DEF HeapGood
  <2>2. ArgsGood(World, heap', args)
    BY <1>6, <2>1, ArgsKept DEF WalkInv
  <2>3. /\ ToVariable(s, x) \in OperandRecord /\ Val(World, heap', ToVariable(s, x).value)
        /\ PlaceFits(heap', ToVariable(s, x).place)
    BY <1>4, <1>6, <2>1, PointersGood
  <2> QED
    BY <1>1, <2>2, <2>3, ArgsPushed
<1>8. /\ dfs' \in Seq(Entry) /\ Gathered(dfs', Places) = Gathered(dfs, Places)
      /\ Gathered(dfs', OpenCalls) = Gathered(dfs, OpenCalls)
  BY <1>1, UpPlain
<1> QED
  BY <1>1, <1>6, <1>7, <1>8, PlainKept

(* What is shared by the steps that copy a value. *)
LEMMA CopyStep ==
  ASSUME WalkInv, NEW v, Val(World, heap, v)
  PROVE  LET copied == CopyJson(heap, v)
         IN  /\ HeapGood(World, copied.heap) /\ copied.heap \in Heap /\ heap \in Heap
             /\ Grows(heap, copied.heap) /\ SameParents(heap, copied.heap)
             /\ copied.heap.scopes = heap.scopes
             /\ Val(World, copied.heap, copied.value)
<1> DEFINE copied == CopyJson(heap, v)
<1>1. HeapGood(World, heap) /\ heap \in Heap
  BY DEF WalkInv, HeapGood
<1>2. /\ HeapGood(World, copied.heap) /\ Grows(heap, copied.heap)
      /\ copied.heap.scopes = heap.scopes
      /\ Val(World, copied.heap, copied.value)
  BY <1>1, CopyGood
<1> HIDE DEF copied
<1>3. copied.heap \in Heap /\ SameParents(heap, copied.heap)
  BY <1>2 DEF HeapGood, SameParents
<1> QED
  BY <1>1, <1>2, <1>3 DEF copied

LEMMA PostReturnSafe ==
  ASSUME WalkInv, PostReturn PROVE StepSafe
<1> DEFINE copied == CopyJson(heap, Get(Operand(0)))
<1>1. /\ dfs # <<>> /\ ~ Top.pre /\ Plain(Walked.class) /\ Ascend /\ ValidOperands(1)
      /\ heap' = copied.heap /\ args' = Append(Popped(1), Temporary(copied.value))
      /\ UNCHANGED <<program, status, envs, calls, output, result>>
  BY DEF PostReturn, Back, At, Defined, Plain
<1>2. 1 <= Len(args) /\ Val(World, heap, Get(Operand(0)))
  BY <1>1, Operands
<1>3. /\ HeapGood(World, copied.heap) /\ copied.heap \in Heap
      /\ Grows(heap, copied.heap) /\ SameParents(heap, copied.heap)
      /\ Val(World, copied.heap, copied.value)
  BY <1>2, CopyStep
<1> HIDE DEF copied
<1>4. ArgsGood(World, heap', args')
  BY <1>1, <1>2, <1>3, Popping
<1>5. /\ dfs' \in Seq(Entry) /\ Gathered(dfs', Places) = Gathered(dfs, Places)
      /\ Gathered(dfs', OpenCalls) = Gathered(dfs, OpenCalls)
  BY <1>1, UpPlain
<1> QED
  BY <1>1, <1>3, <1>4, <1>5, PlainKept

(* The operands of a literal, from the lowest to the top. *)
LEMMA ValuesKnown ==
  ASSUME WalkInv, NEW n \in Nat, ValidOperands(n)
  PROVE  /\ n <= Len(args)
         /\ Values(TopArgs(n)) \in Seq(Json) /\ Len(Values(TopArgs(n))) = n
         /\ \A i \in 1..n : Val(World, heap, Values(TopArgs(n))[i])
         /\ \A i \in 1..n : Values(TopArgs(n))[i] = Get(Operand(n - i))
<1> DEFINE t == TopArgs(n)
           vs == Values(t)
           m == Len(args)
<1>1. args \in Seq(OperandRecord) /\ m \in Nat /\ n <= m
  BY Operands DEF WalkInv, ArgsGood
<1>2. t = SubSeq(args, m - n + 1, m)
  BY DEF TopArgs
<1> HIDE DEF t
<1>3. /\ Len(t) = n /\ DOMAIN t = 1..n
      /\ \A i \in 1..n : t[i] = args[m - (n - i)]
  <2>1. /\ m - n + 1 \in Int /\ m \in Int
        /\ \A i \in (m - n + 1)..m : args[i] \in OperandRecord
    BY <1>1
  <2> DEFINE a == m - n + 1
  <2>2. /\ t \in Seq(OperandRecord)
        /\ Len(t) = IF a <= m THEN m - a + 1 ELSE 0
        /\ \A i \in 1..(m - a + 1) : t[i] = args[a + i - 1]
    <3>1. a \in Int /\ m \in Int /\ \A i \in a..m : args[i] \in OperandRecord
      BY <2>1
    <3>2. t = SubSeq(args, a, m)
      BY <1>2
    <3> HIDE DEF a, m
    <3>3. /\ SubSeq(args, a, m) \in Seq(OperandRecord)
          /\ Len(SubSeq(args, a, m)) = IF a <= m THEN m - a + 1 ELSE 0
          /\ \A i \in 1..(m - a + 1) : SubSeq(args, a, m)[i] = args[a + i - 1]
      BY ONLY <3>1, SubSeqProperties
    <3> QED
      BY <3>2, <3>3
  <2>3. m - a + 1 = n /\ (n # 0 => a <= m) /\ (n = 0 => ~ (a <= m))
    BY <1>1
  <2>4. \A i \in 1..n : a + i - 1 = m - (n - i)
    BY <1>1
  <2> HIDE DEF a, m
  <2>5. Len(t) = n
    BY <2>2, <2>3
  <2> QED
    BY <2>2, <2>3, <2>4, <2>5
<1>4. \A i \in 1..n : t[i] = Operand(n - i) /\ n - i \in 0..(n - 1)
  BY <1>3 DEF Operand
<1>5. vs = [i \in 1..n |-> Get(t[i])]
  BY <1>3 DEF Values
<1>6. \A i \in 1..n : Val(World, heap, Get(t[i]))
  BY <1>4, Operands
<1>7. \A i \in 1..n : vs[i] = Get(t[i])
  BY <1>5
<1>8. vs \in [1..n -> Json]
  BY <1>5, <1>6 DEF Val
<1> HIDE DEF vs
<1>9. vs \in Seq(Json) /\ Len(vs) = n
  BY <1>8, FunctionIsSeq
<1> QED
  BY <1>1, <1>4, <1>6, <1>7, <1>9 DEF vs, t

LEMMA PostArraySafe ==
  ASSUME WalkInv, PostArray PROVE StepSafe
<1> DEFINE n     == Len(Walked.children)
           items == CopyAll(heap, Values(TopArgs(n)))
           cell  == Len(items.heap.arrays) + 1
<1>1. /\ dfs # <<>> /\ ~ Top.pre /\ Plain(Walked.class) /\ Ascend /\ ValidOperands(n)
      /\ heap' = [items.heap EXCEPT !.arrays = Append(@, items.values)]
      /\ args' = Append(Popped(n), Temporary(ArrayJson(cell)))
      /\ UNCHANGED <<program, status, envs, calls, output, result>>
  BY DEF PostArray, Back, At, Defined, Plain
<1>2. n \in Nat
  BY <1>1, TopKnown DEF WalkInv
<1> HIDE DEF n
<1>3. /\ n <= Len(args) /\ Len(Values(TopArgs(n))) = n
      /\ \A i \in 1..n : Val(World, heap, Values(TopArgs(n))[i])
  BY <1>1, <1>2, ValuesKnown
<1>4. HeapGood(World, heap) /\ heap \in Heap
  BY DEF WalkInv, HeapGood
<1>5. /\ Copied(World, heap, items.heap) /\ items.values \in Seq(Json)
      /\ Vals(World, items.heap, items.values)
  <2> DEFINE vs == Values(TopArgs(n))
  <2>1. Len(vs) \in Nat /\ \A i \in 1..Len(vs) : Val(World, heap, vs[i])
    BY <1>2, <1>3
  <2> HIDE DEF vs
  <2>2. LET its == CopyAll(heap, vs)
        IN  /\ Copied(World, heap, its.heap)
            /\ its.values \in Seq(Json) /\ Len(its.values) = Len(vs)
            /\ Vals(World, its.heap, its.values)
    BY <1>4, <2>1, CopyAllGood
  <2> QED
    BY <2>2 DEF vs
<1> HIDE DEF items
<1>6. /\ HeapGood(World, items.heap) /\ Grows(heap, items.heap) /\ items.heap \in Heap
      /\ SameParents(heap, items.heap)
  BY <1>5 DEF Copied, HeapGood, SameParents
<1>7. /\ HeapGood(World, heap') /\ Grows(items.heap, heap') /\ SameParents(items.heap, heap')
      /\ Len(heap'.arrays) = cell
  BY <1>1, <1>5, <1>6, AddArrayHeap
<1>8. heap' \in Heap /\ Len(items.heap.arrays) \in Nat
  BY <1>6, <1>7, HeapKnown DEF HeapGood
<1>9. Grows(heap, heap') /\ SameParents(heap, heap')
  BY <1>4, <1>6, <1>7, <1>8, GrowsOn
<1>10. Val(World, heap', ArrayJson(cell))
  <2>1. cell \in Nat /\ cell \in 1..Len(heap'.arrays)
    BY <1>7, <1>8
  <2> HIDE DEF cell
  <2>2. ArrayJson(cell) \in Json /\ ArrayJson(cell).type = "Array" /\ ArrayJson(cell).ref = cell
    BY <2>1 DEF ArrayJson, Json, JsonType, Text
  <2> QED
    BY <2>1, <2>2 DEF Val
<1> HIDE DEF cell
<1>11. ArgsGood(World, heap', args')
  BY <1>1, <1>2, <1>3, <1>8, <1>9, <1>10, Popping
<1>12. /\ dfs' \in Seq(Entry) /\ Gathered(dfs', Places) = Gathered(dfs, Places)
       /\ Gathered(dfs', OpenCalls) = Gathered(dfs, OpenCalls)
  BY <1>1, UpPlain
<1> QED
  BY <1>1, <1>7, <1>9, <1>11, <1>12, PlainKept

LEMMA PostObjectSafe ==
  ASSUME WalkInv, PostObject PROVE StepSafe
<1> DEFINE n      == Len(Walked.children)
           pairs  == Values(TopArgs(2 * n))
           fields == [i \in 1..n |-> pairs[2 * i]]
           items  == CopyAll(heap, fields)
           key(i) == pairs[2 * i - 1].s
           object == [k \in {key(i) : i \in 1..n} |->
                        items.values[Max({i \in 1..n : key(i) = k})]]
           cell   == Len(items.heap.objects) + 1
<1>1. /\ dfs # <<>> /\ ~ Top.pre /\ Plain(Walked.class) /\ Ascend /\ ValidOperands(2 * n)
      /\ heap' = [items.heap EXCEPT !.objects = Append(@, object)]
      /\ args' = Append(Popped(2 * n), Temporary(ObjectJson(cell)))
      /\ UNCHANGED <<program, status, envs, calls, output, result>>
  BY DEF PostObject, Back, At, Defined, Plain
<1>2. n \in Nat /\ 2 * n \in Nat
  BY <1>1, TopKnown DEF WalkInv
<1> HIDE DEF n
<1>3. /\ 2 * n <= Len(args) /\ pairs \in Seq(Json) /\ Len(pairs) = 2 * n
      /\ \A i \in 1..(2 * n) : Val(World, heap, pairs[i])
  BY <1>1, <1>2, ValuesKnown
<1> HIDE DEF pairs
<1>4. \A i \in 1..n : Val(World, heap, pairs[2 * i]) /\ pairs[2 * i] \in Json /\ pairs[2 * i - 1].s \in Text
  <2> SUFFICES ASSUME NEW i \in 1..n
               PROVE  Val(World, heap, pairs[2 * i]) /\ pairs[2 * i] \in Json /\ pairs[2 * i - 1].s \in Text
    OBVIOUS
  <2>1. 2 * i \in 1..(2 * n) /\ 2 * i - 1 \in 1..(2 * n)
    BY <1>2
  <2>2. Val(World, heap, pairs[2 * i]) /\ Val(World, heap, pairs[2 * i - 1])
    BY <1>3, <2>1
  <2> QED
    BY <2>2 DEF Val, Json
<1>5. HeapGood(World, heap) /\ heap \in Heap
  BY DEF WalkInv, HeapGood
<1>6. /\ Copied(World, heap, items.heap) /\ items.values \in Seq(Json) /\ Len(items.values) = n
      /\ Vals(World, items.heap, items.values)
  <2>1. fields \in [1..n -> Json] /\ \A i \in 1..n : Val(World, heap, fields[i])
    BY <1>4
  <2> HIDE DEF fields
  <2>2. Len(fields) = n
    BY <1>2, <2>1, FunctionIsSeq
  <2>3. Len(fields) \in Nat /\ \A i \in 1..Len(fields) : Val(World, heap, fields[i])
    BY <1>2, <2>1, <2>2
  <2>4. LET its == CopyAll(heap, fields)
        IN  /\ Copied(World, heap, its.heap)
            /\ its.values \in Seq(Json) /\ Len(its.values) = Len(fields)
            /\ Vals(World, its.heap, its.values)
    BY <1>5, <2>3, CopyAllGood
  <2> QED
    BY <2>2, <2>4
<1> HIDE DEF items
<1>7. /\ HeapGood(World, items.heap) /\ Grows(heap, items.heap) /\ items.heap \in Heap
      /\ SameParents(heap, items.heap)
  BY <1>6 DEF Copied, HeapGood, SameParents
<1>8. object \in Vars /\ Vals(World, items.heap, object)
  <2> DEFINE S == {key(i) : i \in 1..n}
             last(k) == Max({i \in 1..n : key(i) = k})
  <2>1. S \in SUBSET Text
    BY <1>4
  <2>2. ASSUME NEW k \in S PROVE last(k) \in 1..n
    <3> DEFINE I == {i \in 1..n : key(i) = k}
    <3>1. I # {} /\ I \in SUBSET (0..n) /\ I \subseteq 1..n
      BY <1>2
    <3> HIDE DEF I, key
    <3>2. Max(I) \in I
      BY <1>2, <3>1, LargestElement DEF Max
    <3> QED
      BY <3>1, <3>2 DEF I
  <2>3. \A k \in S : items.values[last(k)] \in Json /\ Val(World, items.heap, items.values[last(k)])
    <3> HIDE DEF S, last
    <3>1. \A i \in 1..n : items.values[i] \in Json /\ Val(World, items.heap, items.values[i])
      BY <1>2, <1>6 DEF Vals
    <3> QED
      BY <2>2, <3>1
  <2>4. object = [k \in S |-> items.values[last(k)]]
    OBVIOUS
  <2> HIDE DEF object, S, last
  <2>5. object \in [S -> Json] /\ DOMAIN object = S /\ \A k \in S : object[k] = items.values[last(k)]
    BY <2>3, <2>4
  <2>6. object \in Vars
    BY <2>1, <2>5 DEF Vars
  <2>7. Vals(World, items.heap, object)
    BY <2>3, <2>5 DEF Vals
  <2> QED
    BY <2>6, <2>7
<1> HIDE DEF object
<1>9. /\ HeapGood(World, heap') /\ Grows(items.heap, heap') /\ SameParents(items.heap, heap')
      /\ Len(heap'.objects) = cell
  BY <1>1, <1>7, <1>8, AddObjectHeap
<1>10. heap' \in Heap /\ Len(items.heap.objects) \in Nat
  BY <1>7, <1>9, HeapKnown DEF HeapGood
<1>11. Grows(heap, heap') /\ SameParents(heap, heap')
  BY <1>5, <1>7, <1>9, <1>10, GrowsOn
<1>12. Val(World, heap', ObjectJson(cell))
  <2>1. cell \in Nat /\ cell \in 1..Len(heap'.objects)
    BY <1>9, <1>10
  <2> HIDE DEF cell
  <2>2. ObjectJson(cell) \in Json /\ ObjectJson(cell).type = "Object" /\ ObjectJson(cell).ref = cell
    BY <2>1 DEF ObjectJson, Json, JsonType, Text
  <2> QED
    BY <2>1, <2>2 DEF Val
<1> HIDE DEF cell
<1>13. ArgsGood(World, heap', args')
  BY <1>1, <1>2, <1>3, <1>10, <1>11, <1>12, Popping
<1>14. /\ dfs' \in Seq(Entry) /\ Gathered(dfs', Places) = Gathered(dfs, Places)
       /\ Gathered(dfs', OpenCalls) = Gathered(dfs, OpenCalls)
  BY <1>1, UpPlain
<1> QED
  BY <1>1, <1>9, <1>11, <1>13, <1>14, PlainKept

(* An element or a field whose container got a place for it.               *)
LEMMA IndexedGood ==
  ASSUME WalkInv, ValidOperands(2), NEW container, Val(World, heap, container),
         container.type = "Array", NEW i \in Int, Indexed(container, i)
  PROVE  /\ HeapGood(World, heap') /\ Grows(heap, heap') /\ SameParents(heap, heap')
         /\ ArgsGood(World, heap', args')
<1> DEFINE c   == container.ref
           old == heap.arrays[c]
<1>1. 2 <= Len(args) /\ HeapGood(World, heap) /\ heap \in Heap /\ Grows(heap, heap)
      /\ SameParents(heap, heap)
  BY Operands, GrowsItself DEF WalkInv, HeapGood
<1>2. c \in 1..Len(heap.arrays)
  BY DEF Val
<1>3. old \in Seq(Json) /\ Len(old) \in Nat /\ DOMAIN old = 1..Len(old) /\ Vals(World, heap, old)
  BY <1>1, <1>2, HeapKnown DEF HeapGood
<1>4. CASE i < 0
  <2>1. args' = Append(Popped(2), Temporary(NullJson)) /\ heap' = heap
    BY <1>4 DEF Indexed
  <2>2. Val(World, heap, NullJson)
    BY NullVal
  <2> QED
    BY <1>1, <2>1, <2>2, Popping
<1>5. CASE i >= 0 /\ i < Len(old)
  <2>1. args' = Append(Popped(2), ToElement(c, i)) /\ heap' = heap
    BY <1>3, <1>5 DEF Indexed
  <2>2. i \in Nat /\ i + 1 <= Len(heap.arrays[c])
    BY <1>3, <1>5
  <2> HIDE DEF c, old
  <2>3. /\ ToElement(c, i) \in OperandRecord /\ Val(World, heap, ToElement(c, i).value)
        /\ PlaceFits(heap, ToElement(c, i).place)
    BY <1>1, <1>2, <2>2, PointersGood
  <2>4. ArgsGood(World, heap, Popped(2))
    BY <1>1, Popping
  <2> QED
    BY <1>1, <2>1, <2>3, <2>4, ArgsPushed
<1>6. CASE i >= 0 /\ i >= Len(old)
  <2> DEFINE m    == i + 1 - Len(old)
             more == [j \in 1..m |-> NullJson]
             new  == old \o more
  <2>1. /\ args' = Append(AfterGrowth(Popped(2), c), ToElement(c, i))
        /\ heap' = [heap EXCEPT !.arrays[c] = new]
    BY SMTT(30), <1>3, <1>6 DEF Indexed
  <2>2. m \in Nat /\ Len(old) + m = i + 1 /\ i \in Nat
    BY <1>3, <1>6
  <2> HIDE DEF m
  <2>3. more \in Seq(Json) /\ Len(more) = m /\ \A j \in 1..m : more[j] = NullJson
    <3>1. more \in [1..m -> Json] /\ \A j \in 1..m : more[j] = NullJson
      BY ScalarTyped
    <3> HIDE DEF more
    <3> QED
      BY <2>2, <3>1, FunctionIsSeq
  <2> HIDE DEF more, old
  <2>4. new \in Seq(Json) /\ Len(new) = i + 1
    BY <1>3, <2>2, <2>3
  <2>5. \A j \in 1..Len(new) : (j \in 1..Len(old) /\ new[j] = old[j]) \/ new[j] = NullJson
    <3>1. /\ \A j \in 1..Len(new) : j <= Len(old) => new[j] = old[j]
          /\ \A j \in 1..Len(new) : ~ (j <= Len(old)) =>
               j - Len(old) \in 1..Len(more) /\ new[j] = more[j - Len(old)]
      BY <1>3, <2>3, ConcatParts
    <3> HIDE DEF new
    <3> QED
      BY <1>3, <2>3, <3>1
  <2> HIDE DEF new
  <2>6. Vals(World, heap, new)
    BY <1>3, <2>4, <2>5, NullVal DEF Vals
  <2>7. Len(new) >= Len(heap.arrays[c])
    BY <1>3, <2>2, <2>4 DEF old
  <2> HIDE DEF c
  <2>8. HeapGood(World, heap') /\ Grows(heap, heap') /\ SameParents(heap, heap') /\ heap'.arrays[c] = new
    BY <1>1, <1>2, <2>1, <2>4, <2>6, <2>7, SetArrayHeap
  <2>9. heap' \in Heap /\ Len(heap'.arrays) \in Nat /\ Len(heap'.arrays) >= Len(heap.arrays)
        /\ Len(heap.arrays) \in Nat
    BY <1>1, <2>8, HeapKnown DEF HeapGood, Grows, Extends
  <2>10. ArgsGood(World, heap', AfterGrowth(Popped(2), c))
    BY <1>1, <2>8, <2>9, Popping, AfterGrowthGood
  <2>11. c \in 1..Len(heap'.arrays) /\ i + 1 <= Len(heap'.arrays[c])
    BY <1>2, <2>2, <2>4, <2>8, <2>9
  <2>12. /\ ToElement(c, i) \in OperandRecord /\ Val(World, heap', ToElement(c, i).value)
         /\ PlaceFits(heap', ToElement(c, i).place)
    BY <2>2, <2>9, <2>11, PointersGood
  <2> QED
    BY <2>1, <2>8, <2>10, <2>12, ArgsPushed
<1> QED
  BY <1>3, <1>4, <1>5, <1>6

LEMMA KeyedGood ==
  ASSUME WalkInv, ValidOperands(2), NEW container, Val(World, heap, container),
         container.type = "Object", NEW k \in Text, Keyed(container, k)
  PROVE  /\ HeapGood(World, heap') /\ Grows(heap, heap') /\ SameParents(heap, heap')
         /\ ArgsGood(World, heap', args')
<1> DEFINE c   == container.ref
           old == heap.objects[c]
           new == [x \in (DOMAIN old) \cup {k} |-> IF x \in DOMAIN old THEN old[x] ELSE NullJson]
<1>1. 2 <= Len(args) /\ HeapGood(World, heap) /\ heap \in Heap
  BY Operands DEF WalkInv, HeapGood
<1>2. c \in 1..Len(heap.objects)
  BY DEF Val
<1>3. old \in Vars /\ Vals(World, heap, old) /\ DOMAIN heap.objects = 1..Len(heap.objects)
  BY <1>1, <1>2, HeapKnown DEF HeapGood
<1>4. args' = Append(Popped(2), ToField(c, k)) /\ heap' = [heap EXCEPT !.objects[c] = new]
  BY DEF Keyed
<1> HIDE DEF old
<1>5. /\ DOMAIN new = (DOMAIN old) \cup {k}
      /\ \A x \in DOMAIN new : (x \in DOMAIN old /\ new[x] = old[x]) \/ new[x] = NullJson
  OBVIOUS
<1>6. new \in Vars
  <2>1. PICK S \in SUBSET Text : old \in [S -> Json]
    BY <1>3 DEF Vars
  <2>2. DOMAIN old = S /\ S \cup {k} \in SUBSET Text /\ NullJson \in Json
    BY <2>1, ScalarTyped
  <2>3. new \in [S \cup {k} -> Json]
    BY <2>1, <2>2
  <2> QED
    BY <2>2, <2>3 DEF Vars
<1> HIDE DEF new
<1>7. Vals(World, heap, new) /\ DOMAIN heap.objects[c] \subseteq DOMAIN new
  BY <1>3, <1>5, NullVal DEF Vals, old
<1> HIDE DEF c
<1>8. HeapGood(World, heap') /\ Grows(heap, heap') /\ SameParents(heap, heap') /\ heap'.objects[c] = new
  BY SMTT(30), <1>1, <1>2, <1>4, <1>6, <1>7, SetObjectHeap
<1>9. heap' \in Heap /\ Len(heap'.objects) \in Nat /\ Len(heap'.objects) >= Len(heap.objects)
      /\ Len(heap.objects) \in Nat
  BY <1>1, <1>8, HeapKnown DEF HeapGood, Grows, Extends
<1>10. ArgsGood(World, heap', Popped(2))
  BY <1>1, <1>8, <1>9, Popping
<1>11. c \in 1..Len(heap'.objects) /\ k \in DOMAIN heap'.objects[c]
  BY <1>2, <1>5, <1>8, <1>9
<1>12. /\ ToField(c, k) \in OperandRecord /\ Val(World, heap', ToField(c, k).value)
       /\ PlaceFits(heap', ToField(c, k).place)
  BY <1>9, <1>11, PointersGood
<1> QED
  BY <1>4, <1>8, <1>10, <1>12, ArgsPushed

LEMMA PostMemberSafe ==
  ASSUME WalkInv, PostMember PROVE StepSafe
<1> DEFINE key       == Get(Operand(0))
           container == Get(Operand(1))
<1>1. /\ dfs # <<>> /\ ~ Top.pre /\ Plain(Walked.class) /\ Ascend /\ ValidOperands(2)
      /\ UNCHANGED <<program, status, envs, calls, output, result>>
      /\ \/ container.type = "Array" /\ key.type = "Int" /\ Indexed(container, key.n)
         \/ container.type = "Object" /\ key.type = "String" /\ Keyed(container, key.s)
         \/ /\ container.type \notin {"Array", "Object"}
            /\ args' = Popped(2)
            /\ UNCHANGED heap
  BY DEF PostMember, Back, At, Defined, Plain
<1>2. 2 <= Len(args) /\ Val(World, heap, container) /\ key \in Json
  BY <1>1, Operands DEF Val
<1>3. key.n \in Int /\ key.s \in Text
  BY <1>2 DEF Json
<1> HIDE DEF key, container
<1>4. /\ HeapGood(World, heap') /\ Grows(heap, heap') /\ SameParents(heap, heap')
      /\ ArgsGood(World, heap', args')
  <2>1. CASE container.type = "Array" /\ key.type = "Int" /\ Indexed(container, key.n)
    BY <1>1, <1>2, <1>3, <2>1, IndexedGood
  <2>2. CASE container.type = "Object" /\ key.type = "String" /\ Keyed(container, key.s)
    BY <1>1, <1>2, <1>3, <2>2, KeyedGood
  <2>3. CASE args' = Popped(2) /\ heap' = heap
    <3>1. /\ HeapGood(World, heap') /\ Grows(heap, heap') /\ SameParents(heap, heap')
          /\ heap' \in Heap
      BY <2>3, HeapSame DEF HeapGood
    <3> QED
      BY <1>2, <2>3, <3>1, Popping
  <2> QED
    BY <1>1, <2>1, <2>2, <2>3
<1>5. /\ dfs' \in Seq(Entry) /\ Gathered(dfs', Places) = Gathered(dfs, Places)
      /\ Gathered(dfs', OpenCalls) = Gathered(dfs, OpenCalls)
  BY <1>1, UpPlain
<1> QED
  BY <1>1, <1>4, <1>5, PlainKept

LEMMA PostAssignVariableSafe ==
  ASSUME WalkInv, PostAssignVariable PROVE StepSafe
<1> DEFINE x      == Get(NameOperand).s
           value  == Get(IF Len(Walked.children) = 2 THEN Operand(0) ELSE Operand(1))
           copied == CopyJson(heap, value)
           owner  == Owner(heap.scopes, CurrentScope, x)
           s      == IF Walked.str = "LOCAL" \/ owner = 0 THEN CurrentScope ELSE owner
<1>1. /\ dfs # <<>> /\ ~ Top.pre /\ Plain(Walked.class) /\ Ascend /\ ValidOperands(2)
      /\ envs # <<>>
      /\ heap' = [copied.heap EXCEPT !.scopes = Bind(@, s, x, copied.value)]
      /\ args' = Popped(2)
      /\ UNCHANGED <<program, status, envs, calls, output, result>>
  BY DEF PostAssignVariable, Back, At, Defined, AssigmentDefined, Plain
<1>2. 2 <= Len(args) /\ Val(World, heap, value) /\ Get(NameOperand) \in Json
  <2>1. /\ 2 <= Len(args)
        /\ Val(World, heap, Get(Operand(0))) /\ Val(World, heap, Get(Operand(1)))
    BY <1>1, Operands
  <2> QED
    BY <2>1 DEF NameOperand, Val
<1>3. x \in Text
  BY <1>2 DEF Json
<1>4. /\ HeapGood(World, copied.heap) /\ copied.heap \in Heap /\ heap \in Heap
      /\ Grows(heap, copied.heap) /\ SameParents(heap, copied.heap)
      /\ copied.heap.scopes = heap.scopes
      /\ Val(World, copied.heap, copied.value)
  BY <1>2, CopyStep
<1> HIDE DEF copied, x
<1>5. s \in 1..Len(copied.heap.scopes)
  <2>1. /\ CurrentScope \in 1..Len(heap.scopes) /\ heap.scopes \in Seq(ScopeRecord)
        /\ OlderParents(heap.scopes)
    BY <1>1, CurrentScopeKnown DEF WalkInv, HeapGood, ScopesGood
  <2>2. owner \in 0..Len(heap.scopes)
    BY <1>3, <2>1, OwnerFound
  <2> HIDE DEF owner
  <2> QED
    BY <1>4, <2>1, <2>2
<1> HIDE DEF s
<1>6. HeapGood(World, heap') /\ Grows(copied.heap, heap') /\ SameParents(copied.heap, heap')
  BY <1>1, <1>3, <1>4, <1>5, BindHeap, WorldUnflagged
<1>7. heap' \in Heap
  BY <1>6 DEF HeapGood
<1>8. Grows(heap, heap') /\ SameParents(heap, heap')
  BY <1>4, <1>6, <1>7, GrowsOn
<1>9. ArgsGood(World, heap', args')
  BY <1>1, <1>2, <1>7, <1>8, Popping
<1>10. /\ dfs' \in Seq(Entry) /\ Gathered(dfs', Places) = Gathered(dfs, Places)
       /\ Gathered(dfs', OpenCalls) = Gathered(dfs, OpenCalls)
  BY <1>1, UpPlain
<1> QED
  BY <1>1, <1>6, <1>8, <1>9, <1>10, PlainKept

(* A value written where a pointer leads to. *)
LEMMA WrittenGood ==
  ASSUME NEW w, NEW h, HeapGood(w, h), ~ w.flagged, NEW place \in PlaceRecord,
         PlaceFits(h, place), place.kind # "dangling", NEW v, Val(w, h, v)
  PROVE  HeapGood(w, Written(h, place, v)) /\ Grows(h, Written(h, place, v))
         /\ SameParents(h, Written(h, place, v))
<1> DEFINE g == Written(h, place, v)
<1>1. h \in Heap /\ v \in Json
  BY DEF HeapGood, Val
<1>2. /\ place.kind \in {"none", "Scope", "Array", "Object"}
      /\ place.ref \in Nat /\ place.key \in Text /\ place.index \in Nat
  BY DEF PlaceRecord
<1>3. CASE place.kind = "none"
  <2>1. g = h
    BY <1>3 DEF Written
  <2> QED
    BY <1>1, <2>1, GrowsItself
<1>4. CASE place.kind = "Scope"
  <2>1. g = [h EXCEPT !.scopes = Bind(@, place.ref, place.key, v)]
    BY <1>4 DEF Written
  <2>2. place.ref \in 1..Len(h.scopes)
    BY <1>4 DEF PlaceFits
  <2> HIDE DEF g
  <2>3. HeapGood(w, g) /\ Grows(h, g) /\ SameParents(h, g)
    BY <1>2, <2>1, <2>2, BindHeap
  <2> QED
    BY <2>3 DEF g
<1>5. CASE place.kind = "Array"
  <2> DEFINE c   == place.ref
             i   == place.index + 1
             old == h.arrays[c]
             new == [old EXCEPT ![i] = v]
  <2>1. c \in 1..Len(h.arrays) /\ i <= Len(old)
    BY <1>5 DEF PlaceFits
  <2>2. /\ old \in Seq(Json) /\ Len(old) \in Nat /\ DOMAIN old = 1..Len(old)
        /\ Vals(w, h, old) /\ DOMAIN h.arrays = 1..Len(h.arrays)
    BY <1>1, <2>1, HeapKnown DEF HeapGood
  <2>3. i \in 1..Len(old)
    BY <1>2, <2>1, <2>2
  <2>4. g = [h EXCEPT !.arrays[c] = new]
    BY <1>5 DEF Written
  <2> HIDE DEF old, i, g
  <2>5. new \in Seq(Json) /\ Len(new) = Len(old)
    BY <1>1, <2>2, <2>3
  <2>6. DOMAIN new = DOMAIN old /\ \A j \in DOMAIN new : new[j] = v \/ new[j] = old[j]
    BY <2>2, <2>3
  <2> HIDE DEF new
  <2>7. Vals(w, h, new) /\ Len(new) >= Len(h.arrays[c])
    BY <2>2, <2>5, <2>6 DEF Vals, old
  <2> HIDE DEF c
  <2>8. HeapGood(w, g) /\ Grows(h, g) /\ SameParents(h, g)
    BY <2>1, <2>4, <2>5, <2>7, SetArrayHeap
  <2> QED
    BY <2>8 DEF g
<1>6. CASE place.kind = "Object"
  <2> DEFINE c   == place.ref
             k   == place.key
             old == h.objects[c]
             new == [old EXCEPT ![k] = v]
  <2>1. c \in 1..Len(h.objects) /\ k \in DOMAIN old
    BY <1>6 DEF PlaceFits
  <2>2. old \in Vars /\ Vals(w, h, old) /\ DOMAIN h.objects = 1..Len(h.objects)
    BY <1>1, <2>1, HeapKnown DEF HeapGood
  <2>3. g = [h EXCEPT !.objects[c] = new]
    BY <1>6 DEF Written
  <2> HIDE DEF old, k, g
  <2>4. new \in Vars
    BY <1>1, <2>1, <2>2 DEF Vars
  <2>5. DOMAIN new = DOMAIN old /\ \A j \in DOMAIN new : new[j] = v \/ new[j] = old[j]
    OBVIOUS
  <2> HIDE DEF new
  <2>6. Vals(w, h, new) /\ DOMAIN h.objects[c] \subseteq DOMAIN new
    BY <2>2, <2>5 DEF Vals, old
  <2> HIDE DEF c
  <2>7. HeapGood(w, g) /\ Grows(h, g) /\ SameParents(h, g)
    BY <2>1, <2>3, <2>4, <2>6, SetObjectHeap
  <2> QED
    BY <2>7 DEF g
<1> QED
  BY <1>2, <1>3, <1>4, <1>5, <1>6

LEMMA PostAssignMemberSafe ==
  ASSUME WalkInv, PostAssignMember PROVE StepSafe
<1> DEFINE copied == CopyJson(heap, Get(Operand(0)))
           place  == Operand(1).place
<1>1. /\ dfs # <<>> /\ ~ Top.pre /\ Plain(Walked.class) /\ Ascend /\ ValidOperands(2)
      /\ heap' = Written(copied.heap, place, copied.value)
      /\ args' = Popped(2)
      /\ UNCHANGED <<program, status, envs, calls, output, result>>
  BY DEF PostAssignMember, Back, At, Defined, AssigmentDefined, Plain
<1>2. /\ 2 <= Len(args) /\ Val(World, heap, Get(Operand(0)))
      /\ place \in PlaceRecord /\ PlaceFits(heap, place) /\ place.kind # "dangling"
  <2>1. /\ 2 <= Len(args) /\ Val(World, heap, Get(Operand(0)))
        /\ Operand(1) \in OperandRecord /\ PlaceFits(heap, Operand(1).place)
        /\ Operand(1).place.kind \in {"none", "Scope", "Array", "Object"}
    BY <1>1, Operands
  <2> QED
    BY <2>1 DEF OperandRecord
<1> HIDE DEF place
<1>3. /\ HeapGood(World, copied.heap) /\ copied.heap \in Heap /\ heap \in Heap
      /\ Grows(heap, copied.heap) /\ SameParents(heap, copied.heap)
      /\ Val(World, copied.heap, copied.value)
  BY <1>2, CopyStep
<1> HIDE DEF copied
<1>4. PlaceFits(copied.heap, place)
  BY <1>2, <1>3, PlaceKept
<1>5. HeapGood(World, heap') /\ Grows(copied.heap, heap') /\ SameParents(copied.heap, heap')
  BY <1>1, <1>2, <1>3, <1>4, WrittenGood, WorldUnflagged
<1>6. heap' \in Heap
  BY <1>5 DEF HeapGood
<1>7. Grows(heap, heap') /\ SameParents(heap, heap')
  BY <1>3, <1>5, <1>6, GrowsOn
<1>8. ArgsGood(World, heap', args')
  BY <1>1, <1>2, <1>6, <1>7, Popping
<1>9. /\ dfs' \in Seq(Entry) /\ Gathered(dfs', Places) = Gathered(dfs, Places)
      /\ Gathered(dfs', OpenCalls) = Gathered(dfs, OpenCalls)
  BY <1>1, UpPlain
<1> QED
  BY <1>1, <1>5, <1>7, <1>8, <1>9, PlainKept

(* A call: the body of the callee is scheduled. *)
LEMMA PostCallSafe ==
  ASSUME WalkInv, PostCall PROVE StepSafe
<1> DEFINE f    == Get(Operand(0)).n
           body == Last(Nodes[f].children)
           x    == [node |-> body, pre |-> TRUE]
           e    == Front(dfs)
<1>1. /\ dfs # <<>> /\ ~ Top.pre /\ Plain(Walked.class) /\ ValidOperands(1)
      /\ Get(Operand(0)).type = "Function"
      /\ dfs' = Append(e, x)
      /\ UNCHANGED <<program, status, envs, calls, args, heap, output, result>>
  BY DEF PostCall, At, Defined, Plain
<1>2. f \in DOMAIN Nodes /\ Nodes[f].class = "FunctionStatment"
  <2>1. Val(World, heap, Get(Operand(0)))
    BY <1>1, Operands
  <2>2. f \in World.functions
    BY <1>1, <2>1 DEF Val
  <2> QED
    BY <2>2 DEF World
<1>3. body \in DOMAIN Nodes
  <2> DEFINE kids == Nodes[f].children
  <2>1. program \in Program /\ NodeOK(f, Nodes)
    BY <1>2, NodesKnown DEF WalkInv
  <2>2. kids \in Seq(DOMAIN Nodes) /\ kids # <<>>
    BY <1>2, <2>1, ChildrenKnown DEF NodeOK
  <2> HIDE DEF kids
  <2>3. Last(kids) \in DOMAIN Nodes
    BY <2>2, EndsInElement
  <2> QED
    BY <2>3 DEF kids
<1>4. x \in Entry /\ x.pre
  BY <1>3 DEF Entry
<1>5. /\ dfs \in Seq(Entry) /\ e \in Seq(Entry) /\ dfs = Append(e, Top) /\ Top \in Entry
  BY <1>1, TopKnown DEF WalkInv
<1>6. Places[x] = <<>> /\ OpenCalls[x] = <<>> /\ Places[Top] = <<>> /\ OpenCalls[Top] = <<>>
  BY <1>1, <1>4, <1>5, StandsFor DEF Plain, Walked
<1> HIDE DEF x, e
<1>7. /\ Gathered(dfs', Places) = Gathered(e, Places) \o Places[x]
      /\ Gathered(dfs, Places) = Gathered(e, Places) \o Places[Top]
      /\ Gathered(dfs', OpenCalls) = Gathered(e, OpenCalls) \o OpenCalls[x]
      /\ Gathered(dfs, OpenCalls) = Gathered(e, OpenCalls) \o OpenCalls[Top]
  BY <1>1, <1>4, <1>5, GatheredAppend
<1>8. /\ Gathered(dfs', Places) = Gathered(dfs, Places)
      /\ Gathered(dfs', OpenCalls) = Gathered(dfs, OpenCalls)
  BY <1>6, <1>7
<1>9. dfs' \in Seq(Entry)
  BY <1>1, <1>4, <1>5
<1> QED
  BY <1>1, <1>8, <1>9, HeapSame, PlainKept

(* The stack of scopes when a new scope comes on top of it. *)
LEMMA EnvsEntered ==
  ASSUME NEW h, HeapGood(World, h), NEW S, "own" \in S, NEW places \in Seq(S), NEW e,
         EnvsGood(h, e, places), NEW parent \in 0..Len(h.scopes),
         parent = IF e = <<>> THEN 0 ELSE Last(e)
  PROVE  LET g == [h EXCEPT !.scopes = Append(@, NewScope(parent))]
         IN  /\ HeapGood(World, g) /\ Grows(h, g) /\ SameParents(h, g)
             /\ EnvsGood(g, Append(e, Len(h.scopes) + 1), Append(places, "own"))
<1> DEFINE g == [h EXCEPT !.scopes = Append(@, NewScope(parent))]
           n == Len(h.scopes) + 1
<1>1. /\ HeapGood(World, g) /\ Grows(h, g) /\ SameParents(h, g)
      /\ Len(g.scopes) = n /\ g.scopes[n].parent = parent
  BY EnterHeap
<1> HIDE DEF g
<1>2. h \in Heap /\ g \in Heap /\ Len(h.scopes) \in Nat /\ Extends(h, g)
  BY <1>1, HeapKnown DEF HeapGood, Grows
<1>3. EnvsGood(g, e, places)
  BY <1>1, <1>2, EnvsKept
<1>4. \A j \in 1..Len(e) : e[j] < n
  <2>1. e \in Seq(Nat) /\ \A j \in 1..Len(e) : e[j] <= Len(h.scopes)
    BY DEF EnvsGood
  <2>2. \A j \in 1..Len(e) : e[j] \in Nat
    BY <2>1
  <2> QED
    BY <1>2, <2>1, <2>2
<1>5. Len(g.scopes) \in Nat /\ n \in 0..Len(g.scopes) /\ n # 0
  BY <1>1, <1>2
<1>6. g.scopes[n].parent = IF e = <<>> THEN 0 ELSE Last(e)
  BY <1>1
<1> HIDE DEF n
<1>7. EnvsGood(g, Append(e, n), Append(places, "own"))
  BY <1>3, <1>4, <1>5, <1>6, EnvsAppended
<1> QED
  BY <1>1, <1>7 DEF g, n

LEMMA PreScopeSafe ==
  ASSUME WalkInv, PreScope PROVE StepSafe
<1> DEFINE x == [node |-> Top.node, pre |-> FALSE]
           q == Gathered(dfs, Places)
           K == {"own", "borrowed"}
<1>1. /\ dfs # <<>> /\ Top.pre /\ Walked.class = "Scope" /\ Descend(Walked.children)
      /\ heap' = [heap EXCEPT !.scopes = Append(@, NewScope(CurrentScope))]
      /\ envs' = Append(envs, Len(heap.scopes) + 1)
      /\ UNCHANGED <<program, status, calls, args, output, result>>
  BY DEF PreScope, Down, At
<1>2. /\ program \in Program /\ dfs \in Seq(Entry) /\ Walked.children \in Seq(DOMAIN Nodes)
      /\ x \in Entry /\ ~ x.pre /\ x.node = Top.node
  BY <1>1, TopKnown DEF WalkInv
<1>3. Places[x] = <<"own">> /\ OpenCalls[x] = <<>>
  BY <1>1, <1>2, StandsFor DEF Walked
<1> HIDE DEF x
<1>4. dfs' \in Seq(Entry) /\ Gathered(dfs', Places) = q \o Places[x]
  BY <1>1, <1>2, StandsFor, Descended DEF x
<1>5. Gathered(dfs', OpenCalls) = Gathered(dfs, OpenCalls) \o OpenCalls[x]
  BY <1>1, <1>2, StandsFor, Descended DEF x
<1>6. q \in Seq(K) /\ Gathered(dfs, OpenCalls) \in Seq(DOMAIN Nodes)
  BY <1>2, StandsFor, GatheredType
<1> HIDE DEF q
<1>7. Gathered(dfs', Places) = Append(q, "own")
  BY <1>3, <1>4, <1>6
<1>8. Gathered(dfs', OpenCalls) = Gathered(dfs, OpenCalls)
  BY <1>3, <1>5, <1>6, ConcatNothing
<1>9. /\ HeapGood(World, heap') /\ Grows(heap, heap') /\ SameParents(heap, heap')
      /\ EnvsGood(heap', envs', Append(q, "own"))
  <2>1. /\ CurrentScope \in 0..Len(heap.scopes)
        /\ CurrentScope = IF envs = <<>> THEN 0 ELSE Last(envs)
        /\ HeapGood(World, heap) /\ EnvsGood(heap, envs, q)
    BY CurrentScopeKnown DEF WalkInv, q
  <2> QED
    BY <1>1, <1>6, <2>1, EnvsEntered
<1>10. heap \in Heap /\ heap' \in Heap /\ Extends(heap, heap')
  BY <1>9 DEF WalkInv, HeapGood, Grows
<1>11. ArgsGood(World, heap', args') /\ Val(World, heap', result')
  BY <1>1, <1>9, <1>10, ArgsKept, ValKept DEF WalkInv
<1>12. /\ calls' = Gathered(dfs', OpenCalls)
       /\ status' \in {"walking", "returned", "thrown", "undefined"}
  BY <1>1, <1>8 DEF WalkInv
<1>13. WalkInv'
  BY <1>1, <1>4, <1>7, <1>9, <1>11, <1>12, InvKept
<1> QED
  BY <1>9, <1>13 DEF StepSafe

LEMMA PreFunctionScopeSafe ==
  ASSUME WalkInv, PreFunctionScope PROVE StepSafe
<1> DEFINE x == [node |-> Top.node, pre |-> FALSE]
           q == Gathered(dfs, Places)
           K == {"own", "borrowed"}
           closure == Get(Operand(0)).ref
<1>1. /\ dfs # <<>> /\ Top.pre /\ Walked.class = "FunctionScope" /\ Descend(Walked.children)
      /\ ValidOperands(1) /\ Get(Operand(0)).type = "Function"
      /\ heap' = [heap EXCEPT !.scopes = Append(@, NewScope(closure))]
      /\ envs' = envs \o <<closure, Len(heap.scopes) + 1>>
      /\ calls' = Append(calls, Top.node)
      /\ args' = Popped(1)
      /\ UNCHANGED <<program, status, output, result>>
  BY DEF PreFunctionScope, Down, At, Defined
<1>2. /\ program \in Program /\ dfs \in Seq(Entry) /\ Walked.children \in Seq(DOMAIN Nodes)
      /\ x \in Entry /\ ~ x.pre /\ x.node = Top.node
  BY <1>1, TopKnown DEF WalkInv
<1>3. Places[x] = <<"borrowed", "own">> /\ OpenCalls[x] = <<Top.node>>
  BY <1>1, <1>2, StandsFor DEF Walked
<1> HIDE DEF x
<1>4. dfs' \in Seq(Entry) /\ Gathered(dfs', Places) = q \o Places[x]
  BY <1>1, <1>2, StandsFor, Descended DEF x
<1>5. Gathered(dfs', OpenCalls) = Gathered(dfs, OpenCalls) \o OpenCalls[x]
  BY <1>1, <1>2, StandsFor, Descended DEF x
<1>6. q \in Seq(K) /\ Gathered(dfs, OpenCalls) \in Seq(DOMAIN Nodes)
  BY <1>2, StandsFor, GatheredType
<1> HIDE DEF q
<1>7. Gathered(dfs', Places) = Append(Append(q, "borrowed"), "own")
  BY <1>3, <1>4, <1>6
<1>8. calls' = Gathered(dfs', OpenCalls)
  <2>1. calls = Gathered(dfs, OpenCalls)
    BY DEF WalkInv
  <2> DEFINE c == Gathered(dfs, OpenCalls)
             t == Top.node
  <2>2. c \in Seq(DOMAIN Nodes) /\ t \in DOMAIN Nodes
    BY <1>1, <1>2, <1>6, TopKnown
  <2>3. calls' = Append(c, t) /\ Gathered(dfs', OpenCalls) = c \o <<t>>
    BY <1>1, <1>3, <1>5, <2>1
  <2> HIDE DEF c, t
  <2> QED
    BY <2>2, <2>3
<1>9. /\ Val(World, heap, Get(Operand(0))) /\ 1 <= Len(args)
      /\ HeapGood(World, heap) /\ EnvsGood(heap, envs, q) /\ heap \in Heap
  <2>1. ValidOperands(1)
    BY <1>1
  <2>2. 1 <= Len(args) /\ Val(World, heap, Get(Operand(0)))
    BY ONLY WalkInv, <2>1, Operands
  <2> QED
    BY <2>2 DEF WalkInv, HeapGood, q
<1>10. closure \in 0..Len(heap.scopes) /\ Len(heap.scopes) \in Nat
  BY <1>1, <1>9, HeapKnown DEF Val
<1> HIDE DEF closure
<1> DEFINE e == Append(envs, closure)
           n == Len(heap.scopes) + 1
<1>11. EnvsGood(heap, e, Append(q, "borrowed"))
  BY <1>6, <1>9, <1>10, EnvsAppended
<1>12. e # <<>> /\ Last(e) = closure /\ envs' = Append(e, n)
  <2>1. envs \in Seq(Nat) /\ closure \in Nat /\ n \in Nat
    BY <1>9, <1>10 DEF EnvsGood
  <2> HIDE DEF n
  <2>2. Len(e) = Len(envs) + 1 /\ e[Len(envs) + 1] = closure /\ Len(envs) \in Nat
    BY <2>1
  <2>3. envs \o <<closure, n>> = Append(Append(envs, closure), n)
    BY <2>1
  <2> QED
    BY <1>1, <2>2, <2>3 DEF Last, n
<1>13. /\ HeapGood(World, heap') /\ Grows(heap, heap') /\ SameParents(heap, heap')
       /\ EnvsGood(heap', envs', Append(Append(q, "borrowed"), "own"))
  <2> DEFINE r == Append(q, "borrowed")
  <2>1. r \in Seq(K)
    BY <1>6
  <2> HIDE DEF r, e
  <2>2. EnvsGood(heap, e, r)
    BY <1>11 DEF r
  <2>3. closure = IF e = <<>> THEN 0 ELSE Last(e)
    BY <1>12
  <2>4. /\ HeapGood(World, heap') /\ Grows(heap, heap') /\ SameParents(heap, heap')
        /\ EnvsGood(heap', envs', Append(r, "own"))
    BY <1>1, <1>9, <1>10, <1>12, <2>1, <2>2, <2>3, EnvsEntered
  <2> QED
    BY <2>4 DEF r
<1>14. heap' \in Heap /\ Extends(heap, heap')
  BY <1>13 DEF HeapGood, Grows
<1>15. ArgsGood(World, heap', args')
  BY <1>1, <1>9, <1>13, <1>14, Popping
<1>16. Val(World, heap', result')
  BY <1>1, <1>9, <1>14, ValKept DEF WalkInv
<1>17. status' \in {"walking", "returned", "thrown", "undefined"}
  BY <1>1 DEF WalkInv
<1>18. WalkInv'
  BY <1>1, <1>4, <1>7, <1>8, <1>13, <1>15, <1>16, <1>17, InvKept
<1> QED
  BY <1>13, <1>18 DEF StepSafe

LEMMA PostScopeSafe ==
  ASSUME WalkInv, PostScope PROVE StepSafe
<1> DEFINE q == Gathered(dfs', Places)
           K == {"own", "borrowed"}
           left == LeaveScope([heap |-> heap, envs |-> envs])
<1>1. /\ dfs # <<>> /\ ~ Top.pre /\ Walked.class = "Scope" /\ Ascend
      /\ heap' = left.heap /\ envs' = left.envs
      /\ UNCHANGED <<program, status, calls, args, output, result>>
  BY DEF PostScope, Back, At
<1>2. /\ program \in Program /\ dfs \in Seq(Entry) /\ Top \in Entry
  BY <1>1, TopKnown DEF WalkInv
<1>3. Places[Top] = <<"own">> /\ OpenCalls[Top] = <<>>
  BY <1>1, <1>2, StandsFor DEF Walked
<1>4. dfs' \in Seq(Entry) /\ Gathered(dfs, Places) = q \o Places[Top]
      /\ Gathered(dfs, OpenCalls) = Gathered(dfs', OpenCalls) \o OpenCalls[Top]
  BY <1>1, <1>2, Ascended
<1>5. q \in Seq(K) /\ Gathered(dfs', OpenCalls) \in Seq(DOMAIN Nodes)
  BY <1>4, StandsFor, GatheredType
<1> HIDE DEF q
<1>6. Gathered(dfs, Places) = Append(q, "own")
  BY <1>3, <1>4, <1>5
<1>7. Gathered(dfs', OpenCalls) = Gathered(dfs, OpenCalls)
  BY <1>3, <1>4, <1>5, ConcatNothing
<1>8. HeapGood(World, heap) /\ heap \in Heap /\ EnvsGood(heap, envs, Append(q, "own"))
  BY <1>6 DEF WalkInv, HeapGood
<1>9. /\ HeapGood(World, left.heap) /\ Grows(heap, left.heap)
      /\ EnvsGood(left.heap, left.envs, q)
      /\ Unharmed(heap, left.envs, left.heap)
  BY <1>5, <1>8, LeaveGood
<1> HIDE DEF left
<1>10. heap' \in Heap /\ Extends(heap, heap')
  BY <1>1, <1>9 DEF HeapGood, Grows
<1>11. ArgsGood(World, heap', args') /\ Val(World, heap', result')
  BY <1>1, <1>8, <1>9, <1>10, ArgsKept, ValKept DEF WalkInv
<1>12. /\ calls' = Gathered(dfs', OpenCalls)
       /\ status' \in {"walking", "returned", "thrown", "undefined"}
  BY <1>1, <1>7 DEF WalkInv
<1>13. WalkInv'
  BY <1>1, <1>4, <1>9, <1>11, <1>12, InvKept DEF q
<1> QED
  BY <1>1, <1>9, <1>13 DEF StepSafe

LEMMA PostFunctionScopeSafe ==
  ASSUME WalkInv, PostFunctionScope PROVE StepSafe
<1> DEFINE q == Gathered(dfs', Places)
           K == {"own", "borrowed"}
           left == LeaveScope([heap |-> heap, envs |-> envs])
<1>1. /\ dfs # <<>> /\ ~ Top.pre /\ Walked.class = "FunctionScope" /\ Ascend
      /\ heap' = left.heap /\ envs' = Front(left.envs)
      /\ calls' = Front(calls)
      /\ UNCHANGED <<program, status, args, output, result>>
  BY DEF PostFunctionScope, Back, At
<1>2. /\ program \in Program /\ dfs \in Seq(Entry) /\ Top \in Entry /\ Top.node \in DOMAIN Nodes
  BY <1>1, TopKnown DEF WalkInv
<1>3. Places[Top] = <<"borrowed", "own">> /\ OpenCalls[Top] = <<Top.node>>
  BY <1>1, <1>2, StandsFor DEF Walked
<1>4. dfs' \in Seq(Entry) /\ Gathered(dfs, Places) = q \o Places[Top]
      /\ Gathered(dfs, OpenCalls) = Gathered(dfs', OpenCalls) \o OpenCalls[Top]
  BY <1>1, <1>2, Ascended
<1>5. q \in Seq(K) /\ Gathered(dfs', OpenCalls) \in Seq(DOMAIN Nodes)
  BY <1>4, StandsFor, GatheredType
<1> HIDE DEF q
<1> DEFINE r == Append(q, "borrowed")
<1>6. Gathered(dfs, Places) = Append(r, "own") /\ r \in Seq(K)
  BY <1>3, <1>4, <1>5
<1>7. calls' = Gathered(dfs', OpenCalls)
  <2> DEFINE c == Gathered(dfs', OpenCalls)
             t == Top.node
  <2>1. calls = c \o <<t>> /\ c \in Seq(DOMAIN Nodes) /\ t \in DOMAIN Nodes
    BY <1>2, <1>3, <1>4, <1>5 DEF WalkInv
  <2> HIDE DEF c, t
  <2>2. calls \in Seq(DOMAIN Nodes) /\ Len(calls) = Len(c) + 1 /\ calls # <<>>
        /\ \A i \in 1..Len(c) : calls[i] = c[i]
    BY <2>1
  <2>3. /\ Front(calls) \in Seq(DOMAIN Nodes) /\ Len(Front(calls)) = Len(calls) - 1
        /\ \A i \in 1..(Len(calls) - 1) : Front(calls)[i] = calls[i]
    BY <2>2, EndsInElement
  <2>4. Front(calls) = c
    BY <2>1, <2>2, <2>3
  <2> QED
    BY <1>1, <2>4 DEF c
<1>8. HeapGood(World, heap) /\ heap \in Heap /\ EnvsGood(heap, envs, Append(r, "own"))
  BY <1>6 DEF WalkInv, HeapGood
<1> HIDE DEF r
<1>9. /\ HeapGood(World, left.heap) /\ Grows(heap, left.heap)
      /\ EnvsGood(left.heap, left.envs, r)
      /\ Unharmed(heap, left.envs, left.heap)
  BY <1>6, <1>8, LeaveGood
<1> HIDE DEF left
<1>10. heap' \in Heap /\ Extends(heap, heap')
  BY <1>1, <1>9 DEF HeapGood, Grows
<1> DEFINE e == left.envs
<1>11. /\ Len(Front(e)) = Len(e) - 1 /\ Len(e) \in Nat
       /\ \A i \in 1..(Len(e) - 1) : Front(e)[i] = e[i]
       /\ EnvsGood(left.heap, Front(e), q)
  BY <1>5, <1>9, EnvsFront DEF r
<1>12. Unharmed(heap, envs', heap')
  BY <1>1, <1>9, <1>11 DEF Unharmed
<1>13. ArgsGood(World, heap', args') /\ Val(World, heap', result')
  BY <1>1, <1>8, <1>9, <1>10, ArgsKept, ValKept DEF WalkInv
<1>14. status' \in {"walking", "returned", "thrown", "undefined"}
  BY <1>1 DEF WalkInv
<1>15. WalkInv'
  BY <1>1, <1>4, <1>7, <1>9, <1>11, <1>13, <1>14, InvKept DEF q
<1> QED
  BY <1>12, <1>15 DEF StepSafe

(* The scopes a goto leaves are all of the entries above its loop stand    *)
(* for.                                                                    *)
LEMMA AboveLoop ==
  ASSUME NEW above \in Seq(Entry),
         \A i \in DOMAIN above : ~ above[i].pre => Nodes[above[i].node].class \in {"Scope", "IfStatment"}
  PROVE  /\ Len(Gathered(above, OpenScopes)) \in Nat
         /\ Gathered(above, Places) = Owns(Len(Gathered(above, OpenScopes)))
         /\ Gathered(above, OpenCalls) = <<>>
<1> DEFINE own == [x \in Entry |-> IF ~ x.pre /\ Nodes[x.node].class = "Scope" THEN <<"own">> ELSE <<>>]
<1>1. /\ own \in [Entry -> Seq({"own"})]
      /\ \A x \in Entry : own[x] = IF ~ x.pre /\ Nodes[x.node].class = "Scope" THEN <<"own">> ELSE <<>>
  <2>1. <<"own">> \in Seq({"own"}) /\ <<>> \in Seq({"own"})
    OBVIOUS
  <2> QED
    BY <2>1
<1>2. \A x \in Entry : OpenScopes[x] = IF ~ x.pre /\ Nodes[x.node].class = "Scope" THEN <<x>> ELSE <<>>
  BY DEF OpenScopes
<1> HIDE DEF own
<1>3. \A i \in 1..Len(above) : above[i] \in Entry /\ i \in DOMAIN above
  OBVIOUS
<1>4. \A i \in 1..Len(above) : Places[above[i]] = own[above[i]] /\ OpenCalls[above[i]] = <<>>
  <2> SUFFICES ASSUME NEW i \in 1..Len(above)
               PROVE  Places[above[i]] = own[above[i]] /\ OpenCalls[above[i]] = <<>>
    OBVIOUS
  <2> DEFINE x == above[i]
  <2>1. x \in Entry /\ (~ x.pre => Nodes[x.node].class \in {"Scope", "IfStatment"})
    BY <1>3
  <2> HIDE DEF x
  <2>2. Places[x] = own[x] /\ OpenCalls[x] = <<>>
    BY <1>1, <2>1, StandsFor
  <2> QED
    BY <2>2 DEF x
<1>5. \A i \in 1..Len(above) : Len(own[above[i]]) = Len(OpenScopes[above[i]])
  <2>1. Len(<<"own">>) = 1 /\ Len(<<>>) = 0 /\ \A x \in Entry : Len(<<x>>) = 1
    OBVIOUS
  <2> QED
    BY <1>1, <1>2, <1>3, <2>1
<1>6. Gathered(above, Places) = Gathered(above, own)
  BY <1>4, GatheredSame
<1>7. Gathered(above, own) \in Seq({"own"})
  BY <1>1, GatheredType
<1>8. Len(Gathered(above, own)) = Len(Gathered(above, OpenScopes))
  <2>1. Stands(own, Entry, {"own"}) /\ Stands(OpenScopes, Entry, Entry)
    BY <1>1, WaysKnown DEF Stands
  <2> QED
    BY <1>5, <2>1, GatheredLength
<1>9. Gathered(above, OpenCalls) = <<>>
  BY <1>4, GatheredNothing
<1> QED
  BY <1>6, <1>7, <1>8, <1>9, OwnsKnown

LEMMA PreGotoSafe ==
  ASSUME WalkInv, PreGoto PROVE StepSafe
<1> DEFINE loop  == Nearest(Walked.target)
           lower == SubSeq(dfs, 1, loop)
           above == SubSeq(dfs, loop + 1, Len(dfs) - 1)
           n     == Len(Gathered(above, OpenScopes))
           left  == LeaveScopes(n)
           ids   == Nodes[Walked.target].children
           K     == {"own", "borrowed"}
<1>1. /\ dfs # <<>> /\ Top.pre /\ Walked.class = "Goto"
      /\ \A i \in DOMAIN above :
           ~ above[i].pre => Nodes[above[i].node].class \in {"Scope", "IfStatment"}
      /\ dfs' = SubSeq(dfs, 1, loop)
                  \o Gathered(SubSeq(dfs, loop + 1, Len(dfs) - 1), WayDown) \o Scheduled(ids)
      /\ heap' = left.heap /\ envs' = left.envs
      /\ UNCHANGED <<program, status, calls, args, output, result>>
  BY DEF PreGoto, Down, At
<1>2. /\ program \in Program /\ dfs \in Seq(Entry) /\ Top \in Entry /\ Top.node \in DOMAIN Nodes
  BY <1>1, TopKnown DEF WalkInv
<1>3. loop \in 0..Len(dfs)
  BY <1>2, NearestKnown
<1>4. ids \in Seq(DOMAIN Nodes)
  <2>1. NodeOK(Top.node, Nodes) /\ DOMAIN Nodes = 1..Len(Nodes)
    BY <1>2, NodesKnown
  <2>2. Walked.target \in DOMAIN Nodes
    BY <1>1, <2>1 DEF NodeOK, Walked
  <2> QED
    BY <1>2, <2>2, ChildrenKnown
<1>5. Places[Top] = <<>> /\ OpenCalls[Top] = <<>>
  BY <1>1, <1>2, StandsFor
<1> HIDE DEF loop, ids
<1>6. /\ dfs' \in Seq(Entry) /\ Gathered(dfs', Places) = Gathered(lower, Places)
  BY <1>1, <1>2, <1>3, <1>4, <1>5, StandsFor, GotoGathered
<1>7. Gathered(dfs', OpenCalls) = Gathered(lower, OpenCalls)
  BY <1>1, <1>2, <1>3, <1>4, <1>5, StandsFor, GotoGathered
<1>8. /\ lower \in Seq(Entry) /\ above \in Seq(Entry)
      /\ Gathered(dfs, Places) = Gathered(lower, Places) \o Gathered(above, Places)
  BY <1>1, <1>2, <1>3, <1>5, StandsFor, GotoSplit
<1>9. Gathered(dfs, OpenCalls) = Gathered(lower, OpenCalls) \o Gathered(above, OpenCalls)
  BY <1>1, <1>2, <1>3, <1>5, StandsFor, GotoSplit
<1> HIDE DEF lower
<1>10. /\ n \in Nat /\ Gathered(above, Places) = Owns(n) /\ Gathered(above, OpenCalls) = <<>>
  BY <1>1, <1>8, AboveLoop
<1> HIDE DEF above, n
<1>11. Gathered(lower, Places) \in Seq(K) /\ Gathered(lower, OpenCalls) \in Seq(DOMAIN Nodes)
  BY <1>8, StandsFor, GatheredType
<1> DEFINE q == Gathered(lower, Places)
<1>12. HeapGood(World, heap) /\ heap \in Heap /\ EnvsGood(heap, envs, q \o Owns(n))
  BY <1>8, <1>10 DEF WalkInv, HeapGood
<1> HIDE DEF q
<1>13. /\ HeapGood(World, left.heap) /\ Grows(heap, left.heap)
       /\ EnvsGood(left.heap, left.envs, q)
       /\ Unharmed(heap, left.envs, left.heap)
  BY <1>10, <1>11, <1>12, LeaveScopesGood DEF q
<1> HIDE DEF left
<1>14. heap' \in Heap /\ Extends(heap, heap')
  BY <1>1, <1>13 DEF HeapGood, Grows
<1>15. ArgsGood(World, heap', args') /\ Val(World, heap', result')
  BY <1>1, <1>12, <1>13, <1>14, ArgsKept, ValKept DEF WalkInv
<1>16. calls' = Gathered(dfs', OpenCalls)
  <2>1. calls = Gathered(dfs, OpenCalls)
    BY DEF WalkInv
  <2> QED
    BY <1>1, <1>7, <1>9, <1>10, <1>11, <2>1, ConcatNothing
<1>17. status' \in {"walking", "returned", "thrown", "undefined"}
  BY <1>1 DEF WalkInv
<1>18. WalkInv'
  BY <1>1, <1>6, <1>13, <1>15, <1>16, <1>17, InvKept DEF q
<1> QED
  BY <1>1, <1>13, <1>18 DEF StepSafe

LEMMA PreReturnSafe ==
  ASSUME WalkInv, PreReturn PROVE StepSafe
<1> DEFINE call == IF calls = <<>> THEN 0 ELSE Nearest(Last(calls))
           ids  == Walked.children
           x    == [node |-> Top.node, pre |-> FALSE]
<1>1. /\ dfs # <<>> /\ Top.pre /\ Walked.class = "ReturnStatment"
      /\ dfs' = SubSeq(dfs, 1, call)
                  \o Gathered(SubSeq(Entered, call + 1, Len(dfs)), WayBack) \o Scheduled(ids)
      /\ UNCHANGED <<program, status, envs, calls, args, heap, output, result>>
  BY DEF PreReturn, Down, At
<1>2. /\ program \in Program /\ dfs \in Seq(Entry) /\ Top \in Entry /\ x \in Entry
      /\ ids \in Seq(DOMAIN Nodes)
  BY <1>1, TopKnown DEF WalkInv
<1>3. call \in 0..Len(dfs)
  BY <1>2, NearestKnown
<1>4. /\ Places[Top] = <<>> /\ OpenCalls[Top] = <<>>
      /\ Places[[node |-> Top.node, pre |-> FALSE]] = <<>>
      /\ OpenCalls[[node |-> Top.node, pre |-> FALSE]] = <<>>
  <2>1. ~ x.pre /\ x.node = Top.node
    OBVIOUS
  <2> HIDE DEF x
  <2>2. Places[x] = <<>> /\ OpenCalls[x] = <<>>
    BY <1>1, <1>2, <2>1, StandsFor DEF Walked
  <2> QED
    BY <1>1, <1>2, <2>2, StandsFor DEF x
<1> HIDE DEF call, ids, x
<1>5. dfs' \in Seq(Entry) /\ Gathered(dfs', Places) = Gathered(dfs, Places)
  BY <1>1, <1>2, <1>3, <1>4, StandsFor, ReturnGathered
<1>6. Gathered(dfs', OpenCalls) = Gathered(dfs, OpenCalls)
  BY <1>1, <1>2, <1>3, <1>4, StandsFor, ReturnGathered
<1> QED
  BY <1>1, <1>5, <1>6, HeapSame, PlainKept

(* The end of the walk. *)
LEMMA NothingLeft ==
  ASSUME NEW w, NEW h
  PROVE  /\ <<>> \in Seq(Entry) /\ Gathered(<<>>, Places) = <<>> /\ Gathered(<<>>, OpenCalls) = <<>>
         /\ ArgsGood(w, h, <<>>) /\ EnvsGood(h, <<>>, <<>>)
BY GatheredNone DEF ArgsGood, EnvsGood

LEMMA ThrowSafe ==
  ASSUME WalkInv, Throw PROVE StepSafe
<1>1. /\ status' = "thrown" /\ dfs' = <<>> /\ envs' = <<>> /\ calls' = <<>> /\ args' = <<>>
      /\ program' = program /\ heap' = heap /\ result' = result
  BY DEF Throw
<1>2. HeapGood(World, heap) /\ Val(World, heap, result) /\ heap \in Heap
  BY DEF WalkInv, HeapGood
<1>3. WalkInv'
  BY <1>1, <1>2, NothingLeft, InvKept
<1> QED
  BY <1>1, <1>2, <1>3, GrowsItself DEF StepSafe

(* A step that leaves all but the status as it is. *)
LEMMA StatusOnly ==
  ASSUME WalkInv, status' \in {"walking", "returned", "thrown", "undefined"},
         UNCHANGED <<program, dfs, envs, calls, args, heap, result>>
  PROVE  StepSafe
<1>1. /\ dfs \in Seq(Entry) /\ HeapGood(World, heap) /\ heap \in Heap /\ ArgsGood(World, heap, args)
      /\ Val(World, heap, result) /\ calls = Gathered(dfs, OpenCalls)
      /\ EnvsGood(heap, envs, Gathered(dfs, Places))
  BY DEF WalkInv, HeapGood
<1>2. WalkInv'
  BY <1>1, InvKept
<1> QED
  BY <1>1, <1>2, GrowsItself DEF StepSafe

LEMMA ReturnSafe ==
  ASSUME WalkInv, Return PROVE StepSafe
<1>1. /\ status' = "returned" /\ UNCHANGED <<program, dfs, envs, calls>>
  BY DEF Return
<1>2. CASE args = <<>>
  <2>1. UNCHANGED <<args, heap, result>>
    BY <1>2 DEF Return
  <2> QED
    BY <1>1, <2>1, StatusOnly
<1>3. CASE args # <<>>
  <2> DEFINE copied == CopyJson(heap, Get(Operand(0)))
  <2>1. heap' = copied.heap /\ result' = copied.value /\ args' = Popped(1) /\ Valid(Operand(0))
    BY <1>3 DEF Return
  <2>2. ValidOperands(1)
    <3>1. args \in Seq(OperandRecord)
      BY DEF WalkInv, ArgsGood
    <3>2. Len(args) >= 1 /\ \A i \in 0..(1 - 1) : i = 0
      BY <1>3, <3>1
    <3> QED
      BY <2>1, <3>2 DEF ValidOperands
  <2>3. 1 <= Len(args) /\ Val(World, heap, Get(Operand(0)))
    BY <2>2, Operands
  <2>4. /\ HeapGood(World, copied.heap) /\ copied.heap \in Heap /\ heap \in Heap
        /\ Grows(heap, copied.heap) /\ SameParents(heap, copied.heap)
        /\ Val(World, copied.heap, copied.value)
    BY <2>3, CopyStep
  <2> HIDE DEF copied
  <2>5. ArgsGood(World, heap', args')
    BY <2>1, <2>3, <2>4, Popping
  <2>6. EnvsGood(heap', envs', Gathered(dfs', Places))
    BY <1>1, <2>1, <2>4, EnvsKept DEF WalkInv, Grows
  <2>7. dfs' \in Seq(Entry) /\ calls' = Gathered(dfs', OpenCalls)
    BY <1>1 DEF WalkInv
  <2>8. WalkInv'
    BY <1>1, <2>1, <2>4, <2>5, <2>6, <2>7, InvKept
  <2> QED
    BY <2>1, <2>4, <2>8 DEF StepSafe
<1> QED
  BY <1>2, <1>3

-----------------------------------------------------------------------------
(* The theorems.                                                           *)

LEMMA StepKeeps ==
  ASSUME WalkInv, [Next]_vars PROVE StepSafe
<1>1. CASE PreScope
  BY <1>1, PreScopeSafe
<1>2. CASE PreFunctionScope
  BY <1>2, PreFunctionScopeSafe
<1>3. CASE PreIf
  BY <1>3, PreIfSafe
<1>4. CASE PreGoto
  BY <1>4, PreGotoSafe
<1>5. CASE PreFunctionStatment
  BY <1>5, PreFunctionStatmentSafe
<1>6. CASE PreReturn
  BY <1>6, PreReturnSafe
<1>7. CASE PreOrdinary
  BY <1>7, PreOrdinarySafe
<1>8. CASE PostLiteral
  BY <1>8, PostLiteralSafe
<1>9. CASE PostVarible
  BY <1>9, PostVaribleSafe
<1>10. CASE PostArray
  BY <1>10, PostArraySafe
<1>11. CASE PostObject
  BY <1>11, PostObjectSafe
<1>12. CASE PostBinExpr
  BY <1>12, PostBinExprSafe
<1>13. CASE PostScope
  BY <1>13, PostScopeSafe
<1>14. CASE PostFunctionScope
  BY <1>14, PostFunctionScopeSafe
<1>15. CASE PostReturn
  BY <1>15, PostReturnSafe
<1>16. CASE PostPrint
  BY <1>16, PostPrintSafe
<1>17. CASE PostMember
  BY <1>17, PostMemberSafe
<1>18. CASE PostAssignVariable
  BY <1>18, PostAssignVariableSafe
<1>19. CASE PostAssignMember
  BY <1>19, PostAssignMemberSafe
<1>20. CASE PostCall
  BY <1>20, PostCallSafe
<1>21. CASE PostWithoutHandler
  BY <1>21, PostWithoutHandlerSafe
<1>22. CASE Throw
  BY <1>22, ThrowSafe
<1>23. CASE Return
  BY <1>23, ReturnSafe
<1>24. CASE Undefined
  <2>1. /\ status' = "undefined"
        /\ UNCHANGED <<program, dfs, envs, calls, args, heap, result>>
    BY <1>24 DEF Undefined
  <2> QED
    BY <2>1, StatusOnly
<1>25. CASE UNCHANGED vars
  <2>1. status' = status /\ UNCHANGED <<program, dfs, envs, calls, args, heap, result>>
    BY <1>25 DEF vars
  <2>2. status' \in {"walking", "returned", "thrown", "undefined"}
    BY <2>1 DEF WalkInv
  <2> QED
    BY <2>1, <2>2, StatusOnly
<1> QED
  BY <1>1, <1>2, <1>3, <1>4, <1>5, <1>6, <1>7, <1>8, <1>9, <1>10, <1>11, <1>12, <1>13, <1>14, <1>15,
     <1>16, <1>17, <1>18, <1>19, <1>20, <1>21, <1>22, <1>23, <1>24, <1>25
     DEF Next, Walk, Finished

LEMMA InitGood ==
  ASSUME Init PROVE WalkInv
<1> DEFINE x == [node |-> Len(Nodes), pre |-> TRUE]
           none == [scopes |-> <<>>, arrays |-> <<>>, objects |-> <<>>]
<1>1. /\ program \in Program /\ status = "walking" /\ dfs = <<x>>
      /\ envs = <<>> /\ calls = <<>> /\ args = <<>> /\ heap = none /\ result = NullJson
  BY DEF Init
<1>2. x \in Entry /\ x.pre
  <2>1. Len(Nodes) \in DOMAIN Nodes
    BY <1>1, NodesKnown
  <2> QED
    BY <2>1 DEF Entry
<1>3. Places[x] = <<>> /\ OpenCalls[x] = <<>>
  BY <1>2, StandsFor
<1> HIDE DEF x
<1>4. /\ Gathered(<<x>>, Places) = <<>> /\ Gathered(<<x>>, OpenCalls) = <<>>
  <2>1. \A i \in 1..Len(<<x>>) : Places[<<x>>[i]] = <<>> /\ OpenCalls[<<x>>[i]] = <<>>
    BY <1>3
  <2>2. <<x>> \in Seq(Entry)
    BY <1>2
  <2> QED
    BY <2>1, <2>2, GatheredNothing
<1>5. HeapGood(World, heap)
  <2>1. none \in Heap /\ Len(none.scopes) = 0 /\ Len(none.arrays) = 0 /\ Len(none.objects) = 0
        /\ none.scopes \in Seq(ScopeRecord)
    BY DEF Heap
  <2> HIDE DEF none
  <2> QED
    BY <1>1, <2>1 DEF HeapGood, ScopesGood, OlderParents
<1>6. Val(World, heap, result)
  BY <1>1, NullVal
<1>7. ArgsGood(World, heap, args) /\ EnvsGood(heap, envs, <<>>)
  BY <1>1, NothingLeft
<1>8. dfs \in Seq(Entry)
  BY <1>1, <1>2
<1> QED
  BY <1>1, <1>4, <1>5, <1>6, <1>7, <1>8 DEF WalkInv

(* In every state of the walk its stacks, its operands and the heap are as *)
(* its handlers need them.                                                 *)
THEOREM WalkInvariance == Spec => []WalkInv
<1>1. Init => WalkInv
  BY InitGood
<1>2. WalkInv /\ [Next]_vars => WalkInv'
  BY StepKeeps DEF StepSafe
<1> QED
  BY <1>1, <1>2, PTL DEF Spec

LEMMA ValIsOK ==
  ASSUME NEW v, heap \in Heap, Val(World, heap, v)
  PROVE  ValueOK(v)
<1>1. DOMAIN heap.arrays = 1..Len(heap.arrays) /\ DOMAIN heap.objects = 1..Len(heap.objects)
  BY HeapKnown
<1>2. \A n \in World.functions : Nodes[n].class = "FunctionStatment"
  BY DEF World
<1> QED
  BY <1>1, <1>2 DEF Val, ValueOK

LEMMA InvTyped ==
  ASSUME WalkInv PROVE TypeOK
<1>1. /\ heap \in Heap /\ HeapGood(World, heap) /\ ScopesGood(World, heap, heap.scopes)
      /\ DOMAIN heap.scopes = 1..Len(heap.scopes) /\ DOMAIN heap.arrays = 1..Len(heap.arrays)
      /\ DOMAIN heap.objects = 1..Len(heap.objects) /\ Len(heap.scopes) \in Nat
  BY HeapKnown DEF WalkInv, HeapGood
<1>2. dfs \in Seq([node : DOMAIN Nodes, pre : BOOLEAN])
  BY DEF WalkInv, Entry
<1>3. envs \in Seq(0..Len(heap.scopes))
  <2>1. envs \in Seq(Nat) /\ \A i \in 1..Len(envs) : envs[i] \in 0..Len(heap.scopes)
    BY CurrentScopeKnown DEF WalkInv, EnvsGood
  <2> QED
    BY <2>1
<1>4. \A i \in DOMAIN calls : Nodes[calls[i]].class = "FunctionScope"
  <2> DEFINE F == {n \in DOMAIN Nodes : Nodes[n].class = "FunctionScope"}
  <2>1. OpenCalls \in [Entry -> Seq(F)]
    <3>1. \A x \in Entry : x.node \in DOMAIN Nodes
      BY DEF Entry
    <3>2. <<>> \in Seq(F) /\ \A n \in F : <<n>> \in Seq(F)
      OBVIOUS
    <3>3. \A x \in Entry : Nodes[x.node].class = "FunctionScope" => x.node \in F
      BY <3>1
    <3> HIDE DEF F
    <3> QED
      BY <3>2, <3>3 DEF OpenCalls
  <2>2. calls = Gathered(dfs, OpenCalls) /\ dfs \in Seq(Entry)
    BY DEF WalkInv
  <2>3. calls \in Seq(F)
    BY <2>1, <2>2, GatheredType
  <2>4. \A i \in DOMAIN calls : calls[i] \in F
    BY <2>3
  <2> QED
    BY <2>4
<1>5. \A i \in DOMAIN args : ValueOK(args[i].value) /\ PlaceOK(args[i].place)
  <2> SUFFICES ASSUME NEW i \in DOMAIN args PROVE ValueOK(args[i].value) /\ PlaceOK(args[i].place)
    OBVIOUS
  <2>1. args \in Seq(OperandRecord)
    BY DEF WalkInv, ArgsGood
  <2>2. i \in 1..Len(args) /\ args[i] \in OperandRecord
    BY <2>1
  <2>3. Val(World, heap, args[i].value) /\ PlaceFits(heap, args[i].place)
    BY <2>2 DEF WalkInv, ArgsGood
  <2> DEFINE place == args[i].place
  <2>4. place \in PlaceRecord
    BY <2>2 DEF OperandRecord
  <2>5. place.kind \in {"none", "dangling", "Scope", "Array", "Object"} /\ place.index \in Nat
    BY <2>4 DEF PlaceRecord
  <2>6. PlaceOK(place)
    <3>1. place.kind = "Array" =>
            /\ place.ref \in 1..Len(heap.arrays) /\ place.index + 1 <= Len(heap.arrays[place.ref])
      BY <2>3 DEF PlaceFits
    <3>2. place.kind = "Array" => place.index + 1 \in DOMAIN heap.arrays[place.ref]
      BY <1>1, <2>5, <3>1, HeapKnown
    <3> QED
      BY <2>3, <2>5, <3>2 DEF PlaceOK, PlaceFits
  <2> QED
    BY <1>1, <2>3, <2>6, ValIsOK
<1>6. \A s \in DOMAIN heap.scopes : heap.scopes[s].parent < s /\ ValuesOK(heap.scopes[s].vars)
  BY <1>1, ValIsOK DEF ScopesGood, OlderParents, Vals, ValuesOK
<1>7. \A c \in DOMAIN heap.arrays : ValuesOK(heap.arrays[c])
  BY <1>1, ValIsOK DEF HeapGood, Vals, ValuesOK
<1>8. \A c \in DOMAIN heap.objects : ValuesOK(heap.objects[c])
  BY <1>1, ValIsOK DEF HeapGood, Vals, ValuesOK
<1>9. ValueOK(result)
  BY <1>1, ValIsOK DEF WalkInv
<1>10. program \in Program /\ status \in {"walking", "returned", "thrown", "undefined"}
  BY DEF WalkInv
<1> QED
  BY <1>2, <1>3, <1>4, <1>5, <1>6, <1>7, <1>8, <1>9, <1>10 DEF TypeOK

(* Every value and every place that anything on the stacks, in a scope or  *)
(* in a cell refers to exists, in every state of every run of              *)
(* StackMachine::exec.                                                     *)
THEOREM WalkerTypeCorrect == Spec => []TypeOK
<1>1. WalkInv => TypeOK
  BY InvTyped
<1> QED
  BY <1>1, WalkInvariance, PTL

LEMMA InvMatches ==
  ASSUME WalkInv PROVE EnvsMatchWalk
<1> DEFINE places == Gathered(dfs, Places)
<1>1. EnvsGood(heap, envs, places) /\ calls = Gathered(dfs, OpenCalls)
  BY DEF WalkInv
<1> HIDE DEF places
<1>2. envs \in Seq(Nat) /\ Len(envs) = Len(places) /\ DOMAIN envs = 1..Len(envs)
  BY <1>1 DEF EnvsGood
<1>3. \A i \in DOMAIN envs :
        places[i] = "own" =>
          heap.scopes[envs[i]].parent = (IF i = 1 THEN 0 ELSE envs[i - 1])
  BY <1>1, <1>2 DEF EnvsGood
<1> QED
  BY <1>1, <1>2, <1>3 DEF EnvsMatchWalk, places

(* However a scope is left, the stack of scopes and the stack of calls are *)
(* in step with the walk: at the end of a scope, at a return out of nested *)
(* loops (unsheduleDescentToSubtree) and at the goto of a loop             *)
(* (cancelDescentFromSubtree).                                             *)
THEOREM ScopesMatchTheWalk == Spec => []EnvsMatchWalk
<1>1. WalkInv => EnvsMatchWalk
  BY InvMatches
<1> QED
  BY <1>1, WalkInvariance, PTL

LEMMA ChainsStay ==
  ASSUME WalkInv, [Next]_vars
  PROVE  \A i \in DOMAIN envs \cap DOMAIN envs' :
           envs'[i] = envs[i] => Chain(heap'.scopes, envs[i]) = Chain(heap.scopes, envs[i])
<1> SUFFICES ASSUME NEW i \in DOMAIN envs \cap DOMAIN envs', envs'[i] = envs[i]
             PROVE  Chain(heap'.scopes, envs[i]) = Chain(heap.scopes, envs[i])
  OBVIOUS
<1>1. WalkInv' /\ (SameParents(heap, heap') \/ Unharmed(heap, envs', heap'))
  BY StepKeeps DEF StepSafe
<1>2. /\ heap.scopes \in Seq(ScopeRecord) /\ OlderParents(heap.scopes)
      /\ heap'.scopes \in Seq(ScopeRecord) /\ OlderParents(heap'.scopes)
  BY <1>1 DEF WalkInv, HeapGood, ScopesGood
<1>3. envs \in Seq(Nat) /\ \A j \in 1..Len(envs) : envs[j] <= Len(heap.scopes)
  BY DEF WalkInv, EnvsGood
<1>4. envs' \in Seq(Nat) /\ \A j \in 1..Len(envs') : envs'[j] <= Len(heap'.scopes)
  BY <1>1 DEF WalkInv, EnvsGood
<1>5. i \in 1..Len(envs) /\ i \in 1..Len(envs')
  BY <1>3, <1>4
<1>6. envs[i] \in 0..Len(heap.scopes) /\ envs[i] <= Len(heap'.scopes)
  BY <1>2, <1>3, <1>4, <1>5
<1>7. \A s \in 1..envs[i] : heap'.scopes[s].parent = heap.scopes[s].parent
  <2>1. CASE SameParents(heap, heap')
    <3>1. \A s \in 1..envs[i] : s \in 1..Len(heap.scopes)
      BY <1>2, <1>6
    <3> QED
      BY <2>1, <3>1 DEF SameParents
  <2>2. CASE Unharmed(heap, envs', heap')
    BY <1>5, <2>2 DEF Unharmed
  <2> QED
    BY <1>1, <2>1, <2>2
<1> QED
  BY <1>2, <1>6, <1>7, ChainKept

(* Whatever CycleBreaker::breakCycles cuts when a scope is left, the       *)
(* chains of the scopes that stay on the stack are as they were.           *)
THEOREM OpenChainsStay == Spec => OpenChainsIntact
<1>1. WalkInv /\ [Next]_vars =>
        [\A i \in DOMAIN envs \cap DOMAIN envs' :
           envs'[i] = envs[i] => Chain(heap'.scopes, envs[i]) = Chain(heap.scopes, envs[i])]_vars
  BY ChainsStay
<1> QED
  BY <1>1, WalkInvariance, PTL DEF Spec, OpenChainsIntact

-----------------------------------------------------------------------------
(* Nothing is aliased.  The places a container is held in, one by one.     *)

VarSpot(h, spot) ==
  \E s \in 1..Len(h.scopes) : \E x \in DOMAIN h.scopes[s].vars :
    spot = <<<<"Scope", s>>, x, h.scopes[s].vars[x]>>

CellSpot(h, spot) ==
  \E c \in Cells(h) : \E k \in DOMAIN Items(h, c) : spot = <<<<c.type, c.ref>>, k, Items(h, c)[k]>>

ArgSpot(ops, spot) == \E i \in DOMAIN ops : spot = <<<<"Operands", 0>>, i, ops[i].value>>

LEMMA SpotsKnown ==
  ASSUME NEW h \in Heap, NEW ops
  PROVE  \A spot : spot \in Spots(h, ops) <=>
           /\ VarSpot(h, spot) \/ CellSpot(h, spot) \/ ArgSpot(ops, spot)
           /\ IsContainer(spot[3])
<1> DEFINE SpotsAt(room) == {<<room, k, Held(h, ops, room)[k]>> : k \in DOMAIN Held(h, ops, room)}
<1>1. /\ DOMAIN h.scopes = 1..Len(h.scopes)
      /\ DOMAIN h.arrays = 1..Len(h.arrays) /\ DOMAIN h.objects = 1..Len(h.objects)
  BY HeapKnown
<1>2. \A s : Held(h, ops, <<"Scope", s>>) = h.scopes[s].vars
  BY DEF Held
<1>3. \A c : Held(h, ops, <<"Array", c>>) = h.arrays[c]
  BY DEF Held
<1>4. \A c : Held(h, ops, <<"Object", c>>) = h.objects[c]
  BY DEF Held
<1>5. Held(h, ops, <<"Operands", 0>>) = [i \in DOMAIN ops |-> ops[i].value]
  BY DEF Held
<1>6. \A spot : (\E room \in {"Scope"} \X DOMAIN h.scopes : spot \in SpotsAt(room)) <=> VarSpot(h, spot)
  BY <1>1, <1>2 DEF VarSpot
<1>7. \A spot : (\/ \E room \in {"Array"} \X DOMAIN h.arrays : spot \in SpotsAt(room)
                 \/ \E room \in {"Object"} \X DOMAIN h.objects : spot \in SpotsAt(room)) <=> CellSpot(h, spot)
  <2>1. ASSUME NEW spot, NEW room \in {"Array"} \X DOMAIN h.arrays, spot \in SpotsAt(room)
        PROVE  CellSpot(h, spot)
    <3>1. PICK c \in 1..Len(h.arrays) : room = <<"Array", c>>
      BY <1>1, <2>1
    <3>2. /\ ArrayJson(c) \in Cells(h) /\ ArrayJson(c).type = "Array" /\ ArrayJson(c).ref = c
          /\ Items(h, ArrayJson(c)) = h.arrays[c]
      BY CellsAreCells DEF Items
    <3> QED
      BY <1>3, <2>1, <3>1, <3>2 DEF CellSpot
  <2>2. ASSUME NEW spot, NEW room \in {"Object"} \X DOMAIN h.objects, spot \in SpotsAt(room)
        PROVE  CellSpot(h, spot)
    <3>1. PICK c \in 1..Len(h.objects) : room = <<"Object", c>>
      BY <1>1, <2>2
    <3>2. /\ ObjectJson(c) \in Cells(h) /\ ObjectJson(c).type = "Object" /\ ObjectJson(c).ref = c
          /\ Items(h, ObjectJson(c)) = h.objects[c]
      BY CellsAreCells DEF Items
    <3> QED
      BY <1>4, <2>2, <3>1, <3>2 DEF CellSpot
  <2>3. ASSUME NEW spot, CellSpot(h, spot)
        PROVE  \/ \E room \in {"Array"} \X DOMAIN h.arrays : spot \in SpotsAt(room)
               \/ \E room \in {"Object"} \X DOMAIN h.objects : spot \in SpotsAt(room)
    <3>1. PICK c \in Cells(h) : \E k \in DOMAIN Items(h, c) : spot = <<<<c.type, c.ref>>, k, Items(h, c)[k]>>
      BY <2>3 DEF CellSpot
    <3>2. PICK k \in DOMAIN Items(h, c) : spot = <<<<c.type, c.ref>>, k, Items(h, c)[k]>>
      BY <3>1
    <3>3. CASE c.type = "Array" /\ c.ref \in 1..Len(h.arrays)
      <4>1. <<"Array", c.ref>> \in {"Array"} \X DOMAIN h.arrays
            /\ Held(h, ops, <<"Array", c.ref>>) = Items(h, c)
        BY <1>1, <1>3, <3>3 DEF Items
      <4> QED
        BY <3>2, <3>3, <4>1
    <3>4. CASE c.type = "Object" /\ c.ref \in 1..Len(h.objects)
      <4>1. <<"Object", c.ref>> \in {"Object"} \X DOMAIN h.objects
            /\ Held(h, ops, <<"Object", c.ref>>) = Items(h, c)
        BY <1>1, <1>4, <3>4 DEF Items
      <4> QED
        BY <3>2, <3>4, <4>1
    <3> QED
      BY <3>3, <3>4, CellsAreCells
  <2> QED
    BY <2>1, <2>2, <2>3
<1>8. \A spot : spot \in SpotsAt(<<"Operands", 0>>) <=> ArgSpot(ops, spot)
  BY <1>5 DEF ArgSpot
<1>9. \A spot : spot \in Spots(h, ops) <=>
        /\ \E room \in Rooms(h) : spot \in SpotsAt(room)
        /\ IsContainer(spot[3])
  BY DEF Spots, IsContainer
<1> HIDE DEF SpotsAt
<1>10. \A spot : (\E room \in Rooms(h) : spot \in SpotsAt(room)) <=>
         \/ \E room \in {"Scope"} \X DOMAIN h.scopes : spot \in SpotsAt(room)
         \/ \E room \in {"Array"} \X DOMAIN h.arrays : spot \in SpotsAt(room)
         \/ \E room \in {"Object"} \X DOMAIN h.objects : spot \in SpotsAt(room)
         \/ spot \in SpotsAt(<<"Operands", 0>>)
  BY DEF Rooms
<1> QED
  BY <1>6, <1>7, <1>8, <1>9, <1>10

(* Containers are held from above: no container is inside of itself.       *)
Ranked(h, rank, bound) ==
  /\ bound \in Nat /\ rank \in [Json -> Nat]
  /\ \A c \in Cells(h) : rank[c] < bound
  /\ \A c \in Cells(h) : \A k \in DOMAIN Items(h, c) :
       IsContainer(Items(h, c)[k]) => rank[Items(h, c)[k]] < rank[c]

Nested(h) == \E rank, bound : Ranked(h, rank, bound)

NothingShared(h, ops) == Separate(h, ops) /\ Nested(h)

(* A step that leaves containers where they are, or drops them.            *)
LEMMA FewerSpots ==
  ASSUME NEW h \in Heap, NEW g \in Heap, NEW ops, NEW left, NothingShared(h, ops),
         \A spot : IsContainer(spot[3]) /\ VarSpot(g, spot) => VarSpot(h, spot),
         \A spot : IsContainer(spot[3]) /\ CellSpot(g, spot) => CellSpot(h, spot),
         \A spot : IsContainer(spot[3]) /\ ArgSpot(left, spot) => ArgSpot(ops, spot),
         Cells(g) \subseteq Cells(h)
  PROVE  NothingShared(g, left)
<1>1. Spots(g, left) \subseteq Spots(h, ops)
  BY SpotsKnown
<1>2. Separate(g, left)
  BY <1>1 DEF NothingShared, Separate
<1>3. PICK rank, bound : Ranked(h, rank, bound)
  BY DEF NothingShared, Nested
<1>4. ASSUME NEW c \in Cells(g), NEW k \in DOMAIN Items(g, c), IsContainer(Items(g, c)[k])
      PROVE  rank[Items(g, c)[k]] < rank[c]
  <2> DEFINE x == Items(g, c)[k]
             spot == <<<<c.type, c.ref>>, k, x>>
  <2>1. CellSpot(g, spot) /\ spot[3] = x
    BY DEF CellSpot
  <2>2. CellSpot(h, spot)
    BY <1>4, <2>1
  <2>3. PICK d \in Cells(h) : \E l \in DOMAIN Items(h, d) : spot = <<<<d.type, d.ref>>, l, Items(h, d)[l]>>
    BY <2>2 DEF CellSpot
  <2>4. PICK l \in DOMAIN Items(h, d) : spot = <<<<d.type, d.ref>>, l, Items(h, d)[l]>>
    BY <2>3
  <2> HIDE DEF x
  <2>5. d.type = c.type /\ d.ref = c.ref /\ Items(h, d)[l] = x
    BY <2>4
  <2>6. c = d
    BY <2>5, CellsAreCells
  <2> QED
    BY <1>3, <1>4, <2>5, <2>6 DEF Ranked, x
<1>5. Ranked(g, rank, bound)
  BY <1>3, <1>4 DEF Ranked
<1> QED
  BY <1>2, <1>5 DEF NothingShared, Nested

(* Everything a heap and its operands hold exists. *)
ArgsVal(w, h, ops) == ops \in Seq(OperandRecord) /\ \A i \in 1..Len(ops) : Val(w, h, ops[i].value)

LEMMA SpotsExist ==
  ASSUME NEW w, NEW h, HeapGood(w, h), NEW ops, ArgsVal(w, h, ops)
  PROVE  \A spot \in Spots(h, ops) : spot[3] \in Cells(h)
<1>1. h \in Heap /\ ScopesGood(w, h, h.scopes)
  BY DEF HeapGood
<1>2. \A c \in Cells(h) : \A k \in DOMAIN Items(h, c) : Items(h, c)[k] \in Contents(h, c)
  BY DEF Items, Contents, Range
<1>3. \A v : Val(w, h, v) /\ IsContainer(v) => v \in Cells(h)
  BY CellsVal DEF IsContainer
<1> TAKE spot \in Spots(h, ops)
<1>4. IsContainer(spot[3]) /\ (VarSpot(h, spot) \/ CellSpot(h, spot) \/ ArgSpot(ops, spot))
  BY <1>1, SpotsKnown
<1>5. CASE VarSpot(h, spot)
  <2>1. PICK s \in 1..Len(h.scopes) : \E x \in DOMAIN h.scopes[s].vars :
          spot = <<<<"Scope", s>>, x, h.scopes[s].vars[x]>>
    BY <1>5 DEF VarSpot
  <2>2. Vals(w, h, h.scopes[s].vars)
    BY <1>1 DEF ScopesGood
  <2> QED
    BY <1>3, <1>4, <2>1, <2>2 DEF Vals
<1>6. CASE CellSpot(h, spot)
  <2>1. PICK c \in Cells(h) : \E k \in DOMAIN Items(h, c) : spot = <<<<c.type, c.ref>>, k, Items(h, c)[k]>>
    BY <1>6 DEF CellSpot
  <2> QED
    BY <1>2, <1>3, <1>4, <2>1, CellsVal
<1>7. CASE ArgSpot(ops, spot)
  <2>1. PICK i \in DOMAIN ops : spot = <<<<"Operands", 0>>, i, ops[i].value>>
    BY <1>7 DEF ArgSpot
  <2>2. i \in 1..Len(ops)
    BY DEF ArgsVal
  <2> QED
    BY <1>3, <1>4, <2>1, <2>2 DEF ArgsVal
<1> QED
  BY <1>4, <1>5, <1>6, <1>7

(* What is new in heap g can be held from anything that was in heap h.     *)
NestedBelow(h, g) ==
  \E rank, bound :
    /\ Ranked(g, rank, bound)
    /\ \A c \in Cells(g) \ Cells(h) : \A d \in Cells(h) : rank[c] < rank[d]

(* A copy shares nothing with what was there, nor with itself.             *)
LEMMA CopySeparate ==
  ASSUME NEW w, NEW h, HeapGood(w, h), NEW v, Val(w, h, v),
         NEW ops, ArgsVal(w, h, ops), NothingShared(h, ops),
         NEW g, NEW value, HeapGood(w, g), g.scopes = h.scopes, CopyOf(h, v, g, value),
         NEW last \in OperandRecord, last.value = value
  PROVE  /\ NothingShared(g, Append(ops, last))
         /\ NestedBelow(h, g)
         /\ IsContainer(value) => value \in Cells(g) \ Cells(h)
         /\ \A c \in Cells(h) : c \in Cells(g) /\ Items(g, c) = Items(h, c)
<1> DEFINE fresh == Cells(g) \ Cells(h)
           R == Reachable(h, {v})
           more == Append(ops, last)
           n == Len(ops) + 1
<1>1. PICK from \in [fresh -> R] :
        /\ \A c, d \in fresh : from[c] = from[d] => c = d
        /\ \A c \in fresh :
             /\ DOMAIN Items(g, c) = DOMAIN Items(h, from[c])
             /\ \A k \in DOMAIN Items(g, c) :
                  IsContainer(Items(g, c)[k]) =>
                    Items(g, c)[k] \in fresh /\ from[Items(g, c)[k]] = Items(h, from[c])[k]
        /\ IsContainer(value) => value \in fresh /\ from[value] = v
  BY DEF CopyOf
<1>2. \A c \in Cells(h) : c \in Cells(g) /\ Items(g, c) = Items(h, c)
  BY DEF CopyOf
<1>3. /\ R \subseteq Cells(h)
      /\ \A T : (/\ ContainersIn({v}) \subseteq T
                 /\ \A c \in T \cap Cells(h) : ContainersIn(Contents(h, c)) \subseteq T)
                   => R \subseteq T
  <2>1. \A u \in {v} : Val(w, h, u)
    OBVIOUS
  <2> QED
    BY <2>1, ReachableSmallest
<1>4. h \in Heap /\ g \in Heap
  BY DEF HeapGood
<1>5. PICK rank, bound : Ranked(h, rank, bound)
  BY DEF NothingShared, Nested
<1>6. /\ Len(ops) \in Nat /\ DOMAIN ops = 1..Len(ops)
      /\ n \notin DOMAIN ops
      /\ DOMAIN more = 1..n /\ more[n].value = value
      /\ \A i \in DOMAIN more : (i \in DOMAIN ops /\ more[i] = ops[i]) \/ i = n
  BY DEF ArgsVal
<1> HIDE DEF fresh, R, more, n
<1>7. \A c \in fresh : from[c] \in Cells(h) /\ from[c] \in R /\ c \in Cells(g) /\ c \notin Cells(h)
  BY <1>1, <1>3 DEF fresh
<1>8. \A c \in Cells(h) : \A k \in DOMAIN Items(h, c) : Items(h, c)[k] \in Contents(h, c)
  BY DEF Items, Contents, Range
<1>9. Cells(h) \subseteq Json /\ Cells(g) \subseteq Json
  BY CellsVal
<1>10. ASSUME IsContainer(v), NEW c \in R PROVE rank[c] <= rank[v]
  <2> DEFINE T == {u \in Cells(h) : rank[u] <= rank[v]}
  <2>1. v \in Cells(h)
    BY <1>10, CellsVal DEF IsContainer
  <2>2. rank \in [Json -> Nat]
    BY <1>5 DEF Ranked
  <2>3. rank[v] <= rank[v]
    BY <1>9, <2>1, <2>2
  <2>4. ContainersIn({v}) \subseteq T
    BY <2>1, <2>3 DEF ContainersIn
  <2>5. ASSUME NEW d \in T, NEW u \in ContainersIn(Contents(h, d)) PROVE u \in T
    <3>1. u \in Contents(h, d) /\ IsContainer(u)
      BY <2>5 DEF ContainersIn, IsContainer
    <3>2. PICK k \in DOMAIN Items(h, d) : u = Items(h, d)[k]
      BY <3>1 DEF Items, Contents, Range
    <3>3. rank[u] < rank[d]
      BY <1>5, <3>1, <3>2 DEF Ranked
    <3>4. u \in Cells(h)
      BY <3>1, CellsVal DEF IsContainer
    <3>5. rank[u] \in Nat /\ rank[d] \in Nat /\ rank[v] \in Nat
      BY <1>9, <2>1, <2>2, <2>5, <3>4
    <3> QED
      BY <2>5, <3>3, <3>4, <3>5
  <2>6. R \subseteq T
    BY <1>3, <2>4, <2>5
  <2> QED
    BY <1>10, <2>6
<1> DEFINE OfCell(spot, c, k) ==
             /\ spot = <<<<c.type, c.ref>>, k, Items(g, c)[k]>>
             /\ k \in DOMAIN Items(h, from[c])
             /\ spot[3] \in fresh
             /\ from[spot[3]] = Items(h, from[c])[k]
             /\ IsContainer(from[spot[3]])
           OfLast(spot) == /\ spot = <<<<"Operands", 0>>, n, value>>
                           /\ spot[3] \in fresh /\ from[spot[3]] = v /\ IsContainer(v)
<1>11. ASSUME NEW c \in Cells(h) PROVE IsContainer(c)
  BY <1>11, CellsAreCells DEF IsContainer
<1>12. ASSUME NEW spot \in Spots(g, more)
       PROVE  \/ spot \in Spots(h, ops)
              \/ \E c \in fresh : \E k : OfCell(spot, c, k)
              \/ OfLast(spot)
  <2>1. IsContainer(spot[3]) /\ (VarSpot(g, spot) \/ CellSpot(g, spot) \/ ArgSpot(more, spot))
    BY <1>4, SpotsKnown
  <2>2. CASE VarSpot(g, spot)
    <3>1. VarSpot(h, spot)
      BY <2>2 DEF VarSpot
    <3> QED
      BY <1>4, <2>1, <3>1, SpotsKnown
  <2>3. CASE CellSpot(g, spot)
    <3>1. PICK c \in Cells(g) : \E k \in DOMAIN Items(g, c) : spot = <<<<c.type, c.ref>>, k, Items(g, c)[k]>>
      BY <2>3 DEF CellSpot
    <3>2. PICK k \in DOMAIN Items(g, c) : spot = <<<<c.type, c.ref>>, k, Items(g, c)[k]>>
      BY <3>1
    <3>3. CASE c \in Cells(h)
      <4>1. CellSpot(h, spot)
        BY <1>2, <3>2, <3>3 DEF CellSpot
      <4> QED
        BY <1>4, <2>1, <4>1, SpotsKnown
    <3>4. CASE c \notin Cells(h)
      <4>1. c \in fresh
        BY <3>4 DEF fresh
      <4>2. spot[3] = Items(g, c)[k]
        BY <3>2
      <4>3. k \in DOMAIN Items(h, from[c]) /\ spot[3] \in fresh /\ from[spot[3]] = Items(h, from[c])[k]
        BY <1>1, <2>1, <4>1, <4>2
      <4>4. IsContainer(from[spot[3]])
        BY <1>7, <1>11, <4>3
      <4> QED
        BY <3>2, <4>1, <4>3, <4>4
    <3> QED
      BY <3>3, <3>4
  <2>4. CASE ArgSpot(more, spot)
    <3>1. PICK i \in DOMAIN more : spot = <<<<"Operands", 0>>, i, more[i].value>>
      BY <2>4 DEF ArgSpot
    <3>2. CASE i \in DOMAIN ops /\ more[i] = ops[i]
      <4>1. ArgSpot(ops, spot)
        BY <3>1, <3>2 DEF ArgSpot
      <4> QED
        BY <1>4, <2>1, <4>1, SpotsKnown
    <3>3. CASE i = n
      <4>1. spot = <<<<"Operands", 0>>, n, value>> /\ spot[3] = value
        BY <1>6, <3>1, <3>3
      <4>2. spot[3] \in fresh /\ from[spot[3]] = v
        BY <1>1, <2>1, <4>1
      <4> QED
        BY <1>7, <1>11, <4>1, <4>2
    <3> QED
      BY <1>6, <3>2, <3>3
  <2> QED
    BY <2>1, <2>2, <2>3, <2>4
<1>13. \A spot \in Spots(h, ops) : spot[3] \notin fresh
  BY SpotsExist DEF fresh
<1>14. ASSUME NEW c \in fresh, NEW d \in fresh, NEW k, NEW l, NEW one, NEW other,
              OfCell(one, c, k), OfCell(other, d, l), one[3] = other[3]
       PROVE  one = other
  <2> DEFINE a == from[c]
             b == from[d]
             x == <<<<a.type, a.ref>>, k, Items(h, a)[k]>>
             y == <<<<b.type, b.ref>>, l, Items(h, b)[l]>>
  <2>1. a \in Cells(h) /\ b \in Cells(h) /\ k \in DOMAIN Items(h, a) /\ l \in DOMAIN Items(h, b)
    BY <1>7, <1>14
  <2>2. Items(h, a)[k] = Items(h, b)[l] /\ IsContainer(Items(h, a)[k])
    BY <1>14
  <2> HIDE DEF a, b
  <2>3. CellSpot(h, x) /\ CellSpot(h, y) /\ x[3] = Items(h, a)[k] /\ y[3] = Items(h, b)[l]
    BY <2>1 DEF CellSpot
  <2>4. x \in Spots(h, ops) /\ y \in Spots(h, ops)
    BY <1>4, <2>2, <2>3, SpotsKnown
  <2>5. x = y
    <3> HIDE DEF x, y
    <3> QED
      BY <2>2, <2>3, <2>4 DEF NothingShared, Separate
  <2>6. a.type = b.type /\ a.ref = b.ref /\ k = l
    BY <2>5
  <2>7. a = b
    BY <2>1, <2>6, CellsAreCells
  <2>8. c = d
    BY <1>1, <2>7 DEF a, b
  <2> QED
    BY <1>14, <2>6, <2>8
<1>15. ASSUME NEW c \in fresh, NEW k, NEW one, NEW other, OfCell(one, c, k), OfLast(other)
       PROVE  one[3] # other[3]
  <2> SUFFICES ASSUME one[3] = other[3] PROVE FALSE
    OBVIOUS
  <2>1. v = Items(h, from[c])[k] /\ IsContainer(v) /\ k \in DOMAIN Items(h, from[c])
    BY <1>15
  <2>2. from[c] \in Cells(h) /\ from[c] \in R
    BY <1>7
  <2>3. rank[v] < rank[from[c]]
    BY <1>5, <2>1, <2>2 DEF Ranked
  <2>4. rank[from[c]] <= rank[v]
    BY <1>10, <2>1, <2>2
  <2>5. v \in Cells(h)
    BY <2>1, CellsVal DEF IsContainer
  <2>6. rank[v] \in Nat /\ rank[from[c]] \in Nat
    BY <1>5, <1>9, <2>2, <2>5 DEF Ranked
  <2> QED
    BY <2>3, <2>4, <2>6
<1>16. Separate(g, more)
  <2> SUFFICES ASSUME NEW one \in Spots(g, more), NEW other \in Spots(g, more), one[3] = other[3]
               PROVE  one = other
    BY DEF Separate
  <2>1. CASE one \in Spots(h, ops) /\ other \in Spots(h, ops)
    BY <2>1 DEF NothingShared, Separate
  <2>2. CASE (\E c \in fresh : \E k : OfCell(one, c, k)) /\ (\E c \in fresh : \E k : OfCell(other, c, k))
    <3> HIDE DEF OfCell
    <3> QED
      BY <1>14, <2>2
  <2>3. CASE OfLast(one) /\ OfLast(other)
    BY <2>3
  <2>4. one \notin Spots(h, ops) => one[3] \in fresh
    BY <1>12
  <2>5. other \notin Spots(h, ops) => other[3] \in fresh
    BY <1>12
  <2> HIDE DEF OfCell, OfLast
  <2> QED
    BY <1>12, <1>13, <1>15, <2>1, <2>2, <2>3, <2>4, <2>5
<1> HIDE DEF OfCell, OfLast
<1> DEFINE high == [c \in Json |-> IF c \in Cells(h) THEN rank[c] + bound
                                   ELSE IF c \in fresh THEN rank[from[c]] ELSE 0]
<1>17. bound \in Nat /\ rank \in [Json -> Nat] /\ (\A c \in Cells(h) : rank[c] < bound /\ rank[c] \in Nat)
  BY <1>5, <1>9 DEF Ranked
<1>18. /\ \A c \in Cells(h) : high[c] = rank[c] + bound
       /\ \A c \in fresh : high[c] = rank[from[c]]
       /\ \A c \in fresh : rank[from[c]] \in Nat /\ rank[from[c]] < bound
  BY <1>7, <1>9, <1>17
<1>19. high \in [Json -> Nat]
  <2>1. ASSUME NEW c \in Json PROVE high[c] \in Nat
    BY <1>17, <1>18
  <2> QED
    BY <2>1
<1> HIDE DEF high
<1>20. \A c \in Cells(g) : c \in Cells(h) \/ c \in fresh
  BY DEF fresh
<1>21. ASSUME NEW c \in Cells(g) PROVE high[c] < bound + bound
  BY <1>17, <1>18, <1>20
<1>22. ASSUME NEW c \in Cells(g), NEW k \in DOMAIN Items(g, c), IsContainer(Items(g, c)[k])
       PROVE  high[Items(g, c)[k]] < high[c]
  <2>1. CASE c \in Cells(h)
    <3> DEFINE u == Items(h, c)[k]
    <3>1. k \in DOMAIN Items(h, c) /\ Items(g, c)[k] = u /\ IsContainer(u)
      BY <1>2, <1>22, <2>1
    <3>2. rank[u] < rank[c]
      BY <1>5, <2>1, <3>1 DEF Ranked
    <3>3. u \in Cells(h)
      BY <1>8, <2>1, <3>1, CellsVal DEF IsContainer
    <3> HIDE DEF u
    <3> QED
      BY <1>17, <1>18, <2>1, <3>1, <3>2, <3>3
  <2>2. CASE c \in fresh
    <3> DEFINE x == Items(g, c)[k]
    <3>1. x \in fresh /\ from[x] = Items(h, from[c])[k] /\ k \in DOMAIN Items(h, from[c])
      BY <1>1, <1>22, <2>2
    <3>2. IsContainer(from[x])
      BY <1>7, <1>11, <3>1
    <3>3. rank[from[x]] < rank[from[c]]
      BY <1>5, <1>7, <2>2, <3>1, <3>2 DEF Ranked
    <3> HIDE DEF x
    <3>4. high[x] < high[c]
      BY <1>18, <2>2, <3>1, <3>3
    <3> QED
      BY <3>4 DEF x
  <2> QED
    BY <1>20, <2>1, <2>2
<1>23. Ranked(g, high, bound + bound)
  <2>1. bound + bound \in Nat
    BY <1>17
  <2> QED
    BY <1>19, <1>21, <1>22, <2>1 DEF Ranked
<1>24. ASSUME NEW c \in fresh, NEW d \in Cells(h) PROVE high[c] < high[d]
  BY <1>17, <1>18
<1>25. NestedBelow(h, g)
  BY <1>23, <1>24 DEF NestedBelow, fresh
<1> QED
  BY <1>1, <1>2, <1>16, <1>23, <1>25 DEF NothingShared, Nested, more, fresh

(* Operands with further values above them. *)
MoreArgs(ops, values, more) ==
  /\ more \in Seq(OperandRecord) /\ Len(more) = Len(ops) + Len(values)
  /\ \A i \in 1..Len(ops) : more[i] = ops[i]
  /\ \A i \in 1..Len(values) : more[Len(ops) + i].value = values[i]

(* Copies of several values share nothing either.                          *)
LEMMA CopyAllSeparate ==
  ASSUME NEW w, NEW h, HeapGood(w, h), NEW vs, Len(vs) \in Nat,
         \A i \in 1..Len(vs) : Val(w, h, vs[i]),
         NEW ops, ArgsVal(w, h, ops), NothingShared(h, ops)
  PROVE  LET items == CopyAll(h, vs)
         IN  \E more : /\ MoreArgs(ops, items.values, more)
                       /\ ArgsVal(w, items.heap, more) /\ NothingShared(items.heap, more)
<1> DEFINE n == Len(vs)
           made == CHOOSE f : CopiedUpTo(f, h, vs, n)
           Fits(m, more) == /\ MoreArgs(ops, made[m].values, more)
                            /\ ArgsVal(w, made[m].heap, more) /\ NothingShared(made[m].heap, more)
           Fine(m) == /\ Copied(w, h, made[m].heap)
                      /\ made[m].values \in Seq(Json) /\ Len(made[m].values) = m
                      /\ \E more : Fits(m, more)
           T == {m \in Nat : m <= n => Fine(m)}
<1>1. CopiedUpTo(made, h, vs, n)
  BY CopiedExists
<1>2. CopyAll(h, vs) = made[n]
  BY DEF CopyAll, CopiedUpTo, CopiedOneMore
<1> HIDE DEF made
<1>3. /\ made[0] = [heap |-> h, values |-> <<>>]
      /\ \A k \in Nat : k + 1 <= n => made[k + 1] = CopiedOneMore(made[k], vs[k + 1])
  BY <1>1, CopiedStep
<1>4. h \in Heap
  BY DEF HeapGood
<1>5. 0 \in T
  <2>1. made[0].heap = h /\ made[0].values = <<>>
    BY <1>3
  <2>2. Copied(w, h, h)
    BY <1>4, GrowsItself DEF Copied
  <2>3. made[0].values \in Seq(Json) /\ Len(made[0].values) = 0
    BY <2>1
  <2>4. MoreArgs(ops, <<>>, ops)
    BY DEF MoreArgs, ArgsVal
  <2>5. Fits(0, ops)
    BY <2>1, <2>4
  <2> QED
    BY <2>1, <2>2, <2>3, <2>5
<1>6. ASSUME NEW m \in T PROVE m + 1 \in T
  <2> SUFFICES ASSUME m + 1 <= n PROVE Fine(m + 1)
    BY <1>6
  <2> DEFINE before == made[m]
             one    == CopyJson(before.heap, vs[m + 1])
             last   == Temporary(one.value)
  <2>1. m \in Nat /\ m <= n /\ m + 1 \in 1..n /\ Fine(m)
    BY <1>6
  <2>2. made[m + 1] = CopiedOneMore(before, vs[m + 1])
    BY <1>3, <2>1
  <2>3. made[m + 1].heap = one.heap /\ made[m + 1].values = Append(before.values, one.value)
    BY <2>2 DEF CopiedOneMore
  <2>4. HeapGood(w, before.heap) /\ Grows(h, before.heap) /\ before.heap.scopes = h.scopes
    BY <2>1 DEF Copied
  <2>5. before.heap \in Heap /\ Extends(h, before.heap)
    BY <2>4 DEF HeapGood, Grows
  <2>6. Val(w, before.heap, vs[m + 1])
    BY <1>4, <2>1, <2>5, ValKept
  <2>7. /\ HeapGood(w, one.heap) /\ Grows(before.heap, one.heap)
        /\ one.heap.scopes = before.heap.scopes
        /\ Val(w, one.heap, one.value)
        /\ CopyOf(before.heap, vs[m + 1], one.heap, one.value)
    BY <2>4, <2>6, CopyMade
  <2>8. PICK more : Fits(m, more)
    BY <2>1
  <2> HIDE DEF one
  <2>9. one.heap \in Heap /\ Extends(before.heap, one.heap)
    BY <2>7 DEF HeapGood, Grows
  <2>10. Copied(w, h, one.heap)
    BY <1>4, <2>4, <2>5, <2>7, <2>9, GrowsOn DEF Copied
  <2>11. one.value \in Json
    BY <2>7 DEF Val
  <2>12. last \in OperandRecord /\ last.value = one.value
    BY <2>7, TemporaryGood DEF Temporary
  <2> HIDE DEF last, before, Fine
  <2>13. before.values \in Seq(Json) /\ Len(before.values) = m
    BY <2>1 DEF Fine, before
  <2>14. /\ MoreArgs(ops, before.values, more)
         /\ ArgsVal(w, before.heap, more) /\ NothingShared(before.heap, more)
    BY <2>8 DEF before
  <2> HIDE DEF Fits
  <2>15. NothingShared(one.heap, Append(more, last))
    BY <2>4, <2>6, <2>7, <2>12, <2>14, CopySeparate
  <2>16. /\ Append(before.values, one.value) \in Seq(Json)
         /\ Len(Append(before.values, one.value)) = m + 1
         /\ \A i \in 1..m : Append(before.values, one.value)[i] = before.values[i]
         /\ Append(before.values, one.value)[m + 1] = one.value
    BY <2>13, <2>11
  <2>17. /\ more \in Seq(OperandRecord) /\ Len(more) = Len(ops) + m /\ Len(ops) \in Nat
         /\ Append(more, last) \in Seq(OperandRecord)
         /\ Len(Append(more, last)) = Len(ops) + m + 1
         /\ \A i \in 1..(Len(ops) + m) : Append(more, last)[i] = more[i]
         /\ Append(more, last)[Len(ops) + m + 1] = last
    BY <2>13, <2>12, <2>14 DEF MoreArgs, ArgsVal
  <2>18. MoreArgs(ops, Append(before.values, one.value), Append(more, last))
    <3>1. \A i \in 1..Len(ops) : Append(more, last)[i] = ops[i]
      BY <2>1, <2>14, <2>17 DEF MoreArgs
    <3>2. ASSUME NEW i \in 1..(m + 1)
          PROVE  Append(more, last)[Len(ops) + i].value = Append(before.values, one.value)[i]
      <4>1. CASE i = m + 1
        <5>1. Len(ops) + i = Len(ops) + m + 1
          BY <2>1, <2>17, <4>1
        <5> QED
          BY <2>16, <2>12, <2>17, <4>1, <5>1
      <4>2. CASE i \in 1..m
        <5>1. Len(ops) + i \in 1..(Len(ops) + m)
          BY <2>1, <2>17, <4>2
        <5>2. more[Len(ops) + i].value = before.values[i]
          BY <2>13, <2>14, <4>2 DEF MoreArgs
        <5>3. Append(more, last)[Len(ops) + i] = more[Len(ops) + i]
          BY <2>17, <5>1
        <5>4. Append(before.values, one.value)[i] = before.values[i]
          BY <2>16, <4>2
        <5> QED
          BY <5>2, <5>3, <5>4
      <4>3. i = m + 1 \/ i \in 1..m
        <5>1. m \in Nat
          BY <2>1
        <5> QED
          BY ONLY <5>1, i \in 1..(m + 1)
      <4> QED
        BY <4>1, <4>2, <4>3
    <3>3. Len(Append(more, last)) = Len(ops) + Len(Append(before.values, one.value))
      BY <2>1, <2>16, <2>17
    <3> QED
      BY <2>16, <2>17, <3>1, <3>2, <3>3 DEF MoreArgs
  <2>19. ArgsVal(w, one.heap, Append(more, last))
    <3>1. \A i \in 1..Len(more) : Val(w, one.heap, more[i].value)
      BY <2>5, <2>9, <2>14, ValKept DEF ArgsVal
    <3> QED
      BY <2>1, <2>7, <2>12, <2>17, <3>1 DEF ArgsVal
  <2>20. Fits(m + 1, Append(more, last))
    BY <2>3, <2>15, <2>18, <2>19 DEF Fits
  <2> QED
    BY <2>3, <2>10, <2>16, <2>20 DEF Fine
<1> HIDE DEF T, Fine
<1>7. T = Nat
  BY <1>5, <1>6, EveryNatural DEF T
<1>8. Fine(n)
  BY <1>7 DEF T
<1> QED
  BY <1>2, <1>8 DEF Fine

(* A new cell that takes values over from the operands, each at most once. *)
LEMMA CellFilled ==
  ASSUME NEW w, NEW h, HeapGood(w, h), NEW g \in Heap, g.scopes = h.scopes,
         NEW ops, NEW values, NEW more, MoreArgs(ops, values, more), Len(ops) \in Nat, Len(values) \in Nat,
         DOMAIN ops = 1..Len(ops),
         ArgsVal(w, h, more), NothingShared(h, more),
         NEW cell \in Json, cell \notin Cells(h), Cells(g) = Cells(h) \cup {cell},
         \A c \in Cells(h) : Items(g, c) = Items(h, c),
         NEW at \in [DOMAIN Items(g, cell) -> 1..Len(values)],
         \A k, l \in DOMAIN Items(g, cell) : at[k] = at[l] => k = l,
         \A k \in DOMAIN Items(g, cell) : Items(g, cell)[k] = values[at[k]],
         NEW last, last.value = cell
  PROVE  NothingShared(g, Append(ops, last))
<1> DEFINE n == Len(ops) + 1
           new == Append(ops, last)
           Shifted(k) == <<<<"Operands", 0>>, Len(ops) + at[k], values[at[k]]>>
<1>1. h \in Heap
  BY DEF HeapGood
<1>2. /\ DOMAIN new = 1..n /\ new[n].value = cell
      /\ \A i \in DOMAIN new : (i \in DOMAIN ops /\ new[i] = ops[i]) \/ i = n
  OBVIOUS
<1> HIDE DEF new
<1>3. ASSUME NEW k \in DOMAIN Items(g, cell), IsContainer(values[at[k]])
      PROVE  Shifted(k) \in Spots(h, more)
  <2> DEFINE i == Len(ops) + at[k]
  <2>1. at[k] \in 1..Len(values) /\ i \in 1..Len(more) /\ more[i].value = values[at[k]]
    BY DEF MoreArgs
  <2>2. DOMAIN more = 1..Len(more)
    BY DEF MoreArgs
  <2> HIDE DEF i
  <2>3. ArgSpot(more, <<<<"Operands", 0>>, i, more[i].value>>)
    BY <2>1, <2>2 DEF ArgSpot
  <2>4. Shifted(k) = <<<<"Operands", 0>>, i, more[i].value>>
    BY <2>1 DEF i
  <2> HIDE DEF Shifted
  <2>5. Shifted(k)[3] = values[at[k]]
    BY <2>1, <2>4
  <2> QED
    BY <1>1, <1>3, <2>3, <2>4, <2>5, SpotsKnown
<1> DEFINE OfCell(spot, k) == /\ k \in DOMAIN Items(g, cell)
                              /\ spot = <<<<cell.type, cell.ref>>, k, values[at[k]]>>
                              /\ Shifted(k) \in Spots(h, more)
           OfLast(spot) == spot = <<<<"Operands", 0>>, n, cell>>
           Stays(spot) == spot \in Spots(h, more) /\ ~ \E i : i > Len(ops) /\ spot[1] = <<"Operands", 0>> /\ spot[2] = i
<1>4. ASSUME NEW spot \in Spots(g, new)
      PROVE  Stays(spot) \/ (\E k : OfCell(spot, k)) \/ OfLast(spot)
  <2>1. IsContainer(spot[3]) /\ (VarSpot(g, spot) \/ CellSpot(g, spot) \/ ArgSpot(new, spot))
    BY SpotsKnown
  <2>2. CASE VarSpot(g, spot)
    <3>1. VarSpot(h, spot) /\ spot[1] # <<"Operands", 0>>
      BY <2>2 DEF VarSpot
    <3> QED
      BY <1>1, <2>1, <3>1, SpotsKnown
  <2>3. CASE CellSpot(g, spot)
    <3>1. PICK c \in Cells(g) : \E k \in DOMAIN Items(g, c) : spot = <<<<c.type, c.ref>>, k, Items(g, c)[k]>>
      BY <2>3 DEF CellSpot
    <3>2. PICK k \in DOMAIN Items(g, c) : spot = <<<<c.type, c.ref>>, k, Items(g, c)[k]>>
      BY <3>1
    <3>3. CASE c \in Cells(h)
      <4>1. CellSpot(h, spot)
        BY <3>2, <3>3 DEF CellSpot
      <4>2. c.type # "Operands"
        BY <3>3, CellsAreCells
      <4>3. spot[1] # <<"Operands", 0>>
        BY <3>2, <4>2
      <4> QED
        BY <1>1, <2>1, <4>1, <4>3, SpotsKnown
    <3>4. CASE c = cell
      <4>1. spot = <<<<cell.type, cell.ref>>, k, values[at[k]]>> /\ k \in DOMAIN Items(g, cell)
        BY <3>2, <3>4
      <4>2. IsContainer(values[at[k]])
        BY <2>1, <4>1
      <4>3. OfCell(spot, k)
        BY <1>3, <4>1, <4>2
      <4> HIDE DEF OfCell
      <4> QED
        BY <4>3
    <3> QED
      BY <3>3, <3>4
  <2>4. CASE ArgSpot(new, spot)
    <3>1. PICK i \in DOMAIN new : spot = <<<<"Operands", 0>>, i, new[i].value>>
      BY <2>4 DEF ArgSpot
    <3>2. CASE i \in DOMAIN ops /\ new[i] = ops[i]
      <4>1. i \in DOMAIN more /\ more[i] = ops[i] /\ i \in 1..Len(ops)
        BY <3>2 DEF MoreArgs
      <4>2. ArgSpot(more, spot)
        BY <3>1, <3>2, <4>1 DEF ArgSpot
      <4>3. spot[2] = i /\ ~ (i > Len(ops))
        BY <3>1, <4>1
      <4> QED
        BY <1>1, <2>1, <4>2, <4>3, SpotsKnown
    <3>3. CASE i = n
      BY <1>2, <3>1, <3>3
    <3> QED
      BY <1>2, <3>2, <3>3
  <2> QED
    BY <2>1, <2>2, <2>3, <2>4
<1>5. \A spot \in Spots(h, more) : spot[3] \in Cells(h)
  BY SpotsExist
<1>6. ASSUME NEW k, NEW l, NEW one, NEW other, OfCell(one, k), OfCell(other, l), one[3] = other[3]
      PROVE  one = other
  <2>1. Shifted(k)[3] = one[3] /\ Shifted(l)[3] = other[3]
    BY <1>6
  <2>2. Shifted(k) = Shifted(l)
    <3> HIDE DEF Shifted
    <3> QED
      BY <1>6, <2>1 DEF NothingShared, Separate
  <2>3. Len(ops) + at[k] = Len(ops) + at[l]
    BY <2>2
  <2>4. at[k] \in Nat /\ at[l] \in Nat
    BY <1>6
  <2>5. k = l
    BY <1>6, <2>3, <2>4
  <2> QED
    BY <1>6, <2>5
<1>7. ASSUME NEW k, NEW one, NEW other, OfCell(one, k), Stays(other) PROVE one[3] # other[3]
  <2> SUFFICES ASSUME one[3] = other[3] PROVE FALSE
    OBVIOUS
  <2>1. Shifted(k)[3] = other[3]
    BY <1>7
  <2>2. Shifted(k) = other
    <3> HIDE DEF Shifted
    <3> QED
      BY <1>7, <2>1 DEF NothingShared, Separate
  <2>3. at[k] \in 1..Len(values)
    BY <1>7
  <2>4. other[1] = <<"Operands", 0>> /\ other[2] = Len(ops) + at[k] /\ Len(ops) + at[k] > Len(ops)
    BY <2>2, <2>3
  <2> QED
    BY <1>7, <2>4
<1>8. ASSUME NEW spot, Stays(spot) \/ (\E k : OfCell(spot, k)) PROVE spot[3] \in Cells(h)
  <2>1. CASE Stays(spot)
    BY <1>5, <2>1
  <2>2. CASE \E k : OfCell(spot, k)
    <3>1. PICK k : OfCell(spot, k)
      BY <2>2
    <3>2. Shifted(k)[3] = spot[3]
      BY <3>1
    <3> HIDE DEF Shifted
    <3> QED
      BY <1>5, <3>1, <3>2
  <2> QED
    BY <1>8, <2>1, <2>2
<1>9. Separate(g, new)
  <2> SUFFICES ASSUME NEW one \in Spots(g, new), NEW other \in Spots(g, new), one[3] = other[3]
               PROVE  one = other
    BY DEF Separate
  <2>1. CASE Stays(one) /\ Stays(other)
    BY <2>1 DEF NothingShared, Separate
  <2>2. CASE OfLast(one) /\ OfLast(other)
    BY <2>2
  <2>3. /\ OfLast(one) => one[3] = cell
        /\ OfLast(other) => other[3] = cell
    OBVIOUS
  <2> HIDE DEF OfCell, OfLast, Stays
  <2> QED
    BY <1>4, <1>6, <1>7, <1>8, <2>1, <2>2, <2>3
<1>10. PICK rank, bound : Ranked(h, rank, bound)
  BY DEF NothingShared, Nested
<1> DEFINE high == [c \in Json |-> IF c = cell THEN bound ELSE rank[c]]
<1>11. /\ bound \in Nat /\ rank \in [Json -> Nat]
       /\ \A c \in Cells(h) : c \in Json /\ rank[c] < bound /\ rank[c] \in Nat
  BY <1>10, CellsVal DEF Ranked
<1>12. /\ high \in [Json -> Nat] /\ high[cell] = bound
       /\ \A c \in Cells(h) : high[c] = rank[c]
  BY <1>11
<1> HIDE DEF high
<1>13. ASSUME NEW c \in Cells(g), NEW k \in DOMAIN Items(g, c), IsContainer(Items(g, c)[k])
       PROVE  high[Items(g, c)[k]] < high[c]
  <2>1. CASE c \in Cells(h)
    <3> DEFINE u == Items(h, c)[k]
    <3>1. k \in DOMAIN Items(h, c) /\ Items(g, c)[k] = u /\ IsContainer(u)
      BY <1>13, <2>1
    <3>2. rank[u] < rank[c]
      BY <1>10, <2>1, <3>1 DEF Ranked
    <3>3. u \in Contents(h, c)
      BY <3>1 DEF Items, Contents, Range
    <3>4. u \in Cells(h)
      BY <2>1, <3>1, <3>3, CellsVal DEF IsContainer
    <3> HIDE DEF u
    <3> QED
      BY <1>12, <2>1, <3>1, <3>2, <3>4
  <2>2. CASE c = cell
    <3> DEFINE u == values[at[k]]
    <3>1. Items(g, c)[k] = u /\ IsContainer(u) /\ k \in DOMAIN Items(g, cell)
      BY <1>13, <2>2
    <3>2. Shifted(k) \in Spots(h, more) /\ Shifted(k)[3] = u
      BY <1>3, <3>1
    <3> HIDE DEF u, Shifted
    <3>3. u \in Cells(h)
      BY <1>5, <3>2
    <3> QED
      BY <1>11, <1>12, <2>2, <3>1, <3>3
  <2> QED
    BY <2>1, <2>2
<1>14. ASSUME NEW c \in Cells(g) PROVE high[c] < bound + 1
  BY <1>11, <1>12
<1>15. Ranked(g, high, bound + 1)
  <2>1. bound + 1 \in Nat
    BY <1>11
  <2> QED
    BY <1>12, <1>13, <1>14, <2>1 DEF Ranked
<1> QED
  BY <1>9, <1>15 DEF NothingShared, Nested, new

(* The topmost operand is put in a place of the heap.                      *)
LEMMA OperandPlaced ==
  ASSUME NEW h \in Heap, NEW g \in Heap, NEW ops, NEW last, ops \in Seq(OperandRecord),
         NothingShared(h, Append(ops, last)), NEW room, NEW key,
         \A spot : IsContainer(spot[3]) /\ VarSpot(g, spot) =>
                     VarSpot(h, spot) \/ spot = <<room, key, last.value>>,
         \A spot : IsContainer(spot[3]) /\ CellSpot(g, spot) =>
                     CellSpot(h, spot) \/ spot = <<room, key, last.value>>,
         Nested(g)
  PROVE  NothingShared(g, ops)
<1> DEFINE n == Len(ops) + 1
           more == Append(ops, last)
           top == <<<<"Operands", 0>>, n, last.value>>
<1>1. /\ Len(ops) \in Nat /\ DOMAIN ops = 1..Len(ops)
      /\ DOMAIN more = 1..n /\ more[n] = last
      /\ \A i \in DOMAIN ops : i \in DOMAIN more /\ more[i] = ops[i] /\ i # n
  OBVIOUS
<1>2. n \in DOMAIN more
  BY <1>1
<1> HIDE DEF more, n
<1>3. ASSUME NEW spot \in Spots(g, ops)
      PROVE  (spot \in Spots(h, more) /\ spot # top) \/ spot = <<room, key, last.value>>
  <2>1. IsContainer(spot[3]) /\ (VarSpot(g, spot) \/ CellSpot(g, spot) \/ ArgSpot(ops, spot))
    BY SpotsKnown
  <2>2. VarSpot(h, spot) => spot[1] # <<"Operands", 0>>
    BY DEF VarSpot
  <2>3. CellSpot(h, spot) => spot[1] # <<"Operands", 0>>
    <3>1. \A c \in Cells(h) : c.type # "Operands"
      BY CellsAreCells
    <3> QED
      BY <3>1 DEF CellSpot
  <2>4. ArgSpot(ops, spot) => ArgSpot(more, spot) /\ spot[2] # n
    BY <1>1 DEF ArgSpot
  <2>5. top[1] = <<"Operands", 0>> /\ top[2] = n
    OBVIOUS
  <2>6. CASE VarSpot(g, spot)
    BY <2>1, <2>2, <2>5, <2>6, SpotsKnown
  <2>7. CASE CellSpot(g, spot)
    BY <2>1, <2>3, <2>5, <2>7, SpotsKnown
  <2>8. CASE ArgSpot(ops, spot)
    BY <2>1, <2>4, <2>5, <2>8, SpotsKnown
  <2> QED
    BY <2>1, <2>6, <2>7, <2>8
<1>4. IsContainer(last.value) => top \in Spots(h, more)
  <2>1. ArgSpot(more, top)
    BY <1>1, <1>2 DEF ArgSpot
  <2> QED
    BY <2>1, SpotsKnown
<1>5. ASSUME NEW one \in Spots(g, ops), NEW other \in Spots(g, ops), one[3] = other[3]
      PROVE  one = other
  <2>1. IsContainer(one[3]) /\ IsContainer(other[3]) /\ top[3] = last.value
    BY SpotsKnown
  <2>2. <<room, key, last.value>>[3] = last.value
    OBVIOUS
  <2> HIDE DEF top
  <2> QED
    BY <1>3, <1>4, <1>5, <2>1, <2>2 DEF NothingShared, Separate, more
<1>6. Separate(g, ops)
  BY <1>5 DEF Separate
<1> QED
  BY <1>6 DEF NothingShared

(* Containers go away, from operands, variables and cells; none comes.     *)
ArgsDrop(ops, left) ==
  \A i \in DOMAIN left : IsContainer(left[i].value) => i \in DOMAIN ops /\ left[i].value = ops[i].value

VarsDrop(h, g) ==
  \A s \in 1..Len(g.scopes) : \A x \in DOMAIN g.scopes[s].vars :
    IsContainer(g.scopes[s].vars[x]) =>
      s \in 1..Len(h.scopes) /\ x \in DOMAIN h.scopes[s].vars /\ g.scopes[s].vars[x] = h.scopes[s].vars[x]

CellsDrop(h, g) ==
  /\ Cells(g) \subseteq Cells(h)
  /\ \A c \in Cells(g) : \A k \in DOMAIN Items(g, c) :
       IsContainer(Items(g, c)[k]) => k \in DOMAIN Items(h, c) /\ Items(g, c)[k] = Items(h, c)[k]

LEMMA Dropped ==
  ASSUME NEW h \in Heap, NEW g \in Heap, NEW ops, NEW left, NothingShared(h, ops),
         VarsDrop(h, g), CellsDrop(h, g), ArgsDrop(ops, left)
  PROVE  NothingShared(g, left)
<1>1. ASSUME NEW spot, IsContainer(spot[3]), VarSpot(g, spot) PROVE VarSpot(h, spot)
  <2>1. PICK s \in 1..Len(g.scopes) : \E x \in DOMAIN g.scopes[s].vars :
          spot = <<<<"Scope", s>>, x, g.scopes[s].vars[x]>>
    BY <1>1 DEF VarSpot
  <2>2. PICK x \in DOMAIN g.scopes[s].vars : spot = <<<<"Scope", s>>, x, g.scopes[s].vars[x]>>
    BY <2>1
  <2>3. spot[3] = g.scopes[s].vars[x]
    BY <2>2
  <2>4. s \in 1..Len(h.scopes) /\ x \in DOMAIN h.scopes[s].vars /\ g.scopes[s].vars[x] = h.scopes[s].vars[x]
    BY <1>1, <2>3 DEF VarsDrop
  <2> QED
    BY <2>2, <2>4 DEF VarSpot
<1>2. ASSUME NEW spot, IsContainer(spot[3]), CellSpot(g, spot) PROVE CellSpot(h, spot)
  <2>1. PICK c \in Cells(g) : \E k \in DOMAIN Items(g, c) : spot = <<<<c.type, c.ref>>, k, Items(g, c)[k]>>
    BY <1>2 DEF CellSpot
  <2>2. PICK k \in DOMAIN Items(g, c) : spot = <<<<c.type, c.ref>>, k, Items(g, c)[k]>>
    BY <2>1
  <2>3. spot[3] = Items(g, c)[k]
    BY <2>2
  <2>4. c \in Cells(h) /\ k \in DOMAIN Items(h, c) /\ Items(g, c)[k] = Items(h, c)[k]
    BY <1>2, <2>3 DEF CellsDrop
  <2> QED
    BY <2>2, <2>4 DEF CellSpot
<1>3. ASSUME NEW spot, IsContainer(spot[3]), ArgSpot(left, spot) PROVE ArgSpot(ops, spot)
  <2>1. PICK i \in DOMAIN left : spot = <<<<"Operands", 0>>, i, left[i].value>>
    BY <1>3 DEF ArgSpot
  <2>2. spot[3] = left[i].value
    BY <2>1
  <2>3. i \in DOMAIN ops /\ left[i].value = ops[i].value
    BY <1>3, <2>2 DEF ArgsDrop
  <2> QED
    BY <2>1, <2>3 DEF ArgSpot
<1>4. Cells(g) \subseteq Cells(h)
  BY DEF CellsDrop
<1> QED
  BY <1>1, <1>2, <1>3, <1>4, FewerSpots

LEMMA DropsNothing ==
  ASSUME NEW h, NEW g
  PROVE  /\ \A ops : ArgsDrop(ops, ops)
         /\ g.scopes = h.scopes => VarsDrop(h, g)
         /\ g.arrays = h.arrays /\ g.objects = h.objects => CellsDrop(h, g)
<1>1. ASSUME g.arrays = h.arrays, g.objects = h.objects PROVE CellsDrop(h, g)
  <2>1. Cells(g) = Cells(h) /\ \A c : Items(g, c) = Items(h, c)
    BY <1>1 DEF Cells, Items
  <2> QED
    BY <2>1 DEF CellsDrop
<1> QED
  BY <1>1 DEF ArgsDrop, VarsDrop

LEMMA DropsOn ==
  ASSUME NEW h, NEW g, NEW f, VarsDrop(h, g), CellsDrop(h, g), VarsDrop(g, f), CellsDrop(g, f)
  PROVE  VarsDrop(h, f) /\ CellsDrop(h, f)
<1>1. VarsDrop(h, f)
  BY DEF VarsDrop
<1>2. CellsDrop(h, f)
  <2>1. Cells(f) \subseteq Cells(h)
    BY DEF CellsDrop
  <2>2. ASSUME NEW c \in Cells(f), NEW k \in DOMAIN Items(f, c), IsContainer(Items(f, c)[k])
        PROVE  k \in DOMAIN Items(h, c) /\ Items(f, c)[k] = Items(h, c)[k]
    <3>1. k \in DOMAIN Items(g, c) /\ Items(f, c)[k] = Items(g, c)[k] /\ c \in Cells(g)
      BY <2>2 DEF CellsDrop
    <3>2. IsContainer(Items(g, c)[k])
      BY <2>2, <3>1
    <3> QED
      BY <3>1, <3>2 DEF CellsDrop
  <2> QED
    BY <2>1, <2>2 DEF CellsDrop
<1> QED
  BY <1>1, <1>2

(* The cycle breaker clears closures, and leaves every container.          *)
LEMMA ClearedKeeps ==
  ASSUME NEW f, NEW dying
  PROVE  /\ DOMAIN ClearClosures(f, dying) = DOMAIN f
         /\ \A k \in DOMAIN f : f[k] \in Json =>
              /\ ClearClosures(f, dying)[k] \in Json
              /\ IsContainer(ClearClosures(f, dying)[k]) => ClearClosures(f, dying)[k] = f[k]
<1>1. ASSUME NEW v \in Json
      PROVE  ClearClosure(v, dying) \in Json /\ (IsContainer(ClearClosure(v, dying)) => ClearClosure(v, dying) = v)
  <2>1. CASE v.type = "Function" /\ v.ref = dying
    <3> DEFINE u == [v EXCEPT !.ref = 0]
    <3>1. u \in Json /\ u.type = "Function"
      BY <2>1 DEF Json
    <3>2. ClearClosure(v, dying) = u
      BY <2>1 DEF ClearClosure
    <3> HIDE DEF u
    <3> QED
      BY <3>1, <3>2 DEF IsContainer
  <2>2. CASE ~ (v.type = "Function" /\ v.ref = dying)
    BY <2>2 DEF ClearClosure
  <2> QED
    BY <2>1, <2>2
<1> QED
  BY <1>1 DEF ClearClosures

LEMMA BreakDrops ==
  ASSUME NEW h \in Heap, NEW dying
  PROVE  LET g == BreakCycles(h, dying)
         IN  g \in Heap /\ VarsDrop(h, g) /\ CellsDrop(h, g)
<1> DEFINE g == BreakCycles(h, dying)
<1>1. /\ Len(h.scopes) \in Nat /\ Len(h.arrays) \in Nat /\ Len(h.objects) \in Nat
      /\ DOMAIN h.scopes = 1..Len(h.scopes)
      /\ DOMAIN h.arrays = 1..Len(h.arrays) /\ DOMAIN h.objects = 1..Len(h.objects)
  BY HeapKnown
<1>2. \A bindings \in Vars : DOMAIN bindings \in SUBSET Text /\ \A x \in DOMAIN bindings : bindings[x] \in Json
  BY DEF Vars
<1>3. PICK severed :
        g.scopes = [s \in DOMAIN h.scopes |->
                      [h.scopes[s] EXCEPT
                         !.parent = IF s \in severed THEN 0 ELSE @,
                         !.vars   = IF s = dying THEN ClearClosures(@, dying) ELSE @]]
  BY DEF BreakCycles
<1>4. PICK reached :
        /\ g.arrays = [c \in DOMAIN h.arrays |->
                         IF ArrayJson(c) \in reached THEN ClearClosures(h.arrays[c], dying) ELSE h.arrays[c]]
        /\ g.objects = [c \in DOMAIN h.objects |->
                         IF ObjectJson(c) \in reached THEN ClearClosures(h.objects[c], dying) ELSE h.objects[c]]
  BY DEF BreakCycles
<1>5. g = [scopes |-> g.scopes, arrays |-> g.arrays, objects |-> g.objects]
  BY DEF BreakCycles
<1> HIDE DEF g
<1>6. ASSUME NEW bindings \in Vars
      PROVE  /\ ClearClosures(bindings, dying) \in Vars
             /\ DOMAIN ClearClosures(bindings, dying) = DOMAIN bindings
             /\ \A x \in DOMAIN bindings : IsContainer(ClearClosures(bindings, dying)[x]) =>
                  ClearClosures(bindings, dying)[x] = bindings[x]
  <2> DEFINE f == ClearClosures(bindings, dying)
  <2>1. /\ DOMAIN f = DOMAIN bindings
        /\ \A x \in DOMAIN bindings : f[x] \in Json /\ (IsContainer(f[x]) => f[x] = bindings[x])
    BY <1>2, ClearedKeeps
  <2>2. f = [x \in DOMAIN bindings |-> f[x]]
    BY DEF ClearClosures
  <2> HIDE DEF f
  <2>3. f \in [DOMAIN bindings -> Json]
    BY <2>1, <2>2
  <2>4. f \in Vars
    BY <1>2, <2>3 DEF Vars
  <2> QED
    BY <2>1, <2>4 DEF f
<1>7. ASSUME NEW s \in 1..Len(h.scopes)
      PROVE  /\ g.scopes[s] \in ScopeRecord
             /\ \A x \in DOMAIN g.scopes[s].vars : IsContainer(g.scopes[s].vars[x]) =>
                  x \in DOMAIN h.scopes[s].vars /\ g.scopes[s].vars[x] = h.scopes[s].vars[x]
  <2> DEFINE old == h.scopes[s]
             bindings == IF s = dying THEN ClearClosures(old.vars, dying) ELSE old.vars
             link == IF s \in severed THEN 0 ELSE old.parent
  <2>1. old \in ScopeRecord
    BY HeapKnown
  <2>2. g.scopes[s] = [old EXCEPT !.parent = link, !.vars = bindings]
    BY <1>1, <1>3
  <2>3. /\ bindings \in Vars /\ DOMAIN bindings = DOMAIN old.vars
        /\ \A x \in DOMAIN bindings : IsContainer(bindings[x]) => bindings[x] = old.vars[x]
    BY <1>6, <2>1 DEF ScopeRecord
  <2>4. link \in Nat
    BY <2>1 DEF ScopeRecord
  <2> HIDE DEF bindings, link
  <2>5. g.scopes[s] \in ScopeRecord /\ g.scopes[s].vars = bindings
    <3> HIDE DEF old
    <3> QED
      BY <2>1, <2>2, <2>3, <2>4 DEF ScopeRecord
  <2> QED
    BY <2>3, <2>5
<1>8. ASSUME NEW c \in 1..Len(h.arrays)
      PROVE  /\ g.arrays[c] \in Seq(Json)
             /\ DOMAIN g.arrays[c] = DOMAIN h.arrays[c]
             /\ \A k \in DOMAIN h.arrays[c] : IsContainer(g.arrays[c][k]) => g.arrays[c][k] = h.arrays[c][k]
  <2> DEFINE old == h.arrays[c]
             f == ClearClosures(old, dying)
  <2>1. old \in Seq(Json) /\ Len(old) \in Nat /\ DOMAIN old = 1..Len(old) /\ \A k \in DOMAIN old : old[k] \in Json
    BY HeapKnown
  <2>2. g.arrays[c] = f \/ g.arrays[c] = old
    BY <1>1, <1>4
  <2>3. f = [k \in DOMAIN old |-> f[k]]
    BY DEF ClearClosures
  <2> HIDE DEF old
  <2>4. /\ DOMAIN f = DOMAIN old
        /\ \A k \in DOMAIN old : f[k] \in Json /\ (IsContainer(f[k]) => f[k] = old[k])
    BY <2>1, ClearedKeeps
  <2> HIDE DEF f
  <2>5. f \in [1..Len(old) -> Json]
    BY <2>1, <2>3, <2>4
  <2>6. f \in Seq(Json)
    BY <2>1, <2>5, FunctionIsSeq
  <2> QED
    BY <2>1, <2>2, <2>4, <2>6 DEF old
<1>9. ASSUME NEW c \in 1..Len(h.objects)
      PROVE  /\ g.objects[c] \in Vars
             /\ DOMAIN g.objects[c] = DOMAIN h.objects[c]
             /\ \A k \in DOMAIN h.objects[c] : IsContainer(g.objects[c][k]) => g.objects[c][k] = h.objects[c][k]
  <2>1. h.objects[c] \in Vars
    BY HeapKnown
  <2>2. g.objects[c] = ClearClosures(h.objects[c], dying) \/ g.objects[c] = h.objects[c]
    BY <1>1, <1>4
  <2> QED
    BY <1>6, <2>1, <2>2
<1>10. /\ g.scopes \in Seq(ScopeRecord) /\ Len(g.scopes) = Len(h.scopes)
       /\ g.arrays \in Seq(Seq(Json)) /\ Len(g.arrays) = Len(h.arrays)
       /\ g.objects \in Seq(Vars) /\ Len(g.objects) = Len(h.objects)
  <2>1. /\ g.scopes = [s \in 1..Len(h.scopes) |-> g.scopes[s]]
        /\ g.arrays = [c \in 1..Len(h.arrays) |-> g.arrays[c]]
        /\ g.objects = [c \in 1..Len(h.objects) |-> g.objects[c]]
    BY <1>1, <1>3, <1>4
  <2>2. /\ g.scopes \in [1..Len(h.scopes) -> ScopeRecord]
        /\ g.arrays \in [1..Len(h.arrays) -> Seq(Json)]
        /\ g.objects \in [1..Len(h.objects) -> Vars]
    BY <1>7, <1>8, <1>9, <2>1
  <2> QED
    BY <1>1, <2>2, FunctionIsSeq
<1>11. g \in Heap
  BY <1>5, <1>10 DEF Heap
<1>12. VarsDrop(h, g)
  BY <1>7, <1>10 DEF VarsDrop
<1>13. Cells(g) = Cells(h)
  BY <1>10 DEF Cells
<1>14. ASSUME NEW c \in Cells(g), NEW k \in DOMAIN Items(g, c), IsContainer(Items(g, c)[k])
       PROVE  k \in DOMAIN Items(h, c) /\ Items(g, c)[k] = Items(h, c)[k]
  <2>1. CASE c.type = "Array" /\ c.ref \in 1..Len(h.arrays)
    BY <1>8, <1>14, <2>1 DEF Items
  <2>2. CASE c.type = "Object" /\ c.ref \in 1..Len(h.objects)
    BY <1>9, <1>14, <2>2 DEF Items
  <2> QED
    BY <1>13, <2>1, <2>2, CellsAreCells
<1>15. CellsDrop(h, g)
  BY <1>13, <1>14 DEF CellsDrop
<1> QED
  BY <1>11, <1>12, <1>15 DEF g

(* However many scopes are left.                                           *)
Fallen(h, g) == g \in Heap /\ VarsDrop(h, g) /\ CellsDrop(h, g)

LEMMA LeaveDrops ==
  ASSUME NEW h \in Heap, NEW state, Fallen(h, state.heap)
  PROVE  Fallen(h, LeaveScope(state).heap)
<1> DEFINE g == state.heap
           f == BreakCycles(g, Last(state.envs))
<1>1. g \in Heap /\ VarsDrop(h, g) /\ CellsDrop(h, g)
  BY DEF Fallen
<1>2. f \in Heap /\ VarsDrop(g, f) /\ CellsDrop(g, f)
  BY <1>1, BreakDrops
<1>3. Fallen(h, f)
  BY <1>1, <1>2, DropsOn DEF Fallen
<1>4. LeaveScope(state).heap = g \/ LeaveScope(state).heap = f
  BY DEF LeaveScope
<1> QED
  BY <1>3, <1>4

LEMMA FallenItself == ASSUME NEW h \in Heap PROVE Fallen(h, h)
BY DropsNothing DEF Fallen

LEMMA LeaveAllDrops ==
  ASSUME heap \in Heap, NEW n \in Nat
  PROVE  Fallen(heap, LeaveScopes(n).heap)
<1> DEFINE left == CHOOSE f : LeftUpTo(f, n)
           T == {m \in Nat : m <= n => Fallen(heap, left[m].heap)}
<1>1. LeftUpTo(left, n)
  BY LeftExists
<1>2. LeaveScopes(n) = left[n]
  BY DEF LeaveScopes, LeftUpTo
<1> HIDE DEF left
<1>3. /\ left[0] = [heap |-> heap, envs |-> envs]
      /\ \A k \in Nat : k + 1 <= n => left[k + 1] = LeaveScope(left[k])
  BY <1>1, LeftStep
<1>4. 0 \in T
  BY <1>3, FallenItself
<1>5. ASSUME NEW m \in T PROVE m + 1 \in T
  <2> SUFFICES ASSUME m + 1 <= n PROVE Fallen(heap, left[m + 1].heap)
    BY <1>5
  <2>1. m \in Nat /\ m <= n /\ Fallen(heap, left[m].heap)
    BY <1>5
  <2> QED
    BY <1>3, <2>1, LeaveDrops
<1> HIDE DEF T
<1>6. T = Nat
  BY <1>4, <1>5, EveryNatural DEF T
<1> QED
  BY <1>2, <1>6 DEF T

-----------------------------------------------------------------------------
(* The steps.                                                              *)

LEMMA PoppedDrops ==
  ASSUME NEW ops, NEW left \in Seq(OperandRecord), ArgsDrop(ops, left), NEW n \in Nat, n <= Len(left)
  PROVE  ArgsDrop(ops, SubSeq(left, 1, Len(left) - n))
<1> DEFINE m   == Len(left) - n
           cut == SubSeq(left, 1, m)
<1>1. DOMAIN cut = 1..m /\ m \in Nat /\ m <= Len(left) /\ Len(left) \in Nat
      /\ \A i \in 1..m : cut[i] = left[i]
  OBVIOUS
<1> HIDE DEF cut, m
<1>2. \A i \in DOMAIN cut : i \in DOMAIN left /\ cut[i] = left[i]
  BY <1>1
<1>3. ArgsDrop(ops, cut)
  BY <1>2 DEF ArgsDrop
<1> QED
  BY <1>3 DEF cut, m

LEMMA PushedDrops ==
  ASSUME NEW ops, NEW left \in Seq(OperandRecord), ArgsDrop(ops, left), NEW o, ~ IsContainer(o.value)
  PROVE  ArgsDrop(ops, Append(left, o))
<1> DEFINE more == Append(left, o)
<1>1. \A i \in DOMAIN more : (i \in DOMAIN left /\ more[i] = left[i]) \/ more[i] = o
  OBVIOUS
<1> HIDE DEF more
<1>2. ArgsDrop(ops, more)
  BY <1>1 DEF ArgsDrop
<1> QED
  BY <1>2 DEF more

(* What steps do with the operands: drop some, and leave one that is no    *)
(* container.                                                              *)
LEMMA OperandsDrop ==
  ASSUME WalkInv, NEW n \in Nat, n <= Len(args)
  PROVE  /\ Popped(n) \in Seq(OperandRecord) /\ ArgsDrop(args, Popped(n))
         /\ \A o : ~ IsContainer(o.value) => ArgsDrop(args, Append(Popped(n), o))
<1>1. args \in Seq(OperandRecord)
  BY DEF WalkInv, ArgsGood
<1>2. ArgsDrop(args, args)
  BY DropsNothing
<1>3. ArgsDrop(args, Popped(n))
  BY <1>1, <1>2, PoppedDrops DEF Popped
<1>4. Popped(n) \in Seq(OperandRecord)
  BY <1>1 DEF Popped
<1> QED
  BY <1>3, <1>4, PushedDrops

LEMMA NoContainers ==
  /\ ~ IsContainer(Temporary(NullJson).value)
  /\ \A s, x : ~ IsContainer(ToVariable(s, x).value)
  /\ \A c, i : ~ IsContainer(ToElement(c, i).value)
  /\ \A c, k : ~ IsContainer(ToField(c, k).value)
  /\ \A v : v.type \notin {"Array", "Object"} => ~ IsContainer(Temporary(v).value)
BY DEF IsContainer, Temporary, ToVariable, ToElement, ToField, NullJson

(* The heap stays as it is. *)
LEMMA ArgsOnly ==
  ASSUME WalkInv, NothingShared(heap, args), UNCHANGED heap, ArgsDrop(args, args')
  PROVE  NothingShared(heap', args')
<1>1. heap \in Heap /\ heap' = heap
  BY DEF WalkInv, HeapGood
<1>2. VarsDrop(heap, heap) /\ CellsDrop(heap, heap)
  BY DropsNothing
<1> QED
  BY <1>1, <1>2, Dropped

LEMMA Untouched ==
  ASSUME NothingShared(heap, args), UNCHANGED <<heap, args>>
  PROVE  NothingShared(heap', args')
OBVIOUS

(* Only the scopes change. *)
LEMMA ScopesOnly ==
  ASSUME WalkInv, NothingShared(heap, args), heap' \in Heap, NEW scopes,
         heap' = [heap EXCEPT !.scopes = scopes],
         VarsDrop(heap, heap'), ArgsDrop(args, args')
  PROVE  NothingShared(heap', args')
<1>1. heap \in Heap
  BY DEF WalkInv, HeapGood
<1>2. heap'.arrays = heap.arrays /\ heap'.objects = heap.objects
  BY <1>1 DEF Heap
<1>3. CellsDrop(heap, heap')
  BY <1>2, DropsNothing
<1> QED
  BY <1>1, <1>3, Dropped

LEMMA EnteringDrops ==
  ASSUME NEW h \in Heap, NEW parent
  PROVE  VarsDrop(h, [h EXCEPT !.scopes = Append(@, NewScope(parent))])
<1> DEFINE scopes == Append(h.scopes, NewScope(parent))
           g == [h EXCEPT !.scopes = scopes]
<1>1. h.scopes \in Seq(ScopeRecord) /\ g.scopes = scopes
  BY DEF Heap
<1>2. \A s \in 1..Len(scopes) : (s \in 1..Len(h.scopes) /\ scopes[s] = h.scopes[s]) \/ scopes[s] = NewScope(parent)
  BY <1>1
<1>3. DOMAIN NewScope(parent).vars = {}
  BY DEF NewScope
<1> HIDE DEF scopes, g
<1>4. VarsDrop(h, g)
  BY <1>1, <1>2, <1>3 DEF VarsDrop
<1> QED
  BY <1>4 DEF g, scopes

(* A scope with one more variable, or with a variable that changed. *)
LEMMA BoundParts ==
  ASSUME NEW scopes \in Seq(ScopeRecord), NEW s \in 1..Len(scopes), NEW key, NEW v,
         NEW new, new = Bind(scopes, s, key, v)
  PROVE  /\ Len(new) = Len(scopes)
         /\ \A t \in 1..Len(scopes) : t # s => new[t].vars = scopes[t].vars
         /\ \A x \in DOMAIN new[s].vars :
              \/ x = key /\ new[s].vars[x] = v
              \/ x # key /\ x \in DOMAIN scopes[s].vars /\ new[s].vars[x] = scopes[s].vars[x]
<1> DEFINE bound == [x \in (DOMAIN scopes[s].vars) \cup {key} |->
                       IF x = key THEN v ELSE scopes[s].vars[x]]
<1>1. /\ DOMAIN scopes = 1..Len(scopes) /\ scopes[s] \in ScopeRecord /\ Len(scopes) \in Nat
  OBVIOUS
<1>2. new = [scopes EXCEPT ![s].vars = bound]
  BY DEF Bind
<1>3. [scopes[s] EXCEPT !.vars = bound].vars = bound
  <2> HIDE DEF bound
  <2> QED
    BY <1>1 DEF ScopeRecord
<1> HIDE DEF bound
<1>4. \A t \in 1..Len(scopes) : new[t] = IF t = s THEN [scopes[s] EXCEPT !.vars = bound]
                                         ELSE scopes[t]
  BY <1>1, <1>2
<1>5. DOMAIN new = 1..Len(scopes) /\ Len(new) = Len(scopes)
  BY <1>1, <1>2
<1>6. /\ new[s].vars = bound
      /\ \A t \in 1..Len(scopes) : t # s => new[t].vars = scopes[t].vars
  BY <1>3, <1>4
<1> QED
  BY <1>5, <1>6 DEF bound

LEMMA BindingDrops ==
  ASSUME NEW h \in Heap, NEW s \in 1..Len(h.scopes), NEW x, NEW v, ~ IsContainer(v)
  PROVE  VarsDrop(h, [h EXCEPT !.scopes = Bind(@, s, x, v)])
<1> DEFINE new == Bind(h.scopes, s, x, v)
           g == [h EXCEPT !.scopes = new]
<1>1. h.scopes \in Seq(ScopeRecord) /\ g.scopes = new
  BY DEF Heap
<1>2. /\ Len(new) = Len(h.scopes)
      /\ \A t \in 1..Len(h.scopes) : t # s => new[t].vars = h.scopes[t].vars
      /\ \A y \in DOMAIN new[s].vars :
           \/ y = x /\ new[s].vars[y] = v
           \/ y # x /\ y \in DOMAIN h.scopes[s].vars /\ new[s].vars[y] = h.scopes[s].vars[y]
  BY <1>1, BoundParts
<1> HIDE DEF new, g
<1>3. VarsDrop(h, g)
  BY <1>1, <1>2 DEF VarsDrop
<1> QED
  BY <1>3 DEF g, new

LEMMA PreScopeShares ==
  ASSUME WalkInv, PreScope, heap' \in Heap, NothingShared(heap, args)
  PROVE  NothingShared(heap', args')
<1>1. heap' = [heap EXCEPT !.scopes = Append(@, NewScope(CurrentScope))] /\ args' = args
  BY DEF PreScope
<1>2. heap \in Heap
  BY DEF WalkInv, HeapGood
<1>3. VarsDrop(heap, heap') /\ ArgsDrop(args, args')
  BY <1>1, <1>2, EnteringDrops, DropsNothing
<1> QED
  BY <1>1, <1>3, ScopesOnly

LEMMA PreFunctionScopeShares ==
  ASSUME WalkInv, PreFunctionScope, heap' \in Heap, NothingShared(heap, args)
  PROVE  NothingShared(heap', args')
<1> DEFINE closure == Get(Operand(0)).ref
<1>1. heap' = [heap EXCEPT !.scopes = Append(@, NewScope(closure))] /\ args' = Popped(1)
      /\ ValidOperands(1)
  BY DEF PreFunctionScope, Down, At, Defined
<1>2. heap \in Heap /\ 1 <= Len(args)
  BY <1>1, Operands DEF WalkInv, HeapGood
<1> HIDE DEF closure
<1>3. VarsDrop(heap, heap') /\ ArgsDrop(args, args')
  BY <1>1, <1>2, EnteringDrops, OperandsDrop
<1> QED
  BY <1>1, <1>3, ScopesOnly

LEMMA PreIfShares ==
  ASSUME WalkInv, PreIf, NothingShared(heap, args)
  PROVE  NothingShared(heap', args')
<1>1. /\ dfs # <<>> /\ Walked.class = "IfStatment" /\ ConditionDefined(Walked) /\ heap' = heap
      /\ args' = IF args = <<>> THEN args ELSE Popped(OperandsOf(Walked.condition))
  BY DEF PreIf, Down, At, Defined
<1>2. CASE args = <<>>
  BY <1>1, <1>2
<1>3. CASE args # <<>>
  <2>1. program \in Program /\ Top.node \in DOMAIN Nodes
    BY <1>1, TopKnown DEF WalkInv
  <2>2. Walked.condition \in DOMAIN Nodes
    BY <1>1, <2>1, NodesKnown DEF NodeOK, Walked
  <2>3. OperandsOf(Walked.condition) \in Nat
    BY <2>1, <2>2, OperandsOfTyped
  <2>4. OperandsOf(Walked.condition) <= Len(args)
    BY <1>1, <1>3, <2>3, Operands DEF ConditionDefined
  <2>5. ArgsDrop(args, args')
    BY <1>1, <1>3, <2>3, <2>4, OperandsDrop
  <2> QED
    BY <1>1, <2>5, ArgsOnly
<1> QED
  BY <1>2, <1>3

LEMMA PreGotoShares ==
  ASSUME WalkInv, PreGoto, heap' \in Heap, NothingShared(heap, args)
  PROVE  NothingShared(heap', args')
<1> DEFINE loop  == Nearest(Walked.target)
           above == SubSeq(dfs, loop + 1, Len(dfs) - 1)
           n     == Len(Gathered(above, OpenScopes))
<1>1. /\ dfs # <<>> /\ heap' = LeaveScopes(n).heap /\ args' = args
      /\ \A i \in DOMAIN above :
           ~ above[i].pre => Nodes[above[i].node].class \in {"Scope", "IfStatment"}
  BY DEF PreGoto, Down, At
<1>2. program \in Program /\ dfs \in Seq(Entry) /\ heap \in Heap
  BY DEF WalkInv, HeapGood
<1>3. loop \in 0..Len(dfs)
  BY <1>2, NearestKnown
<1> HIDE DEF loop
<1>4. above \in Seq(Entry)
  BY <1>2, <1>3
<1>5. n \in Nat
  BY <1>1, <1>4, AboveLoop
<1>6. Fallen(heap, heap') /\ ArgsDrop(args, args')
  BY <1>1, <1>2, <1>5, LeaveAllDrops, DropsNothing
<1> QED
  BY <1>2, <1>6, Dropped DEF Fallen

LEMMA PreFunctionStatmentShares ==
  ASSUME WalkInv, PreFunctionStatment, heap' \in Heap, NothingShared(heap, args)
  PROVE  NothingShared(heap', args')
<1>1. /\ heap' = [heap EXCEPT !.scopes = Bind(@, CurrentScope, Walked.str, FunctionJson(Top.node, CurrentScope))]
      /\ args' = args /\ envs # <<>>
  BY DEF PreFunctionStatment, Down, At, Defined
<1>2. heap \in Heap /\ CurrentScope \in 1..Len(heap.scopes)
  BY <1>1, CurrentScopeKnown DEF WalkInv, HeapGood
<1>3. ~ IsContainer(FunctionJson(Top.node, CurrentScope))
  BY DEF FunctionJson, IsContainer
<1>4. VarsDrop(heap, heap') /\ ArgsDrop(args, args')
  BY <1>1, <1>2, <1>3, BindingDrops, DropsNothing
<1> QED
  BY <1>1, <1>4, ScopesOnly

LEMMA PostLiteralShares ==
  ASSUME WalkInv, PostLiteral, NothingShared(heap, args)
  PROVE  NothingShared(heap', args')
<1> DEFINE v == IF Walked.class = "F" THEN IntJson(Walked.int) ELSE StringJson(Walked.str)
<1>1. args' = Append(args, Temporary(v)) /\ heap' = heap
  BY DEF PostLiteral, Back
<1>2. ~ IsContainer(Temporary(v).value)
  BY NoContainers DEF IntJson, StringJson
<1> HIDE DEF v
<1>3. args \in Seq(OperandRecord) /\ ArgsDrop(args, args)
  BY DropsNothing DEF WalkInv, ArgsGood
<1>4. ArgsDrop(args, args')
  BY <1>1, <1>2, <1>3, PushedDrops
<1> QED
  BY <1>1, <1>4, ArgsOnly

LEMMA PostVaribleShares ==
  ASSUME WalkInv, PostVarible, heap' \in Heap, NothingShared(heap, args)
  PROVE  NothingShared(heap', args')
<1> DEFINE owner == Owner(heap.scopes, CurrentScope, Walked.str)
           o == ToVariable(IF owner = 0 THEN CurrentScope ELSE owner, Walked.str)
<1>1. /\ args' = Append(args, o) /\ envs # <<>>
      /\ heap' = [heap EXCEPT !.scopes = Touch(@, CurrentScope, Walked.str)]
  BY DEF PostVarible, Back, At, Defined
<1>2. ~ IsContainer(o.value)
  BY NoContainers
<1> HIDE DEF o
<1>3. args \in Seq(OperandRecord) /\ ArgsDrop(args, args) /\ heap \in Heap
      /\ CurrentScope \in 1..Len(heap.scopes)
  BY <1>1, DropsNothing, CurrentScopeKnown DEF WalkInv, ArgsGood, HeapGood
<1>4. ArgsDrop(args, args')
  BY <1>1, <1>2, <1>3, PushedDrops
<1>5. VarsDrop(heap, heap')
  <2>1. CASE owner = 0
    <3>1. heap' = [heap EXCEPT !.scopes = Bind(@, CurrentScope, Walked.str, NullJson)]
      BY <1>1, <2>1 DEF Touch
    <3>2. ~ IsContainer(NullJson)
      BY DEF NullJson, IsContainer
    <3> QED
      BY <1>3, <3>1, <3>2, BindingDrops
  <2>2. CASE owner # 0
    <3>1. heap' = [heap EXCEPT !.scopes = heap.scopes]
      BY <1>1, <2>2 DEF Touch
    <3>2. heap'.scopes = heap.scopes
      BY <1>3, <3>1 DEF Heap
    <3> QED
      BY <3>2, DropsNothing
  <2> QED
    BY <2>1, <2>2
<1> QED
  BY <1>1, <1>4, <1>5, ScopesOnly

LEMMA PostBinExprShares ==
  ASSUME WalkInv, PostBinExpr, NothingShared(heap, args)
  PROVE  NothingShared(heap', args')
<1> DEFINE l == Get(Operand(1))
           r == Get(Operand(0))
           v == IF Walked.str \in ArithmeticOps
                THEN Arithmetic(Walked.str, l, r)
                ELSE Compare(Walked.str, heap.arrays, heap.objects, l, r)
<1>1. args' = Append(Popped(2), Temporary(v)) /\ heap' = heap /\ BinExprDefined
  BY DEF PostBinExpr, Back, At, Defined
<1>2. ValidOperands(2) /\ (Walked.str \in ArithmeticOps => ArithmeticDefined(Walked.str, l, r))
  BY <1>1 DEF BinExprDefined
<1>3. 2 <= Len(args) /\ l \in Json /\ r \in Json
  BY <1>2, Operands DEF Val
<1> HIDE DEF l, r
<1>4. v.type \notin {"Array", "Object"}
  <2>1. CASE Walked.str \in ArithmeticOps
    <3>1. Walked.str \in {"ADD", "SUB", "MUL", "DIV"} /\ ArithmeticDefined(Walked.str, l, r)
      BY <1>2, <2>1 DEF ArithmeticOps
    <3>2. Arithmetic(Walked.str, l, r).type \in {"Int", "Null"}
      BY <1>3, <3>1, ArithmeticTyped
    <3> QED
      BY <2>1, <3>2
  <2>2. CASE Walked.str \notin ArithmeticOps
    BY <2>2, CompareTyped
  <2> QED
    BY <2>1, <2>2
<1> HIDE DEF v
<1>5. ArgsDrop(args, args')
  BY <1>1, <1>3, <1>4, NoContainers, OperandsDrop
<1> QED
  BY <1>1, <1>5, ArgsOnly

LEMMA PostScopeShares ==
  ASSUME WalkInv, PostScope \/ PostFunctionScope, NothingShared(heap, args)
  PROVE  NothingShared(heap', args')
<1> DEFINE state == [heap |-> heap, envs |-> envs]
<1>1. heap' = LeaveScope(state).heap /\ args' = args
  BY DEF PostScope, PostFunctionScope
<1>2. heap \in Heap /\ state.heap = heap
  BY DEF WalkInv, HeapGood
<1> HIDE DEF state
<1>3. Fallen(heap, heap') /\ ArgsDrop(args, args')
  BY <1>1, <1>2, FallenItself, LeaveDrops, DropsNothing
<1> QED
  BY <1>2, <1>3, Dropped DEF Fallen

LEMMA PostPrintShares ==
  ASSUME WalkInv, PostPrint, NothingShared(heap, args)
  PROVE  NothingShared(heap', args')
<1>1. args' = Popped(1) /\ heap' = heap /\ ValidOperands(1)
  BY DEF PostPrint, Back, At, Defined
<1>2. ArgsDrop(args, args')
  BY <1>1, Operands, OperandsDrop
<1> QED
  BY <1>1, <1>2, ArgsOnly

LEMMA ThrowShares ==
  ASSUME WalkInv, Throw, NothingShared(heap, args)
  PROVE  NothingShared(heap', args')
<1>1. args' = <<>> /\ heap' = heap
  BY DEF Throw
<1>2. ArgsDrop(args, args')
  BY <1>1 DEF ArgsDrop
<1> QED
  BY <1>1, <1>2, ArgsOnly

(* What is shared by the steps that copy a value: the copy, as one more    *)
(* operand, shares nothing with the operands below those the step takes.   *)
LEMMA CopyStepSeparate ==
  ASSUME WalkInv, NothingShared(heap, args), NEW v, Val(World, heap, v), NEW n \in Nat, n <= Len(args)
  PROVE  LET copied == CopyJson(heap, v)
         IN  /\ HeapGood(World, copied.heap) /\ Grows(heap, copied.heap)
             /\ copied.heap.scopes = heap.scopes /\ Val(World, copied.heap, copied.value)
             /\ NothingShared(copied.heap, Append(Popped(n), Temporary(copied.value)))
             /\ NestedBelow(heap, copied.heap)
             /\ IsContainer(copied.value) => copied.value \in Cells(copied.heap) \ Cells(heap)
             /\ \A c \in Cells(heap) : c \in Cells(copied.heap)
<1> DEFINE copied == CopyJson(heap, v)
           g      == copied.heap
           value  == copied.value
           last   == Temporary(value)
<1>1. HeapGood(World, heap) /\ heap \in Heap /\ ArgsGood(World, heap, args)
  BY DEF WalkInv, HeapGood
<1>2. /\ HeapGood(World, g) /\ Grows(heap, g) /\ g.scopes = heap.scopes
      /\ Val(World, g, value) /\ CopyOf(heap, v, g, value)
  BY <1>1, CopyMade
<1> HIDE DEF copied
<1>3. last \in OperandRecord /\ last.value = value
  BY <1>2, TemporaryGood DEF Temporary
<1> DEFINE ops == Popped(n)
<1>4. ArgsVal(World, heap, ops)
  BY <1>1, ArgsPopped DEF ArgsVal, ArgsGood, Popped
<1>5. NothingShared(heap, ops)
  <2>1. ArgsDrop(args, ops)
    BY OperandsDrop
  <2>2. VarsDrop(heap, heap) /\ CellsDrop(heap, heap)
    BY DropsNothing
  <2> HIDE DEF ops
  <2> QED
    BY <1>1, <2>1, <2>2, Dropped
<1> HIDE DEF ops, last, g, value
<1>6. /\ NothingShared(g, Append(ops, last)) /\ NestedBelow(heap, g)
      /\ IsContainer(value) => value \in Cells(g) \ Cells(heap)
      /\ \A c \in Cells(heap) : c \in Cells(g) /\ Items(g, c) = Items(heap, c)
  BY <1>1, <1>2, <1>3, <1>4, <1>5, CopySeparate
<1> QED
  BY <1>2, <1>6 DEF ops, last, g, value, copied

LEMMA PostReturnShares ==
  ASSUME WalkInv, PostReturn, NothingShared(heap, args)
  PROVE  NothingShared(heap', args')
<1> DEFINE v == Get(Operand(0))
<1>1. /\ heap' = CopyJson(heap, v).heap /\ args' = Append(Popped(1), Temporary(CopyJson(heap, v).value))
      /\ ValidOperands(1)
  BY DEF PostReturn, Back, At, Defined
<1>2. 1 <= Len(args) /\ Val(World, heap, v)
  BY <1>1, Operands
<1> HIDE DEF v
<1> QED
  BY <1>1, <1>2, CopyStepSeparate

LEMMA ReturnShares ==
  ASSUME WalkInv, Return, NothingShared(heap, args)
  PROVE  NothingShared(heap', args')
<1>1. CASE args = <<>>
  BY <1>1 DEF Return
<1>2. CASE args # <<>>
  <2> DEFINE v == Get(Operand(0))
             last == Temporary(CopyJson(heap, v).value)
  <2>1. heap' = CopyJson(heap, v).heap /\ args' = Popped(1) /\ Valid(Operand(0))
    BY <1>2 DEF Return
  <2>2. args \in Seq(OperandRecord)
    BY DEF WalkInv, ArgsGood
  <2>3. Len(args) >= 1 /\ \A i \in 0..(1 - 1) : i = 0
    BY <1>2, <2>2
  <2>4. 1 <= Len(args) /\ Val(World, heap, v)
    BY <2>1, <2>3, Operands DEF ValidOperands
  <2> HIDE DEF v
  <2>5. HeapGood(World, heap') /\ NothingShared(heap', Append(Popped(1), last))
    BY <2>1, <2>4, CopyStepSeparate
  <2>6. Popped(1) \in Seq(OperandRecord)
    BY <2>4, OperandsDrop
  <2> DEFINE ops == Popped(1)
  <2>7. ArgsDrop(Append(ops, last), ops)
    <3>1. ops \in Seq(OperandRecord)
      BY <2>6
    <3> HIDE DEF ops, last
    <3>2. \A i \in DOMAIN ops : i \in DOMAIN Append(ops, last) /\ Append(ops, last)[i] = ops[i]
      BY <3>1
    <3> QED
      BY <3>2 DEF ArgsDrop
  <2>8. heap' \in Heap /\ VarsDrop(heap', heap') /\ CellsDrop(heap', heap')
    BY <2>5, DropsNothing DEF HeapGood
  <2> HIDE DEF last
  <2> QED
    BY <2>1, <2>5, <2>7, <2>8, Dropped
<1> QED
  BY <1>1, <1>2

(* A copy that is stored in a variable. *)
LEMMA VariableWritten ==
  ASSUME NEW h \in Heap, NEW g \in Heap, NEW s \in 1..Len(h.scopes), NEW key,
         NEW ops \in Seq(OperandRecord), NEW last, NothingShared(h, Append(ops, last)),
         g = [h EXCEPT !.scopes = Bind(@, s, key, last.value)]
  PROVE  NothingShared(g, ops)
<1> DEFINE new  == Bind(h.scopes, s, key, last.value)
           room == <<"Scope", s>>
<1>1. /\ h.scopes \in Seq(ScopeRecord)
      /\ g.scopes = new /\ g.arrays = h.arrays /\ g.objects = h.objects
  BY DEF Heap
<1>2. /\ Len(new) = Len(h.scopes)
      /\ \A t \in 1..Len(h.scopes) : t # s => new[t].vars = h.scopes[t].vars
      /\ \A x \in DOMAIN new[s].vars :
           \/ x = key /\ new[s].vars[x] = last.value
           \/ x # key /\ x \in DOMAIN h.scopes[s].vars /\ new[s].vars[x] = h.scopes[s].vars[x]
  BY <1>1, BoundParts
<1> HIDE DEF new
<1>3. ASSUME NEW spot, VarSpot(g, spot)
      PROVE  VarSpot(h, spot) \/ spot = <<room, key, last.value>>
  <2>1. PICK t \in 1..Len(new) : \E x \in DOMAIN new[t].vars : spot = <<<<"Scope", t>>, x, new[t].vars[x]>>
    BY <1>1, <1>3 DEF VarSpot
  <2>2. PICK x \in DOMAIN new[t].vars : spot = <<<<"Scope", t>>, x, new[t].vars[x]>>
    BY <2>1
  <2>3. t \in 1..Len(h.scopes)
    BY <1>2, <2>1
  <2>4. CASE t # s
    BY <1>2, <2>2, <2>3, <2>4 DEF VarSpot
  <2>5. CASE t = s
    <3>1. CASE x = key /\ new[s].vars[x] = last.value
      BY <2>2, <2>5, <3>1
    <3>2. CASE x \in DOMAIN h.scopes[s].vars /\ new[s].vars[x] = h.scopes[s].vars[x]
      BY <2>2, <2>3, <2>5, <3>2 DEF VarSpot
    <3> QED
      BY <1>2, <2>2, <2>5, <3>1, <3>2
  <2> QED
    BY <2>4, <2>5
<1>4. Cells(g) = Cells(h) /\ \A c : Items(g, c) = Items(h, c)
  BY <1>1 DEF Cells, Items
<1>5. \A spot : CellSpot(g, spot) => CellSpot(h, spot)
  BY <1>4 DEF CellSpot
<1>6. Nested(g)
  BY <1>4 DEF NothingShared, Nested, Ranked
<1> HIDE DEF room
<1> QED
  BY <1>3, <1>5, <1>6, OperandPlaced

(* A copy that is stored in a cell, which is older than the copy.          *)
ItemSet(h, g, cell, key, v) ==
  /\ g.scopes = h.scopes /\ Cells(g) = Cells(h)
  /\ \A c \in Cells(h) : c # cell => Items(g, c) = Items(h, c)
  /\ key \in DOMAIN Items(g, cell) => Items(g, cell)[key] = v
  /\ \A k \in DOMAIN Items(g, cell) :
       k # key => k \in DOMAIN Items(h, cell) /\ Items(g, cell)[k] = Items(h, cell)[k]

LEMMA ItemWritten ==
  ASSUME NEW old, NEW h \in Heap, NEW g \in Heap, NestedBelow(old, h),
         NEW cell \in Cells(old), cell \in Cells(h), NEW key,
         NEW ops \in Seq(OperandRecord), NEW last, NothingShared(h, Append(ops, last)),
         IsContainer(last.value) => last.value \in Cells(h) \ Cells(old),
         ItemSet(h, g, cell, key, last.value)
  PROVE  NothingShared(g, ops)
<1>1. /\ g.scopes = h.scopes /\ Cells(g) = Cells(h)
      /\ \A c \in Cells(h) : c # cell => Items(g, c) = Items(h, c)
      /\ \A k \in DOMAIN Items(g, cell) :
           \/ k = key /\ Items(g, cell)[k] = last.value
           \/ k \in DOMAIN Items(h, cell) /\ Items(g, cell)[k] = Items(h, cell)[k]
  BY DEF ItemSet
<1> DEFINE room == <<cell.type, cell.ref>>
<1>2. ASSUME NEW spot, VarSpot(g, spot) PROVE VarSpot(h, spot)
  BY <1>1, <1>2 DEF VarSpot
<1>3. ASSUME NEW spot, CellSpot(g, spot)
      PROVE  CellSpot(h, spot) \/ spot = <<room, key, last.value>>
  <2>1. PICK c \in Cells(g) : \E k \in DOMAIN Items(g, c) : spot = <<<<c.type, c.ref>>, k, Items(g, c)[k]>>
    BY <1>3 DEF CellSpot
  <2>2. PICK k \in DOMAIN Items(g, c) : spot = <<<<c.type, c.ref>>, k, Items(g, c)[k]>>
    BY <2>1
  <2>3. CASE c # cell
    BY <1>1, <2>2, <2>3 DEF CellSpot
  <2>4. CASE c = cell
    <3>1. CASE k = key /\ Items(g, cell)[k] = last.value
      BY <2>2, <2>4, <3>1
    <3>2. CASE k \in DOMAIN Items(h, cell) /\ Items(g, cell)[k] = Items(h, cell)[k]
      BY <1>1, <2>2, <2>4, <3>2 DEF CellSpot
    <3> QED
      BY <1>1, <2>2, <2>4, <3>1, <3>2
  <2> QED
    BY <2>3, <2>4
<1>4. PICK rank, bound : /\ Ranked(h, rank, bound)
                         /\ \A c \in Cells(h) \ Cells(old) : \A d \in Cells(old) : rank[c] < rank[d]
  BY DEF NestedBelow
<1>5. ASSUME NEW c \in Cells(g), NEW k \in DOMAIN Items(g, c), IsContainer(Items(g, c)[k])
      PROVE  rank[Items(g, c)[k]] < rank[c]
  <2>1. CASE c # cell
    BY <1>1, <1>4, <1>5, <2>1 DEF Ranked
  <2>2. CASE c = cell
    <3>1. CASE Items(g, cell)[k] = last.value
      BY <1>1, <1>4, <1>5, <2>2, <3>1
    <3>2. CASE k \in DOMAIN Items(h, cell) /\ Items(g, cell)[k] = Items(h, cell)[k]
      BY <1>1, <1>4, <1>5, <2>2, <3>2 DEF Ranked
    <3> QED
      BY <1>1, <1>5, <2>2, <3>1, <3>2
  <2> QED
    BY <2>1, <2>2
<1>6. Nested(g)
  BY <1>1, <1>4, <1>5 DEF Nested, Ranked
<1> HIDE DEF room
<1> QED
  BY <1>1, <1>2, <1>3, <1>6, OperandPlaced

LEMMA ArraySet ==
  ASSUME NEW h, NEW g, NEW c \in 1..Len(h.arrays), g.objects = h.objects,
         Len(g.arrays) = Len(h.arrays),
         \A d \in 1..Len(h.arrays) : d # c => g.arrays[d] = h.arrays[d]
  PROVE  /\ Cells(g) = Cells(h) /\ ArrayJson(c) \in Cells(h)
         /\ Items(g, ArrayJson(c)) = g.arrays[c] /\ Items(h, ArrayJson(c)) = h.arrays[c]
         /\ \A d \in Cells(h) : d # ArrayJson(c) => Items(g, d) = Items(h, d)
<1>1. Cells(g) = Cells(h) /\ ArrayJson(c) \in Cells(h)
  BY CellsAreCells DEF Cells
<1>2. Items(g, ArrayJson(c)) = g.arrays[c] /\ Items(h, ArrayJson(c)) = h.arrays[c]
  BY DEF Items, ArrayJson
<1>3. ASSUME NEW d \in Cells(h), d # ArrayJson(c) PROVE Items(g, d) = Items(h, d)
  <2>1. \/ d.type = "Array" /\ d.ref \in 1..Len(h.arrays) /\ d = ArrayJson(d.ref)
        \/ d.type = "Object"
    BY CellsAreCells
  <2> QED
    BY <1>3, <2>1 DEF Items
<1> QED
  BY <1>1, <1>2, <1>3

LEMMA ObjectSet ==
  ASSUME NEW h, NEW g, NEW c \in 1..Len(h.objects), g.arrays = h.arrays,
         Len(g.objects) = Len(h.objects),
         \A d \in 1..Len(h.objects) : d # c => g.objects[d] = h.objects[d]
  PROVE  /\ Cells(g) = Cells(h) /\ ObjectJson(c) \in Cells(h)
         /\ Items(g, ObjectJson(c)) = g.objects[c] /\ Items(h, ObjectJson(c)) = h.objects[c]
         /\ \A d \in Cells(h) : d # ObjectJson(c) => Items(g, d) = Items(h, d)
<1>1. Cells(g) = Cells(h) /\ ObjectJson(c) \in Cells(h)
  BY CellsAreCells DEF Cells
<1>2. Items(g, ObjectJson(c)) = g.objects[c] /\ Items(h, ObjectJson(c)) = h.objects[c]
  BY DEF Items, ObjectJson
<1>3. ASSUME NEW d \in Cells(h), d # ObjectJson(c) PROVE Items(g, d) = Items(h, d)
  <2>1. \/ d.type = "Object" /\ d.ref \in 1..Len(h.objects) /\ d = ObjectJson(d.ref)
        \/ d.type = "Array"
    BY CellsAreCells
  <2> QED
    BY <1>3, <2>1 DEF Items
<1> QED
  BY <1>1, <1>2, <1>3

LEMMA TopDropped ==
  ASSUME NEW h \in Heap, NEW ops \in Seq(OperandRecord), NEW last, NothingShared(h, Append(ops, last))
  PROVE  NothingShared(h, ops)
<1> DEFINE more == Append(ops, last)
<1>1. \A i \in DOMAIN ops : i \in DOMAIN more /\ more[i] = ops[i]
  OBVIOUS
<1> HIDE DEF more
<1>2. ArgsDrop(more, ops)
  BY <1>1 DEF ArgsDrop
<1>3. VarsDrop(h, h) /\ CellsDrop(h, h)
  BY DropsNothing
<1> QED
  BY <1>2, <1>3, Dropped DEF more

LEMMA PostAssignVariableShares ==
  ASSUME WalkInv, PostAssignVariable, heap' \in Heap, NothingShared(heap, args)
  PROVE  NothingShared(heap', args')
<1> DEFINE x      == Get(NameOperand).s
           value  == Get(IF Len(Walked.children) = 2 THEN Operand(0) ELSE Operand(1))
           copied == CopyJson(heap, value)
           owner  == Owner(heap.scopes, CurrentScope, x)
           s      == IF Walked.str = "LOCAL" \/ owner = 0 THEN CurrentScope ELSE owner
<1>1. /\ ValidOperands(2) /\ envs # <<>>
      /\ heap' = [copied.heap EXCEPT !.scopes = Bind(@, s, x, copied.value)]
      /\ args' = Popped(2)
  BY DEF PostAssignVariable, Back, At, Defined, AssigmentDefined
<1>2. 2 <= Len(args) /\ Val(World, heap, value) /\ Get(NameOperand) \in Json
  <2>1. /\ 2 <= Len(args)
        /\ Val(World, heap, Get(Operand(0))) /\ Val(World, heap, Get(Operand(1)))
    BY <1>1, Operands
  <2> QED
    BY <2>1 DEF NameOperand, Val
<1>3. x \in Text
  BY <1>2 DEF Json
<1>4. /\ HeapGood(World, copied.heap) /\ copied.heap.scopes = heap.scopes
      /\ NothingShared(copied.heap, Append(Popped(2), Temporary(copied.value)))
  BY <1>2, CopyStepSeparate
<1> HIDE DEF copied, x
<1>5. s \in 1..Len(copied.heap.scopes)
  <2>1. /\ CurrentScope \in 1..Len(heap.scopes) /\ heap.scopes \in Seq(ScopeRecord)
        /\ OlderParents(heap.scopes)
    BY <1>1, CurrentScopeKnown DEF WalkInv, HeapGood, ScopesGood
  <2>2. owner \in 0..Len(heap.scopes)
    BY <1>3, <2>1, OwnerFound
  <2> HIDE DEF owner
  <2> QED
    BY <1>4, <2>1, <2>2
<1> HIDE DEF s
<1> DEFINE h    == copied.heap
           last == Temporary(copied.value)
           ops  == Popped(2)
<1>6. /\ h \in Heap /\ last.value = copied.value /\ ops \in Seq(OperandRecord)
      /\ heap' = [h EXCEPT !.scopes = Bind(@, s, x, last.value)]
      /\ NothingShared(h, Append(ops, last)) /\ s \in 1..Len(h.scopes) /\ args' = ops
  BY <1>1, <1>2, <1>4, <1>5, OperandsDrop DEF HeapGood, Temporary
<1> HIDE DEF h, last, ops
<1> QED
  BY <1>6, VariableWritten

LEMMA WrittenShares ==
  ASSUME NEW old \in Heap, NEW h \in Heap, NEW g \in Heap, Grows(old, h), NestedBelow(old, h),
         NEW place \in PlaceRecord, PlaceFits(old, place), place.kind # "dangling",
         NEW ops \in Seq(OperandRecord), NEW last, NothingShared(h, Append(ops, last)),
         IsContainer(last.value) => last.value \in Cells(h) \ Cells(old),
         g = Written(h, place, last.value)
  PROVE  NothingShared(g, ops)
<1>1. PlaceFits(h, place)
  BY PlaceKept
<1>2. place.kind \in {"none", "Scope", "Array", "Object"} /\ place.index \in Nat
  BY DEF PlaceRecord
<1>3. CASE place.kind = "none"
  <2>1. g = h
    BY <1>3 DEF Written
  <2> QED
    BY <2>1, TopDropped
<1>4. CASE place.kind = "Scope"
  <2>1. g = [h EXCEPT !.scopes = Bind(@, place.ref, place.key, last.value)]
    BY <1>4 DEF Written
  <2>2. place.ref \in 1..Len(h.scopes)
    BY <1>1, <1>4 DEF PlaceFits
  <2> QED
    BY <2>1, <2>2, VariableWritten
<1>5. CASE place.kind = "Array"
  <2> DEFINE c     == place.ref
             i     == place.index + 1
             items == [h.arrays[c] EXCEPT ![i] = last.value]
             cell  == ArrayJson(c)
  <2>1. c \in 1..Len(h.arrays) /\ c \in 1..Len(old.arrays)
    BY <1>1, <1>5 DEF PlaceFits
  <2>2. /\ g.scopes = h.scopes /\ g.objects = h.objects /\ Len(g.arrays) = Len(h.arrays)
        /\ g.arrays[c] = items /\ \A d \in 1..Len(h.arrays) : d # c => g.arrays[d] = h.arrays[d]
    <3>1. g = [h EXCEPT !.arrays[c] = items]
      BY <1>5 DEF Written
    <3> HIDE DEF items, c
    <3> QED
      BY <2>1, <3>1, HeapKnown DEF Heap
  <2>3. /\ i \in DOMAIN items => items[i] = last.value
        /\ \A k \in DOMAIN items : k # i => k \in DOMAIN h.arrays[c] /\ items[k] = h.arrays[c][k]
    OBVIOUS
  <2> HIDE DEF items, i, c
  <2>4. /\ Cells(g) = Cells(h) /\ cell \in Cells(h)
        /\ Items(g, cell) = items /\ Items(h, cell) = h.arrays[c]
        /\ \A d \in Cells(h) : d # cell => Items(g, d) = Items(h, d)
    <3>1. /\ g.objects = h.objects /\ Len(g.arrays) = Len(h.arrays) /\ g.arrays[c] = items
          /\ \A d \in 1..Len(h.arrays) : d # c => g.arrays[d] = h.arrays[d]
      BY <2>2
    <3>2. /\ Cells(g) = Cells(h) /\ cell \in Cells(h)
          /\ Items(g, cell) = g.arrays[c] /\ Items(h, cell) = h.arrays[c]
          /\ \A d \in Cells(h) : d # cell => Items(g, d) = Items(h, d)
      BY ONLY ZenonT(30), <2>1, <3>1, ArraySet
    <3> QED
      BY <3>1, <3>2
  <2>5. cell \in Cells(old)
    BY <2>1, CellsAreCells
  <2> HIDE DEF cell
  <2>6. /\ i \in DOMAIN Items(g, cell) => Items(g, cell)[i] = last.value
        /\ \A k \in DOMAIN Items(g, cell) :
             k # i => k \in DOMAIN Items(h, cell) /\ Items(g, cell)[k] = Items(h, cell)[k]
    BY <2>3, <2>4
  <2>7. ItemSet(h, g, cell, i, last.value)
    BY <2>2, <2>4, <2>6 DEF ItemSet
  <2> QED
    BY <2>4, <2>5, <2>7, ItemWritten
<1>6. CASE place.kind = "Object"
  <2> DEFINE c     == place.ref
             i     == place.key
             items == [h.objects[c] EXCEPT ![i] = last.value]
             cell  == ObjectJson(c)
  <2>1. c \in 1..Len(h.objects) /\ c \in 1..Len(old.objects)
    BY <1>1, <1>6 DEF PlaceFits
  <2>2. /\ g.scopes = h.scopes /\ g.arrays = h.arrays /\ Len(g.objects) = Len(h.objects)
        /\ g.objects[c] = items /\ \A d \in 1..Len(h.objects) : d # c => g.objects[d] = h.objects[d]
    <3>1. g = [h EXCEPT !.objects[c] = items]
      BY <1>6 DEF Written
    <3> HIDE DEF items, c
    <3> QED
      BY <2>1, <3>1, HeapKnown DEF Heap
  <2>3. /\ i \in DOMAIN items => items[i] = last.value
        /\ \A k \in DOMAIN items : k # i => k \in DOMAIN h.objects[c] /\ items[k] = h.objects[c][k]
    OBVIOUS
  <2> HIDE DEF items, i, c
  <2>4. /\ Cells(g) = Cells(h) /\ cell \in Cells(h)
        /\ Items(g, cell) = items /\ Items(h, cell) = h.objects[c]
        /\ \A d \in Cells(h) : d # cell => Items(g, d) = Items(h, d)
    <3>1. /\ g.arrays = h.arrays /\ Len(g.objects) = Len(h.objects) /\ g.objects[c] = items
          /\ \A d \in 1..Len(h.objects) : d # c => g.objects[d] = h.objects[d]
      BY <2>2
    <3>2. /\ Cells(g) = Cells(h) /\ cell \in Cells(h)
          /\ Items(g, cell) = g.objects[c] /\ Items(h, cell) = h.objects[c]
          /\ \A d \in Cells(h) : d # cell => Items(g, d) = Items(h, d)
      BY ONLY ZenonT(30), <2>1, <3>1, ObjectSet
    <3> QED
      BY <3>1, <3>2
  <2>5. cell \in Cells(old)
    BY <2>1, CellsAreCells
  <2> HIDE DEF cell
  <2>6. /\ i \in DOMAIN Items(g, cell) => Items(g, cell)[i] = last.value
        /\ \A k \in DOMAIN Items(g, cell) :
             k # i => k \in DOMAIN Items(h, cell) /\ Items(g, cell)[k] = Items(h, cell)[k]
    BY <2>3, <2>4
  <2>7. ItemSet(h, g, cell, i, last.value)
    BY <2>2, <2>4, <2>6 DEF ItemSet
  <2> QED
    BY <2>4, <2>5, <2>7, ItemWritten
<1> QED
  BY <1>2, <1>3, <1>4, <1>5, <1>6

LEMMA PostAssignMemberShares ==
  ASSUME WalkInv, PostAssignMember, heap' \in Heap, NothingShared(heap, args)
  PROVE  NothingShared(heap', args')
<1> DEFINE copied == CopyJson(heap, Get(Operand(0)))
           place  == Operand(1).place
<1>1. /\ ValidOperands(2)
      /\ heap' = Written(copied.heap, place, copied.value)
      /\ args' = Popped(2)
  BY DEF PostAssignMember, Back, At, Defined, AssigmentDefined
<1>2. /\ 2 <= Len(args) /\ Val(World, heap, Get(Operand(0)))
      /\ place \in PlaceRecord /\ PlaceFits(heap, place) /\ place.kind # "dangling"
  <2>1. /\ 2 <= Len(args) /\ Val(World, heap, Get(Operand(0)))
        /\ Operand(1) \in OperandRecord /\ PlaceFits(heap, Operand(1).place)
        /\ Operand(1).place.kind \in {"none", "Scope", "Array", "Object"}
    BY <1>1, Operands
  <2> QED
    BY <2>1 DEF OperandRecord
<1> HIDE DEF place
<1>3. /\ HeapGood(World, copied.heap) /\ Grows(heap, copied.heap)
      /\ NothingShared(copied.heap, Append(Popped(2), Temporary(copied.value)))
      /\ NestedBelow(heap, copied.heap)
      /\ IsContainer(copied.value) => copied.value \in Cells(copied.heap) \ Cells(heap)
  BY <1>2, CopyStepSeparate
<1> DEFINE h    == copied.heap
           last == Temporary(copied.value)
           ops  == Popped(2)
<1> HIDE DEF copied
<1>4. /\ h \in Heap /\ heap \in Heap /\ last.value = copied.value /\ ops \in Seq(OperandRecord)
  BY <1>2, <1>3, OperandsDrop DEF WalkInv, HeapGood, Temporary
<1>5. /\ heap' = Written(h, place, last.value) /\ args' = ops
      /\ Grows(heap, h) /\ NestedBelow(heap, h) /\ NothingShared(h, Append(ops, last))
      /\ IsContainer(last.value) => last.value \in Cells(h) \ Cells(heap)
  BY <1>1, <1>3, <1>4
<1> HIDE DEF h, last, ops
<1> QED
  BY <1>2, <1>4, <1>5, WrittenShares

(* A place that a member expression made holds null. *)
LEMMA GrownDrops ==
  ASSUME NEW h \in Heap, NEW g, NEW cell \in Cells(h), g.scopes = h.scopes, Cells(g) = Cells(h),
         \A c \in Cells(h) : c # cell => Items(g, c) = Items(h, c),
         \A k \in DOMAIN Items(g, cell) :
           \/ Items(g, cell)[k] = NullJson
           \/ k \in DOMAIN Items(h, cell) /\ Items(g, cell)[k] = Items(h, cell)[k]
  PROVE  VarsDrop(h, g) /\ CellsDrop(h, g)
<1>1. ~ IsContainer(NullJson)
  BY DEF NullJson, IsContainer
<1>2. VarsDrop(h, g)
  BY DropsNothing
<1> QED
  BY <1>1, <1>2 DEF CellsDrop

LEMMA IndexedShares ==
  ASSUME WalkInv, ValidOperands(2), NothingShared(heap, args), NEW container, Val(World, heap, container),
         container.type = "Array", NEW i \in Int, Indexed(container, i), heap' \in Heap
  PROVE  NothingShared(heap', args')
<1> DEFINE c   == container.ref
           old == heap.arrays[c]
           ops == Popped(2)
<1>1. /\ 2 <= Len(args) /\ heap \in Heap /\ c \in 1..Len(heap.arrays)
  BY Operands DEF WalkInv, HeapGood, Val
<1>2. old \in Seq(Json) /\ Len(old) \in Nat /\ DOMAIN old = 1..Len(old)
  BY <1>1, HeapKnown
<1>3. /\ ops \in Seq(OperandRecord) /\ ArgsDrop(args, ops)
      /\ \A o : ~ IsContainer(o.value) => ArgsDrop(args, Append(ops, o))
  BY <1>1, OperandsDrop
<1> HIDE DEF ops
<1>4. CASE i < 0
  <2>1. args' = Append(ops, Temporary(NullJson)) /\ heap' = heap
    BY <1>4 DEF Indexed, ops
  <2> QED
    BY <1>3, <2>1, NoContainers, ArgsOnly
<1>5. CASE i >= 0 /\ i < Len(old)
  <2>1. args' = Append(ops, ToElement(c, i)) /\ heap' = heap
    BY <1>2, <1>5 DEF Indexed, ops
  <2> QED
    BY <1>3, <2>1, NoContainers, ArgsOnly
<1>6. CASE i >= 0 /\ i >= Len(old)
  <2> DEFINE m     == i + 1 - Len(old)
             more  == [j \in 1..m |-> NullJson]
             new   == old \o more
             moved == AfterGrowth(ops, c)
             cell  == ArrayJson(c)
  <2>1. /\ args' = Append(moved, ToElement(c, i))
        /\ heap'.scopes = heap.scopes /\ heap'.objects = heap.objects
        /\ Len(heap'.arrays) = Len(heap.arrays) /\ heap'.arrays[c] = new
        /\ \A d \in 1..Len(heap.arrays) : d # c => heap'.arrays[d] = heap.arrays[d]
    <3>1. ~ (i < 0) /\ ~ (i < Len(old))
      BY <1>2, <1>6
    <3>2. args' = Append(moved, ToElement(c, i)) /\ heap' = [heap EXCEPT !.arrays[c] = new]
      BY <3>1 DEF Indexed, ops
    <3> HIDE DEF new, c
    <3> QED
      BY <1>1, <3>2, HeapKnown DEF Heap
  <2>2. m \in Nat
    BY <1>2, <1>6
  <2> HIDE DEF m
  <2>3. more \in Seq(Json) /\ Len(more) = m /\ \A j \in 1..m : more[j] = NullJson
    <3>1. more \in [1..m -> Json] /\ \A j \in 1..m : more[j] = NullJson
      BY ScalarTyped
    <3> HIDE DEF more
    <3> QED
      BY <2>2, <3>1, FunctionIsSeq
  <2> HIDE DEF more, old
  <2>4. DOMAIN new = 1..Len(new)
    BY <1>2, <2>3
  <2>5. \A j \in DOMAIN new : (j \in DOMAIN old /\ new[j] = old[j]) \/ new[j] = NullJson
    <3>1. /\ \A j \in 1..Len(new) : j <= Len(old) => new[j] = old[j]
          /\ \A j \in 1..Len(new) : ~ (j <= Len(old)) =>
               j - Len(old) \in 1..Len(more) /\ new[j] = more[j - Len(old)]
      BY <1>2, <2>3, ConcatParts
    <3> HIDE DEF new
    <3> QED
      BY <1>2, <2>3, <2>4, <3>1
  <2> HIDE DEF new, c
  <2>6. /\ Cells(heap') = Cells(heap) /\ cell \in Cells(heap)
        /\ Items(heap', cell) = new /\ Items(heap, cell) = old
        /\ \A d \in Cells(heap) : d # cell => Items(heap', d) = Items(heap, d)
    BY ZenonT(30), <1>1, <2>1, ArraySet DEF old
  <2> HIDE DEF cell
  <2>7. VarsDrop(heap, heap') /\ CellsDrop(heap, heap')
    BY <1>1, <2>1, <2>5, <2>6, GrownDrops
  <2>8. moved \in Seq(OperandRecord) /\ ArgsDrop(args, moved)
    <3>1. ASSUME NEW o \in OperandRecord
          PROVE  LET gone == [o EXCEPT !.place.kind = "dangling"]
                 IN  gone \in OperandRecord /\ gone.value = o.value
      BY DEF OperandRecord, PlaceRecord
    <3>2. /\ DOMAIN ops = 1..Len(ops) /\ Len(ops) \in Nat
          /\ \A j \in DOMAIN ops : ops[j] \in OperandRecord
      BY <1>3
    <3>3. /\ DOMAIN moved = DOMAIN ops
          /\ \A j \in DOMAIN ops : moved[j] = ops[j] \/ moved[j] = [ops[j] EXCEPT !.place.kind = "dangling"]
      BY DEF AfterGrowth
    <3> HIDE DEF moved
    <3>4. \A j \in DOMAIN moved : j \in DOMAIN ops /\ moved[j] \in OperandRecord /\ moved[j].value = ops[j].value
      BY <3>1, <3>2, <3>3
    <3>5. moved \in Seq(OperandRecord)
      <4>1. moved = [j \in 1..Len(ops) |-> moved[j]]
        BY <3>2, <3>3 DEF moved, AfterGrowth
      <4>2. moved \in [1..Len(ops) -> OperandRecord]
        BY <3>2, <3>3, <3>4, <4>1
      <4> QED
        BY <3>2, <4>2, FunctionIsSeq
    <3> QED
      BY <1>3, <3>4, <3>5 DEF ArgsDrop
  <2> HIDE DEF moved
  <2>9. ArgsDrop(args, args')
    BY <2>1, <2>8, NoContainers, PushedDrops
  <2> QED
    BY <1>1, <2>7, <2>9, Dropped
<1> QED
  BY <1>2, <1>4, <1>5, <1>6

LEMMA KeyedShares ==
  ASSUME WalkInv, ValidOperands(2), NothingShared(heap, args), NEW container, Val(World, heap, container),
         container.type = "Object", NEW k, Keyed(container, k), heap' \in Heap
  PROVE  NothingShared(heap', args')
<1> DEFINE c    == container.ref
           old  == heap.objects[c]
           new  == [x \in (DOMAIN old) \cup {k} |-> IF x \in DOMAIN old THEN old[x] ELSE NullJson]
           cell == ObjectJson(c)
<1>1. /\ 2 <= Len(args) /\ heap \in Heap /\ c \in 1..Len(heap.objects)
  BY Operands DEF WalkInv, HeapGood, Val
<1>2. /\ args' = Append(Popped(2), ToField(c, k))
      /\ heap'.scopes = heap.scopes /\ heap'.arrays = heap.arrays
      /\ Len(heap'.objects) = Len(heap.objects) /\ heap'.objects[c] = new
      /\ \A d \in 1..Len(heap.objects) : d # c => heap'.objects[d] = heap.objects[d]
  <2>1. args' = Append(Popped(2), ToField(c, k)) /\ heap' = [heap EXCEPT !.objects[c] = new]
    BY DEF Keyed
  <2> HIDE DEF new, c
  <2> QED
    BY <1>1, <2>1, HeapKnown DEF Heap
<1> HIDE DEF old
<1>3. \A x \in DOMAIN new : (x \in DOMAIN old /\ new[x] = old[x]) \/ new[x] = NullJson
  OBVIOUS
<1> HIDE DEF new, c
<1>4. /\ Cells(heap') = Cells(heap) /\ cell \in Cells(heap)
      /\ Items(heap', cell) = new /\ Items(heap, cell) = old
      /\ \A d \in Cells(heap) : d # cell => Items(heap', d) = Items(heap, d)
  BY ZenonT(30), <1>1, <1>2, ObjectSet DEF old
<1> HIDE DEF cell
<1>5. VarsDrop(heap, heap') /\ CellsDrop(heap, heap')
  BY <1>1, <1>2, <1>3, <1>4, GrownDrops
<1>6. ArgsDrop(args, args')
  BY <1>1, <1>2, NoContainers, OperandsDrop
<1> QED
  BY <1>1, <1>5, <1>6, Dropped

LEMMA PostMemberShares ==
  ASSUME WalkInv, PostMember, NothingShared(heap, args), heap' \in Heap
  PROVE  NothingShared(heap', args')
<1> DEFINE key       == Get(Operand(0))
           container == Get(Operand(1))
<1>1. /\ ValidOperands(2)
      /\ \/ container.type = "Array" /\ key.type = "Int" /\ Indexed(container, key.n)
         \/ container.type = "Object" /\ key.type = "String" /\ Keyed(container, key.s)
         \/ args' = Popped(2) /\ heap' = heap
  BY DEF PostMember, Back, At, Defined
<1>2. 2 <= Len(args) /\ Val(World, heap, container) /\ key \in Json
  BY <1>1, Operands DEF Val
<1>3. key.n \in Int
  BY <1>2 DEF Json
<1> HIDE DEF key, container
<1>4. CASE container.type = "Array" /\ Indexed(container, key.n)
  BY <1>1, <1>2, <1>3, <1>4, IndexedShares
<1>5. CASE container.type = "Object" /\ Keyed(container, key.s)
  BY <1>1, <1>2, <1>5, KeyedShares
<1>6. CASE args' = Popped(2) /\ heap' = heap
  BY <1>2, <1>6, OperandsDrop, ArgsOnly
<1> QED
  BY <1>1, <1>4, <1>5, <1>6

(* A literal: the cell takes the copies over. *)
LEMMA ArrayAdded ==
  ASSUME NEW h \in Heap, NEW items
  PROVE  LET g    == [h EXCEPT !.arrays = Append(@, items)]
             cell == ArrayJson(Len(h.arrays) + 1)
         IN  /\ g.scopes = h.scopes /\ cell \notin Cells(h) /\ Cells(g) = Cells(h) \cup {cell}
             /\ Items(g, cell) = items /\ \A c \in Cells(h) : Items(g, c) = Items(h, c)
<1> DEFINE n    == Len(h.arrays) + 1
           g    == [h EXCEPT !.arrays = Append(@, items)]
           cell == ArrayJson(n)
<1>1. h.arrays \in Seq(Seq(Json)) /\ Len(h.arrays) \in Nat /\ Len(h.objects) \in Nat
  BY HeapKnown DEF Heap
<1>2. /\ g.scopes = h.scopes /\ g.objects = h.objects /\ g.arrays = Append(h.arrays, items)
  BY DEF Heap
<1> HIDE DEF g
<1>3. /\ Len(g.arrays) = n /\ g.arrays[n] = items /\ n \in Nat /\ n \notin 1..Len(h.arrays)
      /\ 1..n = 1..Len(h.arrays) \cup {n}
      /\ \A c \in 1..Len(h.arrays) : g.arrays[c] = h.arrays[c]
  BY <1>1, <1>2
<1> HIDE DEF n
<1>4. cell.type = "Array" /\ cell.ref = n
  BY DEF ArrayJson
<1>5. cell \notin Cells(h)
  BY <1>3, <1>4, CellsAreCells
<1>6. Cells(g) = Cells(h) \cup {cell}
  BY <1>2, <1>3 DEF Cells
<1> HIDE DEF cell
<1>7. Items(g, cell) = items
  BY <1>3, <1>4 DEF Items
<1>8. ASSUME NEW c \in Cells(h) PROVE Items(g, c) = Items(h, c)
  BY <1>2, <1>3, CellsAreCells DEF Items
<1> QED
  BY <1>2, <1>5, <1>6, <1>7, <1>8 DEF g, cell, n

LEMMA ObjectAdded ==
  ASSUME NEW h \in Heap, NEW items
  PROVE  LET g    == [h EXCEPT !.objects = Append(@, items)]
             cell == ObjectJson(Len(h.objects) + 1)
         IN  /\ g.scopes = h.scopes /\ cell \notin Cells(h) /\ Cells(g) = Cells(h) \cup {cell}
             /\ Items(g, cell) = items /\ \A c \in Cells(h) : Items(g, c) = Items(h, c)
<1> DEFINE n    == Len(h.objects) + 1
           g    == [h EXCEPT !.objects = Append(@, items)]
           cell == ObjectJson(n)
<1>1. h.objects \in Seq(Vars) /\ Len(h.arrays) \in Nat /\ Len(h.objects) \in Nat
  BY HeapKnown DEF Heap
<1>2. /\ g.scopes = h.scopes /\ g.arrays = h.arrays /\ g.objects = Append(h.objects, items)
  BY DEF Heap
<1> HIDE DEF g
<1>3. /\ Len(g.objects) = n /\ g.objects[n] = items /\ n \in Nat /\ n \notin 1..Len(h.objects)
      /\ 1..n = 1..Len(h.objects) \cup {n}
      /\ \A c \in 1..Len(h.objects) : g.objects[c] = h.objects[c]
  BY <1>1, <1>2
<1> HIDE DEF n
<1>4. cell.type = "Object" /\ cell.ref = n
  BY DEF ObjectJson
<1>5. cell \notin Cells(h)
  BY <1>3, <1>4, CellsAreCells
<1>6. Cells(g) = Cells(h) \cup {cell}
  BY <1>2, <1>3 DEF Cells
<1> HIDE DEF cell
<1>7. Items(g, cell) = items
  BY <1>3, <1>4 DEF Items
<1>8. ASSUME NEW c \in Cells(h) PROVE Items(g, c) = Items(h, c)
  BY <1>2, <1>3, CellsAreCells DEF Items
<1> QED
  BY <1>2, <1>5, <1>6, <1>7, <1>8 DEF g, cell, n

(* The values of a literal are copied off the operands it takes. *)
LEMMA LiteralCopies ==
  ASSUME WalkInv, NothingShared(heap, args), NEW m \in Nat, m <= Len(args),
         NEW vs \in Seq(Json), \A i \in 1..Len(vs) : Val(World, heap, vs[i])
  PROVE  LET items == CopyAll(heap, vs)
         IN  /\ HeapGood(World, items.heap) /\ Len(items.values) = Len(vs)
             /\ \E more : /\ MoreArgs(Popped(m), items.values, more)
                          /\ ArgsVal(World, items.heap, more) /\ NothingShared(items.heap, more)
<1> DEFINE items == CopyAll(heap, vs)
           ops   == Popped(m)
<1>1. HeapGood(World, heap) /\ heap \in Heap /\ ArgsGood(World, heap, args) /\ Len(vs) \in Nat
  BY DEF WalkInv, HeapGood
<1>2. HeapGood(World, items.heap) /\ Len(items.values) = Len(vs)
  BY <1>1, CopyAllGood DEF Copied
<1>3. ArgsVal(World, heap, ops)
  BY <1>1, ArgsPopped DEF ArgsVal, ArgsGood, Popped
<1>4. NothingShared(heap, ops)
  <2>1. ArgsDrop(args, ops)
    BY OperandsDrop
  <2>2. VarsDrop(heap, heap) /\ CellsDrop(heap, heap)
    BY DropsNothing
  <2> HIDE DEF ops
  <2> QED
    BY <1>1, <2>1, <2>2, Dropped
<1> HIDE DEF ops
<1>5. \E more : /\ MoreArgs(ops, items.values, more)
                /\ ArgsVal(World, items.heap, more) /\ NothingShared(items.heap, more)
  BY <1>1, <1>3, <1>4, CopyAllSeparate
<1> QED
  BY <1>2, <1>5 DEF ops

LEMMA PostArrayShares ==
  ASSUME WalkInv, PostArray, heap' \in Heap, NothingShared(heap, args)
  PROVE  NothingShared(heap', args')
<1> DEFINE n     == Len(Walked.children)
           vs    == Values(TopArgs(n))
           items == CopyAll(heap, vs)
           cell  == ArrayJson(Len(items.heap.arrays) + 1)
           ops   == Popped(n)
           last  == Temporary(cell)
<1>1. /\ dfs # <<>> /\ ValidOperands(n)
      /\ heap' = [items.heap EXCEPT !.arrays = Append(@, items.values)]
      /\ args' = Append(ops, last)
  BY DEF PostArray, Back, At, Defined
<1>2. n \in Nat
  BY <1>1, TopKnown DEF WalkInv
<1> HIDE DEF n
<1>3. /\ n <= Len(args) /\ vs \in Seq(Json) /\ Len(vs) = n
      /\ \A i \in 1..n : Val(World, heap, vs[i])
  BY <1>1, <1>2, ValuesKnown
<1> HIDE DEF vs
<1>4. /\ HeapGood(World, items.heap) /\ Len(items.values) = n
      /\ \E more : /\ MoreArgs(ops, items.values, more)
                   /\ ArgsVal(World, items.heap, more) /\ NothingShared(items.heap, more)
  BY <1>2, <1>3, LiteralCopies
<1> HIDE DEF items
<1>5. PICK more : /\ MoreArgs(ops, items.values, more)
                  /\ ArgsVal(World, items.heap, more) /\ NothingShared(items.heap, more)
  BY <1>4
<1>6. ops \in Seq(OperandRecord)
  BY <1>2, <1>3, OperandsDrop
<1>7. items.heap \in Heap /\ items.values \in Seq(Json) /\ DOMAIN items.values = 1..n
  <2> DEFINE q == CopyAll(heap, vs)
  <2>1. \A i \in 1..Len(vs) : Val(World, heap, vs[i])
    BY <1>3
  <2>2. Len(vs) \in Nat /\ HeapGood(World, heap)
    BY <1>2, <1>3 DEF WalkInv
  <2>3. q.values \in Seq(Json)
    BY <2>1, <2>2, CopyAllGood
  <2>4. items.values \in Seq(Json)
    BY <2>3 DEF items
  <2> QED
    BY <1>2, <1>4, <2>4 DEF HeapGood
<1> DEFINE h == items.heap
           g == heap'
           values == items.values
<1>8. /\ g.scopes = h.scopes /\ cell \notin Cells(h) /\ Cells(g) = Cells(h) \cup {cell}
      /\ Items(g, cell) = values /\ \A c \in Cells(h) : Items(g, c) = Items(h, c)
  BY ZenonT(30), <1>1, <1>7, ArrayAdded
<1>9. cell \in Json
  <2>1. Len(h.arrays) + 1 \in Nat
    BY <1>7, HeapKnown
  <2> QED
    BY <2>1 DEF ArrayJson, Json, JsonType, Text
<1>10. last.value = cell
  BY DEF Temporary
<1> HIDE DEF cell, last, ops, h, values
<1> DEFINE at == [k \in 1..n |-> k]
<1>11. /\ at \in [DOMAIN Items(g, cell) -> 1..Len(values)]
       /\ \A k, l \in DOMAIN Items(g, cell) : at[k] = at[l] => k = l
       /\ \A k \in DOMAIN Items(g, cell) : Items(g, cell)[k] = values[at[k]]
  BY <1>4, <1>7, <1>8 DEF values
<1> HIDE DEF at
<1>12. /\ HeapGood(World, h) /\ MoreArgs(ops, values, more)
       /\ ArgsVal(World, h, more) /\ NothingShared(h, more)
       /\ Len(ops) \in Nat /\ DOMAIN ops = 1..Len(ops) /\ Len(values) \in Nat
  BY <1>2, <1>4, <1>5, <1>6 DEF h, values
<1>13. NothingShared(g, Append(ops, last))
  BY <1>8, <1>9, <1>10, <1>11, <1>12, CellFilled
<1> QED
  BY <1>1, <1>13

LEMMA PostObjectShares ==
  ASSUME WalkInv, PostObject, heap' \in Heap, NothingShared(heap, args)
  PROVE  NothingShared(heap', args')
<1> DEFINE n      == Len(Walked.children)
           pairs  == Values(TopArgs(2 * n))
           fields == [i \in 1..n |-> pairs[2 * i]]
           items  == CopyAll(heap, fields)
           key(i) == pairs[2 * i - 1].s
           S      == {key(i) : i \in 1..n}
           at     == [k \in S |-> Max({i \in 1..n : key(i) = k})]
           object == [k \in S |-> items.values[Max({i \in 1..n : key(i) = k})]]
           cell   == ObjectJson(Len(items.heap.objects) + 1)
           ops    == Popped(2 * n)
           last   == Temporary(cell)
<1>1. /\ dfs # <<>> /\ ValidOperands(2 * n)
      /\ heap' = [items.heap EXCEPT !.objects = Append(@, object)]
      /\ args' = Append(ops, last)
  BY DEF PostObject, Back, At, Defined
<1>2. n \in Nat /\ 2 * n \in Nat
  <2>1. Walked.children \in Seq(DOMAIN Nodes)
    BY <1>1, TopKnown DEF WalkInv
  <2> QED
    BY <2>1
<1> HIDE DEF n
<1>3. /\ 2 * n <= Len(args) /\ pairs \in Seq(Json) /\ Len(pairs) = 2 * n
      /\ \A i \in 1..(2 * n) : Val(World, heap, pairs[i])
  BY <1>1, <1>2, ValuesKnown
<1> HIDE DEF pairs
<1>4. /\ fields \in Seq(Json) /\ Len(fields) = n
      /\ \A i \in 1..n : Val(World, heap, fields[i])
  <2>1. \A i \in 1..n : 2 * i \in 1..(2 * n)
    BY <1>2
  <2>2. \A i \in 1..n : Val(World, heap, fields[i]) /\ fields[i] \in Json
    BY <1>3, <2>1 DEF Val
  <2>3. fields \in [1..n -> Json]
    BY <2>2
  <2> HIDE DEF fields
  <2> QED
    BY <1>2, <2>2, <2>3, FunctionIsSeq
<1> HIDE DEF fields
<1>5. /\ HeapGood(World, items.heap) /\ Len(items.values) = n
      /\ \E more : /\ MoreArgs(ops, items.values, more)
                   /\ ArgsVal(World, items.heap, more) /\ NothingShared(items.heap, more)
  BY <1>2, <1>3, <1>4, LiteralCopies
<1> HIDE DEF items
<1>6. PICK more : /\ MoreArgs(ops, items.values, more)
                  /\ ArgsVal(World, items.heap, more) /\ NothingShared(items.heap, more)
  BY <1>5
<1>7. ops \in Seq(OperandRecord) /\ items.heap \in Heap
  BY <1>2, <1>3, <1>5, OperandsDrop DEF HeapGood
<1> HIDE DEF key
<1>8. \A k \in S : at[k] \in 1..n /\ key(at[k]) = k
  <2> SUFFICES ASSUME NEW k \in S PROVE at[k] \in 1..n /\ key(at[k]) = k
    OBVIOUS
  <2> DEFINE I == {i \in 1..n : key(i) = k}
  <2>1. I # {} /\ I \in SUBSET (0..n) /\ at[k] = Max(I)
    BY <1>2
  <2> HIDE DEF I, at
  <2>2. Max(I) \in I
    BY <1>2, <2>1, LargestElement DEF Max
  <2> QED
    BY <2>1, <2>2 DEF I
<1>9. object = [k \in S |-> items.values[at[k]]] /\ DOMAIN at = S
  OBVIOUS
<1> DEFINE h == items.heap
           g == heap'
           values == items.values
<1> HIDE DEF at, S, object
<1>10. /\ g.scopes = h.scopes /\ cell \notin Cells(h) /\ Cells(g) = Cells(h) \cup {cell}
       /\ Items(g, cell) = object /\ \A c \in Cells(h) : Items(g, c) = Items(h, c)
  BY ZenonT(30), <1>1, <1>7, ObjectAdded
<1>11. cell \in Json
  <2>1. Len(h.objects) + 1 \in Nat
    BY <1>7, HeapKnown
  <2> QED
    BY <2>1 DEF ObjectJson, Json, JsonType, Text
<1>12. last.value = cell
  BY DEF Temporary
<1> HIDE DEF cell, last, ops, h, values
<1>13. DOMAIN object = S /\ \A k \in S : object[k] = values[at[k]]
  BY <1>9 DEF values
<1>14. /\ at \in [DOMAIN Items(g, cell) -> 1..Len(values)]
       /\ \A k, l \in DOMAIN Items(g, cell) : at[k] = at[l] => k = l
       /\ \A k \in DOMAIN Items(g, cell) : Items(g, cell)[k] = values[at[k]]
  <2>1. Len(values) = n /\ DOMAIN Items(g, cell) = S
    BY <1>5, <1>10, <1>13 DEF values
  <2>2. at \in [S -> 1..n]
    BY <1>8, <1>9 DEF at
  <2> QED
    BY <1>8, <1>10, <1>13, <2>1, <2>2
<1>15. /\ HeapGood(World, h) /\ MoreArgs(ops, values, more)
       /\ ArgsVal(World, h, more) /\ NothingShared(h, more)
       /\ Len(ops) \in Nat /\ DOMAIN ops = 1..Len(ops) /\ Len(values) \in Nat
  BY <1>2, <1>5, <1>6, <1>7 DEF h, values
<1>16. NothingShared(g, Append(ops, last))
  BY <1>10, <1>11, <1>12, <1>14, <1>15, CellFilled
<1> QED
  BY <1>1, <1>16

LEMMA StepShares ==
  ASSUME WalkInv, NothingShared(heap, args), [Next]_vars PROVE NothingShared(heap', args')
<1>1. heap' \in Heap
  BY StepKeeps DEF StepSafe, WalkInv, HeapGood
<1>2. CASE PreScope
  BY <1>1, <1>2, PreScopeShares
<1>3. CASE PreFunctionScope
  BY <1>1, <1>3, PreFunctionScopeShares
<1>4. CASE PreIf
  BY <1>4, PreIfShares
<1>5. CASE PreGoto
  BY <1>1, <1>5, PreGotoShares
<1>6. CASE PreFunctionStatment
  BY <1>1, <1>6, PreFunctionStatmentShares
<1>7. CASE PreReturn \/ PreOrdinary \/ PostCall \/ PostWithoutHandler \/ Undefined
  BY <1>7, Untouched DEF PreReturn, PreOrdinary, PostCall, PostWithoutHandler, Undefined
<1>8. CASE PostLiteral
  BY <1>8, PostLiteralShares
<1>9. CASE PostVarible
  BY <1>1, <1>9, PostVaribleShares
<1>10. CASE PostArray
  BY <1>1, <1>10, PostArrayShares
<1>11. CASE PostObject
  BY <1>1, <1>11, PostObjectShares
<1>12. CASE PostBinExpr
  BY <1>12, PostBinExprShares
<1>13. CASE PostScope \/ PostFunctionScope
  BY <1>13, PostScopeShares
<1>14. CASE PostReturn
  BY <1>14, PostReturnShares
<1>15. CASE PostPrint
  BY <1>15, PostPrintShares
<1>16. CASE PostMember
  BY <1>1, <1>16, PostMemberShares
<1>17. CASE PostAssignVariable
  BY <1>1, <1>17, PostAssignVariableShares
<1>18. CASE PostAssignMember
  BY <1>1, <1>18, PostAssignMemberShares
<1>19. CASE Throw
  BY <1>19, ThrowShares
<1>20. CASE Return
  BY <1>20, ReturnShares
<1>21. CASE UNCHANGED vars
  BY <1>21, Untouched DEF vars
<1> QED
  BY <1>2, <1>3, <1>4, <1>5, <1>6, <1>7, <1>8, <1>9, <1>10, <1>11, <1>12, <1>13, <1>14, <1>15, <1>16,
     <1>17, <1>18, <1>19, <1>20, <1>21
     DEF Next, Walk, Finished

LEMMA InitShares ==
  ASSUME Init PROVE NothingShared(heap, args)
<1>1. heap \in Heap
  BY InitGood DEF WalkInv, HeapGood
<1>2. /\ args = <<>> /\ Len(heap.scopes) = 0 /\ Len(heap.arrays) = 0 /\ Len(heap.objects) = 0
  BY DEF Init
<1>3. Cells(heap) = {}
  BY <1>2 DEF Cells
<1>4. Spots(heap, args) = {}
  <2>1. \A spot : ~ VarSpot(heap, spot) /\ ~ CellSpot(heap, spot) /\ ~ ArgSpot(args, spot)
    BY <1>2, <1>3 DEF VarSpot, CellSpot, ArgSpot
  <2> QED
    BY <1>1, <2>1, SpotsKnown
<1>5. Ranked(heap, [c \in Json |-> 0], 1)
  BY <1>3 DEF Ranked
<1> QED
  BY <1>4, <1>5 DEF NothingShared, Separate, Nested

(* What a container reaches ranks below it. *)
LEMMA NestedApart ==
  ASSUME NEW w, NEW h, HeapGood(w, h), Nested(h), NEW c \in Cells(h)
  PROVE  c \notin Reachable(h, Contents(h, c))
<1>1. PICK rank, bound : Ranked(h, rank, bound)
  BY DEF Nested
<1> DEFINE T == {d \in Cells(h) : rank[d] < rank[c]}
           R == Reachable(h, Contents(h, c))
<1>2. ASSUME NEW d \in Cells(h), NEW v \in ContainersIn(Contents(h, d))
      PROVE  v \in Cells(h) /\ rank[v] < rank[d]
  <2>1. v \in Contents(h, d) /\ IsContainer(v)
    BY DEF ContainersIn, IsContainer
  <2>2. PICK k \in DOMAIN Items(h, d) : v = Items(h, d)[k]
    BY <2>1 DEF Contents, Items, Range
  <2>3. v \in Cells(h)
    BY <2>1, CellsVal DEF IsContainer
  <2> QED
    BY <1>1, <2>1, <2>2, <2>3 DEF Ranked
<1>3. \A d \in Cells(h) : rank[d] \in Nat
  BY <1>1, CellsVal DEF Ranked
<1>4. /\ ContainersIn(Contents(h, c)) \subseteq T
      /\ \A d \in T \cap Cells(h) : ContainersIn(Contents(h, d)) \subseteq T
  BY <1>2, <1>3
<1> HIDE DEF T
<1>5. R \subseteq T
  <2>1. \A v \in Contents(h, c) : Val(w, h, v)
    BY CellsVal
  <2> QED
    BY <1>4, <2>1, ReachableSmallest
<1>6. c \notin T
  BY <1>3 DEF T
<1> QED
  BY <1>5, <1>6

ShareInv == WalkInv /\ NothingShared(heap, args)

(* In every state of the walk a container is held in at most one place,    *)
(* and containers are nested without a cycle.                              *)
THEOREM WalkSeparation == Spec => []ShareInv
<1>1. Init => ShareInv
  BY InitGood, InitShares DEF ShareInv
<1>2. ShareInv /\ [Next]_vars => ShareInv'
  BY StepKeeps, StepShares DEF ShareInv, StepSafe
<1> QED
  BY <1>1, <1>2, PTL DEF Spec

(* Whatever is assigned, passed, returned and stored: an array or object   *)
(* is in one place, in every state of every run of StackMachine::exec.     *)
THEOREM NothingIsAliased == Spec => []NothingAliased
<1>1. ShareInv => NothingAliased
  BY DEF ShareInv, NothingShared, NothingAliased
<1> QED
  BY <1>1, WalkSeparation, PTL

(* No array or object of the tree walker is inside of itself: what copies, *)
(* compares, prints and breaks cycles by descending into a value ends.     *)
THEOREM NoValueHoldsItself == Spec => []NothingHoldsItself
<1>1. ASSUME ShareInv PROVE NothingHoldsItself
  <2>1. HeapGood(World, heap) /\ Nested(heap)
    BY <1>1 DEF ShareInv, WalkInv, NothingShared
  <2>2. /\ \A c \in DOMAIN heap.arrays : ArrayJson(c) \in Cells(heap)
        /\ \A c \in DOMAIN heap.objects : ObjectJson(c) \in Cells(heap)
    BY <2>1, CellsAreCells, HeapKnown DEF HeapGood
  <2> QED
    BY <2>1, <2>2, NestedApart DEF NothingHoldsItself
<1> QED
  BY <1>1, WalkSeparation, PTL
=============================================================================
