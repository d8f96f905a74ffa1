--------------------------- MODULE ConsoleProofs ---------------------------
(***************************************************************************)
(* The consoles' invariants, for every set of lines and all bounds.        *)
(***************************************************************************)
EXTENDS Console, NatSets, SequenceTheorems

(***************************************************************************)
(* What load_history_file makes of the entries of the file.  The recursive *)
(* function exists, is the only one, and stays when entries are appended.  *)
(***************************************************************************)
LoadedUpTo(f, entries, n) ==
  f = [i \in 0..n |-> IF i = 0 THEN <<>>
                      ELSE IF entries[i] = <<Empty>> THEN f[i - 1]
                      ELSE Append(f[i - 1], entries[i])]

LEMMA LoadExists ==
  ASSUME NEW entries, NEW n \in Nat
  PROVE  \E f : LoadedUpTo(f, entries, n)
<1> DEFINE T == {m \in Nat : \E f : LoadedUpTo(f, entries, m)}
<1>1. 0 \in T
  <2>1. LoadedUpTo([i \in 0..0 |-> <<>>], entries, 0)
    BY DEF LoadedUpTo
  <2> QED
    BY <2>1
<1>2. ASSUME NEW m \in T PROVE m + 1 \in T
  <2>1. PICK f : LoadedUpTo(f, entries, m)
    OBVIOUS
  <2> DEFINE last == IF entries[m + 1] = <<Empty>> THEN f[m]
                     ELSE Append(f[m], entries[m + 1])
             g == [i \in 0..(m + 1) |-> IF i = m + 1 THEN last ELSE f[i]]
  <2>2. ASSUME NEW i \in 0..(m + 1)
        PROVE  g[i] = IF i = 0 THEN <<>>
                      ELSE IF entries[i] = <<Empty>> THEN g[i - 1]
                      ELSE Append(g[i - 1], entries[i])
    <3>1. CASE i = m + 1
      <4>1. g[i - 1] = f[m]
        BY <3>1
      <4>2. g[i] = last
        BY <3>1
      <4> QED
        BY <3>1, <4>1, <4>2
    <3>2. CASE i \in 0..m
      <4>1. g[i] = f[i] /\ (i # 0 => g[i - 1] = f[i - 1])
        BY <3>2
      <4>2. f[i] = IF i = 0 THEN <<>>
                   ELSE IF entries[i] = <<Empty>> THEN f[i - 1]
                   ELSE Append(f[i - 1], entries[i])
        BY <2>1, <3>2 DEF LoadedUpTo
      <4> QED
        BY <4>1, <4>2
    <3> QED
      BY <3>1, <3>2
  <2>3. LoadedUpTo(g, entries, m + 1)
    <3> HIDE DEF last
    <3>1. g = [i \in 0..(m + 1) |-> g[i]]
      OBVIOUS
    <3> HIDE DEF g
    <3> QED
      BY <2>2, <3>1, Zenon DEF LoadedUpTo
  <2> QED
    BY <2>3
<1> HIDE DEF T
<1>3. T = Nat
  BY <1>1, <1>2, EveryNatural DEF T
<1> QED
  BY <1>3 DEF T

LEMMA LoadedByLoad ==
  ASSUME NEW entries, Len(entries) \in Nat
  PROVE  \E f : /\ LoadedUpTo(f, entries, Len(entries))
                /\ Loaded(entries) = f[Len(entries)]
<1> DEFINE f == CHOOSE f : LoadedUpTo(f, entries, Len(entries))
<1>1. LoadedUpTo(f, entries, Len(entries))
  BY LoadExists
<1>2. Loaded(entries) = f[Len(entries)]
  BY DEF Loaded, LoadedUpTo
<1> QED
  BY <1>1, <1>2

LEMMA LoadStep ==
  ASSUME NEW f, NEW entries, NEW n \in Nat, LoadedUpTo(f, entries, n)
  PROVE  /\ f[0] = <<>>
         /\ \A k \in Nat : k + 1 <= n =>
              f[k + 1] = IF entries[k + 1] = <<Empty>> THEN f[k]
                         ELSE Append(f[k], entries[k + 1])
<1> DEFINE Body(i) == IF i = 0 THEN <<>>
                      ELSE IF entries[i] = <<Empty>> THEN f[i - 1]
                      ELSE Append(f[i - 1], entries[i])
<1>1. \A i \in 0..n : f[i] = Body(i)
  BY DEF LoadedUpTo
<1>2. f[0] = Body(0)
  BY <1>1
<1>3. ASSUME NEW k \in Nat, k + 1 <= n
      PROVE  f[k + 1] = Body(k + 1) /\ (k + 1) - 1 = k /\ k + 1 # 0
  <2> HIDE DEF Body
  <2>1. k + 1 \in 0..n
    BY <1>3
  <2> QED
    BY <1>1, <2>1
<1> QED
  BY <1>2, <1>3

LEMMA LoadUnique ==
  ASSUME NEW f, NEW g, NEW s, NEW t, NEW m \in Nat, NEW n \in Nat, m <= n,
         LoadedUpTo(f, s, m), LoadedUpTo(g, t, n),
         \A i \in 1..m : s[i] = t[i]
  PROVE  f[m] = g[m]
<1> DEFINE T == {k \in Nat : k <= m => f[k] = g[k]}
<1>1. 0 \in T
  <2>1. f[0] = <<>> /\ g[0] = <<>>
    BY LoadStep
  <2> QED
    BY <2>1
<1>2. ASSUME NEW k \in T PROVE k + 1 \in T
  <2> SUFFICES ASSUME k + 1 <= m PROVE f[k + 1] = g[k + 1]
    OBVIOUS
  <2>1. f[k] = g[k] /\ s[k + 1] = t[k + 1]
    OBVIOUS
  <2>2. f[k + 1] = IF s[k + 1] = <<Empty>> THEN f[k] ELSE Append(f[k], s[k + 1])
    BY LoadStep
  <2>3. g[k + 1] = IF t[k + 1] = <<Empty>> THEN g[k] ELSE Append(g[k], t[k + 1])
    BY LoadStep, k + 1 <= n
  <2> QED
    BY <2>1, <2>2, <2>3
<1> HIDE DEF T
<1>3. T = Nat
  BY <1>1, <1>2, EveryNatural DEF T
<1> QED
  BY <1>3 DEF T

LEMMA LoadedEmpty == Loaded(<<>>) = <<>>
<1>1. PICK f : LoadedUpTo(f, <<>>, 0) /\ Loaded(<<>>) = f[0]
  BY LoadedByLoad
<1> QED
  BY <1>1 DEF LoadedUpTo

LEMMA LoadedAppend ==
  ASSUME NEW S, NEW s \in Seq(S), NEW x \in S
  PROVE  Loaded(Append(s, x)) = IF x = <<Empty>> THEN Loaded(s)
                                ELSE Append(Loaded(s), x)
<1> DEFINE t == Append(s, x)
           n == Len(s)
<1>1. /\ n \in Nat /\ Len(t) = n + 1 /\ t[n + 1] = x
      /\ \A i \in 1..n : s[i] = t[i]
  OBVIOUS
<1> HIDE DEF t
<1>2. PICK f : LoadedUpTo(f, s, n) /\ Loaded(s) = f[n]
  BY LoadedByLoad, <1>1
<1>3. PICK g : LoadedUpTo(g, t, n + 1) /\ Loaded(t) = g[n + 1]
  BY LoadedByLoad, <1>1
<1> HIDE DEF n
<1>4. f[n] = g[n]
  BY <1>1, <1>2, <1>3, LoadUnique, n <= n + 1, n + 1 \in Nat
<1>5. g[n + 1] = IF t[n + 1] = <<Empty>> THEN g[n] ELSE Append(g[n], t[n + 1])
  <2>1. \A k \in Nat : k + 1 <= n + 1 =>
          g[k + 1] = IF t[k + 1] = <<Empty>> THEN g[k] ELSE Append(g[k], t[k + 1])
    <3>1. n + 1 \in Nat
      BY <1>1
    <3> QED
      BY <1>3, <3>1, LoadStep
  <2>2. n \in Nat /\ n + 1 <= n + 1
    BY <1>1
  <2> QED
    BY <2>1, <2>2, Zenon
<1>6. Loaded(t) = IF x = <<Empty>> THEN Loaded(s) ELSE Append(Loaded(s), x)
  BY <1>1, <1>2, <1>3, <1>4, <1>5
<1> QED
  BY <1>6 DEF t

(* The loaded entries are entries, and loading them again changes nothing. *)
LEMMA LoadedAgain ==
  ASSUME NEW S, NEW s \in Seq(S)
  PROVE  Loaded(s) \in Seq(S) /\ Loaded(Loaded(s)) = Loaded(s)
<1>1. PICK f : LoadedUpTo(f, s, Len(s)) /\ Loaded(s) = f[Len(s)]
  BY LoadedByLoad
<1> DEFINE T == {k \in Nat : k <= Len(s) => f[k] \in Seq(S) /\ Loaded(f[k]) = f[k]}
<1>2. 0 \in T
  <2>1. f[0] = <<>>
    BY <1>1, LoadStep
  <2>2. f[0] \in Seq(S) /\ Loaded(f[0]) = f[0]
    BY <2>1, LoadedEmpty
  <2> QED
    BY <2>2
<1>3. ASSUME NEW k \in T PROVE k + 1 \in T
  <2> SUFFICES ASSUME k + 1 <= Len(s)
               PROVE  f[k + 1] \in Seq(S) /\ Loaded(f[k + 1]) = f[k + 1]
    OBVIOUS
  <2>1. f[k] \in Seq(S) /\ Loaded(f[k]) = f[k] /\ s[k + 1] \in S
    OBVIOUS
  <2>2. f[k + 1] = IF s[k + 1] = <<Empty>> THEN f[k] ELSE Append(f[k], s[k + 1])
    BY <1>1, LoadStep
  <2>3. CASE s[k + 1] = <<Empty>>
    BY <2>1, <2>2, <2>3
  <2>4. CASE s[k + 1] # <<Empty>>
    <3>1. Loaded(Append(f[k], s[k + 1])) = Append(Loaded(f[k]), s[k + 1])
      BY <2>1, <2>4, LoadedAppend
    <3>2. f[k + 1] = Append(f[k], s[k + 1])
      BY <2>2, <2>4
    <3>3. Append(f[k], s[k + 1]) \in Seq(S)
      BY <2>1
    <3> QED
      BY <2>1, <3>1, <3>2, <3>3
  <2> QED
    BY <2>3, <2>4
<1> HIDE DEF T
<1>4. T = Nat
  BY <1>2, <1>3, EveryNatural DEF T
<1> QED
  BY <1>1, <1>4 DEF T

LEMMA Shorter ==
  ASSUME NEW S, NEW s \in Seq(S), s # <<>>
  PROVE  \E r \in Seq(S), a \in S : s = Append(r, a) /\ Len(s) = Len(r) + 1
BY SequenceEmptyOrAppend, AppendProperties

LEMMA AppendExcept ==
  ASSUME NEW S, NEW r \in Seq(S), NEW a \in S, NEW x \in S, NEW k \in 1..(Len(r) + 1)
  PROVE  IF k = Len(r) + 1
         THEN Append(r, a)[k] = a /\ [Append(r, a) EXCEPT ![k] = x] = Append(r, x)
         ELSE /\ k \in 1..Len(r) /\ Append(r, a)[k] = r[k]
              /\ [Append(r, a) EXCEPT ![k] = x] = Append([r EXCEPT ![k] = x], a)
              /\ [r EXCEPT ![k] = x] \in Seq(S)
<1> DEFINE u == Append(r, a)
<1>1. /\ Len(r) \in Nat /\ u \in Seq(S) /\ Len(u) = Len(r) + 1
      /\ \A i \in 1..Len(r) : u[i] = r[i]
      /\ u[Len(r) + 1] = a
  BY AppendProperties
<1> HIDE DEF u
<1> DEFINE v == [u EXCEPT ![k] = x]
<1>2. /\ v \in Seq(S) /\ Len(v) = Len(r) + 1
      /\ \A i \in 1..(Len(r) + 1) : v[i] = IF i = k THEN x ELSE u[i]
  BY <1>1, ExceptSeq
<1> HIDE DEF v
<1>3. CASE k = Len(r) + 1
  <2> DEFINE w == Append(r, x)
  <2>1. /\ w \in Seq(S) /\ Len(w) = Len(r) + 1
        /\ \A i \in 1..Len(r) : w[i] = r[i]
        /\ w[Len(r) + 1] = x
    BY AppendProperties
  <2> HIDE DEF w
  <2>2. ASSUME NEW i \in 1..Len(v) PROVE v[i] = w[i]
    <3>1. CASE i = Len(r) + 1
      BY <1>2, <1>3, <2>1, <3>1
    <3>2. CASE i # Len(r) + 1
      <4>1. i \in 1..Len(r) /\ i \in 1..(Len(r) + 1) /\ i # k
        BY <1>1, <1>2, <1>3, <3>2
      <4> QED
        BY <1>1, <1>2, <2>1, <4>1
    <3> QED
      BY <3>1, <3>2
  <2>3. v = w
    BY <1>2, <2>1, <2>2, SeqEqual
  <2> QED
    BY <1>1, <1>3, <2>3 DEF u, v, w
<1>4. CASE k # Len(r) + 1
  <2>1. k \in 1..Len(r)
    BY <1>1, <1>4
  <2> DEFINE q == [r EXCEPT ![k] = x]
             w == Append(q, a)
  <2>2. /\ q \in Seq(S) /\ Len(q) = Len(r)
        /\ \A i \in 1..Len(r) : q[i] = IF i = k THEN x ELSE r[i]
    BY <2>1, ExceptSeq
  <2> HIDE DEF q
  <2>3. /\ w \in Seq(S) /\ Len(w) = Len(r) + 1
        /\ \A i \in 1..Len(r) : w[i] = q[i]
        /\ w[Len(r) + 1] = a
    BY <2>2, AppendProperties
  <2> HIDE DEF w
  <2>4. ASSUME NEW i \in 1..Len(v) PROVE v[i] = w[i]
    <3>1. CASE i = Len(r) + 1
      BY <1>1, <1>2, <1>4, <2>3, <3>1
    <3>2. CASE i # Len(r) + 1
      <4>1. i \in 1..Len(r) /\ i \in 1..(Len(r) + 1)
        BY <1>1, <1>2, <3>2
      <4> QED
        BY <1>1, <1>2, <2>2, <2>3, <4>1
    <3> QED
      BY <3>1, <3>2
  <2>5. v = w
    BY <1>2, <2>3, <2>4, SeqEqual
  <2> QED
    BY <1>1, <1>4, <2>1, <2>2, <2>5 DEF u, v, w, q
<1> QED
  BY <1>3, <1>4

(* Where two sequences load alike, an entry of one that is loaded has its  *)
(* counterpart in the other, and they still load alike when both are       *)
(* replaced by the same.                                                   *)
Counterpart(s, t, k, x) ==
  \E j \in 1..Len(t) :
    /\ t[j] = s[k]
    /\ Loaded([s EXCEPT ![k] = x]) = Loaded([t EXCEPT ![j] = x])

LEMMA CounterpartStep ==
  ASSUME NEW S, NEW x \in S, NEW m \in Nat,
         \A s, t \in Seq(S) : Len(s) + Len(t) <= m /\ Loaded(s) = Loaded(t) =>
           \A k \in 1..Len(s) : s[k] # <<Empty>> => Counterpart(s, t, k, x),
         NEW s \in Seq(S), NEW t \in Seq(S), Len(s) + Len(t) <= m + 1,
         Loaded(s) = Loaded(t), NEW k \in 1..Len(s), s[k] # <<Empty>>
  PROVE  Counterpart(s, t, k, x)
<1>1. s # <<>> /\ Len(s) \in Nat /\ Len(t) \in Nat
  BY EmptySeq
<1>2. PICK r \in Seq(S), a \in S : s = Append(r, a) /\ Len(s) = Len(r) + 1
  BY <1>1, Shorter
<1>3. Len(r) \in Nat /\ Loaded(s) = IF a = <<Empty>> THEN Loaded(r) ELSE Append(Loaded(r), a)
  BY <1>2, LoadedAppend
<1>4. IF k = Len(r) + 1
      THEN s[k] = a /\ [s EXCEPT ![k] = x] = Append(r, x)
      ELSE /\ k \in 1..Len(r) /\ s[k] = r[k]
           /\ [s EXCEPT ![k] = x] = Append([r EXCEPT ![k] = x], a)
           /\ [r EXCEPT ![k] = x] \in Seq(S)
  BY <1>2, AppendExcept
<1>5. CASE a = <<Empty>>
  <2>1. k # Len(r) + 1
    BY <1>4, <1>5
  <2>2. Len(r) + Len(t) <= m /\ Loaded(r) = Loaded(t)
    BY <1>1, <1>2, <1>3, <1>5
  <2>3. Counterpart(r, t, k, x)
    BY <1>4, <2>1, <2>2
  <2>4. Loaded([s EXCEPT ![k] = x]) = Loaded([r EXCEPT ![k] = x])
    BY <1>4, <1>5, <2>1, LoadedAppend
  <2> QED
    BY <1>4, <2>1, <2>3, <2>4 DEF Counterpart
<1>6. CASE a # <<Empty>>
  <2>1. Loaded(r) \in Seq(S) /\ Loaded(s) = Append(Loaded(r), a)
    BY <1>3, <1>6, LoadedAgain
  <2>2. t # <<>>
    <3>1. Append(Loaded(r), a) # <<>>
      BY <2>1
    <3> QED
      BY <2>1, <3>1, LoadedEmpty
  <2>3. PICK q \in Seq(S), b \in S : t = Append(q, b) /\ Len(t) = Len(q) + 1
    BY <2>2, Shorter
  <2>4. Len(q) \in Nat /\ Loaded(t) = IF b = <<Empty>> THEN Loaded(q) ELSE Append(Loaded(q), b)
    BY <2>3, LoadedAppend
  <2>5. ASSUME NEW j \in 1..Len(q)
        PROVE  /\ j \in 1..Len(t) /\ t[j] = q[j]
               /\ [t EXCEPT ![j] = x] = Append([q EXCEPT ![j] = x], b)
               /\ [q EXCEPT ![j] = x] \in Seq(S)
    <3>1. j \in 1..(Len(q) + 1) /\ j # Len(q) + 1
      BY <2>4
    <3> QED
      BY <2>3, <3>1, AppendExcept
  <2>6. CASE b = <<Empty>>
    <3>1. Len(s) + Len(q) <= m /\ Loaded(s) = Loaded(q)
      BY <1>1, <2>3, <2>4, <2>6
    <3>2. PICK j \in 1..Len(q) :
            /\ q[j] = s[k]
            /\ Loaded([s EXCEPT ![k] = x]) = Loaded([q EXCEPT ![j] = x])
      BY <3>1 DEF Counterpart
    <3>3. Loaded([t EXCEPT ![j] = x]) = Loaded([q EXCEPT ![j] = x])
      BY <2>5, <2>6, LoadedAppend
    <3> QED
      BY <2>5, <3>2, <3>3 DEF Counterpart
  <2>7. CASE b # <<Empty>>
    <3>1. Loaded(q) \in Seq(S) /\ Append(Loaded(r), a) = Append(Loaded(q), b)
      BY <2>1, <2>4, <2>7, LoadedAgain
    <3>2. Loaded(r) = Loaded(q) /\ a = b
      BY <2>1, <3>1, AppendInjective
    <3>3. CASE k = Len(r) + 1
      <4>1. /\ Len(t) \in 1..Len(t) /\ t[Len(t)] = b
            /\ [t EXCEPT ![Len(t)] = x] = Append(q, x)
        <5> DEFINE n == Len(q) + 1
        <5>1. Len(t) = n /\ n \in 1..n
          BY <2>3, <2>4
        <5>2. Append(q, b)[n] = b /\ [Append(q, b) EXCEPT ![n] = x] = Append(q, x)
          BY <5>1, AppendExcept
        <5> QED
          BY <2>3, <5>1, <5>2
      <4>2. Loaded(Append(r, x)) = Loaded(Append(q, x))
        <5>1. Loaded(Append(r, x)) = IF x = <<Empty>> THEN Loaded(r) ELSE Append(Loaded(r), x)
          BY LoadedAppend
        <5>2. Loaded(Append(q, x)) = IF x = <<Empty>> THEN Loaded(q) ELSE Append(Loaded(q), x)
          BY LoadedAppend
        <5> QED
          BY <3>2, <5>1, <5>2
      <4> QED
        BY <1>4, <3>2, <3>3, <4>1, <4>2 DEF Counterpart
    <3>4. CASE k # Len(r) + 1
      <4>1. Len(r) + Len(q) <= m
        BY <1>2, <1>3, <2>3, <2>4
      <4>2. PICK j \in 1..Len(q) :
              /\ q[j] = r[k]
              /\ Loaded([r EXCEPT ![k] = x]) = Loaded([q EXCEPT ![j] = x])
        BY <1>4, <3>2, <3>4, <4>1 DEF Counterpart
      <4>3. Loaded([s EXCEPT ![k] = x]) = Append(Loaded([r EXCEPT ![k] = x]), a)
        BY <1>4, <1>6, <3>4, LoadedAppend
      <4>4. Loaded([t EXCEPT ![j] = x]) = Append(Loaded([q EXCEPT ![j] = x]), b)
        <5> DEFINE q2 == [q EXCEPT ![j] = x]
        <5>1. q2 \in Seq(S) /\ [t EXCEPT ![j] = x] = Append(q2, b)
          BY <2>5
        <5> HIDE DEF q2
        <5>2. Loaded(Append(q2, b)) = Append(Loaded(q2), b)
          BY <2>7, <5>1, LoadedAppend
        <5> QED
          BY <5>1, <5>2 DEF q2
      <4> QED
        BY <1>4, <2>5, <3>2, <3>4, <4>2, <4>3, <4>4 DEF Counterpart
    <3> QED
      BY <3>3, <3>4
  <2> QED
    BY <2>6, <2>7
<1> QED
  BY <1>5, <1>6

LEMMA LoadedReplaced ==
  ASSUME NEW S, NEW s \in Seq(S), NEW t \in Seq(S), Loaded(s) = Loaded(t),
         NEW k \in 1..Len(s), s[k] # <<Empty>>, NEW x \in S
  PROVE  Counterpart(s, t, k, x)
<1> DEFINE T == {m \in Nat :
             \A u, v \in Seq(S) : Len(u) + Len(v) <= m /\ Loaded(u) = Loaded(v) =>
               \A i \in 1..Len(u) : u[i] # <<Empty>> => Counterpart(u, v, i, x)}
<1>1. 0 \in T
  <2>1. ASSUME NEW u \in Seq(S), NEW v \in Seq(S), Len(u) + Len(v) <= 0, NEW i \in 1..Len(u)
        PROVE  FALSE
    BY <2>1
  <2> QED
    BY <2>1
<1>2. ASSUME NEW m \in T PROVE m + 1 \in T
  <2>1. m \in Nat /\ \A u, v \in Seq(S) : Len(u) + Len(v) <= m /\ Loaded(u) = Loaded(v) =>
          \A i \in 1..Len(u) : u[i] # <<Empty>> => Counterpart(u, v, i, x)
    OBVIOUS
  <2>2. ASSUME NEW u \in Seq(S), NEW v \in Seq(S), Len(u) + Len(v) <= m + 1,
               Loaded(u) = Loaded(v), NEW i \in 1..Len(u), u[i] # <<Empty>>
        PROVE  Counterpart(u, v, i, x)
    BY <2>1, <2>2, CounterpartStep, Zenon
  <2> QED
    BY <2>1, <2>2
<1> HIDE DEF T
<1>3. T = Nat
  BY <1>1, <1>2, EveryNatural DEF T
<1>4. Len(s) + Len(t) \in T /\ Len(s) + Len(t) <= Len(s) + Len(t)
  BY <1>3
<1> QED
  BY <1>4 DEF T

(***************************************************************************)
(* Texts.                                                                  *)
(***************************************************************************)
LEMMA SeqOfMeans ==
  ASSUME NEW S, NEW n \in Nat, NEW s
  PROVE  s \in SeqOf(S, n) <=> s \in Seq(S) /\ Len(s) <= n
<1>1. ASSUME s \in SeqOf(S, n) PROVE s \in Seq(S) /\ Len(s) <= n
  <2>1. PICK m \in 0..n : s \in [1..m -> S]
    BY <1>1 DEF SeqOf
  <2> QED
    BY <2>1
<1>2. ASSUME s \in Seq(S), Len(s) <= n PROVE s \in SeqOf(S, n)
  <2>1. Len(s) \in 0..n /\ s \in [1..Len(s) -> S]
    BY <1>2
  <2> QED
    BY <2>1 DEF SeqOf
<1> QED
  BY <1>1, <1>2

LEMMA EmptyInSeqOf ==
  ASSUME NEW S, NEW n \in Nat
  PROVE  <<>> \in SeqOf(S, n)
<1>1. <<>> \in Seq(S) /\ Len(<<>>) = 0
  BY EmptySeq
<1>2. Len(<<>>) <= n
  BY <1>1
<1> QED
  BY <1>1, <1>2, SeqOfMeans, Zenon

LEMMA Bounds ==
  MaxPrograms \in Nat /\ MaxLines \in Nat \ {0} /\ MaxStarts \in Nat \ {0}
    /\ Empty \in Line
BY ConsoleAssumption DEF Empty

LEMMA TextMeans ==
  ASSUME NEW text
  PROVE  text \in Text <=> text \in Seq(Line) /\ Len(text) \in 1..MaxLines
<1>1. text \in Text <=> text \in Seq(Line) /\ Len(text) <= MaxLines /\ text # <<>>
  BY SeqOfMeans, Bounds DEF Text
<1>2. text \in Seq(Line) => (text # <<>> <=> Len(text) # 0) /\ Len(text) \in Nat
  BY EmptySeq
<1> QED
  BY <1>1, <1>2, Bounds

LEMMA OneLine ==
  ASSUME NEW line \in Line
  PROVE  <<line>> \in Text /\ Len(<<line>>) = 1 /\ <<line>>[1] = line
<1>1. <<line>> \in Seq(Line) /\ Len(<<line>>) = 1 /\ <<line>>[1] = line
  OBVIOUS
<1>2. 1 \in 1..MaxLines
  BY Bounds
<1> QED
  BY <1>1, <1>2, TextMeans

LEMMA SplitIsText ==
  ASSUME NEW text \in Text
  PROVE  Split(text) \in Text
<1>1. text \in Seq(Line) /\ Len(text) \in 1..MaxLines
  BY TextMeans
<1>2. ASSUME Len(text) > 1 PROVE Front(text) \in Text
  <2>1. Front(text) \in Seq(Line) /\ Len(Front(text)) = Len(text) - 1
    BY <1>1, <1>2 DEF Front
  <2> QED
    BY <1>1, <1>2, <2>1, TextMeans, Bounds
<1> QED
  BY <1>2 DEF Split

Recalled == [lines : Text, place : 1..MaxLines]

LEMMA RecalledMeans ==
  ASSUME recalled \in SeqOf(Recalled, 1)
  PROVE  /\ recalled = <<>> => DOMAIN recalled = {}
         /\ recalled # <<>> => DOMAIN recalled = {1} /\ recalled[1] \in Recalled
<1>1. recalled \in Seq(Recalled) /\ Len(recalled) <= 1
  BY SeqOfMeans
<1>2. DOMAIN recalled = 1..Len(recalled) /\ Len(recalled) \in Nat
  BY <1>1
<1>3. recalled = <<>> => Len(recalled) = 0
  BY EmptySeq
<1>4. recalled # <<>> => Len(recalled) = 1
  BY <1>1, <1>2, EmptySeq
<1>5. recalled # <<>> => recalled[1] \in Recalled
  BY <1>1, <1>4
<1> QED
  BY <1>2, <1>3, <1>4, <1>5

(***************************************************************************)
(* The inductive invariant.  What is shown is the line in the editor and   *)
(* around it the other lines of the recalled text; what is kept are the    *)
(* programs, in the list while the process lives and in the file, but for  *)
(* the moment in which it is being written.  readline() can only replace   *)
(* the entry that it stands at, and what it puts there is the entry        *)
(* itself, or that is a text of several lines which was edited.            *)
(***************************************************************************)
Shown ==
  state = "reading" /\ recalled # <<>> =>
    recalled[1] = IF Recalling THEN [lines |-> Lines, place |-> g_ml_index + 1]
                               ELSE [lines |-> <<rl_line_buffer>>, place |-> 1]

KeptAs(entries, programs, texts) ==
  \E kept \in Seq(Text) :
    /\ Len(kept) = Len(programs)
    /\ \A i \in 1..Len(programs) :
         kept[i] = programs[i] \/ (programs[i] \in texts /\ Len(kept[i]) = 1)
    /\ Loaded(entries) = Loaded(kept)

Kept ==
  ~torn =>
    /\ KeptAs(history, ran, edited)
    /\ state # "opened" => KeptAs(file, ran, edited)

Entry == history[history_offset + 1]

Standing ==
  /\ state \in {"opened", "running"} => ~Recalling
  /\ state = "reading" =>
       /\ Recalling => history_offset < Len(history) /\ Len(Entry) > 1
       /\ history_offset < Len(history) =>
            IF rl_undo_list = <<>>
            THEN Len(Entry) > 1 \/ Entry = <<rl_line_buffer>>
            ELSE Entry = rl_undo_list \/ (Len(Entry) > 1 /\ Entry \in edited)

ConsoleInv == TypeOK /\ RecalledLineExists /\ Shown /\ Standing /\ Kept

(***************************************************************************)
(* What is kept stays kept when a program is added, when more is edited,   *)
(* when the file is loaded, and when an edited entry becomes one line.     *)
(***************************************************************************)
LEMMA NothingKept ==
  ASSUME NEW texts
  PROVE  KeptAs(<<>>, <<>>, texts)
<1>1. <<>> \in Seq(Text) /\ Len(<<>>) = 0
  BY EmptySeq
<1> QED
  BY <1>1 DEF KeptAs

LEMMA KeptAppend ==
  ASSUME NEW entries \in Seq(Text), NEW programs \in Seq(Text), NEW text \in Text,
         NEW texts, KeptAs(entries, programs, texts)
  PROVE  KeptAs(Append(entries, text), Append(programs, text), texts)
<1>1. PICK kept \in Seq(Text) :
        /\ Len(kept) = Len(programs)
        /\ \A i \in 1..Len(programs) :
             kept[i] = programs[i] \/ (programs[i] \in texts /\ Len(kept[i]) = 1)
        /\ Loaded(entries) = Loaded(kept)
  BY DEF KeptAs
<1>2. Loaded(Append(entries, text)) = Loaded(Append(kept, text))
  <2>1. Loaded(Append(entries, text)) =
          IF text = <<Empty>> THEN Loaded(entries) ELSE Append(Loaded(entries), text)
    BY LoadedAppend
  <2>2. Loaded(Append(kept, text)) =
          IF text = <<Empty>> THEN Loaded(kept) ELSE Append(Loaded(kept), text)
    BY LoadedAppend
  <2> QED
    BY <1>1, <2>1, <2>2
<1> DEFINE more == Append(kept, text)
           now == Append(programs, text)
<1>3. /\ more \in Seq(Text) /\ Len(more) = Len(programs) + 1
      /\ \A i \in 1..Len(programs) : more[i] = kept[i]
      /\ more[Len(programs) + 1] = text
  BY <1>1, AppendProperties
<1>4. /\ Len(programs) \in Nat /\ Len(now) = Len(programs) + 1
      /\ \A i \in 1..Len(programs) : now[i] = programs[i]
      /\ now[Len(programs) + 1] = text
  BY AppendProperties
<1> HIDE DEF more, now
<1>5. ASSUME NEW i \in 1..Len(now)
      PROVE  more[i] = now[i] \/ (now[i] \in texts /\ Len(more[i]) = 1)
  <2>1. CASE i = Len(programs) + 1
    BY <1>3, <1>4, <2>1
  <2>2. CASE i \in 1..Len(programs)
    BY <1>1, <1>3, <1>4, <2>2
  <2> QED
    BY <1>4, <2>1, <2>2
<1>6. KeptAs(Append(entries, text), now, texts)
  BY <1>2, <1>3, <1>4, <1>5 DEF KeptAs, more
<1> QED
  BY <1>6 DEF now

LEMMA KeptMore ==
  ASSUME NEW entries, NEW programs, NEW texts, NEW more, texts \subseteq more,
         KeptAs(entries, programs, texts)
  PROVE  KeptAs(entries, programs, more)
BY DEF KeptAs

LEMMA KeptReloaded ==
  ASSUME NEW entries \in Seq(Text), NEW programs, NEW texts,
         KeptAs(entries, programs, texts)
  PROVE  KeptAs(Loaded(entries), programs, texts)
BY LoadedAgain DEF KeptAs

LEMMA KeptReplaced ==
  ASSUME NEW entries \in Seq(Text), NEW programs \in Seq(Text), NEW texts,
         KeptAs(entries, programs, texts),
         NEW k \in 1..Len(entries), Len(entries[k]) > 1, entries[k] \in texts,
         NEW text \in Text, Len(text) = 1
  PROVE  KeptAs([entries EXCEPT ![k] = text], programs, texts)
<1>1. PICK kept \in Seq(Text) :
        /\ Len(kept) = Len(programs)
        /\ \A i \in 1..Len(programs) :
             kept[i] = programs[i] \/ (programs[i] \in texts /\ Len(kept[i]) = 1)
        /\ Loaded(entries) = Loaded(kept)
  BY DEF KeptAs
<1>2. entries[k] # <<Empty>> /\ Len(entries[k]) # 1
  <2>1. Len(<<Empty>>) = 1
    OBVIOUS
  <2>2. Len(entries[k]) # 1
    <3>1. entries[k] \in Text
      OBVIOUS
    <3>2. Len(entries[k]) \in 1..MaxLines
      BY <3>1, TextMeans
    <3>3. \A n \in 1..MaxLines : n > 1 => n # 1
      BY Bounds
    <3> QED
      BY <3>2, <3>3, Zenon
  <2> QED
    BY <2>1, <2>2
<1>3. PICK j \in 1..Len(kept) :
        /\ kept[j] = entries[k]
        /\ Loaded([entries EXCEPT ![k] = text]) = Loaded([kept EXCEPT ![j] = text])
  <2>1. Counterpart(entries, kept, k, text)
    BY <1>1, <1>2, LoadedReplaced
  <2> QED
    BY <2>1 DEF Counterpart
<1>4. programs[j] \in texts
  BY <1>1, <1>2, <1>3
<1> DEFINE left == [kept EXCEPT ![j] = text]
<1>5. /\ left \in Seq(Text) /\ Len(left) = Len(programs)
      /\ \A i \in 1..Len(programs) : left[i] = IF i = j THEN text ELSE kept[i]
  BY <1>1, ExceptSeq
<1>6. Loaded([entries EXCEPT ![k] = text]) = Loaded(left)
  BY <1>3
<1> HIDE DEF left
<1>7. ASSUME NEW i \in 1..Len(programs)
      PROVE  left[i] = programs[i] \/ (programs[i] \in texts /\ Len(left[i]) = 1)
  BY <1>1, <1>4, <1>5
<1> QED
  BY <1>5, <1>6, <1>7 DEF KeptAs

(* A line to go back to is a text of one line. *)
LEMMA UndoIsText ==
  ASSUME TypeOK, rl_undo_list # <<>>
  PROVE  /\ rl_undo_list \in Text /\ Len(rl_undo_list) = 1
         /\ rl_undo_list[1] \in Line /\ rl_undo_list = <<rl_undo_list[1]>>
<1>1. rl_undo_list \in Seq(Line) /\ Len(rl_undo_list) <= 1
  BY SeqOfMeans DEF TypeOK
<1>2. Len(rl_undo_list) = 1
  <2>1. Len(rl_undo_list) \in Nat /\ Len(rl_undo_list) # 0
    BY <1>1, EmptySeq
  <2>2. \A n \in Nat : n <= 1 /\ n # 0 => n = 1
    OBVIOUS
  <2> QED
    BY <1>1, <2>1, <2>2, Zenon
<1>3. rl_undo_list[1] \in Line /\ rl_undo_list = <<rl_undo_list[1]>>
  BY <1>1, <1>2
<1>4. 1 \in 1..MaxLines
  BY Bounds
<1> QED
  BY <1>1, <1>2, <1>3, <1>4, TextMeans

LEMMA OneUndo ==
  ASSUME NEW line \in Line
  PROVE  <<line>> \in SeqOf(Line, 1) /\ <<line>> # <<>>
<1>1. <<line>> \in Seq(Line) /\ Len(<<line>>) = 1 /\ <<line>> # <<>>
  OBVIOUS
<1>2. Len(<<line>>) <= 1 /\ 1 \in Nat
  BY <1>1
<1> QED
  BY <1>1, <1>2, SeqOfMeans, Zenon

(* What is put back where it was taken from changes nothing. *)
LEMMA PutBack ==
  ASSUME NEW S, NEW s \in Seq(S), NEW k \in 1..Len(s)
  PROVE  [s EXCEPT ![k] = s[k]] = s
OBVIOUS

(* Whatever was edited before Enter or the end, the programs are kept. *)
LEMMA ReturnedKeeps ==
  ASSUME ConsoleInv, state = "reading"
  PROVE  /\ Returned \in Seq(Text) /\ Len(Returned) = Len(history)
         /\ ~torn => KeptAs(Returned, ran, edited)
<1>1. /\ history \in Seq(Text) /\ ran \in Seq(Text)
      /\ history_offset \in 0..Len(history) /\ Len(history) \in Nat
  BY DEF ConsoleInv, TypeOK
<1>2. ~torn => KeptAs(history, ran, edited)
  BY DEF ConsoleInv, Kept
<1> DEFINE k == history_offset + 1
<1>3. CASE rl_undo_list # <<>> /\ history_offset < Len(history)
  <2>1. k \in 1..Len(history) /\ Current = {k}
    BY <1>1, <1>3 DEF Current
  <2>2. rl_undo_list \in Text /\ Len(rl_undo_list) = 1
    BY <1>3, UndoIsText DEF ConsoleInv
  <2>3. Entry = rl_undo_list \/ (Len(Entry) > 1 /\ Entry \in edited)
    BY <1>3 DEF ConsoleInv, Standing
  <2>4. DOMAIN history = 1..Len(history)
    BY <1>1
  <2>5. Returned = [history EXCEPT ![k] = rl_undo_list]
    <3>1. Returned = [i \in DOMAIN history |-> IF i = k THEN rl_undo_list ELSE history[i]]
      BY <1>3, <2>1 DEF Returned
    <3> QED
      BY <2>1, <2>4, <3>1
  <2>6. Returned \in Seq(Text) /\ Len(Returned) = Len(history)
    BY <1>1, <2>1, <2>2, <2>5, ExceptSeq
  <2>7. CASE Entry = rl_undo_list
    <3>1. Returned = history
      BY <1>1, <2>1, <2>5, <2>7, PutBack DEF Entry
    <3> QED
      BY <1>2, <2>6, <3>1
  <2>8. CASE Len(Entry) > 1 /\ Entry \in edited
    <3> SUFFICES ASSUME ~torn PROVE KeptAs(Returned, ran, edited)
      BY <2>6
    <3>1. KeptAs([history EXCEPT ![k] = rl_undo_list], ran, edited)
      BY <1>1, <1>2, <2>1, <2>2, <2>8, KeptReplaced DEF Entry
    <3> QED
      BY <2>5, <3>1
  <2> QED
    BY <2>3, <2>7, <2>8
<1>4. CASE ~(rl_undo_list # <<>> /\ history_offset < Len(history))
  <2>1. Returned = [i \in DOMAIN history |-> history[i]]
    <3>1. rl_undo_list = <<>> \/ Current = {}
      BY <1>1, <1>4 DEF Current
    <3> QED
      BY <3>1 DEF Returned
  <2>2. Returned = history
    BY <1>1, <2>1
  <2> QED
    BY <1>1, <1>2, <2>2
<1> QED
  BY <1>3, <1>4

LEMMA InvStart == Init => ConsoleInv
<1> SUFFICES ASSUME Init PROVE ConsoleInv
  OBVIOUS
<1>1. TypeOK
  <2>1. <<>> \in SeqOf(Line, MaxLines) /\ <<>> \in SeqOf(Recalled, 1)
    BY EmptyInSeqOf, Bounds
  <2>2. <<Empty>> \in Text
    BY OneLine, Bounds
  <2>3. {file, history, ran} \subseteq Seq(Text) /\ history_offset \in 0..Len(history)
    BY EmptySeq DEF Init
  <2>4. g_ml_index \in -1..(MaxLines - 1) /\ starts \in 1..MaxStarts
    BY Bounds DEF Init
  <2>5. <<>> \in SeqOf(Line, 1)
    BY EmptyInSeqOf
  <2> QED
    BY <2>1, <2>2, <2>3, <2>4, <2>5, Bounds DEF Init, TypeOK, Recalled
<1>2. RecalledLineExists /\ Shown /\ Kept /\ Standing
  <2>1. Len(<<>>) = 0
    BY EmptySeq
  <2> QED
    BY <2>1, NothingKept
       DEF Init, RecalledLineExists, Shown, Kept, Standing, Recalling
<1> QED
  BY <1>1, <1>2 DEF ConsoleInv

LEMMA LinesKnown ==
  ASSUME TypeOK
  PROVE  /\ g_ml_lines \in Seq(Line) /\ Len(g_ml_lines) \in 0..MaxLines
         /\ buffer \in Seq(Line) /\ Len(buffer) \in 0..MaxLines
BY SeqOfMeans, Bounds DEF TypeOK

(* The recalled lines with the one in the editor put back are a text. *)
LEMMA LinesAreText ==
  ASSUME TypeOK, RecalledLineExists, Recalling
  PROVE  /\ Lines \in Text /\ Lines \in SeqOf(Line, MaxLines)
         /\ Len(Lines) = Len(g_ml_lines)
<1>1. g_ml_index + 1 \in 1..Len(g_ml_lines) /\ rl_line_buffer \in Line
  BY DEF TypeOK, RecalledLineExists, Recalling
<1>2. Lines \in Seq(Line) /\ Len(Lines) = Len(g_ml_lines)
  BY <1>1, LinesKnown, ExceptSeq DEF Lines
<1> QED
  BY <1>1, <1>2, LinesKnown, TextMeans, SeqOfMeans, Bounds

(* A new line in the editor shows nothing that was recalled. *)
LEMMA NewLineShows ==
  ASSUME NewLine, history' \in Seq(Text)
  PROVE  /\ rl_line_buffer' \in Line /\ history_offset' \in 0..Len(history')
         /\ rl_undo_list' \in SeqOf(Line, 1)
         /\ recalled' = <<>> /\ recalled' \in SeqOf(Recalled, 1) /\ Shown'
         /\ ~Recalling' => Standing'
<1>1. rl_line_buffer' \in Line /\ history_offset' \in 0..Len(history') /\ recalled' = <<>>
  BY Bounds DEF NewLine
<1>2. <<>> \in SeqOf(Recalled, 1) /\ <<>> \in SeqOf(Line, 1)
  BY EmptyInSeqOf
<1>3. ~(history_offset' < Len(history'))
  BY DEF NewLine
<1> QED
  BY <1>1, <1>2, <1>3 DEF Shown, Standing, NewLine

(* To commit a text keeps it. *)
LEMMA CommitKeeps ==
  ASSUME ConsoleInv, NEW text \in Text, Commit(text), state = "reading"
  PROVE  /\ {file', history', ran'} \subseteq Seq(Text) /\ code' \in Text
         /\ history_offset \in 0..Len(history') /\ state' = "opened"
         /\ rl_undo_list' \in SeqOf(Line, 1) /\ edited' = edited
         /\ torn' = torn /\ starts' = starts /\ Kept'
         /\ ~Recalling' => Standing'
<1>1. ran \in Seq(Text) /\ history_offset \in 0..Len(history) /\ Len(history) \in Nat
  BY DEF ConsoleInv, TypeOK
<1>2. /\ file' = <<>> /\ history' = Append(Returned, text) /\ ran' = Append(ran, text)
      /\ rl_undo_list' = <<>> /\ torn' = torn /\ edited' = edited /\ state' = "opened"
  BY DEF Commit
<1>3. /\ Returned \in Seq(Text) /\ Len(Returned) = Len(history)
      /\ ~torn => KeptAs(Returned, ran, edited)
  BY ReturnedKeeps
<1>4. history' \in Seq(Text) /\ ran' \in Seq(Text) /\ Len(history') = Len(history) + 1
  BY <1>1, <1>2, <1>3
<1>5. Kept' /\ (~Recalling' => Standing')
  <2>1. ~torn => KeptAs(Append(Returned, text), Append(ran, text), edited)
    BY <1>1, <1>3, KeptAppend
  <2> QED
    BY <1>2, <2>1 DEF Kept, Standing
<1>6. file' \in Seq(Text) /\ rl_undo_list' \in SeqOf(Line, 1)
  BY <1>2, EmptySeq, EmptyInSeqOf
<1>7. history_offset \in 0..Len(history')
  BY <1>1, <1>4
<1> QED
  BY <1>2, <1>4, <1>5, <1>6, <1>7 DEF Commit

LEMMA SaveKeeps == ConsoleInv /\ Save => ConsoleInv'
<1> SUFFICES ASSUME ConsoleInv, Save PROVE ConsoleInv'
  OBVIOUS
<1>1. TypeOK'
  BY DEF ConsoleInv, TypeOK, Save, line_vars
<1>2. RecalledLineExists' /\ Shown' /\ Standing'
  BY DEF ConsoleInv, RecalledLineExists, Shown, Standing, Recalling, Save, line_vars
<1>3. Kept'
  BY DEF ConsoleInv, Kept, Save
<1> QED
  BY <1>1, <1>2, <1>3 DEF ConsoleInv

LEMMA ReturnKeeps == ConsoleInv /\ Return => ConsoleInv'
<1> SUFFICES ASSUME ConsoleInv, Return PROVE ConsoleInv'
  OBVIOUS
<1>1. /\ rl_line_buffer' \in Line /\ history_offset' \in 0..Len(history')
      /\ rl_undo_list' \in SeqOf(Line, 1)
      /\ recalled' \in SeqOf(Recalled, 1) /\ Shown' /\ Standing'
  BY NewLineShows DEF ConsoleInv, TypeOK, Standing, Return, Recalling
<1>2. TypeOK'
  BY <1>1 DEF ConsoleInv, TypeOK, Return, Recalled
<1>3. RecalledLineExists' /\ Kept'
  BY DEF ConsoleInv, RecalledLineExists, Kept, Return
<1> QED
  BY <1>1, <1>2, <1>3 DEF ConsoleInv

LEMMA ExitKeeps == ConsoleInv /\ Exit => ConsoleInv'
<1> SUFFICES ASSUME ConsoleInv, Exit PROVE ConsoleInv'
  OBVIOUS
<1>1. /\ Returned \in Seq(Text) /\ Len(Returned) = Len(history)
      /\ ~torn => KeptAs(Returned, ran, edited)
  BY ReturnedKeeps DEF Exit
<1>2. rl_undo_list' \in SeqOf(Line, 1)
  BY EmptyInSeqOf DEF Exit
<1>3. /\ {file', history'} \subseteq Seq(Text)
      /\ history_offset' \in 0..Len(history')
  BY <1>1 DEF ConsoleInv, TypeOK, Exit
<1>4. TypeOK'
  BY <1>2, <1>3 DEF ConsoleInv, TypeOK, Exit, line_vars
<1>5. RecalledLineExists' /\ Shown' /\ Standing'
  BY DEF ConsoleInv, RecalledLineExists, Shown, Standing, Exit, line_vars
<1>6. Kept'
  BY <1>1 DEF ConsoleInv, Kept, Exit
<1> QED
  BY <1>4, <1>5, <1>6 DEF ConsoleInv

LEMMA DieKeeps == ConsoleInv /\ Die => ConsoleInv'
<1> SUFFICES ASSUME ConsoleInv, Die PROVE ConsoleInv'
  OBVIOUS
<1>1. TypeOK'
  BY DEF ConsoleInv, TypeOK, Die, line_vars
<1>2. RecalledLineExists' /\ Shown' /\ Standing'
  BY DEF ConsoleInv, RecalledLineExists, Shown, Standing, Die, line_vars
<1>3. Kept'
  BY DEF ConsoleInv, Kept, Die, TypeOK
<1> QED
  BY <1>1, <1>2, <1>3 DEF ConsoleInv

(* The list of the next start is what the file holds, loaded once more. *)
LEMMA StartKeeps == ConsoleInv /\ Start => ConsoleInv'
<1> SUFFICES ASSUME ConsoleInv, Start PROVE ConsoleInv'
  OBVIOUS
<1>1. history' \in Seq(Text) /\ history' = Loaded(file) /\ file \in Seq(Text)
  BY LoadedAgain DEF ConsoleInv, TypeOK, Start
<1>2. /\ rl_line_buffer' \in Line /\ history_offset' \in 0..Len(history')
      /\ rl_undo_list' \in SeqOf(Line, 1)
      /\ recalled' \in SeqOf(Recalled, 1) /\ Shown' /\ Standing'
  BY <1>1, NewLineShows DEF Start, Recalling
<1>3. <<>> \in SeqOf(Line, MaxLines)
  BY EmptyInSeqOf, Bounds
<1>4. starts' \in 1..MaxStarts /\ -1 \in -1..(MaxLines - 1)
  BY Bounds DEF ConsoleInv, TypeOK, Start
<1>5. TypeOK'
  BY <1>1, <1>2, <1>3, <1>4 DEF ConsoleInv, TypeOK, Start, Recalled
<1>6. RecalledLineExists' /\ Kept'
  <2>1. ~torn => KeptAs(file, ran, edited) /\ KeptAs(Loaded(file), ran, edited)
    BY <1>1, KeptReloaded DEF ConsoleInv, Kept, Start
  <2> QED
    BY <1>1, <2>1 DEF RecalledLineExists, Kept, Start
<1> QED
  BY <1>2, <1>5, <1>6 DEF ConsoleInv

LEMMA ReplacedTwice ==
  ASSUME NEW S, NEW s \in Seq(S), NEW k \in 1..Len(s), NEW a \in S, NEW b \in S
  PROVE  [[s EXCEPT ![k] = a] EXCEPT ![k] = b] = [s EXCEPT ![k] = b]
OBVIOUS

LEMMA OneRecalled ==
  ASSUME NEW r \in Recalled, NEW f, f = [i \in {1} |-> r]
  PROVE  f \in SeqOf(Recalled, 1) /\ f[1] = r
<1>1. {1} = 1..1 /\ 1 \in 0..1
  OBVIOUS
<1>2. f \in [1..1 -> Recalled]
  BY <1>1
<1>3. f \in SeqOf(Recalled, 1)
  BY <1>1, <1>2 DEF SeqOf
<1> QED
  BY <1>3

LEMMA RecalledAlone ==
  ASSUME NEW r \in Recalled
  PROVE  <<r>> \in SeqOf(Recalled, 1) /\ <<r>>[1] = r
<1>1. <<r>> \in Seq(Recalled) /\ Len(<<r>>) = 1 /\ <<r>>[1] = r
  OBVIOUS
<1>2. Len(<<r>>) <= 1 /\ 1 \in Nat
  BY <1>1
<1> QED
  BY <1>1, <1>2, SeqOfMeans, Zenon

LEMMA NoneRecalled ==
  ASSUME NEW f, DOMAIN f = {}, f = [i \in {} |-> f[i]]
  PROVE  f \in SeqOf(Recalled, 1) /\ f = <<>>
<1>1. {} = 1..0 /\ 0 \in 0..1
  OBVIOUS
<1>2. f \in [1..0 -> Recalled]
  BY <1>1
<1>3. f \in SeqOf(Recalled, 1)
  BY <1>1, <1>2 DEF SeqOf
<1>4. f \in Seq(Recalled) /\ Len(f) = 0
  BY <1>2
<1> QED
  BY <1>3, <1>4, EmptySeq

(* What the line becomes is seen at its place in the recalled text. *)
LEMMA BecomesShows ==
  ASSUME NEW line \in Line, ConsoleInv, Becomes(line)
  PROVE  recalled' \in SeqOf(Recalled, 1) /\ Shown'
<1>1. recalled' = [i \in DOMAIN recalled |->
                     [recalled[i] EXCEPT !.lines[recalled[i].place] = line]]
  BY DEF Becomes
<1>2. recalled \in SeqOf(Recalled, 1)
  BY DEF ConsoleInv, TypeOK, Recalled
<1>3. recalled' \in SeqOf(Recalled, 1) /\ Shown'
  <2>1. CASE recalled = <<>>
    <3>1. DOMAIN recalled = {}
      BY <1>2, <2>1, RecalledMeans
    <3>2. DOMAIN recalled' = {} /\ recalled' = [i \in {} |-> recalled'[i]]
      BY <1>1, <3>1
    <3>3. recalled' \in SeqOf(Recalled, 1) /\ recalled' = <<>>
      BY <3>2, NoneRecalled
    <3> QED
      BY <3>3 DEF Shown
  <2>2. CASE recalled # <<>>
    <3> DEFINE old == recalled[1]
               new == [old EXCEPT !.lines[old.place] = line]
    <3>1. DOMAIN recalled = {1} /\ old \in Recalled
      BY <1>2, <2>2, RecalledMeans
    <3>2. recalled' = [i \in {1} |-> new]
      BY <1>1, <3>1
    <3>3. old = IF Recalling THEN [lines |-> Lines, place |-> g_ml_index + 1]
                ELSE [lines |-> <<rl_line_buffer>>, place |-> 1]
      BY <2>2 DEF ConsoleInv, Shown, Becomes
    <3>4. old.lines \in Text /\ old.place \in 1..MaxLines
      BY <3>1 DEF Recalled
    <3>5. new = [lines |-> [old.lines EXCEPT ![old.place] = line], place |-> old.place]
      BY <3>1 DEF Recalled
    <3>6. old.place \in 1..Len(old.lines)
      <4>1. CASE Recalling
        BY <3>3, <4>1, LinesAreText
           DEF ConsoleInv, RecalledLineExists, Recalling, TypeOK
      <4>2. CASE ~Recalling
        BY <3>3, <4>2
      <4> QED
        BY <4>1, <4>2
    <3>7. [old.lines EXCEPT ![old.place] = line] \in Text
      <4>1. old.lines \in Seq(Line) /\ Len(old.lines) \in 1..MaxLines
        BY <3>4, TextMeans
      <4>2. /\ [old.lines EXCEPT ![old.place] = line] \in Seq(Line)
            /\ Len([old.lines EXCEPT ![old.place] = line]) = Len(old.lines)
        BY <3>6, <4>1, ExceptSeq
      <4> QED
        BY <4>1, <4>2, TextMeans
    <3>8. new \in Recalled
      BY <3>4, <3>5, <3>7 DEF Recalled
    <3> HIDE DEF new
    <3>9. recalled' \in SeqOf(Recalled, 1) /\ recalled'[1] = new
      BY <3>2, <3>8, OneRecalled
    <3>10. rl_line_buffer' = line /\ g_ml_index' = g_ml_index /\ g_ml_lines' = g_ml_lines
      BY DEF Becomes
    <3>11. CASE Recalling
      <4>1. new = [lines |-> [Lines EXCEPT ![g_ml_index + 1] = line],
                   place |-> g_ml_index + 1]
        BY <3>3, <3>5, <3>11
      <4>2. g_ml_index + 1 \in 1..Len(g_ml_lines) /\ rl_line_buffer \in Line
        BY <3>11 DEF ConsoleInv, TypeOK, RecalledLineExists, Recalling
      <4>3. [Lines EXCEPT ![g_ml_index + 1] = line] = [g_ml_lines EXCEPT ![g_ml_index + 1] = line]
        BY <4>2, LinesKnown, ReplacedTwice DEF ConsoleInv, Lines
      <4>4. Lines' = [g_ml_lines EXCEPT ![g_ml_index + 1] = line]
        BY <3>10 DEF Lines
      <4>5. Recalling'
        BY <3>10, <3>11 DEF Recalling
      <4> QED
        BY <3>9, <3>10, <4>1, <4>3, <4>4, <4>5 DEF Shown
    <3>12. CASE ~Recalling
      <4>1. new = [lines |-> [<<rl_line_buffer>> EXCEPT ![1] = line], place |-> 1]
        BY <3>3, <3>5, <3>12
      <4>2. [<<rl_line_buffer>> EXCEPT ![1] = line] = <<line>>
        OBVIOUS
      <4>3. ~Recalling'
        BY <3>10, <3>12 DEF Recalling
      <4> QED
        BY <3>9, <3>10, <4>1, <4>2, <4>3 DEF Shown
    <3> QED
      BY <3>11, <3>12
  <2> QED
    BY <2>1, <2>2
<1> QED
  BY <1>3

LEMMA EditKeeps ==
  ASSUME NEW line \in Line, ConsoleInv, Edit(line)
  PROVE  ConsoleInv'
<1>1. Becomes(line) /\ state = "reading"
  BY DEF Edit, Becomes
<1>2. recalled' \in SeqOf(Recalled, 1) /\ Shown'
  BY <1>1, BecomesShows
<1>3. /\ history \in Seq(Text) /\ Len(history) \in Nat
      /\ history_offset \in 0..Len(history) /\ rl_line_buffer \in Line
      /\ edited \subseteq Text
  BY DEF ConsoleInv, TypeOK
<1>4. /\ edited \subseteq edited' /\ edited' \subseteq Text
      /\ history_offset < Len(history) /\ Len(Entry) > 1 => Entry \in edited'
  <2>1. edited' = edited \cup {history[i] : i \in {j \in Current : Len(history[j]) > 1}}
    BY DEF Edit
  <2>2. Current \subseteq 1..Len(history)
    BY DEF Current
  <2>3. edited' \subseteq Text
    BY <1>3, <2>1, <2>2
  <2>4. history_offset < Len(history) => history_offset + 1 \in Current
    BY <1>3 DEF Current
  <2> QED
    BY <2>1, <2>3, <2>4 DEF Entry
<1>5. /\ rl_undo_list' \in SeqOf(Line, 1) /\ rl_undo_list' # <<>>
      /\ rl_undo_list' = IF rl_undo_list = <<>> THEN <<rl_line_buffer>> ELSE rl_undo_list
  BY <1>3, OneUndo DEF ConsoleInv, TypeOK, Edit
<1>6. TypeOK'
  BY <1>1, <1>2, <1>4, <1>5 DEF ConsoleInv, TypeOK, Becomes, Recalled
<1>7. RecalledLineExists' /\ Kept'
  BY <1>1, <1>4, KeptMore DEF ConsoleInv, RecalledLineExists, Kept, Becomes
<1>8. Standing'
  <2>1. /\ Recalling' = Recalling /\ Entry' = Entry /\ Len(history') = Len(history)
        /\ history_offset' = history_offset /\ state' = "reading"
    BY <1>1 DEF Becomes, Recalling, Entry
  <2>2. Recalling => history_offset < Len(history) /\ Len(Entry) > 1
    BY <1>1 DEF ConsoleInv, Standing
  <2>3. history_offset < Len(history) =>
          IF rl_undo_list = <<>>
          THEN Len(Entry) > 1 \/ Entry = <<rl_line_buffer>>
          ELSE Entry = rl_undo_list \/ (Len(Entry) > 1 /\ Entry \in edited)
    BY <1>1 DEF ConsoleInv, Standing
  <2>4. history_offset < Len(history) =>
          Entry = rl_undo_list' \/ (Len(Entry) > 1 /\ Entry \in edited')
    BY <1>4, <1>5, <2>3
  <2> QED
    BY <1>5, <2>1, <2>2, <2>4 DEF Standing
<1> QED
  BY <1>2, <1>6, <1>7, <1>8 DEF ConsoleInv

LEMMA UndoKeeps == ConsoleInv /\ Undo => ConsoleInv'
<1> SUFFICES ASSUME ConsoleInv, Undo PROVE ConsoleInv'
  OBVIOUS
<1> DEFINE line == rl_undo_list[1]
<1>1. /\ Becomes(line) /\ state = "reading" /\ rl_undo_list # <<>>
      /\ rl_undo_list' = <<>> /\ rl_line_buffer' = line /\ edited' = edited
  BY DEF Undo, Becomes
<1>2. line \in Line /\ rl_undo_list = <<line>>
  BY <1>1, UndoIsText DEF ConsoleInv
<1>3. recalled' \in SeqOf(Recalled, 1) /\ Shown'
  BY <1>1, <1>2, BecomesShows
<1>4. rl_undo_list' \in SeqOf(Line, 1)
  BY <1>1, EmptyInSeqOf
<1>5. TypeOK'
  BY <1>1, <1>2, <1>3, <1>4 DEF ConsoleInv, TypeOK, Becomes, Recalled
<1>6. RecalledLineExists' /\ Kept'
  BY <1>1 DEF ConsoleInv, RecalledLineExists, Kept, Becomes
<1>7. Standing'
  <2>1. /\ Recalling' = Recalling /\ Entry' = Entry /\ Len(history') = Len(history)
        /\ history_offset' = history_offset /\ state' = "reading"
    BY <1>1 DEF Becomes, Recalling, Entry
  <2> HIDE DEF line
  <2> QED
    BY <1>1, <1>2, <2>1 DEF ConsoleInv, Standing
<1> QED
  BY <1>3, <1>5, <1>6, <1>7 DEF ConsoleInv

LEMMA EnterRecalledKeeps == ConsoleInv /\ EnterRecalled => ConsoleInv'
<1> SUFFICES ASSUME ConsoleInv, EnterRecalled PROVE ConsoleInv'
  OBVIOUS
<1>1. Lines \in Text /\ Commit(Lines) /\ state = "reading"
  BY LinesAreText DEF ConsoleInv, EnterRecalled
<1>2. /\ {file', history', ran'} \subseteq Seq(Text) /\ code' \in Text
      /\ history_offset \in 0..Len(history') /\ state' = "opened"
      /\ rl_undo_list' \in SeqOf(Line, 1) /\ edited' = edited
      /\ torn' = torn /\ starts' = starts /\ Kept' /\ Standing'
  BY <1>1, CommitKeeps DEF Recalling, EnterRecalled
<1>3. <<>> \in SeqOf(Line, MaxLines) /\ -1 \in -1..(MaxLines - 1)
  BY EmptyInSeqOf, Bounds
<1>4. TypeOK'
  BY <1>2, <1>3 DEF ConsoleInv, TypeOK, EnterRecalled
<1>5. RecalledLineExists' /\ Shown'
  BY <1>2 DEF RecalledLineExists, Shown, EnterRecalled
<1> QED
  BY <1>2, <1>4, <1>5 DEF ConsoleInv

LEMMA EnterEmptyKeeps == ConsoleInv /\ EnterEmpty => ConsoleInv'
<1> SUFFICES ASSUME ConsoleInv, EnterEmpty PROVE ConsoleInv'
  OBVIOUS
<1>1. buffer \in Text /\ Commit(buffer) /\ state = "reading"
  BY DEF ConsoleInv, TypeOK, EnterEmpty, Entering, Text
<1>2. /\ {file', history', ran'} \subseteq Seq(Text) /\ code' \in Text
      /\ history_offset \in 0..Len(history') /\ state' = "opened"
      /\ rl_undo_list' \in SeqOf(Line, 1) /\ edited' = edited
      /\ torn' = torn /\ starts' = starts /\ Kept' /\ Standing'
  BY <1>1, CommitKeeps DEF Recalling, EnterEmpty, Entering, line_vars
<1>3. <<>> \in SeqOf(Line, MaxLines)
  BY EmptyInSeqOf, Bounds
<1>4. TypeOK'
  BY <1>2, <1>3 DEF ConsoleInv, TypeOK, EnterEmpty, line_vars
<1>5. RecalledLineExists' /\ Shown'
  BY <1>2 DEF ConsoleInv, RecalledLineExists, Shown, EnterEmpty, line_vars
<1> QED
  BY <1>2, <1>4, <1>5 DEF ConsoleInv

LEMMA EnterCompleteKeeps == ConsoleInv /\ EnterComplete => ConsoleInv'
<1> SUFFICES ASSUME ConsoleInv, EnterComplete PROVE ConsoleInv'
  OBVIOUS
<1>1. <<rl_line_buffer>> \in Text /\ Commit(<<rl_line_buffer>>) /\ state = "reading"
  BY OneLine DEF ConsoleInv, TypeOK, EnterComplete, Entering
<1>2. /\ {file', history', ran'} \subseteq Seq(Text) /\ code' \in Text
      /\ history_offset \in 0..Len(history') /\ state' = "opened"
      /\ rl_undo_list' \in SeqOf(Line, 1) /\ edited' = edited
      /\ torn' = torn /\ starts' = starts /\ Kept' /\ Standing'
  BY <1>1, CommitKeeps DEF Recalling, EnterComplete, Entering, line_vars
<1>3. TypeOK'
  BY <1>2 DEF ConsoleInv, TypeOK, EnterComplete, line_vars
<1>4. RecalledLineExists' /\ Shown'
  BY <1>2 DEF ConsoleInv, RecalledLineExists, Shown, EnterComplete, line_vars
<1> QED
  BY <1>2, <1>3, <1>4 DEF ConsoleInv

LEMMA EnterNothingKeeps == ConsoleInv /\ EnterNothing => ConsoleInv'
<1> SUFFICES ASSUME ConsoleInv, EnterNothing PROVE ConsoleInv'
  OBVIOUS
<1>0. history' \in Seq(Text) /\ (~torn => KeptAs(history', ran, edited))
  BY ReturnedKeeps DEF EnterNothing, Entering
<1>1. /\ rl_line_buffer' \in Line /\ history_offset' \in 0..Len(history')
      /\ rl_undo_list' \in SeqOf(Line, 1)
      /\ recalled' \in SeqOf(Recalled, 1) /\ Shown' /\ Standing'
  BY <1>0, NewLineShows DEF EnterNothing, Entering, Recalling
<1>2. TypeOK'
  BY <1>0, <1>1 DEF ConsoleInv, TypeOK, EnterNothing, Recalled
<1>3. RecalledLineExists' /\ Kept'
  BY <1>0 DEF ConsoleInv, RecalledLineExists, Kept, EnterNothing, Entering
<1> QED
  BY <1>1, <1>2, <1>3 DEF ConsoleInv

LEMMA EnterMoreKeeps == ConsoleInv /\ EnterMore => ConsoleInv'
<1> SUFFICES ASSUME ConsoleInv, EnterMore PROVE ConsoleInv'
  OBVIOUS
<1>0. history' \in Seq(Text) /\ (~torn => KeptAs(history', ran, edited))
  BY ReturnedKeeps DEF EnterMore, Entering
<1>1. /\ rl_line_buffer' \in Line /\ history_offset' \in 0..Len(history')
      /\ rl_undo_list' \in SeqOf(Line, 1)
      /\ recalled' \in SeqOf(Recalled, 1) /\ Shown' /\ Standing'
  BY <1>0, NewLineShows DEF EnterMore, Entering, Recalling
<1>2. buffer' \in SeqOf(Line, MaxLines)
  <2>1. buffer \in Seq(Line) /\ Len(buffer) < MaxLines /\ rl_line_buffer \in Line
    BY LinesKnown DEF ConsoleInv, TypeOK, EnterMore
  <2>2. buffer' = Append(buffer, rl_line_buffer)
    BY DEF EnterMore
  <2>3. buffer' \in Seq(Line) /\ Len(buffer') <= MaxLines
    BY <2>1, <2>2, Bounds
  <2> QED
    BY <2>3, SeqOfMeans, Bounds
<1>3. TypeOK'
  BY <1>0, <1>1, <1>2 DEF ConsoleInv, TypeOK, EnterMore, Recalled
<1>4. RecalledLineExists' /\ Kept'
  BY <1>0 DEF ConsoleInv, RecalledLineExists, Kept, EnterMore, Entering
<1> QED
  BY <1>1, <1>3, <1>4 DEF ConsoleInv

LEMMA MoveWithinKeeps ==
  ASSUME NEW dir \in {-1, 1}, ConsoleInv, MoveWithin(dir)
  PROVE  ConsoleInv'
<1>1. /\ Recalling /\ state = "reading" /\ g_ml_lines' = Lines
      /\ g_ml_index' = g_ml_index + dir /\ g_ml_index' \in 0..(Len(g_ml_lines) - 1)
      /\ rl_line_buffer' = Lines[g_ml_index' + 1]
  BY DEF ConsoleInv, TypeOK, MoveWithin
<1>2. /\ Lines \in Text /\ Lines \in SeqOf(Line, MaxLines) /\ Lines \in Seq(Line)
      /\ Len(Lines) = Len(g_ml_lines) /\ Len(Lines) \in 1..MaxLines
  BY <1>1, LinesAreText, TextMeans DEF ConsoleInv
<1>3. rl_line_buffer' \in Line /\ g_ml_index' \in -1..(MaxLines - 1)
  BY <1>1, <1>2, Bounds
<1>4. Recalling' /\ RecalledLineExists'
  BY <1>1, <1>2 DEF Recalling, RecalledLineExists
<1>5. Lines' = Lines
  <2>1. Lines' = [Lines EXCEPT ![g_ml_index' + 1] = Lines[g_ml_index' + 1]]
    BY <1>1 DEF Lines
  <2>2. g_ml_index' + 1 \in 1..Len(Lines)
    BY <1>1, <1>2
  <2> QED
    BY <1>2, <2>1, <2>2, PutBack
<1>6. recalled' \in SeqOf(Recalled, 1) /\ Shown'
  <2>1. recalled' = [i \in DOMAIN recalled |->
                       [recalled[i] EXCEPT !.place = recalled[i].place + dir]]
    BY DEF MoveWithin, PlaceMoved
  <2>2. recalled \in SeqOf(Recalled, 1)
    BY DEF ConsoleInv, TypeOK, Recalled
  <2>3. CASE recalled = <<>>
    <3>1. DOMAIN recalled = {}
      BY <2>2, <2>3, RecalledMeans
    <3>2. DOMAIN recalled' = {} /\ recalled' = [i \in {} |-> recalled'[i]]
      BY <2>1, <3>1
    <3>3. recalled' \in SeqOf(Recalled, 1) /\ recalled' = <<>>
      BY <3>2, NoneRecalled
    <3> QED
      BY <3>3 DEF Shown
  <2>4. CASE recalled # <<>>
    <3> DEFINE new == [lines |-> Lines, place |-> g_ml_index' + 1]
    <3>1. DOMAIN recalled = {1}
      BY <2>2, <2>4, RecalledMeans
    <3>2. recalled[1] = [lines |-> Lines, place |-> g_ml_index + 1]
      BY <1>1, <2>4 DEF ConsoleInv, Shown
    <3>3. [recalled[1] EXCEPT !.place = recalled[1].place + dir] =
            [lines |-> Lines, place |-> (g_ml_index + 1) + dir]
      BY <3>2
    <3>4. (g_ml_index + 1) + dir = g_ml_index' + 1
      BY <1>1 DEF ConsoleInv, TypeOK
    <3>5. recalled' = [i \in {1} |-> new]
      BY <2>1, <3>1, <3>3, <3>4
    <3>6. new \in Recalled
      BY <1>1, <1>2, Bounds DEF Recalled
    <3> HIDE DEF new
    <3>7. recalled' \in SeqOf(Recalled, 1) /\ recalled'[1] = new
      BY <3>5, <3>6, OneRecalled
    <3> QED
      BY <1>4, <1>5, <3>7 DEF Shown, new
  <2> QED
    BY <2>3, <2>4
<1>7. TypeOK'
  <2>1. rl_undo_list' \in SeqOf(Line, 1)
    BY EmptyInSeqOf DEF MoveWithin
  <2> QED
    BY <1>1, <1>2, <1>3, <1>6, <2>1 DEF ConsoleInv, TypeOK, MoveWithin, Recalled
<1>8. Kept'
  BY DEF ConsoleInv, Kept, MoveWithin
<1>9. Standing'
  <2>1. /\ Entry' = Entry /\ Len(history') = Len(history)
        /\ history_offset' = history_offset /\ state' = "reading"
    BY DEF MoveWithin, Entry
  <2>2. history_offset < Len(history) /\ Len(Entry) > 1
    BY <1>1 DEF ConsoleInv, Standing
  <2>3. rl_undo_list' = <<>>
    BY DEF MoveWithin
  <2> QED
    BY <2>1, <2>2, <2>3 DEF Standing
<1> QED
  BY <1>4, <1>6, <1>7, <1>8, <1>9 DEF ConsoleInv

LEMMA AdjacentKnown ==
  ASSUME TypeOK, NEW dir \in {-1, 1}
  PROVE  /\ Adjacent(dir) \in Int
         /\ Adjacent(dir) \in 0..(Len(history) - 1) => Adjacent(dir) \in 0..Len(history)
         /\ dir = 1 => Adjacent(dir) \in 0..Len(history)
<1>1. history_offset \in 0..Len(history) /\ Len(history) \in Nat
  BY DEF TypeOK
<1> QED
  BY <1>1 DEF Adjacent

LEMMA MoveBeyondKeeps ==
  ASSUME NEW dir \in {-1, 1}, ConsoleInv, MoveBeyond(dir)
  PROVE  ConsoleInv'
<1>1. history_offset' \in 0..Len(history)
  BY AdjacentKnown DEF ConsoleInv, TypeOK, MoveBeyond
<1>2. /\ <<>> \in SeqOf(Line, MaxLines) /\ <<>> \in SeqOf(Recalled, 1)
      /\ -1 \in -1..(MaxLines - 1)
  BY EmptyInSeqOf, Bounds
<1>3. TypeOK'
  BY <1>1, <1>2 DEF ConsoleInv, TypeOK, MoveBeyond, Recalled
<1>4. RecalledLineExists' /\ Shown' /\ Kept'
  BY DEF ConsoleInv, RecalledLineExists, Shown, Kept, MoveBeyond
<1>5. Standing'
  <2>1. /\ ~Recalling' /\ state = "reading" /\ history' = history
        /\ rl_undo_list' = rl_undo_list /\ rl_line_buffer' = rl_line_buffer
        /\ edited' = edited
    BY DEF MoveBeyond, Recalling
  <2>2. CASE history_offset' = history_offset
    <3>1. Entry' = Entry
      BY <2>1, <2>2 DEF Entry
    <3> QED
      BY <2>1, <2>2, <3>1 DEF ConsoleInv, Standing
  <2>3. CASE history_offset' # history_offset
    <3>1. dir = 1 /\ history_offset' = Adjacent(dir)
      BY <2>3 DEF MoveBeyond
    <3>2. Adjacent(dir) \notin 0..(Len(history) - 1)
      BY DEF MoveBeyond
    <3>3. history_offset' \in 0..Len(history) /\ Len(history) \in Nat
      BY <1>1 DEF ConsoleInv, TypeOK
    <3>4. ~(history_offset' < Len(history'))
      BY <2>1, <3>1, <3>2, <3>3
    <3> QED
      BY <2>1, <3>4 DEF Standing
  <2> QED
    BY <2>2, <2>3
<1> QED
  BY <1>3, <1>4, <1>5 DEF ConsoleInv

(* A text that is recalled is shown from its first or its last line. *)
LEMMA MoveToKeeps ==
  ASSUME NEW dir \in {-1, 1}, ConsoleInv, MoveTo(dir)
  PROVE  ConsoleInv'
<1> DEFINE text == history[Adjacent(dir) + 1]
           lines == Split(text)
           shown == IF dir < 0 THEN 1 ELSE Len(lines)
<1>1. text \in Text /\ history_offset' \in 0..Len(history)
  <2>1. Adjacent(dir) + 1 \in 1..Len(history) /\ history \in Seq(Text)
    BY SMTT(30), AdjacentKnown DEF ConsoleInv, TypeOK, MoveTo
  <2>2. history_offset' \in 0..Len(history)
    BY AdjacentKnown DEF ConsoleInv, MoveTo
  <2> QED
    BY <2>1, <2>2
<1>2. /\ lines \in Text /\ lines \in Seq(Line) /\ lines \in SeqOf(Line, MaxLines)
      /\ Len(lines) \in 1..MaxLines /\ shown \in 1..Len(lines)
  <2> HIDE DEF text
  <2>1. lines \in Text
    BY <1>1, SplitIsText
  <2> HIDE DEF lines
  <2>2. lines \in Seq(Line) /\ Len(lines) \in 1..MaxLines
    BY <2>1, TextMeans
  <2> QED
    BY <2>1, <2>2, SeqOfMeans, Bounds
<1>3. IF Len(text) > 1
      THEN /\ g_ml_lines' = lines /\ g_ml_index' = shown - 1
           /\ rl_line_buffer' = lines[shown]
           /\ recalled' = <<[lines |-> lines, place |-> shown]>>
      ELSE /\ g_ml_lines' = <<>> /\ g_ml_index' = -1
           /\ rl_line_buffer' = text[1]
           /\ recalled' = <<[lines |-> text, place |-> 1]>>
  BY DEF MoveTo
<1>4. /\ g_ml_lines' \in SeqOf(Line, MaxLines) /\ g_ml_index' \in -1..(MaxLines - 1)
      /\ rl_line_buffer' \in Line /\ recalled' \in SeqOf(Recalled, 1)
      /\ RecalledLineExists' /\ Shown'
      /\ Recalling' => Len(text) > 1
      /\ Len(text) > 1 \/ text = <<rl_line_buffer'>>
  <2> HIDE DEF text, lines, shown
  <2>1. CASE Len(text) > 1
    <3> DEFINE new == [lines |-> lines, place |-> shown]
    <3>1. new \in Recalled
      <4>1. lines \in Text /\ shown \in 1..MaxLines
        BY <1>2, Bounds
      <4> QED
        BY <4>1 DEF Recalled
    <3>2. /\ g_ml_lines' = lines /\ g_ml_index' = shown - 1
          /\ rl_line_buffer' = lines[shown] /\ recalled' = <<new>>
      BY <1>3, <2>1
    <3>3. Recalling' /\ RecalledLineExists'
      BY <1>2, <3>2 DEF Recalling, RecalledLineExists
    <3>4. Lines' = lines
      <4>1. Lines' = [lines EXCEPT ![shown] = lines[shown]]
        <5>1. Lines' = [lines EXCEPT ![(shown - 1) + 1] = lines[shown]]
          BY <3>2 DEF Lines
        <5>2. (shown - 1) + 1 = shown
          BY <1>2
        <5> QED
          BY <5>1, <5>2
      <4> QED
        BY <1>2, <4>1, PutBack
    <3>5. g_ml_index' + 1 = shown
      BY <1>2, <3>2
    <3> HIDE DEF new
    <3>6. recalled' \in SeqOf(Recalled, 1) /\ recalled'[1] = new
      BY <3>1, <3>2, RecalledAlone
    <3>7. Shown'
      BY <3>3, <3>4, <3>5, <3>6 DEF Shown, new
    <3>8. g_ml_lines' \in SeqOf(Line, MaxLines)
      BY <1>2, <3>2
    <3>9. g_ml_index' \in -1..(MaxLines - 1) /\ rl_line_buffer' \in Line
      BY <1>2, <3>2, Bounds
    <3> QED
      BY <2>1, <3>3, <3>6, <3>7, <3>8, <3>9
  <2>2. CASE ~(Len(text) > 1)
    <3> DEFINE new == [lines |-> text, place |-> 1]
    <3>1. text \in Seq(Line) /\ Len(text) = 1
      <4>1. text \in Seq(Line) /\ Len(text) \in 1..MaxLines
        BY <1>1, TextMeans
      <4>2. \A n \in 1..MaxLines : ~(n > 1) => n = 1
        BY Bounds
      <4> QED
        BY <2>2, <4>1, <4>2, Zenon
    <3>2. new \in Recalled
      BY <1>1, Bounds DEF Recalled
    <3>3. /\ g_ml_lines' = <<>> /\ g_ml_index' = -1
          /\ rl_line_buffer' = text[1] /\ recalled' = <<new>>
      BY <1>3, <2>2
    <3>4. ~Recalling' /\ RecalledLineExists'
      BY <3>3 DEF Recalling, RecalledLineExists
    <3>5. <<text[1]>> = text
      BY <3>1
    <3> HIDE DEF new
    <3>6. recalled' \in SeqOf(Recalled, 1) /\ recalled'[1] = new
      BY <3>2, <3>3, RecalledAlone
    <3>7. Shown'
      BY <3>3, <3>4, <3>5, <3>6 DEF Shown, new
    <3>8. rl_line_buffer' \in Line
      BY <3>1, <3>3
    <3>9. g_ml_lines' \in SeqOf(Line, MaxLines)
      BY <3>3, EmptyInSeqOf, Bounds
    <3>10. g_ml_index' \in -1..(MaxLines - 1)
      BY <3>3, Bounds
    <3> QED
      BY <3>3, <3>4, <3>5, <3>6, <3>7, <3>8, <3>9, <3>10
  <2> QED
    BY <2>1, <2>2
<1>5. TypeOK'
  <2>1. rl_undo_list' \in SeqOf(Line, 1)
    BY EmptyInSeqOf DEF MoveTo
  <2> QED
    BY <1>1, <1>4, <2>1 DEF ConsoleInv, TypeOK, MoveTo, Recalled
<1>6. Kept'
  BY DEF ConsoleInv, Kept, MoveTo
<1>7. Standing'
  <2>1. /\ history' = history /\ history_offset' = Adjacent(dir) /\ rl_undo_list' = <<>>
        /\ Adjacent(dir) \in 0..(Len(history) - 1) /\ state' = "reading"
    BY DEF MoveTo
  <2>2. Entry' = text
    BY <2>1 DEF Entry
  <2>3. history_offset' < Len(history')
    BY <2>1 DEF ConsoleInv, TypeOK
  <2> HIDE DEF text
  <2> QED
    BY <1>4, <2>1, <2>2, <2>3 DEF Standing
<1> QED
  BY <1>4, <1>5, <1>6, <1>7 DEF ConsoleInv

LEMMA InvStep == ConsoleInv /\ [Next]_vars => ConsoleInv'
<1> SUFFICES ASSUME ConsoleInv, [Next]_vars PROVE ConsoleInv'
  OBVIOUS
<1>1. CASE UNCHANGED vars
  BY <1>1 DEF vars, line_vars, ConsoleInv, TypeOK, RecalledLineExists, Shown, Kept,
              Standing, Entry, Recalling, Lines
<1>2. ASSUME NEW line \in Line, Edit(line) PROVE ConsoleInv'
  BY <1>2, EditKeeps
<1>3. ASSUME NEW dir \in {-1, 1}, Arrow(dir) PROVE ConsoleInv'
  BY <1>3, MoveWithinKeeps, MoveBeyondKeeps, MoveToKeeps DEF Arrow
<1> QED
  BY <1>1, <1>2, <1>3, UndoKeeps, SaveKeeps, ReturnKeeps, ExitKeeps, DieKeeps, StartKeeps,
     EnterRecalledKeeps, EnterEmptyKeeps, EnterNothingKeeps, EnterCompleteKeeps,
     EnterMoreKeeps DEF Next

LEMMA ConsoleInvariant == Spec => []ConsoleInv
<1>1. ConsoleInv /\ [Next]_vars => ConsoleInv'
  BY InvStep
<1> QED
  BY InvStart, <1>1, PTL DEF Spec

(* No state of the consoles leaves its type. *)
THEOREM ConsoleTypeCorrect == Spec => []TypeOK
<1>1. ConsoleInv => TypeOK
  BY DEF ConsoleInv
<1> QED
  BY <1>1, ConsoleInvariant, PTL

(* g_ml_index never points outside of the recalled lines, whatever keys    *)
(* were pressed.                                                           *)
THEOREM RecalledLinesExist == Spec => []RecalledLineExists
<1>1. ConsoleInv => RecalledLineExists
  BY DEF ConsoleInv
<1> QED
  BY <1>1, ConsoleInvariant, PTL

(* However often the process ended and started again: unless it died while *)
(* the file was being written, every program is in the history, but for    *)
(* those of several lines that were edited where readline stood at them,   *)
(* of which one line may be left.                                          *)
THEOREM HistoryIsKept == Spec => []HistoryKept
<1>1. ASSUME TypeOK, NEW entries, KeptAs(entries, ran, edited) PROVE Keeps(entries)
  <2>1. PICK kept \in Seq(Text) :
          /\ Len(kept) = Len(ran)
          /\ \A i \in 1..Len(ran) :
               kept[i] = ran[i] \/ (ran[i] \in edited /\ Len(kept[i]) = 1)
          /\ Loaded(entries) = Loaded(kept)
    BY <1>1 DEF KeptAs
  <2>2. DOMAIN ran = 1..Len(ran) /\ DOMAIN kept = 1..Len(ran)
    BY <1>1, <2>1 DEF TypeOK
  <2>3. ASSUME NEW i \in DOMAIN ran PROVE kept[i] \in Remains(ran[i])
    <3>1. CASE kept[i] = ran[i]
      BY <3>1 DEF Remains
    <3>2. CASE ran[i] \in edited /\ Len(kept[i]) = 1
      <4>1. kept[i] \in Seq(Line)
        BY <2>1, <2>2, TextMeans
      <4>2. kept[i][1] \in Line /\ kept[i] = <<kept[i][1]>>
        BY <3>2, <4>1
      <4> QED
        BY <3>2, <4>2 DEF Remains
    <3> QED
      BY <2>1, <2>2, <3>1, <3>2
  <2>4. kept = [i \in DOMAIN ran |-> kept[i]]
    BY <2>1, <2>2
  <2>5. kept \in [DOMAIN ran -> UNION {Remains(ran[i]) : i \in DOMAIN ran}]
    BY <2>3, <2>4
  <2> QED
    BY <2>1, <2>3, <2>5 DEF Keeps
<1>2. ConsoleInv => HistoryKept
  BY <1>1 DEF ConsoleInv, Kept, HistoryKept
<1> QED
  BY <1>2, ConsoleInvariant, PTL

(* Enter runs the recalled text as it was edited and is shown. *)
THEOREM WhatIsShownRuns == Spec => RunsWhatIsShown
<1> DEFINE A == recalled # <<>> /\ state = "reading" /\ state' = "opened"
                  /\ (buffer = <<>> \/ Recalling) => code' = recalled[1].lines
<1>1. ConsoleInv /\ [Next]_vars => [A]_vars
  <2> SUFFICES ASSUME ConsoleInv, Next, recalled # <<>>, state = "reading",
                      state' = "opened", buffer = <<>> \/ Recalling
               PROVE  code' = recalled[1].lines
    OBVIOUS
  <2>1. recalled[1] = IF Recalling THEN [lines |-> Lines, place |-> g_ml_index + 1]
                      ELSE [lines |-> <<rl_line_buffer>>, place |-> 1]
    BY DEF ConsoleInv, Shown
  <2>2. EnterRecalled \/ EnterEmpty \/ EnterComplete
    BY DEF Next, Save, Return, Exit, Die, Start, Edit, Undo, Becomes, EnterNothing, EnterMore,
           Arrow, MoveWithin, MoveBeyond, MoveTo
  <2>3. CASE EnterRecalled
    BY <2>1, <2>3 DEF EnterRecalled, Commit
  <2>4. CASE EnterEmpty
    BY <2>4 DEF EnterEmpty, Entering
  <2>5. CASE EnterComplete
    BY <2>1, <2>5 DEF EnterComplete, Entering, Commit
  <2> QED
    BY <2>2, <2>3, <2>4, <2>5
<1> QED
  BY <1>1, ConsoleInvariant, PTL DEF Spec, RunsWhatIsShown
=============================================================================
