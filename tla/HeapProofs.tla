----------------------------- MODULE HeapProofs -----------------------------
(***************************************************************************)
(* What the operations on the heap preserve: every value in it exists, a   *)
(* parent is older, and, in the bytecode interpreter, a scope that binds   *)
(* something that might be a function is marked.                           *)
(*                                                                         *)
(* The facts are about any heap h and any world w, a record of             *)
(*   functions  the numbers that the bodies of functions have, and         *)
(*   flagged    whether scopes have the flag that EnvScope::write sets;    *)
(* both interpreters use them, for the heap before and after a step.       *)
(***************************************************************************)
EXTENDS CycleBreaker, NatSets, FiniteSetTheorems

-----------------------------------------------------------------------------
(* Chains of scopes.  The walks up a chain are recursive functions over    *)
(* the numbers of the scopes; they are what they are meant to be because a *)
(* parent is older, that is, has a smaller number.                         *)

Vars == UNION {[S -> Json] : S \in SUBSET Text}

ScopeRecord == [parent : Nat, vars : Vars, has_closures : BOOLEAN]

OlderParents(scopes) == \A s \in 1..Len(scopes) : scopes[s].parent < s

LEMMA ParentsKnown ==
  ASSUME NEW scopes \in Seq(ScopeRecord), OlderParents(scopes)
  PROVE  \A s \in 1..Len(scopes) : scopes[s].parent \in 0..(s - 1)
<1>1. \A s \in 1..Len(scopes) : scopes[s] \in ScopeRecord
  OBVIOUS
<1>2. \A s \in 1..Len(scopes) : scopes[s].parent \in Nat
  BY <1>1 DEF ScopeRecord
<1> QED
  BY <1>2 DEF OlderParents

(* The walk of EnvScope::write and EnvScope::operator[] ends, and it ends  *)
(* at a scope that binds the name or past the end of the chain.            *)
LEMMA OwnerFound ==
  ASSUME NEW scopes \in Seq(ScopeRecord), OlderParents(scopes),
         NEW key, NEW scope \in 0..Len(scopes)
  PROVE  /\ Owner(scopes, scope, key) \in 0..Len(scopes)
         /\ Owner(scopes, scope, key) # 0 =>
              key \in DOMAIN scopes[Owner(scopes, scope, key)].vars
<1> DEFINE n    == Len(scopes)
           up(s) == scopes[s].parent
           stop(s) == s = 0 \/ key \in DOMAIN scopes[s].vars
           fits(m, f) == f = [s \in 0..m |-> IF stop(s) THEN s ELSE f[up(s)]]
           nearest == CHOOSE f : fits(n, f)
           T == {m \in Nat : m <= n => \E f : fits(m, f)}
           G == {m \in Nat : \A s \in 0..n : s <= m =>
                   nearest[s] \in 0..n /\ stop(nearest[s])}
<1>1. n \in Nat /\ \A s \in 1..n : up(s) \in 0..(s - 1)
  BY ParentsKnown
<1>2. 0 \in T
  <2>1. fits(0, [s \in 0..0 |-> s])
    BY Z3
  <2> QED
    BY <2>1
<1>3. ASSUME NEW m \in T PROVE m + 1 \in T
  <2> SUFFICES ASSUME m + 1 <= n PROVE \E f : fits(m + 1, f)
    OBVIOUS
  <2>1. m \in Nat /\ m <= n /\ \E f : fits(m, f)
    <3> HIDE DEF fits
    <3> QED
      BY <1>1
  <2>2. PICK f : fits(m, f)
    BY <2>1
  <2> DEFINE g == [s \in 0..(m + 1) |->
                     IF s <= m THEN f[s] ELSE IF stop(s) THEN s ELSE f[up(s)]]
  <2>3. \A s \in 0..m : f[s] = IF stop(s) THEN s ELSE f[up(s)]
    BY <2>2
  <2>4. \A s \in 0..(m + 1) : ~ stop(s) => up(s) \in 0..m /\ g[up(s)] = f[up(s)]
    BY <1>1, <2>1
  <2>5. \A s \in 0..(m + 1) : g[s] = IF stop(s) THEN s ELSE g[up(s)]
    BY <2>3, <2>4
  <2>6. fits(m + 1, g)
    BY <2>5
  <2> QED
    BY <2>6
<1>4. \E f : fits(n, f)
  <2> HIDE DEF fits
  <2>1. T = Nat
    BY <1>2, <1>3, EveryNatural
  <2> QED
    BY <2>1, <1>1
<1>5. fits(n, nearest)
  BY <1>4
<1>6. \A s \in 0..n : nearest[s] = IF stop(s) THEN s ELSE nearest[up(s)]
  BY <1>5
<1> HIDE DEF nearest
<1>7. 0 \in G
  BY <1>6, <1>1
<1>8. ASSUME NEW m \in G PROVE m + 1 \in G
  BY <1>6, <1>1
<1>9. G = Nat
  BY <1>7, <1>8, EveryNatural
<1>10. Owner(scopes, scope, key) = nearest[scope]
  BY DEF Owner, nearest
<1> QED
  BY <1>1, <1>9, <1>10

-----------------------------------------------------------------------------

(* What the chain of a scope is.                                           *)
LEMMA ChainUnfolds ==
  ASSUME NEW scopes \in Seq(ScopeRecord), OlderParents(scopes)
  PROVE  /\ Chain(scopes, 0) = {}
         /\ \A s \in 1..Len(scopes) :
              Chain(scopes, s) = {s} \cup Chain(scopes, scopes[s].parent)
<1> DEFINE n    == Len(scopes)
           up(s) == scopes[s].parent
           fits(m, f) == f = [s \in 0..m |-> IF s = 0 THEN {} ELSE {s} \cup f[up(s)]]
           upward == CHOOSE f : fits(n, f)
           T == {m \in Nat : m <= n => \E f : fits(m, f)}
<1>1. n \in Nat /\ \A s \in 1..n : up(s) \in 0..(s - 1)
  BY ParentsKnown
<1>2. 0 \in T
  <2>1. fits(0, [s \in 0..0 |-> {}])
    BY Z3
  <2> QED
    BY <2>1
<1>3. ASSUME NEW m \in T PROVE m + 1 \in T
  <2> SUFFICES ASSUME m + 1 <= n PROVE \E f : fits(m + 1, f)
    OBVIOUS
  <2>1. m \in Nat /\ m <= n /\ \E f : fits(m, f)
    <3> HIDE DEF fits
    <3> QED
      BY <1>1
  <2>2. PICK f : fits(m, f)
    BY <2>1
  <2> DEFINE g == [s \in 0..(m + 1) |->
                     IF s <= m THEN f[s] ELSE {s} \cup f[up(s)]]
  <2>3. \A s \in 0..m : f[s] = IF s = 0 THEN {} ELSE {s} \cup f[up(s)]
    BY <2>2
  <2>4. \A s \in 1..(m + 1) : up(s) \in 0..m /\ g[up(s)] = f[up(s)]
    BY <1>1, <2>1
  <2>5. \A s \in 0..(m + 1) : g[s] = IF s = 0 THEN {} ELSE {s} \cup g[up(s)]
    BY <2>1, <2>3, <2>4
  <2>6. fits(m + 1, g)
    BY <2>5
  <2> QED
    BY <2>6
<1>4. \E f : fits(n, f)
  <2> HIDE DEF fits
  <2>1. T = Nat
    BY <1>2, <1>3, EveryNatural
  <2> QED
    BY <2>1, <1>1
<1>5. fits(n, upward)
  BY <1>4
<1>6. \A s \in 0..n : upward[s] = IF s = 0 THEN {} ELSE {s} \cup upward[up(s)]
  BY <1>5
<1>7. \A s : Chain(scopes, s) = upward[s]
  BY DEF Chain
<1> HIDE DEF upward
<1>8. Chain(scopes, 0) = {}
  <2>1. 0 \in 0..n
    BY <1>1
  <2>2. upward[0] = {}
    BY <1>6, <2>1
  <2> QED
    BY <1>7, <2>2
<1>9. ASSUME NEW s \in 1..Len(scopes)
      PROVE  Chain(scopes, s) = {s} \cup Chain(scopes, scopes[s].parent)
  <2>1. s \in 0..n /\ s # 0 /\ up(s) \in 0..n
    BY <1>1
  <2>2. upward[s] = {s} \cup upward[up(s)]
    BY <1>6, <2>1
  <2> QED
    BY <1>7, <2>2
<1> QED
  BY <1>8, <1>9

(* A chain leads to older scopes only.                                     *)
LEMMA ChainWithin ==
  ASSUME NEW scopes \in Seq(ScopeRecord), OlderParents(scopes),
         NEW scope \in 0..Len(scopes)
  PROVE  Chain(scopes, scope) \subseteq 1..scope
<1> DEFINE T == {m \in Nat : \A s \in 0..Len(scopes) :
                   s <= m => Chain(scopes, s) \subseteq 1..s}
<1>1. 0 \in T
  BY ChainUnfolds
<1>2. ASSUME NEW m \in T PROVE m + 1 \in T
  <2> SUFFICES ASSUME NEW s \in 0..Len(scopes), s <= m + 1
               PROVE  Chain(scopes, s) \subseteq 1..s
    OBVIOUS
  <2>1. CASE s = 0
    BY <2>1, ChainUnfolds
  <2>2. CASE s # 0
    <3>1. scopes[s].parent \in 0..(s - 1)
      BY <2>2, ParentsKnown
    <3>2. Chain(scopes, scopes[s].parent) \subseteq 1..(s - 1)
      BY <3>1
    <3>3. Chain(scopes, s) = {s} \cup Chain(scopes, scopes[s].parent)
      BY <2>2, ChainUnfolds
    <3> QED
      BY <2>2, <3>2, <3>3
  <2> QED
    BY <2>1, <2>2
<1>3. T = Nat
  BY <1>1, <1>2, EveryNatural
<1>4. scope \in Nat /\ scope \in 0..scope
  OBVIOUS
<1>5. scope \in T
  BY <1>3, <1>4
<1> QED
  BY <1>4, <1>5

(* The chain of a scope depends on nothing but the parent links of the     *)
(* scopes that are not younger.                                            *)
LEMMA ChainKept ==
  ASSUME NEW scopes \in Seq(ScopeRecord), OlderParents(scopes),
         NEW after \in Seq(ScopeRecord), OlderParents(after),
         NEW scope \in 0..Len(scopes), scope <= Len(after),
         \A s \in 1..scope : after[s].parent = scopes[s].parent
  PROVE  Chain(after, scope) = Chain(scopes, scope)
<1> DEFINE T == {m \in Nat : \A s \in 0..scope : s <= m => Chain(after, s) = Chain(scopes, s)}
<1>1. 0 \in T
  BY SMTT(30), ChainUnfolds
<1>2. ASSUME NEW m \in T PROVE m + 1 \in T
  <2> SUFFICES ASSUME NEW s \in 0..scope, s <= m + 1
               PROVE  Chain(after, s) = Chain(scopes, s)
    OBVIOUS
  <2>1. CASE s = 0
    BY <2>1, ChainUnfolds
  <2>2. CASE s # 0
    <3>1. scopes[s].parent \in 0..(s - 1)
      BY <2>2, ParentsKnown
    <3>2. Chain(after, scopes[s].parent) = Chain(scopes, scopes[s].parent)
      BY <3>1
    <3>3. Chain(scopes, s) = {s} \cup Chain(scopes, scopes[s].parent)
      BY <2>2, ChainUnfolds
    <3>4. Chain(after, s) = {s} \cup Chain(after, after[s].parent)
      BY <2>2, ChainUnfolds
    <3> QED
      BY <2>2, <3>2, <3>3, <3>4
  <2> QED
    BY <2>1, <2>2
<1>3. T = Nat
  BY <1>1, <1>2, EveryNatural
<1>4. scope \in Nat /\ scope \in 0..scope
  OBVIOUS
<1>5. scope \in T
  BY <1>3, <1>4
<1> QED
  BY <1>4, <1>5

(* When every link of a chain that led to a scope is cut, and nothing but  *)
(* such links is, the chain does not lead there any more.                  *)
LEMMA ChainSevered ==
  ASSUME NEW scopes \in Seq(ScopeRecord), OlderParents(scopes),
         NEW after \in Seq(ScopeRecord), OlderParents(after), Len(after) = Len(scopes),
         NEW dying \in 1..Len(scopes), NEW scope \in 0..Len(scopes), scope # dying,
         \A s \in 1..Len(scopes) : after[s].parent \in {0, scopes[s].parent},
         \A s \in Chain(scopes, scope) : scopes[s].parent = dying => after[s].parent = 0
  PROVE  dying \notin Chain(after, scope)
<1> DEFINE cut(s) == \A t \in Chain(scopes, s) : scopes[t].parent = dying => after[t].parent = 0
           T == {m \in Nat : \A s \in 0..Len(scopes) :
                   s <= m /\ s # dying /\ cut(s) => dying \notin Chain(after, s)}
<1>1. 0 \in T
  BY ChainUnfolds
<1>2. ASSUME NEW m \in T PROVE m + 1 \in T
  <2> SUFFICES ASSUME NEW s \in 0..Len(scopes), s <= m + 1, s # dying, cut(s)
               PROVE  dying \notin Chain(after, s)
    OBVIOUS
  <2>1. CASE s = 0
    BY <2>1, ChainUnfolds
  <2>2. CASE s # 0
    <3> DEFINE up == scopes[s].parent
    <3>1. up \in 0..(s - 1)
      BY <2>2, ParentsKnown
    <3>2. Chain(scopes, s) = {s} \cup Chain(scopes, up)
      BY <2>2, ChainUnfolds
    <3>3. Chain(after, s) = {s} \cup Chain(after, after[s].parent)
      BY <2>2, ChainUnfolds
    <3>4. cut(up) /\ (up = dying => after[s].parent = 0)
      BY <3>2
    <3>5. after[s].parent = 0 \/ (after[s].parent = up /\ up # dying)
      BY <2>2, <3>4
    <3> HIDE DEF up
    <3>6. up # dying => dying \notin Chain(after, up)
      BY <3>1, <3>4
    <3>7. dying \notin Chain(after, after[s].parent)
      BY <3>5, <3>6, ChainUnfolds
    <3> QED
      BY <3>3, <3>7
  <2> QED
    BY <2>1, <2>2
<1>3. T = Nat
  BY <1>1, <1>2, EveryNatural
<1>4. scope \in Nat /\ cut(scope)
  OBVIOUS
<1>5. scope \in T
  BY <1>3, <1>4
<1> HIDE DEF cut
<1> QED
  BY <1>4, <1>5

-----------------------------------------------------------------------------
(* Heaps.                                                                  *)

Heap == [scopes : Seq(ScopeRecord), arrays : Seq(Seq(Json)), objects : Seq(Vars)]

(* A value that exists, in a world of functions: one of those closes over  *)
(* a scope that was allocated, an array or an object is an allocated cell. *)
Val(w, h, v) ==
  /\ v \in Json
  /\ v.type = "Function" => v.n \in w.functions /\ v.ref \in 0..Len(h.scopes)
  /\ v.type = "Array"    => v = ArrayJson(v.ref) /\ v.ref \in 1..Len(h.arrays)
  /\ v.type = "Object"   => v = ObjectJson(v.ref) /\ v.ref \in 1..Len(h.objects)

Vals(w, h, f) == \A k \in DOMAIN f : Val(w, h, f[k])

(* In a world whose scopes are flagged, a scope that binds something that  *)
(* might be a function is.                                                 *)
Marked(w, scope) ==
  w.flagged /\ (\E x \in DOMAIN scope.vars : MightHaveFunction(scope.vars[x])) => scope.has_closures

ScopesGood(w, h, scopes) ==
  /\ scopes \in Seq(ScopeRecord)
  /\ OlderParents(scopes)
  /\ \A s \in 1..Len(scopes) : Vals(w, h, scopes[s].vars) /\ Marked(w, scopes[s])

HeapGood(w, h) ==
  /\ h \in Heap
  /\ ScopesGood(w, h, h.scopes)
  /\ \A c \in 1..Len(h.arrays) : Vals(w, h, h.arrays[c])
  /\ \A c \in 1..Len(h.objects) : Vals(w, h, h.objects[c])

(* Heap g has at least the scopes and cells that h has. *)
Extends(h, g) ==
  /\ Len(g.scopes)  >= Len(h.scopes)
  /\ Len(g.arrays)  >= Len(h.arrays)
  /\ Len(g.objects) >= Len(h.objects)

-----------------------------------------------------------------------------

(* A value that exists goes on existing. *)
LEMMA ValKept ==
  ASSUME NEW w, NEW h \in Heap, NEW g \in Heap, Extends(h, g), NEW v, Val(w, h, v)
  PROVE  Val(w, g, v)
BY DEF Val, Extends, Heap, Json

LEMMA ValsKept ==
  ASSUME NEW w, NEW h \in Heap, NEW g \in Heap, Extends(h, g), NEW f, Vals(w, h, f)
  PROVE  Vals(w, g, f)
BY ValKept DEF Vals

LEMMA NullVal ==
  ASSUME NEW w, NEW h PROVE Val(w, h, NullJson)
BY DEF Val, NullJson, Json, JsonType, Text

LEMMA ScalarGood ==
  ASSUME NEW w, NEW h, NEW v \in Json, v.type \notin {"Function", "Array", "Object"}
  PROVE  Val(w, h, v)
BY DEF Val

LEMMA ScalarTyped ==
  /\ NullJson \in Json /\ NullJson.type = "Null"
  /\ \A i \in Int : IntJson(i) \in Json /\ IntJson(i).type = "Int"
  /\ \A str \in Text : StringJson(str) \in Json /\ StringJson(str).type = "String"
<1>1. NullJson \in Json
  BY DEF NullJson, Json, JsonType, Text
<1>2. NullJson.type = "Null"
  BY DEF NullJson
<1>3. \A i \in Int : IntJson(i) \in Json
  BY DEF IntJson, Json, JsonType, Text
<1>4. \A i \in Int : IntJson(i).type = "Int"
  BY DEF IntJson
<1>5. \A str \in Text : StringJson(str) \in Json
  BY DEF StringJson, Json, JsonType
<1>6. \A str \in Text : StringJson(str).type = "String"
  BY DEF StringJson
<1> QED
  BY <1>1, <1>2, <1>3, <1>4, <1>5, <1>6

LEMMA ArithmeticTyped ==
  ASSUME NEW op \in {"ADD", "SUB", "MUL", "DIV"}, NEW l \in Json, NEW r \in Json, ArithmeticDefined(op, l, r)
  PROVE  Arithmetic(op, l, r) \in Json /\ Arithmetic(op, l, r).type \in {"Int", "Null"}
<1>1. CASE Numeric(l) /\ Numeric(r)
  <2> DEFINE a == l.n
             b == RightOperand(l, r)
  <2>1. a \in Int /\ b \in Int /\ (op = "DIV" => b # 0)
    BY <1>1 DEF Json, RightOperand, ArithmeticDefined
  <2> HIDE DEF a, b
  <2>2. b # 0 => TruncDiv(a, b) \in Int
    BY <2>1 DEF TruncDiv
  <2>3. Calculate(op, a, b) \in Int
    BY <2>1, <2>2 DEF Calculate
  <2>4. Arithmetic(op, l, r) = IntJson(Calculate(op, a, b))
    BY <1>1 DEF Arithmetic, a, b
  <2> QED
    BY <2>3, <2>4, ScalarTyped
<1>2. CASE ~ (Numeric(l) /\ Numeric(r))
  BY <1>2, ScalarTyped DEF Arithmetic
<1> QED
  BY <1>1, <1>2

LEMMA BoolTyped ==
  ASSUME NEW b PROVE BoolJson(b) \in Json /\ BoolJson(b).type = "Bool"
BY DEF BoolJson, Json, JsonType, Text

LEMMA CompareTyped ==
  ASSUME NEW op, NEW arrays, NEW objects, NEW l, NEW r
  PROVE  Compare(op, arrays, objects, l, r) \in Json /\ Compare(op, arrays, objects, l, r).type = "Bool"
BY BoolTyped DEF Compare

(* A new vars function that binds one name more or anew.                   *)
LEMMA BoundVars ==
  ASSUME NEW bindings \in Vars, NEW key \in Text, NEW value \in Json
  PROVE  [x \in (DOMAIN bindings) \cup {key} |-> IF x = key THEN value ELSE bindings[x]] \in Vars
<1>1. PICK S \in SUBSET Text : bindings \in [S -> Json]
  BY DEF Vars
<1> DEFINE f == [x \in (DOMAIN bindings) \cup {key} |-> IF x = key THEN value ELSE bindings[x]]
<1>2. DOMAIN bindings = S /\ S \cup {key} \in SUBSET Text
  BY <1>1
<1>3. f \in [S \cup {key} -> Json]
  BY <1>1, <1>2
<1> QED
  BY <1>2, <1>3 DEF Vars

(* EnvScope::write marks a scope: what was good stays good.                *)
LEMMA MarkGood ==
  ASSUME NEW w, NEW h, NEW scopes, ScopesGood(w, h, scopes),
         NEW s \in 1..Len(scopes), NEW v
  PROVE  LET new == Mark(scopes, s, v)
         IN  /\ ScopesGood(w, h, new)
             /\ Len(new) = Len(scopes)
             /\ MightHaveFunction(v) => new[s].has_closures
             /\ \A t \in 1..Len(scopes) :
                  /\ new[t].parent = scopes[t].parent
                  /\ new[t].vars = scopes[t].vars
                  /\ scopes[t].has_closures => new[t].has_closures
<1> DEFINE new == Mark(scopes, s, v)
           marked == [scopes[s] EXCEPT !.has_closures = @ \/ MightHaveFunction(v)]
<1>1. scopes \in Seq(ScopeRecord) /\ scopes[s] \in ScopeRecord
  BY DEF ScopesGood
<1>2. new = [scopes EXCEPT ![s] = marked]
  BY DEF Mark
<1>3. /\ marked \in ScopeRecord
      /\ marked.parent = scopes[s].parent
      /\ marked.vars = scopes[s].vars
      /\ scopes[s].has_closures => marked.has_closures
      /\ MightHaveFunction(v) => marked.has_closures
  BY <1>1 DEF ScopeRecord, MightHaveFunction
<1> HIDE DEF marked, new
<1>4. /\ new \in Seq(ScopeRecord)
      /\ Len(new) = Len(scopes)
      /\ new[s] = marked
      /\ \A t \in 1..Len(scopes) : t # s => new[t] = scopes[t]
  BY <1>1, <1>2, <1>3
<1>5. \A t \in 1..Len(scopes) :
        /\ new[t].parent = scopes[t].parent
        /\ new[t].vars = scopes[t].vars
        /\ scopes[t].has_closures => new[t].has_closures
  BY <1>3, <1>4
<1>6. OlderParents(new)
  BY <1>4, <1>5 DEF ScopesGood, OlderParents
<1>7. \A t \in 1..Len(new) : Vals(w, h, new[t].vars) /\ Marked(w, new[t])
  BY <1>4, <1>5 DEF ScopesGood, Marked
<1> QED
  BY <1>3, <1>4, <1>5, <1>6, <1>7 DEF ScopesGood, new

(* Binding a value that exists, in a scope that is marked if it must be.   *)
LEMMA BindGood ==
  ASSUME NEW w, NEW h, NEW scopes, ScopesGood(w, h, scopes),
         NEW s \in 1..Len(scopes), NEW key \in Text, NEW v, Val(w, h, v),
         w.flagged /\ MightHaveFunction(v) => scopes[s].has_closures
  PROVE  LET new == Bind(scopes, s, key, v)
         IN  /\ ScopesGood(w, h, new)
             /\ Len(new) = Len(scopes)
             /\ \A t \in 1..Len(scopes) : new[t].parent = scopes[t].parent
<1> DEFINE new == Bind(scopes, s, key, v)
           bindings == [x \in (DOMAIN scopes[s].vars) \cup {key} |->
                      IF x = key THEN v ELSE scopes[s].vars[x]]
           bound == [scopes[s] EXCEPT !.vars = bindings]
<1>1. scopes \in Seq(ScopeRecord) /\ scopes[s] \in ScopeRecord
  BY DEF ScopesGood
<1>2. scopes[s].vars \in Vars /\ v \in Json
  BY <1>1 DEF ScopeRecord, Val
<1>3. bindings \in Vars
  BY <1>2, BoundVars
<1>4. new = [scopes EXCEPT ![s] = bound]
  BY DEF Bind
<1>5. Vals(w, h, bindings)
  BY DEF ScopesGood, Vals
<1>6. w.flagged /\ (\E x \in DOMAIN bindings : MightHaveFunction(bindings[x])) =>
        scopes[s].has_closures
  BY DEF ScopesGood, Marked
<1> HIDE DEF bindings
<1>7. /\ bound \in ScopeRecord
      /\ bound.parent = scopes[s].parent
      /\ bound.vars = bindings
      /\ bound.has_closures = scopes[s].has_closures
  BY <1>1, <1>3 DEF ScopeRecord
<1> HIDE DEF bound, new
<1>8. /\ new \in Seq(ScopeRecord)
      /\ Len(new) = Len(scopes)
      /\ new[s] = bound
      /\ \A t \in 1..Len(scopes) : t # s => new[t] = scopes[t]
  BY <1>1, <1>4, <1>7
<1>9. \A t \in 1..Len(scopes) : new[t].parent = scopes[t].parent
  BY <1>7, <1>8
<1>10. OlderParents(new)
  BY <1>8, <1>9 DEF ScopesGood, OlderParents
<1>11. Vals(w, h, bound.vars) /\ Marked(w, bound)
  BY <1>5, <1>6, <1>7 DEF Marked
<1>12. \A t \in 1..Len(new) : Vals(w, h, new[t].vars) /\ Marked(w, new[t])
  BY <1>8, <1>11 DEF ScopesGood
<1> QED
  BY <1>8, <1>9, <1>10, <1>12 DEF ScopesGood, new

(* The two writes and the read of EnvScope.                                *)
LEMMA WriteLocalGood ==
  ASSUME NEW w, NEW h, NEW scopes, ScopesGood(w, h, scopes),
         NEW s \in 1..Len(scopes), NEW key \in Text, NEW v, Val(w, h, v)
  PROVE  LET new == WriteLocal(scopes, s, key, v)
         IN  /\ ScopesGood(w, h, new)
             /\ Len(new) = Len(scopes)
             /\ \A t \in 1..Len(scopes) : new[t].parent = scopes[t].parent
<1> DEFINE marked == Mark(scopes, s, v)
<1>1. /\ ScopesGood(w, h, marked)
      /\ Len(marked) = Len(scopes)
      /\ MightHaveFunction(v) => marked[s].has_closures
      /\ \A t \in 1..Len(scopes) : marked[t].parent = scopes[t].parent
  BY MarkGood
<1> HIDE DEF marked
<1>2. LET new == Bind(marked, s, key, v)
      IN  /\ ScopesGood(w, h, new)
          /\ Len(new) = Len(marked)
          /\ \A t \in 1..Len(marked) : new[t].parent = marked[t].parent
  BY <1>1, BindGood
<1> QED
  BY <1>1, <1>2 DEF WriteLocal, marked

LEMMA WriteGlobalGood ==
  ASSUME NEW w, NEW h, NEW scopes, ScopesGood(w, h, scopes),
         NEW s \in 1..Len(scopes), NEW key \in Text, NEW v, Val(w, h, v)
  PROVE  LET new == WriteGlobal(scopes, s, key, v)
         IN  /\ ScopesGood(w, h, new)
             /\ Len(new) = Len(scopes)
             /\ \A t \in 1..Len(scopes) : new[t].parent = scopes[t].parent
<1> DEFINE owner  == Owner(scopes, s, key)
           target == IF owner = 0 THEN s ELSE owner
           first  == Mark(scopes, s, v)
           second == Mark(first, target, v)
<1>1. scopes \in Seq(ScopeRecord) /\ OlderParents(scopes) /\ s \in 0..Len(scopes)
  BY DEF ScopesGood
<1>2. owner \in 0..Len(scopes)
  BY <1>1, OwnerFound
<1>3. target \in 1..Len(scopes)
  BY <1>1, <1>2
<1>4. /\ ScopesGood(w, h, first)
      /\ Len(first) = Len(scopes)
      /\ \A t \in 1..Len(scopes) : first[t].parent = scopes[t].parent
  BY MarkGood
<1> HIDE DEF first, target
<1>5. /\ ScopesGood(w, h, second)
      /\ Len(second) = Len(first)
      /\ MightHaveFunction(v) => second[target].has_closures
      /\ \A t \in 1..Len(first) : second[t].parent = first[t].parent
  BY <1>3, <1>4, MarkGood
<1> HIDE DEF second
<1>6. LET new == Bind(second, target, key, v)
      IN  /\ ScopesGood(w, h, new)
          /\ Len(new) = Len(second)
          /\ \A t \in 1..Len(second) : new[t].parent = second[t].parent
  BY <1>3, <1>4, <1>5, BindGood
<1>7. WriteGlobal(scopes, s, key, v) = Bind(second, target, key, v)
  BY DEF WriteGlobal, first, second, target
<1> QED
  BY <1>4, <1>5, <1>6, <1>7

LEMMA ReadGood ==
  ASSUME NEW w, NEW h, NEW scopes, ScopesGood(w, h, scopes),
         NEW s \in 1..Len(scopes), NEW key \in Text
  PROVE  /\ Val(w, h, Read(scopes, s, key))
         /\ ScopesGood(w, h, Touch(scopes, s, key))
         /\ Len(Touch(scopes, s, key)) = Len(scopes)
         /\ \A t \in 1..Len(scopes) : Touch(scopes, s, key)[t].parent = scopes[t].parent
<1> DEFINE owner == Owner(scopes, s, key)
<1>1. scopes \in Seq(ScopeRecord) /\ OlderParents(scopes) /\ s \in 0..Len(scopes)
  BY DEF ScopesGood
<1>2. owner \in 0..Len(scopes) /\ (owner # 0 => key \in DOMAIN scopes[owner].vars)
  BY <1>1, OwnerFound
<1>3. Val(w, h, NullJson) /\ ~ MightHaveFunction(NullJson)
  BY NullVal DEF MightHaveFunction, NullJson
<1>4. Val(w, h, Read(scopes, s, key))
  <2>1. CASE owner = 0
    BY <1>3, <2>1 DEF Read
  <2>2. CASE owner # 0
    <3>1. Vals(w, h, scopes[owner].vars) /\ key \in DOMAIN scopes[owner].vars
      BY <1>1, <1>2, <2>2 DEF ScopesGood
    <3> QED
      BY <2>2, <3>1 DEF Read, Vals
  <2> QED
    BY <2>1, <2>2
<1>5. LET new == Bind(scopes, s, key, NullJson)
      IN  /\ ScopesGood(w, h, new)
          /\ Len(new) = Len(scopes)
          /\ \A t \in 1..Len(scopes) : new[t].parent = scopes[t].parent
  BY <1>3, BindGood
<1> QED
  BY <1>4, <1>5 DEF Touch

(* A heap whose scopes were replaced by as many good ones.                 *)
LEMMA NewScopesGood ==
  ASSUME NEW w, NEW h, HeapGood(w, h), NEW new, ScopesGood(w, h, new),
         Len(new) = Len(h.scopes)
  PROVE  HeapGood(w, [h EXCEPT !.scopes = new]) /\ Extends(h, [h EXCEPT !.scopes = new])
<1> DEFINE g == [h EXCEPT !.scopes = new]
<1>1. h \in Heap /\ new \in Seq(ScopeRecord)
  BY DEF HeapGood, ScopesGood
<1>2. g \in Heap /\ g.scopes = new /\ g.arrays = h.arrays /\ g.objects = h.objects
  BY <1>1 DEF Heap
<1>3. Extends(h, g)
  BY <1>1, <1>2 DEF Extends, Heap
<1> HIDE DEF g
<1>4. \A f : Vals(w, h, f) => Vals(w, g, f)
  BY <1>1, <1>2, <1>3, ValsKept
<1>5. ScopesGood(w, g, g.scopes)
  BY <1>2, <1>4 DEF ScopesGood
<1>6. HeapGood(w, g)
  BY <1>2, <1>4, <1>5 DEF HeapGood
<1> QED
  BY <1>3, <1>6 DEF g

(* A heap with one scope more, whose parent is one of the others.          *)
LEMMA AppendScopeGood ==
  ASSUME NEW w, NEW h, HeapGood(w, h),
         NEW scope \in ScopeRecord, scope.parent \in 0..Len(h.scopes),
         Vals(w, h, scope.vars), Marked(w, scope)
  PROVE  LET g == [h EXCEPT !.scopes = Append(@, scope)]
         IN  /\ HeapGood(w, g)
             /\ Extends(h, g)
             /\ Len(g.scopes) = Len(h.scopes) + 1
             /\ \A t \in 1..Len(h.scopes) : g.scopes[t] = h.scopes[t]
<1> DEFINE g == [h EXCEPT !.scopes = Append(@, scope)]
<1>1. h \in Heap /\ h.scopes \in Seq(ScopeRecord)
  BY DEF HeapGood, Heap
<1> DEFINE longer == Append(h.scopes, scope)
<1>2. longer \in Seq(ScopeRecord)
  BY <1>1
<1>3. /\ g \in Heap
      /\ g.scopes = longer
      /\ g.arrays = h.arrays
      /\ g.objects = h.objects
  <2> HIDE DEF longer
  <2>1. g = [h EXCEPT !.scopes = longer]
    BY DEF longer
  <2> HIDE DEF g
  <2> QED
    BY <1>2, <1>1, <2>1 DEF Heap
<1>4. /\ g.scopes \in Seq(ScopeRecord)
      /\ Len(g.scopes) = Len(h.scopes) + 1
      /\ \A t \in 1..Len(h.scopes) : g.scopes[t] = h.scopes[t]
      /\ g.scopes[Len(h.scopes) + 1] = scope
  BY <1>1, <1>3
<1>5. Extends(h, g)
  BY <1>1, <1>3, <1>4 DEF Extends, Heap
<1> HIDE DEF g
<1>6. \A f : Vals(w, h, f) => Vals(w, g, f)
  BY <1>1, <1>3, <1>5, ValsKept
<1>7. OlderParents(g.scopes)
  BY <1>1, <1>4 DEF HeapGood, ScopesGood, OlderParents
<1>8. \A t \in 1..Len(g.scopes) : Vals(w, g, g.scopes[t].vars) /\ Marked(w, g.scopes[t])
  <2> SUFFICES ASSUME NEW t \in 1..Len(g.scopes)
               PROVE  Vals(w, h, g.scopes[t].vars) /\ Marked(w, g.scopes[t])
    BY <1>6
  <2>1. CASE t \in 1..Len(h.scopes)
    BY <1>4, <2>1 DEF HeapGood, ScopesGood
  <2>2. CASE t = Len(h.scopes) + 1
    BY <1>4, <2>2
  <2> QED
    BY <1>1, <1>4, <2>1, <2>2
<1>9. HeapGood(w, g)
  BY <1>3, <1>4, <1>6, <1>7, <1>8 DEF HeapGood, ScopesGood
<1> QED
  BY <1>4, <1>5, <1>9 DEF g

-----------------------------------------------------------------------------

(* A function on 1..n is a sequence.                                       *)
LEMMA FunctionIsSeq ==
  ASSUME NEW S, NEW n \in Nat, NEW f \in [1..n -> S]
  PROVE  f \in Seq(S) /\ Len(f) = n
OBVIOUS

(* New cells for arrays and objects, and new contents for cells there are. *)
LEMMA AppendArrayGood ==
  ASSUME NEW w, NEW h, HeapGood(w, h), NEW cell \in Seq(Json), Vals(w, h, cell)
  PROVE  LET g == [h EXCEPT !.arrays = Append(@, cell)]
         IN  /\ HeapGood(w, g)
             /\ Extends(h, g)
             /\ g.scopes = h.scopes
             /\ Len(g.arrays) = Len(h.arrays) + 1
<1> DEFINE longer == Append(h.arrays, cell)
           g == [h EXCEPT !.arrays = longer]
<1>1. h \in Heap /\ h.arrays \in Seq(Seq(Json))
  BY DEF HeapGood, Heap
<1>2. /\ longer \in Seq(Seq(Json))
      /\ Len(longer) = Len(h.arrays) + 1
      /\ \A c \in 1..Len(h.arrays) : longer[c] = h.arrays[c]
      /\ longer[Len(h.arrays) + 1] = cell
  BY <1>1
<1> HIDE DEF longer
<1>3. g \in Heap /\ g.scopes = h.scopes /\ g.arrays = longer /\ g.objects = h.objects
  BY <1>1, <1>2 DEF Heap
<1>4. Extends(h, g)
  BY <1>1, <1>2, <1>3 DEF Extends, Heap
<1> HIDE DEF g
<1>5. \A f : Vals(w, h, f) => Vals(w, g, f)
  BY <1>1, <1>3, <1>4, ValsKept
<1>6. \A c \in 1..Len(longer) : Vals(w, h, longer[c])
  <2> SUFFICES ASSUME NEW c \in 1..Len(longer) PROVE Vals(w, h, longer[c])
    OBVIOUS
  <2>1. c \in 1..Len(h.arrays) \/ c = Len(h.arrays) + 1
    BY <1>1, <1>2
  <2> QED
    BY <1>2, <2>1 DEF HeapGood
<1>7. HeapGood(w, g)
  BY <1>3, <1>5, <1>6 DEF HeapGood, ScopesGood
<1>8. g = [h EXCEPT !.arrays = Append(@, cell)]
  BY DEF g, longer
<1> QED
  BY <1>2, <1>3, <1>4, <1>7, <1>8

LEMMA AppendObjectGood ==
  ASSUME NEW w, NEW h, HeapGood(w, h), NEW cell \in Vars, Vals(w, h, cell)
  PROVE  LET g == [h EXCEPT !.objects = Append(@, cell)]
         IN  /\ HeapGood(w, g)
             /\ Extends(h, g)
             /\ g.scopes = h.scopes
             /\ Len(g.objects) = Len(h.objects) + 1
<1> DEFINE longer == Append(h.objects, cell)
           g == [h EXCEPT !.objects = longer]
<1>1. h \in Heap /\ h.objects \in Seq(Vars)
  BY DEF HeapGood, Heap
<1>2. /\ longer \in Seq(Vars)
      /\ Len(longer) = Len(h.objects) + 1
      /\ \A c \in 1..Len(h.objects) : longer[c] = h.objects[c]
      /\ longer[Len(h.objects) + 1] = cell
  BY <1>1
<1> HIDE DEF longer
<1>3. g \in Heap /\ g.scopes = h.scopes /\ g.arrays = h.arrays /\ g.objects = longer
  BY <1>1, <1>2 DEF Heap
<1>4. Extends(h, g)
  BY <1>1, <1>2, <1>3 DEF Extends, Heap
<1> HIDE DEF g
<1>5. \A f : Vals(w, h, f) => Vals(w, g, f)
  BY <1>1, <1>3, <1>4, ValsKept
<1>6. \A c \in 1..Len(longer) : Vals(w, h, longer[c])
  <2> SUFFICES ASSUME NEW c \in 1..Len(longer) PROVE Vals(w, h, longer[c])
    OBVIOUS
  <2>1. c \in 1..Len(h.objects) \/ c = Len(h.objects) + 1
    BY <1>1, <1>2
  <2> QED
    BY <1>2, <2>1 DEF HeapGood
<1>7. HeapGood(w, g)
  BY <1>3, <1>5, <1>6 DEF HeapGood, ScopesGood
<1>8. g = [h EXCEPT !.objects = Append(@, cell)]
  BY DEF g, longer
<1> QED
  BY <1>2, <1>3, <1>4, <1>7, <1>8

LEMMA NewArrayGood ==
  ASSUME NEW w, NEW h, HeapGood(w, h), NEW c \in 1..Len(h.arrays),
         NEW cell \in Seq(Json), Vals(w, h, cell)
  PROVE  LET g == [h EXCEPT !.arrays[c] = cell]
         IN  HeapGood(w, g) /\ Extends(h, g) /\ g.scopes = h.scopes
<1> DEFINE new == [h.arrays EXCEPT ![c] = cell]
           g == [h EXCEPT !.arrays = new]
<1>1. h \in Heap /\ h.arrays \in Seq(Seq(Json))
  BY DEF HeapGood, Heap
<1>2. /\ new \in Seq(Seq(Json))
      /\ Len(new) = Len(h.arrays)
      /\ \A d \in 1..Len(new) : new[d] = IF d = c THEN cell ELSE h.arrays[d]
  BY <1>1
<1> HIDE DEF new
<1>3. g \in Heap /\ g.scopes = h.scopes /\ g.arrays = new /\ g.objects = h.objects
  BY <1>1, <1>2 DEF Heap
<1>4. Extends(h, g)
  BY <1>1, <1>2, <1>3 DEF Extends, Heap
<1> HIDE DEF g
<1>5. \A f : Vals(w, h, f) => Vals(w, g, f)
  BY <1>1, <1>3, <1>4, ValsKept
<1>6. \A d \in 1..Len(new) : Vals(w, h, new[d])
  BY <1>2 DEF HeapGood
<1>7. HeapGood(w, g)
  BY <1>3, <1>5, <1>6 DEF HeapGood, ScopesGood
<1>8. g = [h EXCEPT !.arrays[c] = cell]
  BY DEF g, new
<1> QED
  BY <1>3, <1>4, <1>7, <1>8

LEMMA NewObjectGood ==
  ASSUME NEW w, NEW h, HeapGood(w, h), NEW c \in 1..Len(h.objects),
         NEW cell \in Vars, Vals(w, h, cell)
  PROVE  LET g == [h EXCEPT !.objects[c] = cell]
         IN  HeapGood(w, g) /\ Extends(h, g) /\ g.scopes = h.scopes
<1> DEFINE new == [h.objects EXCEPT ![c] = cell]
           g == [h EXCEPT !.objects = new]
<1>1. h \in Heap /\ h.objects \in Seq(Vars)
  BY DEF HeapGood, Heap
<1>2. /\ new \in Seq(Vars)
      /\ Len(new) = Len(h.objects)
      /\ \A d \in 1..Len(new) : new[d] = IF d = c THEN cell ELSE h.objects[d]
  BY <1>1
<1> HIDE DEF new
<1>3. g \in Heap /\ g.scopes = h.scopes /\ g.arrays = h.arrays /\ g.objects = new
  BY <1>1, <1>2 DEF Heap
<1>4. Extends(h, g)
  BY <1>1, <1>2, <1>3 DEF Extends, Heap
<1> HIDE DEF g
<1>5. \A f : Vals(w, h, f) => Vals(w, g, f)
  BY <1>1, <1>3, <1>4, ValsKept
<1>6. \A d \in 1..Len(new) : Vals(w, h, new[d])
  BY <1>2 DEF HeapGood
<1>7. HeapGood(w, g)
  BY <1>3, <1>5, <1>6 DEF HeapGood, ScopesGood
<1>8. g = [h EXCEPT !.objects[c] = cell]
  BY DEF g, new
<1> QED
  BY <1>3, <1>4, <1>7, <1>8

(* What one visit of breakCyclesInJson leaves of the values it visits.     *)
LEMMA ClearedGood ==
  ASSUME NEW w, NEW h \in Heap, NEW dying, NEW f, Vals(w, h, f)
  PROVE  /\ DOMAIN ClearClosures(f, dying) = DOMAIN f
         /\ Vals(w, h, ClearClosures(f, dying))
         /\ \A k \in DOMAIN f :
              MightHaveFunction(ClearClosures(f, dying)[k]) => MightHaveFunction(f[k])
<1>1. ASSUME NEW v, Val(w, h, v)
      PROVE  /\ Val(w, h, ClearClosure(v, dying))
             /\ MightHaveFunction(ClearClosure(v, dying)) => MightHaveFunction(v)
  <2>1. CASE v.type = "Function" /\ v.ref = dying
    <3> DEFINE u == [v EXCEPT !.ref = 0]
    <3>1. v \in Json /\ v.n \in w.functions /\ Len(h.scopes) \in Nat
      BY <1>1, <2>1 DEF Val, Heap
    <3>2. u \in Json /\ u.type = "Function" /\ u.n = v.n /\ u.ref = 0
      BY <2>1, <3>1 DEF Json
    <3>3. ClearClosure(v, dying) = u
      BY <2>1 DEF ClearClosure
    <3> HIDE DEF u
    <3> QED
      BY <2>1, <3>1, <3>2, <3>3 DEF Val, MightHaveFunction
  <2>2. CASE ~ (v.type = "Function" /\ v.ref = dying)
    BY <1>1, <2>2 DEF ClearClosure
  <2> QED
    BY <2>1, <2>2
<1> QED
  BY <1>1 DEF Vals, ClearClosures

(* Whatever cycles are broken, the heap stays good, and a parent link is   *)
(* cut only if it led to the dying scope.                                  *)
LEMMA BreakCyclesGood ==
  ASSUME NEW w, NEW h, HeapGood(w, h), NEW dying \in 1..Len(h.scopes)
  PROVE  LET g == BreakCycles(h, dying)
         IN  /\ HeapGood(w, g)
             /\ Extends(h, g)
             /\ Len(g.scopes) = Len(h.scopes)
             /\ \A s \in 1..Len(h.scopes) :
                  \/ g.scopes[s].parent = h.scopes[s].parent
                  \/ h.scopes[s].parent = dying /\ g.scopes[s].parent = 0
<1> DEFINE values  == Range(h.scopes[dying].vars)
           reached == Reachable(h, values)
           severed == UNION {SeveredFor(h.scopes, f.ref, dying) : f \in FunctionsIn(h, values)}
           scopeOf(s) == [h.scopes[s] EXCEPT
                            !.parent = IF s \in severed THEN 0 ELSE @,
                            !.vars   = IF s = dying THEN ClearClosures(@, dying) ELSE @]
           arrayOf(c) == IF ArrayJson(c) \in reached
                         THEN ClearClosures(h.arrays[c], dying) ELSE h.arrays[c]
           objectOf(c) == IF ObjectJson(c) \in reached
                          THEN ClearClosures(h.objects[c], dying) ELSE h.objects[c]
           scopes  == [s \in DOMAIN h.scopes |-> scopeOf(s)]
           arrays  == [c \in DOMAIN h.arrays |-> arrayOf(c)]
           objects == [c \in DOMAIN h.objects |-> objectOf(c)]
           g == BreakCycles(h, dying)
<1>1. g = [scopes |-> scopes, arrays |-> arrays, objects |-> objects]
  BY DEF BreakCycles
<1>2. \A s \in severed : h.scopes[s].parent = dying
  BY DEF SeveredFor
<1> HIDE DEF severed, reached
<1>3. /\ h \in Heap
      /\ h.scopes \in Seq(ScopeRecord) /\ DOMAIN h.scopes = 1..Len(h.scopes)
      /\ h.arrays \in Seq(Seq(Json)) /\ DOMAIN h.arrays = 1..Len(h.arrays)
      /\ h.objects \in Seq(Vars) /\ DOMAIN h.objects = 1..Len(h.objects)
      /\ Len(h.scopes) \in Nat /\ Len(h.arrays) \in Nat /\ Len(h.objects) \in Nat
  BY DEF HeapGood, Heap
<1>4. \A bindings \in Vars : Vals(w, h, bindings) => ClearClosures(bindings, dying) \in Vars
  <2> SUFFICES ASSUME NEW bindings \in Vars, Vals(w, h, bindings)
               PROVE  ClearClosures(bindings, dying) \in Vars
    OBVIOUS
  <2>1. PICK S \in SUBSET Text : bindings \in [S -> Json]
    BY DEF Vars
  <2>2. ClearClosures(bindings, dying) \in [S -> Json]
    <3>1. Vals(w, h, ClearClosures(bindings, dying)) /\ DOMAIN ClearClosures(bindings, dying) = S
      <4>1. Vals(w, h, ClearClosures(bindings, dying))
        BY <1>3, ClearedGood
      <4> QED
        BY <2>1, <4>1 DEF ClearClosures
    <3>2. \A k \in S : ClearClosures(bindings, dying)[k] \in Json
      BY <3>1 DEF Vals, Val
    <3> QED
      BY <3>1, <3>2 DEF ClearClosures
  <2> QED
    BY <2>2 DEF Vars
<1>5. \A s \in 1..Len(h.scopes) :
        /\ scopeOf(s) \in ScopeRecord
        /\ \/ scopeOf(s).parent = h.scopes[s].parent
           \/ h.scopes[s].parent = dying /\ scopeOf(s).parent = 0
        /\ Vals(w, h, scopeOf(s).vars)
        /\ Marked(w, scopeOf(s))
  <2> SUFFICES ASSUME NEW s \in 1..Len(h.scopes)
               PROVE  /\ scopeOf(s) \in ScopeRecord
                      /\ \/ scopeOf(s).parent = h.scopes[s].parent
                         \/ h.scopes[s].parent = dying /\ scopeOf(s).parent = 0
                      /\ Vals(w, h, scopeOf(s).vars)
                      /\ Marked(w, scopeOf(s))
    OBVIOUS
  <2>1. h.scopes[s] \in ScopeRecord /\ Vals(w, h, h.scopes[s].vars) /\ Marked(w, h.scopes[s])
    BY <1>3 DEF HeapGood, ScopesGood
  <2> DEFINE old == h.scopes[s]
             parent == IF s \in severed THEN 0 ELSE old.parent
             bindings == IF s = dying THEN ClearClosures(old.vars, dying) ELSE old.vars
  <2>2. old.parent \in Nat /\ old.vars \in Vars
    BY <2>1 DEF ScopeRecord
  <2>3. parent \in Nat /\ (parent = old.parent \/ (old.parent = dying /\ parent = 0))
    BY <1>2, <2>2
  <2>4. /\ bindings \in Vars
        /\ Vals(w, h, bindings)
        /\ \A k \in DOMAIN bindings : k \in DOMAIN old.vars /\
             (MightHaveFunction(bindings[k]) => MightHaveFunction(old.vars[k]))
    BY ZenonT(30), <1>3, <1>4, <2>1, <2>2, ClearedGood
  <2>5. scopeOf(s) = [old EXCEPT !.parent = parent, !.vars = bindings]
    OBVIOUS
  <2> HIDE DEF parent, bindings, scopeOf
  <2>6. /\ scopeOf(s) \in ScopeRecord
        /\ scopeOf(s).parent = parent
        /\ scopeOf(s).vars = bindings
        /\ scopeOf(s).has_closures = old.has_closures
    BY <2>1, <2>3, <2>4, <2>5 DEF ScopeRecord
  <2>7. Marked(w, scopeOf(s))
    BY <2>1, <2>4, <2>6 DEF Marked
  <2> QED
    BY <2>3, <2>4, <2>6, <2>7
<1>6. \A c \in 1..Len(h.arrays) : arrayOf(c) \in Seq(Json) /\ Vals(w, h, arrayOf(c))
  <2> SUFFICES ASSUME NEW c \in 1..Len(h.arrays)
               PROVE  arrayOf(c) \in Seq(Json) /\ Vals(w, h, arrayOf(c))
    OBVIOUS
  <2>1. h.arrays[c] \in Seq(Json) /\ Vals(w, h, h.arrays[c])
    BY <1>3 DEF HeapGood
  <2> DEFINE cleared == ClearClosures(h.arrays[c], dying)
  <2>2. Len(h.arrays[c]) \in Nat /\ DOMAIN h.arrays[c] = 1..Len(h.arrays[c])
    BY <2>1
  <2>3. Vals(w, h, cleared)
    BY <1>3, <2>1, ClearedGood
  <2>4. Vals(w, h, cleared) /\ DOMAIN cleared = DOMAIN h.arrays[c]
    BY <2>3 DEF ClearClosures
  <2>5. \A k \in DOMAIN cleared : cleared[k] \in Json
    BY <2>4 DEF Vals, Val
  <2>6. cleared \in [1..Len(h.arrays[c]) -> Json]
    BY <2>4, <2>2, <2>5 DEF ClearClosures
  <2> HIDE DEF cleared
  <2>7. cleared \in Seq(Json)
    BY <2>6, <2>2, FunctionIsSeq
  <2> QED
    BY <2>1, <2>4, <2>7 DEF cleared
<1>7. \A c \in 1..Len(h.objects) : objectOf(c) \in Vars /\ Vals(w, h, objectOf(c))
  <2> SUFFICES ASSUME NEW c \in 1..Len(h.objects)
               PROVE  objectOf(c) \in Vars /\ Vals(w, h, objectOf(c))
    OBVIOUS
  <2>1. h.objects[c] \in Vars /\ Vals(w, h, h.objects[c])
    BY <1>3 DEF HeapGood
  <2> QED
    BY <1>3, <1>4, <2>1, ClearedGood
<1> HIDE DEF scopeOf, arrayOf, objectOf, g
<1>8. /\ scopes \in Seq(ScopeRecord) /\ Len(scopes) = Len(h.scopes)
      /\ arrays \in Seq(Seq(Json)) /\ Len(arrays) = Len(h.arrays)
      /\ objects \in Seq(Vars) /\ Len(objects) = Len(h.objects)
  <2>1. /\ scopes \in [1..Len(h.scopes) -> ScopeRecord]
        /\ arrays \in [1..Len(h.arrays) -> Seq(Json)]
        /\ objects \in [1..Len(h.objects) -> Vars]
    BY <1>3, <1>5, <1>6, <1>7
  <2> HIDE DEF scopes, arrays, objects
  <2> QED
    BY <1>3, <2>1, FunctionIsSeq
<1>9. /\ \A s \in 1..Len(h.scopes) : scopes[s] = scopeOf(s)
      /\ \A c \in 1..Len(h.arrays) : arrays[c] = arrayOf(c)
      /\ \A c \in 1..Len(h.objects) : objects[c] = objectOf(c)
  BY <1>3
<1> HIDE DEF scopes, arrays, objects
<1>10. g \in Heap /\ g.scopes = scopes /\ g.arrays = arrays /\ g.objects = objects
  BY <1>1, <1>8 DEF Heap
<1>11. Extends(h, g)
  BY <1>3, <1>8, <1>10 DEF Extends
<1>12. \A f : Vals(w, h, f) => Vals(w, g, f)
  BY <1>3, <1>10, <1>11, ValsKept
<1>13. OlderParents(scopes)
  <2>1. \A s \in 1..Len(h.scopes) : h.scopes[s].parent < s
    BY DEF HeapGood, ScopesGood, OlderParents
  <2>2. \A s \in 1..Len(h.scopes) : scopes[s].parent = h.scopes[s].parent \/ scopes[s].parent = 0
    BY <1>5, <1>9
  <2>3. ASSUME NEW s \in 1..Len(h.scopes) PROVE scopes[s].parent < s
    BY <2>1, <2>2
  <2> QED
    BY <1>8, <2>3 DEF OlderParents
<1>14. ScopesGood(w, g, g.scopes)
  BY <1>5, <1>8, <1>9, <1>10, <1>12, <1>13 DEF ScopesGood
<1>15. HeapGood(w, g)
  BY <1>6, <1>7, <1>8, <1>9, <1>10, <1>12, <1>14 DEF HeapGood
<1> QED
  BY <1>5, <1>8, <1>9, <1>10, <1>11, <1>15 DEF g

-----------------------------------------------------------------------------
(* What the cycle breaker, and a copy, reach.                              *)

Cells(h) ==
  {ArrayJson(c) : c \in 1..Len(h.arrays)} \cup {ObjectJson(c) : c \in 1..Len(h.objects)}

(* Some containers and those right inside of them.                         *)
Further(h, found) == found \cup ContainersIn(UNION {Contents(h, c) : c \in found})

ReachFits(reach, h) ==
  reach = [found \in SUBSET Json |->
             LET more == Further(h, found) IN IF more = found THEN found ELSE reach[more]]

LEMMA CellsAreCells ==
  ASSUME NEW h
  PROVE  /\ \A c \in 1..Len(h.arrays) : /\ ArrayJson(c) \in Cells(h)
                                         /\ ArrayJson(c).type = "Array" /\ ArrayJson(c).ref = c
         /\ \A c \in 1..Len(h.objects) : /\ ObjectJson(c) \in Cells(h)
                                          /\ ObjectJson(c).type = "Object" /\ ObjectJson(c).ref = c
         /\ \A cell \in Cells(h) :
              \/ cell.type = "Array" /\ cell.ref \in 1..Len(h.arrays) /\ cell = ArrayJson(cell.ref)
              \/ cell.type = "Object" /\ cell.ref \in 1..Len(h.objects) /\ cell = ObjectJson(cell.ref)
<1>1. \A c : ArrayJson(c).type = "Array" /\ ArrayJson(c).ref = c
  BY DEF ArrayJson
<1>2. \A c : ObjectJson(c).type = "Object" /\ ObjectJson(c).ref = c
  BY DEF ObjectJson
<1> QED
  BY <1>1, <1>2 DEF Cells

LEMMA CellsVal ==
  ASSUME NEW w, NEW h, HeapGood(w, h)
  PROVE  /\ \A c \in Cells(h) : Val(w, h, c) /\ c \in Json
         /\ \A v : Val(w, h, v) /\ v.type \in {"Array", "Object"} => v \in Cells(h)
         /\ \A c \in Cells(h) : \A v \in Contents(h, c) : Val(w, h, v)
<1>1. Len(h.arrays) \in Nat /\ Len(h.objects) \in Nat
      /\ DOMAIN h.arrays = 1..Len(h.arrays) /\ DOMAIN h.objects = 1..Len(h.objects)
  BY DEF HeapGood, Heap
<1>2. \A c \in 1..Len(h.arrays) : ArrayJson(c) \in Json
  BY <1>1 DEF ArrayJson, Json, JsonType, Text
<1>3. \A c \in 1..Len(h.objects) : ObjectJson(c) \in Json
  BY <1>1 DEF ObjectJson, Json, JsonType, Text
<1>4. ASSUME NEW c \in Cells(h) PROVE Val(w, h, c) /\ c \in Json
  BY <1>2, <1>3, CellsAreCells DEF Val
<1>5. ASSUME NEW v, Val(w, h, v), v.type \in {"Array", "Object"} PROVE v \in Cells(h)
  BY <1>5 DEF Val, Cells
<1>6. ASSUME NEW c \in Cells(h), NEW v \in Contents(h, c) PROVE Val(w, h, v)
  <2>1. CASE c.type = "Array" /\ c.ref \in 1..Len(h.arrays)
    BY <2>1, <1>6 DEF Contents, Range, HeapGood, Vals
  <2>2. CASE c.type = "Object" /\ c.ref \in 1..Len(h.objects)
    BY <2>2, <1>6 DEF Contents, Range, HeapGood, Vals
  <2> QED
    BY <2>1, <2>2, CellsAreCells
<1> QED
  BY <1>4, <1>5, <1>6

LEMMA CellsFinite ==
  ASSUME NEW h, Len(h.arrays) \in Nat, Len(h.objects) \in Nat
  PROVE  IsFiniteSet(Cells(h))
<1> DEFINE A == {ArrayJson(c) : c \in 1..Len(h.arrays)}
           O == {ObjectJson(c) : c \in 1..Len(h.objects)}
           a == [c \in 1..Len(h.arrays) |-> ArrayJson(c)]
           o == [c \in 1..Len(h.objects) |-> ObjectJson(c)]
<1>1. a \in Surjection(1..Len(h.arrays), A)
  BY DEF Surjection
<1>2. o \in Surjection(1..Len(h.objects), O)
  BY DEF Surjection
<1> HIDE DEF A, O, a, o
<1>3. IsFiniteSet(A)
  BY <1>1, FS_Interval, FS_Surjection
<1>4. IsFiniteSet(O)
  BY <1>2, FS_Interval, FS_Surjection
<1>5. Cells(h) = A \cup O
  BY DEF Cells, A, O
<1> QED
  BY <1>3, <1>4, <1>5, FS_Union

(* The walk of breakCyclesInJson is well defined: going from some          *)
(* containers to the smallest set of containers around them that nothing   *)
(* leads out of, is one that takes its steps.                              *)
LEMMA ReachExists == ASSUME NEW h PROVE \E reach : ReachFits(reach, h)
<1> DEFINE around(S) == {T \in SUBSET Json : S \subseteq T /\ Further(h, T) = T}
           least == [S \in SUBSET Json |-> {x \in Json : \A T \in around(S) : x \in T}]
<1>1. \A S \in SUBSET Json : S \subseteq Further(h, S) /\ Further(h, S) \in SUBSET Json
  BY DEF Further, ContainersIn
<1>2. \A S, T \in SUBSET Json : S \subseteq T => Further(h, S) \subseteq Further(h, T)
  BY DEF Further, ContainersIn
<1>3. ASSUME NEW S \in SUBSET Json
      PROVE  least[S] = IF Further(h, S) = S THEN S ELSE least[Further(h, S)]
  <2>1. CASE Further(h, S) = S
    <3>1. S \in around(S)
      BY <2>1
    <3>2. \A T \in around(S) : S \subseteq T
      OBVIOUS
    <3>3. least[S] = S
      BY <3>1, <3>2
    <3> QED
      BY <2>1, <3>3
  <2>2. CASE Further(h, S) # S
    <3>1. around(S) = around(Further(h, S))
      <4>1. ASSUME NEW T \in around(S) PROVE T \in around(Further(h, S))
        <5>1. T \in SUBSET Json /\ S \subseteq T /\ Further(h, T) = T
          BY <4>1
        <5>2. Further(h, S) \subseteq T
          BY <1>2, <5>1
        <5> QED
          BY <5>1, <5>2
      <4>2. ASSUME NEW T \in around(Further(h, S)) PROVE T \in around(S)
        BY <1>1
      <4> QED
        BY <4>1, <4>2
    <3>2. Further(h, S) \in SUBSET Json
      BY <1>1
    <3> HIDE DEF around
    <3>3. least[S] = least[Further(h, S)]
      BY <3>1, <3>2
    <3> QED
      BY <2>2, <3>3
  <2> QED
    BY <2>1, <2>2
<1>4. least = [S \in SUBSET Json |-> least[S]]
  OBVIOUS
<1> HIDE DEF least
<1>5. ReachFits(least, h)
  BY <1>3, <1>4, Zenon DEF ReachFits
<1> QED
  BY <1>5

(* What is reached is the smallest set that has the containers among the   *)
(* values and, with a container, those inside of it.                       *)
LEMMA ReachableSmallest ==
  ASSUME NEW w, NEW h, HeapGood(w, h), NEW values, \A v \in values : Val(w, h, v)
  PROVE  LET R == Reachable(h, values)
         IN  /\ R \subseteq Cells(h)
             /\ ContainersIn(values) \subseteq R
             /\ \A c \in R : ContainersIn(Contents(h, c)) \subseteq R
             /\ \A T : (/\ ContainersIn(values) \subseteq T
                       /\ \A c \in T \cap Cells(h) : ContainersIn(Contents(h, c)) \subseteq T)
                         => R \subseteq T
<1> DEFINE G == Cells(h)
           Closed(T) == \A c \in T \cap G : ContainersIn(Contents(h, c)) \subseteq T
           reach == CHOOSE f : ReachFits(f, h)
           Q(S) == /\ S \subseteq reach[S] /\ reach[S] \subseteq G
                   /\ Further(h, reach[S]) = reach[S]
                   /\ \A T : S \subseteq T /\ Closed(T) => reach[S] \subseteq T
           N == {n \in Nat : \A S \in SUBSET G : Cardinality(G \ S) < n => Q(S)}
<1>1. ReachFits(reach, h)
  BY ReachExists
<1>2. Reachable(h, values) = reach[ContainersIn(values)]
  BY DEF Reachable, ReachFits, Further
<1>3. G \in SUBSET Json /\ IsFiniteSet(G)
  <2>1. Len(h.arrays) \in Nat /\ Len(h.objects) \in Nat
    BY DEF HeapGood, Heap
  <2>2. G \in SUBSET Json
    BY CellsVal, CellsAreCells
  <2> QED
    BY <2>1, <2>2, CellsFinite
<1>4. \A S \in SUBSET Json :
        reach[S] = IF Further(h, S) = S THEN S ELSE reach[Further(h, S)]
  BY <1>1, Zenon DEF ReachFits
<1>5. ASSUME NEW S \in SUBSET G
      PROVE  S \subseteq Further(h, S) /\ Further(h, S) \in SUBSET G
  <2>1. \A c \in S : \A v \in Contents(h, c) : Val(w, h, v)
    BY CellsVal
  <2>2. ContainersIn(UNION {Contents(h, c) : c \in S}) \subseteq G
    BY <2>1, CellsVal DEF ContainersIn
  <2> QED
    BY <2>2 DEF Further
<1>6. ASSUME NEW S \in SUBSET G, NEW T, S \subseteq T, Closed(T)
      PROVE  Further(h, S) \subseteq T
  <2>1. \A c \in S : ContainersIn(Contents(h, c)) \subseteq T
    BY <1>6
  <2> QED
    BY <1>6, <2>1 DEF Further, ContainersIn
<1> HIDE DEF reach, G, Closed
<1>7. 0 \in N
  <2> SUFFICES ASSUME NEW S \in SUBSET G, Cardinality(G \ S) < 0 PROVE FALSE
    BY Zenon
  <2>1. Cardinality(G \ S) \in Nat
    BY <1>3, FS_Subset, FS_CardinalityType
  <2> QED
    BY <2>1
<1>8. ASSUME NEW n \in N PROVE n + 1 \in N
  <2> SUFFICES ASSUME NEW S \in SUBSET G, Cardinality(G \ S) < n + 1 PROVE Q(S)
    BY <1>8
  <2> DEFINE more == Further(h, S)
  <2>1. S \subseteq more /\ more \in SUBSET G /\ S \in SUBSET Json /\ more \in SUBSET Json
    BY <1>3, <1>5
  <2>2. CASE more = S
    <3>1. reach[S] = S
      BY <1>4, <2>1, <2>2
    <3> QED
      BY <2>2, <3>1
  <2>3. CASE more # S
    <3>1. reach[S] = reach[more]
      BY <1>4, <2>1, <2>3
    <3>2. Cardinality(G \ more) < n
      <4>1. G \ more \in SUBSET (G \ S) /\ G \ more # G \ S
        BY <2>1, <2>3
      <4>2. IsFiniteSet(G \ S) /\ IsFiniteSet(G \ more)
        BY <1>3, FS_Subset
      <4>3. Cardinality(G \ more) <= Cardinality(G \ S)
            /\ Cardinality(G \ more) # Cardinality(G \ S)
        BY <4>1, <4>2, FS_Subset
      <4>4. Cardinality(G \ S) \in Nat /\ Cardinality(G \ more) \in Nat
        BY <4>2, FS_CardinalityType
      <4> QED
        BY <1>8, <4>3, <4>4
    <3>3. Q(more)
      BY <1>8, <2>1, <3>2
    <3>4. \A T : S \subseteq T /\ Closed(T) => more \subseteq T
      BY <1>6
    <3> HIDE DEF more
    <3> QED
      BY <2>1, <3>1, <3>3, <3>4
  <2> QED
    BY <2>2, <2>3
<1> HIDE DEF N, Q
<1>9. N = Nat
  BY <1>7, <1>8, EveryNatural DEF N
<1> DEFINE start == ContainersIn(values)
<1>10. start \in SUBSET G
  BY CellsVal DEF ContainersIn, G
<1>11. Q(start)
  <2>1. Cardinality(G \ start) \in Nat
    BY <1>3, FS_Subset, FS_CardinalityType
  <2>2. Cardinality(G \ start) + 1 \in N /\ Cardinality(G \ start) < Cardinality(G \ start) + 1
    BY <1>9, <2>1
  <2> HIDE DEF start
  <2> QED
    BY <1>10, <2>2 DEF N
<1>12. \A c \in reach[start] : ContainersIn(Contents(h, c)) \subseteq reach[start]
  <2>1. Further(h, reach[start]) = reach[start]
    BY <1>11 DEF Q
  <2> HIDE DEF start
  <2> QED
    BY <2>1 DEF Further, ContainersIn
<1> HIDE DEF start
<1>13. /\ reach[start] \subseteq G /\ start \subseteq reach[start]
       /\ \A T : start \subseteq T /\ Closed(T) => reach[start] \subseteq T
  BY <1>11 DEF Q
<1>14. Reachable(h, values) = reach[start]
  BY <1>2 DEF start
<1> QED
  BY <1>12, <1>13, <1>14 DEF G, Closed, start


(* What BreakCycles makes of a heap, part by part.                         *)
LEMMA BrokenParts ==
  ASSUME NEW w, NEW h, HeapGood(w, h), NEW dying \in 1..Len(h.scopes)
  PROVE  LET g       == BreakCycles(h, dying)
             values  == Range(h.scopes[dying].vars)
             reached == Reachable(h, values)
         IN  /\ g.scopes[dying].vars = ClearClosures(h.scopes[dying].vars, dying)
             /\ \A c \in reached \cap Cells(h) :
                  \A v \in Contents(g, c) : \E u \in Contents(h, c) : v = ClearClosure(u, dying)
             /\ \A s \in 1..Len(h.scopes) : g.scopes[s].parent \in {0, h.scopes[s].parent}
             /\ \A f \in FunctionsIn(h, values) :
                  \A s \in SeveredFor(h.scopes, f.ref, dying) \cap (1..Len(h.scopes)) :
                    g.scopes[s].parent = 0
<1> DEFINE values  == Range(h.scopes[dying].vars)
           reached == Reachable(h, values)
           severed == UNION {SeveredFor(h.scopes, f.ref, dying) : f \in FunctionsIn(h, values)}
           g == BreakCycles(h, dying)
<1>1. /\ h.scopes \in Seq(ScopeRecord) /\ DOMAIN h.scopes = 1..Len(h.scopes)
      /\ DOMAIN h.arrays = 1..Len(h.arrays) /\ DOMAIN h.objects = 1..Len(h.objects)
  BY DEF HeapGood, Heap
<1>2. \A s \in 1..Len(h.scopes) : h.scopes[s] \in ScopeRecord
  BY <1>1
<1>3. \A s \in 1..Len(h.scopes) :
        /\ g.scopes[s].parent = IF s \in severed THEN 0 ELSE h.scopes[s].parent
        /\ s = dying => g.scopes[s].vars = ClearClosures(h.scopes[s].vars, dying)
  <2> SUFFICES ASSUME NEW s \in 1..Len(h.scopes)
               PROVE  /\ g.scopes[s].parent = IF s \in severed THEN 0 ELSE h.scopes[s].parent
                      /\ s = dying => g.scopes[s].vars = ClearClosures(h.scopes[s].vars, dying)
    OBVIOUS
  <2>1. g.scopes[s] = [h.scopes[s] EXCEPT
                         !.parent = IF s \in severed THEN 0 ELSE @,
                         !.vars   = IF s = dying THEN ClearClosures(@, dying) ELSE @]
    BY <1>1 DEF BreakCycles
  <2> HIDE DEF g, severed
  <2> QED
    BY <1>2, <2>1 DEF ScopeRecord
<1>4. ASSUME NEW c \in reached \cap Cells(h), NEW v \in Contents(g, c)
      PROVE  \E u \in Contents(h, c) : v = ClearClosure(u, dying)
  <2>1. CASE c.type = "Array" /\ c.ref \in 1..Len(h.arrays) /\ c = ArrayJson(c.ref)
    <3>1. g.arrays[c.ref] = ClearClosures(h.arrays[c.ref], dying)
      BY <1>1, <2>1 DEF BreakCycles
    <3> HIDE DEF g
    <3>2. PICK k \in DOMAIN h.arrays[c.ref] : v = ClearClosure(h.arrays[c.ref][k], dying)
      BY <1>4, <2>1, <3>1 DEF Contents, Range, ClearClosures
    <3> QED
      BY <2>1, <3>2 DEF Contents, Range
  <2>2. CASE c.type = "Object" /\ c.ref \in 1..Len(h.objects) /\ c = ObjectJson(c.ref)
    <3>1. g.objects[c.ref] = ClearClosures(h.objects[c.ref], dying)
      BY <1>1, <2>2 DEF BreakCycles
    <3> HIDE DEF g
    <3>2. PICK k \in DOMAIN h.objects[c.ref] : v = ClearClosure(h.objects[c.ref][k], dying)
      BY <1>4, <2>2, <3>1 DEF Contents, Range, ClearClosures
    <3> QED
      BY <2>2, <3>2 DEF Contents, Range
  <2> QED
    BY <1>4, <2>1, <2>2, CellsAreCells
<1>5. \A f \in FunctionsIn(h, values) : SeveredFor(h.scopes, f.ref, dying) \subseteq severed
  OBVIOUS
<1> HIDE DEF g, severed, reached, values
<1> QED
  BY <1>3, <1>4, <1>5 DEF g, reached, values

(* Once its cycles are broken, a scope is out of the reach of the          *)
(* functions that are reached from its own variables.                      *)
LEMMA BrokenReleases ==
  ASSUME NEW w, NEW h, HeapGood(w, h), NEW dying \in 1..Len(h.scopes)
  PROVE  LET g == BreakCycles(h, dying)
         IN  \A f \in FunctionsIn(g, Range(g.scopes[dying].vars)) :
               dying \notin Chain(g.scopes, f.ref)
<1> DEFINE g       == BreakCycles(h, dying)
           before  == Range(h.scopes[dying].vars)
           after   == Range(g.scopes[dying].vars)
           reached == Reachable(h, before)
<1>1. /\ HeapGood(w, g) /\ Extends(h, g) /\ Len(g.scopes) = Len(h.scopes)
      /\ g.scopes[dying].vars = ClearClosures(h.scopes[dying].vars, dying)
      /\ \A c \in reached \cap Cells(h) :
           \A v \in Contents(g, c) : \E u \in Contents(h, c) : v = ClearClosure(u, dying)
      /\ \A s \in 1..Len(h.scopes) : g.scopes[s].parent \in {0, h.scopes[s].parent}
      /\ \A f \in FunctionsIn(h, before) :
           \A s \in SeveredFor(h.scopes, f.ref, dying) \cap (1..Len(h.scopes)) :
             g.scopes[s].parent = 0
  BY BreakCyclesGood, BrokenParts
<1> HIDE DEF g
<1>2. /\ \A v \in before : Val(w, h, v)
      /\ \A v \in after : Val(w, g, v)
  BY <1>1 DEF HeapGood, ScopesGood, Vals, Range
<1>3. \A v \in after : \E u \in before : v = ClearClosure(u, dying)
  BY <1>1 DEF ClearClosures, Range
<1>4. \A u, v : v = ClearClosure(u, dying) /\ Val(w, h, u) =>
        /\ v.type = u.type
        /\ v = u \/ (u.type = "Function" /\ v.ref = 0)
        /\ u.type = "Function" /\ v.ref # 0 => v.ref # dying
  <2> SUFFICES ASSUME NEW u \in Json
               PROVE  /\ ClearClosure(u, dying).type = u.type
                      /\ \/ ClearClosure(u, dying) = u
                         \/ u.type = "Function" /\ ClearClosure(u, dying).ref = 0
                      /\ u.type = "Function" /\ ClearClosure(u, dying).ref # 0 =>
                           ClearClosure(u, dying).ref # dying
    BY DEF Val
  <2>1. CASE u.type = "Function" /\ u.ref = dying
    <3> DEFINE v == [u EXCEPT !.ref = 0]
    <3>1. v.type = u.type /\ v.ref = 0
      BY DEF Json
    <3> QED
      BY <2>1, <3>1 DEF ClearClosure
  <2>2. CASE ~ (u.type = "Function" /\ u.ref = dying)
    BY <2>2 DEF ClearClosure
  <2> QED
    BY <2>1, <2>2
<1>5. /\ reached \subseteq Cells(h)
      /\ ContainersIn(before) \subseteq reached
      /\ \A c \in reached : ContainersIn(Contents(h, c)) \subseteq reached
  BY <1>2, ReachableSmallest
<1>6. \A c \in reached : \A v \in Contents(h, c) : Val(w, h, v)
  BY <1>5, CellsVal
<1> HIDE DEF reached, before, after
<1>7. Reachable(g, after) \subseteq reached
  <2>1. ContainersIn(after) \subseteq reached
    <3> SUFFICES ASSUME NEW v \in ContainersIn(after) PROVE v \in reached
      OBVIOUS
    <3>1. v \in after /\ v.type \in {"Array", "Object"} /\ v \in Json
      BY DEF ContainersIn
    <3>2. PICK u \in before : v = ClearClosure(u, dying)
      BY <1>3, <3>1
    <3>3. v = u
      BY <1>2, <1>4, <3>1, <3>2
    <3> QED
      BY <1>5, <3>1, <3>3 DEF ContainersIn
  <2>2. ASSUME NEW c \in reached \cap Cells(g), NEW v \in ContainersIn(Contents(g, c))
        PROVE  v \in reached
    <3>1. v \in Contents(g, c) /\ v.type \in {"Array", "Object"} /\ v \in Json
      BY <2>2 DEF ContainersIn
    <3>2. PICK u \in Contents(h, c) : v = ClearClosure(u, dying)
      BY <1>1, <1>5, <2>2, <3>1
    <3>3. v = u
      BY <1>4, <1>6, <2>2, <3>1, <3>2
    <3> QED
      BY <1>5, <2>2, <3>1, <3>3 DEF ContainersIn
  <2>3. \A T : (/\ ContainersIn(after) \subseteq T
                /\ \A c \in T \cap Cells(g) : ContainersIn(Contents(g, c)) \subseteq T)
                  => Reachable(g, after) \subseteq T
    BY <1>1, <1>2, ReachableSmallest
  <2> QED
    BY <2>1, <2>2, <2>3
<1>8. ASSUME NEW f \in FunctionsIn(g, after) PROVE dying \notin Chain(g.scopes, f.ref)
  <2>1. /\ f.type = "Function"
        /\ f \in after \/ \E c \in Reachable(g, after) : f \in Contents(g, c)
    BY <1>8 DEF FunctionsIn
  <2>2. PICK u \in before \cup UNION {Contents(h, c) : c \in reached} :
          f = ClearClosure(u, dying) /\ Val(w, h, u)
    <3>1. CASE f \in after
      BY <1>2, <1>3, <3>1
    <3>2. CASE \E c \in Reachable(g, after) : f \in Contents(g, c)
      <4>1. PICK c \in reached \cap Cells(h) : f \in Contents(g, c)
        BY <1>5, <1>7, <3>2
      <4>2. PICK u \in Contents(h, c) : f = ClearClosure(u, dying)
        BY <1>1, <4>1
      <4> QED
        BY <1>6, <4>1, <4>2
    <3> QED
      BY <2>1, <3>1, <3>2
  <2>3. u.type = "Function" /\ u \in FunctionsIn(h, before)
    BY <1>4, <2>1, <2>2 DEF FunctionsIn, reached
  <2>4. /\ g.scopes \in Seq(ScopeRecord) /\ OlderParents(g.scopes)
        /\ h.scopes \in Seq(ScopeRecord) /\ OlderParents(h.scopes)
    BY <1>1 DEF HeapGood, ScopesGood
  <2>5. CASE f.ref = 0
    BY <2>4, <2>5, ChainUnfolds
  <2>6. CASE f.ref # 0
    <3>1. f = u /\ f.ref # dying /\ f.ref \in 0..Len(h.scopes)
      BY <1>4, <2>2, <2>3, <2>6 DEF Val
    <3>2. Chain(h.scopes, f.ref) \subseteq 1..Len(h.scopes)
      <4>1. Chain(h.scopes, f.ref) \subseteq 1..f.ref
        BY <2>4, <3>1, ChainWithin
      <4>2. Len(h.scopes) \in Nat
        BY <2>4
      <4> QED
        BY <3>1, <4>1, <4>2
    <3>3. SeveredFor(h.scopes, f.ref, dying) =
            {s \in Chain(h.scopes, f.ref) : h.scopes[s].parent = dying}
      BY <2>6, <3>1 DEF SeveredFor
    <3>4. \A s \in Chain(h.scopes, f.ref) :
            h.scopes[s].parent = dying => g.scopes[s].parent = 0
      BY <1>1, <2>3, <3>1, <3>2, <3>3
    <3> QED
      BY <1>1, <2>4, <3>1, <3>4, ChainSevered
  <2> QED
    BY <2>5, <2>6
<1> QED
  BY <1>8 DEF g, after

(* A scope that is not flagged, in a world whose scopes are, binds nothing *)
(* that a function could be reached from.                                  *)
LEMMA UnflaggedReleases ==
  ASSUME NEW w, NEW h, HeapGood(w, h), NEW dying \in 1..Len(h.scopes),
         w.flagged, ~ h.scopes[dying].has_closures
  PROVE  FunctionsIn(h, Range(h.scopes[dying].vars)) = {}
<1> DEFINE values == Range(h.scopes[dying].vars)
<1>1. \A v \in values : Val(w, h, v) /\ ~ MightHaveFunction(v)
  BY DEF HeapGood, ScopesGood, Vals, Range, Marked
<1> HIDE DEF values
<1>2. ContainersIn(values) = {}
  BY <1>1 DEF ContainersIn, MightHaveFunction
<1>3. Reachable(h, values) = {}
  BY <1>1, <1>2, ReachableSmallest
<1>4. FunctionsIn(h, values) = {}
  BY <1>1, <1>3 DEF FunctionsIn, MightHaveFunction
<1> QED
  BY <1>4 DEF values
-----------------------------------------------------------------------------
(* What references lead to goes on being there.                            *)

(* Heap g has everything that heap h has: scopes with their names, arrays  *)
(* with their places, objects with their keys.                             *)
Grows(h, g) ==
  /\ Extends(h, g)
  /\ \A s \in 1..Len(h.scopes) : DOMAIN h.scopes[s].vars \subseteq DOMAIN g.scopes[s].vars
  /\ \A c \in 1..Len(h.arrays) : Len(h.arrays[c]) <= Len(g.arrays[c])
  /\ \A c \in 1..Len(h.objects) : DOMAIN h.objects[c] \subseteq DOMAIN g.objects[c]

SameParents(h, g) == \A s \in 1..Len(h.scopes) : g.scopes[s].parent = h.scopes[s].parent

LEMMA HeapKnown ==
  ASSUME NEW h \in Heap
  PROVE  /\ Len(h.scopes) \in Nat /\ Len(h.arrays) \in Nat /\ Len(h.objects) \in Nat
         /\ DOMAIN h.scopes = 1..Len(h.scopes)
         /\ DOMAIN h.arrays = 1..Len(h.arrays) /\ DOMAIN h.objects = 1..Len(h.objects)
         /\ \A s \in 1..Len(h.scopes) : h.scopes[s] \in ScopeRecord
         /\ \A c \in 1..Len(h.arrays) : h.arrays[c] \in Seq(Json) /\ Len(h.arrays[c]) \in Nat
                                        /\ DOMAIN h.arrays[c] = 1..Len(h.arrays[c])
         /\ \A c \in 1..Len(h.objects) : h.objects[c] \in Vars
<1>1. h.scopes \in Seq(ScopeRecord) /\ h.arrays \in Seq(Seq(Json)) /\ h.objects \in Seq(Vars)
  BY DEF Heap
<1>2. \A c \in 1..Len(h.arrays) : h.arrays[c] \in Seq(Json)
  BY <1>1
<1> QED
  BY <1>1, <1>2

LEMMA GrowsItself == ASSUME NEW h \in Heap PROVE Grows(h, h) /\ SameParents(h, h)
BY HeapKnown DEF Grows, Extends, SameParents

LEMMA GrowsOn ==
  ASSUME NEW h \in Heap, NEW g \in Heap, NEW i \in Heap, Grows(h, g), Grows(g, i)
  PROVE  /\ Grows(h, i)
         /\ SameParents(h, g) /\ SameParents(g, i) => SameParents(h, i)
<1>1. /\ Len(h.scopes) \in Nat /\ Len(h.arrays) \in Nat /\ Len(h.objects) \in Nat
      /\ Len(g.scopes) \in Nat /\ Len(g.arrays) \in Nat /\ Len(g.objects) \in Nat
      /\ Len(i.scopes) \in Nat /\ Len(i.arrays) \in Nat /\ Len(i.objects) \in Nat
      /\ \A c \in 1..Len(h.arrays) : Len(h.arrays[c]) \in Nat
      /\ \A c \in 1..Len(g.arrays) : Len(g.arrays[c]) \in Nat
      /\ \A c \in 1..Len(i.arrays) : Len(i.arrays[c]) \in Nat
  BY HeapKnown
<1>2. Extends(h, g) /\ Extends(g, i)
  BY DEF Grows
<1>3. Extends(h, i)
  BY <1>1, <1>2 DEF Extends
<1>4. /\ \A s \in 1..Len(h.scopes) : s \in 1..Len(g.scopes)
      /\ \A s \in 1..Len(h.arrays) : s \in 1..Len(g.arrays) /\ s \in 1..Len(i.arrays)
      /\ \A s \in 1..Len(h.objects) : s \in 1..Len(g.objects)
  BY <1>1, <1>2 DEF Extends
<1>5. \A c \in 1..Len(h.arrays) : Len(h.arrays[c]) <= Len(i.arrays[c])
  <2> SUFFICES ASSUME NEW c \in 1..Len(h.arrays) PROVE Len(h.arrays[c]) <= Len(i.arrays[c])
    OBVIOUS
  <2>1. Len(h.arrays[c]) <= Len(g.arrays[c]) /\ Len(g.arrays[c]) <= Len(i.arrays[c])
    BY <1>4 DEF Grows
  <2>2. Len(h.arrays[c]) \in Nat /\ Len(g.arrays[c]) \in Nat /\ Len(i.arrays[c]) \in Nat
    BY <1>1, <1>4
  <2> QED
    BY <2>1, <2>2
<1>6. /\ \A s \in 1..Len(h.scopes) : DOMAIN h.scopes[s].vars \subseteq DOMAIN i.scopes[s].vars
      /\ \A c \in 1..Len(h.objects) : DOMAIN h.objects[c] \subseteq DOMAIN i.objects[c]
  BY <1>4 DEF Grows
<1>7. SameParents(h, g) /\ SameParents(g, i) => SameParents(h, i)
  BY <1>4 DEF SameParents
<1> QED
  BY <1>3, <1>5, <1>6, <1>7 DEF Grows

(* A name bound in a scope of a heap whose scopes are not flagged.         *)
LEMMA BindHeap ==
  ASSUME NEW w, NEW h, HeapGood(w, h), ~ w.flagged,
         NEW s \in 1..Len(h.scopes), NEW key \in Text, NEW v, Val(w, h, v)
  PROVE  LET g == [h EXCEPT !.scopes = Bind(@, s, key, v)]
         IN  /\ HeapGood(w, g) /\ Grows(h, g) /\ SameParents(h, g)
             /\ key \in DOMAIN g.scopes[s].vars
<1> DEFINE new == Bind(h.scopes, s, key, v)
           g == [h EXCEPT !.scopes = new]
<1>1. h \in Heap /\ ScopesGood(w, h, h.scopes)
  BY DEF HeapGood
<1>2. ScopesGood(w, h, new) /\ Len(new) = Len(h.scopes)
      /\ \A t \in 1..Len(h.scopes) : new[t].parent = h.scopes[t].parent
  BY <1>1, BindGood
<1>3. /\ \A t \in 1..Len(h.scopes) : DOMAIN h.scopes[t].vars \subseteq DOMAIN new[t].vars
      /\ key \in DOMAIN new[s].vars
  <2> DEFINE bound == [x \in (DOMAIN h.scopes[s].vars) \cup {key} |->
                         IF x = key THEN v ELSE h.scopes[s].vars[x]]
  <2>1. DOMAIN bound = (DOMAIN h.scopes[s].vars) \cup {key}
    OBVIOUS
  <2>2. new = [h.scopes EXCEPT ![s].vars = bound]
    BY DEF Bind
  <2>3. DOMAIN h.scopes = 1..Len(h.scopes) /\ h.scopes[s] \in ScopeRecord
    BY <1>1, HeapKnown
  <2> HIDE DEF bound, new
  <2>4. \A t \in 1..Len(h.scopes) : new[t] = IF t = s THEN [h.scopes[s] EXCEPT !.vars = bound]
                                             ELSE h.scopes[t]
    BY <2>2, <2>3
  <2>5. [h.scopes[s] EXCEPT !.vars = bound].vars = bound
    BY <2>3 DEF ScopeRecord
  <2> QED
    BY <2>1, <2>4, <2>5
<1> HIDE DEF new
<1>4. HeapGood(w, g) /\ Extends(h, g)
  BY <1>2, NewScopesGood
<1>5. g.scopes = new /\ g.arrays = h.arrays /\ g.objects = h.objects
  BY <1>1 DEF Heap
<1>6. Grows(h, g) /\ SameParents(h, g) /\ key \in DOMAIN g.scopes[s].vars
  BY <1>1, <1>2, <1>3, <1>4, <1>5, HeapKnown DEF Grows, SameParents
<1> QED
  BY <1>4, <1>6 DEF new

(* A scope that is entered.                                                *)
LEMMA EnterHeap ==
  ASSUME NEW w, NEW h, HeapGood(w, h), NEW parent \in 0..Len(h.scopes)
  PROVE  LET g == [h EXCEPT !.scopes = Append(@, NewScope(parent))]
         IN  /\ HeapGood(w, g) /\ Grows(h, g) /\ SameParents(h, g)
             /\ Len(g.scopes) = Len(h.scopes) + 1
             /\ g.scopes[Len(h.scopes) + 1].parent = parent
<1> DEFINE scope == NewScope(parent)
           g == [h EXCEPT !.scopes = Append(@, scope)]
<1>1. h \in Heap /\ parent \in Nat
  BY HeapKnown DEF HeapGood
<1>2. /\ scope.parent = parent /\ scope.has_closures = FALSE
      /\ scope.vars = [x \in {} |-> NullJson]
      /\ scope = [parent |-> parent, vars |-> scope.vars, has_closures |-> FALSE]
  BY DEF NewScope
<1>3. scope.vars \in Vars /\ DOMAIN scope.vars = {}
  <2>1. scope.vars \in [{} -> Json]
    BY <1>2
  <2> QED
    BY <2>1 DEF Vars
<1> HIDE DEF scope
<1>4. scope \in ScopeRecord
  BY <1>1, <1>2, <1>3 DEF ScopeRecord
<1>5. Vals(w, h, scope.vars) /\ Marked(w, scope)
  BY <1>3 DEF Vals, Marked
<1>6. /\ HeapGood(w, g) /\ Extends(h, g)
      /\ Len(g.scopes) = Len(h.scopes) + 1
      /\ \A t \in 1..Len(h.scopes) : g.scopes[t] = h.scopes[t]
  BY <1>2, <1>4, <1>5, AppendScopeGood
<1>7. g.arrays = h.arrays /\ g.objects = h.objects /\ g.scopes[Len(h.scopes) + 1] = scope
  BY <1>1, HeapKnown DEF Heap
<1> HIDE DEF g
<1>8. Grows(h, g) /\ SameParents(h, g)
  BY <1>1, <1>6, <1>7, HeapKnown DEF Grows, SameParents
<1> QED
  BY <1>2, <1>6, <1>7, <1>8 DEF g, scope

(* Cells that are added, and cells whose contents grow or are replaced.    *)
LEMMA AddArrayHeap ==
  ASSUME NEW w, NEW h, HeapGood(w, h), NEW cell \in Seq(Json), Vals(w, h, cell)
  PROVE  LET g == [h EXCEPT !.arrays = Append(@, cell)]
         IN  /\ HeapGood(w, g) /\ Grows(h, g) /\ SameParents(h, g)
             /\ Len(g.arrays) = Len(h.arrays) + 1
<1> DEFINE g == [h EXCEPT !.arrays = Append(@, cell)]
<1>1. h \in Heap
  BY DEF HeapGood
<1>2. /\ HeapGood(w, g) /\ Extends(h, g) /\ g.scopes = h.scopes
      /\ Len(g.arrays) = Len(h.arrays) + 1
  BY AppendArrayGood
<1>3. g.objects = h.objects /\ \A c \in 1..Len(h.arrays) : g.arrays[c] = h.arrays[c]
  BY <1>1, HeapKnown DEF Heap
<1> HIDE DEF g
<1>4. Grows(h, g) /\ SameParents(h, g)
  BY <1>1, <1>2, <1>3, HeapKnown DEF Grows, SameParents
<1> QED
  BY <1>2, <1>4 DEF g

LEMMA AddObjectHeap ==
  ASSUME NEW w, NEW h, HeapGood(w, h), NEW cell \in Vars, Vals(w, h, cell)
  PROVE  LET g == [h EXCEPT !.objects = Append(@, cell)]
         IN  /\ HeapGood(w, g) /\ Grows(h, g) /\ SameParents(h, g)
             /\ Len(g.objects) = Len(h.objects) + 1
<1> DEFINE g == [h EXCEPT !.objects = Append(@, cell)]
<1>1. h \in Heap
  BY DEF HeapGood
<1>2. /\ HeapGood(w, g) /\ Extends(h, g) /\ g.scopes = h.scopes
      /\ Len(g.objects) = Len(h.objects) + 1
  BY AppendObjectGood
<1>3. g.arrays = h.arrays /\ \A c \in 1..Len(h.objects) : g.objects[c] = h.objects[c]
  BY <1>1, HeapKnown DEF Heap
<1> HIDE DEF g
<1>4. Grows(h, g) /\ SameParents(h, g)
  BY <1>1, <1>2, <1>3, HeapKnown DEF Grows, SameParents
<1> QED
  BY <1>2, <1>4 DEF g

LEMMA SetArrayHeap ==
  ASSUME NEW w, NEW h, HeapGood(w, h), NEW c \in 1..Len(h.arrays),
         NEW cell \in Seq(Json), Vals(w, h, cell), Len(cell) >= Len(h.arrays[c])
  PROVE  LET g == [h EXCEPT !.arrays[c] = cell]
         IN  HeapGood(w, g) /\ Grows(h, g) /\ SameParents(h, g) /\ g.arrays[c] = cell
<1> DEFINE g == [h EXCEPT !.arrays[c] = cell]
<1>1. h \in Heap
  BY DEF HeapGood
<1>2. HeapGood(w, g) /\ Extends(h, g) /\ g.scopes = h.scopes
  BY NewArrayGood
<1>3. /\ g.objects = h.objects
      /\ \A d \in 1..Len(h.arrays) : g.arrays[d] = IF d = c THEN cell ELSE h.arrays[d]
  BY <1>1, HeapKnown DEF Heap
<1> HIDE DEF g
<1>4. \A d \in 1..Len(h.arrays) : Len(h.arrays[d]) <= Len(g.arrays[d])
  BY <1>1, <1>3, HeapKnown
<1>5. Grows(h, g) /\ SameParents(h, g)
  BY <1>1, <1>2, <1>3, <1>4, HeapKnown DEF Grows, SameParents
<1> QED
  BY <1>2, <1>3, <1>5 DEF g

LEMMA SetObjectHeap ==
  ASSUME NEW w, NEW h, HeapGood(w, h), NEW c \in 1..Len(h.objects),
         NEW cell \in Vars, Vals(w, h, cell), DOMAIN h.objects[c] \subseteq DOMAIN cell
  PROVE  LET g == [h EXCEPT !.objects[c] = cell]
         IN  HeapGood(w, g) /\ Grows(h, g) /\ SameParents(h, g) /\ g.objects[c] = cell
<1> DEFINE g == [h EXCEPT !.objects[c] = cell]
<1>1. h \in Heap
  BY DEF HeapGood
<1>2. HeapGood(w, g) /\ Extends(h, g) /\ g.scopes = h.scopes
  BY NewObjectGood
<1>3. /\ g.arrays = h.arrays
      /\ \A d \in 1..Len(h.objects) : g.objects[d] = IF d = c THEN cell ELSE h.objects[d]
  BY <1>1, HeapKnown DEF Heap
<1> HIDE DEF g
<1>4. Grows(h, g) /\ SameParents(h, g)
  BY <1>1, <1>2, <1>3, HeapKnown DEF Grows, SameParents
<1> QED
  BY <1>2, <1>3, <1>4 DEF g

(* The breaker takes nothing away but links and closures.                  *)
LEMMA BreakHeap ==
  ASSUME NEW w, NEW h, HeapGood(w, h), NEW dying \in 1..Len(h.scopes)
  PROVE  Grows(h, BreakCycles(h, dying))
<1> DEFINE g == BreakCycles(h, dying)
<1>1. h \in Heap /\ Extends(h, g) /\ g \in Heap
  BY BreakCyclesGood DEF HeapGood
<1>2. \A f : DOMAIN ClearClosures(f, dying) = DOMAIN f
  BY DEF ClearClosures
<1>3. ASSUME NEW s \in 1..Len(h.scopes) PROVE DOMAIN g.scopes[s].vars = DOMAIN h.scopes[s].vars
  <2> DEFINE old == h.scopes[s]
             bindings == IF s = dying THEN ClearClosures(old.vars, dying) ELSE old.vars
  <2>1. PICK parent : g.scopes[s] = [old EXCEPT !.parent = parent, !.vars = bindings]
    BY <1>1, HeapKnown DEF BreakCycles
  <2>2. old \in ScopeRecord /\ DOMAIN bindings = DOMAIN old.vars
    BY <1>1, <1>2, HeapKnown
  <2> HIDE DEF g, bindings, old
  <2>3. g.scopes[s].vars = bindings
    BY <2>1, <2>2 DEF ScopeRecord
  <2> QED
    BY <2>2, <2>3 DEF old
<1>4. ASSUME NEW c \in 1..Len(h.arrays) PROVE DOMAIN g.arrays[c] = DOMAIN h.arrays[c]
  <2>1. g.arrays[c] = ClearClosures(h.arrays[c], dying) \/ g.arrays[c] = h.arrays[c]
    BY <1>1, HeapKnown DEF BreakCycles
  <2> QED
    BY <1>2, <2>1
<1>5. ASSUME NEW c \in 1..Len(h.objects) PROVE DOMAIN g.objects[c] = DOMAIN h.objects[c]
  <2>1. g.objects[c] = ClearClosures(h.objects[c], dying) \/ g.objects[c] = h.objects[c]
    BY <1>1, HeapKnown DEF BreakCycles
  <2> QED
    BY <1>2, <2>1
<1> HIDE DEF g
<1>6. ASSUME NEW c \in 1..Len(h.arrays) PROVE Len(g.arrays[c]) = Len(h.arrays[c])
  <2>1. c \in 1..Len(g.arrays)
    BY <1>1, HeapKnown DEF Extends
  <2>2. h.arrays[c] \in Seq(Json) /\ g.arrays[c] \in Seq(Json)
    BY <1>1, <2>1, HeapKnown
  <2> QED
    BY <1>4, <2>2
<1>7. Grows(h, g)
  BY SMTT(30), <1>1, <1>3, <1>5, <1>6, HeapKnown DEF Grows
<1> QED
  BY <1>7 DEF g
=============================================================================
