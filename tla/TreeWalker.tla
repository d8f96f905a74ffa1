----------------------------- MODULE TreeWalker -----------------------------
(***************************************************************************)
(* The tree-walking interpreter: StackMachine::exec() in                   *)
(* src/project/interpreters/tree-walking-interpreter/src/stack_machine.cpp *)
(* with the depth-first walk that drives it (iterative_managed_dfs).       *)
(*                                                                         *)
(* Graph[p] is the control flow graph of program p, the sequence of its    *)
(* nodes, the root last.  One step takes the top entry off the stack of    *)
(* the walk and runs its handler: an entry is there once for the way down  *)
(* (pre) and once for the way back.                                        *)
(*                                                                         *)
(* Values are held by value here: storing an array or object copies it, so *)
(* a cell is held from one place only.  What is shared is references: an   *)
(* operand is a copy, or a pointer to a variable, to an element of an      *)
(* array or to a field of an object (class CopyOrRef).                     *)
(***************************************************************************)
EXTENDS CycleBreaker, SequencesExt

CONSTANTS
  Program,   \* the programs a run may start with
  Graph      \* the control flow graph of every program

VARIABLES
  program,   \* the program being run
  status,    \* "walking", then "returned", "thrown" or "undefined"
  dfs,       \* the stack of the walk: [node, pre]
  envs,      \* varible_store.mEnvScopeStack; 0 is a null pointer
  calls,     \* function_scope_stack
  args,      \* argument_stack: [value, place]
  heap,      \* [scopes, arrays, objects]
  output,    \* what was printed so far
  result     \* the value exec() returned

vars == <<program, status, dfs, envs, calls, args, heap, output, result>>

Nodes  == Graph[program]
Top    == Last(dfs)
Walked == Nodes[Top.node]

Init ==
  /\ program \in Program
  /\ status = "walking"
  /\ dfs = <<[node |-> Len(Nodes), pre |-> TRUE]>>
  /\ envs = <<>>
  /\ calls = <<>>
  /\ args = <<>>
  /\ heap = [scopes |-> <<>>, arrays |-> <<>>, objects |-> <<>>]
  /\ output = <<>>
  /\ result = NullJson

-----------------------------------------------------------------------------
(* Values.                                                                 *)

(* Mutant: an array or object is passed on as it is. *)
CopyJsonShared(h, v) == [heap |-> h, value |-> v]

(* A copy of a value: its arrays and objects, however deep, are copied to  *)
(* cells of their own.  Returns [heap, value].                             *)
CopyJson(h, v) ==
  LET cells    == Reachable(h, {v})
      of(type) == SetToSeq({c.ref : c \in {d \in cells : d.type = type}})
      arrays   == of("Array")
      objects  == of("Object")
      at(refs, ref) == CHOOSE i \in DOMAIN refs : refs[i] = ref
      copy(u)  == CASE u.type = "Array"  -> ArrayJson(Len(h.arrays) + at(arrays, u.ref))
                    [] u.type = "Object" -> ObjectJson(Len(h.objects) + at(objects, u.ref))
                    [] OTHER             -> u
      copies(f) == [k \in DOMAIN f |-> copy(f[k])]
  IN  [heap  |-> [h EXCEPT
                    !.arrays  = @ \o [i \in DOMAIN arrays |-> copies(h.arrays[arrays[i]])],
                    !.objects = @ \o [i \in DOMAIN objects |-> copies(h.objects[objects[i]])]],
       value |-> copy(v)]

(* Copies of several values, made one after the other. *)
CopyAll(h, vs) ==
  LET made[i \in 0..Len(vs)] ==
        IF i = 0
        THEN [heap |-> h, values |-> <<>>]
        ELSE LET before == made[i - 1]
                 one    == CopyJson(before.heap, vs[i])
             IN  [heap |-> one.heap, values |-> Append(before.values, one.value)]
  IN  made[Len(vs)]

-----------------------------------------------------------------------------
(* Operands.                                                               *)

Place(kind, ref, key, index) == [kind |-> kind, ref |-> ref, key |-> key, index |-> index]

NoPlace == Place("none", 0, "", 0)

Temporary(v)       == [value |-> v, place |-> NoPlace]
ToVariable(s, x)   == [value |-> NullJson, place |-> Place("Scope", s, x, 0)]
ToElement(cell, i) == [value |-> NullJson, place |-> Place("Array", cell, "", i)]
ToField(cell, k)   == [value |-> NullJson, place |-> Place("Object", cell, k, 0)]

IsReference(operand) == operand.place.kind # "none"

(* CopyOrRef::get() of an operand whose place, if any, is still there. *)
Get(operand) ==
  LET place == operand.place
  IN  CASE place.kind = "none"   -> operand.value
        [] place.kind = "Scope"  -> heap.scopes[place.ref].vars[place.key]
        [] place.kind = "Array"  -> heap.arrays[place.ref][place.index + 1]
        [] place.kind = "Object" -> heap.objects[place.ref][place.key]

(* The operand i places below the top of the stack, and the rest. *)
Operand(i)  == args[Len(args) - i]
Popped(n)   == SubSeq(args, 1, Len(args) - n)
TopArgs(n)  == SubSeq(args, Len(args) - n + 1, Len(args))
Values(ops) == [i \in DOMAIN ops |-> Get(ops[i])]

-----------------------------------------------------------------------------
(* What is still allocated.  A scope is freed when its last holder lets go *)
(* of it: a place on the stack of scopes, a scope's parent link, or a      *)
(* function held by a variable or by an operand.                           *)

Copies == {args[i].value : i \in {j \in DOMAIN args : ~ IsReference(args[j])}}

ClosuresIn(values) == {f.ref : f \in FunctionsIn(heap, values)}

HeldByScope(s) == ClosuresIn(Range(heap.scopes[s].vars)) \cup {heap.scopes[s].parent}

FreedBut(held) ==
  LET freed[gone \in SUBSET DOMAIN heap.scopes] ==
        LET kept == held \cup UNION {HeldByScope(s) : s \in DOMAIN heap.scopes \ gone}
            next == DOMAIN heap.scopes \ kept
        IN  IF next = gone THEN gone ELSE freed[next]
  IN  freed[{}]

Freed == FreedBut(Range(envs) \cup ClosuresIn(Copies))

LiveCells ==
  Reachable(heap, Copies \cup UNION {Range(heap.scopes[s].vars) : s \in DOMAIN heap.scopes \ Freed})

(* The operand is there, and what it refers to still is. *)
Valid(operand) ==
  LET place == operand.place
  IN  \/ place.kind = "none"
      \/ place.kind = "Scope" /\ place.ref \notin Freed
      \/ /\ place.kind \in {"Array", "Object"}
         /\ [NullJson EXCEPT !.type = place.kind, !.ref = place.ref] \in LiveCells

ValidOperands(n) == Len(args) >= n /\ \A i \in 0..(n - 1) : Valid(Operand(i))

(* Growing an array moves its elements: pointers to them dangle.           *)
AfterGrowth(operands, cell) ==
  [i \in DOMAIN operands |->
     IF operands[i].place.kind = "Array" /\ operands[i].place.ref = cell
     THEN [operands[i] EXCEPT !.place.kind = "dangling"]
     ELSE operands[i]]

-----------------------------------------------------------------------------
(* The walk.                                                               *)

At(pre, classes) ==
  /\ status = "walking"
  /\ dfs # <<>>
  /\ Top.pre = pre
  /\ Walked.class \in classes

(* The entry that was taken off the stack comes back for the way back.     *)
Entered == Append(Front(dfs), [node |-> Top.node, pre |-> FALSE])

(* Children are pushed from the last to the first. *)
Scheduled(ids) == [i \in 1..Len(ids) |-> [node |-> ids[Len(ids) + 1 - i], pre |-> TRUE]]

Descend(ids) == dfs' = Entered \o Scheduled(ids)

Ascend == dfs' = Front(dfs)

(* The place of the nearest entry of a node; 0 when there is none. *)
Nearest(node) == SelectLastInSeq(dfs, LAMBDA entry : entry.node = node)

CurrentScope == IF envs = <<>> THEN 0 ELSE Last(envs)

(* breakCycles and popScope, for the innermost scope of a stack of scopes. *)
LeaveScope(state) ==
  [heap |-> IF Last(state.envs) = 0 THEN state.heap ELSE BreakCycles(state.heap, Last(state.envs)),
   envs |-> Front(state.envs)]

(* The n innermost scopes, one after the other. *)
LeaveScopes(n) ==
  LET left[i \in 0..n] ==
        IF i = 0 THEN [heap |-> heap, envs |-> envs] ELSE LeaveScope(left[i - 1])
  IN  left[n]

(* What entries of the walk stand for, from the bottom up: `of' gives, for *)
(* every entry, a sequence.                                                *)
Gathered(entries, of) ==
  LET upto[i \in 0..Len(entries)] ==
        IF i = 0 THEN <<>> ELSE upto[i - 1] \o of[entries[i]]
  IN  upto[Len(entries)]

Entry == [node : DOMAIN Nodes, pre : BOOLEAN]

(* Of some entries, those on their way down, those on their way back, and  *)
(* the scopes among the latter.                                            *)
WayDown    == [entry \in Entry |-> IF entry.pre THEN <<entry>> ELSE <<>>]
WayBack    == [entry \in Entry |-> IF entry.pre THEN <<>> ELSE <<entry>>]
OpenScopes == [entry \in Entry |->
                 IF ~ entry.pre /\ Nodes[entry.node].class = "Scope" THEN <<entry>> ELSE <<>>]

-----------------------------------------------------------------------------
(* Conditions.                                                             *)

(* get_value pops as many operands as a member expression has leaves,      *)
(* although its own handler has already left a single one.                 *)
OperandsOf(node) ==
  LET count[n \in DOMAIN Nodes] ==
        IF Nodes[n].class = "MemberExpression"
        THEN count[Nodes[n].children[1]] + count[Nodes[n].children[2]]
        ELSE 1
  IN  count[node]

(* container[key] read without a check of the bounds. *)
MemberValue(container, key) ==
  CASE container.type \in {"Thrown", "Wild"} -> container
    [] container.type = "Array" ->
         IF key.type # "Int" THEN [NullJson EXCEPT !.type = "Thrown"]
         ELSE IF key.n + 1 \in DOMAIN heap.arrays[container.ref]
         THEN heap.arrays[container.ref][key.n + 1]
         ELSE [NullJson EXCEPT !.type = "Wild"]
    [] container.type = "Object" ->
         IF key.type # "String" THEN [NullJson EXCEPT !.type = "Thrown"]
         ELSE IF key.s \in DOMAIN heap.objects[container.ref]
         THEN heap.objects[container.ref][key.s]
         ELSE NullJson
    [] OTHER -> NullJson

(* get_value of a condition: the operands it pops, and the value, which is *)
(* null for a name whatever the name is bound to.                          *)
ConditionValue(node) ==
  LET value[p \in (DOMAIN Nodes) \X (0..Len(args))] ==
        LET n   == Nodes[p[1]]
            key == value[<<n.children[2], p[2]>>]
            container == value[<<n.children[1], p[2] - OperandsOf(n.children[2])>>]
        IN  CASE n.class = "Name"             -> NullJson
              [] n.class = "MemberExpression" ->
                   IF key.type \in {"Thrown", "Wild"} THEN key ELSE MemberValue(container, key)
              [] OTHER                        -> Get(args[p[2]])
  IN  value[<<node, Len(args)>>]

Holds(v) ==
  \/ v.type = "Int" /\ v.n > 0
  \/ v.type = "Bool" /\ v.n = 1
  \/ v.type = "Function"

(* The scopes of an if that are walked: with a null condition all of them, *)
(* and none when there is no operand at all.                               *)
Branches(if) ==
  LET condition == ConditionValue(if.condition)
  IN  IF args = <<>>
      THEN <<>>
      ELSE CASE condition.type = "Null" -> if.children
             [] Holds(condition)        -> <<if.children[1]>>
             [] OTHER                   -> Tail(if.children)

ConditionDefined(if) ==
  args # <<>> =>
    /\ ValidOperands(OperandsOf(if.condition))
    /\ ConditionValue(if.condition).type # "Wild"

-----------------------------------------------------------------------------
(* What a handler takes for granted.  Outside of it lie: a pop from an     *)
(* empty stack, a variable where there is no scope, a pointer to what is   *)
(* gone, a call of what is no function,                                    *)
(* a division by zero, a comparison of functions (which recurses without   *)
(* end; here as soon as both sides hold one), a key that is not a string,  *)
(* an element of a temporary, an assignment of a container to one of its   *)
(* own elements or the other way round.                                    *)

ArithmeticOps == {"ADD", "SUB", "MUL", "DIV"}

BinExprDefined ==
  /\ ValidOperands(2)
  /\ IF Walked.str \in ArithmeticOps
     THEN ArithmeticDefined(Walked.str, Get(Operand(1)), Get(Operand(0)))
     ELSE Walked.str \in {"EQ", "NEQ"} =>
            \E i \in {0, 1} : FunctionsIn(heap, {Get(Operand(i))}) = {}

(* The cell a reference leads into. *)
CellOf(place) == IF place.kind = "Array" THEN ArrayJson(place.ref) ELSE ObjectJson(place.ref)

Inside(place, v) == place.kind \in {"Array", "Object"} /\ CellOf(place) \in Reachable(heap, {v})

AssignsMember == Nodes[Walked.children[1]].class = "MemberExpression"

NameOperand == IF Len(Walked.children) = 2 THEN Operand(1) ELSE Operand(0)

AssigmentDefined ==
  /\ ValidOperands(2)
  /\ ~ AssignsMember => envs # <<>> /\ Get(NameOperand).type = "String"
  /\ AssignsMember /\ IsReference(Operand(0)) /\ Operand(0).place # Operand(1).place =>
       /\ ~ Inside(Operand(1).place, Get(Operand(0)))
       /\ ~ Inside(Operand(0).place, Get(Operand(1)))

Defined ==
  CASE Top.pre ->
         (CASE Walked.class = "FunctionScope" -> ValidOperands(1) /\ Get(Operand(0)).type = "Function"
            [] Walked.class = "IfStatment"    -> ConditionDefined(Walked)
            [] Walked.class = "FunctionStatment" -> envs # <<>>
            [] OTHER                          -> TRUE)
    [] Walked.class = "Varible" -> envs # <<>>
    [] Walked.class = "Array"  -> ValidOperands(Len(Walked.children))
    [] Walked.class = "Object" ->
         /\ ValidOperands(2 * Len(Walked.children))
         /\ \A i \in 1..Len(Walked.children) : Get(Operand(2 * i - 1)).type = "String"
    [] Walked.class = "BinExpr" -> BinExprDefined
    [] Walked.class \in {"ReturnStatment", "PrintStatment"} -> ValidOperands(1)
    [] Walked.class = "FunctionCall" -> ValidOperands(1) /\ Get(Operand(0)).type = "Function"
    [] Walked.class = "MemberExpression" ->
         /\ ValidOperands(2)
         /\ Get(Operand(1)).type \in {"Array", "Object"} => IsReference(Operand(1))
    [] Walked.class = "VaribleAssigmentStatment" -> AssigmentDefined
    [] OTHER -> TRUE

-----------------------------------------------------------------------------
(* The way down (pre_func).                                                *)

Down(classes) == At(TRUE, classes) /\ Defined

PreScope ==
  /\ Down({"Scope"})
  /\ Descend(Walked.children)
  /\ heap' = [heap EXCEPT !.scopes = Append(@, NewScope(CurrentScope))]
  /\ envs' = Append(envs, Len(heap.scopes) + 1)
  /\ UNCHANGED <<program, status, calls, args, output, result>>

(* The callee leaves the operands; the scope its function closes over, and *)
(* a new one under that, become current.                                   *)
PreFunctionScope ==
  /\ Down({"FunctionScope"})
  /\ Descend(Walked.children)
  /\ LET closure == Get(Operand(0)).ref
     IN  /\ heap' = [heap EXCEPT !.scopes = Append(@, NewScope(closure))]
         /\ envs' = envs \o <<closure, Len(heap.scopes) + 1>>
  /\ calls' = Append(calls, Top.node)
  /\ args' = Popped(1)
  /\ UNCHANGED <<program, status, output, result>>

PreIf ==
  /\ Down({"IfStatment"})
  /\ \/ args = <<>>
     \/ ConditionValue(Walked.condition).type # "Thrown"
  /\ Descend(Branches(Walked))
  /\ args' = IF args = <<>> THEN args ELSE Popped(OperandsOf(Walked.condition))
  /\ UNCHANGED <<program, status, envs, calls, heap, output, result>>

(* Mutant: the entries it cancels are only removed. *)
PreGotoWithoutLeaving ==
  /\ Down({"Goto"})
  /\ dfs' = SubSeq(dfs, 1, Nearest(Walked.target)) \o Scheduled(Nodes[Walked.target].children)
  /\ UNCHANGED <<program, status, envs, calls, args, heap, output, result>>

(* cancelDescentFromSubtree: the entries above the loop that are on their  *)
(* way back are run and removed.  They are the if of the loop and its      *)
(* scope, and the goto itself; only the scope does anything.               *)
PreGoto ==
  /\ Down({"Goto"})
  /\ LET loop  == Nearest(Walked.target)
         above == SubSeq(dfs, loop + 1, Len(dfs) - 1)
         left  == LeaveScopes(Len(Gathered(above, OpenScopes)))
     IN  /\ \A i \in DOMAIN above :
              ~ above[i].pre => Nodes[above[i].node].class \in {"Scope", "IfStatment"}
         /\ dfs' = SubSeq(dfs, 1, loop) \o Gathered(above, WayDown)
                   \o Scheduled(Nodes[Walked.target].children)
         /\ heap' = left.heap
         /\ envs' = left.envs
  /\ UNCHANGED <<program, status, calls, args, output, result>>

PreFunctionStatment ==
  /\ Down({"FunctionStatment"})
  /\ Descend(<<>>)
  /\ heap' = [heap EXCEPT !.scopes =
                 Bind(@, CurrentScope, Walked.str, FunctionJson(Top.node, CurrentScope))]
  /\ UNCHANGED <<program, status, envs, calls, args, output, result>>

(* Mutant: what was scheduled is walked after all. *)
PreReturnGoingOn ==
  /\ Down({"ReturnStatment"})
  /\ Descend(Walked.children)
  /\ UNCHANGED <<program, status, envs, calls, args, heap, output, result>>

(* unsheduleDescentToSubtree: what the running function still had to walk  *)
(* into is dropped; what it is inside of is left on the way back.          *)
PreReturn ==
  /\ Down({"ReturnStatment"})
  /\ LET function == IF calls = <<>> THEN 0 ELSE Nearest(Last(calls))
     IN  dfs' = SubSeq(dfs, 1, function)
                \o Gathered(SubSeq(Entered, function + 1, Len(dfs)), WayBack)
                \o Scheduled(Walked.children)
  /\ UNCHANGED <<program, status, envs, calls, args, heap, output, result>>

Ordinary ==
  {"F", "String", "Name", "Varible", "Array", "Object", "ObjectPair", "UnExpr", "BinExpr",
   "MemberExpression", "FunctionCall", "PrintStatment", "VaribleAssigmentStatment", "WhileStatment"}

PreOrdinary ==
  /\ Down(Ordinary)
  /\ Descend(Walked.children)
  /\ UNCHANGED <<program, status, envs, calls, args, heap, output, result>>

-----------------------------------------------------------------------------
(* The way back (post_func).                                               *)

Back(classes) == At(FALSE, classes) /\ Defined /\ Ascend

PostLiteral ==
  /\ Back({"F", "String", "Name"})
  /\ args' = Append(args, Temporary(IF Walked.class = "F" THEN IntJson(Walked.int)
                                                         ELSE StringJson(Walked.str)))
  /\ UNCHANGED <<program, status, envs, calls, heap, output, result>>

(* A variable leaves a pointer; one that is not bound is bound to null. *)
PostVarible ==
  /\ Back({"Varible"})
  /\ LET owner == Owner(heap.scopes, CurrentScope, Walked.str)
     IN  args' = Append(args, ToVariable(IF owner = 0 THEN CurrentScope ELSE owner, Walked.str))
  /\ heap' = [heap EXCEPT !.scopes = Touch(@, CurrentScope, Walked.str)]
  /\ UNCHANGED <<program, status, envs, calls, output, result>>

PostArray ==
  /\ Back({"Array"})
  /\ LET n     == Len(Walked.children)
         items == CopyAll(heap, Values(TopArgs(n)))
     IN  /\ heap' = [items.heap EXCEPT !.arrays = Append(@, items.values)]
         /\ args' = Append(Popped(n), Temporary(ArrayJson(Len(items.heap.arrays) + 1)))
  /\ UNCHANGED <<program, status, envs, calls, output, result>>

(* The pairs are emplaced from the last to the first, so the last of two   *)
(* pairs with the same key stays.                                          *)
PostObject ==
  /\ Back({"Object"})
  /\ LET n      == Len(Walked.children)
         pairs  == Values(TopArgs(2 * n))
         items  == CopyAll(heap, [i \in 1..n |-> pairs[2 * i]])
         key(i) == pairs[2 * i - 1].s
         object == [k \in {key(i) : i \in 1..n} |->
                      items.values[Max({i \in 1..n : key(i) = k})]]
     IN  /\ heap' = [items.heap EXCEPT !.objects = Append(@, object)]
         /\ args' = Append(Popped(2 * n), Temporary(ObjectJson(Len(items.heap.objects) + 1)))
  /\ UNCHANGED <<program, status, envs, calls, output, result>>

(* The operands are read here, after both sides have run.                  *)
PostBinExpr ==
  /\ Back({"BinExpr"})
  /\ LET l == Get(Operand(1))
         r == Get(Operand(0))
     IN  args' = Append(Popped(2), Temporary(
                   IF Walked.str \in ArithmeticOps
                   THEN Arithmetic(Walked.str, l, r)
                   ELSE Compare(Walked.str, heap.arrays, heap.objects, l, r)))
  /\ UNCHANGED <<program, status, envs, calls, heap, output, result>>

PostScope ==
  /\ Back({"Scope"})
  /\ LET left == LeaveScope([heap |-> heap, envs |-> envs])
     IN  heap' = left.heap /\ envs' = left.envs
  /\ UNCHANGED <<program, status, calls, args, output, result>>

(* Mutants: the cycles of the closure's scope are broken too; the closure  *)
(* stays on the stack of scopes.                                           *)
PostFunctionScopeBreakingBoth ==
  /\ Back({"FunctionScope"})
  /\ LET left == LeaveScope(LeaveScope([heap |-> heap, envs |-> envs]))
     IN  heap' = left.heap /\ envs' = left.envs
  /\ calls' = Front(calls)
  /\ UNCHANGED <<program, status, args, output, result>>

PostFunctionScopePoppingOne ==
  /\ Back({"FunctionScope"})
  /\ LET left == LeaveScope([heap |-> heap, envs |-> envs])
     IN  heap' = left.heap /\ envs' = left.envs
  /\ calls' = Front(calls)
  /\ UNCHANGED <<program, status, args, output, result>>

(* The cycles are broken in the scope of the call only; it and the closure *)
(* under it leave the stack of scopes.                                     *)
PostFunctionScope ==
  /\ Back({"FunctionScope"})
  /\ LET left == LeaveScope([heap |-> heap, envs |-> envs])
     IN  heap' = left.heap /\ envs' = Front(left.envs)
  /\ calls' = Front(calls)
  /\ UNCHANGED <<program, status, args, output, result>>

PostReturn ==
  /\ Back({"ReturnStatment"})
  /\ LET copy == CopyJson(heap, Get(Operand(0)))
     IN  heap' = copy.heap /\ args' = Append(Popped(1), Temporary(copy.value))
  /\ UNCHANGED <<program, status, envs, calls, output, result>>

PostPrint ==
  /\ Back({"PrintStatment"})
  /\ output' = Append(output, Shown(heap.arrays, heap.objects, Get(Operand(0))))
  /\ args' = Popped(1)
  /\ UNCHANGED <<program, status, envs, calls, heap, result>>

(* container[key]: an array grows to the index, an object gets the key.    *)
Indexed(container, i) ==
  IF i < 0
  THEN /\ args' = Append(Popped(2), Temporary(NullJson))
       /\ UNCHANGED heap
  ELSE LET old == heap.arrays[container.ref]
       IN  IF i < Len(old)
           THEN /\ args' = Append(Popped(2), ToElement(container.ref, i))
                /\ UNCHANGED heap
           ELSE /\ args' = Append(AfterGrowth(Popped(2), container.ref), ToElement(container.ref, i))
                /\ heap' = [heap EXCEPT !.arrays[container.ref] =
                              old \o [j \in 1..(i + 1 - Len(old)) |-> NullJson]]

(* Mutant: a key that is not there is not inserted. *)
KeyedOnlyFound(container, k) ==
  /\ args' = Append(Popped(2), ToField(container.ref, k))
  /\ UNCHANGED heap

Keyed(container, k) ==
  /\ args' = Append(Popped(2), ToField(container.ref, k))
  /\ heap' = [heap EXCEPT !.objects[container.ref] =
                [x \in (DOMAIN @) \cup {k} |-> IF x \in DOMAIN @ THEN @[x] ELSE NullJson]]

PostMember ==
  /\ Back({"MemberExpression"})
  /\ LET key       == Get(Operand(0))
         container == Get(Operand(1))
     IN  \/ container.type = "Array" /\ key.type = "Int" /\ Indexed(container, key.n)
         \/ container.type = "Object" /\ key.type = "String" /\ Keyed(container, key.s)
         \/ /\ container.type \notin {"Array", "Object"}
            /\ args' = Popped(2)
            /\ UNCHANGED heap
  /\ UNCHANGED <<program, status, envs, calls, output, result>>

(* x = value and var x = value; and the assignment of an argument to a     *)
(* parameter, whose value is found below the name.                         *)
PostAssignVariable ==
  /\ Back({"VaribleAssigmentStatment"})
  /\ ~ AssignsMember
  /\ LET x     == Get(NameOperand).s
         value == Get(IF Len(Walked.children) = 2 THEN Operand(0) ELSE Operand(1))
         copy  == CopyJson(heap, value)
         owner == Owner(heap.scopes, CurrentScope, x)
         scope == IF Walked.str = "LOCAL" \/ owner = 0 THEN CurrentScope ELSE owner
     IN  heap' = [copy.heap EXCEPT !.scopes = Bind(@, scope, x, copy.value)]
  /\ args' = Popped(2)
  /\ UNCHANGED <<program, status, envs, calls, output, result>>

Written(h, place, v) ==
  CASE place.kind = "none"   -> h
    [] place.kind = "Scope"  -> [h EXCEPT !.scopes = Bind(@, place.ref, place.key, v)]
    [] place.kind = "Array"  -> [h EXCEPT !.arrays[place.ref][place.index + 1] = v]
    [] place.kind = "Object" -> [h EXCEPT !.objects[place.ref][place.key] = v]

(* Mutant: the container itself is stored, not a copy. *)
PostAssignMemberShared ==
  /\ Back({"VaribleAssigmentStatment"})
  /\ AssignsMember
  /\ heap' = Written(heap, Operand(1).place, Get(Operand(0)))
  /\ args' = Popped(2)
  /\ UNCHANGED <<program, status, envs, calls, output, result>>

(* c[k] = value: through the pointer the member expression left.           *)
PostAssignMember ==
  /\ Back({"VaribleAssigmentStatment"})
  /\ AssignsMember
  /\ LET copy == CopyJson(heap, Get(Operand(0)))
     IN  heap' = Written(copy.heap, Operand(1).place, copy.value)
  /\ args' = Popped(2)
  /\ UNCHANGED <<program, status, envs, calls, output, result>>

(* A call is entered on the way back: its callee is the top operand. *)
PostCall ==
  /\ At(FALSE, {"FunctionCall"}) /\ Defined
  /\ dfs' = Append(Front(dfs), [node |-> Last(Nodes[Get(Operand(0)).n].children), pre |-> TRUE])
  /\ UNCHANGED <<program, status, envs, calls, args, heap, output, result>>

(* Mutant: an entry without a handler stays where it is. *)
PostWithoutHandlerAgain ==
  /\ At(FALSE, {"UnExpr", "ObjectPair", "IfStatment", "WhileStatment", "FunctionStatment"})
  /\ Defined
  /\ UNCHANGED vars

(* No handler: a minus in front of an expression does nothing. *)
PostWithoutHandler ==
  /\ Back({"UnExpr", "ObjectPair", "IfStatment", "WhileStatment", "FunctionStatment"})
  /\ UNCHANGED <<program, status, envs, calls, args, heap, output, result>>

-----------------------------------------------------------------------------
(* The end.                                                                *)

(* An array indexed with something else than an int, or an object with     *)
(* something else than a string: exec() is left by an exception, and with  *)
(* it all its stacks go away.                                              *)
MistypedKey ==
  \/ At(FALSE, {"MemberExpression"}) /\ Defined /\
       \/ Get(Operand(1)).type = "Array" /\ Get(Operand(0)).type # "Int"
       \/ Get(Operand(1)).type = "Object" /\ Get(Operand(0)).type # "String"
  \/ Down({"IfStatment"}) /\ args # <<>> /\ ConditionValue(Walked.condition).type = "Thrown"

Throw ==
  /\ MistypedKey
  /\ status' = "thrown"
  /\ dfs' = <<>> /\ envs' = <<>> /\ calls' = <<>> /\ args' = <<>>
  /\ UNCHANGED <<program, heap, output, result>>

(* The walk is over: the top operand, if any, is the result. *)
Return ==
  /\ status = "walking" /\ dfs = <<>>
  /\ args # <<>> => Valid(Operand(0))
  /\ status' = "returned"
  /\ IF args = <<>>
     THEN UNCHANGED <<args, heap, result>>
     ELSE LET copy == CopyJson(heap, Get(Operand(0)))
          IN  heap' = copy.heap /\ result' = copy.value /\ args' = Popped(1)
  /\ UNCHANGED <<program, dfs, envs, calls, output>>

(* Undefined behaviour: nothing is claimed of what follows. *)
Undefined ==
  /\ status = "walking"
  /\ IF dfs = <<>> THEN args # <<>> /\ ~ Valid(Operand(0)) ELSE ~ Defined
  /\ status' = "undefined"
  /\ UNCHANGED <<program, dfs, envs, calls, args, heap, output, result>>

-----------------------------------------------------------------------------

Walk ==
  \/ PreScope \/ PreFunctionScope \/ PreIf \/ PreGoto \/ PreFunctionStatment \/ PreReturn \/ PreOrdinary
  \/ PostLiteral \/ PostVarible \/ PostArray \/ PostObject \/ PostBinExpr
  \/ PostScope \/ PostFunctionScope \/ PostReturn \/ PostPrint
  \/ PostMember \/ PostAssignVariable \/ PostAssignMember \/ PostCall \/ PostWithoutHandler
  \/ Throw \/ Return \/ Undefined

Finished == status # "walking" /\ UNCHANGED vars

Next == Walk \/ Finished

(* The loop of the walk does nothing else than handle the next entry. *)
Spec == Init /\ [][Next]_vars /\ WF_vars(Walk)
=============================================================================
