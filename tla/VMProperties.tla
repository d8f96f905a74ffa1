---------------------------- MODULE VMProperties ----------------------------
(***************************************************************************)
(* What is required of the images the virtual machine runs, and the        *)
(* correctness properties of the machine.                                  *)
(***************************************************************************)
EXTENDS BytecodeVM

ASSUME ImageAssumption == \A p \in Program : ImageOK(Image[p])

-----------------------------------------------------------------------------

(* A value that exists: a function has the body of one of the image's      *)
(* functions and closes over a scope that was allocated, an array or an    *)
(* object is an allocated cell.                                            *)
ValueOK(v) ==
  /\ v \in Json
  /\ v.type = "Function" => v.n \in 2..Len(Image[program]) /\ v.ref \in 0..Len(heap.scopes)
  /\ v.type = "Array"    => v.ref \in 1..Len(heap.arrays)
  /\ v.type = "Object"   => v.ref \in 1..Len(heap.objects)

FunctionOK(f) == \A k \in DOMAIN f : ValueOK(f[k])

FrameOK(frame) ==
  /\ frame.chunk \in 1..Len(Image[program])
  /\ frame.ip \in Nat
  /\ frame.base \in Nat
  /\ frame.env \in 1..Len(heap.scopes)
  /\ FunctionOK(frame.locals)

ScopeOK(scope) ==
  /\ scope.parent \in 0..Len(heap.scopes)
  /\ scope.has_closures \in BOOLEAN
  /\ DOMAIN scope.vars \in SUBSET Text
  /\ FunctionOK(scope.vars)

(* The type invariant.  No value the program can get at dangles.           *)
TypeOK ==
  /\ program \in Program
  /\ status \in {"running", "ending"} \cup Final
  /\ FunctionOK(stack)
  /\ status \in {"running", "ending"} => frames # <<>>
  /\ \A i \in DOMAIN frames : FrameOK(frames[i])
  /\ \A s \in DOMAIN heap.scopes : ScopeOK(heap.scopes[s])
  /\ \A c \in DOMAIN heap.arrays : FunctionOK(heap.arrays[c])
  /\ \A c \in DOMAIN heap.objects :
       DOMAIN heap.objects[c] \in SUBSET Text /\ FunctionOK(heap.objects[c])
  /\ ValueOK(result)

(* A parent link leads to a scope that was allocated earlier: the chains   *)
(* that EnvScope::write, EnvScope::operator[] and severParentChainCycle    *)
(* walk have no cycle, so the walks end.                                   *)
ParentsOlder == \A s \in DOMAIN heap.scopes : heap.scopes[s].parent < s

(* Frames are entered and left like brackets: a callee's scope is younger  *)
(* than its caller's, and its operands lie above its caller's.             *)
ScopesNested ==
  \A i, j \in DOMAIN frames : i < j => frames[i].env < frames[j].env

OperandsNested ==
  \A i, j \in DOMAIN frames : i < j => frames[i].base <= frames[j].base

FramesNested == ScopesNested /\ OperandsNested

(* RETURN may skip the cycle breaker only where it has nothing to do: a    *)
(* scope that binds a function, or a container that could hold one, has    *)
(* its flag set.                                                           *)
FlagSound ==
  \A s \in DOMAIN heap.scopes :
    (\E x \in DOMAIN heap.scopes[s].vars : MightHaveFunction(heap.scopes[s].vars[x])) =>
      heap.scopes[s].has_closures

-----------------------------------------------------------------------------

(* Whatever the cycle breaker cuts when a frame goes away, the scope chain *)
(* of every frame that is still running stays as it was, so no running     *)
(* function loses sight of a variable.                                     *)
RunningChainsIntact ==
  [][\A i \in DOMAIN frames \cap DOMAIN frames' :
       Chain(heap.scopes', frames[i].env) = Chain(heap.scopes, frames[i].env)]_vars

(* When a frame goes away, no function that is reached from the variables  *)
(* of its scope closes over that scope any more, directly or up its chain: *)
(* the variables do not keep the scope alive by themselves.                *)
DyingScopeReleased ==
  [][Len(frames') < Len(frames) /\ frames # <<>> /\ status' # "thrown" =>
       \A f \in FunctionsIn(heap', Range(heap'.scopes[Top.env].vars)) :
         Top.env \notin Chain(heap'.scopes, f.ref)]_vars

(* A callee never touches the operands of its callers. *)
CallersOperandsKept ==
  [][status = "running" /\ status' = "running" =>
       Len(stack') >= Top.base /\ \A i \in 1..Top.base : stack'[i] = stack[i]]_vars

(* The cells that a value, and a cell, hold a shared_ptr to.               *)
CellsOf(values) ==
  {<<v.type, v.ref>> : v \in {u \in values : u.type \in {"Array", "Object"}}} \cup
  {<<"Scope", v.ref>> : v \in {u \in values : u.type = "Function" /\ u.ref # 0}}

HeldBy(cell) ==
  CASE cell[1] = "Array"  -> CellsOf(Range(heap.arrays[cell[2]]))
    [] cell[1] = "Object" -> CellsOf(Range(heap.objects[cell[2]]))
    [] OTHER ->
         CellsOf(Range(heap.scopes[cell[2]].vars)) \cup
         (IF heap.scopes[cell[2]].parent = 0 THEN {} ELSE {<<"Scope", heap.scopes[cell[2]].parent>>})

(* The cells that are held, directly or not, by a cell.                    *)
Owns(cell) ==
  LET held[depth \in Nat] ==
        IF depth = 0
        THEN HeldBy(cell)
        ELSE LET nearer == held[depth - 1]
             IN  nearer \cup UNION {HeldBy(c) : c \in nearer}
  IN  held[Len(heap.scopes) + Len(heap.arrays) + Len(heap.objects)]

HeapCells ==
  {<<"Scope", s>> : s \in DOMAIN heap.scopes} \cup
  {<<"Array", a>> : a \in DOMAIN heap.arrays} \cup
  {<<"Object", o>> : o \in DOMAIN heap.objects}

(* The cells that hold themselves: no count of references ever frees them, *)
(* nor what they hold.                                                     *)
HeldForever == {cell \in HeapCells : cell \in Owns(cell)}

(* When the run has returned, no scope, array or object holds itself:      *)
(* reference counting frees everything the run allocated.                  *)
HeapReclaimed == status = "halted" => HeldForever = {}

(* Every program of a family that has no endless loop comes to an end.     *)
Terminates == <>(status \in Final)

(* The program's behaviour is defined by the language.                     *)
NeverUndefined == status # "undefined"
=============================================================================
