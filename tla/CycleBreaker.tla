---------------------------- MODULE CycleBreaker ----------------------------
(***************************************************************************)
(* The cycle breaker both interpreters run when a scope goes away          *)
(* (breakCycles, breakCyclesInJson, severParentChainCycle).                *)
(*                                                                         *)
(* A function stored in the scope it closes over keeps that scope alive by *)
(* reference counting.  Before a scope is dropped, the breaker visits the  *)
(* values bound in it, descending into arrays and objects, and cuts the    *)
(* references that lead back to the scope: it clears the closure of a      *)
(* function that closes over the scope itself, and for a function that     *)
(* closes over another scope it cuts the parent link, anywhere up that     *)
(* scope's chain, that points at the dying scope.                          *)
(*                                                                         *)
(* A heap is a record of the sequence of scopes, the sequence of array     *)
(* cells and the sequence of object cells.                                 *)
(***************************************************************************)
EXTENDS EnvScope, Functions

Contents(heap, container) ==
  IF container.type = "Array"
  THEN Range(heap.arrays[container.ref])
  ELSE Range(heap.objects[container.ref])

ContainersIn(values) == {v \in values : v.type \in {"Array", "Object"} /\ v \in Json}

(* Mutant: breakCyclesInJson does not descend. *)
ReachableNothing(heap, values) == {}

(* Every array and object that breakCyclesInJson reaches from the values.  *)
Reachable(heap, values) ==
  LET reach[found \in SUBSET Json] ==
        LET more == found \cup ContainersIn(UNION {Contents(heap, c) : c \in found})
        IN  IF more = found THEN found ELSE reach[more]
  IN  reach[ContainersIn(values)]

(* A container that contains itself: the recursion over it never ends.     *)
SelfContaining(heap, values) ==
  \E c \in Reachable(heap, values) : c \in Reachable(heap, Contents(heap, c))

(* Every function that breakCyclesInJson reaches from the values.          *)
FunctionsIn(heap, values) ==
  {v \in values \cup UNION {Contents(heap, c) : c \in Reachable(heap, values)} :
     v.type = "Function"}

(* Mutants: the link of the closure's own scope is cut, wherever it leads; *)
(* none is.                                                                *)
SeveredForFirstLink(scopes, closure, dying) == IF closure \in {0, dying} THEN {} ELSE {closure}

SeveredForNothing(scopes, closure, dying) == {}

(* The scopes whose parent link severParentChainCycle cuts for `closure':  *)
(* the link into the dying scope.                                          *)
SeveredFor(scopes, closure, dying) ==
  IF closure \in {0, dying}
  THEN {}
  ELSE {s \in Chain(scopes, closure) : scopes[s].parent = dying}

ClearClosure(v, dying) ==
  IF v.type = "Function" /\ v.ref = dying THEN [v EXCEPT !.ref = 0] ELSE v

ClearClosures(f, dying) == [k \in DOMAIN f |-> ClearClosure(f[k], dying)]

BreakCycles(heap, dying) ==
  LET values  == Range(heap.scopes[dying].vars)
      reached == Reachable(heap, values)
      severed == UNION {SeveredFor(heap.scopes, f.ref, dying) : f \in FunctionsIn(heap, values)}
  IN  [scopes  |-> [s \in DOMAIN heap.scopes |->
                      [heap.scopes[s] EXCEPT
                         !.parent = IF s \in severed THEN 0 ELSE @,
                         !.vars   = IF s = dying THEN ClearClosures(@, dying) ELSE @]],
       arrays  |-> [c \in DOMAIN heap.arrays |->
                      IF ArrayJson(c) \in reached
                      THEN ClearClosures(heap.arrays[c], dying)
                      ELSE heap.arrays[c]],
       objects |-> [c \in DOMAIN heap.objects |->
                      IF ObjectJson(c) \in reached
                      THEN ClearClosures(heap.objects[c], dying)
                      ELSE heap.objects[c]]]
=============================================================================
