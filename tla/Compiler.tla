------------------------------ MODULE Compiler ------------------------------
(***************************************************************************)
(* The compiler from syntax trees to chunks of bytecode (class Compiler    *)
(* and struct Chunk).                                                      *)
(*                                                                         *)
(* The compiler's state c holds                                            *)
(*   chunks       every chunk made so far; 1 is the top chunk              *)
(*   chunk_stack  the chunks being emitted to, the current one last        *)
(*   fn_stack     one FnContext for every function being compiled, the     *)
(*                current one last: use_slots, and in slots the names that *)
(*                have one, in the order of their slots, so that next_slot *)
(*                is the number of names                                   *)
(* and every operator below returns the state after it.                    *)
(***************************************************************************)
EXTENDS SyntaxTree, Bytecode, SequencesExt

FnContext == [slots : Seq(Text), use_slots : BOOLEAN]

ChunkState ==
  [code : Seq(Instruction), ints : Seq(Int), strings : Seq(Text), protos : Seq(Nat),
   params : Seq(Text), num_locals : Nat]

CompilerState ==
  [chunks : Seq(ChunkState), chunk_stack : Seq(Nat), fn_stack : Seq(FnContext)]

EmptyChunk(params, num_locals) ==
  [code |-> <<>>, ints |-> <<>>, strings |-> <<>>, protos |-> <<>>,
   params |-> params, num_locals |-> num_locals]

CurrentId(c) == Last(c.chunk_stack)
Current(c)   == c.chunks[CurrentId(c)]
CodeSize(c)  == Len(Current(c).code)

(* Chunk::emit and Chunk::patch_operand on the current chunk. *)
Emit(c, opcode, operand) ==
  [c EXCEPT !.chunks[CurrentId(c)].code =
     Append(@, [opcode |-> opcode, operand |-> operand])]

PatchOperand(c, address, operand) ==
  [c EXCEPT !.chunks[CurrentId(c)].code[address + 1].operand = operand]

(* Chunk::add_int, add_string: the index of a constant in its pool, which  *)
(* takes each constant once.                                               *)
PoolWith(pool, constant)  == IF Contains(pool, constant) THEN pool ELSE Append(pool, constant)
PoolIndex(pool, constant) ==
  LET with == PoolWith(pool, constant)
  IN  (CHOOSE k \in DOMAIN with : with[k] = constant) - 1

EmitInt(c, i) ==
  Emit([c EXCEPT !.chunks[CurrentId(c)].ints = PoolWith(@, i)],
       "PUSH_INT", PoolIndex(Current(c).ints, i))

EmitWithString(c, opcode, str) ==
  Emit([c EXCEPT !.chunks[CurrentId(c)].strings = PoolWith(@, str)],
       opcode, PoolIndex(Current(c).strings, str))

-----------------------------------------------------------------------------
(* Slots of the function being compiled.                                   *)

Context(c)   == Last(c.fn_stack)
UsesSlots(c) == c.fn_stack # <<>> /\ Context(c).use_slots

HasSlot(c, name) == UsesSlots(c) /\ Contains(Context(c).slots, name)

(* The later of two parameters with the same name has the name. *)
LastIndexOf(names, x) ==
  CHOOSE i \in DOMAIN names : names[i] = x /\ \A j \in (i + 1)..Len(names) : names[j] # x

SlotOf(c, name) == LastIndexOf(Context(c).slots, name) - 1

NextSlot(c) == Len(Context(c).slots)

AllocateSlot(c, name) ==
  [c EXCEPT !.fn_stack[Len(c.fn_stack)].slots   = Append(@, name),
            !.chunks[CurrentId(c)].num_locals = IF NextSlot(c) >= @ THEN NextSlot(c) + 1 ELSE @]

(* Mutant: in a slot function every assignment to a new name takes a slot, *)
(* not only a declaration.                                                 *)
EmitStoreAlwaysSlot(c, name, context) ==
  CASE HasSlot(c, name) -> Emit(c, "STORE_SLOT", SlotOf(c, name))
    [] ~ HasSlot(c, name) /\ UsesSlots(c) ->
         Emit(AllocateSlot(c, name), "STORE_SLOT", NextSlot(c))
    [] OTHER ->
         EmitWithString(c, IF context = "LOCAL" THEN "STORE_LOCAL" ELSE "STORE_GLOBAL", name)

EmitStore(c, name, context) ==
  CASE HasSlot(c, name) -> Emit(c, "STORE_SLOT", SlotOf(c, name))
    [] ~ HasSlot(c, name) /\ UsesSlots(c) /\ context = "LOCAL" ->
         Emit(AllocateSlot(c, name), "STORE_SLOT", NextSlot(c))
    [] OTHER ->
         EmitWithString(c, IF context = "LOCAL" THEN "STORE_LOCAL" ELSE "STORE_GLOBAL", name)

-----------------------------------------------------------------------------
(* The visitor methods.  A tree is compiled by what is made of its         *)
(* children: below[child] says of every tree of one level less whether it  *)
(* has nested functions, and its effect on the state of the compiler.      *)

HasNestedFunctions(below, node) ==
  \/ node.class = "FunctionStatment"
  \/ \E i \in DOMAIN node.children : below[node.children[i]].nested

(* compile_node on a child, and on each of the nodes in turn. *)
CompileChild(below, c, child) == below[child].effect[c]

CompileAll(below, c, nodes) ==
  LET after[n \in 0..Len(nodes)] ==
        IF n = 0 THEN c ELSE CompileChild(below, after[n - 1], nodes[n])
  IN  after[Len(nodes)]

VisitBinExpr(below, c, node) == Emit(CompileAll(below, c, node.children), node.str, 0)

(* A bare name as the key is the name of a member. *)
CompileKey(below, c, key) ==
  IF key.class = "Name" THEN EmitWithString(c, "PUSH_STRING", key.str) ELSE CompileChild(below, c, key)

VisitMemberExpression(below, c, node) ==
  Emit(CompileKey(below, CompileChild(below, c, node.children[1]), node.children[2]), "GET_MEMBER", 0)

VisitArray(below, c, node) ==
  Emit(CompileAll(below, c, node.children), "MAKE_ARRAY", Len(node.children))

VisitObject(below, c, node) ==
  LET item(i) == node.children[(i + 1) \div 2].children[2 - (i % 2)]
  IN  Emit(CompileAll(below, c, [i \in 1..(2 * Len(node.children)) |-> item(i)]),
           "MAKE_OBJECT", Len(node.children))

VisitIfStatment(below, c, node) ==
  LET branch  == Emit(CompileChild(below, c, node.children[1]), "JUMP_IF_FALSE", 0)
      jif     == CodeSize(branch) - 1
      then    == CompileChild(below, branch, node.children[2])
      skip    == Emit(then, "JUMP", 0)
      jmp     == CodeSize(skip) - 1
      else    == CompileChild(below, PatchOperand(skip, jif, CodeSize(skip)), node.children[3])
  IN  IF Len(node.children) >= 3
      THEN PatchOperand(else, jmp, CodeSize(else))
      ELSE PatchOperand(then, jif, CodeSize(then))

(* Mutant: the exit of the loop is patched to its beginning. *)
VisitWhileStatmentEndless(below, c, node) ==
  LET start  == CodeSize(c)
      branch == Emit(CompileChild(below, c, node.children[1]), "JUMP_IF_FALSE", 0)
      jif    == CodeSize(branch) - 1
      loop   == Emit(CompileChild(below, branch, node.children[2]), "JUMP", start)
  IN  PatchOperand(loop, jif, start)

VisitWhileStatment(below, c, node) ==
  LET start  == CodeSize(c)
      branch == Emit(CompileChild(below, c, node.children[1]), "JUMP_IF_FALSE", 0)
      jif    == CodeSize(branch) - 1
      loop   == Emit(CompileChild(below, branch, node.children[2]), "JUMP", start)
  IN  PatchOperand(loop, jif, CodeSize(loop))

VisitAssigment(below, c, node) ==
  LET target == node.children[1]
      source == node.children[2]
  IN  IF target.class = "Name"
      THEN EmitStore(CompileChild(below, c, source), target.str, node.str)
      ELSE LET container == CompileChild(below, c, target.children[1])
               key       == CompileKey(below, container, target.children[2])
           IN  Emit(CompileChild(below, key, source), "SET_MEMBER", 0)

VisitFunctionStatment(below, c, node) ==
  LET params    == [i \in 1..(Len(node.children) - 2) |-> node.children[i + 1].str]
      body      == Last(node.children)
      use_slots == ~ below[body].nested
      id        == Len(c.chunks) + 1
      context   == [use_slots |-> use_slots, slots |-> IF use_slots THEN params ELSE <<>>]
      entered   == [chunks      |-> Append(c.chunks,
                                      EmptyChunk(params, IF use_slots THEN Len(params) ELSE 0)),
                    chunk_stack |-> Append(c.chunk_stack, id),
                    fn_stack    |-> Append(c.fn_stack, context)]
      compiled  == Emit(Emit(CompileChild(below, entered, body), "PUSH_NULL", 0), "RETURN", 0)
      left      == [compiled EXCEPT !.chunk_stack = Front(@), !.fn_stack = Front(@)]
      proto     == [left EXCEPT !.chunks[CurrentId(left)].protos = Append(@, id)]
  IN  EmitWithString(Emit(proto, "MAKE_CLOSURE", Len(Current(left).protos)),
                     "STORE_LOCAL", node.str)

(* The children of a call are its arguments and, last, the callee, which   *)
(* is compiled first.                                                      *)
VisitFunctionCall(below, c, node) ==
  Emit(CompileAll(below, CompileChild(below, c, Last(node.children)), Front(node.children)),
       "CALL", Len(node.children) - 1)

(* Every other node, a bare Name among them, emits nothing.                *)
CompileNode(below, c, node) ==
  CASE node.class = "F"       -> EmitInt(c, node.int)
    [] node.class = "String"  -> EmitWithString(c, "PUSH_STRING", node.str)
    [] node.class = "Varible" ->
         IF HasSlot(c, node.str)
         THEN Emit(c, "LOAD_SLOT", SlotOf(c, node.str))
         ELSE EmitWithString(c, "LOAD", node.str)
    [] node.class = "UnExpr"  -> Emit(CompileAll(below, c, node.children), "NEG", 0)
    [] node.class = "BinExpr" -> VisitBinExpr(below, c, node)
    [] node.class = "MemberExpression" -> VisitMemberExpression(below, c, node)
    [] node.class = "Array"   -> VisitArray(below, c, node)
    [] node.class = "Object"  -> VisitObject(below, c, node)
    [] node.class = "Scope"   -> CompileAll(below, c, node.children)
    [] node.class = "PrintStatment"  -> Emit(CompileAll(below, c, node.children), "PRINT", 0)
    [] node.class = "ReturnStatment" -> Emit(CompileAll(below, c, node.children), "RETURN", 0)
    [] node.class = "IfStatment"     -> VisitIfStatment(below, c, node)
    [] node.class = "WhileStatment"  -> VisitWhileStatment(below, c, node)
    [] node.class = "VaribleAssigmentStatment" -> VisitAssigment(below, c, node)
    [] node.class = "FunctionStatment" -> VisitFunctionStatment(below, c, node)
    [] node.class = "FunctionCall"     -> VisitFunctionCall(below, c, node)
    [] OTHER -> c

(* What the compiler makes of a set of trees, given what it makes of their *)
(* children; of all trees of at most so many levels; and the chunks of one *)
(* of them.                                                                *)
Compilations(below, nodes) ==
  [node \in nodes |->
     [nested |-> HasNestedFunctions(below, node),
      effect |-> [c \in CompilerState |-> CompileNode(below, c, node)]]]

Compiled[depth \in Nat] ==
  IF depth = 0 THEN <<>> ELSE Compilations(Compiled[depth - 1], NodeTrees[depth])

InitialState ==
  [chunks |-> <<EmptyChunk(<<>>, 0)>>, chunk_stack |-> <<1>>, fn_stack |-> <<>>]

Compile(depth, root) == CompileChild(Compiled[depth], InitialState, root).chunks
=============================================================================
