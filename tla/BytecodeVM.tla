----------------------------- MODULE BytecodeVM -----------------------------
(***************************************************************************)
(* The bytecode virtual machine (VM::run): one action per opcode handler.  *)
(*                                                                         *)
(* Image[p] is the compiled form of program p, the sequence of its chunks. *)
(* Chunk 1 is the top chunk; every other chunk is the body of one function *)
(* prototype and carries the prototype's parameter names.                  *)
(***************************************************************************)
EXTENDS CycleBreaker, Bytecode

CONSTANTS
  Program,   \* the programs a run may start with
  Image      \* the compiled chunks of every program

VARIABLES
  program,   \* the program being run
  status,    \* "running", "ending" (in the loop after the code ran out),
             \* "halted", "thrown", or "undefined" (undefined behaviour)
  stack,     \* stack_
  frames,    \* frames_: [chunk, ip, base, env, locals]
  heap,      \* [scopes, arrays, objects]
  output,    \* what was printed so far
  result     \* the value run() returned

vars == <<program, status, stack, frames, heap, output, result>>

Final == {"halted", "thrown", "undefined"}

Top   == frames[Len(frames)]
Chunk == Image[program][Top.chunk]
Instr == Chunk.code[Top.ip + 1]

Init ==
  /\ program \in Program
  /\ status = "running"
  /\ stack = <<>>
  /\ frames = <<[chunk |-> 1, ip |-> 0, base |-> 0, env |-> 1, locals |-> <<>>]>>
  /\ heap = [scopes |-> <<NewScope(0)>>, arrays |-> <<>>, objects |-> <<>>]
  /\ output = <<>>
  /\ result = NullJson

-----------------------------------------------------------------------------
(* The operands of the current instruction.                                *)

(* The operand `depth' places below the top, and the stack without the top *)
(* n values.                                                               *)
Operand(depth) == stack[Len(stack) - depth]
Popped(n)      == SubSeq(stack, 1, Len(stack) - n)
Args(n)        == SubSeq(stack, Len(stack) - n + 1, Len(stack))

Name == Chunk.strings[Instr.operand + 1]

Params(fn) == Image[program][fn.n].params

KeyFits(container, key) ==
  /\ container.type = "Array"  => key.type = "Int"
  /\ container.type = "Object" => key.type = "String"

(* The handler of the current instruction has a defined effect.  Outside   *)
(* of it lie: a pop from a stack too short, a division by zero, a failed   *)
(* assert of an accessor, a negative index, a slot or an argument that is  *)
(* not there, and a recursion over a container that contains itself.       *)
Defined ==
  /\ Len(stack) >= Pops(Instr)
  /\ CASE Instr.opcode \in ArithmeticOps ->
            ArithmeticDefined(Instr.opcode, Operand(1), Operand(0))
       [] Instr.opcode = "NEG" ->
            Operand(0).type = "Int" => Operand(0).n > -MaxInt32 - 1
       [] Instr.opcode \in {"EQ", "NEQ"} ->
            ~ SelfContaining(heap, {Operand(1), Operand(0)})
       [] Instr.opcode = "PRINT" -> ~ SelfContaining(heap, {Operand(0)})
       [] Instr.opcode = "GET_MEMBER" -> KeyFits(Operand(1), Operand(0))
       [] Instr.opcode = "SET_MEMBER" ->
            /\ KeyFits(Operand(2), Operand(1))
            /\ Operand(2).type = "Array" => Operand(1).n >= 0
       [] Instr.opcode = "MAKE_OBJECT" ->
            \A i \in 1..Instr.operand : Operand(2 * i - 1).type = "String"
       [] Instr.opcode = "CALL" ->
            Operand(Instr.operand).type = "Function" =>
              Instr.operand >= Len(Params(Operand(Instr.operand)))
       [] Instr.opcode = "RETURN" ->
            heap.scopes[Top.env].has_closures =>
              ~ SelfContaining(heap, Range(heap.scopes[Top.env].vars))
       [] Instr.opcode \in {"LOAD_SLOT", "STORE_SLOT"} ->
            Instr.operand < Len(Top.locals)
       [] OTHER -> TRUE

(* DISPATCH: the top frame has an instruction left.                        *)
Fetching == status = "running" /\ Top.ip < Len(Chunk.code)

Executing(opcodes) == Fetching /\ Instr.opcode \in opcodes /\ Defined

(* Go on with the instruction at ip, on the stack s. *)
Continue(ip, s) ==
  /\ stack' = s
  /\ frames' = [frames EXCEPT ![Len(frames)].ip = ip]
  /\ UNCHANGED <<program, status, result>>

Advance(s) == Continue(Top.ip + 1, s)

-----------------------------------------------------------------------------
(* Literals and variables.                                                 *)

Literal ==
  CASE Instr.opcode = "PUSH_NULL" -> NullJson
    [] Instr.opcode = "PUSH_BOOL" -> BoolJson(Instr.operand # 0)
    [] Instr.opcode = "PUSH_INT"  -> IntJson(Chunk.ints[Instr.operand + 1])
    [] OTHER                      -> StringJson(Chunk.strings[Instr.operand + 1])

PushConstant ==
  /\ Executing(ConstantOps)
  /\ Advance(Append(stack, Literal))
  /\ UNCHANGED <<heap, output>>

Load ==
  /\ Executing({"LOAD"})
  /\ Advance(Append(stack, Read(heap.scopes, Top.env, Name)))
  /\ heap' = [heap EXCEPT !.scopes = Touch(heap.scopes, Top.env, Name)]
  /\ UNCHANGED output

StoreLocal ==
  /\ Executing({"STORE_LOCAL"})
  /\ Advance(Popped(1))
  /\ heap' = [heap EXCEPT !.scopes = WriteLocal(heap.scopes, Top.env, Name, Operand(0))]
  /\ UNCHANGED output

StoreGlobal ==
  /\ Executing({"STORE_GLOBAL"})
  /\ Advance(Popped(1))
  /\ heap' = [heap EXCEPT !.scopes = WriteGlobal(heap.scopes, Top.env, Name, Operand(0))]
  /\ UNCHANGED output

LoadSlot ==
  /\ Executing({"LOAD_SLOT"})
  /\ Advance(Append(stack, Top.locals[Instr.operand + 1]))
  /\ UNCHANGED <<heap, output>>

StoreSlot ==
  /\ Executing({"STORE_SLOT"})
  /\ stack' = Popped(1)
  /\ frames' = [frames EXCEPT
                  ![Len(frames)].ip = @ + 1,
                  ![Len(frames)].locals[Instr.operand + 1] = Operand(0)]
  /\ UNCHANGED <<program, status, heap, output, result>>

-----------------------------------------------------------------------------
(* Operators.                                                              *)

BinaryArithmetic ==
  /\ Executing(ArithmeticOps)
  /\ Advance(Append(Popped(2), Arithmetic(Instr.opcode, Operand(1), Operand(0))))
  /\ UNCHANGED <<heap, output>>

Comparison ==
  /\ Executing(ComparisonOps)
  /\ Advance(Append(Popped(2),
       Compare(Instr.opcode, heap.arrays, heap.objects, Operand(1), Operand(0))))
  /\ UNCHANGED <<heap, output>>

(* Mutant: nothing is pushed for an operand of the wrong type. *)
UnaryWithoutResult ==
  /\ Executing({"NEG", "NOT"})
  /\ Advance(IF Instr.opcode = "NOT" /\ Operand(0).type = "Bool"
             THEN Append(Popped(1), Not(Operand(0)))
             ELSE Popped(1))
  /\ UNCHANGED <<heap, output>>

Unary ==
  /\ Executing({"NEG", "NOT"})
  /\ Advance(Append(Popped(1),
       IF Instr.opcode = "NEG" THEN Negate(Operand(0)) ELSE Not(Operand(0))))
  /\ UNCHANGED <<heap, output>>

-----------------------------------------------------------------------------
(* Collections.                                                            *)

MakeArray ==
  /\ Executing({"MAKE_ARRAY"})
  /\ Advance(Append(Popped(Instr.operand), ArrayJson(Len(heap.arrays) + 1)))
  /\ heap' = [heap EXCEPT !.arrays = Append(@, Args(Instr.operand))]
  /\ UNCHANGED output

(* The pairs are popped from the last to the first, so the first of two    *)
(* pairs with the same key is the one that stays.                          *)
MakeObject ==
  /\ Executing({"MAKE_OBJECT"})
  /\ LET pairs == Args(2 * Instr.operand)
         keys  == {pairs[2 * i - 1].s : i \in 1..Instr.operand}
         first == [key \in keys |->
                     CHOOSE i \in 1..Instr.operand :
                       /\ pairs[2 * i - 1].s = key
                       /\ \A j \in 1..(i - 1) : pairs[2 * j - 1].s # key]
     IN  heap' = [heap EXCEPT !.objects = Append(@, [key \in keys |-> pairs[2 * first[key]]])]
  /\ Advance(Append(Popped(2 * Instr.operand), ObjectJson(Len(heap.objects) + 1)))
  /\ UNCHANGED output

(* container[key]: null when there is no such member or no container.      *)
Member(container, key) ==
  CASE container.type = "Array" ->
         IF key.n \in 0..(Len(heap.arrays[container.ref]) - 1)
         THEN heap.arrays[container.ref][key.n + 1]
         ELSE NullJson
    [] container.type = "Object" ->
         IF key.s \in DOMAIN heap.objects[container.ref]
         THEN heap.objects[container.ref][key.s]
         ELSE NullJson
    [] OTHER -> NullJson

GetMember ==
  /\ Executing({"GET_MEMBER"})
  /\ Advance(Append(Popped(2), Member(Operand(1), Operand(0))))
  /\ UNCHANGED <<heap, output>>

(* An array grows, filled with nulls, to take an index past its end.       *)
StoreElement(array, index, value) ==
  [i \in 1..(IF index < Len(array) THEN Len(array) ELSE index + 1) |->
     IF i = index + 1 THEN value
     ELSE IF i <= Len(array) THEN array[i]
     ELSE NullJson]

StoreField(object, key, value) ==
  [k \in (DOMAIN object) \cup {key} |-> IF k = key THEN value ELSE object[k]]

SetMember ==
  /\ Executing({"SET_MEMBER"})
  /\ Advance(Popped(3))
  /\ LET container == Operand(2)
         key       == Operand(1)
     IN  heap' = CASE container.type = "Array" ->
                        [heap EXCEPT !.arrays[container.ref] = StoreElement(@, key.n, Operand(0))]
                   [] container.type = "Object" ->
                        [heap EXCEPT !.objects[container.ref] = StoreField(@, key.s, Operand(0))]
                   [] OTHER -> heap
  /\ UNCHANGED output

-----------------------------------------------------------------------------
(* Control flow.                                                           *)

Jump ==
  /\ Executing({"JUMP"})
  /\ Continue(Instr.operand, stack)
  /\ UNCHANGED <<heap, output>>

JumpIfFalse ==
  /\ Executing({"JUMP_IF_FALSE"})
  /\ Continue(IF Falsy(Operand(0)) THEN Instr.operand ELSE Top.ip + 1, Popped(1))
  /\ UNCHANGED <<heap, output>>

PrintTop ==
  /\ Executing({"PRINT"})
  /\ Advance(Popped(1))
  /\ output' = Append(output, Shown(heap.arrays, heap.objects, Operand(0)))
  /\ UNCHANGED heap

Pop ==
  /\ Executing({"POP"})
  /\ Advance(Popped(1))
  /\ UNCHANGED <<heap, output>>

-----------------------------------------------------------------------------
(* Functions.                                                              *)

(* Mutant: the closure is the parent of the running scope. *)
MakeClosureInParent ==
  /\ Executing({"MAKE_CLOSURE"})
  /\ Advance(Append(stack,
       FunctionJson(Chunk.protos[Instr.operand + 1], heap.scopes[Top.env].parent)))
  /\ UNCHANGED <<heap, output>>

(* The closure of a new function is the scope of the running frame.        *)
MakeClosure ==
  /\ Executing({"MAKE_CLOSURE"})
  /\ Advance(Append(stack, FunctionJson(Chunk.protos[Instr.operand + 1], Top.env)))
  /\ UNCHANGED <<heap, output>>

(* The variables a callee that uses its scope starts with: when two        *)
(* parameters have the same name, the last one is the one that stays.      *)
ParamVars(params, args) ==
  [x \in Range(params) |->
     args[CHOOSE i \in DOMAIN params :
            params[i] = x /\ \A j \in (i + 1)..Len(params) : params[j] # x]]

(* Mutants: the scope is made a child of itself; and binding the parameters *)
(* does not mark it.                                                       *)
CalleeScopeOwnParent(fn, args, slots) == NewScope(Len(heap.scopes) + 1)

CalleeScopeUnmarked(fn, args, slots) ==
  [NewScope(fn.ref) EXCEPT !.vars = IF slots > 0 THEN @ ELSE ParamVars(Params(fn), args)]

CalleeScope(fn, args, slots) ==
  IF slots > 0
  THEN NewScope(fn.ref)
  ELSE [parent       |-> fn.ref,
        vars         |-> ParamVars(Params(fn), args),
        has_closures |-> \E i \in DOMAIN Params(fn) : MightHaveFunction(args[i])]

CalleeLocals(fn, args, slots) ==
  [i \in 1..slots |-> IF i <= Len(Params(fn)) THEN args[i] ELSE NullJson]

(* Mutant: the callee's operands begin at the bottom of the stack.         *)
CalleeFrameFromBottom(fn, n, slots) ==
  [chunk |-> fn.n, ip |-> 0, base |-> 0, env |-> Len(heap.scopes) + 1,
   locals |-> CalleeLocals(fn, Args(n), slots)]

(* The frame of a callee that was called with n arguments: its operands    *)
(* begin where the callee and the arguments were.                          *)
CalleeFrame(fn, n, slots) ==
  [chunk  |-> fn.n,
   ip     |-> 0,
   base   |-> Len(stack) - n - 1,
   env    |-> Len(heap.scopes) + 1,
   locals |-> CalleeLocals(fn, Args(n), slots)]

Call ==
  /\ Executing({"CALL"})
  /\ LET n     == Instr.operand
         fn    == Operand(n)
         slots == Image[program][fn.n].num_locals
     IN  /\ fn.type = "Function"
         /\ stack' = Popped(n + 1)
         /\ heap' = [heap EXCEPT !.scopes = Append(@, CalleeScope(fn, Args(n), slots))]
         /\ frames' = Append([frames EXCEPT ![Len(frames)].ip = @ + 1],
                             CalleeFrame(fn, n, slots))
  /\ UNCHANGED <<program, status, output, result>>

(* Calling anything else throws out of run(): stack and frames go away,    *)
(* and no scope has its cycles broken.                                     *)
CallThrows ==
  /\ Executing({"CALL"})
  /\ Operand(Instr.operand).type # "Function"
  /\ status' = "thrown"
  /\ stack' = <<>>
  /\ frames' = <<>>
  /\ UNCHANGED <<program, heap, output, result>>

(* Mutant: the scope is freed with its frame. *)
DropScopeFreeing(env) == [heap EXCEPT !.scopes = SubSeq(@, 1, env - 1)]

(* What dropping a frame does to the heap. *)
DropScope(env) ==
  IF heap.scopes[env].has_closures THEN BreakCycles(heap, env) ELSE heap

(* vector::resize: it cuts the stack down, or pads it with nulls.          *)
Resize(s, n) == [i \in 1..n |-> IF i <= Len(s) THEN s[i] ELSE NullJson]

(* Mutants: the stack is cut one too low; the value is not delivered.      *)
CallerStackTooShort == Append(Resize(Popped(1), Top.base - 1), Operand(0))

CallerStackWithoutValue == Resize(Popped(1), Top.base)

(* The operands the caller goes on with: those it had below the callee's   *)
(* base, and the value returned.                                           *)
CallerStack == Append(Resize(Popped(1), Top.base), Operand(0))

Return ==
  /\ Executing({"RETURN"})
  /\ heap' = DropScope(Top.env)
  /\ frames' = SubSeq(frames, 1, Len(frames) - 1)
  /\ IF Len(frames) = 1
     THEN /\ status' = "halted"
          /\ result' = Operand(0)
          /\ stack' = Popped(1)
     ELSE /\ stack' = CallerStack
          /\ UNCHANGED <<status, result>>
  /\ UNCHANGED <<program, output>>

(* Mutant: only the frame whose code ran out has its cycles broken. *)
RunOffEndTopOnly ==
  /\ \/ status = "running" /\ Top.ip >= Len(Chunk.code)
     \/ status = "ending"
  /\ heap.scopes[Top.env].has_closures =>
       ~ SelfContaining(heap, Range(heap.scopes[Top.env].vars))
  /\ heap' = IF status = "running" THEN DropScope(Top.env) ELSE heap
  /\ frames' = SubSeq(frames, 1, Len(frames) - 1)
  /\ IF Len(frames) > 1
     THEN status' = "ending" /\ UNCHANGED <<stack, result>>
     ELSE /\ status' = "halted"
          /\ IF stack = <<>>
             THEN UNCHANGED <<stack, result>>
             ELSE stack' = Popped(1) /\ result' = Operand(0)
  /\ UNCHANGED <<program, output>>

(* The code of the top frame ran out: a loop drops every frame there is,   *)
(* one per step here, and then run() returns the top of the stack, if any. *)
RunOffEnd ==
  /\ \/ status = "running" /\ Top.ip >= Len(Chunk.code)
     \/ status = "ending"
  /\ heap.scopes[Top.env].has_closures =>
       ~ SelfContaining(heap, Range(heap.scopes[Top.env].vars))
  /\ heap' = DropScope(Top.env)
  /\ frames' = SubSeq(frames, 1, Len(frames) - 1)
  /\ IF Len(frames) > 1
     THEN status' = "ending" /\ UNCHANGED <<stack, result>>
     ELSE /\ status' = "halted"
          /\ IF stack = <<>>
             THEN UNCHANGED <<stack, result>>
             ELSE stack' = Popped(1) /\ result' = Operand(0)
  /\ UNCHANGED <<program, output>>

(* Undefined behaviour: nothing is claimed of what follows.                *)
Undefined ==
  /\ \/ Fetching /\ ~ Defined
     \/ /\ status = "ending" \/ (status = "running" /\ Top.ip >= Len(Chunk.code))
        /\ heap.scopes[Top.env].has_closures
        /\ SelfContaining(heap, Range(heap.scopes[Top.env].vars))
  /\ status' = "undefined"
  /\ UNCHANGED <<program, stack, frames, heap, output, result>>

-----------------------------------------------------------------------------

Execute ==
  \/ PushConstant \/ Load \/ StoreLocal \/ StoreGlobal \/ LoadSlot \/ StoreSlot
  \/ BinaryArithmetic \/ Comparison \/ Unary
  \/ MakeArray \/ MakeObject \/ GetMember \/ SetMember
  \/ Jump \/ JumpIfFalse \/ PrintTop \/ Pop
  \/ MakeClosure \/ Call \/ CallThrows \/ Return
  \/ RunOffEnd \/ Undefined

(* run() has returned or thrown, or the behaviour is undefined. *)
Finished == status \in Final /\ UNCHANGED vars

Next == Execute \/ Finished

(* The dispatch loop does nothing else than execute the next instruction.  *)
Spec == Init /\ [][Next]_vars /\ WF_vars(Execute)
=============================================================================
