------------------------------ MODULE Bytecode ------------------------------
(***************************************************************************)
(* Chunks of bytecode (struct Chunk, enum Opcode): what the compiler emits *)
(* and the virtual machine executes.  A chunk is                           *)
(*   code        a sequence of [opcode, operand]                           *)
(*   ints        int_constants, and strings, string_constants              *)
(*   protos      function_protos, as the chunks of their bodies            *)
(*   params      the parameter names of the prototype                      *)
(*   num_locals  0 when the function keeps its variables in its scope,     *)
(*               otherwise the number of slots                             *)
(* Operands and addresses count from 0, as in the code.                    *)
(***************************************************************************)
EXTENDS JsonValues

ArithmeticOps == {"ADD", "SUB", "MUL", "DIV"}
ComparisonOps == {"EQ", "NEQ", "LT", "LTE", "GT", "GTE"}
ConstantOps   == {"PUSH_NULL", "PUSH_BOOL", "PUSH_INT", "PUSH_STRING"}
SlotOps       == {"LOAD_SLOT", "STORE_SLOT"}

Opcodes ==
  ConstantOps \cup ArithmeticOps \cup ComparisonOps \cup SlotOps \cup
  {"LOAD", "STORE_LOCAL", "STORE_GLOBAL", "NEG", "NOT",
   "MAKE_ARRAY", "MAKE_OBJECT", "GET_MEMBER", "SET_MEMBER", "JUMP", "JUMP_IF_FALSE",
   "PRINT", "POP", "MAKE_CLOSURE", "CALL", "RETURN"}

Instruction == [opcode : Opcodes, operand : Nat]

(* The number of values the handler takes off the stack, and leaves there. *)
Pops(i) ==
  CASE i.opcode \in ConstantOps \cup {"LOAD", "LOAD_SLOT", "MAKE_CLOSURE", "JUMP"} -> 0
    [] i.opcode \in ArithmeticOps \cup ComparisonOps \cup {"GET_MEMBER"} -> 2
    [] i.opcode = "SET_MEMBER"  -> 3
    [] i.opcode = "MAKE_ARRAY"  -> i.operand
    [] i.opcode = "MAKE_OBJECT" -> 2 * i.operand
    [] i.opcode = "CALL"        -> i.operand + 1
    [] OTHER                    -> 1

Pushes(i) ==
  IF i.opcode \in {"STORE_LOCAL", "STORE_GLOBAL", "STORE_SLOT", "SET_MEMBER",
                   "JUMP", "JUMP_IF_FALSE", "PRINT", "POP", "RETURN"}
  THEN 0
  ELSE 1

(* The addresses control can go on at. *)
Successors(i, ip) ==
  CASE i.opcode = "RETURN"        -> {}
    [] i.opcode = "JUMP"          -> {i.operand}
    [] i.opcode = "JUMP_IF_FALSE" -> {i.operand, ip + 1}
    [] OTHER                      -> {ip + 1}

-----------------------------------------------------------------------------
(* What the virtual machine relies on and never checks.                    *)

(* The chunk's operands index what they are meant to index, and its        *)
(* functions are other chunks than the top one.                            *)
ChunkOK(chunk, chunks) ==
  /\ chunk.code \in Seq(Instruction)
  /\ chunk.ints \in Seq(Int)
  /\ chunk.strings \in Seq(Text)
  /\ chunk.params \in Seq(Text)
  /\ chunk.protos \in Seq(2..Len(chunks))
  /\ chunk.num_locals \in Nat
  /\ \A i \in DOMAIN chunk.code :
       LET instr == chunk.code[i]
       IN  /\ instr.opcode = "PUSH_INT" => instr.operand < Len(chunk.ints)
           /\ instr.opcode \in {"PUSH_STRING", "LOAD", "STORE_LOCAL", "STORE_GLOBAL"} =>
                instr.operand < Len(chunk.strings)
           /\ instr.opcode = "MAKE_CLOSURE" => instr.operand < Len(chunk.protos)

ImageOK(chunks) ==
  /\ Len(chunks) \in Nat \ {0}
  /\ \A c \in 1..Len(chunks) : ChunkOK(chunks[c], chunks)

(* Every slot an instruction names is there; and a function that keeps its *)
(* variables in slots makes no closure, which would not see them, and      *)
(* declares no variable in its scope, which the slots would not see.       *)
SlotsOK(chunk) ==
  \A i \in DOMAIN chunk.code :
    /\ chunk.code[i].opcode \in SlotOps => chunk.code[i].operand < chunk.num_locals
    /\ chunk.code[i].opcode \in {"MAKE_CLOSURE", "STORE_LOCAL"} => chunk.num_locals = 0

(* depth is a certificate of the operands: for every address control can   *)
(* come to, the least number of operands an activation has of its own      *)
(* there.  Control starts at 0 with none; every instruction finds the      *)
(* operands it pops and leaves its successors what they count on; and a    *)
(* function returns before its code runs out.                              *)
Certifies(depth, code, top) ==
  /\ 0 \in DOMAIN depth /\ depth[0] = 0
  /\ DOMAIN depth \in SUBSET Nat
  /\ \A ip \in DOMAIN depth :
       /\ depth[ip] \in Nat
       /\ ip >= Len(code) => top
       /\ ip < Len(code) =>
            LET i == code[ip + 1]
            IN  /\ Pops(i) <= depth[ip]
                /\ \A next \in Successors(i, ip) :
                     /\ next \in DOMAIN depth
                     /\ depth[next] <= depth[ip] - Pops(i) + Pushes(i)
=============================================================================
