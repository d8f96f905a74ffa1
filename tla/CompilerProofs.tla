--------------------------- MODULE CompilerProofs ---------------------------
(***************************************************************************)
(* What the virtual machine relies on and never checks holds of everything *)
(* the compiler emits, for syntax trees of any depth: the operands of      *)
(* instructions index what they are meant to index, jumps lead to          *)
(* instructions of the same chunk, code finds the operands it pops,        *)
(* functions return before their code runs out, and functions that keep    *)
(* their variables in slots make no closures.                              *)
(***************************************************************************)
EXTENDS Compiler, NatSets, SequenceTheorems, TLAPS

-----------------------------------------------------------------------------
(* Segments of code.                                                       *)

(* depth says how many operands more than at its beginning the code from   *)
(* one address to another has at least at every address; control leaves it *)
(* at its end only, with `out' operands more.                              *)
Fits(depth, code, from, to, ip) ==
  /\ code[ip + 1] \in Instruction
  /\ Pops(code[ip + 1]) <= depth[ip]
  /\ \A next \in Successors(code[ip + 1], ip) :
       /\ next \in from..to
       /\ depth[next] <= depth[ip] - Pops(code[ip + 1]) + Pushes(code[ip + 1])

Runs(depth, code, from, to, out) ==
  /\ depth \in [from..to -> Nat]
  /\ depth[from] = 0
  /\ depth[to] = out
  /\ \A ip \in from..(to - 1) : Fits(depth, code, from, to, ip)

Segment(code, from, to, out) == \E depth : Runs(depth, code, from, to, out)

(* Two codes have the same instructions from one address to another.       *)
SameCode(code, other, from, to) == \A a \in (from + 1)..to : other[a] = code[a]

LEMMA Counted ==
  ASSUME NEW i \in Instruction
  PROVE  Pops(i) \in Nat /\ Pushes(i) \in Nat
BY DEF Instruction, Pops, Pushes

LEMMA SegmentCopied ==
  ASSUME NEW code, NEW other, NEW from \in Nat, NEW to \in Nat, NEW out,
         Segment(code, from, to, out), SameCode(code, other, from, to)
  PROVE  Segment(other, from, to, out)
<1>1. PICK depth : Runs(depth, code, from, to, out)
  BY DEF Segment
<1>2. \A ip \in from..(to - 1) : other[ip + 1] = code[ip + 1]
  BY DEF SameCode
<1>3. Runs(depth, other, from, to, out)
  BY <1>1, <1>2 DEF Runs, Fits
<1> QED
  BY <1>3 DEF Segment

(* What fits in a part fits in the whole.                                  *)
LEMMA PartFits ==
  ASSUME NEW code, NEW from \in Nat, NEW to \in Nat, NEW a \in Nat, NEW b \in Nat,
         from <= a, b <= to, NEW part, NEW out, Runs(part, code, a, b, out),
         NEW base \in Nat, NEW whole, \A ip \in a..b : whole[ip] = base + part[ip],
         NEW ip \in a..(b - 1)
  PROVE  Fits(whole, code, from, to, ip)
<1>1. Fits(part, code, a, b, ip) /\ \A at \in a..b : part[at] \in Nat
  BY DEF Runs
<1>2. code[ip + 1] \in Instruction /\ Pops(code[ip + 1]) \in Nat /\ Pushes(code[ip + 1]) \in Nat
  BY <1>1, Counted DEF Fits
<1>3. ip \in a..b
  OBVIOUS
<1>4. Pops(code[ip + 1]) <= whole[ip]
  BY <1>1, <1>2, <1>3 DEF Fits
<1>5. ASSUME NEW next \in Successors(code[ip + 1], ip)
      PROVE  /\ next \in from..to
             /\ whole[next] <= whole[ip] - Pops(code[ip + 1]) + Pushes(code[ip + 1])
  <2>1. /\ next \in a..b
        /\ part[next] <= part[ip] - Pops(code[ip + 1]) + Pushes(code[ip + 1])
    BY <1>1 DEF Fits
  <2>2. part[next] \in Nat /\ part[ip] \in Nat
    BY <1>1, <1>3, <2>1
  <2>3. whole[next] = base + part[next] /\ whole[ip] = base + part[ip]
    BY <1>3, <2>1
  <2>4. next \in from..to
    BY <2>1
  <2> QED
    BY <1>2, <2>1, <2>2, <2>3, <2>4
<1> QED
  BY <1>2, <1>4, <1>5 DEF Fits

LEMMA SegmentEmpty ==
  ASSUME NEW code, NEW at \in Nat
  PROVE  Segment(code, at, at, 0)
<1>1. Runs([ip \in at..at |-> 0], code, at, at, 0)
  BY DEF Runs
<1> QED
  BY <1>1 DEF Segment

(* The value an expression leaves may be forgotten. *)
LEMMA SegmentWeakened ==
  ASSUME NEW code, NEW from \in Nat, NEW to \in Nat, NEW out \in Nat, from < to,
         Segment(code, from, to, out)
  PROVE  Segment(code, from, to, 0)
<1>1. PICK depth : Runs(depth, code, from, to, out)
  BY DEF Segment
<1> DEFINE less == [depth EXCEPT ![to] = 0]
<1>2. less \in [from..to -> Nat] /\ less[from] = 0 /\ less[to] = 0
  BY <1>1 DEF Runs
<1>3. \A ip \in from..to :
        less[ip] \in Nat /\ depth[ip] \in Nat /\ less[ip] <= depth[ip]
        /\ (ip # to => less[ip] = depth[ip])
  BY <1>1 DEF Runs
<1> HIDE DEF less
<1>4. ASSUME NEW ip \in from..(to - 1) PROVE Fits(less, code, from, to, ip)
  <2>1. ip \in from..to /\ ip # to /\ less[ip] = depth[ip] /\ less[ip] \in Nat
    BY <1>3
  <2>2. Fits(depth, code, from, to, ip)
    BY <1>1 DEF Runs
  <2>3. /\ code[ip + 1] \in Instruction
        /\ Pops(code[ip + 1]) \in Nat /\ Pushes(code[ip + 1]) \in Nat
    BY <2>2, Counted DEF Fits
  <2> QED
    BY <1>3, <2>1, <2>2, <2>3 DEF Fits
<1>5. Runs(less, code, from, to, 0)
  BY <1>2, <1>4 DEF Runs
<1> QED
  BY <1>5 DEF Segment

LEMMA SegmentsJoined ==
  ASSUME NEW code, NEW from \in Nat, NEW mid \in Nat, NEW to \in Nat,
         NEW a \in Nat, NEW b \in Nat, from <= mid, mid <= to,
         Segment(code, from, mid, a), Segment(code, mid, to, b)
  PROVE  Segment(code, from, to, a + b)
<1>1. PICK first : Runs(first, code, from, mid, a)
  BY DEF Segment
<1>2. PICK second : Runs(second, code, mid, to, b)
  BY DEF Segment
<1> DEFINE both == [ip \in from..to |-> IF ip < mid THEN first[ip] ELSE a + second[ip]]
<1>3. /\ \A ip \in from..mid : first[ip] \in Nat /\ both[ip] = 0 + first[ip]
      /\ \A ip \in mid..to : second[ip] \in Nat /\ both[ip] = a + second[ip]
  BY <1>1, <1>2 DEF Runs
<1>4. both \in [from..to -> Nat] /\ both[from] = 0 /\ both[to] = a + b
  BY <1>1, <1>2, <1>3 DEF Runs
<1> HIDE DEF both
<1>5. \A ip \in from..(mid - 1) : Fits(both, code, from, to, ip)
  BY <1>1, <1>3, PartFits
<1>6. \A ip \in mid..(to - 1) : Fits(both, code, from, to, ip)
  BY <1>2, <1>3, PartFits
<1>7. Runs(both, code, from, to, a + b)
  BY <1>4, <1>5, <1>6 DEF Runs
<1> QED
  BY <1>7 DEF Segment

Jumps == {"JUMP", "JUMP_IF_FALSE"}

(* One instruction that does not jump. *)
LEMMA SegmentOfOne ==
  ASSUME NEW code, NEW at \in Nat, code[at + 1] \in Instruction,
         code[at + 1].opcode \notin Jumps, Pops(code[at + 1]) = 0
  PROVE  Segment(code, at, at + 1, Pushes(code[at + 1]))
<1> DEFINE depth == [ip \in at..(at + 1) |-> IF ip = at THEN 0 ELSE Pushes(code[at + 1])]
<1>1. Pushes(code[at + 1]) \in Nat
  BY Counted
<1>2. \A next \in Successors(code[at + 1], at) : next = at + 1
  BY DEF Successors, Jumps
<1>3. Runs(depth, code, at, at + 1, Pushes(code[at + 1]))
  BY <1>1, <1>2 DEF Runs, Fits
<1> QED
  BY <1>3 DEF Segment

(* Code, and an instruction behind it that takes of what it leaves.        *)
LEMMA SegmentAppended ==
  ASSUME NEW code, NEW from \in Nat, NEW to \in Nat, NEW out \in Nat, from <= to,
         Segment(code, from, to, out), code[to + 1] \in Instruction,
         code[to + 1].opcode \notin Jumps, Pops(code[to + 1]) <= out
  PROVE  Segment(code, from, to + 1, out - Pops(code[to + 1]) + Pushes(code[to + 1]))
<1> DEFINE left == out - Pops(code[to + 1]) + Pushes(code[to + 1])
<1>1. PICK depth : Runs(depth, code, from, to, out)
  BY DEF Segment
<1> DEFINE more == [ip \in from..(to + 1) |-> IF ip = to + 1 THEN left ELSE depth[ip]]
<1>2. left \in Nat
  BY Counted
<1>3. /\ \A ip \in from..to : depth[ip] \in Nat /\ more[ip] = 0 + depth[ip]
      /\ depth[to] = out /\ depth[from] = 0 /\ more[to + 1] = left
  BY <1>1 DEF Runs
<1>4. more \in [from..(to + 1) -> Nat] /\ more[from] = 0
  BY <1>2, <1>3
<1> HIDE DEF more
<1>5. \A ip \in from..(to - 1) : Fits(more, code, from, to + 1, ip)
  BY <1>1, <1>3, PartFits
<1>6. Fits(more, code, from, to + 1, to)
  <2>1. \A next \in Successors(code[to + 1], to) : next = to + 1
    BY DEF Successors, Jumps
  <2>2. more[to] = out
    BY <1>3
  <2> QED
    BY <1>2, <1>3, <2>1, <2>2 DEF Fits
<1> HIDE DEF left
<1>7. Runs(more, code, from, to + 1, left)
  BY <1>3, <1>4, <1>5, <1>6 DEF Runs
<1> QED
  BY <1>7 DEF Segment, left

(* A condition, and code that is skipped when it is false.                 *)
LEMMA SegmentOfIf ==
  ASSUME NEW code, NEW from \in Nat, NEW jif \in Nat, NEW to \in Nat, from <= jif, jif < to,
         Segment(code, from, jif, 1),
         code[jif + 1] = [opcode |-> "JUMP_IF_FALSE", operand |-> to],
         Segment(code, jif + 1, to, 0)
  PROVE  Segment(code, from, to, 0)
<1>1. PICK cond : Runs(cond, code, from, jif, 1)
  BY DEF Segment
<1>2. PICK then : Runs(then, code, jif + 1, to, 0)
  BY DEF Segment
<1> DEFINE all == [ip \in from..to |-> IF ip <= jif THEN cond[ip] ELSE then[ip]]
<1>3. /\ \A ip \in from..jif : cond[ip] \in Nat /\ all[ip] = 0 + cond[ip]
      /\ \A ip \in (jif + 1)..to : then[ip] \in Nat /\ all[ip] = 0 + then[ip]
  BY <1>1, <1>2 DEF Runs
<1>4. /\ all \in [from..to -> Nat] /\ all[from] = 0 /\ all[to] = 0
      /\ all[jif] = 1 /\ all[jif + 1] = 0
  BY <1>1, <1>2, <1>3 DEF Runs
<1> HIDE DEF all
<1>5. \A ip \in from..(jif - 1) : Fits(all, code, from, to, ip)
  BY <1>1, <1>3, PartFits
<1>6. \A ip \in (jif + 1)..(to - 1) : Fits(all, code, from, to, ip)
  BY <1>2, <1>3, PartFits
<1>7. Fits(all, code, from, to, jif)
  BY <1>4 DEF Fits, Instruction, Opcodes, Pops, Pushes, Successors, ConstantOps, ArithmeticOps, ComparisonOps
<1>8. Runs(all, code, from, to, 0)
  BY <1>4, <1>5, <1>6, <1>7 DEF Runs
<1> QED
  BY <1>8 DEF Segment

(* The same with code for the other case.                                  *)
LEMMA SegmentOfIfElse ==
  ASSUME NEW code, NEW from \in Nat, NEW jif \in Nat, NEW jmp \in Nat, NEW to \in Nat,
         from <= jif, jif < jmp, jmp < to,
         Segment(code, from, jif, 1),
         code[jif + 1] = [opcode |-> "JUMP_IF_FALSE", operand |-> jmp + 1],
         Segment(code, jif + 1, jmp, 0),
         code[jmp + 1] = [opcode |-> "JUMP", operand |-> to],
         Segment(code, jmp + 1, to, 0)
  PROVE  Segment(code, from, to, 0)
<1>1. PICK cond : Runs(cond, code, from, jif, 1)
  BY DEF Segment
<1>2. PICK then : Runs(then, code, jif + 1, jmp, 0)
  BY DEF Segment
<1>3. PICK else : Runs(else, code, jmp + 1, to, 0)
  BY DEF Segment
<1> DEFINE all == [ip \in from..to |->
                     IF ip <= jif THEN cond[ip] ELSE IF ip <= jmp THEN then[ip] ELSE else[ip]]
<1>4. /\ \A ip \in from..jif : cond[ip] \in Nat /\ all[ip] = 0 + cond[ip]
      /\ \A ip \in (jif + 1)..jmp : then[ip] \in Nat /\ all[ip] = 0 + then[ip]
      /\ \A ip \in (jmp + 1)..to : else[ip] \in Nat /\ all[ip] = 0 + else[ip]
  BY <1>1, <1>2, <1>3 DEF Runs
<1>5. /\ all \in [from..to -> Nat] /\ all[from] = 0 /\ all[to] = 0
      /\ all[jif] = 1 /\ all[jif + 1] = 0 /\ all[jmp] = 0 /\ all[jmp + 1] = 0
  BY <1>1, <1>2, <1>3, <1>4 DEF Runs
<1> HIDE DEF all
<1>6. \A ip \in from..(jif - 1) : Fits(all, code, from, to, ip)
  BY <1>1, <1>4, PartFits
<1>7. \A ip \in (jif + 1)..(jmp - 1) : Fits(all, code, from, to, ip)
  BY <1>2, <1>4, PartFits
<1>8. \A ip \in (jmp + 1)..(to - 1) : Fits(all, code, from, to, ip)
  BY <1>3, <1>4, PartFits
<1>9. Fits(all, code, from, to, jif)
  BY <1>5 DEF Fits, Instruction, Opcodes, Pops, Pushes, Successors, ConstantOps, ArithmeticOps, ComparisonOps
<1>10. Fits(all, code, from, to, jmp)
  BY <1>5 DEF Fits, Instruction, Opcodes, Pops, Pushes, Successors, ConstantOps, ArithmeticOps, ComparisonOps
<1>11. Runs(all, code, from, to, 0)
  BY <1>5, <1>6, <1>7, <1>8, <1>9, <1>10 DEF Runs
<1> QED
  BY <1>11 DEF Segment

(* A condition, code that is run while it is true, and a jump back.        *)
LEMMA SegmentOfWhile ==
  ASSUME NEW code, NEW from \in Nat, NEW jif \in Nat, NEW jmp \in Nat,
         from <= jif, jif < jmp,
         Segment(code, from, jif, 1),
         code[jif + 1] = [opcode |-> "JUMP_IF_FALSE", operand |-> jmp + 1],
         Segment(code, jif + 1, jmp, 0),
         code[jmp + 1] = [opcode |-> "JUMP", operand |-> from]
  PROVE  Segment(code, from, jmp + 1, 0)
<1>1. PICK cond : Runs(cond, code, from, jif, 1)
  BY DEF Segment
<1>2. PICK body : Runs(body, code, jif + 1, jmp, 0)
  BY DEF Segment
<1> DEFINE to  == jmp + 1
           all == [ip \in from..to |->
                     IF ip <= jif THEN cond[ip] ELSE IF ip <= jmp THEN body[ip] ELSE 0]
<1>3. /\ \A ip \in from..jif : cond[ip] \in Nat /\ all[ip] = 0 + cond[ip]
      /\ \A ip \in (jif + 1)..jmp : body[ip] \in Nat /\ all[ip] = 0 + body[ip]
      /\ all[to] = 0
  BY <1>1, <1>2 DEF Runs
<1>4. /\ all \in [from..to -> Nat] /\ all[from] = 0
      /\ all[jif] = 1 /\ all[jif + 1] = 0 /\ all[jmp] = 0
  BY <1>1, <1>2, <1>3 DEF Runs
<1> HIDE DEF all
<1>5. \A ip \in from..(jif - 1) : Fits(all, code, from, to, ip)
  BY <1>1, <1>3, PartFits
<1>6. \A ip \in (jif + 1)..(jmp - 1) : Fits(all, code, from, to, ip)
  BY <1>2, <1>3, PartFits
<1>7. Fits(all, code, from, to, jif)
  BY <1>3, <1>4 DEF Fits, Instruction, Opcodes, Pops, Pushes, Successors, ConstantOps, ArithmeticOps, ComparisonOps
<1>8. Fits(all, code, from, to, jmp)
  BY <1>3, <1>4 DEF Fits, Instruction, Opcodes, Pops, Pushes, Successors, ConstantOps, ArithmeticOps, ComparisonOps
<1>9. Runs(all, code, from, to, 0)
  BY <1>3, <1>4, <1>5, <1>6, <1>7, <1>8 DEF Runs
<1> QED
  BY <1>9 DEF Segment

(* Code that leaves nothing, followed by the return of null, is a body     *)
(* that returns before it runs out; and without that it is the code of a   *)
(* program.                                                                *)
LEMMA BodyCertified ==
  ASSUME NEW code \in Seq(Instruction), NEW n \in Nat, Len(code) = n + 2, Segment(code, 0, n, 0),
         code[n + 1] = [opcode |-> "PUSH_NULL", operand |-> 0],
         code[n + 2] = [opcode |-> "RETURN", operand |-> 0]
  PROVE  \E depth : Certifies(depth, code, FALSE)
<1>1. Segment(code, 0, n + 1, 1)
  <2>1. /\ code[n + 1] \in Instruction
        /\ code[n + 1].opcode \notin Jumps /\ Pops(code[n + 1]) = 0 /\ Pushes(code[n + 1]) = 1
    BY DEF Jumps, Instruction, Opcodes, Pops, Pushes, ConstantOps, ArithmeticOps, ComparisonOps
  <2>2. Segment(code, 0, n + 1, 0 - Pops(code[n + 1]) + Pushes(code[n + 1]))
    BY <2>1, SegmentAppended
  <2> QED
    BY <2>1, <2>2
<1>2. PICK depth : Runs(depth, code, 0, n + 1, 1)
  BY <1>1 DEF Segment
<1>3. /\ Pops(code[n + 2]) = 1 /\ Successors(code[n + 2], n + 1) = {}
      /\ depth \in [0..(n + 1) -> Nat] /\ depth[0] = 0 /\ depth[n + 1] = 1
  BY <1>2 DEF Runs, Pops, Successors, ConstantOps, ArithmeticOps, ComparisonOps
<1>4. ASSUME NEW ip \in 0..n
      PROVE  /\ Pops(code[ip + 1]) <= depth[ip]
             /\ \A next \in Successors(code[ip + 1], ip) :
                  /\ next \in 0..(n + 1)
                  /\ depth[next] <= depth[ip] - Pops(code[ip + 1]) + Pushes(code[ip + 1])
  BY <1>2 DEF Runs, Fits
<1>5. DOMAIN depth = 0..(n + 1) /\ \A ip \in 0..(n + 1) : depth[ip] \in Nat /\ ip < Len(code)
  BY <1>3
<1>6. ASSUME NEW ip \in 0..(n + 1)
      PROVE  /\ Pops(code[ip + 1]) <= depth[ip]
             /\ \A next \in Successors(code[ip + 1], ip) :
                  /\ next \in DOMAIN depth
                  /\ depth[next] <= depth[ip] - Pops(code[ip + 1]) + Pushes(code[ip + 1])
  <2>1. CASE ip = n + 1
    <3>1. Pops(code[ip + 1]) = 1 /\ Successors(code[ip + 1], ip) = {} /\ depth[ip] = 1
      BY <1>3, <2>1
    <3> QED
      BY <3>1
  <2>2. CASE ip # n + 1
    BY <1>4, <1>5, <2>2
  <2> QED
    BY <2>1, <2>2
<1>7. Certifies(depth, code, FALSE)
  BY <1>3, <1>5, <1>6 DEF Certifies
<1> QED
  BY <1>7

LEMMA ProgramCertified ==
  ASSUME NEW code \in Seq(Instruction), Segment(code, 0, Len(code), 0)
  PROVE  \E depth : Certifies(depth, code, TRUE)
<1>1. PICK depth : Runs(depth, code, 0, Len(code), 0)
  BY DEF Segment
<1>2. Certifies(depth, code, TRUE)
  BY <1>1 DEF Runs, Fits, Certifies
<1> QED
  BY <1>2

-----------------------------------------------------------------------------
(* The states of the compiler.                                             *)

(* The operands of the chunk's instructions, and its prototypes.           *)
InstructionOK(i, chunk) ==
  /\ i.opcode = "PUSH_INT" => i.operand < Len(chunk.ints)
  /\ i.opcode \in {"PUSH_STRING", "LOAD", "STORE_LOCAL", "STORE_GLOBAL"} =>
       i.operand < Len(chunk.strings)
  /\ i.opcode = "MAKE_CLOSURE" => i.operand < Len(chunk.protos)
  /\ i.opcode \in SlotOps => i.operand < chunk.num_locals

OperandsOK(chunk, count) ==
  /\ \A a \in DOMAIN chunk.code : InstructionOK(chunk.code[a], chunk)
  /\ \A k \in DOMAIN chunk.protos : chunk.protos[k] \in 2..count

ClosureOps == {"MAKE_CLOSURE", "STORE_LOCAL"}

(* A function that uses slots has as many as it has names for, and makes   *)
(* no closures; no other has slots.                                        *)
ContextOK(context, chunk) ==
  IF context.use_slots
  THEN /\ Len(context.slots) <= chunk.num_locals
       /\ \A a \in DOMAIN chunk.code : chunk.code[a].opcode \notin ClosureOps
  ELSE chunk.num_locals = 0

BodyOK(chunk) == SlotsOK(chunk) /\ \E depth : Certifies(depth, chunk.code, FALSE)

(* The invariant: every function being compiled has a chunk of its own,    *)
(* the top chunk is the first; and all chunks that are finished are as the *)
(* virtual machine wants them.                                             *)
StacksOK(c) ==
  /\ Len(c.chunk_stack) = Len(c.fn_stack) + 1
  /\ c.chunk_stack[1] = 1
  /\ \A i \in DOMAIN c.chunk_stack : c.chunk_stack[i] \in DOMAIN c.chunks
  /\ \A i, j \in DOMAIN c.chunk_stack : c.chunk_stack[i] = c.chunk_stack[j] => i = j

CompilerInv(c) ==
  /\ c \in CompilerState
  /\ StacksOK(c)
  /\ c.chunks[1].num_locals = 0
  /\ \A k \in DOMAIN c.chunks : OperandsOK(c.chunks[k], Len(c.chunks))
  /\ \A i \in DOMAIN c.fn_stack : ContextOK(c.fn_stack[i], c.chunks[c.chunk_stack[i + 1]])
  /\ \A k \in DOMAIN c.chunks :
       (\A i \in DOMAIN c.chunk_stack : c.chunk_stack[i] # k) => BodyOK(c.chunks[k])

(* r is c after something was emitted to the current chunk, and any number *)
(* of other chunks were made.                                              *)
Extends(c, r) ==
  /\ CompilerInv(r)
  /\ r.chunk_stack = c.chunk_stack
  /\ Len(c.chunks) <= Len(r.chunks)
  /\ \A k \in DOMAIN c.chunks : k # CurrentId(c) => r.chunks[k] = c.chunks[k]
  /\ Len(r.fn_stack) = Len(c.fn_stack)
  /\ \A i \in DOMAIN c.fn_stack :
       /\ r.fn_stack[i].use_slots = c.fn_stack[i].use_slots
       /\ i # Len(c.fn_stack) => r.fn_stack[i] = c.fn_stack[i]
  /\ CodeSize(c) <= CodeSize(r)
  /\ SameCode(Current(c).code, Current(r).code, 0, CodeSize(c))

(* What was emitted leaves `out' operands.                                 *)
Emits(c, r, out) ==
  /\ Extends(c, r)
  /\ Segment(Current(r).code, CodeSize(c), CodeSize(r), out)

LEMMA CurrentTyped ==
  ASSUME NEW c, CompilerInv(c)
  PROVE  /\ c = [chunks |-> c.chunks, chunk_stack |-> c.chunk_stack, fn_stack |-> c.fn_stack]
         /\ c.chunks \in Seq(ChunkState) /\ c.chunk_stack \in Seq(Nat)
         /\ c.fn_stack \in Seq(FnContext)
         /\ Len(c.chunk_stack) \in DOMAIN c.chunk_stack
         /\ CurrentId(c) = c.chunk_stack[Len(c.chunk_stack)]
         /\ CurrentId(c) \in DOMAIN c.chunks
         /\ Current(c) \in ChunkState
         /\ CodeSize(c) \in Nat /\ CodeSize(c) = Len(Current(c).code)
         /\ OperandsOK(Current(c), Len(c.chunks))
<1>1. /\ c = [chunks |-> c.chunks, chunk_stack |-> c.chunk_stack, fn_stack |-> c.fn_stack]
      /\ c.chunks \in Seq(ChunkState) /\ c.chunk_stack \in Seq(Nat)
      /\ c.fn_stack \in Seq(FnContext)
  BY DEF CompilerInv, CompilerState
<1>2. Len(c.chunk_stack) \in DOMAIN c.chunk_stack
  BY <1>1 DEF CompilerInv, StacksOK
<1>3. CurrentId(c) = c.chunk_stack[Len(c.chunk_stack)]
  BY DEF CurrentId, Last
<1>4. CurrentId(c) \in DOMAIN c.chunks
  BY <1>2, <1>3 DEF CompilerInv, StacksOK
<1>5. Current(c) \in ChunkState
  BY <1>1, <1>4 DEF Current
<1>6. CodeSize(c) \in Nat /\ CodeSize(c) = Len(Current(c).code)
  BY <1>5 DEF CodeSize, ChunkState
<1>7. OperandsOK(Current(c), Len(c.chunks))
  BY <1>4 DEF CompilerInv, Current
<1> QED
  BY <1>1, <1>2, <1>3, <1>4, <1>5, <1>6, <1>7

LEMMA ExtendsItself ==
  ASSUME NEW c, CompilerInv(c)
  PROVE  Extends(c, c) /\ Emits(c, c, 0)
<1>1. CodeSize(c) \in Nat
  BY CurrentTyped
<1>2. Extends(c, c)
  BY <1>1 DEF Extends, SameCode
<1> QED
  BY <1>1, <1>2, SegmentEmpty DEF Emits

LEMMA ExtendsTwice ==
  ASSUME NEW c, NEW d, NEW e, CompilerInv(c), Extends(c, d), Extends(d, e)
  PROVE  Extends(c, e)
<1>1. CompilerInv(d) /\ CompilerInv(e)
  BY DEF Extends
<1>2. CurrentId(d) = CurrentId(c) /\ CurrentId(e) = CurrentId(c)
  BY DEF Extends, CurrentId
<1>3. /\ c.chunks \in Seq(ChunkState) /\ d.chunks \in Seq(ChunkState) /\ e.chunks \in Seq(ChunkState)
      /\ c.fn_stack \in Seq(FnContext) /\ d.fn_stack \in Seq(FnContext)
      /\ CodeSize(c) \in Nat /\ CodeSize(d) \in Nat /\ CodeSize(e) \in Nat
  BY <1>1, CurrentTyped
<1>4. /\ e.chunk_stack = c.chunk_stack
      /\ Len(c.chunks) <= Len(e.chunks)
      /\ \A k \in DOMAIN c.chunks : k # CurrentId(c) => e.chunks[k] = c.chunks[k]
  BY <1>2, <1>3 DEF Extends
<1>5. /\ Len(e.fn_stack) = Len(c.fn_stack)
      /\ \A i \in DOMAIN c.fn_stack :
           /\ e.fn_stack[i].use_slots = c.fn_stack[i].use_slots
           /\ i # Len(c.fn_stack) => e.fn_stack[i] = c.fn_stack[i]
  BY <1>3 DEF Extends
<1>6. /\ CodeSize(c) <= CodeSize(e)
      /\ SameCode(Current(c).code, Current(e).code, 0, CodeSize(c))
  BY <1>3 DEF Extends, SameCode
<1> QED
  BY <1>1, <1>4, <1>5, <1>6 DEF Extends

(* The current chunk, and the current function's slots, are replaced, so   *)
(* that what was emitted since b changes and nothing older.                *)
Replaced(c, chunk, contexts) ==
  [chunks |-> [c.chunks EXCEPT ![CurrentId(c)] = chunk],
   chunk_stack |-> c.chunk_stack,
   fn_stack |-> contexts]

CurrentOK(contexts, chunk) ==
  IF contexts = <<>> THEN chunk.num_locals = 0 ELSE ContextOK(contexts[Len(contexts)], chunk)

SameContexts(contexts, others) ==
  /\ others \in Seq(FnContext)
  /\ Len(others) = Len(contexts)
  /\ \A i \in DOMAIN contexts :
       /\ others[i].use_slots = contexts[i].use_slots
       /\ i # Len(contexts) => others[i] = contexts[i]

LEMMA ReplacedChunk ==
  ASSUME NEW c, CompilerInv(c), NEW chunk, NEW contexts
  PROVE  Current(Replaced(c, chunk, contexts)) = chunk
<1>1. /\ c.chunks \in Seq(ChunkState) /\ CurrentId(c) \in DOMAIN c.chunks
  BY CurrentTyped
<1>2. CurrentId(Replaced(c, chunk, contexts)) = CurrentId(c)
  BY DEF CurrentId, Replaced
<1> QED
  BY <1>1, <1>2 DEF Current, Replaced

LEMMA CurrentReplaced ==
  ASSUME NEW b, NEW c, CompilerInv(b), Extends(b, c),
         NEW chunk \in ChunkState, OperandsOK(chunk, Len(c.chunks)),
         CodeSize(b) <= Len(chunk.code),
         SameCode(Current(b).code, chunk.code, 0, CodeSize(b)),
         NEW contexts, SameContexts(c.fn_stack, contexts), CurrentOK(contexts, chunk)
  PROVE  Extends(b, Replaced(c, chunk, contexts))
<1> DEFINE r  == Replaced(c, chunk, contexts)
           id == CurrentId(c)
<1>1. CompilerInv(c)
  BY DEF Extends
<1>2. /\ c.chunks \in Seq(ChunkState) /\ c.chunk_stack \in Seq(Nat) /\ c.fn_stack \in Seq(FnContext)
      /\ Len(c.chunk_stack) \in DOMAIN c.chunk_stack
      /\ id = c.chunk_stack[Len(c.chunk_stack)] /\ id \in DOMAIN c.chunks
  BY <1>1, CurrentTyped
<1>3. /\ r.chunks = [c.chunks EXCEPT ![id] = chunk] /\ r.chunk_stack = c.chunk_stack
      /\ r.fn_stack = contexts
      /\ r = [chunks |-> r.chunks, chunk_stack |-> r.chunk_stack, fn_stack |-> r.fn_stack]
  BY DEF Replaced
<1>4. CurrentId(r) = id
  BY <1>3 DEF CurrentId
<1> HIDE DEF r, id
<1>5. /\ r.chunks \in Seq(ChunkState) /\ Len(r.chunks) = Len(c.chunks)
      /\ DOMAIN r.chunks = DOMAIN c.chunks
      /\ r.chunks[id] = chunk /\ \A k \in DOMAIN c.chunks : k # id => r.chunks[k] = c.chunks[k]
  BY <1>2, <1>3
<1>6. Current(r) = chunk /\ CodeSize(r) = Len(chunk.code)
  BY <1>4, <1>5 DEF Current, CodeSize
<1>7. r \in CompilerState
  BY <1>2, <1>3, <1>5 DEF CompilerState, SameContexts
<1>8. StacksOK(r)
  BY <1>1, <1>2, <1>3, <1>5 DEF CompilerInv, StacksOK, SameContexts
<1>9. Len(c.chunk_stack) = Len(c.fn_stack) + 1 /\ c.chunk_stack[1] = 1
  BY <1>1 DEF CompilerInv, StacksOK
<1>10. r.chunks[1].num_locals = 0
  <2>1. CASE id = 1
    <3>1. Len(c.chunk_stack) = 1
      <4>1. \A i, j \in DOMAIN c.chunk_stack : c.chunk_stack[i] = c.chunk_stack[j] => i = j
        BY <1>1 DEF CompilerInv, StacksOK
      <4>2. 1 \in DOMAIN c.chunk_stack
        BY <1>2
      <4> QED
        BY <1>2, <1>9, <2>1, <4>1, <4>2
    <3>2. contexts = <<>>
      BY <1>2, <1>9, <3>1 DEF SameContexts
    <3> QED
      BY <1>5, <2>1, <3>2 DEF CurrentOK
  <2>2. CASE id # 1
    <3>1. 1 \in DOMAIN c.chunks
      BY <1>1, <1>2, <1>9 DEF CompilerInv, StacksOK
    <3> QED
      BY <1>1, <1>5, <2>2, <3>1 DEF CompilerInv
  <2> QED
    BY <2>1, <2>2
<1>11. \A k \in DOMAIN r.chunks : OperandsOK(r.chunks[k], Len(r.chunks))
  BY <1>1, <1>5 DEF CompilerInv
<1>12. ASSUME NEW i \in DOMAIN r.fn_stack
       PROVE  ContextOK(r.fn_stack[i], r.chunks[r.chunk_stack[i + 1]])
  <2>1. i \in DOMAIN c.fn_stack /\ i + 1 \in DOMAIN c.chunk_stack
    BY <1>2, <1>3, <1>9 DEF SameContexts
  <2>2. CASE i = Len(c.fn_stack)
    <3>1. r.chunk_stack[i + 1] = id /\ i = Len(contexts) /\ contexts # <<>>
      BY <1>2, <1>3, <1>9, <2>1, <2>2 DEF SameContexts
    <3> QED
      BY <1>3, <1>5, <3>1 DEF CurrentOK
  <2>3. CASE i # Len(c.fn_stack)
    <3>1. c.chunk_stack[i + 1] # id /\ c.chunk_stack[i + 1] \in DOMAIN c.chunks
      BY <1>1, <1>2, <1>9, <2>1, <2>3 DEF CompilerInv, StacksOK
    <3>2. r.fn_stack[i] = c.fn_stack[i]
      BY <1>3, <2>1, <2>3 DEF SameContexts
    <3>3. ContextOK(c.fn_stack[i], c.chunks[c.chunk_stack[i + 1]])
      BY <1>1, <2>1 DEF CompilerInv
    <3> QED
      BY <1>3, <1>5, <3>1, <3>2, <3>3
  <2> QED
    BY <2>2, <2>3
<1>13. ASSUME NEW k \in DOMAIN r.chunks, \A i \in DOMAIN r.chunk_stack : r.chunk_stack[i] # k
       PROVE  BodyOK(r.chunks[k])
  <2>1. k # id
    BY <1>2, <1>3, <1>13
  <2>2. BodyOK(c.chunks[k])
    BY <1>1, <1>3, <1>5, <1>13 DEF CompilerInv
  <2> QED
    BY <1>5, <2>1, <2>2
<1>14. CompilerInv(r)
  BY <1>7, <1>8, <1>10, <1>11, <1>12, <1>13 DEF CompilerInv
<1>15. CurrentId(b) = id
  BY DEF Extends, CurrentId, id
<1>16. /\ r.chunk_stack = b.chunk_stack /\ Len(b.chunks) <= Len(r.chunks)
  BY <1>3, <1>5 DEF Extends
<1>17. \A k \in DOMAIN b.chunks : k # CurrentId(b) => r.chunks[k] = b.chunks[k]
  <2>1. b.chunks \in Seq(ChunkState)
    BY CurrentTyped
  <2> QED
    BY <1>2, <1>5, <1>15, <2>1 DEF Extends
<1>18. /\ Len(r.fn_stack) = Len(b.fn_stack)
       /\ \A i \in DOMAIN b.fn_stack :
            /\ r.fn_stack[i].use_slots = b.fn_stack[i].use_slots
            /\ i # Len(b.fn_stack) => r.fn_stack[i] = b.fn_stack[i]
  <2>1. b.fn_stack \in Seq(FnContext)
    BY CurrentTyped
  <2> QED
    BY <1>2, <1>3, <2>1 DEF Extends, SameContexts
<1>19. Extends(b, r)
  BY <1>6, <1>14, <1>16, <1>17, <1>18 DEF Extends
<1> QED
  BY <1>19 DEF r

-----------------------------------------------------------------------------
(* One part of the current chunk is replaced.                              *)

LEMMA WithCode ==
  ASSUME NEW old \in ChunkState, NEW new \in Seq(Instruction), NEW chunk, chunk = [old EXCEPT !.code = new]
  PROVE  /\ chunk \in ChunkState
         /\ chunk.code = new /\ chunk.ints = old.ints /\ chunk.strings = old.strings
         /\ chunk.protos = old.protos /\ chunk.params = old.params /\ chunk.num_locals = old.num_locals
BY DEF ChunkState

LEMMA WithInts ==
  ASSUME NEW old \in ChunkState, NEW new \in Seq(Int), NEW chunk, chunk = [old EXCEPT !.ints = new]
  PROVE  /\ chunk \in ChunkState
         /\ chunk.code = old.code /\ chunk.ints = new /\ chunk.strings = old.strings
         /\ chunk.protos = old.protos /\ chunk.params = old.params /\ chunk.num_locals = old.num_locals
BY DEF ChunkState

LEMMA WithStrings ==
  ASSUME NEW old \in ChunkState, NEW new \in Seq(Text), NEW chunk, chunk = [old EXCEPT !.strings = new]
  PROVE  /\ chunk \in ChunkState
         /\ chunk.code = old.code /\ chunk.ints = old.ints /\ chunk.strings = new
         /\ chunk.protos = old.protos /\ chunk.params = old.params /\ chunk.num_locals = old.num_locals
BY DEF ChunkState

LEMMA WithProtos ==
  ASSUME NEW old \in ChunkState, NEW new \in Seq(Nat), NEW chunk, chunk = [old EXCEPT !.protos = new]
  PROVE  /\ chunk \in ChunkState
         /\ chunk.code = old.code /\ chunk.ints = old.ints /\ chunk.strings = old.strings
         /\ chunk.protos = new /\ chunk.params = old.params /\ chunk.num_locals = old.num_locals
BY DEF ChunkState

LEMMA WithLocals ==
  ASSUME NEW old \in ChunkState, NEW new \in Nat, NEW chunk, chunk = [old EXCEPT !.num_locals = new]
  PROVE  /\ chunk \in ChunkState
         /\ chunk.code = old.code /\ chunk.ints = old.ints /\ chunk.strings = old.strings
         /\ chunk.protos = old.protos /\ chunk.params = old.params /\ chunk.num_locals = new
BY DEF ChunkState

LEMMA CodeReplaced ==
  ASSUME NEW c, CompilerInv(c), NEW new
  PROVE  [c EXCEPT !.chunks[CurrentId(c)].code = new]
           = Replaced(c, [Current(c) EXCEPT !.code = new], c.fn_stack)
<1>1. c = [chunks |-> c.chunks, chunk_stack |-> c.chunk_stack, fn_stack |-> c.fn_stack]
  BY CurrentTyped
<1> QED
  BY <1>1 DEF Replaced, Current

LEMMA IntsReplaced ==
  ASSUME NEW c, CompilerInv(c), NEW new
  PROVE  [c EXCEPT !.chunks[CurrentId(c)].ints = new]
           = Replaced(c, [Current(c) EXCEPT !.ints = new], c.fn_stack)
<1>1. c = [chunks |-> c.chunks, chunk_stack |-> c.chunk_stack, fn_stack |-> c.fn_stack]
  BY CurrentTyped
<1> QED
  BY <1>1 DEF Replaced, Current

LEMMA StringsReplaced ==
  ASSUME NEW c, CompilerInv(c), NEW new
  PROVE  [c EXCEPT !.chunks[CurrentId(c)].strings = new]
           = Replaced(c, [Current(c) EXCEPT !.strings = new], c.fn_stack)
<1>1. c = [chunks |-> c.chunks, chunk_stack |-> c.chunk_stack, fn_stack |-> c.fn_stack]
  BY CurrentTyped
<1> QED
  BY <1>1 DEF Replaced, Current

LEMMA ProtosReplaced ==
  ASSUME NEW c, CompilerInv(c), NEW new
  PROVE  [c EXCEPT !.chunks[CurrentId(c)].protos = new]
           = Replaced(c, [Current(c) EXCEPT !.protos = new], c.fn_stack)
<1>1. c = [chunks |-> c.chunks, chunk_stack |-> c.chunk_stack, fn_stack |-> c.fn_stack]
  BY CurrentTyped
<1> QED
  BY <1>1 DEF Replaced, Current

-----------------------------------------------------------------------------
(* Emitting one instruction.                                               *)

Appends(c, r, i) ==
  /\ Extends(c, r)
  /\ i \in Instruction
  /\ Current(r).code = Append(Current(c).code, i)
  /\ CodeSize(r) = CodeSize(c) + 1

(* Pools and prototypes only grow.                                         *)
PoolsGrow(chunk, other) ==
  /\ Len(chunk.ints) <= Len(other.ints)
  /\ Len(chunk.strings) <= Len(other.strings)
  /\ Len(chunk.protos) <= Len(other.protos)
  /\ chunk.num_locals <= other.num_locals

LEMMA ContextOfCurrent ==
  ASSUME NEW c, CompilerInv(c)
  PROVE  /\ CurrentOK(c.fn_stack, Current(c))
         /\ SameContexts(c.fn_stack, c.fn_stack)
         /\ UsesSlots(c) <=> c.fn_stack # <<>> /\ c.fn_stack[Len(c.fn_stack)].use_slots
<1>1. /\ c.fn_stack \in Seq(FnContext) /\ Len(c.chunk_stack) = Len(c.fn_stack) + 1
      /\ c.chunk_stack[1] = 1 /\ CurrentId(c) = c.chunk_stack[Len(c.chunk_stack)]
      /\ Current(c) = c.chunks[CurrentId(c)]
  BY CurrentTyped DEF CompilerInv, StacksOK, Current
<1>2. CurrentOK(c.fn_stack, Current(c))
  <2>1. CASE c.fn_stack = <<>>
    <3>1. CurrentId(c) = 1
      BY <1>1, <2>1
    <3> QED
      BY <1>1, <2>1, <3>1 DEF CompilerInv, CurrentOK
  <2>2. CASE c.fn_stack # <<>>
    <3>1. Len(c.fn_stack) \in DOMAIN c.fn_stack
      BY <1>1, <2>2
    <3>2. ContextOK(c.fn_stack[Len(c.fn_stack)], c.chunks[c.chunk_stack[Len(c.fn_stack) + 1]])
      BY <3>1 DEF CompilerInv
    <3> QED
      BY <1>1, <2>2, <3>2 DEF CurrentOK
  <2> QED
    BY <2>1, <2>2
<1>3. SameContexts(c.fn_stack, c.fn_stack)
  BY <1>1 DEF SameContexts
<1>4. UsesSlots(c) <=> c.fn_stack # <<>> /\ c.fn_stack[Len(c.fn_stack)].use_slots
  BY DEF UsesSlots, Context, Last
<1> QED
  BY <1>2, <1>3, <1>4

LEMMA InstructionGrown ==
  ASSUME NEW old \in ChunkState, NEW chunk \in ChunkState, PoolsGrow(old, chunk),
         NEW i \in Instruction, InstructionOK(i, old)
  PROVE  InstructionOK(i, chunk)
<1>1. /\ Len(old.ints) \in Nat /\ Len(chunk.ints) \in Nat
      /\ Len(old.strings) \in Nat /\ Len(chunk.strings) \in Nat
      /\ Len(old.protos) \in Nat /\ Len(chunk.protos) \in Nat
      /\ old.num_locals \in Nat /\ chunk.num_locals \in Nat
      /\ i.operand \in Nat
  BY DEF ChunkState, Instruction
<1> QED
  BY <1>1, SMTT(40) DEF InstructionOK, PoolsGrow

LEMMA GrownOK ==
  ASSUME NEW old \in ChunkState, NEW count, OperandsOK(old, count),
         NEW chunk \in ChunkState, PoolsGrow(old, chunk),
         NEW i \in Instruction, chunk.code = Append(old.code, i), InstructionOK(i, chunk),
         \A k \in DOMAIN chunk.protos : chunk.protos[k] \in 2..count
  PROVE  OperandsOK(chunk, count)
<1>1. old.code \in Seq(Instruction) /\ Len(old.code) \in Nat
  BY DEF ChunkState
<1>2. ASSUME NEW a \in DOMAIN chunk.code PROVE InstructionOK(chunk.code[a], chunk)
  <2>1. CASE a = Len(old.code) + 1
    <3>1. chunk.code[a] = i
      BY <1>1, <2>1
    <3> QED
      BY <3>1
  <2>2. CASE a # Len(old.code) + 1
    <3>1. a \in DOMAIN old.code /\ chunk.code[a] = old.code[a] /\ old.code[a] \in Instruction
      BY <1>1, <2>2
    <3>2. InstructionOK(old.code[a], old)
      BY <3>1 DEF OperandsOK
    <3> QED
      BY <3>1, <3>2, InstructionGrown
  <2> QED
    BY <2>1, <2>2
<1> QED
  BY <1>2 DEF OperandsOK

(* A chunk with one more instruction takes the place of the current one.   *)
LEMMA Emission ==
  ASSUME NEW c, CompilerInv(c), NEW chunk \in ChunkState, PoolsGrow(Current(c), chunk),
         NEW i \in Instruction, chunk.code = Append(Current(c).code, i), InstructionOK(i, chunk),
         \A k \in DOMAIN chunk.protos : chunk.protos[k] \in 2..Len(c.chunks),
         NEW contexts, SameContexts(c.fn_stack, contexts), CurrentOK(contexts, chunk)
  PROVE  /\ Appends(c, Replaced(c, chunk, contexts), i)
         /\ Current(Replaced(c, chunk, contexts)) = chunk
<1> DEFINE r == Replaced(c, chunk, contexts)
<1>1. /\ Current(c) \in ChunkState /\ OperandsOK(Current(c), Len(c.chunks))
      /\ CodeSize(c) = Len(Current(c).code) /\ CodeSize(c) \in Nat
  BY CurrentTyped
<1>2. Current(c).code \in Seq(Instruction)
  BY <1>1 DEF ChunkState
<1>3. OperandsOK(chunk, Len(c.chunks))
  BY <1>1, GrownOK
<1>4. /\ Len(chunk.code) = CodeSize(c) + 1
      /\ SameCode(Current(c).code, chunk.code, 0, CodeSize(c))
  BY <1>1, <1>2 DEF SameCode
<1>5. Extends(c, c) /\ CodeSize(c) <= Len(chunk.code)
  BY <1>1, <1>4, ExtendsItself
<1> HIDE DEF r
<1>6. Extends(c, r) /\ Current(r) = chunk
  <2>1. Extends(c, r)
    BY <1>3, <1>4, <1>5, CurrentReplaced, Zenon DEF r
  <2> QED
    BY <2>1, ReplacedChunk, Zenon DEF r
<1>7. CodeSize(r) = CodeSize(c) + 1
  BY <1>4, <1>6 DEF CodeSize
<1> QED
  BY <1>6, <1>7 DEF Appends, r

(* The context stays right when the new instruction makes no closure.      *)
LEMMA ContextKept ==
  ASSUME NEW c, CompilerInv(c), NEW chunk \in ChunkState, chunk.num_locals = Current(c).num_locals,
         NEW i \in Instruction, chunk.code = Append(Current(c).code, i),
         i.opcode \in ClosureOps => ~ UsesSlots(c)
  PROVE  CurrentOK(c.fn_stack, chunk)
<1>1. /\ CurrentOK(c.fn_stack, Current(c))
      /\ UsesSlots(c) <=> c.fn_stack # <<>> /\ c.fn_stack[Len(c.fn_stack)].use_slots
  BY ContextOfCurrent
<1>2. Current(c).code \in Seq(Instruction)
  BY CurrentTyped DEF ChunkState
<1>3. ASSUME UsesSlots(c), NEW a \in DOMAIN chunk.code PROVE chunk.code[a].opcode \notin ClosureOps
  <2>1. \A k \in DOMAIN Current(c).code : Current(c).code[k].opcode \notin ClosureOps
    BY <1>1, <1>3 DEF CurrentOK, ContextOK
  <2>2. chunk.code[a] = i \/ (a \in DOMAIN Current(c).code /\ chunk.code[a] = Current(c).code[a])
    BY <1>2
  <2> QED
    BY <1>3, <2>1, <2>2
<1> QED
  BY <1>1, <1>3 DEF CurrentOK, ContextOK

(* The current chunk's pools, prototypes or slots grow.                    *)
Grows(c, d) ==
  /\ Extends(c, d)
  /\ Current(d).code = Current(c).code

LEMMA Growth ==
  ASSUME NEW c, CompilerInv(c), NEW chunk \in ChunkState, PoolsGrow(Current(c), chunk),
         chunk.code = Current(c).code,
         \A k \in DOMAIN chunk.protos : chunk.protos[k] \in 2..Len(c.chunks),
         NEW contexts, SameContexts(c.fn_stack, contexts), CurrentOK(contexts, chunk)
  PROVE  /\ Grows(c, Replaced(c, chunk, contexts))
         /\ Current(Replaced(c, chunk, contexts)) = chunk
<1> DEFINE r == Replaced(c, chunk, contexts)
<1>1. /\ Current(c) \in ChunkState /\ OperandsOK(Current(c), Len(c.chunks))
      /\ CodeSize(c) = Len(Current(c).code) /\ CodeSize(c) \in Nat
  BY CurrentTyped
<1>2. Current(c).code \in Seq(Instruction)
  BY <1>1 DEF ChunkState
<1>3. ASSUME NEW a \in DOMAIN chunk.code PROVE InstructionOK(chunk.code[a], chunk)
  <2>1. /\ InstructionOK(Current(c).code[a], Current(c)) /\ Current(c).code[a] \in Instruction
        /\ chunk.code[a] = Current(c).code[a]
    BY <1>1, <1>2 DEF OperandsOK
  <2> QED
    BY <1>1, <2>1, InstructionGrown
<1>4. OperandsOK(chunk, Len(c.chunks))
  BY <1>3 DEF OperandsOK
<1>5. Extends(c, c) /\ CodeSize(c) <= Len(chunk.code)
      /\ SameCode(Current(c).code, chunk.code, 0, CodeSize(c))
  BY <1>1, ExtendsItself DEF SameCode
<1> HIDE DEF r
<1>6. Extends(c, r)
  BY <1>4, <1>5, CurrentReplaced, Zenon DEF r
<1>7. Current(r) = chunk
  BY ReplacedChunk, Zenon DEF r
<1> QED
  BY <1>6, <1>7 DEF Grows, r

LEMMA GrowsAppends ==
  ASSUME NEW c, NEW d, NEW r, NEW i, CompilerInv(c), Grows(c, d), Appends(d, r, i)
  PROVE  Appends(c, r, i)
<1>1. Extends(c, r)
  BY ExtendsTwice DEF Grows, Appends
<1> QED
  BY <1>1 DEF Grows, Appends, CodeSize

LEMMA SlotsStay ==
  ASSUME NEW c, NEW d, CompilerInv(c), Extends(c, d)
  PROVE  UsesSlots(d) <=> UsesSlots(c)
<1>1. CompilerInv(d) /\ c.fn_stack \in Seq(FnContext) /\ d.fn_stack \in Seq(FnContext)
  BY CurrentTyped DEF Extends
<1>2. /\ UsesSlots(c) <=> c.fn_stack # <<>> /\ c.fn_stack[Len(c.fn_stack)].use_slots
      /\ UsesSlots(d) <=> d.fn_stack # <<>> /\ d.fn_stack[Len(d.fn_stack)].use_slots
  BY <1>1, ContextOfCurrent
<1>3. Len(d.fn_stack) = Len(c.fn_stack)
      /\ \A i \in DOMAIN c.fn_stack : d.fn_stack[i].use_slots = c.fn_stack[i].use_slots
  BY DEF Extends
<1>4. CASE c.fn_stack = <<>>
  BY <1>1, <1>2, <1>3, <1>4
<1>5. CASE c.fn_stack # <<>>
  <2>1. Len(c.fn_stack) \in DOMAIN c.fn_stack /\ d.fn_stack # <<>>
    BY <1>1, <1>3, <1>5
  <2> QED
    BY <1>2, <1>3, <1>5, <2>1
<1> QED
  BY <1>4, <1>5

LEMMA EmitAppends ==
  ASSUME NEW c, CompilerInv(c), NEW opcode \in Opcodes, NEW operand \in Nat,
         InstructionOK([opcode |-> opcode, operand |-> operand], Current(c)),
         opcode \in ClosureOps => ~ UsesSlots(c)
  PROVE  Appends(c, Emit(c, opcode, operand), [opcode |-> opcode, operand |-> operand])
<1> DEFINE i     == [opcode |-> opcode, operand |-> operand]
           code  == Append(Current(c).code, i)
           chunk == [Current(c) EXCEPT !.code = code]
<1>1. /\ c = [chunks |-> c.chunks, chunk_stack |-> c.chunk_stack, fn_stack |-> c.fn_stack]
      /\ c.chunks \in Seq(ChunkState) /\ CurrentId(c) \in DOMAIN c.chunks
      /\ Current(c) \in ChunkState /\ OperandsOK(Current(c), Len(c.chunks))
  BY CurrentTyped
<1>2. Emit(c, opcode, operand) = Replaced(c, chunk, c.fn_stack)
  BY CodeReplaced, ZenonT(60) DEF Emit, Current
<1>3. i \in Instruction
  BY DEF Instruction
<1>4. /\ chunk \in ChunkState /\ PoolsGrow(Current(c), chunk) /\ chunk.code = Append(Current(c).code, i)
      /\ InstructionOK(i, chunk) /\ chunk.num_locals = Current(c).num_locals
      /\ chunk.protos = Current(c).protos
  <2>1. code \in Seq(Instruction)
    BY <1>1, <1>3 DEF ChunkState
  <2> HIDE DEF i, code
  <2>2. /\ chunk \in ChunkState
        /\ chunk.code = code /\ chunk.ints = Current(c).ints
        /\ chunk.strings = Current(c).strings /\ chunk.protos = Current(c).protos
        /\ chunk.params = Current(c).params /\ chunk.num_locals = Current(c).num_locals
    BY <1>1, <2>1, WithCode
  <2> HIDE DEF chunk
  <2>3. PoolsGrow(Current(c), chunk)
    BY <1>1, <2>2 DEF PoolsGrow, ChunkState
  <2>4. InstructionOK(i, chunk)
    BY <2>2 DEF InstructionOK, i
  <2> QED
    BY <2>2, <2>3, <2>4 DEF code
<1> HIDE DEF chunk
<1>5. i.opcode \in ClosureOps => ~ UsesSlots(c)
  OBVIOUS
<1> HIDE DEF i
<1>6. SameContexts(c.fn_stack, c.fn_stack) /\ CurrentOK(c.fn_stack, chunk)
  BY <1>3, <1>4, <1>5, ContextOfCurrent, ContextKept
<1>7. \A k \in DOMAIN chunk.protos : chunk.protos[k] \in 2..Len(c.chunks)
  BY <1>1, <1>4 DEF OperandsOK
<1>8. Appends(c, Replaced(c, chunk, c.fn_stack), i)
  BY <1>3, <1>4, <1>6, <1>7, Emission, Zenon
<1> QED
  BY <1>2, <1>8 DEF i

LEMMA Pooled ==
  ASSUME NEW S, NEW pool \in Seq(S), NEW x \in S
  PROVE  /\ PoolWith(pool, x) \in Seq(S)
         /\ Len(pool) <= Len(PoolWith(pool, x))
         /\ PoolIndex(pool, x) \in Nat
         /\ PoolIndex(pool, x) < Len(PoolWith(pool, x))
<1> DEFINE with == PoolWith(pool, x)
<1>1. /\ with \in Seq(S) /\ Len(pool) <= Len(with)
      /\ \E k \in DOMAIN with : with[k] = x
  BY DEF PoolWith, Contains
<1> HIDE DEF with
<1>2. (CHOOSE k \in DOMAIN with : with[k] = x) \in DOMAIN with
  BY <1>1
<1>3. PoolIndex(pool, x) = (CHOOSE k \in DOMAIN with : with[k] = x) - 1
  BY DEF PoolIndex, with
<1>4. PoolIndex(pool, x) \in Nat /\ PoolIndex(pool, x) < Len(with)
  BY <1>1, <1>2, <1>3
<1> QED
  BY <1>1, <1>4 DEF with

LEMMA EmitIntAppends ==
  ASSUME NEW c, CompilerInv(c), NEW n \in Int
  PROVE  Appends(c, EmitInt(c, n),
                 [opcode |-> "PUSH_INT", operand |-> PoolIndex(Current(c).ints, n)])
<1> DEFINE chunk == [Current(c) EXCEPT !.ints = PoolWith(Current(c).ints, n)]
           d     == [c EXCEPT !.chunks[CurrentId(c)].ints = PoolWith(@, n)]
           at    == PoolIndex(Current(c).ints, n)
<1>1. /\ c = [chunks |-> c.chunks, chunk_stack |-> c.chunk_stack, fn_stack |-> c.fn_stack]
      /\ c.chunks \in Seq(ChunkState) /\ CurrentId(c) \in DOMAIN c.chunks
      /\ Current(c) \in ChunkState /\ OperandsOK(Current(c), Len(c.chunks))
  BY CurrentTyped
<1>2. d = Replaced(c, chunk, c.fn_stack)
  BY IntsReplaced DEF Current
<1>3. /\ PoolWith(Current(c).ints, n) \in Seq(Int)
      /\ Len(Current(c).ints) <= Len(PoolWith(Current(c).ints, n))
      /\ at \in Nat /\ at < Len(PoolWith(Current(c).ints, n))
  BY <1>1, Pooled DEF ChunkState
<1>4. /\ chunk \in ChunkState /\ chunk.ints = PoolWith(Current(c).ints, n)
      /\ chunk.code = Current(c).code /\ chunk.num_locals = Current(c).num_locals
      /\ chunk.protos = Current(c).protos /\ PoolsGrow(Current(c), chunk)
  <2>1. /\ chunk \in ChunkState
        /\ chunk.code = Current(c).code /\ chunk.params = Current(c).params
        /\ chunk.ints = PoolWith(Current(c).ints, n)
        /\ chunk.strings = Current(c).strings
        /\ chunk.protos = Current(c).protos /\ chunk.num_locals = Current(c).num_locals
    BY <1>1, <1>3, WithInts
  <2> HIDE DEF chunk
  <2>2. PoolsGrow(Current(c), chunk)
    BY <1>1, <1>3, <2>1 DEF PoolsGrow, ChunkState
  <2> QED
    BY <2>1, <2>2
<1> HIDE DEF chunk, d, at
<1>5. /\ SameContexts(c.fn_stack, c.fn_stack) /\ CurrentOK(c.fn_stack, chunk)
  BY <1>4, ContextOfCurrent DEF CurrentOK, ContextOK
<1>6. \A k \in DOMAIN chunk.protos : chunk.protos[k] \in 2..Len(c.chunks)
  BY <1>1, <1>4 DEF OperandsOK
<1>7. Grows(c, d) /\ Current(d) = chunk
  BY <1>2, <1>4, <1>5, <1>6, Growth, Zenon
<1>8. CompilerInv(d)
  BY <1>7 DEF Grows, Extends
<1>9. InstructionOK([opcode |-> "PUSH_INT", operand |-> at], Current(d))
  BY <1>3, <1>4, <1>7 DEF InstructionOK, SlotOps
<1>10. Appends(d, Emit(d, "PUSH_INT", at), [opcode |-> "PUSH_INT", operand |-> at])
  BY <1>3, <1>8, <1>9, EmitAppends DEF Opcodes, ConstantOps, ClosureOps
<1>11. Appends(c, Emit(d, "PUSH_INT", at), [opcode |-> "PUSH_INT", operand |-> at])
  BY <1>7, <1>10, GrowsAppends
<1> QED
  BY <1>11 DEF EmitInt, d, at

StringOps == {"PUSH_STRING", "LOAD", "STORE_LOCAL", "STORE_GLOBAL"}

LEMMA EmitStringAppends ==
  ASSUME NEW c, CompilerInv(c), NEW opcode \in StringOps, NEW str \in Text,
         opcode = "STORE_LOCAL" => ~ UsesSlots(c)
  PROVE  Appends(c, EmitWithString(c, opcode, str),
                 [opcode |-> opcode, operand |-> PoolIndex(Current(c).strings, str)])
<1> DEFINE chunk == [Current(c) EXCEPT !.strings = PoolWith(Current(c).strings, str)]
           d     == [c EXCEPT !.chunks[CurrentId(c)].strings = PoolWith(@, str)]
           at    == PoolIndex(Current(c).strings, str)
<1>1. /\ c = [chunks |-> c.chunks, chunk_stack |-> c.chunk_stack, fn_stack |-> c.fn_stack]
      /\ c.chunks \in Seq(ChunkState) /\ CurrentId(c) \in DOMAIN c.chunks
      /\ Current(c) \in ChunkState /\ OperandsOK(Current(c), Len(c.chunks))
  BY CurrentTyped
<1>2. d = Replaced(c, chunk, c.fn_stack)
  BY StringsReplaced DEF Current
<1>3. /\ PoolWith(Current(c).strings, str) \in Seq(Text)
      /\ Len(Current(c).strings) <= Len(PoolWith(Current(c).strings, str))
      /\ at \in Nat /\ at < Len(PoolWith(Current(c).strings, str))
  BY <1>1, Pooled DEF ChunkState
<1>4. /\ chunk \in ChunkState /\ chunk.strings = PoolWith(Current(c).strings, str)
      /\ chunk.code = Current(c).code /\ chunk.num_locals = Current(c).num_locals
      /\ chunk.protos = Current(c).protos /\ PoolsGrow(Current(c), chunk)
  <2>1. /\ chunk \in ChunkState
        /\ chunk.code = Current(c).code /\ chunk.params = Current(c).params
        /\ chunk.ints = Current(c).ints
        /\ chunk.strings = PoolWith(Current(c).strings, str)
        /\ chunk.protos = Current(c).protos /\ chunk.num_locals = Current(c).num_locals
    BY <1>1, <1>3, WithStrings
  <2> HIDE DEF chunk
  <2>2. PoolsGrow(Current(c), chunk)
    BY <1>1, <1>3, <2>1 DEF PoolsGrow, ChunkState
  <2> QED
    BY <2>1, <2>2
<1> HIDE DEF chunk, d, at
<1>5. /\ SameContexts(c.fn_stack, c.fn_stack) /\ CurrentOK(c.fn_stack, chunk)
  BY <1>4, ContextOfCurrent DEF CurrentOK, ContextOK
<1>6. \A k \in DOMAIN chunk.protos : chunk.protos[k] \in 2..Len(c.chunks)
  BY <1>1, <1>4 DEF OperandsOK
<1>7. Grows(c, d) /\ Current(d) = chunk
  BY <1>2, <1>4, <1>5, <1>6, Growth, Zenon
<1>8. CompilerInv(d) /\ (UsesSlots(d) <=> UsesSlots(c))
  BY <1>7, SlotsStay DEF Grows, Extends
<1>9. InstructionOK([opcode |-> opcode, operand |-> at], Current(d))
  BY <1>3, <1>4, <1>7 DEF InstructionOK, SlotOps, StringOps
<1>10. opcode \in Opcodes /\ (opcode \in ClosureOps => ~ UsesSlots(d))
  BY <1>8 DEF Opcodes, ConstantOps, ClosureOps, StringOps
<1>11. Appends(d, Emit(d, opcode, at), [opcode |-> opcode, operand |-> at])
  BY <1>3, <1>8, <1>9, <1>10, EmitAppends
<1>12. Appends(c, Emit(d, opcode, at), [opcode |-> opcode, operand |-> at])
  BY <1>7, <1>11, GrowsAppends
<1> QED
  BY <1>12 DEF EmitWithString, d, at

-----------------------------------------------------------------------------
(* Slots.                                                                  *)

LEMMA SlotInRange ==
  ASSUME NEW c, CompilerInv(c), NEW name, HasSlot(c, name)
  PROVE  SlotOf(c, name) \in Nat /\ SlotOf(c, name) < Current(c).num_locals
<1> DEFINE slots == Context(c).slots
           T     == {i \in DOMAIN slots : slots[i] = name}
<1>1. /\ CurrentOK(c.fn_stack, Current(c)) /\ c.fn_stack # <<>> /\ Context(c).use_slots
      /\ c.fn_stack \in Seq(FnContext) /\ Context(c) = c.fn_stack[Len(c.fn_stack)]
  BY CurrentTyped, ContextOfCurrent DEF HasSlot, UsesSlots, Context, Last
<1>2. /\ slots \in Seq(Text) /\ Len(slots) <= Current(c).num_locals
      /\ Current(c).num_locals \in Nat
  <2>1. Context(c) \in FnContext
    BY <1>1
  <2>2. Current(c) \in ChunkState
    BY CurrentTyped
  <2>3. ContextOK(Context(c), Current(c))
    BY <1>1 DEF CurrentOK
  <2> QED
    BY <1>1, <2>1, <2>2, <2>3 DEF FnContext, ChunkState, ContextOK
<1>3. \E i \in DOMAIN slots : slots[i] = name
  BY <1>2 DEF HasSlot, Contains
<1> HIDE DEF slots
<1>4. Len(slots) \in Nat /\ DOMAIN slots = 1..Len(slots) /\ T \in SUBSET (0..Len(slots)) /\ T # {}
  BY <1>2, <1>3
<1>5. PICK x \in T : \A y \in T : x >= y
  BY <1>4, LargestElement
<1>6. /\ x \in DOMAIN slots /\ slots[x] = name
      /\ \A j \in (x + 1)..Len(slots) : slots[j] # name
  BY <1>4, <1>5
<1>7. LastIndexOf(slots, name) \in DOMAIN slots
  BY <1>6 DEF LastIndexOf
<1>8. SlotOf(c, name) = LastIndexOf(slots, name) - 1
  BY DEF SlotOf, slots
<1> QED
  BY <1>2, <1>4, <1>7, <1>8

LEMMA EmitSlotAppends ==
  ASSUME NEW c, CompilerInv(c), NEW opcode \in SlotOps, NEW slot \in Nat,
         slot < Current(c).num_locals
  PROVE  Appends(c, Emit(c, opcode, slot), [opcode |-> opcode, operand |-> slot])
<1>1. InstructionOK([opcode |-> opcode, operand |-> slot], Current(c))
  BY DEF InstructionOK, SlotOps
<1>2. opcode \in Opcodes /\ opcode \notin ClosureOps
  BY DEF Opcodes, SlotOps, ClosureOps
<1> QED
  BY <1>1, <1>2, EmitAppends

LEMMA SlotAllocated ==
  ASSUME NEW c, CompilerInv(c), UsesSlots(c), NEW name \in Text
  PROVE  /\ Grows(c, AllocateSlot(c, name))
         /\ NextSlot(c) \in Nat /\ NextSlot(c) < Current(AllocateSlot(c, name)).num_locals
<1> DEFINE last     == Len(c.fn_stack)
           slots    == Append(c.fn_stack[last].slots, name)
           locals   == IF NextSlot(c) >= Current(c).num_locals THEN NextSlot(c) + 1
                                                               ELSE Current(c).num_locals
           chunk    == [Current(c) EXCEPT !.num_locals = locals]
           contexts == [c.fn_stack EXCEPT ![last].slots = slots]
<1>1. /\ CurrentOK(c.fn_stack, Current(c)) /\ c.fn_stack # <<>>
      /\ c.fn_stack[last].use_slots
      /\ c.fn_stack \in Seq(FnContext) /\ Context(c) = c.fn_stack[last]
  BY CurrentTyped, ContextOfCurrent DEF UsesSlots, Context, Last
<1>2. /\ Current(c) \in ChunkState /\ OperandsOK(Current(c), Len(c.chunks))
      /\ Current(c).num_locals \in Nat /\ Current(c).code \in Seq(Instruction)
  BY CurrentTyped DEF ChunkState
<1>3. last \in DOMAIN c.fn_stack /\ c.fn_stack[last] \in FnContext
  BY <1>1
<1>4. /\ c.fn_stack[last].slots \in Seq(Text) /\ NextSlot(c) = Len(c.fn_stack[last].slots)
      /\ NextSlot(c) \in Nat /\ locals \in Nat /\ NextSlot(c) < locals
      /\ Current(c).num_locals <= locals
      /\ slots \in Seq(Text) /\ Len(slots) = NextSlot(c) + 1
  BY <1>1, <1>2, <1>3 DEF FnContext, NextSlot
<1>5. AllocateSlot(c, name) = Replaced(c, chunk, contexts)
  <2>1. c = [chunks |-> c.chunks, chunk_stack |-> c.chunk_stack, fn_stack |-> c.fn_stack]
    BY CurrentTyped
  <2> DEFINE r == AllocateSlot(c, name)
  <2>2. r = [chunks |-> r.chunks, chunk_stack |-> r.chunk_stack, fn_stack |-> r.fn_stack]
    <3>1. DOMAIN c = {"chunks", "chunk_stack", "fn_stack"}
      BY <2>1
    <3>2. r = [field \in {"chunks", "chunk_stack", "fn_stack"} |-> r[field]]
      BY <3>1 DEF AllocateSlot
    <3> HIDE DEF r
    <3> QED
      BY <3>2
  <2>3. r.chunks = [c.chunks EXCEPT ![CurrentId(c)] = chunk]
    BY <2>1 DEF AllocateSlot, Current
  <2>4. r.chunk_stack = c.chunk_stack
    BY <2>1 DEF AllocateSlot
  <2>5. r.fn_stack = contexts
    BY <2>1 DEF AllocateSlot
  <2> HIDE DEF r, chunk, contexts
  <2>6. r = Replaced(c, chunk, contexts)
    BY <2>2, <2>3, <2>4, <2>5 DEF Replaced
  <2> QED
    BY <2>6 DEF r, chunk, contexts
<1> HIDE DEF locals, slots
<1>6. /\ chunk \in ChunkState
      /\ chunk.code = Current(c).code /\ chunk.ints = Current(c).ints
      /\ chunk.strings = Current(c).strings /\ chunk.protos = Current(c).protos
      /\ chunk.params = Current(c).params /\ chunk.num_locals = locals
  BY <1>2, <1>4, WithLocals
<1> HIDE DEF chunk
<1>7. PoolsGrow(Current(c), chunk)
  BY <1>2, <1>4, <1>6 DEF PoolsGrow, ChunkState
<1>8. \A k \in DOMAIN chunk.protos : chunk.protos[k] \in 2..Len(c.chunks)
  BY <1>2, <1>6 DEF OperandsOK
<1>9. [c.fn_stack[last] EXCEPT !.slots = slots] \in FnContext
  BY <1>3, <1>4 DEF FnContext
<1>10. /\ contexts \in Seq(FnContext) /\ Len(contexts) = Len(c.fn_stack)
       /\ \A i \in DOMAIN c.fn_stack : i # last => contexts[i] = c.fn_stack[i]
       /\ contexts[last] = [c.fn_stack[last] EXCEPT !.slots = slots]
  BY <1>1, <1>3, <1>9
<1>11. contexts[last].slots = slots /\ contexts[last].use_slots = c.fn_stack[last].use_slots
  BY <1>3, <1>10 DEF FnContext
<1> HIDE DEF contexts
<1>12. SameContexts(c.fn_stack, contexts)
  BY <1>10, <1>11 DEF SameContexts
<1>13. CurrentOK(contexts, chunk)
  <2>1. ContextOK(c.fn_stack[last], Current(c))
    BY <1>1 DEF CurrentOK
  <2>2. ContextOK(contexts[last], chunk)
    BY <1>1, <1>4, <1>6, <1>11, <2>1 DEF ContextOK
  <2>3. contexts # <<>> /\ Len(contexts) = last
    BY <1>1, <1>10
  <2> QED
    BY <2>2, <2>3 DEF CurrentOK
<1>14. Grows(c, Replaced(c, chunk, contexts)) /\ Current(Replaced(c, chunk, contexts)) = chunk
  BY <1>6, <1>7, <1>8, <1>12, <1>13, Growth, Zenon
<1> QED
  BY <1>4, <1>5, <1>6, <1>14

(* A variable is stored by one instruction, which takes its value.         *)
LEMMA EmitStoreAppends ==
  ASSUME NEW c, CompilerInv(c), NEW name \in Text, NEW context
  PROVE  \E i \in Instruction :
           /\ Appends(c, EmitStore(c, name, context), i)
           /\ i.opcode \in {"STORE_SLOT", "STORE_LOCAL", "STORE_GLOBAL"}
<1>1. CASE HasSlot(c, name)
  <2>1. Appends(c, Emit(c, "STORE_SLOT", SlotOf(c, name)),
                [opcode |-> "STORE_SLOT", operand |-> SlotOf(c, name)])
    BY <1>1, SlotInRange, EmitSlotAppends DEF SlotOps
  <2>2. EmitStore(c, name, context) = Emit(c, "STORE_SLOT", SlotOf(c, name))
    BY <1>1 DEF EmitStore
  <2> QED
    BY <2>1, <2>2 DEF Appends
<1>2. CASE ~ HasSlot(c, name) /\ UsesSlots(c) /\ context = "LOCAL"
  <2> DEFINE d == AllocateSlot(c, name)
  <2>1. Grows(c, d) /\ NextSlot(c) \in Nat /\ NextSlot(c) < Current(d).num_locals
    BY <1>2, SlotAllocated
  <2>2. CompilerInv(d)
    BY <2>1 DEF Grows, Extends
  <2>3. Appends(d, Emit(d, "STORE_SLOT", NextSlot(c)),
                [opcode |-> "STORE_SLOT", operand |-> NextSlot(c)])
    BY <2>1, <2>2, EmitSlotAppends DEF SlotOps
  <2>4. EmitStore(c, name, context) = Emit(d, "STORE_SLOT", NextSlot(c))
    BY <1>2 DEF EmitStore
  <2> HIDE DEF d
  <2>5. Appends(c, Emit(d, "STORE_SLOT", NextSlot(c)),
                [opcode |-> "STORE_SLOT", operand |-> NextSlot(c)])
    BY <2>1, <2>3, GrowsAppends
  <2> QED
    BY <2>4, <2>5 DEF Appends
<1>3. CASE ~ HasSlot(c, name) /\ ~ (UsesSlots(c) /\ context = "LOCAL")
  <2> DEFINE op == IF context = "LOCAL" THEN "STORE_LOCAL" ELSE "STORE_GLOBAL"
             at == PoolIndex(Current(c).strings, name)
  <2>1. op \in StringOps /\ (op = "STORE_LOCAL" => ~ UsesSlots(c))
        /\ op \in {"STORE_SLOT", "STORE_LOCAL", "STORE_GLOBAL"}
    BY <1>3 DEF StringOps
  <2>2. EmitStore(c, name, context) = EmitWithString(c, op, name)
    BY <1>3 DEF EmitStore
  <2> HIDE DEF op
  <2>3. Appends(c, EmitWithString(c, op, name), [opcode |-> op, operand |-> at])
    BY <2>1, EmitStringAppends
  <2> QED
    BY <2>1, <2>2, <2>3 DEF Appends
<1> QED
  BY <1>1, <1>2, <1>3

-----------------------------------------------------------------------------
(* A jump emitted since b gets its target.                                 *)

LEMMA Patched ==
  ASSUME NEW b, NEW c, CompilerInv(b), Extends(b, c), NEW address \in Nat, NEW operand \in Nat,
         CodeSize(b) <= address, address < CodeSize(c),
         Current(c).code[address + 1].opcode \in Jumps
  PROVE  /\ Extends(b, PatchOperand(c, address, operand))
         /\ Current(PatchOperand(c, address, operand)).code =
              [Current(c).code EXCEPT ![address + 1].operand = operand]
<1> DEFINE old   == Current(c).code
           code  == [old EXCEPT ![address + 1].operand = operand]
           chunk == [Current(c) EXCEPT !.code = code]
           i     == [old[address + 1] EXCEPT !.operand = operand]
<1>1. CompilerInv(c)
  BY DEF Extends
<1>2. /\ Current(c) \in ChunkState /\ OperandsOK(Current(c), Len(c.chunks))
      /\ CodeSize(c) = Len(old) /\ CodeSize(c) \in Nat /\ CodeSize(b) \in Nat
  BY <1>1, CurrentTyped
<1>3. old \in Seq(Instruction)
  BY <1>2 DEF ChunkState
<1>4. PatchOperand(c, address, operand) = Replaced(c, chunk, c.fn_stack)
  BY <1>1, CodeReplaced DEF PatchOperand, Current
<1>5. /\ address + 1 \in DOMAIN old /\ old[address + 1] \in Instruction
      /\ i \in Instruction /\ i.opcode \in Jumps
  <2>1. address + 1 \in DOMAIN old /\ old[address + 1] \in Instruction
    BY <1>2, <1>3
  <2>2. old[address + 1].opcode \in Jumps
    OBVIOUS
  <2> HIDE DEF old
  <2>3. i \in Instruction /\ i.opcode = old[address + 1].opcode
    BY <2>1 DEF Instruction
  <2> QED
    BY <2>1, <2>2, <2>3
<1> HIDE DEF i, old
<1>6. code = [old EXCEPT ![address + 1] = i]
  BY DEF i
<1> HIDE DEF code
<1>7. /\ code \in Seq(Instruction) /\ Len(code) = Len(old)
      /\ DOMAIN code = DOMAIN old /\ code[address + 1] = i
      /\ \A a \in DOMAIN old : a # address + 1 => code[a] = old[a]
  BY <1>3, <1>5, <1>6
<1>8. /\ chunk \in ChunkState
      /\ chunk.code = code /\ chunk.ints = Current(c).ints
      /\ chunk.strings = Current(c).strings /\ chunk.protos = Current(c).protos
      /\ chunk.params = Current(c).params /\ chunk.num_locals = Current(c).num_locals
  BY <1>2, <1>7, WithCode
<1> HIDE DEF chunk
<1>9. ASSUME NEW a \in DOMAIN chunk.code
      PROVE  /\ InstructionOK(chunk.code[a], chunk)
             /\ chunk.code[a].opcode \in ClosureOps => old[a].opcode \in ClosureOps
  <2>1. CASE a = address + 1
    <3>1. chunk.code[a] = i
      BY <1>7, <1>8, <2>1
    <3> QED
      BY <1>5, <3>1 DEF InstructionOK, Jumps, SlotOps, ClosureOps
  <2>2. CASE a # address + 1
    <3>1. chunk.code[a] = old[a] /\ a \in DOMAIN old
      BY <1>7, <1>8, <2>2
    <3>2. InstructionOK(old[a], Current(c))
      BY <1>2, <3>1 DEF OperandsOK, old
    <3> QED
      BY <1>8, <3>1, <3>2 DEF InstructionOK
  <2> QED
    BY <2>1, <2>2
<1>10. OperandsOK(chunk, Len(c.chunks))
  BY <1>2, <1>8, <1>9 DEF OperandsOK
<1>11. /\ CodeSize(b) <= Len(chunk.code)
       /\ SameCode(Current(b).code, chunk.code, 0, CodeSize(b))
  <2>1. SameCode(Current(b).code, old, 0, CodeSize(b))
    BY DEF Extends, old
  <2> QED
    BY <1>2, <1>3, <1>7, <1>8, <2>1 DEF SameCode
<1>12. SameContexts(c.fn_stack, c.fn_stack) /\ CurrentOK(c.fn_stack, chunk)
  <2>1. SameContexts(c.fn_stack, c.fn_stack) /\ CurrentOK(c.fn_stack, Current(c))
    BY <1>1, ContextOfCurrent
  <2>2. DOMAIN chunk.code = DOMAIN old
    BY <1>7, <1>8
  <2> QED
    BY <1>8, <1>9, <2>1, <2>2 DEF CurrentOK, ContextOK, old
<1>13. Extends(b, Replaced(c, chunk, c.fn_stack))
  BY <1>8, <1>10, <1>11, <1>12, CurrentReplaced, Zenon
<1>14. Current(Replaced(c, chunk, c.fn_stack)) = chunk
  BY <1>1, ReplacedChunk, Zenon
<1> QED
  BY <1>4, <1>8, <1>13, <1>14 DEF code, old

-----------------------------------------------------------------------------
(* One piece of code after the other.                                      *)

LEMMA EmitsTwice ==
  ASSUME NEW c, NEW d, NEW e, NEW a \in Nat, NEW b \in Nat, CompilerInv(c),
         Emits(c, d, a), Emits(d, e, b)
  PROVE  Emits(c, e, a + b)
<1>1. CompilerInv(d) /\ CompilerInv(e) /\ Extends(c, d) /\ Extends(d, e)
  BY DEF Emits, Extends
<1>2. /\ CodeSize(c) \in Nat /\ CodeSize(d) \in Nat /\ CodeSize(e) \in Nat
      /\ CodeSize(c) <= CodeSize(d) /\ CodeSize(d) <= CodeSize(e)
      /\ SameCode(Current(d).code, Current(e).code, CodeSize(c), CodeSize(d))
  BY <1>1, CurrentTyped DEF Extends, SameCode
<1>3. Segment(Current(e).code, CodeSize(c), CodeSize(d), a)
  BY <1>2, SegmentCopied DEF Emits
<1>4. Segment(Current(e).code, CodeSize(c), CodeSize(e), a + b)
  BY <1>2, <1>3, SegmentsJoined DEF Emits
<1> QED
  BY <1>1, <1>4, ExtendsTwice DEF Emits

LEMMA EmitsAndAppends ==
  ASSUME NEW c, NEW d, NEW r, NEW i, NEW out \in Nat, CompilerInv(c),
         Emits(c, d, out), Appends(d, r, i), i.opcode \notin Jumps, Pops(i) <= out
  PROVE  Emits(c, r, out - Pops(i) + Pushes(i))
<1>1. CompilerInv(d) /\ CompilerInv(r) /\ Extends(c, d) /\ Extends(d, r)
  BY DEF Emits, Extends, Appends
<1>2. /\ CodeSize(c) \in Nat /\ CodeSize(d) \in Nat /\ CodeSize(r) = CodeSize(d) + 1
      /\ CodeSize(c) <= CodeSize(d) /\ Current(d) \in ChunkState
      /\ CodeSize(d) = Len(Current(d).code)
      /\ SameCode(Current(d).code, Current(r).code, CodeSize(c), CodeSize(d))
  BY <1>1, CurrentTyped DEF Extends, SameCode, Appends
<1>3. Segment(Current(r).code, CodeSize(c), CodeSize(d), out)
  BY <1>2, SegmentCopied DEF Emits
<1>4. Current(r).code[CodeSize(d) + 1] = i /\ i \in Instruction
  BY <1>2 DEF Appends, ChunkState
<1>5. Segment(Current(r).code, CodeSize(c), CodeSize(d) + 1, out - Pops(i) + Pushes(i))
  BY <1>2, <1>3, <1>4, SegmentAppended
<1> QED
  BY <1>1, <1>2, <1>5, ExtendsTwice DEF Emits

LEMMA OneEmits ==
  ASSUME NEW c, NEW r, NEW i, CompilerInv(c), Appends(c, r, i), i.opcode \notin Jumps, Pops(i) = 0
  PROVE  Emits(c, r, Pushes(i))
<1>1. Emits(c, c, 0) /\ Pushes(i) \in Nat
  BY ExtendsItself, Counted DEF Appends
<1>2. 0 \in Nat /\ Pops(i) <= 0
  OBVIOUS
<1>3. Emits(c, r, 0 - Pops(i) + Pushes(i))
  BY <1>1, <1>2, EmitsAndAppends, Zenon
<1> QED
  BY <1>1, <1>3

(* Children that leave `out' operands each.                                *)
LEMMA AllEmit ==
  ASSUME NEW below, NEW c, CompilerInv(c), NEW out \in Nat, NEW S, NEW nodes \in Seq(S),
         \A k \in DOMAIN nodes : \A d : Extends(c, d) =>
            Emits(d, CompileChild(below, d, nodes[k]), out)
  PROVE  Emits(c, CompileAll(below, c, nodes), out * Len(nodes))
<1> DEFINE N        == Len(nodes)
           Step(f, n) == IF n = 0 THEN c ELSE CompileChild(below, f[n - 1], nodes[n])
           Is(f, m) == f = [n \in 0..m |-> Step(f, n)]
           T        == {m \in Nat : m <= N => \E f : Is(f, m)}
<1>1. N \in Nat /\ DOMAIN nodes = 1..N
  OBVIOUS
<1>2. 0 \in T
  <2>1. Is([n \in 0..0 |-> c], 0)
    OBVIOUS
  <2> QED
    BY <2>1
<1>3. ASSUME NEW m \in T PROVE m + 1 \in T
  <2> SUFFICES ASSUME m + 1 <= N PROVE \E f : Is(f, m + 1)
    OBVIOUS
  <2>1. PICK f : Is(f, m)
    BY <1>1
  <2> DEFINE g == [n \in 0..(m + 1) |->
                     IF n = m + 1 THEN CompileChild(below, f[m], nodes[m + 1]) ELSE f[n]]
  <2>2. \A n \in 0..(m + 1) : g[n] = Step(g, n)
    <3> TAKE n \in 0..(m + 1)
    <3>1. CASE n = m + 1
      <4>1. g[m] = f[m] /\ g[m + 1] = CompileChild(below, f[m], nodes[m + 1])
        OBVIOUS
      <4> HIDE DEF g
      <4> QED
        BY <3>1, <4>1
    <3>2. CASE n # m + 1
      <4>1. n \in 0..m /\ f[n] = Step(f, n)
        BY <2>1, <3>2
      <4>2. g[n] = f[n] /\ (n # 0 => g[n - 1] = f[n - 1])
        BY <3>2, <4>1
      <4> HIDE DEF g
      <4> QED
        BY <4>1, <4>2
    <3> QED
      BY <3>1, <3>2
  <2>3. Is(g, m + 1)
    <3>1. g = [n \in 0..(m + 1) |-> g[n]]
      OBVIOUS
    <3> HIDE DEF g
    <3> QED
      BY <2>2, <3>1
  <2> QED
    BY <2>3
<1>4. T = Nat
  <2> HIDE DEF T
  <2>1. T \in SUBSET Nat
    BY DEF T
  <2> QED
    BY <1>2, <1>3, <2>1, EveryNatural
<1>5. \E f : Is(f, N)
  BY <1>1, <1>4
<1> DEFINE after == CHOOSE f : Is(f, N)
<1>6. Is(after, N)
  BY <1>5
<1>7. CompileAll(below, c, nodes) = after[N]
  BY DEF CompileAll
<1> HIDE DEF after
<1>8. after[0] = c /\ \A n \in 1..N : after[n] = CompileChild(below, after[n - 1], nodes[n])
  BY <1>1, <1>6
<1> DEFINE U == {m \in Nat : m <= N => Emits(c, after[m], out * m)}
<1>9. 0 \in U
  BY <1>8, ExtendsItself
<1>10. ASSUME NEW m \in U PROVE m + 1 \in U
  <2> SUFFICES ASSUME m + 1 <= N PROVE Emits(c, after[m + 1], out * (m + 1))
    OBVIOUS
  <2>1. Emits(c, after[m], out * m)
    BY <1>1
  <2>2. m + 1 \in 1..N /\ after[m + 1] = CompileChild(below, after[m], nodes[m + 1])
    BY <1>1, <1>8
  <2>3. Emits(after[m], after[m + 1], out)
    BY <1>1, <2>1, <2>2 DEF Emits
  <2>4. out * m \in Nat /\ out * (m + 1) = out * m + out
    OBVIOUS
  <2> QED
    BY <2>1, <2>3, <2>4, EmitsTwice
<1>11. U = Nat
  <2> HIDE DEF U
  <2>1. U \in SUBSET Nat
    BY DEF U
  <2> QED
    BY <1>9, <1>10, <2>1, EveryNatural
<1> QED
  BY <1>1, <1>7, <1>11

-----------------------------------------------------------------------------
(* What is made of the children of a tree.                                 *)

TypedTree(node) ==
  /\ node.str \in STRING
  /\ node.int \in Int
  /\ \E S : node.children \in Seq(S)

(* Expressions leave one operand and statements none, but for a statement  *)
(* with functions in it, which no function that uses slots contains.       *)
Sound(below, trees) ==
  /\ \A n \in trees.expression \cup trees.part \cup trees.statment : TypedTree(n)
  /\ \A n \in trees.expression :
       /\ ~ below[n].nested
       /\ \A c : CompilerInv(c) => Emits(c, CompileChild(below, c, n), 1)
  /\ \A n \in trees.part : ~ below[n].nested
  /\ \A n \in trees.statment : \A c :
       CompilerInv(c) /\ (UsesSlots(c) => ~ below[n].nested) =>
         Emits(c, CompileChild(below, c, n), 0)

(* The opcodes whose operand is no index.                                  *)
PlainOps ==
  ArithmeticOps \cup ComparisonOps \cup
  {"PUSH_NULL", "NEG", "MAKE_ARRAY", "MAKE_OBJECT", "GET_MEMBER", "SET_MEMBER",
   "PRINT", "CALL", "RETURN"}

LEMMA PlainAppends ==
  ASSUME NEW c, CompilerInv(c), NEW opcode \in PlainOps \cup Jumps, NEW operand \in Nat
  PROVE  Appends(c, Emit(c, opcode, operand), [opcode |-> opcode, operand |-> operand])
<1>1. InstructionOK([opcode |-> opcode, operand |-> operand], Current(c))
  BY DEF InstructionOK, PlainOps, Jumps, ArithmeticOps, ComparisonOps, SlotOps
<1>2. opcode \in Opcodes /\ opcode \notin ClosureOps
  BY DEF Opcodes, ConstantOps, PlainOps, Jumps, ArithmeticOps, ComparisonOps, ClosureOps
<1> QED
  BY <1>1, <1>2, EmitAppends

LEMMA ThenEmit ==
  ASSUME NEW c, CompilerInv(c), NEW d, NEW out \in Nat, Emits(c, d, out),
         NEW opcode \in PlainOps, NEW operand \in Nat,
         NEW i, i = [opcode |-> opcode, operand |-> operand], Pops(i) <= out
  PROVE  Emits(c, Emit(d, opcode, operand), out - Pops(i) + Pushes(i))
<1>1. CompilerInv(d)
  BY DEF Emits, Extends
<1>2. Appends(d, Emit(d, opcode, operand), i)
  BY <1>1, PlainAppends
<1>3. i.opcode \notin Jumps
  BY DEF PlainOps, Jumps, ArithmeticOps, ComparisonOps
<1> QED
  BY <1>2, <1>3, EmitsAndAppends

LEMMA ExpressionsEmit ==
  ASSUME NEW below, NEW trees, Sound(below, trees), NEW c, CompilerInv(c),
         NEW nodes \in Seq(trees.expression)
  PROVE  Emits(c, CompileAll(below, c, nodes), Len(nodes))
<1>1. ASSUME NEW k \in DOMAIN nodes, NEW d, Extends(c, d)
      PROVE  Emits(d, CompileChild(below, d, nodes[k]), 1)
  BY <1>1 DEF Sound, Extends
<1>2. Emits(c, CompileAll(below, c, nodes), 1 * Len(nodes))
  BY <1>1, AllEmit
<1> QED
  BY <1>2

LEMMA StatmentsEmit ==
  ASSUME NEW below, NEW trees, Sound(below, trees), NEW c, CompilerInv(c),
         NEW nodes \in Seq(trees.statment),
         UsesSlots(c) => \A k \in DOMAIN nodes : ~ below[nodes[k]].nested
  PROVE  Emits(c, CompileAll(below, c, nodes), 0)
<1>1. ASSUME NEW k \in DOMAIN nodes, NEW d, Extends(c, d)
      PROVE  Emits(d, CompileChild(below, d, nodes[k]), 0)
  <2>1. CompilerInv(d) /\ (UsesSlots(d) => ~ below[nodes[k]].nested)
    BY <1>1, SlotsStay DEF Extends
  <2>2. nodes[k] \in trees.statment
    OBVIOUS
  <2> QED
    BY <2>1, <2>2 DEF Sound
<1>2. Emits(c, CompileAll(below, c, nodes), 0 * Len(nodes))
  BY <1>1, AllEmit
<1> QED
  BY <1>2

LEMMA StringEmits ==
  ASSUME NEW c, CompilerInv(c), NEW opcode \in {"PUSH_STRING", "LOAD"}, NEW str \in STRING
  PROVE  Emits(c, EmitWithString(c, opcode, str), 1)
<1> DEFINE i == [opcode |-> opcode, operand |-> PoolIndex(Current(c).strings, str)]
<1>1. Appends(c, EmitWithString(c, opcode, str), i)
  BY EmitStringAppends DEF StringOps, Text
<1>2. i.opcode \notin Jumps /\ Pops(i) = 0 /\ Pushes(i) = 1
  BY DEF Jumps, Pops, Pushes, ConstantOps, ArithmeticOps, ComparisonOps
<1> HIDE DEF i
<1> QED
  BY <1>1, <1>2, OneEmits

LEMMA KeyEmits ==
  ASSUME NEW below, NEW trees, Sound(below, trees), NEW c, NEW d, NEW out \in Nat,
         CompilerInv(c), Emits(c, d, out),
         NEW key \in trees.expression \cup NameNodes(trees)
  PROVE  Emits(c, CompileKey(below, d, key), out + 1)
<1>1. CompilerInv(d)
  BY DEF Emits, Extends
<1>2. Emits(d, CompileKey(below, d, key), 1)
  <2>1. CASE key.class = "Name"
    <3>1. key.str \in STRING
      BY DEF Sound, NameNodes, TypedTree
    <3>2. Emits(d, EmitWithString(d, "PUSH_STRING", key.str), 1)
      BY <1>1, <3>1, StringEmits
    <3> QED
      BY <2>1, <3>2 DEF CompileKey
  <2>2. CASE key.class # "Name"
    <3>1. key \in trees.expression
      BY <2>2 DEF NameNodes
    <3>2. Emits(d, CompileChild(below, d, key), 1)
      BY <1>1, <3>1 DEF Sound
    <3> QED
      BY <2>2, <3>2 DEF CompileKey
  <2> QED
    BY <2>1, <2>2
<1> QED
  BY <1>2, EmitsTwice

LEMMA FrontOf ==
  ASSUME NEW S, NEW s \in Seq(S), s # <<>>
  PROVE  /\ Front(s) \in Seq(S) /\ Len(Front(s)) = Len(s) - 1
         /\ \A k \in 1..(Len(s) - 1) : Front(s)[k] = s[k]
<1>1. Len(s) \in Nat \ {0} /\ DOMAIN s = 1..Len(s)
  OBVIOUS
<1>2. /\ Len(SubSeq(s, 1, Len(s) - 1)) = Len(s) - 1
      /\ \A k \in 1..(Len(s) - 1) : SubSeq(s, 1, Len(s) - 1)[k] = s[k]
      /\ SubSeq(s, 1, Len(s) - 1) \in Seq(S)
  BY <1>1, SubSeqProperties
<1> QED
  BY <1>2 DEF Front

(* Expressions, one visitor method after the other.                        *)

LEMMA UnExprEmits ==
  ASSUME NEW below, NEW trees, Sound(below, trees), NEW c, CompilerInv(c), NEW node,
         node.children \in Seq(trees.expression), Len(node.children) = 1,
         NEW opcode \in {"NEG", "PRINT", "RETURN"}
  PROVE  Emits(c, Emit(CompileAll(below, c, node.children), opcode, 0), IF opcode = "NEG" THEN 1 ELSE 0)
<1> DEFINE i == [opcode |-> opcode, operand |-> 0]
<1>1. Emits(c, CompileAll(below, c, node.children), 1)
  BY ExpressionsEmit
<1>2. opcode \in PlainOps /\ Pops(i) = 1 /\ Pushes(i) = (IF opcode = "NEG" THEN 1 ELSE 0)
  BY DEF PlainOps, Pops, Pushes, ConstantOps, ArithmeticOps, ComparisonOps
<1>3. Emits(c, Emit(CompileAll(below, c, node.children), opcode, 0), 1 - Pops(i) + Pushes(i))
  BY <1>1, <1>2, ThenEmit
<1> HIDE DEF i
<1> QED
  BY <1>2, <1>3

LEMMA BinExprEmits ==
  ASSUME NEW below, NEW trees, Sound(below, trees), NEW c, CompilerInv(c), NEW node,
         node.str \in BinaryOperators,
         node.children \in Seq(trees.expression), Len(node.children) = 2
  PROVE  Emits(c, VisitBinExpr(below, c, node), 1)
<1> DEFINE i == [opcode |-> node.str, operand |-> 0]
<1>1. Emits(c, CompileAll(below, c, node.children), 2)
  BY ExpressionsEmit
<1>2. node.str \in PlainOps /\ Pops(i) = 2 /\ Pushes(i) = 1
  BY DEF BinaryOperators, PlainOps, Pops, Pushes, ConstantOps, ArithmeticOps, ComparisonOps
<1>3. Emits(c, Emit(CompileAll(below, c, node.children), node.str, 0), 2 - Pops(i) + Pushes(i))
  BY <1>1, <1>2, ThenEmit
<1> HIDE DEF i
<1> QED
  BY <1>2, <1>3 DEF VisitBinExpr

LEMMA MemberEmits ==
  ASSUME NEW below, NEW trees, Sound(below, trees), NEW c, CompilerInv(c), NEW node,
         IsMember(trees, node)
  PROVE  Emits(c, VisitMemberExpression(below, c, node), 1)
<1> DEFINE i         == [opcode |-> "GET_MEMBER", operand |-> 0]
           container == CompileChild(below, c, node.children[1])
           key       == CompileKey(below, container, node.children[2])
<1>1. Emits(c, container, 1)
  BY DEF Sound, IsMember
<1>2. Emits(c, key, 1 + 1)
  BY <1>1, KeyEmits DEF IsMember
<1>3. "GET_MEMBER" \in PlainOps /\ Pops(i) = 2 /\ Pushes(i) = 1
  BY DEF PlainOps, Pops, Pushes, ConstantOps, ArithmeticOps, ComparisonOps
<1> HIDE DEF key
<1>4. Emits(c, key, 2)
  BY <1>2
<1>5. Emits(c, Emit(key, "GET_MEMBER", 0), 2 - Pops(i) + Pushes(i))
  BY <1>3, <1>4, ThenEmit
<1> HIDE DEF i
<1> QED
  BY <1>3, <1>5 DEF VisitMemberExpression, key

LEMMA ArrayEmits ==
  ASSUME NEW below, NEW trees, Sound(below, trees), NEW c, CompilerInv(c), NEW node,
         node.children \in Seq(trees.expression)
  PROVE  Emits(c, VisitArray(below, c, node), 1)
<1> DEFINE i == [opcode |-> "MAKE_ARRAY", operand |-> Len(node.children)]
<1>1. Emits(c, CompileAll(below, c, node.children), Len(node.children))
  BY ExpressionsEmit
<1>2. /\ "MAKE_ARRAY" \in PlainOps /\ Pops(i) = Len(node.children) /\ Pushes(i) = 1
      /\ Len(node.children) \in Nat
  BY DEF PlainOps, Pops, Pushes, ConstantOps, ArithmeticOps, ComparisonOps
<1>3. Emits(c, Emit(CompileAll(below, c, node.children), "MAKE_ARRAY", Len(node.children)),
            Len(node.children) - Pops(i) + Pushes(i))
  BY <1>1, <1>2, ThenEmit
<1>4. Len(node.children) - Pops(i) + Pushes(i) = 1
  BY <1>2
<1> QED
  BY <1>3, <1>4 DEF VisitArray

LEMMA ObjectEmits ==
  ASSUME NEW below, NEW trees, Sound(below, trees), NEW c, CompilerInv(c), NEW node,
         node.children \in Seq(PairNodes(trees)),
         \A i \in DOMAIN node.children : \A j \in {1, 2} :
           node.children[i].children[j] \in trees.expression
  PROVE  Emits(c, VisitObject(below, c, node), 1)
<1> DEFINE n     == Len(node.children)
           items == [i \in 1..(2 * n) |-> node.children[(i + 1) \div 2].children[2 - (i % 2)]]
           i     == [opcode |-> "MAKE_OBJECT", operand |-> n]
<1>1. n \in Nat /\ DOMAIN node.children = 1..n
  OBVIOUS
<1>2. ASSUME NEW k \in 1..(2 * n)
      PROVE  node.children[(k + 1) \div 2].children[2 - (k % 2)] \in trees.expression
  <2>1. (k + 1) \div 2 \in 1..n /\ 2 - (k % 2) \in {1, 2}
    BY <1>1
  <2> QED
    BY <1>1, <2>1
<1>3. items \in Seq(trees.expression) /\ Len(items) = 2 * n
  <2> DEFINE m == 2 * n
  <2>1. m \in Nat /\ items \in [1..m -> trees.expression]
    BY <1>1, <1>2
  <2> HIDE DEF m, items
  <2>2. items \in Seq(trees.expression) /\ Len(items) = m
    BY <2>1
  <2> QED
    BY <2>2 DEF m
<1> HIDE DEF items
<1>4. Emits(c, CompileAll(below, c, items), 2 * n)
  BY <1>3, ExpressionsEmit
<1>5. "MAKE_OBJECT" \in PlainOps /\ Pops(i) = 2 * n /\ Pushes(i) = 1 /\ 2 * n \in Nat
  BY <1>1 DEF PlainOps, Pops, Pushes, ConstantOps, ArithmeticOps, ComparisonOps
<1>6. Emits(c, Emit(CompileAll(below, c, items), "MAKE_OBJECT", n), 2 * n - Pops(i) + Pushes(i))
  BY <1>1, <1>4, <1>5, ThenEmit
<1>7. 2 * n - Pops(i) + Pushes(i) = 1
  BY <1>1, <1>5
<1>8. VisitObject(below, c, node) = Emit(CompileAll(below, c, items), "MAKE_OBJECT", n)
  BY DEF VisitObject, items
<1> QED
  BY <1>6, <1>7, <1>8

LEMMA CallEmits ==
  ASSUME NEW below, NEW trees, Sound(below, trees), NEW c, CompilerInv(c), NEW node,
         node.children \in Seq(trees.expression) \ {<<>>}
  PROVE  Emits(c, VisitFunctionCall(below, c, node), 1)
<1> DEFINE n         == Len(node.children) - 1
           callee    == CompileChild(below, c, Last(node.children))
           arguments == CompileAll(below, callee, Front(node.children))
           i         == [opcode |-> "CALL", operand |-> n]
<1>1. n \in Nat /\ Last(node.children) \in trees.expression
  BY DEF Last
<1>2. Front(node.children) \in Seq(trees.expression) /\ Len(Front(node.children)) = n
  BY FrontOf
<1>3. Emits(c, callee, 1)
  BY <1>1 DEF Sound
<1>4. Emits(callee, arguments, n)
  <2>1. CompilerInv(callee)
    BY <1>3 DEF Emits, Extends
  <2> HIDE DEF callee
  <2> QED
    BY <1>2, <2>1, ExpressionsEmit
<1>5. /\ "CALL" \in PlainOps /\ Pops(i) = 1 + n /\ Pushes(i) = 1 /\ 1 + n \in Nat
      /\ 1 + n - Pops(i) + Pushes(i) = 1
  BY <1>1 DEF PlainOps, Pops, Pushes, ConstantOps, ArithmeticOps, ComparisonOps
<1> HIDE DEF callee, arguments, n
<1>6. Emits(c, arguments, 1 + n)
  BY <1>1, <1>3, <1>4, EmitsTwice
<1>7. Emits(c, Emit(arguments, "CALL", n), 1 + n - Pops(i) + Pushes(i))
  BY <1>1, <1>5, <1>6, ThenEmit
<1> QED
  BY <1>5, <1>7 DEF VisitFunctionCall, callee, arguments, n

LEMMA VaribleEmits ==
  ASSUME NEW c, CompilerInv(c), NEW name \in STRING
  PROVE  Emits(c, IF HasSlot(c, name) THEN Emit(c, "LOAD_SLOT", SlotOf(c, name))
                                      ELSE EmitWithString(c, "LOAD", name), 1)
<1>1. CASE HasSlot(c, name)
  <2> DEFINE i == [opcode |-> "LOAD_SLOT", operand |-> SlotOf(c, name)]
  <2>1. Appends(c, Emit(c, "LOAD_SLOT", SlotOf(c, name)), i)
    BY <1>1, SlotInRange, EmitSlotAppends DEF SlotOps
  <2>2. i.opcode \notin Jumps /\ Pops(i) = 0 /\ Pushes(i) = 1
    BY DEF Jumps, Pops, Pushes, ConstantOps, ArithmeticOps, ComparisonOps
  <2> HIDE DEF i
  <2> QED
    BY <1>1, <2>1, <2>2, OneEmits
<1>2. CASE ~ HasSlot(c, name)
  BY <1>2, StringEmits
<1> QED
  BY <1>1, <1>2

LEMMA IntEmits ==
  ASSUME NEW c, CompilerInv(c), NEW n \in Int
  PROVE  Emits(c, EmitInt(c, n), 1)
<1> DEFINE i == [opcode |-> "PUSH_INT", operand |-> PoolIndex(Current(c).ints, n)]
<1>1. Appends(c, EmitInt(c, n), i)
  BY EmitIntAppends
<1>2. i.opcode \notin Jumps /\ Pops(i) = 0 /\ Pushes(i) = 1
  BY DEF Jumps, Pops, Pushes, ConstantOps, ArithmeticOps, ComparisonOps
<1> HIDE DEF i
<1> QED
  BY <1>1, <1>2, OneEmits

LEMMA ExpressionEmits ==
  ASSUME NEW below, NEW trees, Sound(below, trees), NEW c, CompilerInv(c),
         NEW node, TypedTree(node), IsExpression(trees, node)
  PROVE  Emits(c, CompileNode(below, c, node), 1)
<1>1. CASE node.class = "F"
  BY <1>1, IntEmits DEF TypedTree, CompileNode
<1>2. CASE node.class = "String"
  BY <1>2, StringEmits DEF TypedTree, CompileNode
<1>3. CASE node.class = "Varible"
  BY <1>3, VaribleEmits DEF TypedTree, CompileNode
<1>4. CASE node.class = "UnExpr"
  <2>1. node.children \in Seq(trees.expression) /\ Len(node.children) = 1
    BY <1>4 DEF IsExpression, IsMember
  <2>2. CompileNode(below, c, node) = Emit(CompileAll(below, c, node.children), "NEG", 0)
    BY <1>4 DEF CompileNode
  <2> QED
    BY <2>1, <2>2, UnExprEmits
<1>5. CASE node.class = "BinExpr"
  BY <1>5, BinExprEmits DEF IsExpression, IsMember, CompileNode
<1>6. CASE node.class = "MemberExpression"
  BY <1>6, MemberEmits DEF IsExpression, CompileNode
<1>7. CASE node.class = "Array"
  BY <1>7, ArrayEmits DEF IsExpression, IsMember, CompileNode
<1>8. CASE node.class = "Object"
  BY <1>8, ObjectEmits DEF IsExpression, IsMember, CompileNode
<1>9. CASE node.class = "FunctionCall"
  BY <1>9, CallEmits DEF IsExpression, IsMember, CompileNode
<1> QED
  BY <1>1, <1>2, <1>3, <1>4, <1>5, <1>6, <1>7, <1>8, <1>9 DEF IsExpression, IsMember

-----------------------------------------------------------------------------
(* Branches and loops.                                                     *)

LEMMA PatchedCode ==
  ASSUME NEW b, NEW c, CompilerInv(b), Extends(b, c), NEW address \in Nat, NEW operand \in Nat,
         CodeSize(b) <= address, address < CodeSize(c), NEW opcode \in Jumps,
         Current(c).code[address + 1].opcode = opcode,
         NEW r, r = PatchOperand(c, address, operand)
  PROVE  /\ Extends(b, r) /\ CodeSize(r) = CodeSize(c)
         /\ Current(r).code[address + 1] = [opcode |-> opcode, operand |-> operand]
         /\ \A k \in 1..CodeSize(c) : k # address + 1 =>
              Current(r).code[k] = Current(c).code[k]
<1> DEFINE old == Current(c).code
           new == Current(r).code
<1>1. Extends(b, r) /\ new = [old EXCEPT ![address + 1].operand = operand]
  BY Patched
<1>2. /\ old \in Seq(Instruction) /\ CodeSize(c) = Len(old) /\ CodeSize(r) = Len(new)
      /\ address + 1 \in 1..Len(old)
  <2>1. CompilerInv(c) /\ CompilerInv(r)
    BY <1>1 DEF Extends
  <2>2. /\ Current(c) \in ChunkState /\ CodeSize(c) = Len(old)
        /\ CodeSize(r) = Len(new)
    BY <2>1, CurrentTyped
  <2>3. old \in Seq(Instruction)
    BY <2>2 DEF ChunkState
  <2> QED
    BY <2>2, <2>3
<1>3. old[address + 1] \in Instruction /\ old[address + 1].opcode = opcode
  BY <1>2
<1> HIDE DEF old, new
<1>4. /\ Len(new) = Len(old)
      /\ new[address + 1] = [old[address + 1] EXCEPT !.operand = operand]
      /\ \A k \in 1..Len(old) : k # address + 1 => new[k] = old[k]
  BY <1>1, <1>2
<1>5. [old[address + 1] EXCEPT !.operand = operand] = [opcode |-> opcode, operand |-> operand]
  BY <1>3 DEF Instruction
<1> QED
  BY <1>1, <1>2, <1>4, <1>5 DEF old, new

(* A condition, and the jump over what depends on it.                      *)
Branches(c, branch) ==
  /\ Extends(c, branch)
  /\ CodeSize(c) < CodeSize(branch)
  /\ Segment(Current(branch).code, CodeSize(c), CodeSize(branch) - 1, 1)
  /\ Current(branch).code[CodeSize(branch)] = [opcode |-> "JUMP_IF_FALSE", operand |-> 0]

LEMMA BranchEmitted ==
  ASSUME NEW c, CompilerInv(c), NEW cond, Emits(c, cond, 1)
  PROVE  Branches(c, Emit(cond, "JUMP_IF_FALSE", 0))
<1> DEFINE i      == [opcode |-> "JUMP_IF_FALSE", operand |-> 0]
           branch == Emit(cond, "JUMP_IF_FALSE", 0)
<1>1. CompilerInv(cond)
  BY DEF Emits, Extends
<1>2. Appends(cond, branch, i)
  BY <1>1, PlainAppends DEF Jumps
<1> HIDE DEF branch, i
<1>3. /\ CodeSize(c) \in Nat /\ CodeSize(cond) \in Nat /\ CodeSize(c) <= CodeSize(cond)
      /\ CodeSize(branch) = CodeSize(cond) + 1 /\ CodeSize(cond) = Len(Current(cond).code)
      /\ Current(cond).code \in Seq(Instruction)
      /\ Current(branch).code = Append(Current(cond).code, i)
  BY <1>1, <1>2, CurrentTyped DEF Emits, Extends, Appends, ChunkState
<1>4. /\ Current(branch).code[CodeSize(branch)] = i
      /\ SameCode(Current(cond).code, Current(branch).code, CodeSize(c), CodeSize(cond))
  BY <1>3 DEF SameCode
<1>5. Segment(Current(branch).code, CodeSize(c), CodeSize(cond), 1)
  BY <1>3, <1>4, SegmentCopied DEF Emits
<1>6. Extends(c, branch)
  BY <1>2, ExtendsTwice DEF Emits, Appends
<1> QED
  BY <1>3, <1>4, <1>5, <1>6 DEF Branches, branch, i

LEMMA IfCode ==
  ASSUME NEW c, CompilerInv(c), NEW branch, Branches(c, branch), NEW then, Emits(branch, then, 0)
  PROVE  Emits(c, PatchOperand(then, CodeSize(branch) - 1, CodeSize(then)), 0)
<1> DEFINE jif == CodeSize(branch) - 1
           to  == CodeSize(then)
           r   == PatchOperand(then, jif, to)
<1>1. CompilerInv(branch) /\ CompilerInv(then) /\ Extends(c, then)
  BY ExtendsTwice DEF Branches, Emits, Extends
<1>2. /\ CodeSize(c) \in Nat /\ CodeSize(branch) \in Nat /\ to \in Nat
      /\ jif \in Nat /\ CodeSize(c) <= jif /\ jif < to
      /\ SameCode(Current(branch).code, Current(then).code, 0, CodeSize(branch))
  BY <1>1, CurrentTyped DEF Branches, Emits, Extends
<1>3. Current(then).code[jif + 1].opcode = "JUMP_IF_FALSE"
  BY <1>2 DEF Branches, SameCode
<1> HIDE DEF r, to, jif
<1>4. /\ Extends(c, r) /\ CodeSize(r) = to
      /\ Current(r).code[jif + 1] = [opcode |-> "JUMP_IF_FALSE", operand |-> to]
      /\ \A k \in 1..to : k # jif + 1 => Current(r).code[k] = Current(then).code[k]
  <2>1. "JUMP_IF_FALSE" \in Jumps /\ to = CodeSize(then) /\ jif < CodeSize(then)
    BY <1>2 DEF Jumps, to
  <2>2. r = PatchOperand(then, jif, to)
    BY DEF r
  <2> HIDE DEF to
  <2> QED
    BY <1>1, <1>2, <1>3, <2>1, <2>2, PatchedCode
<1>5. Segment(Current(r).code, CodeSize(c), jif, 1)
  <2>1. SameCode(Current(branch).code, Current(r).code, CodeSize(c), jif)
    BY <1>2, <1>4 DEF SameCode, jif
  <2> QED
    BY <1>2, <2>1, SegmentCopied DEF Branches, jif
<1>6. Segment(Current(r).code, jif + 1, to, 0)
  <2>1. Segment(Current(then).code, jif + 1, to, 0)
    BY <1>2 DEF Emits, jif, to
  <2>2. SameCode(Current(then).code, Current(r).code, jif + 1, to)
    BY <1>2, <1>4 DEF SameCode
  <2> QED
    BY <1>2, <2>1, <2>2, SegmentCopied
<1>7. Segment(Current(r).code, CodeSize(c), to, 0)
  BY <1>2, <1>4, <1>5, <1>6, SegmentOfIf
<1> QED
  BY <1>4, <1>7 DEF Emits, r, to, jif

(* The jump over the other branch; the jump of the condition comes to what *)
(* is behind it.                                                           *)
LEMMA ElseReached ==
  ASSUME NEW c, CompilerInv(c), NEW branch, Branches(c, branch), NEW then, Emits(branch, then, 0),
         NEW skip, Appends(then, skip, [opcode |-> "JUMP", operand |-> 0]),
         NEW r, r = PatchOperand(skip, CodeSize(branch) - 1, CodeSize(skip))
  PROVE  LET jif == CodeSize(branch) - 1
             jmp == CodeSize(then)
         IN  /\ Extends(c, r) /\ CodeSize(r) = jmp + 1
             /\ CodeSize(skip) = jmp + 1 /\ jif \in Nat /\ jmp \in Nat
             /\ CodeSize(c) <= jif /\ jif < jmp
             /\ Segment(Current(r).code, CodeSize(c), jif, 1)
             /\ Current(r).code[jif + 1] = [opcode |-> "JUMP_IF_FALSE", operand |-> jmp + 1]
             /\ Segment(Current(r).code, jif + 1, jmp, 0)
             /\ Current(r).code[jmp + 1] = [opcode |-> "JUMP", operand |-> 0]
<1> DEFINE jif == CodeSize(branch) - 1
           jmp == CodeSize(then)
<1>1. CompilerInv(branch) /\ CompilerInv(then) /\ CompilerInv(skip)
      /\ Extends(c, then) /\ Extends(then, skip)
  BY ExtendsTwice DEF Branches, Emits, Appends, Extends
<1>2. Extends(c, skip)
  BY <1>1, ExtendsTwice
<1>3. /\ CodeSize(c) \in Nat /\ CodeSize(branch) \in Nat /\ jmp \in Nat /\ CodeSize(skip) = jmp + 1
      /\ jif \in Nat /\ CodeSize(c) <= jif /\ jif < jmp
      /\ SameCode(Current(branch).code, Current(then).code, 0, CodeSize(branch))
      /\ SameCode(Current(then).code, Current(skip).code, 0, jmp)
  BY <1>1, CurrentTyped DEF Branches, Emits, Extends, Appends
<1>4. Current(skip).code[jif + 1].opcode = "JUMP_IF_FALSE"
  BY <1>3 DEF Branches, SameCode
<1>5. Current(skip).code[jmp + 1] = [opcode |-> "JUMP", operand |-> 0]
  <2>1. Current(then).code \in Seq(Instruction) /\ Len(Current(then).code) = jmp
    BY <1>1, CurrentTyped DEF ChunkState
  <2> QED
    BY <2>1 DEF Appends
<1> HIDE DEF jif, jmp
<1>6. /\ Extends(c, r) /\ CodeSize(r) = jmp + 1
      /\ Current(r).code[jif + 1] = [opcode |-> "JUMP_IF_FALSE", operand |-> jmp + 1]
      /\ \A k \in 1..(jmp + 1) : k # jif + 1 => Current(r).code[k] = Current(skip).code[k]
  <2>1. r = PatchOperand(skip, jif, jmp + 1)
    BY <1>3 DEF jif
  <2>2. "JUMP_IF_FALSE" \in Jumps /\ jmp + 1 \in Nat /\ jif < CodeSize(skip)
    BY <1>3 DEF Jumps
  <2> QED
    BY <1>2, <1>3, <1>4, <2>1, <2>2, PatchedCode
<1>7. Current(r).code[jmp + 1] = [opcode |-> "JUMP", operand |-> 0]
  BY <1>3, <1>5, <1>6
<1>8. Segment(Current(r).code, CodeSize(c), jif, 1)
  <2>1. SameCode(Current(branch).code, Current(r).code, CodeSize(c), jif)
    BY <1>3, <1>6 DEF SameCode, jif
  <2> QED
    BY <1>3, <2>1, SegmentCopied DEF Branches, jif
<1>9. Segment(Current(r).code, jif + 1, jmp, 0)
  <2>1. Segment(Current(then).code, jif + 1, jmp, 0)
    BY <1>3 DEF Emits, jif, jmp
  <2>2. SameCode(Current(then).code, Current(r).code, jif + 1, jmp)
    BY <1>3, <1>6 DEF SameCode
  <2> QED
    BY <1>3, <2>1, <2>2, SegmentCopied
<1> QED
  BY <1>3, <1>6, <1>7, <1>8, <1>9 DEF jif, jmp

LEMMA IfElseCode ==
  ASSUME NEW c, CompilerInv(c), NEW branch, Branches(c, branch), NEW then, Emits(branch, then, 0),
         NEW skip, Appends(then, skip, [opcode |-> "JUMP", operand |-> 0]),
         NEW d, d = PatchOperand(skip, CodeSize(branch) - 1, CodeSize(skip)),
         NEW else, Emits(d, else, 0)
  PROVE  Emits(c, PatchOperand(else, CodeSize(skip) - 1, CodeSize(else)), 0)
<1> DEFINE jif == CodeSize(branch) - 1
           jmp == CodeSize(then)
           to  == CodeSize(else)
           r   == PatchOperand(else, jmp, to)
<1>1. /\ Extends(c, d) /\ CodeSize(d) = jmp + 1
      /\ CodeSize(skip) = jmp + 1 /\ jif \in Nat /\ jmp \in Nat
      /\ CodeSize(c) <= jif /\ jif < jmp
      /\ Segment(Current(d).code, CodeSize(c), jif, 1)
      /\ Current(d).code[jif + 1] = [opcode |-> "JUMP_IF_FALSE", operand |-> jmp + 1]
      /\ Segment(Current(d).code, jif + 1, jmp, 0)
      /\ Current(d).code[jmp + 1] = [opcode |-> "JUMP", operand |-> 0]
  BY ElseReached
<1>2. CodeSize(skip) - 1 = jmp
  BY <1>1
<1> HIDE DEF jif, jmp
<1>3. CompilerInv(d) /\ CompilerInv(else) /\ Extends(c, else)
  <2>1. CompilerInv(d) /\ CompilerInv(else) /\ Extends(d, else)
    BY <1>1 DEF Emits, Extends
  <2> QED
    BY <1>1, <2>1, ExtendsTwice
<1>4. /\ CodeSize(c) \in Nat /\ to \in Nat /\ jmp < to
      /\ SameCode(Current(d).code, Current(else).code, 0, jmp + 1)
  BY <1>1, <1>3, CurrentTyped DEF Emits, Extends
<1>5. Current(else).code[jmp + 1].opcode = "JUMP"
  BY <1>1, <1>4 DEF SameCode
<1> HIDE DEF r
<1>6. /\ Extends(c, r) /\ CodeSize(r) = to
      /\ Current(r).code[jmp + 1] = [opcode |-> "JUMP", operand |-> to]
      /\ \A k \in 1..to : k # jmp + 1 => Current(r).code[k] = Current(else).code[k]
  <2>1. "JUMP" \in Jumps /\ CodeSize(c) <= jmp
    BY <1>1, <1>4 DEF Jumps
  <2> QED
    BY <1>1, <1>3, <1>4, <1>5, <2>1, PatchedCode DEF r
<1> HIDE DEF to
<1>7. /\ SameCode(Current(d).code, Current(r).code, CodeSize(c), jif)
      /\ SameCode(Current(d).code, Current(r).code, jif + 1, jmp)
      /\ Current(r).code[jif + 1] = Current(d).code[jif + 1]
  BY <1>1, <1>4, <1>6 DEF SameCode
<1>8. /\ Segment(Current(r).code, CodeSize(c), jif, 1)
      /\ Segment(Current(r).code, jif + 1, jmp, 0)
  BY <1>1, <1>4, <1>7, SegmentCopied
<1>9. Segment(Current(r).code, jmp + 1, to, 0)
  <2>1. Segment(Current(else).code, jmp + 1, to, 0)
    BY <1>1 DEF Emits, to
  <2>2. SameCode(Current(else).code, Current(r).code, jmp + 1, to)
    BY <1>1, <1>4, <1>6 DEF SameCode
  <2> QED
    BY <1>1, <1>4, <2>1, <2>2, SegmentCopied
<1>10. Segment(Current(r).code, CodeSize(c), to, 0)
  BY <1>1, <1>4, <1>6, <1>7, <1>8, <1>9, SegmentOfIfElse
<1>11. Emits(c, r, 0)
  BY <1>6, <1>10 DEF Emits
<1> QED
  BY <1>2, <1>11 DEF r, to

LEMMA WhileCode ==
  ASSUME NEW c, CompilerInv(c), NEW branch, Branches(c, branch), NEW body, Emits(branch, body, 0),
         NEW loop, Appends(body, loop, [opcode |-> "JUMP", operand |-> CodeSize(c)])
  PROVE  Emits(c, PatchOperand(loop, CodeSize(branch) - 1, CodeSize(loop)), 0)
<1> DEFINE jif == CodeSize(branch) - 1
           jmp == CodeSize(body)
           r   == PatchOperand(loop, jif, jmp + 1)
<1>1. CompilerInv(branch) /\ CompilerInv(body) /\ CompilerInv(loop)
      /\ Extends(c, body) /\ Extends(body, loop)
  BY ExtendsTwice DEF Branches, Emits, Appends, Extends
<1>2. Extends(c, loop)
  BY <1>1, ExtendsTwice
<1>3. /\ CodeSize(c) \in Nat /\ CodeSize(branch) \in Nat /\ jmp \in Nat /\ CodeSize(loop) = jmp + 1
      /\ jif \in Nat /\ CodeSize(c) <= jif /\ jif < jmp
      /\ SameCode(Current(branch).code, Current(body).code, 0, CodeSize(branch))
      /\ SameCode(Current(body).code, Current(loop).code, 0, jmp)
  BY <1>1, CurrentTyped, SMTT(40) DEF Branches, Emits, Extends, Appends
<1>4. Current(loop).code[jif + 1].opcode = "JUMP_IF_FALSE"
  BY <1>3 DEF Branches, SameCode
<1>5. Current(loop).code[jmp + 1] = [opcode |-> "JUMP", operand |-> CodeSize(c)]
  <2>1. Current(body).code \in Seq(Instruction) /\ Len(Current(body).code) = jmp
    BY <1>1, CurrentTyped DEF ChunkState
  <2> QED
    BY <2>1 DEF Appends
<1> HIDE DEF jif, jmp, r
<1>6. /\ Extends(c, r) /\ CodeSize(r) = jmp + 1
      /\ Current(r).code[jif + 1] = [opcode |-> "JUMP_IF_FALSE", operand |-> jmp + 1]
      /\ \A k \in 1..(jmp + 1) : k # jif + 1 => Current(r).code[k] = Current(loop).code[k]
  <2>1. "JUMP_IF_FALSE" \in Jumps /\ jmp + 1 \in Nat /\ jif < CodeSize(loop)
    BY <1>3 DEF Jumps
  <2> QED
    BY <1>2, <1>3, <1>4, <2>1, PatchedCode DEF r
<1>7. Current(r).code[jmp + 1] = [opcode |-> "JUMP", operand |-> CodeSize(c)]
  BY <1>3, <1>5, <1>6
<1>8. Segment(Current(r).code, CodeSize(c), jif, 1)
  <2>1. SameCode(Current(branch).code, Current(r).code, CodeSize(c), jif)
    BY <1>3, <1>6 DEF SameCode, jif
  <2> QED
    BY <1>3, <2>1, SegmentCopied DEF Branches, jif
<1>9. Segment(Current(r).code, jif + 1, jmp, 0)
  <2>1. Segment(Current(body).code, jif + 1, jmp, 0)
    BY <1>3 DEF Emits, jif, jmp
  <2>2. SameCode(Current(body).code, Current(r).code, jif + 1, jmp)
    BY <1>3, <1>6 DEF SameCode
  <2> QED
    BY <1>3, <2>1, <2>2, SegmentCopied
<1>10. Segment(Current(r).code, CodeSize(c), jmp + 1, 0)
  BY <1>3, <1>6, <1>7, <1>8, <1>9, SegmentOfWhile
<1>11. Emits(c, r, 0)
  BY <1>6, <1>10 DEF Emits
<1> QED
  BY <1>3, <1>11 DEF r, jif

-----------------------------------------------------------------------------
(* Statements, one visitor method after the other.                         *)

LEMMA StatmentChild ==
  ASSUME NEW below, NEW trees, Sound(below, trees), NEW c, CompilerInv(c), NEW d, Extends(c, d),
         NEW child \in trees.statment, UsesSlots(c) => ~ below[child].nested
  PROVE  Emits(d, CompileChild(below, d, child), 0)
<1>1. CompilerInv(d) /\ (UsesSlots(d) => ~ below[child].nested)
  BY SlotsStay DEF Extends
<1> QED
  BY <1>1 DEF Sound

LEMMA IfEmits ==
  ASSUME NEW below, NEW trees, Sound(below, trees), NEW c, CompilerInv(c), NEW node,
         Len(node.children) \in {2, 3}, node.children[1] \in trees.expression,
         \A k \in 2..Len(node.children) :
           /\ node.children[k] \in trees.statment
           /\ UsesSlots(c) => ~ below[node.children[k]].nested
  PROVE  Emits(c, VisitIfStatment(below, c, node), 0)
<1> DEFINE cond   == CompileChild(below, c, node.children[1])
           branch == Emit(cond, "JUMP_IF_FALSE", 0)
           jif    == CodeSize(branch) - 1
           then   == CompileChild(below, branch, node.children[2])
           skip   == Emit(then, "JUMP", 0)
           jmp    == CodeSize(skip) - 1
           patched == PatchOperand(skip, jif, CodeSize(skip))
           else   == CompileChild(below, patched, node.children[3])
<1>1. Emits(c, cond, 1)
  BY DEF Sound
<1> HIDE DEF cond
<1>2. Branches(c, branch)
  BY <1>1, BranchEmitted
<1> HIDE DEF branch
<1>3. Emits(branch, then, 0)
  BY <1>2, StatmentChild DEF Branches
<1> HIDE DEF then
<1>4. CASE Len(node.children) = 2
  <2>1. Emits(c, PatchOperand(then, jif, CodeSize(then)), 0)
    BY <1>2, <1>3, IfCode
  <2>2. VisitIfStatment(below, c, node) = PatchOperand(then, jif, CodeSize(then))
    BY <1>4 DEF VisitIfStatment, then, branch, cond
  <2> QED
    BY <2>1, <2>2
<1>5. CASE Len(node.children) = 3
  <2>1. Appends(then, skip, [opcode |-> "JUMP", operand |-> 0])
    BY <1>3, PlainAppends DEF Jumps, Emits, Extends
  <2> HIDE DEF skip
  <2>2. Extends(c, patched)
    BY <1>2, <1>3, <2>1, ElseReached
  <2> HIDE DEF patched
  <2>3. Emits(patched, else, 0)
    BY <1>5, <2>2, StatmentChild
  <2> HIDE DEF else
  <2>4. Emits(c, PatchOperand(else, jmp, CodeSize(else)), 0)
    BY <1>2, <1>3, <2>1, <2>3, IfElseCode DEF patched
  <2>5. VisitIfStatment(below, c, node) = PatchOperand(else, jmp, CodeSize(else))
    BY <1>5 DEF VisitIfStatment, else, patched, skip, then, branch, cond
  <2> QED
    BY <2>4, <2>5
<1> QED
  BY <1>4, <1>5

LEMMA WhileEmits ==
  ASSUME NEW below, NEW trees, Sound(below, trees), NEW c, CompilerInv(c), NEW node,
         node.children[1] \in trees.expression, node.children[2] \in trees.statment,
         UsesSlots(c) => ~ below[node.children[2]].nested
  PROVE  Emits(c, VisitWhileStatment(below, c, node), 0)
<1> DEFINE cond   == CompileChild(below, c, node.children[1])
           branch == Emit(cond, "JUMP_IF_FALSE", 0)
           jif    == CodeSize(branch) - 1
           body   == CompileChild(below, branch, node.children[2])
           loop   == Emit(body, "JUMP", CodeSize(c))
<1>1. Emits(c, cond, 1) /\ CodeSize(c) \in Nat
  BY CurrentTyped DEF Sound
<1> HIDE DEF cond
<1>2. Branches(c, branch)
  BY <1>1, BranchEmitted
<1> HIDE DEF branch
<1>3. Emits(branch, body, 0)
  BY <1>2, StatmentChild DEF Branches
<1> HIDE DEF body
<1>4. Appends(body, loop, [opcode |-> "JUMP", operand |-> CodeSize(c)])
  BY <1>1, <1>3, PlainAppends DEF Jumps, Emits, Extends
<1> HIDE DEF loop
<1>5. Emits(c, PatchOperand(loop, jif, CodeSize(loop)), 0)
  BY <1>2, <1>3, <1>4, WhileCode
<1>6. VisitWhileStatment(below, c, node) = PatchOperand(loop, jif, CodeSize(loop))
  BY DEF VisitWhileStatment, loop, body, branch, cond
<1> QED
  BY <1>5, <1>6

LEMMA AssigmentEmits ==
  ASSUME NEW below, NEW trees, Sound(below, trees), NEW c, CompilerInv(c), NEW node,
         IsAssigment(trees, node)
  PROVE  Emits(c, VisitAssigment(below, c, node), 0)
<1> DEFINE target == node.children[1]
           source == node.children[2]
<1>1. source \in trees.expression
  BY DEF IsAssigment
<1>2. CASE target.class = "Name"
  <2> DEFINE d == CompileChild(below, c, source)
             r == EmitStore(d, target.str, node.str)
  <2>1. Emits(c, d, 1)
    BY <1>1 DEF Sound
  <2>2. CompilerInv(d)
    BY <2>1 DEF Emits, Extends
  <2>3. target.str \in Text
    BY DEF IsAssigment, NameNodes, Sound, TypedTree, Text
  <2> HIDE DEF d
  <2>4. PICK i \in Instruction :
          Appends(d, r, i) /\ i.opcode \in {"STORE_SLOT", "STORE_LOCAL", "STORE_GLOBAL"}
    BY <2>2, <2>3, EmitStoreAppends
  <2>5. i.opcode \notin Jumps /\ Pops(i) = 1 /\ Pushes(i) = 0
    BY <2>4 DEF Jumps, Pops, Pushes, ConstantOps, ArithmeticOps, ComparisonOps
  <2> HIDE DEF r
  <2>6. Emits(c, r, 1 - Pops(i) + Pushes(i))
    BY <2>1, <2>4, <2>5, EmitsAndAppends
  <2>7. VisitAssigment(below, c, node) = r
    BY <1>2 DEF VisitAssigment, r, d
  <2> QED
    BY <2>5, <2>6, <2>7
<1>3. CASE target.class # "Name"
  <2> DEFINE container == CompileChild(below, c, target.children[1])
             key       == CompileKey(below, container, target.children[2])
             value     == CompileChild(below, key, source)
             i         == [opcode |-> "SET_MEMBER", operand |-> 0]
  <2>1. IsMember(trees, target)
    BY <1>3 DEF IsAssigment, NameNodes
  <2>2. Emits(c, container, 1)
    BY <2>1 DEF IsMember, Sound
  <2> HIDE DEF container
  <2>3. Emits(c, key, 1 + 1)
    BY <2>1, <2>2, KeyEmits DEF IsMember
  <2> HIDE DEF key
  <2>4. Emits(c, key, 2)
    BY <2>3
  <2>5. Emits(key, value, 1)
    <3>1. CompilerInv(key)
      BY <2>4 DEF Emits, Extends
    <3> QED
      BY <1>1, <3>1 DEF Sound
  <2> HIDE DEF value
  <2>6. Emits(c, value, 2 + 1)
    BY <2>4, <2>5, EmitsTwice
  <2>7. "SET_MEMBER" \in PlainOps /\ Pops(i) = 3 /\ Pushes(i) = 0
    BY DEF PlainOps, Pops, Pushes, ConstantOps, ArithmeticOps, ComparisonOps
  <2>8. Emits(c, value, 3)
    BY <2>6
  <2>9. Emits(c, Emit(value, "SET_MEMBER", 0), 3 - Pops(i) + Pushes(i))
    BY <2>7, <2>8, ThenEmit
  <2>10. VisitAssigment(below, c, node) = Emit(value, "SET_MEMBER", 0)
    BY <1>3 DEF VisitAssigment, value, key, container
  <2> HIDE DEF i
  <2> QED
    BY <2>7, <2>9, <2>10
<1> QED
  BY <1>2, <1>3

-----------------------------------------------------------------------------
(* Functions.                                                              *)

(* The state in which the body of a function is compiled, and the one      *)
(* after it.                                                               *)
Entered(c, params, use_slots) ==
  [chunks      |-> Append(c.chunks, EmptyChunk(params, IF use_slots THEN Len(params) ELSE 0)),
   chunk_stack |-> Append(c.chunk_stack, Len(c.chunks) + 1),
   fn_stack    |-> Append(c.fn_stack, [use_slots |-> use_slots,
                                       slots |-> IF use_slots THEN params ELSE <<>>])]

Left(d) == [d EXCEPT !.chunk_stack = Front(@), !.fn_stack = Front(@)]

LEMMA OneMore ==
  ASSUME NEW S, NEW s \in Seq(S), NEW x \in S, NEW t, t = Append(s, x)
  PROVE  /\ t \in Seq(S) /\ Len(t) = Len(s) + 1 /\ t[Len(t)] = x
         /\ \A i \in DOMAIN s : t[i] = s[i]
         /\ DOMAIN t = DOMAIN s \cup {Len(t)} /\ t # <<>>
<1>1. /\ t \in Seq(S) /\ Len(t) = Len(s) + 1 /\ t[Len(s) + 1] = x
      /\ \A i \in 1..Len(s) : t[i] = s[i]
  OBVIOUS
<1>2. DOMAIN s = 1..Len(s) /\ DOMAIN t = 1..(Len(s) + 1) /\ Len(s) \in Nat
  BY <1>1
<1> QED
  BY <1>1, <1>2

LEMMA FunctionEntered ==
  ASSUME NEW c, CompilerInv(c), NEW params \in Seq(Text), NEW use_slots \in BOOLEAN,
         NEW e, e = Entered(c, params, use_slots)
  PROVE  /\ CompilerInv(e) /\ CurrentId(e) = Len(c.chunks) + 1
         /\ Current(e).code = <<>> /\ CodeSize(e) = 0
         /\ UsesSlots(e) <=> use_slots
<1> DEFINE id      == Len(c.chunks) + 1
           chunk   == EmptyChunk(params, IF use_slots THEN Len(params) ELSE 0)
           context == [use_slots |-> use_slots, slots |-> IF use_slots THEN params ELSE <<>>]
<1>1. /\ c.chunks \in Seq(ChunkState) /\ c.chunk_stack \in Seq(Nat) /\ c.fn_stack \in Seq(FnContext)
      /\ Len(c.chunk_stack) = Len(c.fn_stack) + 1 /\ c.chunk_stack[1] = 1
  BY CurrentTyped DEF CompilerInv, StacksOK
<1>2. /\ e.chunks = Append(c.chunks, chunk) /\ e.chunk_stack = Append(c.chunk_stack, id)
      /\ e.fn_stack = Append(c.fn_stack, context)
      /\ e = [chunks |-> e.chunks, chunk_stack |-> e.chunk_stack, fn_stack |-> e.fn_stack]
  BY DEF Entered
<1>3. /\ chunk \in ChunkState /\ chunk.code = <<>> /\ chunk.protos = <<>>
      /\ chunk.num_locals = IF use_slots THEN Len(params) ELSE 0
  BY DEF EmptyChunk, ChunkState
<1>4. /\ context \in FnContext /\ context.use_slots = use_slots
      /\ Len(context.slots) = IF use_slots THEN Len(params) ELSE 0
  BY DEF FnContext
<1> HIDE DEF chunk, context
<1>5. /\ e.chunks \in Seq(ChunkState) /\ Len(e.chunks) = id /\ e.chunks[id] = chunk
      /\ \A k \in DOMAIN c.chunks : e.chunks[k] = c.chunks[k]
      /\ DOMAIN e.chunks = DOMAIN c.chunks \cup {id} /\ id \notin DOMAIN c.chunks /\ id \in Nat
  BY <1>1, <1>2, <1>3, SMTT(40)
<1>6. /\ e.chunk_stack \in Seq(Nat) /\ Len(e.chunk_stack) = Len(c.chunk_stack) + 1
      /\ e.chunk_stack[Len(e.chunk_stack)] = id
      /\ \A i \in DOMAIN c.chunk_stack : e.chunk_stack[i] = c.chunk_stack[i]
      /\ DOMAIN e.chunk_stack = DOMAIN c.chunk_stack \cup {Len(e.chunk_stack)}
  <2>1. e.chunk_stack = Append(c.chunk_stack, id) /\ c.chunk_stack \in Seq(Nat) /\ id \in Nat
    BY <1>1, <1>2, <1>5
  <2> HIDE DEF id
  <2> QED
    BY ONLY <2>1, OneMore
<1>7. /\ e.fn_stack \in Seq(FnContext) /\ Len(e.fn_stack) = Len(c.fn_stack) + 1
      /\ e.fn_stack[Len(e.fn_stack)] = context
      /\ \A i \in DOMAIN c.fn_stack : e.fn_stack[i] = c.fn_stack[i]
      /\ DOMAIN e.fn_stack = DOMAIN c.fn_stack \cup {Len(e.fn_stack)}
      /\ e.fn_stack # <<>>
  <2>1. e.fn_stack = Append(c.fn_stack, context) /\ c.fn_stack \in Seq(FnContext)
        /\ context \in FnContext
    BY <1>1, <1>2, <1>4
  <2> QED
    BY ONLY <2>1, OneMore
<1> HIDE DEF id
<1>8. /\ CurrentId(e) = id /\ Current(e) = chunk /\ CodeSize(e) = 0
      /\ UsesSlots(e) <=> use_slots
  BY <1>3, <1>4, <1>5, <1>6, <1>7 DEF CurrentId, Current, CodeSize, UsesSlots, Context, Last
<1>9. e \in CompilerState
  BY <1>2, <1>5, <1>6, <1>7 DEF CompilerState
<1>10. StacksOK(e)
  <2>1. \A i \in DOMAIN c.chunk_stack : c.chunk_stack[i] \in DOMAIN c.chunks /\ c.chunk_stack[i] # id
    BY <1>5 DEF CompilerInv, StacksOK
  <2>2. \A i, j \in DOMAIN c.chunk_stack : c.chunk_stack[i] = c.chunk_stack[j] => i = j
    BY DEF CompilerInv, StacksOK
  <2>3. 1 \in DOMAIN c.chunk_stack
    BY <1>1
  <2>4. \A i \in DOMAIN e.chunk_stack : e.chunk_stack[i] \in DOMAIN e.chunks
    BY <1>5, <1>6, <2>1
  <2>5. \A i, j \in DOMAIN e.chunk_stack : e.chunk_stack[i] = e.chunk_stack[j] => i = j
    BY <1>6, <2>1, <2>2
  <2> QED
    BY <1>1, <1>6, <1>7, <2>3, <2>4, <2>5 DEF StacksOK
<1>11. e.chunks[1].num_locals = 0
  <2>1. 1 \in DOMAIN c.chunks
    BY <1>1 DEF CompilerInv, StacksOK
  <2> QED
    BY <1>5, <2>1 DEF CompilerInv
<1>12. ASSUME NEW k \in DOMAIN e.chunks PROVE OperandsOK(e.chunks[k], Len(e.chunks))
  <2>1. CASE k = id
    BY <1>3, <1>5, <2>1 DEF OperandsOK
  <2>2. CASE k # id
    <3>1. e.chunks[k] = c.chunks[k] /\ OperandsOK(c.chunks[k], Len(c.chunks))
      BY <1>5, <2>2 DEF CompilerInv
    <3>2. Len(c.chunks) \in Nat /\ Len(e.chunks) = Len(c.chunks) + 1
      BY <1>1, <1>5 DEF id
    <3> QED
      BY <3>1, <3>2 DEF OperandsOK
  <2> QED
    BY <2>1, <2>2
<1>13. ASSUME NEW i \in DOMAIN e.fn_stack
       PROVE  ContextOK(e.fn_stack[i], e.chunks[e.chunk_stack[i + 1]])
  <2>1. CASE i = Len(e.fn_stack)
    <3>1. e.fn_stack[i] = context /\ e.chunk_stack[i + 1] = id
      BY <1>1, <1>6, <1>7, <2>1
    <3> QED
      BY <1>3, <1>4, <1>5, <3>1 DEF ContextOK
  <2>2. CASE i # Len(e.fn_stack)
    <3>1. /\ i \in DOMAIN c.fn_stack /\ i + 1 \in DOMAIN c.chunk_stack
          /\ c.chunk_stack[i + 1] \in DOMAIN c.chunks
          /\ ContextOK(c.fn_stack[i], c.chunks[c.chunk_stack[i + 1]])
      BY <1>1, <1>7, <2>2 DEF CompilerInv, StacksOK
    <3> QED
      BY <1>5, <1>6, <1>7, <3>1
  <2> QED
    BY <2>1, <2>2
<1>14. ASSUME NEW k \in DOMAIN e.chunks, \A i \in DOMAIN e.chunk_stack : e.chunk_stack[i] # k
       PROVE  BodyOK(e.chunks[k])
  <2>1. k # id /\ \A i \in DOMAIN c.chunk_stack : c.chunk_stack[i] # k
    <3>1. Len(e.chunk_stack) \in DOMAIN e.chunk_stack
      BY <1>6
    <3> QED
      BY <1>6, <1>14, <3>1
  <2> QED
    BY <1>5, <2>1 DEF CompilerInv
<1> QED
  BY <1>3, <1>8, <1>9, <1>10, <1>11, <1>12, <1>13, <1>14 DEF CompilerInv, id

LEMMA BodyFinished ==
  ASSUME NEW e, CompilerInv(e), CodeSize(e) = 0, NEW b, Emits(e, b, 0),
         NEW d, d = Emit(Emit(b, "PUSH_NULL", 0), "RETURN", 0)
  PROVE  Extends(e, d) /\ BodyOK(Current(d))
<1> DEFINE null   == [opcode |-> "PUSH_NULL", operand |-> 0]
           return == [opcode |-> "RETURN", operand |-> 0]
           m      == Emit(b, "PUSH_NULL", 0)
<1>1. CompilerInv(b) /\ Extends(e, b)
  BY DEF Emits, Extends
<1>2. Appends(b, m, null)
  BY <1>1, PlainAppends DEF PlainOps
<1> HIDE DEF m
<1>3. CompilerInv(m) /\ Extends(b, m)
  BY <1>2 DEF Appends, Extends
<1>4. Appends(m, d, return)
  BY <1>3, PlainAppends DEF PlainOps, m
<1>5. CompilerInv(d) /\ Extends(m, d)
  BY <1>4 DEF Appends, Extends
<1>6. Extends(e, d)
  BY <1>1, <1>3, <1>5, ExtendsTwice
<1>7. \E depth : Certifies(depth, Current(d).code, FALSE)
  <2> DEFINE first == Current(b).code
             second == Current(m).code
             code  == Current(d).code
             n     == CodeSize(b)
  <2>1. /\ first \in Seq(Instruction) /\ n = Len(first) /\ n \in Nat
        /\ code \in Seq(Instruction)
    <3>1. Current(b) \in ChunkState /\ Current(d) \in ChunkState /\ n = Len(first) /\ n \in Nat
      BY <1>1, <1>5, CurrentTyped
    <3> QED
      BY <3>1 DEF ChunkState
  <2>2. /\ second = Append(first, null) /\ code = Append(second, return)
    BY <1>2, <1>4 DEF Appends
  <2>3. Segment(first, 0, n, 0)
    BY DEF Emits
  <2>4. null \in Instruction /\ return \in Instruction
    BY <1>2, <1>4 DEF Appends
  <2> HIDE DEF first, second, code, n, null, return
  <2>5. /\ Len(code) = n + 2 /\ code[n + 1] = null /\ code[n + 2] = return
        /\ \A k \in 1..n : code[k] = first[k]
    BY <2>1, <2>2, <2>4
  <2>6. SameCode(first, code, 0, n)
    BY <2>5 DEF SameCode
  <2>7. Segment(code, 0, n, 0)
    BY <2>1, <2>3, <2>6, SegmentCopied
  <2>8. \E depth : Certifies(depth, code, FALSE)
    BY <2>1, <2>5, <2>7, BodyCertified DEF null, return
  <2> QED
    BY <2>8 DEF code
<1>8. SlotsOK(Current(d))
  <2>1. CurrentOK(d.fn_stack, Current(d)) /\ OperandsOK(Current(d), Len(d.chunks))
    BY <1>5, ContextOfCurrent, CurrentTyped
  <2>2. \/ Current(d).num_locals = 0
        \/ \A a \in DOMAIN Current(d).code : Current(d).code[a].opcode \notin ClosureOps
    BY <2>1 DEF CurrentOK, ContextOK
  <2> QED
    BY <2>1, <2>2 DEF SlotsOK, OperandsOK, InstructionOK, ClosureOps
<1> QED
  BY <1>6, <1>7, <1>8 DEF BodyOK

LEMMA FrontOfOneMore ==
  ASSUME NEW S, NEW s \in Seq(S), NEW t \in Seq(S), Len(t) = Len(s) + 1,
         \A k \in DOMAIN s : t[k] = s[k]
  PROVE  Front(t) = s
<1>1. t # <<>> /\ Len(s) \in Nat /\ DOMAIN s = 1..Len(s)
  OBVIOUS
<1>2. /\ Front(t) \in Seq(S) /\ Len(Front(t)) = Len(s)
      /\ \A k \in 1..Len(s) : Front(t)[k] = s[k]
  BY <1>1, FrontOf
<1> QED
  BY <1>2, SeqEqual

LEMMA FunctionLeft ==
  ASSUME NEW c, CompilerInv(c), NEW params \in Seq(Text), NEW use_slots \in BOOLEAN,
         NEW e, e = Entered(c, params, use_slots), NEW d, Extends(e, d), BodyOK(Current(d)),
         NEW l, l = Left(d)
  PROVE  /\ Grows(c, l) /\ Current(l) = Current(c)
         /\ Len(c.chunks) + 1 \in 2..Len(l.chunks)
<1> DEFINE id == Len(c.chunks) + 1
<1>1. /\ c.chunks \in Seq(ChunkState) /\ c.chunk_stack \in Seq(Nat) /\ c.fn_stack \in Seq(FnContext)
      /\ Len(c.chunk_stack) = Len(c.fn_stack) + 1 /\ c.chunk_stack[1] = 1
      /\ Len(c.chunks) \in Nat
  BY CurrentTyped DEF CompilerInv, StacksOK
<1>2. CompilerInv(e) /\ CurrentId(e) = id /\ CompilerInv(d)
  BY FunctionEntered DEF Extends
<1>3. /\ d.chunks \in Seq(ChunkState) /\ d.chunk_stack \in Seq(Nat) /\ d.fn_stack \in Seq(FnContext)
      /\ d = [chunks |-> d.chunks, chunk_stack |-> d.chunk_stack, fn_stack |-> d.fn_stack]
      /\ Current(d) = d.chunks[id]
  <2>1. CurrentId(d) = CurrentId(e)
    BY DEF Extends, CurrentId
  <2> QED
    BY <1>2, <2>1, CurrentTyped DEF Current
<1>4. /\ Len(e.chunks) = id /\ \A k \in DOMAIN c.chunks : e.chunks[k] = c.chunks[k]
      /\ DOMAIN e.chunks = DOMAIN c.chunks \cup {id} /\ id \notin DOMAIN c.chunks
  <2>1. e.chunks = Append(c.chunks, EmptyChunk(params, IF use_slots THEN Len(params) ELSE 0))
    BY DEF Entered
  <2>2. EmptyChunk(params, IF use_slots THEN Len(params) ELSE 0) \in ChunkState
    BY DEF EmptyChunk, ChunkState
  <2> HIDE DEF id
  <2>3. /\ Len(e.chunks) = Len(c.chunks) + 1
        /\ \A i \in DOMAIN c.chunks : e.chunks[i] = c.chunks[i]
        /\ DOMAIN e.chunks = DOMAIN c.chunks \cup {Len(e.chunks)}
    BY ONLY <1>1, <2>1, <2>2, OneMore
  <2> QED
    BY <1>1, <2>3 DEF id
<1>5. /\ d.chunk_stack = e.chunk_stack /\ Len(e.chunks) <= Len(d.chunks)
      /\ \A k \in DOMAIN e.chunks : k # id => d.chunks[k] = e.chunks[k]
      /\ Len(d.fn_stack) = Len(e.fn_stack)
      /\ \A i \in DOMAIN e.fn_stack : i # Len(e.fn_stack) => d.fn_stack[i] = e.fn_stack[i]
  BY <1>2 DEF Extends
<1>6. Front(d.chunk_stack) = c.chunk_stack /\ d.chunk_stack[Len(c.chunk_stack) + 1] = id
      /\ DOMAIN d.chunk_stack = DOMAIN c.chunk_stack \cup {Len(c.chunk_stack) + 1}
      /\ \A i \in DOMAIN c.chunk_stack : d.chunk_stack[i] = c.chunk_stack[i]
  <2>1. d.chunk_stack = Append(c.chunk_stack, id) /\ c.chunk_stack \in Seq(Nat) /\ id \in Nat
    BY <1>1, <1>5 DEF Entered
  <2> HIDE DEF id
  <2>2. /\ Len(d.chunk_stack) = Len(c.chunk_stack) + 1 /\ d.chunk_stack[Len(d.chunk_stack)] = id
        /\ \A i \in DOMAIN c.chunk_stack : d.chunk_stack[i] = c.chunk_stack[i]
        /\ DOMAIN d.chunk_stack = DOMAIN c.chunk_stack \cup {Len(d.chunk_stack)}
    BY ONLY <2>1, OneMore
  <2>3. Front(d.chunk_stack) = c.chunk_stack
    BY <1>1, <1>3, <2>2, FrontOfOneMore
  <2> QED
    BY <2>2, <2>3
<1>7. Front(d.fn_stack) = c.fn_stack
  <2> DEFINE context == [use_slots |-> use_slots, slots |-> IF use_slots THEN params ELSE <<>>]
  <2>1. e.fn_stack = Append(c.fn_stack, context) /\ context \in FnContext
    BY DEF Entered, FnContext
  <2> HIDE DEF context
  <2>2. /\ Len(e.fn_stack) = Len(c.fn_stack) + 1
        /\ \A i \in DOMAIN c.fn_stack : e.fn_stack[i] = c.fn_stack[i]
        /\ DOMAIN e.fn_stack = DOMAIN c.fn_stack \cup {Len(e.fn_stack)}
    BY ONLY <1>1, <2>1, OneMore
  <2>3. DOMAIN c.fn_stack = 1..Len(c.fn_stack) /\ Len(c.fn_stack) \in Nat
    BY <1>1
  <2>4. \A i \in DOMAIN c.fn_stack : d.fn_stack[i] = c.fn_stack[i]
    BY <1>5, <2>2, <2>3
  <2> QED
    BY <1>1, <1>3, <1>5, <2>2, <2>4, FrontOfOneMore
<1>8. /\ l = [chunks |-> d.chunks, chunk_stack |-> c.chunk_stack, fn_stack |-> c.fn_stack]
  BY <1>3, <1>6, <1>7 DEF Left
<1> HIDE DEF id
<1>9. /\ l.chunks = d.chunks /\ l.chunk_stack = c.chunk_stack /\ l.fn_stack = c.fn_stack
      /\ l \in CompilerState
  BY <1>1, <1>3, <1>8 DEF CompilerState
<1>10. /\ \A k \in DOMAIN c.chunks : k \in DOMAIN l.chunks /\ l.chunks[k] = c.chunks[k]
       /\ Len(c.chunks) <= Len(l.chunks)
  <2>1. DOMAIN e.chunks \subseteq DOMAIN d.chunks
    <3>1. e.chunks \in Seq(ChunkState)
      BY <1>2, CurrentTyped
    <3> QED
      BY <1>3, <1>5, <3>1
  <2>2. Len(c.chunks) <= Len(d.chunks)
    BY <1>1, <1>3, <1>4, <1>5 DEF id
  <2> QED
    BY <1>4, <1>5, <1>9, <2>1, <2>2
<1>11. \A i \in DOMAIN c.chunk_stack : c.chunk_stack[i] \in DOMAIN c.chunks
  BY DEF CompilerInv, StacksOK
<1>12. StacksOK(l)
  <2>1. \A i, j \in DOMAIN c.chunk_stack : c.chunk_stack[i] = c.chunk_stack[j] => i = j
    BY DEF CompilerInv, StacksOK
  <2> QED
    BY <1>1, <1>9, <1>10, <1>11, <2>1 DEF StacksOK
<1>13. l.chunks[1].num_locals = 0 /\ \A k \in DOMAIN l.chunks : OperandsOK(l.chunks[k], Len(l.chunks))
  BY <1>2, <1>9 DEF CompilerInv
<1>14. \A i \in DOMAIN l.fn_stack : ContextOK(l.fn_stack[i], l.chunks[l.chunk_stack[i + 1]])
  <2> TAKE i \in DOMAIN l.fn_stack
  <2>1. i \in DOMAIN c.fn_stack /\ i + 1 \in DOMAIN c.chunk_stack
    BY <1>1, <1>9
  <2>2. ContextOK(c.fn_stack[i], c.chunks[c.chunk_stack[i + 1]])
    BY <2>1 DEF CompilerInv
  <2> QED
    BY <1>9, <1>10, <1>11, <2>1, <2>2
<1>15. ASSUME NEW k \in DOMAIN l.chunks, \A i \in DOMAIN l.chunk_stack : l.chunk_stack[i] # k
       PROVE  BodyOK(l.chunks[k])
  <2>1. CASE k = id
    BY <1>3, <1>9, <2>1
  <2>2. CASE k # id
    <3>1. \A i \in DOMAIN d.chunk_stack : d.chunk_stack[i] # k
      BY <1>6, <1>9, <1>15, <2>2
    <3> QED
      BY <1>2, <1>9, <3>1 DEF CompilerInv
  <2> QED
    BY <2>1, <2>2
<1>16. CompilerInv(l)
  BY <1>9, <1>12, <1>13, <1>14, <1>15 DEF CompilerInv
<1>17. Current(l) = Current(c)
  <2>1. CurrentId(l) = CurrentId(c) /\ CurrentId(c) \in DOMAIN c.chunks
    BY <1>9, CurrentTyped DEF CurrentId
  <2> QED
    BY <1>10, <2>1 DEF Current
<1>18. Extends(c, l)
  <2>1. CodeSize(l) = CodeSize(c) /\ CodeSize(c) \in Nat
    BY <1>17, CurrentTyped DEF CodeSize
  <2> QED
    BY <1>9, <1>10, <1>16, <1>17, <2>1 DEF Extends, SameCode
<1>19. id \in 2..Len(l.chunks)
  <2>1. 1 \in DOMAIN c.chunks
    BY <1>1, <1>11
  <2> QED
    BY <1>1, <1>3, <1>4, <1>5, <1>9, <2>1 DEF id
<1> QED
  BY <1>17, <1>18, <1>19 DEF Grows, id

LEMMA GrowsEmits ==
  ASSUME NEW c, NEW d, CompilerInv(c), Grows(c, d)
  PROVE  CompilerInv(d) /\ Emits(c, d, 0) /\ (UsesSlots(d) <=> UsesSlots(c))
<1>1. CodeSize(d) = CodeSize(c) /\ CodeSize(c) \in Nat
  BY CurrentTyped DEF Grows, CodeSize
<1>2. Segment(Current(d).code, CodeSize(c), CodeSize(d), 0)
  BY <1>1, SegmentEmpty
<1> QED
  BY <1>2, SlotsStay DEF Grows, Emits, Extends

(* A function is added to the prototypes of the current chunk.             *)
AddProto(c, id) == [c EXCEPT !.chunks[CurrentId(c)].protos = Append(Current(c).protos, id)]

LEMMA ProtoAdded ==
  ASSUME NEW c, CompilerInv(c), NEW id \in 2..Len(c.chunks)
  PROVE  /\ Grows(c, AddProto(c, id)) /\ Len(Current(c).protos) \in Nat
         /\ Len(Current(c).protos) < Len(Current(AddProto(c, id)).protos)
<1> DEFINE protos == Append(Current(c).protos, id)
           chunk  == [Current(c) EXCEPT !.protos = protos]
<1>1. /\ Current(c) \in ChunkState /\ OperandsOK(Current(c), Len(c.chunks))
      /\ c.chunks \in Seq(ChunkState)
  BY CurrentTyped
<1>2. Current(c).protos \in Seq(Nat) /\ id \in Nat /\ Len(Current(c).protos) \in Nat
  <2>1. Current(c).protos \in Seq(Nat)
    BY <1>1 DEF ChunkState
  <2>2. id \in Nat
    BY <1>1
  <2> QED
    BY <2>1, <2>2
<1>3. /\ protos \in Seq(Nat) /\ Len(protos) = Len(Current(c).protos) + 1
      /\ \A k \in DOMAIN protos :
           protos[k] = id \/ (k \in DOMAIN Current(c).protos /\ protos[k] = Current(c).protos[k])
  BY <1>2
<1>4. AddProto(c, id) = Replaced(c, chunk, c.fn_stack)
  BY ProtosReplaced DEF AddProto
<1> HIDE DEF protos
<1>5. /\ chunk \in ChunkState
      /\ chunk.code = Current(c).code /\ chunk.ints = Current(c).ints
      /\ chunk.strings = Current(c).strings /\ chunk.protos = protos
      /\ chunk.params = Current(c).params /\ chunk.num_locals = Current(c).num_locals
  BY <1>1, <1>3, WithProtos
<1> HIDE DEF chunk
<1>6. PoolsGrow(Current(c), chunk)
  <2>1. /\ Len(Current(c).ints) \in Nat /\ Len(Current(c).strings) \in Nat
        /\ Current(c).num_locals \in Nat
    <3>1. Current(c) \in ChunkState
      BY <1>1
    <3> QED
      BY ONLY <3>1 DEF ChunkState
  <2>2. /\ Len(Current(c).ints) <= Len(chunk.ints) /\ Len(Current(c).strings) <= Len(chunk.strings)
        /\ Current(c).num_locals <= chunk.num_locals
    BY <1>5, <2>1
  <2>3. Len(Current(c).protos) <= Len(chunk.protos)
    BY <1>2, <1>3, <1>5
  <2> QED
    BY <2>2, <2>3 DEF PoolsGrow
<1>7. \A k \in DOMAIN chunk.protos : chunk.protos[k] \in 2..Len(c.chunks)
  BY <1>1, <1>3, <1>5 DEF OperandsOK
<1>8. SameContexts(c.fn_stack, c.fn_stack) /\ CurrentOK(c.fn_stack, chunk)
  BY <1>5, ContextOfCurrent DEF CurrentOK, ContextOK
<1>9. /\ Grows(c, Replaced(c, chunk, c.fn_stack))
      /\ Current(Replaced(c, chunk, c.fn_stack)) = chunk
  BY <1>5, <1>6, <1>7, <1>8, Growth, Zenon
<1> QED
  BY <1>2, <1>3, <1>4, <1>5, <1>9

LEMMA FunctionEmits ==
  ASSUME NEW below, NEW trees, Sound(below, trees), NEW c, CompilerInv(c), ~ UsesSlots(c),
         NEW node, TypedTree(node), Len(node.children) >= 2,
         \A k \in 1..(Len(node.children) - 1) : node.children[k] \in NameNodes(trees),
         node.children[Len(node.children)] \in trees.statment
  PROVE  Emits(c, VisitFunctionStatment(below, c, node), 0)
<1> DEFINE params    == [k \in 1..(Len(node.children) - 2) |-> node.children[k + 1].str]
           body      == Last(node.children)
           use_slots == ~ below[body].nested
           id        == Len(c.chunks) + 1
           e         == Entered(c, params, use_slots)
           b         == CompileChild(below, e, body)
           d         == Emit(Emit(b, "PUSH_NULL", 0), "RETURN", 0)
           l         == Left(d)
           p         == AddProto(l, id)
           m         == Emit(p, "MAKE_CLOSURE", Len(Current(l).protos))
           r         == EmitWithString(m, "STORE_LOCAL", node.str)
<1>1. params \in Seq(Text)
  <2>1. Len(node.children) \in Nat
    BY DEF TypedTree
  <2>2. \A k \in 1..(Len(node.children) - 2) : node.children[k + 1].str \in Text
    <3> TAKE k \in 1..(Len(node.children) - 2)
    <3>1. node.children[k + 1] \in NameNodes(trees)
      BY <2>1
    <3> QED
      BY <3>1 DEF NameNodes, Sound, TypedTree, Text
  <2>3. Len(node.children) - 2 \in Nat
    BY <2>1
  <2> QED
    BY <2>2, <2>3
<1>2. body \in trees.statment /\ use_slots \in BOOLEAN
  BY DEF Last
<1>3. VisitFunctionStatment(below, c, node) = r
  BY DEF VisitFunctionStatment, Entered, Left, AddProto, Current
<1> HIDE DEF params
<1>4. /\ CompilerInv(e) /\ CodeSize(e) = 0 /\ (UsesSlots(e) <=> use_slots)
  BY <1>1, <1>2, FunctionEntered
<1> HIDE DEF e
<1>5. Emits(e, b, 0)
  BY <1>2, <1>4 DEF Sound
<1> HIDE DEF b
<1>6. Extends(e, d) /\ BodyOK(Current(d))
  BY <1>4, <1>5, BodyFinished
<1> HIDE DEF d, use_slots
<1>7. Grows(c, l) /\ id \in 2..Len(l.chunks)
  BY <1>1, <1>2, <1>6, FunctionLeft DEF e
<1> HIDE DEF l, id
<1>8. CompilerInv(l) /\ Emits(c, l, 0) /\ ~ UsesSlots(l)
  BY <1>7, GrowsEmits
<1>9. /\ Grows(l, p) /\ Len(Current(l).protos) \in Nat
      /\ Len(Current(l).protos) < Len(Current(p).protos)
  BY <1>7, <1>8, ProtoAdded
<1> HIDE DEF p
<1>10. CompilerInv(p) /\ Emits(l, p, 0) /\ ~ UsesSlots(p)
  BY <1>8, <1>9, GrowsEmits
<1>11. Emits(c, p, 0)
  <2>1. Emits(c, p, 0 + 0)
    BY <1>8, <1>10, EmitsTwice
  <2> QED
    BY <2>1
<1> DEFINE make == [opcode |-> "MAKE_CLOSURE", operand |-> Len(Current(l).protos)]
<1>12. Appends(p, m, make)
  <2>1. InstructionOK(make, Current(p))
    BY <1>9 DEF InstructionOK, SlotOps
  <2>2. "MAKE_CLOSURE" \in Opcodes
    BY DEF Opcodes
  <2> QED
    BY <1>9, <1>10, <2>1, <2>2, EmitAppends
<1>13. make.opcode \notin Jumps /\ Pops(make) = 0 /\ Pushes(make) = 1
  BY DEF Jumps, Pops, Pushes, ConstantOps, ArithmeticOps, ComparisonOps
<1> HIDE DEF m, make
<1>14. Emits(c, m, 0 - Pops(make) + Pushes(make))
  <2>1. 0 \in Nat /\ Pops(make) <= 0
    BY <1>13
  <2> QED
    BY <1>11, <1>12, <1>13, <2>1, EmitsAndAppends, Zenon
<1>15. Emits(c, m, 1)
  BY <1>13, <1>14
<1>16. CompilerInv(m) /\ ~ UsesSlots(m)
  BY <1>15, SlotsStay DEF Emits, Extends
<1> DEFINE store == [opcode |-> "STORE_LOCAL", operand |-> PoolIndex(Current(m).strings, node.str)]
<1>17. Appends(m, r, store)
  BY <1>16, EmitStringAppends DEF StringOps, Text, TypedTree
<1>18. store.opcode \notin Jumps /\ Pops(store) = 1 /\ Pushes(store) = 0
  BY DEF Jumps, Pops, Pushes, ConstantOps, ArithmeticOps, ComparisonOps
<1> HIDE DEF r, store
<1>19. Emits(c, r, 1 - Pops(store) + Pushes(store))
  <2>1. 1 \in Nat /\ Pops(store) <= 1
    BY <1>18
  <2> QED
    BY <1>15, <1>17, <1>18, <2>1, EmitsAndAppends, Zenon
<1> QED
  BY <1>3, <1>18, <1>19

LEMMA StatmentEmits ==
  ASSUME NEW below, NEW trees, Sound(below, trees), NEW c, CompilerInv(c),
         NEW node, TypedTree(node), IsStatment(trees, node),
         UsesSlots(c) => ~ HasNestedFunctions(below, node)
  PROVE  Emits(c, CompileNode(below, c, node), 0)
<1>1. DOMAIN node.children = 1..Len(node.children) /\ Len(node.children) \in Nat
  BY DEF TypedTree
<1>2. UsesSlots(c) => /\ node.class # "FunctionStatment"
                      /\ \A k \in DOMAIN node.children : ~ below[node.children[k]].nested
  BY DEF HasNestedFunctions
<1>3. CASE IsExpression(trees, node)
  <2> DEFINE r == CompileNode(below, c, node)
  <2>1. Emits(c, r, 1)
    BY <1>3, ExpressionEmits
  <2> HIDE DEF r
  <2>2. CodeSize(c) < CodeSize(r) /\ CodeSize(c) \in Nat /\ CodeSize(r) \in Nat
    <3>1. CompilerInv(r) /\ CodeSize(c) <= CodeSize(r) /\ Segment(Current(r).code, CodeSize(c), CodeSize(r), 1)
      BY <2>1 DEF Emits, Extends
    <3>2. CodeSize(c) \in Nat /\ CodeSize(r) \in Nat
      BY <3>1, CurrentTyped
    <3>3. CodeSize(c) # CodeSize(r)
      BY <3>1 DEF Segment, Runs
    <3> QED
      BY <3>1, <3>2, <3>3
  <2>3. Emits(c, r, 0)
    BY <2>1, <2>2, SegmentWeakened DEF Emits
  <2> QED
    BY <2>3 DEF r
<1>4. CASE IsAssigment(trees, node)
  BY <1>4, AssigmentEmits DEF IsAssigment, CompileNode
<1>5. CASE node.class = "Scope" /\ node.children \in Seq(trees.statment)
  <2>1. CompileNode(below, c, node) = CompileAll(below, c, node.children)
    BY <1>5 DEF CompileNode
  <2> QED
    BY <1>2, <1>5, <2>1, StatmentsEmit
<1>6. CASE /\ node.class \in {"PrintStatment", "ReturnStatment"}
           /\ node.children \in Seq(trees.expression) /\ Len(node.children) = 1
  <2>1. PICK opcode \in {"PRINT", "RETURN"} :
          CompileNode(below, c, node) = Emit(CompileAll(below, c, node.children), opcode, 0)
    BY <1>6 DEF CompileNode
  <2>2. Emits(c, Emit(CompileAll(below, c, node.children), opcode, 0),
              IF opcode = "NEG" THEN 1 ELSE 0)
    BY <1>6, UnExprEmits
  <2> QED
    BY <2>1, <2>2
<1>7. CASE /\ node.class = "IfStatment" /\ Len(node.children) \in {2, 3}
           /\ node.children[1] \in trees.expression
           /\ \A k \in 2..Len(node.children) : node.children[k] \in trees.statment
  <2>1. CompileNode(below, c, node) = VisitIfStatment(below, c, node)
    BY <1>7 DEF CompileNode
  <2>2. \A k \in 2..Len(node.children) : UsesSlots(c) => ~ below[node.children[k]].nested
    BY <1>1, <1>2
  <2> QED
    BY <1>7, <2>1, <2>2, IfEmits
<1>8. CASE /\ node.class = "WhileStatment" /\ Len(node.children) = 2
           /\ node.children[1] \in trees.expression /\ node.children[2] \in trees.statment
  <2>1. CompileNode(below, c, node) = VisitWhileStatment(below, c, node)
    BY <1>8 DEF CompileNode
  <2>2. UsesSlots(c) => ~ below[node.children[2]].nested
    BY <1>1, <1>2, <1>8
  <2> QED
    BY <1>8, <2>1, <2>2, WhileEmits
<1>9. CASE /\ node.class = "FunctionStatment" /\ Len(node.children) >= 2
           /\ \A k \in 1..(Len(node.children) - 1) : node.children[k] \in NameNodes(trees)
           /\ node.children[Len(node.children)] \in trees.statment
  <2>1. CompileNode(below, c, node) = VisitFunctionStatment(below, c, node)
    BY <1>9 DEF CompileNode
  <2> QED
    BY <1>2, <1>9, <2>1, FunctionEmits
<1> QED
  BY <1>3, <1>4, <1>5, <1>6, <1>7, <1>8, <1>9 DEF IsStatment

-----------------------------------------------------------------------------
(* Trees of every depth.                                                   *)

(* The recursive functions are what their definitions say.                 *)
LEMMA NodeTreesUnfolded ==
  \A n \in Nat : NodeTrees[n] =
    IF n = 0 THEN {}
    ELSE [class : STRING, str : STRING, int : Int, children : Seq(NodeTrees[n - 1])]
<1> DEFINE Step(x, n) == [class : STRING, str : STRING, int : Int, children : Seq(x)]
           Zero       == {}
           Is(f, S)   == f = [n \in S |-> IF n = 0 THEN Zero ELSE Step(f[n - 1], n)]
           T          == {n \in Nat : \E f : Is(f, 0..n)}
<1>1. NodeTrees = CHOOSE f : Is(f, Nat)
  BY DEF NodeTrees
<1> HIDE DEF Step, Zero
<1>2. 0 \in T
  <2>1. Is([n \in 0..0 |-> Zero], 0..0)
    OBVIOUS
  <2> QED
    BY <2>1
<1>3. ASSUME NEW m \in T PROVE m + 1 \in T
  <2>1. PICK f : Is(f, 0..m)
    OBVIOUS
  <2>2. \A k \in 0..m : f[k] = IF k = 0 THEN Zero ELSE Step(f[k - 1], k)
    BY <2>1
  <2> DEFINE g == [n \in 0..(m + 1) |-> IF n = m + 1 THEN Step(f[m], n) ELSE f[n]]
  <2>3. \A n \in 0..(m + 1) : g[n] = IF n = 0 THEN Zero ELSE Step(g[n - 1], n)
    <3> TAKE n \in 0..(m + 1)
    <3>1. CASE n = m + 1
      <4>1. g[m] = f[m] /\ g[m + 1] = Step(f[m], m + 1)
        OBVIOUS
      <4> HIDE DEF g
      <4> QED
        BY <3>1, <4>1
    <3>2. CASE n # m + 1
      <4>1. n \in 0..m /\ f[n] = IF n = 0 THEN Zero ELSE Step(f[n - 1], n)
        BY <2>2, <3>2
      <4>2. g[n] = f[n] /\ (n # 0 => g[n - 1] = f[n - 1])
        BY <3>2, <4>1
      <4> HIDE DEF g
      <4> QED
        BY <4>1, <4>2
    <3> QED
      BY <3>1, <3>2
  <2>4. g = [n \in 0..(m + 1) |-> g[n]]
    OBVIOUS
  <2> HIDE DEF g
  <2>5. Is(g, 0..(m + 1))
    BY <2>3, <2>4
  <2> HIDE DEF Is
  <2> QED
    BY <2>5
<1>4. ASSUME NEW n \in Nat PROVE \E f : Is(f, 0..n)
  <2> HIDE DEF T
  <2>1. T \in SUBSET Nat
    BY DEF T
  <2>2. T = Nat
    BY <1>2, <1>3, <2>1, EveryNatural
  <2> QED
    BY <2>2 DEF T
<1>5. ASSUME NEW a \in Nat, NEW b \in Nat, NEW f, NEW g, Is(f, 0..a), Is(g, 0..b), NEW n \in Nat,
             n <= a, n <= b
      PROVE  f[n] = g[n]
  <2> DEFINE U == {k \in Nat : k <= a /\ k <= b => f[k] = g[k]}
  <2>1. /\ \A k \in 0..a : f[k] = IF k = 0 THEN Zero ELSE Step(f[k - 1], k)
        /\ \A k \in 0..b : g[k] = IF k = 0 THEN Zero ELSE Step(g[k - 1], k)
    BY <1>5
  <2>2. 0 \in U
    BY <2>1
  <2>3. ASSUME NEW k \in U PROVE k + 1 \in U
    <3> SUFFICES ASSUME k + 1 <= a, k + 1 <= b PROVE f[k + 1] = g[k + 1]
      OBVIOUS
    <3>1. f[k] = g[k]
      OBVIOUS
    <3>2. f[k + 1] = Step(f[k], k + 1) /\ g[k + 1] = Step(g[k], k + 1)
      BY <2>1
    <3> QED
      BY <3>1, <3>2
  <2>4. U = Nat
    <3> HIDE DEF U
    <3>1. U \in SUBSET Nat
      BY DEF U
    <3> QED
      BY <2>2, <2>3, <3>1, EveryNatural
  <2> QED
    BY <1>5, <2>4
<1> DEFINE part(n) == CHOOSE f : Is(f, 0..n)
           whole   == [n \in Nat |-> part(n)[n]]
<1>6. ASSUME NEW n \in Nat PROVE Is(part(n), 0..n)
  BY <1>4
<1> HIDE DEF part
<1>7. ASSUME NEW n \in Nat PROVE whole[n] = IF n = 0 THEN Zero ELSE Step(whole[n - 1], n)
  <2>1. part(n)[n] = IF n = 0 THEN Zero ELSE Step(part(n)[n - 1], n)
    <3>1. \A k \in 0..n : part(n)[k] = IF k = 0 THEN Zero ELSE Step(part(n)[k - 1], k)
      BY <1>6
    <3> QED
      BY <3>1
  <2>2. n # 0 => part(n)[n - 1] = part(n - 1)[n - 1]
    <3> SUFFICES ASSUME n # 0 PROVE part(n)[n - 1] = part(n - 1)[n - 1]
      OBVIOUS
    <3>1. n - 1 \in Nat /\ n - 1 <= n - 1 /\ n - 1 <= n
      OBVIOUS
    <3>2. Is(part(n), 0..n) /\ Is(part(n - 1), 0..(n - 1))
      BY <1>6, <3>1
    <3> HIDE DEF Is
    <3> QED
      BY <1>5, <3>1, <3>2
  <2>3. whole[n] = part(n)[n] /\ (n # 0 => whole[n - 1] = part(n - 1)[n - 1])
    OBVIOUS
  <2> HIDE DEF whole
  <2> QED
    BY <2>1, <2>2, <2>3
<1>8. whole = [n \in Nat |-> whole[n]]
  OBVIOUS
<1> HIDE DEF whole
<1>9. Is(whole, Nat)
  BY <1>7, <1>8
<1>10. Is(NodeTrees, Nat)
  BY <1>1, <1>9
<1>11. \A n \in Nat : NodeTrees[n] = IF n = 0 THEN Zero ELSE Step(NodeTrees[n - 1], n)
  BY <1>10
<1> QED
  BY <1>11 DEF Step, Zero

LEMMA ProgramTreesUnfolded ==
  \A n \in Nat : ProgramTrees[n] =
    IF n = 0 THEN [expression |-> {}, part |-> {}, statment |-> {}]
    ELSE ProgramTreesOver(ProgramTrees[n - 1], NodeTrees[n])
<1> DEFINE Step(x, n) == ProgramTreesOver(x, NodeTrees[n])
           Zero       == [expression |-> {}, part |-> {}, statment |-> {}]
           Is(f, S)   == f = [n \in S |-> IF n = 0 THEN Zero ELSE Step(f[n - 1], n)]
           T          == {n \in Nat : \E f : Is(f, 0..n)}
<1>1. ProgramTrees = CHOOSE f : Is(f, Nat)
  BY DEF ProgramTrees
<1> HIDE DEF Step, Zero
<1>2. 0 \in T
  <2>1. Is([n \in 0..0 |-> Zero], 0..0)
    OBVIOUS
  <2> QED
    BY <2>1
<1>3. ASSUME NEW m \in T PROVE m + 1 \in T
  <2>1. PICK f : Is(f, 0..m)
    OBVIOUS
  <2>2. \A k \in 0..m : f[k] = IF k = 0 THEN Zero ELSE Step(f[k - 1], k)
    BY <2>1
  <2> DEFINE g == [n \in 0..(m + 1) |-> IF n = m + 1 THEN Step(f[m], n) ELSE f[n]]
  <2>3. \A n \in 0..(m + 1) : g[n] = IF n = 0 THEN Zero ELSE Step(g[n - 1], n)
    <3> TAKE n \in 0..(m + 1)
    <3>1. CASE n = m + 1
      <4>1. g[m] = f[m] /\ g[m + 1] = Step(f[m], m + 1)
        OBVIOUS
      <4> HIDE DEF g
      <4> QED
        BY <3>1, <4>1
    <3>2. CASE n # m + 1
      <4>1. n \in 0..m /\ f[n] = IF n = 0 THEN Zero ELSE Step(f[n - 1], n)
        BY <2>2, <3>2
      <4>2. g[n] = f[n] /\ (n # 0 => g[n - 1] = f[n - 1])
        BY <3>2, <4>1
      <4> HIDE DEF g
      <4> QED
        BY <4>1, <4>2
    <3> QED
      BY <3>1, <3>2
  <2>4. g = [n \in 0..(m + 1) |-> g[n]]
    OBVIOUS
  <2> HIDE DEF g
  <2>5. Is(g, 0..(m + 1))
    BY <2>3, <2>4
  <2> HIDE DEF Is
  <2> QED
    BY <2>5
<1>4. ASSUME NEW n \in Nat PROVE \E f : Is(f, 0..n)
  <2> HIDE DEF T
  <2>1. T \in SUBSET Nat
    BY DEF T
  <2>2. T = Nat
    BY <1>2, <1>3, <2>1, EveryNatural
  <2> QED
    BY <2>2 DEF T
<1>5. ASSUME NEW a \in Nat, NEW b \in Nat, NEW f, NEW g, Is(f, 0..a), Is(g, 0..b), NEW n \in Nat,
             n <= a, n <= b
      PROVE  f[n] = g[n]
  <2> DEFINE U == {k \in Nat : k <= a /\ k <= b => f[k] = g[k]}
  <2>1. /\ \A k \in 0..a : f[k] = IF k = 0 THEN Zero ELSE Step(f[k - 1], k)
        /\ \A k \in 0..b : g[k] = IF k = 0 THEN Zero ELSE Step(g[k - 1], k)
    BY <1>5
  <2>2. 0 \in U
    BY <2>1
  <2>3. ASSUME NEW k \in U PROVE k + 1 \in U
    <3> SUFFICES ASSUME k + 1 <= a, k + 1 <= b PROVE f[k + 1] = g[k + 1]
      OBVIOUS
    <3>1. f[k] = g[k]
      OBVIOUS
    <3>2. f[k + 1] = Step(f[k], k + 1) /\ g[k + 1] = Step(g[k], k + 1)
      BY <2>1
    <3> QED
      BY <3>1, <3>2
  <2>4. U = Nat
    <3> HIDE DEF U
    <3>1. U \in SUBSET Nat
      BY DEF U
    <3> QED
      BY <2>2, <2>3, <3>1, EveryNatural
  <2> QED
    BY <1>5, <2>4
<1> DEFINE part(n) == CHOOSE f : Is(f, 0..n)
           whole   == [n \in Nat |-> part(n)[n]]
<1>6. ASSUME NEW n \in Nat PROVE Is(part(n), 0..n)
  BY <1>4
<1> HIDE DEF part
<1>7. ASSUME NEW n \in Nat PROVE whole[n] = IF n = 0 THEN Zero ELSE Step(whole[n - 1], n)
  <2>1. part(n)[n] = IF n = 0 THEN Zero ELSE Step(part(n)[n - 1], n)
    <3>1. \A k \in 0..n : part(n)[k] = IF k = 0 THEN Zero ELSE Step(part(n)[k - 1], k)
      BY <1>6
    <3> QED
      BY <3>1
  <2>2. n # 0 => part(n)[n - 1] = part(n - 1)[n - 1]
    <3> SUFFICES ASSUME n # 0 PROVE part(n)[n - 1] = part(n - 1)[n - 1]
      OBVIOUS
    <3>1. n - 1 \in Nat /\ n - 1 <= n - 1 /\ n - 1 <= n
      OBVIOUS
    <3>2. Is(part(n), 0..n) /\ Is(part(n - 1), 0..(n - 1))
      BY <1>6, <3>1
    <3> HIDE DEF Is
    <3> QED
      BY <1>5, <3>1, <3>2
  <2>3. whole[n] = part(n)[n] /\ (n # 0 => whole[n - 1] = part(n - 1)[n - 1])
    OBVIOUS
  <2> HIDE DEF whole
  <2> QED
    BY <2>1, <2>2, <2>3
<1>8. whole = [n \in Nat |-> whole[n]]
  OBVIOUS
<1> HIDE DEF whole
<1>9. Is(whole, Nat)
  BY <1>7, <1>8
<1>10. Is(ProgramTrees, Nat)
  BY <1>1, <1>9
<1>11. \A n \in Nat : ProgramTrees[n] = IF n = 0 THEN Zero ELSE Step(ProgramTrees[n - 1], n)
  BY <1>10
<1> QED
  BY <1>11 DEF Step, Zero

LEMMA CompiledUnfolded ==
  \A n \in Nat : Compiled[n] =
    IF n = 0 THEN <<>> ELSE Compilations(Compiled[n - 1], NodeTrees[n])
<1> DEFINE Step(x, n) == Compilations(x, NodeTrees[n])
           Zero       == <<>>
           Is(f, S)   == f = [n \in S |-> IF n = 0 THEN Zero ELSE Step(f[n - 1], n)]
           T          == {n \in Nat : \E f : Is(f, 0..n)}
<1>1. Compiled = CHOOSE f : Is(f, Nat)
  BY DEF Compiled
<1> HIDE DEF Step, Zero
<1>2. 0 \in T
  <2>1. Is([n \in 0..0 |-> Zero], 0..0)
    OBVIOUS
  <2> QED
    BY <2>1
<1>3. ASSUME NEW m \in T PROVE m + 1 \in T
  <2>1. PICK f : Is(f, 0..m)
    OBVIOUS
  <2>2. \A k \in 0..m : f[k] = IF k = 0 THEN Zero ELSE Step(f[k - 1], k)
    BY <2>1
  <2> DEFINE g == [n \in 0..(m + 1) |-> IF n = m + 1 THEN Step(f[m], n) ELSE f[n]]
  <2>3. \A n \in 0..(m + 1) : g[n] = IF n = 0 THEN Zero ELSE Step(g[n - 1], n)
    <3> TAKE n \in 0..(m + 1)
    <3>1. CASE n = m + 1
      <4>1. g[m] = f[m] /\ g[m + 1] = Step(f[m], m + 1)
        OBVIOUS
      <4> HIDE DEF g
      <4> QED
        BY <3>1, <4>1
    <3>2. CASE n # m + 1
      <4>1. n \in 0..m /\ f[n] = IF n = 0 THEN Zero ELSE Step(f[n - 1], n)
        BY <2>2, <3>2
      <4>2. g[n] = f[n] /\ (n # 0 => g[n - 1] = f[n - 1])
        BY <3>2, <4>1
      <4> HIDE DEF g
      <4> QED
        BY <4>1, <4>2
    <3> QED
      BY <3>1, <3>2
  <2>4. g = [n \in 0..(m + 1) |-> g[n]]
    OBVIOUS
  <2> HIDE DEF g
  <2>5. Is(g, 0..(m + 1))
    BY <2>3, <2>4
  <2> HIDE DEF Is
  <2> QED
    BY <2>5
<1>4. ASSUME NEW n \in Nat PROVE \E f : Is(f, 0..n)
  <2> HIDE DEF T
  <2>1. T \in SUBSET Nat
    BY DEF T
  <2>2. T = Nat
    BY <1>2, <1>3, <2>1, EveryNatural
  <2> QED
    BY <2>2 DEF T
<1>5. ASSUME NEW a \in Nat, NEW b \in Nat, NEW f, NEW g, Is(f, 0..a), Is(g, 0..b), NEW n \in Nat,
             n <= a, n <= b
      PROVE  f[n] = g[n]
  <2> DEFINE U == {k \in Nat : k <= a /\ k <= b => f[k] = g[k]}
  <2>1. /\ \A k \in 0..a : f[k] = IF k = 0 THEN Zero ELSE Step(f[k - 1], k)
        /\ \A k \in 0..b : g[k] = IF k = 0 THEN Zero ELSE Step(g[k - 1], k)
    BY <1>5
  <2>2. 0 \in U
    BY <2>1
  <2>3. ASSUME NEW k \in U PROVE k + 1 \in U
    <3> SUFFICES ASSUME k + 1 <= a, k + 1 <= b PROVE f[k + 1] = g[k + 1]
      OBVIOUS
    <3>1. f[k] = g[k]
      OBVIOUS
    <3>2. f[k + 1] = Step(f[k], k + 1) /\ g[k + 1] = Step(g[k], k + 1)
      BY <2>1
    <3> QED
      BY <3>1, <3>2
  <2>4. U = Nat
    <3> HIDE DEF U
    <3>1. U \in SUBSET Nat
      BY DEF U
    <3> QED
      BY <2>2, <2>3, <3>1, EveryNatural
  <2> QED
    BY <1>5, <2>4
<1> DEFINE part(n) == CHOOSE f : Is(f, 0..n)
           whole   == [n \in Nat |-> part(n)[n]]
<1>6. ASSUME NEW n \in Nat PROVE Is(part(n), 0..n)
  BY <1>4
<1> HIDE DEF part
<1>7. ASSUME NEW n \in Nat PROVE whole[n] = IF n = 0 THEN Zero ELSE Step(whole[n - 1], n)
  <2>1. part(n)[n] = IF n = 0 THEN Zero ELSE Step(part(n)[n - 1], n)
    <3>1. \A k \in 0..n : part(n)[k] = IF k = 0 THEN Zero ELSE Step(part(n)[k - 1], k)
      BY <1>6
    <3> QED
      BY <3>1
  <2>2. n # 0 => part(n)[n - 1] = part(n - 1)[n - 1]
    <3> SUFFICES ASSUME n # 0 PROVE part(n)[n - 1] = part(n - 1)[n - 1]
      OBVIOUS
    <3>1. n - 1 \in Nat /\ n - 1 <= n - 1 /\ n - 1 <= n
      OBVIOUS
    <3>2. Is(part(n), 0..n) /\ Is(part(n - 1), 0..(n - 1))
      BY <1>6, <3>1
    <3> HIDE DEF Is
    <3> QED
      BY <1>5, <3>1, <3>2
  <2>3. whole[n] = part(n)[n] /\ (n # 0 => whole[n - 1] = part(n - 1)[n - 1])
    OBVIOUS
  <2> HIDE DEF whole
  <2> QED
    BY <2>1, <2>2, <2>3
<1>8. whole = [n \in Nat |-> whole[n]]
  OBVIOUS
<1> HIDE DEF whole
<1>9. Is(whole, Nat)
  BY <1>7, <1>8
<1>10. Is(Compiled, Nat)
  BY <1>1, <1>9
<1>11. \A n \in Nat : Compiled[n] = IF n = 0 THEN Zero ELSE Step(Compiled[n - 1], n)
  BY <1>10
<1> QED
  BY <1>11 DEF Step, Zero

-----------------------------------------------------------------------------
(* What is made of the children makes the tree sound.                      *)

LEMMA ExpressionsHaveNoFunctions ==
  ASSUME NEW below, NEW trees, Sound(below, trees), NEW node, TypedTree(node),
         IsExpression(trees, node)
  PROVE  ~ HasNestedFunctions(below, node)
<1>1. DOMAIN node.children = 1..Len(node.children) /\ Len(node.children) \in Nat
  BY DEF TypedTree
<1>2. /\ \A n \in trees.expression : ~ below[n].nested
      /\ \A n \in trees.part : ~ below[n].nested
  BY DEF Sound
<1>3. node.class # "FunctionStatment"
  BY DEF IsExpression, IsMember
<1>4. ASSUME NEW k \in DOMAIN node.children
      PROVE  node.children[k] \in trees.expression \cup trees.part
  <2>1. CASE node.class \in {"F", "String", "Varible"} /\ node.children = <<>>
    BY <2>1
  <2>2. CASE node.children \in Seq(trees.expression)
    BY <2>2
  <2>3. CASE IsMember(trees, node)
    BY <1>1, <2>3 DEF IsMember, NameNodes
  <2>4. CASE node.children \in Seq(PairNodes(trees))
    BY <2>4 DEF PairNodes
  <2> QED
    BY <2>1, <2>2, <2>3, <2>4 DEF IsExpression
<1>5. \A k \in DOMAIN node.children : ~ below[node.children[k]].nested
  BY <1>2, <1>4
<1> QED
  BY <1>3, <1>5 DEF HasNestedFunctions

LEMMA PartsHaveNoFunctions ==
  ASSUME NEW below, NEW trees, Sound(below, trees), NEW node, IsPart(trees, node)
  PROVE  ~ HasNestedFunctions(below, node)
<1>1. \A n \in trees.expression : ~ below[n].nested
  BY DEF Sound
<1>2. node.class # "FunctionStatment" /\ (node.children = <<>> \/ node.children \in Seq(trees.expression))
  BY DEF IsPart
<1>3. \A k \in DOMAIN node.children : ~ below[node.children[k]].nested
  BY <1>1, <1>2
<1> QED
  BY <1>2, <1>3 DEF HasNestedFunctions

LEMMA SoundOneLevelUp ==
  ASSUME NEW below, NEW trees, Sound(below, trees), NEW nodes, \A n \in nodes : TypedTree(n)
  PROVE  Sound(Compilations(below, nodes), ProgramTreesOver(trees, nodes))
<1> DEFINE up == Compilations(below, nodes)
           ut == ProgramTreesOver(trees, nodes)
<1>1. ASSUME NEW n \in nodes
      PROVE  /\ up[n].nested = HasNestedFunctions(below, n)
             /\ \A c : CompilerInv(c) => CompileChild(up, c, n) = CompileNode(below, c, n)
  BY DEF Compilations, CompileChild, CompilerInv
<1>2. /\ ut.expression = {n \in nodes : IsExpression(trees, n)}
      /\ ut.part = {n \in nodes : IsPart(trees, n)}
      /\ ut.statment = {n \in nodes : IsStatment(trees, n)}
  BY DEF ProgramTreesOver
<1> HIDE DEF up, ut
<1>3. \A n \in ut.expression \cup ut.part \cup ut.statment : TypedTree(n)
  BY <1>2
<1>4. ASSUME NEW n \in ut.expression
      PROVE  /\ ~ up[n].nested
             /\ \A c : CompilerInv(c) => Emits(c, CompileChild(up, c, n), 1)
  <2>1. n \in nodes /\ TypedTree(n) /\ IsExpression(trees, n)
    BY <1>2
  <2>2. ~ HasNestedFunctions(below, n)
    BY <2>1, ExpressionsHaveNoFunctions
  <2>3. ASSUME NEW c, CompilerInv(c) PROVE Emits(c, CompileNode(below, c, n), 1)
    BY <2>1, <2>3, ExpressionEmits
  <2> QED
    BY <1>1, <2>1, <2>2, <2>3
<1>5. ASSUME NEW n \in ut.part PROVE ~ up[n].nested
  <2>1. n \in nodes /\ IsPart(trees, n)
    BY <1>2
  <2> QED
    BY <1>1, <2>1, PartsHaveNoFunctions
<1>6. ASSUME NEW n \in ut.statment, NEW c, CompilerInv(c), UsesSlots(c) => ~ up[n].nested
      PROVE  Emits(c, CompileChild(up, c, n), 0)
  <2>1. n \in nodes /\ TypedTree(n) /\ IsStatment(trees, n)
    BY <1>2
  <2>2. UsesSlots(c) => ~ HasNestedFunctions(below, n)
    BY <1>1, <1>6, <2>1
  <2>3. Emits(c, CompileNode(below, c, n), 0)
    BY <1>6, <2>1, <2>2, StatmentEmits
  <2> QED
    BY <1>1, <1>6, <2>1, <2>3
<1> QED
  BY <1>3, <1>4, <1>5, <1>6 DEF Sound, up, ut

LEMMA SoundAtEveryDepth ==
  \A depth \in Nat : Sound(Compiled[depth], ProgramTrees[depth])
<1> DEFINE T == {d \in Nat : Sound(Compiled[d], ProgramTrees[d])}
<1>1. 0 \in T
  <2>1. ProgramTrees[0] = [expression |-> {}, part |-> {}, statment |-> {}]
    BY ProgramTreesUnfolded
  <2> QED
    BY <2>1 DEF Sound
<1>2. ASSUME NEW d \in T PROVE d + 1 \in T
  <2>1. d + 1 \in Nat /\ d + 1 # 0 /\ (d + 1) - 1 = d
    OBVIOUS
  <2>2. NodeTrees[d + 1] = [class : STRING, str : STRING, int : Int, children : Seq(NodeTrees[d])]
    BY <2>1, NodeTreesUnfolded
  <2>3. /\ ProgramTrees[d + 1] = ProgramTreesOver(ProgramTrees[d], NodeTrees[d + 1])
        /\ Compiled[d + 1] = Compilations(Compiled[d], NodeTrees[d + 1])
    BY <2>1, ProgramTreesUnfolded, CompiledUnfolded
  <2>4. \A n \in NodeTrees[d + 1] : TypedTree(n)
    BY <2>2 DEF TypedTree
  <2>5. Sound(Compilations(Compiled[d], NodeTrees[d + 1]),
              ProgramTreesOver(ProgramTrees[d], NodeTrees[d + 1]))
    BY <2>4, SoundOneLevelUp
  <2> QED
    BY <2>3, <2>5
<1>3. T = Nat
  <2> HIDE DEF T
  <2>1. T \in SUBSET Nat
    BY DEF T
  <2> QED
    BY <1>1, <1>2, <2>1, EveryNatural
<1> QED
  BY <1>3

-----------------------------------------------------------------------------
(* The chunks of a program.                                                *)

LEMMA InitialStateGood ==
  CompilerInv(InitialState) /\ CodeSize(InitialState) = 0 /\ ~ UsesSlots(InitialState)
<1> DEFINE c     == InitialState
           chunk == EmptyChunk(<<>>, 0)
<1>1. c.chunks = <<chunk>> /\ c.chunk_stack = <<1>> /\ c.fn_stack = <<>>
      /\ c = [chunks |-> c.chunks, chunk_stack |-> c.chunk_stack, fn_stack |-> c.fn_stack]
  BY DEF InitialState
<1>2. chunk \in ChunkState /\ chunk.code = <<>> /\ chunk.protos = <<>> /\ chunk.num_locals = 0
  BY DEF EmptyChunk, ChunkState
<1> HIDE DEF chunk, c
<1>3. c \in CompilerState
  <2>1. /\ c.chunks \in Seq(ChunkState) /\ c.chunk_stack \in Seq(Nat)
        /\ c.fn_stack \in Seq(FnContext)
    BY <1>1, <1>2
  <2> QED
    BY <1>1, <2>1 DEF CompilerState
<1>4. StacksOK(c)
  BY <1>1 DEF StacksOK
<1>5. \A k \in DOMAIN c.chunks : c.chunks[k] = chunk /\ k = 1
  BY <1>1
<1>6. OperandsOK(chunk, Len(c.chunks))
  BY <1>2 DEF OperandsOK
<1>7. DOMAIN c.fn_stack = {} /\ c.chunk_stack[1] = 1 /\ 1 \in DOMAIN c.chunk_stack /\ c.chunks[1] = chunk
  BY <1>1
<1>8. CompilerInv(c)
  BY <1>2, <1>3, <1>4, <1>5, <1>6, <1>7 DEF CompilerInv
<1>9. CodeSize(c) = 0 /\ ~ UsesSlots(c)
  BY <1>1, <1>2 DEF CodeSize, Current, CurrentId, UsesSlots, Last
<1> QED
  BY <1>8, <1>9 DEF c

LEMMA ProgramCompiled ==
  ASSUME NEW depth \in Nat, NEW root \in ProgramTrees[depth].statment,
         NEW chunks, chunks = Compile(depth, root)
  PROVE  /\ chunks \in Seq(ChunkState) /\ Len(chunks) \in Nat \ {0}
         /\ \A k \in 1..Len(chunks) :
              /\ OperandsOK(chunks[k], Len(chunks))
              /\ SlotsOK(chunks[k])
              /\ \E d : Certifies(d, chunks[k].code, k = 1)
<1> DEFINE r == CompileChild(Compiled[depth], InitialState, root)
<1>1. Emits(InitialState, r, 0)
  BY InitialStateGood, SoundAtEveryDepth DEF Sound
<1>2. chunks = r.chunks
  BY DEF Compile
<1> HIDE DEF r
<1>3. /\ CompilerInv(r) /\ r.chunk_stack = <<1>>
      /\ Segment(Current(r).code, 0, CodeSize(r), 0)
  BY <1>1, InitialStateGood DEF Emits, Extends, InitialState
<1>4. /\ chunks \in Seq(ChunkState) /\ Current(r) = chunks[1] /\ 1 \in DOMAIN chunks
      /\ CodeSize(r) = Len(chunks[1].code) /\ chunks[1].code \in Seq(Instruction)
  <2>1. /\ r.chunks \in Seq(ChunkState) /\ Current(r) \in ChunkState
        /\ CurrentId(r) = r.chunk_stack[Len(r.chunk_stack)] /\ CurrentId(r) \in DOMAIN r.chunks
        /\ CodeSize(r) = Len(Current(r).code)
    BY <1>3, CurrentTyped
  <2>2. CurrentId(r) = 1
    BY <1>3, <2>1
  <2>3. Current(r).code \in Seq(Instruction)
    BY <2>1 DEF ChunkState
  <2> QED
    BY <1>2, <2>1, <2>2, <2>3 DEF Current
<1>5. ASSUME NEW k \in 1..Len(chunks)
      PROVE  /\ OperandsOK(chunks[k], Len(chunks))
             /\ SlotsOK(chunks[k])
             /\ \E d : Certifies(d, chunks[k].code, k = 1)
  <2>1. k \in DOMAIN r.chunks
    BY <1>2, <1>4
  <2>2. OperandsOK(chunks[k], Len(chunks))
    BY <1>2, <1>3, <2>1 DEF CompilerInv
  <2>3. CASE k = 1
    <3>1. chunks[1].num_locals = 0
      BY <1>2, <1>3 DEF CompilerInv
    <3>2. SlotsOK(chunks[1])
      BY <2>2, <2>3, <3>1 DEF SlotsOK, OperandsOK, InstructionOK
    <3>3. \E d : Certifies(d, chunks[1].code, TRUE)
      BY <1>3, <1>4, ProgramCertified
    <3> QED
      BY <2>2, <2>3, <3>2, <3>3
  <2>4. CASE k # 1
    <3>1. \A i \in DOMAIN r.chunk_stack : r.chunk_stack[i] # k
      BY <1>3, <2>4
    <3>2. BodyOK(chunks[k])
      BY <1>2, <1>3, <2>1, <3>1 DEF CompilerInv
    <3>3. (k = 1) = FALSE
      BY <2>4
    <3> QED
      BY <2>2, <3>2, <3>3 DEF BodyOK
  <2> QED
    BY <2>3, <2>4
<1>6. Len(chunks) \in Nat \ {0}
  BY <1>4
<1> QED
  BY <1>4, <1>5, <1>6

(* Compiler::compile: the operands of every chunk's instructions index     *)
(* what they are meant to index, and functions are other chunks than the   *)
(* top one: the chunks are an image the virtual machine may run, whatever  *)
(* program they are compiled from.                                         *)
THEOREM CompiledImagesAreOK ==
  \A depth \in Nat : \A root \in ProgramTrees[depth].statment : ImageOK(Compile(depth, root))
<1> TAKE depth \in Nat
<1> TAKE root \in ProgramTrees[depth].statment
<1> DEFINE chunks == Compile(depth, root)
<1>1. /\ chunks \in Seq(ChunkState) /\ Len(chunks) \in Nat \ {0}
      /\ \A k \in 1..Len(chunks) : OperandsOK(chunks[k], Len(chunks))
  BY ProgramCompiled
<1> HIDE DEF chunks
<1>2. ASSUME NEW k \in 1..Len(chunks) PROVE ChunkOK(chunks[k], chunks)
  <2> DEFINE chunk == chunks[k]
  <2>1. chunk \in ChunkState /\ OperandsOK(chunk, Len(chunks))
    BY <1>1
  <2> HIDE DEF chunk
  <2>2. /\ chunk.code \in Seq(Instruction) /\ chunk.ints \in Seq(Int) /\ chunk.strings \in Seq(Text)
        /\ chunk.params \in Seq(Text) /\ chunk.protos \in Seq(Nat) /\ chunk.num_locals \in Nat
    BY <2>1 DEF ChunkState
  <2>3. chunk.protos \in Seq(2..Len(chunks))
    <3>1. \A i \in DOMAIN chunk.protos : chunk.protos[i] \in 2..Len(chunks)
      BY <2>1 DEF OperandsOK
    <3> DEFINE protos == chunk.protos
    <3>2. protos \in Seq(Nat)
      BY <2>2
    <3> HIDE DEF protos
    <3>3. protos = [i \in 1..Len(protos) |-> protos[i]] /\ Len(protos) \in Nat
          /\ DOMAIN protos = 1..Len(protos)
      BY <3>2
    <3>4. protos \in [1..Len(protos) -> 2..Len(chunks)]
      BY <3>1, <3>3 DEF protos
    <3>5. protos \in Seq(2..Len(chunks))
      BY <3>3, <3>4
    <3> QED
      BY <3>5 DEF protos
  <2>4. \A a \in DOMAIN chunk.code : InstructionOK(chunk.code[a], chunk)
    BY <2>1 DEF OperandsOK
  <2>5. ChunkOK(chunk, chunks)
    BY <2>2, <2>3, <2>4 DEF ChunkOK, InstructionOK
  <2> QED
    BY <2>5 DEF chunk
<1> QED
  BY <1>1, <1>2 DEF ImageOK, chunks

(* The compiled code of every program finds the operands it pops on every  *)
(* path through it, and every function of it returns before its code runs  *)
(* out.                                                                    *)
THEOREM CompiledCodeIsCertified ==
  \A depth \in Nat : \A root \in ProgramTrees[depth].statment :
    \A k \in 1..Len(Compile(depth, root)) :
      \E d : Certifies(d, Compile(depth, root)[k].code, k = 1)
BY ProgramCompiled

(* Every slot that compiled code names is there; and no function that keeps *)
(* its variables in slots makes a closure or declares a variable in its    *)
(* scope.                                                                  *)
THEOREM CompiledSlotsAreThere ==
  \A depth \in Nat : \A root \in ProgramTrees[depth].statment :
    \A k \in 1..Len(Compile(depth, root)) : SlotsOK(Compile(depth, root)[k])
BY ProgramCompiled

(* What is assumed of the images of the virtual machine (ImageAssumption)  *)
(* and of the certificates of their code (DepthAssumption) holds of every  *)
(* family of compiled programs: the theorems about the virtual machine are *)
(* theorems about all of them.                                             *)
THEOREM CompiledProgramsRun ==
  ASSUME NEW Program, NEW Image,
         \A p \in Program : \E depth \in Nat : \E root \in ProgramTrees[depth].statment :
           Image[p] = Compile(depth, root)
  PROVE  /\ \A p \in Program : ImageOK(Image[p])
         /\ \E Depth : \A p \in Program : \A k \in 1..Len(Image[p]) :
              Certifies(Depth[p][k], Image[p][k].code, k = 1)
<1>1. \A p \in Program : ImageOK(Image[p])
  BY CompiledImagesAreOK
<1> DEFINE Depth == [p \in Program |-> [k \in 1..Len(Image[p]) |->
                       CHOOSE d : Certifies(d, Image[p][k].code, k = 1)]]
<1>2. ASSUME NEW p \in Program, NEW k \in 1..Len(Image[p])
      PROVE  Certifies(Depth[p][k], Image[p][k].code, k = 1)
  <2>1. PICK depth \in Nat : \E root \in ProgramTrees[depth].statment : Image[p] = Compile(depth, root)
    OBVIOUS
  <2>2. \E d : Certifies(d, Image[p][k].code, k = 1)
    BY <2>1, CompiledCodeIsCertified
  <2>3. Depth[p][k] = CHOOSE d : Certifies(d, Image[p][k].code, k = 1)
    OBVIOUS
  <2> HIDE DEF Depth
  <2> QED
    BY <2>2, <2>3
<1> HIDE DEF Depth
<1> QED
  BY <1>1, <1>2
=============================================================================
