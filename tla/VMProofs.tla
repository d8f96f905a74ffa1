------------------------------ MODULE VMProofs ------------------------------
(***************************************************************************)
(* Type correctness of the virtual machine, and the safety properties that *)
(* follow from the same invariant: no value dangles, parent links lead to  *)
(* older scopes, frames nest, RETURN skips the cycle breaker only where it *)
(* has nothing to do, breaking cycles never cuts a chain a running frame   *)
(* depends on, and a scope that dies is not reached from its variables.    *)
(*                                                                         *)
(* After that the discipline of the operand stack, for every image that    *)
(* has a depth certificate (DepthAssumption, which nothing before that     *)
(* section uses).                                                          *)
(***************************************************************************)
EXTENDS VMStack, HeapProofs, TLAPS

World(p) == [functions |-> 2..Len(Image[p]), flagged |-> TRUE]

Frame == [chunk : Nat, ip : Nat, base : Nat, env : Nat, locals : Seq(Json)]

FrameGood(p, h, frame) ==
  /\ frame \in Frame
  /\ frame.chunk \in 1..Len(Image[p])
  /\ frame.env \in 1..Len(h.scopes)
  /\ Vals(World(p), h, frame.locals)

FramesGood(p, h, fs) ==
  /\ fs \in Seq(Frame)
  /\ \A i \in 1..Len(fs) : FrameGood(p, h, fs[i])
  /\ \A i, j \in 1..Len(fs) : i < j => fs[i].env < fs[j].env

StackGood(p, h, s) == s \in Seq(Json) /\ Vals(World(p), h, s)

(* The inductive invariant.  TypeOK is not inductive by itself: that the   *)
(* walks of EnvScope find a scope needs older parents, that the breaker    *)
(* leaves well-formed scopes needs the types of the cells it clears.       *)
Inv ==
  /\ program \in Program
  /\ status \in {"running", "ending"} \cup Final
  /\ status \in {"running", "ending"} => frames # <<>>
  /\ HeapGood(World(program), heap)
  /\ FramesGood(program, heap, frames)
  /\ StackGood(program, heap, stack)
  /\ Val(World(program), heap, result)

-----------------------------------------------------------------------------
(* Stacks.                                                                 *)

LEMMA PushGood ==
  ASSUME NEW p, NEW h, NEW s, StackGood(p, h, s), NEW v, Val(World(p), h, v)
  PROVE  StackGood(p, h, Append(s, v))
<1>1. s \in Seq(Json) /\ v \in Json
  BY DEF StackGood, Val
<1>2. Append(s, v) \in Seq(Json)
  BY <1>1
<1>3. \A k \in DOMAIN Append(s, v) : (k \in DOMAIN s /\ Append(s, v)[k] = s[k]) \/ Append(s, v)[k] = v
  BY <1>1
<1> QED
  BY <1>2, <1>3 DEF StackGood, Vals

(* The part of a stack from place m + 1 to place n.                        *)
LEMMA SliceGood ==
  ASSUME NEW p, NEW h, NEW s, StackGood(p, h, s),
         NEW m \in Nat, NEW n \in Nat, m <= n, n <= Len(s)
  PROVE  StackGood(p, h, SubSeq(s, m + 1, n)) /\ Len(SubSeq(s, m + 1, n)) = n - m
<1>1. s \in Seq(Json) /\ Len(s) \in Nat /\ DOMAIN s = 1..Len(s)
  BY DEF StackGood
<1> DEFINE part == SubSeq(s, m + 1, n)
<1>2. part \in Seq(Json) /\ Len(part) = n - m
  BY <1>1
<1>3. \A k \in 1..(n - m) : part[k] = s[m + k] /\ m + k \in 1..Len(s)
  BY <1>1
<1>4. DOMAIN part = 1..(n - m)
  BY <1>2
<1> HIDE DEF part
<1>5. Vals(World(p), h, part)
  BY <1>1, <1>3, <1>4 DEF StackGood, Vals
<1> QED
  BY <1>2, <1>5 DEF StackGood, part

LEMMA StackKept ==
  ASSUME NEW p, NEW h \in Heap, NEW g \in Heap, Extends(h, g), NEW s, StackGood(p, h, s)
  PROVE  StackGood(p, g, s)
BY ValsKept DEF StackGood

-----------------------------------------------------------------------------
(* Frames.                                                                 *)

LEMMA FramesKept ==
  ASSUME NEW p, NEW h \in Heap, NEW g \in Heap, Extends(h, g), NEW fs, FramesGood(p, h, fs)
  PROVE  FramesGood(p, g, fs)
<1>1. \A i \in 1..Len(fs) : FrameGood(p, g, fs[i])
  <2> SUFFICES ASSUME NEW i \in 1..Len(fs) PROVE FrameGood(p, g, fs[i])
    OBVIOUS
  <2>1. FrameGood(p, h, fs[i])
    BY DEF FramesGood
  <2>2. Vals(World(p), g, fs[i].locals)
    BY <2>1, ValsKept DEF FrameGood
  <2>3. fs[i].env \in 1..Len(g.scopes)
    BY <2>1 DEF FrameGood, Extends, Heap
  <2> QED
    BY <2>1, <2>2, <2>3 DEF FrameGood
<1> QED
  BY <1>1 DEF FramesGood

(* The top frame replaced by one with the same environment.                *)
LEMMA TopReplaced ==
  ASSUME NEW p, NEW h, NEW fs, FramesGood(p, h, fs), fs # <<>>,
         NEW top, FrameGood(p, h, top), top.env = fs[Len(fs)].env
  PROVE  FramesGood(p, h, [fs EXCEPT ![Len(fs)] = top])
<1> DEFINE n == Len(fs)
           gs == [fs EXCEPT ![n] = top]
<1>1. fs \in Seq(Frame) /\ top \in Frame
  BY DEF FramesGood, FrameGood
<1>2. n \in Nat /\ n # 0
  BY <1>1
<1>3. /\ gs \in Seq(Frame)
      /\ Len(gs) = n
      /\ gs[n] = top
      /\ \A i \in 1..n : i # n => gs[i] = fs[i]
  BY <1>1, <1>2
<1> HIDE DEF gs
<1>4. \A i \in 1..n : gs[i].env = fs[i].env
  BY <1>3
<1>5. \A i \in 1..n : FrameGood(p, h, gs[i])
  BY <1>3 DEF FramesGood
<1>6. \A i, j \in 1..n : i < j => gs[i].env < gs[j].env
  BY <1>4 DEF FramesGood
<1> QED
  BY <1>3, <1>5, <1>6 DEF FramesGood, gs

LEMMA IpChanged ==
  ASSUME NEW p, NEW h, NEW fs, FramesGood(p, h, fs), fs # <<>>, NEW ip \in Nat
  PROVE  FramesGood(p, h, [fs EXCEPT ![Len(fs)].ip = ip])
<1> DEFINE old == fs[Len(fs)]
           top == [old EXCEPT !.ip = ip]
<1>1. fs \in Seq(Frame) /\ Len(fs) \in 1..Len(fs)
  BY DEF FramesGood
<1>2. FrameGood(p, h, old)
  BY <1>1 DEF FramesGood
<1>3. /\ top \in Frame
      /\ top.chunk = old.chunk
      /\ top.env = old.env
      /\ top.locals = old.locals
  BY <1>2 DEF FrameGood, Frame
<1>4. [fs EXCEPT ![Len(fs)].ip = ip] = [fs EXCEPT ![Len(fs)] = top]
  OBVIOUS
<1> HIDE DEF top
<1>5. FrameGood(p, h, top)
  BY <1>2, <1>3 DEF FrameGood
<1> QED
  BY <1>3, <1>4, <1>5, TopReplaced

(* A frame with a younger environment than the others on top of them.      *)
LEMMA FramePushed ==
  ASSUME NEW p, NEW h, NEW fs, FramesGood(p, h, fs),
         NEW top, FrameGood(p, h, top), \A i \in 1..Len(fs) : fs[i].env < top.env
  PROVE  FramesGood(p, h, Append(fs, top))
<1> DEFINE gs == Append(fs, top)
<1>1. fs \in Seq(Frame) /\ top \in Frame /\ Len(fs) \in Nat
  BY DEF FramesGood, FrameGood
<1>2. /\ gs \in Seq(Frame)
      /\ Len(gs) = Len(fs) + 1
      /\ gs[Len(fs) + 1] = top
      /\ \A i \in 1..Len(fs) : gs[i] = fs[i]
  BY <1>1
<1> HIDE DEF gs
<1>3. \A i \in 1..Len(gs) : i \in 1..Len(fs) \/ i = Len(fs) + 1
  BY <1>1, <1>2
<1>4. \A i \in 1..Len(gs) : FrameGood(p, h, gs[i])
  BY <1>2, <1>3 DEF FramesGood
<1>5. ASSUME NEW i \in 1..Len(gs), NEW j \in 1..Len(gs), i < j
      PROVE  gs[i].env < gs[j].env
  <2>1. i \in 1..Len(fs)
    BY <1>1, <1>2, <1>5
  <2>2. CASE j \in 1..Len(fs)
    BY <1>2, <1>5, <2>1, <2>2 DEF FramesGood
  <2>3. CASE j = Len(fs) + 1
    BY <1>2, <2>1, <2>3
  <2> QED
    BY <1>3, <2>2, <2>3
<1> QED
  BY <1>2, <1>4, <1>5 DEF FramesGood, gs

LEMMA FramePopped ==
  ASSUME NEW p, NEW h, NEW fs, FramesGood(p, h, fs), fs # <<>>
  PROVE  LET gs == SubSeq(fs, 1, Len(fs) - 1)
         IN  /\ FramesGood(p, h, gs)
             /\ Len(gs) = Len(fs) - 1
             /\ \A i \in 1..Len(gs) : gs[i] = fs[i]
<1> DEFINE n  == Len(fs) - 1
           gs == SubSeq(fs, 1, n)
<1>1. fs \in Seq(Frame) /\ Len(fs) \in Nat /\ Len(fs) # 0
  BY DEF FramesGood
<1>2. fs \in Seq(Frame) /\ Len(fs) \in Nat /\ n \in Nat /\ n <= Len(fs) /\ n = Len(fs) - 1
  BY <1>1
<1> HIDE DEF n
<1>3. /\ gs \in Seq(Frame)
      /\ Len(gs) = Len(fs) - 1
      /\ \A i \in 1..Len(gs) : gs[i] = fs[i]
  BY <1>2
<1> HIDE DEF gs
<1>4. \A i \in 1..Len(gs) : i \in 1..Len(fs)
  BY <1>2, <1>3
<1>5. \A i, j \in 1..Len(gs) : i < j => gs[i].env < gs[j].env
  BY <1>3, <1>4 DEF FramesGood
<1>6. \A i \in 1..Len(gs) : FrameGood(p, h, gs[i])
  BY <1>3, <1>4 DEF FramesGood
<1> QED
  BY <1>3, <1>5, <1>6 DEF FramesGood, gs, n
-----------------------------------------------------------------------------
(* The current instruction and its operands.                               *)

LEMMA ElementIn ==
  ASSUME NEW S, NEW s \in Seq(S), NEW i \in DOMAIN s PROVE s[i] \in S
OBVIOUS

LEMMA TopGood ==
  ASSUME Inv, status \in {"running", "ending"}
  PROVE  /\ frames # <<>> /\ Len(frames) \in 1..Len(frames)
         /\ FrameGood(program, heap, Top)
         /\ ChunkOK(Chunk, Image[program])
<1>1. frames # <<>> /\ frames \in Seq(Frame) /\ program \in Program
  BY DEF Inv, FramesGood
<1>2. Len(frames) \in 1..Len(frames)
  BY <1>1
<1>3. FrameGood(program, heap, Top)
  BY <1>2 DEF Inv, FramesGood, Top
<1>4. ChunkOK(Chunk, Image[program])
  BY <1>1, <1>3, ImageAssumption DEF ImageOK, FrameGood, Chunk
<1> QED
  BY <1>1, <1>2, <1>3, <1>4

LEMMA InstrGood ==
  ASSUME Inv, Fetching
  PROVE  /\ Top.ip \in Nat
         /\ Instr.opcode \in Opcodes
         /\ Instr.operand \in Nat
         /\ Instr.opcode = "PUSH_INT" => Instr.operand < Len(Chunk.ints)
         /\ Instr.opcode \in {"PUSH_STRING", "LOAD", "STORE_LOCAL", "STORE_GLOBAL"} =>
              Instr.operand < Len(Chunk.strings)
         /\ Instr.opcode = "MAKE_CLOSURE" => Instr.operand < Len(Chunk.protos)
<1>1. status = "running" /\ Top.ip < Len(Chunk.code)
  BY DEF Fetching
<1>2. FrameGood(program, heap, Top) /\ ChunkOK(Chunk, Image[program])
  BY <1>1, TopGood
<1>3. Top.ip \in Nat
  BY <1>2 DEF FrameGood, Frame
<1>4. Chunk.code \in Seq(Instruction)
  BY <1>2 DEF ChunkOK
<1>5. Top.ip + 1 \in DOMAIN Chunk.code
  BY <1>1, <1>3, <1>4
<1>6. Instr \in Instruction
  BY <1>4, <1>5, ElementIn DEF Instr
<1>7. Instr.opcode \in Opcodes /\ Instr.operand \in Nat
  BY <1>6 DEF Instruction
<1> QED
  BY <1>2, <1>3, <1>5, <1>7 DEF ChunkOK, Instr

(* The name a variable instruction names.                                  *)
LEMMA NameGood ==
  ASSUME Inv, Fetching, Instr.opcode \in {"LOAD", "STORE_LOCAL", "STORE_GLOBAL"}
  PROVE  Name \in Text
<1>1. Instr.operand \in Nat /\ Instr.operand < Len(Chunk.strings)
  BY InstrGood
<1>2. Chunk.strings \in Seq(Text)
  BY TopGood DEF Fetching, ChunkOK
<1> QED
  BY <1>1, <1>2 DEF Name

LEMMA OperandGood ==
  ASSUME Inv, NEW depth \in Nat, depth < Len(stack)
  PROVE  Val(World(program), heap, Operand(depth)) /\ Operand(depth) \in Json
<1>1. stack \in Seq(Json) /\ Vals(World(program), heap, stack)
  BY DEF Inv, StackGood
<1>2. Len(stack) - depth \in DOMAIN stack
  BY <1>1
<1> QED
  BY <1>1, <1>2 DEF Vals, Operand, Val

LEMMA PoppedGood ==
  ASSUME Inv, NEW n \in Nat, n <= Len(stack)
  PROVE  /\ StackGood(program, heap, Popped(n))
         /\ StackGood(program, heap, Args(n))
         /\ Len(Popped(n)) = Len(stack) - n
         /\ Len(Args(n)) = n
<1>1. stack \in Seq(Json) /\ StackGood(program, heap, stack)
  BY DEF Inv, StackGood
<1> DEFINE m == Len(stack) - n
<1>2. m \in Nat /\ m <= Len(stack) /\ Len(stack) \in Nat /\ 0 \in Nat /\ 0 + 1 = 1
      /\ Len(stack) <= Len(stack) /\ 0 <= m
      /\ m - 0 = Len(stack) - n /\ Len(stack) - m = n
  BY <1>1
<1> HIDE DEF m
<1>3. StackGood(program, heap, SubSeq(stack, 0 + 1, m)) /\ Len(SubSeq(stack, 0 + 1, m)) = m - 0
  BY SMTT(30), <1>1, <1>2, SliceGood
<1>4. StackGood(program, heap, SubSeq(stack, m + 1, Len(stack)))
      /\ Len(SubSeq(stack, m + 1, Len(stack))) = Len(stack) - m
  BY <1>1, <1>2, SliceGood
<1>5. Popped(n) = SubSeq(stack, 0 + 1, m) /\ Args(n) = SubSeq(stack, m + 1, Len(stack))
  BY <1>2 DEF Popped, Args, m
<1> QED
  BY <1>2, <1>3, <1>4, <1>5

-----------------------------------------------------------------------------
(* Values the handlers compute.                                            *)

LEMMA UnaryTyped ==
  ASSUME NEW v \in Json
  PROVE  /\ Negate(v) \in Json /\ Negate(v).type \in {"Int", "Null"}
         /\ Not(v) \in Json /\ Not(v).type \in {"Bool", "Null"}
<1>1. v.n \in Int
  BY DEF Json
<1>2. -v.n \in Int
  BY <1>1
<1>3. Negate(v) \in Json /\ Negate(v).type \in {"Int", "Null"}
  BY <1>2, ScalarTyped DEF Negate
<1> QED
  BY <1>3, BoolTyped, ScalarTyped DEF Not

LEMMA LiteralGood ==
  ASSUME Inv, Executing(ConstantOps)
  PROVE  Val(World(program), heap, Literal)
<1>1. Fetching /\ Instr.opcode \in ConstantOps
  BY DEF Executing
<1>2. Instr.operand \in Nat
  BY <1>1, InstrGood
<1>3. Chunk.ints \in Seq(Int) /\ Chunk.strings \in Seq(Text)
  BY <1>1, TopGood DEF Fetching, ChunkOK
<1>4. CASE Instr.opcode = "PUSH_NULL"
  BY <1>4, NullVal DEF Literal
<1>5. CASE Instr.opcode = "PUSH_BOOL"
  BY <1>5, BoolTyped, ScalarGood DEF Literal
<1>6. CASE Instr.opcode = "PUSH_INT"
  <2>1. Chunk.ints[Instr.operand + 1] \in Int
    BY <1>1, <1>2, <1>3, <1>6, InstrGood
  <2>2. Literal = IntJson(Chunk.ints[Instr.operand + 1])
    BY <1>6 DEF Literal
  <2>3. Literal \in Json /\ Literal.type = "Int"
    BY <2>1, <2>2, ScalarTyped
  <2> QED
    BY <2>3, ScalarGood
<1>7. CASE Instr.opcode = "PUSH_STRING"
  <2>1. Chunk.strings[Instr.operand + 1] \in Text
    BY <1>1, <1>2, <1>3, <1>7, InstrGood
  <2>2. Literal = StringJson(Chunk.strings[Instr.operand + 1])
    BY <1>7 DEF Literal
  <2>3. Literal \in Json /\ Literal.type = "String"
    BY <2>1, <2>2, ScalarTyped
  <2> QED
    BY <2>3, ScalarGood
<1> QED
  BY <1>1, <1>4, <1>5, <1>6, <1>7 DEF ConstantOps
-----------------------------------------------------------------------------
(* The steps that stay in the frame.                                       *)

LEMMA ExtendsItself == ASSUME NEW h \in Heap PROVE Extends(h, h)
<1>1. Len(h.scopes) \in Nat /\ Len(h.arrays) \in Nat /\ Len(h.objects) \in Nat
  BY DEF Heap
<1> QED
  BY <1>1 DEF Extends

LEMMA ContinueGood ==
  ASSUME Inv, Fetching, NEW ip \in Nat, NEW s, Continue(ip, s),
         HeapGood(World(program), heap'), Extends(heap, heap'), StackGood(program, heap', s)
  PROVE  Inv'
<1>1. heap \in Heap /\ heap' \in Heap
  BY DEF Inv, HeapGood
<1>2. /\ program' = program /\ status' = status /\ result' = result /\ stack' = s
      /\ frames' = [frames EXCEPT ![Len(frames)].ip = ip]
  BY DEF Continue
<1>3. FramesGood(program, heap', frames)
  BY <1>1, FramesKept DEF Inv
<1>4. frames # <<>> /\ frames \in Seq(Frame) /\ Len(frames) \in 1..Len(frames)
  BY TopGood DEF Inv, Fetching, FramesGood
<1>5. FramesGood(program, heap', frames')
  BY <1>2, <1>3, <1>4, IpChanged
<1>6. frames' # <<>>
  BY <1>2, <1>4
<1>7. Val(World(program), heap', result)
  BY <1>1, ValKept DEF Inv
<1> QED
  BY <1>2, <1>5, <1>6, <1>7 DEF Inv

LEMMA QuietGood ==
  ASSUME Inv, Fetching, NEW ip \in Nat, NEW s, Continue(ip, s), heap' = heap,
         StackGood(program, heap, s)
  PROVE  Inv'
<1>1. HeapGood(World(program), heap) /\ Extends(heap, heap)
  BY ExtendsItself DEF Inv, HeapGood
<1> QED
  BY <1>1, ContinueGood

LEMMA PushConstantGood == ASSUME Inv, PushConstant PROVE Inv'
<1> DEFINE s == Append(stack, Literal)
<1>1. Executing(ConstantOps) /\ Fetching /\ Continue(Top.ip + 1, s) /\ heap' = heap
  BY DEF PushConstant, Executing, Advance
<1>2. Top.ip + 1 \in Nat
  BY <1>1, InstrGood
<1>3. StackGood(program, heap, s)
  BY <1>1, LiteralGood, PushGood DEF Inv
<1> HIDE DEF s
<1> QED
  BY <1>1, <1>2, <1>3, QuietGood

LEMMA LoadGood == ASSUME Inv, Load PROVE Inv'
<1> DEFINE v == Read(heap.scopes, Top.env, Name)
           scopes == Touch(heap.scopes, Top.env, Name)
           s == Append(stack, v)
<1>1. /\ Fetching /\ Instr.opcode = "LOAD"
      /\ Continue(Top.ip + 1, s)
      /\ heap' = [heap EXCEPT !.scopes = scopes]
  BY DEF Load, Executing, Advance
<1>2. Top.ip + 1 \in Nat /\ Name \in Text
  BY <1>1, InstrGood, NameGood
<1>3. Top.env \in 1..Len(heap.scopes)
  BY <1>1, TopGood DEF Fetching, FrameGood
<1>4. HeapGood(World(program), heap) /\ ScopesGood(World(program), heap, heap.scopes)
      /\ StackGood(program, heap, stack) /\ heap \in Heap
  BY DEF Inv, HeapGood
<1>5. /\ Val(World(program), heap, v)
      /\ ScopesGood(World(program), heap, scopes)
      /\ Len(scopes) = Len(heap.scopes)
  BY <1>2, <1>3, <1>4, ReadGood
<1> HIDE DEF v, scopes
<1>6. HeapGood(World(program), heap') /\ Extends(heap, heap')
  BY <1>1, <1>4, <1>5, NewScopesGood
<1>7. StackGood(program, heap, s)
  BY <1>4, <1>5, PushGood
<1> HIDE DEF s
<1>8. StackGood(program, heap', s)
  BY <1>4, <1>6, <1>7, StackKept DEF HeapGood
<1> QED
  BY <1>1, <1>2, <1>6, <1>8, ContinueGood

LEMMA StoreLocalGood == ASSUME Inv, StoreLocal PROVE Inv'
<1> DEFINE v == Operand(0)
           scopes == WriteLocal(heap.scopes, Top.env, Name, v)
           s == Popped(1)
<1>1. /\ Fetching /\ Instr.opcode = "STORE_LOCAL" /\ Defined
      /\ Continue(Top.ip + 1, s)
      /\ heap' = [heap EXCEPT !.scopes = scopes]
  BY DEF StoreLocal, Executing, Advance
<1>2. Top.ip + 1 \in Nat /\ Name \in Text
  BY <1>1, InstrGood, NameGood
<1>3. Top.env \in 1..Len(heap.scopes)
  BY <1>1, TopGood DEF Fetching, FrameGood
<1>4. HeapGood(World(program), heap) /\ ScopesGood(World(program), heap, heap.scopes)
      /\ stack \in Seq(Json) /\ heap \in Heap
  BY DEF Inv, HeapGood, StackGood
<1>5. Len(stack) >= 1
  BY <1>1 DEF Defined, Pops, ConstantOps, ArithmeticOps, ComparisonOps
<1>6. Val(World(program), heap, v) /\ StackGood(program, heap, s)
  BY <1>4, <1>5, OperandGood, PoppedGood
<1>7. ScopesGood(World(program), heap, scopes) /\ Len(scopes) = Len(heap.scopes)
  BY <1>2, <1>3, <1>4, <1>6, WriteLocalGood
<1> HIDE DEF v, scopes, s
<1>8. HeapGood(World(program), heap') /\ Extends(heap, heap')
  BY <1>1, <1>4, <1>7, NewScopesGood
<1>9. StackGood(program, heap', s)
  BY <1>4, <1>6, <1>8, StackKept DEF HeapGood
<1> QED
  BY <1>1, <1>2, <1>8, <1>9, ContinueGood

LEMMA StoreGlobalGood == ASSUME Inv, StoreGlobal PROVE Inv'
<1> DEFINE v == Operand(0)
           scopes == WriteGlobal(heap.scopes, Top.env, Name, v)
           s == Popped(1)
<1>1. /\ Fetching /\ Instr.opcode = "STORE_GLOBAL" /\ Defined
      /\ Continue(Top.ip + 1, s)
      /\ heap' = [heap EXCEPT !.scopes = scopes]
  BY DEF StoreGlobal, Executing, Advance
<1>2. Top.ip + 1 \in Nat /\ Name \in Text
  BY <1>1, InstrGood, NameGood
<1>3. Top.env \in 1..Len(heap.scopes)
  BY <1>1, TopGood DEF Fetching, FrameGood
<1>4. HeapGood(World(program), heap) /\ ScopesGood(World(program), heap, heap.scopes)
      /\ stack \in Seq(Json) /\ heap \in Heap
  BY DEF Inv, HeapGood, StackGood
<1>5. Len(stack) >= 1
  BY <1>1 DEF Defined, Pops, ConstantOps, ArithmeticOps, ComparisonOps
<1>6. Val(World(program), heap, v) /\ StackGood(program, heap, s)
  BY <1>4, <1>5, OperandGood, PoppedGood
<1>7. ScopesGood(World(program), heap, scopes) /\ Len(scopes) = Len(heap.scopes)
  BY <1>2, <1>3, <1>4, <1>6, WriteGlobalGood
<1> HIDE DEF v, scopes, s
<1>8. HeapGood(World(program), heap') /\ Extends(heap, heap')
  BY <1>1, <1>4, <1>7, NewScopesGood
<1>9. StackGood(program, heap', s)
  BY <1>4, <1>6, <1>8, StackKept DEF HeapGood
<1> QED
  BY <1>1, <1>2, <1>8, <1>9, ContinueGood

LEMMA LoadSlotGood == ASSUME Inv, LoadSlot PROVE Inv'
<1> DEFINE v == Top.locals[Instr.operand + 1]
           s == Append(stack, v)
<1>1. /\ Fetching /\ Instr.opcode = "LOAD_SLOT" /\ Defined
      /\ Continue(Top.ip + 1, s)
      /\ heap' = heap
  BY DEF LoadSlot, Executing, Advance
<1>2. Top.ip + 1 \in Nat /\ Instr.operand \in Nat
  BY <1>1, InstrGood
<1>3. Top.locals \in Seq(Json) /\ Vals(World(program), heap, Top.locals)
  BY <1>1, TopGood DEF Fetching, FrameGood, Frame
<1>4. Instr.operand < Len(Top.locals)
  BY <1>1 DEF Defined, ArithmeticOps
<1>5. Instr.operand + 1 \in DOMAIN Top.locals
  BY <1>2, <1>3, <1>4
<1>6. Val(World(program), heap, v)
  BY <1>3, <1>5 DEF Vals
<1> HIDE DEF v
<1>7. StackGood(program, heap, s)
  BY <1>6, PushGood DEF Inv
<1> HIDE DEF s
<1> QED
  BY <1>1, <1>2, <1>7, QuietGood

LEMMA StoreSlotGood == ASSUME Inv, StoreSlot PROVE Inv'
<1> DEFINE v == Operand(0)
           k == Instr.operand + 1
           top == [Top EXCEPT !.ip = @ + 1, !.locals = [@ EXCEPT ![k] = v]]
<1>1. /\ Fetching /\ Instr.opcode = "STORE_SLOT" /\ Defined
      /\ stack' = Popped(1)
      /\ UNCHANGED <<program, status, heap, output, result>>
  BY DEF StoreSlot, Executing
<1>2. frames' = [frames EXCEPT ![Len(frames)] = top]
  BY DEF StoreSlot, Top
<1>3. /\ Instr.operand \in Nat /\ stack \in Seq(Json)
      /\ Instr.operand < Len(Top.locals)
      /\ Len(stack) >= 1
  BY <1>1, InstrGood DEF Defined, Pops, ConstantOps, ArithmeticOps, ComparisonOps, Inv, StackGood
<1>4. Val(World(program), heap, v) /\ StackGood(program, heap, Popped(1))
  BY <1>3, OperandGood, PoppedGood
<1>5. FrameGood(program, heap, Top) /\ frames # <<>> /\ Len(frames) \in 1..Len(frames)
  BY <1>1, TopGood DEF Fetching
<1>6. k \in 1..Len(Top.locals) /\ v \in Json /\ Top.locals \in Seq(Json)
  BY <1>3, <1>4, <1>5 DEF FrameGood, Frame, Val
<1> HIDE DEF v, k
<1> DEFINE locals == [Top.locals EXCEPT ![k] = v]
<1>7. locals \in Seq(Json) /\ \A i \in DOMAIN locals : i \in DOMAIN Top.locals /\
        (locals[i] = v \/ locals[i] = Top.locals[i])
  BY <1>6
<1> HIDE DEF locals
<1>8. Vals(World(program), heap, locals)
  BY <1>4, <1>5, <1>7 DEF Vals, FrameGood
<1>9. /\ top \in Frame /\ top.chunk = Top.chunk /\ top.env = Top.env /\ top.locals = locals
  <2>1. top = [Top EXCEPT !.ip = Top.ip + 1, !.locals = locals]
    BY DEF locals
  <2>2. Top \in Frame /\ Top.ip + 1 \in Nat
    BY <1>5 DEF FrameGood, Frame
  <2> QED
    BY <1>7, <2>1, <2>2 DEF Frame
<1> HIDE DEF top
<1>10. FrameGood(program, heap, top)
  BY <1>5, <1>8, <1>9 DEF FrameGood
<1>11. FramesGood(program, heap, frames')
  BY <1>2, <1>5, <1>9, <1>10, TopReplaced DEF Inv, Top
<1>12. frames' # <<>>
  BY <1>2, <1>5
<1> QED
  BY <1>1, <1>4, <1>11, <1>12 DEF Inv
LEMMA BinaryArithmeticGood == ASSUME Inv, BinaryArithmetic PROVE Inv'
<1> DEFINE v == Arithmetic(Instr.opcode, Operand(1), Operand(0))
           s == Append(Popped(2), v)
<1>1. /\ Fetching /\ Instr.opcode \in ArithmeticOps /\ Defined
      /\ Continue(Top.ip + 1, s)
      /\ heap' = heap
  BY DEF BinaryArithmetic, Executing, Advance
<1>2. Top.ip + 1 \in Nat
  BY <1>1, InstrGood
<1>3. Len(stack) >= 2 /\ Len(stack) \in Nat
  BY <1>1 DEF Defined, Pops, ConstantOps, ArithmeticOps, ComparisonOps, Inv, StackGood
<1>4. StackGood(program, heap, Popped(2))
  BY <1>3, PoppedGood
<1>5. Operand(0) \in Json /\ Operand(1) \in Json
  BY <1>3, OperandGood
<1>6. Val(World(program), heap, v)
  <2>1. ArithmeticDefined(Instr.opcode, Operand(1), Operand(0))
    BY <1>1 DEF Defined, ArithmeticOps
  <2> QED
    BY <1>1, <1>5, <2>1, ArithmeticTyped, ScalarGood DEF ArithmeticOps
<1> HIDE DEF v
<1>7. StackGood(program, heap, s)
  BY <1>4, <1>6, PushGood
<1> HIDE DEF s
<1> QED
  BY <1>1, <1>2, <1>7, QuietGood

LEMMA ComparisonGood == ASSUME Inv, Comparison PROVE Inv'
<1> DEFINE v == Compare(Instr.opcode, heap.arrays, heap.objects, Operand(1), Operand(0))
           s == Append(Popped(2), v)
<1>1. /\ Fetching /\ Instr.opcode \in ComparisonOps /\ Defined
      /\ Continue(Top.ip + 1, s)
      /\ heap' = heap
  BY DEF Comparison, Executing, Advance
<1>2. Top.ip + 1 \in Nat
  BY <1>1, InstrGood
<1>3. Len(stack) >= 2 /\ Len(stack) \in Nat
  BY <1>1 DEF Defined, Pops, ConstantOps, ArithmeticOps, ComparisonOps, Inv, StackGood
<1>4. StackGood(program, heap, Popped(2))
  BY <1>3, PoppedGood
<1>5. Val(World(program), heap, v)
  BY CompareTyped, ScalarGood
<1> HIDE DEF v
<1>6. StackGood(program, heap, s)
  BY <1>4, <1>5, PushGood
<1> HIDE DEF s
<1> QED
  BY <1>1, <1>2, <1>6, QuietGood

LEMMA UnaryGood == ASSUME Inv, Unary PROVE Inv'
<1> DEFINE v == IF Instr.opcode = "NEG" THEN Negate(Operand(0)) ELSE Not(Operand(0))
           s == Append(Popped(1), v)
<1>1. /\ Fetching /\ Instr.opcode \in {"NEG", "NOT"} /\ Defined
      /\ Continue(Top.ip + 1, s)
      /\ heap' = heap
  BY DEF Unary, Executing, Advance
<1>2. Top.ip + 1 \in Nat
  BY <1>1, InstrGood
<1>3. Len(stack) >= 1 /\ Len(stack) \in Nat
  BY <1>1 DEF Defined, Pops, ConstantOps, ArithmeticOps, ComparisonOps, Inv, StackGood
<1>4. StackGood(program, heap, Popped(1))
  BY <1>3, PoppedGood
<1>5. Operand(0) \in Json
  BY <1>3, OperandGood
<1>6. Val(World(program), heap, v)
  BY <1>5, UnaryTyped, ScalarGood
<1> HIDE DEF v
<1>7. StackGood(program, heap, s)
  BY <1>4, <1>6, PushGood
<1> HIDE DEF s
<1> QED
  BY <1>1, <1>2, <1>7, QuietGood

(* What container[key] gives exists.                                       *)
LEMMA MemberGood ==
  ASSUME NEW container, Val(World(program), heap, container), NEW key \in Json,
         HeapGood(World(program), heap)
  PROVE  Val(World(program), heap, Member(container, key))
<1>1. CASE container.type = "Array" /\ key.n \in 0..(Len(heap.arrays[container.ref]) - 1)
  <2>1. container.ref \in 1..Len(heap.arrays) /\ heap.arrays \in Seq(Seq(Json))
    BY <1>1 DEF Val, HeapGood, Heap
  <2>2. heap.arrays[container.ref] \in Seq(Json)
    BY <2>1
  <2>3. Vals(World(program), heap, heap.arrays[container.ref])
    BY <2>1 DEF HeapGood
  <2>4. key.n + 1 \in DOMAIN heap.arrays[container.ref]
    BY <1>1, <2>2
  <2>5. Member(container, key) = heap.arrays[container.ref][key.n + 1]
    BY <1>1 DEF Member
  <2> QED
    BY <2>3, <2>4, <2>5 DEF Vals
<1>2. CASE container.type = "Object" /\ key.s \in DOMAIN heap.objects[container.ref]
  <2>1. container.ref \in 1..Len(heap.objects)
    BY <1>2 DEF Val
  <2>2. Vals(World(program), heap, heap.objects[container.ref])
    BY <2>1 DEF HeapGood
  <2>3. Member(container, key) = heap.objects[container.ref][key.s]
    BY <1>2 DEF Member
  <2> QED
    BY <1>2, <2>2, <2>3 DEF Vals
<1>3. CASE /\ ~ (container.type = "Array" /\ key.n \in 0..(Len(heap.arrays[container.ref]) - 1))
           /\ ~ (container.type = "Object" /\ key.s \in DOMAIN heap.objects[container.ref])
  <2>1. Member(container, key) = NullJson
    BY <1>3 DEF Member
  <2> QED
    BY <2>1, NullVal
<1> QED
  BY <1>1, <1>2, <1>3

LEMMA GetMemberGood == ASSUME Inv, GetMember PROVE Inv'
<1> DEFINE v == Member(Operand(1), Operand(0))
           s == Append(Popped(2), v)
<1>1. /\ Fetching /\ Instr.opcode \in {"GET_MEMBER"} /\ Defined
      /\ Continue(Top.ip + 1, s)
      /\ heap' = heap
  BY DEF GetMember, Executing, Advance
<1>2. Top.ip + 1 \in Nat
  BY <1>1, InstrGood
<1>3. Len(stack) >= 2 /\ Len(stack) \in Nat
  BY <1>1 DEF Defined, Pops, ConstantOps, ArithmeticOps, ComparisonOps, Inv, StackGood
<1>4. StackGood(program, heap, Popped(2))
  BY <1>3, PoppedGood
<1>5. Val(World(program), heap, Operand(1)) /\ Operand(1) \in Json /\ Operand(0) \in Json
  BY <1>3, OperandGood
<1>6. Val(World(program), heap, v)
  BY <1>5, MemberGood DEF Inv
<1> HIDE DEF v
<1>7. StackGood(program, heap, s)
  BY <1>4, <1>6, PushGood
<1> HIDE DEF s
<1> QED
  BY <1>1, <1>2, <1>7, QuietGood

LEMMA MakeArrayGood == ASSUME Inv, MakeArray PROVE Inv'
<1> DEFINE n == Instr.operand
           v == ArrayJson(Len(heap.arrays) + 1)
           s == Append(Popped(n), v)
<1>1. /\ Fetching /\ Instr.opcode = "MAKE_ARRAY" /\ Defined
      /\ Continue(Top.ip + 1, s)
      /\ heap' = [heap EXCEPT !.arrays = Append(@, Args(n))]
  BY DEF MakeArray, Executing, Advance
<1>2. Top.ip + 1 \in Nat /\ n \in Nat
  BY <1>1, InstrGood
<1>3. Len(stack) >= n /\ Len(stack) \in Nat
  BY <1>1 DEF Defined, Pops, ConstantOps, ArithmeticOps, ComparisonOps, Inv, StackGood
<1> HIDE DEF n
<1>4. StackGood(program, heap, Popped(n)) /\ StackGood(program, heap, Args(n))
  BY <1>2, <1>3, PoppedGood
<1>5. /\ HeapGood(World(program), heap') /\ Extends(heap, heap')
      /\ Len(heap'.arrays) = Len(heap.arrays) + 1
  <2>1. HeapGood(World(program), heap) /\ Args(n) \in Seq(Json) /\ Vals(World(program), heap, Args(n))
    BY <1>4 DEF Inv, StackGood
  <2> QED
    BY <1>1, <2>1, AppendArrayGood
<1>6. heap \in Heap /\ heap' \in Heap /\ Len(heap.arrays) \in Nat
  BY <1>5 DEF Inv, HeapGood, Heap
<1>7. Val(World(program), heap', v)
  <2>1. v \in Json
    BY <1>6 DEF ArrayJson, Json, JsonType, Text
  <2>2. v.type = "Array" /\ v.ref = Len(heap.arrays) + 1 /\ v = ArrayJson(v.ref)
    BY DEF ArrayJson
  <2> HIDE DEF v
  <2> QED
    BY <1>5, <1>6, <2>1, <2>2 DEF Val
<1> HIDE DEF v
<1>8. StackGood(program, heap', s)
  BY <1>4, <1>5, <1>6, <1>7, StackKept, PushGood
<1> HIDE DEF s
<1> QED
  BY <1>1, <1>2, <1>5, <1>8, ContinueGood

LEMMA MakeObjectGood == ASSUME Inv, MakeObject PROVE Inv'
<1> DEFINE n     == Instr.operand
           pairs == Args(2 * n)
           key(i) == pairs[2 * i - 1].s
           keys  == {key(i) : i \in 1..n}
           first == [k \in keys |->
                       CHOOSE i \in 1..n : key(i) = k /\ \A j \in 1..(i - 1) : key(j) # k]
           cell  == [k \in keys |-> pairs[2 * first[k]]]
           v     == ObjectJson(Len(heap.objects) + 1)
           s     == Append(Popped(2 * n), v)
<1>1. /\ Fetching /\ Instr.opcode = "MAKE_OBJECT" /\ Defined
      /\ Continue(Top.ip + 1, s)
  BY DEF MakeObject, Executing, Advance
<1>2. heap' = [heap EXCEPT !.objects = Append(@, cell)]
  BY DEF MakeObject
<1>3. Top.ip + 1 \in Nat /\ n \in Nat
  BY <1>1, InstrGood
<1>4. Len(stack) >= 2 * n /\ Len(stack) \in Nat
  BY <1>1 DEF Defined, Pops, ConstantOps, ArithmeticOps, ComparisonOps, Inv, StackGood
<1> HIDE DEF n
<1>5. /\ StackGood(program, heap, Popped(2 * n))
      /\ StackGood(program, heap, pairs)
      /\ Len(pairs) = 2 * n
  BY <1>3, <1>4, PoppedGood
<1> HIDE DEF pairs
<1>6. pairs \in Seq(Json) /\ Vals(World(program), heap, pairs) /\ DOMAIN pairs = 1..(2 * n)
  BY <1>5 DEF StackGood
<1>7. \A i \in 1..n : 2 * i \in DOMAIN pairs /\ 2 * i - 1 \in DOMAIN pairs
  BY <1>3, <1>6
<1>8. \A k \in keys : first[k] \in 1..n
  <2> SUFFICES ASSUME NEW k \in keys
               PROVE  \E i \in 1..n : key(i) = k /\ \A j \in 1..(i - 1) : key(j) # k
    OBVIOUS
  <2> DEFINE at == {i \in 1..n : key(i) = k}
  <2>1. at \in SUBSET Nat /\ at # {}
    BY <1>3
  <2>2. PICK i \in at : \A j \in at : ~ (j < i)
    BY <2>1, LeastElement
  <2>3. \A j \in 1..(i - 1) : j \in 1..n /\ j < i
    BY <1>3, <2>1, <2>2
  <2> QED
    BY <2>2, <2>3
<1> HIDE DEF first
<1>9. \A k \in keys : Val(World(program), heap, cell[k])
  BY <1>6, <1>7, <1>8 DEF Vals
<1>10. keys \in SUBSET Text
  <2>1. \A i \in 1..n : pairs[2 * i - 1] \in Json
    BY <1>6, <1>7 DEF Vals, Val
  <2> QED
    BY <2>1 DEF Json
<1> HIDE DEF keys
<1>11. cell \in Vars /\ Vals(World(program), heap, cell)
  <2>1. cell \in [keys -> Json] /\ DOMAIN cell = keys
    BY <1>9 DEF Val
  <2> HIDE DEF cell
  <2> QED
    BY <1>9, <1>10, <2>1 DEF Vars, Vals
<1> HIDE DEF cell
<1>12. /\ HeapGood(World(program), heap') /\ Extends(heap, heap')
       /\ Len(heap'.objects) = Len(heap.objects) + 1
  BY <1>2, <1>11, AppendObjectGood DEF Inv
<1>13. heap \in Heap /\ heap' \in Heap /\ Len(heap.objects) \in Nat
  BY <1>12 DEF Inv, HeapGood, Heap
<1>14. Val(World(program), heap', v)
  <2>1. v \in Json
    BY <1>13 DEF ObjectJson, Json, JsonType, Text
  <2>2. v.type = "Object" /\ v.ref = Len(heap.objects) + 1 /\ v = ObjectJson(v.ref)
    BY DEF ObjectJson
  <2> HIDE DEF v
  <2> QED
    BY <1>12, <1>13, <2>1, <2>2 DEF Val
<1> HIDE DEF v
<1>15. StackGood(program, heap', s)
  BY <1>5, <1>12, <1>13, <1>14, StackKept, PushGood
<1> HIDE DEF s
<1> QED
  BY <1>1, <1>3, <1>12, <1>15, ContinueGood
LEMMA StoredElement ==
  ASSUME NEW p, NEW h, NEW array, StackGood(p, h, array), NEW index \in Nat,
         NEW v, Val(World(p), h, v)
  PROVE  StackGood(p, h, StoreElement(array, index, v))
<1> DEFINE n == IF index < Len(array) THEN Len(array) ELSE index + 1
           f == StoreElement(array, index, v)
<1>1. array \in Seq(Json) /\ Vals(World(p), h, array)
  BY DEF StackGood
<1>2. n \in Nat
  BY <1>1
<1>3. \A i \in 1..n : f[i] = v \/ f[i] = NullJson \/ (i \in DOMAIN array /\ f[i] = array[i])
  BY <1>1 DEF StoreElement
<1>4. DOMAIN f = 1..n /\ f = [i \in 1..n |-> f[i]]
  BY DEF StoreElement
<1> HIDE DEF f, n
<1>5. \A i \in 1..n : Val(World(p), h, f[i])
  BY <1>1, <1>3, NullVal DEF Vals
<1>6. f \in [1..n -> Json]
  BY <1>4, <1>5 DEF Val
<1>7. f \in Seq(Json)
  BY <1>2, <1>6, FunctionIsSeq
<1> QED
  BY <1>4, <1>5, <1>7 DEF StackGood, Vals, f

LEMMA StoredField ==
  ASSUME NEW p, NEW h, NEW object \in Vars, Vals(World(p), h, object), NEW key \in Text,
         NEW v, Val(World(p), h, v)
  PROVE  StoreField(object, key, v) \in Vars /\ Vals(World(p), h, StoreField(object, key, v))
<1>1. StoreField(object, key, v) \in Vars
  BY BoundVars DEF StoreField, Val
<1>2. Vals(World(p), h, StoreField(object, key, v))
  BY DEF StoreField, Vals
<1> QED
  BY <1>1, <1>2

LEMMA SetMemberGood == ASSUME Inv, SetMember PROVE Inv'
<1> DEFINE container == Operand(2)
           key       == Operand(1)
           v         == Operand(0)
           s         == Popped(3)
           array     == StoreElement(heap.arrays[container.ref], key.n, v)
           object    == StoreField(heap.objects[container.ref], key.s, v)
<1>1. /\ Fetching /\ Instr.opcode = "SET_MEMBER" /\ Defined
      /\ Continue(Top.ip + 1, s)
      /\ heap' = CASE container.type = "Array" ->
                        [heap EXCEPT !.arrays[container.ref] = array]
                   [] container.type = "Object" ->
                        [heap EXCEPT !.objects[container.ref] = object]
                   [] OTHER -> heap
  BY DEF SetMember, Executing, Advance
<1>2. Top.ip + 1 \in Nat
  BY <1>1, InstrGood
<1>3. Len(stack) >= 3 /\ Len(stack) \in Nat
  BY <1>1 DEF Defined, Pops, ConstantOps, ArithmeticOps, ComparisonOps, Inv, StackGood
<1>4. StackGood(program, heap, s)
  BY <1>3, PoppedGood
<1>5. Val(World(program), heap, container) /\ Val(World(program), heap, v) /\ key \in Json
  BY <1>3, OperandGood
<1>6. container.type = "Array" => key.n >= 0
  BY <1>1 DEF Defined, ArithmeticOps
<1>7. key.n \in Int /\ key.s \in Text
  BY <1>5 DEF Json
<1>8. HeapGood(World(program), heap) /\ heap \in Heap
  BY DEF Inv, HeapGood
<1> HIDE DEF container, key, v
<1>9. HeapGood(World(program), heap') /\ Extends(heap, heap')
  <2>1. CASE container.type = "Array"
    <3>1. container.ref \in 1..Len(heap.arrays) /\ heap.arrays \in Seq(Seq(Json))
      BY <1>5, <1>8, <2>1 DEF Val, Heap
    <3>2. StackGood(program, heap, heap.arrays[container.ref])
      BY <1>8, <3>1 DEF HeapGood, StackGood
    <3>3. key.n \in Nat
      BY <1>6, <1>7, <2>1
    <3>4. StackGood(program, heap, array)
      BY <1>5, <3>2, <3>3, StoredElement
    <3> HIDE DEF array
    <3>5. heap' = [heap EXCEPT !.arrays[container.ref] = array]
      BY <1>1, <2>1
    <3> QED
      BY <1>8, <3>1, <3>4, <3>5, NewArrayGood DEF StackGood
  <2>2. CASE container.type = "Object"
    <3>1. container.ref \in 1..Len(heap.objects) /\ heap.objects \in Seq(Vars)
      BY <1>5, <1>8, <2>2 DEF Val, Heap
    <3>2. heap.objects[container.ref] \in Vars /\ Vals(World(program), heap, heap.objects[container.ref])
      BY <1>8, <3>1 DEF HeapGood
    <3>3. object \in Vars /\ Vals(World(program), heap, object)
      BY <1>5, <1>7, <3>2, StoredField
    <3> HIDE DEF object
    <3>4. heap' = [heap EXCEPT !.objects[container.ref] = object]
      BY <1>1, <2>2
    <3> QED
      BY <1>8, <3>1, <3>3, <3>4, NewObjectGood
  <2>3. CASE container.type \notin {"Array", "Object"}
    <3>1. heap' = heap
      BY <1>1, <2>3
    <3> QED
      BY <1>8, <3>1, ExtendsItself
  <2> QED
    BY <2>1, <2>2, <2>3
<1> HIDE DEF s
<1>10. StackGood(program, heap', s)
  BY <1>4, <1>8, <1>9, StackKept DEF HeapGood
<1> QED
  BY <1>1, <1>2, <1>9, <1>10, ContinueGood

LEMMA JumpGood == ASSUME Inv, Jump PROVE Inv'
<1>1. Fetching /\ Continue(Instr.operand, stack) /\ heap' = heap
  BY DEF Jump, Executing
<1>2. Instr.operand \in Nat /\ StackGood(program, heap, stack)
  BY <1>1, InstrGood DEF Inv
<1> QED
  BY <1>1, <1>2, QuietGood

(* JUMP_IF_FALSE, PRINT and POP take one value off the stack.              *)
LEMMA OnePopped ==
  ASSUME Inv, Fetching, Defined, Instr.opcode \in {"JUMP_IF_FALSE", "PRINT", "POP"},
         NEW ip \in Nat, Continue(ip, Popped(1)), heap' = heap
  PROVE  Inv'
<1>1. Len(stack) >= 1 /\ Len(stack) \in Nat
  BY DEF Defined, Pops, ConstantOps, ArithmeticOps, ComparisonOps, Inv, StackGood
<1>2. StackGood(program, heap, Popped(1))
  BY <1>1, PoppedGood
<1> QED
  BY <1>2, QuietGood

LEMMA JumpIfFalseGood == ASSUME Inv, JumpIfFalse PROVE Inv'
<1> DEFINE ip == IF Falsy(Operand(0)) THEN Instr.operand ELSE Top.ip + 1
<1>1. /\ Fetching /\ Defined /\ Instr.opcode = "JUMP_IF_FALSE"
      /\ Continue(ip, Popped(1)) /\ heap' = heap
  BY DEF JumpIfFalse, Executing
<1>2. ip \in Nat
  BY <1>1, InstrGood
<1> HIDE DEF ip
<1> QED
  BY <1>1, <1>2, OnePopped

LEMMA PrintTopGood == ASSUME Inv, PrintTop PROVE Inv'
<1>1. /\ Fetching /\ Defined /\ Instr.opcode = "PRINT"
      /\ Continue(Top.ip + 1, Popped(1)) /\ heap' = heap
  BY DEF PrintTop, Executing, Advance
<1>2. Top.ip + 1 \in Nat
  BY <1>1, InstrGood
<1> QED
  BY <1>1, <1>2, OnePopped

LEMMA PopGood == ASSUME Inv, Pop PROVE Inv'
<1>1. /\ Fetching /\ Defined /\ Instr.opcode = "POP"
      /\ Continue(Top.ip + 1, Popped(1)) /\ heap' = heap
  BY DEF Pop, Executing, Advance
<1>2. Top.ip + 1 \in Nat
  BY <1>1, InstrGood
<1> QED
  BY <1>1, <1>2, OnePopped

LEMMA MakeClosureGood == ASSUME Inv, MakeClosure PROVE Inv'
<1> DEFINE body == Chunk.protos[Instr.operand + 1]
           v    == FunctionJson(body, Top.env)
           s    == Append(stack, v)
<1>1. /\ Fetching /\ Instr.opcode = "MAKE_CLOSURE"
      /\ Continue(Top.ip + 1, s)
      /\ heap' = heap
  BY DEF MakeClosure, Executing, Advance
<1>2. /\ Top.ip + 1 \in Nat /\ Instr.operand \in Nat
      /\ Instr.operand < Len(Chunk.protos)
  BY <1>1, InstrGood
<1>3. Chunk.protos \in Seq(2..Len(Image[program])) /\ Top.env \in 1..Len(heap.scopes)
  BY <1>1, TopGood DEF Fetching, ChunkOK, FrameGood
<1>4. Instr.operand + 1 \in DOMAIN Chunk.protos
  BY <1>2, <1>3
<1>5. body \in 2..Len(Image[program])
  BY <1>3, <1>4, ElementIn
<1> HIDE DEF body
<1>6. Len(Image[program]) \in Nat /\ Len(heap.scopes) \in Nat
  BY ImageAssumption DEF Inv, ImageOK, HeapGood, Heap
<1>7. v \in Json
  BY <1>3, <1>5, <1>6 DEF FunctionJson, Json, JsonType, Text
<1>8. v.type = "Function" /\ v.n = body /\ v.ref = Top.env
  BY DEF FunctionJson
<1> HIDE DEF v
<1>9. Val(World(program), heap, v)
  BY <1>3, <1>5, <1>6, <1>7, <1>8 DEF Val, World
<1>10. StackGood(program, heap, s)
  BY <1>9, PushGood DEF Inv
<1> HIDE DEF s
<1> QED
  BY <1>1, <1>2, <1>10, QuietGood
-----------------------------------------------------------------------------
(* Entering a function.                                                    *)

(* Every parameter is bound to one of the arguments.                       *)
LEMMA ParamVarsGood ==
  ASSUME NEW p, NEW h, NEW params \in Seq(Text), NEW args, StackGood(p, h, args),
         Len(params) <= Len(args)
  PROVE  /\ ParamVars(params, args) \in Vars
         /\ \A x \in DOMAIN ParamVars(params, args) : \E i \in DOMAIN params :
              /\ ParamVars(params, args)[x] = args[i]
              /\ Val(World(p), h, args[i])
<1> DEFINE n == Len(params)
           last(x) == CHOOSE i \in DOMAIN params :
                        params[i] = x /\ \A j \in (i + 1)..Len(params) : params[j] # x
           keys == Range(params)
           cell == [x \in keys |-> args[last(x)]]
<1>1. n \in Nat /\ DOMAIN params = 1..n /\ args \in Seq(Json) /\ Len(args) \in Nat
  BY DEF StackGood
<1>2. ASSUME NEW x \in keys PROVE last(x) \in DOMAIN params
  <2> DEFINE above == {n - i : i \in {k \in DOMAIN params : params[k] = x}}
  <2>1. above \in SUBSET Nat /\ above # {}
    BY <1>1 DEF Range
  <2>2. PICK m \in above : \A l \in above : ~ (l < m)
    BY <2>1, LeastElement
  <2>3. PICK i \in DOMAIN params : params[i] = x /\ m = n - i
    BY <2>2
  <2>4. \A j \in (i + 1)..n : params[j] # x
    <3> SUFFICES ASSUME NEW j \in (i + 1)..n, params[j] = x PROVE FALSE
      OBVIOUS
    <3>1. j \in DOMAIN params /\ n - j < n - i
      BY <1>1, <2>3
    <3>2. n - j \in above
      BY <3>1
    <3> QED
      BY <2>2, <2>3, <3>1, <3>2
  <2>5. \E k \in DOMAIN params : params[k] = x /\ \A j \in (k + 1)..Len(params) : params[j] # x
    BY <2>3, <2>4
  <2> QED
    BY <2>5
<1>3. \A i \in DOMAIN params : Val(World(p), h, args[i])
  BY <1>1 DEF StackGood, Vals
<1>4. keys \in SUBSET Text
  BY <1>1 DEF Range
<1> HIDE DEF last
<1>5. \A x \in keys : cell[x] = args[last(x)] /\ Val(World(p), h, args[last(x)])
  BY <1>2, <1>3
<1>6. ParamVars(params, args) = cell
  BY DEF ParamVars, last
<1> HIDE DEF keys
<1>7. cell \in [keys -> Json] /\ DOMAIN cell = keys
  BY <1>5 DEF Val
<1>8. cell \in Vars
  BY <1>4, <1>7 DEF Vars
<1> HIDE DEF cell
<1> QED
  BY <1>2, <1>5, <1>6, <1>7, <1>8

LEMMA CalleeScopeGood ==
  ASSUME Inv, NEW fn, Val(World(program), heap, fn), fn.type = "Function",
         NEW args, StackGood(program, heap, args), Len(Params(fn)) <= Len(args),
         Params(fn) \in Seq(Text), NEW slots \in Nat
  PROVE  /\ CalleeScope(fn, args, slots) \in ScopeRecord
         /\ CalleeScope(fn, args, slots).parent \in 0..Len(heap.scopes)
         /\ Vals(World(program), heap, CalleeScope(fn, args, slots).vars)
         /\ Marked(World(program), CalleeScope(fn, args, slots))
<1>1. fn.ref \in 0..Len(heap.scopes) /\ Len(heap.scopes) \in Nat
  BY DEF Val, Inv, HeapGood, Heap
<1>2. fn.ref \in Nat
  BY <1>1
<1>3. CASE slots > 0
  <2> DEFINE none == [x \in {} |-> NullJson]
             new == NewScope(fn.ref)
  <2>1. CalleeScope(fn, args, slots) = new
    BY <1>3 DEF CalleeScope
  <2>2. none \in Vars /\ DOMAIN none = {}
    <3>1. none \in [{} -> Json] /\ {} \in SUBSET Text
      OBVIOUS
    <3> QED
      BY <3>1 DEF Vars
  <2> HIDE DEF none
  <2>3. new = [parent |-> fn.ref, vars |-> none, has_closures |-> FALSE]
    BY DEF NewScope, none
  <2> HIDE DEF new
  <2>4. new \in ScopeRecord /\ new.parent = fn.ref /\ new.vars = none
    BY <1>2, <2>2, <2>3 DEF ScopeRecord
  <2> QED
    BY <1>1, <2>1, <2>2, <2>4 DEF Vals, Marked
<1>4. CASE ~ (slots > 0)
  <2> DEFINE vs == ParamVars(Params(fn), args)
             flag == \E i \in DOMAIN Params(fn) : MightHaveFunction(args[i])
             new == CalleeScope(fn, args, slots)
  <2>1. /\ vs \in Vars
        /\ \A x \in DOMAIN vs : \E i \in DOMAIN Params(fn) :
             vs[x] = args[i] /\ Val(World(program), heap, args[i])
    BY ParamVarsGood
  <2>2. new = [parent |-> fn.ref, vars |-> vs, has_closures |-> flag]
    BY <1>4 DEF CalleeScope
  <2> HIDE DEF vs, new
  <2>3. new \in ScopeRecord /\ new.parent = fn.ref /\ new.vars = vs /\ new.has_closures = flag
    BY <1>2, <2>1, <2>2 DEF ScopeRecord
  <2>4. Vals(World(program), heap, vs)
    BY <2>1 DEF Vals
  <2>5. Marked(World(program), new)
    BY <2>1, <2>3 DEF Marked
  <2> QED
    BY <1>1, <2>3, <2>4, <2>5 DEF new
<1> QED
  BY <1>3, <1>4

LEMMA CalleeLocalsGood ==
  ASSUME NEW p, NEW h, NEW fn, NEW args, StackGood(p, h, args), Len(Params(fn)) <= Len(args),
         Params(fn) \in Seq(Text), NEW slots \in Nat
  PROVE  StackGood(p, h, CalleeLocals(fn, args, slots))
<1> DEFINE f == CalleeLocals(fn, args, slots)
<1>1. args \in Seq(Json) /\ DOMAIN args = 1..Len(args) /\ Len(args) \in Nat
      /\ Len(Params(fn)) \in Nat
  BY DEF StackGood
<1>2. \A i \in 1..slots : (i \in DOMAIN args /\ f[i] = args[i]) \/ f[i] = NullJson
  BY <1>1 DEF CalleeLocals
<1>3. DOMAIN f = 1..slots /\ f = [i \in 1..slots |-> f[i]]
  BY DEF CalleeLocals
<1> HIDE DEF f
<1>4. \A i \in 1..slots : Val(World(p), h, f[i])
  BY <1>2, NullVal DEF StackGood, Vals
<1>5. f \in [1..slots -> Json]
  BY <1>3, <1>4 DEF Val
<1>6. f \in Seq(Json)
  BY <1>5, FunctionIsSeq
<1> QED
  BY <1>3, <1>4, <1>6 DEF StackGood, Vals, f

LEMMA CallGood == ASSUME Inv, Call PROVE Inv'
<1> DEFINE n     == Instr.operand
           fn    == Operand(n)
           slots == Image[program][fn.n].num_locals
           args  == Args(n)
           scope == CalleeScope(fn, args, slots)
           callee == CalleeFrame(fn, n, slots)
           below  == [frames EXCEPT ![Len(frames)].ip = @ + 1]
<1>1. /\ Fetching /\ Instr.opcode = "CALL" /\ Defined
      /\ fn.type = "Function"
      /\ stack' = Popped(n + 1)
      /\ heap' = [heap EXCEPT !.scopes = Append(@, scope)]
      /\ frames' = Append(below, callee)
      /\ UNCHANGED <<program, status, output, result>>
  BY DEF Call, Executing
<1>2. n \in Nat /\ Top.ip + 1 \in Nat
  BY <1>1, InstrGood
<1>3. Len(stack) >= n + 1 /\ Len(stack) \in Nat
  BY <1>1 DEF Defined, Pops, ConstantOps, ArithmeticOps, ComparisonOps, Inv, StackGood
<1>4. n >= Len(Params(fn))
  BY <1>1 DEF Defined, ArithmeticOps
<1> HIDE DEF n
<1>5. /\ StackGood(program, heap, Popped(n + 1))
      /\ StackGood(program, heap, args) /\ Len(args) = n
      /\ Val(World(program), heap, fn)
  BY <1>2, <1>3, PoppedGood, OperandGood
<1>6. /\ fn.n \in 2..Len(Image[program]) /\ Len(Image[program]) \in Nat
      /\ fn.n \in 1..Len(Image[program])
      /\ Params(fn) \in Seq(Text) /\ slots \in Nat
  <2>1. fn.n \in 2..Len(Image[program])
    BY <1>1, <1>5 DEF Val, World
  <2>2. ImageOK(Image[program])
    BY ImageAssumption DEF Inv
  <2>3. Len(Image[program]) \in Nat /\ fn.n \in 1..Len(Image[program])
    BY <2>1, <2>2 DEF ImageOK
  <2>4. ChunkOK(Image[program][fn.n], Image[program])
    BY <2>2, <2>3 DEF ImageOK
  <2> QED
    BY <2>1, <2>3, <2>4 DEF ChunkOK, Params
<1> HIDE DEF fn, args, slots
<1>7. /\ scope \in ScopeRecord /\ scope.parent \in 0..Len(heap.scopes)
      /\ Vals(World(program), heap, scope.vars) /\ Marked(World(program), scope)
  BY <1>1, <1>4, <1>5, <1>6, CalleeScopeGood
<1>8. HeapGood(World(program), heap) /\ heap \in Heap /\ Len(heap.scopes) \in Nat
  BY DEF Inv, HeapGood, Heap
<1> HIDE DEF scope
<1>9. /\ HeapGood(World(program), heap') /\ Extends(heap, heap') /\ heap' \in Heap
      /\ Len(heap'.scopes) = Len(heap.scopes) + 1
  BY <1>1, <1>7, <1>8, AppendScopeGood DEF HeapGood
<1>10. StackGood(program, heap', stack')
  BY <1>1, <1>5, <1>8, <1>9, StackKept
<1>11. /\ frames # <<>> /\ Len(frames) \in 1..Len(frames) /\ frames \in Seq(Frame)
       /\ FramesGood(program, heap, frames)
  BY <1>1, TopGood DEF Fetching, Inv, FramesGood
<1>12. below = [frames EXCEPT ![Len(frames)].ip = Top.ip + 1]
  BY DEF Top
<1> HIDE DEF below
<1>13. FramesGood(program, heap, below)
  BY <1>2, <1>11, <1>12, IpChanged
<1>14. FramesGood(program, heap', below)
  BY <1>8, <1>9, <1>13, FramesKept
<1>15. FrameGood(program, heap', callee) /\ callee.env = Len(heap.scopes) + 1
  <2> DEFINE locals == CalleeLocals(fn, args, slots)
             base == Len(stack) - n - 1
             env == Len(heap.scopes) + 1
  <2>1. StackGood(program, heap, locals)
    BY <1>4, <1>5, <1>6, CalleeLocalsGood
  <2>2. Vals(World(program), heap', locals) /\ locals \in Seq(Json)
    BY <1>8, <1>9, <2>1, StackKept DEF StackGood
  <2>3. base \in Nat /\ env \in 1..Len(heap'.scopes) /\ env \in Nat /\ fn.n \in Nat
    BY <1>2, <1>3, <1>6, <1>8, <1>9
  <2>4. callee = [chunk |-> fn.n, ip |-> 0, base |-> base, env |-> env, locals |-> locals]
    BY DEF CalleeFrame, args
  <2> HIDE DEF locals, base, env, callee
  <2>5. /\ callee \in Frame /\ callee.chunk = fn.n /\ callee.env = env
        /\ callee.locals = locals
    BY <2>2, <2>3, <2>4 DEF Frame
  <2>6. program' = program
    BY <1>1
  <2> QED
    BY <1>6, <2>2, <2>3, <2>5 DEF FrameGood, env
<1>16. \A i \in 1..Len(below) : below[i].env < callee.env
  <2> SUFFICES ASSUME NEW i \in 1..Len(below) PROVE below[i].env < callee.env
    OBVIOUS
  <2>1. below[i].env \in 1..Len(heap.scopes)
    BY <1>13 DEF FramesGood, FrameGood
  <2> QED
    BY <1>8, <1>15, <2>1
<1> HIDE DEF callee
<1>17. FramesGood(program, heap', frames')
  BY <1>1, <1>14, <1>15, <1>16, FramePushed
<1>18. frames' # <<>>
  BY <1>1, <1>13 DEF FramesGood
<1>19. Val(World(program), heap', result)
  BY <1>8, <1>9, ValKept DEF Inv
<1> QED
  BY <1>1, <1>9, <1>10, <1>17, <1>18, <1>19 DEF Inv
-----------------------------------------------------------------------------
(* Leaving a function.                                                     *)

LEMMA DropScopeGood ==
  ASSUME Inv, NEW env \in 1..Len(heap.scopes)
  PROVE  /\ HeapGood(World(program), DropScope(env))
         /\ Extends(heap, DropScope(env))
         /\ Len(DropScope(env).scopes) = Len(heap.scopes)
         /\ \A s \in 1..Len(heap.scopes) :
              \/ DropScope(env).scopes[s].parent = heap.scopes[s].parent
              \/ heap.scopes[s].parent = env
<1>1. HeapGood(World(program), heap) /\ Extends(heap, heap)
  BY ExtendsItself DEF Inv, HeapGood
<1>2. CASE heap.scopes[env].has_closures
  <2>1. DropScope(env) = BreakCycles(heap, env)
    BY <1>2 DEF DropScope
  <2> QED
    BY <1>1, <2>1, BreakCyclesGood
<1>3. CASE ~ heap.scopes[env].has_closures
  BY <1>1, <1>3 DEF DropScope
<1> QED
  BY <1>2, <1>3

LEMMA ResizeGood ==
  ASSUME NEW p, NEW h, NEW s, StackGood(p, h, s), NEW n \in Nat
  PROVE  StackGood(p, h, Resize(s, n))
<1> DEFINE f == Resize(s, n)
<1>1. \A i \in 1..n : (i \in DOMAIN s /\ f[i] = s[i]) \/ f[i] = NullJson
  BY DEF Resize, StackGood
<1>2. DOMAIN f = 1..n /\ f = [i \in 1..n |-> f[i]]
  BY DEF Resize
<1> HIDE DEF f
<1>3. \A i \in 1..n : Val(World(p), h, f[i])
  BY <1>1, NullVal DEF StackGood, Vals
<1>4. f \in [1..n -> Json]
  BY <1>2, <1>3 DEF Val
<1>5. f \in Seq(Json)
  BY <1>4, FunctionIsSeq
<1> QED
  BY <1>2, <1>3, <1>5 DEF StackGood, Vals, f

(* What RETURN and the loop after the code have in common.                 *)
LEMMA FrameDropped ==
  ASSUME Inv, status \in {"running", "ending"},
         program' = program,
         status' \in {"running", "ending"} \cup Final,
         Len(frames) = 1 => status' = "halted",
         heap' = DropScope(Top.env),
         frames' = SubSeq(frames, 1, Len(frames) - 1),
         StackGood(program, heap, stack'), Val(World(program), heap, result')
  PROVE  Inv'
<1>1. FrameGood(program, heap, Top) /\ frames # <<>>
  BY TopGood
<1>2. HeapGood(World(program), heap') /\ Extends(heap, heap') /\ heap \in Heap /\ heap' \in Heap
  BY <1>1, DropScopeGood DEF FrameGood, Inv, HeapGood
<1>3. FramesGood(program, heap, frames') /\ Len(frames') = Len(frames) - 1
  BY <1>1, FramePopped DEF Inv
<1>4. FramesGood(program, heap', frames')
  BY <1>2, <1>3, FramesKept
<1>5. StackGood(program, heap', stack') /\ Val(World(program), heap', result')
  BY <1>2, StackKept, ValKept
<1>6. status' \in {"running", "ending"} => frames' # <<>>
  <2>1. Len(frames) \in Nat /\ (status' \in {"running", "ending"} => Len(frames) # 1)
    BY DEF Inv, FramesGood
  <2>2. frames' = <<>> => Len(frames') = 0
    OBVIOUS
  <2>3. status' \in {"running", "ending"} => Len(frames') # 0
    BY <1>3, <2>1
  <2> QED
    BY <2>2, <2>3
<1> QED
  BY <1>2, <1>4, <1>5, <1>6 DEF Inv

LEMMA ReturnGood == ASSUME Inv, Return PROVE Inv'
<1>1. /\ Fetching /\ Instr.opcode = "RETURN" /\ Defined /\ status = "running"
      /\ heap' = DropScope(Top.env)
      /\ frames' = SubSeq(frames, 1, Len(frames) - 1)
      /\ program' = program
      /\ IF Len(frames) = 1
         THEN /\ status' = "halted"
              /\ result' = Operand(0)
              /\ stack' = Popped(1)
         ELSE stack' = CallerStack /\ status' = status /\ result' = result
  BY DEF Return, Executing, Fetching
<1>2. Len(stack) >= 1 /\ Len(stack) \in Nat
  BY <1>1 DEF Defined, Pops, ConstantOps, ArithmeticOps, ComparisonOps, Inv, StackGood
<1>3. StackGood(program, heap, Popped(1)) /\ Val(World(program), heap, Operand(0))
  BY <1>2, PoppedGood, OperandGood
<1>4. Top.base \in Nat
  BY <1>1, TopGood DEF FrameGood, Frame
<1>5. StackGood(program, heap, CallerStack)
  BY <1>3, <1>4, ResizeGood, PushGood DEF CallerStack
<1>6. StackGood(program, heap, stack') /\ Val(World(program), heap, result')
  BY <1>1, <1>3, <1>5 DEF Inv
<1>7. status' \in {"running", "ending"} \cup Final
  BY <1>1 DEF Final
<1>8. Len(frames) = 1 => status' = "halted"
  BY <1>1
<1>9. status \in {"running", "ending"}
  BY <1>1
<1> QED
  BY <1>1, <1>6, <1>7, <1>8, <1>9, FrameDropped

LEMMA RunOffEndGood == ASSUME Inv, RunOffEnd PROVE Inv'
<1>1. /\ status \in {"running", "ending"}
      /\ heap' = DropScope(Top.env)
      /\ frames' = SubSeq(frames, 1, Len(frames) - 1)
      /\ program' = program
      /\ IF Len(frames) > 1
         THEN status' = "ending" /\ stack' = stack /\ result' = result
         ELSE /\ status' = "halted"
              /\ IF stack = <<>>
                 THEN stack' = stack /\ result' = result
                 ELSE stack' = Popped(1) /\ result' = Operand(0)
  BY DEF RunOffEnd
<1>2. StackGood(program, heap, stack) /\ Val(World(program), heap, result) /\ stack \in Seq(Json)
  BY DEF Inv, StackGood
<1>3. stack # <<>> => StackGood(program, heap, Popped(1)) /\ Val(World(program), heap, Operand(0))
  <2>1. stack # <<>> => 1 <= Len(stack) /\ 0 < Len(stack)
    BY <1>2
  <2> QED
    BY <2>1, PoppedGood, OperandGood
<1>4. StackGood(program, heap, stack') /\ Val(World(program), heap, result')
  BY <1>1, <1>2, <1>3
<1>5. status' \in {"running", "ending"} \cup Final
  BY <1>1 DEF Final
<1>6. Len(frames) = 1 => status' = "halted"
  BY <1>1
<1> QED
  BY <1>1, <1>4, <1>5, <1>6, FrameDropped

LEMMA CallThrowsGood == ASSUME Inv, CallThrows PROVE Inv'
<1>1. /\ status' = "thrown" /\ stack' = <<>> /\ frames' = <<>>
      /\ UNCHANGED <<program, heap, result>>
  BY DEF CallThrows
<1>2. FramesGood(program, heap, <<>>) /\ StackGood(program, heap, <<>>)
  BY DEF FramesGood, StackGood, Vals
<1> QED
  BY <1>1, <1>2 DEF Inv, Final

LEMMA UndefinedGood == ASSUME Inv, Undefined PROVE Inv'
<1>1. status' = "undefined" /\ UNCHANGED <<program, stack, frames, heap, result>>
  BY DEF Undefined
<1> QED
  BY <1>1 DEF Inv, Final

-----------------------------------------------------------------------------
(* The invariant.                                                          *)

LEMMA InitGood == ASSUME Init PROVE Inv
<1> DEFINE scope == NewScope(0)
           none == [x \in {} |-> NullJson]
           frame == [chunk |-> 1, ip |-> 0, base |-> 0, env |-> 1, locals |-> <<>>]
<1>1. /\ program \in Program /\ status = "running" /\ stack = <<>>
      /\ frames = <<frame>>
      /\ heap = [scopes |-> <<scope>>, arrays |-> <<>>, objects |-> <<>>]
      /\ result = NullJson
  BY DEF Init
<1>2. scope \in ScopeRecord /\ scope.parent = 0 /\ DOMAIN scope.vars = {}
  <2>1. none \in Vars /\ DOMAIN none = {}
    <3>1. none \in [{} -> Json] /\ {} \in SUBSET Text
      OBVIOUS
    <3> QED
      BY <3>1 DEF Vars
  <2> HIDE DEF none
  <2>2. scope = [parent |-> 0, vars |-> none, has_closures |-> FALSE]
    BY DEF NewScope, none
  <2> HIDE DEF scope
  <2> QED
    BY <2>1, <2>2 DEF ScopeRecord
<1> HIDE DEF scope
<1>3. /\ heap.scopes = <<scope>> /\ heap.arrays = <<>> /\ heap.objects = <<>>
      /\ heap \in Heap
  <2>1. <<scope>> \in Seq(ScopeRecord) /\ <<>> \in Seq(Seq(Json)) /\ <<>> \in Seq(Vars)
    BY <1>2
  <2> QED
    BY <1>1, <2>1 DEF Heap
<1>4. HeapGood(World(program), heap)
  <2>1. OlderParents(<<scope>>)
    BY <1>2 DEF OlderParents
  <2>2. Vals(World(program), heap, scope.vars) /\ Marked(World(program), scope)
    BY <1>2 DEF Vals, Marked
  <2>3. ScopesGood(World(program), heap, <<scope>>)
    BY <1>2, <2>1, <2>2 DEF ScopesGood
  <2> QED
    BY <1>3, <2>3 DEF HeapGood
<1>5. FrameGood(program, heap, frame)
  <2>1. frame \in Frame
    BY DEF Frame
  <2>2. 1 \in 1..Len(Image[program])
    BY <1>1, ImageAssumption DEF ImageOK
  <2>3. 1 \in 1..Len(heap.scopes)
    BY <1>3
  <2> QED
    BY <2>1, <2>2, <2>3 DEF FrameGood, Vals
<1>6. FramesGood(program, heap, frames)
  <2>1. frame \in Frame
    BY <1>5 DEF FrameGood
  <2> HIDE DEF frame
  <2>2. frames \in Seq(Frame) /\ Len(frames) = 1 /\ frames[1] = frame
    BY <1>1, <2>1
  <2> QED
    BY <1>5, <2>2 DEF FramesGood
<1>7. StackGood(program, heap, stack) /\ frames # <<>>
  BY <1>1 DEF StackGood, Vals
<1> QED
  BY <1>1, <1>4, <1>6, <1>7, NullVal DEF Inv

LEMMA NextGood == ASSUME Inv, [Next]_vars PROVE Inv'
<1>1. CASE PushConstant
  BY <1>1, PushConstantGood
<1>2. CASE Load
  BY <1>2, LoadGood
<1>3. CASE StoreLocal
  BY <1>3, StoreLocalGood
<1>4. CASE StoreGlobal
  BY <1>4, StoreGlobalGood
<1>5. CASE LoadSlot
  BY <1>5, LoadSlotGood
<1>6. CASE StoreSlot
  BY <1>6, StoreSlotGood
<1>7. CASE BinaryArithmetic
  BY <1>7, BinaryArithmeticGood
<1>8. CASE Comparison
  BY <1>8, ComparisonGood
<1>9. CASE Unary
  BY <1>9, UnaryGood
<1>10. CASE MakeArray
  BY <1>10, MakeArrayGood
<1>11. CASE MakeObject
  BY <1>11, MakeObjectGood
<1>12. CASE GetMember
  BY <1>12, GetMemberGood
<1>13. CASE SetMember
  BY <1>13, SetMemberGood
<1>14. CASE Jump
  BY <1>14, JumpGood
<1>15. CASE JumpIfFalse
  BY <1>15, JumpIfFalseGood
<1>16. CASE PrintTop
  BY <1>16, PrintTopGood
<1>17. CASE Pop
  BY <1>17, PopGood
<1>18. CASE MakeClosure
  BY <1>18, MakeClosureGood
<1>19. CASE Call
  BY <1>19, CallGood
<1>20. CASE CallThrows
  BY <1>20, CallThrowsGood
<1>21. CASE Return
  BY <1>21, ReturnGood
<1>22. CASE RunOffEnd
  BY <1>22, RunOffEndGood
<1>23. CASE Undefined
  BY <1>23, UndefinedGood
<1>24. CASE UNCHANGED vars
  BY <1>24 DEF Inv, vars
<1> QED
  BY <1>1, <1>2, <1>3, <1>4, <1>5, <1>6, <1>7, <1>8, <1>9, <1>10, <1>11, <1>12, <1>13,
     <1>14, <1>15, <1>16, <1>17, <1>18, <1>19, <1>20, <1>21, <1>22, <1>23, <1>24
     DEF Next, Execute, Finished

(* The invariant holds in every state of every run.                        *)
THEOREM Invariance == Spec => []Inv
<1>1. Init => Inv
  BY InitGood
<1>2. Inv /\ [Next]_vars => Inv'
  BY NextGood
<1> QED
  BY <1>1, <1>2, PTL DEF Spec

(* No value a program can get at dangles: for every image whose operands   *)
(* index what they are meant to index, every function, array, object and   *)
(* environment that the stack, the frames and the heap refer to exists.    *)
THEOREM TypeCorrectness == Spec => []TypeOK
<1>1. Inv => TypeOK
  <2> SUFFICES ASSUME Inv PROVE TypeOK
    OBVIOUS
  <2>1. /\ HeapGood(World(program), heap) /\ heap \in Heap
        /\ FramesGood(program, heap, frames) /\ StackGood(program, heap, stack)
        /\ Val(World(program), heap, result)
    BY DEF Inv, HeapGood
  <2>2. \A v : Val(World(program), heap, v) => ValueOK(v)
    BY DEF Val, ValueOK, World
  <2>3. \A f : Vals(World(program), heap, f) => FunctionOK(f)
    BY <2>2 DEF Vals, FunctionOK
  <2>4. FunctionOK(stack) /\ ValueOK(result)
    BY <2>1, <2>2, <2>3 DEF StackGood
  <2>5. \A i \in DOMAIN frames : FrameOK(frames[i])
    <3> SUFFICES ASSUME NEW i \in DOMAIN frames PROVE FrameOK(frames[i])
      OBVIOUS
    <3>1. FrameGood(program, heap, frames[i])
      BY <2>1 DEF FramesGood
    <3>2. frames[i].ip \in Nat /\ frames[i].base \in Nat
      BY <3>1 DEF FrameGood, Frame
    <3> QED
      BY <2>3, <3>1, <3>2 DEF FrameGood, FrameOK
  <2>6. \A s \in DOMAIN heap.scopes : ScopeOK(heap.scopes[s])
    <3> SUFFICES ASSUME NEW s \in DOMAIN heap.scopes PROVE ScopeOK(heap.scopes[s])
      OBVIOUS
    <3>1. /\ heap.scopes \in Seq(ScopeRecord) /\ OlderParents(heap.scopes)
          /\ s \in 1..Len(heap.scopes)
          /\ Vals(World(program), heap, heap.scopes[s].vars)
      BY <2>1 DEF HeapGood, ScopesGood, Heap
    <3>2. heap.scopes[s].parent \in 0..(s - 1)
      BY <3>1, ParentsKnown
    <3>3. heap.scopes[s].has_closures \in BOOLEAN /\ heap.scopes[s].vars \in Vars
      <4>1. heap.scopes[s] \in ScopeRecord
        BY <3>1, ElementIn
      <4> QED
        BY <4>1 DEF ScopeRecord
    <3>4. DOMAIN heap.scopes[s].vars \in SUBSET Text
      BY <3>3 DEF Vars
    <3> QED
      BY <2>3, <3>1, <3>2, <3>3, <3>4 DEF ScopeOK
  <2>7. \A c \in DOMAIN heap.arrays : FunctionOK(heap.arrays[c])
    BY <2>1, <2>3 DEF HeapGood, Heap
  <2>8. \A c \in DOMAIN heap.objects :
          DOMAIN heap.objects[c] \in SUBSET Text /\ FunctionOK(heap.objects[c])
    <3> SUFFICES ASSUME NEW c \in DOMAIN heap.objects
                 PROVE  DOMAIN heap.objects[c] \in SUBSET Text /\ FunctionOK(heap.objects[c])
      OBVIOUS
    <3>1. c \in 1..Len(heap.objects) /\ heap.objects[c] \in Vars
      BY <2>1 DEF Heap
    <3>2. DOMAIN heap.objects[c] \in SUBSET Text
      BY <3>1 DEF Vars
    <3> QED
      BY <2>1, <2>3, <3>1, <3>2 DEF HeapGood
  <2> QED
    BY <2>4, <2>5, <2>6, <2>7, <2>8 DEF Inv, TypeOK
<1> QED
  BY <1>1, Invariance, PTL

(* A parent link leads to an older scope: the walks of EnvScope and of     *)
(* severParentChainCycle end.                                              *)
THEOREM ParentsAreOlder == Spec => []ParentsOlder
<1>1. Inv => ParentsOlder
  BY DEF Inv, HeapGood, ScopesGood, Heap, OlderParents, ParentsOlder
<1> QED
  BY <1>1, Invariance, PTL

(* Where RETURN skips the cycle breaker, the breaker had nothing to do.    *)
THEOREM FlagIsSound == Spec => []FlagSound
<1>1. Inv => FlagSound
  <2> SUFFICES ASSUME Inv, NEW s \in DOMAIN heap.scopes PROVE Marked(World(program), heap.scopes[s])
    BY DEF FlagSound, Marked, World
  <2>1. s \in 1..Len(heap.scopes)
    BY DEF Inv, HeapGood, Heap
  <2> QED
    BY <2>1 DEF Inv, HeapGood, ScopesGood
<1> QED
  BY <1>1, Invariance, PTL

(* A callee's scope is younger than its callers' scopes.                   *)
THEOREM ScopesAreNested == Spec => []ScopesNested
<1>1. Inv => ScopesNested
  BY DEF Inv, FramesGood, ScopesNested
<1> QED
  BY <1>1, Invariance, PTL
-----------------------------------------------------------------------------
(* The chains of the running frames.                                       *)

(* No handler but those that drop a frame changes a parent link, and none  *)
(* takes a scope away.                                                     *)
ParentsKept ==
  /\ Len(heap'.scopes) >= Len(heap.scopes)
  /\ \A s \in 1..Len(heap.scopes) : heap'.scopes[s].parent = heap.scopes[s].parent

LEMMA AccessKeepsParents ==
  ASSUME Inv, Load \/ StoreLocal \/ StoreGlobal
  PROVE  ParentsKept
<1>1. Fetching /\ Instr.opcode \in {"LOAD", "STORE_LOCAL", "STORE_GLOBAL"} /\ Defined
  BY DEF Load, StoreLocal, StoreGlobal, Executing
<1>2. Name \in Text /\ Top.env \in 1..Len(heap.scopes)
  BY <1>1, NameGood, TopGood DEF Fetching, FrameGood
<1>3. ScopesGood(World(program), heap, heap.scopes) /\ heap \in Heap /\ Len(heap.scopes) \in Nat
  BY DEF Inv, HeapGood, Heap
<1>4. CASE Load
  <2> DEFINE new == Touch(heap.scopes, Top.env, Name)
  <2>1. heap' = [heap EXCEPT !.scopes = new]
    BY <1>4 DEF Load
  <2>2. /\ Len(new) = Len(heap.scopes)
        /\ \A t \in 1..Len(heap.scopes) : new[t].parent = heap.scopes[t].parent
    BY <1>2, <1>3, ReadGood
  <2> HIDE DEF new
  <2>3. heap'.scopes = new
    BY <1>3, <2>1 DEF Heap
  <2> QED
    BY <1>3, <2>2, <2>3 DEF ParentsKept
<1>5. StoreLocal \/ StoreGlobal => Val(World(program), heap, Operand(0))
  <2> SUFFICES ASSUME StoreLocal \/ StoreGlobal PROVE Val(World(program), heap, Operand(0))
    OBVIOUS
  <2>1. Instr.opcode \in {"STORE_LOCAL", "STORE_GLOBAL"}
    BY DEF StoreLocal, StoreGlobal, Executing
  <2>2. Len(stack) >= 1 /\ Len(stack) \in Nat
    BY <1>1, <2>1 DEF Defined, Pops, ConstantOps, ArithmeticOps, ComparisonOps, Inv, StackGood
  <2> QED
    BY <2>2, OperandGood
<1>6. CASE StoreLocal
  <2> DEFINE new == WriteLocal(heap.scopes, Top.env, Name, Operand(0))
  <2>1. heap' = [heap EXCEPT !.scopes = new]
    BY <1>6 DEF StoreLocal
  <2>2. /\ Len(new) = Len(heap.scopes)
        /\ \A t \in 1..Len(heap.scopes) : new[t].parent = heap.scopes[t].parent
    BY <1>2, <1>3, <1>5, <1>6, WriteLocalGood
  <2> HIDE DEF new
  <2>3. heap'.scopes = new
    BY <1>3, <2>1 DEF Heap
  <2> QED
    BY <1>3, <2>2, <2>3 DEF ParentsKept
<1>7. CASE StoreGlobal
  <2> DEFINE new == WriteGlobal(heap.scopes, Top.env, Name, Operand(0))
  <2>1. heap' = [heap EXCEPT !.scopes = new]
    BY <1>7 DEF StoreGlobal
  <2>2. /\ Len(new) = Len(heap.scopes)
        /\ \A t \in 1..Len(heap.scopes) : new[t].parent = heap.scopes[t].parent
    BY <1>2, <1>3, <1>5, <1>7, WriteGlobalGood
  <2> HIDE DEF new
  <2>3. heap'.scopes = new
    BY <1>3, <2>1 DEF Heap
  <2> QED
    BY <1>3, <2>2, <2>3 DEF ParentsKept
<1> QED
  BY <1>4, <1>6, <1>7

LEMMA OthersKeepParents ==
  ASSUME Inv, [Next]_vars, ~ Load, ~ StoreLocal, ~ StoreGlobal, ~ Return, ~ RunOffEnd
  PROVE  ParentsKept
<1>1. heap \in Heap /\ heap.scopes \in Seq(ScopeRecord) /\ Len(heap.scopes) \in Nat
  BY DEF Inv, HeapGood, Heap
<1>2. CASE MakeArray \/ MakeObject \/ SetMember
  <2>1. heap'.scopes = heap.scopes
    BY <1>1, <1>2 DEF MakeArray, MakeObject, SetMember, Heap
  <2> QED
    BY <1>1, <2>1 DEF ParentsKept
<1>3. CASE Call
  <2>1. PICK scope : heap' = [heap EXCEPT !.scopes = Append(@, scope)]
    BY <1>3 DEF Call
  <2> DEFINE longer == Append(heap.scopes, scope)
  <2>2. /\ Len(longer) = Len(heap.scopes) + 1
        /\ \A s \in 1..Len(heap.scopes) : longer[s] = heap.scopes[s]
    BY <1>1
  <2> HIDE DEF longer
  <2>3. heap'.scopes = longer
    BY <1>1, <2>1 DEF Heap, longer
  <2> QED
    BY <1>1, <2>2, <2>3 DEF ParentsKept
<1>4. CASE heap' = heap
  BY <1>1, <1>4 DEF ParentsKept
<1>5. heap' = heap \/ MakeArray \/ MakeObject \/ SetMember \/ Call
  BY DEF Next, Execute, Finished, vars, PushConstant, LoadSlot, StoreSlot, BinaryArithmetic,
     Comparison, Unary, GetMember, Jump, JumpIfFalse, PrintTop, Pop, MakeClosure, CallThrows,
     Undefined
<1> QED
  BY <1>2, <1>3, <1>4, <1>5

(* A parent link that is cut when the top frame goes away led to its       *)
(* scope, which is younger than the scopes of the other frames and so on   *)
(* the chain of none of them.                                              *)
LEMMA ChainsKept ==
  ASSUME Inv, [Next]_vars, NEW i \in DOMAIN frames \cap DOMAIN frames'
  PROVE  Chain(heap.scopes', frames[i].env) = Chain(heap.scopes, frames[i].env)
<1> DEFINE env == frames[i].env
<1>1. HeapGood(World(program), heap) /\ FramesGood(program, heap, frames)
  BY DEF Inv
<1>2. HeapGood(World(program'), heap')
  BY NextGood DEF Inv
<1>3. /\ heap.scopes \in Seq(ScopeRecord) /\ OlderParents(heap.scopes)
      /\ heap'.scopes \in Seq(ScopeRecord) /\ OlderParents(heap'.scopes)
  BY <1>1, <1>2 DEF HeapGood, ScopesGood
<1>4. /\ frames \in Seq(Frame) /\ i \in 1..Len(frames)
      /\ Len(heap.scopes) \in Nat /\ Len(heap'.scopes) \in Nat
  BY <1>1, <1>3 DEF FramesGood
<1>5. env \in 1..Len(heap.scopes)
  BY <1>1, <1>4 DEF FramesGood, FrameGood
<1>6. /\ \A s \in 1..env : heap'.scopes[s].parent = heap.scopes[s].parent
      /\ env <= Len(heap'.scopes)
  <2>1. CASE Return \/ RunOffEnd
    <3>1. /\ status \in {"running", "ending"}
          /\ heap' = DropScope(Top.env)
          /\ frames' = SubSeq(frames, 1, Len(frames) - 1)
      BY <2>1 DEF Return, RunOffEnd, Executing, Fetching
    <3>2. frames # <<>> /\ Len(frames) \in 1..Len(frames)
      BY <3>1, TopGood
    <3>3. i < Len(frames)
      <4>1. Len(frames') = Len(frames) - 1 /\ FramesGood(program, heap, frames')
        BY <1>1, <3>1, <3>2, FramePopped
      <4>2. i \in 1..Len(frames')
        BY <4>1 DEF FramesGood
      <4> QED
        BY <1>4, <4>1, <4>2
    <3>4. env < Top.env
      BY <1>1, <1>4, <3>2, <3>3 DEF FramesGood, Top
    <3>5. Top.env \in 1..Len(heap.scopes)
      BY <3>1, TopGood DEF FrameGood
    <3>6. /\ Len(heap'.scopes) = Len(heap.scopes)
          /\ \A s \in 1..Len(heap.scopes) :
               \/ heap'.scopes[s].parent = heap.scopes[s].parent
               \/ heap.scopes[s].parent = Top.env
      BY <3>1, <3>5, DropScopeGood
    <3> HIDE DEF env
    <3>7. ASSUME NEW s \in 1..env PROVE heap'.scopes[s].parent = heap.scopes[s].parent
      <4>1. s \in 1..Len(heap.scopes)
        BY <1>4, <1>5
      <4>2. heap.scopes[s].parent \in 0..(s - 1)
        BY <1>3, <4>1, ParentsKnown
      <4>3. heap.scopes[s].parent # Top.env
        BY <1>4, <1>5, <3>4, <3>5, <4>2
      <4> QED
        BY <3>6, <4>1, <4>3
    <3> QED
      BY <1>5, <3>6, <3>7
  <2>2. CASE ~ Return /\ ~ RunOffEnd
    <3>1. ParentsKept
      BY <2>2, AccessKeepsParents, OthersKeepParents
    <3>2. \A s \in 1..env : s \in 1..Len(heap.scopes)
      BY <1>4, <1>5
    <3> HIDE DEF env
    <3> QED
      BY <1>4, <1>5, <3>1, <3>2 DEF ParentsKept
  <2> QED
    BY <2>1, <2>2
<1> HIDE DEF env
<1>7. Chain(heap'.scopes, env) = Chain(heap.scopes, env)
  <2>1. env \in 0..Len(heap.scopes)
    BY <1>4, <1>5
  <2> QED
    BY <1>3, <1>6, <2>1, ChainKept
<1> QED
  BY <1>7 DEF env

(* Breaking cycles never makes a running function lose sight of a variable. *)
THEOREM ChainsOfRunningFramesIntact == Spec => RunningChainsIntact
<1>1. Inv /\ [Next]_vars =>
        [\A i \in DOMAIN frames \cap DOMAIN frames' :
           Chain(heap.scopes', frames[i].env) = Chain(heap.scopes, frames[i].env)]_vars
  BY ChainsKept
<1> QED
  BY <1>1, Invariance, PTL DEF Spec, RunningChainsIntact
-----------------------------------------------------------------------------
(* What the breaker leaves of a dying scope.                               *)

(* Only RETURN, the loop after the code and a throw take a frame away.     *)
LEMMA WhoDropsFrames ==
  ASSUME Inv, [Next]_vars, Len(frames') < Len(frames), status' # "thrown"
  PROVE  Return \/ RunOffEnd
<1>1. frames \in Seq(Frame) /\ Len(frames) \in Nat
  BY DEF Inv, FramesGood
<1>2. ASSUME NEW ip, NEW s, Continue(ip, s) PROVE FALSE
  BY <1>1, <1>2 DEF Continue
<1>3. ~ StoreSlot
  BY <1>1 DEF StoreSlot
<1>4. ~ Call
  <2> SUFFICES ASSUME Call PROVE FALSE
    OBVIOUS
  <2>1. PICK top, callee : frames' = Append([frames EXCEPT ![Len(frames)] = top], callee)
    BY DEF Call
  <2> DEFINE fs == [frames EXCEPT ![Len(frames)] = top]
  <2>2. Len(fs) = Len(frames)
    BY <1>1
  <2>3. Len(Append(fs, callee)) = Len(fs) + 1
    <3>1. fs \in Seq(UNION {Frame, {top}})
      BY <1>1
    <3> QED
      BY <3>1
  <2> HIDE DEF fs
  <2>4. frames' = Append(fs, callee)
    BY <2>1 DEF fs
  <2> QED
    BY <1>1, <2>2, <2>3, <2>4
<1>5. frames' = frames => FALSE
  BY <1>1
<1> QED
  BY <1>2, <1>3, <1>4, <1>5 DEF Next, Execute, Finished, vars, PushConstant, Load, StoreLocal,
     StoreGlobal, LoadSlot, BinaryArithmetic, Comparison, Unary, MakeArray, MakeObject,
     GetMember, SetMember, Jump, JumpIfFalse, PrintTop, Pop, MakeClosure, CallThrows,
     Undefined, Advance

LEMMA DroppedReleased ==
  ASSUME Inv, [Next]_vars, Len(frames') < Len(frames), frames # <<>>, status' # "thrown"
  PROVE  \A f \in FunctionsIn(heap', Range(heap'.scopes[Top.env].vars)) :
           Top.env \notin Chain(heap'.scopes, f.ref)
<1>1. heap' = DropScope(Top.env) /\ status \in {"running", "ending"}
  BY WhoDropsFrames DEF Return, RunOffEnd, Executing, Fetching
<1>2. HeapGood(World(program), heap) /\ Top.env \in 1..Len(heap.scopes)
  BY <1>1, TopGood DEF Inv, FrameGood
<1>3. CASE heap.scopes[Top.env].has_closures
  <2>1. heap' = BreakCycles(heap, Top.env)
    BY <1>1, <1>3 DEF DropScope
  <2> QED
    BY <1>2, <2>1, BrokenReleases
<1>4. CASE ~ heap.scopes[Top.env].has_closures
  <2>1. heap' = heap
    BY <1>1, <1>4 DEF DropScope
  <2>2. World(program).flagged
    BY DEF World
  <2>3. FunctionsIn(heap, Range(heap.scopes[Top.env].vars)) = {}
    BY <1>2, <1>4, <2>2, UnflaggedReleases
  <2> QED
    BY <2>1, <2>3
<1> QED
  BY <1>3, <1>4

(* When a frame goes away, no function that is reached from the variables  *)
(* of its scope closes over that scope any more, directly or up its chain. *)
(* That covers the scopes RETURN does not break: their flag is not set, so *)
(* no function is reached from them at all.                                *)
THEOREM DyingScopesAreReleased == Spec => DyingScopeReleased
<1>1. Inv /\ [Next]_vars =>
        [Len(frames') < Len(frames) /\ frames # <<>> /\ status' # "thrown" =>
           \A f \in FunctionsIn(heap', Range(heap'.scopes[Top.env].vars)) :
             Top.env \notin Chain(heap'.scopes, f.ref)]_vars
  BY DroppedReleased
<1> QED
  BY <1>1, Invariance, PTL DEF Spec, DyingScopeReleased

-----------------------------------------------------------------------------
(* The operand stack: no instruction pops an operand that is not its own   *)
(* activation's, a callee never touches its callers' operands, and the two *)
(* stacks implement the activations of CallStack.                          *)

(* The invariant, besides Inv: every frame's operands end where they began *)
(* or later, and a certified function never runs off its end.              *)
StackInv ==
  /\ status # "ending"
  /\ OperandsNested
  /\ status = "running" =>
       /\ \A i \in DOMAIN frames : frames[i].base <= Len(stack)
       /\ TopChunkOutermost
       /\ EnoughOperands

(* What every handler does to the two stacks that neither calls nor        *)
(* returns.                                                                *)
Local ==
  /\ Fetching
  /\ program' = program /\ status' = "running"
  /\ Len(frames') = Len(frames)
  /\ \A i \in 1..(Len(frames) - 1) : frames'[i] = frames[i]
  /\ frames'[Len(frames)].chunk = Top.chunk
  /\ frames'[Len(frames)].base = Top.base
  /\ frames'[Len(frames)].ip \in Successors(Instr, Top.ip)
  /\ Len(stack') = Len(stack) - Pops(Instr) + Pushes(Instr)
  /\ \A k \in 1..(Len(stack) - Pops(Instr)) : stack'[k] = stack[k]

(* What CALL does to them.                                                 *)
Calling ==
  LET n == Len(frames)
  IN  /\ Fetching /\ Instr.opcode = "CALL"
      /\ program' = program /\ status' = "running"
      /\ Len(frames') = n + 1
      /\ \A i \in 1..(n - 1) : frames'[i] = frames[i]
      /\ frames'[n].chunk = Top.chunk /\ frames'[n].base = Top.base
      /\ frames'[n].ip = Top.ip + 1
      /\ frames'[n + 1].chunk # 1 /\ frames'[n + 1].ip = 0
      /\ frames'[n + 1].base = Len(stack')
      /\ Len(stack') = Len(stack) - Pops(Instr)
      /\ \A k \in 1..Len(stack') : stack'[k] = stack[k]

(* What RETURN does to them when there is a caller.                        *)
Returning ==
  /\ Fetching /\ Instr.opcode = "RETURN"
  /\ program' = program /\ status' = "running"
  /\ Len(frames) > 1
  /\ Len(frames') = Len(frames) - 1
  /\ \A i \in 1..(Len(frames) - 1) : frames'[i] = frames[i]
  /\ Len(stack') = Top.base + 1
  /\ \A k \in 1..Top.base : stack'[k] = stack[k]

(* What a step that ends the run does to the frames.                       *)
Ending ==
  /\ status = "running" /\ status' \in Final
  /\ program' = program
  /\ frames' = frames \/ frames' = <<>>

-----------------------------------------------------------------------------

LEMMA AppendPlaces ==
  ASSUME NEW S, NEW s \in Seq(S), NEW v
  PROVE  /\ Len(Append(s, v)) = Len(s) + 1
         /\ \A k \in 1..Len(s) : Append(s, v)[k] = s[k]
         /\ Append(s, v)[Len(s) + 1] = v
<1> DEFINE T == S \cup {v}
<1>1. s \in Seq(T) /\ v \in T
  OBVIOUS
<1> HIDE DEF T
<1> QED
  BY <1>1

LEMMA PoppedPlaces ==
  ASSUME Inv, NEW n \in Nat, n <= Len(stack)
  PROVE  /\ Popped(n) \in Seq(Json)
         /\ Len(Popped(n)) = Len(stack) - n
         /\ \A k \in 1..(Len(stack) - n) : Popped(n)[k] = stack[k]
<1> DEFINE m == Len(stack) - n
<1>1. stack \in Seq(Json) /\ Len(stack) \in Nat /\ m \in Nat /\ m <= Len(stack)
  BY DEF Inv, StackGood
<1>2. Popped(n) = SubSeq(stack, 1, m)
  BY DEF Popped
<1> HIDE DEF m
<1>3. /\ SubSeq(stack, 1, m) \in Seq(Json)
      /\ Len(SubSeq(stack, 1, m)) = m
      /\ \A k \in 1..m : SubSeq(stack, 1, m)[k] = stack[k]
  BY <1>1
<1> QED
  BY <1>2, <1>3 DEF m

(* How many operands an instruction pops is a number of operands there are.*)
LEMMA PopsGood ==
  ASSUME Inv, Fetching, Defined
  PROVE  /\ Pops(Instr) \in Nat /\ Pops(Instr) <= Len(stack)
         /\ Pushes(Instr) \in {0, 1}
         /\ Len(stack) \in Nat /\ stack \in Seq(Json)
<1>1. Instr.operand \in Nat
  BY InstrGood
<1>2. Pops(Instr) \in Nat
  <2> DEFINE i == Instr
  <2> HIDE DEF i
  <2>1. i.operand \in Nat => Pops(i) \in Nat
    BY DEF Pops
  <2> QED
    BY <1>1, <2>1 DEF i
<1>3. Len(stack) \in Nat /\ stack \in Seq(Json)
  BY DEF Inv, StackGood
<1> QED
  BY <1>2, <1>3 DEF Defined, Pushes

(* The frames after a handler that stays in its frame.                     *)
LEMMA ContinueLocal ==
  ASSUME Inv, Fetching, NEW ip \in Successors(Instr, Top.ip), NEW s, Continue(ip, s),
         Len(s) = Len(stack) - Pops(Instr) + Pushes(Instr),
         \A k \in 1..(Len(stack) - Pops(Instr)) : s[k] = stack[k]
  PROVE  Local
<1>1. frames \in Seq(Frame) /\ Len(frames) \in 1..Len(frames) /\ status = "running"
  BY TopGood DEF Inv, FramesGood, Fetching
<1>2. /\ program' = program /\ status' = status /\ stack' = s
      /\ frames' = [frames EXCEPT ![Len(frames)].ip = ip]
  BY DEF Continue
<1> DEFINE top == [Top EXCEPT !.ip = ip]
<1>3. frames' = [frames EXCEPT ![Len(frames)] = top]
  BY <1>2 DEF Top
<1>4. Top \in Frame
  BY <1>1, TopGood DEF FrameGood
<1>5. top.ip = ip /\ top.chunk = Top.chunk /\ top.base = Top.base
  BY <1>4 DEF Frame
<1> HIDE DEF top
<1>6. /\ Len(frames') = Len(frames)
      /\ frames'[Len(frames)] = top
      /\ \A i \in 1..(Len(frames) - 1) : frames'[i] = frames[i]
  BY <1>1, <1>3
<1> QED
  BY <1>1, <1>2, <1>5, <1>6 DEF Local

LEMMA PopLocal ==
  ASSUME Inv, Fetching, Defined, NEW ip \in Successors(Instr, Top.ip),
         NEW n, n = Pops(Instr), Pushes(Instr) = 0, Continue(ip, Popped(n))
  PROVE  Local
<1>1. n \in Nat /\ n <= Len(stack) /\ Len(stack) \in Nat
  BY PopsGood
<1> DEFINE s == Popped(n)
<1>2. Len(s) = Len(stack) - n /\ \A k \in 1..(Len(stack) - n) : s[k] = stack[k]
  BY <1>1, PoppedPlaces
<1>3. Continue(ip, s)
  OBVIOUS
<1> HIDE DEF s
<1>4. /\ Len(s) = Len(stack) - Pops(Instr) + Pushes(Instr)
      /\ \A k \in 1..(Len(stack) - Pops(Instr)) : s[k] = stack[k]
  BY <1>1, <1>2
<1> QED
  BY <1>3, <1>4, ContinueLocal

LEMMA PushLocal ==
  ASSUME Inv, Fetching, Defined, Top.ip + 1 \in Successors(Instr, Top.ip),
         NEW n, n = Pops(Instr), Pushes(Instr) = 1, NEW v,
         Advance(Append(Popped(n), v))
  PROVE  Local
<1> DEFINE rest == Popped(n)
           s == Append(rest, v)
<1>1. n \in Nat /\ n <= Len(stack) /\ Len(stack) \in Nat
  BY PopsGood
<1>2. /\ rest \in Seq(Json) /\ Len(rest) = Len(stack) - n
      /\ \A k \in 1..(Len(stack) - n) : rest[k] = stack[k]
  BY <1>1, PoppedPlaces
<1> HIDE DEF rest
<1>3. Len(s) = Len(rest) + 1 /\ \A k \in 1..Len(rest) : s[k] = rest[k]
  BY <1>2, AppendPlaces
<1>4. Continue(Top.ip + 1, s)
  BY DEF Advance, rest
<1> HIDE DEF s
<1>5. /\ Len(s) = Len(stack) - Pops(Instr) + Pushes(Instr)
      /\ \A k \in 1..(Len(stack) - Pops(Instr)) : s[k] = stack[k]
  BY <1>1, <1>2, <1>3
<1> QED
  BY <1>4, <1>5, ContinueLocal

(* The handlers that push without popping. *)
LEMMA PushOnlyLocal ==
  ASSUME Inv, Fetching, Defined, Top.ip + 1 \in Successors(Instr, Top.ip),
         Pops(Instr) = 0, Pushes(Instr) = 1, NEW v, Advance(Append(stack, v))
  PROVE  Local
<1> DEFINE s == Append(stack, v)
<1>1. stack \in Seq(Json) /\ Len(stack) \in Nat
  BY PopsGood
<1>2. Len(s) = Len(stack) + 1 /\ \A k \in 1..Len(stack) : s[k] = stack[k]
  BY <1>1, AppendPlaces
<1>3. Continue(Top.ip + 1, s)
  BY DEF Advance
<1> HIDE DEF s
<1>4. /\ Len(s) = Len(stack) - Pops(Instr) + Pushes(Instr)
      /\ \A k \in 1..(Len(stack) - Pops(Instr)) : s[k] = stack[k]
  BY <1>1, <1>2
<1> QED
  BY <1>3, <1>4, ContinueLocal
-----------------------------------------------------------------------------
(* Every handler but CALL and RETURN is local.                             *)

LEMMA PushersLocal ==
  ASSUME Inv, PushConstant \/ Load \/ LoadSlot \/ MakeClosure
  PROVE  Local
<1>1. /\ Fetching /\ Defined
      /\ Instr.opcode \in ConstantOps \cup {"LOAD", "LOAD_SLOT", "MAKE_CLOSURE"}
  BY DEF PushConstant, Load, LoadSlot, MakeClosure, Executing
<1>2. Pops(Instr) = 0 /\ Pushes(Instr) = 1 /\ Top.ip + 1 \in Successors(Instr, Top.ip)
  BY <1>1 DEF Pops, Pushes, Successors, ConstantOps, ArithmeticOps, ComparisonOps
<1>3. \E v : Advance(Append(stack, v))
  BY DEF PushConstant, Load, LoadSlot, MakeClosure
<1> QED
  BY <1>1, <1>2, <1>3, PushOnlyLocal

LEMMA ComputersLocal ==
  ASSUME Inv, BinaryArithmetic \/ Comparison \/ GetMember
  PROVE  Local
<1>1. /\ Fetching /\ Defined
      /\ Instr.opcode \in ArithmeticOps \cup ComparisonOps \cup {"GET_MEMBER"}
  BY DEF BinaryArithmetic, Comparison, GetMember, Executing
<1>2. 2 = Pops(Instr) /\ Pushes(Instr) = 1 /\ Top.ip + 1 \in Successors(Instr, Top.ip)
  BY <1>1 DEF Pops, Pushes, Successors, ConstantOps, ArithmeticOps, ComparisonOps
<1>3. \E v : Advance(Append(Popped(2), v))
  BY DEF BinaryArithmetic, Comparison, GetMember
<1> QED
  BY <1>1, <1>2, <1>3, PushLocal

LEMMA UnaryLocal == ASSUME Inv, Unary PROVE Local
<1>1. Fetching /\ Defined /\ Instr.opcode \in {"NEG", "NOT"}
  BY DEF Unary, Executing
<1>2. 1 = Pops(Instr) /\ Pushes(Instr) = 1 /\ Top.ip + 1 \in Successors(Instr, Top.ip)
  BY <1>1 DEF Pops, Pushes, Successors, ConstantOps, ArithmeticOps, ComparisonOps
<1>3. \E v : Advance(Append(Popped(1), v))
  BY DEF Unary
<1> QED
  BY <1>1, <1>2, <1>3, PushLocal

LEMMA MakersLocal == ASSUME Inv, MakeArray \/ MakeObject PROVE Local
<1>1. CASE MakeArray
  <2>1. Fetching /\ Defined /\ Instr.opcode = "MAKE_ARRAY"
    BY <1>1 DEF MakeArray, Executing
  <2>2. /\ Instr.operand = Pops(Instr) /\ Pushes(Instr) = 1
        /\ Top.ip + 1 \in Successors(Instr, Top.ip)
    BY <2>1 DEF Pops, Pushes, Successors, ConstantOps, ArithmeticOps, ComparisonOps
  <2>3. \E v : Advance(Append(Popped(Instr.operand), v))
    BY <1>1 DEF MakeArray
  <2> QED
    BY <2>1, <2>2, <2>3, PushLocal
<1>2. CASE MakeObject
  <2>1. Fetching /\ Defined /\ Instr.opcode = "MAKE_OBJECT"
    BY <1>2 DEF MakeObject, Executing
  <2>2. /\ 2 * Instr.operand = Pops(Instr) /\ Pushes(Instr) = 1
        /\ Top.ip + 1 \in Successors(Instr, Top.ip)
    BY <2>1 DEF Pops, Pushes, Successors, ConstantOps, ArithmeticOps, ComparisonOps
  <2>3. \E v : Advance(Append(Popped(2 * Instr.operand), v))
    BY <1>2 DEF MakeObject
  <2> QED
    BY <2>1, <2>2, <2>3, PushLocal
<1> QED
  BY <1>1, <1>2

LEMMA TakersLocal ==
  ASSUME Inv, StoreLocal \/ StoreGlobal \/ SetMember \/ PrintTop \/ Pop
  PROVE  Local
<1>1. CASE StoreLocal \/ StoreGlobal \/ PrintTop \/ Pop
  <2>1. Fetching /\ Defined /\ Instr.opcode \in {"STORE_LOCAL", "STORE_GLOBAL", "PRINT", "POP"}
    BY <1>1 DEF StoreLocal, StoreGlobal, PrintTop, Pop, Executing
  <2>2. 1 = Pops(Instr) /\ Pushes(Instr) = 0 /\ Top.ip + 1 \in Successors(Instr, Top.ip)
    BY <2>1 DEF Pops, Pushes, Successors, ConstantOps, ArithmeticOps, ComparisonOps
  <2>3. Continue(Top.ip + 1, Popped(1))
    BY <1>1 DEF StoreLocal, StoreGlobal, PrintTop, Pop, Advance
  <2> QED
    BY <2>1, <2>2, <2>3, PopLocal
<1>2. CASE SetMember
  <2>1. Fetching /\ Defined /\ Instr.opcode = "SET_MEMBER"
    BY <1>2 DEF SetMember, Executing
  <2>2. 3 = Pops(Instr) /\ Pushes(Instr) = 0 /\ Top.ip + 1 \in Successors(Instr, Top.ip)
    BY <2>1 DEF Pops, Pushes, Successors, ConstantOps, ArithmeticOps, ComparisonOps
  <2>3. Continue(Top.ip + 1, Popped(3))
    BY <1>2 DEF SetMember, Advance
  <2> QED
    BY <2>1, <2>2, <2>3, PopLocal
<1> QED
  BY <1>1, <1>2

LEMMA JumpersLocal == ASSUME Inv, Jump \/ JumpIfFalse PROVE Local
<1>1. CASE Jump
  <2>1. Fetching /\ Defined /\ Instr.opcode = "JUMP"
    BY <1>1 DEF Jump, Executing
  <2>2. /\ 0 = Pops(Instr) /\ Pushes(Instr) = 0
        /\ Instr.operand \in Successors(Instr, Top.ip)
    BY <2>1 DEF Pops, Pushes, Successors, ConstantOps, ArithmeticOps, ComparisonOps
  <2>3. Continue(Instr.operand, stack)
    BY <1>1 DEF Jump
  <2>4. Len(stack) \in Nat
    BY <2>1, PopsGood
  <2> QED
    BY <2>1, <2>2, <2>3, <2>4, ContinueLocal
<1>2. CASE JumpIfFalse
  <2> DEFINE ip == IF Falsy(Operand(0)) THEN Instr.operand ELSE Top.ip + 1
  <2>1. Fetching /\ Defined /\ Instr.opcode = "JUMP_IF_FALSE"
    BY <1>2 DEF JumpIfFalse, Executing
  <2>2. 1 = Pops(Instr) /\ Pushes(Instr) = 0 /\ ip \in Successors(Instr, Top.ip)
    BY <2>1 DEF Pops, Pushes, Successors, ConstantOps, ArithmeticOps, ComparisonOps
  <2>3. Continue(ip, Popped(1))
    BY <1>2 DEF JumpIfFalse
  <2> HIDE DEF ip
  <2> QED
    BY <2>1, <2>2, <2>3, PopLocal
<1> QED
  BY <1>1, <1>2

LEMMA StoreSlotLocal == ASSUME Inv, StoreSlot PROVE Local
<1> DEFINE top == [Top EXCEPT !.ip = @ + 1, !.locals = [@ EXCEPT ![Instr.operand + 1] = Operand(0)]]
<1>1. /\ Fetching /\ Defined /\ Instr.opcode = "STORE_SLOT"
      /\ stack' = Popped(1) /\ program' = program /\ status' = status
  BY DEF StoreSlot, Executing
<1>2. frames' = [frames EXCEPT ![Len(frames)] = top]
  BY DEF StoreSlot, Top
<1>3. 1 = Pops(Instr) /\ Pushes(Instr) = 0 /\ Top.ip + 1 \in Successors(Instr, Top.ip)
  BY <1>1 DEF Pops, Pushes, Successors, ConstantOps, ArithmeticOps, ComparisonOps
<1>4. /\ frames \in Seq(Frame) /\ Len(frames) \in 1..Len(frames) /\ status = "running"
      /\ Top \in Frame
  BY <1>1, TopGood DEF Inv, FramesGood, Fetching, FrameGood
<1>5. top.ip = Top.ip + 1 /\ top.chunk = Top.chunk /\ top.base = Top.base
  BY <1>4 DEF Frame
<1> HIDE DEF top
<1>6. /\ Len(frames') = Len(frames)
      /\ frames'[Len(frames)] = top
      /\ \A i \in 1..(Len(frames) - 1) : frames'[i] = frames[i]
  BY <1>2, <1>4
<1>7. /\ Len(stack') = Len(stack) - Pops(Instr) + Pushes(Instr)
      /\ \A k \in 1..(Len(stack) - Pops(Instr)) : stack'[k] = stack[k]
  <2>1. 1 <= Len(stack) /\ Len(stack) \in Nat
    BY <1>1, <1>3, PopsGood
  <2> QED
    BY <1>1, <1>3, <2>1, PoppedPlaces
<1> QED
  BY <1>1, <1>3, <1>4, <1>5, <1>6, <1>7 DEF Local

(* A step of the machine is local, a call, a return, the end of the run,   *)
(* or nothing at all.                                                      *)
LEMMA Steps ==
  ASSUME Inv, [Next]_vars
  PROVE  \/ Local \/ Call \/ Return \/ RunOffEnd \/ CallThrows \/ Undefined
         \/ UNCHANGED vars
BY PushersLocal, ComputersLocal, UnaryLocal, MakersLocal, TakersLocal, JumpersLocal,
   StoreSlotLocal DEF Next, Execute, Finished
-----------------------------------------------------------------------------
(* What the certificates say of the current instruction.                   *)

DepthsOf(frame) == Depth[program][frame.chunk]

LEMMA FrameCertified ==
  ASSUME Inv, NEW i \in 1..Len(frames)
  PROVE  /\ Certifies(DepthsOf(frames[i]), Image[program][frames[i].chunk].code,
                      frames[i].chunk = 1)
         /\ frames[i] \in Frame /\ frames[i].base \in Nat /\ frames[i].ip \in Nat
<1>1. FrameGood(program, heap, frames[i]) /\ program \in Program
  BY DEF Inv, FramesGood
<1>2. frames[i].base \in Nat /\ frames[i].ip \in Nat
  BY <1>1 DEF FrameGood, Frame
<1> QED
  BY <1>1, <1>2, DepthAssumption DEF FrameGood, DepthsOf

LEMMA InstrCertified ==
  ASSUME Inv, StackInv, Fetching
  PROVE  /\ Pops(Instr) \in Nat /\ Pushes(Instr) \in {0, 1} /\ Top.base \in Nat
         /\ Len(stack) \in Nat
         /\ DepthAt(Top) \in Nat
         /\ Pops(Instr) <= DepthAt(Top)
         /\ DepthAt(Top) <= Len(stack) - Top.base
         /\ \A next \in Successors(Instr, Top.ip) :
              /\ next \in DOMAIN DepthsOf(Top)
              /\ DepthsOf(Top)[next] \in Nat
              /\ DepthsOf(Top)[next] <= DepthAt(Top) - Pops(Instr) + Pushes(Instr)
<1>1. /\ status = "running" /\ Top.ip < Len(Chunk.code)
      /\ Len(frames) \in 1..Len(frames) /\ frames \in Seq(Frame)
  BY TopGood DEF Fetching, Inv, FramesGood
<1>2. /\ Certifies(DepthsOf(Top), Chunk.code, Top.chunk = 1)
      /\ Top.base \in Nat /\ Top.ip \in Nat
  BY <1>1, FrameCertified DEF Top, Chunk
<1>3. Len(frames) \in DOMAIN frames
  BY <1>1
<1>4. /\ Top.ip \in DOMAIN DepthsOf(Top)
      /\ DepthAt(Top) <= Len(stack) - Top.base + 0
  BY <1>1, <1>3 DEF StackInv, EnoughOperands, OperandsEnd, Top, DepthsOf
<1>5. Len(stack) \in Nat /\ Instr.operand \in Nat
  BY InstrGood DEF Inv, StackGood
<1>6. DepthAt(Top) = DepthsOf(Top)[Top.ip]
  BY DEF DepthAt, DepthsOf
<1>7. /\ DepthAt(Top) \in Nat /\ Pops(Instr) <= DepthAt(Top)
      /\ \A next \in Successors(Instr, Top.ip) :
              /\ next \in DOMAIN DepthsOf(Top)
              /\ DepthsOf(Top)[next] <= DepthAt(Top) - Pops(Instr) + Pushes(Instr)
  BY <1>1, <1>2, <1>4, <1>6 DEF Certifies, Instr
<1>8. \A next \in DOMAIN DepthsOf(Top) : DepthsOf(Top)[next] \in Nat
  BY <1>2 DEF Certifies
<1>9. Pops(Instr) \in Nat
  <2> DEFINE i == Instr
  <2> HIDE DEF i
  <2>1. i.operand \in Nat => Pops(i) \in Nat
    BY DEF Pops
  <2> QED
    BY <1>5, <2>1 DEF i
<1> QED
  BY <1>2, <1>4, <1>5, <1>7, <1>8, <1>9 DEF Pushes

(* Nothing that is popped belongs to another activation.                   *)
LEMMA OwnOperands == ASSUME Inv, StackInv PROVE OwnOperandsOnly
<1> SUFFICES ASSUME Fetching PROVE Len(stack) - Top.base >= Pops(Instr)
  BY DEF OwnOperandsOnly
<1> QED
  BY InstrCertified

-----------------------------------------------------------------------------
(* The invariant is kept.                                                  *)

LEMMA LocalKeeps == ASSUME Inv, Inv', StackInv, Local PROVE StackInv'
<1> DEFINE n == Len(frames)
<1>1. /\ Fetching /\ status = "running" /\ status' = "running" /\ program' = program
      /\ Len(frames') = n
      /\ \A i \in 1..(n - 1) : frames'[i] = frames[i]
      /\ frames'[n].chunk = Top.chunk /\ frames'[n].base = Top.base
      /\ frames'[n].ip \in Successors(Instr, Top.ip)
      /\ Len(stack') = Len(stack) - Pops(Instr) + Pushes(Instr)
  BY DEF Local, Fetching
<1>2. /\ frames \in Seq(Frame) /\ frames' \in Seq(Frame)
      /\ n \in Nat /\ n \in 1..n /\ frames[n] = Top
      /\ DOMAIN frames = 1..n /\ DOMAIN frames' = 1..n
  BY <1>1, TopGood DEF Inv, FramesGood, Top
<1> HIDE DEF n
<1>3. \A i \in 1..n : /\ frames'[i].base = frames[i].base
                      /\ frames'[i].chunk = frames[i].chunk
                      /\ frames[i].base \in Nat
                      /\ i # n => frames'[i] = frames[i]
  <2>1. \A i \in 1..n : i # n => i \in 1..(n - 1)
    BY <1>2
  <2> QED
    BY <1>1, <1>2, <2>1, FrameCertified DEF n
<1>4. OperandsNested'
  BY <1>2, <1>3 DEF StackInv, OperandsNested
<1>5. TopChunkOutermost'
  BY <1>1, <1>2, <1>3 DEF StackInv, TopChunkOutermost
<1>6. /\ Len(stack') \in Nat /\ Top.base <= Len(stack')
      /\ DepthsOf(Top)[frames'[n].ip] <= Len(stack') - Top.base
      /\ frames'[n].ip \in DOMAIN DepthsOf(Top)
  <2>1. Len(stack') \in Nat
    BY DEF Inv, StackGood
  <2> QED
    BY SMTT(30), <1>1, <2>1, InstrCertified
<1>7. \A i \in 1..n : frames'[i].base <= Len(stack')
  <2> SUFFICES ASSUME NEW i \in 1..n PROVE frames[i].base <= Len(stack')
    BY <1>3
  <2>1. frames[i].base <= Top.base /\ frames[i].base \in Nat /\ Top.base \in Nat
    <3>1. i < n => frames[i].base <= frames[n].base
      BY <1>2 DEF StackInv, OperandsNested
    <3> QED
      BY <1>2, <1>3, <3>1
  <2> QED
    BY <1>6, <2>1
<1>8. EnoughOperands'
  <2> SUFFICES ASSUME NEW i \in 1..n
               PROVE  /\ frames'[i].ip \in DOMAIN Depth[program][frames'[i].chunk]
                      /\ Depth[program][frames'[i].chunk][frames'[i].ip] <=
                           (IF i = n THEN Len(stack') ELSE frames'[i + 1].base)
                           - frames'[i].base + (IF i = n THEN 0 ELSE 1)
    BY <1>1, <1>2 DEF EnoughOperands, OperandsEnd, DepthAt
  <2>1. CASE i = n
    <3>1. frames'[i].chunk = Top.chunk /\ frames'[i].base = Top.base
      BY <1>1, <2>1
    <3>2. Depth[program][frames'[i].chunk] = DepthsOf(Top)
      BY <3>1 DEF DepthsOf
    <3>3. /\ frames'[i].ip \in DOMAIN Depth[program][frames'[i].chunk]
          /\ Depth[program][frames'[i].chunk][frames'[i].ip] <= Len(stack') - frames'[i].base
      BY <1>6, <2>1, <3>1, <3>2
    <3>4. frames'[i].base \in Nat /\ Len(stack') \in Nat
      BY <1>3, <1>6
    <3> QED
      BY <2>1, <3>3, <3>4
  <2>2. CASE i # n
    <3>1. i + 1 \in 1..n /\ i \in DOMAIN frames
      BY <1>2, <2>2
    <3>2. /\ frames[i].ip \in DOMAIN Depth[program][frames[i].chunk]
          /\ Depth[program][frames[i].chunk][frames[i].ip] <= frames[i + 1].base - frames[i].base + 1
      BY <1>1, <2>2, <3>1 DEF StackInv, EnoughOperands, OperandsEnd, DepthAt, n
    <3> QED
      BY <1>3, <2>2, <3>1, <3>2
  <2> QED
    BY <2>1, <2>2
<1> QED
  BY <1>1, <1>2, <1>4, <1>5, <1>7, <1>8 DEF StackInv

LEMMA InitStackInv == Init => StackInv
<1> SUFFICES ASSUME Init PROVE StackInv
  OBVIOUS
<1>1. Inv
  BY InitGood
<1>2. /\ status = "running" /\ stack = <<>> /\ Len(stack) = 0
      /\ Len(frames) = 1 /\ DOMAIN frames = {1}
      /\ frames[1].chunk = 1 /\ frames[1].ip = 0 /\ frames[1].base = 0
  BY DEF Init
<1>3. Certifies(DepthsOf(frames[1]), Image[program][frames[1].chunk].code,
                frames[1].chunk = 1)
  BY <1>1, <1>2, FrameCertified
<1>4. 0 \in DOMAIN DepthsOf(frames[1]) /\ DepthsOf(frames[1])[0] = 0
  BY <1>3 DEF Certifies
<1>5. EnoughOperands
  BY <1>2, <1>4 DEF EnoughOperands, OperandsEnd, DepthAt, DepthsOf
<1> QED
  BY <1>2, <1>5 DEF StackInv, OperandsNested, TopChunkOutermost

-----------------------------------------------------------------------------
(* What the steps that change the number of frames do.                     *)

LEMMA CallEffect == ASSUME Inv, StackInv, Call PROVE Calling
<1> DEFINE m     == Instr.operand + 1
           fn    == Operand(Instr.operand)
           slots == Image[program][fn.n].num_locals
           below == [frames EXCEPT ![Len(frames)] = [Top EXCEPT !.ip = @ + 1]]
           callee == CalleeFrame(fn, Instr.operand, slots)
<1>1. /\ Fetching /\ Instr.opcode = "CALL" /\ Defined /\ status = "running"
      /\ fn.type = "Function"
      /\ stack' = Popped(m)
      /\ UNCHANGED <<program, status>>
  BY DEF Call, Executing, Fetching
<1>2. frames' = Append(below, callee)
  BY DEF Call, Top
<1>3. Instr.operand \in Nat /\ m \in Nat /\ m = Pops(Instr)
  BY <1>1, InstrGood DEF Pops, ConstantOps, ArithmeticOps, ComparisonOps
<1>4. m <= Len(stack) /\ Len(stack) \in Nat /\ Instr.operand < Len(stack)
  BY <1>1, <1>3, PopsGood
<1>5. Val(World(program), heap, fn)
  BY <1>3, <1>4, OperandGood
<1>6. fn.n # 1
  BY <1>1, <1>5 DEF Val, World
<1>7. callee.chunk = fn.n /\ callee.ip = 0 /\ callee.base = Len(stack) - m
  BY <1>3, <1>4 DEF CalleeFrame
<1> HIDE DEF m, fn, callee
<1>8. /\ frames \in Seq(Frame) /\ Len(frames) \in 1..Len(frames) /\ Top \in Frame
  BY <1>1, TopGood DEF Inv, FramesGood, FrameGood
<1> DEFINE top == [Top EXCEPT !.ip = @ + 1]
<1>9. top \in Frame /\ top.ip = Top.ip + 1 /\ top.chunk = Top.chunk /\ top.base = Top.base
  <2> DEFINE frame == Top
             ip == frame.ip + 1
  <2>1. frame \in Frame
    BY <1>8
  <2> HIDE DEF frame
  <2>2. ip \in Nat
    BY <2>1 DEF Frame
  <2>3. top = [frame EXCEPT !.ip = ip]
    BY DEF frame
  <2> HIDE DEF ip, top
  <2>4. /\ top \in Frame /\ top.ip = ip /\ top.chunk = frame.chunk
        /\ top.base = frame.base
    BY <2>1, <2>2, <2>3 DEF Frame
  <2> QED
    BY <2>4 DEF frame, ip
<1>10. below = [frames EXCEPT ![Len(frames)] = top]
  OBVIOUS
<1> HIDE DEF top, below
<1>11. /\ below \in Seq(Frame) /\ Len(below) = Len(frames) /\ below[Len(frames)] = top
       /\ \A i \in 1..(Len(frames) - 1) : below[i] = frames[i]
  BY <1>8, <1>9, <1>10
<1>12. /\ Len(frames') = Len(frames) + 1
       /\ \A i \in 1..Len(frames) : frames'[i] = below[i]
       /\ frames'[Len(frames) + 1] = callee
  BY <1>2, <1>11, AppendPlaces
<1>13. /\ frames'[Len(frames)] = top
       /\ \A i \in 1..(Len(frames) - 1) : frames'[i] = frames[i]
  BY <1>8, <1>11, <1>12
<1>14. Len(stack') = Len(stack) - m /\ \A k \in 1..Len(stack') : stack'[k] = stack[k]
  BY <1>1, <1>3, <1>4, PoppedPlaces
<1> QED
  BY <1>1, <1>3, <1>6, <1>7, <1>9, <1>12, <1>13, <1>14 DEF Calling

LEMMA ReturnEffect ==
  ASSUME Inv, StackInv, Return PROVE Returning \/ (Ending /\ Len(frames) = 1)
<1>1. /\ Fetching /\ Instr.opcode = "RETURN" /\ status = "running"
      /\ program' = program
      /\ frames' = SubSeq(frames, 1, Len(frames) - 1)
  BY DEF Return, Executing, Fetching
<1>2. frames \in Seq(Frame) /\ Len(frames) \in 1..Len(frames) /\ Len(frames) \in Nat
  BY <1>1, TopGood DEF Inv, FramesGood
<1>3. CASE Len(frames) = 1
  <2>1. status' = "halted" /\ frames' = <<>>
    BY <1>1, <1>2, <1>3 DEF Return
  <2> QED
    BY <1>1, <1>3, <2>1 DEF Ending, Final
<1>4. CASE Len(frames) # 1
  <2> DEFINE base == Top.base
             kept == Popped(1)
             cut  == Resize(kept, base)
             v    == Operand(0)
  <2>1. stack' = Append(cut, v) /\ status' = status
    BY <1>1, <1>4 DEF Return, CallerStack
  <2>2. /\ Len(frames) > 1 /\ Len(frames') = Len(frames) - 1
        /\ \A i \in 1..(Len(frames) - 1) : frames'[i] = frames[i]
    <3> DEFINE m == Len(frames) - 1
    <3>1. frames' = SubSeq(frames, 1, m)
      BY <1>1
    <3>2. m \in Nat /\ m >= 1 /\ m <= Len(frames)
      <4>1. \A n \in Nat : n >= 1 /\ n # 1 => n - 1 \in Nat /\ n - 1 >= 1 /\ n - 1 <= n
        OBVIOUS
      <4>2. Len(frames) >= 1 /\ Len(frames) \in Nat
        BY <1>2
      <4> QED
        BY <1>4, <4>1, <4>2
    <3> HIDE DEF m
    <3>3. Len(frames') = m /\ \A i \in 1..m : frames'[i] = frames[i]
      BY <1>2, <3>1, <3>2
    <3> QED
      BY <1>2, <1>4, <3>3 DEF m
  <2>3. Pops(Instr) = 1
    BY <1>1 DEF Pops, ConstantOps, ArithmeticOps, ComparisonOps
  <2>4. base \in Nat /\ Len(stack) \in Nat /\ base <= Len(stack) - 1 /\ 1 <= Len(stack)
    <3>1. /\ base \in Nat /\ Len(stack) \in Nat /\ DepthAt(Top) \in Nat
          /\ 1 <= DepthAt(Top) /\ DepthAt(Top) <= Len(stack) - base
      BY <1>1, <2>3, InstrCertified
    <3> QED
      BY <3>1
  <2>5. /\ Len(kept) = Len(stack) - 1
        /\ \A k \in 1..(Len(stack) - 1) : kept[k] = stack[k]
        /\ StackGood(program, heap, kept)
    BY <2>4, PoppedPlaces, PoppedGood
  <2> HIDE DEF base, kept, v
  <2>6. /\ cut \in Seq(Json) /\ Len(cut) = base
        /\ \A k \in 1..base : cut[k] = kept[k]
    <3>1. cut \in Seq(Json)
      BY <2>4, <2>5, ResizeGood DEF StackGood
    <3>2. cut = [k \in 1..base |-> IF k <= Len(kept) THEN kept[k] ELSE NullJson]
      BY DEF Resize
    <3>3. \A k \in 1..base : k <= Len(kept)
      BY <2>4, <2>5
    <3> HIDE DEF cut
    <3>4. DOMAIN cut = 1..base /\ \A k \in 1..base : cut[k] = kept[k]
      BY <3>2, <3>3
    <3> QED
      BY <2>4, <3>1, <3>4
  <2> HIDE DEF cut
  <2>7. Len(stack') = base + 1 /\ \A k \in 1..base : stack'[k] = stack[k]
    <3>1. Len(stack') = base + 1 /\ \A k \in 1..base : stack'[k] = cut[k]
      BY <2>1, <2>6, AppendPlaces
    <3>2. \A k \in 1..base : k \in 1..(Len(stack) - 1)
      BY <2>4
    <3> QED
      BY <2>5, <2>6, <3>1, <3>2
  <2> QED
    BY <1>1, <2>1, <2>2, <2>7 DEF Returning, base
<1> QED
  BY <1>3, <1>4

(* The code that runs out is the top chunk's, and no call is pending.      *)
LEMMA RunOffEndEffect == ASSUME Inv, StackInv, RunOffEnd PROVE Ending
<1>1. /\ status = "running" /\ Top.ip >= Len(Chunk.code)
      /\ program' = program
      /\ frames' = SubSeq(frames, 1, Len(frames) - 1)
      /\ Len(frames) > 1 \/ status' = "halted"
  BY DEF RunOffEnd, StackInv
<1>2. frames \in Seq(Frame) /\ Len(frames) \in 1..Len(frames) /\ Len(frames) \in Nat
  BY <1>1, TopGood DEF Inv, FramesGood
<1>3. /\ Certifies(DepthsOf(Top), Chunk.code, Top.chunk = 1)
      /\ Top.ip \in DOMAIN DepthsOf(Top)
  BY <1>1, <1>2, FrameCertified DEF Top, Chunk, StackInv, EnoughOperands, DepthsOf
<1>4. Top.chunk = 1
  BY <1>1, <1>3 DEF Certifies
<1>5. Len(frames) = 1
  <2>1. Len(frames) \in DOMAIN frames /\ TopChunkOutermost
    BY <1>1, <1>2 DEF StackInv
  <2>2. (frames[Len(frames)].chunk = 1) = (Len(frames) = 1)
    BY <2>1 DEF TopChunkOutermost
  <2> QED
    BY <1>4, <2>2 DEF Top
<1>6. frames' = <<>>
  BY <1>1, <1>2, <1>5
<1> QED
  BY <1>1, <1>5, <1>6 DEF Ending, Final

LEMMA EndEffect ==
  ASSUME Inv, StackInv, CallThrows \/ Undefined PROVE Ending
<1>1. CASE CallThrows
  BY <1>1 DEF CallThrows, Executing, Fetching, Ending, Final
<1>2. CASE Undefined
  BY <1>2 DEF Undefined, Fetching, StackInv, Ending, Final
<1> QED
  BY <1>1, <1>2

(* The five kinds of steps. *)
LEMMA StepKinds ==
  ASSUME Inv, StackInv, [Next]_vars
  PROVE  Local \/ Calling \/ Returning \/ Ending \/ UNCHANGED vars
BY Steps, CallEffect, ReturnEffect, RunOffEndEffect, EndEffect

-----------------------------------------------------------------------------
(* The invariant is kept by the other steps.                               *)

LEMMA CallKeeps == ASSUME Inv, Inv', StackInv, Calling PROVE StackInv'
<1> DEFINE n == Len(frames)
<1>1. /\ Fetching /\ status = "running" /\ status' = "running" /\ program' = program
      /\ Instr.opcode = "CALL"
      /\ Len(frames') = n + 1
      /\ \A i \in 1..(n - 1) : frames'[i] = frames[i]
      /\ frames'[n].chunk = Top.chunk /\ frames'[n].base = Top.base
      /\ frames'[n].ip = Top.ip + 1
      /\ frames'[n + 1].chunk # 1 /\ frames'[n + 1].ip = 0
      /\ frames'[n + 1].base = Len(stack')
      /\ Len(stack') = Len(stack) - Pops(Instr)
  BY DEF Calling, Fetching
<1>2. /\ frames \in Seq(Frame) /\ frames' \in Seq(Frame)
      /\ n \in Nat /\ n \in 1..n /\ frames[n] = Top
      /\ DOMAIN frames = 1..n /\ DOMAIN frames' = 1..(n + 1)
  BY <1>1, TopGood DEF Inv, FramesGood, Top
<1> HIDE DEF n
<1>3. \A i \in 1..n : /\ frames'[i].base = frames[i].base
                      /\ frames'[i].chunk = frames[i].chunk
                      /\ frames[i].base \in Nat
                      /\ i # n => frames'[i] = frames[i]
  <2>1. \A i \in 1..n : i # n => i \in 1..(n - 1)
    BY <1>2
  <2> QED
    BY <1>1, <1>2, <2>1, FrameCertified DEF n
<1>4. Pushes(Instr) = 1 /\ Top.ip + 1 \in Successors(Instr, Top.ip)
  BY <1>1 DEF Pushes, Successors
<1>5. /\ Len(stack') \in Nat /\ Top.base \in Nat /\ Top.base <= Len(stack')
      /\ Top.ip + 1 \in DOMAIN DepthsOf(Top)
      /\ DepthsOf(Top)[Top.ip + 1] <= Len(stack') - Top.base + 1
  <2>1. Len(stack') \in Nat
    BY DEF Inv, StackGood
  <2> QED
    BY <1>1, <1>4, <2>1, InstrCertified
<1>6. /\ 0 \in DOMAIN Depth[program][frames'[n + 1].chunk]
      /\ Depth[program][frames'[n + 1].chunk][0] = 0
  <2>1. n + 1 \in 1..Len(frames')
    BY <1>1, <1>2
  <2>2. FrameGood(program, heap', frames'[n + 1]) /\ program \in Program
    BY <1>1, <2>1 DEF Inv, FramesGood
  <2>3. frames'[n + 1].chunk \in 1..Len(Image[program])
    BY <2>2 DEF FrameGood
  <2> DEFINE c == frames'[n + 1].chunk
  <2>4. Certifies(Depth[program][c], Image[program][c].code, c = 1)
    BY <2>2, <2>3, DepthAssumption
  <2> HIDE DEF c
  <2>5. 0 \in DOMAIN Depth[program][c] /\ Depth[program][c][0] = 0
    BY <2>4 DEF Certifies
  <2> QED
    BY <2>5 DEF c
<1>7. \A i \in 1..n : frames[i].base <= Len(stack')
  <2> SUFFICES ASSUME NEW i \in 1..n PROVE frames[i].base <= Len(stack')
    OBVIOUS
  <2>1. i < n => frames[i].base <= frames[n].base
    BY <1>2 DEF StackInv, OperandsNested
  <2>2. i \in Nat /\ i <= n /\ frames[i].base \in Nat
    BY <1>2, <1>3
  <2>3. i = n => frames[i].base <= Len(stack')
    BY <1>2, <1>5
  <2>4. i < n => frames[i].base <= Len(stack')
    BY <1>2, <1>5, <2>1, <2>2
  <2> QED
    BY <1>2, <2>2, <2>3, <2>4
<1>8. \A i \in 1..(n + 1) : i \in 1..n \/ i = n + 1
  BY <1>2
<1>9. OperandsNested'
  BY <1>1, <1>2, <1>3, <1>7, <1>8 DEF StackInv, OperandsNested
<1>10. TopChunkOutermost'
  <2>1. n + 1 # 1
    BY <1>2
  <2> QED
    BY <1>1, <1>2, <1>3, <1>8, <2>1 DEF StackInv, TopChunkOutermost
<1>11. \A i \in 1..(n + 1) : frames'[i].base <= Len(stack')
  BY <1>1, <1>3, <1>5, <1>7, <1>8
<1>12. EnoughOperands'
  <2> SUFFICES ASSUME NEW i \in 1..(n + 1)
               PROVE  /\ frames'[i].ip \in DOMAIN Depth[program][frames'[i].chunk]
                      /\ Depth[program][frames'[i].chunk][frames'[i].ip] <=
                           (IF i = n + 1 THEN Len(stack') ELSE frames'[i + 1].base)
                           - frames'[i].base + (IF i = n + 1 THEN 0 ELSE 1)
    BY <1>1, <1>2 DEF EnoughOperands, OperandsEnd, DepthAt
  <2>1. CASE i = n + 1
    <3>1. /\ 0 \in DOMAIN Depth[program][frames'[n + 1].chunk]
          /\ Depth[program][frames'[n + 1].chunk][0] = 0
      BY <1>6
    <3> QED
      BY <1>1, <1>5, <2>1, <3>1
  <2>2. CASE i = n
    <3>1. Depth[program][frames'[i].chunk] = DepthsOf(Top)
      BY <1>1, <2>2 DEF DepthsOf
    <3>2. i # n + 1
      BY <1>2, <2>2
    <3> QED
      BY <1>1, <1>5, <2>2, <3>1, <3>2
  <2>3. CASE i # n /\ i # n + 1
    <3>1. i + 1 \in 1..n /\ i \in 1..n
      BY <1>2, <2>3
    <3>2. /\ frames[i].ip \in DOMAIN Depth[program][frames[i].chunk]
          /\ Depth[program][frames[i].chunk][frames[i].ip] <= frames[i + 1].base - frames[i].base + 1
      BY <1>1, <1>2, <2>3, <3>1 DEF StackInv, EnoughOperands, OperandsEnd, DepthAt, n
    <3> QED
      BY <1>3, <2>3, <3>1, <3>2
  <2> QED
    BY <2>1, <2>2, <2>3
<1> QED
  BY <1>1, <1>2, <1>9, <1>10, <1>11, <1>12 DEF StackInv

LEMMA ReturnKeeps == ASSUME Inv, Inv', StackInv, Returning PROVE StackInv'
<1> DEFINE n == Len(frames)
<1>1. /\ Fetching /\ status = "running" /\ status' = "running" /\ program' = program
      /\ n > 1 /\ Len(frames') = n - 1
      /\ \A i \in 1..(n - 1) : frames'[i] = frames[i]
      /\ Len(stack') = Top.base + 1
  BY DEF Returning, Fetching
<1>2. /\ frames \in Seq(Frame) /\ frames' \in Seq(Frame)
      /\ n \in Nat /\ n \in 1..n /\ frames[n] = Top
      /\ DOMAIN frames = 1..n /\ DOMAIN frames' = 1..(n - 1)
  BY <1>1, TopGood DEF Inv, FramesGood, Top
<1>3. \A i \in 1..n : frames[i].base \in Nat
  BY FrameCertified DEF n
<1> HIDE DEF n
<1>4. \A i \in 1..(n - 1) : i \in 1..n /\ i + 1 \in 1..n /\ i < n
  BY <1>2
<1>5. OperandsNested'
  BY <1>1, <1>2, <1>4 DEF StackInv, OperandsNested
<1>6. TopChunkOutermost'
  BY <1>1, <1>2, <1>4 DEF StackInv, TopChunkOutermost
<1>7. \A i \in 1..(n - 1) : frames'[i].base <= Len(stack')
  <2> SUFFICES ASSUME NEW i \in 1..(n - 1) PROVE frames[i].base <= Len(stack')
    BY <1>1
  <2>1. frames[i].base <= frames[n].base
    BY <1>2, <1>4 DEF StackInv, OperandsNested
  <2>2. frames[i].base \in Nat /\ frames[n].base \in Nat
    BY <1>2, <1>3, <1>4
  <2> QED
    BY <1>1, <1>2, <2>1, <2>2
<1>8. EnoughOperands'
  <2> SUFFICES ASSUME NEW i \in 1..(n - 1)
               PROVE  /\ frames'[i].ip \in DOMAIN Depth[program][frames'[i].chunk]
                      /\ Depth[program][frames'[i].chunk][frames'[i].ip] <=
                           (IF i = n - 1 THEN Len(stack') ELSE frames'[i + 1].base)
                           - frames'[i].base + (IF i = n - 1 THEN 0 ELSE 1)
    BY <1>1, <1>2 DEF EnoughOperands, OperandsEnd, DepthAt
  <2>1. i \in 1..n /\ i + 1 \in 1..n /\ i # n /\ frames'[i] = frames[i]
    BY <1>1, <1>2, <1>4
  <2>2. /\ frames[i].ip \in DOMAIN Depth[program][frames[i].chunk]
        /\ Depth[program][frames[i].chunk][frames[i].ip] <= frames[i + 1].base - frames[i].base + 1
    BY <1>1, <1>2, <2>1 DEF StackInv, EnoughOperands, OperandsEnd, DepthAt, n
  <2>3. CASE i = n - 1
    <3>1. i + 1 = n /\ frames[i + 1].base = Top.base
      BY <1>2, <2>3
    <3>2. frames[i].base \in Nat /\ Top.base \in Nat
      BY <1>2, <1>3, <2>1
    <3>3. Len(stack') - frames[i].base + 0 = frames[i + 1].base - frames[i].base + 1
      BY <1>1, <3>1, <3>2
    <3> QED
      BY <2>1, <2>2, <2>3, <3>3
  <2>4. CASE i # n - 1
    <3>1. i + 1 \in 1..(n - 1)
      BY <1>2, <2>4
    <3>2. frames'[i + 1] = frames[i + 1]
      BY <1>1, <3>1
    <3> QED
      BY <2>1, <2>2, <2>4, <3>2
  <2> QED
    BY <2>3, <2>4
<1> QED
  BY <1>1, <1>2, <1>5, <1>6, <1>7, <1>8 DEF StackInv

LEMMA StackInvKept == ASSUME Inv, Inv', StackInv, [Next]_vars PROVE StackInv'
<1>1. CASE Ending
  <2>1. status' # "running" /\ status' # "ending" /\ OperandsNested'
    BY <1>1 DEF Ending, Final, StackInv, OperandsNested
  <2> QED
    BY <2>1 DEF StackInv
<1>2. CASE UNCHANGED vars
  BY <1>2 DEF vars, StackInv, OperandsNested, TopChunkOutermost, EnoughOperands,
              OperandsEnd, DepthAt
<1> QED
  BY <1>1, <1>2, StepKinds, LocalKeeps, CallKeeps, ReturnKeeps

-----------------------------------------------------------------------------
(* The theorems.                                                           *)

LEMMA StackInvariance == Spec => [](Inv /\ StackInv)
<1>1. Init => Inv /\ StackInv
  BY InitGood, InitStackInv
<1>2. Inv /\ StackInv /\ [Next]_vars => (Inv /\ StackInv)'
  BY NextGood, StackInvKept
<1> QED
  BY <1>1, <1>2, PTL DEF Spec

(* Code that has a depth certificate finds, in every activation that runs  *)
(* or waits, the operands it counts on.                                    *)
THEOREM OperandsAreThere == Spec => []EnoughOperands
<1>1. Inv /\ StackInv => EnoughOperands
  BY DEF StackInv, EnoughOperands
<1> QED
  BY <1>1, StackInvariance, PTL

(* pop() never takes an operand of a caller: each instruction pops what    *)
(* its own activation pushed.                                              *)
THEOREM OnlyOwnOperands == Spec => []OwnOperandsOnly
<1>1. Inv /\ StackInv => OwnOperandsOnly
  BY OwnOperands
<1> QED
  BY <1>1, StackInvariance, PTL

(* Callees' scopes are younger than their callers', and their operands lie *)
(* above their callers'.                                                   *)
THEOREM FramesAreNested == Spec => []FramesNested
<1>1. Inv /\ StackInv => OperandsNested
  BY DEF StackInv
<1>2. ScopesNested /\ OperandsNested => FramesNested
  BY DEF FramesNested
<1> QED
  BY <1>1, <1>2, StackInvariance, ScopesAreNested, PTL

(* What a step keeps of the operands of the callers.                       *)
LEMMA CallersKept ==
  ASSUME Inv, StackInv, [Next]_vars, status = "running", status' = "running"
  PROVE  Len(stack') >= Top.base /\ \A i \in 1..Top.base : stack'[i] = stack[i]
<1> DEFINE base == Top.base
<1>1. CASE Local \/ Calling
  <2>1. Fetching
    BY <1>1 DEF Local, Calling
  <2>2. /\ base \in Nat /\ Len(stack) \in Nat /\ Pops(Instr) \in Nat /\ Pushes(Instr) \in {0, 1}
        /\ base <= Len(stack) - Pops(Instr)
    <3>1. /\ base \in Nat /\ Len(stack) \in Nat /\ Pops(Instr) \in Nat
          /\ Pushes(Instr) \in {0, 1} /\ DepthAt(Top) \in Nat
          /\ Pops(Instr) <= DepthAt(Top) /\ DepthAt(Top) <= Len(stack) - base
      BY <2>1, InstrCertified
    <3> QED
      BY <3>1
  <2>3. /\ Len(stack') >= Len(stack) - Pops(Instr)
        /\ \A k \in 1..(Len(stack) - Pops(Instr)) : stack'[k] = stack[k]
    BY <1>1, <2>2 DEF Local, Calling
  <2>4. \A k \in 1..base : k \in 1..(Len(stack) - Pops(Instr))
    BY <2>2
  <2>5. Len(stack') >= base
    <3>1. Len(stack') = Len(stack) - Pops(Instr) + Pushes(Instr) \/ Len(stack') = Len(stack) - Pops(Instr)
      BY <1>1 DEF Local, Calling
    <3> QED
      BY <2>2, <3>1
  <2> QED
    BY <2>3, <2>4, <2>5
<1>2. CASE Returning
  <2>1. Fetching /\ Len(stack') = base + 1 /\ \A k \in 1..base : stack'[k] = stack[k]
    BY <1>2 DEF Returning
  <2>2. base \in Nat
    BY <2>1, InstrCertified
  <2> QED
    BY <2>1, <2>2
<1>3. CASE UNCHANGED vars
  <2>1. Len(frames) \in DOMAIN frames /\ \A i \in DOMAIN frames : frames[i].base <= Len(stack)
    BY TopGood DEF Inv, FramesGood, StackInv
  <2>2. Top.base <= Len(stack) /\ Len(stack) \in Nat /\ Top.base \in Nat
    BY <2>1, TopGood DEF Top, Inv, StackGood, FrameGood, Frame
  <2> QED
    BY <1>3, <2>2 DEF vars
<1>4. CASE Ending
  BY <1>4 DEF Ending, Final
<1> QED
  BY <1>1, <1>2, <1>3, <1>4, StepKinds

(* Whatever a callee does, its callers find the operands they had pushed.  *)
THEOREM CallersOperandsAreKept == Spec => CallersOperandsKept
<1>1. Inv /\ StackInv /\ [Next]_vars =>
        [status = "running" /\ status' = "running" =>
           Len(stack') >= Top.base /\ \A i \in 1..Top.base : stack'[i] = stack[i]]_vars
  BY CallersKept
<1> QED
  BY <1>1, StackInvariance, PTL DEF Spec, CallersOperandsKept


-----------------------------------------------------------------------------
(* The operand stack and the frame stack implement the activations of      *)
(* CallStack.                                                              *)


(* Slices of a sequence.                                                   *)
LEMMA SameSequence ==
  ASSUME NEW S, NEW s \in Seq(S), NEW t \in Seq(S),
         Len(s) = Len(t), \A k \in 1..Len(s) : s[k] = t[k]
  PROVE  s = t
OBVIOUS

LEMMA PlacesOf ==
  ASSUME NEW S, NEW s \in Seq(S) PROVE Len(s) \in Nat /\ DOMAIN s = 1..Len(s)
OBVIOUS

LEMMA SlicePlaces ==
  ASSUME NEW S, NEW s \in Seq(S), NEW m \in Nat, NEW n \in Nat, m <= n, n <= Len(s)
  PROVE  /\ SubSeq(s, m + 1, n) \in Seq(S)
         /\ Len(SubSeq(s, m + 1, n)) = n - m
         /\ \A k \in 1..(n - m) : SubSeq(s, m + 1, n)[k] = s[m + k]
OBVIOUS

LEMMA SameSlice ==
  ASSUME NEW S, NEW s \in Seq(S), NEW t \in Seq(S), NEW m \in Nat, NEW n \in Nat,
         m <= n, n <= Len(s), n <= Len(t), \A k \in 1..n : t[k] = s[k]
  PROVE  SubSeq(t, m + 1, n) = SubSeq(s, m + 1, n)
<1> DEFINE a == SubSeq(s, m + 1, n)
           b == SubSeq(t, m + 1, n)
<1>1. /\ a \in Seq(S) /\ Len(a) = n - m /\ \A k \in 1..(n - m) : a[k] = s[m + k]
      /\ b \in Seq(S) /\ Len(b) = n - m /\ \A k \in 1..(n - m) : b[k] = t[m + k]
  BY SlicePlaces
<1>2. \A k \in 1..(n - m) : m + k \in 1..n
  OBVIOUS
<1> HIDE DEF a, b
<1>3. \A k \in 1..(n - m) : a[k] = b[k]
  BY <1>1, <1>2
<1> QED
  BY <1>1, <1>3, SameSequence DEF a, b

LEMMA PrefixOfSlice ==
  ASSUME NEW S, NEW s \in Seq(S), NEW l \in Nat, NEW m \in Nat, NEW n \in Nat,
         l <= m, m <= n, n <= Len(s)
  PROVE  SubSeq(s, l + 1, m) = SubSeq(SubSeq(s, l + 1, n), 1, m - l)
<1> DEFINE a == SubSeq(s, l + 1, n)
           b == SubSeq(s, l + 1, m)
           c == SubSeq(a, 0 + 1, m - l)
<1>1. /\ a \in Seq(S) /\ Len(a) = n - l /\ \A k \in 1..(n - l) : a[k] = s[l + k]
      /\ b \in Seq(S) /\ Len(b) = m - l /\ \A k \in 1..(m - l) : b[k] = s[l + k]
  <2>1. l <= n /\ m <= Len(s)
    OBVIOUS
  <2> QED
    BY <2>1, SlicePlaces
<1>2. m - l \in Nat /\ m - l <= n - l /\ 0 \in Nat /\ 0 <= m - l
  OBVIOUS
<1> HIDE DEF a, b
<1> DEFINE w == m - l
<1>3. c \in Seq(S) /\ Len(c) = w - 0 /\ \A k \in 1..(w - 0) : c[k] = a[0 + k]
  BY <1>1, <1>2, SlicePlaces
<1> HIDE DEF c
<1>4. Len(c) = Len(b) /\ \A k \in 1..(m - l) : c[k] = b[k]
  <2>1. \A k \in 1..(m - l) : k \in 1..(n - l) /\ 0 + k = k
    OBVIOUS
  <2> QED
    BY <1>1, <1>2, <1>3, <2>1
<1> QED
  BY <1>1, <1>3, <1>4, SameSequence DEF a, b, c

LEMMA SliceAppended ==
  ASSUME NEW S, NEW s \in Seq(S), NEW m \in Nat, NEW n \in Nat, m <= n, n + 1 <= Len(s)
  PROVE  LET a == SubSeq(s, m + 1, n + 1)
         IN  a = Append(SubSeq(s, m + 1, n), s[n + 1]) /\ a[Len(a)] = s[n + 1]
<1> DEFINE a == SubSeq(s, m + 1, n + 1)
           b == SubSeq(s, m + 1, n)
           c == Append(b, s[n + 1])
<1>1. /\ a \in Seq(S) /\ Len(a) = n + 1 - m /\ \A k \in 1..(n + 1 - m) : a[k] = s[m + k]
      /\ b \in Seq(S) /\ Len(b) = n - m /\ \A k \in 1..(n - m) : b[k] = s[m + k]
  <2>1. n + 1 \in Nat /\ m <= n + 1 /\ n <= Len(s)
    OBVIOUS
  <2> QED
    BY <2>1, SlicePlaces
<1>2. s[n + 1] \in S
  OBVIOUS
<1> HIDE DEF a, b
<1>3. /\ c \in Seq(S) /\ Len(c) = n - m + 1
      /\ \A k \in 1..(n - m) : c[k] = b[k]
      /\ c[n - m + 1] = s[n + 1]
  BY <1>1, <1>2
<1> HIDE DEF c
<1>4. a[n + 1 - m] = s[n + 1]
  <2>1. n + 1 - m \in 1..(n + 1 - m) /\ m + (n + 1 - m) = n + 1
    OBVIOUS
  <2> QED
    BY <1>1, <2>1
<1>5. \A k \in 1..(n + 1 - m) : a[k] = c[k]
  <2> SUFFICES ASSUME NEW k \in 1..(n + 1 - m) PROVE a[k] = c[k]
    OBVIOUS
  <2>1. CASE k = n + 1 - m
    BY <1>3, <1>4, <2>1
  <2>2. CASE k # n + 1 - m
    <3>1. k \in 1..(n - m)
      BY <2>2
    <3> QED
      BY <1>1, <1>3, <3>1
  <2> QED
    BY <2>1, <2>2
<1>6. a = c
  BY <1>1, <1>3, <1>5, SameSequence
<1> QED
  BY <1>1, <1>4, <1>6 DEF a, b, c

-----------------------------------------------------------------------------
(* The activations that a stack of frames and a stack of operands stand    *)
(* for.                                                                    *)

EndOf(fs, s, i)   == IF i = Len(fs) THEN Len(s) ELSE fs[i + 1].base
SliceOf(fs, s, i) == SubSeq(s, fs[i].base + 1, EndOf(fs, s, i))

(* The frames' operands lie one after the other. *)
Laid(fs, s) ==
  /\ fs \in Seq(Frame) /\ s \in Seq(Json) /\ Len(fs) \in Nat /\ Len(s) \in Nat
  /\ \A i \in 1..Len(fs) : fs[i].base \in Nat /\ fs[i].base <= Len(s)
  /\ \A i, j \in 1..Len(fs) : i < j => fs[i].base <= fs[j].base

LEMMA ActivationsAre ==
  ASSUME NEW fs, NEW s, Laid(fs, s)
  PROVE  LET as == [i \in DOMAIN fs |-> SliceOf(fs, s, i)]
         IN  /\ Len(as) = Len(fs)
             /\ \A i \in 1..Len(fs) : as[i] = SliceOf(fs, s, i)
<1> DEFINE as == [i \in DOMAIN fs |-> SliceOf(fs, s, i)]
           T == {SliceOf(fs, s, i) : i \in 1..Len(fs)}
<1>1. DOMAIN fs = 1..Len(fs) /\ Len(fs) \in Nat
  BY DEF Laid
<1>2. as \in [1..Len(fs) -> T]
  BY <1>1
<1>3. \A i \in 1..Len(fs) : as[i] = SliceOf(fs, s, i)
  BY <1>1
<1>4. DOMAIN as = 1..Len(fs)
  BY <1>1
<1> HIDE DEF as, T
<1>5. as \in Seq(T)
  BY <1>1, <1>2, FunctionIsSeq
<1>6. Len(as) = Len(fs)
  <2> DEFINE n == Len(fs)
  <2>1. DOMAIN as = 1..n /\ n \in Nat
    BY <1>1, <1>4
  <2> HIDE DEF n
  <2>2. Len(as) \in Nat /\ DOMAIN as = 1..Len(as)
    BY <1>5, PlacesOf
  <2>3. Len(as) = n
    BY <2>1, <2>2
  <2> QED
    BY <2>3 DEF n
<1> QED
  BY <1>3, <1>6 DEF as

LEMMA LaidNow ==
  ASSUME Inv, StackInv, status = "running" PROVE Laid(frames, stack)
<1>1. /\ frames \in Seq(Frame) /\ stack \in Seq(Json)
      /\ \A i \in 1..Len(frames) : frames[i].base \in Nat
  BY FrameCertified DEF Inv, FramesGood, StackGood
<1>2. DOMAIN frames = 1..Len(frames) /\ Len(frames) \in Nat /\ Len(stack) \in Nat
  BY <1>1
<1> QED
  BY <1>1, <1>2 DEF Laid, StackInv, OperandsNested

LEMMA LaidNext ==
  ASSUME Inv', StackInv', status' = "running" PROVE Laid(frames', stack')
<1>1. /\ frames' \in Seq(Frame) /\ stack' \in Seq(Json)
      /\ \A i \in 1..Len(frames') : frames'[i] \in Frame
  BY DEF Inv, FramesGood, StackGood, FrameGood
<1>2. DOMAIN frames' = 1..Len(frames') /\ Len(frames') \in Nat /\ Len(stack') \in Nat
      /\ \A i \in 1..Len(frames') : frames'[i].base \in Nat
  BY <1>1 DEF Frame
<1> QED
  BY <1>1, <1>2 DEF Laid, StackInv, OperandsNested

LEMMA ActivationsSliced ==
  /\ Activations  = [i \in DOMAIN frames  |-> SliceOf(frames, stack, i)]
  /\ Activations' = [i \in DOMAIN frames' |-> SliceOf(frames', stack', i)]
BY DEF Activations, OperandsEnd, SliceOf, EndOf

(* An activation is the same before and after a step when its frame begins *)
(* and ends where it did and no operand below that end changed.            *)
LEMMA ActivationKept ==
  ASSUME NEW fs, NEW s, Laid(fs, s), NEW gs, NEW t, Laid(gs, t),
         NEW i \in 1..Len(fs), i < Len(fs), i < Len(gs), i \in 1..Len(gs),
         gs[i].base = fs[i].base, gs[i + 1].base = fs[i + 1].base,
         \A k \in 1..fs[i + 1].base : t[k] = s[k]
  PROVE  SliceOf(gs, t, i) = SliceOf(fs, s, i)
<1> DEFINE m == fs[i].base
           n == fs[i + 1].base
<1>1. i + 1 \in 1..Len(fs) /\ i + 1 \in 1..Len(gs) /\ i # Len(fs) /\ i # Len(gs) /\ i < i + 1
  BY DEF Laid
<1>2. m \in Nat /\ n \in Nat /\ m <= n /\ n <= Len(s) /\ n <= Len(t)
  BY <1>1 DEF Laid
<1>3. SliceOf(fs, s, i) = SubSeq(s, m + 1, n) /\ SliceOf(gs, t, i) = SubSeq(t, m + 1, n)
  BY <1>1 DEF SliceOf, EndOf
<1>4. s \in Seq(Json) /\ t \in Seq(Json)
  BY DEF Laid
<1> HIDE DEF m, n
<1>5. \A k \in 1..n : t[k] = s[k]
  BY DEF n
<1> QED
  BY <1>2, <1>3, <1>4, <1>5, SameSlice

-----------------------------------------------------------------------------
(* Every step of the machine is one of the abstract steps.                 *)

LEMMA BothLaid ==
  ASSUME Inv, StackInv, Inv', StackInv', status = "running", status' = "running"
  PROVE  /\ Laid(frames, stack) /\ Laid(frames', stack')
         /\ Len(Activations) = Len(frames)
         /\ Len(Activations') = Len(frames')
         /\ \A i \in 1..Len(frames) : Activations[i] = SliceOf(frames, stack, i)
         /\ \A i \in 1..Len(frames') : Activations'[i] = SliceOf(frames', stack', i)
<1>1. Laid(frames, stack) /\ Laid(frames', stack')
  BY LaidNow, LaidNext
<1>2. /\ Len(Activations) = Len(frames)
      /\ \A i \in 1..Len(frames) : Activations[i] = SliceOf(frames, stack, i)
  BY <1>1, ActivationsAre, ActivationsSliced
<1>3. /\ Len(Activations') = Len(frames')
      /\ \A i \in 1..Len(frames') : Activations'[i] = SliceOf(frames', stack', i)
  BY <1>1, ActivationsAre, ActivationsSliced
<1> QED
  BY <1>1, <1>2, <1>3

(* Steps that leave m frames as they were, and the operands below frame m, *)
(* keep the activations below frame m.                                     *)
LEMMA ActivationsKeptBelow ==
  ASSUME Inv, StackInv, Inv', StackInv', status = "running", status' = "running",
         NEW m \in Nat, 1 <= m, m <= Len(frames), m <= Len(frames'),
         \A i \in 1..m : frames'[i].base = frames[i].base,
         \A k \in 1..frames[m].base : stack'[k] = stack[k]
  PROVE  \A i \in 1..(m - 1) : Activations'[i] = Activations[i]
<1> SUFFICES ASSUME NEW i \in 1..(m - 1) PROVE Activations'[i] = Activations[i]
  OBVIOUS
<1>1. Laid(frames, stack) /\ Laid(frames', stack')
  BY BothLaid
<1>2. /\ i \in 1..Len(frames) /\ i \in 1..Len(frames')
      /\ i < Len(frames) /\ i < Len(frames')
      /\ i \in 1..m /\ i + 1 \in 1..m
      /\ i + 1 \in 1..Len(frames) /\ m \in 1..Len(frames)
      /\ i + 1 = m \/ i + 1 < m
  BY <1>1 DEF Laid
<1>3. frames'[i].base = frames[i].base /\ frames'[i + 1].base = frames[i + 1].base
  BY <1>2
<1>4. frames[i + 1].base <= frames[m].base /\ frames[i + 1].base \in Nat /\ frames[m].base \in Nat
  BY <1>1, <1>2 DEF Laid
<1>5. \A k \in 1..frames[i + 1].base : stack'[k] = stack[k]
  <2>1. \A k \in 1..frames[i + 1].base : k \in 1..frames[m].base
    BY <1>4
  <2> QED
    BY <2>1
<1>6. SliceOf(frames', stack', i) = SliceOf(frames, stack, i)
  BY <1>1, <1>2, <1>3, <1>5, ActivationKept
<1> QED
  BY <1>2, <1>6, BothLaid

LEMMA LocalComputes ==
  ASSUME Inv, StackInv, Inv', StackInv', Local PROVE Calls!Compute
<1>1. /\ status = "running" /\ status' = "running" /\ Fetching
      /\ Len(frames') = Len(frames)
      /\ \A i \in 1..(Len(frames) - 1) : frames'[i] = frames[i]
      /\ frames'[Len(frames)].base = Top.base
  BY DEF Local, Fetching
<1> DEFINE n == Len(frames)
<1>2. n \in 1..n /\ n \in Nat /\ 1 <= n /\ n <= Len(frames')
  BY <1>1, TopGood DEF Inv, FramesGood
<1> HIDE DEF n
<1>3. \A i \in 1..n : frames'[i].base = frames[i].base
  <2>1. \A i \in 1..n : i # n => i \in 1..(n - 1)
    BY <1>2
  <2> QED
    BY <1>1, <2>1 DEF n, Top
<1>4. \A k \in 1..frames[n].base : stack'[k] = stack[k]
  <2>1. /\ Top.base \in Nat /\ Len(stack) \in Nat /\ Pops(Instr) \in Nat
        /\ DepthAt(Top) \in Nat /\ Pops(Instr) <= DepthAt(Top)
        /\ DepthAt(Top) <= Len(stack) - Top.base
    BY <1>1, InstrCertified
  <2>2. Top.base <= Len(stack) - Pops(Instr)
    BY <2>1
  <2>3. \A k \in 1..Top.base : k \in 1..(Len(stack) - Pops(Instr))
    BY <2>1, <2>2
  <2>4. \A k \in 1..(Len(stack) - Pops(Instr)) : stack'[k] = stack[k]
    BY DEF Local
  <2> QED
    BY <2>3, <2>4 DEF n, Top
<1>5. n <= Len(frames)
  BY <1>2 DEF n
<1>6. \A i \in 1..(n - 1) : Activations'[i] = Activations[i]
  BY <1>1, <1>2, <1>3, <1>4, <1>5, ActivationsKeptBelow
<1>7. Len(Activations) = n /\ Len(Activations') = n
  BY <1>1, BothLaid DEF n
<1> QED
  BY <1>6, <1>7 DEF Calls!Compute, Calls!KeptBelow, Calls!Running

LEMMA CallingEnters ==
  ASSUME Inv, StackInv, Inv', StackInv', Calling PROVE Calls!Enter
<1> DEFINE n == Len(frames)
           m == Pops(Instr)
<1>1. /\ status = "running" /\ status' = "running" /\ Fetching
      /\ Instr.opcode = "CALL"
      /\ Len(frames') = n + 1
      /\ \A i \in 1..(n - 1) : frames'[i] = frames[i]
      /\ frames'[n].base = frames[n].base
      /\ frames'[n + 1].base = Len(stack')
      /\ Len(stack') = Len(stack) - m
      /\ \A k \in 1..Len(stack') : stack'[k] = stack[k]
  BY DEF Calling, Fetching, Top
<1>2. n \in 1..n /\ n \in Nat /\ 1 <= n /\ n <= n + 1 /\ n + 1 \in Nat
  BY <1>1, TopGood DEF Inv, FramesGood
<1>3. /\ frames[n].base \in Nat /\ m \in Nat /\ m >= 1
      /\ Len(stack) \in Nat /\ Len(stack') \in Nat
      /\ frames[n].base <= Len(stack') /\ Len(stack') <= Len(stack)
  <2>1. /\ Top.base \in Nat /\ Len(stack) \in Nat /\ m \in Nat
        /\ DepthAt(Top) \in Nat /\ m <= DepthAt(Top)
        /\ DepthAt(Top) <= Len(stack) - Top.base
    BY <1>1, InstrCertified
  <2>2. Instr.operand \in Nat /\ m = Instr.operand + 1
    BY <1>1, InstrGood DEF Pops, ConstantOps, ArithmeticOps, ComparisonOps
  <2>3. m >= 1
    BY <2>2
  <2> HIDE DEF m
  <2>4. /\ Len(stack') = Len(stack) - m /\ Top.base <= Len(stack') /\ Len(stack') \in Nat
        /\ Len(stack') <= Len(stack)
    BY <1>1, <2>1, <2>3
  <2> QED
    BY <2>1, <2>3, <2>4 DEF Top
<1> HIDE DEF n, m
<1>4. \A i \in 1..n : frames'[i].base = frames[i].base
  <2>1. \A i \in 1..n : i # n => i \in 1..(n - 1)
    BY <1>2
  <2> QED
    BY <1>1, <2>1
<1>5. \A k \in 1..frames[n].base : stack'[k] = stack[k]
  <2>1. \A k \in 1..frames[n].base : k \in 1..Len(stack')
    BY <1>3
  <2> QED
    BY <1>1, <2>1
<1>6. n <= Len(frames) /\ n <= Len(frames')
  BY <1>1, <1>2 DEF n
<1>7. \A i \in 1..(n - 1) : Activations'[i] = Activations[i]
  BY <1>1, <1>2, <1>4, <1>5, <1>6, ActivationsKeptBelow
<1>8. /\ Laid(frames, stack) /\ Laid(frames', stack')
      /\ Len(Activations) = n /\ Len(Activations') = n + 1
      /\ Activations[n] = SliceOf(frames, stack, n)
      /\ Activations'[n] = SliceOf(frames', stack', n)
      /\ Activations'[n + 1] = SliceOf(frames', stack', n + 1)
  <2>1. n \in 1..(n + 1) /\ n + 1 \in 1..(n + 1)
    BY <1>2
  <2> QED
    BY <1>1, <1>2, <2>1, BothLaid DEF n
<1> DEFINE b == frames[n].base
           mine == SubSeq(stack, b + 1, Len(stack))
           rest == SubSeq(stack, b + 1, Len(stack'))
<1>9. stack \in Seq(Json) /\ stack' \in Seq(Json)
  BY <1>8 DEF Laid
<1>10. Activations[n] = mine /\ Len(mine) = Len(stack) - b
  <2>1. Activations[n] = mine
    BY <1>8 DEF SliceOf, EndOf, n
  <2> QED
    BY <1>3, <1>9, <2>1, SlicePlaces
<1>11. Activations'[n] = rest
  <2>1. n # n + 1 /\ Len(frames') = n + 1
    BY <1>1, <1>2
  <2>2. Activations'[n] = SubSeq(stack', b + 1, Len(stack'))
    BY <1>1, <1>8, <2>1 DEF SliceOf, EndOf
  <2>3. SubSeq(stack', b + 1, Len(stack')) = rest
    <3> DEFINE start == b
               end   == Len(stack')
    <3>1. /\ start \in Nat /\ end \in Nat /\ start <= end /\ end <= Len(stack)
          /\ end <= Len(stack') /\ \A k \in 1..end : stack'[k] = stack[k]
      BY <1>1, <1>3
    <3> HIDE DEF start, end
    <3>2. SubSeq(stack', start + 1, end) = SubSeq(stack, start + 1, end)
      BY <1>9, <3>1, SameSlice
    <3> QED
      BY <3>2 DEF start, end
  <2> QED
    BY <2>2, <2>3
<1>12. rest = SubSeq(mine, 1, Len(mine) - m)
  <2>1. rest = SubSeq(mine, 1, Len(stack') - b)
    BY <1>3, <1>9, PrefixOfSlice
  <2>2. Len(stack') - b = Len(mine) - m
    BY <1>1, <1>3, <1>10
  <2> QED
    BY <2>1, <2>2
<1>13. m \in 1..Len(mine)
  BY <1>1, <1>3, <1>10
<1>14. Activations'[n + 1] = <<>>
  <2>1. Activations'[n + 1] = SubSeq(stack', Len(stack') + 1, Len(stack'))
    BY <1>1, <1>8 DEF SliceOf, EndOf
  <2> DEFINE empty == SubSeq(stack', Len(stack') + 1, Len(stack'))
  <2>2. empty \in Seq(Json) /\ Len(empty) = 0
    BY <1>3, <1>9, SlicePlaces
  <2> HIDE DEF empty
  <2>3. empty = <<>>
    BY <2>2
  <2> QED
    BY <2>1, <2>3 DEF empty
<1> HIDE DEF mine, rest
<1>15. \E k \in 1..Len(Activations[n]) :
         Activations'[n] = SubSeq(Activations[n], 1, Len(Activations[n]) - k)
  BY <1>10, <1>11, <1>12, <1>13
<1> QED
  BY <1>7, <1>8, <1>14, <1>15 DEF Calls!Enter, Calls!KeptBelow, Calls!Running

LEMMA ReturningLeaves ==
  ASSUME Inv, StackInv, Inv', StackInv', Returning PROVE Calls!Leave
<1> DEFINE n == Len(frames)
<1>1. /\ status = "running" /\ status' = "running" /\ Fetching
      /\ n > 1 /\ Len(frames') = n - 1
      /\ \A i \in 1..(n - 1) : frames'[i] = frames[i]
      /\ Len(stack') = frames[n].base + 1
      /\ \A k \in 1..frames[n].base : stack'[k] = stack[k]
  BY DEF Returning, Fetching, Top
<1>2. n \in 1..n /\ n \in Nat
  BY <1>1, TopGood DEF Inv, FramesGood
<1> HIDE DEF n
<1> DEFINE c == n - 1
<1>3. /\ c \in Nat /\ 1 <= c /\ c <= n /\ c \in 1..n /\ c + 1 = n /\ c < n
      /\ c # n /\ c \in 1..c
  BY <1>1, <1>2
<1>4. /\ Laid(frames, stack) /\ Laid(frames', stack')
      /\ Len(Activations) = n /\ Len(Activations') = c
      /\ Activations[c] = SliceOf(frames, stack, c)
      /\ Activations'[c] = SliceOf(frames', stack', c)
  BY <1>1, <1>3, BothLaid DEF n
<1> HIDE DEF c
<1> DEFINE b == frames[c].base
           e == frames[n].base
<1>5. /\ b \in Nat /\ e \in Nat /\ b <= e /\ e <= Len(stack)
      /\ stack \in Seq(Json) /\ stack' \in Seq(Json)
  BY <1>2, <1>3, <1>4 DEF Laid, n
<1>6. \A i \in 1..c : frames'[i].base = frames[i].base
  BY <1>1 DEF c
<1>7. \A i \in 1..(c - 1) : Activations'[i] = Activations[i]
  <2>1. c <= Len(frames) /\ c <= Len(frames')
    BY <1>1, <1>3 DEF n, c
  <2>2. \A k \in 1..b : k \in 1..e
    BY <1>5
  <2>3. \A k \in 1..b : stack'[k] = stack[k]
    BY <1>1, <2>2
  <2> QED
    BY <1>1, <1>3, <1>6, <2>1, <2>3, ActivationsKeptBelow
<1> DEFINE kept == SubSeq(stack, b + 1, e)
           got  == SubSeq(stack', b + 1, e + 1)
           v    == stack'[e + 1]
<1>8. Activations[c] = kept
  BY <1>3, <1>4 DEF SliceOf, EndOf, n
<1>9. Activations'[c] = got
  <2>1. Len(frames') = c
    BY <1>1 DEF c
  <2>2. EndOf(frames', stack', c) = e + 1
    BY <1>1, <2>1 DEF EndOf
  <2>3. frames'[c].base = b
    BY <1>3, <1>6
  <2> QED
    BY <1>4, <2>2, <2>3 DEF SliceOf
<1>10. got = Append(kept, v) /\ got[Len(got)] = v
  <2>1. SubSeq(stack', b + 1, e) = kept
    <3> DEFINE start == b
               end   == e
    <3>1. /\ start \in Nat /\ end \in Nat /\ start <= end /\ end <= Len(stack)
          /\ end <= Len(stack') /\ \A k \in 1..end : stack'[k] = stack[k]
      BY <1>1, <1>5
    <3> HIDE DEF start, end
    <3>2. SubSeq(stack', start + 1, end) = SubSeq(stack, start + 1, end)
      BY <1>5, <3>1, SameSlice
    <3> QED
      BY <3>2 DEF start, end
  <2>2. e + 1 <= Len(stack')
    BY <1>1, <1>5
  <2>3. /\ got = Append(SubSeq(stack', b + 1, e), v)
        /\ got[Len(got)] = v
    BY <1>5, <2>2, SliceAppended
  <2> QED
    BY <2>1, <2>3
<1> HIDE DEF kept, got, v
<1>11. \E w \in {Activations'[c][Len(Activations'[c])]} :
         Activations'[c] = Append(Activations[c], w)
  BY <1>8, <1>9, <1>10
<1>12. Len(Activations) = n /\ n > 1 /\ Len(Activations') = n - 1 /\ n - 1 = c
  BY <1>1, <1>4 DEF c
<1> QED
  BY <1>7, <1>11, <1>12 DEF Calls!Leave, Calls!KeptBelow, Calls!Running

LEMMA StepsRefine ==
  ASSUME Inv, StackInv, Inv', StackInv', [Next]_vars
  PROVE  [Calls!CallStackNext]_<<Activations, status # "running">>
<1>1. CASE Local \/ Calling \/ Returning
  <2>1. status = "running" /\ status' = "running"
    BY <1>1 DEF Local, Calling, Returning, Fetching
  <2>2. Calls!Compute \/ Calls!Enter \/ Calls!Leave
    BY <1>1, LocalComputes, CallingEnters, ReturningLeaves
  <2>3. (status # "running") = FALSE /\ (status' # "running") = FALSE
    BY <2>1
  <2> QED
    BY <2>2, <2>3 DEF Calls!CallStackNext, Calls!Proceed
<1>2. CASE Ending
  <2>1. (status # "running") = FALSE /\ (status' # "running") = TRUE
    BY <1>2 DEF Ending, Final
  <2> QED
    BY <2>1 DEF Calls!CallStackNext, Calls!Stop
<1>3. CASE UNCHANGED vars
  <2>1. frames' = frames /\ stack' = stack /\ status' = status
    BY <1>3 DEF vars
  <2>2. Activations' = Activations
    BY <2>1, ActivationsSliced
  <2> QED
    BY <2>1, <2>2
<1> QED
  BY <1>1, <1>2, <1>3, StepKinds

LEMMA InitRefines == ASSUME Init PROVE Calls!CallStackInit
<1>1. status = "running" /\ Inv /\ StackInv /\ Len(frames) = 1 /\ frames[1].base = 0
      /\ stack = <<>> /\ DOMAIN frames = 1..1
  BY InitGood, InitStackInv DEF Init
<1>2. Laid(frames, stack)
  BY <1>1, LaidNow
<1>3. Activations = [i \in 1..1 |-> SliceOf(frames, stack, i)]
  BY <1>1, ActivationsSliced
<1>4. SliceOf(frames, stack, 1) = <<>>
  BY <1>1 DEF SliceOf, EndOf
<1>5. Activations = << <<>> >>
  <2>1. Activations = [i \in 1..1 |-> <<>>]
    BY <1>3, <1>4
  <2> QED
    BY <2>1
<1> QED
  BY <1>1, <1>5 DEF Calls!CallStackInit

(* The virtual machine, running code that has a depth certificate, keeps   *)
(* the promise of CallStack: operands are private to an activation, a call *)
(* takes its callee and arguments, a return delivers exactly one operand.  *)
THEOREM StacksImplementCallStack == Spec => ImplementsCallStack
<1>1. Init => Calls!CallStackInit
  BY InitRefines
<1>2. Inv /\ StackInv /\ Inv' /\ StackInv' /\ [Next]_vars =>
        [Calls!CallStackNext]_<<Activations, status # "running">>
  BY StepsRefine
<1> QED
  BY <1>1, <1>2, StackInvariance, PTL DEF Spec, ImplementsCallStack, Calls!CallStackSpec
=============================================================================
