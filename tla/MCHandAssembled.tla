-------------------------- MODULE MCHandAssembled ---------------------------
(***************************************************************************)
(* VM::run executes any chunk it is given.  Here: every short chunk, also  *)
(* with the opcodes the compiler never emits (PUSH_BOOL, NOT, POP, a       *)
(* PUSH_NULL that is not followed by RETURN), that has a certificate.      *)
(*                                                                         *)
(*   top:   MAKE_CLOSURE 0, CALL 0, and up to three of Tails                *)
(*   body:  up to three of Bodies                                          *)
(***************************************************************************)
EXTENDS MCDepths, SequencesExt

Op(opcode, operand) == [opcode |-> opcode, operand |-> operand]

Tails  == <<Op("PRINT", 0), Op("POP", 0), Op("NOT", 0), Op("RETURN", 0), Op("JUMP_IF_FALSE", 3)>>
Bodies == <<Op("PUSH_BOOL", 0), Op("PUSH_BOOL", 1), Op("PUSH_NULL", 0), Op("NOT", 0),
            Op("POP", 0), Op("RETURN", 0), Op("JUMP_IF_FALSE", 0)>>

(* The sequences of up to three indices of a list; 0 ends a sequence. *)
Indices(list) ==
  LET n == Len(list) + 1
      digits(k) == <<k % n, (k \div n) % n, k \div (n * n)>>
      ended(d) == (d[1] = 0 => d[2] = 0) /\ (d[2] = 0 => d[3] = 0)
      chosen == SelectSeq([k \in 1 .. n * n * n |-> digits(k - 1)], ended)
  IN  [k \in DOMAIN chosen |-> SelectSeq(chosen[k], LAMBDA i : i # 0)]

ChunkOf(code, protos) ==
  [code |-> code, ints |-> <<>>, strings |-> <<>>, protos |-> protos,
   params |-> <<>>, num_locals |-> 0]

TopCode(tail)  == <<Op("MAKE_CLOSURE", 0), Op("CALL", 0)>> \o [i \in DOMAIN tail |-> Tails[tail[i]]]
BodyCode(body) == [i \in DOMAIN body |-> Bodies[body[i]]]

(* The sequences whose code has a certificate, with it. *)
Certified(CodeOf(_), list, top) ==
  LET indices == Indices(list)
      all == [k \in DOMAIN indices |->
                [code |-> CodeOf(indices[k]), depths |-> ChunkDepths(CodeOf(indices[k]))]]
  IN  SelectSeq(all, LAMBDA c : Certifies(c.depths, c.code, top))

(* Every tail with every body: the images and their certificates. *)
HandAssembled ==
  LET tops   == Certified(TopCode, Tails, TRUE)
      bodies == Certified(BodyCode, Bodies, FALSE)
      n == Len(bodies)
  IN  [p \in 1 .. Len(tops) * n |->
         LET top == tops[1 + (p - 1) \div n]
             body == bodies[1 + ((p - 1) % n)]
         IN  [image |-> <<ChunkOf(top.code, <<2>>), ChunkOf(body.code, <<>>)>>,
              depths |-> <<top.depths, body.depths>>]] \o <<>>
=============================================================================
