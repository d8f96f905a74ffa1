------------------------------ MODULE MCRunOff ------------------------------
(***************************************************************************)
(* Chunks whose code runs out anywhere: in the top chunk, in a function it *)
(* called, or in a function that one called.  VM::run then drops every     *)
(* frame in the loop after the dispatch loop.  The bodies are sequences of *)
(* fragments that bind closures, put them into arrays, and call.           *)
(***************************************************************************)
EXTENDS Integers, Sequences

Op(opcode, operand) == [opcode |-> opcode, operand |-> operand]

Strings == <<"f", "g", "a">>
LoadName(i)  == Op("LOAD", i - 1)
StoreName(i) == Op("STORE_LOCAL", i - 1)

(* The fragments of f's body; its one prototype is g.  The fourth one puts *)
(* an array into itself.                                                   *)
FragmentsOfF ==
  << <<>>,
     <<Op("MAKE_CLOSURE", 0), StoreName(2)>>,
     <<Op("MAKE_CLOSURE", 0), Op("MAKE_ARRAY", 1), StoreName(3)>>,
     <<Op("MAKE_ARRAY", 0), StoreName(3), LoadName(3), Op("PUSH_INT", 0), LoadName(3),
       Op("SET_MEMBER", 0)>>,
     <<Op("MAKE_CLOSURE", 0), Op("CALL", 0)>>,
     <<Op("PUSH_INT", 0), Op("RETURN", 0)>> >>

FragmentsOfG ==
  << <<>>,
     <<LoadName(2), StoreName(3)>>,
     <<LoadName(1), StoreName(1), Op("PUSH_INT", 0)>>,
     <<Op("PUSH_INT", 0), Op("RETURN", 0)>> >>

TopCode(returns) ==
  <<Op("MAKE_CLOSURE", 0), StoreName(1), LoadName(1), Op("CALL", 0)>>
  \o (IF returns THEN <<Op("RETURN", 0)>> ELSE <<>>)

ChunkOf(code, protos) ==
  [code |-> code, ints |-> <<0>>, strings |-> Strings, protos |-> protos,
   params |-> <<>>, num_locals |-> 0]

(* Three fragments of f, one of g, and whether the top chunk returns. *)
RunOff(p) ==
  LET f(q) == FragmentsOfF[1 + ((p \div q) % 6)]
  IN  <<ChunkOf(TopCode((p \div 864) % 2 = 1), <<2>>),
        ChunkOf(f(1) \o f(6) \o f(36), <<3>>),
        ChunkOf(FragmentsOfG[1 + ((p \div 216) % 4)], <<>>)>>

RunOffImages == [p \in 1..1728 |-> RunOff(p - 1)] \o <<>>
=============================================================================
