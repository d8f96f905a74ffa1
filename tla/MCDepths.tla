------------------------------ MODULE MCDepths ------------------------------
(***************************************************************************)
(* Computes the depth certificates of compiled chunks: the least depth at  *)
(* every address, carried along the successors until nothing changes, in   *)
(* at most one pass per instruction.                                       *)
(***************************************************************************)
EXTENDS VMStack, FiniteSetsExt

(* What an instruction leaves to its successors: {<<address, depth>>}. *)
Carried(depth, code, ip) ==
  IF ip >= Len(code) THEN {}
  ELSE {<<next, depth[ip] - Pops(code[ip + 1]) + Pushes(code[ip + 1])>> :
          next \in Successors(code[ip + 1], ip)}

Pass(depth, code) ==
  LET carried == {<<ip, depth[ip]>> : ip \in DOMAIN depth} \cup
                 UNION {Carried(depth, code, ip) : ip \in DOMAIN depth}
      reached == {r[1] : r \in carried}
  IN  [ip \in reached |->
         LET least == {r[2] : r \in {q \in carried : q[1] = ip}}
         IN  CHOOSE m \in least : \A k \in least : m <= k]

RECURSIVE Settled(_, _, _)
Settled(depth, code, passes) ==
  LET next == Pass(depth, code)
  IN  IF passes = 0 \/ next = depth THEN depth ELSE Settled(next, code, passes - 1)

ChunkDepths(code) == Settled([ip \in {0} |-> 0], code, Len(code) + 1)

ImageDepths(chunks) == [c \in 1..Len(chunks) |-> ChunkDepths(chunks[c].code)]
=============================================================================
