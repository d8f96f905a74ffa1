------------------------------ MODULE VMStack -------------------------------
(***************************************************************************)
(* The discipline of the operand stack.                                    *)
(*                                                                         *)
(* The virtual machine never checks that an operand it pops is there: it   *)
(* relies on the compiler to emit code that only pops what it pushed.      *)
(* Depth holds the certificates of that, one for every chunk.              *)
(***************************************************************************)
EXTENDS VMProperties

CONSTANT Depth   \* Depth[p][c]: from the addresses chunk c can come to

ASSUME DepthAssumption ==
  \A p \in Program : \A c \in 1..Len(Image[p]) :
    Certifies(Depth[p][c], Image[p][c].code, c = 1)

-----------------------------------------------------------------------------

DepthAt(frame) == Depth[program][frame.chunk][frame.ip]

(* Where the operands of frame i end. *)
OperandsEnd(i) == IF i = Len(frames) THEN Len(stack) ELSE frames[i + 1].base

(* Every frame has the operands its code counts on; a suspended one waits  *)
(* for one more, the result of its callee.                                 *)
EnoughOperands ==
  status = "running" =>
    \A i \in DOMAIN frames :
      /\ frames[i].ip \in DOMAIN Depth[program][frames[i].chunk]
      /\ DepthAt(frames[i]) <=
           OperandsEnd(i) - frames[i].base + (IF i = Len(frames) THEN 0 ELSE 1)

(* Only the outermost frame runs the top chunk. *)
TopChunkOutermost ==
  \A i \in DOMAIN frames : (frames[i].chunk = 1) = (i = 1)

(* No instruction pops an operand that is not its own activation's.        *)
OwnOperandsOnly == Fetching => Len(stack) - Top.base >= Pops(Instr)

(* The abstract activations that the two stacks stand for.                 *)
Activations ==
  [i \in DOMAIN frames |-> SubSeq(stack, frames[i].base + 1, OperandsEnd(i))]

Calls == INSTANCE CallStack WITH
           activations <- Activations,
           over        <- status # "running"

(* The two stacks of the virtual machine implement activations that keep   *)
(* their operands to themselves.                                           *)
ImplementsCallStack == Calls!CallStackSpec
=============================================================================
