----------------------------- MODULE CallStack ------------------------------
(***************************************************************************)
(* What the virtual machine promises about calls: every activation has     *)
(* operands of its own, which nobody else touches while it is suspended; a *)
(* call takes the callee and its arguments away from the caller, and gives *)
(* it exactly one operand back when the callee returns.                    *)
(***************************************************************************)
EXTENDS Integers, Sequences

VARIABLES
  activations,   \* the operands of every activation, the running one last
  over           \* the run has returned, thrown, or stopped being defined

Running == Len(activations)

CallStackInit == activations = << <<>> >> /\ over = FALSE

(* Every activation below the given one keeps its operands. *)
KeptBelow(k) == \A i \in 1..(k - 1) : activations'[i] = activations[i]

(* The running activation computes. *)
Compute ==
  /\ Len(activations') = Running
  /\ KeptBelow(Running)

(* It calls: the callee and n arguments leave its operands.                *)
Enter ==
  /\ Len(activations') = Running + 1
  /\ KeptBelow(Running)
  /\ \E n \in 1..Len(activations[Running]) :
       activations'[Running] =
         SubSeq(activations[Running], 1, Len(activations[Running]) - n)
  /\ activations'[Running + 1] = <<>>

(* It returns to its caller, which gets one operand more.                  *)
Leave ==
  /\ Running > 1
  /\ Len(activations') = Running - 1
  /\ KeptBelow(Running - 1)
  /\ \E v \in {activations'[Running - 1][Len(activations'[Running - 1])]} :
       activations'[Running - 1] = Append(activations[Running - 1], v)

Proceed == over = FALSE /\ over' = FALSE /\ (Compute \/ Enter \/ Leave)

Stop == over = FALSE /\ over' = TRUE

CallStackNext == Proceed \/ Stop

CallStackSpec == CallStackInit /\ [][CallStackNext]_<<activations, over>>
=============================================================================
