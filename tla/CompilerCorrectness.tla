------------------------ MODULE CompilerCorrectness -------------------------
(***************************************************************************)
(* The compiler and the virtual machine, together, against the reference   *)
(* semantics of the language.                                              *)
(***************************************************************************)
EXTENDS VMProperties, LanguageSemantics

CONSTANT
  Meanings   \* what every program means

(* What a run shows once it is over. *)
Observed ==
  [output |-> output,
   result |-> IF status = "thrown" THEN <<"thrown">>
              ELSE Shown(heap.arrays, heap.objects, result)]

(* A run that is over has shown what the program means: it printed the     *)
(* same values in the same order, and it returned the same value or threw  *)
(* where the program is in error.                                          *)
Agrees == status \in Final => NeverUndefined /\ Observed = Meanings[program]
=============================================================================
