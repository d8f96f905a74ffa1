---------------------------- MODULE MCFunctions -----------------------------
(***************************************************************************)
(* The programs whose functions outlive the function that made them, are   *)
(* handed to others, or are made two levels down; and, for what concerns   *)
(* the stacks, code that no compiler emitted.                              *)
(***************************************************************************)
EXTENDS CompilerCorrectness, Compiler, MCHandAssembled, MCPrograms

Names == EscapingClosures \o HigherOrderPrograms

(* Written out as sequences, so that TLC computes them once. *)
Images ==
  LET names == Names IN [p \in DOMAIN names |-> Compile(Levels, Tree(names[p]))] \o <<>>
Intended ==
  LET names == Names IN [p \in DOMAIN names |-> Meaning(Tree(names[p]))] \o <<>>
Depths ==
  LET images == Images IN [p \in DOMAIN images |-> ImageDepths(images[p])] \o <<>>

(* The compiled programs, then the ones assembled by hand. *)
AllImages ==
  LET hand == HandAssembled IN Images \o [p \in DOMAIN hand |-> hand[p].image]
AllDepths ==
  LET hand == HandAssembled IN Depths \o [p \in DOMAIN hand |-> hand[p].depths]

(* The values of the constants.  Each LET keeps the statistics of TLC from *)
(* unfolding the compiler wherever a constant is mentioned.                *)
MCImage    == LET images == AllImages IN images
MCMeanings == LET meanings == Intended IN meanings
MCDepth    == LET depths == AllDepths IN depths

MCProgram == 1 .. Len(Names) + Len(HandAssembled)

(* What is proved of compiled programs is proved of these.                 *)
ASSUME ProgramsAreTrees ==
  \A p \in DOMAIN Names : Tree(Names[p]) \in ProgramTrees[Levels].statment

ASSUME SlotsAreThere == \A p \in DOMAIN Images : \A k \in DOMAIN Images[p] : SlotsOK(Images[p][k])

(* What the virtual machine gets wrong: a function that refers to itself   *)
(* by name, that escapes in a container, or that its maker kept in a       *)
(* variable before returning it.                                           *)
RefersToItself(name) == name.family = "closures" /\ Recursive(name.number)
InContainer(name)    == name.family = "closures" /\ Contained(name.number)
KeptByMaker(name)    == name.family = "higher order" /\ HeldByMaker(name.number)

RecursivePrograms ==
  {p \in DOMAIN Names : RefersToItself(Names[p]) /\ ~ InContainer(Names[p])}
HeldPrograms == {p \in DOMAIN Names : KeptByMaker(Names[p])}

(* Functions that escape, are handed on, or are made two levels down mean  *)
(* what they should, but for those.                                        *)
EscapingFunctionsWork ==
  \/ program > Len(Names)
  \/ RefersToItself(Names[program])
  \/ InContainer(Names[program])
  \/ KeptByMaker(Names[program])
  \/ Agrees
=============================================================================
