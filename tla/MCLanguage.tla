----------------------------- MODULE MCLanguage -----------------------------
(***************************************************************************)
(* The programs about statements, data and operators; and code that runs   *)
(* out, which no compiler emits.                                           *)
(***************************************************************************)
EXTENDS CompilerCorrectness, Compiler, MCPrograms, MCRunOff

Ordinary ==
  SlotPrograms \o DeclaredPrograms \o UnwindingPrograms \o DataPrograms \o OperatorPrograms
Names    == Ordinary \o BareConditionPrograms

(* Written out as sequences, so that TLC computes them once. *)
Images ==
  LET names == Names IN [p \in DOMAIN names |-> Compile(Levels, Tree(names[p]))] \o <<>>
Intended ==
  LET names == Names IN [p \in DOMAIN names |-> Meaning(Tree(names[p]))] \o <<>>
AllImages == Images \o RunOffImages

(* The values of the constants.  Each LET keeps the statistics of TLC from *)
(* unfolding the compiler wherever a constant is mentioned.                *)
MCImage    == LET images == AllImages IN images
MCMeanings == LET meanings == Intended IN meanings

(* A condition that is a bare name compiles to nothing: a run of its own. *)
BareConditionsOnly == Len(Ordinary) + 1 .. Len(Names)

MCProgram == (1 .. Len(Names) + Len(RunOffImages)) \ BareConditionsOnly

(* What is proved of compiled programs is proved of these.                 *)
ASSUME ProgramsAreTrees ==
  \A p \in DOMAIN Ordinary : Tree(Ordinary[p]) \in ProgramTrees[Levels].statment

ASSUME SlotsAreThere == \A p \in DOMAIN Images : \A k \in DOMAIN Images[p] : SlotsOK(Images[p][k])

(* An array that was put into itself and that no variable names any more:  *)
(* the breaker, which starts from variables, does not come to it.          *)
LetGo(cell) ==
  /\ cell[1] = "Array" /\ cell \in HeldBy(cell)
  /\ \A s \in DOMAIN heap.scopes : cell \notin CellsOf(Range(heap.scopes[s].vars))

(* No scope, array or object of a compiled program holds itself when the   *)
(* run is over, and where code ran out only arrays do that the code put    *)
(* into themselves and let go of: whatever frames are dropped at the end   *)
(* of the code, their scopes and all that a variable reached are freed.    *)
OnlyLetGoLeaks ==
  status = "halted" =>
    IF program \in DOMAIN Names THEN HeldForever = {}
                                ELSE \A cell \in HeldForever : LetGo(cell)

(* Every compiled program means what the language says. *)
CompiledAgrees == program \in DOMAIN Ordinary => Agrees
=============================================================================
