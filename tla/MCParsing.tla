----------------------------- MODULE MCParsing ------------------------------
(***************************************************************************)
(* Well-formed texts: expressions in every place, chains of operators, and *)
(* every 13th, 7th, ... of the programs that the compiler and the virtual  *)
(* machine are checked with.  After them come the texts that went wrong in *)
(* one place, which have no tree.                                          *)
(***************************************************************************)
EXTENDS ParserCorrectness

E == INSTANCE MCForms
C == INSTANCE MCChains
P == INSTANCE MCPrograms
D == INSTANCE MCEdits

Every(n, family) == [i \in 1 .. Len(family) \div n |-> family[n * i]]

Programs ==
  Every(13, P!EscapingClosures) \o Every(7, P!HigherOrderPrograms)
    \o Every(53, P!SlotPrograms) \o Every(59, P!DataPrograms)
    \o Every(23, P!OperatorPrograms) \o P!BareConditionPrograms

WrittenPrograms ==
  LET programs == Programs
  IN  E!Written([i \in DOMAIN programs |-> P!Tree(programs[i])])

(* The trees and the texts, apart. *)
TreesOf(written) == [i \in DOMAIN written |-> written[i].tree]
TextsOf(written) == [i \in DOMAIN written |-> written[i].text]

WellFormed == E!Forms \o C!ReadableChains \o WrittenPrograms

(* Written out as sequences, so that TLC computes them once. *)
WellFormedTrees == LET written == WellFormed IN TreesOf(written) \o <<>>
AllTexts == LET written == WellFormed IN TextsOf(written) \o D!EditedTexts

MCTrees == WellFormedTrees
MCTexts == AllTexts

(* The families that show what goes wrong. *)
NamesTrees == LET written == E!NamesBeforeBrackets IN TreesOf(written)
NamesTexts == LET written == E!NamesBeforeBrackets IN TextsOf(written)

DividedTrees == LET written == C!DividedChains IN TreesOf(written)
DividedTexts == LET written == C!DividedChains IN TextsOf(written)
=============================================================================
