----------------------------- MODULE MCConsole ------------------------------
(***************************************************************************)
(* Lines: the empty one, one that leaves a brace open, one without braces. *)
(***************************************************************************)
EXTENDS Console

ThreeLines == {<<>>, <<"{">>, <<"x">>}
=============================================================================
