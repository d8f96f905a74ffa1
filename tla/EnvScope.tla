------------------------------ MODULE EnvScope ------------------------------
(***************************************************************************)
(* Lexical environments (class EnvScope of the bytecode interpreter).      *)
(*                                                                         *)
(* The scopes a run allocates are numbered from 1 in the order of their    *)
(* allocation; `scopes' is the sequence of them and 0 is a null pointer.   *)
(* A scope is                                                              *)
(*   parent        mParent                                                 *)
(*   vars          mVaribleByKey, a function from the bound names          *)
(*   has_closures  the flag that lets RETURN skip the cycle breaker        *)
(***************************************************************************)
EXTENDS JsonValues

NewScope(parent) ==
  [parent |-> parent, vars |-> [x \in {} |-> NullJson], has_closures |-> FALSE]

(* The nearest scope of the chain that starts at `scope' which binds key;  *)
(* 0 when the walk runs off the end of the chain.                          *)
Owner(scopes, scope, key) ==
  LET nearest[s \in 0..Len(scopes)] ==
        IF s = 0 \/ key \in DOMAIN scopes[s].vars
        THEN s
        ELSE nearest[scopes[s].parent]
  IN  nearest[scope]

(* The scopes of the chain that starts at `scope'. *)
Chain(scopes, scope) ==
  LET upward[s \in 0..Len(scopes)] ==
        IF s = 0 THEN {} ELSE {s} \cup upward[scopes[s].parent]
  IN  upward[scope]

(* mVaribleByKey[key] = value in scope s. *)
Bind(scopes, s, key, value) ==
  [scopes EXCEPT ![s].vars =
     [x \in (DOMAIN scopes[s].vars) \cup {key} |->
        IF x = key THEN value ELSE scopes[s].vars[x]]]

Mark(scopes, s, value) ==
  [scopes EXCEPT ![s].has_closures = @ \/ MightHaveFunction(value)]

(* EnvScope::write with VaribleType::Local: bind in this very scope. *)
WriteLocal(scopes, s, key, value) ==
  Bind(Mark(scopes, s, value), s, key, value)

(* EnvScope::write with VaribleType::Global: bind in the nearest scope     *)
(* that has the name, or in this one when none has it; both are marked.    *)
WriteGlobal(scopes, s, key, value) ==
  LET owner  == Owner(scopes, s, key)
      target == IF owner = 0 THEN s ELSE owner
  IN  Bind(Mark(Mark(scopes, s, value), target, value), target, key, value)

(* EnvScope::operator[]: what it returns, and the scopes after it: a name  *)
(* no scope of the chain binds becomes bound to null in the current scope. *)
Read(scopes, s, key) ==
  LET owner == Owner(scopes, s, key)
  IN  IF owner = 0 THEN NullJson ELSE scopes[owner].vars[key]

Touch(scopes, s, key) ==
  IF Owner(scopes, s, key) = 0 THEN Bind(scopes, s, key, NullJson) ELSE scopes
=============================================================================
