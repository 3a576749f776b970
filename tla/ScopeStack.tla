----------------------------- MODULE ScopeStack -----------------------------
(***************************************************************************)
(* What the handling of environments promises, without any environment     *)
(* that is updated in place: the form being evaluated sees a scope; a form *)
(* that is no call sees the scope around it, with its own table; a closure *)
(* captures the scope it is built in; a function sees what it captured,    *)
(* and its caller's scope before that, or, if compiled code calls it, two  *)
(* tables of the call, an empty one and that of the parameters; and        *)
(* leaving a form makes visible exactly the scope that was visible where   *)
(* the form was entered.                                                   *)
(***************************************************************************)
EXTENDS Naturals, Sequences

CONSTANT Global           (* the table every scope starts from             *)

VARIABLES
  scope,       (* the tables the running form searches, last one first     *)
  suspended,   (* the scopes of the forms around it, outermost first       *)
  captured     (* the scopes that closures were built in                   *)

vars == <<scope, suspended, captured>>

Init == scope = <<Global>> /\ suspended = <<>> /\ captured = {}

(* inner is outer and k more tables, which are searched first. *)
ExtendsBy(k, inner, outer) ==
  Len(inner) = Len(outer) + k /\ SubSeq(inner, 1, Len(outer)) = outer

Extends(inner, outer) == ExtendsBy(1, inner, outer)

(* What a function may see of its own: what it captured, or, if a call of  *)
(* it is in progress, what that call sees.                                 *)
Own == captured \cup {scope} \cup {suspended[k] : k \in 1..Len(suspended)}

Suspend == suspended' = Append(suspended, scope) /\ UNCHANGED captured

Enter == Suspend /\ (scope' = scope \/ Extends(scope', scope))

Call == Suspend /\ \E own \in Own : scope' = own \o scope

CallFromCompiled == Suspend /\ \E own \in Own : ExtendsBy(2, scope', own)

(* The bindings of the form become visible to its body. *)
Open == Extends(scope', scope) /\ UNCHANGED <<suspended, captured>>

Leave ==
  /\ suspended # <<>>
  /\ scope' = suspended[Len(suspended)]
  /\ suspended' = SubSeq(suspended, 1, Len(suspended) - 1)
  /\ UNCHANGED captured

(* Closures come and go. *)
Capture ==
  /\ captured' \subseteq captured \cup {scope}
  /\ UNCHANGED <<scope, suspended>>

Next == Enter \/ Call \/ CallFromCompiled \/ Open \/ Leave \/ Capture

Spec == Init /\ [][Next]_vars
=============================================================================
