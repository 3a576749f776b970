------------------------------- MODULE Calls -------------------------------
(***************************************************************************)
(* What a program may rely on when its functions call each other, whether  *)
(* they are interpreted or compiled: a call runs the body that the         *)
(* function named in the call had when the call was made.  An activation   *)
(* keeps running the body it started with when the function is defined     *)
(* again.  Which of the calls of a body are made depends on its tests.     *)
(***************************************************************************)
EXTENDS Naturals, Sequences

CONSTANTS Functions, Bodies, Undefined

VARIABLES
  code,     (* the latest definition of every function                     *)
  running   (* the activations in progress, innermost last                 *)

Started(f) == [fun |-> f, body |-> code[f], next |-> 1]

Current  == running[Len(running)]
Advanced == [running EXCEPT ![Len(running)].next = @ + 1]
Pending  == running # <<>> /\ Current.next <= Len(Current.body)

Init == code = [f \in Functions |-> Undefined] /\ running = <<>>

Define(f, body) ==
  /\ code' = [code EXCEPT ![f] = body]
  /\ UNCHANGED running

Enter(f) ==
  /\ running = <<>>
  /\ code[f] # Undefined
  /\ running' = <<Started(f)>>
  /\ UNCHANGED code

Nested ==
  /\ Pending
  /\ LET f == Current.body[Current.next]
     IN  /\ code[f] # Undefined
         /\ running' = Append(Advanced, Started(f))
  /\ UNCHANGED code

Skip   == Pending /\ running' = Advanced /\ UNCHANGED code

Leave  == /\ running # <<>>
          /\ Current.next > Len(Current.body)
          /\ running' = SubSeq(running, 1, Len(running) - 1)
          /\ UNCHANGED code

Next ==
  \/ \E f \in Functions, body \in Bodies : Define(f, body)
  \/ \E f \in Functions : Enter(f)
  \/ Nested \/ Skip \/ Leave

Spec == Init /\ [][Next]_<<code, running>>
=============================================================================
