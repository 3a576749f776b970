------------------------------- MODULE Macros -------------------------------
(***************************************************************************)
(* Macro calls, on top of the forms of Scoping.  defmacro captures the Env *)
(* like defun, and a call pushes the tables of the calling environment and *)
(* one table for the arguments, which are not evaluated.  The body is      *)
(* duplicated and evaluated, which yields the expansion; the expansion     *)
(* overwrites the form that was called, is duplicated too and evaluated in *)
(* the environment of the macro.  The return pops as many tables as the    *)
(* calling environment has then, and none for the arguments.               *)
(*                                                                         *)
(* duplicate() of a symbol copies its std::function, and with it the Env   *)
(* in it as it is at that moment: a new closure for each occurrence of a   *)
(* function's name in the body or in the expansion.                        *)
(*                                                                         *)
(* Compiled code calls a macro like any symbol that is not compiled, with  *)
(* an Env whose one table is empty: the return pops one table of two, and  *)
(* the empty one, which is destroyed, stays on the macro's environment.    *)
(*                                                                         *)
(* Outside the model: what the expansion is, and the second evaluation of  *)
(* an overwritten form, which is that of the expansion.                    *)
(***************************************************************************)
EXTENDS Scoping

CONSTANTS
  MacroNames, (* the closures that defmacro builds                         *)
  MaxChain,   (* bound: tables on an environment when a macro is called    *)
  Plain       (* does the program call no macro while a call of it is in   *)
              (* progress, and name in macros only functions that are not  *)
              (* in progress and captured no table of the C++ stack?       *)

ASSUME MacrosAssumption ==
  MacroNames \subseteq Closures /\ MaxChain \in Nat /\ Plain \in BOOLEAN

(* A chain on which there is no table but the global one. *)
Global(chain) == \A i \in 1..Len(chain) : chain[i] = Main

(* SymbolAtom::duplicate of the names of functions: d becomes a copy of c   *)
(* with the chain that its Env has in the state whose chains are now.       *)
Duplicate(now, c, d) ==
  /\ c \in made /\ d \in Closures \ made
  /\ c \in MacroNames <=> d \in MacroNames
  /\ Plain => ~Busy(c) /\ Global(now[c])
  /\ made'  = made \cup {d}
  /\ envs'  = [now EXCEPT ![d] = now[c]]
  /\ base'  = [base EXCEPT ![d] = now[c]]
  /\ stale' = stale \cup {e \in {d} : c \in stale}

(* A body or an expansion names at most one function that was defined; the  *)
(* others are those of the interpreter, which have no environment.          *)
Duplicated(now) ==
  \/ \E c, d \in Closures : Duplicate(now, c, d)
  \/ envs' = now /\ UNCHANGED <<made, base, stale>>

MacroCall(m, f, bound) ==
  LET pushed == IF m # Running THEN AddEnvMaps(envs[m], envs[Running])
                               ELSE envs[m]
      chain  == AddEnvMap(pushed, f)
  IN  /\ Len(stack) < MaxDepth
      /\ m \in made \cap MacroNames
      /\ Escaping \/ m \notin stale
      /\ Plain => ~Busy(m)
      /\ f \in Frames \ live
      /\ Len(chain) <= MaxChain
      /\ live'   = live \cup {f}
      /\ tables' = [tables EXCEPT ![f] = bound]
      /\ Duplicated([envs EXCEPT ![m] = chain])
      /\ stack'  = Append(stack,
           [kind |-> "macro", env |-> m, caller |-> Running, frame |-> f,
            empty |-> None, body |-> FALSE, name |-> None, target |-> None,
            before |-> envs[m], chain |-> chain])

(* call_interpreted with a macro, which has no parameters: the format of    *)
(* the call has a letter for each argument that the prototype knows, and    *)
(* the prototype of a macro knows none.                                     *)
MacroCallFromCompiled(m, f, g) ==
  LET chain == AddEnvMap(AddEnvMaps(envs[m], <<g>>), f)
  IN  /\ Len(stack) < MaxDepth
      /\ m \in made \cap MacroNames
      /\ Escaping \/ m \notin stale
      /\ Plain => ~Busy(m)
      /\ f \in Frames \ live /\ g \in Frames \ live /\ f # g
      /\ Len(chain) <= MaxChain
      /\ live'   = live \cup {f, g}
      /\ tables' = [tables EXCEPT ![f] = EmptyTable, ![g] = EmptyTable]
      /\ Duplicated([envs EXCEPT ![m] = chain])
      /\ stack'  = Append(stack,
           [kind |-> "macro", env |-> m, caller |-> None, frame |-> f,
            empty |-> g, body |-> FALSE, name |-> None, target |-> None,
            before |-> envs[m], chain |-> chain])

(* The expansion is there, and replaces the form that was called.           *)
MacroExpand ==
  /\ stack # <<>> /\ Top.kind = "macro" /\ ~Top.body
  /\ Duplicated(envs)
  /\ stack' = [stack EXCEPT ![Len(stack)].body = TRUE]
  /\ UNCHANGED <<tables, live>>

(* Fault: the loop runs over the tables of the macro's own environment. *)
MacroPopped_own(r) == IF r.env # r.caller THEN Len(envs[r.env]) - 1 ELSE 0

(* One removeEnv for each table the calling environment has NOW.            *)
MacroPopped(r) == CallersTables(r)

(* The macro keeps the empty table that compiled code called it with.       *)
Dangling(r) == IF r.empty = None THEN {} ELSE {r.env}

MacroReturn ==
  /\ stack # <<>> /\ Top.kind = "macro" /\ Top.body
  /\ envs'  = [envs EXCEPT ![Top.env] = RemoveEnvs(@, MacroPopped(Top))]
  /\ stack' = Rest
  /\ Destroy(Locals(Top))
  /\ stale' = stale \cup Holding(Locals(Top)) \cup Dangling(Top)
  /\ UNCHANGED <<made, base>>

(* What Call and CallFromCompiled call is a function. *)
Called == \A k \in 1..Len(stack) :
            stack[k].kind = "call" => stack[k].env \notin MacroNames

MacroNext ==
  \/ Next /\ Called'
  \/ \E m \in Closures, f \in Frames, bound \in [Names -> Values \cup {Unbound}] :
       MacroCall(m, f, bound)
  \/ \E m \in Closures, f, g \in Frames : MacroCallFromCompiled(m, f, g)
  \/ MacroExpand
  \/ MacroReturn

MacroSpec == Init /\ [][MacroNext]_vars
-----------------------------------------------------------------------------
(* Every call of a macro leaves one table on the macro's environment, since *)
(* one more was pushed than is popped.  It is the global one, and what is   *)
(* below it is what defmacro captured; environments of functions are as     *)
(* they were captured.  So what is left over hides nothing in a table that  *)
(* is gone.  The exceptions are the macros that compiled code has called,   *)
(* and those that captured a table since destroyed.                         *)
OnlyGlobalLeft ==
  \A e \in made \cup {Main} : ~Busy(e) =>
    IF e \notin MacroNames THEN envs[e] = base[e]
    ELSE e \notin stale =>
      LET n == Len(base[e])
      IN  /\ Len(envs[e]) >= n
          /\ \A i \in 1..Len(envs[e]) :
               envs[e][i] = IF i <= n THEN base[e][i] ELSE Main
=============================================================================
