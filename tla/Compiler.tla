------------------------------ MODULE Compiler ------------------------------
(***************************************************************************)
(* Interpreted and compiled functions that call each other: defun,         *)
(* compile and the calls that either kind of code makes.                   *)
(*                                                                         *)
(* Every function name is one interned SymbolAtom.  It holds the source    *)
(* `code', the std::function `closure' that evaluation calls (here slot)   *)
(* and the flag `compiled'.  Compiling emits the body into the one LLVM    *)
(* module of the program and replaces the closure by one that runs it.     *)
(*                                                                         *)
(* A body is the sequence of the calls to user functions in it, in the     *)
(* order they are made; arithmetic and `if' only decide which of them are. *)
(* A call is emitted in one of two ways.  The symbol of a compiled         *)
(* function is called directly.  For any other, the address of its closure *)
(* is put into the global clos2 WHILE GENERATING, and the emitted code     *)
(* passes what it reads in clos2 WHEN IT RUNS to call_interpreted.         *)
(* codegen visits a call before its arguments, so any of a body's calls    *)
(* may be the last to write clos2.                                         *)
(*                                                                         *)
(* The closure that compile installs evaluates its arguments and then      *)
(* generates code from the VALUES.  A comparison evaluates to its own form *)
(* and a quoted list to the list: the calls written in it are emitted and  *)
(* made, of a comparison for the second time.                              *)
(*                                                                         *)
(* Outside the model: code that ends the program or is undefined.  A call  *)
(* through an empty closure aborts in compiled code; compile of a name     *)
(* without code, of a body with free variables and with another number of  *)
(* parameters than at the first time; replacing a closure that is running. *)
(* Also outside: `native', which generates from its argument forms; and a  *)
(* compile made while compiled code computes the arguments of a call for   *)
(* which it has read clos2 already.                                        *)
(***************************************************************************)
EXTENDS Naturals, Sequences

CONSTANTS
  Functions,  (* function names                                            *)
  Bodies,     (* bodies: sequences of function names                       *)
  Undefined,  (* no code, an empty closure, no function in the module      *)
  Jit,        (* the closure that compile installs                         *)
  None,       (* clos2 before anything is put there                        *)
  MaxDepth,   (* bound: nesting of calls                                   *)
  Sharing,    (* is clos2 ever needed for a second function?               *)
  Redefines,  (* is a compiled function ever defined again?                *)
  Forms       (* is interpreted code ever calling a compiled function with *)
              (* an argument whose value is a form with calls in it?       *)

Ways == {"slot", "direct", "clos2"}
Site == [name : Functions, way : Ways]

ASSUME CompilerAssumption ==
  /\ Bodies \subseteq Seq(Functions)
  /\ Undefined \notin Bodies \cup Seq(Site) /\ Jit \notin Bodies \cup {Undefined}
  /\ None \notin Functions
  /\ MaxDepth \in Nat
  /\ Sharing \in BOOLEAN /\ Redefines \in BOOLEAN /\ Forms \in BOOLEAN

VARIABLES
  code,      (* SymbolAtom::code                                           *)
  slot,      (* Cell::closure: a body to interpret, or Jit                 *)
  compiled,  (* Cell::compiled                                             *)
  module,    (* the entry block of every function in the LLVM module       *)
  clos2,     (* the function whose closure clos2 points to                 *)
  stack      (* the calls in progress, innermost last                      *)

vars == <<code, slot, compiled, module, clos2, stack>>

(***************************************************************************)
(* A call in progress: asked is the function that was to be called, fun    *)
(* the one that runs, sites the calls in its code and next the one it      *)
(* makes next, jit whether the code is compiled.  latest is history: the   *)
(* definition of fun when it was called.                                   *)
(***************************************************************************)
Activation ==
  [asked : Functions, fun : Functions, sites : Seq(Site), next : Nat \ {0},
   jit : BOOLEAN, latest : Bodies]

Top      == stack[Len(stack)]
Rest     == SubSeq(stack, 1, Len(stack) - 1)
Advanced == [stack EXCEPT ![Len(stack)].next = @ + 1]

Names(sites) == [i \in 1..Len(sites) |-> sites[i].name]

Init ==
  /\ code     = [f \in Functions |-> Undefined]
  /\ slot     = [f \in Functions |-> Undefined]
  /\ compiled = [f \in Functions |-> FALSE]
  /\ module   = [f \in Functions |-> Undefined]
  /\ clos2    = None
  /\ stack    = <<>>

(* Forms are evaluated by the interpreter, so only it defines and compiles. *)
Interpreting == stack # <<>> => ~Top.jit

(* The closure in f's slot is not being run: replacing it is safe.  The     *)
(* closure of compiled code uses nothing of its own once the code returns.  *)
Replaceable(f) == \A k \in 1..Len(stack) : stack[k].fun = f => stack[k].jit

-----------------------------------------------------------------------------
(* defun.  The flag is left alone.                                          *)

(* Fault: a closure is installed only where there is none yet. *)
Installed_once(f, body) == IF slot[f] = Undefined THEN body ELSE slot[f]

Installed(f, body) == body

Defun(f, body) ==
  /\ Interpreting /\ Replaceable(f)
  /\ Redefines \/ ~compiled[f]
  /\ code' = [code EXCEPT ![f] = body]
  /\ slot' = [slot EXCEPT ![f] = Installed(f, body)]
  /\ UNCHANGED <<compiled, module, clos2, stack>>

-----------------------------------------------------------------------------
(* compile.                                                                 *)

(* Faults: the flag is set only after the code was generated; everything    *)
(* the function calls is marked as well.                                    *)
Marked_late(f)  == compiled
Marked_calls(f) ==
  [g \in Functions |-> compiled[g] \/ g = f
                       \/ \E i \in 1..Len(code[f]) : code[f][i] = g]

(* The flags while the code of f is generated: its own is set already.      *)
Marked(f) == [compiled EXCEPT ![f] = TRUE]

(* How codegen emits the calls of a body, given who is compiled.            *)
Generated(body, done) ==
  [i \in 1..Len(body) |->
     [name |-> body[i], way |-> IF done[body[i]] THEN "direct" ELSE "clos2"]]

Indirect(body, done) == {i \in 1..Len(body) : ~done[body[i]]}

(* Faults: clos2 is set for every callee, compiled or not; it is not kept   *)
(* for a body without interpreted callees.                                  *)
LastIndirect_any(body, done) ==
  IF body = <<>> THEN {clos2} ELSE {body[i] : i \in 1..Len(body)}
LastIndirect_reset(body, done) ==
  LET I == Indirect(body, done)
  IN  IF I = {} THEN {Undefined} ELSE {body[i] : i \in I}

(* What clos2 may point to when the body has been generated.                *)
LastIndirect(body, done) ==
  LET I == Indirect(body, done)
  IN  IF I = {} THEN {clos2} ELSE {body[i] : i \in I}

(* The one function that the body and all code so far need clos2 for.       *)
Unshared(body, done) ==
  \A i, j \in Indirect(body, done) :
    body[i] = body[j] /\ clos2 \in {None, body[i]}

(* getOrInsertFunction finds the function when the name was compiled        *)
(* before; the new block goes behind its entry block and is never reached.  *)
Entry(f, sites) == IF module[f] = Undefined THEN sites ELSE module[f]

Compile(f) ==
  LET done == Marked(f)
  IN  /\ Interpreting /\ Replaceable(f)
      /\ code[f] # Undefined
      /\ Sharing \/ Unshared(code[f], done)
      /\ compiled' = [compiled EXCEPT ![f] = TRUE]
      /\ clos2'    \in LastIndirect(code[f], done)
      /\ module'   = [module EXCEPT ![f] = Entry(f, Generated(code[f], done))]
      /\ slot'     = [slot EXCEPT ![f] = Jit]
      /\ UNCHANGED <<code, stack>>

-----------------------------------------------------------------------------
(* Calls.                                                                   *)

Interpreted(body) ==
  [i \in 1..Len(body) |-> [name |-> body[i], way |-> "slot"]]

(* The calls in the values of the arguments, when interpreted code calls f. *)
InValues(f) ==
  IF Forms /\ slot[f] = Jit THEN Bodies \cup {<<>>} ELSE {<<>>}

(* Calling f by its closure, when g is what the program asked for and again *)
(* are the calls in the values of the arguments, which are numbers if       *)
(* compiled code calls.                                                     *)
Through(f, g, again) ==
  [asked |-> g, fun |-> f, next |-> 1, latest |-> code[f],
   jit   |-> slot[f] = Jit,
   sites |-> IF slot[f] = Jit THEN Generated(again, compiled) \o module[f]
                              ELSE Interpreted(slot[f])]

(* Calling the function of the module.                                      *)
Direct(f) ==
  [asked |-> f, fun |-> f, next |-> 1, latest |-> code[f],
   jit   |-> TRUE, sites |-> module[f]]

(* createCaller generates code from the values of the arguments.            *)
Caller(again) ==
  /\ Sharing \/ Unshared(again, compiled)
  /\ clos2' \in LastIndirect(again, compiled)

CallTop(f, again) ==
  /\ stack = <<>>
  /\ slot[f] # Undefined
  /\ again \in InValues(f) /\ Caller(again)
  /\ stack' = <<Through(f, f, again)>>
  /\ UNCHANGED <<code, slot, compiled, module>>

Here == Top.sites[Top.next]

Calling == /\ stack # <<>> /\ Len(stack) < MaxDepth
           /\ Top.next <= Len(Top.sites)

(* Sexp::eval: the closure of the symbol in the form.                       *)
CallSlot(again) ==
  /\ Calling /\ Here.way = "slot"
  /\ slot[Here.name] # Undefined
  /\ again \in InValues(Here.name) /\ Caller(again)
  /\ stack' = Append(Advanced, Through(Here.name, Here.name, again))
  /\ UNCHANGED <<code, slot, compiled, module>>

CallDirect ==
  /\ Calling /\ Here.way = "direct"
  /\ stack' = Append(Advanced, Direct(Here.name))
  /\ UNCHANGED <<code, slot, compiled, module, clos2>>

(* call_interpreted(clos2, ...).                                            *)
CallClos2 ==
  /\ Calling /\ Here.way = "clos2"
  /\ slot[clos2] # Undefined
  /\ stack' = Append(Advanced, Through(clos2, Here.name, <<>>))
  /\ UNCHANGED <<code, slot, compiled, module, clos2>>

(* A branch not taken, or a symbol without closure that the interpreter     *)
(* leaves as it is.                                                         *)
Skip ==
  /\ stack # <<>> /\ Top.next <= Len(Top.sites)
  /\ stack' = Advanced
  /\ UNCHANGED <<code, slot, compiled, module, clos2>>

Return ==
  /\ stack # <<>> /\ Top.next > Len(Top.sites)
  /\ stack' = Rest
  /\ UNCHANGED <<code, slot, compiled, module, clos2>>

-----------------------------------------------------------------------------
Next ==
  \/ \E f \in Functions, body \in Bodies : Defun(f, body)
  \/ \E f \in Functions : Compile(f)
  \/ \E f \in Functions, again \in Bodies \cup {<<>>} : CallTop(f, again)
  \/ \E again \in Bodies \cup {<<>>} : CallSlot(again)
  \/ CallDirect
  \/ CallClos2
  \/ Skip
  \/ Return

Spec == Init /\ [][Next]_vars
-----------------------------------------------------------------------------
(* The variables have the values their comments say.                        *)
TypeOK ==
  /\ code     \in [Functions -> Bodies \cup {Undefined}]
  /\ slot     \in [Functions -> Bodies \cup {Undefined, Jit}]
  /\ compiled \in [Functions -> BOOLEAN]
  /\ module   \in [Functions -> Seq(Site) \cup {Undefined}]
  /\ clos2    \in Functions \cup {None}
  /\ stack    \in Seq(Activation)

(* A compiled function that calls itself does so inside the module: it      *)
(* never goes back through the interpreter.                                 *)
RecursesDirectly ==
  \A f \in Functions : module[f] # Undefined =>
    \A i \in 1..Len(module[f]) :
      module[f][i].name = f => module[f][i].way = "direct"

(* A direct call finds its function in the module, and a call through clos2 *)
(* finds it set.                                                            *)
Linkable(sites) ==
  \A i \in 1..Len(sites) :
    /\ sites[i].way = "direct" => module[sites[i].name] # Undefined
    /\ sites[i].way = "clos2"  => clos2 # None

(* Code that can be reached has everything it refers to: a function marked  *)
(* compiled and a closure that runs compiled code find their function in    *)
(* the module, and all calls can be made, those that are generated from the *)
(* values of arguments at the moment of a call included.                    *)
Linked ==
  /\ \A f \in Functions :
       compiled[f] \/ slot[f] = Jit => module[f] # Undefined
  /\ \A f \in Functions : module[f] # Undefined => Linkable(module[f])
  /\ \A k \in 1..Len(stack) : Linkable(stack[k].sites)

(* Whatever was compiled or defined again in between, interpreted code      *)
(* calls the function it names, and a function that is run by the           *)
(* interpreter runs its latest definition.                                  *)
InterpreterExact ==
  \A k \in 1..Len(stack) :
    /\ k = 1 \/ ~stack[k-1].jit => stack[k].fun = stack[k].asked
    /\ ~stack[k].jit => Names(stack[k].sites) = stack[k].latest

(* Every call runs the function it names.                                   *)
RunsNamed ==
  \A k \in 1..Len(stack) : stack[k].fun = stack[k].asked

(* Every call runs the definition its function had when it was called.      *)
RunsLatest ==
  \A k \in 1..Len(stack) : Names(stack[k].sites) = stack[k].latest

(* A call as the program sees it: not by which kind of code it is made.     *)
Viewed(calls) ==
  [k \in 1..Len(calls) |->
     [fun  |-> calls[k].fun, body |-> Names(calls[k].sites),
      next |-> calls[k].next]]

(* Interpreted and compiled code make the same calls.                       *)
Plain     == INSTANCE Calls WITH running <- Viewed(stack)
CallsSpec == Plain!Spec
=============================================================================
