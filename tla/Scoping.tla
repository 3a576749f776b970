------------------------------ MODULE Scoping ------------------------------
(***************************************************************************)
(* How the interpreter keeps its environments while it evaluates: setq,    *)
(* let, let*, defun / lambda and the call of what they build.  The forms   *)
(* of a program nest on the C++ stack, so the state has a stack of the     *)
(* forms being evaluated; what they evaluate next is any form at all.      *)
(*                                                                         *)
(* A closure is a C++ lambda that captured the Env of its definition BY    *)
(* COPY and keeps it between calls.  Copying an Env copies the vector of   *)
(* pointers (to the tables of the original) and the table `top' (which no  *)
(* pointer of the copy refers to).  A call pushes the tables of the        *)
(* calling Env, then a table for the parameters, and pops them afterwards. *)
(* Compiled code calls it with an Env of its own, which is empty but has   *)
(* its own table `top' on its vector all the same.                         *)
(* The tables of let, let* and of parameters, and that of the Env compiled *)
(* code calls with, are local variables of C++ functions: they are         *)
(* destroyed when the form is left, whatever still points to them.         *)
(*                                                                         *)
(* Env identities double as the identity of their `top' table: Main is the *)
(* Env of main() and its global table, and a closure c is also the copy of *)
(* `top' that its captured Env holds.                                      *)
(***************************************************************************)
EXTENDS Environment

CONSTANTS
  Names,      (* variable names                                            *)
  Values,     (* cells a name may be bound to                              *)
  Null,       (* the empty shared_ptr that let puts under a label          *)
  Frames,     (* addresses of the tables that live on the C++ stack        *)
  Closures,   (* closures that can exist at a time                         *)
  Main,       (* the environment of main()                                 *)
  MaxDepth,   (* bound: nesting of forms                                   *)
  MaxCapture, (* bound: length of a chain that a closure captures          *)
  Escaping    (* may a program call a closure whose Env still holds a      *)
              (* table of a let or of a call that has been left?           *)

ASSUME ScopingAssumption ==
  /\ Main \notin Closures /\ Main \notin Frames /\ None # Main
  /\ Closures \cap Frames = {} /\ None \notin Closures \cup Frames
  /\ None \notin Names
  /\ Unbound \notin Values \cup {Null} /\ Null \notin Values
  /\ MaxDepth \in Nat /\ MaxCapture \in Nat
  /\ Escaping \in BOOLEAN

Envs   == {Main} \cup Closures
Tables == Frames \cup Envs
Slot   == Values \cup {Null, Unbound}
Kinds  == {"setq", "let", "let*", "call", "macro"}

VARIABLES
  envs,     (* Env::envs of every environment                              *)
  tables,   (* what every table holds                                      *)
  live,     (* the stack tables that are constructed and not yet destroyed *)
  made,     (* the closures that exist                                     *)
  stack,    (* the forms being evaluated, innermost last                   *)
  base,     (* history: the chain an environment had when it was built     *)
  stale     (* history: closures whose Env holds a table since destroyed   *)

vars == <<envs, tables, live, made, stack, base, stale>>

EmptyTable == [n \in Names |-> Unbound]

(***************************************************************************)
(* A form being evaluated.  env is the environment its sub-forms are       *)
(* evaluated in, caller the one the form itself was evaluated in, None if  *)
(* it is the one that compiled code calls with, whose table is then empty, *)
(* frame its own table, body whether its bindings are done.  For setq,     *)
(* name and target are the variable and the iterator found before the      *)
(* value is evaluated; for let, name is the label whose value is being     *)
(* evaluated.                                                              *)
(* before and chain are history: the chain of env when the form was        *)
(* entered, and with what the form has pushed.  Calls of macros are those  *)
(* of module Macros.                                                       *)
(***************************************************************************)
Activation ==
  [kind : Kinds, env : Envs, caller : Envs \cup {None},
   frame : Frames \cup {None}, empty : Frames \cup {None},
   body : BOOLEAN, name : Names \cup {None}, target : Tables \cup {None},
   before : Seq(Frames \cup {Main}), chain : Seq(Frames \cup {Main})]

(* The tables of a form that are local variables. *)
Locals(r) == {r.frame, r.empty} \ {None}

Top     == stack[Len(stack)]
Running == IF stack = <<>> THEN Main ELSE Top.env
Rest    == SubSeq(stack, 1, Len(stack) - 1)

Busy(e) == \E k \in 1..Len(stack) : stack[k].env = e

Init ==
  /\ envs   = [e \in Envs |-> IF e = Main THEN <<Main>> ELSE <<>>]
  /\ tables = [t \in Tables |-> EmptyTable]
  /\ live   = {}
  /\ made   = {}
  /\ stack  = <<>>
  /\ base   = envs
  /\ stale  = {}

-----------------------------------------------------------------------------
(* setq: the iterator is looked up first, the value evaluated after that.  *)

SetqFind(n) ==
  /\ Len(stack) < MaxDepth
  /\ stack' = Append(stack,
       [kind |-> "setq", env |-> Running, caller |-> Running, frame |-> None,
        empty |-> None, body |-> FALSE, name |-> n, target |-> Find(envs[Running], tables, n),
        before |-> envs[Running], chain |-> envs[Running]])
  /\ UNCHANGED <<envs, tables, live, made, base, stale>>

(* Fault: the iterator is not used, every value goes to env.top. *)
StoredIn_top(r) == r.env

(* Through the iterator, or into env.top when it was end(). *)
StoredIn(r) == IF r.target = None THEN r.env ELSE r.target

(* The value is known. *)
SetqStore(v) ==
  /\ stack # <<>> /\ Top.kind = "setq"
  /\ tables' = [tables EXCEPT ![StoredIn(Top)][Top.name] = v]
  /\ stack' = Rest
  /\ UNCHANGED <<envs, live, made, base, stale>>

-----------------------------------------------------------------------------
(* let and let*: let* pushes its table before it evaluates the bindings,   *)
(* let once they are all evaluated.                                        *)

(* Fault: let searched through its own table too, like let*. *)
EntryChain_eager(kind, f) == AddEnvMap(envs[Running], f)

EntryChain(kind, f) ==
  IF kind = "let*" THEN AddEnvMap(envs[Running], f) ELSE envs[Running]

LetEnter(kind, f) ==
  /\ Len(stack) < MaxDepth
  /\ f \in Frames \ live
  /\ live'   = live \cup {f}
  /\ tables' = [tables EXCEPT ![f] = EmptyTable]
  /\ envs'   = [envs EXCEPT ![Running] = EntryChain(kind, f)]
  /\ stack'  = Append(stack,
       [kind |-> kind, env |-> Running, caller |-> Running, frame |-> f,
        empty |-> None, body |-> FALSE, name |-> None, target |-> None,
        before |-> envs[Running], chain |-> EntryChain(kind, f)])
  /\ UNCHANGED <<made, base, stale>>

Binding == stack # <<>> /\ Top.kind \in {"let", "let*"} /\ ~Top.body

(* newEnv[label->val].reset(): the label is bound to nothing while its     *)
(* value is evaluated.                                                     *)
LetLabel(n) ==
  /\ Binding /\ Top.name = None
  /\ tables' = [tables EXCEPT ![Top.frame][n] = Null]
  /\ stack'  = [stack EXCEPT ![Len(stack)].name = n]
  /\ UNCHANGED <<envs, live, made, base, stale>>

LetValue(v) ==
  /\ Binding /\ Top.name # None
  /\ tables' = [tables EXCEPT ![Top.frame][Top.name] = v]
  /\ stack'  = [stack EXCEPT ![Len(stack)].name = None]
  /\ UNCHANGED <<envs, live, made, base, stale>>

LetBody ==
  LET chain == IF Top.kind = "let" THEN AddEnvMap(envs[Top.env], Top.frame)
                                   ELSE envs[Top.env]
  IN  /\ Binding /\ Top.name = None
      /\ envs'  = [envs EXCEPT ![Top.env] = chain]
      /\ stack' = [stack EXCEPT ![Len(stack)].body = TRUE,
                                ![Len(stack)].chain = chain]
      /\ UNCHANGED <<tables, live, made, base, stale>>

(* The tables of a form that is left are destroyed; they are empty again   *)
(* when their addresses are reused.                                        *)
Destroy(fs) ==
  /\ live'   = live \ fs
  /\ tables' = [t \in Tables |-> IF t \in fs THEN EmptyTable ELSE tables[t]]

(* The closures that captured one of them. *)
Holding(fs) == {c \in made : \E i \in 1..Len(base[c]) : base[c][i] \in fs}

LetExit ==
  /\ stack # <<>> /\ Top.kind \in {"let", "let*"} /\ Top.body
  /\ envs'  = [envs EXCEPT ![Top.env] = RemoveEnvs(@, 1)]
  /\ stack' = Rest
  /\ Destroy(Locals(Top))
  /\ stale' = stale \cup Holding(Locals(Top))
  /\ UNCHANGED <<made, base>>

-----------------------------------------------------------------------------
(* defun and lambda: [env, args, body] copies the Env into the closure.    *)

(* Fault: the copy searches its own `top' instead of the original's. *)
Captured_own(c) == <<c>>

Captured(c) == envs[Running]

MakeClosure(c) ==
  /\ c \in Closures \ made
  /\ Len(envs[Running]) <= MaxCapture
  /\ made'   = made \cup {c}
  /\ envs'   = [envs EXCEPT ![c] = Captured(c)]
  /\ tables' = [tables EXCEPT ![c] = tables[Running]]
  /\ base'   = [base EXCEPT ![c] = Captured(c)]
  /\ UNCHANGED <<live, stack, stale>>

(* The last reference to a closure goes away, or its function is defined   *)
(* again, while no call of it is in progress.                              *)
DropClosure(c) ==
  /\ c \in made /\ ~Busy(c)
  /\ made'   = made \ {c}
  /\ envs'   = [envs EXCEPT ![c] = <<>>]
  /\ tables' = [tables EXCEPT ![c] = EmptyTable]
  /\ base'   = [base EXCEPT ![c] = <<>>]
  /\ stale'  = stale \ {c}
  /\ UNCHANGED <<live, stack>>

-----------------------------------------------------------------------------
(* The call of a closure: the body of the lambda of defun and of lambda.   *)

Call(c, f) ==
  LET chain == IF c # Running THEN AddEnvMaps(envs[c], envs[Running])
                              ELSE envs[c]
  IN  /\ Len(stack) < MaxDepth
      /\ c \in made
      /\ Escaping \/ c \notin stale
      /\ f \in Frames \ live
      /\ live'   = live \cup {f}
      /\ tables' = [tables EXCEPT ![f] = EmptyTable]
      /\ envs'   = [envs EXCEPT ![c] = chain]
      /\ stack'  = Append(stack,
           [kind |-> "call", env |-> c, caller |-> Running, frame |-> f,
            empty |-> None, body |-> FALSE, name |-> None, target |-> None,
            before |-> envs[c], chain |-> chain])
      /\ UNCHANGED <<made, base, stale>>

InArgs == stack # <<>> /\ Top.kind = "call" /\ ~Top.body

(* What a symbol that is bound in the closure's environment stands for: it *)
(* may be the empty pointer under the label of a let*.                     *)
Meaning == LET held(m) == Find(envs[Top.env], tables, m)
           IN  {tables[held(m)][m] : m \in {n \in Names : held(n) # None}}

(* An argument has been evaluated in the closure's environment.  If it has *)
(* become a symbol that is bound there, that binding is taken instead.     *)
CallArg(n, v) ==
  /\ InArgs
  /\ v \in Values \cup Meaning
  /\ tables' = [tables EXCEPT ![Top.frame][n] = v]
  /\ UNCHANGED <<envs, live, made, stack, base, stale>>

CallBody ==
  LET chain == AddEnvMap(envs[Top.env], Top.frame)
  IN  /\ InArgs
      /\ envs'  = [envs EXCEPT ![Top.env] = chain]
      /\ stack' = [stack EXCEPT ![Len(stack)].body = TRUE,
                                ![Len(stack)].chain = chain]
      /\ UNCHANGED <<tables, live, made, base, stale>>

(* call_interpreted: compiled code calls the closure with numbers, which   *)
(* no lookup is needed for, and with an Env whose only table, g, is empty. *)
CallFromCompiled(c, f, g, bound) ==
  LET chain == AddEnvMap(AddEnvMaps(envs[c], <<g>>), f)
  IN  /\ Len(stack) < MaxDepth
      /\ c \in made
      /\ Escaping \/ c \notin stale
      /\ f \in Frames \ live /\ g \in Frames \ live /\ f # g
      /\ live'   = live \cup {f, g}
      /\ tables' = [tables EXCEPT ![f] = bound, ![g] = EmptyTable]
      /\ envs'   = [envs EXCEPT ![c] = chain]
      /\ stack'  = Append(stack,
           [kind |-> "call", env |-> c, caller |-> None, frame |-> f,
            empty |-> g, body |-> TRUE, name |-> None, target |-> None,
            before |-> envs[c], chain |-> chain])
      /\ UNCHANGED <<made, base, stale>>

(* How many tables the calling environment has NOW. *)
CallersTables(r) ==
  IF r.caller = r.env THEN 0
  ELSE IF r.caller = None THEN 1 ELSE Len(envs[r.caller])

(* Faults: the loop over the caller's tables is left out; the removeEnv of *)
(* the parameters is left out.                                             *)
Popped_one(r)    == 1
Popped_caller(r) == CallersTables(r)

(* One removeEnv for the parameters, and one for each of those.            *)
Popped(r) == 1 + CallersTables(r)

CallReturn ==
  /\ stack # <<>> /\ Top.kind = "call" /\ Top.body
  /\ envs'  = [envs EXCEPT ![Top.env] = RemoveEnvs(@, Popped(Top))]
  /\ stack' = Rest
  /\ Destroy(Locals(Top))
  /\ stale' = stale \cup Holding(Locals(Top))
  /\ UNCHANGED <<made, base>>

-----------------------------------------------------------------------------
Next ==
  \/ \E n \in Names : SetqFind(n)
  \/ \E v \in Values : SetqStore(v)
  \/ \E kind \in {"let", "let*"}, f \in Frames : LetEnter(kind, f)
  \/ \E n \in Names : LetLabel(n)
  \/ \E v \in Values : LetValue(v)
  \/ LetBody
  \/ LetExit
  \/ \E c \in Closures : MakeClosure(c)
  \/ \E c \in Closures : DropClosure(c)
  \/ \E c \in Closures, f \in Frames : Call(c, f)
  \/ \E c \in Closures, f, g \in Frames, bound \in [Names -> Values \cup {Unbound}] :
       CallFromCompiled(c, f, g, bound)
  \/ \E n \in Names, v \in Values \cup {Null} : CallArg(n, v)
  \/ CallBody
  \/ CallReturn

Spec == Init /\ [][Next]_vars
-----------------------------------------------------------------------------
(* The variables have the values their comments say: in particular no      *)
(* chain ever holds the `top' table of a closure's captured Env.           *)
TypeOK ==
  /\ envs   \in [Envs -> Seq(Frames \cup {Main})]
  /\ base   \in [Envs -> Seq(Frames \cup {Main})]
  /\ tables \in [Tables -> [Names -> Slot]]
  /\ live   \subseteq Frames
  /\ made   \subseteq Closures
  /\ stale  \subseteq made
  /\ stack  \in Seq(Activation)

(* A closure's Env is mutable state that calls push to and pop from, with  *)
(* a number of pops read from the caller's Env when the call returns.      *)
(* Whatever recursion, direct or mutual, went on in between, an Env none   *)
(* of whose calls is in progress is exactly what it was when captured.     *)
EnvRestored ==
  \A e \in made \cup {Main} : ~Busy(e) => envs[e] = base[e]

(* No form is evaluated with a pointer to a destroyed table on its search  *)
(* path.                                                                   *)
ScopeLive ==
  \A i \in 1..Len(envs[Running]) : envs[Running][i] \in live \cup {Main}

(* Arguments are evaluated in the environment of the CALLEE, after the     *)
(* caller's tables are pushed on it: a name the caller has bound means     *)
(* there what it means to the caller.                                      *)
ArgsSeeCaller ==
  InArgs => \A n \in Names :
    LET bound == Find(envs[Top.caller], tables, n)
    IN  bound # None => Find(envs[Top.env], tables, n) = bound

(* A lookup meets the empty pointer that let and let* put under a label    *)
(* only while a let* evaluates the value of a label: under that very label *)
(* or, if the label itself was the argument of a call made meanwhile, as   *)
(* (f 'x) in (let* ((x (f 'x))) x), under a parameter of that call.  A let *)
(* never shows it, and it does not survive the label's value.              *)
NullOnlyUnderLetStar ==
  \A n \in Names :
    LET t == Find(envs[Running], tables, n)
    IN  t # None /\ tables[t][n] = Null =>
          \E k \in 1..Len(stack) :
            /\ stack[k].kind = "let*" /\ ~stack[k].body /\ stack[k].name # None
            /\ \/ stack[k].frame = t /\ stack[k].name = n
               \/ \E j \in (k+1)..Len(stack) :
                    stack[j].kind = "call" /\ stack[j].frame = t

(* After (setq n v) a lookup of n where setq was evaluated finds a value,   *)
(* in the table where n was found before v was evaluated.  The one          *)
(* exception: setq of a name that is not bound anywhere, in the body of a   *)
(* closure, stores into the `top' of the captured copy, and no lookup from  *)
(* any environment changes.                                                 *)
SetqReadBack ==
  [][ stack # <<>> /\ Top.kind = "setq" /\ stack' = Rest =>
      IF Top.target = None /\ Top.env # Main
      THEN \A e \in Envs :
             Find(envs[e], tables', Top.name) = Find(envs[e], tables, Top.name)
      ELSE LET t == Find(envs[Top.env], tables', Top.name)
           IN  /\ t = IF Top.target = None THEN Main ELSE Top.target
               /\ tables'[t][Top.name] \in Values ]_vars

(* Seen through the running form's chain, the chains of the forms around   *)
(* it and those that closures were built with, pushing and popping on      *)
(* shared Envs is a stack of scopes.                                       *)
Scope == INSTANCE ScopeStack WITH
           Global    <- Main,
           scope     <- envs[Running],
           suspended <- [k \in 1..Len(stack) |->
                           IF k = 1 THEN <<Main>> ELSE stack[k-1].chain],
           captured  <- {base[c] : c \in made}
ScopeSpec == Scope!Spec
=============================================================================
