# Verification of llisp

llisp (`src/src/`) is a small Lisp interpreter in C++ with an LLVM back end: a reader, a read-eval-print
loop, an evaluator whose special forms and functions are C++ closures attached to interned symbols, and a
compiler for functions over floats. This directory holds TLA+ models of it, TLC configurations that check
them on small instances, and theorems about them that TLAPS checks for every value of the constants.

## Inventory

| Component | Source | State it keeps | Operations | Correct when |
|---|---|---|---|---|
| Environments and scoping | `environment.*`, `special.cpp:234-307`, `functional.cpp:6-100` | per `Env` a vector of pointers to binding tables and a table `top`; the tables of `let`, `let*` and of parameters live on the C++ stack | `setq`, `let`, `let*`, `defun`, `lambda`, `funcall`, call and return of a closure | pushes match pops on environments that recursion shares; no lookup reaches a destroyed table; a name means what the form around it bound |
| Compiler | `compiler.cpp` | per symbol its code, closure and `compiled` flag; one LLVM module; the global `clos2` | `compile`, calls from compiled and from interpreted code | interpreted and compiled code make the same calls |
| Reader and printer | `parse.cpp:5-116`, `cell.cpp:75-168` | none | `parse`, `computeType`, `operator<<` | what is written is read; what is printed can be read again |
| Read-eval-print loop | `llisp.cpp`, `parse.cpp:118-147` | the last line, the text kept so far | a line, end of input, `loadFile` | each form is evaluated once, in order |
| Macros | `functional.cpp:102-143`, `special.cpp:164-204` | the environment of each macro; the code itself, which expansion overwrites | `defmacro`, a macro call, backquote, comma | a call site means the same each time |
| Cells and evaluation | `cell.cpp:170-279, 381-419`, `core.cpp`, `special.cpp`, `list.cpp` | a graph of cells shared by code and data | reading, `eval`, `duplicate`, interning, the primitives | a form has the value its text means, whatever evaluation has done to the cells before |
| Type inference | `cell.cpp:7-72, 310-379` | a prototype per interned symbol | `inferFunctionType` at each top-level form | a prototype describes its function |
| Primitives | `core.cpp`, `list.cpp`, `string.cpp`, `special.cpp:4-38` | none | arithmetic, lists, strings, `eq` | they compute what they are named after |
| Module loading | `cell.cpp:280-308`, `llisp.cpp:13-28` | registered closures | `load` | - |
| Tracing, timing | `debug.cpp`, `bench.cpp` | list of hooks | - | - |
| Echo server | `socket.cpp` (not built) | one connection at a time, one buffer for all | accept, look up, read, write, close | a client gets its own bytes back; every client is served |

How they interact: the loop hands text to the reader and the cells it returns to inference and then to
evaluation, one after the other. Evaluation of a list calls the closure on the symbol at its head with the
list and the current `Env`; special forms and functions recurse into evaluation with that `Env` or with the
one they captured. `defun` and `compile` replace the closure on a symbol, which is global; compiled code
calls other compiled code inside the LLVM module and interpreted functions through `call_interpreted`.
There are no threads. What is hard is the sharing: environments that are captured by copy but point to the
same tables, closures that are entered again before they have returned, symbols whose closure is replaced
between the generation of code and its execution, cells that are code and data at once, text that is
evaluated again. The echo server is a program of its own, sequential too; what is concurrent there is its
clients. The components that are not modelled, with the reasons, are in `PROJECT.json`, and so is the list
of hazards.

## Modules

| Module | What it is |
|---|---|
| `Environment` | `Env` as pure operators on chains (sequences of table identities): push, pop, find |
| `Scoping` | the state machine of the forms that change environments |
| `ScopeStack` | the abstract specification: a stack of scopes |
| `Scoping_proof` | the theorems about chains, environments and the refinement |
| `Lookup_proof` | the theorems about what lookups find, and those about macro calls, on top of `Scoping_proof` |
| `Positions` | the lemmas that the proofs share: least and last positions, recursive functions |
| `Macros` | macro calls on top of `Scoping` |
| `Calls` | the abstract specification of calls: a call runs the latest body of the function it names |
| `Compiler` | `defun`, `compile` and the calls of interpreted and compiled code |
| `Compiler_proof` | the theorems about it |
| `Reader` | `parse` on sequences of characters, by recursive functions on positions |
| `Printer` | the operators `<<`, a recursive function on how deep cells are nested |
| `Notation` | a machine that writes texts, independent of the reader, and what the reader makes of them |
| `Reader_proof` | the theorems about reading and printing, and the lemmas about the reader |
| `Types` | prototypes, inference at `defun`, the format strings of calls from compiled code |
| `Types_proof` | the theorems about it |
| `Repl` | `loadFile`, the loop over lines and `evalHelper`, on top of `Reader` |
| `Repl_proof` | the theorems about it, on top of `Reader_proof` |
| `Trees` | the abstract specification of evaluation: code and values are trees that nothing changes |
| `Cells` | evaluation on cells with identity, which share and overwrite each other |
| `Echo` | the echo server, its clients and what the kernel's calls return |
| `Echo_proof` | the theorems about it |
| `MC...` | the instances for TLC (`Echo` needs none) |

Operators whose names end in a suffix such as `Popped_one` and whose comment says "Fault" are mutated
forms of the definition below them. Nothing uses them; they are the bugs that `PROJECT.json` lists to show
that a property can fail.

### Scoping

`envs[e]` is the vector `Env::envs` of environment `e`: `Main`, or a closure, whose captured `Env` is known
by the closure's name. `tables[t][n]` is the value under name `n` in table `t`: a stack table (`Frames`), or
the `top` of an environment, known by the environment's name. `stack` is the C++ stack as far as it matters:
one record for each `setq`, `let`, `let*` and closure call that is being evaluated, with the locals those
functions keep. Every form evaluates its sub-forms by `eval`, so between two steps of a form any other form
may run: this is the interleaving in `Next`. `let` pushes its table after its bindings (`LetBody`), `let*`
before (`LetEnter`). A call (`Call`, `CallArg`, `CallBody`, `CallReturn`) pushes the tables of the calling
environment unless it is the closure's own, evaluates arguments in the closure's environment, pushes the
parameters, and at the end pops one table and then as many as the calling environment has *then*.
`lambda`, `defun` and `funcall` share these actions; the lambdas in `functional.cpp:16` and `:56` are the
same code. `CallFromCompiled` is `call_interpreted` (`compiler.cpp:25`): compiled code, which may run within any
form, calls the closure with numbers, for which no lookup is needed. It calls it with an environment of its own,
`emptyEnv`, which nothing was bound in; but `Env::Env` has put its table `top` on its vector, so the call pushes
two stack tables, that empty one and the parameters, and pops two. An argument that evaluates to a symbol which is
bound is replaced by what it is bound to (`Meaning`), and that may be the empty pointer that a `let*` in
progress holds under its label. `live`, `stale`, `base` and the fields `before` and `chain` are history: they say which stack
tables exist, which closures have one on their environment that is gone, and how chains looked.

The constant `Escaping` says whether a closure may be called while its environment holds a table that is gone. The code
does not prevent it, and what follows is undefined; the properties hold for programs that do not
(`Escaping = FALSE`), and the run `scoping_escape` shows what happens to the others.

`ScopeStack` has no environments: only the scope that the running form sees, those of the forms around it, and
the ones that closures captured. It says what a function sees: what it captured (or, if it is being called
already, what that call sees) and then its caller's scope, which is searched first; from compiled code,
what it captured and two tables of the call. So a function that reads its caller's variables finds them until the
caller is compiled. `ScopeSpec` is the refinement.

### Macros

`Macros` adds `MacroCall`, `MacroExpand` and `MacroReturn` to the steps of `Scoping`. The call pushes the
tables of the calling environment and the arguments; the two phases are the evaluation of the duplicated
body, which yields the expansion, and that of the duplicated expansion, both in the environment of the macro
and both with any form inside. `MacroCallFromCompiled` is such a call by compiled code, which makes it like that of
any symbol without compiled code; it is one without arguments, as the prototype of a macro has no parameters
and its format string no letters. `duplicate()` copies the closure of a function that is named, with the chain
it has at that moment: `Duplicated` makes one such copy or none at each of the two points. The return pops
one table less than was pushed: after a call from compiled code the empty table of that call stays on the macro's
environment and is destroyed (`Dangling`); the macro is stale from then on, which `OnlyGlobalLeft` excepts and
which `Escaping = FALSE` says is not called again. `Plain` says that the program does not call a macro while a call of it is in
progress and that macros name only functions that are not in progress and captured no table of the C++
stack; then what interpreted calls leave behind is the global table, which hides nothing (`macros_plain`). Without the first of
these restrictions a table of arguments stays on the environment when it is destroyed: with
`Plain = FALSE` TLC finds a form that searches a freed table after a macro that was called within a call of
itself. That is no run of its own, since nothing in the repository says that macros may do so; neither is
the call of an outdated copy, which `Escaping = FALSE` excludes. What the expansion is, and that it replaces
the form that was called, is in `Cells`.

### Compiler

`slot[f]` is the closure on the symbol `f`, `module[f]` the code of its *entry block* in the LLVM module, a
sequence of call sites. A site names a function and the way to it: `slot` in interpreted code; in compiled
code `direct` if the callee's flag was set when the code was generated, else `clos2`. A call of a compiled function
by interpreted code generates code once more: `createCaller` runs `codegen` on the *values* of the arguments. A
number is a constant there, but a comparison evaluates to its own form, so in `(f (< (g 1) 2))` the call of `g` is
emitted, `clos2` is set to `g`, and `g` is called a second time (`InValues`, `Caller`, `Through`).

Three constants say what a program does: `Sharing`, whether compiled code ever needs `clos2` for a second
function, `Redefines`, whether a compiled function is ever defined again, and `Forms`, whether interpreted code ever
passes a value with calls in it to a compiled function. With all three `FALSE` the compiler implements `Calls`
(`compiler_plain`). Each of them alone breaks it: `compiler_shared` shows the first. With the second the module
keeps the code of the first definition, its entry block, and compiled callers run it; with the third a function
makes calls that its source does not have. There is no run for these two, as no text of the repository promises
otherwise. What holds of all programs is in `compiler_any`. Outside the model are `native`, which generates code
from its argument forms, and a `compile` that runs while compiled code, having read `clos2`, computes the
arguments of the call.

### Types

`proto[n]` is the prototype on the symbol `n`, function and parameter alike. `Defun` is
`inferFunctionType`, which `evalHelper` calls before it evaluates a form, with the definition that follows:
each parameter gets the type of its first use in the body (`InferType`), one after the other, then the
function the type of its body (`EvalType`) and of its parameters. `Compile` records for each call of an
interpreted function what the format string is made of (`sites`), and whom it was made for, which is
history. `Code` holds the cells of all bodies, and a cell is a number, the place of its contents; its arguments
are cells that come before it, since the reader makes no cell that contains itself. So what the code does by
recursion into a form (`InferType`, `EvalType`, `Within`) is a recursive function on `Cells`, about which
TLAPS can reason. The special forms that inference looks into are `if`, `when` and `progn`.
Functions are rarely defined in the order they call each other, and whatever is not known yet is `u` or,
for a call of a function that is not defined, `l`.

`ArgumentsArrive` says when the letters of the format string suffice: for functions whose parameters are
each first used as an operand. The restriction is needed: `(if x (+ x 1) 0)` first uses `x` at a place
that has no type, `x` stays unknown, and the call passes nothing. Neither does it hold if a parameter
is named like a function: they are one symbol, and the parameter overwrites the prototype of the function.
The assumption that those names are apart is one about programs; `todo.org` has the same thought as
an open item ("ne pas utiliser le même symbol en dehors d'un fonction?"). `ValueTypeRight` says that the
type of a value is that of every branch, as far as one can tell from the prototypes at that time, except
for the `nil` of `when`.

### Reader and loop

A text is a sequence of characters. Digits, the characters of operators and all that the reader treats in a way
of its own are there; `Blank` stands for all white space, and `bq` is the back quote. `Reader`
follows the functions of `parse.cpp` one by one, the stream being a position in the formatted text. Reading moves
on, so what `parseSexp` returns from one position is a function of what it returns from later ones
(`ParseRest`), and so it is with the loop of `parse` (`CellsFrom`).

`Printer` is the operators `<<`. `Shown[n]` gives the text of every cell that is nested at most `n` deep; `Levels`
bounds what `Show` prints, and the theorems hold for any. A number is its digits: `Number` is what `atof` and
the stream make of a word together, so zeros in front are dropped, and a word like `-a` that passes for a
number is `0`. Numbers with a fraction or an exponent, and those with more than the six digits that a
stream prints, are left out (`Floating`, `Precision`): `1234567` prints as `1.23457e+06`, which is
another number.

`Notation` writes. `rows` has the row of cells that is being written, behind those around it, one for each
parenthesis that is open: the text, the cells it stands for, and a quote character that waits for its cell. What may
be written next depends only on how the text ends (`Ended`), and `With` is the row with one more cell; the
reader is not asked. Texts like `` `,a`` and `(a(b))` are never written: the reader takes `,a` and `(a(`
to be words. Nor are strings with parentheses or quote characters in them: `parse` puts blanks beside these in
strings too, so that `(print "fibo succeed ;)")` of `tests/fibo.cl:15` prints `fibo succeed ; )`. `Spelled` says all this of
the words and strings.

`Repl` adds the state of `main`. `parseSexp` has no `return` where the text ends inside a list:
the action `Evaluate` is the build in which the caller finds a null pointer, `Crash` the one in which it
does not, and the choice is open at each line. `Whole` is the part of what was read that evaluation gets to,
up to the null pointer. `LoadFile` is the file given on the command line, which is one
text and of which nothing is kept; of a file that does not exist, `loadFile` evaluates an empty text for
ever, which is a step that repeats.

Three kinds of lines behave in ways one does not expect, and the model does what the code does. A line that closes a
form and opens another makes the first be evaluated again with the next line. An empty line leaves the line before
it in `in`, which is then evaluated again, or, if a form is open, put into it a second time. Of a line with a `;`
behind code, the code is dropped with the comment if no `(` comes before the `;`, as in `x) ; remark`; otherwise the
comment is read as more symbols. `EachFormOnce` is about lines of none of these kinds; `NoneLost` allows the first,
and the second between forms. The run has lines of all three kinds. Nothing in the repository says what such lines
should do. The eight `load` forms that `main` evaluates before are not modelled.

### Cells and trees

`Trees` is evaluation as one would explain it: `Meaning(e, scope, defs)` is the value of a form and the
tables as they are afterwards. `Cells` is evaluation as it is. A cell has an identity, an entry in `cells`;
symbols are interned, numbers and lists are made when they are read or computed; `self` is the `weakRef`
through which an atom evaluates to itself. `Duplicate`, the overwriting of the form of a macro call
(`Overwritten`) and of a template (`Backquote`, `Replace`) and the number that a comparison leaves in its own
form (`Compared`) change cells in place or copy them with the `weakRef` of the original; `append`, `list`,
`car`, `quote` and variables hand out cells that other values and the code hold too. One step is one
top-level form (`Evaluate`) or definition (`Define`), after which the cells that nothing holds are dropped
and the references to them expire (`Kept`). `global` holds cells, `variables` and `defs` are what `Trees`
says they mean. `Eval` and what it calls have one operator per C++ lambda; the operators take and return the
memory, in the order of the evaluation.

`ResultsAgree`, `VariablesAgree` and `NoneExpired` compare the two. They hold for the programs that the
assumptions name: no strings; no empty lists as values; symbols as values only `t` and `nil`; a comparison is
tested or computed with, not kept or shown, since its value is its form; functions that an expansion names are not defined again (their
old body stays in the expanded form); macros do not name variables of their callers; the last
argument of `print` has no effects; lists that are compared are not prefixes of each other. For all but
the first the code does something else than `Trees`, as the hazards in `PROJECT.json` say, mostly without a
text that promises anything. One rule of `Trees` is the code's own: only the number 0 ends `and` early, `nil` does
not, so `(and nil 1)` is 1. The code drops a cell with
its last pointer, the model at the end of the line: a reference that expires within a line is missed from the next
line on. Where a test does, there is a run: in `cells_captured`, the first call of
`mydouble` as in `tests/m.cl` finds `a` and `b` of the macro in place of its own parameters and yields
`nan`, and the second call, of the form that is now overwritten, yields 58.

### Echo

`socket.cpp` is a demonstration next to the interpreter. `pc` is the call that the server makes next. The
kernel is modelled by what the calls return: `accept` takes the first connection of the queue, the lookup of
the client's name may fail, `read` waits until there is something, the end of the stream or a reset, and
returns part of what was sent, `write` fails on a connection that was reset. Every failure ends the
program; `accept` may fail at any time (`AcceptFails`). Clients connect, send, close and reset when they like.
A message may fill the buffer, so that it has no zero byte: `strlen` and `write` then read what lies behind it, which is
any bytes here, at most `MaxBeyond`, or the end of the program. `Echoed` says that only a client whose own bytes
filled the buffer may get others, behind its own.

## What the runs check

| Run | Bounds | Shows |
|---|---|---|
| `scoping_plain` | 1 name, 1 value, 2 closures, 4 stack tables, 3 nested forms, captured chains up to 2; 938 000 states | `TypeOK`, `EnvRestored`, `ScopeLive`, `ArgsSeeCaller`, `NullOnlyUnderLetStar`, `ScopeSpec` (refinement), `SetqReadBack` |
| `scoping_escape` | 1 name, 1 closure, 2 stack tables, 2 nested forms, `Escaping = TRUE` | violates `ScopeLive` |
| `compiler_plain` | 3 functions, all bodies of up to 2 calls, 3 nested calls; 160 000 states | `CallsSpec` (refinement) |
| `compiler_any` | 3 functions, bodies of up to 1 call, 2 nested calls, sharing, redefinition and values of arguments with up to 1 call; 2 658 000 states | `TypeOK`, `RecursesDirectly`, `Linked`, `InterpreterExact` |
| `compiler_shared` | 3 functions, up to 2 calls in a body | violates `RunsNamed` |
| `reader_plain` | the words `a`, `+` and `-01`, a string with a blank, texts of up to 6 characters and the parentheses that are open (2 at most), rows of up to 2 cells; 664 000 states | `ReadsBack`, `PrintsBack` |
| `types_defined` | 2 functions, 2 names of parameters, 8 definitions; no other bound | `TypeOK`, `ArgumentsArrive`, `ValueTypeRight` |
| `repl_lines` | 3 files (none, empty, one that ends in an open form), 8 lines, with a quote, a string, a comment, one behind code and the empty line among them, 4 typed; 26 000 states | `EachFormOnce`, `NoneLost`, `ReadAgain` |
| `macros_plain` | 1 macro, 2 functions (or one and its copy), 3 stack tables, 3 nested forms, chains up to 6 at a macro call; 366 000 states | `OnlyGlobalLeft`, `ScopeLive` |
| `cells_plain` | a program of 7 lines, then any 5 of 7 lines: 2 macros, one of which expands into the other, recursion, a redefinition, shared lists | `ResultsAgree`, `VariablesAgree`, `NoneExpired` |
| `cells_captured` | 1 macro, 1 function, up to 2 calls | violates `ResultsAgree` |
| `echo_clients` | 2 clients, 2 bytes and the zero byte, buffer of 2, queue of 2, messages up to 2 bytes, 1 byte behind the buffer; 128 000 states | `TypeOK`, `Echoed`, `AllServed` (liveness) |

Why these bounds are enough to be worth something. Direct recursion needs one closure entered twice, mutual
recursion two closures, and a `let` in between a third frame: all of them fit in
three nested forms, and a table that is reused while a closure still points to it needs two frames; the fourth is
there because a call from compiled code takes two. A wrong count of pops shows after one
return. In the compiler, one function that calls two others, or two functions that call one each, and a
caller compiled before and after its callee, are all there with three functions. The reader's decisions
look at one character and whether a word goes on; six characters put every construct beside, and two
parentheses inside, every other.
The loop's behaviour depends on the kept text and one more line; in four lines a list and one in it are opened
and closed, with other forms before or behind, and the file adds forms in front (for more lines there are
theorems). A macro's environment grows by one table with each call, so the bound on
chains is one on the number of calls; four calls and three nested forms are more than it takes to go wrong.
For the scopes, macros, the compiler, types, the reader and the printer, the loop and the echo server the theorems
below have no bounds at all; the runs are there to show that the properties can be met and broken.
What evaluation does to code shows at the second and third evaluation of the same form: in five lines every
function is called again after each of the others, and after a value it shares has changed hands. The echo
server needs a second client to leave something in the buffer for, a message longer than the next, and one that
fills the buffer.

The definitions of `types_defined` use a parameter in arithmetic, in a string, at an untyped place, as the
argument of the other function or of the function itself; each can be redefined as any other, before or after
its callers are compiled.

`MaxDepth`, `MaxCapture`, `MaxChain`, `MaxCells`, `MaxLength`, `MaxLines`, `MaxSent` and `MaxBeyond` are the bounds in guards and of what is enumerated, and
`Levels` is one on what `Show` prints (the run writes nothing that is nested deeper). `CHECK_DEADLOCK FALSE`
is set where the system stops: a text is as long as the bounds allow, the loop and the lines of `Cells` end, and
the echo server ends when a call fails or waits when no client comes any more.

Fairness is assumed of the echo server only: `WF_vars(Server)`, a process that the operating system runs
whenever its next call can return. Nothing is assumed of clients; that no client stays silent for ever, and
that the server survives, are premises of `AllServed`, because the code has neither a timeout nor a way to go
on after a failed call. The interpreter has no liveness property: it runs the program it is given,
which may loop or wait, and nothing schedules it.

The three runs that end in a violation are disagreements between the code and what its comments, tests or
Readme say; `PROJECT.json` quotes both sides. `scoping_escape` is visible when running `tests/lol.cl` and
`tests/funcall.cl` on a current compiler: both crash. The interpreter prints the `nan` of
`cells_captured`, and the results of the lines of `cells_plain` were compared with those of the interpreter.

## What is proved

The proofs about scopes are for any number of names, values, tables and closures and any bounds, from the
assumption `ScopingAssumption` that the sets of identities are disjoint and the bounds natural numbers.
`ScopesLive`, `NullHidden` and `SetqKept` are about programs that call no closure while its environment holds a
table that is gone (`~Escaping`).
Those about the compiler are for any functions, any set of bodies of any length and any depth of calls, from
`CompilerAssumption`: bodies are sequences of functions, and the markers `Undefined`, `Jit` and `None` are
none of the things they are told apart from. Those about the echo server are for any clients, bytes and sizes,
from `EchoAssumption`: the sizes are natural numbers, and the zero byte is none of those that clients otherwise send. Those about macros are for programs that call no
macro while a call of it is in progress (`Plain`, as in the run). Those about types are for any code, any
definitions and any names, from `TypesAssumption` and `CodeAssumption`: no function or parameter is named like a
primitive, the parameters of a definition are different, and a cell contains earlier cells. Those about the
loop are for any files, any lines and any number of them, from `ReplAssumption`: they consist of characters. Those
about reading and printing are for any words and strings that are `Spelled`, however long and nested the text:
the bounds of `Notation` are no assumption, and `LevelsAssumption` says that `Levels` is a natural number. TLC
evaluates `Spelled` for the words of the run.

* `TypeCorrect`, `Restored`, `ArgumentsSeeCaller` (`Scoping_proof`): `TypeOK`, `EnvRestored` and
  `ArgsSeeCaller` are invariants of `Spec`.
* `ScopesNest` (`Scoping_proof`): `Spec => ScopeSpec`; `Scoping` implements `ScopeStack`.
* `ScopesLive` (`Lookup_proof`): `~Escaping => (Spec => []ScopeLive)`.
* `NullHidden` and `SetqKept` (`Lookup_proof`): `~Escaping => (Spec => []NullOnlyUnderLetStar)` and
  `~Escaping => (Spec => SetqReadBack)`.
* `CompilerTypes`, `Recursion`, `Linking`, `Interpretation` (`Compiler_proof`): `TypeOK`,
  `RecursesDirectly`, `Linked` and `InterpreterExact` are invariants of `Spec`, whatever is shared,
  redefined or generated again.
* `Transparency` (`Compiler_proof`): `~Sharing /\ ~Redefines /\ ~Forms => (Spec => CallsSpec)`; `Compiler`
  implements `Calls`.
* `GlobalLeft`, `MacroScopesLive` (`Lookup_proof`): `Plain => (MacroSpec => []OnlyGlobalLeft)` and
  `Plain /\ ~Escaping => (MacroSpec => []ScopeLive)`. The first says nothing of macros that compiled code has called or
  that captured a table since destroyed; the second is about programs that do not call those.
* `PrototypesTyped`, `ValueTypes` (`Types_proof`): `Spec => []TypeOK` and `Spec => ValueTypeRight`.
* `ArgumentsPassed` (`Types_proof`): `Functions \cap Params = {} => (Spec => []ArgumentsArrive)`.
* `WrittenIsRead`, `PrintedIsRead` (`Reader_proof`): `Spelled => (NotationSpec => []ReadsBack)` and
  `Spelled => (NotationSpec => []PrintsBack)`.
* `ReadsAgain` (`Repl_proof`): `Spec => ReadAgain`, without a condition on lines or files.
* `FormsOnce`, `FormsKept` (`Repl_proof`): `PlainLines => (Spec => []EachFormOnce)` and
  `PlainLines /\ <<>> \notin Lines => (Spec => []NoneLost)`, where `PlainLines` says that there are no quotes and no
  strings but in comments, empty lines and lines with a `;` behind code, which the properties except. Files are arbitrary.
* `ServerTypes`, `OwnEcho` (`Echo_proof`): `TypeOK` and `Echoed` are invariants of `Spec`.

The argument for the first three. `EnvRestored` talks about environments no form uses, so it says nothing
in the states where chains are long; it becomes inductive as `IInv == TypeOK /\ Shape`. `Shape` says what
every chain is while forms are running: a record's chain is its `before` plus what the form pushed; the
chain of an environment is the chain of the *latest* record of that environment (`Latest`), an environment
without records has its base (`Idle`), the first record of an environment was entered with the base
(`First`) and a later one with the chain of the record before it (`Later`). The critical step is
`CallReturn`, whose number of pops is the *current* length of the caller's chain: at that time the caller's
latest record is the one just below, or the caller has none and its base, so by `Latest`, `Idle` and
`Nesting` its chain is what it was when the call pushed it; of a call from compiled code it is two tables that were
pushed and two that are popped. Each action has a lemma that it preserves
`IInv`, and says which of four kinds of step it is; the refinement is proved per kind. `IInv(G)` has a
parameter, the set of environments that global tables may be left on: none in `Scoping`, those of macros in
`Macros`, so that the lemmas about the steps of `Scoping` serve both.

`ScopesLive` adds to `IInv` that every table in the chain of a form is the global one or was pushed by that
form or one around it (`Reach`), the empty one of a call from compiled code included, and so was every table that a closure captured which is not stale
(`Kept`). A table dies only when its form is left; then it is in no chain of the forms that remain, and the
closures that captured it are stale, and are not called.

`NullHidden` and `SetqKept` add `Bound`, which is about what the tables hold. `Labelled`: an empty pointer is in
a table only under the label that the `let` or `let*` of that table is evaluating, or in that of a call made while
a `let*` evaluates a label. The table of a `let` is not pushed, so by `Reach` no lookup gets there, and no argument
is bound to what it holds. A call's table is gone before the `let*` around it goes on. `Nested`: the chain of a form that is evaluated in the environment of
`main` has all the tables of the forms around it. `Aimed`: the iterator of each `setq` in progress is still where a lookup of
its name in its chain ends, and if it was `end()`, the name is still unbound there, except perhaps in the
global table, into which another `setq` of that name may have stored. It is kept because every table that a
step changes belongs to the innermost form, so by `Reach` it is in no chain below (`Outside`), and because
an inner `setq` stores where its name is bound already, or into the `top` of a captured copy, which is in no
chain, or into the global table, and then it sees what an outer one sees (`Nested`).

For macros, `Macro` says that the global table is at the bottom of every chain (`Bottom`) and that no macro has
two calls in progress (`Once`). A macro call pushes the caller's chain and a table, and pops as many as the
caller's chain has at its end; what remains on top of what was there is then the bottom of the caller's
chain, which is the global table, or, if compiled code called, the empty table of the call, which makes the macro
stale. The lemmas of `Lookup_proof` about forms that come and go hold for macro
calls as well, and a duplicate captures a chain of global tables only.

For types, nothing is inductive on the code, as its induction theorems are out of reach; every lemma about a
recursive function on `Cells` takes the least cell at which it would be wrong (`LeastOf`). `ArgumentsArrive`
becomes inductive with `Fits`: the prototype of a function whose parameters show that they are numbers at
their first use has the letter f for each of them. It stays so when other functions are defined, because
these change prototypes of parameters and of their own name only: here the theorem needs that no name is both.
`FirstUseTells` is the central lemma: while the prototypes of primitives are what they were, `inferType` finds
number for such a parameter, whatever the prototypes of functions say. `ValueTypes` is about a step: the
type of each branch is one of those that can be returned given what the prototypes say, and unlike branches
give `u`.

For `WrittenIsRead`, that a text is read as its cells says nothing of what is read when more is written behind it or
a parenthesis around it. `Stands(x, c)` does: wherever `x` is in a formatted text, with nothing behind it that its last
word would take in (`Free`), the reader makes the cell `c` of it and goes on at its end. `Row(x, cs)` is the
same for a row of cells, at the top and in a list. The invariant `RowsOK` says that every row, formatted, is
a `Row` of its cells, and that no row with an open parenthesis behind it ends in a word. A word stands
for a symbol or a number (`StandsPlain`), and so do a string (`StandsString`), a quote character with a cell
behind it (`StandsQuote`) and a row between parentheses (`StandsList`); a cell or a blank behind a row makes a row
(`RowCell`, `RowBlank`). A last lemma about each is that the formatting of `parse` changes nothing of it but blanks.

`PrintedIsRead` adds to the invariant that what is printed of each cell without strings stands for a cell that
prints the same (`PrintOK`), at every level at once. It may be another cell: `-01` is printed
as `-1`. The text of a list is made of those
of its cells with a blank behind each, hence a row again (`ListPrints`), and what `Number` makes of a word it
leaves alone when it meets it again (`NumberAgain`). That `Shown` is a function at all is `ShownIs`.

For the loop, `ReadsAgain` rests on the reader: reading a text and reading it with another one behind it go
the same way for as long as no cell touches the end of the first (`Firm`, `SexpSame`), so what is read
before an open list stays (`PrefixForms`). The lemmas about the reader are in `Reader_proof`. `FormsOnce` and `FormsKept` have the invariant `EachRead`: as long as all lines were regular, that is, not empty and all code
or all comment, the lines typed so far are a text `a`, which was read to its end, and behind it what is kept. What was evaluated contains
the forms of the file and of `a`, and is exactly these if no line closed a form and opened one. A new line
continues both texts in the same way, because the forms of two texts one behind the other are those of the
first and those of the second, if the first is read to its end and the second begins with a blank
(`ParseConcat`); for that the reader must do behind the first text what it does at the beginning of one
(`SexpShift`, `TopsShift`, `JoinForms`). `PlainLines` is what makes this simple: a string or quote
that is open at the end of a line goes on in the next one, and what follows is read otherwise. An empty line is not
regular; `FormsKept` assumes that there is none, and for those between forms `NoneLost` is only model-checked.

The lemmas about `Find` in `Scoping_proof`: it finds the last table that holds a name, and depends
only on the tables from there on. `WellFoundedInduction` and `SequenceTheorems` are used for the last
position in a sequence and for appending and cutting.

For the compiler, `IInv` adds to the four invariants that a closure is the latest source or runs compiled
code, and that only what has a source was compiled (`Sources`), and that a call in progress runs the code of
the module or a body whose calls all go through closures (`Running`). `Linked` is needed to call at all:
without it a call of compiled code would run an activation with no code. It speaks of the calls in progress as well,
because those that are generated from the values of arguments are not in the module. `Transparency` needs more facts,
which the restrictions buy: while no argument has calls in its value, what runs is the code of the module alone; while `clos2` serves one function, every call that was emitted through it
names the function it points to now (`Exclusive`), and while compiled functions keep their definition the
module has the calls of the latest one (`UpToDate`). `RunsNamed` and `RunsLatest`, the first of which
`compiler_shared` refutes in general, are part of that invariant, so they hold under the restrictions.

The echo server's invariant adds to `TypeOK` and `Echoed` that a connection which nobody has accepted is
untouched (`Waiting`), which connection is served at each call, and that nothing of it came back before
the write (`Serving`), and what is in the buffer: what was read, and zeroes behind it, because `read` is
preceded by a `bzero` of all of it (`Buffered`). If there is no zero byte in the buffer, then all of it was
read from the client that is served, and so its bytes filled it.

Only model-checked: `AllServed`, as liveness is out of TLAPS's reach; everything about `Cells`, whose operators
are recursive on trees and on a memory that grows, for which the prover has neither definitions nor induction;
`EachFormOnce` and `NoneLost` for lines with quotes and strings, and `NoneLost` with empty lines between forms.

## Not modelled

* Module loading (`load`, the handlers of libraries, native functions through `externalCall`): it runs foreign
  code. The start-up sequence is eight such calls.
* Strings, `-`, `/`, `funcode`, `exit`, `printenv`: they keep no state, and the numbers of `Cells` are natural.
* `Env::operator[]` of a name that is not bound, which makes an entry with the empty pointer in the innermost table
  (`environment.cpp:38`): all its calls come after a `find` of the name, except that of `comma` of an unbound name
  (`special.cpp:201`), and no program of the models has one.
* Tracing and timing, which only print; the other demonstrations and experiments.
* A function that is redefined or compiled while a call of it is in progress, macros that are called
  while a call of them is in progress in `Cells`, the programs that the sections on cells and echo exclude:
  mostly undefined behaviour in the C++ sense.

## Plan

1. Done: `Environment`, `Scoping`, `ScopeStack`, `Macros`, `Calls`, `Compiler`, `Types`, `Reader`, `Printer`, `Notation`,
   `Repl` and `Echo` with proofs; `Trees` and `Cells`.
2. `Repl_proof`: lines with quotes, for which the shift and concatenation lemmas hold as long as no quote is
   the last character of a line; then strings that are closed on their line.
3. `Types`: the prototypes at the time of a call instead of that of the compilation, which needs `Types`
   and `Compiler` in one; the other special forms that have a type.
4. `Cells`: strings, closures as values, backquote in functions.
